-------------------------------- MODULE Files --------------------------------
(***************************************************************************)
(* What a deployment leaves on disk: deployments/<id>/api-key, logs/<id>.log*)
(* and the model cache with its ownership marker .iold-owner               *)
(* (internal/cli/deploy.go, internal/cli/cli.go, supervisor/log_proxy.go). *)
(***************************************************************************)
EXTENDS Universe, Integers

CONSTANT
  Alien     \* ids whose cache directory already holds somebody's data

ASSUME AlienAssumption == Alien \subseteq Id

VARIABLES
  keys,     \* ids that have an api-key file
  logs,     \* ids that have a log file
  proxies,  \* ids with a log proxy that has not opened its file yet
  cache     \* the model cache directory of each id

fileVars == <<keys, logs, proxies, cache>>

\* Marker contents: no file, a file without a key, or a deployment's key.
NoMarker == -1
EmptyMarker == 0

Cache == [dir : BOOLEAN, marker : Nat \cup {NoMarker},
          data : {"none", "model", "alien"}]

NoCache == [dir |-> FALSE, marker |-> NoMarker, data |-> "none"]
AlienCache == [dir |-> TRUE, marker |-> NoMarker, data |-> "alien"]

FilesInit ==
  /\ keys = {} /\ logs = {} /\ proxies = {}
  /\ cache = [i \in Id |-> IF i \in Alien THEN AlienCache ELSE NoCache]

\* Mutant: a cache without the right marker is passed over.
modelCachePassedOver(i, k) ==
  IF cache[i].dir /\ cache[i].marker = k THEN "owned" ELSE "absent"
\* A cache may be removed, is not there, or must be left alone.
modelCacheOwnedBy(i, k) ==
  CASE ~cache[i].dir       -> "absent"
    [] cache[i].marker = k -> "owned"
    [] OTHER               -> "refused"

\* Mutant: a directory without a marker is claimed, whatever it holds.
ClaimableUnmarked(i, k) == cache[i].marker \in {NoMarker, k}

\* A directory can be claimed when it carries this key or nothing at all.
Claimable(i, k) ==
  IF cache[i].marker = NoMarker THEN cache[i].data = "none"
                                ELSE cache[i].marker = k

\* The detached proxy creates the log file whenever it gets to run.
ProxyOpensLog(i) ==
  /\ i \in proxies
  /\ logs' = logs \cup {i}
  /\ proxies' = proxies \ {i}
  /\ UNCHANGED <<keys, cache>>

\* A running runtime downloads into its cache, creating it if need be.
RuntimeWrites(i) ==
  /\ cache[i].data = "none"
  /\ cache' = [cache EXCEPT ![i].dir = TRUE, ![i].data = "model"]
  /\ UNCHANGED <<keys, logs, proxies>>

=============================================================================
