------------------------------ MODULE Processes ------------------------------
(***************************************************************************)
(* The operating system's processes as internal/supervisor sees them.      *)
(* A pid is free, just forked (the child still runs iold's own image),     *)
(* live (exec succeeded) or a zombie.  Only the supervisor's observations  *)
(* and signals are code under src/; what processes do on their own is the  *)
(* environment, modelled from what the supervisor defends against.         *)
(***************************************************************************)
EXTENDS Universe, Naturals, FiniteSets

CONSTANTS
  Workers,          \* what a runtime forks: "none", "distinct" or "same"
                    \* (workers that show their leader's command line)
  StrangersLead,    \* unrelated processes may lead a process group
  Strangers,        \* pids that at boot run a deployment's very command,
                    \* started by someone else
  MaxExtras         \* bound: no worker or stranger starts after this many
                    \* process starts

ASSUME ProcessesAssumption ==
  /\ Workers \in {"none", "distinct", "same"}
  /\ StrangersLead \in BOOLEAN
  /\ Strangers \subseteq Pid
  /\ MaxExtras \in Nat

VARIABLES
  os,       \* the process table
  clock     \* process starts so far; a start token is the clock at its start

\* id: whose command or cache the process works for; key: the deployment that
\* started it, 0 for a stranger; shows: its command line is that deployment's.
Slot == [st : {"free", "forked", "live", "zombie"}, id : Id \cup {NoId},
         key : Nat, shows : BOOLEAN, pgid : Pid \cup {NoPid}, tok : Nat]

FreeSlot == [st |-> "free", id |-> NoId, key |-> 0, shows |-> FALSE,
             pgid |-> NoPid, tok |-> 0]

ProcessesInit ==
  /\ clock = 0
  /\ \E i \in Id :
       os = [p \in Pid |->
               IF p \in Strangers
               THEN [FreeSlot EXCEPT !.st = "live", !.id = i, !.shows = TRUE,
                                    !.pgid = p]
               ELSE FreeSlot]

-----------------------------------------------------------------------------
(* What the supervisor can observe.                                        *)

\* kill(pid, 0): a zombie still answers.
Alive(p) == os[p].st # "free"

processLeaderAlive(g) == Alive(g)
processGroupAlive(g) == \E p \in Pid : Alive(p) /\ os[p].pgid = g

\* Start token and command line agree; a zombie's command line is empty.
Owned(p, t, i) ==
  os[p].st = "live" /\ os[p].tok = t /\ os[p].shows /\ os[p].id = i

Reconcile(p, t, i) ==
  CASE ~Alive(p)      -> "STALE"
    [] Owned(p, t, i) -> "RUNNING"
    [] OTHER          -> "REUSED"

\* Mutants: no lower bound on the start time, and one that rounds up.
FindByCommandAnyAge(i, since) ==
  {p \in Pid : os[p].st = "live" /\ os[p].shows /\ os[p].id = i}
\* Processes that show deployment i's command and started after `since'.
FindByCommand(i, since) ==
  {p \in Pid : /\ os[p].st = "live" /\ os[p].shows /\ os[p].id = i
               /\ os[p].tok > since}

-----------------------------------------------------------------------------
(* Process starts and deaths.                                              *)

\* The kernel hands out a pid only when no process and no group has it.
Unused(p) == \A q \in Pid : Alive(q) => q # p /\ os[q].pgid # p

\* fork in a session of its own: the child leads group p.
Fork(p, i, k) ==
  /\ clock' = clock + 1
  /\ os' = [os EXCEPT ![p] = [st |-> "forked", id |-> i, key |-> k,
                              shows |-> TRUE, pgid |-> p, tok |-> clock + 1]]

Dead(s) == [s EXCEPT !.st = "zombie", !.shows = FALSE]

\* SIGKILL to a group.
KillGroup(g) ==
  os' = [p \in Pid |-> IF os[p].pgid = g /\ os[p].st \in {"forked", "live"}
                       THEN Dead(os[p]) ELSE os[p]]

\* Mutant: only the child is killed, not what it has forked.
KillChildAndWait(g) == os' = [os EXCEPT ![g] = FreeSlot]

\* SIGKILL to a group whose leader is the caller's child, then wait for it.
KillGroupAndWait(g) ==
  os' = [p \in Pid |-> IF p = g THEN FreeSlot
                       ELSE IF os[p].pgid = g /\ os[p].st \in {"forked", "live"}
                       THEN Dead(os[p]) ELSE os[p]]

ForkWorker(p) ==
  /\ Workers # "none"
  /\ clock < MaxExtras
  /\ os[p].st = "live" /\ os[p].key # 0
  /\ \E q \in Pid : /\ Unused(q)
                    /\ os' = [os EXCEPT ![q] =
                         [os[p] EXCEPT !.shows = (Workers = "same"),
                                       !.tok = clock + 1]]
  /\ clock' = clock + 1

\* Somebody else's process gets a pid, possibly one iold recorded.
StrangerStarts(p) ==
  /\ clock < MaxExtras
  /\ Unused(p)
  /\ \E g \in IF StrangersLead THEN {p, NoPid} ELSE {NoPid} :
       os' = [os EXCEPT ![p] = [FreeSlot EXCEPT !.st = "live", !.pgid = g,
                                                !.tok = clock + 1]]
  /\ clock' = clock + 1

ProcessExits(p) ==
  /\ os[p].st = "live"
  /\ os' = [os EXCEPT ![p] = Dead(@)]
  /\ UNCHANGED clock

Reaped(p) ==
  /\ os[p].st = "zombie"
  /\ os' = [os EXCEPT ![p] = FreeSlot]
  /\ UNCHANGED clock

=============================================================================
