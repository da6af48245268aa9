------------------------------ MODULE MCServing ------------------------------
(***************************************************************************)
(* Instances of Serving for TLC.                                           *)
(***************************************************************************)
EXTENDS Serving, TLC

CONSTANTS mine, other, newKey, oldKey, foreignKey, noKey

Names == {mine, other}
Keys == {newKey, oldKey, foreignKey}

Healthy(model, key) ==
  [model |-> model, key |-> key, failLoad |-> FALSE, healthyAfter |-> 0, malformed |-> FALSE]

\* A web server whose /health answers, one that answers nothing, another
\* model's vLLM, and an orphan of an earlier deployment of the same name.
Web == Healthy(other, noKey)
Broken == [Web EXCEPT !.failLoad = TRUE, !.malformed = TRUE]
Foreign == Healthy(mine, foreignKey)
Orphan == Healthy(mine, oldKey)
Others == {Web, Broken, Foreign, Orphan}
JustWeb == {Web}
Nothing == {}

\* A server of the user's own: the same model, open to everybody.
Open == {Healthy(mine, noKey)}

\* Quick, slow, too slow, failing to load, and one whose list is cut short.
Quick == {Healthy(mine, noKey)}
Outcomes ==
  Quick \cup {[Healthy(mine, noKey) EXCEPT !.healthyAfter = n] : n \in {1, 4}}
  \cup {[Healthy(mine, noKey) EXCEPT !.failLoad = TRUE],
        [Healthy(mine, noKey) EXCEPT !.malformed = TRUE]}

Scene(oldPort, alive, squatters, visitors, n, runtimes, healthTimeout, slow) ==
  [oldPort |-> oldPort, oldAlive |-> alive, squatters |-> squatters, visitors |-> visitors,
   visits |-> n, runtimes |-> runtimes, healthTimeout |-> healthTimeout, readyTimeout |-> 1,
   slow |-> slow]

\* The scan for a port while others come and go, and the waits for a runtime of
\* any outcome with any other server on the host.
AllScenes ==
  "scan" :> Scene(3, BOOLEAN, JustWeb, JustWeb, 2, Quick, 1, 1)
  @@ "serve" :> Scene(1, BOOLEAN, Nothing, Others, 2, Outcomes, 3, 1)

\* The recorded port is held by another program.
Taken == "taken" :> Scene(1, {FALSE}, JustWeb, Nothing, 0, Quick, 1, 0)

\* A server of others comes, or one of the same model that is open to everybody.
Visited == "visited" :> Scene(2, {FALSE}, Nothing, JustWeb, 1, Quick, 1, 0)
VisitedByOpen == "visited" :> Scene(2, {FALSE}, Nothing, Open, 1, Quick, 1, 0)

=============================================================================
