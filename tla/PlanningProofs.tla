---------------------------- MODULE PlanningProofs ----------------------------
(***************************************************************************)
(* Theorems about Planning for any repositories, hosts and units.          *)
(***************************************************************************)
EXTENDS Planning, TLAPS

-----------------------------------------------------------------------------
(* What is decided is decided of one revision.                             *)

\* Between the two requests and the decision: the configuration is the one of
\* the revision that was reported.  A deploy has no --vram; a repository has a
\* revision.
Resolved ==
  /\ pc = "decide" => cfg = repo[got].config
  /\ cmd.kind = "deploy" => cmd.vram = 0
  /\ repo # <<>>

\* What the last deploy was decided on follows from its revision and the host.
Decided ==
  IF deployed.sha = 0 THEN deployed = NoDeploy
  ELSE LET content == repo[deployed.sha]
           est == Estimate(content, content.config, DefaultContext)
           need == HubNeed(est)
       IN /\ content.sized /\ host.gpus # <<>>
          /\ deployed.est = est /\ deployed.need = need
          /\ deployed.maxLen = LaunchContext(content.config)
          /\ deployed.result = IF Gate(est.total) THEN "too big"
                               ELSE IF PreflightFailures(host, need) # {} THEN "checks failed"
                               ELSE "admitted"

\* What the last plan said follows from its revision, its flags and the host.
Planned ==
  IF planned.sha = 0 THEN planned = NoPlan
  ELSE LET content == repo[planned.sha]
       IN planned =
            [sha |-> planned.sha, context |-> planned.context, vram |-> planned.vram,
             verdict |-> Assess(Estimate(content, content.config, planned.context).total,
                                IF planned.vram = 0 THEN Largest
                                ELSE planned.vram * MiBPerGiB)]

PlanInv == TypeOK /\ Resolved /\ Decided /\ Planned

-----------------------------------------------------------------------------
\* A sequence and its extension by one.
LEMMA OneMore ==
  ASSUME NEW S, NEW s \in Seq(S), NEW e \in S
  PROVE  /\ Append(s, e) \in Seq(S) /\ <<e>> \in Seq(S) /\ <<e>> # <<>> /\ Len(<<e>>) = 1
         /\ Len(s) \in Nat /\ Len(Append(s, e)) = Len(s) + 1
         /\ Append(s, e) # <<>>
         /\ \A i \in 1 .. Len(s) : Append(s, e)[i] = s[i]
OBVIOUS

\* The length of a sequence, and its elements.
LEMMA Lengths ==
  ASSUME NEW S, NEW s \in Seq(S)
  PROVE  /\ Len(s) \in Nat
         /\ s # <<>> => Len(s) > 0
         /\ \A i \in 1 .. Len(s) : s[i] \in S
OBVIOUS

\* The facts of the type invariant, one by one.
LEMMA Typing ==
  ASSUME TypeOK
  PROVE  /\ scene \in DOMAIN Scenarios
         /\ repo \in Seq(Scenarios[scene].contents) /\ Len(repo) \in Nat
         /\ host \in Scenarios[scene].hosts /\ token \in BOOLEAN
         /\ cmd \in Command \cup {NoCommand}
         /\ got \in 0 .. Len(repo)
         /\ planned.sha \in 0 .. Len(repo) /\ deployed.sha \in 0 .. Len(repo)
<1>1. repo \in Seq(Scenarios[scene].contents)
  BY Zenon DEF TypeOK
<1>2. Len(repo) \in Nat
  BY <1>1, Lengths
<1> QED BY <1>1, <1>2, Zenon DEF TypeOK

\* A command under way has what its decision needs.
LEMMA UnderWay ==
  ASSUME TypeOK, Resolved, pc = "decide"
  PROVE  /\ got \in 1 .. Len(repo) /\ cfg = repo[got].config
         /\ cmd.kind = "deploy" => host.gpus # <<>>
<1>1. got > 0
  BY DEF TypeOK
<1>2. got \in 1 .. Len(repo)
  BY <1>1, Typing
<1>3. cmd.vram > 0 \/ host.gpus # <<>>
  BY DEF TypeOK
<1> QED BY <1>2, <1>3 DEF Resolved

-----------------------------------------------------------------------------
\* At first nothing is decided.
LEMMA InitPlan ==
  ASSUME Init PROVE PlanInv
<1>1. PICK c \in Scenarios[scene].contents : repo = <<c>>
  BY DEF Init
<1>2. repo \in Seq(Scenarios[scene].contents) /\ repo # <<>> /\ Len(repo) = 1
  <2> DEFINE contents == Scenarios[scene].contents
  <2>1. c \in contents
    OBVIOUS
  <2> HIDE DEF contents
  <2>2. <<c>> \in Seq(contents) /\ <<c>> # <<>> /\ Len(<<c>>) = 1
    BY <2>1, OneMore
  <2> QED BY <1>1, <2>2 DEF contents
<1>3. Scenarios[scene].commands \in Nat
  BY PlanningAssumption DEF Init
<1>4. TypeOK
  BY <1>2, <1>3 DEF Init, TypeOK, NoCommand, NoPlan, NoDeploy
<1>5. Resolved /\ Decided /\ Planned
  BY <1>2 DEF Init, Resolved, Decided, Planned, NoCommand, NoPlan, NoDeploy
<1> QED BY <1>4, <1>5 DEF PlanInv

\* A push adds a revision and changes none.
LEMMA PushKeeps ==
  ASSUME PlanInv, Push PROVE PlanInv'
<1> DEFINE contents == Scenarios[scene].contents
<1>t. TypeOK /\ Resolved /\ Decided /\ Planned
  BY DEF PlanInv
<1>f. /\ scene' = scene /\ host' = host /\ token' = token /\ cmd' = cmd /\ pc' = pc
      /\ got' = got /\ cfg' = cfg /\ planned' = planned /\ deployed' = deployed
      /\ commands' = commands
  BY DEF Push, fixed
<1>1. PICK c \in contents : repo' = Append(repo, c)
  BY DEF Push
<1>2. /\ repo' \in Seq(contents) /\ repo' # <<>>
      /\ Len(repo') = Len(repo) + 1 /\ Len(repo) \in Nat
      /\ \A i \in 1 .. Len(repo) : repo'[i] = repo[i]
  <2> HIDE DEF contents
  <2>1. repo \in Seq(contents)
    BY <1>t, Typing DEF contents
  <2> QED BY <1>1, <2>1, OneMore
<1>3. /\ got' \in 0 .. Len(repo') /\ planned'.sha \in 0 .. Len(repo')
      /\ deployed'.sha \in 0 .. Len(repo')
  BY <1>2, <1>f, <1>t, Typing
<1>4. Command' = Command
  BY <1>f DEF Command
<1>5. TypeOK'
  BY <1>2, <1>3, <1>4, <1>f, <1>t, Zenon DEF TypeOK
<1>6. Resolved'
  <2>1. pc = "decide" => repo'[got] = repo[got]
    BY <1>2, <1>t, UnderWay
  <2> QED BY <2>1, <1>2, <1>f, <1>t DEF Resolved
<1>7. Decided'
  <2>1. deployed.sha # 0 => repo'[deployed.sha] = repo[deployed.sha]
    BY <1>2, <1>t, Typing
  <2> QED BY <2>1, <1>f, <1>t DEF Decided, Gate
<1>8. Planned'
  <2>1. planned.sha # 0 => repo'[planned.sha] = repo[planned.sha]
    BY <1>2, <1>t, Typing
  <2> QED BY <2>1, <1>f, <1>t DEF Planned, Largest
<1> QED BY <1>5, <1>6, <1>7, <1>8 DEF PlanInv

\* The steps that decide nothing leave both decisions alone.
LEMMA DecisionsStay ==
  ASSUME PlanInv, UNCHANGED <<fixed, repo, planned, deployed>>
  PROVE  Decided' /\ Planned'
BY DEF PlanInv, Decided, Planned, Gate, Largest, fixed

\* Types that only the command under way can break.
LEMMA TypesStay ==
  ASSUME TypeOK, UNCHANGED <<fixed, repo, planned, deployed>>,
         cmd' \in Command \cup {NoCommand},
         pc' \in {"idle", "host", "model", "config", "decide"},
         got' \in 0 .. Len(repo),
         pc' \in {"config", "decide"} => got' > 0,
         pc' \in {"model", "config", "decide"} => cmd'.vram > 0 \/ host.gpus # <<>>,
         commands' \in 0 .. Scenarios[scene].commands
  PROVE  TypeOK'
<1>1. scene' = scene /\ host' = host /\ token' = token /\ repo' = repo
  BY DEF fixed
<1>2. Command' = Command
  BY <1>1 DEF Command
<1> QED BY <1>1, <1>2, Zenon DEF TypeOK

\* A new command begins with nothing resolved.
LEMMA StartKeeps ==
  ASSUME PlanInv, NEW command \in Command, Start(command) PROVE PlanInv'
<1>t. TypeOK /\ Resolved
  BY DEF PlanInv
<1>1. Decided' /\ Planned'
  BY DecisionsStay DEF Start
<1>2. commands' \in 0 .. Scenarios[scene].commands
  <2>1. commands \in 0 .. Scenarios[scene].commands /\ Scenarios[scene].commands \in Nat
    <3>1. commands \in 0 .. Scenarios[scene].commands
      BY <1>t, Zenon DEF TypeOK
    <3>2. Scenarios[scene].commands \in Nat
      BY <1>t, Typing, PlanningAssumption, Zenon
    <3> QED BY <3>1, <3>2
  <2> QED BY <2>1 DEF Start
<1>3. 0 \in 0 .. Len(repo)
  BY <1>t, Typing
<1>4. TypeOK'
  BY <1>t, <1>2, <1>3, TypesStay DEF Start
<1>5. Resolved'
  BY <1>t DEF Start, Resolved, Command
<1> QED BY <1>1, <1>4, <1>5 DEF PlanInv

\* The probe of the host and the two requests.
LEMMA RequestKeeps ==
  ASSUME PlanInv, ReadHost \/ FetchModel \/ FetchConfig PROVE PlanInv'
<1>t. TypeOK /\ Resolved
  BY DEF PlanInv
<1>1. Decided' /\ Planned'
  BY DecisionsStay DEF ReadHost, FetchModel, FetchConfig
<1>2. /\ commands \in 0 .. Scenarios[scene].commands
      /\ cmd \in Command \cup {NoCommand} /\ got \in 0 .. Len(repo)
      /\ Len(repo) \in Nat
  <2>1. commands \in 0 .. Scenarios[scene].commands
    BY <1>t, Zenon DEF TypeOK
  <2> QED BY <2>1, <1>t, Typing
<1>3. CASE ReadHost
  <2>1. cmd.vram \in Nat
    <3>1. Scenarios[scene].vramFlags \subseteq Nat
      BY <1>t, Typing, PlanningAssumption, Zenon
    <3> QED BY <3>1, <1>2 DEF Command, NoCommand
  <2>2. TypeOK'
    BY <1>t, <1>2, <1>3, <2>1, TypesStay DEF ReadHost, Finish
  <2>3. Resolved'
    BY <1>t, <1>3 DEF ReadHost, Finish, Resolved, NoCommand
  <2> QED BY <1>1, <2>2, <2>3 DEF PlanInv
<1>4. CASE FetchModel
  <2>1. Len(repo) > 0
    BY <1>t, Typing, Lengths DEF Resolved
  <2>2. cmd.vram > 0 \/ host.gpus # <<>>
    BY <1>t, <1>4 DEF TypeOK, FetchModel
  <2>3. TypeOK'
    BY <1>t, <1>2, <1>4, <2>1, <2>2, TypesStay DEF FetchModel, Finish
  <2>4. Resolved'
    BY <1>t, <1>4 DEF FetchModel, Finish, Resolved, NoCommand
  <2> QED BY <1>1, <2>3, <2>4 DEF PlanInv
<1>5. CASE FetchConfig
  <2>1. got > 0 /\ (cmd.vram > 0 \/ host.gpus # <<>>)
    BY <1>t, <1>5 DEF TypeOK, FetchConfig
  <2>2. TypeOK'
    BY <1>t, <1>2, <1>5, <2>1, TypesStay DEF FetchConfig, Finish
  <2>3. Resolved'
    BY <1>t, <1>5 DEF FetchConfig, Finish, Resolved, NoCommand
  <2> QED BY <1>1, <2>2, <2>3 DEF PlanInv
<1> QED BY <1>3, <1>4, <1>5

\* The decisions: each of the one revision that was resolved.
LEMMA PlanKeeps ==
  ASSUME PlanInv, DecidePlan PROVE PlanInv'
<1>t. TypeOK /\ Resolved /\ Decided
  BY DEF PlanInv
<1>f. /\ scene' = scene /\ host' = host /\ token' = token /\ repo' = repo /\ cmd' = NoCommand
      /\ pc = "decide" /\ pc' = "idle" /\ got' = got /\ cfg' = cfg /\ deployed' = deployed
      /\ commands' = commands
  BY DEF DecidePlan, Finish, fixed
<1>1. got \in 1 .. Len(repo) /\ cfg = repo[got].config
  BY <1>t, <1>f, UnderWay
<1>2. /\ planned'.sha \in 0 .. Len(repo)
      /\ planned'.verdict \in {"none", "FITS", "TIGHT", "TOO_BIG"}
  BY <1>1, <1>t, Typing DEF DecidePlan, NoPlan, Assess
<1>3. Command' = Command
  BY <1>f DEF Command
<1>4. TypeOK'
  BY <1>2, <1>3, <1>f, <1>t DEF TypeOK
<1>5. Resolved'
  BY <1>f, <1>t DEF Resolved, NoCommand
<1>6. Decided'
  BY <1>f, <1>t DEF Decided, Gate
<1>7. Planned'
  BY <1>1, <1>f DEF DecidePlan, Planned, PlanVRAM, Largest, NoPlan
<1> QED BY <1>4, <1>5, <1>6, <1>7 DEF PlanInv

\* The decision of a deploy, of the revision that was resolved.
LEMMA DeployKeeps ==
  ASSUME PlanInv, DecideDeploy PROVE PlanInv'
<1>t. TypeOK /\ Resolved /\ Planned
  BY DEF PlanInv
<1>f. /\ scene' = scene /\ host' = host /\ token' = token /\ repo' = repo /\ cmd' = NoCommand
      /\ pc = "decide" /\ pc' = "idle" /\ got' = got /\ cfg' = cfg /\ planned' = planned
      /\ commands' = commands /\ cmd.kind = "deploy"
  BY DEF DecideDeploy, Finish, fixed
<1>1. got \in 1 .. Len(repo) /\ cfg = repo[got].config /\ host.gpus # <<>>
  BY <1>t, <1>f, UnderWay
<1> DEFINE est == Estimate(repo[got], cfg, DefaultContext)
           need == HubNeed(est)
           result == IF Gate(est.total) THEN "too big"
                     ELSE IF PreflightFailures(host, need) # {} THEN "checks failed"
                     ELSE "admitted"
<1>d. deployed' = IF ~repo[got].sized THEN NoDeploy
                  ELSE [sha |-> got, est |-> est, need |-> need,
                        maxLen |-> LaunchContext(cfg), result |-> result]
  BY DEF DecideDeploy
<1>r. result \in {"too big", "checks failed", "admitted"}
  OBVIOUS
<1> HIDE DEF est, need, result
<1>n. ASSUME ~repo[got].sized
      PROVE  deployed' = NoDeploy /\ deployed'.sha = 0 /\ deployed'.result = "none"
  BY <1>d, <1>n DEF NoDeploy
<1>s. ASSUME repo[got].sized
      PROVE  /\ deployed'.sha = got /\ deployed'.est = est /\ deployed'.need = need
             /\ deployed'.maxLen = LaunchContext(cfg) /\ deployed'.result = result
  BY <1>d, <1>s
<1>2. /\ deployed'.sha \in 0 .. Len(repo)
      /\ deployed'.result \in {"none", "too big", "checks failed", "admitted"}
  <2>1. 0 \in 0 .. Len(repo) /\ got \in 0 .. Len(repo)
    BY <1>t, Typing
  <2>2. CASE ~repo[got].sized
    BY <2>1, <2>2, <1>n
  <2>3. CASE repo[got].sized
    BY <2>1, <2>3, <1>s, <1>r
  <2> QED BY <2>2, <2>3
<1>3. Command' = Command
  BY <1>f DEF Command
<1>4. TypeOK'
  BY <1>2, <1>3, <1>f, <1>t DEF TypeOK
<1>5. Resolved'
  BY <1>f, <1>t DEF Resolved, NoCommand
<1>6. Decided'
  <2>1. CASE ~repo[got].sized
    BY <2>1, <1>n DEF Decided
  <2>2. CASE repo[got].sized
    <3>1. deployed'.sha # 0 /\ deployed'.sha = got
      BY <2>2, <1>1, <1>s, <1>t, Typing
    <3>2. Gate(est.total)' = Gate(est.total)
      BY <1>f DEF Gate, est
    <3> QED BY <3>1, <3>2, <2>2, <1>1, <1>f, <1>s DEF Decided, est, need, result, Gate
  <2> QED BY <2>1, <2>2
<1>7. Planned'
  BY <1>f, <1>t DEF Planned, Largest
<1> QED BY <1>4, <1>5, <1>6, <1>7 DEF PlanInv

\* Every step keeps the decisions resolved.
LEMMA PlanStep ==
  ASSUME PlanInv, [Next]_vars PROVE PlanInv'
<1>1. CASE UNCHANGED vars
  <2>1. UNCHANGED <<fixed, repo, cmd, pc, got, cfg, planned, deployed, commands>>
    BY <1>1 DEF vars
  <2>2. Decided' /\ Planned'
    BY <2>1, DecisionsStay
  <2>3. Command' = Command
    BY <2>1 DEF fixed, Command
  <2>4. TypeOK'
    BY <2>1, <2>3, Zenon DEF fixed, PlanInv, TypeOK
  <2> QED BY <2>1, <2>2, <2>4 DEF PlanInv, Resolved
<1> QED BY <1>1, PushKeeps, StartKeeps, RequestKeeps, PlanKeeps, DeployKeeps DEF Next

\* What iold plan and iold deploy decide follows, at every moment, from one
\* revision of the repository, whatever was pushed meanwhile.
THEOREM DecisionsAreResolved == Spec => []PlanInv
BY InitPlan, PlanStep, PTL DEF Spec

-----------------------------------------------------------------------------
(* What it says of deploy and plan.                                        *)

\* A deploy launches the revision and the context that it estimated.
THEOREM DeploysAsEstimated == Spec => []DeploysWhatItEstimated
<1>1. ASSUME PlanInv PROVE DeploysWhatItEstimated
  <2>1. TypeOK /\ Decided
    BY <1>1 DEF PlanInv
  <2>2. OneRevision
    BY <2>1 DEF Decided, OneRevision
  <2>3. ASSUME deployed.sha # 0
        PROVE  /\ deployed.maxLen = deployed.est.tokens
               /\ repo[deployed.sha].config.maxPos > 0 =>
                    deployed.maxLen <= repo[deployed.sha].config.maxPos
    <3> DEFINE maxPos == repo[deployed.sha].config.maxPos
    <3>1. repo[deployed.sha] \in Scenarios[scene].contents
      BY <2>1, <2>3, Typing, Lengths
    <3>2. maxPos \in Int
      BY <3>1, <2>1, Typing, PlanningAssumption, Zenon
    <3>3. /\ deployed.maxLen = LaunchContext(repo[deployed.sha].config)
          /\ deployed.est =
               Estimate(repo[deployed.sha], repo[deployed.sha].config, DefaultContext)
      BY <2>1, <2>3 DEF Decided
    <3>4. deployed.est.tokens = ContextTokens(repo[deployed.sha].config, DefaultContext)
      BY <3>3 DEF Estimate
    <3> QED BY <3>2, <3>3, <3>4, PlannerAssumption DEF LaunchContext, ContextTokens
  <2> QED BY <2>1, <2>2, <2>3 DEF DeploysWhatItEstimated, LaunchedAsEstimated
<1> QED BY <1>1, DecisionsAreResolved, PTL

\* plan and deploy agree on whether one revision is too big for the host.
THEOREM PlanPredicts == Spec => []PlanPredictsDeploy
<1>1. ASSUME PlanInv PROVE PlanPredictsDeploy
  <2>1. Decided /\ Planned /\ DefaultContext # 0
    BY <1>1, PlannerAssumption DEF PlanInv
  <2>2. ASSUME PrimaryIsLargest, planned.sha # 0, planned.sha = deployed.sha,
               planned.context = DefaultContext, planned.vram = 0
        PROVE  planned.verdict = "TOO_BIG" <=> deployed.result = "too big"
    <3> DEFINE total == Estimate(repo[planned.sha], repo[planned.sha].config,
                                 DefaultContext).total
    <3>1. planned.verdict = Assess(total, Largest)
      BY <2>1, <2>2 DEF Planned
    <3>2. /\ host.gpus # <<>>
          /\ deployed.result = "too big" <=> Gate(total)
      BY <2>1, <2>2 DEF Decided
    <3> QED BY <2>2, <3>1, <3>2 DEF PrimaryIsLargest, Gate
  <2> QED BY <2>2 DEF PlanPredictsDeploy, Agreement
<1> QED BY <1>1, DecisionsAreResolved, PTL

-----------------------------------------------------------------------------
(* Sizes.  The gate, the checks and the requirements measure one estimate in
   bytes, mebibytes and gibibytes; they agree while a byte count times ten is
   still an int64.                                                          *)

SizesFit ==
  \A name \in DOMAIN Scenarios : \A c \in Scenarios[name].contents :
    LET est == Estimate(c, c.config, DefaultContext) IN
    c.sized => /\ est.total \in Nat /\ 10 * est.total < Half
               /\ est.weight \in Nat /\ 6 * est.weight < Half

\* Arithmetic on a word, and division.
LEMMA Word ==
  ASSUME NEW h \in Nat \ {0}, NEW n \in Int, -h <= n, n < h
  PROVE  ((n + h) % (2 * h)) - h = n
OBVIOUS

\* Rounding down: by less than the divisor.
LEMMA Division ==
  ASSUME NEW a \in Int, NEW m \in Nat \ {0}
  PROVE  m * (a \div m) <= a /\ a < m * (a \div m) + m /\ a \div m \in Int
OBVIOUS

\* A quotient is at most what its dividend does not reach.
LEMMA DivisionBelow ==
  ASSUME NEW a \in Int, NEW m \in Nat \ {0}, NEW v \in Int, a < (v + 1) * m
  PROVE  a \div m <= v
OBVIOUS

\* A quotient is at least what its dividend holds.
LEMMA DivisionAbove ==
  ASSUME NEW a \in Int, NEW m \in Nat \ {0}, NEW v \in Int, v <= a \div m
  PROVE  v * m <= a
OBVIOUS

\* What fits in a word is not wrapped.
LEMMA WrapIdentity ==
  ASSUME NEW n \in Nat, n < Half PROVE Wrap(n) = n
<1>1. -Half <= n
  BY PlannerAssumption
<1> QED BY <1>1, Word, PlannerAssumption DEF Wrap

\* The units are numbers of bytes.
LEMMA Units ==
  GiB \in Nat \ {0} /\ MiB \in Nat \ {0}
<1>1. ASSUME NEW a \in Nat \ {0}, NEW b \in Nat \ {0} PROVE a * b \in Nat \ {0}
  OBVIOUS
<1> QED BY <1>1, PlannerAssumption DEF GiB

\* Division, rounded down and rounded up.
LEMMA Rounding ==
  ASSUME NEW n \in Nat, NEW d \in Nat \ {0}
  PROVE  /\ n \div d \in Nat
         /\ d * (n \div d) <= n /\ n < d * (n \div d) + d
         /\ (n + d - 1) \div d \in Nat
         /\ n <= d * ((n + d - 1) \div d)
         /\ \A v \in Nat : n <= d * v => (n + d - 1) \div d <= v
         /\ \A v \in Nat : v <= n \div d => d * v <= n
<1>1. ASSUME NEW a \in Nat, NEW m \in Nat \ {0}
      PROVE  a \div m \in Nat /\ m * (a \div m) <= a /\ a < m * (a \div m) + m
  OBVIOUS
<1>2. ASSUME NEW a \in Nat, NEW m \in Nat \ {0}, NEW v \in Nat, a < (v + 1) * m
      PROVE  a \div m <= v
  BY <1>2, DivisionBelow
<1>3. ASSUME NEW a \in Nat, NEW m \in Nat \ {0}, NEW v \in Nat, v <= a \div m
      PROVE  m * v <= a
  <2>1. v * m <= a
    BY <1>3, DivisionAbove
  <2> QED BY <2>1
<1>4. n + d - 1 \in Nat
  OBVIOUS
<1>5. (n + d - 1) \div d \in Nat /\ n + d - 1 < d * ((n + d - 1) \div d) + d
  BY <1>1, <1>4
<1>6. n <= d * ((n + d - 1) \div d)
  <2> DEFINE q == (n + d - 1) \div d
  <2>1. q \in Nat /\ n + d - 1 < d * q + d
    BY <1>5
  <2> HIDE DEF q
  <2>2. d * q \in Nat
    BY <2>1
  <2>3. n <= d * q
    BY <2>1, <2>2
  <2> QED BY <2>3 DEF q
<1>7. ASSUME NEW v \in Nat, n <= d * v PROVE (n + d - 1) \div d <= v
  <2>1. n + d - 1 < (v + 1) * d
    BY <1>7
  <2> QED BY <2>1, <1>2, <1>4
<1> QED BY <1>1, <1>3, <1>5, <1>6, <1>7

\* Two roundings one after the other: what is at most nine tenths of v units
\* needs at most v.
LEMMA VRAMRounding ==
  ASSUME NEW t \in Nat, 10 * t < Half, NEW v \in Nat, 10 * t <= 9 * v * MiB
  PROVE  requiredVRAMMiB(t) <= v
<1>1. Wrap(t * 10) = 10 * t /\ 10 * t \in Nat
  BY WrapIdentity
<1> DEFINE nine == (10 * t) \div 9
<1>2. nine \in Nat /\ 9 * nine <= 10 * t
  BY <1>1
<1> HIDE DEF nine
<1>3. v * MiB \in Nat /\ 9 * v * MiB = 9 * (v * MiB)
  BY Units
<1>4. nine <= v * MiB
  <2> DEFINE room == v * MiB
  <2>1. room \in Nat /\ 9 * nine <= 9 * room
    BY <1>2, <1>3
  <2> HIDE DEF room
  <2>2. nine <= room
    BY <1>2, <2>1
  <2> QED BY <2>2 DEF room
<1>5. (nine + MiB - 1) \div MiB <= v
  BY <1>2, <1>4, Units, Rounding
<1>6. nine + MiB - 1 \in Nat
  BY <1>2, Units
<1>7. requiredVRAMMiB(t) = (nine + MiB - 1) \div MiB
  BY <1>1, <1>6 DEF requiredVRAMMiB, Quotient, nine
<1> QED BY <1>5, <1>7

\* The requirement is a number of mebibytes.
LEMMA RequiredVRAM ==
  ASSUME NEW t \in Nat, 10 * t < Half PROVE requiredVRAMMiB(t) \in Int
<1>1. Wrap(t * 10) = 10 * t /\ (10 * t) \div 9 \in Nat
  BY WrapIdentity
<1>2. ASSUME NEW f \in Nat PROVE Quotient(f + MiB - 1, MiB) \in Int
  BY Units, Rounding DEF Quotient
<1>3. Quotient(10 * t, 9) = (10 * t) \div 9
  BY DEF Quotient
<1> QED BY <1>1, <1>2, <1>3 DEF requiredVRAMMiB

\* A verdict below TOO_BIG leaves a tenth of the GPU.
LEMMA VerdictLeavesRoom ==
  ASSUME NEW t \in Nat, NEW v \in Nat, Assess(t, v) # "TOO_BIG"
  PROVE  10 * t <= 9 * v * MiB
<1> DEFINE room == v * MiB
<1>1. room \in Nat /\ 9 * v * MiB = 9 * room /\ 153 * v * MiB = 153 * room
  BY Units
<1>2. 200 * t <= 153 * room \/ 10 * t <= 9 * room
  BY <1>1 DEF Assess
<1> HIDE DEF room
<1>3. 10 * t <= 9 * room
  BY <1>1, <1>2
<1> QED BY <1>1, <1>3

\* The requirement is a positive number of gibibytes.
LEMMA RequiredDisk ==
  ASSUME NEW w \in Nat, 6 * w < Half
  PROVE  requiredDiskGiB(w) \in Nat /\ requiredDiskGiB(w) > 0
<1>1. Wrap(w * 6) = 6 * w /\ (6 * w) \div 5 \in Nat
  BY WrapIdentity
<1>2. ASSUME NEW f \in Nat PROVE Quotient(f + GiB - 1, GiB) \in Nat
  BY Units, Rounding DEF Quotient
<1>3. Quotient(6 * w, 5) = (6 * w) \div 5
  BY DEF Quotient
<1> QED BY <1>1, <1>2, <1>3 DEF requiredDiskGiB

\* A disk of that many gibibytes holds the weights, a fifth more, and five.
LEMMA DiskRounding ==
  ASSUME NEW w \in Nat, 6 * w < Half, NEW free \in Nat,
         requiredDiskGiB(w) <= free \div GiB
  PROVE  5 * (free - 5 * GiB) >= 6 * w - 5
<1>1. Wrap(w * 6) = 6 * w /\ 6 * w \in Nat
  BY WrapIdentity
<1> DEFINE fifth == (6 * w) \div 5
<1>2. fifth \in Nat /\ 6 * w - 5 < 5 * fifth
  BY <1>1
<1> HIDE DEF fifth
<1> DEFINE units == (fifth + GiB - 1) \div GiB
<1>3. units \in Nat /\ fifth <= GiB * units
  BY <1>2, Units, Rounding
<1>4. fifth + GiB - 1 \in Nat
  BY <1>2, Units
<1>5. units + 5 <= free \div GiB
  <2>1. Quotient(Quotient(Wrap(w * 6), 5) + GiB - 1, GiB) = units
    BY <1>1, <1>4 DEF Quotient, fifth
  <2> HIDE DEF units
  <2>2. units + 5 <= requiredDiskGiB(w) /\ requiredDiskGiB(w) \in Nat
    BY <2>1, <1>3 DEF requiredDiskGiB
  <2>3. free \div GiB \in Nat
    BY Units, Rounding
  <2> QED BY <1>3, <2>2, <2>3
<1> HIDE DEF units
<1>6. GiB * (units + 5) <= free
  <2>1. units + 5 \in Nat
    BY <1>3
  <2> QED BY <1>5, <2>1, Units, Rounding
<1>7. GiB * (units + 5) = GiB * units + 5 * GiB /\ GiB * units \in Nat
  BY <1>3, Units
<1>8. fifth + 5 * GiB <= free
  BY <1>2, <1>3, <1>6, <1>7, Units
<1> QED BY <1>1, <1>2, <1>8, Units

\* The primary GPU is one of them.
LEMMA FirstElement ==
  ASSUME NEW S, NEW s \in Seq(S), s # <<>> PROVE s[1] \in S
OBVIOUS

\* The two requirements that come from the sizes.
LEMMA NeedOf ==
  ASSUME NEW est
  PROVE  /\ HubNeed(est).vram = requiredVRAMMiB(est.total)
         /\ HubNeed(est).disk = requiredDiskGiB(est.weight)
BY DEF HubNeed

\* Nat and Int are ordered alike.
LEMMA NotBelow ==
  ASSUME NEW a \in Nat, NEW b \in Int, b <= a PROVE ~(a < b)
OBVIOUS

\* A deploy that was not decided has no result.
LEMMA NoDeployResult == NoDeploy.result = "none"
BY DEF NoDeploy

\* What a decided deploy measured, and the GPU and the disk it measured.
LEMMA Measured ==
  ASSUME SizesFit, TypeOK, Decided, deployed.sha # 0
  PROVE  /\ deployed.est.total \in Nat /\ 10 * deployed.est.total < Half
         /\ deployed.est.weight \in Nat /\ 6 * deployed.est.weight < Half
         /\ deployed.need = HubNeed(deployed.est)
         /\ host.gpus # <<>> /\ host.gpus[1] \in GPU /\ host.free \in Int
         /\ deployed.result = IF Gate(deployed.est.total) THEN "too big"
                              ELSE IF PreflightFailures(host, deployed.need) # {}
                                   THEN "checks failed"
                              ELSE "admitted"
<1> DEFINE content == repo[deployed.sha]
<1>1. content \in Scenarios[scene].contents
  BY Typing, Lengths
<1>2. /\ content.sized /\ host.gpus # <<>>
      /\ deployed.est = Estimate(content, content.config, DefaultContext)
      /\ deployed.need = HubNeed(deployed.est)
      /\ deployed.result = IF Gate(deployed.est.total) THEN "too big"
                           ELSE IF PreflightFailures(host, deployed.need) # {}
                                THEN "checks failed"
                           ELSE "admitted"
  BY DEF Decided
<1>3. /\ deployed.est.total \in Nat /\ 10 * deployed.est.total < Half
      /\ deployed.est.weight \in Nat /\ 6 * deployed.est.weight < Half
  BY <1>1, <1>2, Typing, Zenon DEF SizesFit
<1>4. host \in Host
  BY Typing, PlanningAssumption, Zenon
<1>5. host.gpus \in Seq(GPU) /\ host.free \in Int
  BY <1>4 DEF Host
<1>6. host.gpus[1] \in GPU
  BY <1>2, <1>5, FirstElement
<1> QED BY <1>2, <1>3, <1>5, <1>6

\* What the planner's gate lets through, the preflight's VRAM check lets
\* through, in their different units and roundings.
THEOREM GateAgreesWithCheck ==
  ASSUME SizesFit PROVE Spec => []GateImpliesVRAMCheck
<1>1. ASSUME PlanInv PROVE GateImpliesVRAMCheck
  <2>t. TypeOK /\ Decided
    BY <1>1 DEF PlanInv
  <2> SUFFICES ASSUME deployed.result \in {"checks failed", "admitted"}
               PROVE  "vram" \notin PreflightFailures(host, deployed.need)
    BY DEF GateImpliesVRAMCheck
  <2>1. deployed.sha # 0
    BY <2>t, NoDeployResult DEF Decided
  <2> DEFINE total == deployed.est.total
             vram == host.gpus[1].vram
  <2>2. /\ total \in Nat /\ 10 * total < Half /\ vram \in Nat
        /\ host.gpus # <<>> /\ ~Gate(total)
        /\ deployed.need = HubNeed(deployed.est)
    BY <2>t, <2>1, Measured DEF GPU
  <2>n. deployed.need.vram = requiredVRAMMiB(total)
    BY <2>2, NeedOf, Zenon
  <2>3. 10 * total <= 9 * vram * MiB
    BY <2>2, VerdictLeavesRoom DEF Gate
  <2>4. deployed.need.vram <= vram
    BY <2>2, <2>n, <2>3, VRAMRounding
  <2>5. ~(vram < deployed.need.vram)
    <3>1. requiredVRAMMiB(total) \in Int
      BY <2>2, RequiredVRAM
    <3> QED BY <2>2, <2>n, <2>4, <3>1, NotBelow, Zenon
  <2> QED BY <2>2, <2>5 DEF PreflightFailures, GPUFailures
<1> QED BY <1>1, DecisionsAreResolved, PTL

\* An admitted model has its room on the GPU and on the disk.
THEOREM AdmissionHasRoom ==
  ASSUME SizesFit PROVE Spec => []AdmittedHasRoom
<1>1. ASSUME PlanInv PROVE AdmittedHasRoom
  <2>t. TypeOK /\ Decided
    BY <1>1 DEF PlanInv
  <2> SUFFICES ASSUME deployed.result = "admitted"
               PROVE  /\ 10 * deployed.est.total <= 9 * host.gpus[1].vram * MiB
                      /\ 5 * (host.free - 5 * GiB) >= 6 * deployed.est.weight - 5
    BY DEF AdmittedHasRoom
  <2>1. deployed.sha # 0
    BY <2>t, NoDeployResult DEF Decided
  <2> DEFINE total == deployed.est.total
             weight == deployed.est.weight
             vram == host.gpus[1].vram
  <2>2. /\ total \in Nat /\ vram \in Nat /\ weight \in Nat /\ 6 * weight < Half
        /\ host.free \in Int /\ ~Gate(total)
        /\ PreflightFailures(host, deployed.need) = {}
        /\ deployed.need.disk = requiredDiskGiB(weight)
    BY <2>t, <2>1, Measured DEF GPU, HubNeed
  <2>3. 10 * total <= 9 * vram * MiB
    BY <2>2, VerdictLeavesRoom DEF Gate
  <2>4. ~(deployed.need.disk > 0
          /\ (host.free < 0 \/ host.free \div GiB < deployed.need.disk))
    BY <2>2 DEF PreflightFailures
  <2>5. requiredDiskGiB(weight) \in Int /\ requiredDiskGiB(weight) > 0
    BY <2>2, RequiredDisk
  <2>6. host.free \in Nat /\ requiredDiskGiB(weight) <= host.free \div GiB
    <3>1. host.free \in Nat
      BY <2>2, <2>4, <2>5
    <3>2. host.free \div GiB \in Nat
      BY <3>1, Units, Rounding
    <3> QED BY <2>2, <2>4, <2>5, <3>1, <3>2
  <2>7. 5 * (host.free - 5 * GiB) >= 6 * weight - 5
    BY <2>2, <2>6, DiskRounding
  <2> QED BY <2>3, <2>7
<1> QED BY <1>1, DecisionsAreResolved, PTL

\* The doctor and the preflight of the catalog's model find the same failures,
\* for a quantization that needs a Blackwell and at least the doctor's VRAM.
THEOREM DoctorAgrees ==
  ASSUME CatalogQuant \in {"nvfp4", "mxfp4", "fp4"}, CatalogVRAMGiB >= 32
  PROVE  Spec => []DoctorAgreesWithPreflight
<1>1. ASSUME TypeOK PROVE DoctorAgreesWithPreflight
  <2> DEFINE req == DoctorRequirements(CatalogVRAMGiB)
             need == CatalogNeed(CatalogQuant, CatalogVRAMGiB)
  <2>1. host \in Host
    BY <1>1, Typing, PlanningAssumption, Zenon
  <2>2. /\ req.driver = 570 /\ need.driver = 570
        /\ req.compute = 10 /\ need.compute = 10
        /\ req.vramGiB = CatalogVRAMGiB /\ need.vram = CatalogVRAMGiB * MiBPerGiB
        /\ req.diskGiB = 100 /\ need.disk = 100
    BY PlanningAssumption DEF DoctorRequirements, CatalogNeed, requiredCompute
  <2> HIDE DEF req, need
  <2>3. host.gpus \in Seq(GPU)
    BY <2>1 DEF Host
  <2>4. ASSUME host.gpus # <<>>
        PROVE  DoctorGPUFailures(host, req) = GPUFailures(host.gpus[1], need)
    <3> DEFINE gpu == host.gpus[1]
    <3>1. gpu.driver \in Nat /\ gpu.compute \in Nat /\ gpu.vram \in Nat
      BY <2>3, <2>4, FirstElement DEF GPU
    <3> HIDE DEF gpu
    <3>2. /\ gpu.driver < req.driver \/ gpu.driver = 0
             <=> need.driver > 0 /\ gpu.driver < need.driver
          /\ gpu.compute < req.compute <=> gpu.compute < need.compute
          /\ gpu.vram < req.vramGiB * MiBPerGiB <=> gpu.vram < need.vram
      BY <2>2, <3>1
    <3> QED BY <2>4, <3>2 DEF DoctorGPUFailures, GPUFailures, gpu
  <2>5. ASSUME host.gpus = <<>> PROVE DoctorGPUFailures(host, req) = {"gpu"}
    BY <2>5 DEF DoctorGPUFailures
  <2>6. DoctorFailures(host, req) = PreflightFailures(host, need) \ {"runtime"}
    <3> DEFINE gpuFailures ==
                 IF host.gpus = <<>> THEN {"gpu"} ELSE GPUFailures(host.gpus[1], need)
    <3>1. DoctorGPUFailures(host, req) = gpuFailures
      BY <2>4, <2>5
    <3>2. "runtime" \notin gpuFailures
      BY DEF GPUFailures
    <3> HIDE DEF gpuFailures
    <3>3. DoctorFailures(host, req) =
            gpuFailures \cup {c \in {"disk", "endpoint"} :
              CASE c = "disk"     -> host.free < 0 \/ host.free \div GiB < 100
                [] c = "endpoint" -> ~host.endpoint}
      BY <2>2, <3>1 DEF DoctorFailures
    <3>4. PreflightFailures(host, need) =
            gpuFailures \cup {c \in {"disk", "endpoint", "runtime"} :
              CASE c = "disk"     -> host.free < 0 \/ host.free \div GiB < 100
                [] c = "endpoint" -> ~host.endpoint
                [] c = "runtime"  -> ~host.runtime}
      BY <2>2 DEF PreflightFailures, gpuFailures
    <3> QED BY <3>2, <3>3, <3>4
  <2> QED BY <2>6 DEF DoctorAgreesWithPreflight, req, need
<1>2. Spec => []TypeOK
  BY DecisionsAreResolved, PTL DEF PlanInv
<1> QED BY <1>1, <1>2, PTL

=============================================================================
