------------------------------ MODULE Planning ------------------------------
(***************************************************************************)
(* iold plan and the resolution and admission of a model in iold deploy,   *)
(* against a hub on which the model's repository moves on between two      *)
(* requests.                                                               *)
(*                                                                         *)
(* A repository is the sequence of its revisions; what a revision holds    *)
(* never changes, main is the last one.                                    *)
(***************************************************************************)
EXTENDS Preflight

CONSTANTS
  Scenarios,  \* by name: what is varied together
  CatalogQuant, CatalogVRAMGiB   \* the catalog's entry

\* contents: what a revision may hold; contexts: values of --context; vramFlags:
\* values of --vram in GiB, 0 for no flag; pushes and commands: bounds.
ASSUME PlanningAssumption ==
  /\ \A name \in DOMAIN Scenarios :
       LET s == Scenarios[name] IN
       /\ s.contexts \subseteq Nat \ {0} /\ s.vramFlags \subseteq Nat
       /\ s.hosts \subseteq Host
       /\ \A c \in s.contents : c.config.maxPos \in Int
       /\ s.pushes \in Nat /\ s.commands \in Nat
  /\ CatalogVRAMGiB \in Nat

VARIABLES
  scene,     \* the scenario
  repo,      \* the revisions of the repository
  host,      \* the host
  token,     \* HF_TOKEN is set
  cmd,       \* the command: [kind, context, vram]
  pc,        \* the next step of it
  got,       \* the revision GetModel reported, 0 before
  cfg,       \* the configuration GetConfigAtRevision returned
  planned,   \* the last verdict of plan: [sha, context, vram, verdict]
  deployed,  \* the last admitted or refused deploy: [sha, est, need, maxLen, result]
  commands   \* commands so far

fixed == <<scene, host, token>>
vars == <<fixed, repo, cmd, pc, got, cfg, planned, deployed, commands>>

NoConfig == [layers |-> 0, heads |-> 0, kvHeads |-> 0, headDim |-> 0, hidden |-> 0,
             maxPos |-> 0, method |-> "", bits |-> 0]
NoCommand == [kind |-> "none", context |-> 0, vram |-> 0]
NoPlan == [sha |-> 0, context |-> 0, vram |-> 0, verdict |-> "none"]
NoDeploy == [sha |-> 0, est |-> [total |-> 0], need |-> [vram |-> 0], maxLen |-> 0,
             result |-> "none"]

Init ==
  /\ scene \in DOMAIN Scenarios
  /\ repo \in {<<c>> : c \in Scenarios[scene].contents}
  /\ host \in Scenarios[scene].hosts
  /\ token \in BOOLEAN
  /\ cmd = NoCommand /\ pc = "idle" /\ got = 0 /\ cfg = NoConfig
  /\ planned = NoPlan /\ deployed = NoDeploy /\ commands = 0

-----------------------------------------------------------------------------
\* The owner of the repository pushes.
Push ==
  /\ Len(repo) <= Scenarios[scene].pushes
  /\ \E c \in Scenarios[scene].contents : repo' = Append(repo, c)
  /\ UNCHANGED <<fixed, cmd, pc, got, cfg, planned, deployed, commands>>

Start(command) ==
  /\ pc = "idle" /\ commands < Scenarios[scene].commands
  /\ cmd' = command /\ commands' = commands + 1
  /\ pc' = "host" /\ got' = 0 /\ cfg' = NoConfig
  /\ UNCHANGED <<fixed, repo, planned, deployed>>

Finish == pc' = "idle" /\ cmd' = NoCommand

\* Both look at the GPUs before they ask the hub; plan does not with --vram.
ReadHost ==
  /\ pc = "host"
  /\ IF cmd.vram = 0 /\ host.gpus = <<>>
     THEN Finish
     ELSE pc' = "model" /\ UNCHANGED cmd
  /\ UNCHANGED <<fixed, repo, got, cfg, planned, deployed, commands>>

\* GetModel: the metadata of the newest revision.  The command ends when the
\* hub fails, the model is gated and there is no token, or no commit is named.
FetchModel ==
  /\ pc = "model"
  /\ \/ Finish /\ UNCHANGED got
     \/ /\ repo[Len(repo)].gated => token
        /\ repo[Len(repo)].pinned
        /\ got' = Len(repo)
        /\ pc' = "config" /\ UNCHANGED cmd
  /\ UNCHANGED <<fixed, repo, cfg, planned, deployed, commands>>

\* GetConfigAtRevision: a 404 is an empty configuration (a revision without
\* the file has config = NoConfig), any other failure ends the command.
FetchConfig ==
  /\ pc = "config"
  /\ \/ Finish /\ UNCHANGED cfg
     \/ cfg' = repo[got].config /\ pc' = "decide" /\ UNCHANGED cmd
  /\ UNCHANGED <<fixed, repo, got, planned, deployed, commands>>

Largest == CHOOSE v \in {host.gpus[i].vram : i \in DOMAIN host.gpus} :
             \A i \in DOMAIN host.gpus : host.gpus[i].vram <= v

\* The VRAM plan assumes: the flag, or the host's largest GPU.
PlanVRAM == IF cmd.vram = 0 THEN Largest ELSE cmd.vram * MiBPerGiB

\* runPlan, from the estimate on.
DecidePlan ==
  /\ pc = "decide" /\ cmd.kind = "plan"
  /\ planned' =
       IF repo[got].sized
       THEN [sha |-> got, context |-> cmd.context, vram |-> cmd.vram,
             verdict |-> Assess(Estimate(repo[got], cfg, cmd.context).total, PlanVRAM)]
       ELSE NoPlan
  /\ Finish
  /\ UNCHANGED <<fixed, repo, got, cfg, deployed, commands>>

\* Mutant: the runtime is always started with the default context.
LaunchContextDefault(c) == DefaultContext

\* MaxModelLen, as resolveSpec computes it beside the estimate.
LaunchContext(c) ==
  IF c.maxPos > 0 /\ c.maxPos < DefaultContext THEN c.maxPos ELSE DefaultContext

\* Mutant: the gate asks for comfort.
GateForComfort(total) == Assess(total, host.gpus[1].vram) # "FITS"

\* The planner gate of resolveSpec, on the primary GPU.
Gate(total) == Assess(total, host.gpus[1].vram) = "TOO_BIG"

\* The decision on a hub model: resolveSpec's gate, then the preflight.
DecideDeploy ==
  /\ pc = "decide" /\ cmd.kind = "deploy"
  /\ LET est == Estimate(repo[got], cfg, DefaultContext)
         need == HubNeed(est)
     IN deployed' =
          IF ~repo[got].sized THEN NoDeploy
          ELSE [sha |-> got, est |-> est, need |-> need, maxLen |-> LaunchContext(cfg),
                result |-> IF Gate(est.total) THEN "too big"
                           ELSE IF PreflightFailures(host, need) # {} THEN "checks failed"
                           ELSE "admitted"]
  /\ Finish
  /\ UNCHANGED <<fixed, repo, got, cfg, planned, commands>>

-----------------------------------------------------------------------------
Command ==
  [kind : {"plan"}, context : Scenarios[scene].contexts, vram : Scenarios[scene].vramFlags]
  \cup [kind : {"deploy"}, context : {DefaultContext}, vram : {0}]

Next ==
  \/ Push
  \/ \E command \in Command : Start(command)
  \/ ReadHost \/ FetchModel \/ FetchConfig \/ DecidePlan \/ DecideDeploy

Spec == Init /\ [][Next]_vars

-----------------------------------------------------------------------------
TypeOK ==
  /\ scene \in DOMAIN Scenarios
  /\ repo \in Seq(Scenarios[scene].contents) /\ host \in Scenarios[scene].hosts /\ token \in BOOLEAN
  /\ cmd \in Command \cup {NoCommand}
  /\ pc \in {"idle", "host", "model", "config", "decide"}
  /\ got \in 0 .. Len(repo)
  /\ (pc \in {"config", "decide"} => got > 0)
  /\ (pc \in {"model", "config", "decide"} => cmd.vram > 0 \/ host.gpus # <<>>)
  /\ planned.sha \in 0 .. Len(repo)
  /\ planned.verdict \in {"none", "FITS", "TIGHT", "TOO_BIG"}
  /\ deployed.sha \in 0 .. Len(repo)
  /\ deployed.result \in {"none", "too big", "checks failed", "admitted"}
  /\ commands \in 0 .. Scenarios[scene].commands

\* The estimate a deploy is decided on is of the one revision it will launch,
\* sizes and configuration both, although main moves between the requests.
OneRevision ==
  deployed.sha # 0 =>
    deployed.est = Estimate(repo[deployed.sha], repo[deployed.sha].config, DefaultContext)

\* What the planner's gate lets through, the preflight's own VRAM check lets
\* through: the two roundings, in bytes and in MiB, never disagree that way.
GateImpliesVRAMCheck ==
  deployed.result \in {"checks failed", "admitted"} =>
    "vram" \notin PreflightFailures(host, deployed.need)

\* An admitted model has its room: the share of the GPU that vLLM claims holds
\* the estimate, and the disk holds the weights, a fifth of them once more and
\* five GiB.
AdmittedHasRoom ==
  deployed.result = "admitted" =>
    /\ 10 * deployed.est.total <= 9 * host.gpus[1].vram * MiB
    /\ 5 * (host.free - 5 * GiB) >= 6 * deployed.est.weight - 5

\* The runtime is started with the context length its memory was estimated
\* for, which the model supports.
LaunchedAsEstimated ==
  deployed.sha # 0 =>
    /\ deployed.maxLen = deployed.est.tokens
    /\ repo[deployed.sha].config.maxPos > 0 =>
         deployed.maxLen <= repo[deployed.sha].config.maxPos

\* Types, and what a deploy is decided on is what it launches: the revision and
\* the context.
DeploysWhatItEstimated == TypeOK /\ OneRevision /\ LaunchedAsEstimated

\* plan predicts deploy: on a host whose first GPU is its largest, the two
\* agree about one and the same revision.
PrimaryIsLargest == host.gpus # <<>> => host.gpus[1].vram = Largest

Agreement ==
  planned.sha # 0 /\ planned.sha = deployed.sha
  /\ planned.context = DefaultContext /\ planned.vram = 0
    => (planned.verdict = "TOO_BIG" <=> deployed.result = "too big")

PlanPredictsDeploy == PrimaryIsLargest => Agreement

\* iold doctor and the preflight of a catalog model name the same failures of
\* the host, each from its own rules: who follows the doctor is admitted.
DoctorAgreesWithPreflight ==
  DoctorFailures(host, DoctorRequirements(CatalogVRAMGiB))
    = PreflightFailures(host, CatalogNeed(CatalogQuant, CatalogVRAMGiB)) \ {"runtime"}

\* Claim: a refused deploy asks to "run `iold plan` for fitting variants", which
\* plan looks for only when its own verdict is TOO_BIG.
RefusalLeadsToVariants == Agreement

\* Claim: when a check fails "this host cannot run IOLD deployments" (doctor).
DoctorRefusalIsTrue ==
  deployed.result = "admitted" =>
    DoctorFailures(host, DoctorRequirements(CatalogVRAMGiB)) = {}

\* Claim: estimates are "deliberately conservative" (the planner's header):
\* what is rejected for its weights alone is never said to fit.
Conservative ==
  planned.sha # 0 /\ planned.verdict # "TOO_BIG" =>
    10 * WeightBytes(repo[planned.sha].census,
                     QuantBits(Quantization(repo[planned.sha].marker, repo[planned.sha].config),
                               repo[planned.sha].config))
      <= 9 * (IF planned.vram = 0 THEN Largest ELSE planned.vram * MiBPerGiB) * MiB

=============================================================================
