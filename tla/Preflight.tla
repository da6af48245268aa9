------------------------------ MODULE Preflight ------------------------------
(***************************************************************************)
(* The two validations of a host: preflight.Run before a deploy and        *)
(* doctor.Run for the user, each on its own copy of the rules.             *)
(*                                                                         *)
(* A host is what the probes report: gpus, a sequence that is empty when   *)
(* nvidia-smi fails; a driver of 0 is a version that cannot be parsed;     *)
(* free is the space in bytes for the model cache, -1 when it cannot be    *)
(* read.                                                                   *)
(***************************************************************************)
EXTENDS Planner, Sequences

GPU == [driver : Nat, compute : Nat, vram : Nat]

Host == [gpus : Seq(GPU), free : Int, endpoint : BOOLEAN, runtime : BOOLEAN]

\* A need is what deploySpec asks of the host.
Need == [driver : Nat, compute : Nat, vram : Int, disk : Int]

\* Which checks of preflight.Run fail, the port's left out.  It never stops at
\* the first: the answer names all of them.
GPUFailures(gpu, need) ==
  {c \in {"driver", "compute", "vram"} :
     CASE c = "driver"  -> need.driver > 0 /\ gpu.driver < need.driver
       [] c = "compute" -> gpu.compute < need.compute
       [] c = "vram"    -> gpu.vram < need.vram}

PreflightFailures(host, need) ==
  (IF host.gpus = <<>> THEN {"gpu"} ELSE GPUFailures(host.gpus[1], need))
  \cup {c \in {"disk", "endpoint", "runtime"} :
          CASE c = "disk"     -> need.disk > 0 /\ (host.free < 0 \/ host.free \div GiB < need.disk)
            [] c = "endpoint" -> ~host.endpoint
            [] c = "runtime"  -> ~host.runtime}

\* Mutant: the doctor looks for a GPU that passes, not at the first.
AnyGPUFailures(host, req) ==
  IF \E i \in DOMAIN host.gpus :
       /\ host.gpus[i].driver >= req.driver /\ host.gpus[i].compute >= req.compute
       /\ host.gpus[i].vram >= req.vramGiB * MiBPerGiB
  THEN {} ELSE {"gpu"}

\* doctor.Run: the checks with status FAIL.
DoctorGPUFailures(host, req) ==
  IF host.gpus = <<>> THEN {"gpu"}
  ELSE {c \in {"driver", "compute", "vram"} :
          CASE c = "driver"  -> host.gpus[1].driver < req.driver \/ host.gpus[1].driver = 0
            [] c = "compute" -> host.gpus[1].compute < req.compute
            [] c = "vram"    -> host.gpus[1].vram < req.vramGiB * MiBPerGiB}

DoctorFailures(host, req) ==
  DoctorGPUFailures(host, req)
  \cup {c \in {"disk", "endpoint"} :
          CASE c = "disk"     -> host.free < 0 \/ host.free \div GiB < req.diskGiB
            [] c = "endpoint" -> ~host.endpoint}

\* runDoctor raises the VRAM floor to what the catalog's models need.
DoctorRequirements(catalogVRAMGiB) ==
  [driver |-> 570, compute |-> 10, diskGiB |-> 100,
   vramGiB |-> IF catalogVRAMGiB > 32 THEN catalogVRAMGiB ELSE 32]

\* The needs of a catalog entry.
CatalogNeed(quant, vramGiB) ==
  [driver |-> 570, compute |-> requiredCompute(quant),
   vram |-> vramGiB * MiBPerGiB, disk |-> 100]

\* The needs of a model of the hub, from its estimate.
HubNeed(est) ==
  [driver |-> 570, compute |-> requiredCompute(est.quant),
   vram |-> requiredVRAMMiB(est.total), disk |-> requiredDiskGiB(est.weight)]

=============================================================================
