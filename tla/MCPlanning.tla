----------------------------- MODULE MCPlanning -----------------------------
(***************************************************************************)
(* Instances of Planning for TLC, in units small enough to enumerate: four *)
(* bytes to a MiB, two MiB to a GiB.                                       *)
(***************************************************************************)
EXTENDS Planning

Content(census, marker, config) ==
  [census |-> census, marker |-> marker, config |-> config,
   gated |-> FALSE, pinned |-> TRUE, sized |-> TRUE]

Geometry == [NoConfig EXCEPT !.layers = 1, !.heads = 2, !.kvHeads = 1, !.hidden = 2, !.maxPos = 8]

Machine(gpus, free) == [gpus |-> gpus, free |-> free, endpoint |-> TRUE, runtime |-> TRUE]
Blackwell(vram) == [driver |-> 570, compute |-> 12, vram |-> vram]
Ampere(vram) == [driver |-> 570, compute |-> 8, vram |-> vram]

-----------------------------------------------------------------------------
(* A repository that is pushed to while it is read. *)

\* A dense model, the same with a shorter context and with no config.json, a
\* packed one whose width only the config has, one without sizes, a gated one
\* and one the hub names no commit for.
Dense == Content([BF16 |-> 8], "", Geometry)
ShortContext == [Dense EXCEPT !.config.maxPos = 2, !.config.kvHeads = 0]
Bare == [Dense EXCEPT !.config = NoConfig]
Packed == Content([I32 |-> 9, F32 |-> 1], "awq", [Geometry EXCEPT !.method = "nvfp4", !.bits = 8])
Named == Content([U8 |-> 9, other |-> 3], "nvfp4", NoConfig)
Unsized == [Dense EXCEPT !.sized = FALSE]
Gated == [Dense EXCEPT !.gated = TRUE]
Unpinned == [Dense EXCEPT !.pinned = FALSE]
MovingContents == {Dense, ShortContext, Bare, Packed, Named, Unsized, Gated, Unpinned}

\* No GPU, one that is too small, one that just holds Dense, two of which the
\* first is the smaller; and a full disk.
MovingHosts ==
  {Machine(<<>>, 400), Machine(<<Blackwell(9)>>, 400), Machine(<<Ampere(20)>>, 400),
   Machine(<<Blackwell(20)>>, 60), Machine(<<Ampere(9), Ampere(20)>>, 400)}

-----------------------------------------------------------------------------
(* Every rounding: sizes a byte apart, GPUs a MiB apart, disks around the   *)
(* multiples of a GiB.                                                      *)

RoundingContents == {Content([U8 |-> n], "", NoConfig) : n \in 0 .. 44}
RoundingHosts ==
  {Machine(<<Blackwell(vram)>>, free) :
     vram \in 3 .. 18, free \in {79, 80, 87, 88, 95, 96, 104}}

-----------------------------------------------------------------------------
(* The doctor's and the preflight's view of one host, at every threshold. *)

ThresholdGPUs == [driver : {0, 569, 570}, compute : {9, 10}, vram : {63, 64, 80}]
ThresholdHosts ==
  [gpus : {<<>>} \cup {<<gpu>> : gpu \in ThresholdGPUs}
          \cup {<<g, h>> : g, h \in {[driver |-> 570, compute |-> 10, vram |-> v] : v \in {63, 64}}},
   free : {-1, 799, 800}, endpoint : BOOLEAN, runtime : BOOLEAN]

\* A model of two GiB, one whose configuration names no longest context, and a
\* host that is not a Blackwell.
SmallContents == {Dense}
UnboundedContents == {[Dense EXCEPT !.config.maxPos = 0]}
SmallHosts == {Machine(<<Ampere(40)>>, 900)}

-----------------------------------------------------------------------------
Scene(contents, hosts) ==
  [contents |-> contents, hosts |-> hosts, contexts |-> {4}, vramFlags |-> {0},
   pushes |-> 0, commands |-> 1]

AllScenarios ==
  [moving |-> [Scene(MovingContents, MovingHosts)
                 EXCEPT !.contexts = {4, 16}, !.vramFlags = {0, 6}, !.pushes = 1, !.commands = 2],
   roundings |-> Scene(RoundingContents, RoundingHosts),
   thresholds |-> Scene(SmallContents, ThresholdHosts)]

LongContext ==
  [longContext |-> [Scene(UnboundedContents, SmallHosts)
                      EXCEPT !.contexts = {4, 500}, !.vramFlags = {0, 1}]]

=============================================================================
