------------------------------ MODULE MCSuggest ------------------------------
(***************************************************************************)
(* Instances of Suggest for TLC.                                           *)
(***************************************************************************)
EXTENDS Suggest

CONSTANTS awq, awqRespelled, fp8, nvfp4, dense, mlx, unrelated

Content(census, marker, config) ==
  [census |-> census, marker |-> marker, config |-> config, sized |-> TRUE]

Geometry == [NoConfig EXCEPT !.layers = 1, !.heads = 2, !.kvHeads = 1, !.hidden = 2, !.maxPos = 8]

Variation(key, content) ==
  [key |-> key, related |-> TRUE, servable |-> TRUE, content |-> content]

\* In a GPU of 20 MiB (72 bytes for vLLM) the FP8 variant fits only without its
\* cache of 16 bytes.
Catalogue ==
  [v \in {awq, awqRespelled, fp8, nvfp4, dense, mlx, unrelated} |->
     CASE v \in {awq, awqRespelled} -> Variation("awq", Content([U8 |-> 20], "awq", Geometry))
       [] v = fp8   -> Variation("fp8", Content([F8_E4M3 |-> 44], "fp8", Geometry))
       [] v = nvfp4 -> Variation("nvfp4", Content([U8 |-> 30], "nvfp4", Geometry))
       [] v = dense -> Variation("dense", Content([BF16 |-> 4], "", Geometry))
       [] v = mlx   -> [Variation("mlx", Content([U8 |-> 4], "4bit", Geometry)) EXCEPT !.servable = FALSE]
       [] v = unrelated -> [Variation("unrelated", Content([U8 |-> 4], "awq", Geometry))
                              EXCEPT !.related = FALSE]]

Ampere == [driver |-> 570, compute |-> 8, vram |-> 20]

=============================================================================
