------------------------------- MODULE Planner -------------------------------
(***************************************************************************)
(* What a model needs and whether a GPU has it: planner.EstimateModel and  *)
(* planner.Assess, and the requirements deploy derives from an estimate    *)
(* (requiredVRAMMiB, requiredDiskGiB), which its preflight compares with   *)
(* the host in other units and with other roundings.                       *)
(*                                                                         *)
(* Everything is in integers: the fractions 0.9 and 0.85 as 9/10 and       *)
(* 17/20, parameter sizes in bits.  A byte count is a signed word that     *)
(* wraps at Half.  The units are parameters, so that a small instance has  *)
(* every rounding of the real one.                                         *)
(***************************************************************************)
EXTENDS Integers, Functions

CONSTANTS
  MiB,             \* bytes
  MiBPerGiB,
  Half,            \* half the range of int64
  DefaultContext   \* planner.DefaultContextTokens

ASSUME PlannerAssumption ==
  /\ MiB \in Nat \ {0} /\ MiBPerGiB \in Nat \ {0}
  /\ Half \in Nat \ {0} /\ DefaultContext \in Nat \ {0}

GiB == MiBPerGiB * MiB
Overhead == 2 * GiB   \* fixedOverheadBytes

\* int64 arithmetic.
Wrap(n) == ((n + Half) % (2 * Half)) - Half

\* Go's integer division truncates towards zero.
Quotient(a, b) == IF a >= 0 THEN a \div b ELSE -((-a) \div b)

-----------------------------------------------------------------------------
(* Sizes *)

\* The storage types of the census, by width; "other" is any unknown name.
DtypeBits ==
  [F32 |-> 32, BF16 |-> 16, F8_E4M3 |-> 8, F4 |-> 4, I32 |-> 32, U8 |-> 8, other |-> 16]
Dtype == DOMAIN DtypeBits
PackedDtype == {"I32", "U8"}   \* integer types, in which quantized weights are packed

\* DetectQuantization: the config's method, or the marker in the name or tags.
Quantization(marker, cfg) == IF cfg.method # "" THEN cfg.method ELSE marker

\* quantBytesPerParam, in bits; 0 when unquantized or of unknown width.
QuantBits(quant, cfg) ==
  IF quant = "" THEN 0
  ELSE IF cfg.bits > 0 THEN cfg.bits
  ELSE IF quant \in {"awq", "gptq", "nvfp4", "int4", "4bit", "nf4", "bnb", "bitsandbytes", "mxfp4"} THEN 4
  ELSE IF quant \in {"fp8", "int8", "8bit"} THEN 8
  ELSE 0

ParamBits(dtype, quantBits) ==
  IF quantBits > 0 /\ dtype \in PackedDtype THEN quantBits ELSE DtypeBits[dtype]

WeightBytes(census, quantBits) ==
  SumFunction([d \in DOMAIN census |-> census[d] * ParamBits(d, quantBits)]) \div 8

\* kvCacheBytes; 0 stands for an unknown geometry.
KVCacheBytes(cfg, tokens) ==
  LET heads == IF cfg.kvHeads = 0 THEN cfg.heads ELSE cfg.kvHeads
      headDim == IF cfg.headDim = 0 /\ cfg.heads > 0 THEN cfg.hidden \div cfg.heads ELSE cfg.headDim
  IN IF cfg.layers = 0 \/ heads = 0 \/ headDim = 0 THEN 0
     ELSE Wrap(2 * cfg.layers * heads * headDim * 2 * tokens)

ContextTokens(cfg, context) ==
  IF cfg.maxPos > 0 /\ context > cfg.maxPos THEN cfg.maxPos ELSE context

\* EstimateModel, for a model that publishes its sizes.
Estimate(content, cfg, context) ==
  LET quant == Quantization(content.marker, cfg)
      weight == WeightBytes(content.census, QuantBits(quant, cfg))
      tokens == ContextTokens(cfg, context)
      kv == KVCacheBytes(cfg, tokens)
  IN [weight |-> weight, kv |-> kv, tokens |-> tokens, quant |-> quant,
      total |-> Wrap(weight + kv + Overhead)]

-----------------------------------------------------------------------------
(* Verdicts and requirements *)

\* total <= usable * comfortFraction, total <= usable.
Assess(total, vramMiB) ==
  IF 200 * total <= 153 * vramMiB * MiB THEN "FITS"
  ELSE IF 10 * total <= 9 * vramMiB * MiB THEN "TIGHT"
  ELSE "TOO_BIG"

\* Mutant: a whole mebibyte is added instead of rounding up.
requiredVRAMOneMore(total) == Quotient(Quotient(Wrap(total * 10), 9) + MiB, MiB)

requiredVRAMMiB(total) == Quotient(Quotient(Wrap(total * 10), 9) + MiB - 1, MiB)

\* Mutant: the slack is rounded away.
requiredDiskRoundedDown(weight) ==
  LET value == Quotient(weight, GiB) + 5 IN IF value < 10 THEN 10 ELSE value

requiredDiskGiB(weight) ==
  LET value == Quotient(Quotient(Wrap(weight * 6), 5) + GiB - 1, GiB) + 5
  IN IF value < 10 THEN 10 ELSE value

\* minComputeForQuantization.
requiredCompute(quant) == IF quant \in {"nvfp4", "mxfp4", "fp4"} THEN 10 ELSE 0

=============================================================================
