----------------------------- MODULE Saturating -----------------------------
(* The unsigned integer operations the repository computes time with: those *)
(* of Rust's u64, over a width that is a parameter.                         *)
EXTENDS Naturals

CONSTANT MaxU  \* u64::MAX

ASSUME WidthAssumption == MaxU \in Nat

U64 == 0 .. MaxU

SatAdd(a, b)  == IF a + b <= MaxU THEN a + b ELSE MaxU
SatMul(a, b)  == IF a * b <= MaxU THEN a * b ELSE MaxU
SatSub(a, b)  == IF a >= b THEN a - b ELSE 0
DivCeil(a, b) == (a + b - 1) \div b
=============================================================================
