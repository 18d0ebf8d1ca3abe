------------------------------ MODULE Priority ------------------------------
(***************************************************************************)
(* Scheduling priorities and their conversion to interrupt priorities:     *)
(* struct Priority of crates/malleusrt/src/sched.rs and priority_bits of   *)
(* crates/malleus-arch-cortex-m/src/lib.rs.  A higher Priority is more     *)
(* urgent; a lower hardware number is.                                     *)
(***************************************************************************)
EXTENDS Naturals

CONSTANT PRIORITY_LEVELS  \* 32 in the source: a power of two that fits a u8

ASSUME LevelsAssumption == PRIORITY_LEVELS \in 1 .. 256

\* The priorities `Priority::new` accepts; IDLE is the least, MAX the greatest.
Level == 0 .. (PRIORITY_LEVELS - 1)

U8     == 0 .. 255
MaxU16 == 65535

\* priority_bits::levels: what the vendor wired up.
LevelsOf(bits) == 2 ^ bits

\* Both operands are u8, the product a saturating u16; the shift by the
\* trailing zeros of a power of two divides, and `as u8` keeps the low byte.
Scaled(p, hw) ==
  LET product == IF p * hw <= MaxU16 THEN p * hw ELSE MaxU16
  IN (product \div PRIORITY_LEVELS) % 256

Minus(a, b) == IF a >= b THEN a - b ELSE 0

\* Mutant of ToHardware: the most urgent level missed.
ToHardwareWide(p, hw) == Minus(hw, Scaled(p, hw))

\* Priority::to_hardware, for a controller with `hw` levels.
ToHardware(p, hw) == IF hw = 0 THEN 0 ELSE Minus(Minus(hw, 1), Scaled(p, hw))
=============================================================================
