------------------------------- MODULE Units -------------------------------
(***************************************************************************)
(* Durations, sizes and rates as a manifest writes them, and as ticks:     *)
(* crates/malleus-manifest/src/units.rs, the two readers of `tick_rate`    *)
(* (validate.rs 577-592, analyze.rs 112-125) and TickRate of               *)
(* crates/malleus-arch/src/time.rs.                                        *)
(*                                                                         *)
(* A written value is its digits, as a number of any size, and its unit;   *)
(* either may be missing, and None is also the value of what does not      *)
(* parse.  Kilo and Kibi stand for 1000 and 1024.                          *)
(***************************************************************************)
EXTENDS Saturating, Option

CONSTANTS
  Kilo,   \* the decimal step: a second is Kilo^3 nanoseconds
  Kibi,   \* the binary step: a MiB is Kibi^2 bytes
  Width   \* of a u64, in bits

ASSUME ScaleAssumption == Kilo \in Nat \ {0, 1} /\ Kibi \in Nat \ {0, 1}
ASSUME BitsAssumption  == Width \in Nat /\ MaxU + 1 = 2 ^ Width

Second == Kilo * Kilo * Kilo  \* in nanoseconds

-----------------------------------------------------------------------------
(* Parsing. *)

DurationUnit == [ns |-> 1, us |-> Kilo, ms |-> Kilo * Kilo, s |-> Second]
SizeUnit     == [B |-> 1, KiB |-> Kibi, MiB |-> Kibi * Kibi]
RateUnit     == [Hz |-> 1, kHz |-> Kilo, MHz |-> Kilo * Kilo]

\* split_value_unit, and the number's u64.
HasNumber(text) == text.number # None /\ text.number <= MaxU
HasUnit(text, units) == text.unit \in DOMAIN units

\* The value, unless the multiplication overflows; every error is None.
Parsed(text, units) ==
  IF HasNumber(text) /\ HasUnit(text, units) /\ text.number * units[text.unit] <= MaxU
    THEN text.number * units[text.unit] ELSE None

DurationOf(text) == Parsed(text, DurationUnit)
SizeOf(text)     == Parsed(text, SizeUnit)

\* cargo-malleus has its own parse_tick_hz, whose multiplication is plain: on
\* overflow it aborts the tool.
RateReadable(text)  == HasNumber(text) /\ HasUnit(text, RateUnit)
RateOverflows(text) == RateReadable(text) /\ text.number * RateUnit[text.unit] > MaxU

\* The validator's parse_tick_hz: checked_mul.
TickHz(text) == Parsed(text, RateUnit)

-----------------------------------------------------------------------------
(* Display. *)

\* The units a value is a whole number of, and is not below; the smallest is
\* always one of them.
WholeIn(value, units) ==
  {u \in DOMAIN units : units[u] = 1 \/ (units[u] <= value /\ value % units[u] = 0)}

\* Mutant of Shown: the largest unit that fits, whether whole or not.
ShownRounded(value, units) ==
  LET fitting == {u \in DOMAIN units : units[u] = 1 \/ units[u] <= value}
      unit == CHOOSE u \in fitting : \A v \in fitting : units[v] <= units[u]
  IN [number |-> value \div units[unit], unit |-> unit]

\* The text of a value: its number in the largest of those units.
Shown(value, units) ==
  LET whole == WholeIn(value, units)
      unit  == CHOOSE u \in whole : \A v \in whole : units[v] <= units[u]
  IN [number |-> value \div units[unit], unit |-> unit]

ShownDuration(d) == Shown(d, DurationUnit)
ShownSize(bytes) == Shown(bytes, SizeUnit)

-----------------------------------------------------------------------------
(* Conversion. *)

\* Mutant of ToTicks: rounds down.
ToWholeTicks(d, hz) ==
  IF hz = 0 THEN 0
  ELSE SatAdd(SatMul(d \div Second, hz), SatMul(d % Second, hz) \div Second)

\* Mutant of ToTicks: plain arithmetic, in a wider type.
ToWideTicks(d, hz) ==
  IF hz = 0 THEN 0 ELSE (d \div Second) * hz + DivCeil((d % Second) * hz, Second)

\* Mutant of ToTicks: the whole seconds wrap.
ToWrappedTicks(d, hz) ==
  IF hz = 0 THEN 0
  ELSE SatAdd(((d \div Second) * hz) % (MaxU + 1), DivCeil(SatMul(d % Second, hz), Second))

\* Duration::to_ticks.
ToTicks(d, hz) ==
  IF hz = 0 THEN 0
  ELSE SatAdd(SatMul(d \div Second, hz), DivCeil(SatMul(d % Second, hz), Second))

\* Mutant of IsTickAligned: the rate is taken for the length of its tick.
IsRateAligned(d, hz) == hz # 0 /\ d % hz = 0

\* Duration::is_tick_aligned, by the whole nanoseconds of a tick.
IsTickAligned(d, hz) ==
  hz # 0 /\ Second \div hz # 0 /\ d % (Second \div hz) = 0

\* Mutant of TicksFromMicros: rounds down.
TicksWithinMicros(micros, hz) == SatMul(micros, hz) \div (Kilo * Kilo)

\* TickRate::ticks_from_micros.
TicksFromMicros(micros, hz) == DivCeil(SatMul(micros, hz), Kilo * Kilo)

\* ByteSize::to_power_of_two: the next power of two, None where u64 has none
\* and next_power_of_two overflows.
PowerOfTwo(bytes) ==
  LET powers == {2 ^ k : k \in 0 .. Width - 1} \cap U64
      enough == {p \in powers : bytes <= p}
  IN IF enough = {} THEN None ELSE CHOOSE p \in enough : \A q \in enough : p <= q

-----------------------------------------------------------------------------
(* What the conversions are for. *)

\* A duration is a whole number of ticks of a rate.
WholeTicks(d, hz) == (d * hz) % Second = 0
=============================================================================
