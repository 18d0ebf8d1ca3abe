-------------------------- MODULE ConversionProofs --------------------------
(* What the conversions to ticks promise along a growing duration, for      *)
(* every width, scale and rate.                                             *)
EXTENDS Conversion, ArithmeticLemmas

\* Every duration of the width has a number of ticks of the width.
THEOREM TypeCorrect == Spec => []ConversionTypeOK
<1>1. Init => ConversionTypeOK
  BY WidthAssumption, RatesAssumption, TicksInRange DEF Init, ConversionTypeOK, U64
<1>2. ConversionTypeOK /\ [Grow]_conversion => ConversionTypeOK'
  <2> SUFFICES ASSUME ConversionTypeOK, [Grow]_conversion PROVE ConversionTypeOK'
    OBVIOUS
  <2>1. duration' \in U64 /\ rate' \in Rates
    BY WidthAssumption DEF ConversionTypeOK, Grow, conversion, U64
  <2>2. duration' \in Nat /\ rate' \in Nat
    BY <2>1, RatesAssumption, WidthAssumption DEF U64
  <2>3. ToTicks(duration', rate') \in U64
    BY <2>2, TicksInRange
  <2> QED
    BY <2>1, <2>3 DEF ConversionTypeOK
<1> QED
  BY <1>1, <1>2, PTL DEF Spec

\* The ticks to_ticks adds up are the ceiling of the whole duration.
THEOREM ExactCeiling == Spec => []TicksAreTheCeiling
<1>1. ConversionTypeOK => TicksAreTheCeiling
  <2> SUFFICES ASSUME ConversionTypeOK, Fits, rate # 0
               PROVE  ToTicks(duration, rate) = SatAdd(0, DivCeil(duration * rate, Second))
    BY DEF TicksAreTheCeiling
  <2>1. duration \in Nat /\ rate \in Nat \ {0}
    BY RatesAssumption, WidthAssumption DEF ConversionTypeOK, U64
  <2> QED
    BY <2>1, Ceiling DEF Fits
<1> QED
  BY <1>1, TypeCorrect, PTL

\* A delay whose product fits is rounded up, by less than a tick, from whatever
\* instant it is waited for.
THEOREM ExactDelay == Spec => []DelayIsExact
<1>1. ConversionTypeOK => DelayIsExact
  <2> SUFFICES ASSUME ConversionTypeOK, NEW now \in Instants, NEW later \in Instants,
                      NEW deadline,
                      deadline = DeadlineFrom(WaitTicks(TicksFromMicros(duration, rate)), now)
               PROVE  /\ (duration * rate <= MaxU /\ deadline < MaxU) =>
                           /\ duration * rate <= (deadline - now) * (Kilo * Kilo)
                           /\ (deadline - now) * (Kilo * Kilo) < duration * rate + Kilo * Kilo
                      /\ DeadlineFrom(WaitUntil(deadline), later) = deadline
    BY DEF DelayIsExact
  <2>1. DeadlineFrom(WaitUntil(deadline), later) = deadline
    BY DEF DeadlineFrom, WaitUntil
  <2>2. deadline = SatAdd(now, TicksFromMicros(duration, rate))
    BY DEF DeadlineFrom, WaitTicks
  <2> SUFFICES ASSUME duration * rate <= MaxU, deadline < MaxU
               PROVE  /\ duration * rate <= (deadline - now) * (Kilo * Kilo)
                      /\ (deadline - now) * (Kilo * Kilo) < duration * rate + Kilo * Kilo
    BY <2>1
  <2>3. PICK a \in Nat : a = duration * rate
    BY RatesAssumption, WidthAssumption DEF ConversionTypeOK, U64
  <2>4. PICK m \in Nat \ {0} : m = Kilo * Kilo
    <3>1. PICK k \in Nat \ {0} : k = Kilo
      BY ScaleAssumption
    <3>2. k * k \in Nat \ {0}
      OBVIOUS
    <3> QED
      BY <3>1, <3>2
  <2>5. TicksFromMicros(duration, rate) = DivCeil(a, m)
    BY <2>3, <2>4 DEF TicksFromMicros, SatMul
  <2>6. DivCeil(a, m) \in Nat /\ a <= DivCeil(a, m) * m /\ DivCeil(a, m) * m < a + m
    BY DivCeilBounds
  <2>7. now \in Nat /\ MaxU \in Nat
    BY RatesAssumption, WidthAssumption DEF U64
  <2>8. deadline - now = DivCeil(a, m)
    BY <2>2, <2>5, <2>6, <2>7 DEF SatAdd
  <2> QED
    BY <2>3, <2>4, <2>6, <2>8
<1> QED
  BY <1>1, TypeCorrect, PTL

-----------------------------------------------------------------------------
(* Display. *)

\* Wherever some unit is the largest of those a value is whole in, the text
\* shown parses back to the value.
LEMMA ShownIsExact ==
  ASSUME NEW value \in U64, NEW units, \A u \in DOMAIN units : units[u] \in Nat \ {0},
         \E u \in WholeIn(value, units) : \A v \in WholeIn(value, units) : units[v] <= units[u]
  PROVE  Parsed(Shown(value, units), units) = value
<1>1. PICK unit : /\ unit \in WholeIn(value, units)
                  /\ Shown(value, units) = [number |-> value \div units[unit], unit |-> unit]
  BY DEF Shown
<1>2. PICK m \in Nat \ {0} : m = units[unit] /\ unit \in DOMAIN units
  BY <1>1 DEF WholeIn
<1>3. value \in Nat /\ value <= MaxU /\ MaxU \in Nat
  BY WidthAssumption DEF U64
<1>4. PICK n \in Nat : n = value \div m
  BY <1>2, <1>3
<1>5. n * m = value
  <2>1. m = 1 \/ value % m = 0
    BY <1>1, <1>2 DEF WholeIn
  <2>2. value = m * n + (value % m)
    BY <1>2, <1>3, <1>4
  <2>3. CASE m = 1
    BY <1>3, <1>4, <2>3
  <2>4. CASE value % m = 0
    BY <1>2, <1>3, <1>4, <2>2, <2>4
  <2> QED
    BY <2>1, <2>3, <2>4
<1>6. n <= value
  BY <1>2, <1>3, <1>4, <1>5
<1>7. n # None
  BY NoneAssumption
<1> QED
  BY <1>1, <1>2, <1>3, <1>4, <1>5, <1>6, <1>7 DEF Parsed, HasNumber, HasUnit

LEMMA KiloSteps ==
  /\ Kilo \in Nat \ {0} /\ Kilo * Kilo \in Nat \ {0} /\ Second \in Nat \ {0}
  /\ 1 <= Kilo /\ Kilo <= Kilo * Kilo /\ Kilo * Kilo <= Second
<1>1. PICK k \in Nat \ {0} : k = Kilo
  BY ScaleAssumption
<1>2. PICK k2 \in Nat \ {0} : k2 = k * k /\ k <= k2
  <2>1. 1 * k <= k * k
    BY TimesMonotone
  <2> QED
    BY <2>1
<1>3. k2 * k \in Nat \ {0} /\ k2 <= k2 * k
  <2>1. 1 * k2 <= k * k2
    BY <1>2, TimesMonotone
  <2>2. k * k2 = k2 * k
    OBVIOUS
  <2> QED
    BY <2>1, <2>2
<1> QED
  BY <1>1, <1>2, <1>3 DEF Second

\* A duration or a size of the width reads back as it was printed.
THEOREM ShownReadsBack == Spec => []ShownParsesBack
<1>1. ASSUME NEW d \in U64 PROVE DurationOf(ShownDuration(d)) = d
  <2>1. /\ DOMAIN DurationUnit = {"ns", "us", "ms", "s"}
        /\ DurationUnit["ns"] = 1 /\ DurationUnit["us"] = Kilo
        /\ DurationUnit["ms"] = Kilo * Kilo /\ DurationUnit["s"] = Second
    BY DEF DurationUnit
  <2> DEFINE W == WholeIn(d, DurationUnit)
  <2>2. W \subseteq {"ns", "us", "ms", "s"} /\ "ns" \in W
    BY <2>1 DEF WholeIn
  <2> HIDE DEF W
  <2>3. \E u \in W : \A v \in W : DurationUnit[v] <= DurationUnit[u]
    <3>1. CASE "s" \in W
      BY <3>1, <2>1, <2>2, KiloSteps
    <3>2. CASE "s" \notin W /\ "ms" \in W
      BY <3>2, <2>1, <2>2, KiloSteps
    <3>3. CASE "s" \notin W /\ "ms" \notin W /\ "us" \in W
      BY <3>3, <2>1, <2>2, KiloSteps
    <3>4. CASE "s" \notin W /\ "ms" \notin W /\ "us" \notin W
      BY <3>4, <2>1, <2>2, KiloSteps
    <3> QED
      BY <3>1, <3>2, <3>3, <3>4
  <2>4. \A u \in DOMAIN DurationUnit : DurationUnit[u] \in Nat \ {0}
    BY <2>1, KiloSteps
  <2> QED
    BY <2>3, <2>4, ShownIsExact DEF DurationOf, ShownDuration, W
<1>2. ASSUME NEW b \in U64 PROVE SizeOf(ShownSize(b)) = b
  <2>1. /\ DOMAIN SizeUnit = {"B", "KiB", "MiB"}
        /\ SizeUnit["B"] = 1 /\ SizeUnit["KiB"] = Kibi /\ SizeUnit["MiB"] = Kibi * Kibi
    BY DEF SizeUnit
  <2>2. /\ Kibi \in Nat \ {0} /\ Kibi * Kibi \in Nat \ {0}
        /\ 1 <= Kibi /\ Kibi <= Kibi * Kibi
    <3>1. PICK k \in Nat \ {0} : k = Kibi
      BY ScaleAssumption
    <3>2. 1 * k <= k * k /\ k * k \in Nat \ {0}
      BY TimesMonotone
    <3> QED
      BY <3>1, <3>2
  <2> DEFINE W == WholeIn(b, SizeUnit)
  <2>3. W \subseteq {"B", "KiB", "MiB"} /\ "B" \in W
    BY <2>1 DEF WholeIn
  <2> HIDE DEF W
  <2>4. \E u \in W : \A v \in W : SizeUnit[v] <= SizeUnit[u]
    <3>1. CASE "MiB" \in W
      BY <3>1, <2>1, <2>2, <2>3
    <3>2. CASE "MiB" \notin W /\ "KiB" \in W
      BY <3>2, <2>1, <2>2, <2>3
    <3>3. CASE "MiB" \notin W /\ "KiB" \notin W
      BY <3>3, <2>1, <2>2, <2>3
    <3> QED
      BY <3>1, <3>2, <3>3
  <2>5. \A u \in DOMAIN SizeUnit : SizeUnit[u] \in Nat \ {0}
    BY <2>1, <2>2
  <2> QED
    BY <2>4, <2>5, ShownIsExact DEF SizeOf, ShownSize, W
<1>3. ConversionTypeOK => ShownParsesBack
  BY <1>1, <1>2 DEF ConversionTypeOK, ShownParsesBack
<1> QED
  BY <1>3, TypeCorrect, PTL

\* A longer duration never converts to fewer ticks.
THEOREM NeverFewer == Spec => LongerIsNotFewer
<1>1. ConversionTypeOK /\ [Grow]_conversion
        => [ToTicks(duration, rate) <= ToTicks(duration', rate')]_conversion
  <2> SUFFICES ASSUME ConversionTypeOK, Grow
               PROVE  ToTicks(duration, rate) <= ToTicks(duration', rate')
    BY DEF conversion
  <2>1. duration \in Nat /\ rate \in Nat
    BY RatesAssumption, WidthAssumption DEF ConversionTypeOK, U64
  <2>2. duration' = duration + 1 /\ rate' = rate
    BY DEF Grow
  <2>3. duration + 1 \in Nat /\ duration <= duration + 1
    BY <2>1
  <2>4. ToTicks(duration, rate) <= ToTicks(duration + 1, rate)
    BY <2>1, <2>3, TicksMonotone
  <2> QED
    BY <2>2, <2>4
<1> QED
  BY <1>1, TypeCorrect, PTL DEF Spec, LongerIsNotFewer
=============================================================================
