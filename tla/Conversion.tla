----------------------------- MODULE Conversion -----------------------------
(* The conversions of Units.tla along a growing duration, at any rate.      *)
EXTENDS Units, Timeout

CONSTANTS
  Rates,    \* in Hz
  Instants  \* at which a wait begins

ASSUME RatesAssumption == Rates \subseteq Nat /\ Instants \subseteq U64

VARIABLES
  duration,  \* in nanoseconds, microseconds or bytes, as the operator wants
  rate       \* in Hz

conversion == <<duration, rate>>

Init == duration = 0 /\ rate \in Rates

Grow == duration < MaxU /\ duration' = duration + 1 /\ UNCHANGED rate

Spec == Init /\ [][Grow]_conversion

-----------------------------------------------------------------------------
ConversionTypeOK == duration \in U64 /\ rate \in Rates /\ ToTicks(duration, rate) \in U64

\* A duration's ticks, summed from its whole seconds and the rest, are those of
\* the whole duration rounded up, wherever both products fit (units.rs lines
\* 65-70, "computed to avoid overflow for realistic inputs").
Fits == (duration \div Second) * rate <= MaxU /\ (duration % Second) * rate <= MaxU

TicksAreTheCeiling ==
  (Fits /\ rate # 0) =>
    ToTicks(duration, rate) = SatAdd(0, DivCeil(duration * rate, Second))

\* A longer duration never has fewer ticks, across the second boundary and
\* saturation included: what the manifest orders stays ordered for the analyser.
LongerIsNotFewer == [][ToTicks(duration, rate) <= ToTicks(duration', rate')]_conversion

\* "Rounds up so that a requested delay is never shorter than asked"
\* (crates/malleus-arch/src/time.rs line 82), nor longer by a tick, where
\* micros * hz does not saturate and the timeline does not end before; and
\* once it is an instant, it stays that instant however late it is passed on.
DelayIsExact ==
  \A now \in Instants, later \in Instants :
    LET deadline == DeadlineFrom(WaitTicks(TicksFromMicros(duration, rate)), now)
        delay    == (deadline - now) * (Kilo * Kilo)
    IN /\ (duration * rate <= MaxU /\ deadline < MaxU) =>
            duration * rate <= delay /\ delay < duration * rate + Kilo * Kilo
       /\ DeadlineFrom(WaitUntil(deadline), later) = deadline

\* What is printed of a duration or a size, in a diagnostic to copy from, says
\* exactly that value when it is written into a manifest (units.rs lines 112
\* and 188): no unit rounds it.
ShownParsesBack ==
  /\ DurationOf(ShownDuration(duration)) = duration
  /\ SizeOf(ShownSize(duration)) = duration
=============================================================================
