---------------------------- MODULE PeriodProofs ----------------------------
(***************************************************************************)
(* What Period.tla satisfies for every width of the counters, every start  *)
(* and every interval.                                                     *)
(***************************************************************************)
EXTENDS Period, ArithmeticLemmas

\* Every intermediate value stays within its width.
THEOREM TypeCorrect == Spec => []TypeOK
<1> USE WidthAssumption, CounterAssumption, InputAssumption DEF SatAdd
<1>1. Init => TypeOK
  <2> SUFFICES ASSUME Init PROVE TypeOK
    OBVIOUS
  <2>1. start \in 0 .. MaxU /\ interval \in 0 .. MaxU
    BY DEF Init
  <2>2. now \in 0 .. MaxU /\ next \in 0 .. MaxU
    BY <2>1 DEF Init
  <2>3. missed \in 0 .. MaxMissed /\ runs \in 0 .. MaxU /\ running = FALSE
    BY DEF Init
  <2> QED
    BY <2>1, <2>2, <2>3 DEF TypeOK
<1>2. TypeOK /\ [Next]_vars => TypeOK'
  <2> SUFFICES ASSUME TypeOK, [Next]_vars PROVE TypeOK'
    OBVIOUS
  <2>1. CASE Tick            BY <2>1 DEF Tick, TypeOK
  <2>2. CASE Activate        BY <2>2 DEF Activate, TypeOK
  <2>3. CASE Complete
    <3> DEFINE target  == SatAdd(next, interval)
               skipped == Skipped(Since(now, target))
    <3>1. target \in 0 .. MaxU /\ Since(now, target) \in Nat
      BY DEF TypeOK, Since, SatSub
    <3>2. skipped \in Nat
      BY <3>1, DivCeilBounds DEF Skipped, TypeOK
    <3>3. SatMul(skipped, interval) \in 0 .. MaxU
      <4>1. skipped * interval \in Nat
        BY <3>2 DEF TypeOK
      <4> QED BY <4>1 DEF SatMul
    <3>4. MissedAfter(skipped) \in 0 .. MaxMissed
      BY <3>2 DEF MissedAfter, TypeOK
    <3>5. next' \in 0 .. MaxU /\ missed' \in 0 .. MaxMissed
      BY <2>3, <3>1, <3>3, <3>4 DEF Complete, Advance, TypeOK
    <3>6. running' = FALSE /\ runs' \in 0 .. MaxU /\ UNCHANGED <<now, start, interval>>
      BY <2>3 DEF Complete, TypeOK
    <3> QED
      BY <3>5, <3>6 DEF TypeOK
  <2>4. CASE UNCHANGED vars  BY <2>4 DEF vars, TypeOK
  <2> QED
    BY <2>1, <2>2, <2>3, <2>4 DEF Next
<1> QED
  BY <1>1, <1>2, PTL DEF Spec

\* What one completion does to the schedule, for an interval that is not zero:
\* the target moves by whole intervals, one for the run and one for each slot
\* skipped, to the first slot at or after the next one that is not in the past.
LEMMA AdvanceStep ==
  ASSUME TypeOK, Complete, interval > 0, next' < MaxU,
         next' \in 0 .. MaxU, missed' \in 0 .. MaxMissed
  PROVE  \E k \in Nat : /\ next' = next + interval + k * interval
                        /\ now <= next'
                        /\ k > 0 => next' < now + interval
                        /\ missed' < MaxMissed => missed' = missed + k
<1> USE WidthAssumption, CounterAssumption DEF TypeOK
<1> DEFINE target  == SatAdd(next, interval)
           behind  == Since(now, target)
           skipped == Skipped(behind)
<1>1. target \in 0 .. MaxU /\ behind \in Nat
  BY DEF SatAdd, Since, SatSub
<1>2. skipped = DivCeil(behind, interval)
  BY <1>1 DEF Skipped
<1>3. /\ skipped \in Nat
      /\ behind <= skipped * interval
      /\ skipped * interval < behind + interval
  BY <1>1, <1>2, DivCeilBounds
<1>4. CASE now <= target
  <2>1. next' = target /\ missed' = missed
    BY <1>4, <1>1 DEF Complete, Advance
  <2>2. next' = next + interval + 0 * interval
    BY <2>1 DEF SatAdd
  <2> QED
    BY <1>4, <2>1, <2>2
<1>5. CASE now > target
  <2> DEFINE moved == skipped * interval
  <2>1. moved \in Nat
    BY <1>3
  <2>2. next' = SatAdd(target, SatMul(skipped, interval)) /\ missed' = MissedAfter(skipped)
    BY <1>5, <1>1 DEF Complete, Advance
  <2>3. target = next + interval
    BY <1>5 DEF SatAdd
  <2>4. behind = now - target
    BY <1>5, <1>1 DEF Since, SatSub
  <2>5. next' = target + moved
    BY <2>1, <2>2, <1>1 DEF SatAdd, SatMul
  <2>6. missed' < MaxMissed => missed' = missed + skipped
    BY <2>2, <1>3 DEF MissedAfter
  <2> HIDE DEF target, behind, skipped, moved
  <2>7. now <= next' /\ next' < now + interval
    BY <1>1, <1>3, <2>1, <2>3, <2>4, <2>5 DEF moved
  <2>8. next' = next + interval + skipped * interval
    BY <2>3, <2>5 DEF moved
  <2> QED
    BY <1>3, <2>6, <2>7, <2>8
<1> QED
  BY <1>4, <1>5, <1>1

\* Every slot of the grid is accounted for once, as a run or as a miss.
THEOREM GridKept == Spec => []SlotsAccounted
<1> USE WidthAssumption, CounterAssumption, InputAssumption
<1> DEFINE Grid == /\ SlotsAccounted
                   /\ interval = 0 => next = start
<1>1. Init => Grid
  BY DEF Init, SlotsAccounted, SatAdd
<1>2. TypeOK /\ TypeOK' /\ Grid /\ [Next]_vars => Grid'
  <2> SUFFICES ASSUME TypeOK, TypeOK', Grid, [Next]_vars PROVE Grid'
    OBVIOUS
  <2>1. CASE Complete
    <3>1. CASE interval = 0
      <4>1. next' = next
        <5>1. SatAdd(next, interval) = next
          BY <3>1 DEF TypeOK, SatAdd
        <5>2. Skipped(Since(now, next)) = 1 /\ SatMul(1, interval) = 0
          BY <3>1 DEF Skipped, SatMul
        <5>3. SatAdd(next, 0) = next
          BY DEF TypeOK, SatAdd
        <5> QED
          BY <2>1, <5>1, <5>2, <5>3 DEF Complete, Advance
      <4>2. interval' = interval /\ start' = start
        BY <2>1 DEF Complete
      <4>3. start' + interval' * (1 + runs' + missed') = start'
        <5>1. runs' \in Nat /\ missed' \in Nat
          BY DEF TypeOK
        <5>3. interval' = 0 /\ start' \in Nat
          BY <3>1, <4>2 DEF TypeOK
        <5>2. \A x, y, z \in Nat : x + 0 * (1 + y + z) = x
          OBVIOUS
        <5> QED BY <5>1, <5>2, <5>3
      <4> QED
        BY <3>1, <4>1, <4>2, <4>3 DEF SlotsAccounted
    <3>2. CASE interval > 0 /\ next' < MaxU /\ missed' < MaxMissed
      <4>1. PICK k \in Nat : /\ next' = next + interval + k * interval
                             /\ missed' = missed + k
        BY <2>1, <3>2, AdvanceStep DEF TypeOK
      <4>2. k * interval \in Nat
        BY <4>1 DEF TypeOK
      <4>3. next = start + interval * (1 + runs + missed)
        BY <3>2, <4>1, <4>2 DEF TypeOK, SlotsAccounted
      <4>4. runs' = runs + 1 /\ start' = start /\ interval' = interval
        BY <2>1 DEF Complete
      <4>5. interval * (1 + (runs + 1) + (missed + k))
              = interval * (1 + runs + missed) + interval + k * interval
        BY <4>1 DEF TypeOK
      <4> QED
        BY <3>2, <4>1, <4>3, <4>4, <4>5 DEF SlotsAccounted, TypeOK
    <3>3. CASE interval > 0 /\ ~(next' < MaxU /\ missed' < MaxMissed)
      BY <2>1, <3>3 DEF Complete, SlotsAccounted
    <3> QED
      BY <3>1, <3>2, <3>3 DEF TypeOK
  <2>2. CASE Tick \/ Activate \/ UNCHANGED vars
    BY <2>2 DEF Tick, Activate, vars, SlotsAccounted
  <2> QED
    BY <2>1, <2>2 DEF Next
<1>3. Grid => SlotsAccounted
  OBVIOUS
<1> QED
  BY <1>1, <1>2, <1>3, TypeCorrect, PTL DEF Spec

\* The next activation is the first slot that is not in the past.
THEOREM FirstDue == Spec => NextIsFirstDue
<1> USE WidthAssumption, CounterAssumption
<1>1. TypeOK /\ TypeOK' /\ [Next]_vars
        => [(runs' > runs /\ interval > 0) =>
              /\ next' >= now
              /\ next' < MaxU => (next' < now + interval \/ next' = next + interval)]_vars
  <2> SUFFICES ASSUME TypeOK, TypeOK', Next, runs' > runs, interval > 0
               PROVE  /\ next' >= now
                      /\ next' < MaxU => (next' < now + interval \/ next' = next + interval)
    BY DEF vars
  <2>1. Complete
    BY DEF Next, Tick, Activate, TypeOK
  <2>2. CASE next' < MaxU
    <3>1. PICK k \in Nat : /\ next' = next + interval + k * interval
                           /\ now <= next'
                           /\ k > 0 => next' < now + interval
      BY <2>1, <2>2, AdvanceStep DEF TypeOK
    <3>2. k = 0 => k * interval = 0
      BY DEF TypeOK
    <3> QED
      BY <3>1, <3>2 DEF TypeOK
  <2>3. CASE next' = MaxU
    BY <2>3 DEF TypeOK
  <2> QED
    BY <2>2, <2>3 DEF TypeOK
<1> QED
  BY <1>1, TypeCorrect, PTL DEF Spec, NextIsFirstDue

\* The misses counted are the slots that went by while the task ran, until the
\* counter is full.
THEOREM MissesAreSlots == Spec => MissesCounted
<1> USE WidthAssumption, CounterAssumption
<1> DEFINE Counted == missed' = IF missed + Overrun > MaxMissed THEN MaxMissed ELSE missed + Overrun
<1>1. TypeOK /\ [Next]_vars => [(runs' > runs /\ interval > 0) => Counted]_vars
  <2> SUFFICES ASSUME TypeOK, Next, runs' > runs, interval > 0 PROVE Counted
    BY DEF vars
  <2>1. Complete
    BY DEF Next, Tick, Activate, TypeOK
  <2>2. /\ now \in Nat /\ now <= MaxU /\ next \in Nat /\ interval \in Nat \ {0}
        /\ missed \in Nat /\ missed <= MaxMissed
    BY DEF TypeOK
  <2>3. next < now => Overrun = DivCeil(now - next, interval) - 1
    BY <2>2, CountGrid DEF Overrun
  <2>4. PICK target \in Nat : target = SatAdd(next, interval)
    BY <2>2 DEF SatAdd
  <2>5. CASE now <= target
    <3>1. missed' = missed
      BY <2>1, <2>2, <2>4, <2>5 DEF Complete, Advance
    <3>2. Overrun = 0
      <4>1. CASE next < now
        <5>1. now - next \in Nat /\ now - next <= 1 * interval /\ 1 * interval < now - next + interval
          BY <2>2, <2>4, <2>5, <4>1 DEF SatAdd
        <5>2. DivCeil(now - next, interval) = 1
          BY <2>2, <5>1, DivCeilUnique
        <5> QED
          BY <2>3, <4>1, <5>2
      <4>2. CASE ~(next < now)
        <5>1. {g \in (next + 1) .. (now - 1) : (g - next) % interval = 0} = {}
          BY <2>2, <4>2
        <5> QED
          BY <5>1, FS_EmptySet DEF Overrun
      <4> QED
        BY <4>1, <4>2
    <3> QED
      BY <2>2, <3>1, <3>2
  <2>6. CASE now > target
    <3>1. target = next + interval /\ next < now
      BY <2>2, <2>4, <2>6 DEF SatAdd
    <3>2. PICK b \in Nat : b = now - target /\ b = Since(now, target)
      BY <2>2, <2>4, <2>6 DEF Since, SatSub
    <3>3. PICK k \in Nat : k = DivCeil(b, interval)
      BY <2>2, <3>2, DivCeilBounds
    <3>4. missed' = MissedAfter(k)
      <4>1. ~(now <= target)
        BY <2>2, <2>4, <2>6
      <4>2. missed' = MissedAfter(Skipped(Since(now, target)))
        <5>1. Advance
          BY <2>1, Zenon DEF Complete
        <5> HIDE DEF Counted
        <5>2. /\ now > SatAdd(next, interval)
              /\ missed' = MissedAfter(Skipped(Since(now, SatAdd(next, interval))))
          BY <5>1, <2>4, <4>1, Zenon DEF Advance
        <5> QED
          BY <2>4, <5>2
      <4>3. Skipped(b) = k
        BY <2>2, <3>3 DEF Skipped
      <4> QED
        BY <3>2, <4>2, <4>3
    <3>5. Overrun = k
      <4>1. now - next = 1 * interval + b
        BY <2>2, <3>1, <3>2
      <4>2. DivCeil(now - next, interval) = 1 + k
        <5>1. 1 \in Nat
          OBVIOUS
        <5>2. DivCeil(1 * interval + b, interval) = 1 + DivCeil(b, interval)
          BY <2>2, <5>1, DivCeilSplit, Zenon
        <5> QED
          BY <3>3, <4>1, <5>2
      <4> QED
        BY <2>3, <3>1, <4>2
    <3> QED
      BY <2>2, <3>3, <3>4, <3>5 DEF MissedAfter
  <2> QED
    BY <2>2, <2>4, <2>5, <2>6
<1> QED
  BY <1>1, TypeCorrect, PTL DEF Spec, MissesCounted
=============================================================================
