--------------------------- MODULE ReadySetProofs ---------------------------
(* Theorems about the conversion of priorities and about the ready set, for *)
(* every number of levels, of handlers and of hardware levels.              *)
EXTENDS ReadySet, WellFoundedInduction, TLAPS

-----------------------------------------------------------------------------
(* Priority::to_hardware. *)

\* A product of two bytes fits the saturating u16.
LEMMA ProductFits ==
  ASSUME NEW a \in U8, NEW b \in U8
  PROVE  a * b \in Nat /\ a * b <= MaxU16
  <1>1. a * b <= 255 * b
    BY SMT DEF U8
  <1>2. 255 * b <= 255 * 255
    BY SMT DEF U8
  <1>3. a * b >= 0
    BY SMT DEF U8
  <1>4. QED
    BY <1>1, <1>2, <1>3, SMT DEF U8, MaxU16

\* Division with a known quotient's bounds.
LEMMA Quotient ==
  ASSUME NEW n \in Nat, NEW d \in Nat \ {0}
  PROVE  /\ n \div d \in Nat
         /\ d * (n \div d) <= n
         /\ n < d * (n \div d) + d
  BY Z3T(30)

\* The larger of two quotients belongs to the larger multiple.
LEMMA Multiples ==
  ASSUME NEW d \in Nat \ {0}, NEW x \in Nat, NEW y \in Nat, d * x < d * y + d
  PROVE  x <= y
  <1>1. SUFFICES ASSUME x >= y + 1 PROVE FALSE
    BY SMT
  <1>2. d * x >= d * (y + 1)
    BY <1>1, Z3T(30)
  <1>3. d * (y + 1) = d * y + d
    BY Z3T(30)
  <1>4. QED
    BY <1>2, <1>3, SMT

\* What is scaled is the exact quotient, and less than the hardware levels.
LEMMA ScaledExact ==
  ASSUME NEW p \in Level, NEW n \in U8 \ {0}
  PROVE  /\ Scaled(p, n) = (p * n) \div PRIORITY_LEVELS
         /\ Scaled(p, n) \in 0 .. (n - 1)
  <1>1. /\ PRIORITY_LEVELS \in Nat \ {0} /\ p \in U8 /\ p \in Nat /\ p + 1 <= PRIORITY_LEVELS
        /\ n \in U8 /\ n \in Nat \ {0} /\ n - 1 \in Nat /\ n - 1 <= 254
    BY LevelsAssumption DEF Level, U8
  <1>2. p * n \in Nat /\ p * n <= MaxU16
    <2>1. p \in U8 /\ n \in U8
      BY <1>1
    <2>2. QED
      BY <2>1, ProductFits, Zenon
  <1>3. PICK q : q = (p * n) \div PRIORITY_LEVELS
    OBVIOUS
  <1>4. q \in Nat /\ PRIORITY_LEVELS * q <= p * n
    <2>1. PRIORITY_LEVELS \in Nat \ {0} /\ p * n \in Nat
      BY <1>1, <1>2
    <2>2. QED
      BY <2>1, <1>3, Quotient, Zenon
  <1>5. q <= n - 1
    <2>1. (p + 1) * n <= PRIORITY_LEVELS * n
      BY <1>1, Z3T(30)
    <2>2. (p + 1) * n = p * n + n
      BY <1>1, Z3T(30)
    <2>3. PRIORITY_LEVELS * n = PRIORITY_LEVELS * (n - 1) + PRIORITY_LEVELS
      <3>1. PICK L \in Nat : L = PRIORITY_LEVELS
        BY <1>1
      <3>2. PICK m \in Nat : n = m + 1
        BY <1>1, SMT
      <3>3. L * (m + 1) = L * m + L
        BY SMT
      <3>4. QED
        BY <3>1, <3>2, <3>3, SMT
    <2>4. PRIORITY_LEVELS * q < PRIORITY_LEVELS * (n - 1) + PRIORITY_LEVELS
      <3>1. PICK a \in Nat : a = p * n
        BY <1>2
      <3>2. PICK b : b = PRIORITY_LEVELS * q
        OBVIOUS
      <3>3. PICK c : c = PRIORITY_LEVELS * (n - 1)
        OBVIOUS
      <3>4. b \in Nat /\ c \in Nat
        BY <3>2, <3>3, <1>1, <1>4, SMT
      <3>5. b <= a /\ a + n <= c + PRIORITY_LEVELS
        BY <3>1, <3>2, <3>3, <2>1, <2>2, <2>3, <1>4
      <3>6. b < c + PRIORITY_LEVELS
        BY <3>1, <3>4, <3>5, <1>1, SMT
      <3>7. QED
        BY <3>2, <3>3, <3>6
    <2>5. QED
      BY <2>4, <1>1, <1>4, Multiples, Zenon
  <1>6. q % 256 = q
    BY <1>1, <1>4, <1>5, SMT
  <1>7. Scaled(p, n) = q
    BY <1>1, <1>2, <1>3, <1>6 DEF Scaled
  <1>8. QED
    BY <1>1, <1>3, <1>4, <1>5, <1>7, SMT

\* Every priority has a number the controller implements, what is left of its
\* levels above the scaled priority; on a controller without levels every
\* priority is 0.
THEOREM HardwareInRange ==
  ASSUME NEW p \in Level, NEW n \in U8
  PROVE  /\ n = 0 => ToHardware(p, n) = 0
         /\ n # 0 => /\ ToHardware(p, n) \in 0 .. (n - 1)
                     /\ ToHardware(p, n) = n - 1 - Scaled(p, n)
  <1>1. CASE n = 0
    BY <1>1 DEF ToHardware
  <1>2. CASE n # 0
    <2>1. n \in U8 \ {0}
      BY <1>2
    <2>2. QED
      BY <1>2, <2>1, ScaledExact, SMT DEF ToHardware, Minus, U8
  <1>3. QED
    BY <1>1, <1>2

\* The more urgent of two priorities never has the less urgent number.
THEOREM UrgencyInverts ==
  ASSUME NEW p \in Level, NEW q \in Level, NEW n \in U8 \ {0}, p <= q
  PROVE  ToHardware(q, n) <= ToHardware(p, n)
  <1>1. Scaled(p, n) <= Scaled(q, n)
    <2>1. /\ PRIORITY_LEVELS \in Nat \ {0} /\ p \in Nat /\ q \in Nat
          /\ n \in Nat
      BY LevelsAssumption DEF Level, U8
    <2>2. p * n <= q * n /\ p * n \in Nat /\ q * n \in Nat
      BY <2>1, Z3T(30)
    <2>3. PICK x : x = (p * n) \div PRIORITY_LEVELS
      OBVIOUS
    <2>4. PICK y : y = (q * n) \div PRIORITY_LEVELS
      OBVIOUS
    <2>5. /\ x \in Nat /\ PRIORITY_LEVELS * x <= p * n
          /\ y \in Nat /\ q * n < PRIORITY_LEVELS * y + PRIORITY_LEVELS
      BY <2>1, <2>2, <2>3, <2>4, Quotient, Zenon
    <2>6. PRIORITY_LEVELS * x < PRIORITY_LEVELS * y + PRIORITY_LEVELS
      BY <2>1, <2>2, <2>5, SMT
    <2>7. x <= y
      BY <2>1, <2>5, <2>6, Multiples, Zenon
    <2>8. QED
      BY <2>3, <2>4, <2>7, ScaledExact
  <1>2. QED
    <2>1. n \in U8 /\ n # 0
      OBVIOUS
    <2>2. /\ ToHardware(p, n) = n - 1 - Scaled(p, n)
          /\ ToHardware(q, n) = n - 1 - Scaled(q, n)
      BY <2>1, HardwareInRange, Zenon
    <2>3. QED
      BY <1>1, <2>2, ScaledExact, SMT DEF U8

\* On a controller with at least a level for every Priority, two priorities
\* never share one.
THEOREM UrgencySeparates ==
  ASSUME NEW p \in Level, NEW q \in Level, NEW n \in U8 \ {0},
         p < q, PRIORITY_LEVELS <= n
  PROVE  ToHardware(q, n) < ToHardware(p, n)
  <1>1. Scaled(p, n) + 1 <= Scaled(q, n)
    <2>1. /\ PRIORITY_LEVELS \in Nat \ {0} /\ p \in Nat /\ q \in Nat
          /\ n \in Nat
      BY LevelsAssumption DEF Level, U8
    <2>2. (p + 1) * n <= q * n /\ p * n \in Nat /\ q * n \in Nat
      BY <2>1, Z3T(30)
    <2>3. (p + 1) * n = p * n + n
      BY <2>1, Z3T(30)
    <2>4. PICK x : x = (p * n) \div PRIORITY_LEVELS
      OBVIOUS
    <2>5. PICK y : y = (q * n) \div PRIORITY_LEVELS
      OBVIOUS
    <2>6. /\ x \in Nat /\ PRIORITY_LEVELS * x <= p * n
          /\ y \in Nat /\ q * n < PRIORITY_LEVELS * y + PRIORITY_LEVELS
      BY <2>1, <2>2, <2>4, <2>5, Quotient, Zenon
    <2>7. PRIORITY_LEVELS * (x + 1) = PRIORITY_LEVELS * x + PRIORITY_LEVELS
      BY <2>1, <2>6, Z3T(30)
    <2>8. PRIORITY_LEVELS * (x + 1) < PRIORITY_LEVELS * y + PRIORITY_LEVELS
      BY <2>1, <2>2, <2>3, <2>6, <2>7, SMT
    <2>9. x + 1 <= y
      BY <2>1, <2>6, <2>8, Multiples
    <2>10. QED
      BY <2>4, <2>5, <2>9, ScaledExact
  <1>2. QED
    <2>1. n \in U8 /\ n # 0
      OBVIOUS
    <2>2. /\ ToHardware(p, n) = n - 1 - Scaled(p, n)
          /\ ToHardware(q, n) = n - 1 - Scaled(q, n)
      BY <2>1, HardwareInRange, Zenon
    <2>3. QED
      BY <1>1, <2>2, ScaledExact, SMT DEF U8

-----------------------------------------------------------------------------
(* The ready set. *)

\* The execution priorities are numbers, the thread's above every handler's
\* and the ceiling's.
LEMMA Numbers ==
  ASSUME hw \in U8 \ {0}
  PROVE  /\ hw \in Nat /\ Number(Thread) = hw
         /\ ToHardware(Ceiling, hw) \in 0 .. (hw - 1)
         /\ \A h \in Handlers : Number(h) \in 0 .. (hw - 1)
         /\ \A c \in Contexts : Number(c) \in Nat
  <1>1. hw \in Nat /\ Number(Thread) = hw
    BY DEF U8, Number
  <1>2. ToHardware(Ceiling, hw) \in 0 .. (hw - 1)
    BY ContextAssumption, HardwareInRange
  <1>3. ASSUME NEW h \in Handlers PROVE Number(h) \in 0 .. (hw - 1)
    <2>1. Number(h) = ToHardware(Urgency[h], hw) /\ Urgency[h] \in Level
      BY ContextAssumption DEF Number
    <2>2. QED
      BY <2>1, HardwareInRange
  <1>4. ASSUME NEW c \in Contexts PROVE Number(c) \in Nat
    <2>1. CASE c = Thread
      BY <1>1, <2>1
    <2>2. CASE c \in Handlers
      BY <1>1, <1>3, <2>2, SMT
    <2>3. QED
      BY <2>1, <2>2 DEF Contexts
  <1>5. QED
    BY <1>1, <1>2, <1>3, <1>4

\* Whoever calls the ready set is at or below its ceiling.
LEMMA CeilingCovers ==
  ASSUME hw \in U8 \ {0}, NEW c \in Users \cup {Thread}
  PROVE  ToHardware(Ceiling, hw) <= Number(c)
  <1>1. CASE c = Thread
    BY <1>1, Numbers, SMT
  <1>2. CASE c \in Users
    <2>1. Urgency[c] \in Level /\ Ceiling \in Level /\ Urgency[c] <= Ceiling /\ c # Thread
      BY <1>2, ContextAssumption
    <2>2. ToHardware(Ceiling, hw) <= ToHardware(Urgency[c], hw)
      BY <2>1, UrgencyInverts
    <2>3. QED
      BY <2>1, <2>2 DEF Number
  <1>3. QED
    BY <1>1, <1>2

\* A context that runs or enters a section is one of Contexts.
LEMMA CallersAreContexts == Users \cup {Thread} \subseteq Contexts /\ Handlers \subseteq Contexts
  BY ContextAssumption DEF Contexts

LEMMA LevelsOfBoard == HwLevels \subseteq U8 \ {0}
  BY ContextAssumption

\* The word is never anything but bits.
LEMMA UpdatedIsWord == ASSUME NEW c PROVE Updated(c) \in Word
  BY DEF Updated, Inserted, Removed, Or, And, Word

LEMMA TypeStep == TypeOK /\ [Next]_vars => TypeOK'
  <1> SUFFICES ASSUME TypeOK, [Next]_vars PROVE TypeOK'
    OBVIOUS
  <1>1. hw' = hw
    BY DEF Next, vars, Take, Return, Enter, Load, Store, Leave
  <1>2. \A h \in Handlers : Number(h)' = Number(h)
    BY <1>1 DEF Number
  <1> USE <1>1, <1>2, CallersAreContexts DEF TypeOK
  <1>3. ASSUME NEW h \in Handlers, Take(h) PROVE TypeOK'
    BY <1>3 DEF Take, Goto
  <1>4. ASSUME NEW h \in Handlers, Return(h) PROVE TypeOK'
    BY <1>4 DEF Return, Goto
  <1>5. ASSUME NEW c \in Users \cup {Thread}, NEW kind \in {"insert", "remove"},
               NEW p \in Touched, Enter(c, kind, p)
        PROVE  TypeOK'
    <2>1. [kind |-> kind, level |-> p] \in Calls
      BY ContextAssumption DEF Calls
    <2>2. QED
      BY <1>5, <2>1 DEF Enter, Goto
  <1>6. ASSUME NEW c \in Users \cup {Thread}, Load(c) PROVE TypeOK'
    BY <1>6 DEF Load, Goto
  <1>7. ASSUME NEW c \in Users \cup {Thread}, Store(c) PROVE TypeOK'
    BY <1>7, UpdatedIsWord DEF Store, Goto
  <1>8. ASSUME NEW c \in Users \cup {Thread}, Leave(c) PROVE TypeOK'
    BY <1>8 DEF Leave, Goto
  <1>9. CASE UNCHANGED vars
    BY <1>9 DEF vars
  <1>10. QED
    BY <1>3, <1>4, <1>5, <1>6, <1>7, <1>8, <1>9 DEF Next

LEMMA TypeInit == Init => TypeOK
  <1> SUFFICES ASSUME Init PROVE TypeOK
    OBVIOUS
  <1>1. hw \in HwLevels /\ \A h \in Handlers : Number(h) \in 0 .. (hw - 1)
    BY Numbers, LevelsOfBoard DEF Init
  <1>2. Zero \in Word
    BY DEF Zero, Word
  <1>3. QED
    BY <1>1, <1>2 DEF Init, TypeOK

\* The variables keep their types, and a handler's number is always one that
\* the controller implements (Priority::to_hardware).
THEOREM TypeCorrect == Spec => []TypeOK
  BY TypeInit, TypeStep, PTL DEF Spec

\* A section holds off no handler above its ceiling on a controller with a
\* level for every Priority, and otherwise only one that shares its number
\* (CriticalSection::enter_below).
THEOREM SectionsLeaveUrgentLive == Spec => []UrgentStaysLive
  <1>1. TypeOK => UrgentStaysLive
    <2> SUFFICES ASSUME TypeOK, NEW h \in Handlers, HeldOff(h), ~(Urgency[h] <= Ceiling)
                 PROVE  hw < PRIORITY_LEVELS /\ Number(h) = ToHardware(Ceiling, hw)
      BY DEF UrgentStaysLive
    <2>1. /\ hw \in U8 \ {0} /\ Urgency[h] \in Level /\ Ceiling \in Level
          /\ Number(h) = ToHardware(Urgency[h], hw)
      BY LevelsOfBoard, ContextAssumption DEF TypeOK, Number
    <2>2. Ceiling < Urgency[h] /\ Ceiling <= Urgency[h] /\ PRIORITY_LEVELS \in Nat /\ hw \in Nat
      BY <2>1, LevelsAssumption DEF Level, U8
    <2>3. Number(h) \in Nat /\ ToHardware(Ceiling, hw) \in Nat /\ Number(h) >= ToHardware(Ceiling, hw)
      BY <2>1, Numbers, CallersAreContexts, SMT DEF HeldOff
    <2>4. Number(h) <= ToHardware(Ceiling, hw)
      BY <2>1, <2>2, UrgencyInverts
    <2>5. ASSUME PRIORITY_LEVELS <= hw PROVE FALSE
      <3>1. Number(h) < ToHardware(Ceiling, hw)
        BY <2>1, <2>2, <2>5, UrgencySeparates
      <3>2. QED
        BY <3>1, <2>3, SMT
    <2>6. QED
      BY <2>2, <2>3, <2>4, <2>5, SMT
  <1>2. QED
    BY <1>1, TypeCorrect, PTL

-----------------------------------------------------------------------------
(* One section at a time, and what it makes of the word. *)

\* The section's owner is below the ceiling, so what could still run is above
\* it and calls nothing; what is above the ceiling never enters.
OneSection ==
  \A c, d \in Contexts : InSection(c) /\ InSection(d) => c = d

SectionRunsFirst ==
  \A c, d \in Contexts :
    InSection(d) /\ Active(c) /\ c # d =>
      Number(d) < Number(c) \/ Number(c) < ToHardware(Ceiling, hw)

\* What a section loaded is still the word when it stores.
LoadedIsCurrent == \A c \in Contexts : pc[c] = "loaded" => loaded[c] = word

CallsInSections == \A c \in Contexts : InSection(c) => call[c] \in Calls

Exclusive == TypeOK /\ OneSection /\ SectionRunsFirst /\ LoadedIsCurrent /\ CallsInSections

\* A running user or thread finds no section open but its own.
LEMMA NoOtherSection ==
  ASSUME TypeOK, SectionRunsFirst, NEW c \in Users \cup {Thread}, Active(c), Executing(c),
         NEW d \in Contexts, d # c
  PROVE  ~InSection(d)
  <1> SUFFICES ASSUME InSection(d) PROVE FALSE
    OBVIOUS
  <1>1. c \in Contexts /\ hw \in U8 \ {0} /\ Active(d)
    BY CallersAreContexts, LevelsOfBoard DEF TypeOK, InSection, Active
  <1>2. Number(c) < Number(d)
    BY <1>1 DEF Executing
  <1>3. Number(d) < Number(c) \/ Number(c) < ToHardware(Ceiling, hw)
    BY <1>1 DEF SectionRunsFirst
  <1>4. ToHardware(Ceiling, hw) <= Number(c) /\ ToHardware(Ceiling, hw) \in Nat
    BY <1>1, CeilingCovers, Numbers, SMT
  <1>5. Number(c) \in Nat /\ Number(d) \in Nat
    BY <1>1, Numbers
  <1>6. QED
    BY <1>2, <1>3, <1>4, <1>5, SMT

LEMMA ExclusiveStep == Exclusive /\ [Next]_vars => Exclusive'
  <1> SUFFICES ASSUME Exclusive, [Next]_vars PROVE Exclusive'
    OBVIOUS
  <1>1. TypeOK /\ TypeOK'
    BY TypeStep DEF Exclusive
  <1>2. hw' = hw /\ pc \in [Contexts -> {"idle", "running", "entered", "loaded", "stored"}]
    BY <1>1 DEF Next, vars, Take, Return, Enter, Load, Store, Leave, TypeOK
  <1>3. /\ \A c \in Contexts : Number(c)' = Number(c)
        /\ ToHardware(Ceiling, hw)' = ToHardware(Ceiling, hw)
    BY <1>2 DEF Number
  <1>4. ASSUME NEW h \in Handlers, Take(h) PROVE Exclusive'
    <2>1. /\ h \in Contexts /\ ~InSection(h)'
          /\ \A c \in Contexts : c # h => pc'[c] = pc[c]
          /\ pc'[h] = "running"
      BY <1>2, <1>4, CallersAreContexts DEF Take, Goto, InSection
    <2>2. \A c \in Contexts : InSection(c)' => InSection(c) /\ c # h
      BY <2>1 DEF InSection
    <2>3. OneSection' /\ LoadedIsCurrent' /\ CallsInSections'
      BY <1>4, <2>1, <2>2 DEF Exclusive, OneSection, LoadedIsCurrent, CallsInSections, Take
    <2>4. ASSUME NEW c \in Contexts, NEW d \in Contexts, InSection(d)', Active(c)', c # d
          PROVE  Number(d) < Number(c) \/ Number(c) < ToHardware(Ceiling, hw)
      <3>1. CASE c = h
        <4>1. Number(h) \in Nat /\ ToHardware(Ceiling, hw) \in Nat
          BY <1>1, <2>1, Numbers, LevelsOfBoard, SMT DEF TypeOK
        <4>2. ~(Number(h) >= ToHardware(Ceiling, hw))
          BY <1>4, <2>2, <2>4 DEF Take, HeldOff
        <4>3. QED
          BY <3>1, <4>1, <4>2, SMT
      <3>2. CASE c # h
        BY <2>1, <2>2, <2>4, <3>2 DEF Exclusive, SectionRunsFirst, Active
      <3>3. QED
        BY <3>1, <3>2
    <2>5. QED
      BY <1>1, <1>3, <2>3, <2>4 DEF Exclusive, SectionRunsFirst
  <1>5. ASSUME NEW h \in Handlers, Return(h) PROVE Exclusive'
    <2>1. /\ h \in Contexts /\ pc'[h] = "idle"
          /\ \A c \in Contexts : c # h => pc'[c] = pc[c]
      BY <1>2, <1>5, CallersAreContexts DEF Return, Goto
    <2>2. \A c \in Contexts : /\ InSection(c)' => InSection(c) /\ c # h
                              /\ Active(c)' => Active(c)
      BY <2>1 DEF InSection, Active
    <2>3. OneSection' /\ LoadedIsCurrent' /\ CallsInSections'
      BY <1>5, <2>1, <2>2 DEF Exclusive, OneSection, LoadedIsCurrent, CallsInSections, Return
    <2>4. SectionRunsFirst'
      BY <1>3, <2>2 DEF Exclusive, SectionRunsFirst
    <2>5. QED
      BY <1>1, <2>3, <2>4 DEF Exclusive
  <1>6. ASSUME NEW c \in Users \cup {Thread}, NEW kind \in {"insert", "remove"},
               NEW p \in Touched, Enter(c, kind, p)
        PROVE  Exclusive'
    <2>1. /\ c \in Contexts /\ pc'[c] = "entered" /\ Active(c) /\ Executing(c)
          /\ \A d \in Contexts : d # c => pc'[d] = pc[d] /\ call'[d] = call[d]
          /\ call'[c] = [kind |-> kind, level |-> p] /\ call'[c] \in Calls
      BY <1>1, <1>2, <1>6, CallersAreContexts, ContextAssumption
         DEF Enter, Goto, Active, TypeOK, Calls
    <2>2. \A d \in Contexts : InSection(d)' => d = c
      BY <1>1, <2>1, NoOtherSection DEF Exclusive, InSection
    <2>3. OneSection' /\ LoadedIsCurrent' /\ CallsInSections'
      BY <2>1, <2>2 DEF OneSection, LoadedIsCurrent, CallsInSections, InSection
    <2>4. ASSUME NEW a \in Contexts, Active(a)', a # c PROVE Number(c) < Number(a)
      BY <2>1, <2>4 DEF Executing, Active
    <2>5. SectionRunsFirst'
      BY <1>3, <2>2, <2>4 DEF SectionRunsFirst
    <2>6. QED
      BY <1>1, <2>3, <2>5 DEF Exclusive
  <1>7. ASSUME NEW c \in Users \cup {Thread}, Load(c) \/ Store(c) \/ Leave(c) PROVE Exclusive'
    <2>1. /\ c \in Contexts /\ InSection(c) /\ Active(c)' /\ Active(c)
          /\ \A d \in Contexts : d # c => /\ pc'[d] = pc[d] /\ call'[d] = call[d]
                                          /\ loaded'[d] = loaded[d]
      BY <1>1, <1>2, <1>7, CallersAreContexts
         DEF Load, Store, Leave, Goto, InSection, Active, TypeOK
    <2>2. \A d \in Contexts : InSection(d) => d = c
      BY <2>1 DEF Exclusive, OneSection
    <2>3. \A d \in Contexts : /\ InSection(d)' => d = c
                              /\ Active(d)' => Active(d)
      BY <2>1, <2>2 DEF InSection, Active
    <2>4. OneSection' /\ SectionRunsFirst'
      BY <1>3, <2>1, <2>2, <2>3 DEF Exclusive, OneSection, SectionRunsFirst
    <2>5. CASE Load(c)
      <3>1. pc'[c] = "loaded" /\ loaded'[c] = word /\ word' = word /\ call' = call
        BY <1>1, <2>1, <2>5 DEF Load, Goto, TypeOK
      <3>2. LoadedIsCurrent' /\ CallsInSections'
        BY <2>1, <2>3, <3>1 DEF Exclusive, LoadedIsCurrent, CallsInSections, InSection
      <3>3. QED
        BY <1>1, <2>4, <3>2 DEF Exclusive
    <2>6. CASE Store(c)
      <3>1. pc'[c] = "stored" /\ call' = call
        BY <1>1, <2>1, <2>6 DEF Store, Goto, TypeOK
      <3>2. LoadedIsCurrent' /\ CallsInSections'
        BY <2>1, <2>3, <3>1 DEF Exclusive, LoadedIsCurrent, CallsInSections, InSection
      <3>3. QED
        BY <1>1, <2>4, <3>2 DEF Exclusive
    <2>7. CASE Leave(c)
      <3>1. pc'[c] = "running"
        BY <1>1, <2>1, <2>7 DEF Leave, Goto, TypeOK
      <3>2. LoadedIsCurrent' /\ CallsInSections'
        BY <2>1, <2>3, <3>1 DEF LoadedIsCurrent, CallsInSections, InSection
      <3>3. QED
        BY <1>1, <2>4, <3>2 DEF Exclusive
    <2>8. QED
      BY <1>7, <2>5, <2>6, <2>7
  <1>8. CASE UNCHANGED vars
    BY <1>1, <1>8 DEF vars, Exclusive, OneSection, SectionRunsFirst, LoadedIsCurrent,
                      CallsInSections, InSection, Active, Number
  <1>9. QED
    BY <1>4, <1>5, <1>6, <1>7, <1>8 DEF Next

LEMMA ExclusiveInit == Init => Exclusive
  <1> SUFFICES ASSUME Init PROVE Exclusive
    OBVIOUS
  <1>1. \A c \in Contexts : ~InSection(c) /\ pc[c] # "loaded"
    BY DEF Init, InSection
  <1>2. QED
    BY <1>1, TypeInit DEF Exclusive, OneSection, SectionRunsFirst, LoadedIsCurrent, CallsInSections

LEMMA ExclusiveAlways == Spec => []Exclusive
  BY ExclusiveInit, ExclusiveStep, PTL DEF Spec

\* The word stands for the set of the levels whose bit is set.
LEMMA ContainsIsBit ==
  ASSUME NEW w \in Word, NEW p \in Level
  PROVE  Contains(w, p) <=> w[p] = 1
  <1>1. ASSUME w[p] = 1 PROVE And(w, Bit(p)) # Zero
    <2>1. And(w, Bit(p))[p] = 1 /\ Zero[p] = 0
      BY <1>1 DEF And, Bit, Zero
    <2>2. QED
      BY <2>1
  <1>2. ASSUME w[p] # 1 PROVE And(w, Bit(p)) = Zero
    BY <1>2 DEF And, Bit, Zero
  <1>3. QED
    BY <1>1, <1>2 DEF Contains

LEMMA MembersOfInserted ==
  ASSUME NEW w \in Word, NEW p \in Level
  PROVE  Members(Inserted(w, p)) = Members(w) \cup {p}
  <1>1. Inserted(w, p) \in Word
    BY DEF Inserted, Or, Word
  <1>2. \A q \in Level : Inserted(w, p)[q] = 1 <=> w[q] = 1 \/ q = p
    BY DEF Inserted, Or, Bit
  <1>3. QED
    BY <1>1, <1>2, ContainsIsBit DEF Members

LEMMA MembersOfRemoved ==
  ASSUME NEW w \in Word, NEW p \in Level
  PROVE  Members(Removed(w, p)) = Members(w) \ {p}
  <1>1. Removed(w, p) \in Word
    BY DEF Removed, And, Word
  <1>2. \A q \in Level : Removed(w, p)[q] = 1 <=> w[q] = 1 /\ q # p
    BY DEF Removed, And, Not, Bit
  <1>3. QED
    BY <1>1, <1>2, ContainsIsBit DEF Members

LEMMA InitIsEmptySet == Init => Levels!Init
  <1> SUFFICES ASSUME Init PROVE Members(word) = {}
    BY DEF Levels!Init
  <1>1. word \in Word /\ \A p \in Level : word[p] # 1
    BY DEF Init, Zero, Word
  <1>2. QED
    BY <1>1, ContainsIsBit DEF Members

LEMMA StepIsUpdate == Exclusive /\ [Next]_vars => [Levels!Next]_(Members(word))
  <1> SUFFICES ASSUME Exclusive, [Next]_vars PROVE Levels!Next \/ Members(word)' = Members(word)
    OBVIOUS
  <1>1. CASE word' = word
    BY <1>1 DEF Members, Contains
  <1>2. ASSUME NEW c \in Users \cup {Thread}, Store(c) PROVE Levels!Next
    <2>1. c \in Contexts /\ pc[c] = "loaded" /\ loaded[c] = word /\ call[c] \in Calls /\ word \in Word
      BY <1>2, CallersAreContexts
         DEF Store, Exclusive, LoadedIsCurrent, CallsInSections, InSection, TypeOK
    <2>2. call[c].kind \in {"insert", "remove"} /\ call[c].level \in Level
      BY <2>1 DEF Calls
    <2>3. CASE call[c].kind = "insert"
      <3>1. Members(word)' = Members(word) \cup {call[c].level}
        BY <1>2, <2>1, <2>2, <2>3, MembersOfInserted DEF Store, Updated, Members
      <3>2. QED
        BY <2>2, <3>1 DEF Levels!Next, Levels!Insert
    <2>4. CASE call[c].kind = "remove"
      <3>1. Members(word)' = Members(word) \ {call[c].level}
        BY <1>2, <2>1, <2>2, <2>4, MembersOfRemoved DEF Store, Updated, Members
      <3>2. QED
        BY <2>2, <3>1 DEF Levels!Next, Levels!Remove
    <2>5. QED
      BY <2>2, <2>3, <2>4
  <1>3. QED
    BY <1>1, <1>2 DEF Next, vars, Take, Return, Enter, Load, Leave

\* Each insertion and each removal takes effect whole, and none is lost,
\* whatever preempts what (ReadySet::insert and remove).
THEOREM UpdatesAreAtomic == Spec => ImplementsReadyLevels
  BY InitIsEmptySet, StepIsUpdate, ExclusiveAlways, PTL
     DEF Spec, ImplementsReadyLevels, Levels!Spec
-----------------------------------------------------------------------------
(* The most urgent member. *)

\* A set of levels that is not empty has a highest one.
LEMMA MostUrgent ==
  ASSUME NEW S \in SUBSET Level, S # {}
  PROVE  \E p \in S : \A q \in S : q <= p
  <1> DEFINE T == {n \in Nat : \E p \in S : n = PRIORITY_LEVELS - p}
             Less == {pair \in Nat \X Nat : pair[1] < pair[2]}
  <1>1. \A p \in S : p \in Nat /\ PRIORITY_LEVELS - p \in Nat
    BY LevelsAssumption DEF Level, U8
  <1>2. T \in SUBSET Nat /\ T # {}
    BY <1>1
  <1>3. Less \cap (Nat \X Nat) \subseteq OpToRel(<, Nat)
    BY DEF OpToRel
  <1>4. IsWellFoundedOn(Less, Nat)
    BY <1>3, NatLessThanWellFounded, IsWellFoundedOnSubrelation, Zenon
  <1>5. PICK m \in T : \A n \in T : <<n, m>> \notin Less
    BY <1>2, <1>4, WFMin, Zenon
  <1>6. PICK p \in S : m = PRIORITY_LEVELS - p
    BY <1>5
  <1>7. ASSUME NEW q \in S PROVE q <= p
    <2>1. PRIORITY_LEVELS - q \in T
      BY <1>1
    <2>2. m \in Nat /\ ~(PRIORITY_LEVELS - q < m)
      BY <1>1, <1>5, <2>1
    <2>3. QED
      BY <1>1, <1>6, <2>2, LevelsAssumption, SMT DEF U8
  <1>8. QED
    BY <1>7

\* Counting leading zeros finds it: the bit is set and none above it is.
LEMMA Ilog2IsHighest ==
  ASSUME NEW w \in Word, Members(w) # {}
  PROVE  Ilog2(w) \in Members(w) /\ \A p \in Members(w) : p <= Ilog2(w)
  <1>1. Members(w) \in SUBSET Level /\ \A p \in Level : p \in Members(w) <=> w[p] = 1
    BY ContainsIsBit DEF Members
  <1>2. PICK h \in Members(w) : \A q \in Members(w) : q <= h
    BY <1>1, MostUrgent
  <1>3. \A p \in Level : p \in Nat
    BY DEF Level
  <1>4. h \in Level /\ w[h] = 1 /\ \A j \in Level : j > h => w[j] = 0
    <2>1. ASSUME NEW j \in Level, j > h PROVE w[j] = 0
      <3>1. ~(j <= h)
        BY <1>1, <1>2, <1>3, <2>1, SMT
      <3>2. w[j] # 1 /\ w[j] \in {0, 1}
        BY <1>1, <1>2, <3>1 DEF Word
      <3>3. QED
        BY <3>2
    <2>2. QED
      BY <1>1, <1>2, <2>1
  <1>5. PICK i : i = Ilog2(w)
    OBVIOUS
  <1>6. i \in Level /\ w[i] = 1 /\ \A j \in Level : j > i => w[j] = 0
    BY <1>4, <1>5, Zenon DEF Ilog2
  <1>7. ASSUME NEW p \in Members(w) PROVE p <= i
    <2>1. p \in Level /\ w[p] = 1
      BY <1>1
    <2>2. ~(p > i)
      BY <1>6, <2>1
    <2>3. QED
      BY <1>3, <1>6, <2>1, <2>2, SMT
  <1>8. QED
    BY <1>1, <1>5, <1>6, <1>7

\* The scheduler is told of the most urgent level that is ready, and of none
\* only when none is, wherever the interrupts fall (ReadySet::highest).
THEOREM HighestIsHighest == Spec => []HighestIsMostUrgent
  <1>1. TypeOK => HighestIsMostUrgent
    <2> SUFFICES ASSUME TypeOK PROVE HighestIsMostUrgent
      OBVIOUS
    <2>1. word \in Word /\ \A p \in Level : p \in Members(word) <=> word[p] = 1
      BY ContainsIsBit DEF TypeOK, Members
    <2>2. CASE Members(word) = {}
      <3>1. word = Zero
        <4>1. ASSUME NEW p \in Level PROVE word[p] = 0
          <5>1. word[p] \in {0, 1} /\ word[p] # 1
            BY <2>1, <2>2 DEF Word
          <5>2. QED
            BY <5>1
        <4>2. word = [p \in Level |-> word[p]]
          BY <2>1 DEF Word
        <4>3. QED
          BY <4>1, <4>2 DEF Zero
      <3>2. QED
        BY <2>2, <3>1 DEF HighestIsMostUrgent, Highest, IsEmpty
    <2>3. CASE Members(word) # {}
      <3>1. word # Zero
        BY <2>1, <2>3 DEF Zero, Members
      <3>2. QED
        BY <2>1, <2>3, <3>1, Ilog2IsHighest DEF HighestIsMostUrgent, Highest, IsEmpty
    <2>4. QED
      BY <2>2, <2>3
  <1>2. QED
    BY <1>1, TypeCorrect, PTL
=============================================================================
