------------------------- MODULE CargoMalleusProofs -------------------------
(* What reaches the analyser is the contract the validator accepted, for    *)
(* every manifest, scale and width.                                         *)
EXTENDS CargoMalleus, ResponseTimeProofs

\* A text that parses is a number of the width.
LEMMA ParsedNumber ==
  ASSUME NEW text, IsText(text), NEW units, \A u \in DOMAIN units : units[u] \in Nat
  PROVE  Parsed(text, units) \in U64 \cup {None}
<1>1. CASE HasNumber(text) /\ HasUnit(text, units)
  <2>1. text.number \in Nat
    BY <1>1 DEF IsText, HasNumber
  <2>2. units[text.unit] \in Nat
    BY <1>1 DEF HasUnit
  <2>3. PICK n \in Nat : n = text.number * units[text.unit]
    BY <2>1, <2>2
  <2> QED
    BY <2>3, WidthAssumption DEF Parsed, U64
<1>2. CASE ~(HasNumber(text) /\ HasUnit(text, units))
  BY <1>2 DEF Parsed
<1> QED
  BY <1>1, <1>2

LEMMA KiloNumbers == Kilo \in Nat /\ Kilo * Kilo \in Nat /\ Second \in Nat
BY ScaleAssumption, SecondPositive

LEMMA DurationNumber ==
  ASSUME NEW text, IsText(text)
  PROVE  DurationOf(text) \in U64 \cup {None}
<1>1. \A u \in DOMAIN DurationUnit : DurationUnit[u] \in Nat
  BY KiloNumbers DEF DurationUnit
<1> QED
  BY <1>1, ParsedNumber DEF DurationOf

LEMMA HzNumber ==
  ASSUME NEW text, IsText(text)
  PROVE  TickHz(text) \in U64 \cup {None}
<1>1. \A u \in DOMAIN RateUnit : RateUnit[u] \in Nat
  BY KiloNumbers DEF RateUnit
<1> QED
  BY <1>1, ParsedNumber DEF TickHz

-----------------------------------------------------------------------------
\* No error of the report stands at any location.
LEMMA NoError ==
  ASSUME NEW r, IsOk(r), NEW code, code \notin Warning, NEW l
  PROVE  <<code, l>> \notin r
BY DEF IsOk, Errors

\* What an accepted manifest has been checked for, task by task.
LEMMA AcceptedNames ==
  ASSUME NEW m, IsManifest(m), IsOk(Validate(m)),
         NEW i \in DOMAIN m.tasks, NEW j \in DOMAIN m.tasks, m.tasks[i].name = m.tasks[j].name
  PROVE  i = j
<1>1. ASSUME NEW k \in DOMAIN m.tasks PROVE ~Repeated(m.tasks, k)
  <2>1. <<"M0001", m.tasks[k].name>> \notin CheckTaskNames(m)
    BY NoError DEF Validate, Warning
  <2> QED
    BY <2>1 DEF CheckTaskNames, At, Diagnostic, Named
<1>2. i \in Nat /\ j \in Nat /\ i >= 1 /\ j >= 1
  BY DEF IsManifest
<1>3. ~(i < j) /\ ~(j < i)
  BY <1>1, <1>2 DEF Repeated
<1> QED
  BY <1>2, <1>3

LEMMA AcceptedPriorities ==
  ASSUME NEW m, IsManifest(m), IsOk(Validate(m)), NEW k \in DOMAIN m.tasks
  PROVE  m.tasks[k].priority \in 1 .. MaxPriority
<1>1. /\ <<"M0003", m.tasks[k].name>> \notin CheckPriorities(m)
      /\ <<"M0004", m.tasks[k].name>> \notin CheckPriorities(m)
  BY NoError DEF Validate, Warning
<1>2. ~(m.tasks[k].priority > MaxPriority) /\ m.tasks[k].priority # 0
  BY <1>1 DEF CheckPriorities, At, Diagnostic, Named
<1>3. m.tasks[k].priority \in Nat
  BY DEF IsManifest
<1> QED
  BY <1>2, <1>3, LimitAssumption

\* Two tasks with a deadline at one level are warned of, by both their names.
LEMMA SharedLevelWarned ==
  ASSUME NEW m, NEW i \in DOMAIN m.tasks, NEW j \in DOMAIN m.tasks, i # j,
         m.tasks[i].priority = m.tasks[j].priority,
         m.tasks[i].deadline # None, m.tasks[j].deadline # None
  PROVE  \E d \in Validate(m) :
           d[1] = "M0005" /\ {m.tasks[i].name, m.tasks[j].name} \subseteq d[2]
<1>1. PICK p : p = m.tasks[i].priority /\ i \in DueAt(m, p) /\ j \in DueAt(m, p)
  BY DEF DueAt
<1>2. p \in SharedLevels(m)
  BY <1>1 DEF SharedLevels
<1>3. PICK names : names = {m.tasks[k].name : k \in DueAt(m, p)}
  OBVIOUS
<1>4. <<"M0005", names>> \in CheckPriorities(m)
  BY <1>2, <1>3 DEF CheckPriorities, At, Diagnostic
<1>5. <<"M0005", names>> \in Validate(m)
  BY <1>4 DEF Validate
<1>6. {m.tasks[i].name, m.tasks[j].name} \subseteq names
  BY <1>1, <1>3
<1> QED
  BY <1>5, <1>6

LEMMA AcceptedRate ==
  ASSUME NEW m, IsManifest(m), IsOk(Validate(m))
  PROVE  TickHz(m.tick_rate) \in Nat \ {0} /\ MaxU >= 1
<1>1. /\ <<"M0024", "[system]">> \notin CheckTiming(m)
      /\ <<"M0025", "[system]">> \notin CheckTiming(m)
  BY NoError DEF Validate, Warning
<1>2. TickHz(m.tick_rate) # None /\ TickHz(m.tick_rate) # 0
  BY <1>1 DEF CheckTiming, At, Diagnostic
<1>3. TickHz(m.tick_rate) \in U64 \cup {None}
  BY HzNumber DEF IsManifest
<1> QED
  BY <1>2, <1>3, WidthAssumption DEF U64

LEMMA AcceptedTimes ==
  ASSUME NEW m, IsManifest(m), IsOk(Validate(m)), NEW k \in DOMAIN m.tasks
  PROVE  /\ Duration(m.tasks[k].period) # 0
         /\ ~Exceeds(Duration(m.tasks[k].deadline), PeriodOf(m.tasks[k]))
         /\ ~Exceeds(Duration(m.tasks[k].wcet), Duration(m.tasks[k].deadline))
<1>1. /\ <<"M0026", m.tasks[k].name>> \notin CheckTiming(m)
      /\ <<"M0006", m.tasks[k].name>> \notin CheckTiming(m)
      /\ <<"M0007", m.tasks[k].name>> \notin CheckTiming(m)
  BY NoError DEF Validate, Warning
<1> QED
  BY <1>1 DEF CheckTiming, At, Diagnostic, Named

-----------------------------------------------------------------------------
\* The contract of one task, from the manifest that declares it.
LEMMA ConvertedTask ==
  ASSUME NEW m, IsManifest(m), IsOk(Validate(m)), ~Unreadable(m),
         NEW k \in DOMAIN m.tasks, NEW hz, hz = TickHz(m.tick_rate),
         NEW t, t = Timing(m.tasks[k], hz)
  PROVE  /\ t.period # None => /\ t.period > 0
                               /\ t.deadline # None => t.deadline <= t.period
         /\ (t.deadline # None /\ t.wcet # None) => t.wcet <= t.deadline
<1> DEFINE P == m.tasks[k].period
           D == m.tasks[k].deadline
           C == m.tasks[k].wcet
<1>1. hz \in Nat \ {0} /\ MaxU >= 1
  BY AcceptedRate
<1>2. t.period = Ticks(P, hz) /\ t.deadline = Ticks(D, hz) /\ t.wcet = Ticks(C, hz)
  BY DEF Timing
<1>3. ASSUME NEW text \in {P, D, C}
      PROVE  /\ text = None => Ticks(text, hz) = None
             /\ text # None => /\ DurationOf(text) \in Nat
                               /\ Duration(text) = DurationOf(text)
                               /\ Ticks(text, hz) = ToTicks(DurationOf(text), hz)
  <2>1. text # None => IsText(text)
    BY DEF IsManifest
  <2>2. ~Rejected(text)
    BY DEF Unreadable
  <2>3. text # None => DurationOf(text) \in U64
    BY <2>1, <2>2, DurationNumber DEF Rejected
  <2> QED
    BY <2>3, WidthAssumption DEF Ticks, Duration, U64
<1>4. /\ Duration(P) # 0
      /\ ~Exceeds(Duration(D), PeriodOf(m.tasks[k]))
      /\ ~Exceeds(Duration(C), Duration(D))
  BY AcceptedTimes
<1> HIDE DEF P, D, C
<1>5. ASSUME NEW a \in {P, D, C}, NEW b \in {P, D, C}, a # None, b # None,
             DurationOf(a) <= DurationOf(b)
      PROVE  Ticks(a, hz) <= Ticks(b, hz)
  BY <1>1, <1>3, <1>5, TicksMonotone
<1>6. P # None => Ticks(P, hz) > 0
  <2> SUFFICES ASSUME P # None PROVE Ticks(P, hz) > 0
    OBVIOUS
  <2>1. DurationOf(P) \in Nat \ {0}
    BY <1>3, <1>4
  <2>2. ToTicks(DurationOf(P), hz) >= 1 /\ ToTicks(DurationOf(P), hz) \in U64
    BY <1>1, <2>1, TicksPositive, TicksInRange
  <2> QED
    BY <1>3, <2>2, WidthAssumption DEF U64
<1>7. (P # None /\ D # None) => Ticks(D, hz) <= Ticks(P, hz)
  <2> SUFFICES ASSUME P # None, D # None PROVE Ticks(D, hz) <= Ticks(P, hz)
    OBVIOUS
  <2>1. PeriodOf(m.tasks[k]) = DurationOf(P)
    BY <1>3, <1>4 DEF PeriodOf, P
  <2>2. DurationOf(D) <= DurationOf(P)
    BY <1>3, <1>4, <2>1, NoneAssumption DEF Exceeds
  <2> QED
    BY <1>5, <2>2
<1>8. (C # None /\ D # None) => Ticks(C, hz) <= Ticks(D, hz)
  <2> SUFFICES ASSUME C # None, D # None PROVE Ticks(C, hz) <= Ticks(D, hz)
    OBVIOUS
  <2>1. DurationOf(C) <= DurationOf(D)
    BY <1>3, <1>4, NoneAssumption DEF Exceeds
  <2> QED
    BY <1>5, <2>1
<1> QED
  BY <1>2, <1>3, <1>6, <1>7, <1>8

-----------------------------------------------------------------------------
\* How the analyser's input comes from the manifest.
Converted(m) == [k \in DOMAIN m.tasks |-> Timing(m.tasks[k], TickHz(m.tick_rate))]

Handover ==
  /\ manifest \in Manifests
  /\ stage \in {"validated", "analyse"} => /\ manifest # None /\ ~StackAborts(manifest)
                                            /\ report = Validate(manifest)
  /\ stage = "analyse" => IsOk(report) /\ ~Unreadable(manifest) /\ tasks = Converted(manifest)

\* The analyser never writes the task set, and nothing after it does.
THEOREM HandedOver == Invocation => []Handover
<1>1. Start => Handover
  BY DEF Start, Handover
<1>2. Handover /\ [Step]_invocation => Handover'
  <2> SUFFICES ASSUME Handover, [Step]_invocation PROVE Handover'
    OBVIOUS
  <2>1. CASE RefuseCommand
    BY <2>1 DEF RefuseCommand, Exit, Handover, vars
  <2>2. CASE ReadManifest
    <3>1. CASE stage' = "exited"
      BY <2>2, <3>1 DEF ReadManifest, Handover
    <3>2. CASE stage' # "exited"
      <4>1. /\ manifest # None /\ report' = Validate(manifest) /\ stage' = "validated"
            /\ manifest' = manifest /\ ~StackAborts(manifest)
        BY <2>2, <3>2, Zenon DEF ReadManifest, Exit
      <4> QED
        BY <4>1 DEF Handover
    <3> QED
      BY <3>1, <3>2
  <2>3. CASE Check
    BY <2>3 DEF Check, Exit, Handover
  <2>4. CASE Convert
    <3>1. manifest' = manifest /\ report' = report /\ stage = "validated"
      BY <2>4, Zenon DEF Convert
    <3>2. CASE stage' = "exited"
      BY <3>1, <3>2 DEF Handover
    <3>3. CASE stage' # "exited"
      <4>1. IsOk(report) /\ ~Unreadable(manifest)
        BY <2>4, <3>3, Zenon DEF Convert, Exit
      <4>2. stage' = "analyse" /\ tasks' = Converted(manifest)
        BY <2>4, <3>3, Zenon DEF Convert, Exit, Converted
      <4> QED
        BY <3>1, <4>1, <4>2, Zenon DEF Handover
    <3> QED
      BY <3>2, <3>3
  <2>5. CASE Analyse
    <3>1. tasks' = tasks
      BY <2>5 DEF Analyse, Next, BeginTask, PushVerdict, Finish, GatherOther,
                  StartRecurrence, AddInterferer, Converge, CrossDeadline, Iterate
    <3>2. UNCHANGED cli
      BY <2>5 DEF Analyse
    <3> QED
      BY <3>1, <3>2, Zenon DEF Handover, cli
  <2>6. CASE Conclude
    BY <2>6 DEF Conclude, Exit, Handover
  <2>7. CASE UNCHANGED invocation
    BY <2>7, Zenon DEF invocation, cli, vars, Handover
  <2> QED
    BY <2>1, <2>2, <2>3, <2>4, <2>5, <2>6, <2>7 DEF Step
<1> QED
  BY <1>1, <1>2, PTL DEF Invocation

\* Whatever manifest is accepted, the analyser is called with unique names,
\* usable priorities, no zero period, deadlines within periods and WCETs within
\* deadlines, all in ticks; and the report warns of every two of its tasks that
\* have a deadline at one level.
THEOREM ContractKept == Invocation => []AnalysedContract
<1>1. Handover => AnalysedContract
  <2> SUFFICES ASSUME Handover, stage = "analyse"
               PROVE  /\ Validated(tasks)
                      /\ \A i \in DOMAIN tasks :
                           /\ tasks[i].priority \in 1 .. MaxPriority
                           /\ (tasks[i].deadline # None /\ tasks[i].wcet # None)
                                => tasks[i].wcet <= tasks[i].deadline
                           /\ \A j \in DOMAIN tasks :
                                (/\ i # j /\ tasks[i].priority = tasks[j].priority
                                 /\ tasks[i].deadline # None /\ tasks[j].deadline # None)
                                => \E d \in report : /\ d[1] = "M0005"
                                                     /\ {tasks[i].name, tasks[j].name} \subseteq d[2]
    BY DEF AnalysedContract
  <2>1. /\ IsManifest(manifest) /\ IsOk(Validate(manifest)) /\ ~Unreadable(manifest)
        /\ tasks = Converted(manifest) /\ report = Validate(manifest)
    BY ManifestsAssumption, Zenon DEF Handover
  <2>2. DOMAIN tasks = DOMAIN manifest.tasks
    BY <2>1 DEF Converted
  <2>3. ASSUME NEW i \in DOMAIN tasks
        PROVE  /\ tasks[i] = Timing(manifest.tasks[i], TickHz(manifest.tick_rate))
               /\ tasks[i].name = manifest.tasks[i].name
               /\ tasks[i].priority = manifest.tasks[i].priority
               /\ tasks[i].deadline # None => manifest.tasks[i].deadline # None
    <3>1. tasks[i] = Timing(manifest.tasks[i], TickHz(manifest.tick_rate))
      BY <2>1, <2>2 DEF Converted
    <3> QED
      BY <3>1 DEF Timing, Ticks
  <2>4. ASSUME NEW i \in DOMAIN tasks
        PROVE  /\ tasks[i].period # None =>
                    /\ tasks[i].period > 0
                    /\ tasks[i].deadline # None => tasks[i].deadline <= tasks[i].period
               /\ (tasks[i].deadline # None /\ tasks[i].wcet # None)
                    => tasks[i].wcet <= tasks[i].deadline
    BY <2>1, <2>2, <2>3, ConvertedTask
  <2>5. ASSUME NEW i \in DOMAIN tasks
        PROVE  tasks[i].priority \in 1 .. MaxPriority
    BY <2>1, <2>2, <2>3, AcceptedPriorities
  <2>6. ASSUME NEW i \in DOMAIN tasks, NEW j \in DOMAIN tasks, tasks[i].name = tasks[j].name
        PROVE  i = j
    BY <2>1, <2>2, <2>3, <2>6, AcceptedNames
  <2>7. ASSUME NEW i \in DOMAIN tasks, NEW j \in DOMAIN tasks, i # j,
               tasks[i].priority = tasks[j].priority,
               tasks[i].deadline # None, tasks[j].deadline # None
        PROVE  \E d \in report : d[1] = "M0005" /\ {tasks[i].name, tasks[j].name} \subseteq d[2]
    <3>1. /\ i \in DOMAIN manifest.tasks /\ j \in DOMAIN manifest.tasks
          /\ manifest.tasks[i].priority = manifest.tasks[j].priority
          /\ manifest.tasks[i].deadline # None /\ manifest.tasks[j].deadline # None
      BY <2>2, <2>3, <2>7
    <3>2. \E d \in Validate(manifest) :
            /\ d[1] = "M0005"
            /\ {manifest.tasks[i].name, manifest.tasks[j].name} \subseteq d[2]
      BY <2>7, <3>1, SharedLevelWarned
    <3> QED
      BY <2>1, <2>3, <3>2
  <2> QED
    BY <2>4, <2>5, <2>6, <2>7 DEF Validated
<1> QED
  BY <1>1, HandedOver, PTL

-----------------------------------------------------------------------------
\* What the validator reads, analyze reads as well.
LEMMA AcceptedReadable ==
  ASSUME NEW m, IsManifest(m), IsOk(Validate(m))
  PROVE  /\ RateReadable(m.tick_rate) /\ ~RateOverflows(m.tick_rate)
         /\ ~Unreadable(m)
<1>1. TickHz(m.tick_rate) # None
  BY AcceptedRate, NoneAssumption
<1>2. RateReadable(m.tick_rate) /\ m.tick_rate.number * RateUnit[m.tick_rate.unit] <= MaxU
  BY <1>1 DEF TickHz, Parsed, RateReadable
<1>3. m.tick_rate.number * RateUnit[m.tick_rate.unit] \in Nat
  <2>1. m.tick_rate.number \in Nat
    BY <1>2 DEF RateReadable, HasNumber, IsManifest, IsText
  <2>2. \A u \in DOMAIN RateUnit : RateUnit[u] \in Nat
    BY KiloNumbers DEF RateUnit
  <2>3. m.tick_rate.unit \in DOMAIN RateUnit
    BY <1>2 DEF RateReadable, HasUnit
  <2> QED
    BY <2>1, <2>2, <2>3
<1>4. ~RateOverflows(m.tick_rate)
  BY <1>2, <1>3, WidthAssumption DEF RateOverflows
<1>5. ASSUME NEW k \in DOMAIN m.tasks PROVE ~Malformed(m.tasks[k])
  <2>1. <<"M0023", m.tasks[k].name>> \notin CheckTiming(m)
    BY NoError DEF Validate, Warning
  <2> QED
    BY <2>1 DEF CheckTiming, At, Diagnostic, Named
<1>6. ~Unreadable(m)
  BY <1>5 DEF Unreadable, Malformed
<1> QED
  BY <1>2, <1>4, <1>6

\* Once a manifest is accepted, analyze reaches the analyser: its own readers
\* refuse nothing and abort on nothing.
THEOREM NothingLeftToRefuse == Invocation => AcceptedIsConvertible
<1> DEFINE Accepting == stage = "validated" /\ command = "analyze" /\ IsOk(report)
<1>1. Handover /\ [Step]_invocation => [Accepting => stage' = "analyse"]_invocation
  <2> SUFFICES ASSUME Handover, Step, Accepting
               PROVE  stage' = "analyse"
    OBVIOUS
  <2>1. IsManifest(manifest) /\ report = Validate(manifest)
    BY ManifestsAssumption, Zenon DEF Handover
  <2>2. /\ RateReadable(manifest.tick_rate) /\ ~RateOverflows(manifest.tick_rate)
        /\ ~Unreadable(manifest)
    BY <2>1, AcceptedReadable
  <2>3. Convert
    BY DEF Step, RefuseCommand, ReadManifest, Check, Analyse, Conclude
  <2> QED
    BY <2>2, <2>3, Zenon DEF Convert
<1> QED
  BY <1>1, HandedOver, PTL DEF Invocation, AcceptedIsConvertible

-----------------------------------------------------------------------------
LEMMA RemainderUnique ==
  ASSUME NEW n \in Nat \ {0}, NEW q \in Nat, NEW a \in Nat, a < n
  PROVE  (n * q + a) % n = a
<1>1. PICK x \in Nat : x = n * q + a
  OBVIOUS
<1>2. PICK p \in Nat, b \in Nat : p = x \div n /\ b = x % n /\ b < n /\ x = n * p + b
  <2>1. x \div n \in Nat /\ x % n \in Nat /\ x % n < n /\ x = n * (x \div n) + (x % n)
    OBVIOUS
  <2> QED
    BY <2>1
<1>3. ASSUME NEW i \in Nat, NEW j \in Nat, i + 1 <= j PROVE n * i + n <= n * j
  <2>1. (i + 1) * n <= j * n
    BY <1>3, TimesMonotone
  <2>2. (i + 1) * n = n * i + n /\ j * n = n * j
    OBVIOUS
  <2> QED
    BY <2>1, <2>2
<1>4. n * q \in Nat /\ n * p \in Nat
  OBVIOUS
<1>5. ~(p + 1 <= q) /\ ~(q + 1 <= p)
  BY <1>1, <1>2, <1>3, <1>4
<1>6. p = q
  BY <1>5
<1> QED
  BY <1>1, <1>2, <1>4, <1>6

\* The rounding of a period, where a tick is a whole number of nanoseconds.
LEMMA AlignedIsWhole ==
  ASSUME NEW d \in Nat, NEW hz \in Nat \ {0}, Second % hz = 0
  PROVE  IsTickAligned(d, hz) <=> WholeTicks(d, hz)
<1>1. PICK n \in Nat \ {0} : n = Second
  BY SecondPositive
<1>2. PICK t \in Nat : t = n \div hz /\ n = hz * t
  <2>1. /\ n \div hz \in Nat /\ n % hz \in Nat
        /\ n = hz * (n \div hz) + (n % hz)
    OBVIOUS
  <2> QED
    BY <1>1, <2>1
<1>3. t # 0
  BY <1>1, <1>2
<1>4. PICK q \in Nat, r \in Nat : /\ q = d \div t /\ r = d % t
                                  /\ r < t /\ d = t * q + r
  BY <1>2, <1>3
<1>5. d * hz = n * q + r * hz
  <2>1. (t * q + r) * hz = (hz * t) * q + r * hz
    OBVIOUS
  <2> QED
    BY <1>2, <1>4, <2>1
<1>6. r * hz \in Nat /\ r * hz < n
  <2>1. r + 1 \in Nat /\ r + 1 <= t
    BY <1>4
  <2>2. (r + 1) * hz <= t * hz
    BY <2>1, TimesMonotone
  <2>3. (r + 1) * hz = r * hz + hz /\ r * hz \in Nat
    OBVIOUS
  <2>4. t * hz = n
    BY <1>2
  <2> QED
    BY <2>2, <2>3, <2>4
<1>7. (d * hz) % n = r * hz
  <2>1. PICK a \in Nat : a = r * hz /\ a < n
    BY <1>6
  <2>2. (n * q + a) % n = a
    BY <2>1, RemainderUnique
  <2> QED
    BY <1>5, <2>1, <2>2
<1>8. r * hz = 0 <=> r = 0
  BY <1>4
<1> QED
  BY <1>1, <1>2, <1>3, <1>4, <1>7, <1>8 DEF IsTickAligned, WholeTicks

LEMMA AcceptedAlignment ==
  ASSUME NEW m, IsManifest(m), IsOk(Validate(m)), Second % TickHz(m.tick_rate) = 0,
         NEW k \in DOMAIN m.tasks, m.tasks[k].period # None
  PROVE  <<"M0009", m.tasks[k].name>> \in Validate(m)
           <=> ~WholeTicks(Duration(m.tasks[k].period), TickHz(m.tick_rate))
<1>1. TickHz(m.tick_rate) \in Nat \ {0}
  BY AcceptedRate
<1>2. ASSUME NEW i \in DOMAIN m.tasks, m.tasks[i].period # None
      PROVE  PeriodOf(m.tasks[i]) = Duration(m.tasks[i].period)
             /\ Duration(m.tasks[i].period) \in Nat
  <2>1. <<"M0023", m.tasks[i].name>> \notin CheckTiming(m)
    BY NoError DEF Validate, Warning
  <2>2. ~Malformed(m.tasks[i])
    BY <2>1 DEF CheckTiming, At, Diagnostic, Named
  <2>3. Duration(m.tasks[i].period) # None /\ Duration(m.tasks[i].period) = DurationOf(m.tasks[i].period)
    BY <1>2, <2>2 DEF Malformed, Rejected, Duration
  <2>4. IsText(m.tasks[i].period)
    BY <1>2 DEF IsManifest
  <2>5. Duration(m.tasks[i].period) \in Nat
    BY <2>3, <2>4, DurationNumber, WidthAssumption DEF U64
  <2>6. Duration(m.tasks[i].period) # 0
    BY AcceptedTimes
  <2> QED
    BY <2>5, <2>6 DEF PeriodOf
<1>3. <<"M0009", m.tasks[k].name>> \in Validate(m)
        <=> <<"M0009", m.tasks[k].name>> \in CheckTiming(m)
  BY DEF Validate, CheckTaskNames, CheckPriorities, CheckStacks, CheckChannels,
         CheckCapabilities, At, Diagnostic
<1>4. <<"M0009", m.tasks[k].name>> \in CheckTiming(m)
        <=> \E i \in DOMAIN m.tasks :
              /\ m.tasks[i].name = m.tasks[k].name
              /\ PeriodOf(m.tasks[i]) # None
              /\ ~IsTickAligned(PeriodOf(m.tasks[i]), TickHz(m.tick_rate))
  BY <1>1, NoneAssumption DEF CheckTiming, At, Diagnostic, Named
<1>5. \A i \in DOMAIN m.tasks : m.tasks[i].name = m.tasks[k].name => i = k
  BY AcceptedNames
<1>6. PeriodOf(m.tasks[k]) # None
  BY <1>2, NoneAssumption
<1>7. <<"M0009", m.tasks[k].name>> \in Validate(m)
        <=> ~IsTickAligned(PeriodOf(m.tasks[k]), TickHz(m.tick_rate))
  BY <1>3, <1>4, <1>5, <1>6, Zenon
<1> QED
  BY <1>1, <1>2, <1>7, AlignedIsWhole

\* At every rate that divides a second, M0009 warns of exactly the periods
\* that are no whole number of ticks.
THEOREM AlignmentDecided == Invocation => []AlignmentIsExact
<1>1. Handover => AlignmentIsExact
  <2> SUFFICES ASSUME Handover, stage = "analyse", Second % Hz = 0,
                      NEW k \in DOMAIN manifest.tasks, manifest.tasks[k].period # None
               PROVE  <<"M0009", manifest.tasks[k].name>> \in report
                        <=> ~WholeTicks(Duration(manifest.tasks[k].period), Hz)
    BY DEF AlignmentIsExact
  <2>1. IsManifest(manifest) /\ report = Validate(manifest) /\ IsOk(report)
    BY ManifestsAssumption, Zenon DEF Handover
  <2> QED
    BY <2>1, AcceptedAlignment DEF Hz
<1> QED
  BY <1>1, HandedOver, PTL

-----------------------------------------------------------------------------
\* What an accepted manifest has been checked for, channel by channel.
LEMMA AcceptedChannels ==
  ASSUME NEW m, IsManifest(m), IsOk(Validate(m)), NEW k \in DOMAIN m.channels
  PROVE  /\ m.channels[k].from # m.channels[k].to
         /\ {m.channels[k].from, m.channels[k].to} \subseteq TaskNames(m)
         /\ \A j \in DOMAIN m.channels : m.channels[j].name = m.channels[k].name => j = k
<1>1. ASSUME NEW i \in DOMAIN m.channels
      PROVE  /\ <<"M0013", m.channels[i].name>> \notin CheckChannels(m)
             /\ <<"M0014", m.channels[i].name>> \notin CheckChannels(m)
             /\ <<"M0015", m.channels[i].name>> \notin CheckChannels(m)
  BY NoError DEF Validate, Warning
<1>2. ASSUME NEW i \in DOMAIN m.channels PROVE ~Repeated(m.channels, i)
  BY <1>1 DEF CheckChannels, At, Diagnostic, Named
<1>3. ASSUME NEW j \in DOMAIN m.channels, m.channels[j].name = m.channels[k].name
      PROVE  j = k
  <2>1. j \in Nat /\ k \in Nat /\ j >= 1 /\ k >= 1
    BY DEF IsManifest
  <2>2. ~(j < k) /\ ~(k < j)
    BY <1>2, <1>3, <2>1 DEF Repeated
  <2> QED
    BY <2>1, <2>2
<1>4. m.channels[k].from # m.channels[k].to
  BY <1>1 DEF CheckChannels, At, Diagnostic, Named
<1>5. {m.channels[k].from, m.channels[k].to} \subseteq TaskNames(m)
  BY <1>1 DEF CheckChannels, At, Diagnostic, Named
<1> QED
  BY <1>3, <1>4, <1>5

LEMMA AcceptedCapabilities ==
  ASSUME NEW m, IsManifest(m), IsOk(Validate(m)),
         NEW k \in DOMAIN m.tasks, NEW n \in ChannelsOf(m.tasks[k])
  PROVE  \E j \in DOMAIN m.channels :
           /\ {i \in DOMAIN m.channels : m.channels[i].name = n} = {j}
           /\ m.tasks[k].name \in Endpoints(m.channels[j])
<1>1. /\ <<"M0020", m.tasks[k].name>> \notin CheckCapabilities(m)
      /\ <<"M0021", m.tasks[k].name>> \notin CheckCapabilities(m)
  BY NoError DEF Validate, Warning
<1>2. ChannelsOf(m.tasks[k]) \subseteq ChannelNames(m)
  BY <1>1 DEF CheckCapabilities, At, Diagnostic, Named
<1>3. PICK j \in DOMAIN m.channels : m.channels[j].name = n
  BY <1>2 DEF ChannelNames
<1>4. \A i \in DOMAIN m.channels : m.channels[i].name = n <=> i = j
  BY <1>3, AcceptedChannels
<1>5. m.tasks[k].name \in Endpoints(ChannelNamed(m, n))
  BY <1>1, <1>2 DEF CheckCapabilities, At, Diagnostic, Named
<1>6. ChannelNamed(m, n) = m.channels[j]
  <2>1. j <= j
    BY DEF IsManifest
  <2>2. \A i \in DOMAIN m.channels :
          (/\ m.channels[i].name = n
           /\ \A h \in DOMAIN m.channels : m.channels[h].name = n => h <= i) <=> i = j
    BY <1>4, <2>1
  <2> QED
    BY <2>2 DEF ChannelNamed
<1> QED
  BY <1>4, <1>5, <1>6

\* In every accepted manifest channels run between two declared tasks and a
\* capability names one channel, at one of whose ends is its holder.
THEOREM TopologyAccepted == Invocation => []AcceptedTopology
<1>1. Handover => AcceptedTopology
  <2> SUFFICES ASSUME Handover, stage = "validated", ParseAndValidate(manifest) = "Ok"
               PROVE  /\ \A k \in DOMAIN manifest.channels : LET c == manifest.channels[k] IN
                           c.from # c.to /\ {c.from, c.to} \subseteq TaskNames(manifest)
                      /\ \A k \in DOMAIN manifest.tasks : \A n \in ChannelsOf(manifest.tasks[k]) :
                           LET named == {j \in DOMAIN manifest.channels :
                                           manifest.channels[j].name = n} IN
                             /\ Cardinality(named) = 1
                             /\ \A j \in named :
                                  manifest.tasks[k].name \in Endpoints(manifest.channels[j])
    BY DEF AcceptedTopology
  <2>1. IsManifest(manifest) /\ IsOk(Validate(manifest))
    BY ManifestsAssumption DEF Handover, ParseAndValidate
  <2>2. ASSUME NEW k \in DOMAIN manifest.channels
        PROVE  LET c == manifest.channels[k] IN
                 c.from # c.to /\ {c.from, c.to} \subseteq TaskNames(manifest)
    BY <2>1, AcceptedChannels
  <2>3. ASSUME NEW k \in DOMAIN manifest.tasks, NEW n \in ChannelsOf(manifest.tasks[k])
        PROVE  LET named == {j \in DOMAIN manifest.channels : manifest.channels[j].name = n} IN
                 /\ Cardinality(named) = 1
                 /\ \A j \in named : manifest.tasks[k].name \in Endpoints(manifest.channels[j])
    <3>1. PICK j \in DOMAIN manifest.channels :
            /\ {i \in DOMAIN manifest.channels : manifest.channels[i].name = n} = {j}
            /\ manifest.tasks[k].name \in Endpoints(manifest.channels[j])
      BY <2>1, AcceptedCapabilities
    <3>2. Cardinality({j}) = 1
      BY FS_Singleton, Zenon
    <3> QED
      BY <3>1, <3>2
  <2> QED
    BY <2>2, <2>3, Zenon
<1> QED
  BY <1>1, HandedOver, PTL

-----------------------------------------------------------------------------
(* Types of an invocation.  The analyser is untouched until it is called   *)
(* with timings of its own type, and then moves by its own steps.          *)

Untouched ==
  /\ pc = "task" /\ cursor = 1 /\ other = 1 /\ interferers = <<>>
  /\ iteration = 0 /\ response = 0 /\ summed = 0 /\ next = 0
  /\ verdict = Unknown("no wcet") /\ verdicts = <<>> /\ utilisation = 0

CliInv ==
  /\ CliTypeOK /\ AnswerInv
  /\ stage \in {"run", "validated"} => Untouched
  /\ stage # "exited" => printed = <<>>

\* An untouched analyser is in a state of its type, whatever its task set.
LEMMA UntouchedTypes == (Untouched /\ tasks \in Seq(TaskTiming)) => (TypeOK /\ AnswerInv)
<1> SUFFICES ASSUME Untouched, tasks \in Seq(TaskTiming) PROVE TypeOK /\ AnswerInv
  OBVIOUS
<1>0. /\ interferers = <<>> /\ verdicts = <<>>
      /\ pc = "task" /\ cursor = 1 /\ other = 1
      /\ iteration = 0 /\ response = 0 /\ summed = 0 /\ next = 0 /\ utilisation = 0
  BY DEF Untouched
<1>1. Len(tasks) \in Nat
  OBVIOUS
<1>2. 0 \in U64 /\ 0 \in 0 .. MaxIterations
  BY WidthAssumption, BudgetAssumption DEF U64
<1>3. verdict \in Verdict
  BY VerdictTypes DEF Untouched, Reason
<1>4. interferers \in Seq(Interferer) /\ Len(interferers) = 0
  BY <1>0
<1>5. verdicts \in Seq(Verdict) /\ Len(verdicts) = 0 /\ DOMAIN verdicts = {}
  BY <1>0
<1>6. TypeOK
  BY <1>0, <1>1, <1>2, <1>3, <1>4, <1>5 DEF TypeOK
<1>7. AnswerInv
  BY <1>0, <1>5 DEF AnswerInv
<1> QED
  BY <1>6, <1>7

LEMMA UntouchedTypesAfter == (Untouched /\ tasks \in Seq(TaskTiming))' => (TypeOK /\ AnswerInv)'
BY UntouchedTypes, PTL

\* The timings of an accepted manifest have the analyser's type.
LEMMA ConvertedTypes ==
  ASSUME NEW m, IsManifest(m), TaskNames(m) \subseteq Name, IsOk(Validate(m)), ~Unreadable(m)
  PROVE  Converted(m) \in Seq(TaskTiming)
<1> DEFINE hz == TickHz(m.tick_rate)
<1>1. hz \in Nat \ {0}
  BY AcceptedRate
<1>2. ASSUME NEW text, text = None \/ IsText(text), ~Rejected(text)
      PROVE  Ticks(text, hz) \in OptU64
  <2>1. CASE text = None
    BY <2>1 DEF Ticks, OptU64
  <2>2. CASE text # None
    <3>1. DurationOf(text) \in U64
      BY <1>2, <2>2, DurationNumber DEF Rejected
    <3>2. ToTicks(DurationOf(text), hz) \in U64
      BY <1>1, <3>1, TicksInRange, Numbers
    <3> QED
      BY <2>2, <3>2 DEF Ticks, OptU64
  <2> QED
    BY <2>1, <2>2
<1>3. ASSUME NEW k \in DOMAIN m.tasks PROVE Timing(m.tasks[k], hz) \in TaskTiming
  <2> DEFINE t == m.tasks[k]
  <2>1. t.name \in Name /\ t.priority \in Nat
    BY DEF IsManifest, TaskNames
  <2>2. \A text \in {t.period, t.deadline, t.wcet} : (text = None \/ IsText(text)) /\ ~Rejected(text)
    BY DEF IsManifest, Unreadable
  <2>3. /\ Ticks(t.period, hz) \in OptU64 /\ Ticks(t.deadline, hz) \in OptU64
        /\ Ticks(t.wcet, hz) \in OptU64
    BY <1>2, <2>2
  <2>4. 0 \in U64
    BY WidthAssumption DEF U64
  <2> HIDE DEF t, hz
  <2>5. Timing(t, hz) \in TaskTiming
    BY <2>1, <2>3, <2>4 DEF Timing, TaskTiming
  <2> QED
    BY <2>5 DEF t
<1>4. Len(m.tasks) \in Nat /\ DOMAIN m.tasks = 1 .. Len(m.tasks)
  BY DEF IsManifest
<1>5. Converted(m) = [k \in 1 .. Len(m.tasks) |-> Timing(m.tasks[k], hz)]
  BY <1>4 DEF Converted
<1> HIDE DEF hz
<1> QED
  BY <1>3, <1>4, <1>5

\* One row for each task, once there is one verdict for each.
LEMMA RowsLine ==
  ASSUME TypeOK, AnswerInv, pc = "done"
  PROVE  /\ Len(Rows) = Len(tasks) /\ DOMAIN Rows = DOMAIN tasks
         /\ \A k \in DOMAIN tasks : Rows[k] = [timing |-> tasks[k], verdict |-> verdicts[k]]
<1>1. tasks \in Seq(TaskTiming) /\ verdicts \in Seq(Verdict) /\ Len(verdicts) = Len(tasks)
  BY DEF TypeOK, AnswerInv
<1>2. /\ Len(tasks) \in Nat /\ DOMAIN tasks = 1 .. Len(tasks) /\ DOMAIN verdicts = 1 .. Len(tasks)
  BY <1>1
<1>3. Rows = [k \in 1 .. Len(tasks) |-> [timing |-> tasks[k], verdict |-> verdicts[k]]]
  BY <1>2 DEF Rows
<1> QED
  BY <1>2, <1>3

LEMMA CliStep == Handover /\ CliInv /\ [Step]_invocation => CliInv'
<1> SUFFICES ASSUME Handover, CliInv, [Step]_invocation PROVE CliInv'
  OBVIOUS
<1>1. TypeOK /\ AnswerInv
  BY DEF CliInv, CliTypeOK
<1>2. ASSUME UNCHANGED vars PROVE TypeOK' /\ AnswerInv' /\ Untouched' = Untouched
  BY <1>1, <1>2, TypeStep, AnswerStep DEF vars, Untouched
<1>3. ASSUME UNCHANGED <<vars, command, manifest, report, printed, summary>>,
             stage # "exited", stage' = "exited", exit' \in {"success", "failure", "abort"}
      PROVE  CliInv'
  BY <1>2, <1>3, OutcomeAssumption, Zenon DEF CliInv, CliTypeOK, vars
<1>4. CASE RefuseCommand
  BY <1>3, <1>4 DEF RefuseCommand, Exit
<1>5. CASE ReadManifest
  <2>1. CASE stage' = "exited"
    BY <1>3, <1>5, <2>1 DEF ReadManifest, Exit
  <2>2. CASE stage' # "exited"
    <3>1. /\ UNCHANGED <<vars, command, manifest, printed, summary, exit>>
          /\ stage = "run" /\ stage' = "validated" /\ report' = Validate(manifest)
      BY <1>5, <2>2, Zenon DEF ReadManifest, Exit
    <3> QED
      BY <1>2, <3>1 DEF CliInv, CliTypeOK, vars
  <2> QED
    BY <2>1, <2>2
<1>6. CASE Check
  BY <1>3, <1>6 DEF Check, Exit
<1>7. CASE Convert
  <2>1. CASE stage' = "exited"
    <3>1. /\ UNCHANGED <<pc, cursor, loop, verdict, verdicts, utilisation,
                        command, manifest, report, printed, summary>>
          /\ stage = "validated"
      BY <1>7, Zenon DEF Convert
    <3>2. UNCHANGED tasks /\ exit' \in {"success", "failure", "abort"}
      BY <1>7, <2>1 DEF Convert, Exit
    <3> QED
      BY <1>3, <2>1, <3>1, <3>2 DEF vars, loop
  <2>2. CASE stage' # "exited"
    <3>1. /\ UNCHANGED <<pc, cursor, loop, verdict, verdicts, utilisation,
                        command, manifest, report, printed, summary, exit>>
          /\ stage = "validated" /\ stage' = "analyse"
          /\ IsOk(report) /\ ~Unreadable(manifest) /\ tasks' = Converted(manifest)
      BY <1>7, <2>2, Zenon DEF Convert, Exit, Converted
    <3>2. /\ IsManifest(manifest) /\ TaskNames(manifest) \subseteq Name
          /\ report = Validate(manifest)
      BY <3>1, ManifestsAssumption, Zenon DEF Handover
    <3>3. tasks' \in Seq(TaskTiming)
      BY <3>1, <3>2, ConvertedTypes
    <3>4. Untouched'
      BY <3>1 DEF CliInv, Untouched, loop
    <3>5. TypeOK' /\ AnswerInv'
      BY <3>3, <3>4, UntouchedTypesAfter
    <3>6. printed' = <<>>
      BY <3>1 DEF CliInv
    <3> QED
      BY <3>1, <3>5, <3>6 DEF CliInv, CliTypeOK
  <2> QED
    BY <2>1, <2>2
<1>8. CASE Analyse
  <2>1. stage = "analyse" /\ Next /\ UNCHANGED cli
    BY <1>8 DEF Analyse
  <2>2. TypeOK' /\ AnswerInv'
    BY <1>1, <2>1, TypeStep, AnswerStep
  <2> QED
    BY <2>1, <2>2 DEF CliInv, CliTypeOK, cli
<1>9. CASE Conclude
  <2>1. /\ UNCHANGED <<vars, command, manifest, report>> /\ stage = "analyse" /\ pc = "done"
        /\ printed' = Rows /\ summary' = Summary /\ stage' = "exited"
        /\ exit' \in {"success", "failure"}
    BY <1>9 DEF Conclude, Exit
  <2>2. Summary \in {"PASS", "FAIL", "UNKNOWN"}
    BY DEF Summary
  <2>3. Len(printed') = Len(tasks')
    BY <1>1, <2>1, RowsLine DEF vars
  <2> QED
    BY <1>2, <2>1, <2>2, <2>3, OutcomeAssumption DEF CliInv, CliTypeOK
<1>10. CASE UNCHANGED invocation
  BY <1>2, <1>10 DEF invocation, cli, CliInv, CliTypeOK, vars
<1> QED
  BY <1>4, <1>5, <1>6, <1>7, <1>8, <1>9, <1>10 DEF Step

LEMMA CliStart == Start => CliInv
<1> SUFFICES ASSUME Start PROVE CliInv
  OBVIOUS
<1>1. Untouched /\ tasks \in Seq(TaskTiming)
  BY TaskSetAssumption DEF Start, Init, Untouched
<1> QED
  BY <1>1, UntouchedTypes DEF Start, CliInv, CliTypeOK

\* Every state of an invocation, and of the analyser inside it, has the
\* declared type.
THEOREM CliTypeCorrect == Invocation => []CliTypeOK
<1>1. CliInv => CliTypeOK
  BY DEF CliInv
<1> QED
  BY <1>1, CliStart, CliStep, HandedOver, PTL DEF Invocation

-----------------------------------------------------------------------------
\* What a row says of its task of the manifest.
LEMMA RowAnswers ==
  ASSUME Handover, CliInv, stage = "analyse", pc = "done", NEW k \in DOMAIN manifest.tasks
  PROVE  /\ k \in DOMAIN Rows /\ k \in DOMAIN verdicts
         /\ verdicts[k].kind \in {"pass", "fail", "unknown"}
         /\ Rows[k].timing.name = manifest.tasks[k].name
         /\ verdicts[k].kind \in {"pass", "fail"} =>
              manifest.tasks[k].period # None /\ manifest.tasks[k].wcet # None
         /\ verdicts[k].kind = "pass" => Meets(Rows[k])
         /\ verdicts[k].kind = "fail" => Misses(Rows[k])
<1>1. TypeOK /\ AnswerInv /\ tasks = Converted(manifest)
  BY DEF CliInv, CliTypeOK, Handover
<1>2. /\ k \in DOMAIN tasks
      /\ tasks[k] = Timing(manifest.tasks[k], TickHz(manifest.tick_rate))
  BY <1>1 DEF Converted
<1>3. k \in DOMAIN Rows /\ Rows[k] = [timing |-> tasks[k], verdict |-> verdicts[k]]
  BY <1>1, <1>2, RowsLine
<1>4. k \in DOMAIN verdicts /\ verdicts[k] \in Verdict
  BY <1>1, <1>2 DEF TypeOK, AnswerInv
<1>5. verdicts[k].kind \in {"pass", "fail", "unknown"}
  BY <1>4 DEF Verdict
<1>6. AnswerOf(verdicts[k], tasks[k])
  BY <1>1, <1>4 DEF AnswerInv
<1>7. Declared(tasks[k]) => manifest.tasks[k].period # None /\ manifest.tasks[k].wcet # None
  BY <1>2 DEF Declared, Timing, Ticks
<1>8. tasks[k].name = manifest.tasks[k].name
  BY <1>2 DEF Timing
<1> QED
  BY <1>3, <1>4, <1>5, <1>6, <1>7, <1>8 DEF AnswerOf, Meets, Misses

LEMMA PassConcludes ==
  ASSUME Handover, CliInv, stage = "analyse", pc = "done", Summary = "PASS",
         NEW k \in DOMAIN manifest.tasks
  PROVE  /\ manifest.tasks[k].period # None /\ manifest.tasks[k].wcet # None
         /\ Rows[k].timing.name = manifest.tasks[k].name /\ Meets(Rows[k])
<1>1. k \in DOMAIN verdicts
  BY RowAnswers
<1>2. verdicts[k].kind = "pass"
  BY <1>1 DEF Summary, IsSchedulable, IsPass
<1> QED
  BY <1>2, RowAnswers

\* A FAIL takes a verdict for every task as well, and a miss among them.
LEMMA FailConcludes ==
  ASSUME Handover, CliInv, stage = "analyse", pc = "done", Summary = "FAIL"
  PROVE  DeclaresAll /\ \E k \in DOMAIN Rows : Misses(Rows[k])
<1>1. ~HasUnknowns(verdicts) /\ ~IsSchedulable(verdicts)
  BY DEF Summary
<1>2. ASSUME NEW k \in DOMAIN manifest.tasks
      PROVE  manifest.tasks[k].period # None /\ manifest.tasks[k].wcet # None
  <2>1. k \in DOMAIN verdicts /\ verdicts[k].kind \in {"pass", "fail", "unknown"}
    BY RowAnswers
  <2>2. verdicts[k].kind # "unknown"
    BY <1>1, <2>1 DEF HasUnknowns
  <2> QED
    BY <2>1, <2>2, RowAnswers
<1>3. PICK k \in DOMAIN verdicts : verdicts[k].kind # "pass"
  BY <1>1 DEF IsSchedulable, IsPass
<1>4. k \in DOMAIN manifest.tasks
  <2>1. DOMAIN verdicts = DOMAIN tasks
    BY DEF CliInv, CliTypeOK, TypeOK, AnswerInv
  <2> QED
    BY <2>1 DEF Handover, Converted
<1>5. verdicts[k].kind = "fail"
  BY <1>1, <1>3, <1>4, RowAnswers DEF HasUnknowns
<1>6. k \in DOMAIN Rows /\ Misses(Rows[k])
  BY <1>4, <1>5, RowAnswers
<1> QED
  BY <1>2, <1>6 DEF DeclaresAll

\* Only the conclusion of an analysis answers success to `analyze`.
LEMMA SuccessIsConcluded ==
  ASSUME CliInv, [Step]_invocation, Proven'
  PROVE  \/ Proven /\ UNCHANGED invocation
         \/ /\ Conclude /\ stage = "analyse" /\ pc = "done"
            /\ UNCHANGED <<vars, command, manifest, report>>
            /\ printed' = Rows /\ summary' = Summary /\ Summary = "PASS"
<1>1. command' = "analyze" /\ exit' = "success"
  BY DEF Proven
<1>2. exit # None <=> stage = "exited"
  BY DEF CliInv, CliTypeOK
<1>3. CASE RefuseCommand
  BY <1>1, <1>3 DEF RefuseCommand, Exit
<1>4. CASE ReadManifest
  <2>1. exit' \in {"failure", "abort"} \/ (exit' = exit /\ stage = "run")
    BY <1>4, Zenon DEF ReadManifest, Exit
  <2> QED
    BY <1>1, <1>2, <2>1, OutcomeAssumption
<1>5. CASE Check
  BY <1>1, <1>5 DEF Check
<1>6. CASE Convert
  <2>1. exit' \in {"failure", "abort"} \/ (exit' = exit /\ stage = "validated")
    BY <1>6, Zenon DEF Convert, Exit
  <2> QED
    BY <1>1, <1>2, <2>1, OutcomeAssumption
<1>7. CASE Analyse
  BY <1>1, <1>2, <1>7, OutcomeAssumption DEF Analyse, cli
<1>8. CASE Conclude
  <2>1. /\ stage = "analyse" /\ pc = "done" /\ UNCHANGED <<vars, command, manifest, report>>
        /\ printed' = Rows /\ summary' = Summary /\ Summary = "PASS"
    BY <1>1, <1>8 DEF Conclude, Exit
  <2> QED
    BY <1>8, <2>1
<1>9. CASE UNCHANGED invocation
  BY <1>1, <1>9 DEF Proven, invocation, cli
<1> QED
  BY <1>3, <1>4, <1>5, <1>6, <1>7, <1>8, <1>9 DEF Step

\* Before a summary there is nothing to be honest about; `analyze` alone runs
\* the analyser.
HonestInv == SummaryIsHonest /\ (stage = "analyse" => command = "analyze")

\* The one step that writes the summary.
LEMMA ConcludeIsHonest ==
  ASSUME Handover, CliInv, HonestInv, Conclude
  PROVE  SummaryIsHonest'
<1>1. /\ stage = "analyse" /\ pc = "done" /\ UNCHANGED <<vars, command, manifest, report>>
      /\ printed' = Rows /\ summary' = Summary
      /\ exit' = IF summary' = "PASS" THEN "success" ELSE "failure"
  BY DEF Conclude, Exit
<1>2. IsOk(report) /\ command = "analyze"
  BY <1>1 DEF Handover, HonestInv
<1>3. (Proven <=> summary = "PASS")'
  BY <1>1, <1>2 DEF Proven
<1>4. ASSUME summary' = "PASS"
      PROVE  /\ (IsOk(report) /\ DeclaresAll)'
             /\ \A k \in DOMAIN manifest.tasks :
                  Rows[k].timing.name = manifest.tasks[k].name /\ Meets(Rows[k])
  <2>1. Summary = "PASS"
    BY <1>1, <1>4
  <2>2. ASSUME NEW k \in DOMAIN manifest.tasks
        PROVE  /\ manifest.tasks[k].period # None /\ manifest.tasks[k].wcet # None
               /\ Rows[k].timing.name = manifest.tasks[k].name /\ Meets(Rows[k])
    BY <1>1, <2>1, PassConcludes
  <2> QED
    BY <1>1, <1>2, <2>2 DEF DeclaresAll
<1>5. ASSUME summary' = "FAIL"
      PROVE  DeclaresAll' /\ \E k \in DOMAIN Rows : Misses(Rows[k])
  <2>1. Summary = "FAIL"
    BY <1>1, <1>5
  <2>2. DeclaresAll /\ \E k \in DOMAIN Rows : Misses(Rows[k])
    BY <1>1, <2>1, FailConcludes
  <2> QED
    BY <1>1, <2>2 DEF DeclaresAll
<1> QED
  BY <1>1, <1>3, <1>4, <1>5 DEF SummaryIsHonest

LEMMA HonestStep == Handover /\ CliInv /\ HonestInv /\ [Step]_invocation => HonestInv'
<1> SUFFICES ASSUME Handover, CliInv, HonestInv, [Step]_invocation PROVE HonestInv'
  OBVIOUS
<1>1. (exit # None <=> stage = "exited") /\ (summary # None => stage = "exited")
  BY DEF CliInv, CliTypeOK
<1>2. CASE UNCHANGED invocation
  BY <1>2 DEF invocation, cli, HonestInv, SummaryIsHonest, Proven, DeclaresAll
<1>3. CASE Step
  <2>1. stage # "exited"
    BY <1>3 DEF Step, RefuseCommand, ReadManifest, Check, Convert, Analyse, Conclude
  <2>2. summary = None /\ ~Proven
    BY <1>1, <2>1, OutcomeAssumption DEF Proven
  <2>3. (stage = "analyse" => command = "analyze")'
    <3>1. CASE Convert
      BY <3>1, Zenon DEF Convert
    <3>2. CASE Analyse
      BY <3>2 DEF Analyse, cli, HonestInv
    <3>3. CASE ~Convert /\ ~Analyse
      BY <1>3, <3>3 DEF Step, RefuseCommand, ReadManifest, Check, Conclude, Exit
    <3> QED
      BY <3>1, <3>2, <3>3
  <2>4. CASE Conclude
    BY <2>3, <2>4, ConcludeIsHonest DEF HonestInv
  <2>5. CASE ~Conclude
    <3>1. summary' = None
      BY <1>3, <2>2, <2>5, Zenon DEF Step, RefuseCommand, ReadManifest, Check, Convert, Analyse, cli
    <3>2. ~Proven'
      BY <2>2, <2>5, SuccessIsConcluded
    <3> QED
      BY <2>3, <3>1, <3>2, OutcomeAssumption DEF HonestInv, SummaryIsHonest
  <2> QED
    BY <2>4, <2>5
<1> QED
  BY <1>2, <1>3

\* Success is returned just when PASS is printed.  PASS is printed only for a
\* manifest without errors whose every task declares its period and its WCET
\* and has a row with a response and a slack that make up its own deadline;
\* FAIL only where every task declares them too, and one has a row with a
\* response past its deadline by the overrun.
THEOREM SummaryHonest == Invocation => []SummaryIsHonest
<1>1. Start => HonestInv
  BY OutcomeAssumption DEF Start, HonestInv, SummaryIsHonest, Proven
<1>2. Invocation => []CliInv
  BY CliStart, CliStep, HandedOver, PTL DEF Invocation
<1>3. HonestInv => SummaryIsHonest
  BY DEF HonestInv
<1> QED
  BY <1>1, <1>2, <1>3, HonestStep, HandedOver, PTL DEF Invocation

-----------------------------------------------------------------------------
(* The static tables. *)

\* A size that parses and has a power of two above it is one the kernel holds.
LEMMA RoundedSize ==
  ASSUME NEW bytes \in U64, PowerOfTwo(bytes) # None
  PROVE  PowerOfTwo(bytes) \in U64
<1> DEFINE enough == {p \in {2 ^ k : k \in 0 .. Width - 1} \cap U64 : bytes <= p}
<1>1. /\ enough # {}
      /\ PowerOfTwo(bytes) = CHOOSE p \in enough : \A q \in enough : p <= q
  BY DEF PowerOfTwo
<1>2. enough \in SUBSET Nat /\ enough \in SUBSET U64
  BY WidthAssumption DEF U64
<1> HIDE DEF enough
<1>3. \E p \in enough : \A q \in enough : p <= q
  BY <1>1, <1>2, Least
<1>4. PowerOfTwo(bytes) \in enough
  BY <1>1, <1>3, Zenon
<1> QED
  BY <1>2, <1>4

LEMMA SizeNumber ==
  ASSUME NEW text, IsText(text)
  PROVE  SizeOf(text) \in U64 \cup {None}
<1>1. Kibi \in Nat /\ Kibi * Kibi \in Nat
  BY ScaleAssumption
<1>2. \A u \in DOMAIN SizeUnit : SizeUnit[u] \in Nat
  BY <1>1 DEF SizeUnit
<1> QED
  BY <1>2, ParsedNumber DEF SizeOf

\* What a task of a manifest is, field by field.
LEMMA TaskOfManifest ==
  ASSUME NEW m, IsManifest(m), NEW k \in DOMAIN m.tasks
  PROVE  /\ k \in Nat /\ k >= 1 /\ k <= Len(m.tasks) /\ Len(m.tasks) \in Nat
         /\ IsText(m.tasks[k].stack)
         /\ \A text \in {m.tasks[k].period, m.tasks[k].deadline, m.tasks[k].wcet} :
              text = None \/ IsText(text)
<1>1. Len(m.tasks) \in Nat /\ DOMAIN m.tasks = 1 .. Len(m.tasks)
  BY Zenon DEF IsManifest
<1>2. k \in Nat /\ k >= 1 /\ k <= Len(m.tasks) /\ Len(m.tasks) \in Nat
  BY <1>1
<1>3. IsText(m.tasks[k].stack)
  BY Zenon DEF IsManifest
<1>4. \A text \in {m.tasks[k].period, m.tasks[k].deadline, m.tasks[k].wcet} :
        text = None \/ IsText(text)
  BY Zenon DEF IsManifest
<1> QED
  BY <1>2, <1>3, <1>4, Zenon

\* What the tables hold of a written time, and which one is a task's deadline.
InTicks(text, hz) == IF Duration(text) = None THEN None ELSE ToTicks(Duration(text), hz)
DueText(t)        == IF t.deadline # None THEN t.deadline ELSE t.period

\* A descriptor's time is there just when the manifest declares it, and a time
\* that is not zero has a tick at least.
LEMMA DescribedTime ==
  ASSUME NEW text, text = None \/ (IsText(text) /\ ~Rejected(text)),
         NEW hz \in Nat \ {0}, MaxU >= 1
  PROVE  /\ InTicks(text, hz) \in U64 \cup {None}
         /\ InTicks(text, hz) = None <=> text = None
         /\ Duration(text) # 0 => InTicks(text, hz) # 0
<1>1. CASE text = None
  BY <1>1, NoneAssumption DEF Duration, InTicks
<1>2. CASE text # None
  <2>1. DurationOf(text) \in U64 /\ Duration(text) = DurationOf(text)
    BY <1>2, DurationNumber DEF Rejected, Duration
  <2>2. PICK d \in Nat : d = Duration(text)
    BY <2>1, WidthAssumption DEF U64
  <2>3. InTicks(text, hz) = ToTicks(d, hz)
    BY <2>2, NoneAssumption DEF InTicks
  <2>4. ToTicks(d, hz) \in U64 /\ ToTicks(d, hz) \in Nat
    BY TicksInRange, WidthAssumption DEF U64
  <2>5. d # 0 => ToTicks(d, hz) >= 1
    BY TicksPositive
  <2> QED
    BY <1>2, <2>2, <2>3, <2>4, <2>5, NoneAssumption
<1> QED
  BY <1>1, <1>2

LEMMA TaskBuilds ==
  ASSUME NEW m, IsManifest(m), IsOk(Validate(m)), ~StackAborts(m),
         Len(m.tasks) <= MAX_TASKS, MaxPriority < PRIORITY_LEVELS, NEW k \in DOMAIN m.tasks
  PROVE  TaskEntry(m, k) \in TaskDescriptor
<1>1. PICK id : id = k - 1 /\ id \in TaskId
  <2>1. k \in Nat /\ k >= 1 /\ k <= Len(m.tasks) /\ Len(m.tasks) \in Nat
    BY TaskOfManifest
  <2> QED
    BY <2>1, TablesAssumption DEF TaskId
<1>2. PICK p : p = m.tasks[k].priority /\ p \in Level
  <2>1. PICK p : p = m.tasks[k].priority /\ p \in 1 .. MaxPriority
    BY AcceptedPriorities
  <2>2. p \in Level
    BY <2>1, LimitAssumption, LevelsAssumption DEF Level
  <2> QED
    BY <2>1, <2>2
<1>3. PICK s : s = PowerOfTwo(SizeOf(m.tasks[k].stack)) /\ s \in U64
  <2>1. PICK size : size = SizeOf(m.tasks[k].stack)
    OBVIOUS
  <2>2. <<"M0010", m.tasks[k].name>> \notin CheckStacks(m)
    BY NoError DEF Validate, Warning
  <2>3. size # None
    BY <2>1, <2>2 DEF CheckStacks, At, Diagnostic, Named
  <2>4. size \in U64
    <3>1. IsText(m.tasks[k].stack)
      BY TaskOfManifest
    <3>2. SizeOf(m.tasks[k].stack) \in U64 \cup {None}
      BY <3>1, SizeNumber, Zenon
    <3> QED
      BY <2>1, <2>3, <3>2
  <2>5. PowerOfTwo(size) # None
    BY <2>1, <2>3, Zenon DEF StackAborts
  <2>6. PowerOfTwo(size) \in U64
    BY <2>4, <2>5, RoundedSize
  <2> QED
    BY <2>1, <2>6
<1>4. PICK hz \in Nat \ {0} : hz = TickHz(m.tick_rate) /\ MaxU >= 1
  BY AcceptedRate
<1>5. ASSUME NEW text \in {m.tasks[k].period, m.tasks[k].deadline, m.tasks[k].wcet}
      PROVE  text = None \/ (IsText(text) /\ ~Rejected(text))
  <2>1. text = None \/ IsText(text)
    BY TaskOfManifest
  <2>2. ~Unreadable(m)
    BY AcceptedReadable
  <2>3. ~Rejected(text)
    BY <2>2, Zenon DEF Unreadable
  <2> QED
    BY <2>1, <2>3
<1>6. PICK due : /\ due = DueText(m.tasks[k])
                 /\ due \in {m.tasks[k].period, m.tasks[k].deadline}
                 /\ m.tasks[k].period # None => due # None
  <2>1. DueText(m.tasks[k]) \in {m.tasks[k].period, m.tasks[k].deadline}
    BY Zenon DEF DueText
  <2>2. m.tasks[k].period # None => DueText(m.tasks[k]) # None
    BY Zenon DEF DueText
  <2> QED
    BY <2>1, <2>2
<1>7. PICK q, d, c : /\ q = InTicks(m.tasks[k].period, hz)
                     /\ d = InTicks(due, hz)
                     /\ c = InTicks(m.tasks[k].wcet, hz)
  OBVIOUS
<1>8. q \in U64 \cup {None} /\ q # 0 /\ (q # None => m.tasks[k].period # None)
  <2>1. Duration(m.tasks[k].period) # 0
    BY AcceptedTimes
  <2>2. m.tasks[k].period = None \/ (IsText(m.tasks[k].period) /\ ~Rejected(m.tasks[k].period))
    BY <1>5
  <2> QED
    BY <1>4, <1>7, <2>1, <2>2, DescribedTime, Zenon
<1>9. d \in U64 \cup {None} /\ (due # None => d # None)
  <2>1. due = None \/ (IsText(due) /\ ~Rejected(due))
    BY <1>5, <1>6
  <2> QED
    BY <1>4, <1>7, <2>1, DescribedTime, Zenon
<1>10. c \in U64 \cup {None}
  <2>1. m.tasks[k].wcet = None \/ (IsText(m.tasks[k].wcet) /\ ~Rejected(m.tasks[k].wcet))
    BY <1>5
  <2> QED
    BY <1>4, <1>7, <2>1, DescribedTime, Zenon
<1>11. PICK e : e = TaskEntry(m, k)
  OBVIOUS
<1>12. e = [id |-> id, priority |-> p, stack_bytes |-> s,
            period_ticks |-> q, deadline_ticks |-> d, wcet_ticks |-> c]
  BY <1>1, <1>2, <1>3, <1>4, <1>6, <1>7, <1>11, Zenon DEF TaskEntry, InTicks, DueText
<1>13. q \in (U64 \ {0}) \cup {None} /\ (q # None => d # None)
  BY <1>6, <1>8, <1>9, Zenon
<1>14. e \in TaskDescriptor
  BY <1>1, <1>2, <1>3, <1>9, <1>10, <1>12, <1>13 DEF TaskDescriptor
<1> QED
  BY <1>11, <1>14

\* An accepted name is that of one task, and its index is that task's id.
LEMMA IndexOf ==
  ASSUME NEW m, IsManifest(m), IsOk(Validate(m)), NEW k \in DOMAIN m.tasks
  PROVE  \A i \in DOMAIN m.tasks :
           (m.tasks[i].name = m.tasks[k].name /\ ~Repeated(m.tasks, i)) <=> i = k
<1>1. \A i \in DOMAIN m.tasks : m.tasks[i].name = m.tasks[k].name => i = k
  BY AcceptedNames
<1>2. ~Repeated(m.tasks, k)
  <2> SUFFICES ASSUME NEW j \in 1 .. (k - 1), m.tasks[j].name = m.tasks[k].name PROVE FALSE
    BY DEF Repeated
  <2>1. j \in DOMAIN m.tasks /\ j # k
    BY DEF IsManifest
  <2> QED
    BY <1>1, <2>1
<1> QED
  BY <1>1, <1>2

LEMMA ChannelBuilds ==
  ASSUME NEW m, IsManifest(m), IsOk(Validate(m)), Len(m.tasks) <= MAX_TASKS,
         NEW k \in DOMAIN m.channels
  PROVE  ChannelEntry(m, k) \in ChannelDescriptor
<1> DEFINE c == m.channels[k]
<1>1. c.from \in TaskNames(m) /\ c.to \in TaskNames(m)
  BY AcceptedChannels
<1>2. ASSUME NEW n \in TaskNames(m) PROVE Index(m, n) \in TaskId
  <2>1. PICK i \in DOMAIN m.tasks : m.tasks[i].name = n
    BY <1>2 DEF TaskNames
  <2>2. \A j \in DOMAIN m.tasks : (m.tasks[j].name = n /\ ~Repeated(m.tasks, j)) <=> j = i
    BY <2>1, IndexOf
  <2>3. Index(m, n) = i - 1
    BY <2>2 DEF Index
  <2> QED
    BY <2>3, TablesAssumption DEF IsManifest, TaskId
<1>3. /\ <<"M0016", c.name>> \notin CheckChannels(m)
      /\ <<"M0017", c.name>> \notin CheckChannels(m)
  BY NoError DEF Validate, Warning
<1>4. c.capacity # 0
  BY <1>3 DEF CheckChannels, At, Diagnostic, Named
<1>5. c.overflow \in KernelOverflow
  BY <1>3 DEF CheckChannels, At, Diagnostic, Named, Overflow, KernelOverflow
<1>6. c.capacity \in Capacity
  <2>1. MaxDepth = MaxU16 /\ MaxU16 \in Nat
    BY SMT DEF MaxDepth, MaxU16
  <2>2. PICK top \in Nat : top = MaxU16 /\ top = MaxDepth
    BY <2>1
  <2>3. c.capacity \in Nat /\ c.capacity <= top
    BY <2>2 DEF IsManifest
  <2> HIDE DEF c
  <2>4. c.capacity \in 1 .. top
    BY <1>4, <2>3
  <2> QED
    BY <2>2, <2>4 DEF Capacity
<1>7. ChannelEntry(m, k) = [capacity |-> c.capacity, overflow |-> c.overflow,
                            sender |-> Index(m, c.from), receiver |-> Index(m, c.to)]
  BY Zenon DEF ChannelEntry
<1> HIDE DEF c
<1> QED
  BY <1>1, <1>2, <1>5, <1>6, <1>7 DEF ChannelDescriptor

\* What the validator accepts, every constructor of the kernel's tables
\* accepts, given the priorities the validator allows are levels of the kernel
\* (31 and 32 in the code, declared in two crates).
THEOREM TablesAreBuilt ==
  ASSUME MaxPriority < PRIORITY_LEVELS
  PROVE  Invocation => []TablesBuild
<1>1. Handover => TablesBuild
  <2> SUFFICES ASSUME Handover, stage = "validated", ParseAndValidate(manifest) = "Ok",
                      Len(manifest.tasks) <= MAX_TASKS
               PROVE  Builds(manifest)
    BY DEF TablesBuild
  <2>1. IsManifest(manifest) /\ IsOk(Validate(manifest)) /\ ~StackAborts(manifest)
    BY ManifestsAssumption DEF Handover, ParseAndValidate
  <2> QED
    BY <2>1, TaskBuilds, ChannelBuilds DEF Builds
<1> QED
  BY <1>1, HandedOver, PTL

-----------------------------------------------------------------------------
(* Circles of blocking channels. *)

\* Whether s waits for t on some channel.
Waits(m, s, t) == \E k \in DOMAIN m.channels :
  CanBlock(m.channels[k].overflow) /\ m.channels[k].from = s /\ m.channels[k].to = t

\* The validator's lookup of a declared name finds the task of that name.
LEMMA TaskNamedIs ==
  ASSUME NEW m, IsManifest(m), IsOk(Validate(m)), NEW k \in DOMAIN m.tasks
  PROVE  TaskNamed(m, m.tasks[k].name) = m.tasks[k]
BY IndexOf DEF TaskNamed

\* An urgent task that waits for a less urgent one is warned of.
LEMMA DescentWarned ==
  ASSUME NEW m, NEW s \in TaskNames(m), NEW t \in TaskNames(m), Waits(m, s, t),
         TaskNamed(m, s).priority > TaskNamed(m, t).priority
  PROVE  \E d \in Validate(m) : d[1] = "M0018"
<1>1. PICK k \in DOMAIN m.channels :
        CanBlock(m.channels[k].overflow) /\ m.channels[k].from = s /\ m.channels[k].to = t
  BY DEF Waits
<1>2. Inverts(m, m.channels[k])
  BY <1>1 DEF Inverts, CanBlock
<1>3. <<"M0018", m.channels[k].name>> \in CheckChannels(m)
  BY <1>2 DEF CheckChannels, At, Diagnostic, Named
<1>4. <<"M0018", m.channels[k].name>>[1] = "M0018"
  OBVIOUS
<1> QED
  BY <1>3, <1>4 DEF Validate

LEMMA RemainderBelow ==
  ASSUME NEW a \in Nat, NEW n \in Nat
  PROVE  \E j \in 0 .. n : j = a % (n + 1)
<1>1. PICK b \in Nat \ {0} : b = n + 1
  OBVIOUS
<1>2. a % b \in Nat /\ a % b < b
  OBVIOUS
<1>3. a % b \in 0 .. n
  BY <1>1, <1>2
<1> QED
  BY <1>1, <1>3

\* In a ring of blocking channels the most urgent task waits for another.
LEMMA RingWarned ==
  ASSUME NEW m, IsManifest(m), IsOk(Validate(m)), DistinctPriorities(m.tasks),
         NEW n \in Nat \ {0}, NEW ring \in [0 .. n -> TaskNames(m)],
         \A i \in 0 .. n : Waits(m, ring[i], ring[(i + 1) % (n + 1)])
  PROVE  \E d \in Validate(m) : d[1] = "M0018"
<1> DEFINE level(x) == TaskNamed(m, x).priority
<1>1. ASSUME NEW x \in TaskNames(m)
      PROVE  /\ level(x) \in Nat /\ level(x) <= MaxPriority
             /\ \A y \in TaskNames(m) : level(y) = level(x) => y = x
  <2>1. PICK i \in DOMAIN m.tasks : m.tasks[i].name = x
    BY DEF TaskNames
  <2>2. level(x) = m.tasks[i].priority
    BY <2>1, TaskNamedIs
  <2>3. m.tasks[i].priority \in 1 .. MaxPriority
    BY AcceptedPriorities
  <2>4. ASSUME NEW y \in TaskNames(m), level(y) = level(x) PROVE y = x
    <3>1. PICK j \in DOMAIN m.tasks : m.tasks[j].name = y
      BY DEF TaskNames
    <3>2. level(y) = m.tasks[j].priority
      BY <3>1, TaskNamedIs
    <3>3. i = j
      BY <2>2, <2>4, <3>2 DEF DistinctPriorities
    <3> QED
      BY <2>1, <3>1, <3>3
  <2>5. level(x) \in Nat /\ level(x) <= MaxPriority
    BY <2>2, <2>3, LimitAssumption
  <2> HIDE DEF level
  <2> QED
    BY <2>4, <2>5
<1> HIDE DEF level
<1>2. \A i \in 0 .. n : ring[i] \in TaskNames(m)
  OBVIOUS
<1>3. PICK i \in 0 .. n : \A j \in 0 .. n : level(ring[j]) <= level(ring[i])
  <2> DEFINE T == {MaxPriority - level(ring[j]) : j \in 0 .. n}
  <2>1. \A j \in 0 .. n : level(ring[j]) \in Nat /\ MaxPriority - level(ring[j]) \in Nat
    BY <1>1, <1>2, LimitAssumption
  <2>2. T \in SUBSET Nat /\ T # {}
    <3>1. 0 \in 0 .. n
      BY Z3
    <3> QED
      BY <2>1, <3>1
  <2>3. PICK least \in T : \A q \in T : least <= q
    <3> HIDE DEF T
    <3> QED
      BY <2>2, Least
  <2>4. PICK i \in 0 .. n : least = MaxPriority - level(ring[i])
    BY <2>3
  <2>5. ASSUME NEW j \in 0 .. n PROVE level(ring[j]) <= level(ring[i])
    <3>1. MaxPriority - level(ring[i]) <= MaxPriority - level(ring[j])
      BY <2>3, <2>4
    <3> QED
      BY <2>1, <3>1, LimitAssumption
  <2> QED
    BY <2>5
<1>4. PICK j \in 0 .. n : j = (i + 1) % (n + 1)
  <2>1. i + 1 \in Nat
    BY Z3
  <2> QED
    BY <2>1, RemainderBelow
<1>5. Waits(m, ring[i], ring[j])
  BY <1>4
<1>6. ring[i] # ring[j]
  BY <1>5, AcceptedChannels DEF Waits
<1>7. level(ring[i]) > level(ring[j])
  <2>1. level(ring[j]) <= level(ring[i]) /\ level(ring[j]) # level(ring[i])
    BY <1>1, <1>2, <1>3, <1>6
  <2>2. level(ring[i]) \in Nat /\ level(ring[j]) \in Nat
    BY <1>1, <1>2
  <2> QED
    BY <2>1, <2>2
<1> QED
  BY <1>2, <1>5, <1>7, DescentWarned DEF level

\* Between tasks of distinct priorities, a circle of tasks that wait for one
\* another on blocking channels never passes without a warning.
THEOREM CirclesAreWarned == Invocation => []BlockingCircleIsWarned
<1>1. Handover => BlockingCircleIsWarned
  <2> SUFFICES ASSUME Handover, stage = "validated", ParseAndValidate(manifest) = "Ok",
                      DistinctPriorities(manifest.tasks), Circle
               PROVE  \E d \in report : d[1] = "M0018"
    BY DEF BlockingCircleIsWarned
  <2>1. IsManifest(manifest) /\ IsOk(Validate(manifest)) /\ report = Validate(manifest)
    BY ManifestsAssumption DEF Handover, ParseAndValidate
  <2>2. PICK n \in 1 .. Len(manifest.channels) - 1 :
          \E ring \in [0 .. n -> TaskNames(manifest)] :
            \A i \in DOMAIN ring : Blocks(ring[i], ring[(i + 1) % Cardinality(DOMAIN ring)])
    BY Zenon DEF Circle
  <2>3. PICK ring \in [0 .. n -> TaskNames(manifest)] :
            \A i \in DOMAIN ring : Blocks(ring[i], ring[(i + 1) % Cardinality(DOMAIN ring)])
    BY <2>2
  <2>4. n \in Nat \ {0} /\ DOMAIN ring = 0 .. n
    <3>1. Len(manifest.channels) \in Nat
      BY <2>1, Zenon DEF IsManifest
    <3> QED
      BY <3>1
  <2>5. Cardinality(0 .. n) = n + 1
    <3>1. 0 \in Int /\ n \in Int /\ 0 <= n
      BY <2>4
    <3>2. ~(0 > n) /\ n - 0 + 1 = n + 1
      BY <2>4
    <3>3. Cardinality(0 .. n) = IF 0 > n THEN 0 ELSE n - 0 + 1
      BY <3>1, FS_Interval, Zenon
    <3> QED
      BY <3>2, <3>3
  <2>6. \A s, t : Blocks(s, t) => Waits(manifest, s, t)
    BY Zenon DEF Blocks, Waits
  <2>7. \A i \in 0 .. n : Waits(manifest, ring[i], ring[(i + 1) % (n + 1)])
    BY <2>3, <2>4, <2>5, <2>6, Zenon
  <2>8. \E d \in Validate(manifest) : d[1] = "M0018"
    BY <2>1, <2>4, <2>7, RingWarned
  <2> QED
    BY <2>1, <2>8
<1> QED
  BY <1>1, HandedOver, PTL

-----------------------------------------------------------------------------
(* The response of a PASS, in nanoseconds.                                  *)

\* The task a manifest declares and the one the analyser is given: the same
\* urgency, the times by the common scale of ticks and nanoseconds.
LEMMA DeclaredInTicks ==
  ASSUME manifest \in Manifests, manifest # None, IsOk(Validate(manifest)), ~Unreadable(manifest),
         tasks = Converted(manifest), (Second - 1) * Hz <= MaxU,
         NEW k \in DOMAIN tasks, Declared(tasks[k]), WholeTicks(Nanos(k).period, Hz)
  PROVE  /\ k \in DOMAIN manifest.tasks /\ tasks[k].blocking = 0
         /\ tasks[k].name = manifest.tasks[k].name
         /\ tasks[k].priority = manifest.tasks[k].priority
         /\ tasks[k].period \in Nat \ {0} /\ tasks[k].wcet \in Nat
         /\ Nanos(k).period \in Nat \ {0} /\ Nanos(k).wcet \in Nat
         /\ tasks[k].period * Second <= Nanos(k).period * Hz
         /\ tasks[k].wcet < MaxU => Nanos(k).wcet * Hz <= tasks[k].wcet * Second
<1>1. IsManifest(manifest)
  BY ManifestsAssumption, Zenon
<1>2. Hz \in Nat \ {0} /\ MaxU >= 1
  BY <1>1, AcceptedRate DEF Hz
<1>3. k \in DOMAIN manifest.tasks /\ tasks[k] = Timing(manifest.tasks[k], Hz)
  BY DEF Converted, Hz
<1>4. /\ tasks[k].period = Ticks(manifest.tasks[k].period, Hz)
      /\ tasks[k].wcet = Ticks(manifest.tasks[k].wcet, Hz)
      /\ tasks[k].blocking = 0 /\ tasks[k].name = manifest.tasks[k].name
      /\ tasks[k].priority = manifest.tasks[k].priority
  BY <1>3 DEF Timing
<1>5. ASSUME NEW text \in {manifest.tasks[k].period, manifest.tasks[k].wcet}, Ticks(text, Hz) # None
      PROVE  /\ DurationOf(text) \in Nat /\ Duration(text) = DurationOf(text)
             /\ Ticks(text, Hz) = ToTicks(DurationOf(text), Hz)
  <2>1. text # None
    BY <1>5 DEF Ticks
  <2>2. IsText(text) /\ ~Rejected(text)
    BY <1>1, <1>3, <2>1 DEF IsManifest, Unreadable
  <2>3. DurationOf(text) \in U64
    BY <2>1, <2>2, DurationNumber DEF Rejected
  <2> QED
    BY <2>1, <2>3, WidthAssumption DEF Ticks, Duration, U64
<1>6. PICK T \in Nat, C \in Nat :
        /\ T = Nanos(k).period /\ C = Nanos(k).wcet /\ Duration(manifest.tasks[k].period) = T
        /\ tasks[k].period = ToTicks(T, Hz) /\ tasks[k].wcet = ToTicks(C, Hz)
  BY <1>4, <1>5 DEF Declared, Nanos
<1>7. T # 0
  BY <1>1, <1>3, <1>6, AcceptedTimes
<1>8. tasks[k].period \in U64 /\ tasks[k].period >= 1 /\ tasks[k].wcet \in U64
  BY <1>2, <1>6, <1>7, TicksInRange, TicksPositive
<1>9. tasks[k].period \in Nat \ {0} /\ tasks[k].wcet \in Nat
  BY <1>8, WidthAssumption DEF U64
<1>10. tasks[k].period * Second <= T * Hz
  BY <1>2, <1>6, TicksShort
<1>11. tasks[k].wcet < MaxU => C * Hz <= tasks[k].wcet * Second
  BY <1>2, <1>6, TicksLong
<1> QED
  BY <1>3, <1>4, <1>6, <1>7, <1>9, <1>10, <1>11

\* A fixed point of the demand in ticks is long enough for the demand in
\* nanoseconds.
LEMMA FixedPointCovers ==
  ASSUME manifest \in Manifests, manifest # None, IsOk(Validate(manifest)), ~Unreadable(manifest),
         tasks = Converted(manifest), tasks \in Seq(TaskTiming), (Second - 1) * Hz <= MaxU,
         \A k \in DOMAIN tasks : Declared(tasks[k]) /\ WholeTicks(Nanos(k).period, Hz),
         NEW c \in DOMAIN tasks, Decidable(tasks, c),
         NEW r \in Nat, r < MaxU, Exact(tasks, c, r) = r
  PROVE  CompleteBy(c, (r * Second) \div Hz)
<1>1. PICK hz \in Nat \ {0}, n \in Nat \ {0} : hz = Hz /\ n = Second
  BY AcceptedRate, SecondPositive, ManifestsAssumption DEF Hz
<1>2. /\ c \in 1 .. Len(tasks) /\ DOMAIN tasks = 1 .. Len(tasks)
      /\ DOMAIN tasks = DOMAIN manifest.tasks
  BY DEF Converted
<1>3. ASSUME NEW k \in DOMAIN tasks
      PROVE  /\ tasks[k].blocking = 0
             /\ tasks[k].name = manifest.tasks[k].name
             /\ tasks[k].priority = manifest.tasks[k].priority
             /\ tasks[k].period \in Nat \ {0} /\ tasks[k].wcet \in Nat
             /\ Nanos(k).period \in Nat \ {0} /\ Nanos(k).wcet \in Nat
             /\ tasks[k].period * n <= Nanos(k).period * hz
             /\ tasks[k].wcet < MaxU => Nanos(k).wcet * hz <= tasks[k].wcet * n
  BY <1>1, DeclaredInTicks
<1>4. Urgent(c) = Above(tasks, c)
  <2>1. ASSUME NEW k \in DOMAIN tasks, tasks[k].priority > tasks[c].priority
        PROVE  tasks[k].name # tasks[c].name
    <3>1. manifest.tasks[k].priority \in Nat
      BY <1>2, ManifestsAssumption DEF IsManifest
    <3>2. k # c
      BY <1>3, <2>1, <3>1
    <3> QED
      BY <1>2, <1>3, <3>2, AcceptedNames, ManifestsAssumption
  <2> QED
    BY <1>2, <1>3, <2>1 DEF Urgent, Above, Preempts
<1>5. PICK U : U = Urgent(c) /\ U = Above(tasks, c)
  BY <1>4
<1>6. PICK I : I = Interference(tasks, c, r)
  OBVIOUS
<1>7. /\ IsFiniteSet(U) /\ U \in SUBSET DOMAIN tasks
      /\ \A j \in U : I[j] = DivCeil(r, tasks[j].period) * tasks[j].wcet /\ I[j] \in Nat
      /\ SumFunctionOnSet(I, U) \in Nat
  BY <1>2, <1>5, <1>6, InterferenceTypes DEF Above
<1>8. PICK s \in Nat, w \in Nat : s = SumFunctionOnSet(I, U) /\ w = tasks[c].wcet /\ w + s = r
  <2>1. tasks[c].wcet + 0 + SumFunctionOnSet(I, U) = r /\ tasks[c].wcet \in Nat
    BY <1>3, <1>5, <1>6 DEF Exact
  <2> QED
    BY <1>7, <2>1
<1>9. PICK R \in Nat : R = (r * n) \div hz /\ R * hz <= r * n
  <2>1. r * n \in Nat /\ 0 * hz = 0 /\ 0 <= r * n
    OBVIOUS
  <2> QED
    BY <2>1, WholeSteps
<1>10. PICK P : P = Pending(c, R)
  OBVIOUS
<1>11. ASSUME NEW k \in U PROVE P[k] \in Nat /\ P[k] * hz <= I[k] * n
  <2>1. PICK t \in Nat \ {0}, v \in Nat, T \in Nat \ {0}, C \in Nat :
          /\ t = tasks[k].period /\ v = tasks[k].wcet /\ T = Nanos(k).period /\ C = Nanos(k).wcet
          /\ t * n <= T * hz
          /\ v < MaxU => C * hz <= v * n
    BY <1>3, <1>7
  <2>2. PICK i \in Nat, j \in Nat : i = DivCeil(R, T) /\ j = DivCeil(r, t)
    BY DivCeilBounds
  <2>3. P[k] = i * C /\ I[k] = j * v
    BY <1>5, <1>7, <1>10, <2>1, <2>2 DEF Pending
  <2>4. i <= j
    BY <1>9, <2>1, <2>2, FewerReleases
  <2>5. j * v <= r
    <3>1. I[k] <= s /\ I[k] \in Nat
      BY <1>7, <1>8, SumTerm
    <3> QED
      BY <1>8, <2>3, <3>1
  <2>6. CASE j = 0
    <3>1. i = 0
      BY <2>4, <2>6
    <3>2. 0 * C = 0 /\ 0 * v = 0 /\ 0 * hz = 0 /\ 0 * n = 0
      OBVIOUS
    <3> QED
      BY <2>3, <2>6, <3>1, <3>2
  <2>7. CASE j # 0
    <3>1. 1 * v <= j * v
      BY <2>7, TimesMonotone
    <3>2. 1 * v = v /\ j * v \in Nat
      OBVIOUS
    <3>3. v < MaxU
      BY <2>5, <3>1, <3>2, WidthAssumption
    <3>4. (i * C) * hz <= (j * v) * n
      BY <2>1, <2>4, <3>3, ScaledProduct
    <3> QED
      BY <2>3, <3>4
  <2> QED
    BY <2>6, <2>7
<1>12. PICK p \in Nat : p = SumFunctionOnSet(P, U) /\ p * hz <= s * n
  BY <1>1, <1>7, <1>8, <1>11, SumNat, SumScaled
<1>13. PICK C \in Nat : C = Nanos(c).wcet /\ C * hz <= w * n
  <2>1. w < MaxU
    BY <1>8, WidthAssumption
  <2> QED
    BY <1>3, <1>8, <2>1
<1>14. Work(c, R) = C + p
  BY <1>5, <1>10, <1>12, <1>13 DEF Work
<1>15. (C + p) * hz <= r * n
  <2>1. (C + p) * hz = C * hz + p * hz /\ (w + s) * n = w * n + s * n
    OBVIOUS
  <2>2. PICK a \in Nat, b \in Nat, d \in Nat, e \in Nat :
          a = C * hz /\ b = p * hz /\ d = w * n /\ e = s * n
    OBVIOUS
  <2>3. a <= d /\ b <= e
    BY <1>12, <1>13, <2>2
  <2>4. (C + p) * hz <= (w + s) * n
    BY <2>1, <2>2, <2>3
  <2> QED
    BY <1>8, <2>4
<1>16. C + p <= R
  <2>1. r * n \in Nat /\ C + p \in Nat
    OBVIOUS
  <2> QED
    BY <1>9, <1>15, <2>1, WholeSteps
<1>17. R \in 0 .. R /\ Work(c, R) <= R
  BY <1>14, <1>16
<1> QED
  BY <1>1, <1>9, <1>17 DEF CompleteBy

\* The analyser's invariants hold in every state of an invocation as well, and
\* a success leaves what it was concluded from.
AnalysisInv == ExactInv /\ GatherInv /\ FitInv

Concluded ==
  Proven => /\ manifest # None /\ IsOk(Validate(manifest)) /\ ~Unreadable(manifest)
            /\ tasks = Converted(manifest) /\ DOMAIN verdicts = DOMAIN tasks
            /\ \A i \in DOMAIN verdicts : verdicts[i].kind = "pass"

LEMMA UntouchedAnalysis == Untouched => AnalysisInv
<1>1. DOMAIN <<>> = {}
  OBVIOUS
<1> QED
  BY <1>1 DEF Untouched, AnalysisInv, ExactInv, GatherInv, FitInv

LEMMA UntouchedAnalysisAfter == Untouched' => AnalysisInv'
BY UntouchedAnalysis, PTL

LEMMA AnalysisKept == CliInv /\ AnalysisInv /\ [Step]_invocation => AnalysisInv'
<1> SUFFICES ASSUME CliInv, AnalysisInv, [Step]_invocation PROVE AnalysisInv'
  OBVIOUS
<1>1. TypeOK
  BY DEF CliInv, CliTypeOK
<1>2. ASSUME [Next]_vars PROVE AnalysisInv'
  BY <1>1, <1>2, ExactStep, GatherStep, FitStep DEF AnalysisInv
<1>3. CASE Convert
  <2>1. Untouched /\ UNCHANGED <<pc, cursor, loop, verdict, verdicts, utilisation>>
    BY <1>3, Zenon DEF Convert, CliInv
  <2>2. Untouched'
    BY <2>1 DEF Untouched, loop
  <2> QED
    BY <2>2, UntouchedAnalysisAfter
<1>4. CASE ~Convert
  <2>1. [Next]_vars
    BY <1>4, Zenon DEF Step, RefuseCommand, ReadManifest, Check, Analyse, Conclude, invocation
  <2> QED
    BY <1>2, <2>1
<1> QED
  BY <1>3, <1>4

LEMMA ConclusionKept == Handover /\ CliInv /\ Concluded /\ [Step]_invocation => Concluded'
<1> SUFFICES ASSUME Handover, CliInv, Concluded, [Step]_invocation, Proven' PROVE Concluded'
  BY DEF Concluded
<1>1. CASE Proven /\ UNCHANGED invocation
  BY <1>1 DEF Concluded, invocation, cli, vars
<1>2. CASE ~(Proven /\ UNCHANGED invocation)
  <2>1. /\ stage = "analyse" /\ pc = "done" /\ UNCHANGED <<vars, command, manifest, report>>
        /\ Summary = "PASS"
    BY <1>2, SuccessIsConcluded
  <2>2. /\ manifest # None /\ IsOk(Validate(manifest)) /\ ~Unreadable(manifest)
        /\ tasks = Converted(manifest)
    BY <2>1, Zenon DEF Handover
  <2>3. DOMAIN verdicts = DOMAIN tasks
    BY <2>1 DEF CliInv, CliTypeOK, TypeOK, AnswerInv
  <2>4. \A i \in DOMAIN verdicts : verdicts[i].kind = "pass"
    BY <2>1 DEF Summary, IsSchedulable, IsPass
  <2> QED
    BY <2>1, <2>2, <2>3, <2>4, Zenon DEF Concluded, vars
<1> QED
  BY <1>1, <1>2

\* At a rate whose rest of a second fits the width, and with periods that are
\* whole numbers of ticks, the response of a PASS, turned back into
\* nanoseconds, is enough for all the work the manifest declares: the rounding
\* of the WCETs and of the rate never shortens it.
THEOREM ResponsesCover == Invocation => []ResponseCoversNanoseconds
<1>1. Start => CliInv /\ AnalysisInv /\ Concluded
  BY CliStart, UntouchedAnalysis, OutcomeAssumption DEF Start, Init, Untouched, Concluded, Proven
<1>2. CliInv /\ AnalysisInv /\ Concluded => ResponseCoversNanoseconds
  <2> SUFFICES ASSUME CliInv, AnalysisInv, Concluded, Proven, (Second - 1) * Hz <= MaxU,
                      \A k \in DOMAIN manifest.tasks : WholeTicks(Nanos(k).period, Hz),
                      NEW c \in DOMAIN verdicts, verdicts[c].response < MaxU
               PROVE  CompleteBy(c, (verdicts[c].response * Second) \div Hz)
    BY DEF ResponseCoversNanoseconds
  <2>1. /\ manifest # None /\ IsOk(Validate(manifest)) /\ ~Unreadable(manifest)
        /\ tasks = Converted(manifest) /\ DOMAIN verdicts = DOMAIN tasks
        /\ \A i \in DOMAIN verdicts : verdicts[i].kind = "pass"
    BY DEF Concluded
  <2>2. manifest \in Manifests /\ tasks \in Seq(TaskTiming) /\ DOMAIN tasks = DOMAIN manifest.tasks
    BY <2>1 DEF CliInv, CliTypeOK, TypeOK, Converted
  <2>3. \A k \in DOMAIN tasks : Declared(tasks[k]) /\ WholeTicks(Nanos(k).period, Hz)
    BY <2>1, <2>2 DEF CliInv, AnswerInv, AnswerOf
  <2>4. /\ Decidable(tasks, c) /\ verdicts[c].response \in Nat
        /\ Exact(tasks, c, verdicts[c].response) = verdicts[c].response
    BY <2>1 DEF AnalysisInv, FitInv, Fits
  <2> QED
    BY <2>1, <2>2, <2>3, <2>4, FixedPointCovers
<1> QED
  BY <1>1, <1>2, CliStep, AnalysisKept, ConclusionKept, HandedOver, PTL DEF Invocation

\* What DeadlineRounding.cfg refutes holds where nothing was rounded: a PASS is
\* about the deadlines the manifest declares, in nanoseconds, if they and the
\* periods are whole numbers of ticks.
WholeDeadlinesMet ==
  (/\ Proven /\ (Second - 1) * Hz <= MaxU
   /\ \A k \in DOMAIN manifest.tasks : WholeTicks(Nanos(k).period, Hz) /\ WholeTicks(DueNanos(k), Hz))
  => \A c \in DOMAIN verdicts : verdicts[c].response < MaxU => CompleteBy(c, DueNanos(c))

\* The deadline the analyser judged a task by, and the one declared.
LEMMA DueInTicks ==
  ASSUME manifest \in Manifests, manifest # None, IsOk(Validate(manifest)), ~Unreadable(manifest),
         tasks = Converted(manifest), NEW c \in DOMAIN tasks, Declared(tasks[c])
  PROVE  DueNanos(c) \in Nat /\ DeadlineOf(tasks[c]) = ToTicks(DueNanos(c), Hz)
<1>1. IsManifest(manifest) /\ Hz \in Nat \ {0}
  BY ManifestsAssumption, AcceptedRate, Zenon DEF Hz
<1>2. c \in DOMAIN manifest.tasks /\ tasks[c] = Timing(manifest.tasks[c], Hz)
  BY DEF Converted, Hz
<1>3. /\ tasks[c].period = Ticks(manifest.tasks[c].period, Hz)
      /\ tasks[c].deadline = Ticks(manifest.tasks[c].deadline, Hz)
  BY <1>2 DEF Timing
<1>4. ASSUME NEW text \in {manifest.tasks[c].period, manifest.tasks[c].deadline}, text # None
      PROVE  DurationOf(text) \in Nat /\ Ticks(text, Hz) = ToTicks(DurationOf(text), Hz)
             /\ Ticks(text, Hz) # None
  <2>1. IsText(text) /\ ~Rejected(text)
    BY <1>1, <1>2, <1>4 DEF IsManifest, Unreadable
  <2>2. DurationOf(text) \in U64
    BY <1>4, <2>1, DurationNumber DEF Rejected
  <2>3. DurationOf(text) \in Nat
    BY <2>2, Numbers
  <2>4. ToTicks(DurationOf(text), Hz) \in U64
    BY <1>1, <2>3, TicksInRange
  <2>5. None \notin U64
    BY NoneAssumption, WidthAssumption DEF U64
  <2> QED
    BY <1>4, <2>3, <2>4, <2>5 DEF Ticks
<1>5. CASE manifest.tasks[c].deadline # None
  BY <1>3, <1>4, <1>5 DEF DueNanos, DeadlineOf
<1>6. CASE manifest.tasks[c].deadline = None
  <2>1. tasks[c].deadline = None /\ manifest.tasks[c].period # None
    BY <1>3, <1>6 DEF Ticks, Declared
  <2> QED
    BY <1>3, <1>4, <1>6, <2>1 DEF DueNanos, DeadlineOf, Nanos
<1> QED
  BY <1>5, <1>6

\* Where periods and deadlines are whole numbers of ticks, a PASS means that
\* each task's work is done, in nanoseconds, by its declared deadline.
THEOREM DeclaredDeadlinesMet == Invocation => []WholeDeadlinesMet
<1>1. Start => CliInv /\ AnalysisInv /\ Concluded
  BY CliStart, UntouchedAnalysis, OutcomeAssumption DEF Start, Init, Untouched, Concluded, Proven
<1>2. CliInv /\ Concluded /\ ResponseCoversNanoseconds => WholeDeadlinesMet
  <2> SUFFICES ASSUME CliInv, Concluded, ResponseCoversNanoseconds, Proven, (Second - 1) * Hz <= MaxU,
                      \A k \in DOMAIN manifest.tasks :
                        WholeTicks(Nanos(k).period, Hz) /\ WholeTicks(DueNanos(k), Hz),
                      NEW c \in DOMAIN verdicts, verdicts[c].response < MaxU
               PROVE  CompleteBy(c, DueNanos(c))
    BY DEF WholeDeadlinesMet
  <2>1. /\ manifest # None /\ IsOk(Validate(manifest)) /\ ~Unreadable(manifest)
        /\ tasks = Converted(manifest) /\ DOMAIN verdicts = DOMAIN tasks
        /\ verdicts[c].kind = "pass"
    BY DEF Concluded
  <2>2. /\ manifest \in Manifests /\ verdicts \in Seq(Verdict)
        /\ c \in DOMAIN manifest.tasks /\ c \in DOMAIN tasks
    BY <2>1 DEF CliInv, CliTypeOK, TypeOK, Converted
  <2>3. Declared(tasks[c]) /\ verdicts[c].response + verdicts[c].slack = DeadlineOf(tasks[c])
    BY <2>1 DEF CliInv, AnswerInv, AnswerOf
  <2>4. verdicts[c].response \in U64 /\ verdicts[c].slack \in U64
    <3>1. verdicts[c] \in Verdict
      BY <2>2
    <3> QED
      BY <2>1, <3>1 DEF Verdict
  <2>5. PICK r \in Nat, hz \in Nat \ {0}, n \in Nat, D \in Nat :
          /\ r = verdicts[c].response /\ hz = Hz /\ n = Second /\ D = DueNanos(c)
          /\ r <= ToTicks(D, hz) /\ ToTicks(D, hz) \in Nat
    <3>1. Hz \in Nat \ {0} /\ Second \in Nat
      BY <2>1, <2>2, AcceptedRate, ManifestsAssumption, SecondPositive DEF Hz
    <3>2. DueNanos(c) \in Nat /\ DeadlineOf(tasks[c]) = ToTicks(DueNanos(c), Hz)
      BY <2>1, <2>2, <2>3, DueInTicks
    <3>3. verdicts[c].response \in Nat /\ verdicts[c].slack \in Nat
      BY <2>4, Numbers
    <3>4. /\ verdicts[c].response <= ToTicks(DueNanos(c), Hz)
          /\ ToTicks(DueNanos(c), Hz) \in Nat
      <4>1. PICK a \in Nat, b \in Nat : a = verdicts[c].response /\ b = verdicts[c].slack
        BY <3>3
      <4>2. ToTicks(DueNanos(c), Hz) = a + b
        BY <2>3, <3>2, <4>1
      <4>3. a + b \in Nat /\ a <= a + b
        OBVIOUS
      <4> QED
        BY <4>1, <4>2, <4>3
    <3> QED
      BY <3>1, <3>2, <3>3, <3>4, Zenon
  <2>6. ToTicks(D, hz) * n <= D * hz
    BY <2>2, <2>5, TicksShort
  <2>7. r * n <= D * hz
    <3>1. r * n <= ToTicks(D, hz) * n
      BY <2>5, TimesMonotone
    <3>2. r * n \in Nat /\ D * hz \in Nat /\ ToTicks(D, hz) * n \in Nat
      BY <2>5
    <3> QED
      BY <2>6, <3>1, <3>2
  <2>8. PICK R \in Nat : R = (r * n) \div hz /\ R <= D
    <3>1. r * n \in Nat
      OBVIOUS
    <3>2. 0 * hz <= r * n
      BY <3>1
    <3>3. PICK R \in Nat : R = (r * n) \div hz /\ R * hz <= r * n
      BY <3>1, <3>2, WholeSteps
    <3>4. R * hz <= D * hz
      <4>1. R * hz \in Nat /\ D * hz \in Nat
        OBVIOUS
      <4> QED
        BY <2>7, <3>1, <3>3, <4>1
    <3>5. R <= (D * hz) \div hz /\ (D * hz) \div hz = D
      <4>1. D * hz \in Nat /\ (D * hz) \div hz = D
        OBVIOUS
      <4> QED
        BY <3>4, <4>1, WholeSteps
    <3> QED
      BY <3>3, <3>5
  <2>9. CompleteBy(c, R)
    BY <2>5, <2>8 DEF ResponseCoversNanoseconds
  <2>10. 0 .. R \subseteq 0 .. D
    BY <2>8
  <2> QED
    BY <2>5, <2>9, <2>10 DEF CompleteBy
<1> QED
  BY <1>1, <1>2, CliStep, AnalysisKept, ConclusionKept, HandedOver, ResponsesCover, PTL DEF Invocation

\* What HugeStack.cfg refutes has that one cause: an invocation aborts only on
\* a stack that cannot be rounded up to a power of two.
THEOREM OnlyStacksAbort == Invocation => [](exit = "abort" => manifest # None /\ StackAborts(manifest))
<1> DEFINE Cause == exit = "abort" => manifest # None /\ StackAborts(manifest)
<1>1. Start => Cause
  BY OutcomeAssumption DEF Start
<1>2. Handover /\ CliInv /\ Cause /\ [Step]_invocation => Cause'
  <2> SUFFICES ASSUME Handover, CliInv, Cause, [Step]_invocation, exit' = "abort"
               PROVE  manifest' # None /\ StackAborts(manifest')
    OBVIOUS
  <2>1. exit # None <=> stage = "exited"
    BY DEF CliInv, CliTypeOK
  <2>2. manifest' = manifest
    BY Zenon DEF Step, RefuseCommand, ReadManifest, Check, Convert, Analyse, Conclude, invocation, cli
  <2>3. CASE exit' = exit
    BY <2>2, <2>3
  <2>4. CASE ReadManifest /\ exit' # exit
    <3>1. manifest # None => StackAborts(manifest)
      BY <2>4, Zenon DEF ReadManifest, Exit
    <3>2. manifest # None
      BY <2>4, Zenon DEF ReadManifest, Exit
    <3> QED
      BY <2>2, <3>1, <3>2
  <2>5. CASE Convert /\ exit' # exit
    <3>1. stage = "validated" /\ IsOk(report) /\ RateOverflows(manifest.tick_rate)
      BY <2>5, Zenon DEF Convert, Exit
    <3>2. IsManifest(manifest) /\ report = Validate(manifest)
      BY <3>1, ManifestsAssumption, Zenon DEF Handover
    <3> QED
      BY <3>1, <3>2, AcceptedReadable
  <2>6. CASE ~ReadManifest /\ ~Convert /\ exit' # exit
    BY <2>6 DEF Step, RefuseCommand, Check, Analyse, Conclude, Exit, invocation, cli
  <2> QED
    BY <2>3, <2>4, <2>5, <2>6
<1>3. Invocation => []CliInv
  BY CliStart, CliStep, HandedOver, PTL DEF Invocation
<1> QED
  BY <1>1, <1>2, <1>3, HandedOver, PTL DEF Invocation
=============================================================================
