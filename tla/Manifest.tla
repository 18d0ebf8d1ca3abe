------------------------------ MODULE Manifest ------------------------------
(***************************************************************************)
(* Validation of a system manifest: crates/malleus-manifest/src/lib.rs and *)
(* validate.rs.  A diagnostic is its stable code and its location; each    *)
(* check of `validate` is the set of the diagnostics it pushes.            *)
(*                                                                         *)
(* A manifest has a `tick_rate`, `tasks` and `channels`.  A capability is  *)
(* a resource and whether it carries the prefix "ipc.".                    *)
(***************************************************************************)
EXTENDS Units, Sequences, FiniteSets

CONSTANTS
  EmptyName,    \* the empty string, as a name
  MaxPriority,  \* MAX_PRIORITY, 31
  MinStack      \* MIN_STACK, 256 bytes

ASSUME LimitAssumption == MaxPriority \in Nat /\ MinStack \in Nat

\* A text is its number and its unit.
IsText(text) == text.number \in Nat \cup {None}

MaxDepth == 65535  \* a capacity is a u16

\* The manifests that parse: lists of tasks and channels, and their times.
IsManifest(m) ==
  /\ IsText(m.tick_rate)
  /\ Len(m.tasks) \in Nat /\ DOMAIN m.tasks = 1 .. Len(m.tasks)
  /\ Len(m.channels) \in Nat /\ DOMAIN m.channels = 1 .. Len(m.channels)
  /\ \A k \in DOMAIN m.tasks :
       /\ m.tasks[k].priority \in Nat
       /\ IsText(m.tasks[k].stack)
       /\ \A text \in {m.tasks[k].period, m.tasks[k].deadline, m.tasks[k].wcet} :
            text = None \/ IsText(text)
  /\ \A k \in DOMAIN m.channels :
       m.channels[k].capacity \in Nat /\ m.channels[k].capacity <= MaxDepth

\* Mutant of Overflow: a policy the kernel does not have.
OverflowOrDrop == {"block", "reject", "drop", "drop-oldest", "drop-newest"}

Overflow == {"block", "reject", "drop-oldest", "drop-newest"}

-----------------------------------------------------------------------------
Diagnostic(code, location) == <<code, location>>

\* Diagnostics of one code, at each of the named locations.
At(code, locations) == {Diagnostic(code, l) : l \in locations}

\* The names of the entries of a list for which P holds.
Named(list, P(_)) == {list[i].name : i \in {k \in DOMAIN list : P(k)}}

\* Mutant of Repeated: only neighbours are compared.
RepeatedNext(list, k) == k > 1 /\ list[k - 1].name = list[k].name

\* HashSet::insert refuses what it has seen.
Repeated(list, k) == \E j \in 1 .. (k - 1) : list[j].name = list[k].name

CheckTaskNames(m) ==
  At("M0001", Named(m.tasks, LAMBDA k : Repeated(m.tasks, k)))
  \cup At("M0002", IF \E k \in DOMAIN m.tasks : m.tasks[k].name = EmptyName
                     THEN {"[[task]]"} ELSE {})

-----------------------------------------------------------------------------
\* The tasks of a level with a written deadline, as by_priority holds them.
DueAt(m, p) == {k \in DOMAIN m.tasks : m.tasks[k].priority = p /\ m.tasks[k].deadline # None}

\* Mutant of SharedLevels: a level is crowded from three tasks on.
CrowdedLevels(m) ==
  {p \in {m.tasks[k].priority : k \in DOMAIN m.tasks} : \E i, j, k \in DueAt(m, p) : i < j /\ j < k}

SharedLevels(m) ==
  {p \in {m.tasks[k].priority : k \in DOMAIN m.tasks} : \E i, j \in DueAt(m, p) : i # j}

CheckPriorities(m) ==
  At("M0003", Named(m.tasks, LAMBDA k : m.tasks[k].priority > MaxPriority))
  \cup At("M0004", Named(m.tasks, LAMBDA k : m.tasks[k].priority = 0))
  \cup At("M0005", {{m.tasks[k].name : k \in DueAt(m, p)} : p \in SharedLevels(m)})

-----------------------------------------------------------------------------
\* parse_duration: None both for an absent text and for one that is rejected.
Duration(text) == IF text = None THEN None ELSE DurationOf(text)

Rejected(text) == text # None /\ DurationOf(text) = None

\* Mutant of Malformed: one field is not looked at.
MalformedButWcet(t) == Rejected(t.period) \/ Rejected(t.deadline)

Malformed(t) == Rejected(t.period) \/ Rejected(t.deadline) \/ Rejected(t.wcet)

\* A zero period is reported, and then no check is derived from it.
PeriodOf(t) == IF Duration(t.period) = 0 THEN None ELSE Duration(t.period)

Exceeds(a, b) == a # None /\ b # None /\ a > b

CheckTiming(m) ==
  LET hz == TickHz(m.tick_rate)
      Tasks(P(_)) == Named(m.tasks, LAMBDA k : P(m.tasks[k]))
  IN At("M0024", IF hz = None THEN {"[system]"} ELSE {})
     \cup At("M0025", IF hz = 0 THEN {"[system]"} ELSE {})
     \cup At("M0023", Tasks(LAMBDA t : Malformed(t)))
     \cup At("M0026", Tasks(LAMBDA t : Duration(t.period) = 0))
     \cup At("M0006", Tasks(LAMBDA t : Exceeds(Duration(t.deadline), PeriodOf(t))))
     \cup At("M0007", Tasks(LAMBDA t : Exceeds(Duration(t.wcet), Duration(t.deadline))))
     \cup At("M0008", Tasks(LAMBDA t : t.deadline # None /\ t.wcet = None))
     \cup At("M0009", Tasks(LAMBDA t : /\ PeriodOf(t) # None
                                       /\ hz # None /\ hz # 0
                                       /\ ~IsTickAligned(PeriodOf(t), hz)))

-----------------------------------------------------------------------------
CheckStacks(m) ==
  LET Stacks(P(_)) == Named(m.tasks, LAMBDA k : P(SizeOf(m.tasks[k].stack)))
  IN At("M0010", Stacks(LAMBDA s : s = None))
     \cup At("M0011", Stacks(LAMBDA s : s # None /\ s < MinStack))
     \cup At("M0012", Stacks(LAMBDA s : s # None /\ PowerOfTwo(s) # s))

\* Rounding the size up overflows, which aborts the tool (Cargo.toml lines
\* 76-77: overflow-checks = true, panic = "abort").
StackAborts(m) ==
  \E k \in DOMAIN m.tasks : LET s == SizeOf(m.tasks[k].stack) IN
    s # None /\ PowerOfTwo(s) = None

-----------------------------------------------------------------------------
TaskNames(m) == {m.tasks[k].name : k \in DOMAIN m.tasks}

\* Manifest::task, the first of that name.
TaskNamed(m, n) ==
  m.tasks[CHOOSE k \in DOMAIN m.tasks : m.tasks[k].name = n /\ ~Repeated(m.tasks, k)]

\* Mutant of Inverts: only a lossy channel is looked at.
InvertsUnlessBlock(m, c) ==
  /\ c.overflow # "block" /\ {c.from, c.to} \subseteq TaskNames(m)
  /\ TaskNamed(m, c.from).priority > TaskNamed(m, c.to).priority

\* An urgent task waits for a less urgent one.
Inverts(m, c) ==
  /\ c.overflow = "block" /\ {c.from, c.to} \subseteq TaskNames(m)
  /\ TaskNamed(m, c.from).priority > TaskNamed(m, c.to).priority

CheckChannels(m) ==
  LET Channels(P(_)) == Named(m.channels, LAMBDA k : P(m.channels[k]))
  IN At("M0013", Named(m.channels, LAMBDA k : Repeated(m.channels, k)))
     \cup At("M0014", Channels(LAMBDA c : ~({c.from, c.to} \subseteq TaskNames(m))))
     \cup At("M0015", Channels(LAMBDA c : c.from = c.to))
     \cup At("M0016", Channels(LAMBDA c : c.capacity = 0))
     \cup At("M0017", Channels(LAMBDA c : c.overflow \notin Overflow))
     \cup At("M0018", Channels(LAMBDA c : Inverts(m, c)))

-----------------------------------------------------------------------------
\* What the map from channel names to endpoints holds: the last declaration.
ChannelNamed(m, n) ==
  m.channels[CHOOSE k \in DOMAIN m.channels :
    m.channels[k].name = n /\ \A j \in DOMAIN m.channels : m.channels[j].name = n => j <= k]

ChannelNames(m) == {m.channels[k].name : k \in DOMAIN m.channels}

Endpoints(c) == {c.from, c.to}

HeldBy(t)    == {t.capabilities[i] : i \in DOMAIN t.capabilities}
ChannelsOf(t) == {c.resource : c \in {h \in HeldBy(t) : h.ipc}}

CheckCapabilities(m) ==
  LET Tasks(P(_)) == Named(m.tasks, LAMBDA k : P(m.tasks[k]))
  IN At("M0019", Tasks(LAMBDA t : Cardinality(HeldBy(t)) < Len(t.capabilities)))
     \cup At("M0020", Tasks(LAMBDA t : ~(ChannelsOf(t) \subseteq ChannelNames(m))))
     \cup At("M0021", Tasks(LAMBDA t : \E n \in ChannelsOf(t) \cap ChannelNames(m) :
                                         t.name \notin Endpoints(ChannelNamed(m, n))))
     \cup At("M0022", Named(m.channels, LAMBDA k : \A i \in DOMAIN m.tasks :
            m.tasks[i].name \in Endpoints(m.channels[k])
              => m.channels[k].name \notin ChannelsOf(m.tasks[i])))

-----------------------------------------------------------------------------
Validate(m) == CheckTaskNames(m) \cup CheckPriorities(m) \cup CheckTiming(m)
                 \cup CheckStacks(m) \cup CheckChannels(m) \cup CheckCapabilities(m)

Warning == {"M0005", "M0008", "M0009", "M0012", "M0018", "M0019", "M0022"}

\* ValidationReport: is_ok, and whether there are warnings.
Errors(report)   == {d \in report : d[1] \notin Warning}
Warnings(report) == {d \in report : d[1] \in Warning}
IsOk(report)     == Errors(report) = {}

\* Manifest::parse_and_validate, by what it returns; None is a source that
\* does not parse.
ParseAndValidate(m) == IF m = None THEN "Syntax"
                       ELSE IF IsOk(Validate(m)) THEN "Ok" ELSE "Invalid"
=============================================================================
