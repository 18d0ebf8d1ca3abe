---------------------------- MODULE CargoMalleus ----------------------------
(***************************************************************************)
(* One invocation of cargo-malleus: tools/cargo-malleus/src/main.rs,       *)
(* check.rs and analyze.rs.  `check` validates a manifest.  `analyze`      *)
(* validates it, reads its rate and its durations a second time with       *)
(* readers of its own, converts them to ticks, runs the analyser           *)
(* (ResponseTime.tla, turn by turn) and answers with an exit code.         *)
(***************************************************************************)
EXTENDS ResponseTime, StaticTables, Functions

CONSTANTS Commands, Manifests

ASSUME ManifestsAssumption ==
  \A m \in Manifests : m = None \/ (IsManifest(m) /\ TaskNames(m) \subseteq Name)

ASSUME OutcomeAssumption ==
  None \notin {"PASS", "FAIL", "UNKNOWN", "success", "failure", "abort"}

VARIABLES
  command,   \* the subcommand, with its flag
  manifest,  \* the parsed file; None when it is unreadable or malformed
  stage,     \* how far the invocation is
  report,    \* ValidationReport
  printed,   \* the table of verdicts, a row for each task
  summary,   \* the verdict printed last; None if none is
  exit       \* exit code: None while running, "abort" after a panic

cli == <<command, manifest, stage, report, printed, summary, exit>>
invocation == <<vars, cli>>

Start ==
  /\ Init
  /\ command \in Commands /\ manifest \in Manifests
  /\ stage = "run" /\ report = {}
  /\ printed = <<>> /\ summary = None /\ exit = None

-----------------------------------------------------------------------------
Exit(code) == stage' = "exited" /\ exit' = code

\* enum Command, the flag of `check` included.
Command == {"check", "check --deny-warnings", "analyze", "new", "build", "flash",
            "test", "inspect", "trace", "dump", "expand"}

ASSUME CommandsAssumption == Commands \subseteq Command

\* The checkpoint that delivers a command; None if it works today.
Checkpoint(c) == CASE c \in {"check", "check --deny-warnings", "analyze"} -> None
                   [] c \in {"new", "build", "flash", "test"}             -> 2
                   [] c \in {"dump", "expand"}                            -> 3
                   [] c \in {"inspect", "trace"}                          -> 4

\* A command of a later checkpoint is refused before anything is read.
RefuseCommand ==
  /\ stage = "run" /\ Checkpoint(command) # None /\ Exit("failure")
  /\ UNCHANGED <<vars, command, manifest, report, printed, summary>>

\* Reading, parsing and validating, the same for `check` and `analyze`.
ReadManifest ==
  /\ stage = "run" /\ Checkpoint(command) = None
  /\ LET fails == manifest # None => StackAborts(manifest)
     IN \/ /\ fails /\ UNCHANGED report
           /\ Exit(IF manifest = None THEN "failure" ELSE "abort")
        \/ /\ ~fails /\ report' = Validate(manifest)
           /\ stage' = "validated" /\ UNCHANGED exit
  /\ UNCHANGED <<vars, command, manifest, printed, summary>>

\* check::run.
Check ==
  /\ stage = "validated" /\ command \in {"check", "check --deny-warnings"}
  /\ Exit(IF IsOk(report) /\ (Warnings(report) = {} \/ command = "check")
            THEN "success" ELSE "failure")
  /\ UNCHANGED <<vars, command, manifest, report, printed, summary>>

-----------------------------------------------------------------------------
(* analyze::run. *)

Ticks(text, hz) == IF text = None THEN None ELSE ToTicks(DurationOf(text), hz)

Timing(t, hz) ==
  [name |-> t.name, priority |-> t.priority, period |-> Ticks(t.period, hz),
   deadline |-> Ticks(t.deadline, hz), wcet |-> Ticks(t.wcet, hz), blocking |-> 0]

\* Some duration of the manifest does not parse.
Unreadable(m) == \E k \in DOMAIN m.tasks :
  \E text \in {m.tasks[k].period, m.tasks[k].deadline, m.tasks[k].wcet} : Rejected(text)

\* Whatever is wrong ends the invocation; the rate is read before the durations.
Convert ==
  /\ stage = "validated" /\ command = "analyze"
  /\ LET rate  == manifest.tick_rate
         fails == \/ ~IsOk(report) \/ ~RateReadable(rate)
                  \/ RateOverflows(rate) \/ Unreadable(manifest)
     IN \/ /\ fails
           /\ Exit(IF IsOk(report) /\ RateOverflows(rate) THEN "abort" ELSE "failure")
           /\ UNCHANGED tasks
        \/ /\ ~fails
           /\ tasks' = [k \in DOMAIN manifest.tasks |-> Timing(manifest.tasks[k], TickHz(rate))]
           /\ stage' = "analyse" /\ UNCHANGED exit
  /\ UNCHANGED <<pc, cursor, loop, verdict, verdicts, utilisation,
                 command, manifest, report, printed, summary>>

Analyse == stage = "analyse" /\ Next /\ UNCHANGED cli

\* Mutant of Summary: whatever does not fail is taken to pass.
NothingFails == IF \E i \in DOMAIN verdicts : verdicts[i].kind = "fail" THEN "FAIL" ELSE "PASS"

\* UNKNOWN is asked for before FAIL.
Summary == IF HasUnknowns(verdicts) THEN "UNKNOWN"
           ELSE IF IsSchedulable(verdicts) THEN "PASS" ELSE "FAIL"

\* The timings zipped with the verdicts.
Rows == [i \in DOMAIN tasks \cap DOMAIN verdicts |-> [timing |-> tasks[i], verdict |-> verdicts[i]]]

Conclude ==
  /\ stage = "analyse" /\ pc = "done"
  /\ printed' = Rows
  /\ summary' = Summary
  /\ Exit(IF summary' = "PASS" THEN "success" ELSE "failure")
  /\ UNCHANGED <<vars, command, manifest, report>>

Step == RefuseCommand \/ ReadManifest \/ Check \/ Convert \/ Analyse \/ Conclude

Invocation == Start /\ [][Step]_invocation

-----------------------------------------------------------------------------
(* Properties. *)

CliTypeOK ==
  /\ TypeOK
  /\ command \in Commands /\ manifest \in Manifests
  /\ stage \in {"run", "validated", "analyse", "exited"}
  /\ report = {} \/ report = Validate(manifest)
  /\ printed = <<>> \/ Len(printed) = Len(tasks)
  /\ summary \in {None, "PASS", "FAIL", "UNKNOWN"}
  /\ exit \in {None, "success", "failure", "abort"}
  /\ exit # None <=> stage = "exited"
  /\ summary # None => stage = "exited"

\* What the manifest was accepted for, in nanoseconds, is what the analyser
\* gets, in ticks: unique names, no zero period, and deadlines within periods
\* and WCETs within deadlines after both were rounded
\* (docs/design/04-realtime-model.md:76, "enforced by the validator (M0006)").
\* Where two of its tasks have a deadline at one level, for which the analysis
\* does not account, the report warns of that pair (validate.rs lines 192-194).
AnalysedContract ==
  stage = "analyse" =>
    /\ Validated(tasks)
    /\ \A i \in DOMAIN tasks :
         /\ tasks[i].priority \in 1 .. MaxPriority
         /\ (tasks[i].deadline # None /\ tasks[i].wcet # None) => tasks[i].wcet <= tasks[i].deadline
         /\ \A j \in DOMAIN tasks :
              (/\ i # j /\ tasks[i].priority = tasks[j].priority
               /\ tasks[i].deadline # None /\ tasks[j].deadline # None)
              => \E d \in report : d[1] = "M0005" /\ {tasks[i].name, tasks[j].name} \subseteq d[2]

\* Once the manifest is accepted, analyze's own readers find nothing more to
\* refuse: every later `?` and the unchecked multiplication of the rate are
\* dead code (analyze.rs lines 17-25 and 121-122).
AcceptedIsConvertible ==
  [][(stage = "validated" /\ command = "analyze" /\ IsOk(report)) => stage' = "analyse"]_invocation

\* "Malformed input must produce a diagnostic, never a panic" (validate.rs
\* lines 742-743).
NeverAborts == exit # "abort"

\* The answer against the rows printed above it, and these against what the
\* manifest declares.  "Malleus will not print PASS for a system it cannot
\* check" (analyze.rs line 81): success takes every task's period and WCET, a
\* report with no error behind them, and a row that gives each task a response
\* and a slack which make up its own deadline.  "At least one task provably
\* misses its deadline" (line 89): FAIL takes every number too, and a row whose
\* response is past its task's deadline by the overrun it names.  Neither a
\* miss nor an undecided task, in whatever mixture, ends in success.
Proven == command = "analyze" /\ exit = "success"

DeclaresAll == \A k \in DOMAIN manifest.tasks :
  manifest.tasks[k].period # None /\ manifest.tasks[k].wcet # None

Meets(row)  == /\ row.verdict.kind = "pass"
               /\ row.verdict.response + row.verdict.slack = DeadlineOf(row.timing)
Misses(row) == /\ row.verdict.kind = "fail" /\ row.verdict.overrun > 0
               /\ row.verdict.response = DeadlineOf(row.timing) + row.verdict.overrun

SummaryIsHonest ==
  /\ Proven <=> summary = "PASS"
  /\ summary = "PASS" =>
       /\ IsOk(report) /\ DeclaresAll
       /\ \A k \in DOMAIN manifest.tasks :
            printed[k].timing.name = manifest.tasks[k].name /\ Meets(printed[k])
  /\ summary = "FAIL" => DeclaresAll /\ \E k \in DOMAIN printed : Misses(printed[k])

\* The manifest's own times, in nanoseconds: the work released in a window of
\* r that task c has to wait for, its own included.
Nanos(k)    == [period   |-> DurationOf(manifest.tasks[k].period),
                wcet     |-> DurationOf(manifest.tasks[k].wcet)]
DueNanos(k) == IF manifest.tasks[k].deadline # None
                 THEN DurationOf(manifest.tasks[k].deadline) ELSE Nanos(k).period
Urgent(c)   == {k \in DOMAIN manifest.tasks : manifest.tasks[k].priority > manifest.tasks[c].priority}
Pending(c, r) == [k \in Urgent(c) |-> DivCeil(r, Nanos(k).period) * Nanos(k).wcet]
Work(c, r)    == Nanos(c).wcet + SumFunctionOnSet(Pending(c, r), Urgent(c))

\* In the critical instant, c's job is complete r nanoseconds after.
CompleteBy(c, r) == \E w \in 0 .. r : Work(c, w) <= w

Hz == TickHz(manifest.tick_rate)

\* Where the periods are whole numbers of ticks, the response in a PASS is
\* long enough in nanoseconds as well, however the WCETs were rounded.  Two
\* cases are excepted: a response of MaxU, which may be a saturated sum and no
\* fixed point, and a rate so high (above 18.4 GHz in 64 bits; nothing bounds
\* tick_rate) that the rest of a second saturates in to_ticks and a WCET
\* comes out too short.
ResponseCoversNanoseconds ==
  (/\ Proven /\ (Second - 1) * Hz <= MaxU
   /\ \A k \in DOMAIN manifest.tasks : WholeTicks(Nanos(k).period, Hz))
  => \A c \in DOMAIN verdicts : verdicts[c].response < MaxU =>
       CompleteBy(c, (verdicts[c].response * Second) \div Hz)

\* "Whether every task provably meets its deadline" (response_time.rs line
\* 102), with "one tick late" being "a rounding artefact the analyser accounts
\* for" (malleus-arch/src/time.rs lines 82-84): a PASS without findings is
\* about the deadline that was declared.
PassMeetsDeclaredDeadlines ==
  (Proven /\ report = {}) => \A c \in DOMAIN manifest.tasks : CompleteBy(c, DueNanos(c))

\* "Whether this duration is an exact multiple of one tick" (units.rs line
\* 73): at a rate that divides a second, M0009 warns of the periods that are
\* not, and of no other.
AlignmentIsExact ==
  (stage = "analyse" /\ Second % Hz = 0) =>
    \A k \in DOMAIN manifest.tasks : manifest.tasks[k].period # None =>
      (<<"M0009", manifest.tasks[k].name>> \in report
         <=> ~WholeTicks(Duration(manifest.tasks[k].period), Hz))

\* In an accepted manifest every channel runs between two declared tasks, and
\* "a task cannot be granted a listening position on a conversation it is not
\* part of" (docs/design/09-capabilities.md:52-54): a name resolves to one
\* channel, with the holder at one of its ends.
AcceptedTopology ==
  (stage = "validated" /\ ParseAndValidate(manifest) = "Ok") =>
    /\ \A k \in DOMAIN manifest.channels : LET c == manifest.channels[k] IN
         c.from # c.to /\ {c.from, c.to} \subseteq TaskNames(manifest)
    /\ \A k \in DOMAIN manifest.tasks : \A n \in ChannelsOf(manifest.tasks[k]) :
         LET named == {j \in DOMAIN manifest.channels : manifest.channels[j].name = n} IN
           /\ Cardinality(named) = 1
           /\ \A j \in named : manifest.tasks[k].name \in Endpoints(manifest.channels[j])

\* The static tables of an accepted manifest can be built: what the validator
\* lets through, every constructor of the kernel accepts, though each has a
\* limit of its own (validate.rs:163 and sched.rs:32, validate.rs:438 and
\* ipc.rs:35).  The number of tasks is not checked by the validator.
TablesBuild ==
  (stage = "validated" /\ ParseAndValidate(manifest) = "Ok" /\ Len(manifest.tasks) <= MAX_TASKS)
    => Builds(manifest)

\* Tasks that wait for one another in a circle of blocking channels are not
\* checked for as such; between tasks of distinct priorities some edge of the
\* circle must descend, and M0018 warns of it.
Blocks(s, t) == \E k \in DOMAIN manifest.channels : LET c == manifest.channels[k] IN
                  CanBlock(c.overflow) /\ c.from = s /\ c.to = t
Circle == \E ring \in UNION {[0 .. n -> TaskNames(manifest)] : n \in 1 .. Len(manifest.channels) - 1} :
            \A i \in DOMAIN ring : Blocks(ring[i], ring[(i + 1) % Cardinality(DOMAIN ring)])

BlockingCircleIsWarned ==
  (stage = "validated" /\ ParseAndValidate(manifest) = "Ok" /\ DistinctPriorities(manifest.tasks) /\ Circle)
    => \E d \in report : d[1] = "M0018"
=============================================================================
