# malleus-rtos: TLA+ models, model checking and proofs

malleus-rtos is the foundation of a real-time kernel for Cortex-M: a manifest
of tasks with timing contracts, a build-time schedulability analysis, the
types and rules of a fixed-priority kernel, and a port whose startup and fault
capture run before the kernel exists. This directory models the parts of it
that have behaviour, checks them with TLC on small instances, and proves the
main invariants for every value of the constants with TLAPS.

Paths below are relative to the repository (`crates/...`, `tools/...`).

## The system

| Component | State | Operations | Modelled by |
|---|---|---|---|
| response-time analysis `malleus-analyzer/src/response_time.rs` | loop variables of `analyse` and `verdict_for`; the verdicts | `analyse`, `is_schedulable` | `ResponseTime`, `SchedulabilityTest` |
| saturating time `malleus-arch/src/time.rs` | none (`Instant` is a value) | `saturating_add_ticks`, `saturating_since`, `ticks_from_micros` | `Saturating`, `Units`, `Conversion` |
| activation and waiting `malleusrt/src/time.rs` | `Period`: interval, next, missed | `starting_at`, `advance`; `Timeout::deadline_from` | `Period`, `Timeout` |
| scheduling `malleusrt/src/sched.rs` | the ready word | `insert`, `remove`, `contains`, `highest`; `Priority::new`, `to_hardware` | `ReadySet`, `Priority`; the policy in `AnalysedSystem` |
| architecture `malleus-arch/src/critical.rs`, `malleus-arch-cortex-m/src/lib.rs` | the interrupt mask | `enter_below`; `priority_bits`, `levels` | `ReadySet`, `Priority` |
| startup `malleus-arch-cortex-m/src/startup.rs` | `.data`, `.bss`, boot evidence, capture state | `Reset`, `__malleus_start` | `FaultCapture` |
| fault capture `malleus-arch-cortex-m/src/fault.rs` | capture state, evidence record | the assembly entry, `arm_capture`, `__malleus_fault_capture`, the bootstrap probe | `FaultCapture` |
| units `malleus-manifest/src/units.rs` | none | parsing, `Display`, `to_ticks`, `is_tick_aligned`, `to_power_of_two` | `Units`, `Conversion` |
| manifest `malleus-manifest/src/{lib,validate}.rs` | the diagnostics pushed so far | `parse_and_validate`, `validate` and its six checks, `task` | `Manifest` |
| static tables `malleusrt/src/{task,ipc}.rs` | descriptors fixed at build time | `TaskId::new_const`, `Capacity::new`, `Overflow::can_block` | `StaticTables` |
| `cargo-malleus` `tools/cargo-malleus/src` | how far the invocation is, rows, exit code | `check`, `analyze`, the commands not written yet | `CargoMalleus` |
| fault and sync types; the other traits; trace; codegen; xtask; board | declarations, text output, build driver | | not modelled |

**How they interact.** `cargo malleus analyze` parses a manifest, validates it,
converts durations to ticks of a rate and calls `analyse` on the result. An
accepted manifest is also what the kernel's static tables are to be generated
from, through constructors with limits of their own. The verdicts are promises
about an execution under the policy of `sched.rs`, by tasks that activate
through `Period`. None of that kernel is written; what it will do is fixed by
the policy's text, `ReadySet`, `Period` and the assumptions the analysis lists.
The ready word is shared by task code and interrupt handlers; what excludes
them is a section at a ceiling, and what the ceiling covers is decided by
`to_hardware`, on controllers with fewer levels than there are priorities. On
the device, `Reset`, the Rust start and the fault
handlers share three words that survive a reset, and nothing else: they are
composed by memory, and interrupted by hardware at any instruction.

**What is hard here.** In the analysis, arithmetic that saturates inside a
recurrence whose correctness argument is monotonicity, a budget that ends it,
and missing declarations anywhere above a task. In front of it, two parsers of
the same texts and a rounding to ticks that must keep the order of three
numbers. In the execution, that the numbers are true of every interleaving of
releases and completions. In the ready set, a load and a store with interrupts
between them, and priorities that share a hardware level. In
`Period`, a grid that must survive any sequence of late and early completions.
In startup and capture, faults nested in faults, resets at every instruction,
stale words in `.uninit`, and a record published word by word. PROJECT.json
lists these as hazards, each at its line and with the properties that cover it.

**What makes each part correct.** The analysis implements the exact
schedulability test, or says it cannot decide, and always returns. What the
validator accepts is what the analyser is asked about, and fits the static
tables. A schedulable system never misses in any legal execution. No update of
the ready set is lost, and no handler above its ceiling waits for one. A
periodic task runs or counts each slot of its grid exactly once. No Rust runs on
uninitialised RAM; the words that authorise evidence never stand over anything
but one whole snapshot; one capture per boot.

## Modules

**`Saturating`** is `u64` arithmetic over a width `MaxU`: `SatAdd`, `SatSub`,
`SatMul`, `DivCeil`. `ArithmeticLemmas` holds what the proofs need of it and of
`Units`: range, bounds by the integer result, monotonicity, conversions, counts
of multiples in an interval, sums over a finite set, and induction over numbers
and finite sets.

**`ResponseTime`** is the analyser. The four nested loops of `analyse` and
`verdict_for` are a program counter with one action per turn: `BeginTask` (the
utilisation and the checks of the task's own contract), `GatherOther` (one task
of the slice considered as an interferer), `StartRecurrence`, `AddInterferer`
(one interferer's demand added to `next`), `Converge`, `CrossDeadline` and
`Iterate` (the three ends of a turn), `PushVerdict`, `Finish`. The steps are
that fine so that invariants can speak of partial sums, where saturation
happens. `UNKNOWN`'s explanations are names in `Reason`. `1_000_000`,
`MAX_ITERATIONS` and `u64::MAX` are constants.

**`SchedulabilityTest`** is what `analyse` promises: verdicts given in order,
each one *permitted* by the exact integer demand, defined by counting releases,
with no iteration, no saturation and no rounding formula. `MCResponseTime`
instantiates it over the analyser's `tasks` and `verdicts`; every step of the
analyser is a step of the test or a stutter.

**`AnalysedSystem`** extends `ResponseTime`: when the analysis is done, the same
tasks execute. Its policy, the most urgent level first and FIFO inside a level,
and the rule that an unfinished task skips an activation, come from `sched.rs`
and `time.rs`. The kernel that releases and runs jobs is not in the repository,
so `Release` and `Tick` are external, built from the assumptions the analysis
states (independent tasks, minimum inter-arrival times, negligible overhead). A
run is of one of two kinds, chosen at the start (`critical`): `Execute` allows
any sporadic release and any execution time up to the WCET, `ExecuteCritically`
releases everything at once and as often as allowed.

**`Priority`** is `Priority` and `priority_bits`, with the widths of the source:
the product of two bytes saturates at 16 bits, the quotient loses all but its
low byte. **`ReadySet`** is the word of bits and the calls on it. `insert` and
`remove` are a load and a later store; `Enter` and `Leave` are the section a
caller needs around them, `Take` and `Return` the controller. Sections,
preemption and handlers are external: the source fixes them only as
`enter_below`, "ISR-safe" and `to_hardware`. **`ReadyLevels`** is what a ready
set promises: a set that changes by one whole insertion or removal. `ReadySet`
implements it (`ImplementsReadyLevels`, by a refinement mapping of the word to
its members). `MCReadySet` has the handlers and the controllers of the run.

**`Period`** is `struct Period` driven by one task: time passes, the task is
activated at or after `next`, and completes at any later instant, calling
`advance`. **`Timeout`** is how long an operation may wait and when its wait
ends.

**`FaultCapture`** is `startup.rs` and `fault.rs` together, instruction by
instruction where it matters: `MarkReset`, `CopyData` and `ZeroBss` a word at a
time, `Start`, `ArmCapture`, `ConfigureProbeFault`, `Udf`, then the assembly
entry (`Consult`, `Claim`: load and compare, store) and the capture (`Capture`,
`StoreWord` once per word, `WriteMagic`, `Complete`). Hardware is three
actions: `Fault` (at any step, nested, escalating to HardFault and to lockup),
`WarmReset` (keeps `.uninit`) and `PowerCycle`. `.data` and `.bss` are arbitrary
after either. The evidence is a magic and `Words` payload words, each holding
the snapshot it was written from: what tells a whole record from a torn one.
The register contents, the fault-status values, the flags that qualify MMFAR and
BFAR and the formatting are abstracted into that snapshot; a misaligned stack
pointer and an unknown EXC_RETURN, which the code also checks for, do not arise
from an exception entry. `Ascending` says whether the volatile write of
the aggregate stores its words in address order, which Rust does not promise.
`EarlyFaults` says whether a fault may come before `Reset`'s first store.

**`Option`** is the name `None`, shared by the modules that have optional
numbers.

**`Units`** has the written values and their conversions. A text is its number,
of any size, and its unit; what fails to parse is `None`. The two readers of
`tick_rate` are both there, since one checks its multiplication and the other
does not. 1000, 1024 and 64 are constants, so that a second can be 8 ns and
rates with awkward ticks fit a small width. `Display` is the number and the unit
it prints: the largest unit that leaves no rest. **`Conversion`** lets a
duration grow at any rate, so that the conversions have properties of their own.

**`Manifest`** is `validate.rs`: each check is the set of diagnostics it pushes,
a diagnostic being its code and its location (for M0005 the set of the
names at a level, which the code joins in its order). Messages and their order are left out. `ChannelNamed` is
the last channel of a name, as the code's map has it, and `TaskNamed` the first.

**`StaticTables`** is the descriptors of `malleusrt` with what their
constructors accept, and the entries an accepted manifest fills them with. The
generator is a placeholder, so the entries are external: each field holds what
its descriptor says it does.

**`CargoMalleus`** is one invocation, from the command to the exit code. It
extends `ResponseTime` and `StaticTables`: `RefuseCommand` turns away the
commands of later checkpoints, `ReadManifest` validates, `Check` is
`check::run`, `Convert` is the first half of `analyze::run` up to the call of
`analyse`, `Analyse` is a turn of the analyser, `Conclude` zips the timings with
the verdicts, row by row, and summarises. A panic is the exit code `abort`.
`MCCargoMalleus` has the manifests the runs enumerate.

## Runs

| Run | Asks | Bounds, and why they are enough |
|---|---|---|
| `response_time` | does the analyser implement the exact test, stay below every fixed point, rise on every turn, terminate, and never call an overloaded set schedulable? | every pair of tasks with any field missing or zero and equal priorities; triples with two interferers, a width of 23 so that sums and products saturate, and a budget of 4 turns against deadlines of up to 22 so that it runs out |
| `analysed_system` | do schedulable systems never miss, is each response a bound in every legal execution, is it reached from the critical instant, does a failing task miss, do passing jobs complete? | three distinct levels (`DistinctLevels`), among them a task that overruns below and above others, all release patterns, all execution times, both kinds of run; utilisations below, at and above one; ages up to 20, past every response |
| `ready_set` | is an update ever lost or half done, does the bit scan find the most urgent level, does a section hold off more than it may? | task code and two handlers that use the set, two handlers above its ceiling; controllers of 4, 8, 16 and 32 levels, so that one of those shares the ceiling's level on some and not on others; both ends of the word and two levels between |
| `shared_level` | finding: with a shared priority | two of three tasks share a level; ages up to 10, past the miss |
| `fault_capture` | the RAM boundary, whole evidence, one capture, in-order stores | two boots, so that one boot's words meet the next; two words of `.data`, one of `.bss`, two of payload, so that a loop can stop early or late and a record can tear; every fault class, EXC_RETURN and stacking result |
| `torn_evidence` | finding: by the magic alone, any store order | as above |
| `early_fault` | finding: the boundary when a fault precedes the first store | as above |
| `units` | are conversions to ticks exact where nothing saturates, and ordered always; does what is printed parse back? | every duration of an 8-bit width at rates below, at, between and above the nanosecond, up to the width |
| `cargo_malleus` | what does an accepted manifest guarantee of the analysis, the topology and the tables, which pairs is it warned of, and what do success, PASS and FAIL mean? | two tasks, at distinct levels and at one, whose times are legal, zero, absent, malformed or saturating, so that a miss stands beside a pass and beside an undecided task; eleven rates, among them 0, malformed, overflowing, one whose tick is below a nanosecond and one (140 Hz) whose product for the rest of a second saturates; stacks of every size that can be rounded; all graphs of three channels over three tasks, against tables of three tasks; repeated and empty names; both commands and the flag, and one command of each later checkpoint |
| `deadline_rounding` | finding: PASS and the declared deadline | the same timing |
| `huge_stack` | finding: a size above half the width | one task |
| `period` | is each slot run or counted once, to the end of the timeline and of the counter? | intervals 0 to 5 on a timeline of 14 and a counter of 4, so both ends are reached |

`CHECK_DEADLOCK FALSE` is used where the system stops: the analysis returns, the
timeline ends, the tool exits, the CPU is left in a terminal loop. The ready set
and the executing system never stop, and their runs check it.

**Fairness.** `ResponseTime` assumes weak fairness of its whole next-state
relation: one thread of straight-line code, nothing to wait for. `SystemSpec`
assumes it of the analysis and of the run from the critical instant, meaning
that time passes and released jobs are run; sporadic releases have none.
`FaultCapture` assumes it of the CPU only: the core executes its next
instruction. Faults and resets have none, and `ClaimedIsCaptured` allows for
them.

## Where the code and its documentation disagree

Five runs end in a counterexample, each to a sentence of the repository.

1. `shared_level`: tasks of one priority are not counted as interference
   (`response_time.rs:186`), though FIFO makes each wait for the other's job.
   `is_schedulable` promises that "every task provably meets its deadline"
   (`response_time.rs:102`), and M0005 sends the user to a report that does not
   show the coupling (`validate.rs:212-214`).
2. `torn_evidence`: `magic` is "written last" (`fault.rs:94-95`), but the zero
   magic is one of 19 words of a single volatile write whose order the compiler
   chooses. After a warm reset, a second capture that is itself reset can leave
   the old `MALF` over mixed words. `DONE` is not affected (theorem `DoneCorrect`).
3. `early_fault`: "a startup fault cannot cross the Rust boundary"
   (`startup.rs:34-36`) holds only from `Reset`'s first store on; before it the
   word of the previous boot may still read `ARMD`.
4. `deadline_rounding`: a deadline is rounded up to ticks and then compared with,
   so PASS without a finding can stand for a job that ends after the deadline the
   manifest declares. `malleus-arch/src/time.rs:83-84` calls one late tick
   "a rounding artefact the analyser accounts for".
5. `huge_stack`: a stack of more than 2^63 bytes parses, and rounding it up to
   warn about padding overflows and panics, where "malformed input must produce a
   diagnostic, never a panic" (`validate.rs:742-743`).

Smaller disagreements met on the way, read off the code and kept out of the
runs: the `response` of a `FAIL` is the iterate at which the search stopped and
not the "computed worst-case response time" (`response_time.rs:64`);
`ticks_from_micros` saturates after 23.7 hours at 216 MHz and then is shorter
than asked; `is_tick_aligned` is wrong at rates that do not divide 10^9
(`AlignmentIsExact` is restricted to those that do), and what it finds is only
warned of, where `malleus-arch/src/time.rs:55-56` says "rejects"; a missed
deadline beside an undecided task is summed up as UNKNOWN, "not a failure"
(`analyze.rs:78-80`), always for lack of a WCET even when a period is missing;
M0005 overlooks tasks whose deadline is their period; the example manifest of
`malleus-manifest/src/lib.rs:22,29` gives its tasks a `restart`, for which `Task`
has no field and which `deny_unknown_fields` therefore refuses; the IPC graph's cycles
that `malleus-manifest/src/lib.rs:45` speaks of are not looked for
(`BlockingCircleIsWarned` is what M0018 still gives); no check counts the tasks,
though `malleusrt/src/task.rs:13-17` has the manifest linter object to more than
`MAX_TASKS` (`TablesBuild` assumes it); `to_ticks` is "computed to avoid overflow
for realistic inputs" (`units.rs:68`), and nothing bounds `tick_rate`: above 18.4
GHz the product for the rest of a second saturates, a WCET is converted to fewer
ticks than it takes, and a PASS no longer covers the work
(`ResponseCoversNanoseconds` is restricted to the rates below, and fails at 140 Hz
of the run without it); what `enter_below` "does not affect",
the "priorities above" its ceiling (`malleus-arch/src/critical.rs:42`), are
hardware priorities: a handler with a more urgent `Priority` can share the
ceiling's level and be held off (`UrgentStaysLive` states both halves); `cargo
xtask ci` leaves out the doc, msrv and reference-apps jobs of the workflow it
runs "exactly" (`xtask/src/main.rs:6-7`).

## Proofs

Every invariant and action property of a passing run is also a theorem, for
every value of the constants that the assumptions below allow. Where a theorem
needs a hypothesis of its own it is an `ASSUME` of the theorem and is named here.

**Data (`ArithmeticLemmas`).** Sums over finite sets, counts of releases and
"the least number such that" are induction over data, which the library's
theorems cannot be used for here. `Induction` and `SetInduction` do it on a set
instead of a predicate, from the well-foundedness of the naturals; `SumIsFold`
shows that `SumFunctionOnSet` is the function they reason about, and the other
sum lemmas follow. `FewerReleases` and `CountGrid` count the multiples of a
period in an interval.

**The analyser (`ResponseTimeProofs`)**, for every task set, width and budget.
`TypeCorrect`: `TypeOK` is inductive; the budget and the loop indices are tied
to the program counter in it. `NeverAboveAFixedPoint` takes any certificate of a
fixed point of the exact recurrence: a function of partial sums, over the
integers, that ends at `R`. The invariant is that in the summing loop the
iterate is at most `R` and `next` is at most the certificate's partial sum; it
is inductive because `DivCeil` and the saturating operations are monotone and a
saturated value is never above the integer one. `BelowFixedPoints` draws the
property the runs check from it. `Rises` needs a stronger invariant: `next` is
at least what the previous turn had summed at the same interferer, so a turn
never lowers the iterate, and one that leaves it equal ends the recurrence.
`AnswersDeclared` says that neither a PASS nor a FAIL rests on a number that is
missing, that response and slack make up the task's own deadline, and that the
response of a FAIL is past it by the overrun. `ConvergesToLeast` completes
the bound: where the recurrence ends below the width, the partial sums of its
last turn are themselves such a certificate, so the response is a fixed point,
and by the bound the least.

`Implements` is the refinement of `SchedulabilityTest`: whatever the code does
with saturation, a budget and an early stop, the verdicts are those of the exact
demand over the integers. `GatherInv` says what the interferers are: the tasks
above, each once, none without a period or WCET; their demand, summed in the
order of the slice, is the sum over the set (`GatheredSums`). `VerdictInv` says that each verdict is
sound: a PASS is a least fixed point within the deadline, a FAIL has none, and
UNKNOWN has a number missing or a deadline longer than the budget. `ClimbInv` is
needed for the last: every turn raises the iterate by at least one, so a
budget that runs out has been paid for in ticks. The hypothesis is `Reachable`:
deadlines are below the largest integer of the width. A deadline of exactly
2^64 - 1 is met by an iterate that has saturated, and the PASS is then no fixed
point. That is the only case (`FitStep`: a PASS below the width is always one).

`OverloadNotSchedulable` relates the two numbers of a report, of which neither is
computed from the other: the utilisation and the verdicts. `UtilInv` bounds the
utilisation by the sum of the shares, `C * 1_000_000 / T` each, of the tasks
visited so far; each division drops something and saturation only lowers the
sum. Were every task a PASS, the response `R` of the least urgent one with work to do would be a
fixed point of the demand of all: at least `R / T` jobs of `C` each, so that `R`
times the sum of the shares is at most `R` times a million (`SharesFit`). It
takes distinct priorities, since the least urgent task is otherwise not charged
for its equals (the run `shared_level`), and `Reachable` deadlines.

**The execution (`AnalysedSystemProofs`)**, for every task set, width and legal
execution. `SystemTypeCorrect` is the queue: a task is in it once, and exactly
while its job has work left. The rest is that the numbers of the analysis are
true. `BusyInv` is the busy-period argument as an invariant. Of each task that
has a response time `R` within its deadline it says that the time since its
level was last idle is less than `R`, that all of that time went to work of the
level, and that what was released of it is at most what the demand of that much
time allows. It is inductive because after `R` ticks what was released is at most the
demand of `R` ticks, which is `R`, and `R` ticks of work are done: nothing
remains, and the level is idle. `ResponseBounds` and `NeverMisses` follow, for
distinct priorities (the run `shared_level` shows why) and `Reachable` deadlines;
blocking may be anything. `ResponseReached` is the other half, that the bound is
tight. `FirstInv` says that from the critical instant until a task's first
completion everything released so far is the demand exactly (`Pristine`), so the
completion is the first fixed point, and one past the deadline when there is
none within it. It needs `Unblocked`: the analysis adds a blocking term that no
task of this model causes. It speaks of tasks below tasks that pass: one that
overruns its period skips activations which the recurrence counts, so below it
the number is a bound only. The property was restricted so when the proof of the
unrestricted one failed and TLC found the execution.

**Startup and capture (`FaultCaptureProofs`)**, for every memory size, feature
set, store order and number of boots. The inductive invariant ties each step of
the code to the words initialised so far, to the state word and to the level of
nesting: for instance, that a fault entered at level two found the state already
claimed, or was the first of the boot. `RustBoundary`, `StartSucceeds`,
`DoneCorrect`, `CapturedOnce`, `FrameCorrect` and `MagicCorrect` follow. All but the
last assume no fault before `Reset`'s first store (`~EarlyFaults`), and
`MagicCorrect` assumes in-order stores (`Ascending`); the run `early_fault` shows
that `RustBoundary` cannot do without the first, and `torn_evidence` that
`MagicCorrect` cannot do without the second.

**Conversions (`ConversionProofs`)**, for every width, scale and rate. The heart
is `TicksMonotone`: the ticks of less than a second never exceed the rate, so
the sum cannot fall across a second boundary, and saturation is monotone.
`ExactCeiling` and `ExactDelay` rest on the ceiling being the only multiplier
within one of the quotient. `ShownReadsBack` walks down the units: the one
printed divides the value, so the number times the unit is the value again.

**From manifest to verdict (`CargoMalleusProofs`)**, for every set of manifests.
The invariant `Handover` carries the validator's report to the state in which
the analyser runs. `ContractKept` then reads each error code that is absent as
the fact it stands for and takes it to ticks with `TicksMonotone` and
`TicksPositive`: so `Validated`, which the analysis assumes of its input, is a
result about `validate` and `to_ticks`. It also shows that every two of its tasks
that share a level and have a deadline each are named together in an M0005
(`SharedLevelWarned`), the one case the analysis leaves to the reader. `NothingLeftToRefuse` shows that the
second pair of parsers has nothing left to refuse. `TopologyAccepted` reads the
absent codes of the channels and capabilities in the same way, and
`AlignmentDecided` shows by uniqueness of quotient and remainder that the
warning, computed in whole nanoseconds a tick, is about ticks where the rate
divides a second. `CirclesAreWarned`: with distinct priorities a circle has a
most urgent task, which waits on one below it, and that edge is what M0018 finds.
`TablesAreBuilt` takes every entry through the constructors of the kernel; its
hypothesis is that the validator's `MaxPriority` is below `PRIORITY_LEVELS`,
which are 31 and 32 in two crates that do not refer to each other.

`SummaryHonest` follows PASS and FAIL back from the exit code and the summary to
the rows and the declarations. It needs `CliInv`: until it is called the analyser is `Untouched`,
so that whatever `Convert` gives it, it starts in a state of `TypeOK` and
`AnswerInv`; from there the step lemmas of `ResponseTimeProofs` hold turn by turn;
and what is printed is every verdict, beside its own task. `CliTypeCorrect`
comes of the same invariant. `ResponsesCover` carries the exactness of the
analysis over as well (`AnalysisInv`), and takes the fixed point from ticks to
nanoseconds: a WCET in ticks is at least the WCET, a period of whole ticks
releases as often, and both sides of the recurrence scale by the length of a
tick (`FixedPointCovers`). It holds at rates where the rest of a second fits the
width; the proof without that restriction failed, and TLC showed the rate.

Two theorems mark the borders of two findings. `DeclaredDeadlinesMet`: where
periods and deadlines are whole numbers of ticks PASS does mean that the declared
deadlines are met, so `deadline_rounding` is about deadlines that are not, and no
warning tells. `OnlyStacksAbort`: on any manifest at all, the tool panics for a
stack that cannot be rounded up and for nothing else, so `huge_stack` is the only
such finding there is.

**The ready set (`ReadySetProofs`)**, for every number of levels and handlers,
any ceiling and any controllers. `HardwareInRange`, `UrgencyInverts` and
`UrgencySeparates` are about `to_hardware` alone: no product saturates, no
quotient is truncated, and division keeps the order; the first includes a
controller without levels, which no run has, since `priority_bits` implements at
least one. From the second it follows
that a section at the ceiling holds off every user (`CeilingCovers`), including
those that share its level. The invariant `Exclusive` says that at most one
context is inside a section, that it is the most urgent of those that are not
handlers above the ceiling, and that the word it loaded is still the word. Then
every `Store` is one whole insertion or removal, every other step a stutter, and
`UpdatesAreAtomic` is the refinement of `ReadyLevels`. `SectionsLeaveUrgentLive`
is what the section may not do, and `HighestIsHighest` what the scan finds.

**Activation (`PeriodProofs`)**, for every interval, timeline and counter width.
`AdvanceStep` states what one call of `advance` does to the grid; `GridKept`
and `FirstDue` follow from it and from `TypeCorrect`.
`MissesAreSlots` counts the slots that went by and finds the quotient the code
computes.

Assumptions on constants are the `ASSUME`s of the modules: sizes are naturals,
flags are Booleans, `None` is not a number and not an outcome, task sets are
sequences of `TaskTiming`, manifests are what the parser can return, with names
of `Name` and capacities of 16 bits, the width is a power of two less one, there
are at most 256 priorities (they fit a `u8`), the callers of the ready set are
not above its ceiling, and the task sets that are executed declare their numbers
as the validator has them, with some work to do and periods below the age at
which counting stops (`ExecutionAssumption`).

**Only model-checked.** Liveness (`Terminates`, `PassingJobsComplete`,
`ClaimedIsCaptured`), since fairness and ENABLED are beyond the prover's reach.
What a recursive operator computes cannot be proved either; no module that is
proved about declares one.

## Not modelled

- Declarations for a kernel that is not written: `RestartPolicy` and the fault
  reports of `malleusrt/src/fault.rs`, the protocols of `sync.rs`, what a full channel
  does at run time, the timer and its alarms, the context and memory-protection
  traits and the list of conformance tests of `malleus-arch`, the trace records. They
  say what something is called, and nothing in the repository acts on them.
- `malleus-codegen` and `malleus-runtime` are placeholders. `StaticTables` fills the
  tables as their types say, which is as much of the generator as there is.
- `isolated` and `board` are read from a manifest and used by no check.
- TOML parsing is serde's; the wording and order of diagnostics and reports is
  layout.
- `xtask` runs external commands one after the other and stops at the first that
  fails: it has no state of the system.
- The linker scripts and the board's vector table, except for what `FaultCapture`
  relies on: `.uninit` survives a reset and the vectors lead to the entry. The
  Cortex-M memory model: the code is single-core and its `dsb` instructions order
  what the model takes as ordered.

## Plan

1. *Done.* `ResponseTime` and its test; `AnalysedSystem`; `FaultCapture`;
   `Period`; their type and safety proofs.
2. *Done.* `Units`, `Conversion`, `Manifest`, `CargoMalleus`, with the handover
   proved; the topology, the alignment and the meaning of PASS proved.
3. *Done.* `Priority` and `ReadySet`, implementing the set that `AnalysedSystem`
   takes its levels from; `StaticTables`; `Timeout`.
4. *Done.* The execution proved about: the responses are bounds, schedulable
   systems never miss, and the test is exact; the refinement of
   `SchedulabilityTest`; the tables, the circles and the cover in nanoseconds.
5. `PeriodicSystem`: the execution with tasks activated through `Period`, on
   schedulable task sets: `missed` stays zero.
6. An abstract specification of the evidence (one slot: empty or one snapshot of
   a boot) that `FaultCapture` implements.
7. The PASS of a saturated response, which may be no fixed point: only a deadline
   of 2^64 - 1 ticks reaches it. `Reachable` leaves it out of `Implements`, and
   `FitStep` shows that nothing else is left out.
8. The kernel's own scheduling, IPC, mutexes and fault policy, when they are
   written.
