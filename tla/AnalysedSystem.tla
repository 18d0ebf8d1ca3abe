--------------------------- MODULE AnalysedSystem ---------------------------
(***************************************************************************)
(* The analyser composed with the system its report is about: the declared *)
(* task set is analysed (ResponseTime.tla) and then executed under the     *)
(* policy of crates/malleusrt/src/sched.rs lines 5-9, "strictly            *)
(* preemptive, fixed priority, FIFO within a priority level".              *)
(*                                                                         *)
(* The kernel that executes the tasks is not written yet: of it the source *)
(* has the ready-set lookup (ReadySet::highest), the rule that an          *)
(* overrunning task skips activations instead of queueing them             *)
(* (Period::advance), and the assumptions of response_time.rs lines 26-31. *)
(* Releases, execution and completion are modelled from those and are      *)
(* external to the source.                                                 *)
(*                                                                         *)
(* Time is discrete, in ticks.  A task that is `ready` has a job with      *)
(* `remaining` ticks of work, released `age` ticks ago.                    *)
(***************************************************************************)
EXTENDS ResponseTime, SequencesExt

CONSTANT MaxAge  \* the age of an unfinished job is counted up to this bound

\* What the execution asks of a task set: that the validator let it through,
\* and that every task has a contract.  A job takes time.  (That a WCET is
\* positive nothing checks; a task with none passes with a response of 0.)
Executable(ts) ==
  /\ Validated(ts)
  /\ \A i \in DOMAIN ts : Declared(ts[i]) /\ ts[i].wcet > 0 /\ ts[i].period < MaxAge

ASSUME AgeAssumption == MaxAge \in Nat
ASSUME ExecutionAssumption == \A ts \in TaskSets : Executable(ts)

VARIABLES
  critical,   \* the releases are those of the critical instant
  ready,      \* tasks with an unfinished job, in the order of their release
  remaining,  \* work left in the task's job
  age,        \* ticks since the task's last release
  first       \* response time of the task's first job; 0 before it completes

execution == <<critical, ready, remaining, age, first>>
Tasks     == DOMAIN tasks
Ready     == {ready[i] : i \in DOMAIN ready}

\* The run starts with every task releasable: the critical instant included.
SystemInit ==
  /\ Init
  /\ critical \in BOOLEAN
  /\ ready = <<>>
  /\ remaining = [t \in Tasks |-> 0]
  /\ age = [t \in Tasks |-> tasks[t].period]
  /\ first = [t \in Tasks |-> 0]

-----------------------------------------------------------------------------
\* ReadySet: the levels with runnable work, and the most urgent of them.
ReadyLevels     == {tasks[t].priority : t \in Ready}

\* Mutant of Highest: the bitmap is scanned from the wrong end.
Lowest(levels) == CHOOSE p \in levels : \A q \in levels : p <= q

Highest(levels) == CHOOSE p \in levels : \A q \in levels : q <= p

\* FIFO within the most urgent level: the job to run, by its place in `ready`.
Turn ==
  CHOOSE i \in DOMAIN ready :
    /\ tasks[ready[i]].priority = Highest(ReadyLevels)
    /\ \A j \in 1 .. (i - 1) : tasks[ready[j]].priority # Highest(ReadyLevels)

Dispatched == ready[Turn]

\* Once its period is over, an idle task's age no longer matters.
Older(t) ==
  LET cap == IF critical /\ t \in Ready THEN MaxAge ELSE tasks[t].period
  IN IF age[t] < cap THEN age[t] + 1 ELSE age[t]

\* Mutant of Due: an overrunning task is activated again.
DueAgain(t) == age[t] >= tasks[t].period

\* A task whose job is unfinished skips the activation.
Due(t) == t \notin Ready /\ age[t] >= tasks[t].period

\* A job of t, with `work` ticks to do.
Release(t, work) ==
  /\ Due(t)
  /\ ready' = Append(ready, t)
  /\ remaining' = [remaining EXCEPT ![t] = work]
  /\ age' = [age EXCEPT ![t] = 0]

\* One tick passes: the dispatched task, if any, executes for it.
Tick ==
  /\ age' = [t \in Tasks |-> Older(t)]
  /\ \/ ready = <<>> /\ UNCHANGED <<ready, remaining>>
     \/ /\ ready # <<>>
        /\ remaining' = [remaining EXCEPT ![Dispatched] = @ - 1]
        /\ ready' = IF remaining[Dispatched] > 1 THEN ready ELSE RemoveAt(ready, Turn)

Analyse == Next /\ UNCHANGED execution

\* Sporadic releases, periods apart or more, of jobs up to the declared WCET.
Execute ==
  /\ pc = "done" /\ ~critical
  /\ \/ Tick
     \/ \E t \in Tasks : \E work \in 1 .. tasks[t].wcet : Release(t, work)
  /\ UNCHANGED <<vars, critical, first>>

\* The critical instant: every task released at once, again as soon as its
\* period allows, for its full WCET.
DueNow       == {t \in Tasks : Due(t)}
Completes(t) == t \in Ready /\ remaining'[t] = 0

ExecuteCritically ==
  /\ pc = "done" /\ critical
  /\ \/ /\ DueNow = {} /\ Tick
        /\ first' = [t \in Tasks |-> IF Completes(t) /\ first[t] = 0 THEN Older(t) ELSE first[t]]
     \/ \E t \in DueNow : Release(t, tasks[t].wcet) /\ UNCHANGED first
  /\ UNCHANGED <<vars, critical>>

SystemVars == <<vars, execution>>
SystemNext == Analyse \/ Execute \/ ExecuteCritically
SystemSpec == SystemInit /\ [][SystemNext]_SystemVars
                         /\ WF_SystemVars(Analyse \/ ExecuteCritically)

-----------------------------------------------------------------------------
(* Properties. *)

SystemTypeOK ==
  /\ \A i, j \in DOMAIN ready : ready[i] = ready[j] => i = j
  /\ Ready \subseteq Tasks
  /\ \A t \in Tasks : /\ remaining[t] \in 0 .. tasks[t].wcet
                      /\ remaining[t] > 0 <=> t \in Ready
                      /\ age[t] \in 0 .. MaxAge /\ first[t] \in 0 .. MaxAge

Analysed(t) == pc = "done" /\ verdicts[t].kind = "pass"
Missed(t)   == t \in Ready /\ age[t] >= DeadlineOf(tasks[t])

\* "Whether every task provably meets its deadline" (Analysis::is_schedulable,
\* line 102): whatever the releases and the execution times, a system that is
\* called schedulable never has an unfinished job at its deadline.
SchedulableNeverMisses ==
  (pc = "done" /\ IsSchedulable(verdicts)) => \A t \in Tasks : ~Missed(t)

\* "Computed worst-case response time" (line 55): no job of a task that
\* passes takes longer, even when other tasks of the system fail.
ResponseIsABound ==
  \A t \in Tasks : (Analysed(t) /\ t \in Ready) => age[t] < verdicts[t].response

\* "It is exact for this scheduling model" (line 20): where the tasks above it
\* pass, the first job of a task takes, from the critical instant, the computed
\* response time to the tick, and a task that fails does miss its deadline.
\* (Below a task that overruns its period the number is a bound only: the
\* overrunning task skips activations that the recurrence counts.)
ResponseIsReached ==
  \A t \in Tasks :
    (pc = "done" /\ first[t] # 0 /\ \A o \in Tasks : Preempts(tasks[o], tasks[t]) => Analysed(o))
      => /\ verdicts[t].kind = "pass" => first[t] = verdicts[t].response
         /\ verdicts[t].kind = "fail" => first[t] > DeadlineOf(tasks[t])

\* From the critical instant the first job of every task that passes does
\* complete.
PassingJobsComplete ==
  (critical /\ pc = "done") ~> (\A t \in Tasks : Analysed(t) => first[t] # 0)
=============================================================================
