------------------------- MODULE SchedulabilityTest -------------------------
(***************************************************************************)
(* What `analyse` promises, without saying how it computes it: the exact   *)
(* test of the module comment of response_time.rs (lines 3-30) over the    *)
(* integers.  The verdicts are given one by one, in the order of the       *)
(* tasks, and each must be one that the task's exact worst case permits.   *)
(*                                                                         *)
(* Nothing here saturates, iterates or gathers.  ResponseTime.tla, which   *)
(* does all three, is shown to implement this module.                      *)
(***************************************************************************)
EXTENDS Naturals, Sequences, FiniteSets, Functions

CONSTANTS None, MaxIterations, TaskSets

VARIABLES tasks, verdicts

-----------------------------------------------------------------------------
Declares(t)   == t.wcet # None /\ t.period # None
DeadlineOf(t) == IF t.deadline # None THEN t.deadline ELSE t.period

\* hp(i): the tasks that can preempt task c.
Above(c) == {j \in DOMAIN tasks : /\ tasks[j].name # tasks[c].name
                                  /\ tasks[j].priority > tasks[c].priority}

\* A verdict on c needs c's own contract and a bound on all that preempts it.
Decidable(c) == /\ Declares(tasks[c])
                /\ \A j \in Above(c) : Declares(tasks[j]) /\ tasks[j].period > 0

\* How often a task released at 0 and then every `period` is released in a
\* window of `length` ticks.
Releases(period, length) == Cardinality({k \in 0 .. (length - 1) : k % period = 0})

\* The work to finish within a window of r ticks before c's job can be complete.
Demand(c, r) ==
  tasks[c].wcet + tasks[c].blocking
    + SumFunctionOnSet([j \in Above(c) |-> Releases(tasks[j].period, r) * tasks[j].wcet], Above(c))

\* The windows, up to the deadline, in which the demand exactly fits.
FixedPoints(c) == {r \in 0 .. DeadlineOf(tasks[c]) : Demand(c, r) = r}

\* The verdicts that do not lie about task c.  Giving up is honest only when
\* the deadline leaves more room than the iteration budget can search.
Permitted(c, v) ==
  LET D == DeadlineOf(tasks[c]) IN
  IF ~Decidable(c)
    THEN v.kind = "unknown" /\ v.reason # "no convergence"
    ELSE \/ /\ v.kind = "pass" /\ v.response \in FixedPoints(c)
            /\ \A r \in FixedPoints(c) : v.response <= r
            /\ v.slack = D - v.response
         \/ /\ v.kind = "fail" /\ FixedPoints(c) = {}
            /\ v.response > D /\ v.overrun = v.response - D
         \/ /\ v.kind = "unknown" /\ v.reason = "no convergence"
            /\ D >= tasks[c].wcet + tasks[c].blocking + MaxIterations

-----------------------------------------------------------------------------
Init == tasks \in TaskSets /\ verdicts = <<>>

Decide == /\ Len(verdicts) < Len(tasks)
          /\ Len(verdicts') = Len(verdicts) + 1
          /\ verdicts' = Append(verdicts, verdicts'[Len(verdicts')])
          /\ Permitted(Len(verdicts'), verdicts'[Len(verdicts')])
          /\ UNCHANGED tasks

Spec == Init /\ [][Decide]_<<tasks, verdicts>>
=============================================================================
