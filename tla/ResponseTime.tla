---------------------------- MODULE ResponseTime ----------------------------
(***************************************************************************)
(* The build-time response-time analysis of                                *)
(* crates/malleus-analyzer/src/response_time.rs.                           *)
(*                                                                         *)
(* `analyse` (lines 134-159) visits the declared tasks in order; for each  *)
(* it accumulates the utilisation and calls `verdict_for` (161-253), which *)
(* gathers the tasks that can preempt it and solves                        *)
(*                                                                         *)
(*        R = C + B + sum over the interferers of ceil(R / T_j) * C_j      *)
(*                                                                         *)
(* by iteration, in saturating u64 arithmetic and at most MAX_ITERATIONS   *)
(* times.  One action is one turn of one of the four nested loops, so an   *)
(* invariant speaks of every intermediate value the code computes.         *)
(***************************************************************************)
EXTENDS Saturating, Option, Sequences

CONSTANTS
  Name,          \* task names
  Million,       \* the 1_000_000 of "parts per million"
  MaxIterations, \* MAX_ITERATIONS, the turns of the recurrence before giving up
  TaskSets       \* the task sets `analyse` may be called with

OptU64 == U64 \cup {None}

\* pub struct TaskTiming: one task's timing contract, in ticks.
TaskTiming == [name : Name, priority : Nat, period : OptU64,
               deadline : OptU64, wcet : OptU64, blocking : U64]

\* A task that can preempt the one under analysis: the pairs of line 184.
Interferer == [period : U64 \ {0}, wcet : U64]

ASSUME MillionAssumption == Million \in Nat
ASSUME BudgetAssumption  == MaxIterations \in Nat \ {0}
ASSUME TaskSetAssumption == \A ts \in TaskSets : ts \in Seq(TaskTiming)

VARIABLES
  tasks,        \* the slice under analysis; never written
  pc,           \* which loop the analysis is in
  cursor,       \* index of the task under analysis
  other,        \* index of the next task to consider as an interferer
  interferers,  \* (period, wcet) of the tasks that can preempt this one
  iteration,    \* completed turns of the recurrence
  response,     \* the current iterate
  summed,       \* interferers already added to `next`
  next,         \* the iterate being summed
  verdict,      \* what verdict_for returned, before analyse stores it
  verdicts,     \* verdicts of the tasks before `cursor`
  utilisation   \* utilisation_ppm

vars == <<tasks, pc, cursor, other, interferers, iteration, response, summed,
          next, verdict, verdicts, utilisation>>
loop == <<other, interferers, iteration, response, summed, next>>

-----------------------------------------------------------------------------
(* enum Verdict. *)

Pass(r, d)      == [kind |-> "pass", response |-> r, slack |-> d - r]
Fail(r, d)      == [kind |-> "fail", response |-> r, overrun |-> r - d]
Unknown(reason) == [kind |-> "unknown", reason |-> reason]

Reason == {"no wcet", "no contract", "no period", "zero period above",
           "undeclared above", "no convergence"}

Verdict == [kind : {"pass"}, response : U64, slack : U64]
             \cup [kind : {"fail"}, response : U64, overrun : U64]
             \cup [kind : {"unknown"}, reason : Reason]

\* Analysis::is_schedulable and Analysis::has_unknowns.
IsPass(v) == v.kind = "pass"

IsSchedulable(vs) == \A i \in DOMAIN vs : IsPass(vs[i])
HasUnknowns(vs)   == \E i \in DOMAIN vs : vs[i].kind = "unknown"

-----------------------------------------------------------------------------
Task        == tasks[cursor]
DeadlineOf(t) == IF t.deadline # None THEN t.deadline ELSE t.period
Base(t)     == SatAdd(t.wcet, t.blocking)

\* Mutant of Preempts: the sense of urgency reversed.
Outranked(o, t) == o.name # t.name /\ o.priority < t.priority

\* Whether `o` is taken as a task that can preempt `t` (line 186).
Preempts(o, t) == o.name # t.name /\ o.priority > t.priority

\* Mutant of Utilised: each share is rounded up.
UtilisedUp(u, t) ==
  IF t.period = None \/ t.wcet = None THEN u
  ELSE IF t.period = 0 THEN MaxU
  ELSE SatAdd(u, DivCeil(SatMul(t.wcet, Million), t.period))

\* The task's share of the CPU in parts per million, added to the total.
Utilised(u, t) ==
  IF t.period = None \/ t.wcet = None THEN u
  ELSE IF t.period = 0 THEN MaxU
  ELSE SatAdd(u, SatMul(t.wcet, Million) \div t.period)

\* The first thing missing from the task's own contract (lines 162-179).
MissingReason(t) ==
  CASE t.wcet = None                          -> "no wcet"
    [] t.wcet # None /\ DeadlineOf(t) = None  -> "no contract"
    [] t.wcet # None /\ t.deadline # None /\ t.period = None -> "no period"

Declared(t) == t.wcet # None /\ t.period # None

Return(v) == pc' = "push" /\ verdict' = v

\* The whole slice is searched for tasks that preempt (line 185).
FirstOther == 1

Init ==
  /\ tasks \in TaskSets
  /\ pc = "task" /\ cursor = 1
  /\ other = 1 /\ interferers = <<>>
  /\ iteration = 0 /\ response = 0 /\ summed = 0 /\ next = 0
  /\ verdict = Unknown("no wcet") /\ verdicts = <<>>
  /\ utilisation = 0

-----------------------------------------------------------------------------
(* analyse: the outer loop over the tasks, up to the call of verdict_for   *)
(* and through its checks of the task's own declarations.                  *)

BeginTask ==
  /\ pc = "task" /\ cursor <= Len(tasks)
  /\ utilisation' = Utilised(utilisation, Task)
  /\ other' = FirstOther /\ interferers' = <<>> /\ summed' = 0
  /\ \/ Declared(Task) /\ pc' = "gather" /\ UNCHANGED verdict
     \/ ~Declared(Task) /\ Return(Unknown(MissingReason(Task)))
  /\ UNCHANGED <<tasks, cursor, iteration, response, next, verdicts>>

\* Mutant of PushVerdict: reports only the tasks it has a number for.
PushNumber ==
  /\ pc = "push"
  /\ verdicts' = IF verdict.kind = "unknown" THEN verdicts ELSE Append(verdicts, verdict)
  /\ cursor' = cursor + 1 /\ pc' = "task"
  /\ UNCHANGED <<tasks, loop, verdict, utilisation>>

\* verdicts.push(...), and on to the next task.
PushVerdict ==
  /\ pc = "push"
  /\ verdicts' = Append(verdicts, verdict)
  /\ cursor' = cursor + 1 /\ pc' = "task"
  /\ UNCHANGED <<tasks, loop, verdict, utilisation>>

Finish ==
  /\ pc = "task" /\ cursor > Len(tasks)
  /\ pc' = "done"
  /\ UNCHANGED <<tasks, cursor, loop, verdict, verdicts, utilisation>>

-----------------------------------------------------------------------------
(* verdict_for: gathering the tasks that can preempt this one (184-206).   *)

GatherOther ==
  /\ pc = "gather" /\ other <= Len(tasks)
  /\ other' = other + 1
  /\ LET o == tasks[other] IN
       \/ /\ ~Preempts(o, Task)
          /\ UNCHANGED <<pc, interferers, verdict>>
       \/ /\ Preempts(o, Task) /\ o.period = 0
          /\ Return(Unknown("zero period above")) /\ UNCHANGED interferers
       \/ /\ Preempts(o, Task) /\ o.period # 0 /\ Declared(o)
          /\ interferers' = Append(interferers, [period |-> o.period, wcet |-> o.wcet])
          /\ UNCHANGED <<pc, verdict>>
       \/ /\ Preempts(o, Task) /\ o.period # 0 /\ ~Declared(o)
          /\ Return(Unknown("undeclared above")) /\ UNCHANGED interferers
  /\ UNCHANGED <<tasks, cursor, iteration, response, summed, next, verdicts, utilisation>>

\* Mutant of BeginTurn: the turn forgets the task's own demand.
BeginFromZero == summed' = 0 /\ next' = 0

\* let mut next = base, at the head of every turn (line 211).
BeginTurn == summed' = 0 /\ next' = Base(Task)

StartRecurrence ==
  /\ pc = "gather" /\ other > Len(tasks)
  /\ pc' = "sum" /\ iteration' = 0
  /\ response' = Base(Task) /\ BeginTurn
  /\ UNCHANGED <<tasks, cursor, other, interferers, verdict, verdicts, utilisation>>

-----------------------------------------------------------------------------
(* verdict_for: one turn of the recurrence (210-242).                      *)

\* Mutants of Demand: activations are counted whole, or one too many where the
\* window ends on the grid.
DemandWhole(r, i)  == SatMul(r \div i.period, i.wcet)
DemandClosed(r, i) == SatMul(r \div i.period + 1, i.wcet)

\* (response).div_ceil(period).saturating_mul(wcet)
Demand(r, i) == SatMul(DivCeil(r, i.period), i.wcet)

AddInterferer ==
  /\ pc = "sum" /\ summed < Len(interferers)
  /\ summed' = summed + 1
  /\ next' = SatAdd(next, Demand(response, interferers[summed + 1]))
  /\ UNCHANGED <<tasks, pc, cursor, other, interferers, iteration, response,
                 verdict, verdicts, utilisation>>

Summed == pc = "sum" /\ summed = Len(interferers)

\* The iterate is a fixed point (219-231).
Converge ==
  /\ Summed /\ next = response
  /\ Return(IF response <= DeadlineOf(Task)
              THEN Pass(response, DeadlineOf(Task))
              ELSE Fail(response, DeadlineOf(Task)))
  /\ UNCHANGED <<tasks, cursor, loop, verdicts, utilisation>>

\* Mutant of PastDeadline: gives up at the deadline itself.
AtDeadline == next >= DeadlineOf(Task)

PastDeadline == next > DeadlineOf(Task)

\* The iterate has passed the deadline, so it can never come back (232-240).
CrossDeadline ==
  /\ Summed /\ next # response /\ PastDeadline
  /\ Return(Fail(next, DeadlineOf(Task)))
  /\ UNCHANGED <<tasks, cursor, loop, verdicts, utilisation>>

\* Mutant of LastTurn: one turn more than the budget.
TurnAfterLast == iteration = MaxIterations

LastTurn == iteration + 1 = MaxIterations

\* Neither: another turn, or the iteration bound (241-252).
Iterate ==
  /\ Summed /\ next # response /\ ~PastDeadline
  /\ response' = next
  /\ iteration' = iteration + 1
  /\ \/ /\ ~LastTurn /\ BeginTurn
        /\ UNCHANGED <<pc, verdict>>
     \/ /\ LastTurn
        /\ Return(Unknown("no convergence")) /\ UNCHANGED <<next, summed>>
  /\ UNCHANGED <<tasks, cursor, other, interferers, verdicts, utilisation>>

Next == \/ BeginTask \/ PushVerdict \/ Finish
        \/ GatherOther \/ StartRecurrence
        \/ AddInterferer \/ Converge \/ CrossDeadline \/ Iterate

Spec == Init /\ [][Next]_vars

\* The analysis is straight-line code on one thread: it never stops by itself.
FairSpec == Spec /\ WF_vars(Next)
-----------------------------------------------------------------------------
(* Properties. *)

\* The state the code can be in, loop by loop.
TypeOK ==
  /\ tasks \in Seq(TaskTiming)
  /\ pc \in {"task", "gather", "sum", "push", "done"}
  /\ cursor \in 1 .. Len(tasks) + 1
  /\ pc \in {"gather", "sum", "push"} => cursor <= Len(tasks)
  /\ pc \in {"gather", "sum"} => Declared(Task)
  /\ other \in 1 .. Len(tasks) + 1
  /\ interferers \in Seq(Interferer)
  /\ iteration \in 0 .. MaxIterations
  /\ pc = "sum" => iteration < MaxIterations
  /\ summed \in 0 .. Len(interferers)
  /\ response \in U64 /\ next \in U64
  /\ verdict \in Verdict /\ verdicts \in Seq(Verdict)
  /\ Len(verdicts) = cursor - 1
  /\ utilisation \in U64

\* S is a certificate that the exact recurrence of the current task has the
\* fixed point R: its partial sums over the interferers, in the integers.
\* (That R is no less than the first follows from the others.)
Certifies(S, R) ==
  /\ S[0] = Task.wcet + Task.blocking /\ S[0] <= R
  /\ \A k \in 1 .. Len(interferers) :
       S[k] = S[k - 1] + DivCeil(R, interferers[k].period) * interferers[k].wcet
  /\ S[Len(interferers)] = R

\* The partial sums of the exact recurrence at R, for TLC to evaluate.
PartialSums(R) ==
  LET S[k \in 0 .. Len(interferers)] ==
        IF k = 0 THEN Task.wcet + Task.blocking
        ELSE S[k - 1] + DivCeil(R, interferers[k].period) * interferers[k].wcet
  IN S

\* No intermediate value of the iteration ever exceeds a fixed point of the
\* exact recurrence: neither the iterate nor any partial sum, saturated or
\* not.  It is why stopping past the deadline is "exact, not an
\* approximation" (lines 233-235) and why the first fixed point met is the
\* worst-case response time.
BelowFixedPoint(S, R) ==
  (pc = "sum" /\ Certifies(S, R)) => response <= R /\ next <= S[summed]

IterateBelowEveryFixedPoint ==
  pc = "sum" => \A R \in U64 : BelowFixedPoint(PartialSums(R), R)

\* "The recurrence is monotonically increasing" (lines 233-235): within one
\* task's recurrence no turn lowers the iterate, and every turn that is not
\* the last raises it.
RecurrenceRises ==
  [][(pc = "sum" /\ iteration' > iteration) => response' > response]_vars

\* What the manifest validator guarantees of a task set that reaches the
\* analysis: unique names (M0001), no zero period (M0026), deadlines within
\* periods (M0006).  Distinct priorities it only recommends (M0005).
Validated(ts) ==
  \A i \in DOMAIN ts :
    /\ \A j \in DOMAIN ts : ts[i].name = ts[j].name => i = j
    /\ ts[i].period # None => /\ ts[i].period > 0
                              /\ ts[i].deadline # None => ts[i].deadline <= ts[i].period

DistinctPriorities(ts) ==
  \A i, j \in DOMAIN ts : ts[i].priority = ts[j].priority => i = j

\* The two numbers of one report agree, though neither is computed from the
\* other: a validated task set with a priority each that asks for more than
\* the whole CPU (lines 138-150) is never called schedulable (line 102).
OverloadNeverSchedulable ==
  (pc = "done" /\ Validated(tasks) /\ DistinctPriorities(tasks) /\ utilisation > Million)
    => ~IsSchedulable(verdicts)

\* `analyse` over the integers (SchedulabilityTest.tla).
Test == INSTANCE SchedulabilityTest

\* The verdicts are those of the exact test: a pass carries the least fixed
\* point within the deadline, a fail means there is none, and the analyser
\* gives up only on a deadline longer than its iteration budget.
ImplementsSchedulabilityTest == Test!Spec

\* "Pure, deterministic, and terminating" (line 130): every call returns,
\* with one verdict per task, also past saturation.
Terminates == <>(pc = "done" /\ Len(verdicts) = Len(tasks))
=============================================================================
