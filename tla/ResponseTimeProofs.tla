------------------------- MODULE ResponseTimeProofs -------------------------
(***************************************************************************)
(* What the analyser computes, for every task set, every width of the      *)
(* integers and every iteration bound.                                     *)
(***************************************************************************)
EXTENDS ResponseTime, ArithmeticLemmas

\* Numbers of the width are numbers; an interferer has two of them.
LEMMA Numbers ==
  /\ \A n \in U64 : n \in Nat /\ n <= MaxU
  /\ \A m, n \in U64 : m <= n \/ (n < m /\ n <= m)
  /\ \A i \in Interferer : i.period \in Nat \ {0} /\ i.wcet \in Nat
<1>1. \A n \in U64 : n \in Nat /\ n <= MaxU
  BY WidthAssumption DEF U64
<1>2. \A i \in Interferer : i.period \in Nat \ {0} /\ i.wcet \in Nat
  BY WidthAssumption DEF Interferer, U64
<1>3. \A m, n \in U64 : m <= n \/ (n < m /\ n <= m)
  BY WidthAssumption DEF U64
<1> QED
  BY <1>1, <1>2, <1>3, Zenon

\* The demand of one interferer in a window: within the width, never more than
\* the exact demand, and no less in a longer window.
LEMMA DemandBounds ==
  ASSUME NEW r \in Nat, NEW i \in Interferer
  PROVE  /\ DivCeil(r, i.period) * i.wcet \in Nat
         /\ Demand(r, i) \in U64
         /\ Demand(r, i) <= DivCeil(r, i.period) * i.wcet
         /\ Demand(r, i) < MaxU => Demand(r, i) = DivCeil(r, i.period) * i.wcet
<1>1. i.period \in Nat \ {0} /\ i.wcet \in Nat
  BY Numbers
<1>2. DivCeil(r, i.period) \in Nat
  BY <1>1, DivCeilBounds
<1>3. DivCeil(r, i.period) * i.wcet \in Nat
  BY <1>1, <1>2
<1> QED
  BY <1>1, <1>2, <1>3, SatMulBounds DEF Demand

LEMMA DemandMonotone ==
  ASSUME NEW r \in Nat, NEW s \in Nat, NEW i \in Interferer, r <= s
  PROVE  /\ Demand(r, i) <= Demand(s, i)
         /\ DivCeil(r, i.period) * i.wcet <= DivCeil(s, i.period) * i.wcet
<1>1. i.period \in Nat \ {0} /\ i.wcet \in Nat
  BY Numbers
<1>2. DivCeil(r, i.period) \in Nat /\ DivCeil(s, i.period) \in Nat
  BY <1>1, DivCeilBounds
<1>3. DivCeil(r, i.period) <= DivCeil(s, i.period)
  BY <1>1, DivCeilMonotone
<1> QED
  BY <1>1, <1>2, <1>3, SatMulMonotone, TimesMonotone DEF Demand

\* A declared task's timing is numbers, not options.
LEMMA DeclaredNumbers ==
  ASSUME TypeOK, cursor <= Len(tasks), Declared(Task)
  PROVE  /\ Task.wcet \in U64 /\ Task.blocking \in U64 /\ DeadlineOf(Task) \in U64
         /\ Base(Task) \in U64 /\ Base(Task) <= Task.wcet + Task.blocking
<1>1. Task \in TaskTiming
  BY DEF TypeOK, Task
<1>2. Task.wcet \in U64 /\ Task.blocking \in U64 /\ DeadlineOf(Task) \in U64
  BY <1>1 DEF TaskTiming, OptU64, Declared, DeadlineOf
<1>3. Task.wcet \in Nat /\ Task.blocking \in Nat
  BY <1>2, Numbers
<1> QED
  BY <1>2, <1>3, SatAddBounds DEF Base

-----------------------------------------------------------------------------
\* The verdicts the code builds are of its type.
LEMMA VerdictTypes ==
  /\ \A reason \in Reason : Unknown(reason) \in Verdict
  /\ \A r, d \in U64 : r <= d => Pass(r, d) \in Verdict
  /\ \A r, d \in U64 : d <= r => Fail(r, d) \in Verdict
BY WidthAssumption DEF Unknown, Pass, Fail, Verdict, U64

\* A step of the analysis keeps every index and number in its range.
LEMMA TypeStep == TypeOK /\ [Next]_vars => TypeOK'
<1> SUFFICES ASSUME TypeOK, [Next]_vars PROVE TypeOK'
  OBVIOUS
<1> USE DEF Task, loop
<1>0. /\ Len(tasks) \in Nat /\ Len(interferers) \in Nat
      /\ cursor \in Nat /\ other \in Nat /\ summed \in Nat /\ iteration \in Nat
      /\ response \in Nat /\ next \in Nat /\ utilisation \in Nat
      /\ MaxIterations \in Nat \ {0}
  BY Numbers, BudgetAssumption DEF TypeOK
<1>1. CASE BeginTask
  <2>1. Task \in TaskTiming
    BY <1>1 DEF BeginTask, FirstOther, TypeOK
  <2>2. utilisation' \in U64
    <3> DEFINE share == SatMul(Task.wcet, Million) \div Task.period
    <3>0. utilisation' = Utilised(utilisation, Task)
      BY <1>1 DEF BeginTask, FirstOther
    <3>1. CASE Task.period = None \/ Task.wcet = None
      BY <3>0, <3>1 DEF Utilised, TypeOK
    <3>2. CASE Task.period = 0 /\ Task.period # None /\ Task.wcet # None
      <4>1. MaxU \in U64
        BY WidthAssumption DEF U64
      <4> QED
        BY <3>0, <3>2, <4>1 DEF Utilised
    <3>3. CASE Task.period # None /\ Task.wcet # None /\ Task.period # 0
      <4>1. Task.wcet \in U64 /\ Task.period \in U64
        BY <2>1, <3>3 DEF TaskTiming, OptU64
      <4>2. Task.wcet \in Nat /\ Task.period \in Nat \ {0}
        BY <4>1, <3>3, Numbers
      <4>3. SatMul(Task.wcet, Million) \in Nat
        BY <4>2, SatMulBounds, MillionAssumption, Numbers
      <4>4. share \in Nat
        BY <4>2, <4>3
      <4>5. SatAdd(utilisation, share) \in U64
        BY <1>0, <4>4, SatAddBounds
      <4> QED
        BY <3>0, <3>3, <4>5 DEF Utilised
    <3> QED BY <3>1, <3>2, <3>3
  <2>3. ~Declared(Task) => MissingReason(Task) \in Reason
    BY DEF MissingReason, Reason, Declared, DeadlineOf
  <2>4. /\ verdict' \in Verdict
        /\ (pc' = "gather" /\ Declared(Task)) \/ pc' = "push"
    BY <1>1, <2>3, VerdictTypes DEF BeginTask, FirstOther, Return, TypeOK
  <2>5. interferers' \in Seq(Interferer) /\ Len(interferers') = 0
    BY <1>1 DEF BeginTask, FirstOther
  <2> QED
    BY <1>0, <1>1, <2>2, <2>4, <2>5 DEF BeginTask, FirstOther, TypeOK, Declared
<1>2. CASE PushVerdict
  BY <1>0, <1>2 DEF PushVerdict, TypeOK
<1>3. CASE Finish
  BY <1>3 DEF Finish, TypeOK
<1>4. CASE GatherOther
  <2> DEFINE o == tasks[other]
  <2>0. /\ pc = "gather" /\ other <= Len(tasks) /\ other' = other + 1
        /\ UNCHANGED <<tasks, cursor, iteration, response, summed, next, verdicts, utilisation>>
    BY <1>4 DEF GatherOther
  <2>1. o \in TaskTiming
    BY <1>0, <2>0 DEF TypeOK
  <2>2. /\ Unknown("zero period above") \in Verdict
        /\ Unknown("undeclared above") \in Verdict
    BY VerdictTypes DEF Reason
  <2>3. verdict' \in Verdict /\ (pc' = pc \/ pc' = "push")
    BY <1>4, <2>2 DEF GatherOther, Return, TypeOK
  <2>4. interferers' \in Seq(Interferer) /\ Len(interferers') \in {Len(interferers), Len(interferers) + 1}
    <3>1. CASE interferers' = interferers
      BY <3>1 DEF TypeOK
    <3>2. CASE /\ o.period # 0 /\ Declared(o)
               /\ interferers' = Append(interferers, [period |-> o.period, wcet |-> o.wcet])
      <4>1. o.period \in U64 \ {0} /\ o.wcet \in U64
        BY <2>1, <3>2 DEF TaskTiming, OptU64, Declared
      <4>2. [period |-> o.period, wcet |-> o.wcet] \in Interferer
        BY <4>1 DEF Interferer
      <4>3. interferers \in Seq(Interferer)
        BY DEF TypeOK
      <4> HIDE DEF o
      <4> QED BY <3>2, <4>2, <4>3
    <3> QED BY <1>4, <3>1, <3>2 DEF GatherOther
  <2>5. other' \in 1 .. Len(tasks) + 1
    BY <1>0, <2>0 DEF TypeOK
  <2>6. summed \in 0 .. Len(interferers')
    BY <1>0, <2>4 DEF TypeOK
  <2> HIDE DEF o
  <2> QED
    BY <2>0, <2>3, <2>4, <2>5, <2>6 DEF TypeOK, Declared
<1>5. CASE StartRecurrence
  <2>1. Base(Task) \in U64
    BY <1>5, DeclaredNumbers DEF StartRecurrence, BeginTurn, TypeOK
  <2> QED
    BY <1>0, <1>5, <2>1 DEF StartRecurrence, BeginTurn, TypeOK, Declared
<1>6. CASE AddInterferer
  <2>1. summed + 1 \in 1 .. Len(interferers)
    BY <1>0, <1>6 DEF AddInterferer
  <2>2. interferers[summed + 1] \in Interferer
    BY <2>1 DEF TypeOK
  <2>3. Demand(response, interferers[summed + 1]) \in Nat
    BY <1>0, <2>2, DemandBounds, Numbers
  <2>4. next' \in U64
    BY <1>0, <1>6, <2>3, SatAddBounds DEF AddInterferer
  <2>5. summed' \in 0 .. Len(interferers)
    BY <1>0, <2>1, <1>6 DEF AddInterferer
  <2> QED
    BY <1>6, <2>4, <2>5 DEF AddInterferer, TypeOK, Declared
<1>7. CASE Converge
  <2>1. DeadlineOf(Task) \in U64
    BY <1>7, DeclaredNumbers DEF Converge, Summed, TypeOK
  <2>2. /\ response \in U64
        /\ response <= DeadlineOf(Task) \/ DeadlineOf(Task) <= response
    BY <2>1, Numbers, Zenon DEF TypeOK
  <2>3. verdict' \in Verdict
    <3>1. CASE response <= DeadlineOf(Task)
      BY <1>7, <2>1, <2>2, <3>1, VerdictTypes, Zenon DEF Converge, Return
    <3>2. CASE ~(response <= DeadlineOf(Task))
      <4>1. verdict' = Fail(response, DeadlineOf(Task))
        BY <1>7, <3>2, Zenon DEF Converge, Return
      <4> QED BY <2>1, <2>2, <3>2, <4>1, VerdictTypes, Zenon
    <3> QED BY <3>1, <3>2
  <2> QED BY <1>7, <2>3 DEF Converge, Return, Summed, TypeOK
<1>8. CASE CrossDeadline
  <2>1. DeadlineOf(Task) \in U64
    BY <1>8, DeclaredNumbers DEF CrossDeadline, PastDeadline, Summed, TypeOK
  <2>2. /\ next \in U64 /\ next > DeadlineOf(Task) /\ verdict' = Fail(next, DeadlineOf(Task))
    BY <1>8 DEF CrossDeadline, PastDeadline, Return, TypeOK
  <2>3. DeadlineOf(Task) <= next
    <3> DEFINE d == DeadlineOf(Task)
    <3>1. d \in Nat /\ next > d
      BY <2>1, <2>2, Numbers
    <3> HIDE DEF d
    <3>2. d <= next
      BY <1>0, <3>1
    <3> QED BY <3>2 DEF d
  <2>4. verdict' \in Verdict
    BY <2>1, <2>2, <2>3, VerdictTypes
  <2> QED BY <1>8, <2>4 DEF CrossDeadline, PastDeadline, Return, Summed, TypeOK
<1>9. CASE Iterate
  <2>1. Base(Task) \in U64
    BY <1>9, DeclaredNumbers DEF Iterate, BeginTurn, LastTurn, Summed, TypeOK
  <2>2. Unknown("no convergence") \in Verdict
    BY VerdictTypes DEF Reason
  <2>3. /\ verdict' \in Verdict /\ next' \in U64 /\ response' \in U64
        /\ summed' \in 0 .. Len(interferers)
    <3>1. CASE next' = Base(Task) /\ summed' = 0 /\ UNCHANGED verdict
      <4>1. response' = next /\ verdict' = verdict /\ summed' = 0 /\ next' \in U64
        BY <1>9, <2>1, <3>1 DEF Iterate, BeginTurn, LastTurn
      <4>2. response' \in U64 /\ verdict' \in Verdict
        BY <4>1 DEF TypeOK
      <4>3. 0 \in 0 .. Len(interferers)
        BY <1>0
      <4> QED BY <4>1, <4>2, <4>3
    <3>2. CASE Return(Unknown("no convergence")) /\ UNCHANGED <<next, summed>>
      BY <1>9, <2>2, <3>2 DEF Iterate, BeginTurn, LastTurn, Return, TypeOK
    <3> QED BY <1>9, <3>1, <3>2 DEF Iterate, BeginTurn, LastTurn
  <2>4. /\ iteration' \in 0 .. MaxIterations
        /\ (pc' = "sum" /\ iteration' < MaxIterations) \/ pc' = "push"
    <3>1. /\ iteration' = iteration + 1
          /\ \/ iteration + 1 # MaxIterations /\ pc' = "sum"
             \/ iteration + 1 = MaxIterations /\ pc' = "push"
      BY <1>9 DEF Iterate, BeginTurn, LastTurn, Return, Summed
    <3>2. iteration < MaxIterations
      BY <1>9 DEF Iterate, Summed, TypeOK
    <3> QED BY <1>0, <3>1, <3>2
  <2> QED
    BY <1>9, <2>3, <2>4 DEF Iterate, BeginTurn, LastTurn, Summed, TypeOK, Declared
<1>10. CASE UNCHANGED vars
  BY <1>10 DEF vars, TypeOK, Declared
<1> QED
  BY <1>1, <1>2, <1>3, <1>4, <1>5, <1>6, <1>7, <1>8, <1>9, <1>10 DEF Next

\* In every state every loop index is in its range, every number fits its
\* width, and there is one verdict for each task already analysed.
THEOREM TypeCorrect == Spec => []TypeOK
<1>1. Init => TypeOK
  <2> SUFFICES ASSUME Init PROVE TypeOK
    OBVIOUS
  <2>0. /\ tasks \in TaskSets /\ pc = "task" /\ cursor = 1 /\ other = 1
        /\ interferers = <<>> /\ verdicts = <<>>
        /\ iteration = 0 /\ response = 0 /\ summed = 0 /\ next = 0 /\ utilisation = 0
    BY DEF Init
  <2>1. tasks \in Seq(TaskTiming) /\ Len(tasks) \in Nat
    BY <2>0, TaskSetAssumption
  <2>2. verdict \in Verdict
    BY VerdictTypes DEF Init, Reason
  <2>3. 0 \in U64 /\ 0 \in 0 .. MaxIterations
    BY WidthAssumption, BudgetAssumption DEF U64
  <2>4. interferers \in Seq(Interferer) /\ Len(interferers) = 0
    BY <2>0
  <2>5. verdicts \in Seq(Verdict) /\ Len(verdicts) = 0
    BY <2>0
  <2> QED
    BY <2>0, <2>1, <2>2, <2>3, <2>4, <2>5 DEF TypeOK
<1> QED
  BY <1>1, TypeStep, PTL DEF Spec

-----------------------------------------------------------------------------
(* What a PASS and a FAIL say of their task. *)

AnswerOf(v, t) ==
  /\ v.kind = "pass" => Declared(t) /\ v.response + v.slack = DeadlineOf(t)
  /\ v.kind = "fail" => /\ Declared(t) /\ v.overrun > 0
                        /\ v.response = DeadlineOf(t) + v.overrun

AnswerInv ==
  /\ \A i \in DOMAIN verdicts : AnswerOf(verdicts[i], tasks[i])
  /\ pc = "push" => AnswerOf(verdict, Task)
  /\ pc = "done" => Len(verdicts) = Len(tasks)

LEMMA UnknownAnswers == \A reason, t : AnswerOf(Unknown(reason), t)
BY DEF AnswerOf, Unknown

LEMMA NumberAnswers ==
  ASSUME NEW t, Declared(t), NEW r \in Nat, DeadlineOf(t) \in Nat
  PROVE  /\ r <= DeadlineOf(t) => AnswerOf(Pass(r, DeadlineOf(t)), t)
         /\ r > DeadlineOf(t) => AnswerOf(Fail(r, DeadlineOf(t)), t)
<1>1. PICK d \in Nat : d = DeadlineOf(t)
  OBVIOUS
<1>2. r + (d - r) = d /\ r = d + (r - d) /\ (r > d => r - d > 0)
  BY <1>1
<1> QED
  BY <1>1, <1>2 DEF AnswerOf, Pass, Fail

LEMMA AnswerStep == TypeOK /\ AnswerInv /\ [Next]_vars => AnswerInv'
<1> SUFFICES ASSUME TypeOK, AnswerInv, [Next]_vars PROVE AnswerInv'
  OBVIOUS
<1> DEFINE Kept == UNCHANGED <<tasks, cursor, verdicts>>
<1>1. ASSUME Kept, pc' \notin {"push", "done"} PROVE AnswerInv'
  BY <1>1 DEF AnswerInv
<1>2. ASSUME Kept, pc' = "push", AnswerOf(verdict', Task) PROVE AnswerInv'
  BY <1>2 DEF AnswerInv, Task
<1>3. CASE BeginTask
  <2>1. Kept /\ (pc' = "gather" \/ (pc' = "push" /\ verdict' = Unknown(MissingReason(Task))))
    BY <1>3 DEF BeginTask, Return
  <2> QED
    BY <1>1, <1>2, <2>1, UnknownAnswers
<1>4. CASE PushVerdict
  <2>1. /\ pc = "push" /\ pc' = "task" /\ tasks' = tasks
        /\ verdicts' = Append(verdicts, verdict)
    BY <1>4 DEF PushVerdict
  <2>2. verdicts \in Seq(Verdict) /\ Len(verdicts) + 1 = cursor /\ Len(verdicts) \in Nat
    BY DEF TypeOK
  <2>3. ASSUME NEW i \in DOMAIN verdicts' PROVE AnswerOf(verdicts'[i], tasks[i])
    <3>1. CASE i \in DOMAIN verdicts
      BY <2>1, <2>2, <3>1 DEF AnswerInv
    <3>2. CASE i \notin DOMAIN verdicts
      <4>1. i = cursor /\ verdicts'[i] = verdict
        BY <2>1, <2>2, <3>2
      <4> QED
        BY <2>1, <4>1 DEF AnswerInv, Task
    <3> QED
      BY <3>1, <3>2
  <2> QED
    BY <2>1, <2>3 DEF AnswerInv
<1>5. CASE Finish
  BY <1>5 DEF Finish, TypeOK, AnswerInv
<1>6. CASE GatherOther
  <2>1. Kept /\ pc = "gather"
    BY <1>6 DEF GatherOther
  <2>2. \/ pc' = pc
        \/ pc' = "push" /\ verdict' \in {Unknown("zero period above"), Unknown("undeclared above")}
    BY <1>6 DEF GatherOther, Return
  <2> QED
    BY <1>1, <1>2, <2>1, <2>2, UnknownAnswers
<1>7. CASE StartRecurrence \/ AddInterferer
  BY <1>1, <1>7 DEF StartRecurrence, AddInterferer
<1>8. CASE Converge
  <2>1. Kept /\ pc = "sum" /\ pc' = "push"
    BY <1>8 DEF Converge, Summed, Return
  <2>2. Declared(Task) /\ cursor <= Len(tasks) /\ response \in Nat
    BY <2>1, Numbers DEF TypeOK
  <2>3. DeadlineOf(Task) \in Nat
    BY <2>2, DeclaredNumbers, Numbers
  <2>4. verdict' = IF response <= DeadlineOf(Task) THEN Pass(response, DeadlineOf(Task))
                   ELSE Fail(response, DeadlineOf(Task))
    BY <1>8, Zenon DEF Converge, Return
  <2>5. response <= DeadlineOf(Task) \/ response > DeadlineOf(Task)
    BY <2>2, <2>3
  <2>6. AnswerOf(verdict', Task)
    <3>1. CASE response <= DeadlineOf(Task)
      BY <2>2, <2>3, <2>4, <3>1, NumberAnswers
    <3>2. CASE ~(response <= DeadlineOf(Task))
      BY <2>2, <2>3, <2>4, <2>5, <3>2, NumberAnswers
    <3> QED
      BY <3>1, <3>2
  <2> QED
    BY <1>2, <2>1, <2>6
<1>9. CASE CrossDeadline
  <2>1. /\ Kept /\ pc = "sum" /\ pc' = "push" /\ next > DeadlineOf(Task)
        /\ verdict' = Fail(next, DeadlineOf(Task))
    BY <1>9 DEF CrossDeadline, Summed, PastDeadline, Return
  <2>2. Declared(Task) /\ cursor <= Len(tasks) /\ next \in Nat
    BY <2>1, Numbers DEF TypeOK
  <2>3. DeadlineOf(Task) \in Nat
    BY <2>2, DeclaredNumbers, Numbers
  <2>4. AnswerOf(verdict', Task)
    BY <2>1, <2>2, <2>3, NumberAnswers
  <2> QED
    BY <1>2, <2>1, <2>4
<1>10. CASE Iterate
  <2>1. Kept /\ pc = "sum"
    BY <1>10 DEF Iterate, Summed
  <2>2. \/ pc' = pc
        \/ pc' = "push" /\ verdict' = Unknown("no convergence")
    BY <1>10 DEF Iterate, Return
  <2> QED
    BY <1>1, <1>2, <2>1, <2>2, UnknownAnswers
<1>11. CASE UNCHANGED vars
  BY <1>11 DEF vars, AnswerInv, Task
<1> QED
  BY <1>3, <1>4, <1>5, <1>6, <1>7, <1>8, <1>9, <1>10, <1>11 DEF Next

\* A PASS or a FAIL is given only to a task that declares its period and WCET;
\* the response and slack of a PASS make up that task's own deadline, and the
\* response of a FAIL is past it by the overrun.
THEOREM AnswersDeclared == Spec => []AnswerInv
<1>1. Init => AnswerInv
  <2>1. DOMAIN <<>> = {}
    OBVIOUS
  <2> QED
    BY <2>1 DEF Init, AnswerInv
<1> QED
  BY <1>1, AnswerStep, TypeCorrect, PTL DEF Spec

-----------------------------------------------------------------------------
(* The iteration from below: whatever the exact recurrence's fixed point   *)
(* R and its partial sums S, the code's iterate and partial sum never pass *)
(* them.  S is any function that certifies R, so nothing is assumed about  *)
(* how the sums are computed.  Inductively, S[summed] is a number too.     *)

Below(S, R) ==
  (pc = "sum" /\ Certifies(S, R)) =>
     response <= R /\ S[summed] \in Nat /\ next <= S[summed]

BelowInv == \A R \in Nat : \A S : Below(S, R)

\* The base of every turn is below the first partial sum.
LEMMA BaseBelow ==
  ASSUME TypeOK, pc \in {"gather", "sum"}, NEW R, NEW S, Certifies(S, R)
  PROVE  Base(Task) \in Nat /\ S[0] \in Nat /\ Base(Task) <= S[0]
<1>1. /\ Task.wcet \in U64 /\ Task.blocking \in U64 /\ Base(Task) \in U64
      /\ Base(Task) <= Task.wcet + Task.blocking
  BY DeclaredNumbers DEF TypeOK
<1>2. S[0] = Task.wcet + Task.blocking
  BY DEF Certifies
<1>3. Task.wcet \in Nat /\ Task.blocking \in Nat /\ Base(Task) \in Nat
  BY <1>1, Numbers
<1> QED
  BY <1>1, <1>2, <1>3

\* No intermediate value of the recurrence, saturated or not, exceeds the
\* fixed point that the exact recurrence has.
THEOREM NeverAboveAFixedPoint == Spec => []BelowInv
<1>1. Init => BelowInv
  BY DEF Init, BelowInv, Below
<1>2. TypeOK /\ BelowInv /\ [Next]_vars => BelowInv'
  <2> SUFFICES ASSUME TypeOK, BelowInv, [Next]_vars, NEW R \in Nat, NEW S,
                      pc' = "sum", Certifies(S, R)'
               PROVE  response' <= R /\ S[summed'] \in Nat /\ next' <= S[summed']
    BY DEF BelowInv, Below
  <2>1. CASE BeginTask
    BY <2>1 DEF BeginTask, FirstOther, Return
  <2>2. CASE PushVerdict \/ Finish
    BY <2>2 DEF PushVerdict, Finish
  <2>3. CASE GatherOther
    BY <2>3 DEF GatherOther, Return
  <2>4. CASE StartRecurrence
    <3>1. /\ UNCHANGED <<tasks, cursor, interferers>> /\ pc = "gather"
          /\ response' = Base(Task) /\ next' = Base(Task) /\ summed' = 0
      BY <2>4 DEF StartRecurrence, BeginTurn
    <3>2. Certifies(S, R)
      BY <3>1 DEF Certifies, Task
    <3>3. Base(Task) \in Nat /\ S[0] \in Nat /\ Base(Task) <= S[0]
      BY <3>1, <3>2, BaseBelow
    <3>4. S[0] <= R
      BY <3>2 DEF Certifies
    <3> QED
      BY <3>1, <3>3, <3>4
  <2>5. CASE AddInterferer
    <3> DEFINE k == summed + 1
               i == interferers[k]
               exact == DivCeil(R, i.period) * i.wcet
    <3>1. /\ UNCHANGED <<tasks, cursor, interferers, response>> /\ pc = "sum"
          /\ summed < Len(interferers) /\ summed' = k
          /\ next' = SatAdd(next, Demand(response, i))
      BY <2>5 DEF AddInterferer
    <3>2. Certifies(S, R)
      BY <3>1 DEF Certifies, Task
    <3>3. response <= R /\ S[summed] \in Nat /\ next <= S[summed]
      BY <3>1, <3>2 DEF BelowInv, Below
    <3>4. /\ interferers \in Seq(Interferer) /\ summed \in 0 .. Len(interferers)
          /\ response \in Nat /\ next \in Nat
      BY Numbers DEF TypeOK
    <3>5. k \in 1 .. Len(interferers) /\ k - 1 = summed /\ i \in Interferer
      BY <3>1, <3>4
    <3>6. S[k] = S[summed] + exact
      BY <3>2, <3>5 DEF Certifies
    <3>7. Demand(response, i) \in Nat /\ exact \in Nat /\ Demand(response, i) <= exact
      <4>1. /\ Demand(response, i) \in Nat /\ Demand(R, i) \in Nat /\ exact \in Nat
            /\ Demand(R, i) <= exact
        BY <3>4, <3>5, DemandBounds, Numbers
      <4>2. Demand(response, i) <= Demand(R, i)
        BY <3>3, <3>4, <3>5, DemandMonotone
      <4> QED BY <4>1, <4>2
    <3>8. next' <= next + Demand(response, i) /\ next' \in Nat
      BY <3>1, <3>4, <3>7, SatAddBounds, Numbers
    <3> HIDE DEF k, i, exact
    <3> QED
      BY <3>1, <3>3, <3>4, <3>6, <3>7, <3>8
  <2>6. CASE Converge \/ CrossDeadline
    BY <2>6 DEF Converge, CrossDeadline, Return
  <2>7. CASE Iterate
    <3>1. /\ UNCHANGED <<tasks, cursor, interferers>> /\ pc = "sum"
          /\ summed = Len(interferers) /\ response' = next
          /\ next' = Base(Task) /\ summed' = 0
      BY <2>7 DEF Iterate, BeginTurn, LastTurn, Return, Summed
    <3>2. Certifies(S, R)
      BY <3>1 DEF Certifies, Task
    <3>3. next <= S[Len(interferers)] /\ S[Len(interferers)] = R
      BY <3>1, <3>2 DEF BelowInv, Below, Certifies
    <3>4. Base(Task) \in Nat /\ S[0] \in Nat /\ Base(Task) <= S[0]
      BY <3>1, <3>2, BaseBelow
    <3> QED
      BY <3>1, <3>3, <3>4
  <2>8. CASE UNCHANGED vars
    <3>1. UNCHANGED <<pc, tasks, cursor, interferers, response, summed, next>>
      BY <2>8 DEF vars
    <3>2. Certifies(S, R) /\ pc = "sum"
      BY <3>1 DEF Certifies, Task
    <3> QED
      BY <3>1, <3>2 DEF BelowInv, Below
  <2> QED
    BY <2>1, <2>2, <2>3, <2>4, <2>5, <2>6, <2>7, <2>8 DEF Next
<1> QED
  BY <1>1, <1>2, TypeCorrect, PTL DEF Spec

\* The property the runs check, on the partial sums TLC can evaluate.
THEOREM BelowFixedPoints == Spec => []IterateBelowEveryFixedPoint
<1>1. BelowInv => IterateBelowEveryFixedPoint
  <2> SUFFICES ASSUME BelowInv, NEW R \in U64
               PROVE  BelowFixedPoint(PartialSums(R), R)
    BY DEF IterateBelowEveryFixedPoint
  <2>1. Below(PartialSums(R), R)
    BY Numbers DEF BelowInv
  <2> QED
    BY <2>1 DEF Below, BelowFixedPoint
<1> QED
  BY <1>1, NeverAboveAFixedPoint, PTL

-----------------------------------------------------------------------------
(* The iteration rises.  One turn's sums are compared with the sums of the *)
(* turn before it, term by term: a longer window asks for no less of any   *)
(* interferer, so the iterate a turn ends with is no less than the one it  *)
(* began with, and a turn that does not end the recurrence raises it.      *)

\* N holds the partial sums of a turn at window r over the first k interferers.
Sums(N, r, k) ==
  /\ N[0] = Base(Task)
  /\ \A j \in 0 .. k : N[j] \in U64
  /\ \A j \in 1 .. k : N[j] = SatAdd(N[j - 1], Demand(r, interferers[j]))

\* The turn before this one, at a window q no longer, ended at the window of
\* this turn and was nowhere above it.
Preceded ==
  \E q \in Nat : \E P : /\ q <= response /\ Sums(P, q, Len(interferers))
                        /\ P[Len(interferers)] = response /\ P[summed] <= next

RisesInv ==
  pc = "sum" => /\ \E N : Sums(N, response, summed) /\ N[summed] = next
                /\ Base(Task) <= next
                /\ response = Base(Task) \/ Preceded

\* A turn that has summed all of its interferers is not below its window.
LEMMA TurnNotBelow ==
  ASSUME TypeOK, RisesInv, Summed
  PROVE  response <= next
<1>1. /\ pc = "sum" /\ summed = Len(interferers)
  BY DEF Summed
<1>2. CASE response = Base(Task)
  BY <1>1, <1>2 DEF RisesInv
<1>3. CASE Preceded
  BY <1>1, <1>3 DEF Preceded
<1> QED
  BY <1>1, <1>2, <1>3 DEF RisesInv

\* The sums of a turn, one interferer further.
LEMMA OneMore ==
  ASSUME TypeOK, pc = "sum", summed < Len(interferers), NEW N, Sums(N, response, summed),
         N[summed] = next
  PROVE  LET k == summed + 1
             added == SatAdd(next, Demand(response, interferers[k]))
         IN  \E M : Sums(M, response, k) /\ M[k] = added
<1> DEFINE k == summed + 1
           added == SatAdd(next, Demand(response, interferers[k]))
           M == [j \in 0 .. k |-> IF j = k THEN added ELSE N[j]]
<1>1. /\ interferers \in Seq(Interferer) /\ summed \in Nat /\ response \in Nat /\ next \in Nat
      /\ Len(interferers) \in Nat
  BY Numbers DEF TypeOK
<1>2. k \in 1 .. Len(interferers) /\ k \in Nat /\ interferers[k] \in Interferer
  BY <1>1
<1>3. added \in U64
  BY <1>1, <1>2, DemandBounds, SatAddBounds, Numbers
<1>4. M[k] = added /\ \A j \in 0 .. summed : M[j] = N[j]
  BY <1>1
<1>5. M[0] = Base(Task)
  BY <1>1, <1>4 DEF Sums
<1>6. \A j \in 0 .. k : M[j] \in U64
  <2>1. \A j \in 0 .. k : j = k \/ j \in 0 .. summed
    BY <1>1
  <2>2. \A j \in 0 .. summed : N[j] \in U64
    BY DEF Sums
  <2> HIDE DEF M, added, k
  <2> QED BY <1>3, <1>4, <2>1, <2>2
<1>7. \A j \in 1 .. k : M[j] = SatAdd(M[j - 1], Demand(response, interferers[j]))
  <2> SUFFICES ASSUME NEW j \in 1 .. k
               PROVE  M[j] = SatAdd(M[j - 1], Demand(response, interferers[j]))
    OBVIOUS
  <2>1. j - 1 \in 0 .. summed /\ M[j - 1] = N[j - 1]
    BY <1>1, <1>4
  <2>2. CASE j = k
    <3>1. j - 1 = summed
      BY <1>1, <2>2
    <3> QED BY <1>4, <2>1, <2>2, <3>1
  <2>3. CASE j # k
    <3>1. j \in 1 .. summed
      BY <1>1, <2>3
    <3>2. M[j] = N[j]
      BY <1>1, <1>4, <3>1
    <3>3. N[j] = SatAdd(N[j - 1], Demand(response, interferers[j]))
      BY <3>1 DEF Sums
    <3> HIDE DEF M
    <3> QED BY <2>1, <3>2, <3>3
  <2> QED BY <2>2, <2>3
<1> HIDE DEF M
<1>8. Sums(M, response, k) /\ M[k] = added
  BY <1>4, <1>5, <1>6, <1>7 DEF Sums
<1> QED
  BY <1>8

\* Every turn is accounted for by the one before it.
THEOREM TurnsAreOrdered == Spec => []RisesInv
<1>1. Init => RisesInv
  BY DEF Init, RisesInv
<1>2. TypeOK /\ TypeOK' /\ RisesInv /\ [Next]_vars => RisesInv'
  <2> SUFFICES ASSUME TypeOK, TypeOK', RisesInv, [Next]_vars, pc' = "sum" PROVE RisesInv'
    BY DEF RisesInv
  <2>1. CASE BeginTask
    BY <2>1 DEF BeginTask, FirstOther, Return
  <2>2. CASE PushVerdict \/ Finish
    BY <2>2 DEF PushVerdict, Finish
  <2>3. CASE GatherOther
    BY <2>3 DEF GatherOther, Return
  <2>4. CASE Converge \/ CrossDeadline
    BY <2>4 DEF Converge, CrossDeadline, Return
  <2>5. CASE StartRecurrence
    <3>1. /\ UNCHANGED <<tasks, cursor, interferers>> /\ pc = "gather"
          /\ response' = Base(Task) /\ next' = Base(Task) /\ summed' = 0
      BY <2>5 DEF StartRecurrence, BeginTurn
    <3>2. Base(Task) \in U64 /\ Base(Task) \in Nat /\ Base(Task)' = Base(Task)
      BY <3>1, DeclaredNumbers, Numbers DEF TypeOK, Task
    <3>3. PICK N : N[0] = Base(Task)
      <4>1. [j \in {0} |-> Base(Task)][0] = Base(Task)
        OBVIOUS
      <4> QED BY <4>1
    <3>5. Sums(N, response, summed)' /\ N[summed'] = next'
      <4>1. 0 .. 0 = {0} /\ 1 .. 0 = {}
        OBVIOUS
      <4> QED BY <3>1, <3>2, <3>3, <4>1 DEF Sums
    <3>4. Base(Task)' <= next' /\ response' = Base(Task)'
      BY <3>1, <3>2
    <3> QED
      BY <3>4, <3>5 DEF RisesInv
  <2>6. CASE AddInterferer
    <3> DEFINE k == summed + 1
               i == interferers[k]
    <3>1. /\ UNCHANGED <<tasks, cursor, interferers, response>> /\ pc = "sum"
          /\ summed < Len(interferers) /\ summed' = k
          /\ next' = SatAdd(next, Demand(response, i))
      BY <2>6 DEF AddInterferer
    <3>2. /\ interferers \in Seq(Interferer) /\ summed \in 0 .. Len(interferers)
          /\ response \in Nat /\ next \in Nat /\ next <= MaxU
      BY Numbers DEF TypeOK
    <3>3. k \in 1 .. Len(interferers) /\ k - 1 = summed /\ i \in Interferer
      BY <3>1, <3>2
    <3>4. PICK N : Sums(N, response, summed) /\ N[summed] = next
      BY <3>1 DEF RisesInv
    <3>5. PICK M : Sums(M, response, k) /\ M[k] = next'
      BY <3>1, <3>4, OneMore
    <3>6. Sums(M, response, summed)' /\ M[summed'] = next'
      BY <3>1, <3>5 DEF Sums, Task
    <3>7. Demand(response, i) \in Nat
      BY <3>2, <3>3, DemandBounds, Numbers
    <3>8. Base(Task)' <= next'
      <4>1. Base(Task) <= next /\ Base(Task)' = Base(Task) /\ Base(Task) \in Nat
        BY <3>1, DeclaredNumbers, Numbers DEF RisesInv, Task, TypeOK
      <4>2. next <= next' /\ next' \in Nat
        BY <3>1, <3>2, <3>7, SatAddBounds, Numbers
      <4> QED BY <3>2, <4>1, <4>2
    <3>9. CASE response = Base(Task)
      <4>1. response' = Base(Task)'
        BY <3>1, <3>9 DEF Task
      <4> QED BY <3>6, <3>8, <4>1 DEF RisesInv
    <3>10. CASE Preceded
      <4>1. PICK q \in Nat : \E P : /\ q <= response /\ Sums(P, q, Len(interferers))
                                    /\ P[Len(interferers)] = response /\ P[summed] <= next
        BY <3>10 DEF Preceded
      <4>2. PICK P : /\ q <= response /\ Sums(P, q, Len(interferers))
                     /\ P[Len(interferers)] = response /\ P[summed] <= next
        BY <4>1
      <4>3. P[summed] \in Nat /\ P[k] = SatAdd(P[summed], Demand(q, i))
        BY <3>2, <3>3, <4>2, Numbers DEF Sums
      <4>4. Demand(q, i) \in Nat /\ Demand(q, i) <= Demand(response, i)
        BY <3>2, <3>3, <4>2, DemandBounds, DemandMonotone, Numbers
      <4>5. P[k] <= next'
        BY <3>1, <3>2, <3>7, <4>2, <4>3, <4>4, SatAddMonotone
      <4>6. Sums(P, q, Len(interferers))'
        BY <3>1, <4>2 DEF Sums, Task
      <4>7. Preceded'
        BY <3>1, <4>2, <4>5, <4>6 DEF Preceded
      <4> QED BY <3>6, <3>8, <4>7 DEF RisesInv
    <3> QED
      BY <3>1, <3>9, <3>10 DEF RisesInv
  <2>7. CASE Iterate
    <3>1. /\ UNCHANGED <<tasks, cursor, interferers>> /\ pc = "sum" /\ Summed
          /\ summed = Len(interferers) /\ response' = next
          /\ next' = Base(Task) /\ summed' = 0
      BY <2>7 DEF Iterate, BeginTurn, LastTurn, Return, Summed
    <3>2. PICK N : Sums(N, response, summed) /\ N[summed] = next
      BY <3>1 DEF RisesInv
    <3>3. response \in Nat /\ response <= next
      BY <3>1, TurnNotBelow, Numbers DEF TypeOK
    <3>4. Base(Task) \in Nat /\ Base(Task)' = Base(Task)
      BY <3>1, DeclaredNumbers, Numbers DEF TypeOK, Task
    <3>5. PICK q \in Nat : q = response
      BY <3>3
    <3>6. Sums(N, q, Len(interferers)) /\ N[0] = Base(Task)
      BY <3>1, <3>2, <3>5 DEF Sums
    <3>7. /\ q <= response' /\ N[Len(interferers')] = response' /\ N[summed'] = next'
          /\ N[summed'] <= next'
      BY <3>1, <3>2, <3>3, <3>4, <3>5, <3>6
    <3>8. Sums(N, q, Len(interferers))'
      BY <3>1, <3>4, <3>6 DEF Sums
    <3>9. Preceded'
      BY <3>7, <3>8 DEF Preceded
    <3>10. Sums(N, response, summed)'
      <4>1. 0 .. 0 = {0} /\ 1 .. 0 = {} /\ N[0] \in U64
        BY <3>1, <3>4, <3>6, DeclaredNumbers DEF TypeOK
      <4> QED BY <3>1, <3>4, <3>6, <4>1 DEF Sums
    <3>11. Base(Task)' <= next'
      BY <3>1, <3>4
    <3> QED
      BY <3>7, <3>9, <3>10, <3>11 DEF RisesInv
  <2>8. CASE UNCHANGED vars
    <3>1. UNCHANGED <<pc, tasks, cursor, interferers, response, summed, next>>
      BY <2>8 DEF vars
    <3> QED
      BY <3>1 DEF RisesInv, Preceded, Sums, Task
  <2> QED
    BY <2>1, <2>2, <2>3, <2>4, <2>5, <2>6, <2>7, <2>8 DEF Next
<1> QED
  BY <1>1, <1>2, TypeCorrect, PTL DEF Spec

\* Every turn of the recurrence that is not its last raises the iterate.
THEOREM Rises == Spec => RecurrenceRises
<1>1. TypeOK /\ RisesInv /\ [Next]_vars
        => [(pc = "sum" /\ iteration' > iteration) => response' > response]_vars
  <2> SUFFICES ASSUME TypeOK, RisesInv, [Next]_vars, pc = "sum", iteration' > iteration
               PROVE  response' > response
    OBVIOUS
  <2>1. iteration \in Nat /\ response \in Nat /\ next \in Nat
    BY Numbers, BudgetAssumption DEF TypeOK
  <2>2. CASE Iterate
    <3>1. Summed /\ next # response /\ response' = next
      BY <2>2 DEF Iterate, BeginTurn, LastTurn
    <3>2. response <= next
      BY <3>1, TurnNotBelow
    <3> QED BY <2>1, <3>1, <3>2
  <2>3. CASE ~Iterate
    <3>1. iteration' = iteration
      BY <2>3 DEF Next, BeginTask, PushVerdict, Finish, GatherOther, StartRecurrence, BeginTurn,
                  AddInterferer, Converge, CrossDeadline, vars, loop
    <3> QED BY <2>1, <3>1
  <2> QED BY <2>2, <2>3
<1> QED
  BY <1>1, TypeCorrect, TurnsAreOrdered, PTL DEF Spec, RecurrenceRises

-----------------------------------------------------------------------------
(* What the recurrence converges to.  Below MaxU nothing has saturated, so *)
(* the sum of a turn is the exact sum, term by term.                       *)

ExactSums(S) ==
  /\ S[0] = Task.wcet + Task.blocking /\ S[0] <= next
  /\ \A k \in 1 .. summed :
       S[k] = S[k - 1] + DivCeil(response, interferers[k].period) * interferers[k].wcet
  /\ S[summed] = next

ExactInv == (pc = "sum" /\ next < MaxU) => \E S : ExactSums(S)

\* A turn starts from the exact demand of the task itself.
LEMMA BaseExact ==
  ASSUME TypeOK, pc \in {"gather", "sum"}, Base(Task) < MaxU
  PROVE  Base(Task) = Task.wcet + Task.blocking /\ Base(Task) \in Nat
<1>1. Task.wcet \in U64 /\ Task.blocking \in U64
  BY DeclaredNumbers DEF TypeOK
<1>2. Task.wcet \in Nat /\ Task.blocking \in Nat
  BY <1>1, Numbers
<1> QED
  BY <1>2, WidthAssumption DEF Base, SatAdd

LEMMA ExactStep == TypeOK /\ ExactInv /\ [Next]_vars => ExactInv'
<1> SUFFICES ASSUME TypeOK, ExactInv, [Next]_vars, pc' = "sum", next' < MaxU
             PROVE  \E S : ExactSums(S)'
  BY DEF ExactInv
<1>1. ASSUME UNCHANGED <<tasks, cursor>>, pc \in {"gather", "sum"},
             next' = Base(Task), summed' = 0
      PROVE  \E S : ExactSums(S)'
  <2>1. next' = Task.wcet + Task.blocking /\ next' \in Nat
    BY <1>1, BaseExact
  <2>2. PICK S : S[0] = next'
    <3>1. [k \in {0} |-> next'][0] = next'
      OBVIOUS
    <3> QED
      BY <3>1
  <2>3. ExactSums(S)'
    <3>1. Task' = Task
      BY <1>1 DEF Task
    <3>2. 1 .. summed' = {}
      BY <1>1
    <3> QED
      BY <1>1, <2>1, <2>2, <3>1, <3>2 DEF ExactSums
  <2> QED
    BY <2>3
<1>2. CASE StartRecurrence
  BY <1>1, <1>2 DEF StartRecurrence, BeginTurn
<1>3. CASE Iterate
  BY <1>1, <1>3 DEF Iterate, BeginTurn, Return, Summed
<1>4. CASE AddInterferer
  <2> DEFINE k == summed + 1
             i == interferers[k]
             exact == DivCeil(response, i.period) * i.wcet
  <2>1. /\ UNCHANGED <<tasks, cursor, interferers, response>> /\ pc = "sum"
        /\ summed < Len(interferers) /\ summed' = k
        /\ next' = SatAdd(next, Demand(response, i))
    BY <1>4 DEF AddInterferer
  <2>2. /\ interferers \in Seq(Interferer) /\ summed \in 0 .. Len(interferers)
        /\ response \in Nat /\ next \in Nat
    BY Numbers DEF TypeOK
  <2>3. k \in 1 .. Len(interferers) /\ k - 1 = summed /\ summed \in Nat /\ i \in Interferer
    BY <2>1, <2>2
  <2>4. /\ exact \in Nat /\ Demand(response, i) \in Nat
        /\ Demand(response, i) < MaxU => Demand(response, i) = exact
    BY <2>2, <2>3, DemandBounds, Numbers
  <2>5. next' = next + exact /\ next < MaxU
    <3> HIDE DEF k, i, exact
    <3> QED
      BY <2>1, <2>2, <2>4, WidthAssumption DEF SatAdd
  <2>6. PICK S : ExactSums(S)
    BY <2>1, <2>5 DEF ExactInv
  <2>7. PICK T : T[k] = next' /\ \A j \in 0 .. summed : T[j] = S[j]
    <3> DEFINE extended == [j \in 0 .. k |-> IF j = k THEN next' ELSE S[j]]
    <3>1. extended[k] = next' /\ \A j \in 0 .. summed : extended[j] = S[j]
      BY <2>3
    <3> QED
      BY <3>1
  <2>8. Task' = Task
    BY <2>1 DEF Task
  <2>9. T[0] = Task.wcet + Task.blocking /\ T[0] <= next'
    <3>1. T[0] = S[0]
      BY <2>3, <2>7
    <3>2. S[0] = Task.wcet + Task.blocking /\ S[0] <= next
      BY <2>6 DEF ExactSums
    <3>3. Task.wcet \in Nat /\ Task.blocking \in Nat
      BY <2>1, DeclaredNumbers, Numbers DEF TypeOK
    <3> HIDE DEF k, i, exact
    <3> QED
      BY <2>2, <2>4, <2>5, <3>1, <3>2, <3>3
  <2>10. T[k] = T[k - 1] + exact
    BY <2>3, <2>5, <2>6, <2>7 DEF ExactSums
  <2>11. ASSUME NEW j \in 1 .. k
         PROVE  T[j] = T[j - 1] + DivCeil(response, interferers[j].period) * interferers[j].wcet
    <3>1. CASE j = k
      BY <2>10, <3>1
    <3>2. CASE j # k
      <4>1. j \in 1 .. summed /\ j - 1 \in 0 .. summed /\ j \in 0 .. summed
        BY <2>3, <3>2
      <4> HIDE DEF k
      <4> QED
        BY <2>6, <2>7, <4>1 DEF ExactSums
    <3> QED
      BY <3>1, <3>2
  <2> HIDE DEF k, i, exact
  <2>12. ExactSums(T)'
    BY <2>1, <2>7, <2>8, <2>9, <2>11 DEF ExactSums
  <2> QED
    BY <2>12
<1>5. CASE BeginTask \/ PushVerdict \/ Finish \/ GatherOther \/ Converge \/ CrossDeadline
  BY <1>5 DEF BeginTask, PushVerdict, Finish, GatherOther, Converge, CrossDeadline, Return
<1>6. CASE UNCHANGED vars
  <2>1. UNCHANGED <<pc, tasks, cursor, interferers, response, summed, next>>
    BY <1>6 DEF vars
  <2>2. PICK S : ExactSums(S)
    BY <2>1 DEF ExactInv
  <2>3. ExactSums(S)'
    BY <2>1, <2>2 DEF ExactSums, Task
  <2> QED
    BY <2>3
<1> QED
  BY <1>2, <1>3, <1>4, <1>5, <1>6 DEF Next

\* Where the recurrence converges short of saturation, the response it reports
\* is a fixed point of the exact recurrence, and the least one.
LeastFixedPoint ==
  (Summed /\ next = response /\ response < MaxU) =>
    /\ \E S : Certifies(S, response)
    /\ \A R \in Nat : \A S : Certifies(S, R) => response <= R

\* The verdict of a recurrence that converges is about the least fixed point
\* of R = C + B + sum of ceil(R / T_j) * C_j (response_time.rs line 8).
THEOREM ConvergesToLeast == Spec => []LeastFixedPoint
<1>1. Init => ExactInv
  BY DEF Init, ExactInv
<1>2. ExactInv /\ BelowInv => LeastFixedPoint
  <2> SUFFICES ASSUME ExactInv, BelowInv, Summed, next = response, response < MaxU
               PROVE  /\ \E S : Certifies(S, response)
                      /\ \A R \in Nat : \A S : Certifies(S, R) => response <= R
    BY DEF LeastFixedPoint
  <2>1. PICK S : ExactSums(S)
    BY DEF ExactInv, Summed
  <2>2. Certifies(S, response)
    BY <2>1 DEF ExactSums, Certifies, Summed
  <2>3. \A R \in Nat : \A N : Certifies(N, R) => response <= R
    BY DEF BelowInv, Below, Summed
  <2> QED
    BY <2>2, <2>3
<1> QED
  BY <1>1, <1>2, ExactStep, TypeCorrect, NeverAboveAFixedPoint, PTL DEF Spec
-----------------------------------------------------------------------------
(* The verdicts are those of the exact test (SchedulabilityTest.tla).  The *)
(* analysis sums over the sequence it gathered, the test over the set of   *)
(* the tasks above.                                                        *)

\* The test's names for what the analysis has under its own.
LEMMA SameSum ==
  ASSUME NEW f, NEW S
  PROVE  Test!SumFunctionOnSet(f, S) = SumFunctionOnSet(f, S)
BY DEF Test!SumFunctionOnSet, SumFunctionOnSet, Test!FoldFunctionOnSet, FoldFunctionOnSet,
       Test!MapThenFoldSet, MapThenFoldSet

LEMMA SameReleases ==
  ASSUME NEW p \in Nat \ {0}, NEW n \in Nat
  PROVE  Test!Releases(p, n) = DivCeil(n, p)
<1>1. ASSUME NEW S PROVE Test!Cardinality(S) = Cardinality(S)
  BY DEF Test!Cardinality, Cardinality
<1>2. Test!Releases(p, n) = Cardinality({k \in 0 .. (n - 1) : k % p = 0})
  BY <1>1 DEF Test!Releases
<1> QED
  BY <1>2, CountMultiples

\* The tasks above c, and their exact demand in a window of r ticks, each.
Above(ts, c)     == {j \in 1 .. Len(ts) : Preempts(ts[j], ts[c])}
Interference(ts, c, r)   == [j \in Above(ts, c) |-> DivCeil(r, ts[j].period) * ts[j].wcet]
Exact(ts, c, r)  == ts[c].wcet + ts[c].blocking + SumFunctionOnSet(Interference(ts, c, r), Above(ts, c))
Bounded(t)       == Declared(t) /\ t.period > 0
Decidable(ts, c) == Declared(ts[c]) /\ \A j \in Above(ts, c) : Bounded(ts[j])

LEMMA SameNames ==
  ASSUME tasks \in Seq(TaskTiming)
  PROVE  \A c \in 1 .. Len(tasks) :
           /\ Test!Above(c) = Above(tasks, c)
           /\ Test!DeadlineOf(tasks[c]) = DeadlineOf(tasks[c])
           /\ Test!Decidable(c) = Decidable(tasks, c)
<1>1. DOMAIN tasks = 1 .. Len(tasks)
  OBVIOUS
<1> SUFFICES ASSUME NEW c \in 1 .. Len(tasks)
             PROVE  /\ Test!Above(c) = Above(tasks, c)
                    /\ Test!DeadlineOf(tasks[c]) = DeadlineOf(tasks[c])
                    /\ Test!Decidable(c) = Decidable(tasks, c)
  OBVIOUS
<1>2. Test!Above(c) = Above(tasks, c)
  BY <1>1 DEF Test!Above, Above, Preempts
<1>3. Test!DeadlineOf(tasks[c]) = DeadlineOf(tasks[c])
  BY DEF Test!DeadlineOf, DeadlineOf
<1>4. \A t : Test!Declares(t) = Declared(t)
  BY DEF Test!Declares, Declared
<1>5. Test!Decidable(c) = Decidable(tasks, c)
  BY <1>2, <1>4, Zenon DEF Test!Decidable, Decidable, Bounded
<1> QED
  BY <1>2, <1>3, <1>5

\* The numbers of a task whose response time can be decided.
LEMMA DecidableNumbers ==
  ASSUME tasks \in Seq(TaskTiming), NEW c \in 1 .. Len(tasks), Decidable(tasks, c)
  PROVE  /\ tasks[c].wcet \in Nat /\ tasks[c].blocking \in Nat
         /\ DeadlineOf(tasks[c]) \in Nat
         /\ \A j \in Above(tasks, c) : tasks[j].period \in Nat \ {0} /\ tasks[j].wcet \in Nat
<1>1. \A j \in 1 .. Len(tasks) : tasks[j] \in TaskTiming
  OBVIOUS
<1>2. ASSUME NEW j \in 1 .. Len(tasks), Declared(tasks[j])
      PROVE  /\ tasks[j].wcet \in Nat /\ tasks[j].blocking \in Nat /\ tasks[j].period \in Nat
             /\ DeadlineOf(tasks[j]) \in Nat
  <2>1. tasks[j] \in TaskTiming
    BY <1>1
  <2>2. /\ tasks[j].wcet \in U64 /\ tasks[j].blocking \in U64 /\ tasks[j].period \in U64
        /\ DeadlineOf(tasks[j]) \in U64
    BY <1>2, <2>1 DEF TaskTiming, OptU64, Declared, DeadlineOf
  <2> QED
    BY <2>2, Numbers
<1>3. ASSUME NEW j \in Above(tasks, c) PROVE tasks[j].period \in Nat \ {0} /\ tasks[j].wcet \in Nat
  <2>1. j \in 1 .. Len(tasks) /\ Declared(tasks[j]) /\ tasks[j].period > 0
    BY DEF Above, Decidable, Bounded
  <2>2. tasks[j].wcet \in Nat /\ tasks[j].period \in Nat
    BY <1>2, <2>1
  <2> QED
    BY <2>1, <2>2
<1> QED
  BY <1>2, <1>3 DEF Decidable

\* Each task above asks for a number of ticks, more of them in a longer window.
LEMMA InterferenceTypes ==
  ASSUME tasks \in Seq(TaskTiming), NEW c \in 1 .. Len(tasks), Decidable(tasks, c), NEW r \in Nat
  PROVE  /\ IsFiniteSet(Above(tasks, c))
         /\ \A j \in Above(tasks, c) :
              /\ Interference(tasks, c, r)[j] = DivCeil(r, tasks[j].period) * tasks[j].wcet
              /\ Interference(tasks, c, r)[j] \in Nat
         /\ SumFunctionOnSet(Interference(tasks, c, r), Above(tasks, c)) \in Nat
         /\ Exact(tasks, c, r) \in Nat /\ tasks[c].wcet <= Exact(tasks, c, r)
<1>1. IsFiniteSet(Above(tasks, c))
  <2>1. Len(tasks) \in Nat
    OBVIOUS
  <2>2. IsFiniteSet(1 .. Len(tasks)) /\ Above(tasks, c) \in SUBSET (1 .. Len(tasks))
    BY <2>1, FS_Interval DEF Above
  <2> QED
    BY <2>2, FS_Subset
<1>2. ASSUME NEW j \in Above(tasks, c)
      PROVE  /\ Interference(tasks, c, r)[j] = DivCeil(r, tasks[j].period) * tasks[j].wcet
             /\ Interference(tasks, c, r)[j] \in Nat
  <2>1. tasks[j].period \in Nat \ {0} /\ tasks[j].wcet \in Nat
    BY DecidableNumbers
  <2>2. DivCeil(r, tasks[j].period) \in Nat
    BY <2>1, DivCeilBounds
  <2>3. DivCeil(r, tasks[j].period) * tasks[j].wcet \in Nat
    BY <2>1, <2>2
  <2> QED
    BY <2>3 DEF Interference
<1>3. SumFunctionOnSet(Interference(tasks, c, r), Above(tasks, c)) \in Nat
  BY <1>1, <1>2, SumNat
<1>4. tasks[c].wcet \in Nat /\ tasks[c].blocking \in Nat
  BY DecidableNumbers
<1> QED
  BY <1>1, <1>2, <1>3, <1>4 DEF Exact

\* The test's demand, term by term.
LEMMA SameDemand ==
  ASSUME tasks \in Seq(TaskTiming), NEW c \in 1 .. Len(tasks), Decidable(tasks, c), NEW r \in Nat
  PROVE  Test!Demand(c, r) = Exact(tasks, c, r)
<1>1. Test!Above(c) = Above(tasks, c)
  BY SameNames
<1> DEFINE W == [j \in Above(tasks, c) |-> Test!Releases(tasks[j].period, r) * tasks[j].wcet]
<1>2. W = Interference(tasks, c, r)
  <2>1. ASSUME NEW j \in Above(tasks, c)
        PROVE  Test!Releases(tasks[j].period, r) = DivCeil(r, tasks[j].period)
    BY DecidableNumbers, SameReleases
  <2> QED
    BY <2>1 DEF Interference
<1>3. Test!Demand(c, r) = tasks[c].wcet + tasks[c].blocking + SumFunctionOnSet(W, Above(tasks, c))
  BY <1>1, SameSum DEF Test!Demand
<1> QED
  BY <1>2, <1>3 DEF Exact

\* idx[k] is the task the k-th interferer was gathered from: each task above
\* and before `other` once, all of them with contracts.
Indexes(idx) ==
  /\ \A k \in 1 .. Len(interferers) :
       /\ idx[k] \in Above(tasks, cursor) /\ idx[k] < other
       /\ interferers[k].period = tasks[idx[k]].period
       /\ interferers[k].wcet = tasks[idx[k]].wcet
  /\ \A k, l \in 1 .. Len(interferers) : idx[k] = idx[l] => k = l
  /\ \A j \in Above(tasks, cursor) : j < other =>
       Bounded(tasks[j]) /\ \E k \in 1 .. Len(interferers) : idx[k] = j

GatherInv ==
  /\ pc \in {"gather", "sum"} => \E idx : Indexes(idx)
  /\ pc = "sum" => other > Len(tasks)

LEMMA GatherStep == TypeOK /\ GatherInv /\ [Next]_vars => GatherInv'
<1> SUFFICES ASSUME TypeOK, GatherInv, [Next]_vars, pc' \in {"gather", "sum"}
             PROVE  (\E idx : Indexes(idx)') /\ (pc' = "sum" => other' > Len(tasks'))
  BY DEF GatherInv
<1>1. CASE BeginTask
  <2>1. /\ interferers' = <<>> /\ other' = 1 /\ UNCHANGED <<tasks, cursor>> /\ pc' = "gather"
    BY <1>1 DEF BeginTask, FirstOther, Return
  <2>2. 1 .. Len(interferers') = {} /\ \A j \in 1 .. Len(tasks) : ~(j < other')
    BY <2>1
  <2>3. ASSUME NEW idx PROVE Indexes(idx)'
    BY <2>1, <2>2 DEF Indexes, Above
  <2> QED
    BY <2>1, <2>3
<1>2. CASE GatherOther
  <2> DEFINE o == tasks[other]
             n == Len(interferers)
  <2>1. /\ pc = "gather" /\ pc' = "gather" /\ other' = other + 1 /\ UNCHANGED <<tasks, cursor>>
        /\ \/ ~Preempts(o, Task) /\ interferers' = interferers
           \/ /\ Preempts(o, Task) /\ o.period # 0 /\ Declared(o)
              /\ interferers' = Append(interferers, [period |-> o.period, wcet |-> o.wcet])
    BY <1>2 DEF GatherOther, Return
  <2>2. PICK idx : Indexes(idx)
    BY <2>1 DEF GatherInv
  <2>3. /\ other \in 1 .. Len(tasks) /\ other \in Nat /\ n \in Nat
        /\ interferers \in Seq(Interferer) /\ o \in TaskTiming
    <3>1. /\ other \in 1 .. Len(tasks) + 1 /\ other <= Len(tasks) /\ tasks \in Seq(TaskTiming)
          /\ interferers \in Seq(Interferer)
      BY <1>2 DEF GatherOther, TypeOK
    <3>2. other \in 1 .. Len(tasks)
      BY <3>1
    <3> QED
      BY <3>1, <3>2
  <2>4. /\ Above(tasks, cursor)' = Above(tasks, cursor)
        /\ other \in Above(tasks, cursor) <=> Preempts(o, Task)
        /\ \A j \in Above(tasks, cursor) : j < other' <=> j < other \/ j = other
        /\ \A j : Bounded(tasks[j])' <=> Bounded(tasks[j])
    BY <2>1, <2>3 DEF Above, Task, Bounded
  <2>5. CASE ~Preempts(o, Task) /\ interferers' = interferers
    <3>1. \A j \in Above(tasks, cursor) : j < other' <=> j < other
      BY <2>4, <2>5
    <3> HIDE DEF o, n
    <3>2. Indexes(idx)'
      BY <2>1, <2>2, <2>4, <2>5, <3>1 DEF Indexes
    <3> QED
      BY <2>1, <3>2
  <2>6. CASE /\ Preempts(o, Task) /\ o.period # 0 /\ Declared(o)
             /\ interferers' = Append(interferers, [period |-> o.period, wcet |-> o.wcet])
    <3>1. /\ Len(interferers') = n + 1 /\ interferers'[n + 1] = [period |-> o.period, wcet |-> o.wcet]
          /\ \A k \in 1 .. n : interferers'[k] = interferers[k]
      <4>1. o.period \in U64 /\ o.wcet \in U64
        BY <2>3, <2>6 DEF TaskTiming, OptU64, Declared
      <4>2. [period |-> o.period, wcet |-> o.wcet] \in Interferer
        BY <2>6, <4>1 DEF Interferer
      <4> HIDE DEF o
      <4> QED
        BY <2>3, <2>6, <4>2
    <3>2. PICK new : new[n + 1] = other /\ \A k \in 1 .. n : new[k] = idx[k]
      <4> DEFINE grown == [k \in 1 .. n + 1 |-> IF k = n + 1 THEN other ELSE idx[k]]
      <4>1. grown[n + 1] = other /\ \A k \in 1 .. n : grown[k] = idx[k]
        BY <2>3
      <4> QED
        BY <4>1
    <3>3. 1 .. n + 1 = (1 .. n) \cup {n + 1} /\ n + 1 \notin 1 .. n
      BY <2>3
    <3>4. Bounded(tasks[other])
      <4>1. o.period \in Nat
        BY <2>3, <2>6, Numbers DEF TaskTiming, OptU64, Declared
      <4> QED
        BY <2>6, <4>1 DEF Bounded
    <3>5. ASSUME NEW k \in 1 .. n + 1
          PROVE  /\ new[k] \in Above(tasks, cursor) /\ new[k] < other'
                 /\ interferers'[k].period = tasks[new[k]].period
                 /\ interferers'[k].wcet = tasks[new[k]].wcet
      <4>1. CASE k = n + 1
        BY <2>1, <2>3, <2>4, <2>6, <3>1, <3>2, <4>1
      <4>2. CASE k \in 1 .. n
        <5>1. new[k] = idx[k] /\ idx[k] \in Above(tasks, cursor) /\ idx[k] < other
          BY <2>2, <3>2, <4>2 DEF Indexes
        <5>2. idx[k] < other'
          BY <2>4, <5>1
        <5> QED
          BY <2>2, <3>1, <4>2, <5>1, <5>2 DEF Indexes
      <4> QED
        BY <3>3, <4>1, <4>2
    <3>6. ASSUME NEW k \in 1 .. n + 1, NEW l \in 1 .. n + 1, new[k] = new[l] PROVE k = l
      <4>1. \A i \in 1 .. n : new[i] = idx[i] /\ idx[i] # other
        BY <2>2, <2>3, <3>2 DEF Indexes
      <4> QED
        BY <2>2, <3>2, <3>3, <3>6, <4>1 DEF Indexes
    <3>7. ASSUME NEW j \in Above(tasks, cursor), j < other'
          PROVE  Bounded(tasks[j]) /\ \E k \in 1 .. n + 1 : new[k] = j
      <4>1. CASE j = other
        BY <3>2, <3>3, <3>4, <4>1
      <4>2. CASE j < other
        BY <2>2, <3>2, <3>3, <4>2 DEF Indexes
      <4> QED
        BY <2>4, <3>7, <4>1, <4>2
    <3>8. Indexes(new)'
      <4> HIDE DEF o, n
      <4> QED
        BY <2>1, <2>4, <3>1, <3>5, <3>6, <3>7 DEF Indexes
    <3> QED
      BY <2>1, <3>8
  <2> QED
    BY <2>1, <2>5, <2>6
<1>3. ASSUME UNCHANGED <<tasks, cursor, other, interferers>>, pc \in {"gather", "sum"},
             pc' = "sum" => other > Len(tasks)
      PROVE  (\E idx : Indexes(idx)') /\ (pc' = "sum" => other' > Len(tasks'))
  <2>1. PICK idx : Indexes(idx)
    BY <1>3 DEF GatherInv
  <2>2. Indexes(idx)'
    BY <1>3, <2>1 DEF Indexes, Above, Bounded
  <2> QED
    BY <1>3, <2>2
<1>4. CASE StartRecurrence
  BY <1>3, <1>4 DEF StartRecurrence
<1>5. CASE AddInterferer
  BY <1>3, <1>5 DEF AddInterferer, GatherInv
<1>6. CASE Iterate
  BY <1>3, <1>6 DEF Iterate, Summed, GatherInv
<1>7. CASE PushVerdict \/ Finish \/ Converge \/ CrossDeadline
  BY <1>7 DEF PushVerdict, Finish, Converge, CrossDeadline, Return
<1>8. CASE UNCHANGED vars
  BY <1>3, <1>8 DEF vars, GatherInv
<1> QED
  BY <1>1, <1>2, <1>4, <1>5, <1>6, <1>7, <1>8 DEF Next

\* The interferers are the tasks above, each of them once.
LEMMA GatheredCorrect == Spec => []GatherInv
<1>1. Init => GatherInv
  BY DEF Init, GatherInv
<1> QED
  BY <1>1, GatherStep, TypeCorrect, PTL DEF Spec

\* Once all are gathered, the task can be decided, and summing over the
\* sequence in order comes to the exact demand.
LEMMA GatheredSums ==
  ASSUME TypeOK, GatherInv, pc = "sum", NEW R \in Nat
  PROVE  /\ Decidable(tasks, cursor)
         /\ \E T : /\ T[0] = Task.wcet + Task.blocking
                   /\ \A k \in 1 .. Len(interferers) :
                        T[k] = T[k - 1] + DivCeil(R, interferers[k].period) * interferers[k].wcet
                   /\ T[Len(interferers)] = Exact(tasks, cursor, R)
<1>1. PICK idx : Indexes(idx)
  BY DEF GatherInv
<1>2. /\ tasks \in Seq(TaskTiming) /\ cursor \in 1 .. Len(tasks) /\ Declared(Task)
      /\ Len(interferers) \in Nat /\ Len(tasks) \in Nat /\ other \in Nat
  BY DEF TypeOK
<1>3. \A j \in Above(tasks, cursor) : j < other
  BY <1>2 DEF GatherInv, Above
<1>4. Decidable(tasks, cursor)
  BY <1>1, <1>2, <1>3 DEF Indexes, Decidable, Task
<1> DEFINE n == Len(interferers)
           W == Interference(tasks, cursor, R)
           upto(k) == {idx[i] : i \in 1 .. k}
           T == [k \in 0 .. n |-> Task.wcet + Task.blocking + SumFunctionOnSet(W, upto(k))]
<1>5. /\ IsFiniteSet(Above(tasks, cursor)) /\ \A j \in Above(tasks, cursor) : W[j] \in Nat
      /\ \A j \in Above(tasks, cursor) : W[j] = DivCeil(R, tasks[j].period) * tasks[j].wcet
  BY <1>2, <1>4, InterferenceTypes
<1>6. Task.wcet \in Nat /\ Task.blocking \in Nat
  BY <1>2, <1>4, DecidableNumbers DEF Task
<1>7. T[0] = Task.wcet + Task.blocking
  <2>1. upto(0) = {} /\ 0 \in 0 .. n
    BY <1>2
  <2>2. SumFunctionOnSet(W, {}) = 0
    BY SumEmpty
  <2>3. T[0] = Task.wcet + Task.blocking + SumFunctionOnSet(W, upto(0))
    BY <2>1
  <2>4. SumFunctionOnSet(W, upto(0)) = 0
    BY <2>1, <2>2
  <2>5. Task.wcet + Task.blocking + 0 = Task.wcet + Task.blocking
    BY <1>6
  <2> HIDE DEF W, upto, T
  <2> QED
    BY <2>3, <2>4, <2>5
<1>8. ASSUME NEW k \in 1 .. n
      PROVE  T[k] = T[k - 1] + DivCeil(R, interferers[k].period) * interferers[k].wcet
  <2>1. /\ k \in 0 .. n /\ k - 1 \in 0 .. n /\ 1 .. k = (1 .. k - 1) \cup {k}
        /\ k \notin 1 .. k - 1 /\ \A i \in 1 .. k : i \in 1 .. n
    BY <1>2
  <2>2. upto(k) = upto(k - 1) \cup {idx[k]} /\ idx[k] \notin upto(k - 1)
    <3>1. \A i \in 1 .. k - 1 : idx[i] # idx[k]
      BY <1>1, <2>1 DEF Indexes
    <3> QED
      BY <2>1, <3>1
  <2>3. upto(k - 1) \in SUBSET Above(tasks, cursor) /\ idx[k] \in Above(tasks, cursor)
    BY <1>1, <2>1 DEF Indexes
  <2>4. IsFiniteSet(upto(k - 1)) /\ \A j \in upto(k - 1) : W[j] \in Nat
    <3> HIDE DEF upto, W
    <3> QED
      BY <1>5, <2>3, FS_Subset
  <2>5. /\ SumFunctionOnSet(W, upto(k)) = W[idx[k]] + SumFunctionOnSet(W, upto(k - 1))
        /\ SumFunctionOnSet(W, upto(k - 1)) \in Nat /\ W[idx[k]] \in Nat
    <3> HIDE DEF upto, W
    <3> QED
      BY <1>5, <2>2, <2>3, <2>4, SumAdd, SumNat
  <2>6. W[idx[k]] = DivCeil(R, interferers[k].period) * interferers[k].wcet
    BY <1>1, <1>5, <2>3 DEF Indexes
  <2> HIDE DEF upto, W
  <2> QED
    BY <1>6, <2>1, <2>5, <2>6
<1>9. T[n] = Exact(tasks, cursor, R)
  <2>1. upto(n) = Above(tasks, cursor) /\ n \in 0 .. n
    BY <1>1, <1>2, <1>3 DEF Indexes
  <2> HIDE DEF upto
  <2> QED
    BY <2>1 DEF Exact, Task
<1> HIDE DEF T
<1> QED
  BY <1>4, <1>7, <1>8, <1>9

\* A certificate of the recurrence is a fixed point of the exact demand, and
\* the other way round.
LEMMA CertifiesExact ==
  ASSUME TypeOK, GatherInv, pc = "sum", NEW R \in Nat
  PROVE  (\E S : Certifies(S, R)) <=> Exact(tasks, cursor, R) = R
<1>1. PICK T : /\ T[0] = Task.wcet + Task.blocking
               /\ \A k \in 1 .. Len(interferers) :
                    T[k] = T[k - 1] + DivCeil(R, interferers[k].period) * interferers[k].wcet
               /\ T[Len(interferers)] = Exact(tasks, cursor, R)
  BY GatheredSums
<1>2. /\ tasks \in Seq(TaskTiming) /\ cursor \in 1 .. Len(tasks) /\ Decidable(tasks, cursor)
      /\ Len(interferers) \in Nat
  BY GatheredSums DEF TypeOK
<1>3. ASSUME Exact(tasks, cursor, R) = R PROVE Certifies(T, R)
  <2>1. SumFunctionOnSet(Interference(tasks, cursor, R), Above(tasks, cursor)) \in Nat
    BY <1>2, InterferenceTypes
  <2>2. Task.wcet \in Nat /\ Task.blocking \in Nat
    BY <1>2, DecidableNumbers DEF Task
  <2>3. Task.wcet + Task.blocking <= R
    BY <1>3, <2>1, <2>2 DEF Exact, Task
  <2> QED
    BY <1>1, <1>3, <2>3 DEF Certifies
<1>4. ASSUME NEW S, Certifies(S, R) PROVE Exact(tasks, cursor, R) = R
  <2> DEFINE N == {k \in Nat : k <= Len(interferers) => S[k] = T[k]}
  <2>1. 0 \in N
    BY <1>1, <1>4 DEF Certifies
  <2>2. ASSUME NEW k \in N PROVE k + 1 \in N
    <3> SUFFICES ASSUME k + 1 <= Len(interferers) PROVE S[k + 1] = T[k + 1]
      OBVIOUS
    <3>1. k \in Nat /\ k + 1 \in 1 .. Len(interferers) /\ (k + 1) - 1 = k /\ S[k] = T[k]
      BY <1>2
    <3> HIDE DEF N
    <3> QED
      BY <1>1, <1>4, <3>1 DEF Certifies
  <2>3. N = Nat
    <3> HIDE DEF N
    <3>1. N \in SUBSET Nat
      BY DEF N
    <3> QED
      BY <2>1, <2>2, <3>1, Induction
  <2>4. S[Len(interferers)] = T[Len(interferers)]
    BY <1>2, <2>3
  <2> QED
    BY <1>1, <1>4, <2>4 DEF Certifies
<1> QED
  BY <1>3, <1>4

\* What the analysis may say of task c, in its own terms.
Sound(ts, c, v) ==
  LET D == DeadlineOf(ts[c]) IN
  \/ /\ ~Decidable(ts, c)
     /\ v.kind = "unknown" /\ v.reason # "no convergence"
  \/ /\ Decidable(ts, c) /\ v.kind = "pass"
     /\ v.response \in Nat /\ v.response <= D /\ v.slack = D - v.response
     /\ Exact(ts, c, v.response) = v.response
     /\ \A q \in Nat : Exact(ts, c, q) = q => v.response <= q
  \/ /\ Decidable(ts, c) /\ v.kind = "fail"
     /\ v.response \in Nat /\ v.response > D /\ v.overrun = v.response - D
     /\ \A q \in Nat : Exact(ts, c, q) = q => q > D
  \/ /\ Decidable(ts, c) /\ v.kind = "unknown" /\ v.reason = "no convergence"
     /\ D >= ts[c].wcet + ts[c].blocking + MaxIterations

LEMMA SoundPermitted ==
  ASSUME tasks \in Seq(TaskTiming), NEW c \in 1 .. Len(tasks), NEW v, Sound(tasks, c, v)
  PROVE  Test!Permitted(c, v)
<1>1. /\ Test!DeadlineOf(tasks[c]) = DeadlineOf(tasks[c])
      /\ Test!Decidable(c) = Decidable(tasks, c)
  BY SameNames
<1>2. CASE ~Decidable(tasks, c)
  BY <1>1, <1>2 DEF Test!Permitted, Sound
<1>3. CASE Decidable(tasks, c)
  <2>1. PICK D \in Nat : D = DeadlineOf(tasks[c])
    BY <1>3, DecidableNumbers
  <2>2. Test!FixedPoints(c) = {r \in 0 .. D : Exact(tasks, c, r) = r}
    BY <1>1, <1>3, <2>1, SameDemand DEF Test!FixedPoints
  <2>3. CASE /\ v.kind = "pass"
             /\ v.response \in Nat /\ v.response <= D /\ v.slack = D - v.response
             /\ Exact(tasks, c, v.response) = v.response
             /\ \A q \in Nat : Exact(tasks, c, q) = q => v.response <= q
    <3>1. v.response \in Test!FixedPoints(c) /\ \A q \in Test!FixedPoints(c) : v.response <= q
      BY <2>1, <2>2, <2>3
    <3> QED
      BY <1>1, <1>3, <2>1, <2>3, <3>1 DEF Test!Permitted
  <2>4. CASE /\ v.kind = "fail"
             /\ v.response \in Nat /\ v.response > D /\ v.overrun = v.response - D
             /\ \A q \in Nat : Exact(tasks, c, q) = q => q > D
    <3>1. Test!FixedPoints(c) = {}
      BY <2>1, <2>2, <2>4
    <3> QED
      BY <1>1, <1>3, <2>1, <2>4, <3>1 DEF Test!Permitted
  <2>5. CASE /\ v.kind = "unknown" /\ v.reason = "no convergence"
             /\ D >= tasks[c].wcet + tasks[c].blocking + MaxIterations
    BY <1>1, <1>3, <2>1, <2>5 DEF Test!Permitted
  <2> QED
    BY <1>3, <2>1, <2>3, <2>4, <2>5 DEF Sound
<1> QED
  BY <1>2, <1>3

\* Every turn raises the iterate, so the turns are paid for in ticks.
ClimbInv == pc = "sum" => Base(Task) + iteration <= response

LEMMA ClimbStep == TypeOK /\ RisesInv /\ ClimbInv /\ [Next]_vars => ClimbInv'
<1> SUFFICES ASSUME TypeOK, RisesInv, ClimbInv, [Next]_vars, pc' = "sum"
             PROVE  Base(Task)' + iteration' <= response'
  BY DEF ClimbInv
<1>1. CASE StartRecurrence
  <2>1. pc = "gather" /\ UNCHANGED <<tasks, cursor>> /\ iteration' = 0 /\ response' = Base(Task)
    BY <1>1 DEF StartRecurrence, BeginTurn
  <2>2. Base(Task) \in Nat /\ Base(Task)' = Base(Task)
    BY <2>1, DeclaredNumbers, Numbers DEF TypeOK, Task
  <2> QED
    BY <2>1, <2>2
<1>2. CASE AddInterferer
  BY <1>2 DEF AddInterferer, ClimbInv, Task
<1>3. CASE Iterate
  <2>1. /\ pc = "sum" /\ Summed /\ UNCHANGED <<tasks, cursor>> /\ iteration' = iteration + 1
        /\ response' = next /\ next # response
    BY <1>3 DEF Iterate, Summed
  <2>2. response <= next /\ response \in Nat /\ next \in Nat /\ iteration \in Nat
    BY <2>1, TurnNotBelow, Numbers, BudgetAssumption DEF TypeOK
  <2>3. Base(Task) \in Nat /\ Base(Task)' = Base(Task)
    BY <2>1, DeclaredNumbers, Numbers DEF TypeOK, Task
  <2> QED
    BY <2>1, <2>2, <2>3 DEF ClimbInv
<1>4. CASE BeginTask \/ PushVerdict \/ Finish \/ GatherOther \/ Converge \/ CrossDeadline
  BY <1>4 DEF BeginTask, PushVerdict, Finish, GatherOther, Converge, CrossDeadline, Return
<1>5. CASE UNCHANGED vars
  BY <1>5 DEF vars, ClimbInv, Task
<1> QED
  BY <1>1, <1>2, <1>3, <1>4, <1>5 DEF Next

LEMMA Climbs == Spec => []ClimbInv
<1>1. Init => ClimbInv
  BY DEF Init, ClimbInv
<1> QED
  BY <1>1, ClimbStep, TypeCorrect, TurnsAreOrdered, PTL DEF Spec

\* Deadlines that no saturated value reaches.  (A deadline of MaxU itself is
\* met by an iterate that has saturated; the hazard is noted in README.)
Reachable(ts) == \A i \in DOMAIN ts : Declared(ts[i]) => DeadlineOf(ts[i]) < MaxU

\* Every verdict is one the exact test permits.
VerdictInv ==
  /\ tasks \in TaskSets
  /\ \A i \in DOMAIN verdicts : Sound(tasks, i, verdicts[i])
  /\ pc = "push" => Sound(tasks, cursor, verdict)

LEMMA VerdictStep ==
  ASSUME \A ts \in TaskSets : Reachable(ts)
  PROVE  /\ TypeOK /\ BelowInv /\ ExactInv /\ RisesInv /\ GatherInv /\ ClimbInv
         /\ VerdictInv /\ [Next]_vars
         => VerdictInv'
<1> SUFFICES ASSUME TypeOK, BelowInv, ExactInv, RisesInv, GatherInv, ClimbInv, VerdictInv,
                    [Next]_vars
             PROVE  VerdictInv'
  OBVIOUS
<1>0. tasks' = tasks
  BY DEF Next, BeginTask, PushVerdict, Finish, GatherOther, StartRecurrence, AddInterferer,
         Converge, CrossDeadline, Iterate, vars
<1>1. ASSUME NEW v, UNCHANGED <<cursor, verdicts>>, pc' = "push" => verdict' = v,
             Sound(tasks, cursor, v)
      PROVE  VerdictInv'
  BY <1>0, <1>1 DEF VerdictInv
<1>2. ASSUME UNCHANGED <<cursor, verdicts>>, pc' # "push" PROVE VerdictInv'
  BY <1>0, <1>2 DEF VerdictInv
<1>3. /\ tasks \in Seq(TaskTiming) /\ Len(tasks) \in Nat
      /\ pc \in {"gather", "sum"} => cursor \in 1 .. Len(tasks) /\ Declared(Task)
  BY DEF TypeOK
<1>4. CASE BeginTask
  <2>1. /\ UNCHANGED <<cursor, verdicts>> /\ cursor \in 1 .. Len(tasks)
        /\ \/ pc' = "gather"
           \/ ~Declared(Task) /\ pc' = "push" /\ verdict' = Unknown(MissingReason(Task))
    BY <1>4 DEF BeginTask, Return, TypeOK
  <2>2. ~Declared(Task) => Sound(tasks, cursor, Unknown(MissingReason(Task)))
    <3>1. ~Declared(Task) => MissingReason(Task) # "no convergence"
      BY DEF MissingReason, Declared, DeadlineOf
    <3> HIDE DEF MissingReason
    <3> QED
      BY <3>1 DEF Sound, Unknown, Decidable, Task
  <2> QED
    BY <1>1, <1>2, <2>1, <2>2
<1>5. CASE PushVerdict
  <2>1. /\ pc = "push" /\ pc' = "task" /\ verdicts' = Append(verdicts, verdict)
        /\ verdicts \in Seq(Verdict) /\ Len(verdicts) + 1 = cursor /\ Len(verdicts) \in Nat
    BY <1>5 DEF PushVerdict, TypeOK
  <2>2. ASSUME NEW i \in DOMAIN verdicts' PROVE Sound(tasks, i, verdicts'[i])
    <3>1. CASE i \in DOMAIN verdicts
      BY <2>1, <3>1 DEF VerdictInv
    <3>2. CASE i \notin DOMAIN verdicts
      <4>1. i = cursor /\ verdicts'[i] = verdict
        BY <2>1, <3>2
      <4> QED
        BY <2>1, <4>1 DEF VerdictInv
    <3> QED
      BY <3>1, <3>2
  <2> QED
    BY <1>0, <2>1, <2>2 DEF VerdictInv
<1>6. CASE GatherOther
  <2> DEFINE o == tasks[other]
  <2>1. /\ UNCHANGED <<cursor, verdicts>> /\ pc = "gather" /\ other \in Nat /\ other >= 1
        /\ other <= Len(tasks)
        /\ \/ pc' = pc
           \/ /\ Preempts(o, Task) /\ o.period = 0 /\ verdict' = Unknown("zero period above")
           \/ /\ Preempts(o, Task) /\ ~Declared(o) /\ verdict' = Unknown("undeclared above")
    <3>1. other \in 1 .. Len(tasks) + 1 /\ Len(tasks) \in Nat
      BY <1>3 DEF TypeOK
    <3>2. other \in Nat /\ other >= 1
      BY <3>1
    <3> QED
      BY <1>6, <3>2 DEF GatherOther, Return
  <2>2. Preempts(o, Task) => other \in Above(tasks, cursor)
    <3>1. other \in Nat /\ other >= 1 /\ other <= Len(tasks) /\ Len(tasks) \in Nat
      BY <1>3, <2>1
    <3>2. other \in 1 .. Len(tasks)
      BY <3>1
    <3> QED
      BY <3>2 DEF Above, Task
  <2>3. ASSUME Preempts(o, Task), o.period = 0 \/ ~Declared(o), NEW reason,
               reason # "no convergence"
        PROVE  Sound(tasks, cursor, Unknown(reason))
    <3>1. ~Bounded(tasks[other]) /\ other \in Above(tasks, cursor)
      <4>1. o.period = 0 => ~(o.period > 0)
        OBVIOUS
      <4> QED
        BY <2>2, <2>3, <4>1 DEF Bounded
    <3>2. ~Decidable(tasks, cursor)
      BY <3>1 DEF Decidable
    <3> QED
      BY <2>3, <3>2 DEF Sound, Unknown
  <2>4. CASE pc' = pc
    BY <1>2, <2>1, <2>4
  <2>5. CASE Preempts(o, Task) /\ o.period = 0 /\ verdict' = Unknown("zero period above")
    <3>1. Sound(tasks, cursor, Unknown("zero period above"))
      BY <2>3, <2>5
    <3> QED
      BY <1>1, <2>1, <2>5, <3>1
  <2>6. CASE Preempts(o, Task) /\ ~Declared(o) /\ verdict' = Unknown("undeclared above")
    <3>1. Sound(tasks, cursor, Unknown("undeclared above"))
      BY <2>3, <2>6
    <3> QED
      BY <1>1, <2>1, <2>6, <3>1
  <2> QED
    BY <2>1, <2>4, <2>5, <2>6
<1>7. CASE StartRecurrence \/ AddInterferer
  BY <1>2, <1>7 DEF StartRecurrence, AddInterferer
<1>8. ASSUME Summed, UNCHANGED <<cursor, verdicts>>
      PROVE  /\ Decidable(tasks, cursor) /\ pc = "sum" /\ Task = tasks[cursor]
             /\ response \in Nat /\ next \in Nat /\ response <= next /\ next <= MaxU
             /\ DeadlineOf(Task) \in Nat /\ DeadlineOf(Task) < MaxU
             /\ \A q \in Nat : Exact(tasks, cursor, q) = q => response <= q /\ next <= q
  <2>1. pc = "sum" /\ cursor \in 1 .. Len(tasks) /\ Declared(Task) /\ Task = tasks[cursor]
    BY <1>3, <1>8 DEF Summed, Task
  <2>2. Decidable(tasks, cursor)
    BY <2>1, GatheredSums
  <2>3. DeadlineOf(Task) < MaxU
    BY <2>1, <1>3 DEF VerdictInv, Reachable
  <2>4. response \in Nat /\ next \in Nat /\ next <= MaxU /\ DeadlineOf(Task) \in Nat
    BY <2>1, DeclaredNumbers, Numbers DEF TypeOK
  <2>5. ASSUME NEW q \in Nat, Exact(tasks, cursor, q) = q PROVE response <= q /\ next <= q
    <3>1. PICK S : Certifies(S, q)
      BY <2>1, <2>5, CertifiesExact
    <3>2. Below(S, q)
      BY <2>1, <3>1 DEF BelowInv
    <3> QED
      BY <1>8, <3>1, <3>2 DEF Below, Summed, Certifies
  <2> QED
    BY <1>8, <2>1, <2>2, <2>3, <2>4, <2>5, TurnNotBelow
<1>9. CASE Converge
  <2>1. /\ UNCHANGED <<cursor, verdicts>> /\ Summed /\ next = response
        /\ verdict' = IF response <= DeadlineOf(Task)
              THEN Pass(response, DeadlineOf(Task))
              ELSE Fail(response, DeadlineOf(Task))
    BY <1>9 DEF Converge, Return
  <2>2. /\ Decidable(tasks, cursor) /\ pc = "sum" /\ Task = tasks[cursor]
        /\ response \in Nat /\ DeadlineOf(Task) \in Nat /\ DeadlineOf(Task) < MaxU
        /\ \A q \in Nat : Exact(tasks, cursor, q) = q => response <= q
    BY <1>8, <2>1
  <2>3. CASE response <= DeadlineOf(Task)
    <3>1. response < MaxU /\ next < MaxU
      BY <2>1, <2>2, <2>3, WidthAssumption
    <3>2. PICK S : ExactSums(S)
      BY <2>2, <3>1 DEF ExactInv
    <3>3. Certifies(S, response)
      BY <2>1, <3>2 DEF ExactSums, Certifies, Summed
    <3>4. Exact(tasks, cursor, response) = response
      BY <2>2, <3>3, CertifiesExact
    <3>5. Sound(tasks, cursor, Pass(response, DeadlineOf(Task)))
      BY <2>2, <2>3, <3>4 DEF Sound, Pass
    <3> QED
      BY <1>1, <2>1, <2>3, <3>5
  <2>4. CASE ~(response <= DeadlineOf(Task))
    <3>1. response > DeadlineOf(Task)
          /\ \A q \in Nat : Exact(tasks, cursor, q) = q => q > DeadlineOf(Task)
      BY <2>2, <2>4
    <3>2. Sound(tasks, cursor, Fail(response, DeadlineOf(Task)))
      BY <2>2, <3>1 DEF Sound, Fail
    <3> QED
      BY <1>1, <2>1, <2>4, <3>2
  <2> QED
    BY <2>3, <2>4
<1>10. CASE CrossDeadline
  <2>1. /\ UNCHANGED <<cursor, verdicts>> /\ Summed /\ next > DeadlineOf(Task)
        /\ verdict' = Fail(next, DeadlineOf(Task))
    BY <1>10 DEF CrossDeadline, PastDeadline, Return
  <2>2. /\ Decidable(tasks, cursor) /\ Task = tasks[cursor]
        /\ next \in Nat /\ DeadlineOf(Task) \in Nat
        /\ \A q \in Nat : Exact(tasks, cursor, q) = q => next <= q
    BY <1>8, <2>1
  <2>3. \A q \in Nat : Exact(tasks, cursor, q) = q => q > DeadlineOf(Task)
    BY <2>1, <2>2
  <2>4. Sound(tasks, cursor, Fail(next, DeadlineOf(Task)))
    BY <2>1, <2>2, <2>3 DEF Sound, Fail
  <2> QED
    BY <1>1, <2>1, <2>4
<1>11. CASE Iterate
  <2>1. /\ UNCHANGED <<cursor, verdicts>> /\ Summed /\ next # response /\ ~PastDeadline
        /\ \/ pc' # "push"
           \/ LastTurn /\ verdict' = Unknown("no convergence")
    BY <1>11 DEF Iterate, Return, Summed
  <2>2. /\ Decidable(tasks, cursor) /\ Task = tasks[cursor] /\ pc = "sum"
        /\ response \in Nat /\ next \in Nat /\ response <= next /\ next <= MaxU
        /\ DeadlineOf(Task) \in Nat
    BY <1>8, <2>1
  <2>3. ASSUME LastTurn PROVE Sound(tasks, cursor, Unknown("no convergence"))
    <3>1. PICK b \in Nat, d \in Nat : b = Base(Task) /\ d = DeadlineOf(Task)
      BY <1>3, <2>2, DeclaredNumbers, Numbers DEF TypeOK
    <3>2. iteration \in Nat /\ MaxIterations = iteration + 1
      BY <2>3, BudgetAssumption DEF LastTurn, TypeOK
    <3>3. b + iteration <= response /\ next <= d
      <4>1. b + iteration <= response
        BY <2>2, <3>1 DEF ClimbInv
      <4>2. ~(next > d) /\ next \in Nat
        BY <2>1, <2>2, <3>1 DEF PastDeadline
      <4> QED
        BY <4>1, <4>2
    <3>4. b < next /\ b + iteration + 1 <= next
      <4>1. next # response /\ response <= next /\ response \in Nat /\ next \in Nat
        BY <2>1, <2>2
      <4> QED
        BY <3>2, <3>3, <4>1
    <3>5. b = Task.wcet + Task.blocking
      <4>1. b < MaxU
        BY <2>2, <3>4, WidthAssumption
      <4> QED
        BY <2>2, <3>1, <4>1, BaseExact
    <3>6. DeadlineOf(Task) >= Task.wcet + Task.blocking + MaxIterations
      <4>1. d >= b + MaxIterations
        BY <2>2, <3>2, <3>3, <3>4
      <4> QED
        BY <3>1, <3>5, <4>1
    <3> QED
      BY <2>2, <3>6 DEF Sound, Unknown
  <2> QED
    BY <1>1, <1>2, <2>1, <2>3
<1>12. CASE Finish
  BY <1>2, <1>12 DEF Finish
<1>13. CASE UNCHANGED vars
  BY <1>13 DEF vars, VerdictInv
<1> QED
  BY <1>4, <1>5, <1>6, <1>7, <1>9, <1>10, <1>11, <1>12, <1>13 DEF Next

LEMMA VerdictsCorrect ==
  ASSUME \A ts \in TaskSets : Reachable(ts)
  PROVE  Spec => []VerdictInv
<1>1. Init => VerdictInv
  <2>1. DOMAIN <<>> = {}
    OBVIOUS
  <2> HIDE DEF Sound
  <2> QED
    BY <2>1 DEF Init, VerdictInv
<1>2. Init => ExactInv
  BY DEF Init, ExactInv
<1> QED
  BY <1>1, <1>2, VerdictStep, ExactStep, TypeCorrect, NeverAboveAFixedPoint, TurnsAreOrdered,
     GatheredCorrect, Climbs, PTL DEF Spec

\* The analysis implements the exact test: each verdict is pushed once, in the
\* order of the tasks, and is one that the test permits; everything else the
\* analysis does is invisible to it.
THEOREM Implements ==
  ASSUME \A ts \in TaskSets : Reachable(ts)
  PROVE  Spec => ImplementsSchedulabilityTest
<1>1. Init => Test!Init
  BY DEF Init, Test!Init
<1>2. TypeOK /\ VerdictInv /\ [Next]_vars => [Test!Decide]_<<tasks, verdicts>>
  <2> SUFFICES ASSUME TypeOK, VerdictInv, [Next]_vars
               PROVE  [Test!Decide]_<<tasks, verdicts>>
    OBVIOUS
  <2>1. CASE PushVerdict
    <3>1. /\ pc = "push" /\ tasks' = tasks /\ verdicts' = Append(verdicts, verdict)
          /\ verdicts \in Seq(Verdict) /\ verdict \in Verdict /\ tasks \in Seq(TaskTiming)
          /\ Len(verdicts) = cursor - 1 /\ cursor \in 1 .. Len(tasks) + 1 /\ cursor <= Len(tasks)
          /\ Len(tasks) \in Nat
      BY <2>1 DEF PushVerdict, TypeOK
    <3>2. cursor \in 1 .. Len(tasks) /\ Len(verdicts) + 1 = cursor /\ Len(verdicts) < Len(tasks)
      BY <3>1
    <3>3. Len(verdicts') = cursor /\ verdicts'[cursor] = verdict
      BY <3>1, <3>2
    <3>4. Test!Permitted(cursor, verdict)
      BY <3>1, <3>2, SoundPermitted DEF VerdictInv
    <3> QED
      BY <3>1, <3>2, <3>3, <3>4 DEF Test!Decide
  <2>2. CASE ~PushVerdict
    BY <2>2 DEF Next, BeginTask, Finish, GatherOther, StartRecurrence, AddInterferer, Converge,
                CrossDeadline, Iterate, vars
  <2> QED
    BY <2>1, <2>2
<1> QED
  BY <1>1, <1>2, TypeCorrect, VerdictsCorrect, PTL DEF Spec, ImplementsSchedulabilityTest, Test!Spec

-----------------------------------------------------------------------------
(* What holds of a PASS whatever the deadlines: short of MaxU, its response *)
(* is a fixed point of the exact demand, since no sum of that turn          *)
(* saturated.                                                               *)

Fits(ts, c, v) ==
  (v.kind = "pass" /\ v.response < MaxU) =>
    Decidable(ts, c) /\ v.response \in Nat /\ Exact(ts, c, v.response) = v.response

FitInv ==
  /\ \A i \in DOMAIN verdicts : Fits(tasks, i, verdicts[i])
  /\ pc = "push" => Fits(tasks, cursor, verdict)

LEMMA OthersFit ==
  /\ \A reason, ts, c : Fits(ts, c, Unknown(reason))
  /\ \A r, d, ts, c : Fits(ts, c, Fail(r, d))
BY DEF Fits, Unknown, Fail

LEMMA FitStep == TypeOK /\ ExactInv /\ GatherInv /\ FitInv /\ [Next]_vars => FitInv'
<1> SUFFICES ASSUME TypeOK, ExactInv, GatherInv, FitInv, [Next]_vars PROVE FitInv'
  OBVIOUS
<1>0. tasks' = tasks
  BY DEF Next, BeginTask, PushVerdict, Finish, GatherOther, StartRecurrence, AddInterferer,
         Converge, CrossDeadline, Iterate, vars
<1>1. ASSUME UNCHANGED <<cursor, verdicts>>, pc' = "push", Fits(tasks, cursor, verdict')
      PROVE  FitInv'
  BY <1>0, <1>1 DEF FitInv
<1>2. ASSUME UNCHANGED <<cursor, verdicts>>, pc' # "push" PROVE FitInv'
  BY <1>0, <1>2 DEF FitInv
<1>3. CASE BeginTask
  <2>1. /\ UNCHANGED <<cursor, verdicts>>
        /\ pc' = "gather" \/ (pc' = "push" /\ verdict' = Unknown(MissingReason(Task)))
    BY <1>3 DEF BeginTask, Return
  <2> QED
    BY <1>1, <1>2, <2>1, OthersFit
<1>4. CASE PushVerdict
  <2>1. /\ pc = "push" /\ pc' = "task" /\ verdicts' = Append(verdicts, verdict)
        /\ verdicts \in Seq(Verdict) /\ Len(verdicts) + 1 = cursor /\ Len(verdicts) \in Nat
    BY <1>4 DEF PushVerdict, TypeOK
  <2>2. ASSUME NEW i \in DOMAIN verdicts' PROVE Fits(tasks, i, verdicts'[i])
    <3>1. CASE i \in DOMAIN verdicts
      BY <2>1, <3>1 DEF FitInv
    <3>2. CASE i \notin DOMAIN verdicts
      <4>1. i = cursor /\ verdicts'[i] = verdict
        BY <2>1, <3>2
      <4> QED
        BY <2>1, <4>1 DEF FitInv
    <3> QED
      BY <3>1, <3>2
  <2> QED
    BY <1>0, <2>1, <2>2 DEF FitInv
<1>5. CASE Finish
  BY <1>2, <1>5 DEF Finish
<1>6. CASE GatherOther
  <2>1. UNCHANGED <<cursor, verdicts>> /\ pc = "gather"
    BY <1>6 DEF GatherOther
  <2>2. \/ pc' = pc
        \/ pc' = "push" /\ verdict' \in {Unknown("zero period above"), Unknown("undeclared above")}
    BY <1>6 DEF GatherOther, Return
  <2> QED
    BY <1>1, <1>2, <2>1, <2>2, OthersFit
<1>7. CASE StartRecurrence \/ AddInterferer
  BY <1>2, <1>7 DEF StartRecurrence, AddInterferer
<1>8. CASE Converge
  <2>1. /\ UNCHANGED <<cursor, verdicts>> /\ Summed /\ pc = "sum" /\ next = response /\ pc' = "push"
        /\ verdict' \in {Pass(response, DeadlineOf(Task)), Fail(response, DeadlineOf(Task))}
    BY <1>8, Zenon DEF Converge, Summed, Return
  <2>2. Fits(tasks, cursor, Pass(response, DeadlineOf(Task)))
    <3>1. response \in Nat /\ Decidable(tasks, cursor)
      BY <2>1, GatheredSums, Numbers DEF TypeOK
    <3>2. ASSUME response < MaxU PROVE Exact(tasks, cursor, response) = response
      <4>1. PICK S : ExactSums(S)
        BY <2>1, <3>2 DEF ExactInv
      <4>2. Certifies(S, response)
        BY <2>1, <4>1 DEF ExactSums, Certifies, Summed
      <4> QED
        BY <2>1, <3>1, <4>2, CertifiesExact
    <3> QED
      BY <3>1, <3>2 DEF Fits, Pass
  <2> QED
    BY <1>1, <2>1, <2>2, OthersFit
<1>9. CASE CrossDeadline
  BY <1>1, <1>9, OthersFit DEF CrossDeadline, Return
<1>10. CASE Iterate
  <2>1. UNCHANGED <<cursor, verdicts>> /\ pc = "sum"
    BY <1>10 DEF Iterate, Summed
  <2>2. \/ pc' = pc
        \/ pc' = "push" /\ verdict' = Unknown("no convergence")
    BY <1>10 DEF Iterate, Return
  <2> QED
    BY <1>1, <1>2, <2>1, <2>2, OthersFit
<1>11. CASE UNCHANGED vars
  BY <1>11 DEF vars, FitInv
<1> QED
  BY <1>3, <1>4, <1>5, <1>6, <1>7, <1>8, <1>9, <1>10, <1>11 DEF Next
-----------------------------------------------------------------------------
(* The utilisation against the verdicts.  The total the code reports is at *)
(* most the sum of the tasks' shares, rounding and saturation included;    *)
(* and were every task to pass, the response time R of the least urgent    *)
(* task that has work would hold the work of all of them: R is within its  *)
(* period, and is a fixed point of the demand of all above it, so the      *)
(* shares, each of them a lower bound on a demand over R, come to no more  *)
(* than the whole CPU.                                                     *)

Share(t)   == (t.wcet * Million) \div t.period
Shares(ts) == [i \in DOMAIN ts |-> Share(ts[i])]

\* The tasks whose share is in the total already.
Counted == 1 .. (IF pc \in {"gather", "sum", "push"} THEN cursor ELSE cursor - 1)

AllBounded == \A i \in DOMAIN tasks : Bounded(tasks[i])

UtilInv == AllBounded => utilisation <= SumFunctionOnSet(Shares(tasks), Counted)

LEMMA BoundedNumbers ==
  ASSUME tasks \in Seq(TaskTiming), NEW i \in DOMAIN tasks, Bounded(tasks[i])
  PROVE  /\ tasks[i].wcet \in Nat /\ tasks[i].period \in Nat \ {0}
         /\ Shares(tasks)[i] \in Nat /\ Shares(tasks)[i] = Share(tasks[i])
         /\ Share(tasks[i]) * tasks[i].period <= tasks[i].wcet * Million
<1>1. tasks[i] \in TaskTiming /\ Declared(tasks[i]) /\ tasks[i].period > 0
  BY DEF Bounded
<1>2. tasks[i].wcet \in U64 /\ tasks[i].period \in U64
  BY <1>1 DEF TaskTiming, OptU64, Declared
<1>3. tasks[i].wcet \in Nat /\ tasks[i].period \in Nat \ {0}
  BY <1>1, <1>2, Numbers
<1>4. PICK x \in Nat : x = tasks[i].wcet * Million
  BY <1>3, MillionAssumption
<1>5. PICK p \in Nat \ {0} : p = tasks[i].period
  BY <1>3
<1>6. x \div p \in Nat /\ (x \div p) * p <= x
  <2>1. 0 * p <= x
    OBVIOUS
  <2> QED
    BY <2>1, WholeSteps
<1> QED
  BY <1>3, <1>4, <1>5, <1>6 DEF Shares, Share

LEMMA UtilStep == TypeOK /\ UtilInv /\ [Next]_vars => UtilInv'
<1> SUFFICES ASSUME TypeOK, UtilInv, [Next]_vars, AllBounded'
             PROVE  utilisation' <= SumFunctionOnSet(Shares(tasks)', Counted')
  BY DEF UtilInv
<1>0. tasks' = tasks
  BY DEF Next, BeginTask, PushVerdict, Finish, GatherOther, StartRecurrence, AddInterferer,
         Converge, CrossDeadline, Iterate, vars
<1>1. AllBounded /\ Shares(tasks)' = Shares(tasks)
  BY <1>0 DEF AllBounded, Bounded, Declared, Shares, Share
<1>2. ASSUME utilisation' = utilisation, Counted' = Counted
      PROVE  utilisation' <= SumFunctionOnSet(Shares(tasks)', Counted')
  BY <1>1, <1>2 DEF UtilInv
<1>3. CASE BeginTask
  <2>1. /\ pc = "task" /\ cursor <= Len(tasks) /\ pc' \in {"gather", "push"} /\ cursor' = cursor
        /\ utilisation' = Utilised(utilisation, Task)
    BY <1>3 DEF BeginTask, Return
  <2>2. /\ cursor \in 1 .. Len(tasks) /\ DOMAIN tasks = 1 .. Len(tasks) /\ Len(tasks) \in Nat
        /\ tasks \in Seq(TaskTiming) /\ utilisation \in Nat
    BY <2>1, Numbers DEF TypeOK
  <2>3. PICK S : S = 1 .. (cursor - 1)
    OBVIOUS
  <2>4. /\ Counted = S /\ Counted' = S \cup {cursor} /\ cursor \notin S /\ S \in SUBSET DOMAIN tasks
        /\ IsFiniteSet(S)
    <3>1. Counted = S /\ Counted' = 1 .. cursor
      BY <2>1, <2>3 DEF Counted
    <3>2. 1 .. cursor = S \cup {cursor} /\ cursor \notin S /\ S \in SUBSET DOMAIN tasks
      BY <2>2, <2>3
    <3>3. IsFiniteSet(S)
      BY <2>2, <2>3, FS_Interval
    <3> QED
      BY <3>1, <3>2, <3>3
  <2>5. /\ \A i \in S : Shares(tasks)[i] \in Nat
        /\ Shares(tasks)[cursor] \in Nat /\ Shares(tasks)[cursor] = Share(Task)
        /\ Task.wcet \in Nat /\ Task.period \in Nat \ {0}
    BY <1>1, <2>2, <2>4, BoundedNumbers DEF AllBounded, Task
  <2>6. PICK u \in Nat : u = SumFunctionOnSet(Shares(tasks), S) /\ utilisation <= u
    BY <1>1, <2>4, <2>5, SumNat DEF UtilInv
  <2>7. SumFunctionOnSet(Shares(tasks), S \cup {cursor}) = Share(Task) + u
    BY <2>4, <2>5, <2>6, SumAdd
  <2>8. PICK a \in Nat : a = SatMul(Task.wcet, Million) /\ a <= Task.wcet * Million
    BY <2>5, MillionAssumption, SatMulBounds, Numbers
  <2>9. PICK s \in Nat : s = a \div Task.period /\ s <= Share(Task)
    <3>1. PICK p \in Nat \ {0}, x \in Nat : p = Task.period /\ x = Task.wcet * Million
      BY <2>5, MillionAssumption
    <3>2. 0 * p <= a
      OBVIOUS
    <3>3. PICK q \in Nat : q = a \div p /\ q * p <= a
      BY <3>2, WholeSteps
    <3>4. q * p <= x
      <4>1. q * p \in Nat
        OBVIOUS
      <4> QED
        BY <2>8, <3>1, <3>3, <4>1
    <3>5. q <= x \div p
      BY <3>4, WholeSteps
    <3> QED
      BY <3>1, <3>3, <3>5 DEF Share
  <2>10. utilisation' = SatAdd(utilisation, s)
    <3>1. Task.period # None /\ Task.wcet # None
      BY <1>1, <2>2 DEF AllBounded, Bounded, Declared, Task
    <3>2. Task.period # 0
      BY <2>5
    <3> QED
      BY <2>1, <2>8, <2>9, <3>1, <3>2 DEF Utilised
  <2>11. utilisation' <= utilisation + s /\ utilisation' \in Nat
    BY <2>2, <2>10, SatAddBounds, Numbers
  <2>12. Share(Task) \in Nat
    BY <2>5
  <2>13. utilisation' <= Share(Task) + u
    BY <2>2, <2>6, <2>9, <2>11, <2>12
  <2> QED
    BY <1>1, <2>4, <2>7, <2>13
<1>4. CASE PushVerdict
  <2>1. pc = "push" /\ pc' = "task" /\ cursor' = cursor + 1 /\ utilisation' = utilisation
    BY <1>4 DEF PushVerdict
  <2>2. cursor' - 1 = cursor
    BY <2>1 DEF TypeOK
  <2>3. Counted' = Counted
    BY <2>1, <2>2 DEF Counted
  <2> QED
    BY <1>2, <2>1, <2>3
<1>5. CASE Finish
  BY <1>2, <1>5 DEF Finish, Counted
<1>6. ASSUME UNCHANGED <<cursor, utilisation>>, pc \in {"gather", "sum", "push"},
             pc' \in {"gather", "sum", "push"}
      PROVE  utilisation' <= SumFunctionOnSet(Shares(tasks)', Counted')
  BY <1>2, <1>6 DEF Counted
<1>7. CASE GatherOther \/ StartRecurrence
  BY <1>6, <1>7 DEF GatherOther, StartRecurrence, Return
<1>8. CASE AddInterferer \/ Converge \/ CrossDeadline \/ Iterate
  BY <1>6, <1>8 DEF AddInterferer, Converge, CrossDeadline, Iterate, Summed, Return
<1>9. CASE UNCHANGED vars
  BY <1>2, <1>9 DEF vars, Counted
<1> QED
  BY <1>3, <1>4, <1>5, <1>7, <1>8, <1>9 DEF Next

\* Tasks that each have a response time ask for no more than the whole CPU.
LEMMA SharesFit ==
  ASSUME tasks \in Seq(TaskTiming), Validated(tasks), DistinctPriorities(tasks),
         \A i \in DOMAIN tasks :
           /\ Decidable(tasks, i)
           /\ \E q \in Nat : q <= DeadlineOf(tasks[i]) /\ Exact(tasks, i, q) = q
  PROVE  AllBounded /\ SumFunctionOnSet(Shares(tasks), DOMAIN tasks) <= Million
<1>1. DOMAIN tasks = 1 .. Len(tasks) /\ Len(tasks) \in Nat
  OBVIOUS
<1>2. ASSUME NEW i \in DOMAIN tasks PROVE Bounded(tasks[i])
  <2>1. Declared(tasks[i]) /\ (tasks[i].period # None => tasks[i].period > 0)
    BY DEF Decidable, Validated
  <2> QED
    BY <2>1 DEF Bounded, Declared
<1>3. ASSUME NEW i \in DOMAIN tasks
      PROVE  /\ tasks[i].wcet \in Nat /\ tasks[i].period \in Nat \ {0}
             /\ Shares(tasks)[i] \in Nat /\ Shares(tasks)[i] = Share(tasks[i])
             /\ Share(tasks[i]) * tasks[i].period <= tasks[i].wcet * Million
  BY <1>2, BoundedNumbers
<1>4. IsFiniteSet(DOMAIN tasks)
  BY <1>1, FS_Interval
<1>5. ASSUME NEW i \in DOMAIN tasks, tasks[i].wcet = 0 PROVE Shares(tasks)[i] = 0
  <2>1. 0 * Million = 0
    BY MillionAssumption
  <2>2. PICK p \in Nat \ {0}, s \in Nat : p = tasks[i].period /\ s = Shares(tasks)[i] /\ s * p <= 0
    BY <1>3, <1>5, <2>1
  <2>3. CASE s >= 1
    <3>1. 1 * p <= s * p /\ s * p \in Nat /\ 1 * p = p
      BY <2>3, TimesMonotone
    <3> QED
      BY <2>2, <3>1
  <2> QED
    BY <2>2, <2>3
<1> DEFINE Busy == {i \in DOMAIN tasks : tasks[i].wcet > 0}
<1>6. CASE Busy = {}
  <2>1. \A i \in DOMAIN tasks : Shares(tasks)[i] = 0
    BY <1>3, <1>5, <1>6
  <2>2. SumFunctionOnSet(Shares(tasks), DOMAIN tasks) = 0
    BY <1>4, <2>1, SumZero
  <2> QED
    BY <1>2, <2>2, MillionAssumption DEF AllBounded
<1>7. CASE Busy # {}
  <2>1. PICK c \in Busy : \A i \in Busy : tasks[c].priority <= tasks[i].priority
    <3> DEFINE P == {tasks[i].priority : i \in Busy}
    <3>1. P \in SUBSET Nat /\ P # {}
      <4>1. ASSUME NEW i \in DOMAIN tasks PROVE tasks[i].priority \in Nat
        <5>1. tasks[i] \in TaskTiming
          OBVIOUS
        <5> QED
          BY <5>1 DEF TaskTiming
      <4> QED
        BY <1>7, <4>1
    <3> HIDE DEF P
    <3>2. PICK m \in P : \A n \in P : m <= n
      BY <3>1, Least
    <3> QED
      BY <3>2 DEF P
  <2>2. c \in DOMAIN tasks /\ tasks[c].wcet > 0 /\ c \in 1 .. Len(tasks)
    BY <1>1, <2>1
  <2>3. PICK R \in Nat : R <= DeadlineOf(tasks[c]) /\ Exact(tasks, c, R) = R
    BY <2>2
  <2>4. Decidable(tasks, c)
    BY <2>2
  <2>5. R >= 1 /\ R <= tasks[c].period
    <3>1. tasks[c].wcet <= R /\ tasks[c].wcet \in Nat
      BY <1>3, <2>2, <2>3, <2>4, InterferenceTypes
    <3>2. DeadlineOf(tasks[c]) \in Nat /\ DeadlineOf(tasks[c]) <= tasks[c].period
      <4>1. DeadlineOf(tasks[c]) \in Nat
        BY <2>2, <2>4, DecidableNumbers
      <4>2. tasks[c].period # None /\ tasks[c].period \in Nat
        BY <1>2, <1>3, <2>2 DEF Bounded, Declared
      <4>3. tasks[c].deadline # None => tasks[c].deadline <= tasks[c].period
        BY <2>2, <4>2 DEF Validated
      <4> QED
        BY <4>1, <4>2, <4>3 DEF DeadlineOf
    <3>3. tasks[c].period \in Nat
      BY <1>3, <2>2
    <3> QED
      BY <2>2, <2>3, <3>1, <3>2, <3>3
  <2>6. PICK A : A = Above(tasks, c) /\ A \in SUBSET DOMAIN tasks /\ c \notin A
    <3>1. Above(tasks, c) \in SUBSET DOMAIN tasks /\ c \notin Above(tasks, c)
      BY <1>1 DEF Above, Preempts
    <3> QED
      BY <3>1
  <2>7. ASSUME NEW i \in DOMAIN tasks, i \notin A \cup {c} PROVE Shares(tasks)[i] = 0
    <3>1. SUFFICES ASSUME i \in Busy PROVE FALSE
      BY <1>3, <1>5
    <3>2. tasks[i].priority \in Nat /\ tasks[c].priority \in Nat
      <4>1. tasks[i] \in TaskTiming /\ tasks[c] \in TaskTiming
        BY <2>2
      <4> QED
        BY <4>1 DEF TaskTiming
    <3>3. tasks[i].priority # tasks[c].priority /\ tasks[i].name # tasks[c].name
      BY <2>2, <2>7 DEF DistinctPriorities, Validated
    <3>4. tasks[i].priority > tasks[c].priority
      BY <2>1, <3>1, <3>2, <3>3
    <3> QED
      BY <1>1, <2>6, <2>7, <3>3, <3>4 DEF Above, Preempts
  <2>8. PICK W : W = Interference(tasks, c, R)
    OBVIOUS
  <2>9. /\ IsFiniteSet(A)
        /\ \A j \in A : W[j] = DivCeil(R, tasks[j].period) * tasks[j].wcet /\ W[j] \in Nat
    BY <2>2, <2>4, <2>6, <2>8, InterferenceTypes
  <2>10. ASSUME NEW j \in A PROVE Shares(tasks)[j] * R <= W[j] * Million
    <3>1. PICK s \in Nat, p \in Nat \ {0}, w \in Nat, m \in Nat :
            /\ s = Shares(tasks)[j] /\ p = tasks[j].period /\ w = tasks[j].wcet /\ m = Million
            /\ s * p <= w * m
      <4>1. j \in DOMAIN tasks
        BY <2>6
      <4>2. /\ Shares(tasks)[j] \in Nat /\ tasks[j].period \in Nat \ {0} /\ tasks[j].wcet \in Nat
            /\ Shares(tasks)[j] * tasks[j].period <= tasks[j].wcet * Million
        BY <1>3, <4>1, Zenon
      <4> QED
        BY <4>2, MillionAssumption, Zenon
    <3>2. PICK k \in Nat : k = DivCeil(R, p) /\ R <= k * p
      BY DivCeilBounds
    <3>3. PICK x \in Nat, y \in Nat, z \in Nat : x = s * p /\ y = w * m /\ z = k * p /\ x <= y
      <4>1. s * p \in Nat /\ w * m \in Nat /\ k * p \in Nat
        OBVIOUS
      <4> QED
        BY <3>1, <4>1, Zenon
    <3>4. R * s <= z * s /\ x * k <= y * k
      BY <3>2, <3>3, TimesMonotone
    <3>5. (k * p) * s = (s * p) * k /\ (k * w) * m = (w * m) * k /\ R * s = s * R
      OBVIOUS
    <3>6. R * s \in Nat /\ z * s \in Nat /\ x * k \in Nat /\ y * k \in Nat
      OBVIOUS
    <3>7. s * R <= (k * w) * m
      BY <3>3, <3>4, <3>5, <3>6
    <3> QED
      BY <2>9, <3>1, <3>2, <3>7
  <2>11. SumFunctionOnSet(Shares(tasks), A) * R <= SumFunctionOnSet(W, A) * Million
    <3>1. \A j \in A : Shares(tasks)[j] \in Nat
      BY <1>3, <2>6
    <3> QED
      BY <2>9, <2>10, <3>1, MillionAssumption, SumScaled, Zenon
  <2>12. Shares(tasks)[c] * R <= tasks[c].wcet * Million
    <3>1. PICK s \in Nat, p \in Nat \ {0}, x \in Nat :
            s = Shares(tasks)[c] /\ p = tasks[c].period /\ x = tasks[c].wcet * Million /\ s * p <= x
      <4>1. /\ Shares(tasks)[c] \in Nat /\ tasks[c].period \in Nat \ {0} /\ tasks[c].wcet \in Nat
            /\ Shares(tasks)[c] * tasks[c].period <= tasks[c].wcet * Million
        BY <1>3, <2>2, Zenon
      <4>2. tasks[c].wcet * Million \in Nat
        BY <4>1, MillionAssumption
      <4> QED
        BY <4>1, <4>2, Zenon
    <3>2. R * s <= p * s
      BY <2>5, <3>1, TimesMonotone
    <3>3. R * s = s * R /\ p * s = s * p /\ s * R \in Nat /\ s * p \in Nat
      OBVIOUS
    <3> QED
      BY <3>1, <3>2, <3>3
  <2>13. SumFunctionOnSet(Shares(tasks), DOMAIN tasks)
           = Shares(tasks)[c] + SumFunctionOnSet(Shares(tasks), A)
    <3>1. PICK U \in SUBSET DOMAIN tasks : U = A \cup {c}
      BY <2>2, <2>6
    <3>2. \A i \in DOMAIN tasks : Shares(tasks)[i] \in Nat
      BY <1>3
    <3>3. \A i \in DOMAIN tasks \ U : Shares(tasks)[i] = 0
      BY <2>7, <3>1
    <3>4. SumFunctionOnSet(Shares(tasks), DOMAIN tasks) = SumFunctionOnSet(Shares(tasks), U)
      BY <1>4, <3>2, <3>3, SumSupport
    <3>5. SumFunctionOnSet(Shares(tasks), U)
            = Shares(tasks)[c] + SumFunctionOnSet(Shares(tasks), A)
      BY <2>2, <2>6, <2>9, <3>1, <3>2, SumAdd
    <3> QED
      BY <3>4, <3>5
  <2>14. PICK total \in Nat, own \in Nat, above \in Nat, work \in Nat, inter \in Nat, b \in Nat :
           /\ own = Shares(tasks)[c] /\ above = SumFunctionOnSet(Shares(tasks), A)
           /\ total = own + above
           /\ work = tasks[c].wcet /\ b = tasks[c].blocking /\ inter = SumFunctionOnSet(W, A)
           /\ R = work + b + inter
    <3>1. Shares(tasks)[c] \in Nat /\ tasks[c].wcet \in Nat /\ tasks[c].blocking \in Nat
      BY <1>3, <2>2, <2>4, DecidableNumbers
    <3>2. SumFunctionOnSet(Shares(tasks), A) \in Nat /\ SumFunctionOnSet(W, A) \in Nat
      <4>1. \A j \in A : Shares(tasks)[j] \in Nat
        BY <1>3, <2>6
      <4> QED
        BY <2>9, <4>1, SumNat
    <3>3. R = tasks[c].wcet + tasks[c].blocking + SumFunctionOnSet(W, A)
      BY <2>3, <2>6, <2>8 DEF Exact
    <3> QED
      BY <3>1, <3>2, <3>3
  <2>15. total <= Million
    <3>1. PICK m \in Nat : m = Million /\ above * R <= inter * m /\ own * R <= work * m
      BY <2>11, <2>12, <2>14, MillionAssumption, Zenon
    <3>2. (own + above) * R = own * R + above * R /\ (work + inter) * m = work * m + inter * m
      OBVIOUS
    <3>3. own * R \in Nat /\ above * R \in Nat /\ work * m \in Nat /\ inter * m \in Nat
      OBVIOUS
    <3>4. total * R <= (work + inter) * m
      <4>1. own * R + above * R <= work * m + inter * m
        BY <3>1, <3>3
      <4> QED
        BY <2>14, <3>2, <4>1, Zenon
    <3>5. (work + inter) * m <= R * m
      <4>1. PICK h \in Nat : h = work + inter /\ h <= R
        BY <2>14
      <4>2. h * m <= R * m
        BY <4>1, TimesMonotone
      <4> QED
        BY <4>1, <4>2
    <3>6. SUFFICES ASSUME m + 1 <= total PROVE FALSE
      BY <3>1
    <3>7. (m + 1) * R <= total * R
      BY <3>6, TimesMonotone
    <3>8. (m + 1) * R = R * m + R /\ R * m \in Nat /\ total * R \in Nat /\ (work + inter) * m \in Nat
      OBVIOUS
    <3> QED
      BY <2>5, <3>4, <3>5, <3>7, <3>8
  <2> QED
    BY <1>2, <2>13, <2>14, <2>15 DEF AllBounded
<1> QED
  BY <1>6, <1>7

\* A task set that asks for more than the whole CPU is never called
\* schedulable, though utilisation and verdicts are computed apart from each
\* other, each with its own rounding and saturation.
THEOREM OverloadNotSchedulable ==
  ASSUME \A ts \in TaskSets : Reachable(ts)
  PROVE  Spec => []OverloadNeverSchedulable
<1>1. Init => UtilInv
  <2> SUFFICES ASSUME Init PROVE utilisation <= SumFunctionOnSet(Shares(tasks), Counted)
    BY DEF UtilInv
  <2>1. Counted = {} /\ utilisation = 0
    <3>1. pc = "task" /\ cursor = 1 /\ utilisation = 0
      BY DEF Init
    <3>2. Counted = 1 .. (cursor - 1)
      BY <3>1 DEF Counted
    <3>3. 1 .. (cursor - 1) = {}
      BY <3>1
    <3> QED
      BY <3>1, <3>2, <3>3
  <2>2. SumFunctionOnSet(Shares(tasks), {}) = 0
    BY SumEmpty
  <2> QED
    BY <2>1, <2>2
<1>2. TypeOK /\ AnswerInv /\ VerdictInv /\ UtilInv => OverloadNeverSchedulable
  <2> SUFFICES ASSUME TypeOK, AnswerInv, VerdictInv, UtilInv, pc = "done", Validated(tasks),
                      DistinctPriorities(tasks), IsSchedulable(verdicts)
               PROVE  ~(utilisation > Million)
    BY DEF OverloadNeverSchedulable
  <2>1. /\ tasks \in Seq(TaskTiming) /\ verdicts \in Seq(Verdict) /\ Len(verdicts) = Len(tasks)
        /\ Len(verdicts) = cursor - 1 /\ cursor \in Nat /\ utilisation \in Nat
    <3>1. tasks \in Seq(TaskTiming) /\ cursor \in 1 .. Len(tasks) + 1 /\ utilisation \in U64
      BY DEF TypeOK
    <3>2. cursor \in Nat /\ utilisation \in Nat
      BY <3>1, Numbers
    <3> QED
      BY <3>1, <3>2 DEF TypeOK, AnswerInv
  <2>2. DOMAIN tasks = DOMAIN verdicts /\ DOMAIN tasks = 1 .. Len(tasks) /\ IsFiniteSet(DOMAIN tasks)
    <3>1. DOMAIN tasks = DOMAIN verdicts /\ DOMAIN tasks = 1 .. Len(tasks) /\ Len(tasks) \in Int
      <4>1. tasks \in Seq(TaskTiming) => DOMAIN tasks = 1 .. Len(tasks) /\ Len(tasks) \in Int
        OBVIOUS
      <4>2. verdicts \in Seq(Verdict) => DOMAIN verdicts = 1 .. Len(verdicts)
        OBVIOUS
      <4> QED
        BY <2>1, <4>1, <4>2, Zenon
    <3>2. IsFiniteSet(1 .. Len(tasks))
      <4>1. 1 \in Int
        OBVIOUS
      <4> QED
        BY <3>1, <4>1, FS_Interval, Zenon
    <3> QED
      BY <3>1, <3>2, Zenon
  <2>3. ASSUME NEW i \in DOMAIN tasks
        PROVE  /\ Decidable(tasks, i)
               /\ \E q \in Nat : q <= DeadlineOf(tasks[i]) /\ Exact(tasks, i, q) = q
    <3>1. verdicts[i].kind = "pass" /\ Sound(tasks, i, verdicts[i])
      BY <2>2 DEF IsSchedulable, IsPass, VerdictInv
    <3> QED
      BY <3>1 DEF Sound
  <2>4. AllBounded /\ SumFunctionOnSet(Shares(tasks), DOMAIN tasks) <= Million
    BY <2>1, <2>3, SharesFit
  <2>5. Counted = DOMAIN tasks
    BY <2>1, <2>2 DEF Counted
  <2>6. utilisation <= SumFunctionOnSet(Shares(tasks), DOMAIN tasks)
    BY <2>4, <2>5 DEF UtilInv
  <2>7. SumFunctionOnSet(Shares(tasks), DOMAIN tasks) \in Nat
    <3>1. \A i \in DOMAIN tasks : Shares(tasks)[i] \in Nat
      BY <2>1, <2>4, BoundedNumbers DEF AllBounded
    <3> QED
      BY <2>2, <3>1, SumNat
  <2> QED
    BY <2>1, <2>4, <2>6, <2>7, MillionAssumption
<1> QED
  BY <1>1, <1>2, UtilStep, TypeCorrect, AnswersDeclared, VerdictsCorrect, PTL DEF Spec
=============================================================================
