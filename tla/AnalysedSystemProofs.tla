------------------------ MODULE AnalysedSystemProofs ------------------------
(***************************************************************************)
(* That the verdicts of the analysis are true of the execution: for every  *)
(* set of tasks, every width of the integers, every iteration bound and    *)
(* every execution the policy allows.                                      *)
(*                                                                         *)
(* The argument is the one of the busy period.  From the last moment at    *)
(* which neither a task nor any task above it had work, every tick goes to *)
(* work of theirs, and all of it was released since; so if it lasted for   *)
(* the response time R, the work released in R ticks would exceed R, which *)
(* is the fixed point the analysis computed.                               *)
(***************************************************************************)
EXTENDS AnalysedSystem, ResponseTimeProofs, SequenceTheorems

-----------------------------------------------------------------------------
(* Two facts about data.                                                    *)

\* Taking one element out of a sequence.
LEMMA WithoutOne ==
  ASSUME NEW S, NEW s \in Seq(S), NEW i \in 1 .. Len(s)
  PROVE  /\ RemoveAt(s, i) \in Seq(S)
         /\ Len(RemoveAt(s, i)) = Len(s) - 1
         /\ \A j \in 1 .. Len(s) - 1 : RemoveAt(s, i)[j] = IF j < i THEN s[j] ELSE s[j + 1]
<1>0. Len(s) \in Nat /\ i \in Nat /\ i >= 1 /\ i <= Len(s)
  OBVIOUS
<1> DEFINE a == SubSeq(s, 1, i - 1)
           b == SubSeq(s, i + 1, Len(s))
<1>1. a \in Seq(S) /\ Len(a) = i - 1 /\ \A j \in 1 .. i - 1 : a[j] = s[j]
  BY <1>0
<1>2. b \in Seq(S) /\ Len(b) = Len(s) - i /\ \A j \in 1 .. Len(s) - i : b[j] = s[i + j]
  <2>1. b \in Seq(S)
    BY <1>0
  <2>2. Len(b) = Len(s) - i
    BY <1>0
  <2>3. \A j \in 1 .. Len(s) - i : b[j] = s[i + j]
    BY <1>0
  <2> QED
    BY <2>1, <2>2, <2>3
<1> HIDE DEF a, b
<1>3. /\ a \o b \in Seq(S)
      /\ Len(a \o b) = Len(a) + Len(b)
      /\ \A j \in 1 .. Len(a) + Len(b) : (a \o b)[j] = IF j <= Len(a) THEN a[j] ELSE b[j - Len(a)]
  BY <1>1, <1>2, ConcatProperties, Zenon
<1>4. Len(a \o b) = Len(s) - 1
  BY <1>0, <1>1, <1>2, <1>3
<1>5. ASSUME NEW j \in 1 .. Len(s) - 1
        PROVE  (a \o b)[j] = IF j < i THEN s[j] ELSE s[j + 1]
  <2>1. j \in Nat /\ j >= 1 /\ j <= Len(s) - 1 /\ j \in 1 .. Len(a) + Len(b)
    BY <1>0, <1>1, <1>2
  <2>2. (a \o b)[j] = IF j <= Len(a) THEN a[j] ELSE b[j - Len(a)]
    BY <1>3, <2>1
  <2>3. CASE j < i
    <3>1. j \in 1 .. i - 1 /\ j <= Len(a)
      BY <2>1, <2>3, <1>0, <1>1
    <3> QED
      BY <2>2, <2>3, <3>1, <1>1
  <2>4. CASE ~(j < i)
    <3>1. /\ j - (i - 1) \in 1 .. Len(s) - i /\ ~(j <= Len(a))
          /\ i + (j - (i - 1)) = j + 1 /\ Len(a) = i - 1
      BY <2>1, <2>4, <1>0, <1>1
    <3>2. b[j - (i - 1)] = s[j + 1]
      BY <3>1, <1>2
    <3> QED
      BY <2>2, <2>4, <3>1, <3>2
  <2> QED
    BY <2>3, <2>4
<1>6. RemoveAt(s, i) = a \o b
  BY DEF RemoveAt, a, b
<1> QED
  BY <1>3, <1>4, <1>5, <1>6

\* Taking one element out of a sequence without repetitions.
LEMMA Removed ==
  ASSUME NEW S, NEW s \in Seq(S), NEW i \in 1 .. Len(s),
         \A j, k \in DOMAIN s : s[j] = s[k] => j = k
  PROVE  /\ RemoveAt(s, i) \in Seq(S)
         /\ \A j, k \in DOMAIN RemoveAt(s, i) : RemoveAt(s, i)[j] = RemoveAt(s, i)[k] => j = k
         /\ {RemoveAt(s, i)[j] : j \in DOMAIN RemoveAt(s, i)} = {s[j] : j \in DOMAIN s} \ {s[i]}
<1>0. Len(s) \in Nat /\ i \in Nat /\ i >= 1 /\ i <= Len(s) /\ DOMAIN s = 1 .. Len(s)
  OBVIOUS
<1> DEFINE r == RemoveAt(s, i)
<1>3. r \in Seq(S) /\ Len(r) = Len(s) - 1
      /\ \A j \in 1 .. Len(s) - 1 : r[j] = IF j < i THEN s[j] ELSE s[j + 1]
  BY WithoutOne
<1> HIDE DEF r
<1>4. DOMAIN r = 1 .. Len(s) - 1
  BY <1>3
<1>5. ASSUME NEW j \in DOMAIN r, NEW k \in DOMAIN r, r[j] = r[k] PROVE j = k
  <2>1. /\ j \in Nat /\ k \in Nat /\ j \in DOMAIN s /\ k \in DOMAIN s
        /\ j + 1 \in DOMAIN s /\ k + 1 \in DOMAIN s
    BY <1>0, <1>4
  <2>2. /\ r[j] = IF j < i THEN s[j] ELSE s[j + 1]
        /\ r[k] = IF k < i THEN s[k] ELSE s[k + 1]
    BY <1>3, <1>4
  <2>3. CASE j < i /\ k < i
    BY <1>5, <2>1, <2>2, <2>3
  <2>4. CASE j < i /\ ~(k < i)
    <3>1. j = k + 1
      BY <1>5, <2>1, <2>2, <2>4
    <3> QED
      BY <1>0, <2>1, <2>4, <3>1
  <2>5. CASE ~(j < i) /\ k < i
    <3>1. k = j + 1
      BY <1>5, <2>1, <2>2, <2>5
    <3> QED
      BY <1>0, <2>1, <2>5, <3>1
  <2>6. CASE ~(j < i) /\ ~(k < i)
    <3>1. j + 1 = k + 1
      BY <1>5, <2>1, <2>2, <2>6
    <3> QED
      BY <2>1, <3>1
  <2> QED
    BY <2>3, <2>4, <2>5, <2>6
<1>6. ASSUME NEW j \in DOMAIN r PROVE r[j] \in {s[k] : k \in DOMAIN s} \ {s[i]}
  <2>1. j \in Nat /\ j \in DOMAIN s /\ j + 1 \in DOMAIN s /\ i \in DOMAIN s
    BY <1>0, <1>4
  <2>2. r[j] = IF j < i THEN s[j] ELSE s[j + 1]
    BY <1>3, <1>4
  <2>3. CASE j < i
    BY <1>0, <2>1, <2>2, <2>3
  <2>4. CASE ~(j < i)
    <3>1. j + 1 # i
      BY <1>0, <2>1, <2>4
    <3> QED
      BY <2>1, <2>2, <2>4, <3>1
  <2> QED
    BY <2>3, <2>4
<1>7. ASSUME NEW k \in DOMAIN s, s[k] # s[i] PROVE \E j \in DOMAIN r : r[j] = s[k]
  <2>1. k \in Nat /\ k >= 1 /\ k <= Len(s) /\ k # i
    BY <1>0, <1>7
  <2>2. CASE k < i
    <3>1. k \in DOMAIN r
      BY <1>0, <1>4, <2>1, <2>2
    <3> QED
      BY <1>3, <1>4, <2>2, <3>1
  <2>3. CASE ~(k < i)
    <3>1. k - 1 \in DOMAIN r /\ ~(k - 1 < i) /\ (k - 1) + 1 = k
      BY <1>0, <1>4, <2>1, <2>3
    <3> QED
      BY <1>3, <1>4, <3>1
  <2> QED
    BY <2>2, <2>3
<1>8. {r[j] : j \in DOMAIN r} = {s[j] : j \in DOMAIN s} \ {s[i]}
  BY <1>6, <1>7
<1> QED
  BY <1>3, <1>5, <1>8 DEF r

\* Among finitely many there is one with the greatest number.
LEMMA Greatest ==
  ASSUME NEW S, IsFiniteSet(S), S # {}, NEW f, \A x \in S : f[x] \in Nat
  PROVE  \E m \in S : \A x \in S : f[x] <= f[m]
<1> DEFINE G == {T \in SUBSET S : T = {} \/ \E m \in T : \A x \in T : f[x] <= f[m]}
<1>1. {} \in G
  OBVIOUS
<1>2. ASSUME NEW T \in SUBSET S, NEW y \in S \ T, T \in G PROVE T \cup {y} \in G
  <2>1. CASE T = {}
    <3>1. \A x \in T \cup {y} : f[x] <= f[y]
      BY <2>1
    <3> QED
      BY <3>1
  <2>2. CASE T # {}
    <3>1. PICK m \in T : \A x \in T : f[x] <= f[m]
      BY <1>2, <2>2
    <3>2. f[m] \in Nat /\ f[y] \in Nat
      OBVIOUS
    <3>3. CASE f[m] <= f[y]
      <4>1. \A x \in T \cup {y} : f[x] <= f[y]
        BY <3>1, <3>2, <3>3
      <4> QED
        BY <4>1
    <3>4. CASE ~(f[m] <= f[y])
      <4>1. \A x \in T \cup {y} : f[x] <= f[m]
        BY <3>1, <3>2, <3>4
      <4> QED
        BY <4>1
    <3> QED
      BY <3>3, <3>4
  <2> QED
    BY <2>1, <2>2
<1>3. S \in G
  <2> HIDE DEF G
  <2> QED
    BY <1>1, <1>2, SetInduction
<1> QED
  BY <1>3

-----------------------------------------------------------------------------
(* The contracts, and who is dispatched.                                    *)

LEMMA Contracts ==
  ASSUME tasks \in TaskSets
  PROVE  /\ tasks \in Seq(TaskTiming) /\ Len(tasks) \in Nat /\ Tasks = 1 .. Len(tasks)
         /\ \A t \in Tasks :
              /\ tasks[t].wcet \in Nat /\ tasks[t].wcet >= 1
              /\ tasks[t].period \in Nat /\ tasks[t].period >= 1 /\ tasks[t].period < MaxAge
              /\ DeadlineOf(tasks[t]) \in Nat /\ DeadlineOf(tasks[t]) <= tasks[t].period
              /\ tasks[t].priority \in Nat /\ tasks[t].blocking \in Nat
              /\ Decidable(tasks, t)
<1>1. tasks \in Seq(TaskTiming) /\ Executable(tasks)
  BY TaskSetAssumption, ExecutionAssumption
<1>2. Len(tasks) \in Nat /\ Tasks = 1 .. Len(tasks)
  BY <1>1 DEF Tasks
<1>3. ASSUME NEW t \in Tasks
      PROVE  /\ tasks[t].wcet \in Nat /\ tasks[t].wcet >= 1
             /\ tasks[t].period \in Nat /\ tasks[t].period >= 1 /\ tasks[t].period < MaxAge
             /\ DeadlineOf(tasks[t]) \in Nat /\ DeadlineOf(tasks[t]) <= tasks[t].period
             /\ tasks[t].priority \in Nat /\ tasks[t].blocking \in Nat
  <2>1. tasks[t] \in TaskTiming
    BY <1>1, <1>2
  <2>2. /\ tasks[t].wcet \in OptU64 /\ tasks[t].period \in OptU64 /\ tasks[t].deadline \in OptU64
        /\ tasks[t].priority \in Nat /\ tasks[t].blocking \in U64
    BY <2>1 DEF TaskTiming
  <2>3. /\ tasks[t].wcet # None /\ tasks[t].wcet > 0
        /\ tasks[t].period # None /\ tasks[t].period > 0 /\ tasks[t].period < MaxAge
        /\ tasks[t].deadline # None => tasks[t].deadline <= tasks[t].period
    BY <1>1 DEF Executable, Validated, Declared, Tasks
  <2>4. /\ tasks[t].wcet \in Nat /\ tasks[t].period \in Nat /\ tasks[t].blocking \in Nat
        /\ tasks[t].deadline # None => tasks[t].deadline \in Nat
    BY <2>2, <2>3, WidthAssumption DEF OptU64, U64
  <2> QED
    BY <2>2, <2>3, <2>4 DEF DeadlineOf
<1>4. ASSUME NEW t \in Tasks PROVE Decidable(tasks, t)
  <2>1. \A j \in Tasks : Bounded(tasks[j])
    BY <1>1, <1>3 DEF Executable, Bounded, Tasks
  <2>2. Above(tasks, t) \subseteq Tasks
    BY <1>2 DEF Above
  <2> QED
    BY <2>1, <2>2 DEF Decidable, Bounded
<1> QED
  BY <1>1, <1>2, <1>3, <1>4

\* A task and those above it.
Level(ts, t) == Above(ts, t) \cup {t}

LEMMA Levels ==
  ASSUME tasks \in TaskSets, NEW t \in Tasks
  PROVE  /\ Level(tasks, t) \subseteq Tasks /\ IsFiniteSet(Level(tasks, t))
         /\ t \in Level(tasks, t) /\ t \notin Above(tasks, t)
         /\ Above(tasks, t) \subseteq Level(tasks, t) /\ IsFiniteSet(Above(tasks, t))
         /\ Level(tasks, t) \ {t} = Above(tasks, t)
         /\ DistinctPriorities(tasks) =>
              \A j \in Level(tasks, t), d \in Tasks :
                tasks[j].priority <= tasks[d].priority => d \in Level(tasks, t)
<1>1. Tasks = 1 .. Len(tasks) /\ Len(tasks) \in Nat /\ \A j \in Tasks : tasks[j].priority \in Nat
  BY Contracts
<1>2. Level(tasks, t) \subseteq Tasks /\ Above(tasks, t) \subseteq Tasks /\ t \notin Above(tasks, t)
  BY <1>1 DEF Level, Above, Preempts
<1>3. IsFiniteSet(Tasks)
  BY <1>1, FS_Interval
<1>4. IsFiniteSet(Level(tasks, t)) /\ IsFiniteSet(Above(tasks, t))
  BY <1>2, <1>3, FS_Subset
<1>5. ASSUME DistinctPriorities(tasks), NEW j \in Level(tasks, t), NEW d \in Tasks,
             tasks[j].priority <= tasks[d].priority
      PROVE  d \in Level(tasks, t)
  <2>1. j \in Tasks /\ tasks[t].priority <= tasks[j].priority
    BY <1>1, <1>2 DEF Level, Above, Preempts
  <2>2. tasks[t].priority <= tasks[d].priority
    BY <1>1, <1>5, <2>1
  <2>3. CASE d = t
    BY <2>3 DEF Level
  <2>4. CASE d # t
    <3>1. tasks[d].priority # tasks[t].priority
      BY <1>5, <2>4 DEF DistinctPriorities, Tasks
    <3>2. tasks[d].priority > tasks[t].priority
      BY <1>1, <2>2, <3>1
    <3>3. tasks[d].name # tasks[t].name
      BY <2>4, ExecutionAssumption DEF Executable, Validated, Tasks
    <3> QED
      BY <1>1, <3>2, <3>3 DEF Level, Above, Preempts
  <2> QED
    BY <2>3, <2>4
<1> QED
  BY <1>2, <1>4, <1>5 DEF Level

-----------------------------------------------------------------------------
(* The state of the execution.                                              *)

SystemInv ==
  /\ tasks \in TaskSets
  /\ critical \in BOOLEAN
  /\ ready \in Seq(Tasks)
  /\ remaining \in [Tasks -> Nat] /\ age \in [Tasks -> Nat] /\ first \in [Tasks -> Nat]
  /\ SystemTypeOK

\* The dispatched task is ready, and none that is ready is more urgent.
LEMMA Dispatch ==
  ASSUME SystemInv, ready # <<>>
  PROVE  /\ Turn \in 1 .. Len(ready) /\ Dispatched \in Ready /\ Dispatched \in Tasks
         /\ \A o \in Ready : tasks[o].priority <= tasks[Dispatched].priority
<1>1. /\ ready \in Seq(Tasks) /\ Len(ready) \in Nat /\ DOMAIN ready = 1 .. Len(ready)
      /\ Len(ready) # 0 /\ tasks \in TaskSets
  BY DEF SystemInv
<1>2. Ready \subseteq Tasks /\ ready[1] \in Ready
  BY <1>1 DEF Ready
<1>3. IsFiniteSet(Ready)
  <2>1. Tasks = 1 .. Len(tasks) /\ Len(tasks) \in Nat
    BY <1>1, Contracts
  <2>2. IsFiniteSet(Tasks)
    BY <2>1, FS_Interval
  <2> QED
    BY <1>2, <2>2, FS_Subset
<1> DEFINE f == [t \in Tasks |-> tasks[t].priority]
<1>4. \A t \in Ready : f[t] \in Nat
  BY <1>1, <1>2, Contracts
<1>5. PICK m \in Ready : \A t \in Ready : f[t] <= f[m]
  <2> HIDE DEF f
  <2> QED
    BY <1>2, <1>3, <1>4, Greatest
<1>6. \A t \in Ready : tasks[t].priority \in Nat /\ tasks[t].priority <= tasks[m].priority
  BY <1>2, <1>4, <1>5
<1>7. Highest(ReadyLevels) = tasks[m].priority
  <2>1. tasks[m].priority \in ReadyLevels /\ \A q \in ReadyLevels : q <= tasks[m].priority
    BY <1>6 DEF ReadyLevels
  <2>2. \A p \in ReadyLevels : p \in Nat
    BY <1>6 DEF ReadyLevels
  <2>3. \A p \in ReadyLevels : (\A q \in ReadyLevels : q <= p) => p = tasks[m].priority
    BY <2>1, <2>2
  <2> QED
    BY <2>1, <2>3 DEF Highest
<1> DEFINE N == {i \in 1 .. Len(ready) : tasks[ready[i]].priority = Highest(ReadyLevels)}
<1>8. PICK i \in N : \A n \in N : i <= n
  <2>1. PICK n \in 1 .. Len(ready) : ready[n] = m
    BY <1>1 DEF Ready
  <2>2. N \in SUBSET Nat /\ N # {}
    BY <1>1, <1>7, <2>1
  <2> HIDE DEF N
  <2> QED
    BY <2>2, Least
<1>9. /\ i \in DOMAIN ready /\ tasks[ready[i]].priority = Highest(ReadyLevels)
      /\ \A j \in 1 .. (i - 1) : tasks[ready[j]].priority # Highest(ReadyLevels)
  <2>1. i \in Nat /\ i >= 1 /\ i <= Len(ready)
    BY <1>1, <1>8
  <2>2. ASSUME NEW j \in 1 .. (i - 1) PROVE tasks[ready[j]].priority # Highest(ReadyLevels)
    <3>1. j \in 1 .. Len(ready) /\ j \in Nat /\ ~(i <= j)
      BY <1>1, <2>1
    <3> QED
      BY <1>8, <3>1
  <2> QED
    BY <1>1, <1>8, <2>2
<1>10. /\ Turn \in DOMAIN ready /\ tasks[ready[Turn]].priority = Highest(ReadyLevels)
  BY <1>9 DEF Turn
<1>11. Dispatched \in Ready
  BY <1>10 DEF Dispatched, Ready
<1> QED
  BY <1>1, <1>2, <1>6, <1>7, <1>10, <1>11 DEF Dispatched

-----------------------------------------------------------------------------
(* What a step does.                                                        *)

LEMMA Steps ==
  ASSUME SystemInv, [SystemNext]_SystemVars
  PROVE  /\ tasks' = tasks /\ critical' = critical
         /\ \/ UNCHANGED execution
            \/ \E t \in Tasks : \E work \in 1 .. tasks[t].wcet :
                 /\ Release(t, work) /\ first' = first
                 /\ critical => work = tasks[t].wcet
            \/ /\ Tick
               /\ ~critical => first' = first
               /\ critical =>
                    /\ DueNow = {}
                    /\ first' = [t \in Tasks |-> IF Completes(t) /\ first[t] = 0
                                                 THEN Older(t) ELSE first[t]]
<1>1. CASE Analyse
  BY <1>1 DEF Analyse, execution, Next, BeginTask, PushVerdict, Finish, GatherOther,
              StartRecurrence, AddInterferer, Converge, CrossDeadline, Iterate
<1>2. CASE Execute
  <2>1. tasks' = tasks /\ critical' = critical /\ first' = first /\ ~critical
    BY <1>2 DEF Execute, vars
  <2>2. Tick \/ \E t \in Tasks : \E work \in 1 .. tasks[t].wcet : Release(t, work)
    BY <1>2 DEF Execute
  <2> QED
    BY <2>1, <2>2
<1>3. CASE ExecuteCritically
  <2>1. tasks' = tasks /\ critical' = critical /\ critical
    BY <1>3 DEF ExecuteCritically, vars
  <2>2. CASE /\ DueNow = {} /\ Tick
             /\ first' = [t \in Tasks |-> IF Completes(t) /\ first[t] = 0
                                          THEN Older(t) ELSE first[t]]
    BY <2>1, <2>2
  <2>3. CASE \E t \in DueNow : Release(t, tasks[t].wcet) /\ UNCHANGED first
    <3>1. PICK t \in DueNow : Release(t, tasks[t].wcet) /\ UNCHANGED first
      BY <2>3
    <3>2. t \in Tasks
      BY DEF DueNow
    <3>3. tasks[t].wcet \in 1 .. tasks[t].wcet
      BY <3>2, Contracts DEF SystemInv
    <3> QED
      BY <2>1, <3>1, <3>2, <3>3
  <2> QED
    BY <1>3, <2>2, <2>3 DEF ExecuteCritically
<1>4. CASE UNCHANGED SystemVars
  BY <1>4 DEF SystemVars, execution, vars
<1> QED
  BY <1>1, <1>2, <1>3, <1>4 DEF SystemNext

LEMMA ReleaseFacts ==
  ASSUME SystemInv, NEW t \in Tasks, NEW work, Release(t, work)
  PROVE  /\ t \notin Ready /\ remaining[t] = 0 /\ age[t] >= tasks[t].period
         /\ ready' \in Seq(Tasks) /\ Ready' = Ready \cup {t}
         /\ \A i, j \in DOMAIN ready' : ready'[i] = ready'[j] => i = j
         /\ remaining' = [remaining EXCEPT ![t] = work]
         /\ age' = [age EXCEPT ![t] = 0]
<1>1. /\ t \notin Ready /\ age[t] >= tasks[t].period /\ ready' = Append(ready, t)
      /\ remaining' = [remaining EXCEPT ![t] = work]
      /\ age' = [age EXCEPT ![t] = 0]
  BY DEF Release, Due
<1>2. /\ ready \in Seq(Tasks) /\ Len(ready) \in Nat /\ DOMAIN ready = 1 .. Len(ready)
      /\ \A i, j \in DOMAIN ready : ready[i] = ready[j] => i = j
  BY DEF SystemInv, SystemTypeOK
<1>3. /\ ready' \in Seq(Tasks) /\ DOMAIN ready' = 1 .. Len(ready) + 1
      /\ \A i \in DOMAIN ready : ready'[i] = ready[i]
      /\ ready'[Len(ready) + 1] = t
  BY <1>1, <1>2
<1>4. \A i \in DOMAIN ready' : i \in DOMAIN ready \/ i = Len(ready) + 1
  BY <1>2, <1>3
<1>5. \A i \in DOMAIN ready : ready[i] \in Ready /\ ready[i] # t
  BY <1>1 DEF Ready
<1>6. \A i, j \in DOMAIN ready' : ready'[i] = ready'[j] => i = j
  BY <1>2, <1>3, <1>4, <1>5
<1>7. Ready' = Ready \cup {t}
  <2>1. Ready' = {ready'[i] : i \in DOMAIN ready'}
    BY DEF Ready
  <2>2. \A i \in DOMAIN ready : i \in DOMAIN ready'
    BY <1>2, <1>3
  <2>3. Len(ready) + 1 \in DOMAIN ready'
    BY <1>2, <1>3
  <2> QED
    BY <1>3, <1>4, <2>1, <2>2, <2>3 DEF Ready
<1>8. remaining[t] = 0
  BY <1>1 DEF SystemInv, SystemTypeOK
<1> QED
  BY <1>1, <1>3, <1>6, <1>7, <1>8

LEMMA TickFacts ==
  ASSUME SystemInv, Tick
  PROVE  /\ ready' \in Seq(Tasks) /\ Ready' \subseteq Ready
         /\ \A i, j \in DOMAIN ready' : ready'[i] = ready'[j] => i = j
         /\ age' = [t \in Tasks |-> Older(t)]
         /\ \A t \in Tasks : Older(t) \in 1 .. MaxAge /\ Older(t) <= age[t] + 1
         /\ ready = <<>> => Ready = {} /\ remaining' = remaining
         /\ ready # <<>> =>
              /\ remaining' = [remaining EXCEPT ![Dispatched] = @ - 1]
              /\ remaining[Dispatched] >= 1
              /\ Ready' = IF remaining[Dispatched] > 1 THEN Ready ELSE Ready \ {Dispatched}
<1>1. /\ ready \in Seq(Tasks) /\ tasks \in TaskSets
      /\ \A i, j \in DOMAIN ready : ready[i] = ready[j] => i = j
      /\ \A t \in Tasks : /\ age[t] \in Nat /\ age[t] <= MaxAge
                          /\ remaining[t] \in Nat /\ remaining[t] > 0 <=> t \in Ready
  BY DEF SystemInv, SystemTypeOK
<1>2. age' = [t \in Tasks |-> Older(t)]
  BY DEF Tick
<1>3. ASSUME NEW t \in Tasks PROVE Older(t) \in 1 .. MaxAge /\ Older(t) <= age[t] + 1
  <2>1. /\ tasks[t].period \in Nat /\ tasks[t].period >= 1 /\ tasks[t].period < MaxAge
        /\ age[t] \in Nat /\ age[t] <= MaxAge /\ MaxAge \in Nat
    BY <1>1, Contracts, AgeAssumption
  <2> QED
    BY <2>1 DEF Older
<1>4. CASE ready = <<>>
  <2>1. ready' = <<>> /\ remaining' = remaining
    BY <1>4 DEF Tick
  <2>2. Ready = {} /\ Ready' = {}
    BY <1>4, <2>1 DEF Ready
  <2> QED
    BY <1>1, <1>2, <1>3, <1>4, <2>1, <2>2
<1>5. CASE ready # <<>>
  <2>1. Turn \in 1 .. Len(ready) /\ Dispatched \in Ready /\ Dispatched \in Tasks
    BY <1>5, Dispatch
  <2>2. remaining[Dispatched] >= 1
    BY <1>1, <2>1
  <2>3. /\ remaining' = [remaining EXCEPT ![Dispatched] = @ - 1]
        /\ ready' = IF remaining[Dispatched] > 1 THEN ready ELSE RemoveAt(ready, Turn)
    BY <1>5 DEF Tick
  <2>4. CASE remaining[Dispatched] > 1
    <3>1. ready' = ready
      BY <2>3, <2>4
    <3>2. Ready' = Ready
      BY <3>1 DEF Ready
    <3> QED
      BY <1>1, <1>2, <1>3, <1>5, <2>2, <2>3, <2>4, <3>1, <3>2
  <2>5. CASE ~(remaining[Dispatched] > 1)
    <3>1. ready' = RemoveAt(ready, Turn)
      BY <2>3, <2>5
    <3>2. /\ RemoveAt(ready, Turn) \in Seq(Tasks)
          /\ \A j, k \in DOMAIN RemoveAt(ready, Turn) :
               RemoveAt(ready, Turn)[j] = RemoveAt(ready, Turn)[k] => j = k
          /\ {RemoveAt(ready, Turn)[j] : j \in DOMAIN RemoveAt(ready, Turn)}
               = {ready[j] : j \in DOMAIN ready} \ {ready[Turn]}
      BY <1>1, <2>1, Removed, Zenon
    <3>3. Ready' = Ready \ {Dispatched}
      BY <3>1, <3>2, Zenon DEF Ready, Dispatched
    <3> QED
      BY <1>2, <1>3, <1>5, <2>2, <2>3, <2>5, <3>1, <3>2, <3>3
  <2> QED
    BY <2>4, <2>5
<1> QED
  BY <1>4, <1>5

LEMMA SystemStep == SystemInv /\ [SystemNext]_SystemVars => SystemInv'
<1> SUFFICES ASSUME SystemInv, [SystemNext]_SystemVars
             PROVE  SystemInv'
  OBVIOUS
<1>1. tasks' = tasks /\ critical' = critical /\ Tasks' = Tasks
  BY Steps DEF Tasks
<1>2. /\ tasks \in TaskSets /\ critical \in BOOLEAN /\ MaxAge \in Nat
      /\ remaining \in [Tasks -> Nat] /\ age \in [Tasks -> Nat] /\ first \in [Tasks -> Nat]
      /\ Ready \subseteq Tasks
      /\ \A t \in Tasks : /\ remaining[t] <= tasks[t].wcet
                          /\ remaining[t] > 0 <=> t \in Ready
                          /\ age[t] <= MaxAge /\ first[t] <= MaxAge
                          /\ tasks[t].wcet \in Nat
  BY Contracts, AgeAssumption DEF SystemInv, SystemTypeOK
<1> DEFINE Fine ==
      /\ ready' \in Seq(Tasks)
      /\ \A i, j \in DOMAIN ready' : ready'[i] = ready'[j] => i = j
      /\ Ready' \subseteq Tasks
      /\ remaining' \in [Tasks -> Nat] /\ age' \in [Tasks -> Nat] /\ first' \in [Tasks -> Nat]
      /\ \A t \in Tasks : /\ remaining'[t] <= tasks[t].wcet
                          /\ remaining'[t] > 0 <=> t \in Ready'
                          /\ age'[t] <= MaxAge /\ first'[t] <= MaxAge
<1>3. CASE UNCHANGED execution
  <2>1. Ready' = Ready
    BY <1>3 DEF execution, Ready
  <2> QED
    BY <1>1, <1>3, <2>1 DEF execution, SystemInv, SystemTypeOK
<1>4. ASSUME NEW t \in Tasks, NEW work \in 1 .. tasks[t].wcet, Release(t, work), first' = first
      PROVE  Fine
  <2>1. work \in Nat /\ work > 0 /\ work <= tasks[t].wcet
    BY <1>2
  <2>2. /\ ready' \in Seq(Tasks) /\ Ready' = Ready \cup {t}
        /\ \A i, j \in DOMAIN ready' : ready'[i] = ready'[j] => i = j
        /\ remaining' = [remaining EXCEPT ![t] = work]
        /\ age' = [age EXCEPT ![t] = 0]
    BY <1>4, ReleaseFacts
  <2>3. remaining' \in [Tasks -> Nat] /\ age' \in [Tasks -> Nat]
    BY <1>2, <2>1, <2>2
  <2>4. ASSUME NEW o \in Tasks
        PROVE  /\ remaining'[o] <= tasks[o].wcet
               /\ remaining'[o] > 0 <=> o \in Ready'
               /\ age'[o] <= MaxAge /\ first'[o] <= MaxAge
    BY <1>2, <1>4, <2>1, <2>2
  <2> QED
    BY <1>2, <1>4, <2>2, <2>3, <2>4
<1>5. ASSUME Tick, NEW g,
             first' = g, \A t \in Tasks : g[t] = first[t] \/ g[t] = Older(t), g \in [Tasks -> Nat]
      PROVE  Fine
  <2>1. /\ ready' \in Seq(Tasks) /\ Ready' \subseteq Ready
        /\ \A i, j \in DOMAIN ready' : ready'[i] = ready'[j] => i = j
        /\ age' = [t \in Tasks |-> Older(t)]
        /\ \A t \in Tasks : Older(t) \in Nat /\ Older(t) <= MaxAge
    BY <1>2, <1>5, TickFacts
  <2>2. age' \in [Tasks -> Nat] /\ \A t \in Tasks : age'[t] <= MaxAge
    BY <2>1
  <2>3. \A t \in Tasks : first'[t] <= MaxAge
    BY <1>2, <1>5, <2>1
  <2>4. CASE ready = <<>>
    <3>1. remaining' = remaining /\ Ready = {}
      BY <1>5, <2>4, TickFacts
    <3> QED
      BY <1>2, <1>5, <2>1, <2>2, <2>3, <3>1
  <2>5. CASE ready # <<>>
    <3>1. /\ remaining' = [remaining EXCEPT ![Dispatched] = @ - 1]
          /\ remaining[Dispatched] >= 1
          /\ Ready' = IF remaining[Dispatched] > 1 THEN Ready ELSE Ready \ {Dispatched}
      BY <1>5, <2>5, TickFacts
    <3>2. Dispatched \in Tasks /\ Dispatched \in Ready
      BY <2>5, Dispatch
    <3>3. remaining'[Dispatched] = remaining[Dispatched] - 1
          /\ \A o \in Tasks \ {Dispatched} : remaining'[o] = remaining[o]
      BY <1>2, <3>1, <3>2
    <3>4. remaining' \in [Tasks -> Nat]
      BY <1>2, <3>1, <3>2
    <3>5. ASSUME NEW o \in Tasks
          PROVE  remaining'[o] <= tasks[o].wcet /\ (remaining'[o] > 0 <=> o \in Ready')
      BY <1>2, <3>1, <3>2, <3>3
    <3> QED
      BY <1>2, <1>5, <2>1, <2>2, <2>3, <3>4, <3>5
  <2> QED
    BY <2>4, <2>5
<1>6. CASE Fine
  BY <1>1, <1>2, <1>6 DEF SystemInv, SystemTypeOK
<1>7. CASE Tick /\ ~critical /\ first' = first
  <2>1. Fine
    <3> HIDE DEF Fine
    <3> QED
      BY <1>2, <1>5, <1>7
  <2> QED
    BY <1>6, <2>1
<1>8. CASE Tick /\ first' = [t \in Tasks |-> IF Completes(t) /\ first[t] = 0
                                             THEN Older(t) ELSE first[t]]
  <2>1. \A t \in Tasks : Older(t) \in Nat
    BY <1>2, <1>8, TickFacts
  <2>2. PICK g : g = [t \in Tasks |-> IF Completes(t) /\ first[t] = 0
                                      THEN Older(t) ELSE first[t]]
    OBVIOUS
  <2>3. g \in [Tasks -> Nat] /\ \A t \in Tasks : g[t] = first[t] \/ g[t] = Older(t)
    BY <1>2, <2>1, <2>2
  <2>4. Fine
    <3> HIDE DEF Fine
    <3> QED
      BY <1>5, <1>8, <2>2, <2>3
  <2> QED
    BY <1>6, <2>4
<1>9. CASE \E t \in Tasks : \E work \in 1 .. tasks[t].wcet : Release(t, work) /\ first' = first
  <2>1. Fine
    <3> HIDE DEF Fine
    <3> QED
      BY <1>4, <1>9
  <2> QED
    BY <1>6, <2>1
<1> HIDE DEF Fine
<1> QED
  BY <1>3, <1>7, <1>8, <1>9, Steps

\* The execution starts idle, and every step keeps its types: a task is in the
\* ready queue once, and exactly while its job has work left.
THEOREM SystemTypeCorrect == SystemSpec => [](SystemInv /\ SystemTypeOK)
<1>1. SystemInit => SystemInv
  <2> SUFFICES ASSUME SystemInit PROVE SystemInv
    OBVIOUS
  <2>1. /\ tasks \in TaskSets /\ critical \in BOOLEAN /\ ready = <<>>
        /\ remaining = [t \in Tasks |-> 0]
        /\ age = [t \in Tasks |-> tasks[t].period]
        /\ first = [t \in Tasks |-> 0]
    BY DEF SystemInit, Init
  <2>2. ready \in Seq(Tasks) /\ DOMAIN ready = {} /\ Ready = {}
    BY <2>1 DEF Ready
  <2>3. \A t \in Tasks : /\ tasks[t].period \in Nat /\ tasks[t].period < MaxAge /\ MaxAge \in Nat
                         /\ tasks[t].wcet \in Nat
    BY <2>1, Contracts, AgeAssumption
  <2>4. remaining \in [Tasks -> Nat] /\ age \in [Tasks -> Nat] /\ first \in [Tasks -> Nat]
    BY <2>1, <2>3
  <2>5. \A t \in Tasks : /\ remaining[t] \in 0 .. tasks[t].wcet
                         /\ remaining[t] > 0 <=> t \in Ready
                         /\ age[t] \in 0 .. MaxAge /\ first[t] \in 0 .. MaxAge
    BY <2>1, <2>2, <2>3
  <2> QED
    BY <2>1, <2>2, <2>4, <2>5 DEF SystemInv, SystemTypeOK
<1>2. SystemInv => SystemTypeOK
  BY DEF SystemInv
<1> QED
  BY <1>1, <1>2, SystemStep, PTL DEF SystemSpec

-----------------------------------------------------------------------------
(* The busy period of a task and those above it.  `w` ticks of it have     *)
(* passed and k[j] jobs of task j were released in it: the last of them    *)
(* ag[j] ticks ago or more, the first k[j] - 1 periods before that, and    *)
(* not before the period began.  What is left of the work of those jobs is *)
(* at most what they brought less the w ticks, none of which was lost.     *)

Demanded(ts, L, k) == [j \in L |-> k[j] * ts[j].wcet]

Busy(ts, rd, rem, ag, t, w, k) ==
  /\ w \in Nat /\ k \in [Level(ts, t) -> Nat]
  /\ \A j \in Level(ts, t) : k[j] = 0 => j \notin rd
  /\ \A j \in Level(ts, t) : k[j] > 0 => (k[j] - 1) * ts[j].period + ag[j] <= w
  /\ SumFunctionOnSet(rem, Level(ts, t)) + w
       <= SumFunctionOnSet(Demanded(ts, Level(ts, t), k), Level(ts, t))

LEMMA DemandedTypes ==
  ASSUME tasks \in TaskSets, NEW t \in Tasks, NEW k \in [Level(tasks, t) -> Nat]
  PROVE  /\ \A j \in Level(tasks, t) :
              /\ j \in Tasks /\ k[j] \in Nat
              /\ tasks[j].wcet \in Nat /\ tasks[j].wcet >= 1
              /\ tasks[j].period \in Nat /\ tasks[j].period >= 1
              /\ Demanded(tasks, Level(tasks, t), k)[j] = k[j] * tasks[j].wcet
              /\ Demanded(tasks, Level(tasks, t), k)[j] \in Nat
         /\ SumFunctionOnSet(Demanded(tasks, Level(tasks, t), k), Level(tasks, t)) \in Nat
<1>1. ASSUME NEW j \in Level(tasks, t)
      PROVE  /\ j \in Tasks /\ k[j] \in Nat
             /\ tasks[j].wcet \in Nat /\ tasks[j].wcet >= 1
             /\ tasks[j].period \in Nat /\ tasks[j].period >= 1
             /\ Demanded(tasks, Level(tasks, t), k)[j] = k[j] * tasks[j].wcet
             /\ Demanded(tasks, Level(tasks, t), k)[j] \in Nat
  <2>1. j \in Tasks
    BY Levels
  <2>2. /\ tasks[j].wcet \in Nat /\ tasks[j].wcet >= 1
        /\ tasks[j].period \in Nat /\ tasks[j].period >= 1
    BY <2>1, Contracts
  <2>3. k[j] \in Nat
    OBVIOUS
  <2>4. k[j] * tasks[j].wcet \in Nat
    BY <2>2, <2>3
  <2> QED
    BY <2>1, <2>2, <2>3, <2>4 DEF Demanded
<1>2. IsFiniteSet(Level(tasks, t))
  BY Levels
<1> QED
  BY <1>1, <1>2, SumNat

LEMMA BusyIdle ==
  ASSUME tasks \in TaskSets, NEW t \in Tasks, NEW rd, NEW rem, NEW ag,
         \A j \in Level(tasks, t) : j \notin rd /\ rem[j] = 0
  PROVE  \E k : Busy(tasks, rd, rem, ag, t, 0, k)
<1> DEFINE L == Level(tasks, t)
<1>1. PICK k : k = [j \in L |-> 0]
  OBVIOUS
<1>2. k \in [L -> Nat]
  BY <1>1
<1>3. IsFiniteSet(L)
  BY Levels
<1>4. ASSUME NEW j \in L PROVE rem[j] \in Nat /\ Demanded(tasks, L, k)[j] = rem[j]
  <2>1. k[j] = 0 /\ tasks[j].wcet \in Nat /\ Demanded(tasks, L, k)[j] = k[j] * tasks[j].wcet
    BY <1>1, <1>2, DemandedTypes
  <2> QED
    BY <2>1
<1>5. SumFunctionOnSet(rem, L) = SumFunctionOnSet(Demanded(tasks, L, k), L)
  <2> HIDE DEF L
  <2> QED
    BY <1>3, <1>4, SumSame
<1>6. SumFunctionOnSet(rem, L) \in Nat
  <2> HIDE DEF L
  <2> QED
    BY <1>3, <1>4, SumNat
<1>7. SumFunctionOnSet(rem, L) + 0 <= SumFunctionOnSet(Demanded(tasks, L, k), L)
  BY <1>5, <1>6
<1>8. /\ \A j \in L : k[j] = 0 => j \notin rd
      /\ \A j \in L : k[j] > 0 => (k[j] - 1) * tasks[j].period + ag[j] <= 0
  BY <1>1
<1> QED
  BY <1>2, <1>7, <1>8 DEF Busy

\* The sums, when a task of another level is released, ...
LEMMA ElsewhereSums ==
  ASSUME tasks \in TaskSets, NEW t \in Tasks, NEW d \in Tasks, NEW work \in Nat,
         NEW rem \in [Tasks -> Nat], d \notin Level(tasks, t)
  PROVE  SumFunctionOnSet([rem EXCEPT ![d] = work], Level(tasks, t))
           = SumFunctionOnSet(rem, Level(tasks, t))
<1> DEFINE L == Level(tasks, t)
           rem2 == [rem EXCEPT ![d] = work]
<1>1. IsFiniteSet(L) /\ L \subseteq Tasks
  BY Levels
<1>2. \A j \in L : rem[j] \in Nat /\ rem2[j] = rem[j]
  BY <1>1
<1>3. SumFunctionOnSet(rem2, L) = SumFunctionOnSet(rem, L)
  <2> HIDE DEF L, rem2
  <2> QED
    BY <1>1, <1>2, SumSame
<1> QED
  BY <1>3

LEMMA RemainingNat ==
  ASSUME tasks \in TaskSets, NEW t \in Tasks, NEW rem \in [Tasks -> Nat]
  PROVE  SumFunctionOnSet(rem, Level(tasks, t)) \in Nat
<1>1. IsFiniteSet(Level(tasks, t)) /\ \A j \in Level(tasks, t) : rem[j] \in Nat
  BY Levels
<1> QED
  BY <1>1, SumNat

\* ... when one of the level is ...
LEMMA ReleaseSums ==
  ASSUME tasks \in TaskSets, NEW t \in Tasks, NEW d \in Level(tasks, t), NEW work \in Nat,
         NEW rem \in [Tasks -> Nat], rem[d] = 0
  PROVE  SumFunctionOnSet([rem EXCEPT ![d] = work], Level(tasks, t))
           = SumFunctionOnSet(rem, Level(tasks, t)) + work
<1> DEFINE L == Level(tasks, t)
           rem2 == [rem EXCEPT ![d] = work]
<1>1. IsFiniteSet(L) /\ L \subseteq Tasks /\ d \in L /\ d \in Tasks
  BY Levels
<1>2. /\ rem2[d] = work /\ \A j \in L \ {d} : rem[j] = rem2[j]
      /\ \A j \in L : rem[j] \in Nat /\ rem2[j] \in Nat
      /\ rem2 \in [Tasks -> Nat]
  <2> HIDE DEF L
  <2> QED
    BY <1>1
<1>3. SumFunctionOnSet(rem2, L) + rem[d] = SumFunctionOnSet(rem, L) + rem2[d]
  <2> HIDE DEF L, rem2
  <2> QED
    BY <1>1, <1>2, SumUpdate
<1>4. SumFunctionOnSet(rem, L) \in Nat /\ SumFunctionOnSet(rem2, L) \in Nat
  BY <1>2, RemainingNat
<1>5. SumFunctionOnSet(rem2, L) = SumFunctionOnSet(rem, L) + work
  <2> HIDE DEF L, rem2
  <2> QED
    BY <1>2, <1>3, <1>4
<1> QED
  BY <1>5

LEMMA DemandedSums ==
  ASSUME tasks \in TaskSets, NEW t \in Tasks, NEW d \in Level(tasks, t),
         NEW k \in [Level(tasks, t) -> Nat], NEW k2 \in [Level(tasks, t) -> Nat],
         k2[d] = k[d] + 1, \A j \in Level(tasks, t) \ {d} : k2[j] = k[j]
  PROVE  SumFunctionOnSet(Demanded(tasks, Level(tasks, t), k2), Level(tasks, t))
           = SumFunctionOnSet(Demanded(tasks, Level(tasks, t), k), Level(tasks, t)) + tasks[d].wcet
<1> DEFINE L == Level(tasks, t)
           D == Demanded(tasks, L, k)
           D2 == Demanded(tasks, L, k2)
<1>1. /\ \A j \in L : /\ tasks[j].wcet \in Nat /\ k[j] \in Nat
                      /\ D[j] = k[j] * tasks[j].wcet /\ D[j] \in Nat
      /\ SumFunctionOnSet(D, L) \in Nat
  BY DemandedTypes
<1>2. /\ \A j \in L : D2[j] = k2[j] * tasks[j].wcet /\ D2[j] \in Nat
      /\ SumFunctionOnSet(D2, L) \in Nat
  BY DemandedTypes
<1>3. IsFiniteSet(L) /\ \A j \in L \ {d} : D[j] = D2[j]
  BY <1>1, <1>2, Levels
<1>4. D2[d] = D[d] + tasks[d].wcet /\ D[d] \in Nat /\ D2[d] \in Nat /\ tasks[d].wcet \in Nat
  <2>1. \A a, b \in Nat : (a + 1) * b = a * b + b
    OBVIOUS
  <2>2. D2[d] = (k[d] + 1) * tasks[d].wcet /\ D[d] = k[d] * tasks[d].wcet
        /\ k[d] \in Nat /\ tasks[d].wcet \in Nat
    BY <1>1, <1>2
  <2> QED
    BY <1>1, <1>2, <2>1, <2>2
<1>5. SumFunctionOnSet(D2, L) + D[d] = SumFunctionOnSet(D, L) + D2[d]
  <2> HIDE DEF D, D2
  <2>1. d \in L /\ \A j \in L : D[j] \in Nat /\ D2[j] \in Nat
    BY <1>1, <1>2
  <2> HIDE DEF L
  <2> QED
    BY <1>3, <2>1, SumUpdate
<1>6. SumFunctionOnSet(D2, L) = SumFunctionOnSet(D, L) + tasks[d].wcet
  <2>1. SumFunctionOnSet(D, L) \in Nat /\ SumFunctionOnSet(D2, L) \in Nat
    BY <1>1, <1>2
  <2> HIDE DEF L, D, D2
  <2> QED
    BY <1>4, <1>5, <2>1
<1> QED
  BY <1>6

\* ... and when a task of the level runs for a tick.
LEMMA TickSums ==
  ASSUME tasks \in TaskSets, NEW t \in Tasks, NEW d \in Level(tasks, t),
         NEW rem \in [Tasks -> Nat], rem[d] >= 1
  PROVE  LET L == Level(tasks, t)
             rem2 == [rem EXCEPT ![d] = @ - 1]
         IN  /\ SumFunctionOnSet(rem2, L) \in Nat
             /\ SumFunctionOnSet(rem, L) = SumFunctionOnSet(rem2, L) + 1
<1> DEFINE L == Level(tasks, t)
           rem2 == [rem EXCEPT ![d] = @ - 1]
<1>1. IsFiniteSet(L) /\ L \subseteq Tasks /\ d \in L /\ d \in Tasks
  BY Levels
<1>2. /\ rem2[d] = rem[d] - 1 /\ \A j \in L \ {d} : rem[j] = rem2[j]
      /\ \A j \in L : rem[j] \in Nat /\ rem2[j] \in Nat
      /\ rem2 \in [Tasks -> Nat]
  <2> HIDE DEF L
  <2> QED
    BY <1>1
<1>3. SumFunctionOnSet(rem2, L) + rem[d] = SumFunctionOnSet(rem, L) + rem2[d]
  <2> HIDE DEF L, rem2
  <2> QED
    BY <1>1, <1>2, SumUpdate
<1>4. SumFunctionOnSet(rem, L) \in Nat /\ SumFunctionOnSet(rem2, L) \in Nat
  BY <1>2, RemainingNat
<1>5. SumFunctionOnSet(rem, L) = SumFunctionOnSet(rem2, L) + 1
  <2> HIDE DEF L, rem2
  <2> QED
    BY <1>1, <1>2, <1>3, <1>4
<1> QED
  BY <1>4, <1>5

LEMMA BusyRelease ==
  ASSUME tasks \in TaskSets, NEW t \in Tasks, NEW d \in Tasks,
         NEW work \in Nat, work <= tasks[d].wcet,
         NEW rd, NEW rem \in [Tasks -> Nat], NEW ag \in [Tasks -> Nat], NEW w, NEW k,
         Busy(tasks, rd, rem, ag, t, w, k),
         d \notin rd, rem[d] = 0, ag[d] >= tasks[d].period
  PROVE  \E k2 : Busy(tasks, rd \cup {d}, [rem EXCEPT ![d] = work],
                      [ag EXCEPT ![d] = 0], t, w, k2)
<1> DEFINE L == Level(tasks, t)
           rem2 == [rem EXCEPT ![d] = work]
           ag2 == [ag EXCEPT ![d] = 0]
           D(h) == SumFunctionOnSet(Demanded(tasks, L, h), L)
<1>1. /\ w \in Nat /\ k \in [L -> Nat]
      /\ \A j \in L : k[j] = 0 => j \notin rd
      /\ \A j \in L : k[j] > 0 => (k[j] - 1) * tasks[j].period + ag[j] <= w
      /\ SumFunctionOnSet(rem, L) + w <= D(k)
  BY DEF Busy
<1>2. /\ L \subseteq Tasks
      /\ \A j \in L : tasks[j].period \in Nat /\ k[j] \in Nat
  BY <1>1, Levels, DemandedTypes
<1>3. /\ ag2[d] = 0
      /\ \A j \in Tasks : j # d => ag2[j] = ag[j]
      /\ \A j \in Tasks : ag[j] \in Nat
  OBVIOUS
<1>4. SumFunctionOnSet(rem, L) \in Nat /\ D(k) \in Nat
  BY <1>1, RemainingNat, DemandedTypes
<1>5. CASE d \notin L
  <2>1. /\ \A j \in L : k[j] = 0 => j \notin rd \cup {d}
        /\ \A j \in L : k[j] > 0 => (k[j] - 1) * tasks[j].period + ag2[j] <= w
    <3> HIDE DEF ag2
    <3> QED
      BY <1>1, <1>2, <1>3, <1>5
  <2>2. SumFunctionOnSet(rem2, L) = SumFunctionOnSet(rem, L)
    BY <1>5, ElsewhereSums
  <2>3. SumFunctionOnSet(rem2, L) + w <= D(k)
    BY <1>1, <2>2
  <2> QED
    BY <1>1, <2>1, <2>3 DEF Busy
<1>6. CASE d \in L
  <2>0. PICK k2 : k2 = [k EXCEPT ![d] = @ + 1]
    OBVIOUS
  <2>1. /\ k2 \in [L -> Nat] /\ k2[d] = k[d] + 1 /\ k[d] \in Nat
        /\ \A j \in L \ {d} : k2[j] = k[j]
    BY <1>1, <1>6, <2>0
  <2>2. SumFunctionOnSet(rem2, L) + w <= D(k2)
    <3>1. SumFunctionOnSet(rem2, L) = SumFunctionOnSet(rem, L) + work
      BY <1>6, ReleaseSums
    <3>2. D(k2) = D(k) + tasks[d].wcet
      BY <1>1, <1>6, <2>1, DemandedSums
    <3>3. tasks[d].wcet \in Nat
      BY Contracts
    <3> HIDE DEF L, D, rem2
    <3> QED
      BY <1>1, <1>4, <3>1, <3>2, <3>3
  <2>3. ASSUME NEW j \in L
        PROVE  /\ k2[j] = 0 => j \notin rd \cup {d}
               /\ k2[j] > 0 => (k2[j] - 1) * tasks[j].period + ag2[j] <= w
    <3> HIDE DEF L, ag2
    <3>1. CASE j # d
      <4>1. k2[j] = k[j] /\ ag2[j] = ag[j] /\ k[j] \in Nat
        BY <1>2, <1>3, <2>1, <3>1
      <4> QED
        BY <1>1, <3>1, <4>1
    <3>2. CASE j = d
      <4>1. k2[j] = k[d] + 1 /\ k2[j] - 1 = k[d] /\ ag2[j] = 0 /\ tasks[d].period \in Nat
        BY <1>2, <1>3, <1>6, <2>1, <3>2
      <4>2. k[d] * tasks[d].period <= w
        <5>1. CASE k[d] = 0
          BY <1>1, <4>1, <5>1
        <5>2. CASE k[d] > 0
          <6>1. (k[d] - 1) * tasks[d].period + ag[d] <= w
            BY <1>1, <1>6, <5>2
          <6>2. (k[d] - 1) * tasks[d].period + tasks[d].period = k[d] * tasks[d].period
            BY <2>1, <4>1
          <6>3. (k[d] - 1) * tasks[d].period \in Nat /\ k[d] * tasks[d].period \in Nat
            BY <2>1, <4>1, <5>2
          <6> QED
            BY <1>1, <1>3, <4>1, <6>1, <6>2, <6>3
        <5> QED
          BY <2>1, <5>1, <5>2
      <4>3. k[d] * tasks[d].period + 0 = k[d] * tasks[d].period
        BY <2>1, <4>1
      <4> QED
        BY <2>1, <3>2, <4>1, <4>2, <4>3
    <3> QED
      BY <3>1, <3>2
  <2>4. Busy(tasks, rd \cup {d}, rem2, ag2, t, w, k2)
    <3> HIDE DEF rem2, ag2
    <3> QED
      BY <1>1, <2>1, <2>2, <2>3 DEF Busy
  <2> QED
    BY <2>4
<1> QED
  BY <1>5, <1>6

LEMMA BusyTick ==
  ASSUME tasks \in TaskSets, NEW t \in Tasks, NEW d \in Level(tasks, t),
         NEW rd, NEW rd2 \in SUBSET rd, NEW rem \in [Tasks -> Nat], rem[d] >= 1,
         NEW ag \in [Tasks -> Nat], NEW ag2 \in [Tasks -> Nat],
         \A j \in Tasks : ag2[j] <= ag[j] + 1,
         NEW w, NEW k, Busy(tasks, rd, rem, ag, t, w, k)
  PROVE  Busy(tasks, rd2, [rem EXCEPT ![d] = @ - 1], ag2, t, w + 1, k)
<1> DEFINE L == Level(tasks, t)
           rem2 == [rem EXCEPT ![d] = @ - 1]
<1>1. /\ w \in Nat /\ k \in [L -> Nat]
      /\ \A j \in L : k[j] = 0 => j \notin rd
      /\ \A j \in L : k[j] > 0 => (k[j] - 1) * tasks[j].period + ag[j] <= w
      /\ SumFunctionOnSet(rem, L) + w <= SumFunctionOnSet(Demanded(tasks, L, k), L)
  BY DEF Busy
<1>2. /\ L \subseteq Tasks
      /\ \A j \in L : tasks[j].period \in Nat /\ k[j] \in Nat
      /\ SumFunctionOnSet(Demanded(tasks, L, k), L) \in Nat
  BY <1>1, Levels, DemandedTypes
<1>3. /\ SumFunctionOnSet(rem2, L) \in Nat
      /\ SumFunctionOnSet(rem, L) = SumFunctionOnSet(rem2, L) + 1
  BY TickSums
<1>4. SumFunctionOnSet(rem2, L) + (w + 1) <= SumFunctionOnSet(Demanded(tasks, L, k), L)
  <2> HIDE DEF L, rem2
  <2> QED
    BY <1>1, <1>2, <1>3
<1>5. ASSUME NEW j \in L, k[j] > 0 PROVE (k[j] - 1) * tasks[j].period + ag2[j] <= w + 1
  <2>1. PICK p : p = (k[j] - 1) * tasks[j].period
    OBVIOUS
  <2>2. p \in Nat
    BY <1>2, <1>5, <2>1
  <2>3. ag[j] \in Nat /\ ag2[j] \in Nat /\ ag2[j] <= ag[j] + 1
    BY <1>2
  <2>4. p + ag[j] <= w
    BY <1>1, <1>5, <2>1
  <2>5. p + ag2[j] <= w + 1
    BY <1>1, <2>2, <2>3, <2>4
  <2> QED
    BY <2>1, <2>5
<1>6. \A j \in L : k[j] = 0 => j \notin rd2
  BY <1>1
<1>7. Busy(tasks, rd2, rem2, ag2, t, w + 1, k)
  <2>1. w + 1 \in Nat
    BY <1>1
  <2> HIDE DEF rem2
  <2> QED
    BY <1>1, <1>4, <1>5, <1>6, <2>1 DEF Busy
<1> QED
  BY <1>7

LEMMA LevelDemand ==
  ASSUME tasks \in TaskSets, NEW t \in Tasks, NEW k \in [Level(tasks, t) -> Nat]
  PROVE  /\ SumFunctionOnSet(Demanded(tasks, Level(tasks, t), k), Above(tasks, t)) \in Nat
         /\ SumFunctionOnSet(Demanded(tasks, Level(tasks, t), k), Level(tasks, t))
              = k[t] * tasks[t].wcet
                + SumFunctionOnSet(Demanded(tasks, Level(tasks, t), k), Above(tasks, t))
<1> DEFINE L == Level(tasks, t)
           D == Demanded(tasks, L, k)
<1>1. IsFiniteSet(L) /\ t \in L /\ L \ {t} = Above(tasks, t)
  BY Levels
<1>2. (\A j \in L : D[j] \in Nat) /\ D[t] = k[t] * tasks[t].wcet
  BY <1>1, DemandedTypes
<1>3. /\ SumFunctionOnSet(D, L \ {t}) \in Nat
      /\ SumFunctionOnSet(D, L) = D[t] + SumFunctionOnSet(D, L \ {t})
  <2> HIDE DEF L, D
  <2> QED
    BY <1>1, <1>2, SumRemove
<1> QED
  BY <1>1, <1>2, <1>3

\* R is a response time of t within its deadline.
Meets(ts, t, R) == R \in Nat /\ Exact(ts, t, R) = R /\ R <= DeadlineOf(ts[t])

\* Once the busy period has lasted for the response time, no work is left.
LEMMA BusyEnds ==
  ASSUME tasks \in TaskSets, NEW t \in Tasks, NEW R, Meets(tasks, t, R),
         NEW rd, NEW rem \in [Tasks -> Nat], NEW ag \in [Tasks -> Nat],
         \A j \in Tasks : ag[j] >= 1, NEW k, Busy(tasks, rd, rem, ag, t, R, k)
  PROVE  \A j \in Level(tasks, t) : rem[j] = 0
<1> DEFINE L == Level(tasks, t)
           A == Above(tasks, t)
           D == Demanded(tasks, L, k)
           I == Interference(tasks, t, R)
<1>1. /\ R \in Nat /\ k \in [L -> Nat]
      /\ \A j \in L : k[j] > 0 => (k[j] - 1) * tasks[j].period + ag[j] <= R
      /\ SumFunctionOnSet(rem, L) + R <= SumFunctionOnSet(D, L)
  BY DEF Busy
<1>2. /\ IsFiniteSet(L) /\ L \subseteq Tasks /\ t \in L /\ IsFiniteSet(A) /\ A \subseteq L
  BY Levels
<1>3. \A j \in L : /\ tasks[j].period \in Nat /\ tasks[j].period >= 1
                   /\ tasks[j].wcet \in Nat /\ k[j] \in Nat
                   /\ D[j] = k[j] * tasks[j].wcet /\ D[j] \in Nat
  BY <1>1, DemandedTypes
<1>4. ASSUME NEW j \in L, NEW n \in Nat, R <= n * tasks[j].period
      PROVE  k[j] <= n
  <2>1. CASE k[j] > n
    <3>1. k[j] - 1 \in Nat /\ n <= k[j] - 1 /\ k[j] > 0 /\ tasks[j].period \in Nat
      BY <1>3, <2>1
    <3>2. n * tasks[j].period <= (k[j] - 1) * tasks[j].period
          /\ n * tasks[j].period \in Nat /\ (k[j] - 1) * tasks[j].period \in Nat
      BY <3>1, TimesMonotone
    <3>3. (k[j] - 1) * tasks[j].period + ag[j] <= R /\ ag[j] \in Nat /\ ag[j] >= 1
      BY <1>1, <1>2, <3>1
    <3> QED
      BY <1>1, <1>4, <3>2, <3>3
  <2> QED
    BY <1>3, <2>1
<1>5. k[t] <= 1
  <2>1. R <= 1 * tasks[t].period
    BY <1>1, Contracts DEF Meets
  <2> QED
    BY <1>2, <1>4, <2>1
<1>6. ASSUME NEW j \in A PROVE D[j] \in Nat /\ I[j] \in Nat /\ D[j] <= I[j]
  <2>1. j \in L /\ tasks[j].period \in Nat \ {0} /\ tasks[j].wcet \in Nat /\ k[j] \in Nat
    BY <1>2, <1>3
  <2>2. DivCeil(R, tasks[j].period) \in Nat /\ R <= DivCeil(R, tasks[j].period) * tasks[j].period
    BY <1>1, <2>1, DivCeilBounds
  <2>3. k[j] <= DivCeil(R, tasks[j].period)
    BY <1>4, <2>1, <2>2
  <2>4. /\ k[j] * tasks[j].wcet <= DivCeil(R, tasks[j].period) * tasks[j].wcet
        /\ DivCeil(R, tasks[j].period) * tasks[j].wcet \in Nat
    BY <2>1, <2>2, <2>3, TimesMonotone
  <2> QED
    BY <1>3, <2>1, <2>4 DEF Interference
<1>7. SumFunctionOnSet(D, A) <= SumFunctionOnSet(I, A)
  <2> HIDE DEF A, D, I
  <2> QED
    BY <1>2, <1>6, SumMonotone
<1>8. /\ SumFunctionOnSet(D, A) \in Nat
      /\ SumFunctionOnSet(D, L) = k[t] * tasks[t].wcet + SumFunctionOnSet(D, A)
  BY <1>1, LevelDemand
<1>9. R = tasks[t].wcet + tasks[t].blocking + SumFunctionOnSet(I, A)
      /\ tasks[t].wcet \in Nat /\ tasks[t].blocking \in Nat
  BY Contracts DEF Meets, Exact
<1>10. SumFunctionOnSet(I, A) \in Nat
  <2> HIDE DEF A, I
  <2> QED
    BY <1>2, <1>6, SumNat
<1>11. k[t] * tasks[t].wcet <= 1 * tasks[t].wcet /\ k[t] * tasks[t].wcet \in Nat
  <2>1. k[t] \in Nat
    BY <1>2, <1>3
  <2> QED
    BY <1>5, <1>9, <2>1, TimesMonotone
<1>12. (\A j \in L : rem[j] \in Nat) /\ SumFunctionOnSet(rem, L) \in Nat
  <2>1. \A j \in L : rem[j] \in Nat
    BY <1>2
  <2> HIDE DEF L
  <2> QED
    BY <1>2, <2>1, SumNat
<1>13. SumFunctionOnSet(rem, L) = 0
  <2> HIDE DEF L, A, D, I
  <2> QED
    BY <1>1, <1>7, <1>8, <1>9, <1>10, <1>11, <1>12
<1>14. ASSUME NEW j \in L PROVE rem[j] = 0
  <2>1. rem[j] <= SumFunctionOnSet(rem, L)
    <3> HIDE DEF L
    <3> QED
      BY <1>2, <1>12, SumTerm
  <2> QED
    BY <1>12, <1>13, <2>1
<1> QED
  BY <1>14

-----------------------------------------------------------------------------
(* The invariant: of every task that has a response time within its        *)
(* deadline, the busy period is shorter than that.                         *)

BusyInv ==
  \A t \in Tasks : \A R \in Nat :
    Meets(tasks, t, R) => \E w, k : w < R /\ Busy(tasks, Ready, remaining, age, t, w, k)

LEMMA ResponsePositive ==
  ASSUME tasks \in TaskSets, NEW t \in Tasks, NEW R, Meets(tasks, t, R)
  PROVE  R \in Nat /\ R >= 1
<1>1. /\ tasks \in Seq(TaskTiming) /\ t \in 1 .. Len(tasks) /\ Decidable(tasks, t)
      /\ tasks[t].wcet \in Nat /\ tasks[t].wcet >= 1
  BY Contracts
<1>2. R \in Nat /\ Exact(tasks, t, R) = R
  BY DEF Meets
<1>3. tasks[t].wcet <= Exact(tasks, t, R)
  BY <1>1, <1>2, InterferenceTypes
<1> QED
  BY <1>1, <1>2, <1>3

\* An idle level starts a new period.
LEMMA BusyAgain ==
  ASSUME tasks \in TaskSets, NEW t \in Tasks, NEW R, Meets(tasks, t, R),
         NEW rd, NEW rem, NEW ag,
         \A j \in Level(tasks, t) : j \notin rd /\ rem[j] = 0
  PROVE  \E w, k : w < R /\ Busy(tasks, rd, rem, ag, t, w, k)
<1>1. PICK k : Busy(tasks, rd, rem, ag, t, 0, k)
  BY BusyIdle
<1>2. 0 < R
  BY ResponsePositive
<1> QED
  BY <1>1, <1>2

\* A step keeps it for one task.
LEMMA BusyStepOf ==
  ASSUME SystemInv, SystemInv', tasks' = tasks, DistinctPriorities(tasks),
         UNCHANGED execution \/ Tick
           \/ \E o \in Tasks : \E work \in 1 .. tasks[o].wcet : Release(o, work),
         NEW t \in Tasks, NEW R, Meets(tasks, t, R),
         NEW w, NEW k, w < R, Busy(tasks, Ready, remaining, age, t, w, k)
  PROVE  \E w2, k2 : w2 < R /\ Busy(tasks, Ready', remaining', age', t, w2, k2)
<1>1. /\ tasks \in TaskSets /\ Tasks' = Tasks
      /\ remaining \in [Tasks -> Nat] /\ age \in [Tasks -> Nat]
      /\ remaining' \in [Tasks -> Nat] /\ age' \in [Tasks -> Nat]
      /\ \A j \in Tasks : remaining'[j] > 0 <=> j \in Ready'
      /\ \A j \in Tasks : remaining[j] > 0 <=> j \in Ready
      /\ \A j \in Tasks : tasks[j].wcet \in Nat
  BY Contracts DEF SystemInv, SystemTypeOK, Tasks
<1>2. CASE UNCHANGED execution
  <2>1. Ready' = Ready /\ remaining' = remaining /\ age' = age
    BY <1>2 DEF execution, Ready
  <2> QED
    BY <2>1
<1>3. CASE \E o \in Tasks : \E work \in 1 .. tasks[o].wcet : Release(o, work)
  <2>0. PICK o \in Tasks : \E work \in 1 .. tasks[o].wcet : Release(o, work)
    BY <1>3
  <2>1. PICK work \in 1 .. tasks[o].wcet : Release(o, work)
    BY <2>0
  <2>2. work \in Nat /\ work <= tasks[o].wcet
    BY <1>1
  <2>3. /\ o \notin Ready /\ remaining[o] = 0 /\ age[o] >= tasks[o].period
        /\ Ready' = Ready \cup {o}
        /\ remaining' = [remaining EXCEPT ![o] = work]
        /\ age' = [age EXCEPT ![o] = 0]
    BY <2>1, ReleaseFacts
  <2>4. \E k2 : Busy(tasks, Ready \cup {o}, [remaining EXCEPT ![o] = work],
                     [age EXCEPT ![o] = 0], t, w, k2)
    BY <1>1, <2>2, <2>3, BusyRelease
  <2> QED
    BY <2>3, <2>4
<1>4. ASSUME \A j \in Level(tasks, t) : j \notin Ready'
      PROVE  \E w2, k2 : w2 < R /\ Busy(tasks, Ready', remaining', age', t, w2, k2)
  <2>1. Level(tasks, t) \subseteq Tasks
    BY <1>1, Levels
  <2>2. \A j \in Level(tasks, t) : j \notin Ready' /\ remaining'[j] = 0
    BY <1>1, <1>4, <2>1
  <2> QED
    BY <1>1, <2>2, BusyAgain
<1>5. CASE Tick
  <2>1. /\ Ready' \subseteq Ready /\ age' = [j \in Tasks |-> Older(j)]
        /\ \A j \in Tasks : /\ Older(j) \in 1 .. MaxAge /\ Older(j) <= age[j] + 1
    BY <1>5, TickFacts
  <2>2. \A j \in Tasks : age'[j] >= 1 /\ age'[j] <= age[j] + 1
    BY <2>1, AgeAssumption
  <2>3. CASE \A j \in Level(tasks, t) : j \notin Ready
    BY <1>4, <2>1, <2>3
  <2>4. CASE \E j \in Level(tasks, t) : j \in Ready
    <3>1. PICK j \in Level(tasks, t) : j \in Ready
      BY <2>4
    <3>2. ready # <<>>
      BY <3>1 DEF Ready
    <3>3. /\ Dispatched \in Tasks /\ Dispatched \in Ready
          /\ tasks[j].priority <= tasks[Dispatched].priority
      BY <3>1, <3>2, Dispatch
    <3>4. Dispatched \in Level(tasks, t)
      BY <1>1, <3>3, Levels
    <3>5. /\ remaining' = [remaining EXCEPT ![Dispatched] = @ - 1]
          /\ remaining[Dispatched] >= 1
      BY <1>5, <3>2, TickFacts
    <3>6. Busy(tasks, Ready', [remaining EXCEPT ![Dispatched] = @ - 1], age', t, w + 1, k)
      BY <1>1, <2>1, <2>2, <3>4, <3>5, BusyTick
    <3>7. Busy(tasks, Ready', remaining', age', t, w + 1, k)
      BY <3>5, <3>6
    <3>8. w \in Nat /\ R \in Nat
      BY DEF Busy, Meets
    <3>9. CASE w + 1 < R
      BY <3>7, <3>9
    <3>10. CASE w + 1 = R
      <4>1. Busy(tasks, Ready', remaining', age', t, R, k)
        BY <3>7, <3>10
      <4>2. \A i \in Level(tasks, t) : remaining'[i] = 0
        BY <1>1, <2>2, <4>1, BusyEnds
      <4>3. Level(tasks, t) \subseteq Tasks
        BY <1>1, Levels
      <4> QED
        BY <1>1, <1>4, <4>2, <4>3
    <3> QED
      BY <3>8, <3>9, <3>10
  <2> QED
    BY <2>3, <2>4
<1> QED
  BY <1>2, <1>3, <1>5

LEMMA BusyStep ==
  ASSUME \A ts \in TaskSets : DistinctPriorities(ts)
  PROVE  SystemInv /\ BusyInv /\ [SystemNext]_SystemVars => BusyInv'
<1> SUFFICES ASSUME SystemInv, BusyInv, [SystemNext]_SystemVars
             PROVE  BusyInv'
  OBVIOUS
<1>1. tasks' = tasks /\ Tasks' = Tasks /\ SystemInv' /\ DistinctPriorities(tasks)
  BY Steps, SystemStep DEF Tasks, SystemInv
<1>2. UNCHANGED execution \/ Tick
        \/ \E o \in Tasks : \E work \in 1 .. tasks[o].wcet : Release(o, work)
  BY Steps
<1>3. ASSUME NEW t \in Tasks, NEW R \in Nat, Meets(tasks, t, R)
      PROVE  \E w, k : w < R /\ Busy(tasks, Ready', remaining', age', t, w, k)
  <2>1. PICK w, k : w < R /\ Busy(tasks, Ready, remaining, age, t, w, k)
    BY <1>3 DEF BusyInv
  <2> QED
    BY <1>1, <1>2, <1>3, <2>1, BusyStepOf
<1> QED
  BY <1>1, <1>3 DEF BusyInv

LEMMA BusyInit == SystemInit => BusyInv
<1> SUFFICES ASSUME SystemInit, NEW t \in Tasks, NEW R \in Nat, Meets(tasks, t, R)
             PROVE  \E w, k : w < R /\ Busy(tasks, Ready, remaining, age, t, w, k)
  BY DEF BusyInv
<1>1. /\ tasks \in TaskSets /\ ready = <<>> /\ remaining = [j \in Tasks |-> 0]
  BY DEF SystemInit, Init
<1>2. Ready = {}
  BY <1>1 DEF Ready
<1>3. Level(tasks, t) \subseteq Tasks
  BY <1>1, Levels
<1>4. \A j \in Level(tasks, t) : j \notin Ready /\ remaining[j] = 0
  BY <1>1, <1>2, <1>3
<1> QED
  BY <1>1, <1>4, BusyAgain

LEMMA BusyCorrect ==
  ASSUME \A ts \in TaskSets : DistinctPriorities(ts)
  PROVE  SystemSpec => []BusyInv
BY BusyInit, BusyStep, SystemTypeCorrect, PTL DEF SystemSpec

-----------------------------------------------------------------------------
(* What the analysis says holds of the execution.                           *)

\* The execution leaves the analysis alone.
LEMMA AnalysisUntouched == SystemSpec => Spec
<1>1. [SystemNext]_SystemVars => [Next]_vars
  BY DEF SystemNext, Analyse, Execute, ExecuteCritically, SystemVars, vars
<1>2. SystemInit => Init
  BY DEF SystemInit
<1> QED
  BY <1>1, <1>2, PTL DEF SystemSpec, Spec

LEMMA VerdictsHold ==
  ASSUME \A ts \in TaskSets : Reachable(ts)
  PROVE  SystemSpec => [](AnswerInv /\ VerdictInv)
BY AnalysisUntouched, AnswersDeclared, VerdictsCorrect, PTL

\* A pass carries a response time within the deadline.
LEMMA PassMeets ==
  ASSUME SystemInv, AnswerInv, VerdictInv, NEW t \in Tasks, Analysed(t)
  PROVE  Meets(tasks, t, verdicts[t].response)
<1>1. pc = "done" /\ verdicts[t].kind = "pass"
  BY DEF Analysed
<1>2. Sound(tasks, t, verdicts[t])
  <2>1. Len(verdicts) = Len(tasks) /\ tasks \in TaskSets
    BY <1>1 DEF AnswerInv, SystemInv
  <2>2. t \in 1 .. Len(tasks)
    BY <2>1, Contracts
  <2> QED
    BY <2>1, <2>2 DEF VerdictInv
<1> QED
  BY <1>1, <1>2 DEF Sound, Meets

LEMMA BusyBound ==
  ASSUME SystemInv, BusyInv, NEW t \in Tasks, NEW R, Meets(tasks, t, R), t \in Ready
  PROVE  age[t] < R
<1>1. R \in Nat
  BY DEF Meets
<1>2. PICK w, k : w < R /\ Busy(tasks, Ready, remaining, age, t, w, k)
  BY <1>1 DEF BusyInv
<1>3. t \in Level(tasks, t) /\ tasks[t].period \in Nat /\ age[t] \in Nat
  BY Levels, Contracts DEF SystemInv
<1>4. w \in Nat /\ k[t] \in Nat /\ k[t] > 0 /\ (k[t] - 1) * tasks[t].period + age[t] <= w
  BY <1>2, <1>3 DEF Busy
<1>5. (k[t] - 1) * tasks[t].period \in Nat
  BY <1>3, <1>4
<1> QED
  BY <1>1, <1>2, <1>3, <1>4, <1>5

\* No job of a task that passes takes longer than the response time computed
\* for it, whatever the other tasks do within their contracts.
THEOREM ResponseBounds ==
  ASSUME \A ts \in TaskSets : DistinctPriorities(ts) /\ Reachable(ts)
  PROVE  SystemSpec => []ResponseIsABound
<1>1. SystemInv /\ BusyInv /\ AnswerInv /\ VerdictInv => ResponseIsABound
  <2> SUFFICES ASSUME SystemInv, BusyInv, AnswerInv, VerdictInv,
                      NEW t \in Tasks, Analysed(t), t \in Ready
               PROVE  age[t] < verdicts[t].response
    BY DEF ResponseIsABound
  <2> QED
    BY PassMeets, BusyBound
<1>2. (SystemSpec => []BusyInv) /\ (SystemSpec => [](AnswerInv /\ VerdictInv))
  BY BusyCorrect, VerdictsHold
<1> QED
  BY <1>1, <1>2, SystemTypeCorrect, PTL

\* A system that the analysis calls schedulable misses no deadline.
THEOREM NeverMisses ==
  ASSUME \A ts \in TaskSets : DistinctPriorities(ts) /\ Reachable(ts)
  PROVE  SystemSpec => []SchedulableNeverMisses
<1>1. SystemInv /\ ResponseIsABound /\ AnswerInv /\ VerdictInv => SchedulableNeverMisses
  <2> SUFFICES ASSUME SystemInv, ResponseIsABound, AnswerInv, VerdictInv,
                      pc = "done", IsSchedulable(verdicts), NEW t \in Tasks, t \in Ready
               PROVE  ~(age[t] >= DeadlineOf(tasks[t]))
    BY DEF SchedulableNeverMisses, Missed
  <2>1. Len(verdicts) = Len(tasks) /\ tasks \in TaskSets
    BY DEF AnswerInv, SystemInv
  <2>2. Analysed(t)
    <3>1. t \in 1 .. Len(verdicts)
      BY <2>1, Contracts
    <3>2. t \in DOMAIN verdicts
      BY <3>1 DEF AnswerInv
    <3> QED
      BY <3>2 DEF Analysed, IsSchedulable, IsPass
  <2>3. Meets(tasks, t, verdicts[t].response)
    BY <2>2, PassMeets
  <2>4. age[t] < verdicts[t].response
    BY <2>2 DEF ResponseIsABound
  <2>5. age[t] \in Nat /\ DeadlineOf(tasks[t]) \in Nat
    BY <2>1, Contracts DEF SystemInv
  <2> QED
    BY <2>3, <2>4, <2>5 DEF Meets
<1>2. (SystemSpec => []ResponseIsABound) /\ (SystemSpec => [](AnswerInv /\ VerdictInv))
  BY ResponseBounds, VerdictsHold
<1> QED
  BY <1>1, <1>2, SystemTypeCorrect, PTL

-----------------------------------------------------------------------------
(* From the critical instant, where the tasks above t meet their deadlines: *)
(* e ticks have passed, every one of them spent on t or a task above it;    *)
(* the jobs of the tasks above were released on the grid of their periods,  *)
(* and the first job of t has not completed.                                *)

Started(ts, ag, t, e, k) ==
  /\ e \in Nat /\ k \in [Level(ts, t) -> Nat]
  /\ \A j \in Above(ts, t) : k[j] > 0 =>
       (k[j] - 1) * ts[j].period + ag[j] = e /\ ag[j] <= ts[j].period
  /\ k[t] > 0 => k[t] = 1 /\ (ag[t] = e \/ (ag[t] = MaxAge /\ MaxAge <= e))

\* All the work that was released has been done, but for what remains.
Used(ts, rem, t, e, k) ==
  SumFunctionOnSet(rem, Level(ts, t)) + e
    = SumFunctionOnSet(Demanded(ts, Level(ts, t), k), Level(ts, t))

\* Who is ready, and who is still to be released: nobody but at the instant.
Waiting(ts, rd, ag, t, e, k) ==
  /\ \A j \in Level(ts, t) : k[j] = 0 => e = 0 /\ j \notin rd /\ ag[j] >= ts[j].period
  /\ k[t] > 0 => t \in rd

Pristine(ts, rd, rem, ag, t, e, k) ==
  Started(ts, ag, t, e, k) /\ Used(ts, rem, t, e, k) /\ Waiting(ts, rd, ag, t, e, k)

LEMMA PristineInit ==
  ASSUME tasks \in TaskSets, NEW t \in Tasks, NEW rd, NEW rem, NEW ag,
         \A j \in Tasks : j \notin rd /\ rem[j] = 0 /\ ag[j] >= tasks[j].period
  PROVE  \E e, k : Pristine(tasks, rd, rem, ag, t, e, k)
<1> DEFINE L == Level(tasks, t)
<1>1. PICK k : k = [j \in L |-> 0]
  OBVIOUS
<1>2. k \in [L -> Nat] /\ \A j \in L : k[j] = 0
  BY <1>1
<1>3. IsFiniteSet(L) /\ L \subseteq Tasks /\ t \in L /\ Above(tasks, t) \subseteq L
  BY Levels
<1>4. \A j \in L : rem[j] = 0 /\ Demanded(tasks, L, k)[j] = 0
  <2>1. \A j \in L : tasks[j].wcet \in Nat /\ Demanded(tasks, L, k)[j] = k[j] * tasks[j].wcet
    BY <1>2, DemandedTypes
  <2> QED
    BY <1>2, <1>3, <2>1
<1>5. SumFunctionOnSet(rem, L) = 0 /\ SumFunctionOnSet(Demanded(tasks, L, k), L) = 0
  <2> HIDE DEF L
  <2> QED
    BY <1>3, <1>4, SumZero
<1>6. Used(tasks, rem, t, 0, k)
  BY <1>5 DEF Used
<1>7. Started(tasks, ag, t, 0, k)
  BY <1>2, <1>3 DEF Started
<1>8. Waiting(tasks, rd, ag, t, 0, k)
  BY <1>2, <1>3 DEF Waiting
<1> QED
  BY <1>6, <1>7, <1>8 DEF Pristine

LEMMA PristineRelease ==
  ASSUME tasks \in TaskSets, NEW t \in Tasks, NEW d \in Tasks,
         NEW work \in Nat, work = tasks[d].wcet,
         NEW rd, NEW rem \in [Tasks -> Nat], NEW ag \in [Tasks -> Nat], NEW e, NEW k,
         Pristine(tasks, rd, rem, ag, t, e, k),
         d \notin rd, rem[d] = 0, ag[d] >= tasks[d].period
  PROVE  \E k2 : Pristine(tasks, rd \cup {d}, [rem EXCEPT ![d] = work],
                          [ag EXCEPT ![d] = 0], t, e, k2)
<1> DEFINE L == Level(tasks, t)
           A == Above(tasks, t)
           rem2 == [rem EXCEPT ![d] = work]
           ag2 == [ag EXCEPT ![d] = 0]
           D(h) == SumFunctionOnSet(Demanded(tasks, L, h), L)
<1>1. /\ e \in Nat /\ k \in [L -> Nat]
      /\ \A j \in A : k[j] > 0 =>
           (k[j] - 1) * tasks[j].period + ag[j] = e /\ ag[j] <= tasks[j].period
      /\ k[t] > 0 => k[t] = 1 /\ (ag[t] = e \/ (ag[t] = MaxAge /\ MaxAge <= e))
  BY DEF Pristine, Started
<1>2. /\ \A j \in L : k[j] = 0 => e = 0 /\ j \notin rd /\ ag[j] >= tasks[j].period
      /\ k[t] > 0 => t \in rd
  BY DEF Pristine, Waiting
<1>3. SumFunctionOnSet(rem, L) + e = D(k)
  BY DEF Pristine, Used
<1>4. /\ L \subseteq Tasks /\ t \in L /\ A \subseteq L /\ L = A \cup {t} /\ t \notin A
      /\ \A j \in L : tasks[j].period \in Nat /\ tasks[j].wcet \in Nat /\ k[j] \in Nat
      /\ tasks[d].wcet \in Nat
  BY <1>1, Levels, DemandedTypes, Contracts DEF Level
<1>5. /\ ag2[d] = 0
      /\ \A j \in Tasks : j # d => ag2[j] = ag[j]
      /\ \A j \in Tasks : ag[j] \in Nat
  OBVIOUS
<1>6. SumFunctionOnSet(rem, L) \in Nat /\ D(k) \in Nat
  BY <1>1, RemainingNat, DemandedTypes
<1>7. CASE d \notin L
  <2>1. SumFunctionOnSet(rem2, L) = SumFunctionOnSet(rem, L)
    BY <1>7, ElsewhereSums
  <2>2. Used(tasks, rem2, t, e, k)
    BY <1>3, <2>1 DEF Used
  <2>3. \A j \in L : ag2[j] = ag[j] /\ j # d
    BY <1>4, <1>5, <1>7
  <2>4. Started(tasks, ag2, t, e, k)
    <3> HIDE DEF ag2
    <3> QED
      BY <1>1, <1>4, <2>3 DEF Started
  <2>5. Waiting(tasks, rd \cup {d}, ag2, t, e, k)
    <3> HIDE DEF ag2
    <3> QED
      BY <1>2, <1>4, <2>3 DEF Waiting
  <2> QED
    BY <2>2, <2>4, <2>5 DEF Pristine
<1>8. CASE d \in L
  <2>0. PICK k2 : k2 = [k EXCEPT ![d] = @ + 1]
    OBVIOUS
  <2>1. /\ k2 \in [L -> Nat] /\ k2[d] = k[d] + 1 /\ k[d] \in Nat
        /\ \A j \in L \ {d} : k2[j] = k[j]
    BY <1>1, <1>8, <2>0
  <2>2. Used(tasks, rem2, t, e, k2)
    <3>1. SumFunctionOnSet(rem2, L) = SumFunctionOnSet(rem, L) + work
      BY <1>8, ReleaseSums
    <3>2. D(k2) = D(k) + tasks[d].wcet
      BY <1>1, <1>8, <2>1, DemandedSums
    <3>3. SumFunctionOnSet(rem2, L) + e = D(k2)
      <4> HIDE DEF L, D, rem2
      <4> QED
        BY <1>1, <1>3, <1>4, <1>6, <3>1, <3>2
    <3> QED
      BY <3>3 DEF Used
  <2>3. ASSUME NEW j \in A, k2[j] > 0
        PROVE  (k2[j] - 1) * tasks[j].period + ag2[j] = e /\ ag2[j] <= tasks[j].period
    <3> HIDE DEF A, L, ag2
    <3>1. CASE j # d
      <4>1. k2[j] = k[j] /\ ag2[j] = ag[j] /\ k[j] \in Nat
        BY <1>4, <1>5, <2>1, <3>1
      <4> QED
        BY <1>1, <2>3, <4>1
    <3>2. CASE j = d
      <4>1. k2[j] - 1 = k[d] /\ ag2[j] = 0 /\ tasks[d].period \in Nat /\ tasks[j] = tasks[d]
        BY <1>4, <1>5, <1>8, <2>1, <3>2
      <4>2. k[d] * tasks[d].period = e
        <5>1. CASE k[d] = 0
          <6>1. e = 0
            BY <1>2, <1>8, <5>1
          <6> QED
            BY <4>1, <5>1, <6>1
        <5>2. CASE k[d] > 0
          <6>1. (k[d] - 1) * tasks[d].period + ag[d] = e /\ ag[d] <= tasks[d].period
            BY <1>1, <3>2, <5>2
          <6>2. ag[d] = tasks[d].period
            BY <1>5, <4>1, <6>1
          <6>3. \A a, b \in Nat : a > 0 => (a - 1) * b + b = a * b
            OBVIOUS
          <6> QED
            BY <2>1, <4>1, <5>2, <6>1, <6>2, <6>3
        <5> QED
          BY <2>1, <5>1, <5>2
      <4>3. k[d] * tasks[d].period + 0 = k[d] * tasks[d].period
        BY <2>1, <4>1
      <4> QED
        BY <4>1, <4>2, <4>3
    <3> QED
      BY <3>1, <3>2
  <2>4. k2[t] > 0 => k2[t] = 1 /\ (ag2[t] = e \/ (ag2[t] = MaxAge /\ MaxAge <= e))
                     /\ t \in rd \cup {d}
    <3> HIDE DEF A, L, ag2
    <3>1. CASE t # d
      BY <1>1, <1>2, <1>4, <1>5, <2>1, <3>1
    <3>2. CASE t = d
      <4>1. k[t] = 0
        BY <1>2, <2>1, <3>2
      <4> QED
        BY <1>2, <1>4, <1>5, <2>1, <3>2, <4>1
    <3> QED
      BY <3>1, <3>2
  <2>5. Started(tasks, ag2, t, e, k2)
    <3> HIDE DEF ag2
    <3> QED
      BY <1>1, <2>1, <2>3, <2>4 DEF Started
  <2>6. Waiting(tasks, rd \cup {d}, ag2, t, e, k2)
    <3>1. ASSUME NEW j \in L, k2[j] = 0
          PROVE  e = 0 /\ j \notin rd \cup {d} /\ ag2[j] >= tasks[j].period
      <4>1. j # d
        BY <2>1, <3>1
      <4>2. k[j] = 0
        BY <2>1, <3>1, <4>1
      <4>3. j \in Tasks /\ ag2[j] = ag[j]
        BY <1>4, <1>5, <4>1
      <4> HIDE DEF ag2, L
      <4> QED
        BY <1>2, <4>1, <4>2, <4>3
    <3> HIDE DEF ag2
    <3> QED
      BY <2>4, <3>1 DEF Waiting
  <2> QED
    BY <2>2, <2>5, <2>6 DEF Pristine
<1> QED
  BY <1>7, <1>8

\* A tick, with nobody left to be released and no task above past its period.
LEMMA StartedTick ==
  ASSUME tasks \in TaskSets, NEW t \in Tasks, NEW d \in Level(tasks, t),
         NEW rd, NEW rem \in [Tasks -> Nat], rem[d] >= 1,
         NEW ag \in [Tasks -> Nat], NEW ag2 \in [Tasks -> Nat], NEW e, NEW k,
         Pristine(tasks, rd, rem, ag, t, e, k),
         \A j \in Level(tasks, t) : j \in rd \/ ag[j] < tasks[j].period,
         \A j \in Above(tasks, t) : ag[j] < tasks[j].period /\ ag2[j] = ag[j] + 1,
         t \in rd, ag[t] <= MaxAge,
         ag2[t] = IF ag[t] < MaxAge THEN ag[t] + 1 ELSE ag[t]
  PROVE  /\ \A j \in Level(tasks, t) : k[j] > 0
         /\ Started(tasks, ag2, t, e + 1, k)
         /\ Used(tasks, [rem EXCEPT ![d] = @ - 1], t, e + 1, k)
<1> DEFINE L == Level(tasks, t)
           A == Above(tasks, t)
           rem2 == [rem EXCEPT ![d] = @ - 1]
           D == SumFunctionOnSet(Demanded(tasks, L, k), L)
<1>1. /\ e \in Nat /\ k \in [L -> Nat]
      /\ \A j \in A : k[j] > 0 => (k[j] - 1) * tasks[j].period + ag[j] = e
      /\ k[t] > 0 => k[t] = 1 /\ (ag[t] = e \/ (ag[t] = MaxAge /\ MaxAge <= e))
  BY DEF Pristine, Started
<1>2. /\ \A j \in L : k[j] = 0 => j \notin rd /\ ag[j] >= tasks[j].period
      /\ k[t] > 0 => t \in rd
  BY DEF Pristine, Waiting
<1>3. SumFunctionOnSet(rem, L) + e = D
  BY DEF Pristine, Used
<1>4. /\ L \subseteq Tasks /\ t \in L /\ A \subseteq L
      /\ \A j \in L : tasks[j].period \in Nat /\ k[j] \in Nat /\ ag[j] \in Nat
  BY <1>1, Levels, DemandedTypes
<1>5. \A j \in L : k[j] > 0
  <2> HIDE DEF L
  <2> QED
    BY <1>2, <1>4 DEF L
<1>6. k[t] = 1
  BY <1>1, <1>4, <1>5
<1>7. ASSUME NEW j \in A
      PROVE  (k[j] - 1) * tasks[j].period + ag2[j] = e + 1 /\ ag2[j] <= tasks[j].period
  <2>1. PICK p : p = (k[j] - 1) * tasks[j].period
    OBVIOUS
  <2>2. /\ j \in L /\ k[j] - 1 \in Nat /\ tasks[j].period \in Nat /\ ag[j] \in Nat /\ k[j] > 0
    BY <1>4, <1>5
  <2>3. p \in Nat
    BY <2>1, <2>2
  <2>4. p + ag[j] = e
    BY <1>1, <2>1, <2>2
  <2>5. ag[j] < tasks[j].period /\ ag2[j] = ag[j] + 1
    OBVIOUS
  <2>6. p + ag2[j] = e + 1 /\ ag2[j] <= tasks[j].period
    BY <1>1, <2>2, <2>3, <2>4, <2>5
  <2> QED
    BY <2>1, <2>6
<1>8. ag2[t] = e + 1 \/ (ag2[t] = MaxAge /\ MaxAge <= e + 1)
  <2>1. \/ ag[t] < MaxAge /\ ag2[t] = ag[t] + 1
        \/ ag[t] = MaxAge /\ ag2[t] = ag[t]
    BY <1>4, AgeAssumption
  <2>2. ag[t] = e \/ (ag[t] = MaxAge /\ MaxAge <= e)
    BY <1>1, <1>6
  <2> QED
    BY <1>1, <2>1, <2>2, AgeAssumption
<1>9. Started(tasks, ag2, t, e + 1, k)
  <2>1. e + 1 \in Nat
    BY <1>1
  <2> QED
    BY <1>1, <1>6, <1>7, <1>8, <2>1 DEF Started
<1>10. Used(tasks, rem2, t, e + 1, k)
  <2>1. /\ SumFunctionOnSet(rem2, L) \in Nat
        /\ SumFunctionOnSet(rem, L) = SumFunctionOnSet(rem2, L) + 1
    BY TickSums
  <2>2. SumFunctionOnSet(rem2, L) + (e + 1) = D
    <3> HIDE DEF L, D, rem2
    <3> QED
      BY <1>1, <1>3, <2>1
  <2> QED
    BY <2>2 DEF Used
<1> QED
  BY <1>5, <1>9, <1>10

\* When no work remains, the time that has passed is a fixed point.
LEMMA StartedEnds ==
  ASSUME tasks \in TaskSets, NEW t \in Tasks, tasks[t].blocking = 0,
         NEW rem, \A j \in Level(tasks, t) : rem[j] = 0,
         NEW ag \in [Tasks -> Nat], \A j \in Tasks : ag[j] >= 1, NEW e, NEW k,
         \A j \in Level(tasks, t) : k[j] > 0,
         Started(tasks, ag, t, e, k), Used(tasks, rem, t, e, k)
  PROVE  e \in Nat /\ Exact(tasks, t, e) = e /\ (ag[t] = e \/ (ag[t] = MaxAge /\ MaxAge <= e))
<1> DEFINE L == Level(tasks, t)
           A == Above(tasks, t)
           D == Demanded(tasks, L, k)
           I == Interference(tasks, t, e)
<1>1. /\ e \in Nat /\ k \in [L -> Nat]
      /\ \A j \in A : k[j] > 0 =>
           (k[j] - 1) * tasks[j].period + ag[j] = e /\ ag[j] <= tasks[j].period
      /\ k[t] > 0 => k[t] = 1 /\ (ag[t] = e \/ (ag[t] = MaxAge /\ MaxAge <= e))
  BY DEF Started
<1>2. /\ IsFiniteSet(L) /\ L \subseteq Tasks /\ t \in L /\ IsFiniteSet(A) /\ A \subseteq L
  BY Levels
<1>3. \A j \in L : /\ tasks[j].period \in Nat /\ tasks[j].period >= 1
                   /\ tasks[j].wcet \in Nat /\ k[j] \in Nat /\ k[j] > 0
                   /\ D[j] = k[j] * tasks[j].wcet /\ D[j] \in Nat
  BY <1>1, DemandedTypes
<1>4. ASSUME NEW j \in A PROVE D[j] \in Nat /\ I[j] = D[j]
  <2>1. /\ j \in L /\ tasks[j].period \in Nat \ {0} /\ k[j] \in Nat /\ k[j] > 0
        /\ ag[j] \in Nat /\ ag[j] >= 1
    BY <1>2, <1>3
  <2>2. (k[j] - 1) * tasks[j].period + ag[j] = e /\ ag[j] <= tasks[j].period
    BY <1>1, <2>1
  <2>3. k[j] * tasks[j].period \in Nat
        /\ k[j] * tasks[j].period = (k[j] - 1) * tasks[j].period + tasks[j].period
        /\ (k[j] - 1) * tasks[j].period \in Nat
    <3>1. \A a, b \in Nat : a > 0 => /\ a * b \in Nat /\ (a - 1) * b \in Nat
                                     /\ a * b = (a - 1) * b + b
      OBVIOUS
    <3> QED
      BY <2>1, <3>1
  <2>4. e <= k[j] * tasks[j].period /\ k[j] * tasks[j].period < e + tasks[j].period
    BY <1>1, <2>1, <2>2, <2>3
  <2>5. DivCeil(e, tasks[j].period) = k[j]
    BY <1>1, <2>1, <2>4, DivCeilUnique
  <2> QED
    BY <1>3, <2>1, <2>5 DEF Interference
<1>5. SumFunctionOnSet(D, A) = SumFunctionOnSet(I, A)
  <2> HIDE DEF A, D, I
  <2> QED
    BY <1>2, <1>4, SumSame
<1>6. /\ SumFunctionOnSet(D, A) \in Nat
      /\ SumFunctionOnSet(D, L) = k[t] * tasks[t].wcet + SumFunctionOnSet(D, A)
  BY <1>1, LevelDemand
<1>7. SumFunctionOnSet(rem, L) = 0
  <2> HIDE DEF L
  <2> QED
    BY <1>2, SumZero DEF L
<1>8. SumFunctionOnSet(rem, L) + e = SumFunctionOnSet(D, L)
  BY DEF Used
<1>9. k[t] = 1 /\ tasks[t].wcet \in Nat /\ k[t] * tasks[t].wcet = tasks[t].wcet
  BY <1>1, <1>2, <1>3
<1>10. e = tasks[t].wcet + SumFunctionOnSet(I, A) /\ SumFunctionOnSet(I, A) \in Nat
  <2> HIDE DEF L, A, D, I
  <2> QED
    BY <1>1, <1>5, <1>6, <1>7, <1>8, <1>9
<1>11. Exact(tasks, t, e) = e
  <2>1. Exact(tasks, t, e) = tasks[t].wcet + 0 + SumFunctionOnSet(I, A)
    BY DEF Exact
  <2> HIDE DEF A, I
  <2> QED
    BY <1>9, <1>10, <2>1
<1> QED
  BY <1>1, <1>9, <1>11

-----------------------------------------------------------------------------
(* The invariant: from the critical instant, below tasks that meet their    *)
(* deadlines, the first response is a fixed point of the recurrence (or the *)
(* count of the ticks reached its bound first), and no greater than one     *)
(* within the deadline.                                                     *)

MetAbove(ts, t) == \A o \in Above(ts, t) : \E R : Meets(ts, o, R)

Reached(ts, t, f) ==
  /\ \E x \in Nat : Exact(ts, t, x) = x /\ (f = x \/ (f = MaxAge /\ MaxAge <= x))
  /\ \A R : Meets(ts, t, R) => f <= R

FirstOf(t) ==
  /\ first[t] # 0 => Reached(tasks, t, first[t])
  /\ (critical /\ first[t] = 0) => \E e, k : Pristine(tasks, Ready, remaining, age, t, e, k)

FirstInv == \A t \in Tasks : MetAbove(tasks, t) => FirstOf(t)

\* A tick that does not complete the first job, and one that does.
LEMMA FirstTick ==
  ASSUME SystemInv, SystemInv', BusyInv, tasks' = tasks, critical, DistinctPriorities(tasks),
         NEW t \in Tasks, tasks[t].blocking = 0, MetAbove(tasks, t),
         Tick, DueNow = {}, NEW e, NEW k, Pristine(tasks, Ready, remaining, age, t, e, k)
  PROVE  IF Completes(t)
         THEN Older(t) # 0 /\ Reached(tasks, t, Older(t))
         ELSE Pristine(tasks, Ready', remaining', age', t, e + 1, k)
<1> DEFINE L == Level(tasks, t)
<1>1. /\ tasks \in TaskSets /\ Tasks' = Tasks /\ MaxAge \in Nat
      /\ remaining \in [Tasks -> Nat] /\ age \in [Tasks -> Nat]
      /\ remaining' \in [Tasks -> Nat] /\ age' \in [Tasks -> Nat]
      /\ \A j \in Tasks : remaining'[j] > 0 <=> j \in Ready'
      /\ \A j \in Tasks : remaining[j] > 0 <=> j \in Ready
      /\ \A j \in Tasks : age[j] <= MaxAge
  BY AgeAssumption DEF SystemInv, SystemTypeOK, Tasks
<1>2. /\ L \subseteq Tasks /\ t \in L /\ Above(tasks, t) \subseteq L /\ L = Above(tasks, t) \cup {t}
      /\ \A j \in Tasks : /\ tasks[j].period \in Nat /\ tasks[j].period < MaxAge
                          /\ DeadlineOf(tasks[j]) \in Nat
                          /\ DeadlineOf(tasks[j]) <= tasks[j].period
                          /\ tasks[j].priority \in Nat
  BY <1>1, Levels, Contracts DEF Level
<1>3. \A j \in Tasks : j \in Ready \/ age[j] < tasks[j].period
  BY <1>1, <1>2 DEF DueNow, Due
<1>4. /\ Ready' \subseteq Ready /\ age' = [j \in Tasks |-> Older(j)]
      /\ \A j \in Tasks : Older(j) \in 1 .. MaxAge /\ Older(j) <= age[j] + 1
  BY TickFacts
<1>5. ASSUME NEW j \in Above(tasks, t)
      PROVE  age[j] < tasks[j].period /\ age'[j] = age[j] + 1
  <2>1. j \in Tasks
    BY <1>2
  <2>2. age[j] < tasks[j].period
    <3>1. CASE j \in Ready
      <4>1. PICK R : Meets(tasks, j, R)
        BY DEF MetAbove
      <4>2. age[j] < R /\ R \in Nat /\ R <= DeadlineOf(tasks[j])
        BY <2>1, <3>1, <4>1, BusyBound DEF Meets
      <4> QED
        BY <1>1, <1>2, <2>1, <4>2
    <3> QED
      BY <1>3, <2>1, <3>1
  <2>3. age'[j] = Older(j) /\ age[j] \in Nat /\ tasks[j].period \in Nat /\ tasks[j].period < MaxAge
    BY <1>1, <1>2, <1>4, <2>1
  <2> QED
    BY <1>1, <2>2, <2>3 DEF Older
<1>6. t \in Ready
  <2>1. k[t] \in Nat
    BY <1>2 DEF Pristine, Started
  <2>2. CASE k[t] = 0
    <3>1. t \notin Ready /\ age[t] >= tasks[t].period
      BY <1>2, <2>2 DEF Pristine, Waiting
    <3> QED
      BY <1>1, <1>2, <1>3, <3>1
  <2>3. CASE k[t] > 0
    BY <2>3 DEF Pristine, Waiting
  <2> QED
    BY <2>1, <2>2, <2>3
<1>7. age'[t] = IF age[t] < MaxAge THEN age[t] + 1 ELSE age[t]
  BY <1>4, <1>6 DEF Older
<1>8. ready # <<>>
  BY <1>6 DEF Ready
<1>9. PICK d : d = Dispatched
  OBVIOUS
<1>10. /\ d \in Tasks /\ d \in Ready /\ \A o \in Ready : tasks[o].priority <= tasks[d].priority
  BY <1>8, <1>9, Dispatch
<1>11. d \in L
  BY <1>1, <1>2, <1>6, <1>10, Levels
<1>12. /\ remaining' = [remaining EXCEPT ![d] = @ - 1]
       /\ remaining[d] >= 1
  BY <1>8, <1>9, TickFacts
<1>13. \A j \in L : j \in Ready \/ age[j] < tasks[j].period
  BY <1>2, <1>3
<1>14. /\ \A j \in L : k[j] > 0
       /\ Started(tasks, age', t, e + 1, k)
       /\ Used(tasks, [remaining EXCEPT ![d] = @ - 1], t, e + 1, k)
  <2>1. PICK ag2 : ag2 = age'
    OBVIOUS
  <2>2. /\ ag2 \in [Tasks -> Nat]
        /\ \A j \in Above(tasks, t) : age[j] < tasks[j].period /\ ag2[j] = age[j] + 1
        /\ ag2[t] = IF age[t] < MaxAge THEN age[t] + 1 ELSE age[t]
    BY <1>1, <1>5, <1>7, <2>1
  <2>3. /\ tasks \in TaskSets /\ d \in Level(tasks, t) /\ remaining[d] >= 1
        /\ remaining \in [Tasks -> Nat] /\ age \in [Tasks -> Nat]
        /\ age[t] <= MaxAge /\ t \in Ready
    BY <1>1, <1>6, <1>11, <1>12
  <2>4. /\ \A j \in L : k[j] > 0
        /\ Started(tasks, ag2, t, e + 1, k)
        /\ Used(tasks, [remaining EXCEPT ![d] = @ - 1], t, e + 1, k)
    BY <1>13, <2>2, <2>3, StartedTick
  <2> QED
    BY <2>1, <2>4
<1>15. Used(tasks, remaining', t, e + 1, k)
  BY <1>12, <1>14
<1>16. CASE ~Completes(t)
  <2>1. t \in Ready'
    BY <1>1, <1>6, <1>16 DEF Completes
  <2>2. Waiting(tasks, Ready', age', t, e + 1, k)
    <3>1. \A j \in L : k[j] # 0
      BY <1>14
    <3> QED
      BY <2>1, <3>1 DEF Waiting
  <2> QED
    BY <1>14, <1>15, <1>16, <2>2 DEF Pristine
<1>17. CASE Completes(t)
  <2>1. remaining'[t] = 0 /\ remaining[t] > 0 /\ remaining[t] \in Nat
    BY <1>1, <1>6, <1>17 DEF Completes
  <2>2. d = t
    BY <1>1, <1>10, <1>12, <2>1
  <2>3. ASSUME NEW j \in L PROVE remaining'[j] = 0
    <3>1. CASE j = t
      BY <2>1, <3>1
    <3>2. CASE j # t
      <4>1. j \in Above(tasks, t) /\ j \in Tasks
        BY <1>2, <3>2
      <4>2. tasks[j].priority > tasks[t].priority
        BY <4>1 DEF Above, Preempts
      <4>3. j \notin Ready
        BY <1>2, <1>10, <2>2, <4>1, <4>2
      <4>4. j \notin Ready'
        BY <1>4, <4>3
      <4> QED
        BY <1>1, <4>1, <4>4
    <3> QED
      BY <3>1, <3>2
  <2>4. \A j \in Tasks : age'[j] >= 1
    BY <1>1, <1>4
  <2>5. PICK x : x = e + 1
    OBVIOUS
  <2>6. /\ x \in Nat /\ Exact(tasks, t, x) = x
        /\ age'[t] = x \/ (age'[t] = MaxAge /\ MaxAge <= x)
    BY <1>1, <1>14, <1>15, <2>3, <2>4, <2>5, StartedEnds
  <2>7. age'[t] = Older(t)
    BY <1>4
  <2>8. ASSUME NEW R, Meets(tasks, t, R) PROVE Older(t) <= R
    <3>1. age[t] < R /\ R \in Nat
      BY <1>6, <2>8, BusyBound DEF Meets
    <3>2. Older(t) <= age[t] + 1 /\ Older(t) \in Nat /\ age[t] \in Nat
      BY <1>1, <1>4
    <3> QED
      BY <3>1, <3>2
  <2>9. Older(t) # 0
    BY <2>4, <2>7
  <2> QED
    BY <1>17, <2>6, <2>7, <2>8, <2>9 DEF Reached
<1> QED
  BY <1>16, <1>17

\* A step keeps it for one task.
LEMMA FirstStepOf ==
  ASSUME SystemInv, SystemInv', BusyInv, tasks' = tasks, critical' = critical,
         DistinctPriorities(tasks),
         \/ UNCHANGED execution
         \/ \E o \in Tasks : \E work \in 1 .. tasks[o].wcet :
              /\ Release(o, work) /\ first' = first
              /\ critical => work = tasks[o].wcet
         \/ /\ Tick
            /\ ~critical => first' = first
            /\ critical =>
                 /\ DueNow = {}
                 /\ first' = [o \in Tasks |-> IF Completes(o) /\ first[o] = 0
                                              THEN Older(o) ELSE first[o]],
         NEW t \in Tasks, tasks[t].blocking = 0, MetAbove(tasks, t), FirstOf(t)
  PROVE  /\ first'[t] # 0 => Reached(tasks, t, first'[t])
         /\ (critical /\ first'[t] = 0) =>
              \E e, k : Pristine(tasks, Ready', remaining', age', t, e, k)
<1>1. /\ first[t] # 0 => Reached(tasks, t, first[t])
      /\ (critical /\ first[t] = 0) => \E e, k : Pristine(tasks, Ready, remaining, age, t, e, k)
  BY DEF FirstOf
<1>2. CASE UNCHANGED execution
  <2>1. Ready' = Ready /\ remaining' = remaining /\ age' = age /\ first' = first
    BY <1>2 DEF execution, Ready
  <2> QED
    BY <1>1, <2>1
<1>3. CASE \E o \in Tasks : \E work \in 1 .. tasks[o].wcet :
             /\ Release(o, work) /\ first' = first
             /\ critical => work = tasks[o].wcet
  <2>1. PICK o \in Tasks : \E work \in 1 .. tasks[o].wcet :
               /\ Release(o, work) /\ first' = first
               /\ critical => work = tasks[o].wcet
    BY <1>3
  <2>2. PICK work \in 1 .. tasks[o].wcet :
               /\ Release(o, work) /\ first' = first
               /\ critical => work = tasks[o].wcet
    BY <2>1
  <2>3. CASE critical /\ first[t] = 0
    <3>1. PICK e, k : Pristine(tasks, Ready, remaining, age, t, e, k)
      BY <1>1, <2>3
    <3>2. work \in Nat /\ work = tasks[o].wcet
      BY <2>2, <2>3, Contracts DEF SystemInv
    <3>3. /\ o \notin Ready /\ remaining[o] = 0 /\ age[o] >= tasks[o].period
          /\ Ready' = Ready \cup {o}
          /\ remaining' = [remaining EXCEPT ![o] = work]
          /\ age' = [age EXCEPT ![o] = 0]
      BY <2>2, ReleaseFacts
    <3>4. \E k2 : Pristine(tasks, Ready \cup {o}, [remaining EXCEPT ![o] = work],
                           [age EXCEPT ![o] = 0], t, e, k2)
      <4>1. tasks \in TaskSets /\ remaining \in [Tasks -> Nat] /\ age \in [Tasks -> Nat]
        BY DEF SystemInv
      <4> QED
        BY <3>1, <3>2, <3>3, <4>1, PristineRelease
    <3> QED
      BY <2>2, <2>3, <3>3, <3>4
  <2> QED
    BY <1>1, <2>2, <2>3
<1>4. CASE Tick /\ ~critical /\ first' = first
  BY <1>1, <1>4
<1>5. CASE /\ Tick /\ critical /\ DueNow = {}
           /\ first' = [o \in Tasks |-> IF Completes(o) /\ first[o] = 0
                                        THEN Older(o) ELSE first[o]]
  <2>1. first'[t] = IF Completes(t) /\ first[t] = 0 THEN Older(t) ELSE first[t]
    BY <1>5
  <2>2. CASE first[t] # 0
    BY <1>1, <2>1, <2>2
  <2>3. CASE first[t] = 0
    <3>1. PICK e, k : Pristine(tasks, Ready, remaining, age, t, e, k)
      BY <1>1, <1>5, <2>3
    <3>2. IF Completes(t)
          THEN Older(t) # 0 /\ Reached(tasks, t, Older(t))
          ELSE Pristine(tasks, Ready', remaining', age', t, e + 1, k)
      BY <1>5, <3>1, FirstTick
    <3>3. CASE Completes(t)
      BY <2>1, <2>3, <3>2, <3>3
    <3>4. CASE ~Completes(t)
      BY <2>1, <2>3, <3>2, <3>4
    <3> QED
      BY <3>3, <3>4
  <2> QED
    BY <2>2, <2>3
<1> QED
  BY <1>2, <1>3, <1>4, <1>5

\* Tasks that nothing below them can block.
Unblocked(ts) == \A i \in DOMAIN ts : ts[i].blocking = 0

LEMMA FirstStep ==
  ASSUME \A ts \in TaskSets : DistinctPriorities(ts) /\ Unblocked(ts)
  PROVE  SystemInv /\ BusyInv /\ FirstInv /\ [SystemNext]_SystemVars => FirstInv'
<1> SUFFICES ASSUME SystemInv, BusyInv, FirstInv, [SystemNext]_SystemVars
             PROVE  FirstInv'
  OBVIOUS
<1>1. /\ tasks' = tasks /\ critical' = critical /\ Tasks' = Tasks /\ SystemInv'
      /\ DistinctPriorities(tasks) /\ Unblocked(tasks)
  BY Steps, SystemStep DEF Tasks, SystemInv
<1>2. \/ UNCHANGED execution
      \/ \E o \in Tasks : \E work \in 1 .. tasks[o].wcet :
           /\ Release(o, work) /\ first' = first
           /\ critical => work = tasks[o].wcet
      \/ /\ Tick
         /\ ~critical => first' = first
         /\ critical =>
              /\ DueNow = {}
              /\ first' = [o \in Tasks |-> IF Completes(o) /\ first[o] = 0
                                           THEN Older(o) ELSE first[o]]
  BY Steps
<1>3. ASSUME NEW t \in Tasks, MetAbove(tasks, t)
      PROVE  /\ first'[t] # 0 => Reached(tasks, t, first'[t])
             /\ (critical /\ first'[t] = 0) =>
                  \E e, k : Pristine(tasks, Ready', remaining', age', t, e, k)
  <2>1. FirstOf(t) /\ tasks[t].blocking = 0
    BY <1>1, <1>3 DEF FirstInv, Unblocked, Tasks
  <2> QED
    BY <1>1, <1>2, <1>3, <2>1, FirstStepOf
<1> QED
  BY <1>1, <1>3 DEF FirstInv, FirstOf

LEMMA FirstInit == SystemInit => FirstInv
<1> SUFFICES ASSUME SystemInit, NEW t \in Tasks, MetAbove(tasks, t)
             PROVE  FirstOf(t)
  BY DEF FirstInv
<1>1. /\ tasks \in TaskSets /\ ready = <<>> /\ remaining = [j \in Tasks |-> 0]
      /\ age = [j \in Tasks |-> tasks[j].period] /\ first = [j \in Tasks |-> 0]
  BY DEF SystemInit, Init
<1>2. Ready = {}
  BY <1>1 DEF Ready
<1>3. \A j \in Tasks : tasks[j].period \in Nat
  BY <1>1, Contracts
<1>4. \A j \in Tasks : j \notin Ready /\ remaining[j] = 0 /\ age[j] >= tasks[j].period
  BY <1>1, <1>2, <1>3
<1> QED
  BY <1>1, <1>4, PristineInit DEF FirstOf

LEMMA FirstCorrect ==
  ASSUME \A ts \in TaskSets : DistinctPriorities(ts) /\ Unblocked(ts)
  PROVE  SystemSpec => []FirstInv
<1>1. SystemSpec => []BusyInv
  BY BusyCorrect
<1>2. SystemInv /\ BusyInv /\ FirstInv /\ [SystemNext]_SystemVars => FirstInv'
  BY FirstStep
<1> QED
  BY <1>1, <1>2, FirstInit, SystemTypeCorrect, PTL DEF SystemSpec

\* Below tasks that pass, the first response from the critical instant is the
\* one computed, to the tick, and a task that fails does miss its deadline.
THEOREM ResponseReached ==
  ASSUME \A ts \in TaskSets : DistinctPriorities(ts) /\ Unblocked(ts) /\ Reachable(ts)
  PROVE  SystemSpec => []ResponseIsReached
<1>1. SystemInv /\ FirstInv /\ AnswerInv /\ VerdictInv => ResponseIsReached
  <2> SUFFICES ASSUME SystemInv, FirstInv, AnswerInv, VerdictInv, NEW t \in Tasks,
                      pc = "done", first[t] # 0,
                      \A o \in Tasks : Preempts(tasks[o], tasks[t]) => Analysed(o)
               PROVE  /\ verdicts[t].kind = "pass" => first[t] = verdicts[t].response
                      /\ verdicts[t].kind = "fail" => first[t] > DeadlineOf(tasks[t])
    BY DEF ResponseIsReached
  <2>1. /\ tasks \in TaskSets /\ first[t] \in Nat /\ MaxAge \in Nat
        /\ Len(verdicts) = Len(tasks)
    BY AgeAssumption DEF SystemInv, AnswerInv
  <2>2. /\ Tasks = 1 .. Len(tasks)
        /\ DeadlineOf(tasks[t]) \in Nat /\ tasks[t].period \in Nat
        /\ DeadlineOf(tasks[t]) <= tasks[t].period /\ tasks[t].period < MaxAge
        /\ Decidable(tasks, t)
    BY <2>1, Contracts
  <2>3. MetAbove(tasks, t)
    <3>1. ASSUME NEW o \in Above(tasks, t) PROVE \E R : Meets(tasks, o, R)
      <4>1. o \in Tasks /\ Preempts(tasks[o], tasks[t])
        BY <2>2 DEF Above
      <4> QED
        BY <4>1, PassMeets
    <3> QED
      BY <3>1 DEF MetAbove
  <2>4. Reached(tasks, t, first[t])
    BY <2>3 DEF FirstInv, FirstOf
  <2>5. PICK x \in Nat : /\ Exact(tasks, t, x) = x
                         /\ first[t] = x \/ (first[t] = MaxAge /\ MaxAge <= x)
    BY <2>4 DEF Reached
  <2>6. Sound(tasks, t, verdicts[t])
    BY <2>1, <2>2 DEF VerdictInv, AnswerInv
  <2>7. CASE verdicts[t].kind = "pass"
    <3>1. PICK R : R = verdicts[t].response
      OBVIOUS
    <3>2. Meets(tasks, t, R)
      BY <2>7, <3>1, PassMeets DEF Analysed
    <3>3. R \in Nat /\ R <= DeadlineOf(tasks[t]) /\ first[t] <= R
      BY <2>4, <3>2 DEF Meets, Reached
    <3>4. \A q \in Nat : Exact(tasks, t, q) = q => R <= q
      BY <2>6, <2>7, <3>1 DEF Sound
    <3>5. R <= x
      BY <2>5, <3>4
    <3>6. first[t] = R
      BY <2>1, <2>2, <2>5, <3>3, <3>5
    <3> QED
      BY <2>7, <3>1, <3>6
  <2>8. CASE verdicts[t].kind = "fail"
    <3>1. \A q \in Nat : Exact(tasks, t, q) = q => q > DeadlineOf(tasks[t])
      BY <2>2, <2>6, <2>8 DEF Sound
    <3>2. x > DeadlineOf(tasks[t])
      BY <2>5, <3>1
    <3>3. first[t] > DeadlineOf(tasks[t])
      BY <2>1, <2>2, <2>5, <3>2
    <3> QED
      BY <2>8, <3>3
  <2> QED
    BY <2>7, <2>8
<1>2. (SystemSpec => []FirstInv) /\ (SystemSpec => [](AnswerInv /\ VerdictInv))
  BY FirstCorrect, VerdictsHold
<1> QED
  BY <1>1, <1>2, SystemTypeCorrect, PTL
=============================================================================
