-------------------------- MODULE MCAnalysedSystem --------------------------
(* Task sets as the manifest validator lets them through: unique names, no  *)
(* zero period, deadlines within periods, a WCET within the deadline.       *)
EXTENDS AnalysedSystem

Declaring(n, p, ts, ds, cs) ==
  {s \in [name : {n}, priority : {p}, period : ts, deadline : ds, wcet : cs, blocking : {0}] :
     s.deadline # None => s.wcet <= s.deadline /\ s.deadline <= s.period}

\* Three levels: the response time of the lowest sees both others.
Distinct == Declaring(1, 3, {3, 4}, {2, None}, {1, 2, 3})
              \X Declaring(2, 2, {4, 6}, {3, None}, {1, 2})
              \X Declaring(3, 1, {7, 9}, {4, None}, {1, 2, 3})

\* The middle task overruns its period, and skips activations; the lowest is
\* analysed as if it did not.
Overrunning == Declaring(1, 3, {12}, {None}, {3})
                 \X Declaring(2, 2, {2}, {None}, {1})
                 \X Declaring(3, 1, {12}, {None}, {1})

DistinctLevels == Distinct \cup Overrunning

\* The same, two of them sharing a level as M0005 warns about.
Shared == Declaring(1, 3, {4}, {None}, {1, 2})
            \X Declaring(2, 2, {4, 5}, {3, None}, {1, 2})
            \X Declaring(3, 2, {7, 9}, {4, None}, {1, 3})
=============================================================================
