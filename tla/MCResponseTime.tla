--------------------------- MODULE MCResponseTime ---------------------------
(* ResponseTime.tla on small task sets, and the test it implements.         *)
EXTENDS ResponseTime

Timing(n, p, t, d, c, b) ==
  [name |-> n, priority |-> p, period |-> t, deadline |-> d, wcet |-> c, blocking |-> b]

\* Two tasks with anything left out or zero, equal priorities included.
Partial(n) ==
  {Timing(n, p, t, d, c, b) : p \in {1, 2}, t \in {None, 0, 2, 5}, d \in {None, 4},
                              c \in {None, 0, 3}, b \in {0, 1}}

\* Three declared tasks: interference from two levels, equal levels, values
\* near the width of the integers, and deadlines longer than the budget.
Declaring(n, ps, ts, ds, cs) ==
  {Timing(n, p, t, d, c, 0) : p \in ps, t \in ts, d \in ds, c \in cs}

SmallTaskSets ==
  (Partial(1) \X Partial(2))
  \cup (Declaring(1, {3}, {3, 4}, {None}, {1, 2})
          \X Declaring(2, {1, 2}, {5, 8, 22}, {None}, {2, 21})
          \X Declaring(3, {1}, {7, 12, 22}, {None, 6, 22}, {1, 3, 23}))
=============================================================================
