---------------------------- MODULE ReadyLevels -----------------------------
(***************************************************************************)
(* What a ReadySet promises: "the set of priorities that currently have at *)
(* least one runnable task" (crates/malleusrt/src/sched.rs line 103), which *)
(* changes by one whole insertion or removal at a time, whoever calls.     *)
(***************************************************************************)
CONSTANT Level

VARIABLE ready

Init == ready = {}

Insert(p) == ready' = ready \cup {p}
Remove(p) == ready' = ready \ {p}

Next == \E p \in Level : Insert(p) \/ Remove(p)

Spec == Init /\ [][Next]_ready
=============================================================================
