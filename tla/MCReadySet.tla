----------------------------- MODULE MCReadySet -----------------------------
(* Two handlers that use the ready set and two above its ceiling, on the    *)
(* controllers priority_bits lists (2, 3 and 4 bits: fewer levels than      *)
(* priorities, and `motor` shares the ceiling's on some) and on one with a  *)
(* level for each.                                                          *)
EXTENDS ReadySet, TLC

CONSTANTS timer, uart, motor, brake

MCUrgency == (timer :> 5) @@ (uart :> 20) @@ (motor :> 22) @@ (brake :> 31)
MCHwLevels == {LevelsOf(bits) : bits \in 2 .. 5}
=============================================================================
