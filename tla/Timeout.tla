------------------------------- MODULE Timeout -------------------------------
(* How long an operation may wait, and the instant its wait ends at: enum    *)
(* Timeout of crates/malleusrt/src/time.rs.                                  *)
EXTENDS Saturating, Option

NoWait         == [kind |-> "none"]
WaitTicks(n)   == [kind |-> "ticks", ticks |-> n]
WaitUntil(at)  == [kind |-> "until", at |-> at]
WaitForever    == [kind |-> "forever"]

\* Timeout::deadline_from; None is never.
DeadlineFrom(timeout, now) ==
  CASE timeout.kind = "none"    -> now
    [] timeout.kind = "ticks"   -> SatAdd(now, timeout.ticks)
    [] timeout.kind = "until"   -> timeout.at
    [] timeout.kind = "forever" -> None
=============================================================================
