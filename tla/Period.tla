------------------------------- MODULE Period -------------------------------
(***************************************************************************)
(* Periodic activation without drift: struct Period of                     *)
(* crates/malleusrt/src/time.rs (lines 47-137) on the saturating Instants  *)
(* of crates/malleus-arch/src/time.rs, driven by one periodic task.        *)
(*                                                                         *)
(* The task waits for `next`, is activated then or later, executes for as  *)
(* long as it is left to, and calls `advance` when it completes.  Time     *)
(* passes in between, one tick at a time.                                  *)
(***************************************************************************)
EXTENDS Saturating, FiniteSets

CONSTANTS
  MaxMissed,  \* u32::MAX
  Starts,     \* instants at which a schedule may be started
  Intervals   \* its interval in ticks; zero is the case the kernel guards

ASSUME CounterAssumption == MaxMissed \in Nat
ASSUME InputAssumption == Starts \subseteq 0 .. MaxU /\ Intervals \subseteq 0 .. MaxU

VARIABLES
  now,       \* the monotonic clock
  start,     \* argument of starting_at (history)
  interval, next, missed,  \* the fields of Period
  running,   \* whether the task is between activation and completion
  runs       \* completed activations (history)

vars == <<now, start, interval, next, missed, running, runs>>

-----------------------------------------------------------------------------
\* Instant::saturating_since; saturating_add_ticks is SatAdd.
Since(a, b) == SatSub(a, b)

\* Mutant of Skipped: one period too many where `now` is on the grid.
SkippedPast(behind) == IF interval = 0 THEN 1 ELSE behind \div interval + 1

\* Periods to skip so that a target `behind` ticks in the past reaches now.
Skipped(behind) == IF interval = 0 THEN 1 ELSE DivCeil(behind, interval)

\* Mutants of MissedAfter: one miss an overrun, a counter that wraps, and one
\* that outgrows its width.
MissedOnce(skipped)    == IF missed < MaxMissed THEN missed + 1 ELSE missed
MissedWrapped(skipped) == (missed + skipped) % (MaxMissed + 1)
MissedWide(skipped)    == missed + skipped

\* u32::saturating_add of a skip count whose conversion saturates too.
MissedAfter(skipped) ==
  LET count == IF skipped > MaxMissed THEN MaxMissed ELSE skipped
  IN IF missed + count > MaxMissed THEN MaxMissed ELSE missed + count

Init ==
  /\ start \in Starts /\ interval \in Intervals
  /\ now = start
  /\ next = SatAdd(start, interval) /\ missed = 0
  /\ running = FALSE /\ runs = 0

Tick ==
  /\ now < MaxU /\ now' = now + 1
  /\ UNCHANGED <<start, interval, next, missed, running, runs>>

Activate ==
  /\ ~running /\ now >= next /\ running' = TRUE
  /\ UNCHANGED <<now, start, interval, next, missed, runs>>

\* Period::advance(now).
Advance ==
  LET target  == SatAdd(next, interval)
      skipped == Skipped(Since(now, target))
  IN \/ /\ now > target
        /\ next' = SatAdd(target, SatMul(skipped, interval))
        /\ missed' = MissedAfter(skipped)
     \/ /\ now <= target
        /\ next' = target /\ UNCHANGED missed

\* A task with a zero interval never stops completing: `runs` is bounded by
\* the timeline.
Complete ==
  /\ running /\ running' = FALSE
  /\ runs < MaxU /\ runs' = runs + 1
  /\ Advance
  /\ UNCHANGED <<now, start, interval>>

Next == Tick \/ Activate \/ Complete

Spec == Init /\ [][Next]_vars

-----------------------------------------------------------------------------
(* Properties. *)

TypeOK ==
  /\ now \in 0 .. MaxU /\ start \in 0 .. MaxU /\ interval \in 0 .. MaxU
  /\ next \in 0 .. MaxU /\ missed \in 0 .. MaxMissed
  /\ running \in BOOLEAN /\ runs \in 0 .. MaxU

\* Every slot of the grid is accounted for once, as a run or as a miss: "a
\* task activated late still targets the original grid and the drift does not
\* compound" (lines 49-52), "skipped activations are counted, not hidden"
\* (line 92).  It can hold only while neither the timeline nor the counter
\* has reached its end.
SlotsAccounted ==
  (next < MaxU /\ missed < MaxMissed) => next = start + interval * (1 + runs + missed)

\* The next activation is the first slot the task can still make.  It is due no
\* earlier than the completion before it ("`advance` never returns an instant
\* in the past", lines 248-250), and no slot is given up that was still to come:
\* the target is an interval or more ahead of the completion only if it is the
\* very next one.
NextIsFirstDue ==
  [][(runs' > runs /\ interval > 0) =>
        /\ next' >= now
        /\ next' < MaxU => (next' < now + interval \/ next' = next + interval)]_vars

\* The misses counted are the grid instants strictly between the activation
\* and its completion, up to the width of the counter, which never falls back
\* ("the counter must saturate, never wrap", lines 188-190).
Overrun == Cardinality({g \in (next + 1) .. (now - 1) : (g - next) % interval = 0})

MissesCounted ==
  [][(runs' > runs /\ interval > 0) =>
        missed' = IF missed + Overrun > MaxMissed THEN MaxMissed ELSE missed + Overrun]_vars
=============================================================================
