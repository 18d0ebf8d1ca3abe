------------------------------ MODULE ReadySet ------------------------------
(***************************************************************************)
(* The ready set as a word of bits (struct ReadySet, crates/malleusrt/src/ *)
(* sched.rs lines 103-173), updated by task code and by the interrupt      *)
(* handlers that preempt it.                                               *)
(*                                                                         *)
(* `insert` and `remove` are a load, an operation and a store, "ISR-safe"  *)
(* for the kernel that has them exclusively (`&mut self`).  That kernel is *)
(* not written; what gives it exclusion is CriticalSection::enter_below    *)
(* (crates/malleus-arch/src/critical.rs), which masks "only interrupts at  *)
(* or below a given priority", at a ceiling that covers every user, by the *)
(* hardware number `to_hardware` gives it.  The sections, the preemption   *)
(* and the handlers are external.                                          *)
(***************************************************************************)
EXTENDS Priority

CONSTANTS
  Thread,    \* task code, below every interrupt
  Handlers,  \* interrupt handlers
  Users,     \* those that call the ready set
  Urgency,   \* the Priority of each handler
  Ceiling,   \* the Priority of the sections around the ready set
  HwLevels,  \* levels of the controllers considered
  Touched,   \* the levels that tasks are at
  None

ASSUME ContextAssumption ==
  /\ Thread \notin Handlers /\ Users \subseteq Handlers
  /\ Urgency \in [Handlers -> Level] /\ Ceiling \in Level
  /\ \A h \in Users : Urgency[h] <= Ceiling
  /\ HwLevels \subseteq U8 \ {0} /\ Touched \subseteq Level

VARIABLES
  hw,     \* levels of this board's controller
  word,   \* the bits of ReadySet.0
  pc,     \* where each context is: idle, running, or inside a section
  call,   \* the call it makes
  loaded  \* its register: the word it loaded

vars     == <<hw, word, pc, call, loaded>>
Contexts == Handlers \cup {Thread}

-----------------------------------------------------------------------------
(* The word. *)

Word  == [Level -> {0, 1}]
Zero  == [i \in Level |-> 0]           \* ReadySet::new
Bit(p) == [i \in Level |-> IF i = p THEN 1 ELSE 0]

Or(v, w)  == [i \in Level |-> IF v[i] = 1 \/ w[i] = 1 THEN 1 ELSE 0]
And(v, w) == [i \in Level |-> IF v[i] = 1 /\ w[i] = 1 THEN 1 ELSE 0]
Not(w)    == [i \in Level |-> 1 - w[i]]

Inserted(w, p)     == Or(w, Bit(p))
Removed(w, p)      == And(w, Not(Bit(p)))
Contains(w, p)     == And(w, Bit(p)) # Zero
IsEmpty(w)         == w = Zero
Members(w)         == {p \in Level : Contains(w, p)}

\* Mutant of Ilog2: the least significant bit.
TrailingBit(w) == CHOOSE i \in Level : w[i] = 1 /\ \A j \in Level : j < i => w[j] = 0

\* The most significant bit of a non-zero word, by counting leading zeros.
Ilog2(w) == CHOOSE i \in Level : w[i] = 1 /\ \A j \in Level : j > i => w[j] = 0

Highest(w) == IF IsEmpty(w) THEN None ELSE Ilog2(w)

-----------------------------------------------------------------------------
(* Interrupts and sections. *)

\* The number of a context's execution priority: lower runs first.
Number(c) == IF c = Thread THEN hw ELSE ToHardware(Urgency[c], hw)

Active(c)    == pc[c] # "idle"
InSection(c) == pc[c] \in {"entered", "loaded", "stored"}

Executing(c) == /\ Active(c)
                /\ \A d \in Contexts : (d # c /\ Active(d)) => Number(c) < Number(d)

\* Mutants of HeldOff: the ceiling itself stays live; everything is masked.
HeldOffBelow(h) == (\E c \in Contexts : InSection(c)) /\ Number(h) > ToHardware(Ceiling, hw)
HeldOffAll(h)   == \E c \in Contexts : InSection(c)

\* enter_below(to_hardware(Ceiling)): interrupts at or below it are masked.
HeldOff(h) == (\E c \in Contexts : InSection(c)) /\ Number(h) >= ToHardware(Ceiling, hw)

Goto(c, to) == pc' = [pc EXCEPT ![c] = to]

Init ==
  /\ hw \in HwLevels /\ word = Zero
  /\ pc = [c \in Contexts |-> IF c = Thread THEN "running" ELSE "idle"]
  /\ call = [c \in Contexts |-> None] /\ loaded = [c \in Contexts |-> None]

\* The controller takes an interrupt over whatever is less urgent.
Take(h) ==
  /\ pc[h] = "idle" /\ ~HeldOff(h)
  /\ \A d \in Contexts : Active(d) => Number(h) < Number(d)
  /\ Goto(h, "running") /\ UNCHANGED <<hw, word, call, loaded>>

Return(h) ==
  /\ pc[h] = "running" /\ Executing(h)
  /\ Goto(h, "idle") /\ UNCHANGED <<hw, word, call, loaded>>

Enter(c, kind, p) ==
  /\ pc[c] = "running" /\ Executing(c)
  /\ Goto(c, "entered") /\ call' = [call EXCEPT ![c] = [kind |-> kind, level |-> p]]
  /\ UNCHANGED <<hw, word, loaded>>

Load(c) ==
  /\ pc[c] = "entered" /\ Executing(c)
  /\ Goto(c, "loaded") /\ loaded' = [loaded EXCEPT ![c] = word]
  /\ UNCHANGED <<hw, word, call>>

\* ReadySet::insert or remove.
Updated(c) == IF call[c].kind = "insert" THEN Inserted(loaded[c], call[c].level)
                                         ELSE Removed(loaded[c], call[c].level)

Store(c) ==
  /\ pc[c] = "loaded" /\ Executing(c)
  /\ word' = Updated(c)
  /\ Goto(c, "stored") /\ UNCHANGED <<hw, call, loaded>>

\* The section ends and the previous mask is back.
Leave(c) ==
  /\ pc[c] = "stored" /\ Executing(c)
  /\ Goto(c, "running")
  /\ call' = [call EXCEPT ![c] = None] /\ loaded' = [loaded EXCEPT ![c] = None]
  /\ UNCHANGED <<hw, word>>

Next ==
  \/ \E h \in Handlers : Take(h) \/ Return(h)
  \/ \E c \in Users \cup {Thread} :
       \/ \E kind \in {"insert", "remove"}, p \in Touched : Enter(c, kind, p)
       \/ Load(c) \/ Store(c) \/ Leave(c)

Spec == Init /\ [][Next]_vars

-----------------------------------------------------------------------------
(* Properties. *)

Calls == [kind : {"insert", "remove"}, level : Level]

\* Besides the types: a handler's number is one the controller implements,
\* below the thread's.
TypeOK ==
  /\ hw \in HwLevels /\ word \in Word
  /\ pc \in [Contexts -> {"idle", "running", "entered", "loaded", "stored"}]
  /\ call \in [Contexts -> Calls \cup {None}]
  /\ loaded \in [Contexts -> Word \cup {None}]
  /\ \A h \in Handlers : Number(h) \in 0 .. (hw - 1)

\* No insertion or removal is lost, and none is done by halves, wherever the
\* interrupts fall and however many hardware levels the priorities are
\* squeezed into: the word is the set of ReadyLevels ("ISR-safe", lines 120
\* and 130), though each update is a load and a later store.
Levels == INSTANCE ReadyLevels WITH ready <- Members(word)

ImplementsReadyLevels == Levels!Spec

\* "The highest priority with runnable work" (line 150).
HighestIsMostUrgent ==
  IF Members(word) = {} THEN Highest(word) = None
  ELSE Highest(word) \in Members(word) /\ \A p \in Members(word) : p <= Highest(word)

\* The section "does not affect interrupt latency for priorities above" the
\* ceiling (critical.rs line 45): on a controller with a level for every
\* Priority, a more urgent handler is never held off.  With fewer levels it
\* may share the ceiling's number, and only handlers above that are live.
UrgentStaysLive ==
  \A h \in Handlers :
    HeldOff(h) => \/ Urgency[h] <= Ceiling
                  \/ hw < PRIORITY_LEVELS /\ Number(h) = ToHardware(Ceiling, hw)
=============================================================================
