---------------------------- MODULE FaultCapture ----------------------------
(***************************************************************************)
(* Reset, memory initialisation and terminal fault capture of the Cortex-M *)
(* port: crates/malleus-arch-cortex-m/src/startup.rs and fault.rs.         *)
(*                                                                         *)
(* The CPU runs the assembly stub Reset, then __malleus_start, and from a  *)
(* fault the shared assembly entry, then __malleus_fault_capture.  `pc`    *)
(* names the next step of that code.  Between any two steps the hardware   *)
(* may raise another fault or reset the core.  A warm reset keeps the      *)
(* `.uninit` words (state, boot evidence, fault evidence); a power cycle   *)
(* leaves them unknown.  Both leave `.data` and `.bss` in any condition.   *)
(*                                                                         *)
(* The fault evidence is the word `magic` and `Words` words of payload,    *)
(* each holding the snapshot it was last written from.                     *)
(***************************************************************************)
EXTENDS Naturals

CONSTANTS
  DataWords, BssWords,  \* words of `.data` and of `.bss`
  Words,                \* payload words of MALLEUS_FAULT_EVIDENCE
  Probe,                \* feature bootstrap-fault-probe
  Escalation,           \* feature bootstrap-hardfault-escalation
  Ascending,            \* the aggregate write stores its words in order
  EarlyFaults,          \* a fault may strike before Reset's first store
  MaxBoots              \* boots followed

ASSUME SizeAssumption ==
  DataWords \in Nat \ {0} /\ BssWords \in Nat \ {0} /\ Words \in Nat \ {0} /\ MaxBoots \in Nat
ASSUME FlagAssumption ==
  Probe \in BOOLEAN /\ Escalation \in BOOLEAN /\ Ascending \in BOOLEAN /\ EarlyFaults \in BOOLEAN

VARIABLES
  pc,        \* next step of the code
  boot,      \* which boot this is (history)
  level,     \* execution level: 0 thread, 1 configurable fault, 2 HardFault
  enabled,   \* SHCSR: the configurable faults with a handler of their own
  data, bss, \* which words of `.data` and `.bss` hold their initial value
  index,     \* next word of the copying or clearing loop
  state,     \* MALLEUS_FAULT_CAPTURE_STATE
  report,    \* MALLEUS_BOOT_EVIDENCE
  context,   \* what hardware passes on exception entry
  snapshot,  \* the local `evidence` of __malleus_fault_capture
  unwritten, \* words of the aggregate still to be stored; 0 is the magic
  magic,     \* first word of MALLEUS_FAULT_EVIDENCE
  words      \* its other words

memory == <<data, bss, index>>
record == <<snapshot, unwritten, magic, words>>
vars   == <<pc, boot, level, enabled, memory, state, report, context, record>>

Data == 1 .. DataWords
Bss  == 1 .. BssWords

-----------------------------------------------------------------------------
(* Exception entry.  EXC_RETURN is modelled by its low byte, the other     *)
(* three being ones: 16#F1#, 16#F9#, 16#FD#, 16#E1#, 16#E9# and 16#ED#.    *)

HandlerReturn == {241, 225}
ThreadReturn  == {249, 253, 233, 237}
Exception     == {"usage", "mem", "bus", "hard"}
Context == [exception : Exception, excReturn : HandlerReturn \cup ThreadReturn,
            stackingError : BOOLEAN]

\* Mutant of SelectedStack: tests the bit of the mode, not of the stack.
SelectedByMode(ret) == IF (ret \div 8) % 2 = 1 THEN "PSP" ELSE "MSP"

\* The assembly's choice of stack: bit 2 of EXC_RETURN (lines 351-356).
SelectedStack(ret) == IF (ret \div 4) % 2 = 1 THEN "PSP" ELSE "MSP"

\* fn frame_layout: the table the Rust side reads the same value with.
FrameLayout(ret) ==
  CASE ret \in {241, 249} -> {}
    [] ret = 253          -> {"psp"}
    [] ret \in {225, 233} -> {"extended"}
    [] ret = 237          -> {"extended", "psp"}

\* fn read_exception_frame, and the flags it is stored under: none at all
\* when stacking failed, since the frame is then not read.  Its two other ways
\* to read no frame do not arise from an exception entry: ARMv7-M keeps the
\* stack pointer's low two bits zero and generates no EXC_RETURN but those of
\* FrameLayout.  The flags that qualify MMFAR and BFAR are left out.
FrameFlags(c) ==
  IF c.stackingError THEN {} ELSE FrameLayout(c.excReturn) \cup {"valid"}

Snapshot == [boot : Nat, exception : Exception, stack : {"MSP", "PSP"},
             flags : SUBSET {"valid", "extended", "psp"}]
Nothing  == [boot |-> 0, exception |-> "hard", stack |-> "MSP", flags |-> {}]

Taken(c) == [boot |-> boot, exception |-> c.exception,
             stack |-> SelectedStack(c.excReturn), flags |-> FrameFlags(c)]

-----------------------------------------------------------------------------
(* Hardware. *)

\* `.data` and `.bss` after a reset: whatever the last boot or power left.
AnyMemory == data' \in [Data -> BOOLEAN] /\ bss' \in [Bss -> BOOLEAN]

Init ==
  /\ pc = "reset" /\ boot = 1 /\ level = 0 /\ enabled = {}
  /\ data \in [Data -> BOOLEAN] /\ bss \in [Bss -> BOOLEAN] /\ index = 1
  /\ state = "junk" /\ report = "junk"
  /\ context = [exception |-> "hard", excReturn |-> 249, stackingError |-> FALSE]
  /\ snapshot = Nothing /\ unwritten = {}
  /\ magic = "junk" /\ words = [w \in 1 .. Words |-> Nothing]

Restart ==
  /\ boot < MaxBoots /\ boot' = boot + 1
  /\ pc' = "reset" /\ level' = 0 /\ enabled' = {} /\ AnyMemory
  /\ UNCHANGED <<index, context, snapshot, unwritten>>

WarmReset  == Restart /\ UNCHANGED <<state, report, magic, words>>
PowerCycle == /\ Restart
              /\ state' = "junk" /\ report' = "junk" /\ magic' = "junk"
              /\ words' = [w \in 1 .. Words |-> Nothing]

\* A fault of a class without an enabled handler, or while another fault is
\* being handled, escalates to HardFault; one inside HardFault locks up.
TakeException(class) ==
  /\ level < 2
  /\ LET exc == IF level = 0 /\ class \in enabled THEN class ELSE "hard" IN
       /\ level' = IF exc = "hard" THEN 2 ELSE 1
       /\ \E ret \in IF level = 0 THEN ThreadReturn ELSE HandlerReturn, failed \in BOOLEAN :
            context' = [exception |-> exc, excReturn |-> ret, stackingError |-> failed]
  /\ pc' = "entry"
  /\ UNCHANGED <<boot, enabled, memory, state, report, record>>

Lockup ==
  /\ level = 2 /\ pc # "lockup" /\ pc' = "lockup"
  /\ UNCHANGED <<boot, level, enabled, memory, state, report, context, record>>

\* A fault at any instruction, wanted or not.
Fault ==
  /\ pc = "reset" => EarlyFaults
  /\ Lockup \/ \E class \in {"usage", "mem", "bus"} : TakeException(class)

-----------------------------------------------------------------------------
(* Reset: the assembly stub (startup.rs lines 107-137). *)

Goto(p) == pc' = p

MarkReset ==
  /\ pc = "reset" /\ Goto("copy")
  /\ state' = "RST0" /\ index' = 1
  /\ UNCHANGED <<boot, level, enabled, data, bss, report, context, record>>

\* Mutants of MoreData: the loop stops a word early, or a word late.
MoreDataEarly == index < DataWords
MoreDataLate  == index <= DataWords + 1

\* `bhs` leaves the loop at the end of `.data`.
MoreData == index <= DataWords

CopyData ==
  /\ pc = "copy"
  /\ \/ /\ MoreData
        /\ data' = [data EXCEPT ![index] = TRUE] /\ index' = index + 1
        /\ UNCHANGED pc
     \/ ~MoreData /\ index' = 1 /\ Goto("zero") /\ UNCHANGED data
  /\ UNCHANGED <<boot, level, enabled, bss, state, report, context, record>>

ZeroBss ==
  /\ pc = "zero"
  /\ \/ /\ index <= BssWords
        /\ bss' = [bss EXCEPT ![index] = TRUE] /\ index' = index + 1
        /\ UNCHANGED pc
     \/ index > BssWords /\ Goto("start") /\ UNCHANGED <<bss, index>>
  /\ UNCHANGED <<boot, level, enabled, data, state, report, context, record>>

-----------------------------------------------------------------------------
(* __malleus_start, arm_capture and run_bootstrap_probe. *)

\* The sentinels may be any of the words; here each is the last of its range.
Start ==
  /\ pc = "start" /\ Goto("arm")
  /\ report' = CASE data[DataWords] /\ bss[BssWords]   -> "MAL2"
                 [] ~data[DataWords] /\ bss[BssWords]  -> "DATA"
                 [] data[DataWords] /\ ~bss[BssWords]  -> "BSS!"
                 [] ~data[DataWords] /\ ~bss[BssWords] -> "BOTH"
  /\ UNCHANGED <<boot, level, enabled, memory, state, context, record>>

\* What __malleus_start ends in: the probe where the image has it, or a loop.
AfterStart == IF Probe THEN "configure" ELSE "idle"

ArmCapture ==
  /\ pc = "arm" /\ Goto(AfterStart)
  /\ state' = "ARMD"
  /\ UNCHANGED <<boot, level, enabled, memory, report, context, record>>

ConfigureProbeFault ==
  /\ pc = "configure" /\ Goto("probe")
  /\ enabled' = {"mem", "bus"} \cup (IF Escalation THEN {} ELSE {"usage"})
  /\ UNCHANGED <<boot, level, memory, state, report, context, record>>

Udf == pc = "probe" /\ TakeException("usage")

-----------------------------------------------------------------------------
(* .Lmalleus_fault_entry: the assembly boundary (fault.rs lines 337-361).  *)

\* Mutants of Armed: only a finished capture, or only a reset, is refused.
ArmedUnlessDone  == state # "DONE"
ArmedUnlessReset == state # "RST0"

\* The word compared at lines 340-344.
Armed == state = "ARMD"

\* Load the state and compare it; anything but ARMD is terminal.
Consult ==
  /\ pc = "entry" /\ Goto(IF Armed THEN "claim" ELSE "terminal")
  /\ UNCHANGED <<boot, level, enabled, memory, state, report, context, record>>

Claim ==
  /\ pc = "claim" /\ Goto("capture")
  /\ state' = "CAPT"
  /\ UNCHANGED <<boot, level, enabled, memory, report, context, record>>

-----------------------------------------------------------------------------
(* __malleus_fault_capture (fault.rs lines 228-298). *)

\* Mutant of Stores: leaves the magic of an earlier capture standing.
PayloadStores == 1 .. Words

\* The words of the aggregate, a zero magic among them.
Stores == 0 .. Words

Capture ==
  /\ pc = "capture" /\ Goto("write")
  /\ snapshot' = Taken(context) /\ unwritten' = Stores
  /\ UNCHANGED <<boot, level, enabled, memory, state, report, context, magic, words>>

\* Mutant of Stored: the store repeats itself.
StoredAgain(w) == UNCHANGED unwritten

Stored(w) == unwritten' = unwritten \ {w}

\* The volatile write of the aggregate, whose first word is a zero magic: 19
\* word stores, in an order the language leaves to the compiler.
StoreWord ==
  /\ pc = "write"
  /\ \E w \in unwritten :
       /\ Ascending => \A v \in unwritten : w <= v
       /\ Stored(w)
       /\ \/ w = 0 /\ magic' = "zero" /\ UNCHANGED words
          \/ w # 0 /\ words' = [words EXCEPT ![w] = snapshot] /\ UNCHANGED magic
  /\ UNCHANGED <<pc, boot, level, enabled, memory, state, report, context, snapshot>>

\* Mutant of Written: the first word only.
FirstWordWritten == 0 \notin unwritten

Written == unwritten = {}

WriteMagic ==
  /\ pc = "write" /\ Written /\ Goto("complete")
  /\ magic' = "MALF"
  /\ UNCHANGED <<boot, level, enabled, memory, state, report, context,
                 snapshot, unwritten, words>>

Complete ==
  /\ pc = "complete" /\ Goto("captured")
  /\ state' = "DONE"
  /\ UNCHANGED <<boot, level, enabled, memory, report, context, record>>

-----------------------------------------------------------------------------
Cpu == \/ MarkReset \/ CopyData \/ ZeroBss
       \/ Start \/ ArmCapture \/ ConfigureProbeFault \/ Udf
       \/ Consult \/ Claim
       \/ Capture \/ StoreWord \/ WriteMagic \/ Complete

Next == Cpu \/ Fault \/ WarmReset \/ PowerCycle

Spec == Init /\ [][Next]_vars

\* The core executes its next instruction unless it is reset or faults.
FairSpec == Spec /\ WF_vars(Cpu)

-----------------------------------------------------------------------------
(* Properties. *)

CaptureSteps == {"capture", "write", "complete", "captured"}
RustSteps    == CaptureSteps \cup {"start", "arm", "configure", "probe", "idle"}
EntrySteps   == {"entry", "claim", "terminal", "lockup"}

TypeOK ==
  /\ pc \in RustSteps \cup EntrySteps \cup {"reset", "copy", "zero"}
  /\ boot \in Nat \ {0} /\ level \in 0 .. 2
  /\ enabled \subseteq {"usage", "mem", "bus"}
  /\ data \in [Data -> BOOLEAN] /\ bss \in [Bss -> BOOLEAN]
  /\ index \in Nat \ {0} /\ (index <= DataWords + 1 \/ index <= BssWords + 1)
  /\ state \in {"junk", "RST0", "ARMD", "CAPT", "DONE"}
  /\ report \in {"junk", "MAL2", "DATA", "BSS!", "BOTH"}
  /\ context \in Context
  /\ snapshot \in Snapshot /\ unwritten \subseteq 0 .. Words
  /\ magic \in {"junk", "zero", "MALF"} /\ words \in [1 .. Words -> Snapshot]

RamValid == (\A w \in Data : data[w]) /\ (\A w \in Bss : bss[w])

\* "A startup fault cannot cross the Rust boundary while RAM is still
\* invalid" (startup.rs lines 34-36): no Rust code, of the start or of the
\* capture, runs before every word of `.data` and `.bss` is initialised.
RustOnlyWithValidRam == pc \in RustSteps => RamValid

\* The boot report of a boot that reached its end is the success value, and
\* is that boot's own, whatever the sentinels held before the reset
\* (boards/nucleo-f767zi/README.md lines 83-86).
StartReportsSuccess ==
  pc \in RustSteps \ {"start"} => report = "MAL2"

\* One complete snapshot in all of the payload words.
OneSnapshot == \A w \in 1 .. Words : words[w] = words[1] /\ words[w].boot > 0

\* "DONE: the complete snapshot is published" (README line 136): whoever
\* halts the core and finds DONE reads the magic and one whole snapshot; once
\* Reset has run its first store, it is this boot's.
DoneIsComplete ==
  state = "DONE" => /\ magic = "MALF" /\ OneSnapshot
                    /\ pc # "reset" => words[1].boot = boot

\* "`magic` is written last" (fault.rs lines 94-95): MALF never stands over
\* words of two captures, or of none, at any instruction of any boot.
MagicIsComplete == magic = "MALF" => OneSnapshot

\* The frame published is the one the assembly selected, and is not read when
\* stacking failed: the two readings of EXC_RETURN agree.
FrameFromSelectedStack ==
  state = "DONE" =>
    \A w \in 1 .. Words : LET s == words[w] IN
      /\ "valid" \in s.flags => ("psp" \in s.flags <=> s.stack = "PSP")
      /\ "valid" \notin s.flags => s.flags = {}

Rank == [s \in {"junk", "RST0", "ARMD", "CAPT", "DONE"} |->
           CASE s = "junk" -> 0 [] s = "RST0" -> 0 [] s = "ARMD" -> 1
             [] s = "CAPT" -> 2 [] s = "DONE" -> 3]

\* Within a boot the lifecycle only moves forward, and no fault, however
\* nested, starts a second capture or disturbs a finished one.
CaptureOnce ==
  [][(boot' = boot /\ pc # "reset") =>
        /\ Rank[state'] >= Rank[state]
        /\ (pc = "claim" /\ pc' = "capture") => state = "ARMD"
        /\ (state \in {"CAPT", "DONE"} /\ pc \notin CaptureSteps)
             => <<magic, words>>' = <<magic, words>>
        /\ state = "DONE" => <<magic, words>>' = <<magic, words>>]_vars

\* A fault that claims the capture is captured, unless another fault or a
\* reset strikes before it is.
ClaimedIsCaptured ==
  pc = "claim" ~> pc \in {"captured", "terminal", "lockup", "reset"}
=============================================================================
