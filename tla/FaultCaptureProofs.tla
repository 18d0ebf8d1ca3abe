------------------------- MODULE FaultCaptureProofs -------------------------
(***************************************************************************)
(* What FaultCapture.tla satisfies for every size of `.data`, `.bss` and   *)
(* the evidence, every feature set and every number of boots.              *)
(***************************************************************************)
EXTENDS FaultCapture, TLAPS

\* One-line abbreviations of the guards and of the stores.
USE DEF MoreData, Armed, Stores, Stored, Written, AfterStart

\* The snapshot taken from any exception context has its type.
LEMMA SnapshotType ==
  ASSUME boot \in Nat, NEW c \in Context
  PROVE  Taken(c) \in Snapshot
<1>1. SelectedStack(c.excReturn) \in {"MSP", "PSP"}
  BY DEF SelectedStack
<1>2. c.excReturn \in {241, 249, 253, 225, 233, 237} /\ c.exception \in Exception
  BY DEF Context, HandlerReturn, ThreadReturn
<1>3. FrameLayout(c.excReturn) \subseteq {"extended", "psp"}
  BY <1>2 DEF FrameLayout
<1>4. FrameFlags(c) \in SUBSET {"valid", "extended", "psp"}
  BY <1>3 DEF FrameFlags
<1> QED
  BY <1>1, <1>2, <1>4 DEF Taken, Snapshot

\* Every state the code and the hardware can reach has the declared type.
THEOREM TypeCorrect == Spec => []TypeOK
<1>1. Init => TypeOK
  BY SizeAssumption DEF Init, TypeOK, Context, HandlerReturn, ThreadReturn,
     Exception, Snapshot, Nothing, RustSteps, EntrySteps
<1>2. TypeOK /\ [Next]_vars => TypeOK'
  <2> SUFFICES ASSUME TypeOK, [Next]_vars PROVE TypeOK'
    OBVIOUS
  <2> USE SizeAssumption DEF TypeOK, RustSteps, EntrySteps, CaptureSteps, memory, record, Goto
  <2>1. CASE MarkReset       BY <2>1 DEF MarkReset
  <2>2. CASE CopyData
    <3>1. data' \in [Data -> BOOLEAN]
      BY <2>2, Zenon DEF CopyData
    <3>2. /\ index' \in Nat \ {0} /\ (index' <= DataWords + 1 \/ index' <= BssWords + 1)
          /\ UNCHANGED <<boot, level, enabled, bss, state, report,
                                              context, snapshot, unwritten, magic, words>>
      BY <2>2 DEF CopyData
    <3>3. pc' \in {"copy", "zero"}
      BY <2>2 DEF CopyData
    <3> QED BY <3>1, <3>2, <3>3
  <2>3. CASE ZeroBss
    <3>1. bss' \in [Bss -> BOOLEAN]
      BY <2>3, Zenon DEF ZeroBss
    <3>2. /\ index' \in Nat \ {0} /\ (index' <= DataWords + 1 \/ index' <= BssWords + 1)
          /\ UNCHANGED <<boot, level, enabled, data, state, report,
                                              context, snapshot, unwritten, magic, words>>
      BY <2>3 DEF ZeroBss
    <3>3. pc' \in {"zero", "start"}
      BY <2>3 DEF ZeroBss
    <3> QED BY <3>1, <3>2, <3>3
  <2>4. CASE Start           BY <2>4 DEF Start, Data, Bss
  <2>5. CASE ArmCapture      BY <2>5 DEF ArmCapture
  <2>6. CASE ConfigureProbeFault BY <2>6 DEF ConfigureProbeFault
  <2>7. ASSUME NEW class \in {"usage", "mem", "bus"}, TakeException(class)
        PROVE  TypeOK'
    <3>1. context' \in Context
      BY <2>7 DEF TakeException, Context, HandlerReturn, ThreadReturn, Exception
    <3>2. level' \in 0 .. 2
      BY <2>7 DEF TakeException
    <3> QED
      BY <2>7, <3>1, <3>2 DEF TakeException
  <2>8. CASE Udf             BY <2>8, <2>7 DEF Udf
  <2>9. CASE Lockup          BY <2>9 DEF Lockup
  <2>10. CASE Consult        BY <2>10 DEF Consult
  <2>11. CASE Claim          BY <2>11 DEF Claim
  <2>12. CASE Capture
    <3>1. snapshot' \in Snapshot
      BY <2>12, SnapshotType DEF Capture
    <3> QED BY <2>12, <3>1 DEF Capture
  <2>13. CASE StoreWord
    <3>1. words' \in [1 .. Words -> Snapshot]
      BY <2>13 DEF StoreWord
    <3> QED BY <2>13, <3>1 DEF StoreWord
  <2>14. CASE WriteMagic     BY <2>14 DEF WriteMagic
  <2>15. CASE Complete       BY <2>15 DEF Complete
  <2>16. CASE Restart /\ WarmReset  BY <2>16 DEF Restart, WarmReset, AnyMemory
  <2>17. CASE PowerCycle
    <3>1. Nothing \in Snapshot
      BY DEF Nothing, Snapshot, Exception
    <3> QED BY <2>17, <3>1 DEF Restart, PowerCycle, AnyMemory
  <2>18. CASE UNCHANGED vars BY <2>18 DEF vars
  <2> QED
    BY <2>1, <2>2, <2>3, <2>4, <2>5, <2>6, <2>7, <2>8, <2>9, <2>10, <2>11, <2>12,
       <2>13, <2>14, <2>15, <2>16, <2>17, <2>18 DEF Next, Cpu, Fault, WarmReset
<1> QED
  BY <1>1, <1>2, PTL DEF Spec

-----------------------------------------------------------------------------
(***************************************************************************)
(* The inductive invariant.  The state word is what the assembly entry     *)
(* trusts, so the invariant says, for each step of the code, what the      *)
(* state word is there, and what the state word implies of RAM.  It fails  *)
(* where a fault may precede Reset's first store, which the theorems       *)
(* below exclude by assumption.                                            *)
(***************************************************************************)
LifecycleInv ==
  /\ pc \in {"copy", "zero", "start", "arm"} => state = "RST0"
  /\ pc \in {"configure", "probe", "idle", "claim"} => state = "ARMD"
  /\ pc \in {"capture", "write", "complete"} => state = "CAPT"
  /\ pc = "captured" => state = "DONE"
  /\ pc # "reset" => state # "junk"

RamInv ==
  /\ pc = "copy" => \A w \in Data : w < index => data[w]
  /\ pc = "zero" => (\A w \in Data : data[w]) /\ (\A w \in Bss : w < index => bss[w])
  /\ pc \in {"start", "arm"} => RamValid
  /\ (pc # "reset" /\ state # "RST0") => RamValid

ReportInv ==
  /\ pc = "arm" => report = "MAL2"
  /\ (pc # "reset" /\ state # "RST0") => report = "MAL2"

RecordInv ==
  /\ pc \in {"write", "complete"} => snapshot.boot = boot
  /\ pc = "write" => \A w \in 1 .. Words : w \notin unwritten => words[w] = snapshot
  /\ pc = "complete" => magic = "MALF" /\ \A w \in 1 .. Words : words[w] = snapshot
  /\ DoneIsComplete

IInv == TypeOK /\ LifecycleInv /\ RamInv /\ ReportInv /\ RecordInv

LEMMA InductiveInvariant ==
  ASSUME ~EarlyFaults
  PROVE  Spec => []IInv
<1>1. Init => IInv
  <2> SUFFICES ASSUME Init PROVE IInv
    OBVIOUS
  <2>1. TypeOK
    BY SizeAssumption DEF Init, TypeOK, Context, HandlerReturn, ThreadReturn,
       Exception, Snapshot, Nothing, RustSteps, EntrySteps
  <2> QED
    BY <2>1 DEF Init, IInv, LifecycleInv, RamInv, ReportInv, RecordInv, DoneIsComplete
<1>2. IInv /\ TypeOK' /\ [Next]_vars => IInv'
  <2> SUFFICES ASSUME IInv, TypeOK', [Next]_vars PROVE IInv'
    OBVIOUS
  <2> USE SizeAssumption DEF IInv, Goto, memory, record
  <2>1. LifecycleInv'
    BY DEF LifecycleInv, Next, Cpu, Fault, vars, MarkReset, CopyData, ZeroBss, Start,
       ArmCapture, ConfigureProbeFault, Udf, TakeException, Lockup, Consult, Claim,
       Capture, StoreWord, WriteMagic, Complete, Restart, WarmReset, PowerCycle
  <2>2. RamInv'
    <3>1. CASE MarkReset
      BY <3>1 DEF MarkReset, RamInv, TypeOK, Data, Bss
    <3>2. CASE CopyData
      BY <3>2 DEF CopyData, RamInv, LifecycleInv, TypeOK, Data, Bss, RamValid
    <3>3. CASE ZeroBss
      BY <3>3 DEF ZeroBss, RamInv, LifecycleInv, TypeOK, Data, Bss, RamValid
    <3>4. CASE Start \/ ArmCapture \/ ConfigureProbeFault \/ Udf \/ Consult \/ Claim
               \/ Capture \/ StoreWord \/ WriteMagic \/ Complete \/ Fault \/ UNCHANGED vars
      BY <3>4 DEF RamInv, LifecycleInv, RamValid, Start, ArmCapture, ConfigureProbeFault,
         Udf, TakeException, Fault, Lockup, Consult, Claim, Capture, StoreWord, WriteMagic,
         Complete, vars
    <3>5. CASE WarmReset \/ PowerCycle
      BY <3>5 DEF RamInv, WarmReset, PowerCycle, Restart
    <3> QED
      BY <3>1, <3>2, <3>3, <3>4, <3>5 DEF Next, Cpu
  <2>3. ReportInv'
    <3>1. CASE Start
      <4>1. data[DataWords] /\ bss[BssWords]
        BY <3>1 DEF Start, RamInv, RamValid, Data, Bss
      <4> QED
        BY <3>1, <4>1 DEF Start, ReportInv, LifecycleInv
    <3>2. CASE ~Start
      BY <3>2 DEF ReportInv, LifecycleInv, Next, Cpu, Fault, vars, MarkReset, CopyData,
         ZeroBss, ArmCapture, ConfigureProbeFault, Udf, TakeException, Lockup, Consult,
         Claim, Capture, StoreWord, WriteMagic, Complete, Restart, WarmReset, PowerCycle
    <3> QED BY <3>1, <3>2
  <2>4. RecordInv'
    <3> USE DEF RecordInv, LifecycleInv
    <3>1. CASE Capture
      <4>1. \A w \in 1 .. Words : w \in unwritten'
        BY <3>1 DEF Capture
      <4>2. snapshot'.boot = boot'
        BY <3>1 DEF Capture, Taken
      <4> QED
        BY <3>1, <4>1, <4>2 DEF Capture, DoneIsComplete
    <3>2. CASE StoreWord
      <4>1. PICK w \in unwritten : StoreWord!2!(w)
        BY <3>2 DEF StoreWord
      <4>2. \A v \in 1 .. Words : v \notin unwritten' => words'[v] = snapshot
        BY <3>2, <4>1 DEF StoreWord, TypeOK
      <4> QED
        BY <3>2, <4>2 DEF StoreWord, DoneIsComplete
    <3>3. CASE WriteMagic
      BY <3>3 DEF WriteMagic, DoneIsComplete
    <3>4. CASE Complete
      BY <3>4 DEF Complete, DoneIsComplete, OneSnapshot, TypeOK
    <3>5. CASE WarmReset \/ PowerCycle
      BY <3>5 DEF WarmReset, PowerCycle, Restart, DoneIsComplete, OneSnapshot
    <3>6. CASE MarkReset \/ CopyData \/ ZeroBss \/ Start \/ ArmCapture \/ ConfigureProbeFault
               \/ Udf \/ Consult \/ Claim \/ Fault \/ UNCHANGED vars
      BY <3>6 DEF DoneIsComplete, OneSnapshot, MarkReset, CopyData, ZeroBss, Start, ArmCapture,
         ConfigureProbeFault, Udf, TakeException, Fault, Lockup, Consult, Claim, vars
    <3> QED
      BY <3>1, <3>2, <3>3, <3>4, <3>5, <3>6 DEF Next, Cpu
  <2> QED
    BY <2>1, <2>2, <2>3, <2>4
<1>3. Spec => []TypeOK
  BY TypeCorrect
<1> QED
  BY <1>1, <1>2, <1>3, PTL DEF Spec

\* Where no fault strikes before Reset's first store, neither the start nor
\* the capture runs Rust before all of `.data` and `.bss` is initialised,
\* whatever the state word held before the reset (startup.rs lines 34-36).
THEOREM RustBoundary ==
  ASSUME ~EarlyFaults
  PROVE  Spec => []RustOnlyWithValidRam
<1>1. IInv => RustOnlyWithValidRam
  BY DEF IInv, LifecycleInv, RamInv, RustOnlyWithValidRam, RustSteps, CaptureSteps
<1> QED
  BY <1>1, InductiveInvariant, PTL

\* And every boot that gets past its checks reports success.
THEOREM StartSucceeds ==
  ASSUME ~EarlyFaults
  PROVE  Spec => []StartReportsSuccess
<1>1. IInv => StartReportsSuccess
  BY DEF IInv, LifecycleInv, ReportInv, StartReportsSuccess, RustSteps, CaptureSteps
<1> QED
  BY <1>1, InductiveInvariant, PTL

\* DONE authorises the whole evidence, in any order of the aggregate's stores
\* and through any sequence of nested faults, resets and power cycles.
THEOREM DoneCorrect ==
  ASSUME ~EarlyFaults
  PROVE  Spec => []DoneIsComplete
<1>1. IInv => DoneIsComplete
  BY DEF IInv, RecordInv
<1> QED
  BY <1>1, InductiveInvariant, PTL

\* One capture per boot, never restarted and never disturbed.
THEOREM CapturedOnce ==
  ASSUME ~EarlyFaults
  PROVE  Spec => CaptureOnce
<1> DEFINE Once == (boot' = boot /\ pc # "reset") =>
        /\ Rank[state'] >= Rank[state]
        /\ (pc = "claim" /\ pc' = "capture") => state = "ARMD"
        /\ (state \in {"CAPT", "DONE"} /\ pc \notin CaptureSteps)
             => <<magic, words>>' = <<magic, words>>
        /\ state = "DONE" => <<magic, words>>' = <<magic, words>>
<1>1. IInv /\ [Next]_vars => [Once]_vars
  <2> SUFFICES ASSUME IInv, Next, boot' = boot, pc # "reset" PROVE Once
    BY DEF vars
  <2> USE DEF IInv, Goto, memory, record
  <2>1. Rank["RST0"] = 0 /\ Rank["ARMD"] = 1 /\ Rank["CAPT"] = 2 /\ Rank["DONE"] = 3
    BY DEF Rank
  <2>2. ~WarmReset /\ ~PowerCycle
    BY DEF WarmReset, PowerCycle, Restart, TypeOK
  <2>3. state' = state \/ ArmCapture \/ Claim \/ Complete
    BY <2>2 DEF Next, Cpu, Fault, MarkReset, CopyData, ZeroBss, Start, ConfigureProbeFault,
       Udf, TakeException, Lockup, Consult, Capture, StoreWord, WriteMagic
  <2>4. Rank[state'] >= Rank[state]
    <3>1. state \in {"RST0", "ARMD", "CAPT", "DONE"}
      BY DEF TypeOK, LifecycleInv
    <3> QED
      BY <2>1, <2>3, <3>1 DEF ArmCapture, Claim, Complete, LifecycleInv
  <2>5. <<magic, words>>' = <<magic, words>> \/ StoreWord \/ WriteMagic
    BY <2>2 DEF Next, Cpu, Fault, MarkReset, CopyData, ZeroBss, Start, ArmCapture,
       ConfigureProbeFault, Udf, TakeException, Lockup, Consult, Claim, Capture, Complete
  <2> QED
    BY <2>4, <2>5 DEF StoreWord, WriteMagic, LifecycleInv, CaptureSteps
<1> QED
  BY <1>1, InductiveInvariant, PTL DEF Spec, CaptureOnce

\* What a snapshot says of the stack is what the assembly selected: its test
\* of bit 2 and Rust's table agree on each of the six EXC_RETURN values.
Agrees(s) ==
  /\ "valid" \in s.flags => ("psp" \in s.flags <=> s.stack = "PSP")
  /\ "valid" \notin s.flags => s.flags = {}

LEMMA TakenAgrees ==
  ASSUME NEW c \in Context
  PROVE  Agrees(Taken(c))
<1>1. c.excReturn \in {241, 249, 253, 225, 233, 237}
  BY DEF Context, HandlerReturn, ThreadReturn
<1>2. \A ret \in {241, 249, 253, 225, 233, 237} :
        "psp" \in FrameLayout(ret) <=> SelectedStack(ret) = "PSP"
  BY DEF FrameLayout, SelectedStack
<1> QED
  BY <1>1, <1>2 DEF Taken, FrameFlags, Agrees

\* The frame published under DONE is the selected one, or flagged absent.
THEOREM FrameCorrect ==
  ASSUME ~EarlyFaults
  PROVE  Spec => []FrameFromSelectedStack
<1> DEFINE FrameInv == /\ pc \in {"write", "complete"} => Agrees(snapshot)
                       /\ state = "DONE" => \A w \in 1 .. Words : Agrees(words[w])
<1>1. Init => FrameInv
  BY DEF Init
<1>2. IInv /\ FrameInv /\ [Next]_vars => FrameInv'
  <2> SUFFICES ASSUME IInv, FrameInv, [Next]_vars PROVE FrameInv'
    OBVIOUS
  <2> USE DEF Goto, memory, record
  <2>1. CASE Capture
    BY <2>1, TakenAgrees DEF Capture, IInv, TypeOK, LifecycleInv
  <2>2. CASE StoreWord \/ WriteMagic
    BY <2>2 DEF StoreWord, WriteMagic, IInv, LifecycleInv
  <2>3. CASE Complete
    BY <2>3 DEF Complete, IInv, RecordInv
  <2>4. CASE WarmReset \/ PowerCycle
    BY <2>4 DEF WarmReset, PowerCycle, Restart
  <2>5. CASE MarkReset \/ CopyData \/ ZeroBss \/ Start \/ ArmCapture \/ ConfigureProbeFault
             \/ Udf \/ Consult \/ Claim \/ Fault \/ UNCHANGED vars
    BY <2>5 DEF MarkReset, CopyData, ZeroBss, Start, ArmCapture, ConfigureProbeFault, Udf,
       TakeException, Fault, Lockup, Consult, Claim, vars
  <2> QED
    BY <2>1, <2>2, <2>3, <2>4, <2>5 DEF Next, Cpu
<1>3. FrameInv => FrameFromSelectedStack
  BY DEF FrameFromSelectedStack, Agrees
<1> QED
  BY <1>1, <1>2, <1>3, InductiveInvariant, PTL DEF Spec

-----------------------------------------------------------------------------
(***************************************************************************)
(* The magic alone is enough where the compiler stores the aggregate in    *)
(* order: a zero magic then precedes every other word, so no reset or      *)
(* nested fault can leave MALF over a torn record.  This needs nothing of  *)
(* the state word, nor that Reset's first store be reached.                *)
(***************************************************************************)
MagicInv ==
  /\ MagicIsComplete
  /\ pc \in {"write", "complete"} => snapshot.boot = boot
  /\ pc = "write" =>
       \/ unwritten = 0 .. Words
       \/ /\ 0 \notin unwritten /\ magic = "zero"
          /\ \A w \in 1 .. Words : w \notin unwritten => words[w] = snapshot

\* With in-order stores MALF never stands over anything but one whole snapshot,
\* whatever resets or faults interrupt __malleus_fault_capture.
THEOREM MagicCorrect ==
  ASSUME Ascending
  PROVE  Spec => []MagicIsComplete
<1> USE SizeAssumption
<1>1. Init => MagicInv
  BY DEF Init, MagicInv, MagicIsComplete
<1>2. TypeOK /\ MagicInv /\ [Next]_vars => MagicInv'
  <2> SUFFICES ASSUME TypeOK, MagicInv, [Next]_vars PROVE MagicInv'
    OBVIOUS
  <2> USE DEF MagicInv, Goto, memory, record
  <2>1. CASE Capture
    BY <2>1 DEF Capture, Taken, MagicIsComplete, OneSnapshot
  <2>2. CASE StoreWord
    <3>1. PICK w \in unwritten : StoreWord!2!(w)
      BY <2>2 DEF StoreWord
    <3>2. CASE w = 0
      <4>1. unwritten = 0 .. Words
        BY <2>2, <3>2 DEF StoreWord
      <4>2. unwritten' = 1 .. Words
        BY <3>1, <3>2, <4>1
      <4> QED
        BY <2>2, <3>1, <3>2, <4>2 DEF StoreWord, MagicIsComplete
    <3>3. CASE w # 0
      <4>1. 0 \notin unwritten
        BY <3>1, <3>3 DEF TypeOK
      <4>2. magic = "zero" /\ \A v \in 1 .. Words : v \notin unwritten => words[v] = snapshot
        BY <2>2, <4>1 DEF StoreWord
      <4>3. \A v \in 1 .. Words : v \notin unwritten' => words'[v] = snapshot
        BY <3>1, <3>3, <4>2 DEF TypeOK
      <4> QED
        BY <2>2, <3>1, <3>3, <4>1, <4>2, <4>3 DEF StoreWord, MagicIsComplete
    <3> QED BY <3>2, <3>3
  <2>3. CASE WriteMagic
    <3>1. \A w \in 1 .. Words : words[w] = snapshot
      BY <2>3 DEF WriteMagic
    <3>2. snapshot.boot = boot /\ boot > 0
      BY <2>3 DEF WriteMagic, TypeOK
    <3> QED
      BY <2>3, <3>1, <3>2 DEF WriteMagic, MagicIsComplete, OneSnapshot
  <2>4. CASE WarmReset \/ PowerCycle
    BY <2>4 DEF WarmReset, PowerCycle, Restart, MagicIsComplete, OneSnapshot
  <2>5. CASE MarkReset \/ CopyData \/ ZeroBss \/ Start \/ ArmCapture \/ ConfigureProbeFault
             \/ Udf \/ Consult \/ Claim \/ Complete \/ Fault \/ UNCHANGED vars
    BY <2>5 DEF MagicIsComplete, OneSnapshot, MarkReset, CopyData, ZeroBss, Start, ArmCapture,
       ConfigureProbeFault, Udf, TakeException, Fault, Lockup, Consult, Claim, Complete, vars
  <2> QED
    BY <2>1, <2>2, <2>3, <2>4, <2>5 DEF Next, Cpu
<1>3. MagicInv => MagicIsComplete
  BY DEF MagicInv
<1> QED
  BY <1>1, <1>2, <1>3, TypeCorrect, PTL DEF Spec
=============================================================================
