---------------------------- MODULE StaticTables ----------------------------
(***************************************************************************)
(* What a manifest is generated into: the static tables of                 *)
(* crates/malleusrt (task.rs, ipc.rs, sync.rs).  Their fields are made by  *)
(* constructors that assert, so that a value they refuse fails the build.  *)
(* The generator is not written: TaskEntry and ChannelEntry fill each      *)
(* field with what its descriptor says it holds.                           *)
(***************************************************************************)
EXTENDS Manifest, Priority

CONSTANT MAX_TASKS  \* 64

ASSUME TablesAssumption == MAX_TASKS \in Nat

\* TaskId::new_const and Capacity::new; for Priority::new_const it is Level.
TaskId   == 0 .. (MAX_TASKS - 1)
Capacity == 1 .. MaxU16

\* enum Overflow of the kernel, by the name a manifest gives each policy, and
\* Overflow::can_block.
KernelOverflow   == {"block", "reject", "drop-oldest", "drop-newest"}
CanBlock(policy) == policy = "block"

\* A periodic task has a deadline and, for Period, an interval.
TaskDescriptor ==
  {d \in [id : TaskId, priority : Level, stack_bytes : U64, period_ticks : (U64 \ {0}) \cup {None},
          deadline_ticks : U64 \cup {None}, wcet_ticks : U64 \cup {None}] :
     d.period_ticks # None => d.deadline_ticks # None}

ChannelDescriptor ==
  [capacity : Capacity, overflow : KernelOverflow, sender : TaskId, receiver : TaskId]

-----------------------------------------------------------------------------
(* malleus-codegen. *)

\* TaskIds number the tasks in the order of the manifest.
Index(m, n) ==
  (CHOOSE k \in DOMAIN m.tasks : m.tasks[k].name = n /\ ~Repeated(m.tasks, k)) - 1

TaskEntry(m, k) ==
  LET t == m.tasks[k]
      InTicks(text) == IF Duration(text) = None THEN None
                       ELSE ToTicks(Duration(text), TickHz(m.tick_rate))
  IN [id |-> k - 1, priority |-> t.priority, stack_bytes |-> PowerOfTwo(SizeOf(t.stack)),
      period_ticks   |-> InTicks(t.period),
      deadline_ticks |-> InTicks(IF t.deadline # None THEN t.deadline ELSE t.period),
      wcet_ticks     |-> InTicks(t.wcet)]

ChannelEntry(m, k) ==
  LET c == m.channels[k]
  IN [capacity |-> c.capacity, overflow |-> c.overflow,
      sender |-> Index(m, c.from), receiver |-> Index(m, c.to)]

\* Every entry goes through its constructors.
Builds(m) ==
  /\ \A k \in DOMAIN m.tasks : TaskEntry(m, k) \in TaskDescriptor
  /\ \A k \in DOMAIN m.channels : ChannelEntry(m, k) \in ChannelDescriptor
=============================================================================
