--------------------------- MODULE MCCargoMalleus ---------------------------
(* Small manifests.  A second is 8 ns (Kilo = 2), so rates from 1 Hz to     *)
(* 18 Hz have ticks of 8 ns, of 4 ns, of no whole number of nanoseconds and *)
(* of less than one; at 140 Hz the rest of a second, in ticks, exceeds the  *)
(* width before it is divided.                                              *)
EXTENDS CargoMalleus

NoTasks == {<<>>}

T(n, u) == [number |-> n, unit |-> u]

Task1(n, p, stack, period, deadline, wcet, caps) ==
  [name |-> n, priority |-> p, stack |-> stack, period |-> period,
   deadline |-> deadline, wcet |-> wcet, capabilities |-> caps]

Timed(n, priorities, periods, deadlines, wcets) ==
  {Task1(n, p, T(8, "B"), t, d, c, <<>>) :
     p \in priorities, t \in periods, d \in deadlines, c \in wcets}

With(rates, taskLists, channelLists) ==
  [tick_rate : rates, tasks : taskLists, channels : channelLists]

WrittenRates == {T(1, "Hz"), T(1, "kHz"), T(3, "Hz"), T(2, "MHz"), T(18, "Hz"),
                 T(0, "Hz"), T(70, "kHz"), T(1, None), T(70, "MHz"), T(300, "Hz"), T(1, "ms")}

\* Two tasks whose times are legal, illegal, absent or malformed, at two levels
\* or at one.
TimedTasks ==
  Timed(1, {2, 4}, {T(8, "ns"), T(3, "us"), T(0, "s")}, {None, T(6, "ns")},
        {None, T(1, "ns"), T(4, "ns")})
  \X Timed(2, {0, 1, 2}, {None, T(3, "s"), T(30, "s")}, {None, T(6, "ns"), T(11, "ns"), T(1, "s")},
           {T(3, "ns"), T(14, "s"), T(None, "ns"), T(300, "ns")})

-----------------------------------------------------------------------------
Ipc(n)   == [ipc |-> TRUE, resource |-> n]
Other(n) == [ipc |-> FALSE, resource |-> n]

Untimed(n, p, caps) == Task1(n, p, T(8, "B"), None, None, None, caps)

Channel(n, f, t, cap, o) ==
  [name |-> n, from |-> f, to |-> t, capacity |-> cap, overflow |-> o]

Links(n) == {Channel(n, f, t, 1, o) : f \in 1 .. 3, t \in 1 .. 3, o \in {"block", "reject"}}

\* Three channels between three tasks, in every direction.
Rings ==
  With({T(1, "MHz")},
       {<<Untimed(1, p[1], <<>>), Untimed(2, p[2], <<>>), Untimed(3, p[3], <<>>)>> :
          p \in {<<1, 2, 3>>, <<3, 1, 2>>, <<2, 2, 1>>}},
       Links(1) \X Links(2) \X Links(3))

\* Repeated names, undeclared ends, invalid policies, and every distribution
\* of the capabilities.
Named3 ==
  With({T(1, "MHz")},
       {<<Untimed(1, 1, c), Untimed(n, 2, d)>> : n \in {1, 2, EmptyName},
          c, d \in {<<>>, <<Ipc(1)>>, <<Ipc(2)>>, <<Ipc(2), Ipc(2)>>, <<Other(3), Ipc(1)>>}},
       {<<Channel(1, f, t, 1, "block"), Channel(2, 2, 1, k, o), Channel(x, 1, 2, 1, "block")>> :
          f \in 1 .. 2, t \in {1, 2, 3}, k \in {0, 1}, o \in {"reject", "drop"}, x \in {1, 3}})

-----------------------------------------------------------------------------
\* Stacks of every size, those too large to round up included.
Stacks == With({T(1, "MHz")},
               {<<Task1(1, 1, s, None, None, None, <<>>)>> :
                  s \in {T(n, u) : n \in {None} \cup 0 .. 260, u \in {"B", "KiB", "MiB"}}},
               {<<>>})

TimedManifests == With(WrittenRates, TimedTasks, {<<>>}) \cup Stacks \cup {None}

EveryManifest == TimedManifests \cup Rings \cup Named3
=============================================================================
