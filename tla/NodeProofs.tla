----------------------------- MODULE NodeProofs -----------------------------
(***************************************************************************)
(* Proofs about what a node does with its operating system and its process: *)
(* SystemRoutes, for any set of addresses and any capacity of the queue (no *)
(* command is run for an address that has its route), and Lifecycle, for    *)
(* any number of connections (nothing outlives the TUN device, and the exit *)
(* code tells why the node ended).  Then NodeAddress, for any names: an     *)
(* address that is found is found by both implementations.                  *)
(***************************************************************************)
EXTENDS SystemRoutes, Lifecycle, TLAPS

CONSTANT Names
VARIABLES keys, rust, dotnet, found
N == INSTANCE NodeAddress WITH done <- found

-----------------------------------------------------------------------------
(* System routes                                                            *)

(* An address that has its route is marked.  The Rust node has marked the   *)
(* address of the running command, and every one whose command failed: it   *)
(* marks before it runs the command, the .NET node after it succeeded.      *)
RoutedIsMarked ==
  /\ routes \subseteq added
  /\ platform # "dotnet" => /\ failed \subseteq added
                            /\ current # NoAddr => current \in added

IInv == TypeOK /\ RoutedIsMarked

-----------------------------------------------------------------------------
(* Putting a request into the queue.                                        *)
LEMMA AppendFacts ==
  ASSUME NEW T, NEW q \in Seq(T), NEW x \in T
  PROVE  Append(q, x) \in Seq(T) /\ Len(Append(q, x)) = Len(q) + 1
  OBVIOUS

(* Taking the first request off the queue.                                  *)
LEMMA TailFacts ==
  ASSUME NEW T, NEW q \in Seq(T), q # <<>>
  PROVE  Head(q) \in T /\ Tail(q) \in Seq(T) /\ Len(Tail(q)) = Len(q) - 1 /\ Len(q) \in Nat
  OBVIOUS

(* The set-up commands of a platform.                                       *)
LEMMA SetUpTypes ==
  ASSUME NEW p
  PROVE  SetUpCommands(p) \in Seq(Steps)
<1>1. <<"ip6">> \in Seq(Steps)
  BY DEF Steps
<1>2. <<"up", "ip6", "ip4">> \in Seq(Steps)
  BY DEF Steps
<1> QED BY <1>1, <1>2 DEF SetUpCommands

(* No address has a route at the start.                                     *)
LEMMA InitIInv == Init => IInv
<1> SUFFICES ASSUME Init PROVE IInv
  OBVIOUS
<1>1. hung \in BOOLEAN
  BY Zenon DEF Init
<1>2. todo \in Seq(Steps)
  BY SetUpTypes DEF Init
<1>3. Len(requests) = 0 /\ requests \in Seq(Addrs)
  BY DEF Init
<1>4. Len(requests) <= IF platform = "dotnet" THEN QueueCap ELSE MaxRequests
  BY <1>3, BoundAssumption
<1>5. TypeOK
  BY <1>1, <1>2, <1>3, <1>4 DEF Init, TypeOK
<1>6. RoutedIsMarked
  BY DEF Init, RoutedIsMarked
<1> QED BY <1>5, <1>6 DEF IInv

(* Every step keeps the invariant.                                          *)
LEMMA NextIInv == IInv /\ [Next]_vars => IInv'
<1> SUFFICES ASSUME IInv, [Next]_vars PROVE IInv'
  OBVIOUS
<1> USE DEF setupVars
<1>1. ASSUME NEW outcome \in Outcomes, SetUpCommand(outcome) PROVE IInv'
  <2>1. Head(todo) \in Steps /\ todo' \in Seq(Steps)
    BY <1>1, TailFacts DEF SetUpCommand, IInv, TypeOK
  <2>2. node' \in {"setup", "serving", "hung", "exited"}
    BY <1>1, PlatformAssumption DEF SetUpCommand, AfterSetUp, AfterLinuxSetUp, AfterMacSetUp,
       AfterDotnetSetUp, IInv, TypeOK
  <2>3. done' \subseteq Steps
    BY <1>1, <2>1 DEF SetUpCommand, IInv, TypeOK
  <2> QED BY <1>1, <2>1, <2>2, <2>3 DEF SetUpCommand, IInv, TypeOK, RoutedIsMarked
<1>2. CASE StartServing
  BY <1>2 DEF StartServing, IInv, TypeOK, RoutedIsMarked
<1>3. ASSUME NEW a \in Addrs, RequestRoute(a) PROVE IInv'
  <2>1. /\ requests' \in Seq(Addrs)
        /\ Len(requests') <= IF platform = "dotnet" THEN QueueCap ELSE MaxRequests
    <3>1. CASE WantsRoute(a) /\ HasRoom
      BY <1>3, <3>1, AppendFacts, BoundAssumption DEF RequestRoute, HasRoom, IInv, TypeOK
    <3>2. CASE ~ (WantsRoute(a) /\ HasRoom)
      BY <1>3, <3>2 DEF RequestRoute, IInv, TypeOK
    <3> QED BY <3>1, <3>2
  <2> QED BY <1>3, <2>1 DEF RequestRoute, IInv, TypeOK, RoutedIsMarked
<1>4. CASE TakeRequest
  <2>1. /\ Head(requests) \in Addrs /\ requests' \in Seq(Addrs)
        /\ Len(requests') <= Len(requests)
        /\ Len(requests) \in Nat /\ Len(requests') \in Nat
    BY <1>4, TailFacts DEF TakeRequest, IInv, TypeOK
  <2>2. Len(requests') <= IF platform = "dotnet" THEN QueueCap ELSE MaxRequests
    BY <2>1, BoundAssumption DEF IInv, TypeOK
  <2>3. TypeOK'
    BY <1>4, <2>1, <2>2 DEF TakeRequest, IInv, TypeOK
  <2>4. platform \in {"linux", "mac", "dotnet"}
    BY PlatformAssumption DEF IInv, TypeOK
  <2>5. RoutedIsMarked'
    BY <1>4, <2>4 DEF TakeRequest, MarksFirst, IInv, RoutedIsMarked
  <2> QED BY <2>3, <2>5 DEF IInv
<1>5. ASSUME NEW outcome \in Outcomes, CommandEnds(outcome) PROVE IInv'
  <2>1. hung' \in BOOLEAN
    BY <1>5 DEF CommandEnds, HelperPanics
  <2>2. TypeOK'
    BY <1>5, <2>1 DEF CommandEnds, MarkedAfterwards, IInv, TypeOK
  <2>3. RoutedIsMarked'
    BY <1>5 DEF CommandEnds, MarkedAfterwards, IInv, RoutedIsMarked
  <2> QED BY <2>2, <2>3 DEF IInv
<1>6. CASE UNCHANGED vars
  BY <1>6 DEF vars, IInv, TypeOK, RoutedIsMarked
<1> QED BY <1>1, <1>2, <1>3, <1>4, <1>5, <1>6 DEF Next, SetUp

(* The invariant holds always.                                              *)
LEMMA IInvAlways == Spec => []IInv
  BY InitIInv, NextIInv, PTL DEF Spec

-----------------------------------------------------------------------------
(* Only taking a request starts a command, and it takes no address that is  *)
(* marked.                                                                  *)
LEMMA StartsAreNew ==
  ASSUME IInv, [Next]_vars, current' \notin {current, NoAddr}
  PROVE  /\ current' \notin routes
         /\ platform # "dotnet" => current' \notin failed
<1>1. CASE TakeRequest
  BY <1>1 DEF TakeRequest, AlreadyAdded, IInv, RoutedIsMarked
<1>2. ASSUME NEW o \in Outcomes, SetUpCommand(o) \/ CommandEnds(o) PROVE FALSE
  BY <1>2 DEF SetUpCommand, CommandEnds
<1>3. ASSUME NEW a \in Addrs, RequestRoute(a) PROVE FALSE
  BY <1>3 DEF RequestRoute
<1>4. CASE StartServing \/ UNCHANGED vars
  BY <1>4 DEF StartServing, vars
<1> QED BY <1>1, <1>2, <1>3, <1>4 DEF Next, SetUp

(* However often an address is announced and however often its command      *)
(* fails, no command is run for an address that has its route, and the Rust *)
(* node runs no second one for any address (route_creator, AddRoutesAsync). *)
THEOREM NoCommandTwice == Spec => CommandsNotRepeated
<1>1. IInv /\ [Next]_vars =>
        [ current' \notin {current, NoAddr} =>
            /\ current' \notin routes
            /\ platform # "dotnet" => current' \notin failed ]_vars
  BY StartsAreNew
<1> QED BY <1>1, IInvAlways, PTL DEF Spec, CommandsNotRepeated

-----------------------------------------------------------------------------
(* The lifecycle of the .NET node                                           *)

(* What belongs to a task is gone before the task has ended.                *)
OwnedByTasks ==
  /\ conns > 0 => task["listen"] \in {"running", "closing"}
  /\ child => task["routes"] = "running"
  /\ tracing => task["control"] = "running"
  /\ \A t \in Tasks \ {"listen"} : task[t] # "closing"

(* The tasks exist while the node runs; the device is there until they have *)
(* all ended.                                                               *)
PhasesInOrder ==
  /\ phase = "opening" => /\ \A t \in Tasks : task[t] = "unborn"
                          /\ tun = "none"
  /\ phase \in {"running", "stopping"} => /\ \A t \in Tasks : task[t] # "unborn"
                                          /\ tun = "open"
  /\ phase = "exited" => \/ \A t \in Tasks : task[t] = "unborn"
                         \/ \A t \in Tasks : task[t] \in Ended
  /\ phase # "exited" => exit = 2

(* A task that ended without a fault did so because it was told to stop.    *)
(* Until the first task has ended, only Ctrl+C and SIGTERM tell it.         *)
WhyTasksEnd ==
  /\ \A t \in Tasks : task[t] \in {"done", "canceled"} => canceled
  /\ task["listen"] = "closing" /\ cause # "faulted" => canceled
  /\ canceled /\ phase \in {"opening", "running"} => asked
  /\ phase = "stopping" => asked \/ \E t \in Tasks : task[t] = "faulted"

(* All of it.                                                               *)
LifeInv == LifeTypeOK /\ OwnedByTasks /\ PhasesInOrder /\ WhyTasksEnd /\ ExitCodeIsRight

-----------------------------------------------------------------------------
(* The invariant holds at the start.                                        *)
LEMMA LifeStarts == LifeInit => LifeInv
<1> SUFFICES ASSUME LifeInit PROVE LifeInv
  OBVIOUS
<1> USE DEF LifeInit
<1>1. LifeTypeOK
  <2>1. asked \in BOOLEAN /\ canceled \in BOOLEAN /\ child \in BOOLEAN /\ tracing \in BOOLEAN
    BY Zenon
  <2>2. conns \in 0..MaxConns
    BY MaxConnsAssumption
  <2>3. task \in [Tasks -> {"unborn", "running", "closing"} \cup Ended]
    BY DEF Ended
  <2> QED BY <2>1, <2>2, <2>3 DEF LifeTypeOK, Ended
<1>2. OwnedByTasks
  BY DEF OwnedByTasks
<1>3. PhasesInOrder
  BY DEF PhasesInOrder
<1>4. WhyTasksEnd
  BY DEF WhyTasksEnd, Tasks
<1>5. ExitCodeIsRight
  BY DEF ExitCodeIsRight
<1> QED BY <1>1, <1>2, <1>3, <1>4, <1>5 DEF LifeInv

(* The step of a task that ends, whichever it is and however it ends.       *)
LEMMA LifeEnds ==
  ASSUME LifeInv, NEW t \in Tasks, NEW how \in Ended, Ends(t, how),
         UNCHANGED <<runVars, conns, child, tracing>>,
         how # "faulted" => canceled,
         t = "routes" => ~ child, t = "control" => ~ tracing
  PROVE  LifeInv'
<1> USE DEF runVars, Ends, Ended
<1>1. LifeTypeOK'
  BY DEF LifeInv, LifeTypeOK
<1>2. OwnedByTasks'
  BY DEF LifeInv, LifeTypeOK, OwnedByTasks, Tasks
<1>3. PhasesInOrder'
  BY DEF LifeInv, LifeTypeOK, PhasesInOrder
<1>4. WhyTasksEnd'
  BY DEF LifeInv, LifeTypeOK, WhyTasksEnd, Tasks
<1>5. ExitCodeIsRight'
  BY DEF LifeInv, LifeTypeOK, PhasesInOrder, ExitCodeIsRight
<1> QED BY <1>1, <1>2, <1>3, <1>4, <1>5 DEF LifeInv

(* Every step keeps the invariant.                                          *)
LEMMA LifeGoesOn == LifeInv /\ [LifeNext]_lifeVars => LifeInv'
<1> SUFFICES ASSUME LifeInv, [LifeNext]_lifeVars PROVE LifeInv'
  OBVIOUS
<1> USE DEF runVars, taskVars
<1>1. CASE Ask
  BY <1>1 DEF LifeInv, Ask, LifeTypeOK, OwnedByTasks, PhasesInOrder, WhyTasksEnd,
     ExitCodeIsRight
<1>2. CASE OpenFails
  BY <1>2 DEF LifeInv, OpenFails, LifeTypeOK, OwnedByTasks, PhasesInOrder, WhyTasksEnd,
     ExitCodeIsRight, Tasks, Ended
<1>3. CASE Opened
  BY <1>3 DEF LifeInv, Opened, LifeTypeOK, OwnedByTasks, PhasesInOrder, WhyTasksEnd,
     ExitCodeIsRight, Tasks, Ended
<1>4. CASE FirstEnds
  BY <1>4 DEF LifeInv, FirstEnds, LifeTypeOK, OwnedByTasks, PhasesInOrder, WhyTasksEnd,
     ExitCodeIsRight, Ended
<1>5. CASE Exits
  BY <1>5 DEF LifeInv, Exits, AllEnded, ExitCode, LifeTypeOK, OwnedByTasks,
     PhasesInOrder, WhyTasksEnd, ExitCodeIsRight, Ended, Tasks
<1>6. ASSUME NEW t \in Tasks, Faults(t) PROVE LifeInv'
  BY <1>6, LifeEnds DEF Faults, Exposed, Ended
<1>7. ASSUME NEW t \in Tasks, Stops(t) PROVE LifeInv'
  <2>1. PICK how \in EndsOf(t) : Ends(t, how)
    BY <1>7 DEF Stops
  <2>2. how \in Ended
    BY DEF EndsOf, Ended, Tasks
  <2> QED BY <1>7, <2>1, <2>2, LifeEnds DEF Stops, MayStop
<1>8. CASE Accepts
  BY <1>8, MaxConnsAssumption DEF LifeInv, Accepts, LifeTypeOK, OwnedByTasks, PhasesInOrder, WhyTasksEnd,
     ExitCodeIsRight
<1>9. CASE ConnectionEnds
  BY <1>9, MaxConnsAssumption DEF LifeInv, ConnectionEnds, LifeTypeOK, OwnedByTasks, PhasesInOrder,
     WhyTasksEnd, ExitCodeIsRight
<1>10. CASE ListenerCloses
  BY <1>10 DEF LifeInv, ListenerCloses, ConnectionsEnded, LifeTypeOK, OwnedByTasks,
     PhasesInOrder, WhyTasksEnd, ExitCodeIsRight, Ended, Tasks
<1>11. CASE ChildStarts \/ ChildEnds
  <2>1. UNCHANGED <<runVars, task, cause, conns, tracing>>
    BY <1>11 DEF ChildStarts, ChildEnds
  <2>2. child' \in BOOLEAN
    BY <1>11, Zenon DEF ChildStarts, ChildEnds
  <2>3. child' => child \/ task["routes"] = "running"
    BY <1>11, Zenon DEF ChildStarts, ChildEnds
  <2> QED BY <2>1, <2>2, <2>3 DEF LifeInv, LifeTypeOK, OwnedByTasks, PhasesInOrder,
             WhyTasksEnd, ExitCodeIsRight
<1>12. CASE TraceStarts \/ TraceEnds
  <2>1. UNCHANGED <<runVars, task, cause, conns, child>>
    BY <1>12 DEF TraceStarts, TraceEnds
  <2>2. tracing' \in BOOLEAN
    BY <1>12, Zenon DEF TraceStarts, TraceEnds
  <2>3. tracing' => tracing \/ task["control"] = "running"
    BY <1>12, Zenon DEF TraceStarts, TraceEnds
  <2> QED BY <2>1, <2>2, <2>3 DEF LifeInv, LifeTypeOK, OwnedByTasks, PhasesInOrder,
             WhyTasksEnd, ExitCodeIsRight
<1>13. CASE UNCHANGED lifeVars
  BY <1>13 DEF lifeVars, LifeInv, LifeTypeOK, OwnedByTasks, PhasesInOrder, WhyTasksEnd,
     ExitCodeIsRight
<1> QED BY <1>1, <1>2, <1>3, <1>4, <1>5, <1>6, <1>7, <1>8, <1>9, <1>10, <1>11,
           <1>12, <1>13 DEF LifeNext

(* The invariant holds always.                                              *)
LEMMA LifeAlways == LifeSpec => []LifeInv
  BY LifeStarts, LifeGoesOn, PTL DEF LifeSpec

-----------------------------------------------------------------------------
(* Whatever fails and whenever the node is asked to stop, when the device   *)
(* is disposed of no task, connection, route command or trace is left that  *)
(* could use it (MeshNode.RunAsync, LegacyTcp.ListenAsync).                 *)
THEOREM DeviceOutlivesAll == LifeSpec => []NothingOutlivesTheDevice
<1>1. LifeInv => NothingOutlivesTheDevice
  BY DEF LifeInv, LifeTypeOK, OwnedByTasks, PhasesInOrder, NothingOutlivesTheDevice,
     Ended, Tasks
<1> QED BY <1>1, LifeAlways, PTL

(* The node never exits with 0 after a task failed or without having been   *)
(* asked to stop, and with 1 only if a task failed or the device could not  *)
(* be opened (Program.RunAsync), whichever task was the first to end.       *)
THEOREM ExitCodeCorrect == LifeSpec => []ExitCodeIsRight
<1>1. LifeInv => ExitCodeIsRight
  BY DEF LifeInv
<1> QED BY <1>1, LifeAlways, PTL

-----------------------------------------------------------------------------
(* The address of a node                                                    *)

(* The two tests of the prefix, on bytes in one node and on a word in the   *)
(* other, are the same.                                                     *)
LEMMA PrefixesAgree ==
  ASSUME NEW b
  PROVE  N!RustHasPrefix(b) <=> N!DotNetHasPrefix(b)
<1>1. N!Byte(b, 0) = {x \in 0..7 : x \in b} /\ N!Byte(b, 1) = {x \in 0..7 : 8 + x \in b}
  BY DEF N!Byte
<1>2. N!Fd \subseteq 0..7
  BY DEF N!Fd
<1>3. ASSUME N!RustHasPrefix(b) PROVE b \cap 0..15 = N!Fd
  <2>1. {x \in 0..7 : x \in b} = N!Fd /\ \A x \in 0..7 : 8 + x \notin b
    BY <1>1, <1>3 DEF N!RustHasPrefix
  <2>2. ASSUME NEW x \in 0..15, x \in b PROVE x \in 0..7
    <3>1. CASE x >= 8
      <4>1. x - 8 \in 0..7 /\ 8 + (x - 8) = x
        BY <3>1
      <4> QED BY <2>1, <2>2, <4>1
    <3>2. CASE ~ (x >= 8)
      BY <3>2
    <3> QED BY <3>1, <3>2
  <2>3. \A x \in 0..7 : x \in 0..15
    OBVIOUS
  <2> QED BY <1>2, <2>1, <2>2, <2>3
<1>4. ASSUME b \cap 0..15 = N!Fd PROVE N!RustHasPrefix(b)
  <2>1. \A x \in 0..7 : x \in 0..15 /\ 8 + x \in 0..15 /\ 8 + x \notin 0..7
    OBVIOUS
  <2>2. {x \in 0..7 : x \in b} = N!Fd
    BY <1>2, <1>4, <2>1
  <2>3. {x \in 0..7 : 8 + x \in b} = {}
    BY <1>2, <1>4, <2>1
  <2> QED BY <1>1, <2>2, <2>3 DEF N!RustHasPrefix
<1> QED BY <1>3, <1>4 DEF N!DotNetHasPrefix

(* Both are at the same words in every round, and leave the loop together.  *)
(* They only look for the prefix when no keys are left.                     *)
SameRound == rust = dotnet /\ (found # {} => keys = <<>> /\ N!SameMeshAddress)

(* Both start from the same words.                                          *)
LEMMA RoundsStart == N!Init => SameRound
BY DEF N!Init, SameRound

(* A round, and leaving the loop.                                           *)
LEMMA SearchKeeps == SameRound /\ [N!Next]_(N!vars) => SameRound'
<1> SUFFICES ASSUME SameRound, [N!Next]_(N!vars) PROVE SameRound'
  OBVIOUS
<1>1. ASSUME NEW k, N!Rounds(k) PROVE rust' = dotnet'
  BY <1>1 DEF N!Rounds, N!Ernd, N!SpeckRound, SameRound
<1>2. CASE N!Mix
  <2>1. rust' = dotnet' /\ found' = found /\ found = {}
    BY <1>1, <1>2 DEF N!Mix, SameRound
  <2> QED BY <2>1 DEF SameRound
<1>3. CASE N!Search
  BY <1>1, <1>3 DEF N!Search, SameRound
<1>4. CASE N!Found
  <2>1. /\ found' = {i \in {"rust"} : N!RustHasPrefix(rust[2])}
                      \cup {i \in {"dotnet"} : N!DotNetHasPrefix(dotnet[2])}
        /\ found' # {} /\ rust' = rust /\ dotnet' = dotnet /\ rust = dotnet
        /\ keys' = <<>>
    BY <1>4 DEF N!Found, SameRound
  <2>2. N!RustHasPrefix(rust[2]) /\ N!DotNetHasPrefix(dotnet[2])
    BY <2>1, PrefixesAgree
  <2>3. found' = {"rust", "dotnet"}
    BY <2>1, <2>2
  <2>4. N!Address(rust)[0] = N!Fd /\ N!Address(rust)[1] = {}
    BY <2>2 DEF N!Address, N!RustHasPrefix
  <2> QED BY <2>1, <2>3, <2>4 DEF SameRound, N!SameMeshAddress
<1>5. CASE UNCHANGED N!vars
  BY <1>5 DEF N!vars, SameRound, N!SameMeshAddress
<1> QED BY <1>2, <1>3, <1>4, <1>5 DEF N!Next

(* For every name, the Rust and the .NET node leave their search after the  *)
(* same number of rounds, with the same address, which is one of the mesh   *)
(* (IpAddr::from_node_name, Protocol.NodeAddress).  That the search ends is *)
(* for TLC.                                                                 *)
THEOREM AddressesAgree == N!Spec => [](found # {} => N!SameMeshAddress)
<1>1. SameRound => (found # {} => N!SameMeshAddress)
  BY DEF SameRound
<1> QED BY <1>1, RoundsStart, SearchKeeps, PTL DEF N!Spec
=============================================================================
