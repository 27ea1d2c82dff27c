--------------------------- MODULE RuntimeProofs ----------------------------
(***************************************************************************)
(* Proofs about Turns and Poller, for any set of tasks that wait for        *)
(* sockets, any set of descriptor numbers and any bounds: no task with      *)
(* something to do is left behind.                                          *)
(***************************************************************************)
EXTENDS MCRuntime, TLAPS

-----------------------------------------------------------------------------
(* The queue of woken tasks.                                                *)

Distinct(q) == \A i, j \in 1..Len(q) : q[i] = q[j] => i = j
In(q, t) == \E i \in 1..Len(q) : q[i] = t

LEMMA AppendDistinct ==
  ASSUME NEW q \in Seq(Tasks), NEW t \in Tasks, Distinct(q), ~ In(q, t)
  PROVE  /\ Append(q, t) \in Seq(Tasks) /\ Distinct(Append(q, t))
         /\ \A u : In(Append(q, t), u) <=> In(q, u) \/ u = t
<1>1. /\ Append(q, t) \in Seq(Tasks) /\ Len(Append(q, t)) = Len(q) + 1
      /\ \A i \in 1..Len(q) : Append(q, t)[i] = q[i]
      /\ Append(q, t)[Len(q) + 1] = t
      /\ Len(q) \in Nat
  OBVIOUS
<1> QED BY <1>1 DEF Distinct, In

LEMMA TailDistinct ==
  ASSUME NEW q \in Seq(Tasks), q # <<>>, Distinct(q)
  PROVE  /\ Tail(q) \in Seq(Tasks) /\ Distinct(Tail(q)) /\ ~ In(Tail(q), Head(q))
         /\ Head(q) \in Tasks
         /\ \A u : In(q, u) => In(Tail(q), u) \/ u = Head(q)
<1>1. /\ Tail(q) \in Seq(Tasks) /\ Len(Tail(q)) = Len(q) - 1 /\ Len(q) \in Nat \ {0}
      /\ \A i \in 1..(Len(q) - 1) : Tail(q)[i] = q[i + 1]
      /\ Head(q) = q[1] /\ Head(q) \in Tasks
  OBVIOUS
<1>2. \A i \in 1..(Len(q) - 1) : i + 1 \in 1..Len(q) /\ i + 1 # 1
  BY <1>1
<1>3. Distinct(Tail(q)) /\ ~ In(Tail(q), Head(q))
  BY <1>1, <1>2 DEF Distinct, In
<1>4. ASSUME NEW u, In(q, u) PROVE In(Tail(q), u) \/ u = Head(q)
  <2>1. PICK i \in 1..Len(q) : q[i] = u
    BY <1>4 DEF In
  <2>2. CASE i = 1
    BY <2>1, <2>2, <1>1
  <2>3. CASE i # 1
    <3>1. i - 1 \in 1..Len(Tail(q)) /\ Tail(q)[i - 1] = q[i]
      BY <1>1, <2>3
    <3> QED BY <3>1, <2>1 DEF In
  <2> QED BY <2>2, <2>3
<1> QED BY <1>1, <1>3, <1>4

(* The state of the queue, as the operators above see it.                   *)
QueueInv ==
  /\ queue \in Seq(Tasks) /\ running \in Tasks \cup {NoTask}
  /\ Distinct(queue) /\ ~ In(queue, running)
  /\ held => running = "main" \/ In(queue, "main")

LEMMA QueueInvMeans == QueueInv => NothingLeftBehind
  BY DEF QueueInv, NothingLeftBehind, Queued, Distinct, In

LEMMA WokenFacts ==
  ASSUME QueueInv, NEW t \in Tasks, t # running
  PROVE  /\ Woken(t) \in Seq(Tasks) /\ Distinct(Woken(t)) /\ ~ In(Woken(t), running)
         /\ \A u : In(Woken(t), u) <=> In(queue, u) \/ u = t
<1>1. CASE Queued(t)
  BY <1>1 DEF Woken, QueueInv, Queued, In
<1>2. CASE ~ Queued(t)
  BY <1>2, AppendDistinct DEF Woken, QueueInv, Queued, In
<1> QED BY <1>1, <1>2

LEMMA InitQueue == Init => QueueInv
<1> SUFFICES ASSUME Init PROVE QueueInv
  OBVIOUS
<1> DEFINE a == <<"main", "reader", "writer", "listener", "link">>
           b == <<"listener", "link", "reader", "writer", "main">>
<1>1. a \in Seq(Tasks) /\ b \in Seq(Tasks) /\ Len(a) = 5 /\ Len(b) = 5
  BY DEF Tasks
<1>2. queue = a \/ queue = b
  BY DEF Init
<1>3. Distinct(queue)
  BY <1>1, <1>2 DEF Distinct
<1>4. \A i \in 1..Len(queue) : queue[i] \in Tasks
  BY <1>1, <1>2
<1>5. ~ In(queue, NoTask)
  BY <1>4, TaskAssumption DEF In
<1> QED BY <1>1, <1>2, <1>3, <1>5 DEF QueueInv, Init

(* A turn that ends by waiting, other than one of main with a packet held.  *)
LEMMA ParkKeeps ==
  ASSUME QueueInv, Parks, UNCHANGED held, running = "main" => ~ held
  PROVE  QueueInv'
<1>1. \A i \in 1..Len(queue) : queue[i] \in Tasks
  BY DEF QueueInv
<1>2. ~ In(queue, NoTask)
  BY <1>1, TaskAssumption DEF In
<1> QED BY <1>2 DEF QueueInv, Parks

(* A turn that goes on, perhaps after waking another task.                  *)
LEMMA GoOnKeeps ==
  ASSUME QueueInv, UNCHANGED running, held' => held, running \in Tasks,
         \/ UNCHANGED queue
         \/ \E t \in Tasks : t # running /\ queue' = Woken(t)
  PROVE  QueueInv'
  BY WokenFacts DEF QueueInv

(* A turn that ends with yield_now.                                         *)
LEMMA YieldKeeps ==
  ASSUME QueueInv, running \in Tasks, NEW q, Yields(q),
         q = queue \/ \E t \in Tasks : t # running /\ q = Woken(t),
         held' => held \/ running = "main"
  PROVE  QueueInv'
<1>1. /\ q \in Seq(Tasks) /\ Distinct(q) /\ ~ In(q, running)
      /\ \A u : In(queue, u) => In(q, u)
  BY WokenFacts DEF QueueInv
<1>2. /\ queue' = Append(q, running) /\ running' = NoTask
  BY DEF Yields
<1>3. /\ queue' \in Seq(Tasks) /\ Distinct(queue')
      /\ \A u : In(queue', u) <=> In(q, u) \/ u = running
  BY <1>1, <1>2, AppendDistinct
<1>4. \A i \in 1..Len(queue') : queue'[i] \in Tasks
  BY <1>3
<1>5. ~ In(queue', NoTask)
  BY <1>4, TaskAssumption DEF In
<1> QED BY <1>1, <1>2, <1>3, <1>5 DEF QueueInv

LEMMA NextQueue == QueueInv /\ [Next]_vars => QueueInv'
<1> SUFFICES ASSUME QueueInv, [Next]_vars PROVE QueueInv'
  OBVIOUS
<1> USE DEF world, Runs, KeepsThread
<1>0. {"main", "link", "reader", "writer", "listener"} = Tasks
  BY DEF Tasks
<1>1. CASE BeginTurn
  <2>1. queue # <<>> /\ running' = Head(queue) /\ queue' = Tail(queue) /\ held' = held
        /\ running = NoTask
    BY <1>1 DEF BeginTurn
  <2>2. "main" # NoTask
    BY TaskAssumption DEF Tasks
  <2> QED BY <2>1, <2>2, TailDistinct DEF QueueInv
<1>2. CASE MainTakes
  BY <1>2, <1>0, YieldKeeps DEF MainTakes
<1>3. CASE MainHandles
  <2>1. running = "main" /\ UNCHANGED running /\ ~ held'
        /\ (UNCHANGED queue \/ queue' = Woken("writer"))
    BY <1>3 DEF MainHandles
  <2> QED BY <2>1, <1>0, GoOnKeeps
<1>4. CASE LinkReads
  <2>1. running = "link" /\ Yields(Woken("main")) /\ UNCHANGED held
    BY <1>4 DEF LinkReads
  <2> QED BY <2>1, <1>0, YieldKeeps
<1>5. CASE \/ MainWaits \/ LinkWaits \/ ReaderEnds \/ ReaderWaits \/ WriterWaits
           \/ BindFails \/ ListenerWaits
  BY <1>5, ParkKeeps DEF MainWaits, LinkWaits, ReaderEnds, ReaderWaits,
     WriterWaits, BindFails, ListenerWaits
<1>6. CASE \/ ReaderReads \/ ReaderFails \/ WriterWrites \/ WriterFails \/ Bind
           \/ AcceptFails
  BY <1>6, <1>0, GoOnKeeps DEF ReaderReads, ReaderFails, WriterWrites, WriterFails,
     Bind, AcceptFails
<1>7. CASE Accept
  <2>1. running = "listener" /\ UNCHANGED <<running, held>> /\ queue' = Woken("link")
    BY <1>7 DEF Accept
  <2> QED BY <2>1, <1>0, GoOnKeeps
<1>8. ASSUME NEW t \in Tasks, PollWakes(t) PROVE QueueInv'
  <2>1. /\ running = NoTask /\ ~ Queued(t) /\ queue' = Append(queue, t)
        /\ UNCHANGED <<running, held>>
    BY <1>8 DEF PollWakes
  <2>2. t # NoTask /\ ~ In(queue, t)
    BY <2>1, TaskAssumption DEF Queued, In
  <2> QED BY <2>1, <2>2, AppendDistinct DEF QueueInv
<1>9. ASSUME NEW t, Arrives(t) PROVE QueueInv'
  BY <1>9 DEF Arrives, QueueInv
<1>10. CASE DeviceChanges \/ PortFreed \/ UNCHANGED vars
  BY <1>10 DEF DeviceChanges, PortFreed, vars, QueueInv
<1> QED BY <1>1, <1>2, <1>3, <1>4, <1>5, <1>6, <1>7, <1>8, <1>9, <1>10
        DEF Next, Turn

-----------------------------------------------------------------------------
(* The entries of the tasks that wait for sockets.  A task without a socket *)
(* waits for none; outside poll() no entry is in the cache, in poll() no    *)
(* task is about to run.                                                    *)
EntriesInv ==
  /\ P!TypeOK
  /\ P!WaitersAreRegistered
  /\ \A t \in Waiters : file[t] = NoFd => want[t] = {}
  /\ pc = "run" => cache = {}
  /\ pc = "poll" => batch = {}

LEMMA InitEntries == P!Init => EntriesInv
  BY DEF P!Init, EntriesInv, P!TypeOK, P!WaitersAreRegistered, P!Entries, P!Types

LEMMA NextEntries == EntriesInv /\ [P!Next]_pollVars => EntriesInv'
<1> SUFFICES ASSUME EntriesInv, [P!Next]_pollVars PROVE EntriesInv'
  OBVIOUS
<1> USE DEF EntriesInv, P!TypeOK, P!WaitersAreRegistered
<1>1. ASSUME NEW t \in Waiters, P!Open(t) PROVE EntriesInv'
  <2>1. PICK n \in P!Free, r \in {{}, {"Write"}} :
          /\ file' = [file EXCEPT ![t] = n]
          /\ io' = [io EXCEPT ![n] = r]
    BY <1>1 DEF P!Open
  <2>2. n \in Numbers /\ n # NoFd /\ r \subseteq P!Types
    BY NumbersAssumption DEF P!Free, P!Types
  <2>3. /\ pc = "run" /\ t \in batch /\ want' = [want EXCEPT ![t] = {"Write"}]
        /\ UNCHANGED <<pc, batch, register, cache>>
    BY <1>1 DEF P!Open
  <2> QED BY <2>1, <2>2, <2>3 DEF P!Types
<1>2. ASSUME NEW t \in Waiters, P!Idle(t) PROVE EntriesInv'
  BY <1>2 DEF P!Idle
<1>3. ASSUME NEW t \in Waiters, P!PollTask(t) PROVE EntriesInv'
  <2> DEFINE n == file[t]
  <2>1. n \in Numbers
    BY <1>3 DEF P!PollTask
  <2>2. PICK w \in SUBSET P!Types :
          /\ want' = [want EXCEPT ![t] = w]
          /\ io' = [io EXCEPT ![n] = io[n] \ w]
          /\ register' = register \cup ({n} \X w \X {t})
    BY <1>3 DEF P!PollTask
  <2>3. /\ pc = "run" /\ t \in batch /\ file[t] # NoFd /\ batch' = batch \ {t}
        /\ UNCHANGED <<pc, file, cache>>
    BY <1>3 DEF P!PollTask
  <2>4. {n} \X w \X {t} \subseteq P!Entries
    BY <2>1 DEF P!Entries
  <2>5. \A k \in w : <<n, k, t>> \in register'
    BY <2>2
  <2>6. P!TypeOK'
    BY <2>1, <2>2, <2>3, <2>4
  <2>7. P!WaitersAreRegistered'
    BY <2>2, <2>3, <2>5
  <2> QED BY <2>2, <2>3, <2>6, <2>7
<1>4. ASSUME NEW t \in Waiters, P!Close(t) PROVE EntriesInv'
  BY <1>4 DEF P!Close
<1>5. CASE P!EnterPoll
  BY <1>5 DEF P!EnterPoll, P!Grouped
<1>6. CASE P!LeavePoll
  <2> DEFINE woken == {e[3] : e \in {f \in cache : f[1] \in P!Reported}}
  <2>1. PICK others \in SUBSET Waiters : batch' = others \cup woken
    BY <1>6 DEF P!LeavePoll
  <2>2. /\ pc = "poll" /\ pc' = "run" /\ cache' = {}
        /\ register' = register \cup {e \in cache : e[1] \notin P!Reported}
        /\ UNCHANGED <<file, want, io>>
    BY <1>6 DEF P!LeavePoll, P!RegisteredAgain
  <2>3. \A e \in cache : e[3] \in Waiters
    BY DEF P!Entries
  <2>4. ASSUME NEW t \in Waiters \ batch', NEW k \in P!Types, k \in want[t]
        PROVE  <<file[t], k, t>> \in register'
    <3> DEFINE e == <<file[t], k, t>>
    <3>1. e \in register \cup cache
      BY <2>2, <2>4
    <3>2. e[1] = file[t] /\ e[3] = t
      OBVIOUS
    <3> HIDE DEF e
    <3>3. e \in cache => e[1] \notin P!Reported
      BY <3>2, <2>1, <2>4
    <3> QED BY <2>2, <3>1, <3>3 DEF e
  <2>5. batch' \subseteq Waiters
    BY <2>1, <2>3
  <2>6. register' \subseteq P!Entries
    BY <2>2
  <2> HIDE DEF woken
  <2> QED BY <2>2, <2>4, <2>5, <2>6
<1>7. ASSUME NEW n \in Numbers, P!BecomesReady(n) PROVE EntriesInv'
  <2>1. PICK k \in P!Types : io' = [io EXCEPT ![n] = io[n] \cup {k}]
    BY <1>7 DEF P!BecomesReady
  <2> QED BY <1>7, <2>1 DEF P!BecomesReady
<1>8. CASE UNCHANGED pollVars
  BY <1>8 DEF pollVars
<1> QED BY <1>1, <1>2, <1>3, <1>4, <1>5, <1>6, <1>7, <1>8 DEF P!Next

-----------------------------------------------------------------------------
(* Every behaviour of the runtime's turns: a woken task is in the queue     *)
(* once and is not running, and main is woken for the packet it holds       *)
(* (Task::wake, yield_now).                                                 *)
THEOREM WokenOnce == Spec => []NothingLeftBehind
  BY InitQueue, NextQueue, QueueInvMeans, PTL DEF Spec

(* Every behaviour of the poller: a task that waits for a socket has its    *)
(* entry under the number that socket has now (read_fd, write_fd,           *)
(* fd_poller).                                                              *)
THEOREM WaitersRegistered == P!Spec => []P!WaitersAreRegistered
<1>1. EntriesInv => P!WaitersAreRegistered
  BY DEF EntriesInv
<1>2. EntriesInv /\ [P!Next]_P!vars => EntriesInv'
  BY NextEntries DEF P!vars, pollVars
<1> QED BY <1>1, <1>2, InitEntries, PTL DEF P!Spec

(* A woken task is in the queue once and is not running, and main is woken  *)
(* for the packet it holds (Task::wake, yield_now); a task that waits for a *)
(* socket has its entry under the number that socket has now, whatever      *)
(* closed sockets left behind (read_fd, write_fd, fd_poller).               *)
THEOREM NobodyIsLeftBehind == MCSpec => []NobodyLeftBehind
<1>1. MCInit => QueueInv /\ EntriesInv
  BY InitQueue, InitEntries DEF MCInit
<1>2. QueueInv /\ EntriesInv /\ [MCNext]_allVars => (QueueInv /\ EntriesInv)'
  <2> SUFFICES ASSUME QueueInv, EntriesInv, [MCNext]_allVars
               PROVE  QueueInv' /\ EntriesInv'
    OBVIOUS
  <2>1. [Next]_vars /\ [P!Next]_pollVars
    BY DEF MCNext, InTurns, InPoller, allVars
  <2> QED BY <2>1, NextQueue, NextEntries
<1>3. QueueInv /\ EntriesInv => NobodyLeftBehind
  BY QueueInvMeans DEF EntriesInv, NobodyLeftBehind
<1> QED BY <1>1, <1>2, <1>3, PTL DEF MCSpec
=============================================================================
