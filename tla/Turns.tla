------------------------------- MODULE Turns --------------------------------
(***************************************************************************)
(* Who gets the one thread of the Rust node, and for how long.              *)
(*                                                                          *)
(* A task keeps the thread until it gives it up: because it has to wait, or *)
(* with yield_now.  The main loop and the links yield for every packet.     *)
(* The task that reads the TUN device and the listener do not: they go on   *)
(* for as long as there is something to read or to accept, and go on at     *)
(* once when that fails.  Module Executor has the mechanics of waking and   *)
(* waiting; here a task is parked, in the queue, or running.                *)
(*                                                                          *)
(* Link stands for the tasks of the accepted connections, of which there    *)
(* are conns; each holds a descriptor until its task ends it in a turn.     *)
(***************************************************************************)
EXTENDS Naturals, Sequences

CONSTANTS
  Platform,   \* "linux" or "mac"
  NoTask,
  Endless,    \* tasks that find new input while they run
  Many,       \* this many packets, or more, wait for the main loop
  MaxWaiting, \* bound on what waits for any other task
  MaxConns    \* descriptors there are for accepted connections

Tasks == {"main", "link", "reader", "writer", "listener"}

ASSUME PlatformAssumption == Platform \in {"linux", "mac"}
ASSUME TaskAssumption == NoTask \notin Tasks /\ Endless \subseteq Tasks
ASSUME BoundAssumption == Many \in Nat \ {0} /\ MaxWaiting \in Nat \ {0} /\ MaxConns \in Nat \ {0}

VARIABLES
  queue,     \* woken tasks, in order
  running,
  input,     \* what waits: packets, frames, connections
  held,      \* the main loop has taken a packet and not handled it yet
  device,    \* the TUN device: "ok", "full", "failing", "closed"
  port,      \* the port to listen on: "free" or "taken"
  bound,     \* the listener listens
  conns,     \* accepted connections
  logged,    \* whether an odd number of errors has been logged
  node       \* "up" or "crashed"

vars == <<queue, running, input, held, device, port, bound, conns, logged, node>>
world == <<device, port, logged>>

Init ==
  /\ queue \in {<<"main", "reader", "writer", "listener", "link">>,
                <<"listener", "link", "reader", "writer", "main">>}
  /\ running = NoTask /\ input = [t \in Tasks |-> 0] /\ held = FALSE
  /\ device = "ok" /\ port \in {"free", "taken"} /\ bound = FALSE /\ conns = 0
  /\ logged = FALSE /\ node = "up"

Queued(t) == \E i \in 1..Len(queue) : queue[i] = t
Woken(t) == IF Queued(t) THEN queue ELSE Append(queue, t)
Runs(t) == node = "up" /\ running = t

Takes(t) == input[t] > 0 /\ input' = [input EXCEPT ![t] = @ - 1]

KeepsThread == UNCHANGED <<queue, running>>

(* A task waits: it is not in the queue until something wakes it.           *)
Parks == running' = NoTask /\ UNCHANGED queue

(* yield_now: the task wakes itself and gives the thread up, after what it  *)
(* woke before.  (Mutation: it keeps the thread.)                           *)
YieldsNot(q) == queue' = q /\ UNCHANGED running

Yields(q) == queue' = Append(q, running) /\ running' = NoTask

BeginTurn ==
  /\ node = "up" /\ running = NoTask /\ queue # <<>>
  /\ running' = Head(queue) /\ queue' = Tail(queue)
  /\ UNCHANGED <<input, held, world, bound, conns, node>>

-----------------------------------------------------------------------------
(* The main loop: it takes a packet, yields, and handles it in its next     *)
(* turn, by which a packet may get to the task that writes to the device.   *)
MainTakes ==
  /\ Runs("main") /\ ~ held
  /\ Takes("main") \/ (input["main"] = Many /\ UNCHANGED input)
  /\ held' = TRUE
  /\ Yields(queue)
  /\ UNCHANGED <<world, bound, conns, node>>

MainHandles ==
  /\ Runs("main") /\ held
  /\ held' = FALSE
  /\ \/ /\ input["writer"] < MaxWaiting
        /\ input' = [input EXCEPT !["writer"] = @ + 1] /\ queue' = Woken("writer")
     \/ UNCHANGED <<input, queue>>
  /\ UNCHANGED <<running, world, bound, conns, node>>

MainWaits ==
  /\ Runs("main") /\ ~ held /\ input["main"] = 0
  /\ Parks
  /\ UNCHANGED <<input, held, world, bound, conns, node>>

(* A link: a frame it reads goes to the main loop, then it yields.          *)
LinkReads ==
  /\ Runs("link") /\ input["link"] > 0
  /\ input' = [input EXCEPT !["link"] = @ - 1,
                            !["main"] = IF @ = Many THEN Many ELSE @ + 1]
  /\ Yields(Woken("main"))
  /\ UNCHANGED <<held, world, bound, conns, node>>

(* Its connection ended, or there is nothing to read.                       *)
LinkWaits ==
  /\ Runs("link") /\ input["link"] = 0
  /\ conns' \in {conns} \cup {n \in 0..MaxConns : n + 1 = conns}
  /\ Parks
  /\ UNCHANGED <<input, held, world, bound, node>>

-----------------------------------------------------------------------------
(* The task that reads the device.  A read error is logged and the loop     *)
(* goes on; the end of the device ends the task.                            *)
ReaderReads ==
  /\ Runs("reader") /\ device \in {"ok", "full"}
  /\ Takes("reader") /\ KeepsThread
  /\ UNCHANGED <<held, world, bound, conns, node>>

ReaderEnds ==
  /\ Runs("reader") /\ device = "closed"
  /\ Parks
  /\ UNCHANGED <<input, held, world, bound, conns, node>>

ReaderWaits ==
  /\ Runs("reader") /\ device \in {"ok", "full"} /\ input["reader"] = 0
  /\ Parks
  /\ UNCHANGED <<input, held, world, bound, conns, node>>

ReaderFails ==
  /\ Runs("reader") /\ device = "failing"
  /\ logged' = ~ logged /\ KeepsThread
  /\ UNCHANGED <<input, held, device, port, bound, conns, node>>

(* The task that writes to the device.  On Linux a write error panics, on   *)
(* the thread that everything runs on; on macOS it is logged.               *)
WriterWrites ==
  /\ Runs("writer") /\ device = "ok"
  /\ Takes("writer") /\ KeepsThread
  /\ UNCHANGED <<held, world, bound, conns, node>>

WriterWaits ==
  /\ Runs("writer") /\ (input["writer"] = 0 \/ device = "full")
  /\ Parks
  /\ UNCHANGED <<input, held, world, bound, conns, node>>

WriterFails ==
  /\ Runs("writer") /\ device \in {"failing", "closed"}
  /\ Takes("writer") /\ KeepsThread
  /\ node' = IF Platform = "linux" THEN "crashed" ELSE "up"
  /\ UNCHANGED <<held, world, bound, conns>>

-----------------------------------------------------------------------------
(* The listener: bind, or sleep for some seconds and try again; then accept *)
(* until nobody is waiting.  When there is no descriptor left, accept fails *)
(* while the socket stays readable, and the loop goes on at once.           *)
Bind ==
  /\ Runs("listener") /\ ~ bound /\ port = "free"
  /\ bound' = TRUE /\ KeepsThread
  /\ UNCHANGED <<input, held, world, conns, node>>

BindFails ==
  /\ Runs("listener") /\ ~ bound /\ port = "taken"
  /\ Parks
  /\ UNCHANGED <<input, held, world, bound, conns, node>>

(* (Mutation: an error to bind is the end of the listener.)                 *)
NeverTriesAgain == FALSE

SleepEnds == ~ bound

Accept ==
  /\ Runs("listener") /\ bound /\ conns < MaxConns
  /\ Takes("listener") /\ conns' = conns + 1
  /\ queue' = Woken("link")
  /\ UNCHANGED <<running, held, world, bound, node>>

AcceptFails ==
  /\ Runs("listener") /\ bound /\ conns = MaxConns /\ input["listener"] > 0
  /\ logged' = ~ logged /\ KeepsThread
  /\ UNCHANGED <<input, held, device, port, bound, conns, node>>

ListenerWaits ==
  /\ Runs("listener") /\ bound /\ input["listener"] = 0
  /\ Parks
  /\ UNCHANGED <<input, held, world, bound, conns, node>>

-----------------------------------------------------------------------------
(* What the operating system does.  poll(), between the turns, wakes a task *)
(* that waits for a descriptor with something to report, or for a timer.    *)
Ready(t) ==
  CASE t = "reader"   -> device = "failing" \/ (device \in {"ok", "full"} /\ input[t] > 0)
    [] t = "writer"   -> device # "full" /\ input[t] > 0
    [] t = "link"     -> input[t] > 0 \/ conns > 0
    [] t = "listener" -> SleepEnds \/ input[t] > 0
    [] OTHER          -> FALSE

PollWakes(t) ==
  /\ node = "up" /\ running = NoTask /\ ~ Queued(t) /\ Ready(t)
  /\ queue' = Append(queue, t)
  /\ UNCHANGED <<running, input, held, world, bound, conns, node>>

Arrives(t) ==
  /\ running = t => t \in Endless
  /\ t = "link" => conns > 0
  /\ input[t] < MaxWaiting
  /\ input' = [input EXCEPT ![t] = @ + 1]
  /\ UNCHANGED <<queue, running, held, world, bound, conns, node>>

DeviceChanges ==
  /\ device \in {"ok", "full"}
  /\ device' \in {"ok", "full", "failing", "closed"}
  /\ UNCHANGED <<queue, running, input, held, port, bound, conns, logged, node>>

PortFreed ==
  /\ port = "taken" /\ port' = "free"
  /\ UNCHANGED <<queue, running, input, held, device, bound, conns, logged, node>>

-----------------------------------------------------------------------------
Turn ==
  \/ BeginTurn \/ MainTakes \/ MainHandles \/ MainWaits \/ LinkReads \/ LinkWaits
  \/ ReaderReads \/ ReaderWaits \/ ReaderEnds \/ ReaderFails
  \/ WriterWrites \/ WriterWaits \/ WriterFails
  \/ Bind \/ BindFails \/ Accept \/ AcceptFails \/ ListenerWaits

Next ==
  \/ Turn
  \/ \E t \in Tasks : PollWakes(t)
  \/ \E t \in {"link", "reader", "listener"} : Arrives(t)
  \/ DeviceChanges \/ PortFreed

Spec == Init /\ [][Next]_vars

(* The thread runs, and polls between its turns.                            *)
FairSpec == Spec /\ WF_vars(Turn) /\ \A t \in Tasks : SF_vars(PollWakes(t))
-----------------------------------------------------------------------------
TypeOK ==
  /\ queue \in Seq(Tasks) /\ running \in Tasks \cup {NoTask}
  /\ input \in [Tasks -> Nat] /\ held \in BOOLEAN
  /\ device \in {"ok", "full", "failing", "closed"} /\ port \in {"free", "taken"}
  /\ bound \in BOOLEAN /\ conns \in 0..MaxConns /\ logged \in BOOLEAN /\ node \in {"up", "crashed"}

(* A task is woken once: it is in the queue at most once, and not while it  *)
(* runs.  A packet in the hands of the main loop never waits for another    *)
(* packet to arrive: main is then in the queue or running.                  *)
NothingLeftBehind ==
  /\ \A i, j \in 1..Len(queue) : queue[i] = queue[j] => i = j
  /\ ~ Queued(running)
  /\ held => running = "main" \/ Queued("main")

Hogs(t) == <>[](running = t /\ node = "up")

(* A task in the queue gets its turn, even if packets never stop to arrive  *)
(* for everyone: only the task that reads the device, and the listener, can *)
(* keep the thread for ever (yield_now in the main loop and the links).     *)
OnlyReaderAndListenerHog ==
  \/ \A t \in Tasks : [](Queued(t) => <>(running = t \/ node = "crashed"))
  \/ Hogs("reader") \/ Hogs("listener")

(* Rust keeps trying to bind its port, as dotnet/README.md says, and        *)
(* listens once the port is free (listener), unless it does not get the     *)
(* thread any more.                                                         *)
ListenerKeepsTrying ==
  (port = "free") ~> (bound \/ node = "crashed" \/ Hogs("reader"))
=============================================================================
