----------------------------- MODULE Lifecycle ------------------------------
(***************************************************************************)
(* From start to exit of a .NET node (MeshNode.RunAsync, Program.RunAsync): *)
(* the TUN device is opened and set up, the tasks of the node run until the *)
(* first of them ends, for whatever reason; then all are told to stop, all  *)
(* are waited for, the device is disposed of, and the process exits.        *)
(*                                                                          *)
(* A task ends "done", "canceled" or "faulted".  The listener is "closing"  *)
(* between its own end and the end of the connections it accepted.          *)
(***************************************************************************)
EXTENDS Naturals

CONSTANT MaxConns   \* bound on the connections the listener has at a time

ASSUME MaxConnsAssumption == MaxConns \in Nat

Tasks == {"connect", "listen", "announce", "process", "control", "tunread", "routes"}

VARIABLES
  phase,      \* of RunAsync: "opening", "running", "stopping", "exited"
  asked,      \* Ctrl+C or SIGTERM
  canceled,   \* the linked token of the node
  task,       \* the state of each task
  cause,      \* how the listener ended, while it is closing
  conns,      \* connections of the listener
  child,      \* a command that adds a route is running
  tracing,    \* the control task waits for the replies to a trace
  tun,        \* "none", "open", "disposed"
  first,      \* how the first task ended
  exit        \* exit code, or 2 while the process runs

lifeVars == <<phase, asked, canceled, task, cause, conns, child, tracing, tun, first, exit>>
runVars == <<phase, asked, canceled, tun, first, exit>>
taskVars == <<task, cause, conns, child, tracing>>

Ended == {"done", "canceled", "faulted"}

LifeInit ==
  /\ phase = "opening" /\ asked = FALSE /\ canceled = FALSE
  /\ task = [t \in Tasks |-> "unborn"] /\ cause = "done" /\ conns = 0
  /\ child = FALSE /\ tracing = FALSE /\ tun = "none" /\ first = "done" /\ exit = 2

(* Ctrl+C and SIGTERM cancel the token that the node's own is linked to.    *)
Ask ==
  /\ ~ asked /\ phase # "exited"
  /\ asked' = TRUE /\ canceled' = TRUE
  /\ UNCHANGED <<phase, taskVars, tun, first, exit>>

(* OpenAsync fails, or is canceled: the device is disposed of.              *)
OpenFails ==
  /\ phase = "opening"
  /\ phase' = "exited" /\ tun' \in {"none", "disposed"}
  /\ exit' \in {1} \cup {n \in {0} : asked}
  /\ UNCHANGED <<asked, canceled, taskVars, first>>

Opened ==
  /\ phase = "opening"
  /\ phase' = "running" /\ tun' = "open"
  /\ task' = [t \in Tasks |-> "running"]
  /\ UNCHANGED <<asked, canceled, cause, conns, child, tracing, first, exit>>

-----------------------------------------------------------------------------
(* The tasks.  Errors on a link, in a name or in a route command are caught *)
(* where they occur; these are not: the listening socket, writing to and    *)
(* reading from the device, the control port.                               *)
Exposed == {"listen", "process", "tunread", "control"}

(* The end of a task.  The listener first waits for its connections.        *)
Ends(t, how) ==
  /\ task[t] = "running"
  /\ task' = [task EXCEPT ![t] = IF t = "listen" THEN "closing" ELSE how]
  /\ cause' = IF t = "listen" THEN how ELSE cause

Faults(t) ==
  /\ t \in Exposed /\ ~ (t = "control" /\ tracing)
  /\ Ends(t, "faulted")
  /\ UNCHANGED <<runVars, conns, child, tracing>>

(* How a task may end once the token is canceled.  The loop that connects   *)
(* and the control task may look at the token themselves and return.  What  *)
(* fails while the token is canceled is not caught any more.                *)
EndsOf(t) ==
  CASE t = "connect" -> {"canceled", "done", "faulted"}
    [] t = "control" -> {"done", "faulted"}
    [] t = "routes"  -> {"canceled", "faulted"}
    [] OTHER         -> {"canceled"}

(* (Mutation: a read of the device does not look at the token.)             *)
MayStopUnlessReading(t) == canceled /\ t # "tunread"

MayStop(t) == canceled

(* The command of a route is killed and waited for before its task ends; a  *)
(* trace waits its three seconds, which no token cuts short.                *)
Stops(t) ==
  /\ MayStop(t)
  /\ t = "routes" => ~ child
  /\ t = "control" => ~ tracing
  /\ \E how \in EndsOf(t) : Ends(t, how)
  /\ UNCHANGED <<runVars, conns, child, tracing>>

Accepts ==
  /\ task["listen"] = "running" /\ conns < MaxConns
  /\ conns' = conns + 1
  /\ UNCHANGED <<runVars, task, cause, child, tracing>>

ConnectionEnds ==
  /\ conns > 0
  /\ conns' = conns - 1
  /\ UNCHANGED <<runVars, task, cause, child, tracing>>

ConnectionsEnded == conns = 0

ListenerCloses ==
  /\ task["listen"] = "closing" /\ ConnectionsEnded
  /\ task' = [task EXCEPT !["listen"] = cause]
  /\ UNCHANGED <<runVars, cause, conns, child, tracing>>

ChildStarts ==
  /\ task["routes"] = "running" /\ ~ child /\ ~ canceled
  /\ child' = TRUE
  /\ UNCHANGED <<runVars, task, cause, conns, tracing>>

ChildEnds ==
  /\ child /\ child' = FALSE
  /\ UNCHANGED <<runVars, task, cause, conns, tracing>>

TraceStarts ==
  /\ task["control"] = "running" /\ ~ tracing /\ ~ canceled
  /\ tracing' = TRUE
  /\ UNCHANGED <<runVars, task, cause, conns, child>>

TraceEnds ==
  /\ tracing /\ tracing' = FALSE
  /\ UNCHANGED <<runVars, task, cause, conns, child>>

-----------------------------------------------------------------------------
(* await await Task.WhenAny, and the finally block.                         *)
FirstEnds ==
  /\ phase = "running"
  /\ \E t \in Tasks : task[t] \in Ended /\ first' = task[t]
  /\ canceled' = TRUE /\ phase' = "stopping"
  /\ UNCHANGED <<asked, taskVars, tun, exit>>

(* Task.WhenAll: a fault of any task wins over a cancellation.  (Mutations: *)
(* it is not awaited; only the first task counts.)                          *)
NobodyAwaited == TRUE

AllEnded == \A t \in Tasks : task[t] \in Ended

ExitCodeOfFirst == IF first = "faulted" THEN 1 ELSE 0

ExitCode ==
  IF \/ \E t \in Tasks : task[t] = "faulted"
     \/ first = "canceled" /\ ~ asked
  THEN 1 ELSE 0

Exits ==
  /\ phase = "stopping" /\ AllEnded
  /\ phase' = "exited" /\ tun' = "disposed" /\ exit' = ExitCode
  /\ UNCHANGED <<asked, canceled, taskVars, first>>

-----------------------------------------------------------------------------
LifeNext ==
  \/ Ask \/ OpenFails \/ Opened \/ FirstEnds \/ Exits
  \/ \E t \in Tasks : Faults(t) \/ Stops(t)
  \/ Accepts \/ ConnectionEnds \/ ListenerCloses
  \/ ChildStarts \/ ChildEnds \/ TraceStarts \/ TraceEnds

LifeSpec == LifeInit /\ [][LifeNext]_lifeVars

(* Every task is told of the cancellation, and every connection: they see   *)
(* the token wherever they wait.  A child that is killed ends.              *)
LifeFairness ==
  /\ WF_lifeVars(Opened \/ OpenFails) /\ WF_lifeVars(FirstEnds) /\ WF_lifeVars(Exits)
  /\ WF_lifeVars(ListenerCloses) /\ WF_lifeVars(ChildEnds) /\ WF_lifeVars(TraceEnds)
  /\ WF_lifeVars(canceled /\ ConnectionEnds)
  /\ \A t \in Tasks : WF_lifeVars(Stops(t))

FairLifeSpec == LifeSpec /\ LifeFairness
-----------------------------------------------------------------------------
LifeTypeOK ==
  /\ phase \in {"opening", "running", "stopping", "exited"}
  /\ asked \in BOOLEAN /\ canceled \in BOOLEAN /\ child \in BOOLEAN /\ tracing \in BOOLEAN
  /\ task \in [Tasks -> {"unborn", "running", "closing"} \cup Ended]
  /\ cause \in Ended /\ first \in Ended /\ conns \in 0..MaxConns
  /\ tun \in {"none", "open", "disposed"} /\ exit \in 0..2

(* Nothing outlives the device: when it is disposed of, and the process     *)
(* exits, every task has ended, and with them the connections, the command  *)
(* that adds a route and the trace (RunAsync, ListenAsync, CommandAsync).   *)
NothingOutlivesTheDevice ==
  tun = "disposed" =>
    /\ \A t \in Tasks : task[t] \in Ended \cup {"unborn"}
    /\ conns = 0 /\ ~ child /\ ~ tracing

(* The exit code tells why the node ended: 0 only if it was asked to stop   *)
(* and no task failed, 1 if a task failed or the device could not be set    *)
(* up, whichever task was the first to end.                                 *)
ExitCodeIsRight ==
  /\ exit = 0 => asked /\ \A t \in Tasks : task[t] # "faulted"
  /\ exit = 1 => (\E t \in Tasks : task[t] = "faulted") \/ task["listen"] = "unborn"

(* A task has failed, or it is the listener and has yet to close.           *)
Failed(t) ==
  task[t] = "faulted" \/ (t = "listen" /\ task[t] = "closing" /\ cause = "faulted")

(* Ctrl+C and SIGTERM stop the node, whatever its tasks are doing.  A task  *)
(* that fails makes the node exit with an error, as dotnet/README.md says   *)
(* of a port that cannot be bound; but a listener that fails to accept      *)
(* first waits for its connections, which nobody has told to end: while one *)
(* of them stays open, the node runs on without a listener.                 *)
EndsWhenItShould ==
  /\ asked ~> (phase = "exited")
  /\ \A t \in Tasks : Failed(t) ~> (exit = 1 \/ (t = "listen" /\ [](conns > 0)))
=============================================================================
