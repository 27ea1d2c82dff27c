----------------------------- MODULE MCRuntime ------------------------------
(* Small instances of Turns and of Poller.  They look at different things   *)
(* in the same runtime and share no state: view says which of them moves,   *)
(* the other one stays as it was at the start.                              *)
EXTENDS Turns

CONSTANTS Waiters, Numbers, NoFd
VARIABLES view, pc, batch, file, want, io, register, cache

P == INSTANCE Poller WITH Tasks <- Waiters

MCAll == Tasks
pollVars == <<pc, batch, file, want, io, register, cache>>
allVars == <<view, vars, pollVars>>

ASSUME NumbersAssumption == Numbers \subseteq Nat /\ NoFd \notin Numbers

MCInit ==
  /\ Init /\ P!Init
  /\ view \in {"turns", "poller"}
  /\ view = "poller" => port = "free" /\ Head(queue) = "main"

InTurns(A) == view = "turns" /\ A /\ UNCHANGED <<view, pollVars>>
InPoller(A) == view = "poller" /\ A /\ UNCHANGED <<view, vars>>

MCNext == InTurns(Next) \/ InPoller(P!Next)

(* The fairness of Turns!FairSpec and of Poller!FairSpec.                   *)
MCFairness ==
  /\ WF_allVars(InTurns(Turn)) /\ \A t \in Tasks : SF_allVars(InTurns(PollWakes(t)))
  /\ \A t \in Waiters : WF_allVars(InPoller(P!Idle(t) \/ P!PollTask(t) \/ P!Close(t)))
  /\ WF_allVars(InPoller(P!EnterPoll)) /\ WF_allVars(InPoller(P!LeavePoll))

MCSpec == MCInit /\ [][MCNext]_allVars /\ MCFairness

-----------------------------------------------------------------------------
(* Only the reader of the device and the listener keep the thread for ever: *)
(* Turns!OnlyReaderAndListenerHog.                                          *)
OthersYield == (view = "turns") => OnlyReaderAndListenerHog

(* The listener listens once its port is free: Turns!ListenerKeepsTrying.   *)
ListensInTheEnd == (view = "turns") => ListenerKeepsTrying

(* A task with something to do is not forgotten.  It is woken once, and for *)
(* the packet in its hands (Turns!NothingLeftBehind); when it waits for a   *)
(* descriptor it has its entries, under the number its socket has now       *)
(* (Poller!WaitersAreRegistered).                                           *)
NobodyLeftBehind == NothingLeftBehind /\ P!WaitersAreRegistered

(* A ready socket is read or written by the task that waits for it, whatever*)
(* earlier sockets left behind: Poller!ReadyIsServed.                       *)
ReadyIsServed == P!ReadyIsServed

(* Entries of closed sockets go away: Poller!StaleEntriesGoAway.            *)
StaleEntriesGoAway == P!StaleEntriesGoAway
=============================================================================
