------------------------------- MODULE Poller -------------------------------
(***************************************************************************)
(* How the tasks of the Rust node wait for their sockets (ArcFd, read_fd,   *)
(* write_fd, fd_wait_readable, fd_wait_writable, connect and fd_poller of   *)
(* leo_async.rs).                                                           *)
(*                                                                          *)
(* A wait is an entry of a descriptor's number, a direction and a task.     *)
(* Nothing takes the entry back when the task no longer waits, when its     *)
(* socket is closed, or when the number is given to another socket: an      *)
(* entry goes away when poll() reports its number.  A task may wait in both *)
(* directions at a time, as the two halves of a link do (select2_noresult). *)
(***************************************************************************)
EXTENDS Naturals

CONSTANTS
  Tasks,
  Numbers,   \* descriptor numbers: naturals, one or more for each task
  NoFd

Types == {"Read", "Write"}
Entries == Numbers \X Types \X Tasks

VARIABLES
  pc,        \* "run": the tasks of this iteration; "poll": in poll()
  batch,     \* tasks of this iteration still to run
  file,      \* file[t]: number of the socket of t, or NoFd
  want,      \* want[t]: directions in which t waits
  io,        \* io[n]: directions in which the socket with number n is ready
  register,  \* POLL_REGISTER
  cache      \* PollCache: the entries poll() was called for

vars == <<pc, batch, file, want, io, register, cache>>

Init ==
  /\ pc = "run" /\ batch = Tasks
  /\ file = [t \in Tasks |-> NoFd] /\ want = [t \in Tasks |-> {}]
  /\ io = [n \in Numbers |-> {}]
  /\ register = {} /\ cache = {}

IsOpen(n) == \E t \in Tasks : file[t] = n
Free == {n \in Numbers : ~ IsOpen(n)}

-----------------------------------------------------------------------------
(* A turn of a task.                                                        *)

(* socket and connect, or accept: the number is the lowest there is.  A     *)
(* socket that is connecting is not writable yet; the task waits for that.  *)
Open(t) ==
  /\ pc = "run" /\ t \in batch /\ file[t] = NoFd
  /\ \E n \in Free, ready \in {{}, {"Write"}} :
       /\ \A m \in Free : n <= m
       /\ file' = [file EXCEPT ![t] = n]
       /\ io' = [io EXCEPT ![n] = ready]
  /\ want' = [want EXCEPT ![t] = {"Write"}]
  /\ UNCHANGED <<pc, batch, register, cache>>

(* The task has no socket and opens none.                                   *)
Idle(t) ==
  /\ pc = "run" /\ t \in batch /\ file[t] = NoFd
  /\ batch' = batch \ {t}
  /\ UNCHANGED <<pc, file, want, io, register, cache>>

(* The task reads and writes as long as it can, and ends its turn waiting   *)
(* in the directions w, each found not ready; a wait that was not ready     *)
(* goes on.  Every wait registers, also one that did so in an earlier turn. *)
PollTask(t) ==
  /\ pc = "run" /\ t \in batch /\ file[t] # NoFd
  /\ LET n == file[t] IN
     \E w \in SUBSET Types \ {{}} :
       /\ want[t] \ io[n] \subseteq w
       /\ want' = [want EXCEPT ![t] = w]
       /\ io' = [io EXCEPT ![n] = @ \ w]
       /\ register' = register \cup ({n} \X w \X {t})
  /\ batch' = batch \ {t}
  /\ UNCHANGED <<pc, file, cache>>

(* The task's session ends; the last ArcFd is dropped and the socket closed.*)
Close(t) ==
  /\ pc = "run" /\ t \in batch /\ file[t] # NoFd
  /\ file' = [file EXCEPT ![t] = NoFd]
  /\ want' = [want EXCEPT ![t] = {}]
  /\ io' = [io EXCEPT ![file[t]] = {}]
  /\ batch' = batch \ {t}
  /\ UNCHANGED <<pc, register, cache>>

-----------------------------------------------------------------------------
(* poll_and_wake                                                            *)

(* The entries are grouped by number.  (Mutation: a number has one waker.)  *)
OneWakerEach(entries) ==
  {e \in entries : e = CHOOSE f \in entries : f[1] = e[1]}

Grouped(entries) == entries

EnterPoll ==
  /\ pc = "run" /\ batch = {}
  /\ cache' = Grouped(register)
  /\ register' = {}
  /\ pc' = "poll"
  /\ UNCHANGED <<batch, file, want, io>>

(* The directions poll() is asked for.  (Mutation: only one is asked for.)  *)
RequestedOne(n) ==
  IF \E e \in cache : e[1] = n /\ e[2] = "Read" THEN {"Read"}
  ELSE {k \in Types : \E e \in cache : e[1] = n /\ e[2] = k}

Requested(n) == {k \in Types : \E e \in cache : e[1] = n /\ e[2] = k}

(* A number that is not open is reported too (POLLNVAL).                    *)
Reported ==
  {n \in Numbers : Requested(n) # {} /\ (~ IsOpen(n) \/ Requested(n) \cap io[n] # {})}

(* All tasks with an entry for a reported number are woken; the entries of  *)
(* the others are registered again.  Other tasks run in the next iteration  *)
(* too: their timer is due, or a message has come for them.  (Mutation: the *)
(* entries of a number that is not open are kept.)                          *)
RegisteredIfClosed == {e \in cache : e[1] \notin Reported \/ ~ IsOpen(e[1])}

RegisteredAgain == {e \in cache : e[1] \notin Reported}

LeavePoll ==
  /\ pc = "poll"
  /\ \E others \in SUBSET Tasks :
       batch' = others \cup {e[3] : e \in {f \in cache : f[1] \in Reported}}
  /\ register' = register \cup RegisteredAgain
  /\ cache' = {}
  /\ pc' = "run"
  /\ UNCHANGED <<file, want, io>>

-----------------------------------------------------------------------------
(* Data arrives, or the socket's buffer drains, or the peer is gone, which  *)
(* reads and writes report.                                                 *)
BecomesReady(n) ==
  /\ IsOpen(n)
  /\ \E k \in Types \ io[n] : io' = [io EXCEPT ![n] = @ \cup {k}]
  /\ UNCHANGED <<pc, batch, file, want, register, cache>>

Next ==
  \/ \E t \in Tasks : Open(t) \/ Idle(t) \/ PollTask(t) \/ Close(t)
  \/ EnterPoll \/ LeavePoll
  \/ \E n \in Numbers : BecomesReady(n)

Spec == Init /\ [][Next]_vars

(* The executor thread runs.  poll() returns within a second.               *)
FairSpec ==
  /\ Spec
  /\ \A t \in Tasks : WF_vars(Idle(t) \/ PollTask(t) \/ Close(t))
  /\ WF_vars(EnterPoll) /\ WF_vars(LeavePoll)
-----------------------------------------------------------------------------
TypeOK ==
  /\ pc \in {"run", "poll"} /\ batch \subseteq Tasks
  /\ file \in [Tasks -> Numbers \cup {NoFd}]
  /\ want \in [Tasks -> SUBSET Types] /\ io \in [Numbers -> SUBSET Types]
  /\ register \subseteq Entries /\ cache \subseteq Entries

(* A task that waits and is not about to run has its entries, under the     *)
(* number its socket has now: whatever sockets had that number before, and  *)
(* whatever entries they left behind.                                       *)
WaitersAreRegistered ==
  \A t \in Tasks \ batch, k \in Types :
    k \in want[t] => <<file[t], k, t>> \in register \cup cache

(* An entry of a task under a number that its socket does not have.         *)
Stale(n, t) == file[t] # n /\ \E e \in register \cup cache : e[1] = n /\ e[3] = t

(* A socket that is ready in a direction its task waits for is read or      *)
(* written, whatever is left of earlier sockets.                            *)
ReadyIsServed ==
  \A t \in Tasks, k \in Types :
    (k \in want[t] /\ k \in io[file[t]]) ~> ~ (k \in want[t] /\ k \in io[file[t]])

(* What a closed socket left behind goes away, unless its number is in use  *)
(* again: entries do not pile up for numbers nobody uses.                   *)
StaleEntriesGoAway ==
  \A n \in Numbers, t \in Tasks : Stale(n, t) ~> (~ Stale(n, t) \/ IsOpen(n))
=============================================================================
