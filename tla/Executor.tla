------------------------------ MODULE Executor ------------------------------
(***************************************************************************)
(* The Rust node's own async runtime (leo_async.rs): one thread that polls  *)
(* tasks, a queue of woken tasks, a pipe that interrupts poll(), timers,    *)
(* file descriptors, and helper threads that finish blocking calls and wake *)
(* the task that waits for them.                                            *)
(*                                                                          *)
(* Four kinds of task stand for the tasks of the node.  Main is the main    *)
(* loop: it spawns the others and then takes packets from a channel, with a *)
(* yield_now after each.  A reader receives from a socket under a timeout   *)
(* and sends what it reads to Main.  A sleeper does something from time to  *)
(* time, like the announcements.  A resolver makes blocking calls through   *)
(* fn_thread_future.                                                        *)
(*                                                                          *)
(* The executor thread and the helper threads interleave wherever they      *)
(* share state: the flag and the queue of a task, the pipe, and the result  *)
(* and waker of a call.                                                     *)
(***************************************************************************)
EXTENDS Integers, Sequences, FiniteSets

CONSTANTS
  Main,
  Readers,
  Sleepers,
  Resolvers,
  NoTask,
  MaxCalls,     \* blocking calls each resolver makes
  MaxData,      \* bound on the messages that arrive on each socket
  ReadTimeout,  \* 30 s, the timeout of a read
  SleepTime,    \* how long a sleeper sleeps
  MaxSleep,     \* 1 s, the longest poll() when no timer is known
  PerMs,        \* ticks of the clock per millisecond
  Slack,        \* bound on the ticks that pass outside poll()
  PipeCap,      \* capacity of the wake pipe
  MaxNow        \* bound on the clock

Tasks == {Main} \cup Readers \cup Sleepers \cup Resolvers
Timed == Readers \cup Sleepers
Calls == 1..MaxCalls

ASSUME TaskAssumption ==
  /\ Main \notin Readers \cup Sleepers \cup Resolvers
  /\ Readers \cap Resolvers = {} /\ Sleepers \cap (Readers \cup Resolvers) = {}
  /\ NoTask \notin Tasks
ASSUME TimeAssumption ==
  /\ ReadTimeout \in Nat \ {0} /\ SleepTime \in Nat \ {0}
  /\ MaxSleep \in Nat \ {0} /\ PerMs \in Nat \ {0}
  /\ Slack \in Nat /\ MaxNow \in Nat
ASSUME SizeAssumption ==
  MaxCalls \in Nat \ {0} /\ MaxData \in Nat /\ PipeCap \in Nat \ {0}

VARIABLES
  pc,            \* where run_forever is: "top", "timers", "run", "poll", "sweep"
  running,       \* the task whose future is being polled, or NoTask
  batch,         \* task_vec: the tasks of this iteration still to run
  life,          \* life[t]: "unborn", "live", or "finished" (no future left)
  queue,         \* TASK_SENDER: woken tasks
  scheduled,     \* Task.scheduled
  pipe,          \* bytes in the wake pipe
  now,           \* the clock
  spent,         \* ticks that have passed outside poll()
  deadline,      \* when poll() returns at the latest
  sleepRegister, \* SLEEP_REGISTER: <<instant, task>>
  sleepStore,    \* SleepStore
  pollRegister,  \* POLL_REGISTER: readers waiting for their socket
  watched,       \* PollCache: readers whose socket this poll() watches
  ready,         \* those whose socket poll() reported and that are to be woken
  data,          \* data[t]: messages that have arrived on t's socket
  taken,         \* taken[t]: how many of them t has read
  timeoutAt,     \* TimeoutFuture.timeout_at of t's current read, SleepFuture.target
  timerSet,      \* t's current read or sleep has registered its waker
  mail,          \* messages in the channel to Main
  mainWaits,     \* Main's waker is registered with the channel
  call,          \* call[t]: the blocking call t is in, 0 before the first
  storedWaker,   \* t has stored its waker in this poll and looks for a result
  waker,         \* waker[t][r]: the waker slot of call r is filled
  result,        \* result[t][r]: the result slot of call r is filled
  thread         \* thread[t][r]: where the helper thread of call r is

runVars == <<pc, running, batch, life>>
wakeVars == <<queue, scheduled, pipe>>
timeVars == <<now, spent, deadline>>
sleepVars == <<sleepRegister, sleepStore>>
fdVars == <<pollRegister, watched, ready, data>>
readVars == <<taken, timeoutAt, timerSet>>
mailVars == <<mail, mainWaits>>
callVars == <<call, storedWaker>>
threadVars == <<waker, result, thread>>
vars == <<runVars, wakeVars, timeVars, sleepVars, fdVars, readVars, mailVars,
          callVars, threadVars>>

Init ==
  /\ pc = "top" /\ running = NoTask /\ batch = <<>>
  /\ life = [t \in Tasks |-> IF t = Main THEN "live" ELSE "unborn"]
  /\ queue = <<Main>>
  /\ scheduled = [t \in Tasks |-> t = Main]
  /\ pipe = 0
  /\ now = 0 /\ spent = 0 /\ deadline = 0
  /\ sleepRegister = {} /\ sleepStore = {}
  /\ pollRegister = {} /\ watched = {} /\ ready = {}
  /\ data = [t \in Readers |-> 0] /\ taken = [t \in Readers |-> 0]
  /\ timeoutAt = [t \in Timed |-> 0] /\ timerSet = [t \in Timed |-> FALSE]
  /\ mail = 0 /\ mainWaits = FALSE
  /\ call = [t \in Resolvers |-> 0]
  /\ storedWaker = [t \in Resolvers |-> FALSE]
  /\ waker = [t \in Resolvers |-> [r \in Calls |-> FALSE]]
  /\ result = [t \in Resolvers |-> [r \in Calls |-> FALSE]]
  /\ thread = [t \in Resolvers |-> [r \in Calls |-> "none"]]

-----------------------------------------------------------------------------
(* Waking a task.  A mutation comes before the definition it mutates.       *)

PokeNothing(p) == p

(* poke_wake_pipe: one byte, unless the pipe is full.                       *)
Poke(p) == IF p < PipeCap THEN p + 1 ELSE p

(* Wake by the executor thread itself.                                      *)
Wake(t) ==
  /\ scheduled' = [scheduled EXCEPT ![t] = TRUE]
  /\ queue' = IF scheduled[t] THEN queue ELSE Append(queue, t)
  /\ pipe' = IF scheduled[t] THEN pipe ELSE Poke(pipe)

-----------------------------------------------------------------------------
(* run_forever, up to the tasks                                             *)

TakeTimers ==
  /\ pc = "top"
  /\ sleepStore' = sleepStore \cup sleepRegister
  /\ sleepRegister' = {}
  /\ pc' = "timers"
  /\ UNCHANGED <<running, batch, life, timeVars, wakeVars, fdVars, readVars,
                 mailVars, callVars, threadVars>>

Due == {e \in sleepStore : e[1] <= now}

(* wake_all_ready, one timer at a time, the earliest first.                 *)
WakeTimer ==
  /\ pc = "timers"
  /\ \E e \in Due :
       /\ \A f \in Due : e[1] <= f[1]
       /\ Wake(e[2])
       /\ sleepStore' = sleepStore \ {e}
  /\ UNCHANGED <<runVars, timeVars, sleepRegister, fdVars, readVars, mailVars,
                 callVars, threadVars>>

TakeQueue ==
  /\ pc = "timers"
  /\ Due = {}
  /\ batch' = queue
  /\ queue' = <<>>
  /\ pc' = "run"
  /\ UNCHANGED <<running, life, scheduled, pipe, timeVars, sleepVars, fdVars,
                 readVars, mailVars, callVars, threadVars>>

(* "Allow the task to be scheduled again", before its future is polled.     *)
LeftScheduled(t) == scheduled

Unscheduled(t) == [scheduled EXCEPT ![t] = FALSE]

BeginTask ==
  /\ pc = "run" /\ running = NoTask /\ batch # <<>>
  /\ running' = Head(batch)
  /\ batch' = Tail(batch)
  /\ scheduled' = Unscheduled(Head(batch))
  /\ UNCHANGED <<pc, life, queue, pipe, timeVars, sleepVars, fdVars, readVars,
                 mailVars, callVars, threadVars>>

(* A task that was woken after its future finished.                         *)
NoFuture ==
  /\ running # NoTask /\ life[running] = "finished"
  /\ running' = NoTask
  /\ UNCHANGED <<pc, batch, life, wakeVars, timeVars, sleepVars, fdVars,
                 readVars, mailVars, callVars, threadVars>>

-----------------------------------------------------------------------------
(* Polling Main                                                             *)

(* spawn: the new task is scheduled from the start and pushed to the queue; *)
(* the pipe is not poked.                                                   *)
Spawn ==
  /\ running = Main
  /\ \E t \in Tasks :
       /\ life[t] = "unborn"
       /\ life' = [life EXCEPT ![t] = "live"]
       /\ scheduled' = [scheduled EXCEPT ![t] = TRUE]
       /\ queue' = Append(queue, t)
       /\ timeoutAt' = [u \in Timed |->
            IF u # t THEN timeoutAt[u]
            ELSE now + IF t \in Readers THEN ReadTimeout ELSE SleepTime]
  /\ UNCHANGED <<pc, running, batch, pipe, timeVars, sleepVars, fdVars, taken,
                 timerSet, mailVars, callVars, threadVars>>

AllSpawned == \A t \in Tasks : life[t] # "unborn"

(* Take one message, and yield: Main wakes itself and gives up.             *)
YieldNow == running' = NoTask /\ Wake(running)

TakeMail ==
  /\ running = Main /\ AllSpawned
  /\ mail > 0
  /\ mail' = mail - 1
  /\ YieldNow
  /\ UNCHANGED <<pc, batch, life, timeVars, sleepVars, fdVars, readVars,
                 mainWaits, callVars, threadVars>>

AwaitMail ==
  /\ running = Main /\ AllSpawned
  /\ mail = 0
  /\ mainWaits' = TRUE
  /\ running' = NoTask
  /\ UNCHANGED <<pc, batch, life, wakeVars, timeVars, sleepVars, fdVars,
                 readVars, mail, callVars, threadVars>>

-----------------------------------------------------------------------------
(* Polling a reader: TimeoutFuture around read_fd.  The timeout is looked   *)
(* at first, even when there is data.                                       *)

Polling(t) == running = t /\ life[t] = "live"

TimesOut(t) ==
  /\ Polling(t)
  /\ now >= timeoutAt[t]
  /\ life' = [life EXCEPT ![t] = "finished"]
  /\ running' = NoTask
  /\ UNCHANGED <<pc, batch, wakeVars, timeVars, sleepVars, fdVars, readVars,
                 mailVars, callVars, threadVars>>

(* There is data: read it, send it to Main, and start the next read.        *)
Reads(t) ==
  /\ Polling(t)
  /\ now < timeoutAt[t]
  /\ taken[t] < data[t]
  /\ taken' = [taken EXCEPT ![t] = @ + 1]
  /\ timeoutAt' = [timeoutAt EXCEPT ![t] = now + ReadTimeout]
  /\ timerSet' = [timerSet EXCEPT ![t] = FALSE]
  /\ mail' = mail + 1
  /\ mainWaits' = FALSE
  /\ IF mainWaits THEN Wake(Main) ELSE UNCHANGED wakeVars
  /\ UNCHANGED <<runVars, timeVars, sleepVars, fdVars, callVars, threadVars>>

SetTimer(t) ==
  /\ sleepRegister' = IF timerSet[t] THEN sleepRegister
                      ELSE sleepRegister \cup {<<timeoutAt[t], t>>}
  /\ timerSet' = [timerSet EXCEPT ![t] = TRUE]

(* EAGAIN: wait for the socket, and for the timeout unless that is set.     *)
Waits(t) ==
  /\ Polling(t)
  /\ now < timeoutAt[t]
  /\ taken[t] = data[t]
  /\ pollRegister' = pollRegister \cup {t}
  /\ SetTimer(t)
  /\ running' = NoTask
  /\ UNCHANGED <<pc, batch, life, wakeVars, timeVars, sleepStore, watched, ready,
                 data, taken, timeoutAt, mailVars, callVars, threadVars>>

-----------------------------------------------------------------------------
(* Polling a sleeper: sleep_seconds.  It does its work when the time has    *)
(* come, and sleeps again.                                                  *)

TimerUnset(t) == [timerSet EXCEPT ![t] = FALSE]

SleepEnds(t) ==
  /\ Polling(t)
  /\ now >= timeoutAt[t]
  /\ timeoutAt' = [timeoutAt EXCEPT ![t] = now + SleepTime]
  /\ timerSet' = TimerUnset(t)
  /\ UNCHANGED <<runVars, wakeVars, timeVars, sleepVars, fdVars, taken, mailVars,
                 callVars, threadVars>>

(* Registered once; a poll before the time registers nothing.               *)
Sleeps(t) ==
  /\ Polling(t)
  /\ now < timeoutAt[t]
  /\ SetTimer(t)
  /\ running' = NoTask
  /\ UNCHANGED <<pc, batch, life, wakeVars, timeVars, sleepStore, fdVars, taken,
                 timeoutAt, mailVars, callVars, threadVars>>

-----------------------------------------------------------------------------
(* Polling a resolver: fn_thread_future.  Each call has slots of its own.   *)

StartThread(t, r) ==
  /\ call' = [call EXCEPT ![t] = r]
  /\ thread' = [thread EXCEPT ![t][r] = "working"]

FirstCall(t) ==
  /\ Polling(t)
  /\ call[t] = 0
  /\ StartThread(t, 1)
  /\ UNCHANGED <<runVars, wakeVars, timeVars, sleepVars, fdVars, readVars,
                 mailVars, storedWaker, waker, result>>

StoreWaker(t) ==
  /\ Polling(t)
  /\ call[t] > 0
  /\ ~ storedWaker[t]
  /\ waker' = [waker EXCEPT ![t][call[t]] = TRUE]
  /\ storedWaker' = [storedWaker EXCEPT ![t] = TRUE]
  /\ UNCHANGED <<runVars, wakeVars, timeVars, sleepVars, fdVars, readVars,
                 mailVars, call, result, thread>>

(* The result is there: go on to the next call, or finish.                  *)
TakeResult(t) ==
  /\ Polling(t)
  /\ storedWaker[t]
  /\ result[t][call[t]]
  /\ result' = [result EXCEPT ![t][call[t]] = FALSE]
  /\ storedWaker' = [storedWaker EXCEPT ![t] = FALSE]
  /\ \/ /\ call[t] < MaxCalls
        /\ StartThread(t, call[t] + 1)
        /\ UNCHANGED <<running, life>>
     \/ /\ call[t] = MaxCalls
        /\ life' = [life EXCEPT ![t] = "finished"]
        /\ running' = NoTask
        /\ UNCHANGED <<call, thread>>
  /\ UNCHANGED <<pc, batch, wakeVars, timeVars, sleepVars, fdVars, readVars,
                 mailVars, waker>>

AwaitResult(t) ==
  /\ Polling(t)
  /\ storedWaker[t]
  /\ ~ result[t][call[t]]
  /\ storedWaker' = [storedWaker EXCEPT ![t] = FALSE]
  /\ running' = NoTask
  /\ UNCHANGED <<pc, batch, life, wakeVars, timeVars, sleepVars, fdVars,
                 readVars, mailVars, call, threadVars>>

-----------------------------------------------------------------------------
(* run_forever, after the tasks: poll() and what it reports                 *)

(* The time to the next timer of the store in whole milliseconds, or one    *)
(* second: when there is none, and also when it has become due meanwhile.   *)
(* Timers registered in this iteration are not in the store yet.            *)
SleepWithoutLimit ==
  IF \E e \in sleepStore : \A f \in sleepStore : now < e[1] /\ e[1] <= f[1]
  THEN LET e == CHOOSE e \in sleepStore : \A f \in sleepStore : e[1] <= f[1]
       IN  ((e[1] - now) \div PerMs) * PerMs
  ELSE MaxNow

SleepFor ==
  IF \E e \in sleepStore : \A f \in sleepStore : now < e[1] /\ e[1] <= f[1]
  THEN LET e == CHOOSE e \in sleepStore : \A f \in sleepStore : e[1] <= f[1]
       IN  ((e[1] - now) \div PerMs) * PerMs
  ELSE MaxSleep

(* The queue is looked at after the last task ran: spawned tasks and wakes  *)
(* that came during the run make poll() return at once.                     *)
EnterPoll ==
  /\ pc = "run" /\ running = NoTask /\ batch = <<>>
  /\ deadline' = IF queue = <<>> THEN now + SleepFor ELSE now
  /\ watched' = pollRegister
  /\ pollRegister' = {}
  /\ pc' = "poll"
  /\ UNCHANGED <<running, batch, life, wakeVars, now, spent, sleepVars, ready,
                 data, readVars, mailVars, callVars, threadVars>>

Readable(t) == taken[t] < data[t]

CanReturn == pipe > 0 \/ now >= deadline \/ \E t \in watched : Readable(t)

LeavePoll ==
  /\ pc = "poll"
  /\ CanReturn
  /\ ready' = {t \in watched : Readable(t)}
  /\ pc' = "sweep"
  /\ UNCHANGED <<running, batch, life, wakeVars, timeVars, sleepVars,
                 pollRegister, watched, data, readVars, mailVars, callVars,
                 threadVars>>

WakeReader ==
  /\ pc = "sweep"
  /\ \E t \in ready :
       /\ Wake(t)
       /\ ready' = ready \ {t}
       /\ watched' = watched \ {t}
  /\ UNCHANGED <<runVars, timeVars, sleepVars, pollRegister, data, readVars,
                 mailVars, callVars, threadVars>>

(* Readers that were not ready are registered again.                        *)
NotRegisteredAgain == pollRegister

RegisteredAgain == pollRegister \cup watched

(* Last in the list is the pipe: it is emptied, whatever is in it.          *)
EmptyPipe ==
  /\ pc = "sweep"
  /\ ready = {}
  /\ pipe' = 0
  /\ pollRegister' = RegisteredAgain
  /\ watched' = {}
  /\ pc' = "top"
  /\ UNCHANGED <<running, batch, life, queue, scheduled, timeVars, sleepVars,
                 ready, data, readVars, mailVars, callVars, threadVars>>

-----------------------------------------------------------------------------
(* A helper thread: it stores the result, takes the waker as soon as there  *)
(* is one, and wakes the task in three steps.                               *)

ThreadUnchanged == UNCHANGED <<runVars, timeVars, sleepVars, fdVars, readVars,
                               mailVars, callVars>>

ThreadFinishes(t, r) ==
  /\ thread[t][r] = "working"
  /\ result' = [result EXCEPT ![t][r] = TRUE]
  /\ thread' = [thread EXCEPT ![t][r] = "stored"]
  /\ UNCHANGED <<waker, wakeVars>> /\ ThreadUnchanged

(* f() panics: the thread is gone, nobody wakes the task.                   *)
ThreadPanics(t, r) ==
  /\ thread[t][r] = "working"
  /\ thread' = [thread EXCEPT ![t][r] = "dead"]
  /\ UNCHANGED <<waker, result, wakeVars>> /\ ThreadUnchanged

ThreadTakesWaker(t, r) ==
  /\ thread[t][r] = "stored"
  /\ waker[t][r]
  /\ waker' = [waker EXCEPT ![t][r] = FALSE]
  /\ thread' = [thread EXCEPT ![t][r] = "waking"]
  /\ UNCHANGED <<result, wakeVars>> /\ ThreadUnchanged

(* Task::wake: only the one who sets the flag pushes the task, and pokes    *)
(* after pushing.  (Mutation: the flag is not looked at.)                   *)
AlwaysPushes(t) == TRUE

MayPush(t) == ~ scheduled[t]

ThreadSetsFlag(t, r) ==
  /\ thread[t][r] = "waking"
  /\ scheduled' = [scheduled EXCEPT ![t] = TRUE]
  /\ thread' = [thread EXCEPT ![t][r] = IF MayPush(t) THEN "pushing" ELSE "done"]
  /\ UNCHANGED <<waker, result, queue, pipe>> /\ ThreadUnchanged

ThreadPushes(t, r) ==
  /\ thread[t][r] = "pushing"
  /\ queue' = Append(queue, t)
  /\ thread' = [thread EXCEPT ![t][r] = "poking"]
  /\ UNCHANGED <<waker, result, scheduled, pipe>> /\ ThreadUnchanged

ThreadPokes(t, r) ==
  /\ thread[t][r] = "poking"
  /\ pipe' = Poke(pipe)
  /\ thread' = [thread EXCEPT ![t][r] = "done"]
  /\ UNCHANGED <<waker, result, scheduled, queue>> /\ ThreadUnchanged

-----------------------------------------------------------------------------
(* The world                                                                *)

DataArrives(t) ==
  /\ data[t] < MaxData
  /\ data' = [data EXCEPT ![t] = @ + 1]
  /\ UNCHANGED <<runVars, wakeVars, timeVars, sleepVars, pollRegister, watched,
                 ready, readVars, mailVars, callVars, threadVars>>

(* poll() returns as soon as it can; the tasks take Slack ticks in all.     *)
Tick ==
  /\ now < MaxNow
  /\ now' = now + 1
  /\ \/ pc = "poll" /\ ~ CanReturn /\ UNCHANGED spent
     \/ pc = "run" /\ spent < Slack /\ spent' = spent + 1
  /\ UNCHANGED <<runVars, wakeVars, deadline, sleepVars, fdVars, readVars,
                 mailVars, callVars, threadVars>>

-----------------------------------------------------------------------------
ExecutorStep ==
  \/ TakeTimers \/ WakeTimer \/ TakeQueue \/ BeginTask \/ NoFuture
  \/ Spawn \/ TakeMail \/ AwaitMail
  \/ \E t \in Readers : TimesOut(t) \/ Reads(t) \/ Waits(t)
  \/ \E t \in Sleepers : SleepEnds(t) \/ Sleeps(t)
  \/ \E t \in Resolvers :
        FirstCall(t) \/ StoreWaker(t) \/ TakeResult(t) \/ AwaitResult(t)
  \/ EnterPoll \/ LeavePoll \/ WakeReader \/ EmptyPipe

ThreadStep(t, r) ==
  \/ ThreadTakesWaker(t, r) \/ ThreadSetsFlag(t, r)
  \/ ThreadPushes(t, r) \/ ThreadPokes(t, r)

Next ==
  \/ ExecutorStep
  \/ \E t \in Resolvers, r \in Calls :
        ThreadStep(t, r) \/ ThreadFinishes(t, r) \/ ThreadPanics(t, r)
  \/ \E t \in Readers : DataArrives(t)
  \/ Tick

Spec == Init /\ [][Next]_vars

(* The operating system runs the executor thread, and every helper thread   *)
(* that has finished its blocking call.                                     *)
Fairness ==
  /\ WF_vars(ExecutorStep)
  /\ \A t \in Resolvers, r \in Calls : WF_vars(ThreadStep(t, r))

FairSpec == Spec /\ Fairness
-----------------------------------------------------------------------------
TypeOK ==
  /\ pc \in {"top", "timers", "run", "poll", "sweep"}
  /\ running \in Tasks \cup {NoTask}
  /\ queue \in Seq(Tasks) /\ batch \in Seq(Tasks)
  /\ scheduled \in [Tasks -> BOOLEAN]
  /\ life \in [Tasks -> {"unborn", "live", "finished"}]
  /\ pipe \in 0..PipeCap
  /\ now \in Nat /\ spent \in 0..Slack /\ deadline \in Nat
  /\ sleepRegister \subseteq Nat \X Timed
  /\ sleepStore \subseteq Nat \X Timed
  /\ pollRegister \subseteq Readers /\ watched \subseteq Readers
  /\ ready \subseteq watched
  /\ data \in [Readers -> Nat] /\ taken \in [Readers -> Nat]
  /\ timeoutAt \in [Timed -> Nat] /\ timerSet \in [Timed -> BOOLEAN]
  /\ mail \in Nat /\ mainWaits \in BOOLEAN
  /\ call \in [Resolvers -> 0..MaxCalls]
  /\ storedWaker \in [Resolvers -> BOOLEAN]
  /\ waker \in [Resolvers -> [Calls -> BOOLEAN]]
  /\ result \in [Resolvers -> [Calls -> BOOLEAN]]
  /\ thread \in [Resolvers -> [Calls -> {"none", "working", "stored", "dead",
                    "waking", "pushing", "poking", "done"}]]

(* A task whose flag is set is in exactly one place, and no other task is   *)
(* in any: the queue, the batch, or the hands of a thread about to push it. *)
(* So no task is lost between flag and queue, and none runs twice for one   *)
(* wake (Task::wake, run_forever).                                          *)
Places(t) ==
  ({"queue"} \X {i \in 1..Len(queue) : queue[i] = t})
  \cup ({"batch"} \X {i \in 1..Len(batch) : batch[i] = t})
  \cup ({"thread"} \X {r \in Calls : t \in Resolvers /\ thread[t][r] = "pushing"})

QueuedOnce ==
  \A t \in Tasks : Cardinality(Places(t)) = IF scheduled[t] THEN 1 ELSE 0

(* The executor never blocks in poll() over a queue with a task in it: a    *)
(* byte is in the pipe, or the thread that pushed is about to write it, or  *)
(* poll() is not to wait at all.                                            *)
NoLostWakeup ==
  pc = "poll" /\ queue # <<>> =>
    \/ pipe > 0
    \/ deadline <= now
    \/ \E t \in Resolvers, r \in Calls : thread[t][r] = "poking"

(* A live task that is neither scheduled nor running waits for something    *)
(* that has not happened yet, and will be woken when it does: a reader is   *)
(* registered with poll(); a reader and a sleeper have a timer for their    *)
(* current timeout or sleep; the result of a resolver's call is not there,  *)
(* or its thread still has a waker; Main's channel is empty and has its     *)
(* waker.                                                                   *)
Asleep(t) == life[t] = "live" /\ running # t /\ ~ scheduled[t]

NobodyForgotten ==
  /\ \A t \in Timed : Asleep(t) =>
       /\ t \in Readers => t \in pollRegister \cup watched
       /\ \E e \in sleepRegister \cup sleepStore :
             e[2] = t /\ e[1] = timeoutAt[t]
  /\ \A t \in Resolvers : Asleep(t) =>
       LET r == call[t] IN
       /\ r > 0
       /\ result[t][r] => \/ thread[t][r] = "stored" /\ waker[t][r]
                          \/ thread[t][r] = "waking"
  /\ Asleep(Main) => mail = 0 /\ mainWaits

(* How late a timer is at most, apart from the time the tasks take: as long *)
(* as run_forever may sleep without having looked at it.  That is a second  *)
(* for a timer that became due while the tasks ran.  A timer registered in  *)
(* this iteration is not in the store yet, and poll() may wait for the next *)
(* one that is: a short sleep may last as long as the timeout of a read.    *)
Longer(a, b) == IF a > b THEN a ELSE b
Duration(t) == IF t \in Readers THEN ReadTimeout ELSE SleepTime
LongestPoll == Longer(MaxSleep, Longer(ReadTimeout, SleepTime))
Lateness(t) == Longer(MaxSleep, LongestPoll - Duration(t))

(* No timer is later than that (run_forever, SleepStore, SLEEP_REGISTER).   *)
TimersAreOnTime ==
  \A e \in sleepRegister \cup sleepStore : now <= e[1] + Lateness(e[2]) + Slack

-----------------------------------------------------------------------------
(* What has happened is handled, whatever else the threads and the executor *)
(* do in between (fn_thread_future, Task::wake, run_forever): the result of *)
(* a blocking call is taken by the task that waits for it, data on a socket *)
(* is read unless the read times out first, what is sent to Main is         *)
(* received.  TimeoutFuture::poll looks at the timeout before the data, so  *)
(* a read may time out over data that came in time, but only while the      *)
(* tasks keep the thread busy: once they take no more time, data that is    *)
(* there before the timeout is read.                                        *)
EventsAreHandled ==
  /\ \A t \in Resolvers, r \in Calls : result[t][r] ~> ~ result[t][r]
  /\ \A t \in Readers :
       (life[t] = "live" /\ Readable(t)) ~> (life[t] = "finished" \/ ~ Readable(t))
  /\ \A t \in Readers :
       (life[t] = "live" /\ Readable(t) /\ now < timeoutAt[t] /\ spent = Slack)
         ~> ~ Readable(t)
  /\ (mail > 0) ~> (mail = 0)
=============================================================================
