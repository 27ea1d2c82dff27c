--------------------------- MODULE ExecutorProofs ---------------------------
(***************************************************************************)
(* Proofs about the executor, for any sets of readers, sleepers and         *)
(* resolvers, any number of calls and any timeouts: a task whose flag is    *)
(* set is in one place, the executor does not block over a task, a task     *)
(* that waits will be woken, and no timer is later than its Lateness.       *)
(***************************************************************************)
EXTENDS Executor, FiniteSetTheorems, TLAPS

-----------------------------------------------------------------------------
(* The inductive invariant                                                  *)

(* What run_forever keeps in its local variables: a task runs, or is still  *)
(* to run, only in the phase that runs tasks; descriptors are watched and   *)
(* reported only around poll(); the registered timers are in the store when *)
(* the timers are looked at.                                                *)
Phase ==
  /\ running # NoTask \/ batch # <<>> => pc = "run"
  /\ watched # {} => pc \in {"poll", "sweep"}
  /\ ready # {} => pc = "sweep"
  /\ pc = "timers" => sleepRegister = {}

Distinct(q) == \A i, j \in 1..Len(q) : q[i] = q[j] => i = j
In(q, t) == \E i \in 1..Len(q) : q[i] = t
Pushing(t) == t \in Resolvers /\ \E r \in Calls : thread[t][r] = "pushing"

(* The flag of a task is set exactly as long as the task is in the queue,   *)
(* in the batch or with a thread that pushes it, and it is in one of these. *)
Scheduling ==
  /\ Distinct(queue) /\ Distinct(batch)
  /\ \A t \in Tasks : ~ (In(queue, t) /\ In(batch, t))
  /\ \A t \in Tasks : Pushing(t) => ~ In(queue, t) /\ ~ In(batch, t)
  /\ \A t \in Resolvers : \A r, s \in Calls :
        thread[t][r] = "pushing" /\ thread[t][s] = "pushing" => r = s
  /\ \A t \in Tasks : scheduled[t] <=> In(queue, t) \/ In(batch, t) \/ Pushing(t)

(* Nobody knows a task before it is spawned.                                *)
Unborn ==
  /\ life[Main] = "live"
  /\ \A t \in Tasks : life[t] = "unborn" =>
       /\ ~ scheduled[t]
       /\ t \notin pollRegister \cup watched
       /\ t \in Timed => ~ timerSet[t]
       /\ \A e \in sleepRegister \cup sleepStore : e[2] # t
       /\ t \in Resolvers => call[t] = 0

(* poll() does not wait while a task other than a resolver is queued: only  *)
(* helper threads push during poll().                                       *)
PollInv ==
  /\ NoLostWakeup
  /\ pc = "poll" => \A i \in 1..Len(queue) : queue[i] \in Resolvers \/ deadline <= now

(* A timer that is set is there until it is due.                            *)
TimerInv ==
  /\ \A t \in Timed : timerSet[t] =>
        <<timeoutAt[t], t>> \in sleepRegister \cup sleepStore \/ now >= timeoutAt[t]
  /\ \A t \in Timed : Asleep(t) =>
        /\ timerSet[t] /\ <<timeoutAt[t], t>> \in sleepRegister \cup sleepStore
        /\ t \in Readers => t \in pollRegister \cup watched

(* What the slots of a resolver's calls hold in each phase of the current   *)
(* call's thread: nothing yet for later calls; the result from when the     *)
(* thread stores it until the task takes it; a waker from when the task     *)
(* stores it until the thread, having stored a result, takes it.            *)
CallOf(t) ==
  /\ \A r \in Calls : r > call[t] => thread[t][r] = "none" /\ ~ result[t][r]
  /\ call[t] > 0 /\ life[t] = "live" =>
        /\ thread[t][call[t]] # "none"
        /\ result[t][call[t]] <=> thread[t][call[t]] \notin {"working", "dead"}
  /\ storedWaker[t] =>
        /\ running = t /\ life[t] = "live" /\ call[t] > 0
        /\ thread[t][call[t]] = "working" => waker[t][call[t]]
  /\ Asleep(t) =>
        /\ call[t] > 0
        /\ thread[t][call[t]] \in {"working", "stored"} => waker[t][call[t]]
        /\ thread[t][call[t]] \notin {"pushing", "poking", "done"}

CallInv == \A t \in Resolvers : CallOf(t)

(* The main task sleeps only with an empty channel, as its waiter. *)
MainInv == Asleep(Main) => mail = 0 /\ mainWaits

(* How far behind a timer can be in each phase, apart from the time that    *)
(* the tasks have taken.                                                    *)
TimeInv ==
  /\ \A e \in sleepRegister \cup sleepStore : e[1] <= now + Duration(e[2])
  /\ \A t \in Timed : timeoutAt[t] <= now + Duration(t)
  /\ \A t \in Timed : life[t] = "live" /\ ~ timerSet[t] =>
        now + Duration(t) <= timeoutAt[t] + spent
  /\ pc = "run" =>
       /\ \A e \in sleepStore : now <= e[1] + spent
       /\ \A e \in sleepRegister : now + Duration(e[2]) <= e[1] + spent
  /\ pc = "poll" =>
       /\ \A e \in sleepStore : deadline <= e[1] + spent + MaxSleep
       /\ \A e \in sleepRegister :
             deadline + Duration(e[2]) <= e[1] + spent + LongestPoll
  /\ pc \in {"poll", "sweep", "top"} =>
       /\ \A e \in sleepStore : now <= e[1] + spent + MaxSleep
       /\ \A e \in sleepRegister :
             now + Duration(e[2]) <= e[1] + spent + LongestPoll
  /\ pc = "timers" => \A e \in sleepStore : now <= e[1] + spent + Lateness(e[2])

IInv ==
  /\ TypeOK /\ Phase /\ Scheduling /\ Unborn
  /\ PollInv /\ TimerInv /\ CallInv /\ MainInv /\ TimeInv

-----------------------------------------------------------------------------
(* Durations, sleeps and wakes                                              *)

USE DEF runVars, wakeVars, timeVars, sleepVars, fdVars, readVars, mailVars,
        callVars, threadVars

(* Durations and lengths of sleeps.                                         *)
LEMMA DurationFacts ==
  /\ LongestPoll \in Nat /\ MaxSleep \in Nat /\ MaxSleep <= LongestPoll
  /\ \A t : /\ Duration(t) \in Nat \ {0} /\ Duration(t) <= LongestPoll
            /\ Lateness(t) \in Nat /\ MaxSleep <= Lateness(t)
            /\ LongestPoll <= Lateness(t) + Duration(t)
  BY TimeAssumption DEF LongestPoll, Longer, Duration, Lateness

(* Rounding a wait to whole milliseconds adds less than one.                *)
LEMMA WholeMilliseconds ==
  ASSUME NEW x \in Nat PROVE (x \div PerMs) * PerMs \in Nat /\ (x \div PerMs) * PerMs <= x
<1>1. PerMs \in Nat \ {0}
  BY TimeAssumption
<1> QED BY <1>1

(* poll() sleeps until the earliest timer of the store, or MaxSleep; and    *)
(* never longer than the longest timer.                                     *)
LEMMA SleepFacts ==
  ASSUME TypeOK, TimeInv
  PROVE  /\ SleepFor \in Nat /\ SleepFor <= LongestPoll
         /\ SleepFor = MaxSleep \/ \A e \in sleepStore : now + SleepFor <= e[1]
<1> DEFINE Earliest(e) == \A f \in sleepStore : e[1] <= f[1]
           c == CHOOSE e \in sleepStore : Earliest(e)
<1>1. CASE \E e \in sleepStore : \A f \in sleepStore : now < e[1] /\ e[1] <= f[1]
  <2>1. PICK e \in sleepStore : \A f \in sleepStore : now < e[1] /\ e[1] <= f[1]
    BY <1>1
  <2>2. c \in sleepStore /\ Earliest(c)
    BY <2>1
  <2> HIDE DEF c
  <2>3. now < c[1] /\ c[1] \in Nat /\ now \in Nat
    BY <2>1, <2>2 DEF TypeOK
  <2>4. c[1] - now \in Nat
    BY <2>3
  <2>5. SleepFor = ((c[1] - now) \div PerMs) * PerMs
    BY <1>1 DEF SleepFor, c
  <2>6. SleepFor \in Nat /\ SleepFor <= c[1] - now
    BY <2>4, <2>5, WholeMilliseconds
  <2>7. c[1] <= now + Duration(c[2]) /\ Duration(c[2]) \in Nat
    BY <2>2, DurationFacts DEF TimeInv
  <2>8. SleepFor <= LongestPoll
    BY <2>3, <2>6, <2>7, DurationFacts
  <2>9. ASSUME NEW f \in sleepStore PROVE now + SleepFor <= f[1]
    BY <2>2, <2>3, <2>6 DEF TypeOK
  <2> QED BY <2>6, <2>8, <2>9
<1>2. CASE ~ \E e \in sleepStore : \A f \in sleepStore : now < e[1] /\ e[1] <= f[1]
  BY <1>2, DurationFacts DEF SleepFor
<1> QED BY <1>1, <1>2

(* Waking a task keeps the types of what it touches.                        *)
LEMMA WakeTypes ==
  ASSUME TypeOK, NEW t \in Tasks, Wake(t)
  PROVE  queue' \in Seq(Tasks) /\ scheduled' \in [Tasks -> BOOLEAN] /\ pipe' \in 0..PipeCap
<1>1. queue' \in Seq(Tasks)
  BY DEF TypeOK, Wake
<1>2. scheduled' \in [Tasks -> BOOLEAN]
  BY DEF TypeOK, Wake
<1>3. pipe' \in 0..PipeCap
  BY SizeAssumption DEF TypeOK, Wake, Poke
<1> QED BY <1>1, <1>2, <1>3

-----------------------------------------------------------------------------
(* Every step keeps the types and the phases                                *)

(* Every step keeps the type invariant.                                     *)
LEMMA NextTypeOK == IInv /\ [Next]_vars => TypeOK'
<1> SUFFICES ASSUME IInv, [Next]_vars PROVE TypeOK'
  OBVIOUS
<1>1. CASE TakeTimers
  BY <1>1 DEF TakeTimers, IInv, TypeOK
<1>2. CASE WakeTimer
  <2>1. PICK e \in sleepStore : Wake(e[2]) /\ sleepStore' = sleepStore \ {e}
    BY <1>2 DEF WakeTimer, Due
  <2>2. e[2] \in Tasks
    BY DEF IInv, TypeOK, Tasks, Timed
  <2>3. queue' \in Seq(Tasks) /\ scheduled' \in [Tasks -> BOOLEAN] /\ pipe' \in 0..PipeCap
    BY <2>1, <2>2, WakeTypes DEF IInv
  <2> QED BY <1>2, <2>1, <2>3 DEF WakeTimer, IInv, TypeOK
<1>3. CASE TakeQueue
  BY <1>3 DEF TakeQueue, IInv, TypeOK
<1>4. CASE BeginTask
  BY <1>4 DEF BeginTask, Unscheduled, IInv, TypeOK
<1>5. CASE NoFuture
  BY <1>5 DEF NoFuture, IInv, TypeOK
<1>6. CASE Spawn
  BY <1>6, TimeAssumption DEF Spawn, IInv, TypeOK
<1>7. CASE TakeMail
  <2>1. Main \in Tasks
    BY DEF Tasks
  <2>2. queue' \in Seq(Tasks) /\ scheduled' \in [Tasks -> BOOLEAN] /\ pipe' \in 0..PipeCap
    BY <1>7, <2>1, WakeTypes DEF IInv, TakeMail, YieldNow
  <2> QED BY <1>7, <2>2 DEF TakeMail, YieldNow, IInv, TypeOK
<1>8. CASE AwaitMail
  BY <1>8 DEF AwaitMail, IInv, TypeOK
<1>9. CASE EnterPoll
  <2>1. deadline' \in Nat
    BY <1>9, SleepFacts DEF EnterPoll, IInv, TypeOK
  <2>2. ready = {}
    BY <1>9 DEF EnterPoll, IInv, Phase
  <2> QED BY <1>9, <2>1, <2>2 DEF EnterPoll, IInv, TypeOK
<1>10. CASE LeavePoll
  BY <1>10 DEF LeavePoll, Readable, IInv, TypeOK
<1>11. CASE WakeReader
  <2>1. PICK t \in ready : Wake(t) /\ ready' = ready \ {t} /\ watched' = watched \ {t}
    BY <1>11 DEF WakeReader
  <2>2. t \in Tasks
    BY DEF IInv, TypeOK, Tasks
  <2>3. queue' \in Seq(Tasks) /\ scheduled' \in [Tasks -> BOOLEAN] /\ pipe' \in 0..PipeCap
    BY <2>1, <2>2, WakeTypes DEF IInv
  <2> QED BY <1>11, <2>1, <2>3 DEF WakeReader, IInv, TypeOK
<1>12. CASE EmptyPipe
  BY <1>12, SizeAssumption DEF EmptyPipe, RegisteredAgain, IInv, TypeOK
<1>13. CASE Tick
  BY <1>13, TimeAssumption DEF Tick, IInv, TypeOK
<1>14. ASSUME NEW t \in Readers, TimesOut(t) PROVE TypeOK'
  BY <1>14 DEF TimesOut, IInv, TypeOK
<1>15. ASSUME NEW t \in Readers, Reads(t) PROVE TypeOK'
  <2>1. Main \in Tasks /\ t \in Timed
    BY DEF Tasks, Timed
  <2>2. queue' \in Seq(Tasks) /\ scheduled' \in [Tasks -> BOOLEAN] /\ pipe' \in 0..PipeCap
    BY <1>15, <2>1, WakeTypes DEF IInv, TypeOK, Reads
  <2>3. taken' \in [Readers -> Nat] /\ mail' \in Nat /\ now + ReadTimeout \in Nat
    BY <1>15, TimeAssumption DEF Reads, IInv, TypeOK
  <2>5. timeoutAt' \in [Timed -> Nat]
    BY <1>15, <2>3 DEF Reads, IInv, TypeOK
  <2>4. timerSet' \in [Timed -> BOOLEAN]
    BY <1>15 DEF Reads, IInv, TypeOK
  <2> QED BY <1>15, <2>2, <2>3, <2>4, <2>5 DEF Reads, IInv, TypeOK
<1>16. ASSUME NEW t \in Readers, Waits(t) PROVE TypeOK'
  <2>1. t \in Timed /\ timeoutAt[t] \in Nat
    BY DEF Timed, IInv, TypeOK
  <2>2. sleepRegister' \subseteq Nat \X Timed
    BY <1>16, <2>1 DEF Waits, SetTimer, IInv, TypeOK
  <2>3. timerSet' \in [Timed -> BOOLEAN]
    BY <1>16 DEF Waits, SetTimer, IInv, TypeOK
  <2> QED BY <1>16, <2>2, <2>3 DEF Waits, IInv, TypeOK
<1>17. ASSUME NEW t \in Sleepers, SleepEnds(t) PROVE TypeOK'
  <2>0. now + SleepTime \in Nat
    BY TimeAssumption DEF IInv, TypeOK
  <2>1. timeoutAt' \in [Timed -> Nat]
    BY <1>17, <2>0 DEF SleepEnds, IInv, TypeOK
  <2>2. timerSet' \in [Timed -> BOOLEAN]
    BY <1>17 DEF SleepEnds, TimerUnset, IInv, TypeOK
  <2> QED BY <1>17, <2>1, <2>2 DEF SleepEnds, IInv, TypeOK
<1>18. ASSUME NEW t \in Sleepers, Sleeps(t) PROVE TypeOK'
  <2>1. t \in Timed /\ timeoutAt[t] \in Nat
    BY DEF Timed, IInv, TypeOK
  <2>2. sleepRegister' \subseteq Nat \X Timed
    BY <1>18, <2>1 DEF Sleeps, SetTimer, IInv, TypeOK
  <2>3. timerSet' \in [Timed -> BOOLEAN]
    BY <1>18 DEF Sleeps, SetTimer, IInv, TypeOK
  <2> QED BY <1>18, <2>2, <2>3 DEF Sleeps, IInv, TypeOK
<1>19. ASSUME NEW t \in Resolvers, FirstCall(t) PROVE TypeOK'
  <2>1. call' \in [Resolvers -> 0..MaxCalls] /\ 1 \in Calls
    BY <1>19, SizeAssumption DEF FirstCall, StartThread, IInv, TypeOK, Calls
  <2> QED BY <1>19, <2>1 DEF FirstCall, StartThread, IInv, TypeOK
<1>20. ASSUME NEW t \in Resolvers, StoreWaker(t) PROVE TypeOK'
  BY <1>20 DEF StoreWaker, IInv, TypeOK
<1>21. ASSUME NEW t \in Resolvers, TakeResult(t) PROVE TypeOK'
  <2>0. call[t] \in 0..MaxCalls /\ (call[t] < MaxCalls => call[t] + 1 \in 0..MaxCalls)
    BY SizeAssumption DEF IInv, TypeOK
  <2>1. call' \in [Resolvers -> 0..MaxCalls]
    BY <1>21, <2>0 DEF TakeResult, StartThread, IInv, TypeOK
  <2>2. result' \in [Resolvers -> [Calls -> BOOLEAN]] /\ storedWaker' \in [Resolvers -> BOOLEAN]
    BY <1>21 DEF TakeResult, IInv, TypeOK
  <2>3. thread' \in [Resolvers -> [Calls -> {"none", "working", "stored", "dead",
                    "waking", "pushing", "poking", "done"}]]
    <3>1. CASE thread' = thread
      BY <3>1 DEF IInv, TypeOK
    <3>2. CASE thread' = [thread EXCEPT ![t][call[t] + 1] = "working"]
      BY <3>2 DEF IInv, TypeOK
    <3> QED BY <1>21, <3>1, <3>2 DEF TakeResult, StartThread
  <2>4. life' \in [Tasks -> {"unborn", "live", "finished"}] /\ running' \in Tasks \cup {NoTask}
    BY <1>21 DEF TakeResult, IInv, TypeOK
  <2> QED BY <1>21, <2>1, <2>2, <2>3, <2>4 DEF TakeResult, IInv, TypeOK
<1>22. ASSUME NEW t \in Resolvers, AwaitResult(t) PROVE TypeOK'
  BY <1>22 DEF AwaitResult, IInv, TypeOK
<1>23. ASSUME NEW t \in Resolvers, NEW r \in Calls, ThreadFinishes(t, r) PROVE TypeOK'
  BY <1>23 DEF ThreadFinishes, ThreadUnchanged, IInv, TypeOK
<1>24. ASSUME NEW t \in Resolvers, NEW r \in Calls, ThreadPanics(t, r) PROVE TypeOK'
  BY <1>24 DEF ThreadPanics, ThreadUnchanged, IInv, TypeOK
<1>25. ASSUME NEW t \in Resolvers, NEW r \in Calls, ThreadTakesWaker(t, r) PROVE TypeOK'
  BY <1>25 DEF ThreadTakesWaker, ThreadUnchanged, IInv, TypeOK
<1>26. ASSUME NEW t \in Resolvers, NEW r \in Calls, ThreadSetsFlag(t, r) PROVE TypeOK'
  BY <1>26 DEF ThreadSetsFlag, ThreadUnchanged, MayPush, IInv, TypeOK
<1>27. ASSUME NEW t \in Resolvers, NEW r \in Calls, ThreadPushes(t, r) PROVE TypeOK'
  <2>1. t \in Tasks
    BY DEF Tasks
  <2>2. queue' \in Seq(Tasks)
    BY <1>27, <2>1 DEF ThreadPushes, IInv, TypeOK
  <2>3. thread' \in [Resolvers -> [Calls -> {"none", "working", "stored", "dead",
                    "waking", "pushing", "poking", "done"}]]
    BY <1>27 DEF ThreadPushes, IInv, TypeOK
  <2> QED BY <1>27, <2>2, <2>3 DEF ThreadPushes, ThreadUnchanged, IInv, TypeOK
<1>28. ASSUME NEW t \in Resolvers, NEW r \in Calls, ThreadPokes(t, r) PROVE TypeOK'
  BY <1>28, SizeAssumption DEF ThreadPokes, ThreadUnchanged, Poke, IInv, TypeOK
<1>29. ASSUME NEW t \in Readers, DataArrives(t) PROVE TypeOK'
  BY <1>29 DEF DataArrives, IInv, TypeOK
<1>30. CASE UNCHANGED vars
  BY <1>30 DEF vars, IInv, TypeOK
<1> QED
  BY <1>1, <1>2, <1>3, <1>4, <1>5, <1>6, <1>7, <1>8, <1>9, <1>10, <1>11, <1>12, <1>13,
     <1>14, <1>15, <1>16, <1>17, <1>18, <1>19, <1>20, <1>21, <1>22, <1>23, <1>24, <1>25,
     <1>26, <1>27, <1>28, <1>29, <1>30
  DEF Next, ExecutorStep, ThreadStep

(* A task is polled only in the run phase.                                  *)
LEMMA OnlyInRun ==
  ASSUME IInv, running \in Tasks PROVE pc = "run"
  BY TaskAssumption DEF IInv, Phase

(* Every step keeps the phases of the loop.                                 *)
LEMMA NextPhase == IInv /\ [Next]_vars => Phase'
<1> SUFFICES ASSUME IInv, [Next]_vars PROVE Phase'
  OBVIOUS
<1>1. CASE TakeTimers
  BY <1>1 DEF TakeTimers, IInv, Phase
<1>2. CASE WakeTimer
  BY <1>2 DEF WakeTimer, IInv, Phase
<1>3. CASE TakeQueue
  BY <1>3 DEF TakeQueue, IInv, Phase
<1>4. CASE BeginTask
  BY <1>4 DEF BeginTask, IInv, Phase
<1>5. CASE NoFuture
  BY <1>5 DEF NoFuture, IInv, Phase
<1>6. CASE Spawn
  BY <1>6 DEF Spawn, IInv, Phase
<1>7. CASE TakeMail
  BY <1>7 DEF TakeMail, YieldNow, IInv, Phase
<1>8. CASE AwaitMail
  BY <1>8 DEF AwaitMail, IInv, Phase
<1>9. CASE EnterPoll
  BY <1>9 DEF EnterPoll, IInv, Phase
<1>10. CASE LeavePoll
  BY <1>10 DEF LeavePoll, IInv, Phase
<1>11. CASE WakeReader
  BY <1>11 DEF WakeReader, IInv, Phase
<1>12. CASE EmptyPipe
  BY <1>12 DEF EmptyPipe, IInv, Phase
<1>13. CASE Tick
  BY <1>13 DEF Tick, IInv, Phase
<1>14. ASSUME NEW t \in Readers, TimesOut(t) PROVE Phase'
  BY <1>14 DEF TimesOut, IInv, Phase
<1>15. ASSUME NEW t \in Readers, Reads(t) PROVE Phase'
  BY <1>15 DEF Reads, IInv, Phase
<1>16. ASSUME NEW t \in Readers, Waits(t) PROVE Phase'
  <2>1. pc = "run"
    BY <1>16, OnlyInRun DEF Waits, Polling, Tasks
  <2> QED BY <1>16, <2>1 DEF Waits, IInv, Phase
<1>17. ASSUME NEW t \in Sleepers, SleepEnds(t) PROVE Phase'
  BY <1>17 DEF SleepEnds, IInv, Phase
<1>18. ASSUME NEW t \in Sleepers, Sleeps(t) PROVE Phase'
  <2>1. pc = "run"
    BY <1>18, OnlyInRun DEF Sleeps, Polling, Tasks
  <2> QED BY <1>18, <2>1 DEF Sleeps, IInv, Phase
<1>19. ASSUME NEW t \in Resolvers, FirstCall(t) PROVE Phase'
  BY <1>19 DEF FirstCall, IInv, Phase
<1>20. ASSUME NEW t \in Resolvers, StoreWaker(t) PROVE Phase'
  BY <1>20 DEF StoreWaker, IInv, Phase
<1>21. ASSUME NEW t \in Resolvers, TakeResult(t) PROVE Phase'
  BY <1>21 DEF TakeResult, IInv, Phase
<1>22. ASSUME NEW t \in Resolvers, AwaitResult(t) PROVE Phase'
  BY <1>22 DEF AwaitResult, IInv, Phase
<1>23. ASSUME NEW t \in Resolvers, NEW r \in Calls, ThreadFinishes(t, r) PROVE Phase'
  BY <1>23 DEF ThreadFinishes, ThreadUnchanged, IInv, Phase
<1>24. ASSUME NEW t \in Resolvers, NEW r \in Calls, ThreadPanics(t, r) PROVE Phase'
  BY <1>24 DEF ThreadPanics, ThreadUnchanged, IInv, Phase
<1>25. ASSUME NEW t \in Resolvers, NEW r \in Calls, ThreadTakesWaker(t, r) PROVE Phase'
  BY <1>25 DEF ThreadTakesWaker, ThreadUnchanged, IInv, Phase
<1>26. ASSUME NEW t \in Resolvers, NEW r \in Calls, ThreadSetsFlag(t, r) PROVE Phase'
  BY <1>26 DEF ThreadSetsFlag, ThreadUnchanged, IInv, Phase
<1>27. ASSUME NEW t \in Resolvers, NEW r \in Calls, ThreadPushes(t, r) PROVE Phase'
  BY <1>27 DEF ThreadPushes, ThreadUnchanged, IInv, Phase
<1>28. ASSUME NEW t \in Resolvers, NEW r \in Calls, ThreadPokes(t, r) PROVE Phase'
  BY <1>28 DEF ThreadPokes, ThreadUnchanged, IInv, Phase
<1>29. ASSUME NEW t \in Readers, DataArrives(t) PROVE Phase'
  BY <1>29 DEF DataArrives, IInv, Phase
<1>30. CASE UNCHANGED vars
  BY <1>30 DEF vars, IInv, Phase
<1> QED
  BY <1>1, <1>2, <1>3, <1>4, <1>5, <1>6, <1>7, <1>8, <1>9, <1>10, <1>11, <1>12, <1>13,
     <1>14, <1>15, <1>16, <1>17, <1>18, <1>19, <1>20, <1>21, <1>22, <1>23, <1>24, <1>25,
     <1>26, <1>27, <1>28, <1>29, <1>30
  DEF Next, ExecutorStep, ThreadStep

-----------------------------------------------------------------------------
(* Every step keeps each scheduled task in one place                        *)

(* What is in a queue after a task was added.                               *)
LEMMA AppendFacts ==
  ASSUME NEW q \in Seq(Tasks), NEW t \in Tasks, Distinct(q), ~ In(q, t)
  PROVE  Distinct(Append(q, t)) /\ \A u : In(Append(q, t), u) <=> In(q, u) \/ u = t
<1>1. /\ Append(q, t) \in Seq(Tasks) /\ Len(Append(q, t)) = Len(q) + 1
      /\ \A i \in 1..Len(q) : Append(q, t)[i] = q[i]
      /\ Append(q, t)[Len(q) + 1] = t
      /\ Len(q) \in Nat
  OBVIOUS
<1> QED BY <1>1 DEF Distinct, In

(* What is in a queue after its first task was taken.                       *)
LEMMA TailFacts ==
  ASSUME NEW q \in Seq(Tasks), q # <<>>, Distinct(q)
  PROVE  /\ Distinct(Tail(q)) /\ ~ In(Tail(q), Head(q)) /\ Head(q) \in Tasks
         /\ \A u : In(q, u) <=> In(Tail(q), u) \/ u = Head(q)
<1>1. /\ Tail(q) \in Seq(Tasks) /\ Len(Tail(q)) = Len(q) - 1 /\ Len(q) \in Nat \ {0}
      /\ \A i \in 1..(Len(q) - 1) : Tail(q)[i] = q[i + 1]
      /\ Head(q) = q[1] /\ Head(q) \in Tasks
  OBVIOUS
<1>2. \A i \in 1..(Len(q) - 1) : i + 1 \in 1..Len(q) /\ i + 1 # 1
  BY <1>1
<1>3. Distinct(Tail(q)) /\ ~ In(Tail(q), Head(q))
  BY <1>1, <1>2 DEF Distinct, In
<1>4. ASSUME NEW u, In(q, u) PROVE In(Tail(q), u) \/ u = Head(q)
  <2>1. PICK i \in 1..Len(q) : q[i] = u
    BY <1>4 DEF In
  <2>2. CASE i = 1
    BY <2>1, <2>2, <1>1
  <2>3. CASE i # 1
    <3>1. i - 1 \in 1..Len(Tail(q)) /\ Tail(q)[i - 1] = q[i]
      BY <1>1, <2>3
    <3> QED BY <3>1, <2>1 DEF In
  <2> QED BY <2>2, <2>3
<1>5. ASSUME NEW u, In(Tail(q), u) \/ u = Head(q) PROVE In(q, u)
  BY <1>1, <1>2, <1>5 DEF In
<1> QED BY <1>1, <1>3, <1>4, <1>5

(* Nothing is in the empty queue.                                           *)
LEMMA EmptyFacts == Distinct(<<>>) /\ \A u : ~ In(<<>>, u)
  BY DEF Distinct, In

(* The executor wakes a task: it is appended unless its flag is set.        *)
LEMMA WakeKeeps ==
  ASSUME TypeOK, Scheduling, NEW t \in Tasks, Wake(t), UNCHANGED <<batch, thread>>
  PROVE  Scheduling'
<1>0. UNCHANGED batch /\ \A u \in Tasks : Pushing(u)' <=> Pushing(u)
  BY DEF Pushing
<1>1. CASE scheduled[t]
  <2>1. queue' = queue /\ \A u \in Tasks : scheduled'[u] <=> scheduled[u]
    BY <1>1 DEF Wake, TypeOK
  <2> QED BY <1>0, <2>1 DEF Scheduling
<1>2. CASE ~ scheduled[t]
  <2>1. ~ In(queue, t) /\ ~ In(batch, t) /\ ~ Pushing(t)
    BY <1>2 DEF Scheduling
  <2>2. queue' = Append(queue, t)
    BY <1>2 DEF Wake
  <2>3. Distinct(queue') /\ \A u : In(queue', u) <=> In(queue, u) \/ u = t
    BY <2>1, <2>2, AppendFacts DEF TypeOK, Scheduling
  <2>4. \A u \in Tasks : scheduled'[u] <=> scheduled[u] \/ u = t
    BY DEF Wake, TypeOK
  <2> QED BY <1>0, <2>1, <2>3, <2>4 DEF Scheduling
<1> QED BY <1>1, <1>2

(* Nothing of it changes.                                                   *)
LEMMA SameScheduling ==
  ASSUME Scheduling, UNCHANGED <<queue, batch, scheduled>>,
         \A t \in Resolvers, r \in Calls : thread'[t][r] = "pushing" <=> thread[t][r] = "pushing"
  PROVE  Scheduling'
<1>1. \A u \in Tasks : Pushing(u)' <=> Pushing(u)
  BY DEF Pushing
<1> QED BY <1>1 DEF Scheduling

(* Every step keeps each woken task in one place.                           *)
LEMMA NextScheduling == IInv /\ [Next]_vars => Scheduling'
<1> SUFFICES ASSUME IInv, [Next]_vars PROVE Scheduling'
  OBVIOUS
<1>1. CASE TakeTimers
  BY <1>1, SameScheduling DEF TakeTimers, IInv
<1>2. CASE WakeTimer
  <2>1. PICK e \in sleepStore : Wake(e[2])
    BY <1>2 DEF WakeTimer, Due
  <2>2. e[2] \in Tasks
    BY DEF IInv, TypeOK, Tasks, Timed
  <2> QED BY <1>2, <2>1, <2>2, WakeKeeps DEF WakeTimer, IInv
<1>3. CASE TakeQueue
  <2>1. batch = <<>> /\ batch' = queue /\ queue' = <<>> /\ scheduled' = scheduled
    BY <1>3 DEF TakeQueue, IInv, Phase
  <2>2. \A u \in Tasks : Pushing(u)' <=> Pushing(u)
    BY <1>3 DEF TakeQueue, Pushing
  <2>3. UNCHANGED thread
    BY <1>3 DEF TakeQueue
  <2> QED BY <2>1, <2>2, <2>3, EmptyFacts DEF IInv, Scheduling
<1>4. CASE BeginTask
  <2> DEFINE h == Head(batch)
  <2>1. batch # <<>> /\ batch' = Tail(batch) /\ queue' = queue /\ thread' = thread
    BY <1>4 DEF BeginTask
  <2>2. /\ Distinct(batch') /\ ~ In(batch', h) /\ h \in Tasks
        /\ \A u : In(batch, u) <=> In(batch', u) \/ u = h
    BY <2>1, TailFacts DEF IInv, TypeOK, Scheduling
  <2>3. \A u \in Tasks : Pushing(u)' <=> Pushing(u)
    BY <2>1 DEF Pushing
  <2>4. \A u \in Tasks : scheduled'[u] <=> scheduled[u] /\ u # h
    BY <1>4, <2>2 DEF BeginTask, Unscheduled, IInv, TypeOK
  <2>5. ~ In(queue, h) /\ ~ Pushing(h)
    BY <2>2 DEF IInv, Scheduling
  <2> HIDE DEF h
  <2> QED BY <2>1, <2>2, <2>3, <2>4, <2>5 DEF IInv, Scheduling
<1>5. CASE NoFuture
  BY <1>5, SameScheduling DEF NoFuture, IInv
<1>6. CASE Spawn
  <2>1. PICK t \in Tasks : /\ life[t] = "unborn"
                          /\ scheduled' = [scheduled EXCEPT ![t] = TRUE]
                          /\ queue' = Append(queue, t)
    BY <1>6 DEF Spawn
  <2>2. ~ scheduled[t] /\ UNCHANGED <<batch, thread>>
    BY <1>6, <2>1 DEF Spawn, IInv, Unborn
  <2>3. ~ In(queue, t) /\ ~ In(batch, t) /\ ~ Pushing(t)
    BY <2>2 DEF IInv, Scheduling
  <2>4. Distinct(queue') /\ \A u : In(queue', u) <=> In(queue, u) \/ u = t
    BY <2>1, <2>3, AppendFacts DEF IInv, TypeOK, Scheduling
  <2>5. \A u \in Tasks : scheduled'[u] <=> scheduled[u] \/ u = t
    BY <2>1 DEF IInv, TypeOK
  <2>6. \A u \in Tasks : Pushing(u)' <=> Pushing(u)
    BY <2>2 DEF Pushing
  <2> QED BY <2>2, <2>3, <2>4, <2>5, <2>6 DEF IInv, Scheduling
<1>7. CASE TakeMail
  BY <1>7, WakeKeeps DEF TakeMail, YieldNow, Tasks, IInv
<1>8. CASE AwaitMail
  BY <1>8, SameScheduling DEF AwaitMail, IInv
<1>9. CASE EnterPoll
  BY <1>9, SameScheduling DEF EnterPoll, IInv
<1>10. CASE LeavePoll
  BY <1>10, SameScheduling DEF LeavePoll, IInv
<1>11. CASE WakeReader
  <2>1. PICK t \in ready : Wake(t)
    BY <1>11 DEF WakeReader
  <2>2. t \in Tasks
    BY DEF IInv, TypeOK, Tasks
  <2> QED BY <1>11, <2>1, <2>2, WakeKeeps DEF WakeReader, IInv
<1>12. CASE EmptyPipe
  BY <1>12, SameScheduling DEF EmptyPipe, IInv
<1>13. CASE Tick
  BY <1>13, SameScheduling DEF Tick, IInv
<1>14. ASSUME NEW t \in Readers, TimesOut(t) PROVE Scheduling'
  BY <1>14, SameScheduling DEF TimesOut, IInv
<1>15. ASSUME NEW t \in Readers, Reads(t) PROVE Scheduling'
  BY <1>15, WakeKeeps, SameScheduling DEF Reads, Tasks, IInv
<1>16. ASSUME NEW t \in Readers, Waits(t) PROVE Scheduling'
  BY <1>16, SameScheduling DEF Waits, IInv
<1>17. ASSUME NEW t \in Sleepers, SleepEnds(t) PROVE Scheduling'
  BY <1>17, SameScheduling DEF SleepEnds, IInv
<1>18. ASSUME NEW t \in Sleepers, Sleeps(t) PROVE Scheduling'
  BY <1>18, SameScheduling DEF Sleeps, IInv
<1>19. ASSUME NEW t \in Resolvers, FirstCall(t) PROVE Scheduling'
  <2>1. thread[t][1] = "none" /\ 1 \in Calls
    BY <1>19, SizeAssumption DEF FirstCall, IInv, CallInv, CallOf, Calls
  <2>2. thread' = [thread EXCEPT ![t][1] = "working"]
    BY <1>19 DEF FirstCall, StartThread
  <2>3. \A u \in Resolvers, r \in Calls : thread'[u][r] = "pushing" <=> thread[u][r] = "pushing"
    BY <2>1, <2>2 DEF IInv, TypeOK
  <2> QED BY <1>19, <2>3, SameScheduling DEF FirstCall, IInv
<1>20. ASSUME NEW t \in Resolvers, StoreWaker(t) PROVE Scheduling'
  BY <1>20, SameScheduling DEF StoreWaker, IInv
<1>21. ASSUME NEW t \in Resolvers, TakeResult(t) PROVE Scheduling'
  <2>1. CASE call[t] = MaxCalls
    BY <1>21, <2>1, SameScheduling DEF TakeResult, IInv, TypeOK
  <2>2. CASE call[t] < MaxCalls
    <3> DEFINE s == call[t] + 1
    <3>1. s \in Calls /\ s > call[t] /\ call[t] # MaxCalls
      BY <2>2, SizeAssumption DEF IInv, TypeOK, Calls
    <3>2. thread[t][s] = "none"
      BY <3>1 DEF IInv, CallInv, CallOf
    <3>4. thread' = [thread EXCEPT ![t][s] = "working"]
      BY <1>21, <3>1 DEF TakeResult, StartThread
    <3> HIDE DEF s
    <3>3. \A u \in Resolvers, r \in Calls : thread'[u][r] = "pushing" <=> thread[u][r] = "pushing"
      BY <3>1, <3>2, <3>4 DEF IInv, TypeOK
    <3> QED BY <1>21, <3>3, SameScheduling DEF TakeResult, IInv
  <2> QED BY <1>21, <2>1, <2>2 DEF TakeResult
<1>22. ASSUME NEW t \in Resolvers, AwaitResult(t) PROVE Scheduling'
  BY <1>22, SameScheduling DEF AwaitResult, IInv
<1>23. ASSUME NEW t \in Resolvers, NEW r \in Calls, ThreadFinishes(t, r) PROVE Scheduling'
  <2>1. \A u \in Resolvers, s \in Calls : thread'[u][s] = "pushing" <=> thread[u][s] = "pushing"
    BY <1>23 DEF ThreadFinishes, IInv, TypeOK
  <2> QED BY <1>23, <2>1, SameScheduling DEF ThreadFinishes, ThreadUnchanged, IInv
<1>24. ASSUME NEW t \in Resolvers, NEW r \in Calls, ThreadPanics(t, r) PROVE Scheduling'
  <2>1. \A u \in Resolvers, s \in Calls : thread'[u][s] = "pushing" <=> thread[u][s] = "pushing"
    BY <1>24 DEF ThreadPanics, IInv, TypeOK
  <2> QED BY <1>24, <2>1, SameScheduling DEF ThreadPanics, ThreadUnchanged, IInv
<1>25. ASSUME NEW t \in Resolvers, NEW r \in Calls, ThreadTakesWaker(t, r) PROVE Scheduling'
  <2>1. \A u \in Resolvers, s \in Calls : thread'[u][s] = "pushing" <=> thread[u][s] = "pushing"
    BY <1>25 DEF ThreadTakesWaker, IInv, TypeOK
  <2> QED BY <1>25, <2>1, SameScheduling DEF ThreadTakesWaker, ThreadUnchanged, IInv
<1>26. ASSUME NEW t \in Resolvers, NEW r \in Calls, ThreadSetsFlag(t, r) PROVE Scheduling'
  <2>0. t \in Tasks
    BY DEF Tasks
  <2>1. CASE scheduled[t]
    <3>1. thread' = [thread EXCEPT ![t][r] = "done"] /\ scheduled' = [scheduled EXCEPT ![t] = TRUE]
      BY <1>26, <2>1 DEF ThreadSetsFlag, MayPush
    <3>2. \A u \in Resolvers, s \in Calls : thread'[u][s] = "pushing" <=> thread[u][s] = "pushing"
      BY <1>26, <3>1 DEF ThreadSetsFlag, IInv, TypeOK
    <3>3. scheduled' = scheduled
      BY <2>1, <3>1 DEF IInv, TypeOK
    <3> QED BY <1>26, <3>2, <3>3, SameScheduling DEF ThreadSetsFlag, ThreadUnchanged, IInv
  <2>2. CASE ~ scheduled[t]
    <3>1. /\ thread' = [thread EXCEPT ![t][r] = "pushing"]
          /\ scheduled' = [scheduled EXCEPT ![t] = TRUE]
      BY <1>26, <2>2 DEF ThreadSetsFlag, MayPush
    <3>2. UNCHANGED <<queue, batch>>
      BY <1>26 DEF ThreadSetsFlag, ThreadUnchanged
    <3>3. ~ In(queue, t) /\ ~ In(batch, t) /\ ~ Pushing(t)
      BY <2>0, <2>2 DEF IInv, Scheduling
    <3>4. \A u \in Resolvers, s \in Calls :
             thread'[u][s] = "pushing" <=> thread[u][s] = "pushing" \/ (u = t /\ s = r)
      BY <3>1 DEF IInv, TypeOK
    <3>5. \A u \in Tasks : Pushing(u)' <=> Pushing(u) \/ u = t
      BY <3>4 DEF Pushing
    <3>6. \A u \in Tasks : scheduled'[u] <=> scheduled[u] \/ u = t
      BY <3>1, <2>0 DEF IInv, TypeOK
    <3>7. \A u \in Resolvers : \A p, s \in Calls :
             thread'[u][p] = "pushing" /\ thread'[u][s] = "pushing" => p = s
      BY <3>3, <3>4 DEF IInv, Scheduling, Pushing
    <3> QED BY <3>2, <3>3, <3>5, <3>6, <3>7 DEF IInv, Scheduling
  <2> QED BY <2>1, <2>2
<1>27. ASSUME NEW t \in Resolvers, NEW r \in Calls, ThreadPushes(t, r) PROVE Scheduling'
  <2>0. t \in Tasks /\ Pushing(t)
    BY <1>27 DEF Tasks, ThreadPushes, Pushing
  <2>1. queue' = Append(queue, t) /\ UNCHANGED <<batch, scheduled>>
    BY <1>27 DEF ThreadPushes, ThreadUnchanged
  <2>2. ~ In(queue, t) /\ ~ In(batch, t)
    BY <2>0 DEF IInv, Scheduling
  <2>3. Distinct(queue') /\ \A u : In(queue', u) <=> In(queue, u) \/ u = t
    BY <2>0, <2>1, <2>2, AppendFacts DEF IInv, TypeOK, Scheduling
  <2>4. \A u \in Resolvers, s \in Calls :
           thread'[u][s] = "pushing" <=> thread[u][s] = "pushing" /\ (u # t \/ s # r)
    BY <1>27 DEF ThreadPushes, IInv, TypeOK
  <2>5. \A s \in Calls : thread[t][s] = "pushing" <=> s = r
    BY <1>27 DEF ThreadPushes, IInv, Scheduling
  <2>6. \A u \in Tasks : Pushing(u)' <=> Pushing(u) /\ u # t
    BY <2>4, <2>5 DEF Pushing
  <2>7. \A u \in Resolvers : \A p, s \in Calls :
           thread'[u][p] = "pushing" /\ thread'[u][s] = "pushing" => p = s
    BY <2>4 DEF IInv, Scheduling
  <2> QED BY <2>0, <2>1, <2>2, <2>3, <2>6, <2>7 DEF IInv, Scheduling
<1>28. ASSUME NEW t \in Resolvers, NEW r \in Calls, ThreadPokes(t, r) PROVE Scheduling'
  <2>1. \A u \in Resolvers, s \in Calls : thread'[u][s] = "pushing" <=> thread[u][s] = "pushing"
    BY <1>28 DEF ThreadPokes, IInv, TypeOK
  <2> QED BY <1>28, <2>1, SameScheduling DEF ThreadPokes, ThreadUnchanged, IInv
<1>29. ASSUME NEW t \in Readers, DataArrives(t) PROVE Scheduling'
  BY <1>29, SameScheduling DEF DataArrives, IInv
<1>30. CASE UNCHANGED vars
  BY <1>30, SameScheduling DEF vars, IInv
<1> QED
  BY <1>1, <1>2, <1>3, <1>4, <1>5, <1>6, <1>7, <1>8, <1>9, <1>10, <1>11, <1>12, <1>13,
     <1>14, <1>15, <1>16, <1>17, <1>18, <1>19, <1>20, <1>21, <1>22, <1>23, <1>24, <1>25,
     <1>26, <1>27, <1>28, <1>29, <1>30
  DEF Next, ExecutorStep, ThreadStep

-----------------------------------------------------------------------------
(* Every step keeps the rest of the invariant                               *)

(* Every step keeps tasks that are not spawned out of every table.          *)
LEMMA NextUnborn == IInv /\ [Next]_vars => Unborn'
<1> SUFFICES ASSUME IInv, [Next]_vars PROVE Unborn'
  OBVIOUS
<1>1. CASE TakeTimers
  BY <1>1 DEF TakeTimers, IInv, Unborn
<1>2. CASE WakeTimer
  BY <1>2 DEF WakeTimer, Wake, Due, IInv, Unborn
<1>3. CASE TakeQueue
  BY <1>3 DEF TakeQueue, IInv, Unborn
<1>4. CASE BeginTask
  BY <1>4 DEF BeginTask, Unscheduled, IInv, Unborn
<1>5. CASE NoFuture
  BY <1>5 DEF NoFuture, IInv, Unborn
<1>6. CASE Spawn
  BY <1>6 DEF Spawn, IInv, Unborn, TypeOK
<1>7. CASE TakeMail
  BY <1>7 DEF TakeMail, YieldNow, Wake, IInv, Unborn
<1>8. CASE AwaitMail
  BY <1>8 DEF AwaitMail, IInv, Unborn
<1>9. CASE EnterPoll
  BY <1>9 DEF EnterPoll, IInv, Unborn
<1>10. CASE LeavePoll
  BY <1>10 DEF LeavePoll, IInv, Unborn
<1>11. CASE WakeReader
  BY <1>11 DEF WakeReader, Wake, IInv, Unborn, TypeOK
<1>12. CASE EmptyPipe
  BY <1>12 DEF EmptyPipe, RegisteredAgain, IInv, Unborn
<1>13. CASE Tick
  BY <1>13 DEF Tick, IInv, Unborn
<1>14. ASSUME NEW t \in Readers, TimesOut(t) PROVE Unborn'
  BY <1>14, TaskAssumption DEF TimesOut, IInv, Unborn
<1>15. ASSUME NEW t \in Readers, Reads(t) PROVE Unborn'
  BY <1>15 DEF Reads, Wake, IInv, Unborn, TypeOK
<1>16. ASSUME NEW t \in Readers, Waits(t) PROVE Unborn'
  BY <1>16 DEF Waits, Polling, SetTimer, IInv, Unborn
<1>17. ASSUME NEW t \in Sleepers, SleepEnds(t) PROVE Unborn'
  BY <1>17 DEF SleepEnds, TimerUnset, IInv, Unborn
<1>18. ASSUME NEW t \in Sleepers, Sleeps(t) PROVE Unborn'
  BY <1>18 DEF Sleeps, Polling, SetTimer, IInv, Unborn
<1>19. ASSUME NEW t \in Resolvers, FirstCall(t) PROVE Unborn'
  BY <1>19 DEF FirstCall, Polling, StartThread, IInv, Unborn
<1>20. ASSUME NEW t \in Resolvers, StoreWaker(t) PROVE Unborn'
  BY <1>20 DEF StoreWaker, IInv, Unborn
<1>21. ASSUME NEW t \in Resolvers, TakeResult(t) PROVE Unborn'
  BY <1>21, TaskAssumption DEF TakeResult, Polling, StartThread, IInv, Unborn, TypeOK, Tasks
<1>22. ASSUME NEW t \in Resolvers, AwaitResult(t) PROVE Unborn'
  BY <1>22 DEF AwaitResult, IInv, Unborn
<1>23. ASSUME NEW t \in Resolvers, NEW r \in Calls, ThreadFinishes(t, r) PROVE Unborn'
  BY <1>23 DEF ThreadFinishes, ThreadUnchanged, IInv, Unborn
<1>24. ASSUME NEW t \in Resolvers, NEW r \in Calls, ThreadPanics(t, r) PROVE Unborn'
  BY <1>24 DEF ThreadPanics, ThreadUnchanged, IInv, Unborn
<1>25. ASSUME NEW t \in Resolvers, NEW r \in Calls, ThreadTakesWaker(t, r) PROVE Unborn'
  BY <1>25 DEF ThreadTakesWaker, ThreadUnchanged, IInv, Unborn
<1>26. ASSUME NEW t \in Resolvers, NEW r \in Calls, ThreadSetsFlag(t, r) PROVE Unborn'
  <2>1. life[t] # "unborn"
    BY <1>26, t \in Tasks DEF ThreadSetsFlag, IInv, Unborn, CallInv, CallOf, Tasks, Calls
  <2> QED BY <1>26, <2>1 DEF ThreadSetsFlag, ThreadUnchanged, IInv, Unborn, TypeOK
<1>27. ASSUME NEW t \in Resolvers, NEW r \in Calls, ThreadPushes(t, r) PROVE Unborn'
  BY <1>27 DEF ThreadPushes, ThreadUnchanged, IInv, Unborn
<1>28. ASSUME NEW t \in Resolvers, NEW r \in Calls, ThreadPokes(t, r) PROVE Unborn'
  BY <1>28 DEF ThreadPokes, ThreadUnchanged, IInv, Unborn
<1>29. ASSUME NEW t \in Readers, DataArrives(t) PROVE Unborn'
  BY <1>29 DEF DataArrives, IInv, Unborn
<1>30. CASE UNCHANGED vars
  BY <1>30 DEF vars, IInv, Unborn
<1> QED
  BY <1>1, <1>2, <1>3, <1>4, <1>5, <1>6, <1>7, <1>8, <1>9, <1>10, <1>11, <1>12, <1>13,
     <1>14, <1>15, <1>16, <1>17, <1>18, <1>19, <1>20, <1>21, <1>22, <1>23, <1>24, <1>25,
     <1>26, <1>27, <1>28, <1>29, <1>30
  DEF Next, ExecutorStep, ThreadStep

(* Every step keeps poll() from waiting over a queued task.                 *)
LEMMA NextPollInv == IInv /\ [Next]_vars => PollInv'
<1> SUFFICES ASSUME IInv, [Next]_vars PROVE PollInv'
  OBVIOUS
<1>1. CASE TakeTimers
  BY <1>1 DEF TakeTimers, IInv, PollInv, NoLostWakeup
<1>2. CASE WakeTimer
  BY <1>2 DEF WakeTimer, IInv, PollInv, NoLostWakeup
<1>3. CASE TakeQueue
  BY <1>3 DEF TakeQueue, IInv, PollInv, NoLostWakeup
<1>4. CASE BeginTask
  BY <1>4 DEF BeginTask, IInv, PollInv, NoLostWakeup
<1>5. CASE NoFuture
  BY <1>5 DEF NoFuture, IInv, PollInv, NoLostWakeup
<1>6. CASE Spawn
  BY <1>6, TaskAssumption DEF Spawn, IInv, Phase, PollInv, NoLostWakeup, Tasks
<1>7. CASE TakeMail
  BY <1>7, TaskAssumption DEF TakeMail, IInv, Phase, PollInv, NoLostWakeup, Tasks
<1>8. CASE AwaitMail
  BY <1>8 DEF AwaitMail, IInv, PollInv, NoLostWakeup
<1>9. CASE EnterPoll
  BY <1>9 DEF EnterPoll, IInv, PollInv, NoLostWakeup
<1>10. CASE LeavePoll
  BY <1>10 DEF LeavePoll, IInv, PollInv, NoLostWakeup
<1>11. CASE WakeReader
  BY <1>11 DEF WakeReader, IInv, PollInv, NoLostWakeup
<1>12. CASE EmptyPipe
  BY <1>12 DEF EmptyPipe, IInv, PollInv, NoLostWakeup
<1>13. CASE Tick
  BY <1>13 DEF Tick, IInv, PollInv, NoLostWakeup, TypeOK
<1>14. ASSUME NEW t \in Readers, TimesOut(t) PROVE PollInv'
  BY <1>14 DEF TimesOut, IInv, PollInv, NoLostWakeup
<1>15. ASSUME NEW t \in Readers, Reads(t) PROVE PollInv'
  BY <1>15, TaskAssumption DEF Reads, Polling, IInv, Phase, PollInv, NoLostWakeup, Tasks
<1>16. ASSUME NEW t \in Readers, Waits(t) PROVE PollInv'
  BY <1>16 DEF Waits, IInv, PollInv, NoLostWakeup
<1>17. ASSUME NEW t \in Sleepers, SleepEnds(t) PROVE PollInv'
  BY <1>17 DEF SleepEnds, IInv, PollInv, NoLostWakeup
<1>18. ASSUME NEW t \in Sleepers, Sleeps(t) PROVE PollInv'
  BY <1>18 DEF Sleeps, IInv, PollInv, NoLostWakeup
<1>19. ASSUME NEW t \in Resolvers, FirstCall(t) PROVE PollInv'
  BY <1>19, TaskAssumption DEF FirstCall, Polling, IInv, Phase, PollInv, NoLostWakeup, Tasks
<1>20. ASSUME NEW t \in Resolvers, StoreWaker(t) PROVE PollInv'
  BY <1>20 DEF StoreWaker, IInv, PollInv, NoLostWakeup
<1>21. ASSUME NEW t \in Resolvers, TakeResult(t) PROVE PollInv'
  BY <1>21, TaskAssumption DEF TakeResult, Polling, IInv, Phase, PollInv, NoLostWakeup, Tasks
<1>22. ASSUME NEW t \in Resolvers, AwaitResult(t) PROVE PollInv'
  BY <1>22 DEF AwaitResult, IInv, PollInv, NoLostWakeup
<1>23. ASSUME NEW t \in Resolvers, NEW r \in Calls, ThreadFinishes(t, r) PROVE PollInv'
  BY <1>23 DEF ThreadFinishes, ThreadUnchanged, IInv, PollInv, NoLostWakeup
<1>24. ASSUME NEW t \in Resolvers, NEW r \in Calls, ThreadPanics(t, r) PROVE PollInv'
  BY <1>24 DEF ThreadPanics, ThreadUnchanged, IInv, PollInv, NoLostWakeup
<1>25. ASSUME NEW t \in Resolvers, NEW r \in Calls, ThreadTakesWaker(t, r) PROVE PollInv'
  BY <1>25 DEF ThreadTakesWaker, ThreadUnchanged, IInv, PollInv, NoLostWakeup
<1>26. ASSUME NEW t \in Resolvers, NEW r \in Calls, ThreadSetsFlag(t, r) PROVE PollInv'
  BY <1>26 DEF ThreadSetsFlag, ThreadUnchanged, IInv, PollInv, NoLostWakeup
<1>27. ASSUME NEW t \in Resolvers, NEW r \in Calls, ThreadPushes(t, r) PROVE PollInv'
  BY <1>27 DEF ThreadPushes, ThreadUnchanged, IInv, PollInv, NoLostWakeup, TypeOK
<1>28. ASSUME NEW t \in Resolvers, NEW r \in Calls, ThreadPokes(t, r) PROVE PollInv'
  <2>1. pipe' > 0
    BY <1>28, SizeAssumption DEF ThreadPokes, Poke, IInv, TypeOK
  <2> QED BY <1>28, <2>1 DEF ThreadPokes, ThreadUnchanged, IInv, PollInv, NoLostWakeup
<1>29. ASSUME NEW t \in Readers, DataArrives(t) PROVE PollInv'
  BY <1>29 DEF DataArrives, IInv, PollInv, NoLostWakeup
<1>30. CASE UNCHANGED vars
  BY <1>30 DEF vars, IInv, PollInv, NoLostWakeup
<1> QED
  BY <1>1, <1>2, <1>3, <1>4, <1>5, <1>6, <1>7, <1>8, <1>9, <1>10, <1>11, <1>12, <1>13,
     <1>14, <1>15, <1>16, <1>17, <1>18, <1>19, <1>20, <1>21, <1>22, <1>23, <1>24, <1>25,
     <1>26, <1>27, <1>28, <1>29, <1>30
  DEF Next, ExecutorStep, ThreadStep

(* Every step keeps a timer that is set where it will be found.             *)
LEMMA NextTimerInv == IInv /\ [Next]_vars => TimerInv'
<1> SUFFICES ASSUME IInv, [Next]_vars PROVE TimerInv'
  OBVIOUS
<1>1. CASE TakeTimers
  BY <1>1 DEF TakeTimers, IInv, TimerInv, Asleep
<1>2. CASE WakeTimer
  BY <1>2 DEF WakeTimer, Wake, Due, IInv, TimerInv, TypeOK, Asleep, Tasks, Timed
<1>3. CASE TakeQueue
  BY <1>3 DEF TakeQueue, IInv, TimerInv, Asleep
<1>4. CASE BeginTask
  BY <1>4, TaskAssumption DEF BeginTask, Unscheduled, IInv, TimerInv, Asleep, Tasks, Timed
<1>5. CASE NoFuture
  BY <1>5 DEF NoFuture, IInv, TimerInv, Asleep
<1>6. CASE Spawn
  BY <1>6 DEF Spawn, IInv, Unborn, TimerInv, TypeOK, Asleep
<1>7. CASE TakeMail
  BY <1>7 DEF TakeMail, YieldNow, Wake, IInv, TimerInv, TypeOK, Asleep
<1>8. CASE AwaitMail
  BY <1>8, TaskAssumption DEF AwaitMail, IInv, TimerInv, Asleep, Timed
<1>9. CASE EnterPoll
  BY <1>9 DEF EnterPoll, IInv, Phase, TimerInv, Asleep
<1>10. CASE LeavePoll
  BY <1>10 DEF LeavePoll, IInv, TimerInv, Asleep
<1>11. CASE WakeReader
  BY <1>11 DEF WakeReader, Wake, IInv, TimerInv, TypeOK, Asleep, Tasks
<1>12. CASE EmptyPipe
  BY <1>12 DEF EmptyPipe, RegisteredAgain, IInv, TimerInv, Asleep
<1>13. CASE Tick
  BY <1>13 DEF Tick, IInv, TimerInv, TypeOK, Asleep
<1>14. ASSUME NEW t \in Readers, TimesOut(t) PROVE TimerInv'
  BY <1>14 DEF TimesOut, Polling, IInv, TimerInv, TypeOK, Asleep
<1>15. ASSUME NEW t \in Readers, Reads(t) PROVE TimerInv'
  BY <1>15 DEF Reads, Polling, Wake, IInv, TimerInv, TypeOK, Asleep, Tasks, Timed
<1>16. ASSUME NEW t \in Readers, Waits(t) PROVE TimerInv'
  BY <1>16 DEF Waits, Polling, SetTimer, IInv, TimerInv, TypeOK, Asleep
<1>17. ASSUME NEW t \in Sleepers, SleepEnds(t) PROVE TimerInv'
  BY <1>17 DEF SleepEnds, Polling, TimerUnset, IInv, TimerInv, TypeOK, Asleep
<1>18. ASSUME NEW t \in Sleepers, Sleeps(t) PROVE TimerInv'
  BY <1>18, TaskAssumption DEF Sleeps, Polling, SetTimer, IInv, TimerInv, TypeOK, Asleep
<1>19. ASSUME NEW t \in Resolvers, FirstCall(t) PROVE TimerInv'
  BY <1>19 DEF FirstCall, IInv, TimerInv, Asleep
<1>20. ASSUME NEW t \in Resolvers, StoreWaker(t) PROVE TimerInv'
  BY <1>20 DEF StoreWaker, IInv, TimerInv, Asleep
<1>21. ASSUME NEW t \in Resolvers, TakeResult(t) PROVE TimerInv'
  BY <1>21 DEF TakeResult, Polling, IInv, TimerInv, TypeOK, Asleep, Tasks, Timed
<1>22. ASSUME NEW t \in Resolvers, AwaitResult(t) PROVE TimerInv'
  BY <1>22, TaskAssumption DEF AwaitResult, Polling, IInv, TimerInv, Asleep, Timed
<1>23. ASSUME NEW t \in Resolvers, NEW r \in Calls, ThreadFinishes(t, r) PROVE TimerInv'
  BY <1>23 DEF ThreadFinishes, ThreadUnchanged, IInv, TimerInv, Asleep
<1>24. ASSUME NEW t \in Resolvers, NEW r \in Calls, ThreadPanics(t, r) PROVE TimerInv'
  BY <1>24 DEF ThreadPanics, ThreadUnchanged, IInv, TimerInv, Asleep
<1>25. ASSUME NEW t \in Resolvers, NEW r \in Calls, ThreadTakesWaker(t, r) PROVE TimerInv'
  BY <1>25 DEF ThreadTakesWaker, ThreadUnchanged, IInv, TimerInv, Asleep
<1>26. ASSUME NEW t \in Resolvers, NEW r \in Calls, ThreadSetsFlag(t, r) PROVE TimerInv'
  BY <1>26 DEF ThreadSetsFlag, ThreadUnchanged, IInv, TimerInv, Asleep
<1>27. ASSUME NEW t \in Resolvers, NEW r \in Calls, ThreadPushes(t, r) PROVE TimerInv'
  BY <1>27 DEF ThreadPushes, ThreadUnchanged, IInv, TimerInv, Asleep
<1>28. ASSUME NEW t \in Resolvers, NEW r \in Calls, ThreadPokes(t, r) PROVE TimerInv'
  BY <1>28 DEF ThreadPokes, ThreadUnchanged, IInv, TimerInv, Asleep
<1>29. ASSUME NEW t \in Readers, DataArrives(t) PROVE TimerInv'
  BY <1>29 DEF DataArrives, IInv, TimerInv, Asleep
<1>30. CASE UNCHANGED vars
  BY <1>30 DEF vars, IInv, TimerInv, Asleep
<1> QED
  BY <1>1, <1>2, <1>3, <1>4, <1>5, <1>6, <1>7, <1>8, <1>9, <1>10, <1>11, <1>12, <1>13,
     <1>14, <1>15, <1>16, <1>17, <1>18, <1>19, <1>20, <1>21, <1>22, <1>23, <1>24, <1>25,
     <1>26, <1>27, <1>28, <1>29, <1>30
  DEF Next, ExecutorStep, ThreadStep

(* Every step keeps the thread of each blocking call.                       *)
LEMMA NextCallInv == IInv /\ [Next]_vars => CallInv'
<1> SUFFICES ASSUME IInv, [Next]_vars PROVE CallInv'
  OBVIOUS
<1>1. CASE TakeTimers
  BY <1>1 DEF TakeTimers, IInv, CallInv, CallOf, Asleep
<1>2. CASE WakeTimer
  BY <1>2 DEF WakeTimer, Wake, IInv, CallInv, CallOf, Asleep
<1>3. CASE TakeQueue
  BY <1>3 DEF TakeQueue, IInv, CallInv, CallOf, Asleep
<1>4. CASE BeginTask
  BY <1>4, TaskAssumption DEF BeginTask, Unscheduled, IInv, CallInv, CallOf, Asleep, Tasks
<1>5. CASE NoFuture
  BY <1>5 DEF NoFuture, IInv, CallInv, CallOf, Asleep
<1>6. CASE Spawn
  BY <1>6 DEF Spawn, IInv, Unborn, CallInv, CallOf, TypeOK, Asleep
<1>7. CASE TakeMail
  BY <1>7, TaskAssumption DEF TakeMail, YieldNow, Wake, IInv, CallInv, CallOf, Asleep
<1>8. CASE AwaitMail
  BY <1>8, TaskAssumption DEF AwaitMail, IInv, CallInv, CallOf, Asleep
<1>9. CASE EnterPoll
  BY <1>9 DEF EnterPoll, IInv, CallInv, CallOf, Asleep
<1>10. CASE LeavePoll
  BY <1>10 DEF LeavePoll, IInv, CallInv, CallOf, Asleep
<1>11. CASE WakeReader
  BY <1>11 DEF WakeReader, Wake, IInv, CallInv, CallOf, Asleep
<1>12. CASE EmptyPipe
  BY <1>12 DEF EmptyPipe, IInv, CallInv, CallOf, Asleep
<1>13. CASE Tick
  BY <1>13 DEF Tick, IInv, CallInv, CallOf, Asleep
<1>14. ASSUME NEW t \in Readers, TimesOut(t) PROVE CallInv'
  BY <1>14, TaskAssumption DEF TimesOut, Polling, IInv, CallInv, CallOf, Asleep
<1>15. ASSUME NEW t \in Readers, Reads(t) PROVE CallInv'
  <2>1. \A u \in Resolvers : Asleep(u)' => Asleep(u)
    BY <1>15 DEF Reads, Wake, Asleep, IInv, TypeOK, Tasks
  <2>2. UNCHANGED <<running, life, call, storedWaker, waker, result, thread>>
    BY <1>15 DEF Reads
  <2> QED BY <2>1, <2>2 DEF IInv, CallInv, CallOf
<1>16. ASSUME NEW t \in Readers, Waits(t) PROVE CallInv'
  BY <1>16, TaskAssumption DEF Waits, Polling, IInv, CallInv, CallOf, Asleep
<1>17. ASSUME NEW t \in Sleepers, SleepEnds(t) PROVE CallInv'
  BY <1>17 DEF SleepEnds, IInv, CallInv, CallOf, Asleep
<1>18. ASSUME NEW t \in Sleepers, Sleeps(t) PROVE CallInv'
  BY <1>18, TaskAssumption DEF Sleeps, Polling, IInv, CallInv, CallOf, Asleep
<1>19. ASSUME NEW t \in Resolvers, FirstCall(t) PROVE CallInv'
  <2>1. /\ running = t /\ life[t] = "live" /\ call[t] = 0 /\ t \in Tasks /\ 1 \in Calls
        /\ call' = [call EXCEPT ![t] = 1]
        /\ thread' = [thread EXCEPT ![t][1] = "working"]
        /\ UNCHANGED <<running, life, scheduled, storedWaker, waker, result>>
    BY <1>19, SizeAssumption DEF FirstCall, Polling, StartThread, Tasks, Calls
  <2>2. ASSUME NEW u \in Resolvers, u # t PROVE CallOf(u)'
    BY <2>1, <2>2 DEF IInv, TypeOK, CallInv, CallOf, Asleep
  <2>3. CallOf(t)'
    <3>1. \A r \in Calls : r > 0 /\ (r > 1 => r # 1)
      BY DEF Calls
    <3>2. call'[t] = 1 /\ thread'[t][1] = "working" /\ ~ storedWaker[t] /\ ~ result[t][1]
      BY <2>1, <3>1 DEF IInv, TypeOK, CallInv, CallOf
    <3>3. \A r \in Calls : r > 1 => thread'[t][r] = "none" /\ ~ result[t][r]
      BY <2>1, <3>1 DEF IInv, TypeOK, CallInv, CallOf
    <3> QED BY <2>1, <3>2, <3>3 DEF CallOf, Asleep
  <2> QED BY <2>2, <2>3 DEF CallInv
<1>20. ASSUME NEW t \in Resolvers, StoreWaker(t) PROVE CallInv'
  <2>1. /\ running = t /\ life[t] = "live" /\ call[t] > 0 /\ t \in Tasks /\ call[t] \in Calls
        /\ waker' = [waker EXCEPT ![t][call[t]] = TRUE]
        /\ storedWaker' = [storedWaker EXCEPT ![t] = TRUE]
        /\ UNCHANGED <<running, life, scheduled, call, result, thread>>
    BY <1>20, SizeAssumption DEF StoreWaker, Polling, Tasks, Calls, IInv, TypeOK
  <2>2. ASSUME NEW u \in Resolvers, u # t PROVE CallOf(u)'
    BY <2>1, <2>2 DEF IInv, TypeOK, CallInv, CallOf, Asleep
  <2>3. CallOf(t)'
    <3>1. waker'[t][call[t]]
      BY <2>1 DEF IInv, TypeOK
    <3> QED BY <2>1, <3>1 DEF IInv, TypeOK, CallInv, CallOf, Asleep
  <2> QED BY <2>2, <2>3 DEF CallInv
<1>21. ASSUME NEW t \in Resolvers, TakeResult(t) PROVE CallInv'
  <2>1. /\ running = t /\ life[t] = "live" /\ t \in Tasks
        /\ result' = [result EXCEPT ![t][call[t]] = FALSE]
        /\ storedWaker' = [storedWaker EXCEPT ![t] = FALSE]
        /\ UNCHANGED <<scheduled, waker>>
        /\ \A u \in Resolvers : u # t =>
             thread'[u] = thread[u] /\ call'[u] = call[u] /\ life'[u] = life[u]
        /\ running' = running \/ running' = NoTask
    BY <1>21 DEF TakeResult, Polling, StartThread, Tasks, IInv, TypeOK
  <2>2. call[t] > 0 /\ call[t] \in Calls
    BY <1>21 DEF TakeResult, IInv, TypeOK, CallInv, CallOf, Calls
  <2>3. ASSUME NEW u \in Resolvers, u # t PROVE CallOf(u)'
    <3>1. ~ storedWaker[u] /\ storedWaker'[u] = storedWaker[u] /\ result'[u] = result[u]
      BY <2>1, <2>3 DEF IInv, TypeOK, CallInv, CallOf
    <3> QED BY <2>1, <2>3, <3>1 DEF IInv, CallInv, CallOf, Asleep
  <2>4. CallOf(t)'
    <3>1. ~ storedWaker'[t] /\ \A r \in Calls : result'[t][r] => result[t][r]
      BY <2>1 DEF IInv, TypeOK
    <3>2. CASE call[t] = MaxCalls
      <4>1. life'[t] = "finished" /\ UNCHANGED <<call, thread>>
        BY <1>21, <3>2, <2>1, SizeAssumption DEF TakeResult, IInv, TypeOK
      <4> QED BY <3>1, <4>1 DEF IInv, CallInv, CallOf, Asleep
    <3>3. CASE call[t] < MaxCalls
      <4> DEFINE s == call[t] + 1
      <4>1. /\ s \in Calls /\ s # call[t] /\ call[t] # MaxCalls
            /\ \A r \in Calls : r > s => r > call[t] /\ r # s
        BY <2>2, <3>3, SizeAssumption DEF IInv, TypeOK, Calls
      <4>2. s > call[t]
        BY <2>2 DEF Calls
      <4>3. /\ call' = [call EXCEPT ![t] = s] /\ thread' = [thread EXCEPT ![t][s] = "working"]
            /\ UNCHANGED <<running, life>>
        BY <1>21, <4>1 DEF TakeResult, StartThread
      <4> HIDE DEF s
      <4>4. call'[t] = s /\ thread'[t][s] = "working" /\ ~ result'[t][s]
        BY <4>1, <4>2, <4>3, <3>1 DEF IInv, TypeOK, CallInv, CallOf
      <4>5. \A r \in Calls : r > s => thread'[t][r] = "none" /\ ~ result'[t][r]
        BY <4>1, <4>3, <3>1 DEF IInv, TypeOK, CallInv, CallOf
      <4> QED BY <2>1, <3>1, <4>3, <4>4, <4>5 DEF CallOf, Asleep
    <3> QED BY <1>21, <3>2, <3>3 DEF TakeResult
  <2> QED BY <2>3, <2>4 DEF CallInv
<1>22. ASSUME NEW t \in Resolvers, AwaitResult(t) PROVE CallInv'
  BY <1>22 DEF AwaitResult, IInv, CallInv, CallOf, TypeOK, Asleep
<1>23. ASSUME NEW t \in Resolvers, NEW r \in Calls, ThreadFinishes(t, r) PROVE CallInv'
  BY <1>23 DEF ThreadFinishes, ThreadUnchanged, IInv, CallInv, CallOf, TypeOK, Asleep
<1>24. ASSUME NEW t \in Resolvers, NEW r \in Calls, ThreadPanics(t, r) PROVE CallInv'
  BY <1>24 DEF ThreadPanics, ThreadUnchanged, IInv, CallInv, CallOf, Asleep
<1>25. ASSUME NEW t \in Resolvers, NEW r \in Calls, ThreadTakesWaker(t, r) PROVE CallInv'
  BY <1>25 DEF ThreadTakesWaker, ThreadUnchanged, IInv, CallInv, CallOf, TypeOK, Asleep
<1>26. ASSUME NEW t \in Resolvers, NEW r \in Calls, ThreadSetsFlag(t, r) PROVE CallInv'
  BY <1>26 DEF ThreadSetsFlag, ThreadUnchanged, IInv, CallInv, CallOf, TypeOK, Asleep, Tasks
<1>27. ASSUME NEW t \in Resolvers, NEW r \in Calls, ThreadPushes(t, r) PROVE CallInv'
  BY <1>27 DEF ThreadPushes, ThreadUnchanged, IInv, CallInv, CallOf, Asleep
<1>28. ASSUME NEW t \in Resolvers, NEW r \in Calls, ThreadPokes(t, r) PROVE CallInv'
  BY <1>28 DEF ThreadPokes, ThreadUnchanged, IInv, CallInv, CallOf, Asleep
<1>29. ASSUME NEW t \in Readers, DataArrives(t) PROVE CallInv'
  BY <1>29 DEF DataArrives, IInv, CallInv, CallOf, Asleep
<1>30. CASE UNCHANGED vars
  BY <1>30 DEF vars, IInv, CallInv, CallOf, Asleep
<1> QED
  BY <1>1, <1>2, <1>3, <1>4, <1>5, <1>6, <1>7, <1>8, <1>9, <1>10, <1>11, <1>12, <1>13,
     <1>14, <1>15, <1>16, <1>17, <1>18, <1>19, <1>20, <1>21, <1>22, <1>23, <1>24, <1>25,
     <1>26, <1>27, <1>28, <1>29, <1>30
  DEF Next, ExecutorStep, ThreadStep

(* Every step keeps the main task awake while there is mail.                *)
LEMMA NextMainInv == IInv /\ [Next]_vars => MainInv'
<1> SUFFICES ASSUME IInv, [Next]_vars PROVE MainInv'
  OBVIOUS
<1>1. CASE TakeTimers
  BY <1>1 DEF TakeTimers, IInv, MainInv, Asleep
<1>2. CASE WakeTimer
  BY <1>2 DEF WakeTimer, Wake, IInv, MainInv, Asleep
<1>3. CASE TakeQueue
  BY <1>3 DEF TakeQueue, IInv, MainInv, Asleep
<1>4. CASE BeginTask
  BY <1>4, TaskAssumption DEF BeginTask, Unscheduled, IInv, MainInv, Asleep, Tasks
<1>5. CASE NoFuture
  BY <1>5 DEF NoFuture, IInv, MainInv, Asleep
<1>6. CASE Spawn
  BY <1>6 DEF Spawn, IInv, MainInv, Asleep
<1>7. CASE TakeMail
  BY <1>7 DEF TakeMail, YieldNow, Wake, IInv, MainInv, TypeOK, Asleep
<1>8. CASE AwaitMail
  BY <1>8 DEF AwaitMail, IInv, MainInv
<1>9. CASE EnterPoll
  BY <1>9 DEF EnterPoll, IInv, MainInv, Asleep
<1>10. CASE LeavePoll
  BY <1>10 DEF LeavePoll, IInv, MainInv, Asleep
<1>11. CASE WakeReader
  BY <1>11 DEF WakeReader, Wake, IInv, MainInv, Asleep
<1>12. CASE EmptyPipe
  BY <1>12 DEF EmptyPipe, IInv, MainInv, Asleep
<1>13. CASE Tick
  BY <1>13 DEF Tick, IInv, MainInv, Asleep
<1>14. ASSUME NEW t \in Readers, TimesOut(t) PROVE MainInv'
  BY <1>14 DEF TimesOut, Polling, IInv, MainInv, TypeOK, Asleep
<1>15. ASSUME NEW t \in Readers, Reads(t) PROVE MainInv'
  BY <1>15 DEF Reads, Wake, IInv, MainInv, TypeOK, Asleep, Tasks
<1>16. ASSUME NEW t \in Readers, Waits(t) PROVE MainInv'
  BY <1>16, TaskAssumption DEF Waits, Polling, IInv, MainInv, Asleep
<1>17. ASSUME NEW t \in Sleepers, SleepEnds(t) PROVE MainInv'
  BY <1>17 DEF SleepEnds, IInv, MainInv, Asleep
<1>18. ASSUME NEW t \in Sleepers, Sleeps(t) PROVE MainInv'
  BY <1>18, TaskAssumption DEF Sleeps, Polling, IInv, MainInv, Asleep
<1>19. ASSUME NEW t \in Resolvers, FirstCall(t) PROVE MainInv'
  BY <1>19 DEF FirstCall, IInv, MainInv, Asleep
<1>20. ASSUME NEW t \in Resolvers, StoreWaker(t) PROVE MainInv'
  BY <1>20 DEF StoreWaker, IInv, MainInv, Asleep
<1>21. ASSUME NEW t \in Resolvers, TakeResult(t) PROVE MainInv'
  BY <1>21 DEF TakeResult, Polling, IInv, MainInv, TypeOK, Asleep, Tasks
<1>22. ASSUME NEW t \in Resolvers, AwaitResult(t) PROVE MainInv'
  BY <1>22, TaskAssumption DEF AwaitResult, Polling, IInv, MainInv, Asleep
<1>23. ASSUME NEW t \in Resolvers, NEW r \in Calls, ThreadFinishes(t, r) PROVE MainInv'
  BY <1>23 DEF ThreadFinishes, ThreadUnchanged, IInv, MainInv, Asleep
<1>24. ASSUME NEW t \in Resolvers, NEW r \in Calls, ThreadPanics(t, r) PROVE MainInv'
  BY <1>24 DEF ThreadPanics, ThreadUnchanged, IInv, MainInv, Asleep
<1>25. ASSUME NEW t \in Resolvers, NEW r \in Calls, ThreadTakesWaker(t, r) PROVE MainInv'
  BY <1>25 DEF ThreadTakesWaker, ThreadUnchanged, IInv, MainInv, Asleep
<1>26. ASSUME NEW t \in Resolvers, NEW r \in Calls, ThreadSetsFlag(t, r) PROVE MainInv'
  BY <1>26 DEF ThreadSetsFlag, ThreadUnchanged, IInv, MainInv, Asleep
<1>27. ASSUME NEW t \in Resolvers, NEW r \in Calls, ThreadPushes(t, r) PROVE MainInv'
  BY <1>27 DEF ThreadPushes, ThreadUnchanged, IInv, MainInv, Asleep
<1>28. ASSUME NEW t \in Resolvers, NEW r \in Calls, ThreadPokes(t, r) PROVE MainInv'
  BY <1>28 DEF ThreadPokes, ThreadUnchanged, IInv, MainInv, Asleep
<1>29. ASSUME NEW t \in Readers, DataArrives(t) PROVE MainInv'
  BY <1>29 DEF DataArrives, IInv, MainInv, Asleep
<1>30. CASE UNCHANGED vars
  BY <1>30 DEF vars, IInv, MainInv, Asleep
<1> QED
  BY <1>1, <1>2, <1>3, <1>4, <1>5, <1>6, <1>7, <1>8, <1>9, <1>10, <1>11, <1>12, <1>13,
     <1>14, <1>15, <1>16, <1>17, <1>18, <1>19, <1>20, <1>21, <1>22, <1>23, <1>24, <1>25,
     <1>26, <1>27, <1>28, <1>29, <1>30
  DEF Next, ExecutorStep, ThreadStep

(* Deadlines are numbers.                                                   *)
LEMMA TimerTypes ==
  ASSUME TypeOK
  PROVE  /\ now \in Nat /\ spent \in Nat /\ deadline \in Nat
         /\ \A e \in sleepRegister \cup sleepStore :
               e[1] \in Nat /\ e[2] \in Timed /\ Duration(e[2]) \in Nat /\ Lateness(e[2]) \in Nat
         /\ \A t \in Timed : timeoutAt[t] \in Nat /\ Duration(t) \in Nat
  BY DurationFacts, TimeAssumption DEF TypeOK

(* A task other than a resolver that is due to run keeps poll() from        *)
(* waiting: it is in the queue.                                             *)
LEMMA QueuedInPoll ==
  ASSUME IInv, pc = "poll", NEW t \in Tasks \ Resolvers, scheduled[t]
  PROVE  deadline <= now
<1>1. batch = <<>>
  BY DEF IInv, Phase
<1>2. In(queue, t)
  BY <1>1 DEF IInv, Scheduling, Pushing, In
<1> QED BY <1>2 DEF IInv, PollInv, In

(* Every step keeps the bounds on how far behind a timer is.                *)
LEMMA NextTimeInv == IInv /\ [Next]_vars => TimeInv'
<1> SUFFICES ASSUME IInv, [Next]_vars PROVE TimeInv'
  OBVIOUS
<1>1. CASE TakeTimers
  <2>1. pc = "top" /\ pc' = "timers" /\ sleepStore' = sleepStore \cup sleepRegister
        /\ sleepRegister' = {} /\ UNCHANGED <<now, spent, deadline, timeoutAt, timerSet, life>>
    BY <1>1 DEF TakeTimers
  <2>2. \A e \in sleepStore \cup sleepRegister : now <= e[1] + spent + Lateness(e[2])
    BY <2>1, TimerTypes, DurationFacts DEF IInv, TimeInv
  <2> QED BY <2>1, <2>2 DEF IInv, TimeInv
<1>2. CASE WakeTimer
  BY <1>2 DEF WakeTimer, IInv, TimeInv
<1>3. CASE TakeQueue
  <2>1. \A e \in sleepStore : now <= e[1] + spent
    BY <1>3, TimerTypes DEF TakeQueue, Due, IInv
  <2>2. sleepRegister = {} /\ pc' = "run"
    BY <1>3 DEF TakeQueue, IInv, Phase
  <2> QED BY <1>3, <2>1, <2>2 DEF TakeQueue, IInv, TimeInv
<1>4. CASE BeginTask
  BY <1>4 DEF BeginTask, IInv, TimeInv
<1>5. CASE NoFuture
  BY <1>5 DEF NoFuture, IInv, TimeInv
<1>6. CASE Spawn
  <2>1. PICK t \in Tasks :
          /\ life[t] = "unborn" /\ life' = [life EXCEPT ![t] = "live"]
          /\ timeoutAt' = [u \in Timed |-> IF u # t THEN timeoutAt[u]
                 ELSE now + IF t \in Readers THEN ReadTimeout ELSE SleepTime]
    BY <1>6 DEF Spawn
  <2>2. UNCHANGED <<pc, now, spent, deadline, sleepRegister, sleepStore, timerSet>>
    BY <1>6 DEF Spawn
  <2>3. \A u \in Timed : timeoutAt'[u] = IF u # t THEN timeoutAt[u] ELSE now + Duration(u)
    BY <2>1 DEF Duration
  <2>4. \A u \in Timed : life'[u] = "live" => u = t \/ life[u] = "live"
    BY <2>1 DEF IInv, TypeOK, Timed, Tasks
  <2>5. \A u \in Timed : timeoutAt'[u] <= now + Duration(u)
    BY <2>3, TimerTypes, DurationFacts DEF IInv, TimeInv
  <2>6. \A u \in Timed : life'[u] = "live" /\ ~ timerSet[u] =>
          now + Duration(u) <= timeoutAt'[u] + spent
    BY <2>3, <2>4, TimerTypes, DurationFacts DEF IInv, TimeInv
  <2> QED BY <2>2, <2>5, <2>6 DEF IInv, TimeInv
<1>7. CASE TakeMail
  BY <1>7 DEF TakeMail, IInv, TimeInv
<1>8. CASE AwaitMail
  BY <1>8 DEF AwaitMail, IInv, TimeInv
<1>9. CASE EnterPoll
  <2>1. /\ pc = "run" /\ pc' = "poll"
        /\ UNCHANGED <<now, spent, sleepRegister, sleepStore, timeoutAt, timerSet, life>>
    BY <1>9 DEF EnterPoll
  <2>2. deadline' = now \/ deadline' = now + SleepFor
    BY <1>9 DEF EnterPoll
  <2>3. /\ SleepFor \in Nat /\ SleepFor <= LongestPoll
        /\ SleepFor = MaxSleep \/ \A e \in sleepStore : now + SleepFor <= e[1]
    BY SleepFacts DEF IInv
  <2>4. /\ \A e \in sleepStore : now <= e[1] + spent
        /\ \A e \in sleepRegister : now + Duration(e[2]) <= e[1] + spent
    BY <2>1 DEF IInv, TimeInv
  <2>5. \A e \in sleepStore : deadline' <= e[1] + spent + MaxSleep /\ now <= e[1] + spent + MaxSleep
    BY <2>2, <2>3, <2>4, TimerTypes, DurationFacts DEF IInv
  <2>6. \A e \in sleepRegister : /\ deadline' + Duration(e[2]) <= e[1] + spent + LongestPoll
                                /\ now + Duration(e[2]) <= e[1] + spent + LongestPoll
    BY <2>2, <2>3, <2>4, TimerTypes, DurationFacts DEF IInv
  <2> QED BY <2>1, <2>5, <2>6 DEF IInv, TimeInv
<1>10. CASE LeavePoll
  BY <1>10 DEF LeavePoll, IInv, TimeInv
<1>11. CASE WakeReader
  BY <1>11 DEF WakeReader, IInv, TimeInv
<1>12. CASE EmptyPipe
  BY <1>12 DEF EmptyPipe, IInv, TimeInv
<1>13. CASE Tick
  <2>1. /\ now' = now + 1
        /\ UNCHANGED <<pc, deadline, sleepRegister, sleepStore, timeoutAt, timerSet, life>>
    BY <1>13 DEF Tick
  <2>2. /\ \A e \in sleepRegister \cup sleepStore : e[1] <= now' + Duration(e[2])
        /\ \A t \in Timed : timeoutAt[t] <= now' + Duration(t)
    BY <2>1, TimerTypes, DurationFacts DEF IInv, TimeInv
  <2>3. CASE pc = "run"
    <3>1. spent' = spent + 1
      BY <1>13, <2>3 DEF Tick
    <3>2. \A t \in Timed : life[t] = "live" /\ ~ timerSet[t] =>
             now' + Duration(t) <= timeoutAt[t] + spent'
      BY <2>1, <3>1, TimerTypes, DurationFacts DEF IInv, TimeInv
    <3>3. /\ \A e \in sleepStore : now' <= e[1] + spent'
          /\ \A e \in sleepRegister : now' + Duration(e[2]) <= e[1] + spent'
      BY <2>1, <2>3, <3>1, TimerTypes, DurationFacts DEF IInv, TimeInv
    <3> QED BY <2>1, <2>2, <2>3, <3>2, <3>3 DEF TimeInv
  <2>4. CASE pc = "poll"
    <3>1. spent' = spent /\ now < deadline
      BY <1>13, <2>4, TimerTypes DEF Tick, CanReturn, IInv
    <3>2. ASSUME NEW t \in Timed, life[t] = "live" PROVE timerSet[t]
      <4>1. t \in Tasks /\ t \notin Resolvers
        BY TaskAssumption DEF Tasks, Timed
      <4>2. ~ scheduled[t]
        BY <2>4, <3>1, <4>1, QueuedInPoll, TimerTypes DEF IInv
      <4>3. running # t
        BY <2>4, <4>1, OnlyInRun
      <4> QED BY <3>2, <4>2, <4>3 DEF IInv, TimerInv, Asleep
    <3>3. /\ \A e \in sleepStore : now' <= e[1] + spent + MaxSleep
          /\ \A e \in sleepRegister : now' + Duration(e[2]) <= e[1] + spent + LongestPoll
      BY <2>1, <2>4, <3>1, TimerTypes, DurationFacts DEF IInv, TimeInv
    <3> QED BY <2>1, <2>2, <2>4, <3>1, <3>2, <3>3 DEF IInv, TimeInv
  <2> QED BY <1>13, <2>3, <2>4 DEF Tick
<1>14. ASSUME NEW t \in Readers, TimesOut(t) PROVE TimeInv'
  BY <1>14 DEF TimesOut, IInv, TimeInv
<1>15. ASSUME NEW t \in Readers, Reads(t) PROVE TimeInv'
  <2>1. /\ t \in Timed
        /\ Duration(t) = ReadTimeout /\ timeoutAt' = [timeoutAt EXCEPT ![t] = now + ReadTimeout]
        /\ timerSet' = [timerSet EXCEPT ![t] = FALSE]
    BY <1>15, TaskAssumption DEF Reads, Duration, Timed
  <2>2. UNCHANGED <<pc, now, spent, deadline, sleepRegister, sleepStore, life>>
    BY <1>15 DEF Reads
  <2>3. \A u \in Timed : u # t => timeoutAt'[u] = timeoutAt[u] /\ timerSet'[u] = timerSet[u]
    BY <2>1 DEF IInv, TypeOK
  <2>4. timeoutAt'[t] = now + Duration(t)
    BY <2>1 DEF IInv, TypeOK
  <2>5. \A u \in Timed : timeoutAt'[u] <= now + Duration(u)
    BY <2>3, <2>4, TimerTypes, DurationFacts DEF IInv, TimeInv
  <2>6. \A u \in Timed : life[u] = "live" /\ ~ timerSet'[u] =>
          now + Duration(u) <= timeoutAt'[u] + spent
    BY <2>3, <2>4, TimerTypes, DurationFacts DEF IInv, TimeInv
  <2> QED BY <2>2, <2>5, <2>6 DEF IInv, TimeInv
<1>16. ASSUME NEW t \in Readers, Waits(t) PROVE TimeInv'
  <2>1. t \in Timed /\ t \in Tasks /\ pc = "run" /\ life[t] = "live"
    BY <1>16, OnlyInRun DEF Waits, Polling, Tasks, Timed
  <2>2. UNCHANGED <<pc, now, spent, deadline, timeoutAt, sleepStore, life>>
    BY <1>16 DEF Waits
  <2>3. \A u \in Timed : ~ timerSet'[u] => ~ timerSet[u]
    BY <1>16 DEF Waits, SetTimer, IInv, TypeOK
  <2>4. ASSUME NEW e \in sleepRegister', e \notin sleepRegister
        PROVE  e[1] = timeoutAt[t] /\ e[2] = t /\ now + Duration(t) <= timeoutAt[t] + spent
    BY <1>16, <2>1, <2>4 DEF Waits, SetTimer, IInv, TimeInv
  <2>5. /\ \A e \in sleepRegister' : now + Duration(e[2]) <= e[1] + spent
        /\ \A e \in sleepRegister' : e[1] <= now + Duration(e[2])
    BY <2>1, <2>4 DEF IInv, TimeInv
  <2> QED BY <2>1, <2>2, <2>3, <2>5 DEF IInv, TimeInv
<1>17. ASSUME NEW t \in Sleepers, SleepEnds(t) PROVE TimeInv'
  <2>1. /\ t \in Timed
        /\ Duration(t) = SleepTime /\ timeoutAt' = [timeoutAt EXCEPT ![t] = now + SleepTime]
        /\ timerSet' = [timerSet EXCEPT ![t] = FALSE]
    BY <1>17, TaskAssumption DEF SleepEnds, TimerUnset, Duration, Timed
  <2>2. UNCHANGED <<pc, now, spent, deadline, sleepRegister, sleepStore, life>>
    BY <1>17 DEF SleepEnds
  <2>3. \A u \in Timed : u # t => timeoutAt'[u] = timeoutAt[u] /\ timerSet'[u] = timerSet[u]
    BY <2>1 DEF IInv, TypeOK
  <2>4. timeoutAt'[t] = now + Duration(t)
    BY <2>1 DEF IInv, TypeOK
  <2>5. \A u \in Timed : timeoutAt'[u] <= now + Duration(u)
    BY <2>3, <2>4, TimerTypes, DurationFacts DEF IInv, TimeInv
  <2>6. \A u \in Timed : life[u] = "live" /\ ~ timerSet'[u] =>
          now + Duration(u) <= timeoutAt'[u] + spent
    BY <2>3, <2>4, TimerTypes, DurationFacts DEF IInv, TimeInv
  <2> QED BY <2>2, <2>5, <2>6 DEF IInv, TimeInv
<1>18. ASSUME NEW t \in Sleepers, Sleeps(t) PROVE TimeInv'
  <2>1. t \in Timed /\ t \in Tasks /\ pc = "run" /\ life[t] = "live"
    BY <1>18, OnlyInRun DEF Sleeps, Polling, Tasks, Timed
  <2>2. UNCHANGED <<pc, now, spent, deadline, timeoutAt, sleepStore, life>>
    BY <1>18 DEF Sleeps
  <2>3. \A u \in Timed : ~ timerSet'[u] => ~ timerSet[u]
    BY <1>18 DEF Sleeps, SetTimer, IInv, TypeOK
  <2>4. ASSUME NEW e \in sleepRegister', e \notin sleepRegister
        PROVE  e[1] = timeoutAt[t] /\ e[2] = t /\ now + Duration(t) <= timeoutAt[t] + spent
    BY <1>18, <2>1, <2>4 DEF Sleeps, SetTimer, IInv, TimeInv
  <2>5. /\ \A e \in sleepRegister' : now + Duration(e[2]) <= e[1] + spent
        /\ \A e \in sleepRegister' : e[1] <= now + Duration(e[2])
    BY <2>1, <2>4 DEF IInv, TimeInv
  <2> QED BY <2>1, <2>2, <2>3, <2>5 DEF IInv, TimeInv
<1>19. ASSUME NEW t \in Resolvers, FirstCall(t) PROVE TimeInv'
  BY <1>19 DEF FirstCall, IInv, TimeInv
<1>20. ASSUME NEW t \in Resolvers, StoreWaker(t) PROVE TimeInv'
  BY <1>20 DEF StoreWaker, IInv, TimeInv
<1>21. ASSUME NEW t \in Resolvers, TakeResult(t) PROVE TimeInv'
  <2>1. UNCHANGED <<pc, now, spent, deadline, sleepRegister, sleepStore, timeoutAt, timerSet>>
    BY <1>21 DEF TakeResult
  <2>2. \A u \in Timed : life'[u] = life[u]
    BY <1>21, TaskAssumption DEF TakeResult, Timed, Tasks, IInv, TypeOK
  <2> QED BY <2>1, <2>2 DEF IInv, TimeInv
<1>22. ASSUME NEW t \in Resolvers, AwaitResult(t) PROVE TimeInv'
  BY <1>22 DEF AwaitResult, IInv, TimeInv
<1>23. ASSUME NEW t \in Resolvers, NEW r \in Calls, ThreadFinishes(t, r) PROVE TimeInv'
  BY <1>23 DEF ThreadFinishes, ThreadUnchanged, IInv, TimeInv
<1>24. ASSUME NEW t \in Resolvers, NEW r \in Calls, ThreadPanics(t, r) PROVE TimeInv'
  BY <1>24 DEF ThreadPanics, ThreadUnchanged, IInv, TimeInv
<1>25. ASSUME NEW t \in Resolvers, NEW r \in Calls, ThreadTakesWaker(t, r) PROVE TimeInv'
  BY <1>25 DEF ThreadTakesWaker, ThreadUnchanged, IInv, TimeInv
<1>26. ASSUME NEW t \in Resolvers, NEW r \in Calls, ThreadSetsFlag(t, r) PROVE TimeInv'
  BY <1>26 DEF ThreadSetsFlag, ThreadUnchanged, IInv, TimeInv
<1>27. ASSUME NEW t \in Resolvers, NEW r \in Calls, ThreadPushes(t, r) PROVE TimeInv'
  BY <1>27 DEF ThreadPushes, ThreadUnchanged, IInv, TimeInv
<1>28. ASSUME NEW t \in Resolvers, NEW r \in Calls, ThreadPokes(t, r) PROVE TimeInv'
  BY <1>28 DEF ThreadPokes, ThreadUnchanged, IInv, TimeInv
<1>29. ASSUME NEW t \in Readers, DataArrives(t) PROVE TimeInv'
  BY <1>29 DEF DataArrives, IInv, TimeInv
<1>30. CASE UNCHANGED vars
  BY <1>30 DEF vars, IInv, TimeInv
<1> QED
  BY <1>1, <1>2, <1>3, <1>4, <1>5, <1>6, <1>7, <1>8, <1>9, <1>10, <1>11, <1>12, <1>13,
     <1>14, <1>15, <1>16, <1>17, <1>18, <1>19, <1>20, <1>21, <1>22, <1>23, <1>24, <1>25,
     <1>26, <1>27, <1>28, <1>29, <1>30
  DEF Next, ExecutorStep, ThreadStep

-----------------------------------------------------------------------------
(* The theorems                                                             *)

(* The invariant holds at the start.                                        *)
LEMMA InitIInv == Init => IInv
<1> SUFFICES ASSUME Init PROVE IInv
  OBVIOUS
<1>0. Main \in Tasks /\ NoTask \notin Tasks /\ Main \notin Timed /\ Main \notin Resolvers
  BY TaskAssumption DEF Tasks, Timed
<1>1. TypeOK
  <2>1. queue \in Seq(Tasks) /\ batch \in Seq(Tasks)
    BY <1>0 DEF Init
  <2>2. scheduled \in [Tasks -> BOOLEAN] /\ life \in [Tasks -> {"unborn", "live", "finished"}]
    BY DEF Init
  <2>3. /\ timerSet \in [Timed -> BOOLEAN] /\ storedWaker \in [Resolvers -> BOOLEAN]
        /\ waker \in [Resolvers -> [Calls -> BOOLEAN]]
        /\ result \in [Resolvers -> [Calls -> BOOLEAN]]
    BY DEF Init
  <2>4. 0 \in 0..PipeCap /\ 0 \in 0..Slack /\ 0 \in 0..MaxCalls
    BY TimeAssumption, SizeAssumption
  <2>5. /\ data \in [Readers -> Nat] /\ taken \in [Readers -> Nat]
        /\ timeoutAt \in [Timed -> Nat] /\ call \in [Resolvers -> 0..MaxCalls]
    BY <2>4 DEF Init
  <2>6. mail \in Nat /\ mainWaits \in BOOLEAN
    BY DEF Init
  <2>7. thread \in [Resolvers -> [Calls -> {"none", "working", "stored", "dead",
                    "waking", "pushing", "poking", "done"}]]
    BY DEF Init
  <2> QED BY <2>1, <2>2, <2>3, <2>4, <2>5, <2>6, <2>7 DEF Init, TypeOK
<1>2. Phase
  BY DEF Init, Phase
<1>3. Scheduling
  <2>1. Len(queue) = 1 /\ queue[1] = Main /\ Len(batch) = 0
    BY DEF Init
  <2>2. \A t \in Tasks : ~ Pushing(t) /\ (scheduled[t] <=> t = Main)
    BY DEF Init, Pushing
  <2>3. \A t : ~ In(batch, t) /\ (In(queue, t) <=> t = Main)
    BY <2>1 DEF In
  <2>4. Distinct(queue) /\ Distinct(batch)
    BY <2>1 DEF Distinct
  <2> QED BY <2>2, <2>3, <2>4 DEF Scheduling, Init
<1>4. Unborn
  BY <1>0 DEF Init, Unborn, Timed, Tasks
<1>5. PollInv
  BY DEF Init, PollInv, NoLostWakeup
<1>6. TimerInv
  BY <1>0 DEF Init, TimerInv, Asleep, Timed, Tasks
<1>7. CallInv
  BY <1>0 DEF Init, CallInv, CallOf, Asleep, Tasks
<1>8. MainInv
  BY <1>0 DEF Init, MainInv, Asleep
<1>9. TimeInv
  BY <1>0, DurationFacts DEF Init, TimeInv, Timed, Tasks
<1> QED BY <1>1, <1>2, <1>3, <1>4, <1>5, <1>6, <1>7, <1>8, <1>9 DEF IInv

(* Every step keeps the invariant.                                          *)
LEMMA NextIInv == IInv /\ [Next]_vars => IInv'
  BY NextTypeOK, NextPhase, NextScheduling, NextUnborn, NextPollInv, NextTimerInv,
     NextCallInv, NextMainInv, NextTimeInv DEF IInv

(* The invariant holds always.                                              *)
LEMMA Invariance == Spec => []IInv
  BY InitIInv, NextIInv, PTL DEF Spec

(* The places of a task: none without the flag, one with it.                *)
LEMMA OnePlace == IInv => QueuedOnce
<1> SUFFICES ASSUME IInv, NEW t \in Tasks
             PROVE  Cardinality(Places(t)) = IF scheduled[t] THEN 1 ELSE 0
  BY DEF QueuedOnce
<1> DEFINE Q == {i \in 1..Len(queue) : queue[i] = t}
           B == {i \in 1..Len(batch) : batch[i] = t}
           T == {r \in Calls : t \in Resolvers /\ thread[t][r] = "pushing"}
<1>0. Places(t) = ({"queue"} \X Q) \cup ({"batch"} \X B) \cup ({"thread"} \X T)
  BY DEF Places
<1>1. /\ In(queue, t) <=> Q # {}
      /\ In(batch, t) <=> B # {}
      /\ Pushing(t) <=> T # {}
  BY DEF In, Pushing
<1>2. /\ \A i, j \in Q : i = j
      /\ \A i, j \in B : i = j
      /\ \A i, j \in T : i = j
  BY DEF IInv, Scheduling, Distinct
<1>3. /\ ~ (In(queue, t) /\ In(batch, t))
      /\ Pushing(t) => ~ In(queue, t) /\ ~ In(batch, t)
      /\ scheduled[t] <=> In(queue, t) \/ In(batch, t) \/ Pushing(t)
  BY DEF IInv, Scheduling
<1> HIDE DEF Q, B, T
<1>4. CASE ~ scheduled[t]
  <2>1. Places(t) = {}
    BY <1>0, <1>1, <1>3, <1>4
  <2> QED BY <2>1, <1>4, FS_EmptySet
<1>5. CASE scheduled[t]
  <2>1. \E p : Places(t) = {p}
    <3>1. CASE In(queue, t)
      <4>1. B = {} /\ T = {}
        BY <1>1, <1>3, <3>1
      <4>2. PICK i \in Q : Q = {i}
        BY <1>1, <1>2, <3>1
      <4>3. Places(t) = {<<"queue", i>>}
        BY <1>0, <4>1, <4>2
      <4> QED BY <4>3
    <3>2. CASE In(batch, t)
      <4>1. Q = {} /\ T = {}
        BY <1>1, <1>3, <3>2
      <4>2. PICK i \in B : B = {i}
        BY <1>1, <1>2, <3>2
      <4>3. Places(t) = {<<"batch", i>>}
        BY <1>0, <4>1, <4>2
      <4> QED BY <4>3
    <3>3. CASE Pushing(t)
      <4>1. Q = {} /\ B = {}
        BY <1>1, <1>3, <3>3
      <4>2. PICK i \in T : T = {i}
        BY <1>1, <1>2, <3>3
      <4>3. Places(t) = {<<"thread", i>>}
        BY <1>0, <4>1, <4>2
      <4> QED BY <4>3
    <3> QED BY <1>3, <1>5, <3>1, <3>2, <3>3
  <2> QED BY <2>1, <1>5, FS_Singleton
<1> QED BY <1>4, <1>5

(* A woken task is in exactly one of the queue, the batch and the hands of  *)
(* a thread that pushes it, however the executor, the tasks and the helper  *)
(* threads interleave (Task::wake_by_ref, run_forever).                     *)
THEOREM WokenTaskInOnePlace == Spec => []QueuedOnce
  BY Invariance, OnePlace, PTL

(* The executor never waits in poll() over a queued task: there is a byte   *)
(* in the pipe, or about to be, or poll() has nothing to wait for.          *)
THEOREM NeverBlocksOverATask == Spec => []NoLostWakeup
<1>1. IInv => NoLostWakeup
  BY DEF IInv, PollInv
<1> QED BY <1>1, Invariance, PTL

(* Every live task that is neither queued nor running waits for something   *)
(* that has not happened and that will wake it (fn_thread_future,           *)
(* TimeoutFuture, SleepFuture, the channel of the main loop).               *)
THEOREM NobodyIsForgotten == Spec => []NobodyForgotten
<1>1. ASSUME IInv PROVE NobodyForgotten
  <2>1. ASSUME NEW t \in Timed, Asleep(t)
        PROVE  /\ t \in Readers => t \in pollRegister \cup watched
               /\ \E e \in sleepRegister \cup sleepStore : e[2] = t /\ e[1] = timeoutAt[t]
    BY <1>1, <2>1 DEF IInv, TimerInv
  <2>2. ASSUME NEW t \in Resolvers, Asleep(t)
        PROVE  /\ call[t] > 0
               /\ result[t][call[t]] => \/ thread[t][call[t]] = "stored" /\ waker[t][call[t]]
                                        \/ thread[t][call[t]] = "waking"
    <3>1. call[t] > 0 /\ call[t] \in Calls /\ life[t] = "live"
      BY <1>1, <2>2 DEF IInv, CallInv, CallOf, TypeOK, Calls, Asleep
    <3>2. thread[t][call[t]] \in {"none", "working", "stored", "dead",
                    "waking", "pushing", "poking", "done"}
      BY <1>1, <3>1 DEF IInv, TypeOK
    <3> QED BY <1>1, <2>2, <3>1, <3>2 DEF IInv, CallInv, CallOf
  <2> QED BY <1>1, <2>1, <2>2 DEF IInv, MainInv, NobodyForgotten
<1> QED BY <1>1, Invariance, PTL

(* No timer is later than its Lateness and the time that the tasks take     *)
(* (run_forever, SleepStore, SLEEP_REGISTER).                               *)
THEOREM NoTimerIsLate == Spec => []TimersAreOnTime
<1>1. ASSUME IInv PROVE TimersAreOnTime
  <2>1. spent <= Slack /\ spent \in Nat /\ Slack \in Nat
    BY <1>1, TimeAssumption DEF IInv, TypeOK
  <2>2. \A e \in sleepRegister \cup sleepStore : now <= e[1] + spent + Lateness(e[2])
    <3>1. CASE pc = "timers"
      BY <1>1, <3>1 DEF IInv, Phase, TimeInv
    <3>2. CASE pc = "run"
      BY <1>1, <3>2, TimerTypes DEF IInv, TimeInv
    <3>3. CASE pc \in {"poll", "sweep", "top"}
      BY <1>1, <3>3, TimerTypes, DurationFacts DEF IInv, TimeInv
    <3> QED BY <1>1, <3>1, <3>2, <3>3 DEF IInv, TypeOK
  <2> QED BY <1>1, <2>1, <2>2, TimerTypes DEF IInv, TimersAreOnTime
<1> QED BY <1>1, Invariance, PTL
=============================================================================
