------------------------------ MODULE TaskPool ------------------------------
(***************************************************************************)
(* The task pool of the host: TaskPool (task_pool.h), a deque of tasks to  *)
(* run now and a list of tasks to run later, and ThreadPool                *)
(* (thread_pool.h), the workers that run them.                             *)
(*                                                                         *)
(* Two mutexes guard it.  TaskPool::_task_mutex makes each call on the two *)
(* lists atomic.  ThreadPool::_lock is held by a submitter while it pushes *)
(* and notifies, and by a worker from its last look at the lists until it  *)
(* sleeps; cancel() and delay() do not take it.                            *)
(***************************************************************************)
EXTENDS Integers, SequencesExt

CONSTANTS Task,            \* the tasks ever submitted
          Worker,          \* the threads of start(n)
          NoTask, NoOne,
          MaxTime,         \* bound: the clock stops there
          MayDelay         \* delay() is called; the host never does

ASSUME PoolAssumption == /\ NoTask \notin Task
                         /\ Worker # {}
                         /\ NoOne \notin Worker
                         /\ MaxTime \in Nat
                         /\ MayDelay \in BOOLEAN

VARIABLES now,             \* steady_clock::now()
          tasks,           \* _tasks
          timers,          \* _timer_tasks: the soonest at the back
          at,              \* at[t]: the time point of t in _timer_tasks
          submitted,       \* the tasks that were pushed, ever
          continue,        \* _continue
          late,            \* the tasks pushed after stop()
          lock,            \* who holds ThreadPool::_lock between two steps
          pc,              \* pc[w]: where worker w is in _main()
          wake,            \* wake[w]: when its wait ends by itself
          cur              \* cur[w]: the task it runs

lists == <<tasks, timers, at, submitted, late>>
workers == <<lock, pc, wake, cur>>
vars == <<now, lists, continue, workers>>

Time == 0..MaxTime
Forever == MaxTime + 1

WorkerPC == {"top", "pop", "empty", "ready", "next", "wait", "woken", "run",
             "drain", "drainRun", "exited"}

TypeOK == /\ now \in Time
          /\ tasks \in Seq(Task)
          /\ timers \in Seq(Task)
          /\ at \in [Task -> Time]
          /\ submitted \subseteq Task
          /\ continue \in BOOLEAN
          /\ late \subseteq Task
          /\ lock \in Worker \union {NoOne}
          /\ pc \in [Worker -> WorkerPC]
          /\ wake \in [Worker -> Time \union {Forever}]
          /\ cur \in [Worker -> Task \union {NoTask}]

\* After start(n).
Init == /\ now = 0
        /\ tasks = <<>> /\ timers = <<>> /\ at = [t \in Task |-> 0]
        /\ submitted = {} /\ late = {}
        /\ continue = TRUE
        /\ lock = NoOne
        /\ pc = [w \in Worker |-> "top"]
        /\ wake = [w \in Worker |-> Forever]
        /\ cur = [w \in Worker |-> NoTask]

-----------------------------------------------------------------------------
(* The condition variable *)

Waiting == {w \in Worker : pc[w] = "wait"}

NotifyAll == pc' = [w \in Worker |-> IF pc[w] = "wait" THEN "woken" ELSE pc[w]]

NotifyOne == IF Waiting = {} THEN UNCHANGED pc
             ELSE \E w \in Waiting : pc' = [pc EXCEPT ![w] = "woken"]

-----------------------------------------------------------------------------
(* The lists *)

\* Where pushDelayed() puts a time point: before the first one that is sooner.
IsPlace(i, time) == /\ \A j \in 1..i - 1 : at[timers[j]] >= time
                    /\ i <= Len(timers) => at[timers[i]] < time

\* The pass delay() makes from position i to the front, over time points a.
Bubble(a, i) ==
  LET pass[k \in 0..i - 1] ==
        IF k = 0 THEN timers
        ELSE LET s == pass[k - 1]
                 j == i - k + 1
             IN IF a[s[j]] > a[s[j - 1]]
                THEN [s EXCEPT ![j] = s[j - 1], ![j - 1] = s[j]]
                ELSE s
  IN pass[i - 1]

\* The task whose time has come, at the back of the list.
TimerDue == timers # <<>> /\ at[Last(timers)] <= now

\* ready()
Ready == tasks # <<>> \/ TimerDue

\* Faulty: the timer stays in the list while it runs.
PopKeeps(t) == IF tasks # <<>>
               THEN t = Head(tasks) /\ tasks' = Tail(tasks) /\ UNCHANGED timers
               ELSE TimerDue /\ t = Last(timers) /\ UNCHANGED <<tasks, timers>>

\* pop() returns t: tasks go first, whatever timers are overdue.
Pop(t) == IF tasks # <<>>
          THEN t = Head(tasks) /\ tasks' = Tail(tasks) /\ UNCHANGED timers
          ELSE /\ TimerDue /\ t = Last(timers)
               /\ timers' = Front(timers) /\ UNCHANGED tasks

-----------------------------------------------------------------------------
(* The submitters: any thread, a running task included *)

\* ThreadPool::push
Push(t) == /\ lock = NoOne /\ t \notin submitted
           /\ tasks' = Append(tasks, t)
           /\ submitted' = submitted \union {t}
           /\ late' = IF continue THEN late ELSE late \union {t}
           /\ NotifyOne
           /\ UNCHANGED <<now, timers, at, continue, lock, wake, cur>>

\* ThreadPool::pushDelayed
PushDelayed(t, time) ==
  /\ lock = NoOne /\ t \notin submitted /\ time >= now
  /\ at' = [at EXCEPT ![t] = time]
  /\ \E i \in 1..Len(timers) + 1 :
        IsPlace(i, time) /\ timers' = InsertAt(timers, i, t)
  /\ submitted' = submitted \union {t}
  /\ late' = IF continue THEN late ELSE late \union {t}
  /\ NotifyAll
  /\ UNCHANGED <<now, tasks, continue, lock, wake, cur>>

\* TaskPool::delay: no worker is notified.
Delay(i, time) ==
  /\ MayDelay /\ i \in 1..Len(timers) /\ time >= now
  /\ at' = [at EXCEPT ![timers[i]] = time]
  /\ timers' = Bubble(at', i)
  /\ UNCHANGED <<now, tasks, submitted, late, continue, workers>>

\* Faulty: the task is moved out and its place in the list stays.
CancelMoves(i) == /\ i \in 1..Len(timers)
                  /\ timers' = ReplaceAt(timers, i, NoTask)
                  /\ UNCHANGED <<now, tasks, at, submitted, late, continue, workers>>

\* TaskPool::cancel returns true; else nothing changes.
Cancel(i) == /\ i \in 1..Len(timers)
             /\ timers' = RemoveAt(timers, i)
             /\ UNCHANGED <<now, tasks, at, submitted, late, continue, workers>>

\* ThreadPool::stop
Stop == /\ lock = NoOne /\ continue
        /\ continue' = FALSE
        /\ NotifyAll
        /\ UNCHANGED <<now, lists, lock, wake, cur>>

Tick == /\ now < MaxTime
        /\ now' = now + 1
        /\ UNCHANGED <<lists, continue, workers>>

-----------------------------------------------------------------------------
(* The workers: ThreadPool::_main *)

Goto(w, label) == pc' = [pc EXCEPT ![w] = label]

\* while (_continue)
Top(w) == /\ pc[w] = "top"
          /\ Goto(w, IF continue THEN "pop" ELSE "drain")
          /\ UNCHANGED <<now, lists, continue, lock, wake, cur>>

Take(w, from, to) == /\ pc[w] = from
                     /\ \E t \in Task : Pop(t) /\ cur' = [cur EXCEPT ![w] = t]
                     /\ Goto(w, to)
                     /\ UNCHANGED <<now, at, submitted, late, continue, lock, wake>>

\* Faulty: a worker of a stopped pool does not look at what is left.
FindNoneOrStopped(w, from, to) == /\ pc[w] = from /\ (~Ready \/ ~continue)
                                  /\ Goto(w, to)
                                  /\ UNCHANGED <<now, lists, continue, lock, wake, cur>>

FindNone(w, from, to) == /\ pc[w] = from /\ ~Ready
                         /\ Goto(w, to)
                         /\ UNCHANGED <<now, lists, continue, lock, wake, cur>>

\* The task runs, and is destroyed.
RunTask(w, from, to) == /\ pc[w] = from
                        /\ cur' = [cur EXCEPT ![w] = NoTask]
                        /\ Goto(w, to)
                        /\ UNCHANGED <<now, lists, continue, lock, wake>>

Lock(w) == /\ pc[w] = "empty" /\ lock = NoOne
           /\ lock' = w
           /\ Goto(w, "ready")
           /\ UNCHANGED <<now, lists, continue, wake, cur>>

\* Faulty: the lists are not looked at again under the lock.
CheckContinue(w) == /\ pc[w] = "ready"
                    /\ IF ~continue
                       THEN Goto(w, "drain") /\ lock' = NoOne
                       ELSE Goto(w, "next") /\ UNCHANGED lock
                    /\ UNCHANGED <<now, lists, continue, wake, cur>>

\* Under the lock, once more: is there work, is the pool stopped?
Check(w) == /\ pc[w] = "ready"
            /\ IF Ready
               THEN Goto(w, "top") /\ lock' = NoOne
               ELSE IF ~continue
               THEN Goto(w, "drain") /\ lock' = NoOne
               ELSE Goto(w, "next") /\ UNCHANGED lock
            /\ UNCHANGED <<now, lists, continue, wake, cur>>

\* next(), and the wait, which releases the lock.
Sleep(w) == /\ pc[w] = "next"
            /\ wake' = [wake EXCEPT ![w] = IF timers = <<>> THEN Forever
                                           ELSE at[Last(timers)]]
            /\ Goto(w, "wait")
            /\ lock' = NoOne
            /\ UNCHANGED <<now, lists, continue, cur>>

TimeOut(w) == /\ pc[w] = "wait" /\ wake[w] <= now
              /\ Goto(w, "woken")
              /\ UNCHANGED <<now, lists, continue, lock, wake, cur>>

\* A condition variable may wake up for no reason.
Spurious(w) == /\ pc[w] = "wait" /\ wake[w] > now
               /\ Goto(w, "woken")
               /\ UNCHANGED <<now, lists, continue, lock, wake, cur>>

\* The wait locks again before it returns; the block then ends.
Resume(w) == /\ pc[w] = "woken" /\ lock = NoOne
             /\ Goto(w, "top")
             /\ UNCHANGED <<now, lists, continue, lock, wake, cur>>

WorkerStep(w) == \/ Top(w) \/ Lock(w) \/ Check(w) \/ Sleep(w) \/ TimeOut(w) \/ Resume(w)
                 \/ Take(w, "pop", "run") \/ FindNone(w, "pop", "empty")
                 \/ RunTask(w, "run", "top")
                 \/ Take(w, "drain", "drainRun") \/ FindNone(w, "drain", "exited")
                 \/ RunTask(w, "drainRun", "drain")

Next == \/ \E t \in Task : Push(t) \/ \E time \in Time : PushDelayed(t, time)
        \/ \E i \in 1..Len(timers) : Cancel(i) \/ \E time \in Time : Delay(i, time)
        \/ Stop \/ Tick
        \/ \E w \in Worker : WorkerStep(w) \/ Spurious(w)

Spec == Init /\ [][Next]_vars

\* Time passes, and the workers run; a worker that waits for a lock gets it.
Fairness == WF_vars(Tick) /\ \A w \in Worker : SF_vars(WorkerStep(w))

FairSpec == Spec /\ Fairness

-----------------------------------------------------------------------------
(* Properties *)

\* "smaller time goes to the back": ready(), next() and pop() look only there.
Sorted == \A i, j \in 1..Len(timers) : i < j => at[timers[i]] >= at[timers[j]]

\* A task is somewhere at most once: nothing runs twice.
OneCopy == /\ IsInjective(tasks) /\ IsInjective(timers)
           /\ Range(tasks) \intersect Range(timers) = {}
           /\ \A w \in Worker : cur[w] \notin Range(tasks) \union Range(timers)
           /\ \A v, w \in Worker : cur[v] = cur[w] => v = w \/ cur[v] = NoTask

\* No lost wake-up: while every worker sleeps there is nothing to run, the
\* pool is not stopped, and one of them wakes for the soonest timer.
NoOversleep ==
  Waiting = Worker =>
     /\ tasks = <<>> /\ continue
     /\ \A i \in 1..Len(timers) : \E w \in Worker : wake[w] <= at[timers[i]]

\* "Execute remaining tasks": when the last worker has gone, the tasks left
\* were pushed after stop().
DrainedAtExit ==
  (\A w \in Worker : pc[w] = "exited") => Range(tasks) \subseteq late

\* A task that is due runs, and one that is pushed is not forgotten.
DueRuns == \A t \in Task :
  t \in Range(tasks) \/ (t \in Range(timers) /\ at[t] <= now)
     ~> t \notin Range(tasks) \union Range(timers) \/ ~continue

\* A task runs once, not before its time, and not after it was cancelled.
Board == INSTANCE TaskBoard WITH
           pending <- Range(tasks) \union Range(timers),
           due     <- at,
           running <- {cur[w] : w \in Worker} \ {NoTask}

ImplementsBoard == Board!Spec

-----------------------------------------------------------------------------
(* Model checking: tasks and workers are interchangeable. *)

Symmetry == Permutations(Task) \union Permutations(Worker)
=============================================================================
