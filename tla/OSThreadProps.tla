---------------------------- MODULE OSThreadProps ----------------------------
(***************************************************************************)
(* What makes threads, mutexes and condition variables correct.            *)
(***************************************************************************)
EXTENDS OSThread

\* Every field holds a value of the type the code gives it; a suspend count is
\* never negative, however many resumes a thread gets.
TypeOK ==
  /\ sched \in SchedulerState
  /\ detached \subseteq Threads /\ active \subseteq Threads
  /\ owner \in [Mutexes -> Threads \cup {NoThread}]
  /\ count \in [Mutexes -> Int]
  /\ owned \in [Threads -> Seq(Mutexes)]
  /\ waiting \in [Threads -> Mutexes \cup {NoMutex}]
  /\ val \in [Threads -> Int]

-----------------------------------------------------------------------------
(* The scheduler. *)

Places(t) == {pl \in Queues \X (1 .. Cardinality(Threads)) :
                pl[2] \in DOMAIN sched.q[pl[1]] /\ sched.q[pl[1]][pl[2]] = t}

Queued(t) == \/ sched.state[t] = "WAITING"
             \/ sched.state[t] = "READY" /\ sched.suspend[t] = 0

\* A thread is linked into exactly one queue, once, while it sleeps or could
\* run, and into none otherwise; PORT_THREAD_QUEUE names that queue, the run
\* queue of its priority if it could run.  There is one pair of links per
\* thread: a thread on two lists corrupts both.
QueueMembership ==
  \A t \in Threads :
    IF Queued(t)
    THEN /\ Cardinality(Places(t)) = 1
         /\ \A pl \in Places(t) : pl[1] = sched.queue[t]
         /\ sched.state[t] = "READY" => sched.queue[t] = sched.prio[t]
         /\ sched.state[t] = "WAITING" => sched.queue[t] \in SleepQueues
    ELSE Places(t) = {}

\* runQueueBits tells exactly which run queues hold threads.  A stale bit sends
\* the dispatcher to an empty queue, a missing one hides a thread for good.
RunBits == sched.bits = {p \in Priorities : sched.q[p] # <<>>}

\* Only the current thread is RUNNING, and never while suspended; a current
\* thread that no longer runs is about to be replaced: the hint is set.
OneRunning ==
  /\ \A t \in Threads : sched.state[t] = "RUNNING" => sched.cur = t /\ sched.suspend[t] = 0
  /\ sched.cur # NoThread /\ sched.state[sched.cur] # "RUNNING" => sched.hint

\* What the dispatcher keeps of the threads is exact, whatever was readied, suspended, moved
\* to another priority or put to sleep while the scheduler was disabled: the lists, the
\* summary of them, and who runs.
RunQueuesExact == QueueMembership /\ RunBits /\ OneRunning

\* Some thread could run and is better than the one that does, if any.
Outranked ==
  /\ sched.bits # {}
  /\ \/ sched.cur = NoThread
     \/ sched.state[sched.cur] # "RUNNING"
     \/ BestReady(sched) < sched.prio[sched.cur]

\* The priority of t is better than the one it has a right to.
Overrated(t) == sched.prio[t] < EffectivePriority(sched, owned, t)

\* No call that leaves the scheduler enabled leaves a better thread waiting
\* for the processor, unless one was waiting already (OSEnableScheduler does
\* not reschedule, so what happened while it was disabled may stay pending),
\* or the caller gave up a priority it had no right to: the unlock that lowers
\* it then wakes nobody, and does not set the hint.
NoMissedPreemption ==
  [][~Outranked /\ sched'.disabled = 0 =>
       ~Outranked' \/ (sched.cur # NoThread /\ Overrated(sched.cur))]_vars

Before(ts, t, u) == \E i, j \in DOMAIN ts : i < j /\ ts[i] = t /\ ts[j] = u
In(t, ts) == \E i \in DOMAIN ts : ts[i] = t

\* A thread better than those of priority p runs.
BetterRuns(s, p) == s.cur # NoThread /\ s.state[s.cur] = "RUNNING" /\ s.prio[s.cur] < p

\* The call ends a thread that owned several mutexes: each release dispatches on its own.
ReleasesSeveral == \E t \in Threads : Len(owned[t]) > 1 /\ owned'[t] = <<>>

\* Threads of one priority take turns: whoever becomes runnable, yields or is
\* preempted goes behind those that wait already, and none is dispatched at
\* that priority before one that waited longer.  A turn is lost in one way:
\* the death of the owner of several mutexes dispatches the first of a queue,
\* then wakes a better thread, and the first is now the last of its queue.
TurnsInOrder ==
  [][\A p \in Priorities, t, u \in Threads :
       In(t, sched.q[p]) /\ In(t, sched'.q[p]) /\ t # u =>
         /\ In(u, sched'.q[p]) /\ ~Before(sched.q[p], u, t) =>
              Before(sched'.q[p], t, u) \/ (ReleasesSeveral /\ BetterRuns(sched', p))
         /\ Before(sched.q[p], t, u) /\ sched'.prio[u] = p => sched'.state[u] # "RUNNING"]_vars

\* The sleepers of a queue are in priority order: mutex owners inherit the
\* priority of the first.
SleepersSorted ==
  \A w \in SleepQueues : \A i, j \in DOMAIN sched.q[w] :
    i < j => sched.prio[sched.q[w][i]] <= sched.prio[sched.q[w][j]]

\* A thread whose priority changes while it is linked, because it inherits, stops
\* inheriting, or is suspended or resumed in its sleep, is where the new priority puts
\* it after every call: one that could run in the run queue of that priority, with the bits
\* to match, a sleeper at its place among the sleepers.
PlacesFollowPriority == QueueMembership /\ RunBits /\ SleepersSorted

-----------------------------------------------------------------------------
(* Mutexes. *)

\* A free mutex has count zero: the next lock starts at depth one.
FreeCount == \A m \in Mutexes : owner[m] = NoThread => count[m] = 0

\* The lists that unlock and thread death go through name the owners.
OwnersListed ==
  /\ \A t \in Threads, m \in Mutexes : owner[m] = t <=> m \in ToSet(owned[t])
  /\ \A t \in Threads : IsInjective(owned[t])

\* A mutex names an owner exactly when it is on the list of that owner, once, and has a
\* depth only then: the three views that lock, re-lock, unlock, wait and thread death keep
\* never part.
OwnershipOK == OwnersListed /\ FreeCount

\* No mutex is owned by a thread that has exited or was cancelled.
NoOrphanMutex == \A m \in Mutexes : owner[m] # NoThread => sched.state[owner[m]] \in Live

\* Nobody sleeps for a free mutex: every path that frees one, the death of its
\* owner included, wakes its sleepers.
NoLostWakeup == \A m \in Mutexes : sched.q[m] # <<>> => owner[m] # NoThread

\* Priority inheritance: a thread that is not suspended never has less than the
\* better of its own priority and that of the best sleeper of its mutexes,
\* through every chain of owners; it has its own priority when it owns nothing;
\* and it has no more than it has a right to, where no program waits on a
\* condition.
PriorityIsEffective ==
  \A t \in Threads :
    sched.state[t] \in Live /\ sched.suspend[t] = 0 /\ ~sched.fault =>
      LET effective == EffectivePriority(sched, owned, t)
      IN /\ sched.prio[t] <= effective
         /\ owned[t] = <<>> => sched.prio[t] = sched.base[t]
         /\ Conds = {} => sched.prio[t] = effective

\* The only way to a priority nobody passed on: a thread sleeps on a condition
\* and owns a mutex that another wants, and what it inherits goes on to the
\* owner of the mutex it will lock again, for which it does not sleep.
InheritanceExact ==
  [][\A t \in Threads :
       sched'.state[t] \in Live /\ sched'.suspend[t] = 0 /\ Overrated(t)' =>
         \/ Overrated(t)
         \/ \E u \in Threads : sched.queue[u] \in Conds /\ owned[u] # <<>>]_vars

\* Whom a walk along the owners meets after t: one who waits on a condition is taken to
\* wait for the mutex it will lock again.
WaitsFor(t, u) ==
  sched.state[t] = "WAITING" /\ waiting[t] # NoMutex /\ owner[waiting[t]] = u
Deadlocked == \E S \in SUBSET Threads \ {{}} : \A t \in S : \E u \in S : WaitsFor(t, u)
CondSleeperOfFreeMutex ==
  \E t \in Threads : sched.queue[t] \in Conds /\ owner[waiting[t]] = NoThread

\* The only ways to make the scheduler read through a NULL pointer: cancelling
\* a thread that is in a cycle of waits, which its own cancelled wait is
\* still followed through, and suspending, resuming or cancelling a thread in
\* OSWaitCond while its mutex is free, whose owner is then updated.
NoNullDereference == [][sched'.fault => Deadlocked \/ CondSleeperOfFreeMutex]_vars

\* A thread that comes out of a lock or a wait owns the mutex, and one that
\* waited on a condition has the depth it had, also when it lost the race for
\* the mutex and slept again.
RelockRestoresDepth ==
  [][\A t \in Threads :
       sched.state[t] \in Live /\ waiting[t] # NoMutex /\ waiting'[t] = NoMutex =>
         /\ owner'[waiting[t]] = t
         /\ val[t] > 0 => count'[waiting[t]] = val[t]]_vars

\* The loop in ProcessPendingLocks ends: each of its turns, whether it gets
\* the lock or goes to sleep for it and hands the processor to another thread
\* with a lock to try, leaves fewer threads that the loop could still come to.
Retrying == {t \in Threads : sched.state[t] \in {"READY", "RUNNING"} /\ waiting[t] # NoMutex}
LoopEnds ==
  [][(\E t \in Threads : PendingLock(t)) =>
       Cardinality(Retrying') < Cardinality(Retrying)]_vars

-----------------------------------------------------------------------------
(* What the repository says and the code does not do. *)

\* osthread_oracle.h, oracle_OSCheckMutex: an owned mutex has a positive count.
CountPositive == \A m \in Mutexes : owner[m] # NoThread => count[m] > 0

\* osthread.h: PORT_THREAD_PRIORITY is the thread's "effective" priority; what
\* port_OSGetEffectivePriority computes.
PriorityField ==
  \A t \in Threads :
    sched.state[t] \in Live /\ sched.suspend[t] = 0 => ~Overrated(t)

\* osthread_oracle.h, oracle_OSWaitCond: "val is only used for exit values of
\* moribund threads".  What OSJoinThread collects is an exit value.
MoribundVal ==
  \A t \in Threads : sched.state[t] = "MORIBUND" => val[t] \in ExitValues \cup {DefaultVal}
=============================================================================
