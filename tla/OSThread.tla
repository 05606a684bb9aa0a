------------------------------- MODULE OSThread -------------------------------
(***************************************************************************)
(* Threads, mutexes and condition variables of src/sdk_port/os/osthread.c. *)
(* One action per API function.  The port has no context switch: a call    *)
(* that blocks puts the current thread to sleep and returns, and the       *)
(* driver runs port_ProcessPendingLocks after every call to finish the     *)
(* lock a resumed thread was waiting for.                                  *)
(***************************************************************************)
EXTENDS Scheduler

CONSTANTS
  Default,        \* the default thread, slot 0, running after OSThreadInit
  DefaultPriority,\* its priority (16 in the code)
  WaitQueues,     \* queues used with OSSleepThread and OSWakeupThread directly
  Mutexes,
  Conds,
  Attributes,     \* the detach attributes programs create threads with
  ExitValues,     \* the values threads pass to OSExitThread
  MaxSuspend,     \* bound on a thread's suspend count
  MaxDisable,     \* bound on nested OSDisableScheduler
  MaxCount        \* bound on the depth of a recursive lock, either sign

ASSUME ThreadsAssumption ==
  /\ Default \in Threads
  /\ DefaultPriority \in Priorities
  /\ WaitQueues \cup Mutexes \cup Conds \subseteq SleepQueues
  /\ WaitQueues \cap (Mutexes \cup Conds) = {} /\ Mutexes \cap Conds = {}
  /\ Attributes \subseteq BOOLEAN /\ ExitValues \subseteq Int
  /\ MaxSuspend \in Nat /\ MaxDisable \in Nat /\ MaxCount \in Nat

VARIABLES
  sched,     \* the scheduler's state, see Scheduler.tla
  detached,  \* the threads created with OS_THREAD_ATTR_DETACH
  active,    \* the active-thread list, as a set
  owner,     \* PORT_MUTEX_THREAD, per mutex
  count,     \* PORT_MUTEX_COUNT, per mutex
  owned,     \* the owned-mutex list of each thread
  waiting,   \* PORT_THREAD_MUTEX, per thread
  val        \* PORT_THREAD_VAL, per thread, read as an s32

mutexVars == <<owner, count, owned, waiting>>
vars == <<sched, detached, active, mutexVars, val>>

NoMutex == NoQueue
DefaultVal == -1            \* 0xFFFFFFFF read as an s32

MutexRelations == [owner |-> owner, owned |-> owned, waiting |-> waiting]

-----------------------------------------------------------------------------
(* OSThreadInit, and the OSInitMutex and OSInitCond of every object. *)

Init ==
  /\ sched = [cur |-> Default, bits |-> {}, hint |-> FALSE, disabled |-> 0,
              state |-> [t \in Threads |-> IF t = Default THEN "RUNNING" ELSE "INACTIVE"],
              suspend |-> [t \in Threads |-> 0],
              prio |-> [t \in Threads |-> DefaultPriority],
              base |-> [t \in Threads |-> DefaultPriority],
              queue |-> [t \in Threads |-> NoQueue],
              q |-> [w \in Queues |-> <<>>],
              fault |-> FALSE]
  /\ detached = {Default}
  /\ active = {Default}
  /\ owner = [m \in Mutexes |-> NoThread]
  /\ count = [m \in Mutexes |-> 0]
  /\ owned = [t \in Threads |-> <<>>]
  /\ waiting = [t \in Threads |-> NoMutex]
  /\ val = [t \in Threads |-> DefaultVal]

-----------------------------------------------------------------------------
(* Who may call what. *)

\* t has the processor.
Running(t) == sched.cur = t /\ sched.state[t] = "RUNNING"

\* The current thread was resumed inside a lock it has not got yet.
PendingLock(t) == Running(t) /\ waiting[t] # NoMutex

\* The API is called between two runs of the driver's ProcessPendingLocks.
Settled == ~sched.fault /\ \A t \in Threads : ~PendingLock(t)

\* A program calls from a thread that really runs, and blocks only while the
\* scheduler is enabled.
Program(t) == Settled /\ Running(t)
MayBlock == sched.disabled = 0

-----------------------------------------------------------------------------
(* Threads. *)

OSCreateThread(t, p, detach) ==
  /\ Settled
  /\ sched.state[t] = "INACTIVE"
  /\ sched' = [sched EXCEPT !.state[t] = "READY", !.base[t] = p, !.prio[t] = p,
                            !.suspend[t] = 1, !.queue[t] = NoQueue]
  /\ detached' = IF detach THEN detached \cup {t} ELSE detached \ {t}
  /\ active' = active \cup {t}
  /\ owned' = [owned EXCEPT ![t] = <<>>]
  /\ waiting' = [waiting EXCEPT ![t] = NoMutex]
  /\ val' = [val EXCEPT ![t] = DefaultVal]
  /\ UNCHANGED <<owner, count>>

\* The owner of the mutex that t sleeps for takes its effective priority.
NotifyOwner(s, t) ==
  IF waiting[t] = NoMutex THEN s ELSE UpdatePriority(s, MutexRelations, owner[waiting[t]])

\* Mutant: a resume too many is counted.
LowerBelowZero(n) == n - 1

\* A suspend count after one resume.
Lower(n) == IF n = 0 THEN 0 ELSE n - 1

OSResumeThread(t) ==
  /\ Settled
  /\ sched.state[t] \in Live
  /\ LET s == [sched EXCEPT !.suspend[t] = Lower(@)]
         p == EffectivePriority(s, owned, t)
     IN sched' = IF sched.suspend[t] # 1 THEN s
                 ELSE Reschedule(
                   CASE s.state[t] = "READY"   -> SetRun([s EXCEPT !.prio[t] = p], t)
                     [] s.state[t] = "WAITING" -> NotifyOwner(Reorder(s, t, p), t)
                     [] OTHER                  -> s)
  /\ UNCHANGED <<detached, active, mutexVars, val>>

OSSuspendThread(t) ==
  /\ Settled
  /\ sched.state[t] \in Live
  /\ sched.suspend[t] < MaxSuspend
  /\ LET s == [sched EXCEPT !.suspend[t] = @ + 1]
     IN sched' = IF sched.suspend[t] > 0 THEN s
                 ELSE Reschedule(
                   CASE s.state[t] = "RUNNING" -> [s EXCEPT !.hint = TRUE, !.state[t] = "READY"]
                     [] s.state[t] = "READY"   -> UnsetRun(s, t)
                     [] s.state[t] = "WAITING" -> NotifyOwner(Reorder(s, t, Suspended), t))
  /\ UNCHANGED <<detached, active, mutexVars, val>>

OSSleepThread(t, w) ==
  /\ Program(t) /\ MayBlock
  /\ sched' = SleepThread(sched, w)
  /\ UNCHANGED <<detached, active, mutexVars, val>>

OSWakeupThread(w) ==
  /\ Settled
  /\ sched' = WakeupThread(sched, w)
  /\ UNCHANGED <<detached, active, mutexVars, val>>

OSYieldThread(t) ==
  /\ Program(t)
  /\ sched' = SelectThread(sched, TRUE)
  /\ UNCHANGED <<detached, active, mutexVars, val>>

\* Mutant: a dead thread's mutexes are freed and nobody is woken for them.
BuryWithoutWaking(s, t) ==
  Reschedule([s EXCEPT !.state[t] = IF t \in detached THEN "INACTIVE" ELSE "MORIBUND"])

\* The end of a thread: a detached one leaves the active list, another waits
\* as MORIBUND to be joined.  Its mutexes are released in the order it locked
\* them, and each release may already switch threads.  Nobody ever sleeps on
\* the join queue, so waking it only reschedules.
Bury(s, t) ==
  LET dead == [s EXCEPT !.state[t] = IF t \in detached THEN "INACTIVE" ELSE "MORIBUND"]
  IN Reschedule(FoldLeft(WakeupThread, dead, owned[t]))

\* Mutant: a dead thread keeps its mutexes.
UnlockNoMutex(t) == UNCHANGED <<owner, count, owned>>

UnlockAllMutex(t) ==
  LET mine == ToSet(owned[t])
  IN /\ owner' = [m \in Mutexes |-> IF m \in mine THEN NoThread ELSE owner[m]]
     /\ count' = [m \in Mutexes |-> IF m \in mine THEN 0 ELSE count[m]]
     /\ owned' = [owned EXCEPT ![t] = <<>>]

OSCancelThread(t) ==
  /\ Settled
  /\ sched.state[t] \in Live
  /\ LET suspended == sched.suspend[t] > 0
         asleep == [sched EXCEPT !.q[sched.queue[t]] = RemoveFirst(@, t), !.queue[t] = NoQueue]
     IN sched' = Bury(
          CASE sched.state[t] = "READY"   -> IF suspended THEN sched ELSE UnsetRun(sched, t)
            [] sched.state[t] = "RUNNING" -> [sched EXCEPT !.hint = TRUE]
            [] sched.state[t] = "WAITING" -> IF suspended THEN asleep ELSE NotifyOwner(asleep, t),
          t)
  /\ active' = IF t \in detached THEN active \ {t} ELSE active
  /\ UnlockAllMutex(t)
  /\ UNCHANGED <<detached, waiting, val>>

OSExitThread(t, v) ==
  /\ Program(t)
  /\ sched' = SelectThread([Bury(sched, t) EXCEPT !.hint = TRUE], FALSE)
  /\ active' = IF t \in detached THEN active \ {t} ELSE active
  /\ val' = IF t \in detached THEN val ELSE [val EXCEPT ![t] = v]
  /\ UnlockAllMutex(t)
  /\ UNCHANGED <<detached, waiting>>

\* The non-blocking join: only a MORIBUND thread is collected.
OSJoinThread(t) ==
  /\ Settled
  /\ t \notin detached
  /\ sched.state[t] = "MORIBUND"
  /\ sched' = [sched EXCEPT !.state[t] = "INACTIVE"]
  /\ active' = active \ {t}
  /\ UNCHANGED <<detached, mutexVars, val>>

OSDisableScheduler ==
  /\ Settled
  /\ sched.disabled < MaxDisable
  /\ sched' = [sched EXCEPT !.disabled = @ + 1]
  /\ UNCHANGED <<detached, active, mutexVars, val>>

\* Enabling does not reschedule; callers pair it with a disable.
OSEnableScheduler ==
  /\ Settled
  /\ sched.disabled > 0
  /\ sched' = [sched EXCEPT !.disabled = @ - 1]
  /\ UNCHANGED <<detached, active, mutexVars, val>>

-----------------------------------------------------------------------------
(* Mutexes. *)

\* t takes mutex m, free or already its own, and the count becomes n.
Acquire(t, m, n) ==
  /\ owner' = [owner EXCEPT ![m] = t]
  /\ count' = [count EXCEPT ![m] = n]
  /\ owned' = IF owner[m] = t THEN owned ELSE [owned EXCEPT ![t] = Append(@, m)]
  /\ UNCHANGED sched

\* Mutant: a released mutex stays on the list of its last owner.
ReleaseStillOwned(t, m) ==
  /\ owner' = [owner EXCEPT ![m] = NoThread]
  /\ count' = [count EXCEPT ![m] = 0]
  /\ UNCHANGED owned

\* t gives mutex m up, whatever the count.
Release(t, m) ==
  /\ owner' = [owner EXCEPT ![m] = NoThread]
  /\ count' = [count EXCEPT ![m] = 0]
  /\ owned' = [owned EXCEPT ![t] = RemoveFirst(@, m)]

\* Mutant: what was inherited is kept after the unlock.
KeepInherited(s, t, stillOwned) == s

\* A thread that had inherited a priority falls back to what it still deserves.
DropInherited(s, t, stillOwned) ==
  IF s.prio[t] < s.base[t]
  THEN [s EXCEPT !.prio[t] = EffectivePriority(s, stillOwned, t)]
  ELSE s

Lockable(t, m) == owner[m] \in {NoThread, t}

\* Mutant: a contender yields and tries again instead of going to sleep.
ContendAwake(t, m) ==
  /\ waiting' = [waiting EXCEPT ![t] = m]
  /\ sched' = SelectThread(sched, TRUE)
  /\ UNCHANGED <<owner, count, owned>>

\* t finds m taken: the owner inherits t's priority and t sleeps for m.
Contend(t, m) ==
  LET wants == [waiting EXCEPT ![t] = m]
      relations == [MutexRelations EXCEPT !.waiting = wants]
  IN /\ sched' = SleepThread(PromoteThread(sched, relations, owner[m], sched.prio[t]), m)
     /\ waiting' = wants
     /\ UNCHANGED <<owner, count, owned>>

OSLockMutex(t, m) ==
  /\ Program(t)
  /\ \/ /\ Lockable(t, m)
        /\ count[m] < MaxCount
        /\ Acquire(t, m, count[m] + 1)
        /\ UNCHANGED waiting
     \/ /\ ~Lockable(t, m) /\ MayBlock
        /\ Contend(t, m)
  /\ UNCHANGED <<detached, active, val>>

OSTryLockMutex(t, m) ==
  /\ Program(t)
  /\ Lockable(t, m)
  /\ count[m] < MaxCount
  /\ Acquire(t, m, count[m] + 1)
  /\ UNCHANGED <<detached, active, waiting, val>>

OSUnlockMutex(t, m) ==
  /\ Program(t)
  /\ owner[m] = t
  /\ \/ /\ count[m] = 1
        /\ Release(t, m)
        /\ sched' = WakeupThread(DropInherited(sched, t, owned'), m)
     \/ /\ count[m] # 1
        /\ count[m] > -MaxCount
        /\ count' = [count EXCEPT ![m] = @ - 1]
        /\ UNCHANGED <<sched, owner, owned>>
  /\ UNCHANGED <<detached, active, waiting, val>>

\* The mutex is released, its sleepers become runnable without a switch, and
\* the caller sleeps on the condition.  Its waiting and val fields keep the
\* mutex and the depth for the re-lock.
OSWaitCond(t, c, m) ==
  /\ Program(t) /\ MayBlock
  /\ owner[m] = t
  /\ Release(t, m)
  /\ sched' = SleepThread(WakeSleepers(DropInherited(sched, t, owned'), m), c)
  /\ waiting' = [waiting EXCEPT ![t] = m]
  /\ val' = [val EXCEPT ![t] = count[m]]
  /\ UNCHANGED <<detached, active>>

OSSignalCond(c) == OSWakeupThread(c)

\* Mutant: the depth saved by OSWaitCond is forgotten.
RestoresNever(t, m) == FALSE

\* val is restored as m's depth when it is positive, as a u32, and t's lock
\* brings the depth to one.
Restores(t, m) == val[t] # 0 /\ count[m] = 0

\* One turn of port_ProcessPendingLocks: the resumed thread tries its lock
\* again.  No call comes between two turns.
ProcessPendingLocks(t) ==
  LET m == waiting[t]
      restores == Restores(t, m)
  IN /\ ~sched.fault
     /\ PendingLock(t)
     /\ \/ /\ Lockable(t, m)
           /\ Acquire(t, m, IF restores THEN val[t] ELSE count[m] + 1)
           /\ waiting' = [waiting EXCEPT ![t] = NoMutex]
           /\ val' = IF restores THEN [val EXCEPT ![t] = DefaultVal] ELSE val
        \/ /\ ~Lockable(t, m)
           /\ Contend(t, m)
           /\ UNCHANGED val
     /\ UNCHANGED <<detached, active>>

-----------------------------------------------------------------------------
(* The specification. *)

ThreadCall ==
  \/ \E t \in Threads \ {Default}, p \in Priorities, d \in Attributes : OSCreateThread(t, p, d)
  \/ \E t \in Threads : OSResumeThread(t)
  \/ \E t \in Threads : OSSuspendThread(t)
  \/ \E t \in Threads, w \in WaitQueues : OSSleepThread(t, w)
  \/ \E w \in WaitQueues : OSWakeupThread(w)
  \/ \E t \in Threads : OSYieldThread(t)
  \/ \E t \in Threads \ {Default} : OSCancelThread(t)
  \/ \E t \in Threads \ {Default}, v \in ExitValues : OSExitThread(t, v)
  \/ \E t \in Threads : OSJoinThread(t)
  \/ OSDisableScheduler
  \/ OSEnableScheduler

MutexCall ==
  \/ \E t \in Threads, m \in Mutexes : OSLockMutex(t, m)
  \/ \E t \in Threads, m \in Mutexes : OSTryLockMutex(t, m)
  \/ \E t \in Threads, m \in Mutexes : OSUnlockMutex(t, m)
  \/ \E t \in Threads, c \in Conds, m \in Mutexes : OSWaitCond(t, c, m)
  \/ \E c \in Conds : OSSignalCond(c)

Next == ThreadCall \/ MutexCall \/ \E t \in Threads : ProcessPendingLocks(t)

Spec == Init /\ [][Next]_vars
=============================================================================
