------------------------------ MODULE Scheduler ------------------------------
(***************************************************************************)
(* The scheduling core of src/sdk_port/os/osthread.c: priority run queues, *)
(* wait queues, dispatch, and the priority arithmetic of mutex priority    *)
(* inheritance.  Nothing here is an action: every operator takes the       *)
(* scheduler's state, a record `s`, and returns the state the C helper of  *)
(* the same name leaves behind.  OSThread.tla and OSMessage.tla compose    *)
(* them into the handlers of the API.                                      *)
(*                                                                         *)
(* The fields of `s` are port_OSThreadState and the thread fields that     *)
(* the scheduler moves:                                                    *)
(*   cur      currentThread (NoThread when the machine idles)              *)
(*   bits     runQueueBits, as the set of priorities whose bit is set      *)
(*   hint     runQueueHint                                                 *)
(*   disabled reschedule, the depth of OSDisableScheduler                  *)
(*   state, suspend, prio, base, queue                                     *)
(*            PORT_THREAD_STATE .. PORT_THREAD_QUEUE, per thread           *)
(*   q        every thread queue in memory: the run queues, indexed by     *)
(*            priority, and the queues that threads sleep on               *)
(*   fault    a handler has dereferenced the NULL thread: the process died *)
(*                                                                         *)
(* A linked list through LINK_NEXT/LINK_PREV is a sequence of threads.     *)
(***************************************************************************)
EXTENDS Integers, Sequences, SequencesExt

CONSTANTS
  Threads,          \* the thread slots
  Priorities,       \* the base priorities that programs use
  SleepQueues,      \* every queue a thread may sleep on
  NoThread,         \* the NULL thread address
  NoQueue           \* the NULL queue address

ASSUME PrioritiesAssumption == Priorities \subseteq 0 .. 31 /\ Priorities # {}
ASSUME NullAssumption == NoThread \notin Threads /\ NoQueue \notin SleepQueues \cup Priorities
ASSUME QueuesAssumption == Priorities \cap SleepQueues = {}   \* all queues are different memory
ASSUME FiniteAssumption == IsFiniteSet(Threads)

Suspended == 32     \* the priority of a suspended sleeper, below every real one
Queues == Priorities \cup SleepQueues
Live == {"READY", "RUNNING", "WAITING"}
Dead == {"INACTIVE", "MORIBUND"}

SchedulerState ==
  [cur : Threads \cup {NoThread}, bits : SUBSET Priorities, hint : BOOLEAN,
   disabled : Nat, state : [Threads -> Live \cup Dead], suspend : [Threads -> Nat],
   prio : [Threads -> Priorities \cup {Suspended}], base : [Threads -> Priorities],
   queue : [Threads -> Queues \cup {NoQueue}], q : [Queues -> Seq(Threads)],
   fault : BOOLEAN]

-----------------------------------------------------------------------------
(* Queues. *)

\* The queue `ts` with t inserted after every thread of its priority or better.
AddPrio(ts, t, prio) ==
  LET next == SelectInSeq(ts, LAMBDA u : prio[u] > prio[t])
  IN IF next = 0 THEN Append(ts, t) ELSE InsertAt(ts, next, t)

\* The best priority with a ready thread: cntlzw of the bit set, 32 when empty.
BestReady(s) == IF s.bits = {} THEN 32 ELSE Min(s.bits)

\* Mutant: a thread that becomes runnable overtakes its equals.
SetRunFirst(s, t) ==
  LET p == s.prio[t]
  IN [s EXCEPT !.queue[t] = p, !.q[p] = <<t>> \o @, !.bits = @ \cup {p}, !.hint = TRUE]

\* Make a READY thread runnable: last of the run queue of its priority.
SetRun(s, t) ==
  LET p == s.prio[t]
  IN [s EXCEPT !.queue[t] = p, !.q[p] = Append(@, t), !.bits = @ \cup {p}, !.hint = TRUE]

\* Take a runnable thread out of its run queue.
UnsetRun(s, t) ==
  LET w == s.queue[t]
      rest == RemoveFirst(s.q[w], t)
  IN [s EXCEPT !.queue[t] = NoQueue, !.q[w] = rest,
               !.bits = IF rest = <<>> THEN @ \ {s.prio[t]} ELSE @]

\* A sleeper leaves its queue, takes priority p and finds its place again.  A
\* NULL queue pointer is dereferenced.
Reorder(s, t, p) ==
  LET prio == [s.prio EXCEPT ![t] = p]
  IN IF s.queue[t] = NoQueue THEN [s EXCEPT !.fault = TRUE]
     ELSE [s EXCEPT !.prio = prio, !.q[s.queue[t]] = AddPrio(RemoveFirst(@, t), t, prio)]

-----------------------------------------------------------------------------
(* Dispatch. *)

\* The current thread, which runs, becomes the last of its run queue.
Preempt(s) == SetRun([s EXCEPT !.state[s.cur] = "READY"], s.cur)

\* Hand the processor to the head of the best run queue, or idle.  A current
\* thread that still runs keeps it unless it yields or is outranked; when it
\* loses the processor it goes to the tail of its own run queue.
SelectThread(s, yield) ==
  LET runs == s.cur # NoThread /\ s.state[s.cur] = "RUNNING"
      keeps == runs /\ ~yield /\ s.prio[s.cur] <= BestReady(s)
      a == IF runs THEN Preempt(s) ELSE s
      p == BestReady(a)
      t == Head(a.q[p])
  IN IF s.disabled > 0 \/ keeps THEN s
     ELSE IF a.bits = {} THEN [a EXCEPT !.cur = NoThread]
     ELSE [a EXCEPT !.cur = t, !.hint = FALSE, !.q[p] = Tail(@), !.queue[t] = NoQueue,
                    !.bits = IF Len(a.q[p]) = 1 THEN @ \ {p} ELSE @, !.state[t] = "RUNNING"]

Reschedule(s) == IF s.hint THEN SelectThread(s, FALSE) ELSE s

\* The current thread goes to sleep on queue w.
SleepThread(s, w) ==
  LET t == s.cur
  IN Reschedule([s EXCEPT !.state[t] = "WAITING", !.queue[t] = w,
                          !.q[w] = AddPrio(@, t, s.prio), !.hint = TRUE])

\* Mutant: suspended sleepers are made runnable too, at their base priority.
WakeSuspendedToo(s, w) ==
  FoldLeft(LAMBDA a, t : SetRun([a EXCEPT !.state[t] = "READY", !.prio[t] = a.base[t]], t),
           [s EXCEPT !.q[w] = <<>>], s.q[w])

\* Mutant: only the first sleeper is woken.
WakeFirst(s, w) ==
  IF s.q[w] = <<>> THEN s
  ELSE LET t == Head(s.q[w])
           r == [s EXCEPT !.q[w] = Tail(@), !.state[t] = "READY"]
       IN IF r.suspend[t] > 0 THEN r ELSE SetRun(r, t)

\* Every sleeper of queue w becomes READY, and runnable unless suspended.
WakeSleepers(s, w) ==
  FoldLeft(LAMBDA a, t : LET r == [a EXCEPT !.state[t] = "READY"]
                         IN IF a.suspend[t] > 0 THEN r ELSE SetRun(r, t),
           [s EXCEPT !.q[w] = <<>>], s.q[w])

WakeupThread(s, w) == Reschedule(WakeSleepers(s, w))

-----------------------------------------------------------------------------
(* Priority inheritance.  `mutexes` is the record of the mutex relations:  *)
(* owner (of a mutex), owned (the mutexes of a thread, a sequence) and     *)
(* waiting (PORT_THREAD_MUTEX, the mutex a thread wants, or none).         *)

\* The better of the thread's base priority and that of the first sleeper of
\* each mutex it owns.
EffectivePriority(s, owned, t) ==
  Min({s.base[t]} \cup {s.prio[Head(s.q[m])] : m \in {n \in ToSet(owned[t]) : s.q[n] # <<>>}})

\* Mutant: the dispatcher is not told that the running thread lost priority.
SetEffectivePriorityNoHint(s, t, p) ==
  CASE s.state[t] = "READY"   -> SetRun([UnsetRun(s, t) EXCEPT !.prio[t] = p], t)
    [] s.state[t] = "WAITING" -> Reorder(s, t, p)
    [] s.state[t] = "RUNNING" -> [s EXCEPT !.prio[t] = p]
    [] OTHER                  -> s

\* Mutant: a linked thread takes its new priority before it leaves the old run queue.
SetEffectivePriorityEarly(s, t, p) ==
  CASE s.state[t] = "READY"   -> SetRun(UnsetRun([s EXCEPT !.prio[t] = p], t), t)
    [] s.state[t] = "WAITING" -> Reorder(s, t, p)
    [] s.state[t] = "RUNNING" -> [s EXCEPT !.hint = TRUE, !.prio[t] = p]
    [] OTHER                  -> s

SetEffectivePriority(s, t, p) ==
  CASE s.state[t] = "READY"   -> SetRun([UnsetRun(s, t) EXCEPT !.prio[t] = p], t)
    [] s.state[t] = "WAITING" -> Reorder(s, t, p)
    [] s.state[t] = "RUNNING" -> [s EXCEPT !.hint = TRUE, !.prio[t] = p]
    [] OTHER                  -> s

\* The thread that t waits for: the owner of the mutex t sleeps for.
Blocker(s, mutexes, t) ==
  IF s.state[t] = "WAITING" /\ mutexes.waiting[t] # NoQueue
  THEN mutexes.owner[mutexes.waiting[t]]
  ELSE NoThread

\* Links of a blocking chain that one call follows.  A chain has no more
\* threads than there are; a deadlocked one may come round once more.
ChainBound == 2 * Cardinality(Threads)

\* Give thread t0 the priority Wish names, then the thread it waits for, and
\* so on, until a thread is suspended or has the wished priority already.
FollowChain(s0, mutexes, t0, Wish(_, _)) ==
  LET Follow(l) ==
        IF l.t = NoThread THEN l
        ELSE IF l.s.fault \/ l.s.suspend[l.t] > 0 \/ Wish(l.s, l.t) = l.s.prio[l.t]
        THEN [s |-> l.s, t |-> NoThread]
        ELSE [s |-> SetEffectivePriority(l.s, l.t, Wish(l.s, l.t)),
              t |-> Blocker(l.s, mutexes, l.t)]
      link[n \in 0 .. ChainBound] ==
        IF n = 0 THEN [s |-> s0, t |-> t0] ELSE Follow(link[n - 1])
  IN link[ChainBound].s

\* Called with the NULL thread, the loop reads through a NULL pointer.
UpdatePriority(s, mutexes, t) ==
  IF t = NoThread THEN [s EXCEPT !.fault = TRUE]
  ELSE FollowChain(s, mutexes, t, LAMBDA a, u : EffectivePriority(a, mutexes.owned, u))

\* Mutant: the promotion stops at the owner, whoever the owner waits for.
PromoteOwnerOnly(s, mutexes, t, p) ==
  IF s.suspend[t] > 0 \/ s.prio[t] <= p THEN s ELSE SetEffectivePriority(s, t, p)

PromoteThread(s, mutexes, t, p) ==
  FollowChain(s, mutexes, t, LAMBDA a, u : IF a.prio[u] <= p THEN a.prio[u] ELSE p)
=============================================================================
