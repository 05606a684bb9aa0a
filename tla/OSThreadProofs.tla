--------------------------- MODULE OSThreadProofs ---------------------------
(***************************************************************************)
(* Proofs about threads, mutexes and condition variables, for every number *)
(* of threads, mutexes and conditions.                                     *)
(*                                                                         *)
(* The first part is what the scheduler's helpers leave behind.  The       *)
(* second is about the mutex fields alone and holds whatever the scheduler *)
(* does.  The third is about the lists: ThreadInv says that they are exact *)
(* between two calls, and that no thread is lost to them with a death or a *)
(* release.                                                                *)
(***************************************************************************)
EXTENDS OSThreadProps, SequenceFacts

-----------------------------------------------------------------------------
(***************************************************************************)
(* The scheduler's helpers.  Every lemma is about one helper and a state s *)
(* that is exact but for the threads in `off`: those that belong into a    *)
(* queue and are in none, because a handler has just taken them out.       *)
(***************************************************************************)

\* t belongs into a queue: it sleeps, or could run.
OnQueue(s, t) == s.state[t] = "WAITING" \/ (s.state[t] = "READY" /\ s.suspend[t] = 0)

Sorted(ts, prio) == \A i, j \in DOMAIN ts : i < j => prio[ts[i]] <= prio[ts[j]]

\* The lists hold the threads that belong into them, once.
ListsExact(s, off) ==
  /\ \A w \in Queues : s.q[w] \in Lines(Threads)
  /\ \A w \in Queues, t \in Threads :
       t \in ToSet(s.q[w]) <=> OnQueue(s, t) /\ t \notin off /\ s.queue[t] = w

\* PORT_THREAD_QUEUE names the right one.
QueueFields(s, off) ==
  \A t \in Threads \ off :
    /\ s.state[t] = "READY" /\ s.suspend[t] = 0 => s.queue[t] = s.prio[t]
    /\ s.state[t] = "WAITING" => s.queue[t] \in SleepQueues

BitsExact(s) == s.bits = {p \in Priorities : s.q[p] # <<>>}

OnlyCurrentRuns(s) ==
  \A t \in Threads : s.state[t] = "RUNNING" => s.cur = t /\ s.suspend[t] = 0

RealPriorities(s) ==
  \A t \in Threads : s.state[t] \in Live /\ s.suspend[t] = 0 => s.prio[t] \in Priorities

SleepersInOrder(s) == \A w \in SleepQueues : Sorted(s.q[w], s.prio)

Exact(s, off) ==
  /\ s \in SchedulerState
  /\ ListsExact(s, off) /\ QueueFields(s, off) /\ BitsExact(s)
  /\ OnlyCurrentRuns(s) /\ RealPriorities(s) /\ SleepersInOrder(s)

\* A current thread that does not run is about to be replaced.
Hinted(s) == s.cur # NoThread /\ s.state[s.cur] # "RUNNING" => s.hint

\* A runnable thread is better than the current one, or nobody runs.
Missed(s) ==
  \E p \in s.bits : s.cur = NoThread \/ s.state[s.cur] # "RUNNING" \/ p < s.prio[s.cur]

\* Nobody better waits for the processor unless a dispatch is due, and it stays so.
Alert(s) == Missed(s) => s.hint
Heeds(s, r) == Alert(s) => Alert(r)

\* What the helpers that only move threads between lists, or change priorities, keep.
SamePlaces(s, r) ==
  /\ r.cur = s.cur /\ r.state = s.state /\ r.suspend = s.suspend /\ r.base = s.base
  /\ r.disabled = s.disabled /\ (s.hint => r.hint)
  /\ \A w \in SleepQueues : ToSet(r.q[w]) = ToSet(s.q[w])

SameThreads(s, r) == SamePlaces(s, r) /\ Heeds(s, r)

\* Nobody's priority or suspend count changes.
SameRanks(s, r) ==
  r.prio = s.prio /\ r.base = s.base /\ r.suspend = s.suspend /\ r.fault = s.fault

\* Nor does anybody who sleeps: only runnable threads move.
Steady(s, r) == SameRanks(s, r) /\ \A w \in SleepQueues : r.q[w] = s.q[w]

-----------------------------------------------------------------------------
(* Types. *)

\* The kinds of threads, queues and priorities are apart.
LEMMA Kinds ==
  /\ NoThread \notin Threads /\ NoQueue \notin Queues
  /\ Priorities \cap SleepQueues = {} /\ Priorities \subseteq 0 .. 31 /\ Priorities # {}
  /\ Suspended = 32 /\ Suspended \notin Priorities
  /\ Queues = Priorities \cup SleepQueues
BY NullAssumption, QueuesAssumption, PrioritiesAssumption DEF Queues, Suspended

\* The fields of the scheduler's state.
LEMMA Fields ==
  ASSUME NEW s \in SchedulerState
  PROVE  /\ s.cur \in Threads \cup {NoThread} /\ s.bits \in SUBSET Priorities
         /\ s.hint \in BOOLEAN /\ s.disabled \in Nat
         /\ s.state \in [Threads -> Live \cup Dead] /\ s.suspend \in [Threads -> Nat]
         /\ s.prio \in [Threads -> Priorities \cup {Suspended}]
         /\ s.base \in [Threads -> Priorities]
         /\ s.queue \in [Threads -> Queues \cup {NoQueue}]
         /\ s.q \in [Queues -> Seq(Threads)] /\ s.fault \in BOOLEAN
BY DEF SchedulerState

\* Nobody better turns up while the run queues only shrink and the running thread keeps
\* its priority.
LEMMA HeedsCalm ==
  ASSUME NEW s, NEW r, r.cur = s.cur, r.bits \subseteq s.bits, s.hint => r.hint,
         s.cur # NoThread /\ s.state[s.cur] = "RUNNING" =>
           r.state[s.cur] = "RUNNING" /\ r.prio[s.cur] = s.prio[s.cur]
  PROVE  Heeds(s, r) /\ (~Missed(s) => ~Missed(r))
BY DEF Heeds, Alert, Missed

\* A dispatch that is due will see whoever turned up.
LEMMA HeedsHint == ASSUME NEW s, NEW r, r.hint PROVE Heeds(s, r)
BY DEF Heeds, Alert

\* What no step made anybody miss, all of them together did not.
LEMMA HeedsTransitive == ASSUME NEW s, NEW r, NEW v, Heeds(s, r), Heeds(r, v) PROVE Heeds(s, v)
BY DEF Heeds

\* SetRun brings a READY thread that is in no queue to its run queue.
LEMMA SetRunExact ==
  ASSUME NEW s, NEW off, NEW t \in Threads, Exact(s, off), t \in off,
         s.state[t] = "READY", s.suspend[t] = 0
  PROVE  /\ Exact(SetRun(s, t), off \ {t}) /\ SetRun(s, t).hint
         /\ \A u \in Threads \ {t} : SetRun(s, t).queue[u] = s.queue[u]
         /\ \A w \in SleepQueues : SetRun(s, t).q[w] = s.q[w]
         /\ SameThreads(s, SetRun(s, t)) /\ SetRun(s, t).prio = s.prio
         /\ Steady(s, SetRun(s, t))
<1> DEFINE p == s.prio[t]
           r == SetRun(s, t)
<1>1. s \in SchedulerState /\ p \in Priorities
  BY DEF Exact, RealPriorities, Live
<1>2. /\ r.cur = s.cur /\ r.disabled = s.disabled /\ r.state = s.state
      /\ r.suspend = s.suspend /\ r.prio = s.prio /\ r.base = s.base /\ r.fault = s.fault
      /\ r.hint = TRUE /\ r.bits = s.bits \cup {p}
      /\ r.queue = [s.queue EXCEPT ![t] = p]
      /\ r.q = [s.q EXCEPT ![p] = Append(@, t)]
  BY <1>1, Fields DEF SetRun, SchedulerState
<1>3. /\ \A u \in Threads, w \in Queues : u \in ToSet(s.q[w]) =>
            OnQueue(s, u) /\ u \notin off /\ s.queue[u] = w
      /\ t \notin ToSet(s.q[p]) /\ p \in Queues /\ p \notin SleepQueues
  BY <1>1, Kinds DEF Exact, ListsExact
<1>4. s.q[p] \in Lines(Threads) /\ p \in Queues
  BY <1>1, Kinds DEF Exact, ListsExact
<1>5. /\ r.q[p] \in Lines(Threads) /\ ToSet(r.q[p]) = ToSet(s.q[p]) \cup {t}
      /\ \A w \in Queues \ {p} : r.q[w] = s.q[w]
      /\ r.queue[t] = p /\ \A u \in Threads \ {t} : r.queue[u] = s.queue[u]
  BY <1>1, <1>2, <1>3, <1>4, AppendLine, Fields
<1>6. r \in SchedulerState
  <2>1. r.q \in [Queues -> Seq(Threads)]
    BY <1>1, <1>2, <1>4, <1>5, Fields DEF Lines
  <2>2. r.queue \in [Threads -> Queues \cup {NoQueue}]
    BY <1>1, <1>2, <1>4, Fields
  <2> QED
    BY <1>1, <1>2, <2>1, <2>2, Fields DEF SetRun, SchedulerState
<1> HIDE DEF r
<1>7. ListsExact(r, off \ {t})
  BY <1>1, <1>2, <1>3, <1>4, <1>5 DEF Exact, ListsExact, OnQueue
<1>8. QueueFields(r, off \ {t})
  BY <1>2, <1>5 DEF Exact, QueueFields
<1>9. BitsExact(r)
  <2>1. r.q[p] # <<>>
    BY <1>5, SeqFacts DEF Lines
  <2>2. \A x \in Priorities \ {p} : r.q[x] = s.q[x]
    BY <1>5, Kinds
  <2> QED
    BY <1>1, <1>2, <2>1, <2>2 DEF Exact, BitsExact
<1>10. OnlyCurrentRuns(r) /\ RealPriorities(r)
  BY <1>2 DEF Exact, OnlyCurrentRuns, RealPriorities
<1>11. \A w \in SleepQueues : r.q[w] = s.q[w]
  BY <1>3, <1>5, Kinds
<1>12. SleepersInOrder(r)
  BY <1>2, <1>11 DEF Exact, SleepersInOrder
<1>13. Exact(r, off \ {t})
  BY <1>6, <1>7, <1>8, <1>9, <1>10, <1>12 DEF Exact
<1> QED
  BY <1>2, <1>5, <1>11, <1>13, HeedsHint DEF r, SamePlaces, SameThreads, SameRanks, Steady

\* UnsetRun takes a runnable thread out of its run queue.
LEMMA UnsetRunExact ==
  ASSUME NEW s, NEW off, NEW t \in Threads \ off, Exact(s, off),
         s.state[t] = "READY", s.suspend[t] = 0
  PROVE  /\ Exact(UnsetRun(s, t), off \cup {t})
         /\ UnsetRun(s, t).queue[t] = NoQueue
         /\ \A u \in Threads \ {t} : UnsetRun(s, t).queue[u] = s.queue[u]
         /\ SameThreads(s, UnsetRun(s, t)) /\ UnsetRun(s, t).prio = s.prio
<1> DEFINE p == s.prio[t]
           rest == RemoveFirst(s.q[p], t)
           r == UnsetRun(s, t)
<1>1. s \in SchedulerState /\ p \in Priorities /\ s.queue[t] = p
  BY DEF Exact, RealPriorities, QueueFields, Live
<1>2. /\ r.cur = s.cur /\ r.disabled = s.disabled /\ r.state = s.state
      /\ r.suspend = s.suspend /\ r.prio = s.prio /\ r.base = s.base /\ r.fault = s.fault
      /\ r.hint = s.hint /\ r.bits = IF rest = <<>> THEN s.bits \ {p} ELSE s.bits
      /\ r.queue = [s.queue EXCEPT ![t] = NoQueue]
      /\ r.q = [s.q EXCEPT ![p] = rest]
  BY <1>1, Fields DEF UnsetRun, SchedulerState
<1>3. p \in Queues /\ p \notin SleepQueues /\ s.q[p] \in Lines(Threads) /\ t \in ToSet(s.q[p])
  BY <1>1, Kinds DEF Exact, ListsExact, OnQueue
<1>4. rest \in Lines(Threads) /\ ToSet(rest) = ToSet(s.q[p]) \ {t}
  BY <1>3, RemoveFirstLine
<1> HIDE DEF rest
<1>5. /\ r.q[p] = rest /\ \A w \in Queues \ {p} : r.q[w] = s.q[w]
      /\ r.queue[t] = NoQueue /\ \A u \in Threads \ {t} : r.queue[u] = s.queue[u]
  BY <1>1, <1>2, <1>3, Fields
<1>6. r \in SchedulerState
  <2>1. r.q \in [Queues -> Seq(Threads)]
    BY <1>1, <1>2, <1>3, <1>4, <1>5, Fields DEF Lines
  <2>2. r.queue \in [Threads -> Queues \cup {NoQueue}]
    BY <1>1, <1>2, Fields
  <2>3. r.bits \in SUBSET Priorities
    BY <1>1, <1>2, Fields
  <2> QED
    BY <1>1, <1>2, <2>1, <2>2, <2>3, Fields DEF UnsetRun, SchedulerState
<1> HIDE DEF r
<1>7. ListsExact(r, off \cup {t})
  <2>1. \A w \in Queues : r.q[w] \in Lines(Threads)
    BY <1>4, <1>5 DEF Exact, ListsExact
  <2>2. \A w \in Queues, u \in Threads :
          u \in ToSet(r.q[w]) <=> u \in ToSet(s.q[w]) /\ u # t
    BY <1>1, <1>4, <1>5 DEF Exact, ListsExact
  <2> QED
    BY <1>2, <1>5, <2>1, <2>2 DEF Exact, ListsExact, OnQueue
<1>8. QueueFields(r, off \cup {t})
  BY <1>2, <1>5 DEF Exact, QueueFields
<1>9. BitsExact(r)
  <2>1. \A x \in Priorities \ {p} : r.q[x] = s.q[x]
    BY <1>5, Kinds
  <2>2. s.q[p] # <<>>
    BY <1>3, EmptyLine
  <2> QED
    BY <1>1, <1>2, <1>5, <2>1, <2>2 DEF Exact, BitsExact
<1>10. OnlyCurrentRuns(r) /\ RealPriorities(r)
  BY <1>2 DEF Exact, OnlyCurrentRuns, RealPriorities
<1>11. \A w \in SleepQueues : r.q[w] = s.q[w]
  BY <1>3, <1>5, Kinds
<1>12. SleepersInOrder(r)
  BY <1>2, <1>11 DEF Exact, SleepersInOrder
<1>13. Exact(r, off \cup {t})
  BY <1>6, <1>7, <1>8, <1>9, <1>10, <1>12 DEF Exact
<1>14. Heeds(s, r)
  BY <1>1, <1>2, Fields, HeedsCalm
<1> QED
  BY <1>2, <1>5, <1>11, <1>13, <1>14 DEF r, SamePlaces, SameThreads

\* A thread in no queue takes another priority.
LEMMA PrioExact ==
  ASSUME NEW s, NEW off, NEW t \in Threads, Exact(s, off), t \in off \/ ~OnQueue(s, t),
         NEW p \in Priorities
  PROVE  Exact([s EXCEPT !.prio[t] = p], off) /\ SamePlaces(s, [s EXCEPT !.prio[t] = p])
<1> DEFINE r == [s EXCEPT !.prio[t] = p]
<1>1. s \in SchedulerState
  BY DEF Exact
<1>2. /\ r.cur = s.cur /\ r.disabled = s.disabled /\ r.state = s.state
      /\ r.suspend = s.suspend /\ r.base = s.base /\ r.fault = s.fault
      /\ r.hint = s.hint /\ r.bits = s.bits /\ r.queue = s.queue /\ r.q = s.q
      /\ r.prio = [s.prio EXCEPT ![t] = p]
  BY <1>1, Fields DEF SchedulerState
<1>3. r \in SchedulerState
  BY <1>1, Fields DEF SchedulerState
<1>4. r.prio[t] = p /\ \A u \in Threads \ {t} : r.prio[u] = s.prio[u]
  BY <1>1, <1>2, Fields
<1> HIDE DEF r
<1>5. ListsExact(r, off) /\ BitsExact(r) /\ OnlyCurrentRuns(r)
  BY <1>2 DEF Exact, ListsExact, BitsExact, OnlyCurrentRuns, OnQueue
<1>6. QueueFields(r, off) /\ RealPriorities(r)
  BY <1>2, <1>4 DEF Exact, QueueFields, RealPriorities, OnQueue
<1>7. ASSUME NEW w \in SleepQueues PROVE Sorted(r.q[w], r.prio)
  <2>1. w \in Queues /\ s.q[w] \in Lines(Threads) /\ t \notin ToSet(s.q[w])
    BY Kinds DEF Exact, ListsExact
  <2>2. \A i \in DOMAIN s.q[w] : s.q[w][i] \in Threads /\ s.q[w][i] # t
    BY <2>1, SeqFacts DEF ToSet, Lines
  <2> QED
    BY <1>2, <1>4, <2>2 DEF Exact, SleepersInOrder, Sorted
<1> QED
  BY <1>2, <1>3, <1>5, <1>6, <1>7 DEF Exact, SleepersInOrder, r, SamePlaces

\* Types and order of priorities.
LEMMA PriorityNumbers ==
  ASSUME NEW prio \in [Threads -> Priorities \cup {Suspended}], NEW t \in Threads
  PROVE  prio[t] \in 0 .. 32
<1>1. Priorities \cup {Suspended} \subseteq 0 .. 32
  BY Kinds
<1> QED
  BY <1>1

\* Removing keeps the order.
LEMMA RemoveSorted ==
  ASSUME NEW ts \in Lines(Threads), NEW t \in ToSet(ts), NEW prio, Sorted(ts, prio)
  PROVE  Sorted(RemoveFirst(ts, t), prio)
BY RemoveFirstLine DEF Sorted

\* Order depends on the priorities of those on the list only.
LEMMA SortedOf ==
  ASSUME NEW ts \in Lines(Threads), NEW prio, NEW prio2,
         \A u \in ToSet(ts) : prio[u] = prio2[u], Sorted(ts, prio)
  PROVE  Sorted(ts, prio2)
BY DEF Sorted, ToSet

\* AddPrio puts a thread among the others, in order.
LEMMA AddPrioLine ==
  ASSUME NEW ts \in Lines(Threads), NEW t \in Threads, t \notin ToSet(ts),
         NEW prio \in [Threads -> Priorities \cup {Suspended}]
  PROVE  /\ AddPrio(ts, t, prio) \in Lines(Threads)
         /\ ToSet(AddPrio(ts, t, prio)) = ToSet(ts) \cup {t}
         /\ Sorted(ts, prio) => Sorted(AddPrio(ts, t, prio), prio)
<1> DEFINE n == Len(ts)
           I == {i \in 1 .. n : prio[ts[i]] > prio[t]}
           us == AddPrio(ts, t, prio)
<1>1. /\ ts \in Seq(Threads) /\ n \in Nat /\ DOMAIN ts = 1 .. n
      /\ \A i \in 1 .. n : ts[i] \in Threads
  BY SeqFacts DEF Lines
<1>2. prio[t] \in Int /\ \A i \in 1 .. n : prio[ts[i]] \in Int
  <2>1. \A u \in Threads : prio[u] \in Int
    BY PriorityNumbers
  <2> HIDE DEF n
  <2> QED
    BY <1>1, <2>1
<1>3. SelectInSeq(ts, LAMBDA u : prio[u] > prio[t]) = IF I # {} THEN Min(I) ELSE 0
  BY DEF SelectInSeq
<1>4. CASE I = {}
  <2>1. us = Append(ts, t)
    BY <1>3, <1>4 DEF AddPrio
  <2>2. us \in Lines(Threads) /\ ToSet(us) = ToSet(ts) \cup {t}
    BY <2>1, AppendLine
  <2>3. ASSUME Sorted(ts, prio) PROVE Sorted(us, prio)
    <3>1. \A i \in 1 .. n : prio[ts[i]] <= prio[t]
      <4>1. \A i \in 1 .. n : ~(prio[ts[i]] > prio[t])
        BY <1>4
      <4> QED
        BY <1>2, <4>1
    <3>2. DOMAIN us = 1 .. n + 1 /\ us[n + 1] = t /\ \A i \in 1 .. n : us[i] = ts[i]
      BY <1>1, <2>1, AppendProperties, SeqFacts
    <3> HIDE DEF n, us, I
    <3>3. ASSUME NEW i \in 1 .. n + 1, NEW j \in 1 .. n + 1, i < j PROVE prio[us[i]] <= prio[us[j]]
      <4>1. i \in 1 .. n /\ (j \in 1 .. n \/ j = n + 1)
        BY <1>1, <3>3
      <4> QED
        BY <1>1, <2>3, <3>1, <3>2, <3>3, <4>1 DEF Sorted
    <3> QED
      BY <3>2, <3>3 DEF Sorted
  <2> QED
    BY <2>2, <2>3
<1>5. CASE I # {}
  <2> DEFINE k == Min(I)
  <2>1. k \in I /\ \A i \in I : k <= i
    <3>1. I \in SUBSET Nat
      BY <1>1
    <3> HIDE DEF I
    <3> QED
      BY <1>5, <3>1, MinIsLeast
  <2>2. k \in 1 .. n /\ prio[ts[k]] > prio[t]
    BY <2>1
  <2>3. \A i \in 1 .. n : i < k => prio[ts[i]] <= prio[t]
    <3>1. ASSUME NEW i \in 1 .. n, i < k PROVE ~(prio[ts[i]] > prio[t])
      <4> HIDE DEF k
      <4>1. i \notin I
        BY <1>1, <2>1, <2>2, <3>1
      <4> QED
        BY <4>1
    <3> QED
      BY <1>2, <3>1
  <2>4. us = InsertAt(ts, k, t)
    BY <1>3, <1>5, <2>2 DEF AddPrio
  <2> HIDE DEF k, I
  <2>5. us \in Lines(Threads) /\ ToSet(us) = ToSet(ts) \cup {t}
    BY <2>2, <2>4, InsertAtLine
  <2>6. us = [i \in 1 .. n + 1 |-> IF i < k THEN ts[i] ELSE IF i = k THEN t ELSE ts[i - 1]]
    BY <1>1, <2>2, <2>4, InsertAtIs
  <2> HIDE DEF us, n
  <2>7. ASSUME Sorted(ts, prio) PROVE Sorted(us, prio)
    <3>1. \A i \in 1 .. n : i >= k => prio[t] <= prio[ts[i]]
      BY <1>1, <1>2, <2>2, <2>7 DEF Sorted
    <3>2. \A i, j \in 1 .. n : i <= j => prio[ts[i]] <= prio[ts[j]]
      <4>1. \A i, j \in 1 .. n : i < j => prio[ts[i]] <= prio[ts[j]]
        BY <1>1, <2>7 DEF Sorted
      <4>2. \A i, j \in 1 .. n : i <= j => i < j \/ i = j
        BY <1>1
      <4>3. \A i \in 1 .. n : prio[ts[i]] <= prio[ts[i]]
        BY <1>2
      <4> QED
        BY <4>1, <4>2, <4>3
    <3>3. ASSUME NEW i \in 1 .. n + 1, NEW j \in 1 .. n + 1, i < j PROVE prio[us[i]] <= prio[us[j]]
      <4>1. CASE j < k
        BY <1>1, <2>2, <2>6, <3>2, <3>3, <4>1
      <4>2. CASE j = k
        BY <1>1, <2>2, <2>3, <2>6, <3>3, <4>2
      <4>3. CASE j > k /\ i < k
        <5>1. us[i] = ts[i] /\ us[j] = ts[j - 1] /\ i \in 1 .. n /\ j - 1 \in 1 .. n /\ i <= j - 1
          BY <1>1, <2>2, <2>6, <3>3, <4>3
        <5> QED
          BY <3>2, <5>1
      <4>4. CASE j > k /\ i = k
        <5>1. us[i] = t /\ us[j] = ts[j - 1] /\ j - 1 \in 1 .. n /\ j - 1 >= k
          BY <1>1, <2>2, <2>6, <3>3, <4>4
        <5> QED
          BY <3>1, <5>1
      <4>5. CASE j > k /\ i > k
        <5>1. us[i] = ts[i - 1] /\ us[j] = ts[j - 1] /\ i - 1 \in 1 .. n /\ j - 1 \in 1 .. n
              /\ i - 1 <= j - 1
          BY <1>1, <2>2, <2>6, <3>3, <4>5
        <5> QED
          BY <3>2, <5>1
      <4> QED
        BY <1>1, <2>2, <4>1, <4>2, <4>3, <4>4, <4>5
    <3>4. DOMAIN us = 1 .. n + 1
      BY <2>6
    <3> QED
      BY <3>3, <3>4 DEF Sorted
  <2> QED
    BY <2>5, <2>7 DEF us
<1> QED
  BY <1>4, <1>5

\* A sleeper takes another priority and its place for it; a lost one is an access
\* through NULL and stays as it is.
LEMMA ReorderExact ==
  ASSUME NEW s, NEW off, NEW t \in Threads \ off, Exact(s, off), s.state[t] = "WAITING",
         NEW p \in Priorities \cup {Suspended}, s.suspend[t] = 0 => p \in Priorities
  PROVE  Exact(Reorder(s, t, p), off) /\ SameThreads(s, Reorder(s, t, p))
         /\ Reorder(s, t, p).queue = s.queue
<1> DEFINE w == s.queue[t]
           prio == [s.prio EXCEPT ![t] = p]
           ts == s.q[w]
           us == AddPrio(RemoveFirst(ts, t), t, prio)
           r == Reorder(s, t, p)
<1>1. s \in SchedulerState /\ w \in SleepQueues /\ w \in Queues /\ w # NoQueue /\ w \notin Priorities
  BY Kinds DEF Exact, QueueFields
<1>2. /\ r.cur = s.cur /\ r.disabled = s.disabled /\ r.state = s.state
      /\ r.suspend = s.suspend /\ r.prio = prio /\ r.base = s.base /\ r.fault = s.fault
      /\ r.hint = s.hint /\ r.bits = s.bits /\ r.queue = s.queue
      /\ r.q = [s.q EXCEPT ![w] = us]
  BY <1>1, Fields DEF Reorder, SchedulerState
<1>3. /\ prio \in [Threads -> Priorities \cup {Suspended}] /\ prio[t] = p
      /\ \A u \in Threads \ {t} : prio[u] = s.prio[u]
  BY <1>1, Fields
<1>4. ts \in Lines(Threads) /\ t \in ToSet(ts)
  BY <1>1 DEF Exact, ListsExact, OnQueue
<1> DEFINE rest == RemoveFirst(ts, t)
<1>5. rest \in Lines(Threads) /\ ToSet(rest) = ToSet(ts) \ {t}
  BY <1>4, RemoveFirstLine
<1>6. Sorted(rest, prio)
  <2>1. Sorted(ts, s.prio)
    BY <1>1 DEF Exact, SleepersInOrder
  <2>2. Sorted(rest, s.prio)
    BY <1>4, <2>1, RemoveSorted
  <2>3. \A u \in ToSet(rest) : s.prio[u] = prio[u]
    BY <1>3, <1>5, SeqFacts DEF Lines
  <2> HIDE DEF rest, prio
  <2> QED
    BY <1>5, <2>2, <2>3, SortedOf
<1> HIDE DEF prio, rest
<1>7. us \in Lines(Threads) /\ ToSet(us) = ToSet(ts) /\ Sorted(us, prio)
  <2>1. us = AddPrio(rest, t, prio)
    BY DEF rest
  <2>2. t \notin ToSet(rest)
    BY <1>5
  <2>3. us \in Lines(Threads) /\ ToSet(us) = ToSet(rest) \cup {t} /\ Sorted(us, prio)
    BY <1>3, <1>5, <1>6, <2>1, <2>2, AddPrioLine
  <2> QED
    BY <1>4, <1>5, <2>3
<1> HIDE DEF us
<1>8. r.q[w] = us /\ \A v \in Queues \ {w} : r.q[v] = s.q[v]
  BY <1>1, <1>2, Fields
<1>9. r \in SchedulerState
  <2>1. r.q \in [Queues -> Seq(Threads)]
    BY <1>1, <1>2, <1>7, <1>8, Fields DEF Lines
  <2> QED
    BY <1>1, <1>2, <1>3, <2>1, Fields DEF Reorder, SchedulerState, prio, us
<1> HIDE DEF r
<1>10. \A v \in Queues : r.q[v] \in Lines(Threads) /\ ToSet(r.q[v]) = ToSet(s.q[v])
  BY <1>1, <1>7, <1>8 DEF Exact, ListsExact
<1>11. ListsExact(r, off)
  BY <1>2, <1>10 DEF Exact, ListsExact, OnQueue
<1>12. QueueFields(r, off)
  BY <1>2, <1>3 DEF Exact, QueueFields
<1>13. BitsExact(r)
  BY <1>1, <1>2, <1>8, Kinds DEF Exact, BitsExact
<1>14. OnlyCurrentRuns(r) /\ RealPriorities(r)
  BY <1>2, <1>3 DEF Exact, OnlyCurrentRuns, RealPriorities
<1>15. ASSUME NEW v \in SleepQueues PROVE Sorted(r.q[v], r.prio)
  <2>1. CASE v = w
    BY <1>2, <1>7, <1>8, <2>1
  <2>2. CASE v # w
    <3>1. v \in Queues /\ s.q[v] \in Lines(Threads) /\ t \notin ToSet(s.q[v]) /\ r.q[v] = s.q[v]
      BY <1>8, <2>2, Kinds DEF Exact, ListsExact
    <3>2. \A u \in ToSet(s.q[v]) : s.prio[u] = prio[u]
      BY <1>3, <3>1, SeqFacts DEF Lines
    <3>3. Sorted(s.q[v], s.prio)
      BY DEF Exact, SleepersInOrder
    <3> QED
      BY <1>2, <3>1, <3>2, <3>3, SortedOf
  <2> QED
    BY <2>1, <2>2
<1>16. Exact(r, off)
  BY <1>9, <1>11, <1>12, <1>13, <1>14, <1>15 DEF Exact, SleepersInOrder
<1>17. Heeds(s, r)
  <2>1. s.cur # NoThread /\ s.state[s.cur] = "RUNNING" => s.cur \in Threads \ {t}
    BY <1>1, Fields
  <2> QED
    BY <1>2, <1>3, <2>1, HeedsCalm
<1> QED
  BY <1>2, <1>10, <1>16, <1>17, Kinds DEF r, SamePlaces, SameThreads

\* What happens to the fields of one thread that is in no queue disturbs nothing; a
\* thread that then belongs into a queue waits to be put there.
LEMMA ThreadExact ==
  ASSUME NEW s, NEW off, NEW t \in Threads, Exact(s, off), t \in off \/ ~OnQueue(s, t),
         NEW r \in SchedulerState, r.bits = s.bits, r.q = s.q, OnlyCurrentRuns(r),
         \A u \in Threads \ {t} : /\ r.state[u] = s.state[u] /\ r.suspend[u] = s.suspend[u]
                                 /\ r.prio[u] = s.prio[u] /\ r.queue[u] = s.queue[u],
         r.state[t] \in Live /\ r.suspend[t] = 0 => r.prio[t] \in Priorities
  PROVE  Exact(r, off \cup {t}) /\ (~OnQueue(r, t) => Exact(r, off \ {t}))
<1>1. \A w \in Queues : s.q[w] \in Lines(Threads) /\ t \notin ToSet(s.q[w])
  BY DEF Exact, ListsExact
<1>2. ListsExact(r, off \cup {t}) /\ (~OnQueue(r, t) => ListsExact(r, off \ {t}))
  <2>1. \A u \in Threads \ {t} : OnQueue(r, u) <=> OnQueue(s, u)
    BY DEF OnQueue
  <2> QED
    BY <1>1, <2>1 DEF Exact, ListsExact
<1>3. QueueFields(r, off \cup {t}) /\ (~OnQueue(r, t) => QueueFields(r, off \ {t}))
  BY DEF Exact, QueueFields, OnQueue
<1>4. BitsExact(r) /\ RealPriorities(r)
  BY DEF Exact, BitsExact, RealPriorities
<1>5. ASSUME NEW w \in SleepQueues PROVE Sorted(r.q[w], r.prio)
  <2>1. w \in Queues /\ Sorted(s.q[w], s.prio)
    BY Kinds DEF Exact, SleepersInOrder
  <2>2. \A u \in ToSet(s.q[w]) : s.prio[u] = r.prio[u]
    BY <1>1, <2>1, SeqFacts DEF Lines
  <2> QED
    BY <1>1, <2>1, <2>2, SortedOf
<1> QED
  BY <1>2, <1>3, <1>4, <1>5 DEF Exact, SleepersInOrder

\* s and r differ in the fields of t, and in those of no list.
OthersSame(s, r, t) ==
  /\ r.bits = s.bits /\ r.q = s.q
  /\ \A u \in Threads \ {t} : /\ r.state[u] = s.state[u] /\ r.suspend[u] = s.suspend[u]
                             /\ r.prio[u] = s.prio[u] /\ r.queue[u] = s.queue[u]

\* So it is when t comes to belong into no queue.
LEMMA IdleExact ==
  ASSUME NEW s, NEW off, NEW t \in Threads, Exact(s, off), off \subseteq {t},
         t \in off \/ ~OnQueue(s, t), NEW r \in SchedulerState, OthersSame(s, r, t),
         OnlyCurrentRuns(r), ~OnQueue(r, t),
         r.state[t] \in Live /\ r.suspend[t] = 0 => r.prio[t] \in Priorities
  PROVE  Exact(r, {})
<1>1. Exact(r, off \ {t})
  BY ThreadExact DEF OthersSame
<1>2. off \ {t} = {}
  OBVIOUS
<1> QED
  BY <1>1, <1>2

\* Fields that belong to no thread.
LEMMA FlagsExact ==
  ASSUME NEW s, NEW off, Exact(s, off), NEW r \in SchedulerState,
         r.cur = s.cur, r.bits = s.bits, r.state = s.state, r.suspend = s.suspend,
         r.prio = s.prio, r.queue = s.queue, r.q = s.q
  PROVE  Exact(r, off)
BY DEF Exact, ListsExact, QueueFields, BitsExact, OnlyCurrentRuns, RealPriorities,
       SleepersInOrder, OnQueue

\* The suspend count of a sleeper, or of a thread that stays suspended.
LEMMA CountExact ==
  ASSUME NEW s, NEW off, NEW t \in Threads, Exact(s, off), NEW n \in Nat,
         \/ n = 0 <=> s.suspend[t] = 0
         \/ s.state[t] = "WAITING" /\ (n = 0 => s.prio[t] \in Priorities)
  PROVE  Exact([s EXCEPT !.suspend[t] = n], off)
<1> DEFINE r == [s EXCEPT !.suspend[t] = n]
<1>1. s \in SchedulerState
  BY DEF Exact
<1>2. /\ r.cur = s.cur /\ r.state = s.state /\ r.bits = s.bits /\ r.queue = s.queue
      /\ r.q = s.q /\ r.prio = s.prio /\ r.suspend = [s.suspend EXCEPT ![t] = n]
  BY <1>1, Fields DEF SchedulerState
<1>3. r \in SchedulerState
  BY <1>1, Fields DEF SchedulerState
<1>4. r.suspend[t] = n /\ \A u \in Threads \ {t} : r.suspend[u] = s.suspend[u]
  BY <1>1, <1>2, Fields
<1> HIDE DEF r
<1>5. \A u \in Threads : OnQueue(r, u) <=> OnQueue(s, u)
  BY <1>2, <1>4 DEF OnQueue
<1>6. ListsExact(r, off) /\ BitsExact(r) /\ SleepersInOrder(r)
  BY <1>2, <1>5 DEF Exact, ListsExact, BitsExact, SleepersInOrder
<1>7. QueueFields(r, off) /\ OnlyCurrentRuns(r) /\ RealPriorities(r)
  BY <1>2, <1>4 DEF Exact, QueueFields, OnlyCurrentRuns, RealPriorities
<1> QED
  BY <1>3, <1>6, <1>7 DEF r, Exact

\* A sleeper that a handler has taken out, or not yet put in, joins its queue.
LEMMA JoinExact ==
  ASSUME NEW s, NEW off, NEW t \in off, t \in Threads, Exact(s, off), s.state[t] = "WAITING",
         NEW w \in SleepQueues, s.queue[t] = w,
         NEW r \in SchedulerState, r.cur = s.cur, r.bits = s.bits, r.state = s.state,
         r.suspend = s.suspend, r.prio = s.prio, r.queue = s.queue,
         r.q = [s.q EXCEPT ![w] = AddPrio(@, t, s.prio)]
  PROVE  Exact(r, off \ {t})
<1>1. s \in SchedulerState /\ w \in Queues /\ w \notin Priorities
  BY Kinds DEF Exact
<1>2. s.q[w] \in Lines(Threads) /\ t \notin ToSet(s.q[w]) /\ Sorted(s.q[w], s.prio)
  BY <1>1 DEF Exact, ListsExact, SleepersInOrder
<1>3. /\ r.q[w] = AddPrio(s.q[w], t, s.prio) /\ \A v \in Queues \ {w} : r.q[v] = s.q[v]
  BY <1>1, Fields
<1>4. r.q[w] \in Lines(Threads) /\ ToSet(r.q[w]) = ToSet(s.q[w]) \cup {t} /\ Sorted(r.q[w], s.prio)
  BY <1>1, <1>2, <1>3, Fields, AddPrioLine
<1>5. ListsExact(r, off \ {t})
  BY <1>1, <1>3, <1>4 DEF Exact, ListsExact, OnQueue
<1>6. QueueFields(r, off \ {t}) /\ BitsExact(r) /\ OnlyCurrentRuns(r) /\ RealPriorities(r)
  BY <1>1, <1>3, Kinds DEF Exact, QueueFields, BitsExact, OnlyCurrentRuns, RealPriorities
<1>7. SleepersInOrder(r)
  BY <1>3, <1>4, Kinds DEF Exact, SleepersInOrder
<1> QED
  BY <1>5, <1>6, <1>7 DEF Exact

-----------------------------------------------------------------------------
(* Priority inheritance. *)

\* The threads of `off` are sleepers whose queue a handler has forgotten.
Lost(s, off) == \A u \in off : u \in Threads /\ s.state[u] = "WAITING" /\ s.queue[u] = NoQueue

\* Threads own mutexes and wait for mutexes, which threads own.
Relations(mutexes) ==
  \A t \in Threads :
    /\ ToSet(mutexes.owned[t]) \subseteq SleepQueues
    /\ mutexes.waiting[t] # NoQueue => mutexes.owner[mutexes.waiting[t]] \in Threads \cup {NoThread}

\* What no step changed, all of them together did not.
LEMMA SameTransitive ==
  ASSUME NEW s, NEW r, NEW v, SameThreads(s, r), SameThreads(r, v) PROVE SameThreads(s, v)
BY HeedsTransitive DEF SamePlaces, SameThreads

LEMMA SameReflexive == ASSUME NEW s PROVE SameThreads(s, s)
BY SMTT(30) DEF SamePlaces, SameThreads, Heeds

\* An inherited priority is a real one, whoever sleeps for the mutexes.
LEMMA EffectiveIsReal ==
  ASSUME NEW s, NEW off, Exact(s, off), NEW t \in Threads, NEW lists,
         ToSet(lists[t]) \subseteq SleepQueues
  PROVE  EffectivePriority(s, lists, t) \in Priorities
<1> DEFINE M == {n \in ToSet(lists[t]) : s.q[n] # <<>>}
           P == {s.base[t]} \cup {s.prio[Head(s.q[m])] : m \in M}
<1>1. s \in SchedulerState
  BY DEF Exact
<1>2. ASSUME NEW m \in M PROVE s.prio[Head(s.q[m])] \in Priorities \cup {Suspended}
  <2>1. s.q[m] \in Lines(Threads) /\ s.q[m] # <<>>
    BY Kinds DEF Exact, ListsExact
  <2>2. Head(s.q[m]) \in Threads
    BY <2>1, HeadTailLine, SeqFacts DEF Lines
  <2> QED
    BY <1>1, <2>2, Fields
<1>3. P \subseteq Priorities \cup {Suspended} /\ s.base[t] \in P /\ s.base[t] \in Priorities
  BY <1>1, <1>2, Fields
<1> HIDE DEF P
<1>4. P \in SUBSET Nat /\ P # {}
  BY <1>3, Kinds
<1>5. Min(P) \in P /\ Min(P) <= s.base[t]
  BY <1>3, <1>4, MinIsLeast
<1>6. s.base[t] \in 0 .. 31
  BY <1>3, Kinds
<1>7. Min(P) # Suspended
  BY <1>5, <1>6, Kinds
<1> QED
  BY <1>3, <1>5, <1>7 DEF EffectivePriority, P

\* Whatever a thread does, it takes a new priority and its place for it.
LEMMA SetEffectiveExact ==
  ASSUME NEW s, NEW off, Exact(s, off), Lost(s, off), NEW t \in Threads, s.suspend[t] = 0,
         NEW p \in Priorities
  PROVE  LET r == SetEffectivePriority(s, t, p)
         IN Exact(r, off) /\ Lost(r, off) /\ SameThreads(s, r)
<1> DEFINE r == SetEffectivePriority(s, t, p)
<1>1. s \in SchedulerState /\ (t \in off => s.state[t] = "WAITING" /\ s.queue[t] = NoQueue)
  BY DEF Exact, Lost
<1>2. CASE s.state[t] = "READY"
  <2> DEFINE a == UnsetRun(s, t)
             b == [a EXCEPT !.prio[t] = p]
  <2>1. t \notin off /\ r = SetRun(b, t)
    BY <1>1, <1>2 DEF SetEffectivePriority
  <2>2. /\ Exact(a, off \cup {t}) /\ SameThreads(s, a)
        /\ \A u \in Threads \ {t} : a.queue[u] = s.queue[u]
    BY <1>2, <2>1, UnsetRunExact
  <2>3. Exact(b, off \cup {t}) /\ SamePlaces(a, b)
    BY <2>2, PrioExact
  <2>4. b.queue = a.queue
    BY <2>2, Fields DEF Exact, SchedulerState
  <2>5. b.state[t] = "READY" /\ b.suspend[t] = 0
    BY <1>2, <2>2, <2>3 DEF SamePlaces, SameThreads
  <2> HIDE DEF a, b, r
  <2>6. /\ Exact(r, (off \cup {t}) \ {t}) /\ SameThreads(b, r) /\ r.hint
        /\ \A u \in Threads \ {t} : r.queue[u] = b.queue[u]
    <3>1. t \in off \cup {t}
      OBVIOUS
    <3> QED
      BY <2>1, <2>3, <2>5, <3>1, SetRunExact
  <2>7. (off \cup {t}) \ {t} = off
    BY <2>1
  <2>8. SameThreads(s, r)
    BY <2>2, <2>3, <2>6, HeedsHint DEF SamePlaces, SameThreads
  <2>9. Lost(r, off)
    BY <2>1, <2>2, <2>4, <2>6, <2>8 DEF Lost, SamePlaces, SameThreads
  <2> QED
    BY <2>6, <2>7, <2>8, <2>9 DEF r
<1>3. CASE s.state[t] = "WAITING" /\ t \notin off
  <2>1. r = Reorder(s, t, p)
    BY <1>3 DEF SetEffectivePriority
  <2>2. Exact(r, off) /\ SameThreads(s, r) /\ r.queue = s.queue
    BY <1>3, <2>1, ReorderExact
  <2> QED
    BY <2>2 DEF Lost, SamePlaces, SameThreads
<1>4. CASE t \in off
  <2>1. r = [s EXCEPT !.fault = TRUE]
    BY <1>1, <1>4 DEF SetEffectivePriority, Reorder
  <2>2. /\ r \in SchedulerState /\ r.cur = s.cur /\ r.bits = s.bits /\ r.state = s.state
        /\ r.suspend = s.suspend /\ r.prio = s.prio /\ r.queue = s.queue /\ r.q = s.q
        /\ r.base = s.base /\ r.disabled = s.disabled /\ r.hint = s.hint
    BY <1>1, <2>1, Fields DEF SchedulerState
  <2>3. Heeds(s, r)
    BY <2>2, HeedsCalm
  <2> QED
    BY <2>2, <2>3, FlagsExact DEF Lost, SamePlaces, SameThreads
<1>5. CASE s.state[t] = "RUNNING"
  <2> DEFINE a == [s EXCEPT !.prio[t] = p]
  <2>1. t \notin off /\ ~OnQueue(s, t) /\ r = [a EXCEPT !.hint = TRUE]
    BY <1>1, <1>5, Fields DEF SetEffectivePriority, OnQueue, SchedulerState
  <2>2. Exact(a, off) /\ SamePlaces(s, a) /\ a.queue = s.queue
    BY <1>1, <2>1, PrioExact, Fields DEF SchedulerState
  <2> HIDE DEF a
  <2>3. /\ r \in SchedulerState /\ r.cur = a.cur /\ r.bits = a.bits /\ r.state = a.state
        /\ r.suspend = a.suspend /\ r.prio = a.prio /\ r.queue = a.queue /\ r.q = a.q
        /\ r.base = a.base /\ r.disabled = a.disabled /\ r.hint = TRUE
    BY <2>1, <2>2, Fields DEF SchedulerState, Exact
  <2>4. Exact(r, off) /\ SameThreads(s, r)
    BY <2>2, <2>3, FlagsExact, HeedsHint DEF SamePlaces, SameThreads
  <2> QED
    BY <2>2, <2>3, <2>4 DEF Lost, SamePlaces, SameThreads
<1>6. CASE s.state[t] \notin {"READY", "WAITING", "RUNNING"} /\ t \notin off
  BY <1>6, SameReflexive DEF SetEffectivePriority
<1> QED
  BY <1>2, <1>3, <1>4, <1>5, <1>6

\* The priority that it takes is p, unless its queue pointer is NULL and the process dies.
LEMMA SetEffectivePrio ==
  ASSUME NEW s, s \in SchedulerState, NEW t \in Threads, NEW p, NEW r,
         r = SetEffectivePriority(s, t, p)
  PROVE  /\ s.fault => r.fault
         /\ \A u \in Threads \ {t} : r.prio[u] = s.prio[u]
         /\ r.prio[t] \in {p, s.prio[t]}
         /\ s.state[t] \in Live => r.fault \/ r.prio[t] = p
         /\ s.state[t] \notin Live => r = s
<1>1. s.prio \in [Threads -> Priorities \cup {Suspended}]
  BY Fields
<1>2. CASE s.state[t] = "READY"
  <2>1. r.fault = s.fault /\ r.prio = [s.prio EXCEPT ![t] = p]
    BY <1>2, Fields DEF SetEffectivePriority, SetRun, UnsetRun, SchedulerState
  <2> QED
    BY <1>1, <1>2, <2>1, SMTT(30) DEF Live
<1>3. CASE s.state[t] = "WAITING"
  <2>1. r = Reorder(s, t, p)
    BY <1>3 DEF SetEffectivePriority
  <2>2. CASE s.queue[t] = NoQueue
    <3>1. r.fault = TRUE /\ r.prio = s.prio
      BY <2>1, <2>2, Fields DEF Reorder, SchedulerState
    <3> QED
      BY <1>3, <3>1 DEF Live
  <2>3. CASE s.queue[t] # NoQueue
    <3>1. r.fault = s.fault /\ r.prio = [s.prio EXCEPT ![t] = p]
      BY <2>1, <2>3, Fields DEF Reorder, SchedulerState
    <3> QED
      BY <1>1, <1>3, <3>1 DEF Live
  <2> QED
    BY <2>2, <2>3
<1>4. CASE s.state[t] = "RUNNING"
  <2>1. r.fault = s.fault /\ r.prio = [s.prio EXCEPT ![t] = p]
    BY <1>4, Fields DEF SetEffectivePriority, SchedulerState
  <2> QED
    BY <1>1, <1>4, <2>1 DEF Live
<1>5. CASE s.state[t] \notin Live
  <2>1. r = s
    BY <1>5 DEF SetEffectivePriority, Live
  <2> QED
    BY <1>5, <2>1
<1> QED
  BY <1>2, <1>3, <1>4, <1>5 DEF Live

\* A suspended thread keeps the priority it has.
SuspendedKeep(s, r) == \A u \in Threads : s.suspend[u] # 0 => r.prio[u] = s.prio[u]

\* One link of a walk along a blocking chain: the thread is left alone, or takes a
\* priority and the walk goes on to its blocker.
WalkStep(l, k, mutexes, off) ==
  \/ k.s = l.s /\ k.t \in {l.t, NoThread}
  \/ /\ l.t # NoThread
     /\ \E x : /\ Exact(l.s, off) /\ l.t \in Threads => x \in Priorities /\ l.s.suspend[l.t] = 0
              /\ x # l.s.prio[l.t]
              /\ k = [s |-> SetEffectivePriority(l.s, l.t, x), t |-> Blocker(l.s, mutexes, l.t)]

\* Such a walk keeps the lists exact.
LEMMA WalkExact ==
  ASSUME NEW s, NEW off, Exact(s, off), Lost(s, off), NEW t \in Threads,
         NEW mutexes, Relations(mutexes), NEW n \in Nat, NEW g,
         g[0] = [s |-> s, t |-> t],
         \A i \in 0 .. n - 1 : WalkStep(g[i], g[i + 1], mutexes, off)
  PROVE  /\ Exact(g[n].s, off) /\ Lost(g[n].s, off) /\ SameThreads(s, g[n].s)
         /\ SuspendedKeep(s, g[n].s) /\ g[n].t \in Threads \cup {NoThread}
<1> DEFINE T == {i \in 0 .. n : /\ Exact(g[i].s, off) /\ Lost(g[i].s, off)
                              /\ SameThreads(s, g[i].s) /\ SuspendedKeep(s, g[i].s)
                              /\ g[i].t \in Threads \cup {NoThread}}
<1>1. 0 \in T
  BY SameReflexive DEF SuspendedKeep
<1>2. ASSUME NEW i \in 0 .. n - 1, i \in T PROVE i + 1 \in T
  <2> DEFINE a == g[i].s
             u == g[i].t
             b == g[i + 1].s
             v == g[i + 1].t
  <2>1. /\ Exact(a, off) /\ Lost(a, off) /\ SameThreads(s, a) /\ SuspendedKeep(s, a)
        /\ u \in Threads \cup {NoThread}
    BY <1>2
  <2> DEFINE Kept == /\ Exact(b, off) /\ Lost(b, off) /\ SameThreads(s, b) /\ SuspendedKeep(s, b)
                     /\ v \in Threads \cup {NoThread}
  <2>2. ASSUME b = a /\ v \in {u, NoThread} PROVE Kept
    BY <2>1, <2>2
  <2>3. ASSUME u # NoThread,
               NEW x, Exact(a, off) /\ u \in Threads => x \in Priorities /\ a.suspend[u] = 0,
               g[i + 1] = [s |-> SetEffectivePriority(a, u, x), t |-> Blocker(a, mutexes, u)]
        PROVE  Kept
    <3>1. u \in Threads /\ x \in Priorities /\ a.suspend[u] = 0
      BY <2>1, <2>3
    <3>2. b = SetEffectivePriority(a, u, x) /\ v = Blocker(a, mutexes, u)
      BY <2>3
    <3>3. Exact(b, off) /\ Lost(b, off) /\ SameThreads(a, b)
      BY <2>1, <2>3, <3>1, <3>2, SetEffectiveExact
    <3>4. v \in Threads \cup {NoThread}
      BY <3>1, <3>2 DEF Blocker, Relations
    <3>5. \A w \in Threads \ {u} : b.prio[w] = a.prio[w]
      BY <2>1, <3>1, <3>2, SetEffectivePrio DEF Exact
    <3>6. SuspendedKeep(s, b)
      <4>1. s.suspend[u] = 0
        BY <2>1, <3>1 DEF SamePlaces, SameThreads
      <4> QED
        BY <2>1, <3>5, <4>1 DEF SuspendedKeep
    <3> QED
      BY <2>1, <3>3, <3>4, <3>6, SameTransitive
  <2>4. \/ b = a /\ v \in {u, NoThread}
        \/ /\ u # NoThread
           /\ \E x : /\ Exact(a, off) /\ u \in Threads => x \in Priorities /\ a.suspend[u] = 0
                    /\ g[i + 1] = [s |-> SetEffectivePriority(a, u, x),
                                   t |-> Blocker(a, mutexes, u)]
    BY DEF WalkStep
  <2>5. Kept
    <3> HIDE DEF a, u, b, v, Kept
    <3> QED
      BY <2>2, <2>3, <2>4
  <2>6. i + 1 \in 0 .. n
    OBVIOUS
  <2> QED
    BY <2>5, <2>6
<1>3. n \in T
  <2> HIDE DEF T
  <2>1. 0 .. n \subseteq T
    BY <1>1, <1>2, BoundedInduction
  <2> QED
    BY <2>1
<1> QED
  BY <1>3

\* The bound on a chain of owners is a number.
LEMMA ChainBoundNat == ChainBound \in Nat
BY FiniteAssumption, FS_CardinalityType DEF ChainBound

\* One turn of the loop in port_UpdatePriority.
UpdateLink(l, mutexes) ==
  IF l.t = NoThread THEN l
  ELSE IF l.s.fault \/ l.s.suspend[l.t] > 0 \/ EffectivePriority(l.s, mutexes.owned, l.t) = l.s.prio[l.t]
  THEN [s |-> l.s, t |-> NoThread]
  ELSE [s |-> SetEffectivePriority(l.s, l.t, EffectivePriority(l.s, mutexes.owned, l.t)),
        t |-> Blocker(l.s, mutexes, l.t)]

\* An update is a walk of that many turns.
LEMMA UpdateWalk ==
  ASSUME NEW s, NEW mutexes, NEW t, t # NoThread
  PROVE  \E g : /\ g[0] = [s |-> s, t |-> t] /\ UpdatePriority(s, mutexes, t) = g[ChainBound].s
                /\ \A i \in 0 .. ChainBound - 1 : g[i + 1] = UpdateLink(g[i], mutexes)
<1> DEFINE N == ChainBound
           r == UpdatePriority(s, mutexes, t)
           W(a, u) == EffectivePriority(a, mutexes.owned, u)
           F(l) == IF l.t = NoThread THEN l
                   ELSE IF l.s.fault \/ l.s.suspend[l.t] > 0 \/ W(l.s, l.t) = l.s.prio[l.t]
                   THEN [s |-> l.s, t |-> NoThread]
                   ELSE [s |-> SetEffectivePriority(l.s, l.t, W(l.s, l.t)),
                         t |-> Blocker(l.s, mutexes, l.t)]
           start == [s |-> s, t |-> t]
           Walk(g, k) == g = [n \in 0 .. k |-> IF n = 0 THEN start ELSE F(g[n - 1])]
           g == CHOOSE g : Walk(g, N)
<1>1. r = g[N].s
  BY DEF UpdatePriority, FollowChain
<1>2. N \in Nat
  BY ChainBoundNat
<1>3. Walk(g, N)
  <2> DEFINE T == {k \in 0 .. N : \E h : Walk(h, k)}
  <2>1. 0 \in T
    <3>1. Walk([n \in 0 .. 0 |-> start], 0)
      OBVIOUS
    <3>2. \E h : Walk(h, 0)
      BY <3>1
    <3> HIDE DEF Walk, N
    <3> QED
      BY <1>2, <3>2
  <2>2. ASSUME NEW k \in 0 .. N - 1, k \in T PROVE k + 1 \in T
    <3>1. PICK h : Walk(h, k)
      BY <2>2
    <3> HIDE DEF start, F
    <3> DEFINE h1 == [n \in 0 .. k + 1 |-> IF n = k + 1 THEN F(h[k]) ELSE h[n]]
    <3>2. k \in Nat /\ k + 1 \in 0 .. N
      BY <1>2
    <3>3. h = [n \in 0 .. k |-> IF n = 0 THEN start ELSE F(h[n - 1])]
      BY <3>1
    <3>4. ASSUME NEW n \in 0 .. k + 1 PROVE h1[n] = IF n = 0 THEN start ELSE F(h1[n - 1])
      <4>1. CASE n = k + 1
        BY <3>2, <4>1
      <4>2. CASE n = 0
        BY <3>2, <3>3, <4>2
      <4>3. CASE n \in 1 .. k
        <5>1. n \in 0 .. k /\ n - 1 \in 0 .. k /\ n # 0 /\ n # k + 1 /\ n - 1 # k + 1
          BY <3>2, <4>3
        <5>2. h[n] = F(h[n - 1])
          BY <3>3, <5>1
        <5> QED
          BY <5>1, <5>2
      <4> QED
        BY <3>2, <4>1, <4>2, <4>3
    <3>5. Walk(h1, k + 1)
      <4>1. h1 = [n \in 0 .. k + 1 |-> h1[n]]
        OBVIOUS
      <4> HIDE DEF h1
      <4> QED
        BY <3>4, <4>1
    <3> QED
      BY <3>2, <3>5
  <2>3. N \in T
    <3> HIDE DEF T
    <3>1. 0 .. N \subseteq T
      BY <1>2, <2>1, <2>2, BoundedInduction
    <3> QED
      BY <1>2, <3>1
  <2>4. \E h : Walk(h, N)
    BY <2>3
  <2> HIDE DEF Walk
  <2> QED
    BY <2>4
<1> HIDE DEF g
<1>4. g[0] = start /\ \A i \in 0 .. N - 1 : g[i + 1] = F(g[i])
  <2> HIDE DEF start, F, N
  <2>1. 0 \in 0 .. N /\ \A i \in 0 .. N - 1 : i + 1 \in 0 .. N /\ i + 1 # 0 /\ (i + 1) - 1 = i
    BY <1>2
  <2> QED
    BY <1>3, <2>1
<1>5. \A l : F(l) = UpdateLink(l, mutexes)
  BY DEF UpdateLink
<1> HIDE DEF F
<1> QED
  BY <1>1, <1>4, <1>5, SMTT(30)

\* The turn is a step of a walk.
LEMMA UpdateStep ==
  ASSUME NEW l, NEW mutexes, Relations(mutexes), NEW off, NEW k, k = UpdateLink(l, mutexes)
  PROVE  WalkStep(l, k, mutexes, off)
<1> DEFINE a == l.s
           u == l.t
           x == EffectivePriority(a, mutexes.owned, u)
<1>1. k = IF u = NoThread THEN l
          ELSE IF a.fault \/ a.suspend[u] > 0 \/ x = a.prio[u]
          THEN [s |-> a, t |-> NoThread]
          ELSE [s |-> SetEffectivePriority(a, u, x), t |-> Blocker(a, mutexes, u)]
  BY DEF UpdateLink
<1>2. Exact(a, off) /\ u \in Threads => x \in Priorities
  BY EffectiveIsReal DEF Relations
<1>3. CASE u = NoThread
  BY <1>1, <1>3 DEF WalkStep
<1>4. CASE u # NoThread /\ (a.fault \/ a.suspend[u] > 0 \/ x = a.prio[u])
  BY <1>1, <1>4 DEF WalkStep
<1>5. CASE u # NoThread /\ ~(a.fault \/ a.suspend[u] > 0 \/ x = a.prio[u])
  <2>1. Exact(a, off) /\ u \in Threads => a.suspend[u] = 0
    <3>1. Exact(a, off) /\ u \in Threads => a.suspend[u] \in Nat
      BY Fields DEF Exact
    <3> QED
      BY <1>5, <3>1
  <2> QED
    BY <1>1, <1>2, <1>5, <2>1 DEF WalkStep
<1> QED
  BY <1>3, <1>4, <1>5

\* port_UpdatePriority keeps the lists exact, and reads through NULL when called so.
LEMMA UpdateExact ==
  ASSUME NEW s, NEW off, Exact(s, off), Lost(s, off), NEW t \in Threads \cup {NoThread},
         NEW mutexes, Relations(mutexes)
  PROVE  LET r == UpdatePriority(s, mutexes, t)
         IN Exact(r, off) /\ SameThreads(s, r) /\ SuspendedKeep(s, r)
<1> DEFINE r == UpdatePriority(s, mutexes, t)
           N == ChainBound
<1>1. CASE t = NoThread
  <2>1. r = [s EXCEPT !.fault = TRUE]
    BY <1>1 DEF UpdatePriority
  <2>2. /\ r \in SchedulerState /\ r.cur = s.cur /\ r.bits = s.bits /\ r.state = s.state
        /\ r.suspend = s.suspend /\ r.prio = s.prio /\ r.queue = s.queue /\ r.q = s.q
        /\ r.base = s.base /\ r.disabled = s.disabled /\ r.hint = s.hint
    BY <2>1, Fields DEF SchedulerState, Exact
  <2>3. Heeds(s, r)
    BY <2>2, HeedsCalm
  <2> QED
    BY <2>2, <2>3, FlagsExact DEF SamePlaces, SameThreads, SuspendedKeep
<1>2. CASE t # NoThread
  <2>1. PICK g : /\ g[0] = [s |-> s, t |-> t] /\ r = g[N].s
                 /\ \A i \in 0 .. N - 1 : g[i + 1] = UpdateLink(g[i], mutexes)
    BY <1>2, UpdateWalk
  <2>2. N \in Nat
    BY ChainBoundNat
  <2>3. ASSUME NEW i \in 0 .. N - 1
        PROVE  WalkStep(g[i], g[i + 1], mutexes, off)
    BY <2>1, UpdateStep
  <2> HIDE DEF N, r
  <2> QED
    BY <1>2, <2>1, <2>2, <2>3, WalkExact DEF r
<1> QED
  BY <1>1, <1>2

\* One turn of the loop in port_OSPromoteThread.
PromoteLink(l, mutexes, p) ==
  LET Wish(a, u) == IF a.prio[u] <= p THEN a.prio[u] ELSE p
  IN IF l.t = NoThread THEN l
     ELSE IF l.s.fault \/ l.s.suspend[l.t] > 0 \/ Wish(l.s, l.t) = l.s.prio[l.t]
     THEN [s |-> l.s, t |-> NoThread]
     ELSE [s |-> SetEffectivePriority(l.s, l.t, Wish(l.s, l.t)), t |-> Blocker(l.s, mutexes, l.t)]

\* A promotion is such a walk too.
PromoteWalks(s, mutexes, t, p) ==
  \E g : /\ g[0] = [s |-> s, t |-> t] /\ PromoteThread(s, mutexes, t, p) = g[ChainBound].s
        /\ \A i \in 0 .. ChainBound - 1 : g[i + 1] = PromoteLink(g[i], mutexes, p)

\* Every promotion is.
LEMMA PromoteWalk ==
  ASSUME NEW s, NEW mutexes, NEW t, NEW p
  PROVE  PromoteWalks(s, mutexes, t, p)
<1> DEFINE N == ChainBound
           r == PromoteThread(s, mutexes, t, p)
           W(a, u) == IF a.prio[u] <= p THEN a.prio[u] ELSE p
           F(l) == IF l.t = NoThread THEN l
                   ELSE IF l.s.fault \/ l.s.suspend[l.t] > 0 \/ W(l.s, l.t) = l.s.prio[l.t]
                   THEN [s |-> l.s, t |-> NoThread]
                   ELSE [s |-> SetEffectivePriority(l.s, l.t, W(l.s, l.t)),
                         t |-> Blocker(l.s, mutexes, l.t)]
           start == [s |-> s, t |-> t]
           Walk(g, k) == g = [n \in 0 .. k |-> IF n = 0 THEN start ELSE F(g[n - 1])]
           g == CHOOSE g : Walk(g, N)
<1>1. r = g[N].s
  BY DEF PromoteThread, FollowChain
<1>2. N \in Nat
  BY ChainBoundNat
<1>3. Walk(g, N)
  <2> DEFINE T == {k \in 0 .. N : \E h : Walk(h, k)}
  <2>1. 0 \in T
    <3>1. Walk([n \in 0 .. 0 |-> start], 0)
      OBVIOUS
    <3>2. \E h : Walk(h, 0)
      BY <3>1
    <3> HIDE DEF Walk, N
    <3> QED
      BY <1>2, <3>2
  <2>2. ASSUME NEW k \in 0 .. N - 1, k \in T PROVE k + 1 \in T
    <3>1. PICK h : Walk(h, k)
      BY <2>2
    <3> HIDE DEF start, F
    <3> DEFINE h1 == [n \in 0 .. k + 1 |-> IF n = k + 1 THEN F(h[k]) ELSE h[n]]
    <3>2. k \in Nat /\ k + 1 \in 0 .. N
      BY <1>2
    <3>3. h = [n \in 0 .. k |-> IF n = 0 THEN start ELSE F(h[n - 1])]
      BY <3>1
    <3>4. ASSUME NEW n \in 0 .. k + 1 PROVE h1[n] = IF n = 0 THEN start ELSE F(h1[n - 1])
      <4>1. CASE n = k + 1
        BY <3>2, <4>1
      <4>2. CASE n = 0
        BY <3>2, <3>3, <4>2
      <4>3. CASE n \in 1 .. k
        <5>1. n \in 0 .. k /\ n - 1 \in 0 .. k /\ n # 0 /\ n # k + 1 /\ n - 1 # k + 1
          BY <3>2, <4>3
        <5>2. h[n] = F(h[n - 1])
          BY <3>3, <5>1
        <5> QED
          BY <5>1, <5>2
      <4> QED
        BY <3>2, <4>1, <4>2, <4>3
    <3>5. Walk(h1, k + 1)
      <4>1. h1 = [n \in 0 .. k + 1 |-> h1[n]]
        OBVIOUS
      <4> HIDE DEF h1
      <4> QED
        BY <3>4, <4>1
    <3> QED
      BY <3>2, <3>5
  <2>3. N \in T
    <3> HIDE DEF T
    <3>1. 0 .. N \subseteq T
      BY <1>2, <2>1, <2>2, BoundedInduction
    <3> QED
      BY <1>2, <3>1
  <2>4. \E h : Walk(h, N)
    BY <2>3
  <2> HIDE DEF Walk
  <2> QED
    BY <2>4
<1> HIDE DEF g
<1>4. g[0] = start /\ \A i \in 0 .. N - 1 : g[i + 1] = F(g[i])
  <2> HIDE DEF start, F, N
  <2>1. 0 \in 0 .. N /\ \A i \in 0 .. N - 1 : i + 1 \in 0 .. N /\ i + 1 # 0 /\ (i + 1) - 1 = i
    BY <1>2
  <2> QED
    BY <1>3, <2>1
<1>5. \A l : F(l) = PromoteLink(l, mutexes, p)
  BY DEF PromoteLink
<1> HIDE DEF F
<1>6. /\ g[0] = [s |-> s, t |-> t] /\ PromoteThread(s, mutexes, t, p) = g[ChainBound].s
      /\ \A i \in 0 .. ChainBound - 1 : g[i + 1] = PromoteLink(g[i], mutexes, p)
  BY <1>1, <1>4, <1>5
<1> QED
  BY <1>6 DEF PromoteWalks

\* A turn of a promotion moves one thread to another place, or none.
LEMMA PromoteStep ==
  ASSUME NEW l, NEW mutexes, NEW off, NEW p \in Priorities, NEW k, k = PromoteLink(l, mutexes, p)
  PROVE  WalkStep(l, k, mutexes, off)
<1> DEFINE a == l.s
           u == l.t
           W == IF a.prio[u] <= p THEN a.prio[u] ELSE p
<1>1. k = IF u = NoThread THEN l
          ELSE IF a.fault \/ a.suspend[u] > 0 \/ W = a.prio[u]
          THEN [s |-> a, t |-> NoThread]
          ELSE [s |-> SetEffectivePriority(a, u, W), t |-> Blocker(a, mutexes, u)]
  BY DEF PromoteLink
<1>2. W \in Priorities \/ W = a.prio[u]
  OBVIOUS
<1> HIDE DEF W
<1>3. CASE u = NoThread
  BY <1>1, <1>3 DEF WalkStep
<1>4. CASE u # NoThread /\ (a.fault \/ a.suspend[u] > 0 \/ W = a.prio[u])
  BY <1>1, <1>4 DEF WalkStep
<1>5. CASE u # NoThread /\ ~(a.fault \/ a.suspend[u] > 0 \/ W = a.prio[u])
  <2>1. Exact(a, off) /\ u \in Threads => a.suspend[u] = 0
    <3>1. Exact(a, off) /\ u \in Threads => a.suspend[u] \in Nat
      BY Fields DEF Exact
    <3> QED
      BY <1>5, <3>1
  <2> QED
    BY <1>1, <1>2, <1>5, <2>1 DEF WalkStep
<1> QED
  BY <1>3, <1>4, <1>5

\* port_PromoteThread keeps them exact too.
LEMMA PromoteExact ==
  ASSUME NEW s, NEW off, Exact(s, off), Lost(s, off), NEW t \in Threads, NEW p \in Priorities,
         NEW mutexes, Relations(mutexes)
  PROVE  LET r == PromoteThread(s, mutexes, t, p)
         IN Exact(r, off) /\ SameThreads(s, r) /\ SuspendedKeep(s, r)
<1> DEFINE N == ChainBound
<1>0. PromoteWalks(s, mutexes, t, p)
  BY PromoteWalk
<1>1. PICK g : /\ g[0] = [s |-> s, t |-> t] /\ PromoteThread(s, mutexes, t, p) = g[N].s
               /\ \A i \in 0 .. N - 1 : g[i + 1] = PromoteLink(g[i], mutexes, p)
  BY <1>0 DEF PromoteWalks
<1>2. N \in Nat
  BY ChainBoundNat
<1>3. ASSUME NEW i \in 0 .. N - 1
      PROVE  WalkStep(g[i], g[i + 1], mutexes, off)
  BY <1>1, PromoteStep
<1> HIDE DEF N
<1> DEFINE r == PromoteThread(s, mutexes, t, p)
<1>4. r = g[N].s /\ g[0].s = s /\ g[0].t \in Threads
  BY <1>1
<1> HIDE DEF r
<1>5. Exact(g[N].s, off) /\ SameThreads(s, g[N].s) /\ SuspendedKeep(s, g[N].s)
  BY <1>1, <1>2, <1>3, WalkExact
<1> QED
  BY <1>4, <1>5 DEF r

-----------------------------------------------------------------------------
(* Dispatch. *)

\* What moving threads between queues and the processor keeps: who lives, and that
\* nobody joins the sleepers.
Keeps(s, r) ==
  /\ \A t \in Threads : r.state[t] \in Live <=> s.state[t] \in Live
  /\ \A w \in SleepQueues : ToSet(r.q[w]) \subseteq ToSet(s.q[w])

\* The same of what a dispatch leaves alone.
LEMMA KeepsTransitive == ASSUME NEW s, NEW r, NEW v, Keeps(s, r), Keeps(r, v) PROVE Keeps(s, v)
BY DEF Keeps

LEMMA SameKeeps == ASSUME NEW s, NEW r, SameThreads(s, r) PROVE Keeps(s, r)
BY DEF SamePlaces, SameThreads, Keeps

\* A dispatch that was due stays due when no thread changes its state.
LEMMA SameHinted ==
  ASSUME NEW s, NEW r, Hinted(s), SameThreads(s, r) PROVE Hinted(r)
BY DEF SamePlaces, SameThreads, Hinted

\* The running thread becomes the last of its run queue.
LEMMA PreemptExact ==
  ASSUME NEW s, Exact(s, {}), s.cur \in Threads, s.state[s.cur] = "RUNNING"
  PROVE  LET r == Preempt(s)
         IN /\ Exact(r, {}) /\ Keeps(s, r) /\ r.cur = s.cur /\ r.disabled = s.disabled
            /\ \A t \in Threads : r.state[t] # "RUNNING"
            /\ Steady(s, r)
<1> DEFINE t == s.cur
           b == [s EXCEPT !.state[t] = "READY"]
           r == Preempt(s)
<1>1. s \in SchedulerState /\ s.suspend[t] = 0 /\ s.prio[t] \in Priorities
  BY DEF Exact, OnlyCurrentRuns, RealPriorities, Live
<1>2. /\ b.cur = s.cur /\ b.bits = s.bits /\ b.q = s.q /\ b.suspend = s.suspend /\ b.prio = s.prio
      /\ b.queue = s.queue /\ b.disabled = s.disabled /\ b.base = s.base /\ b.fault = s.fault
      /\ b.state = [s.state EXCEPT ![t] = "READY"]
  BY <1>1, Fields DEF SchedulerState
<1>3. b \in SchedulerState
  BY <1>1, Fields DEF SchedulerState, Live
<1>4. b.state[t] = "READY" /\ \A u \in Threads \ {t} : b.state[u] = s.state[u] /\ b.state[u] # "RUNNING"
  BY <1>1, <1>2, Fields DEF Exact, OnlyCurrentRuns
<1> HIDE DEF b
<1>5. OnlyCurrentRuns(b) /\ ~OnQueue(s, t)
  BY <1>2, <1>4 DEF OnlyCurrentRuns, OnQueue
<1>6. Exact(b, {} \cup {t})
  BY <1>1, <1>2, <1>3, <1>4, <1>5, ThreadExact, ZenonT(40)
<1>7. r = SetRun(b, t)
  BY DEF Preempt, b
<1>8. /\ Exact(r, ({} \cup {t}) \ {t}) /\ SameThreads(b, r) /\ Steady(b, r)
  BY <1>1, <1>2, <1>4, <1>6, <1>7, SetRunExact
<1>9. ({} \cup {t}) \ {t} = {}
  OBVIOUS
<1> HIDE DEF r
<1>10. \A u \in Threads : r.state[u] # "RUNNING" /\ (r.state[u] \in Live <=> s.state[u] \in Live)
  BY <1>4, <1>8 DEF SamePlaces, SameThreads, Live
<1>11. Keeps(s, r)
  BY <1>2, <1>8, <1>10, Kinds DEF SamePlaces, SameThreads, Keeps
<1>12. Steady(s, r)
  BY <1>2, <1>8 DEF Steady, SameRanks
<1> QED
  BY <1>2, <1>8, <1>9, <1>10, <1>11, <1>12 DEF SamePlaces, SameThreads, r

\* No ready thread is better than the best one.
LEMMA BestIsLeast ==
  ASSUME NEW s \in SchedulerState, s.bits # {}
  PROVE  /\ BestReady(s) \in s.bits /\ \A p \in s.bits : ~(p < BestReady(s))
         /\ \A p \in s.bits : p \in Nat
<1>1. s.bits \in SUBSET Nat
  <2>1. s.bits \subseteq Priorities
    BY Fields
  <2>2. Priorities \subseteq Nat
    BY Kinds
  <2> QED
    BY <2>1, <2>2
<1>2. BestReady(s) \in s.bits /\ \A p \in s.bits : BestReady(s) <= p
  BY <1>1, MinIsLeast DEF BestReady
<1>3. \A p \in s.bits : p \in Nat /\ BestReady(s) \in Nat
  BY <1>1, <1>2
<1> QED
  BY <1>2, <1>3

\* The head of the best run queue gets the processor that nobody has.
DispatchHead(a) ==
  LET p == BestReady(a)
      t == Head(a.q[p])
  IN [a EXCEPT !.cur = t, !.hint = FALSE, !.q[p] = Tail(@), !.queue[t] = NoQueue,
               !.bits = IF Len(a.q[p]) = 1 THEN @ \ {p} ELSE @, !.state[t] = "RUNNING"]

\* The head of the best run queue gets the processor.
LEMMA DispatchExact ==
  ASSUME NEW a, Exact(a, {}), \A u \in Threads : a.state[u] # "RUNNING", a.bits # {}
  PROVE  LET r == DispatchHead(a)
         IN Exact(r, {}) /\ Hinted(r) /\ Keeps(a, r) /\ Steady(a, r) /\ ~Missed(r)
<1> DEFINE p == BestReady(a)
           t == Head(a.q[p])
           r == DispatchHead(a)
           c == UnsetRun(a, t)
<1>1. a \in SchedulerState
  BY DEF Exact
<1>2. p \in a.bits /\ \A x \in a.bits : ~(x < p)
  BY <1>1, BestIsLeast
<1> HIDE DEF p
<1>3. p \in Priorities /\ p \in Queues /\ p \notin SleepQueues /\ a.q[p] \in Lines(Threads) /\ a.q[p] # <<>>
  BY <1>1, <1>2, Fields, Kinds DEF Exact, ListsExact, BitsExact
<1>4. t \in ToSet(a.q[p]) /\ t \in Threads
  BY <1>3, HeadTailLine, SeqFacts DEF Lines
<1> HIDE DEF t
<1>5. a.state[t] = "READY" /\ a.suspend[t] = 0 /\ a.queue[t] = p /\ a.prio[t] = p
  <2>1. OnQueue(a, t) /\ a.queue[t] = p
    BY <1>3, <1>4 DEF Exact, ListsExact
  <2> QED
    BY <1>3, <1>4, <2>1 DEF OnQueue, Exact, QueueFields
<1>6. RemoveFirst(a.q[p], t) = Tail(a.q[p]) /\ (Len(a.q[p]) = 1 <=> Tail(a.q[p]) = <<>>)
  BY <1>3, RemoveHead, HeadTailLine DEF t
<1>7. Exact(c, {} \cup {t}) /\ SameThreads(a, c) /\ c.prio = a.prio /\ c \in SchedulerState
  BY <1>4, <1>5, UnsetRunExact, SMTT(30) DEF Exact
<1>8. /\ c.q = [a.q EXCEPT ![p] = Tail(@)]
      /\ c.bits = IF Len(a.q[p]) = 1 THEN a.bits \ {p} ELSE a.bits
      /\ c.queue = [a.queue EXCEPT ![t] = NoQueue]
  BY <1>1, <1>5, <1>6, Fields DEF UnsetRun, SchedulerState
<1> HIDE DEF c
<1>9. /\ r.cur = t /\ r.hint = FALSE /\ r.q = c.q /\ r.queue = c.queue /\ r.bits = c.bits
      /\ r.state = [a.state EXCEPT ![t] = "RUNNING"] /\ r.suspend = a.suspend /\ r.prio = a.prio
      /\ r.base = a.base /\ r.disabled = a.disabled /\ r.fault = a.fault
  BY <1>1, <1>8, Fields, SMTT(30) DEF SchedulerState, DispatchHead, p, t
<1>10. r \in SchedulerState
  <2>1. r.state \in [Threads -> Live \cup Dead]
    <3>1. "RUNNING" \in Live \cup Dead
      BY DEF Live
    <3>2. a.state \in [Threads -> Live \cup Dead]
      BY <1>1, Fields
    <3> QED
      BY <1>9, <3>1, <3>2
  <2>2. /\ r.q \in [Queues -> Seq(Threads)] /\ r.queue \in [Threads -> Queues \cup {NoQueue}]
        /\ r.bits \in SUBSET Priorities
    BY <1>7, <1>9, Fields
  <2> QED
    BY <1>1, <1>4, <1>9, <2>1, <2>2, Fields DEF SchedulerState, DispatchHead, p, t
<1> HIDE DEF r
<1>11. r.state[t] = "RUNNING" /\ \A u \in Threads \ {t} : r.state[u] = a.state[u]
  BY <1>1, <1>4, <1>9, Fields
<1>12. OnlyCurrentRuns(r) /\ ~OnQueue(r, t)
  BY <1>5, <1>9, <1>11 DEF OnlyCurrentRuns, OnQueue
<1>13. Exact(r, ({} \cup {t}) \ {t})
  <2>1. r.prio[t] \in Priorities
    BY <1>3, <1>5, <1>9
  <2>2. \A u \in Threads \ {t} : /\ r.state[u] = c.state[u] /\ r.suspend[u] = c.suspend[u]
                                /\ r.prio[u] = c.prio[u] /\ r.queue[u] = c.queue[u]
    BY <1>7, <1>9, <1>11 DEF SamePlaces, SameThreads
  <2>3. OnlyCurrentRuns(r)
    BY <1>12
  <2> QED
    BY <1>4, <1>7, <1>9, <1>10, <1>12, <2>1, <2>2, ThreadExact
<1>14. ({} \cup {t}) \ {t} = {}
  OBVIOUS
<1>15. Keeps(a, r)
  BY <1>5, <1>7, <1>9, <1>11 DEF SamePlaces, SameThreads, Keeps, Live
<1>16. Steady(a, r)
  <2>1. \A w \in SleepQueues : r.q[w] = a.q[w]
    BY <1>1, <1>3, <1>8, <1>9, Fields, Kinds
  <2> QED
    BY <1>9, <2>1 DEF Steady, SameRanks
<1>17. ~Missed(r)
  <2>1. r.cur = t /\ r.state[t] = "RUNNING" /\ r.prio[t] = p
    BY <1>5, <1>9, <1>11
  <2>2. r.bits \subseteq a.bits /\ NoThread # t
    BY <1>4, <1>8, <1>9, Kinds
  <2> QED
    BY <1>2, <2>1, <2>2 DEF Missed
<1> QED
  BY <1>9, <1>11, <1>13, <1>14, <1>15, <1>16, <1>17 DEF Hinted, r

\* __OSSelectThread leaves exact lists, whoever it dispatches.
LEMMA SelectExact ==
  ASSUME NEW s, Exact(s, {}), NEW yield \in BOOLEAN
  PROVE  LET r == SelectThread(s, yield)
         IN /\ Exact(r, {}) /\ Keeps(s, r) /\ (Hinted(s) \/ s.disabled = 0 => Hinted(r))
            /\ Steady(s, r) /\ Heeds(s, r) /\ (r.disabled = 0 => ~Missed(r))
<1> DEFINE runs == s.cur # NoThread /\ s.state[s.cur] = "RUNNING"
           keeps == runs /\ ~yield /\ s.prio[s.cur] <= BestReady(s)
           a == IF runs THEN Preempt(s) ELSE s
           r == SelectThread(s, yield)
<1>1. s \in SchedulerState /\ s.disabled \in Nat /\ s.cur \in Threads \cup {NoThread}
  BY Fields DEF Exact
<1>2. /\ Exact(a, {}) /\ Keeps(s, a) /\ Steady(s, a)
      /\ \A u \in Threads : a.state[u] # "RUNNING"
  <2>1. CASE runs
    BY <1>1, <2>1, PreemptExact
  <2>2. CASE ~runs
    <3>1. \A u \in Threads : s.state[u] # "RUNNING"
      BY <2>2, Kinds DEF Exact, OnlyCurrentRuns
    <3> QED
      BY <2>2, <3>1 DEF Keeps, Steady, SameRanks
  <2> QED
    BY <2>1, <2>2
<1> HIDE DEF a
<1>3. CASE s.disabled > 0 \/ keeps
  <2>1. r = s
    BY <1>3 DEF SelectThread, a
  <2>2. ASSUME s.disabled = 0 PROVE ~Missed(s)
    <3>1. keeps /\ s.cur \in Threads
      BY <1>1, <1>3, <2>2
    <3>2. ASSUME NEW p \in s.bits PROVE ~(p < s.prio[s.cur])
      <4>1. BestReady(s) \in s.bits /\ ~(p < BestReady(s))
        BY <1>1, <3>2, BestIsLeast
      <4>2. p \in Nat /\ BestReady(s) \in Nat
        BY <1>1, <3>2, <4>1, BestIsLeast
      <4>3. s.prio[s.cur] \in Int
        <5>1. s.prio \in [Threads -> Priorities \cup {Suspended}] /\ s.cur \in Threads
          BY <1>1, <3>1, Fields
        <5>2. s.prio[s.cur] \in 0 .. 32
          BY <5>1, PriorityNumbers
        <5> QED
          BY <5>2
      <4> QED
        BY <3>1, <4>1, <4>2, <4>3
    <3> QED
      BY <3>1, <3>2 DEF Missed
  <2> HIDE DEF r
  <2> QED
    BY <1>1, <1>3, <2>1, <2>2, SMTT(30) DEF Keeps, Hinted, Steady, SameRanks, Heeds, r
<1>4. CASE ~(s.disabled > 0 \/ keeps) /\ a.bits = {}
  <2>1. r = [a EXCEPT !.cur = NoThread]
    BY <1>4 DEF SelectThread, a
  <2>2. /\ r \in SchedulerState /\ r.cur = NoThread /\ r.bits = a.bits /\ r.state = a.state
        /\ r.suspend = a.suspend /\ r.prio = a.prio /\ r.queue = a.queue /\ r.q = a.q
        /\ r.base = a.base /\ r.fault = a.fault
    BY <1>2, <2>1, Fields DEF SchedulerState, Exact
  <2> HIDE DEF r
  <2>3. Exact(r, {})
    BY <1>2, <2>2 DEF Exact, ListsExact, QueueFields, BitsExact, OnlyCurrentRuns, RealPriorities,
                      SleepersInOrder, OnQueue
  <2>4. ~Missed(r)
    BY <1>4, <2>2 DEF Missed
  <2> QED
    BY <1>2, <2>2, <2>3, <2>4, SMTT(30) DEF Hinted, Keeps, Steady, SameRanks, Heeds, Alert, r
<1>5. CASE ~(s.disabled > 0 \/ keeps) /\ a.bits # {}
  <2>1. r = DispatchHead(a)
    BY <1>5 DEF SelectThread, DispatchHead, a
  <2> HIDE DEF r
  <2>3. Exact(r, {}) /\ Hinted(r) /\ Keeps(a, r) /\ Steady(a, r) /\ ~Missed(r)
    BY <1>2, <1>5, <2>1, DispatchExact
  <2> QED
    BY <1>2, <2>3, KeepsTransitive, SMTT(30) DEF Steady, SameRanks, Heeds, Alert, r
<1> QED
  BY <1>3, <1>4, <1>5

\* A dispatch, if one was asked for.
LEMMA RescheduleExact ==
  ASSUME NEW s, Exact(s, {})
  PROVE  /\ Exact(Reschedule(s), {}) /\ Keeps(s, Reschedule(s))
         /\ (Hinted(s) => Hinted(Reschedule(s))) /\ Steady(s, Reschedule(s))
         /\ Heeds(s, Reschedule(s))
         /\ (Alert(s) /\ Reschedule(s).disabled = 0 => ~Missed(Reschedule(s)))
<1>1. CASE s.hint
  BY <1>1, SelectExact DEF Reschedule
<1>2. CASE ~s.hint
  BY <1>2 DEF Reschedule, Keeps, Steady, SameRanks, Heeds, Alert
<1> QED
  BY <1>1, <1>2

-----------------------------------------------------------------------------
(* Turns. *)

\* The order on a list, in the terms of TurnsInOrder: it is total and strict.
LEMMA BeforeOrder ==
  ASSUME NEW ts \in Lines(Threads), NEW t, NEW u
  PROVE  /\ In(t, ts) <=> t \in ToSet(ts)
         /\ Before(ts, t, u) => t \in ToSet(ts) /\ u \in ToSet(ts) /\ ~Before(ts, u, t) /\ t # u
         /\ t \in ToSet(ts) /\ u \in ToSet(ts) /\ t # u => Before(ts, t, u) \/ Before(ts, u, t)
<1>1. DOMAIN ts = 1 .. Len(ts) /\ Len(ts) \in Nat /\ IsInjective(ts)
  BY SeqFacts DEF Lines
<1>2. In(t, ts) <=> t \in ToSet(ts)
  BY DEF In, ToSet
<1>3. ASSUME Before(ts, t, u)
      PROVE  t \in ToSet(ts) /\ u \in ToSet(ts) /\ ~Before(ts, u, t) /\ t # u
  <2>1. PICK i, j \in DOMAIN ts : i < j /\ ts[i] = t /\ ts[j] = u
    BY <1>3 DEF Before
  <2>2. ASSUME NEW k \in DOMAIN ts, NEW l \in DOMAIN ts, k < l, ts[k] = u, ts[l] = t PROVE FALSE
    <3>1. k = j /\ l = i
      BY <1>1, <2>1, <2>2 DEF IsInjective
    <3> QED
      BY <1>1, <2>1, <2>2, <3>1
  <2>3. t # u
    BY <1>1, <2>1 DEF IsInjective
  <2> QED
    BY <2>1, <2>2, <2>3 DEF Before, ToSet
<1>4. ASSUME t \in ToSet(ts), u \in ToSet(ts), t # u PROVE Before(ts, t, u) \/ Before(ts, u, t)
  <2>1. PICK i \in DOMAIN ts : ts[i] = t
    BY <1>4 DEF ToSet
  <2>2. PICK j \in DOMAIN ts : ts[j] = u
    BY <1>4 DEF ToSet
  <2>3. i < j \/ j < i
    BY <1>1, <1>4, <2>1, <2>2
  <2> QED
    BY <2>1, <2>2, <2>3 DEF Before
<1> QED
  BY <1>2, <1>3, <1>4

\* Whoever joins a list at its end is behind all others, who keep their order.
LEMMA BeforeAppend ==
  ASSUME NEW ts \in Lines(Threads), NEW x \in Threads, x \notin ToSet(ts)
  PROVE  /\ \A t \in ToSet(ts) : Before(Append(ts, x), t, x)
         /\ \A t, u : Before(ts, t, u) => Before(Append(ts, x), t, u)
<1> DEFINE n == Len(ts)
           us == Append(ts, x)
<1>1. ts \in Seq(Threads) /\ n \in Nat /\ DOMAIN ts = 1 .. n
  BY SeqFacts DEF Lines
<1>2. /\ us \in Seq(Threads) /\ DOMAIN us = 1 .. n + 1
      /\ \A i \in 1 .. n : us[i] = ts[i]
      /\ us[n + 1] = x
  BY <1>1, AppendProperties, SeqFacts
<1> HIDE DEF us, n
<1>3. n + 1 \in 1 .. n + 1 /\ \A i \in 1 .. n : i \in 1 .. n + 1 /\ i < n + 1
  BY <1>1
<1>4. ASSUME NEW t \in ToSet(ts) PROVE Before(us, t, x)
  <2>1. PICK i \in 1 .. n : ts[i] = t
    BY <1>1 DEF ToSet
  <2> QED
    BY <1>2, <1>3, <2>1 DEF Before
<1>5. ASSUME NEW t, NEW u, Before(ts, t, u) PROVE Before(us, t, u)
  <2>1. PICK i \in 1 .. n, j \in 1 .. n : i < j /\ ts[i] = t /\ ts[j] = u
    BY <1>1, <1>5 DEF Before
  <2> QED
    BY <1>2, <1>3, <2>1 DEF Before
<1> QED
  BY <1>4, <1>5 DEF us

\* Whoever leaves a list leaves the others in their order.
LEMMA BeforeRemove ==
  ASSUME NEW ts \in Lines(Threads), NEW x \in ToSet(ts)
  PROVE  /\ RemoveFirst(ts, x) \in Lines(Threads) /\ ToSet(RemoveFirst(ts, x)) = ToSet(ts) \ {x}
         /\ \A t, u \in ToSet(ts) \ {x} : Before(ts, t, u) => Before(RemoveFirst(ts, x), t, u)
<1> DEFINE us == RemoveFirst(ts, x)
<1>1. /\ us \in Lines(Threads) /\ ToSet(us) = ToSet(ts) \ {x}
      /\ \A i, j \in DOMAIN us : i < j =>
           \E k, l \in DOMAIN ts : k < l /\ ts[k] = us[i] /\ ts[l] = us[j]
  BY RemoveFirstLine
<1> HIDE DEF us
<1>2. ASSUME NEW t, NEW u, Before(us, t, u) PROVE Before(ts, t, u)
  BY <1>1, <1>2 DEF Before
<1>3. ASSUME NEW t \in ToSet(ts) \ {x}, NEW u \in ToSet(ts) \ {x}, Before(ts, t, u)
      PROVE  Before(us, t, u)
  <2>1. t # u /\ ~Before(ts, u, t)
    BY <1>3, BeforeOrder
  <2> QED
    BY <1>1, <1>2, <2>1, BeforeOrder
<1> QED
  BY <1>1, <1>3 DEF us

\* The head of a list is before all others.
LEMMA BeforeHead ==
  ASSUME NEW ts \in Lines(Threads), NEW t \in ToSet(ts), t # Head(ts)
  PROVE  Before(ts, Head(ts), t)
<1>1. DOMAIN ts = 1 .. Len(ts) /\ Len(ts) \in Nat
  BY SeqFacts DEF Lines
<1>2. PICK i \in 1 .. Len(ts) : ts[i] = t
  BY <1>1 DEF ToSet
<1>3. 1 \in 1 .. Len(ts) /\ Head(ts) = ts[1]
  BY <1>1, <1>2, SeqFacts DEF Lines
<1>4. 1 < i
  BY <1>1, <1>2, <1>3
<1> QED
  BY <1>1, <1>2, <1>3, <1>4 DEF Before

\* Since s0 nobody of a priority has overtaken another who waits for that priority, unless
\* `robbed`: then a thread may have lost the processor, newly got, to a better one.
Ordered(s0, s, robbed) ==
  \A p \in Priorities, t, u \in Threads :
    In(t, s0.q[p]) /\ In(t, s.q[p]) /\ t # u /\ In(u, s.q[p]) /\ ~Before(s0.q[p], u, t) =>
      Before(s.q[p], t, u) \/ (robbed /\ BetterRuns(s, p))

\* Nor was anybody dispatched before one who waited longer.
Unjumped(s0, s) ==
  \A p \in Priorities, t, u \in Threads :
    In(t, s0.q[p]) /\ In(t, s.q[p]) /\ Before(s0.q[p], t, u) /\ s.prio[u] = p =>
      s.state[u] # "RUNNING"

\* Whoever sleeps in s did not wait for the processor in s0.
Drowsy(s0, s) == \A t \in Threads : s.state[t] = "WAITING" => s0.state[t] # "READY"

InTurn(s0, s, robbed) == Ordered(s0, s, robbed) /\ Unjumped(s0, s) /\ Drowsy(s0, s)

\* No dispatch has come since s0.
Fresh(s0, s) == \A t \in Threads : s.state[t] = "RUNNING" => s0.state[t] = "RUNNING"

\* The next dispatch takes the processor from nobody who got it since s0.
Calm(s0, s) == Fresh(s0, s) \/ (s.disabled = 0 => ~Missed(s))

\* The threads of a run queue are READY.
LEMMA InRunQueue ==
  ASSUME NEW s, NEW off, Exact(s, off), NEW p \in Priorities
  PROVE  /\ s.q[p] \in Lines(Threads)
         /\ \A t \in ToSet(s.q[p]) : /\ t \in Threads /\ s.state[t] = "READY" /\ s.suspend[t] = 0
                                    /\ s.queue[t] = p /\ s.prio[t] = p
<1>1. p \in Queues /\ p \notin SleepQueues /\ s.q[p] \in Lines(Threads)
  BY Kinds DEF Exact, ListsExact
<1>2. ASSUME NEW t \in ToSet(s.q[p])
      PROVE  /\ t \in Threads /\ s.state[t] = "READY" /\ s.suspend[t] = 0
             /\ s.queue[t] = p /\ s.prio[t] = p
  <2>1. t \in Threads
    BY <1>1, SeqFacts DEF Lines
  <2>2. OnQueue(s, t) /\ t \notin off /\ s.queue[t] = p
    BY <1>1, <2>1 DEF Exact, ListsExact
  <2> QED
    BY <1>1, <2>1, <2>2 DEF Exact, QueueFields, OnQueue
<1> QED
  BY <1>1, <1>2

\* One thread may have joined a run queue at its end, and one may have left a run queue.
Shifted(s0, s) ==
  /\ \A p \in Priorities :
       \/ s.q[p] = s0.q[p]
       \/ \E x \in Threads : x \notin ToSet(s0.q[p]) /\ s.q[p] = Append(s0.q[p], x)
       \/ \E x \in ToSet(s0.q[p]) : s.q[p] = RemoveFirst(s0.q[p], x)
  /\ \A t \in Threads : /\ s.state[t] = "RUNNING" => s0.state[t] = "RUNNING"
                        /\ s.state[t] = "WAITING" => s0.state[t] # "READY"

\* Then nobody is out of turn.
LEMMA TurnsKept ==
  ASSUME NEW s0, Exact(s0, {}), NEW s, Shifted(s0, s)
  PROVE  InTurn(s0, s, FALSE) /\ Fresh(s0, s)
<1> USE DEF Shifted
<1>1. Ordered(s0, s, FALSE)
  <2> SUFFICES ASSUME NEW p \in Priorities, NEW t \in Threads, NEW u \in Threads,
                      In(t, s0.q[p]), In(t, s.q[p]), t # u, In(u, s.q[p]), ~Before(s0.q[p], u, t)
               PROVE  Before(s.q[p], t, u)
    BY DEF Ordered
  <2>1. s0.q[p] \in Lines(Threads)
    BY InRunQueue
  <2>2. t \in ToSet(s0.q[p]) /\ (u \in ToSet(s0.q[p]) => Before(s0.q[p], t, u))
    BY <2>1, BeforeOrder
  <2>3. CASE s.q[p] = s0.q[p]
    BY <2>1, <2>2, <2>3, BeforeOrder
  <2>4. ASSUME NEW x \in Threads, x \notin ToSet(s0.q[p]), s.q[p] = Append(s0.q[p], x)
        PROVE  Before(s.q[p], t, u)
    <3>1. s.q[p] \in Lines(Threads) /\ ToSet(s.q[p]) = ToSet(s0.q[p]) \cup {x}
      BY <2>1, <2>4, AppendLine
    <3>2. u \in ToSet(s0.q[p]) \/ u = x
      BY <3>1, BeforeOrder
    <3> QED
      BY <2>1, <2>2, <2>4, <3>2, BeforeAppend
  <2>5. ASSUME NEW x \in ToSet(s0.q[p]), s.q[p] = RemoveFirst(s0.q[p], x)
        PROVE  Before(s.q[p], t, u)
    <3>1. /\ s.q[p] \in Lines(Threads) /\ ToSet(s.q[p]) = ToSet(s0.q[p]) \ {x}
          /\ \A v, w \in ToSet(s0.q[p]) \ {x} : Before(s0.q[p], v, w) => Before(s.q[p], v, w)
      BY <2>1, <2>5, BeforeRemove
    <3>2. t \in ToSet(s.q[p]) /\ u \in ToSet(s.q[p])
      BY <3>1, BeforeOrder
    <3> QED
      BY <2>2, <3>1, <3>2
  <2> QED
    BY <2>3, <2>4, <2>5
<1>2. Unjumped(s0, s)
  <2> SUFFICES ASSUME NEW p \in Priorities, NEW t \in Threads, NEW u \in Threads,
                      Before(s0.q[p], t, u)
               PROVE  s.state[u] # "RUNNING"
    BY DEF Unjumped
  <2>1. s0.state[u] = "READY"
    BY InRunQueue, BeforeOrder
  <2> QED
    BY <2>1
<1> QED
  BY <1>1, <1>2 DEF InTurn, Drowsy, Fresh

\* Before the first dispatch, moving a thread between sleep queues changes no turn, nor does
\* the running thread that goes to sleep or dies.
LEMMA TurnsMoved ==
  ASSUME NEW s0, Exact(s0, {}), NEW a, NEW s, InTurn(s0, a, FALSE), Fresh(s0, a),
         \A p \in Priorities : s.q[p] = a.q[p],
         \A t \in Threads : /\ s.state[t] = "RUNNING" => a.state[t] = "RUNNING"
                            /\ s.state[t] = "WAITING" => a.state[t] \in {"WAITING", "RUNNING"}
  PROVE  InTurn(s0, s, FALSE) /\ Fresh(s0, s)
<1>1. Ordered(s0, s, FALSE)
  BY DEF InTurn, Ordered
<1>2. Fresh(s0, s) /\ Drowsy(s0, s)
  BY DEF InTurn, Fresh, Drowsy
<1>3. Unjumped(s0, s)
  <2> SUFFICES ASSUME NEW p \in Priorities, NEW t \in Threads, NEW u \in Threads,
                      Before(s0.q[p], t, u)
               PROVE  s.state[u] # "RUNNING"
    BY DEF Unjumped
  <2>1. s0.state[u] = "READY"
    BY InRunQueue, BeforeOrder
  <2> QED
    BY <1>2, <2>1 DEF Fresh
<1> QED
  BY <1>1, <1>2, <1>3 DEF InTurn

\* A turn that may be lost may be lost later too.
LEMMA TurnsLoosened ==
  ASSUME NEW s0, NEW s, InTurn(s0, s, FALSE), NEW robbed \in BOOLEAN PROVE InTurn(s0, s, robbed)
BY SMTT(30) DEF InTurn, Ordered

\* What a preemption does to the run queues.
LEMMA PreemptMoves ==
  ASSUME NEW s, Exact(s, {}), s.cur \in Threads, s.state[s.cur] = "RUNNING"
  PROVE  LET r == Preempt(s)
             p == s.prio[s.cur]
         IN /\ p \in Priorities /\ r.bits = s.bits \cup {p} /\ r.prio = s.prio
            /\ r.q[p] = Append(s.q[p], s.cur) /\ \A x \in Priorities \ {p} : r.q[x] = s.q[x]
            /\ r.state[s.cur] = "READY" /\ \A u \in Threads \ {s.cur} : r.state[u] = s.state[u]
            /\ \A x \in Priorities : s.cur \notin ToSet(s.q[x])
<1> DEFINE t == s.cur
           p == s.prio[t]
           b == [s EXCEPT !.state[t] = "READY"]
           r == Preempt(s)
<1>1. s \in SchedulerState /\ p \in Priorities /\ p \in Queues
  BY Kinds DEF Exact, OnlyCurrentRuns, RealPriorities, Live
<1>2. /\ b.cur = s.cur /\ b.prio = s.prio /\ b.q = s.q /\ b.bits = s.bits /\ b.queue = s.queue
      /\ b.state = [s.state EXCEPT ![t] = "READY"] /\ b \in SchedulerState
  BY <1>1, Fields DEF SchedulerState, Live
<1>3. r = SetRun(b, t)
  BY DEF Preempt
<1> HIDE DEF b
<1>4. /\ r.prio = b.prio /\ r.state = b.state /\ r.bits = b.bits \cup {b.prio[t]}
      /\ r.q = [b.q EXCEPT ![b.prio[t]] = Append(@, t)]
  BY <1>2, <1>3, Fields DEF SetRun, SchedulerState
<1> HIDE DEF r
<1>5. r.q[p] = Append(s.q[p], t) /\ \A x \in Priorities \ {p} : r.q[x] = s.q[x]
  BY <1>1, <1>2, <1>4, Fields, Kinds, SMTT(30)
<1>6. r.state[t] = "READY" /\ \A u \in Threads \ {t} : r.state[u] = s.state[u]
  BY <1>1, <1>2, <1>4, Fields
<1>7. \A x \in Priorities : t \notin ToSet(s.q[x])
  BY InRunQueue
<1> QED
  BY <1>1, <1>2, <1>4, <1>5, <1>6, <1>7 DEF r

\* What a dispatch does to them.
LEMMA DispatchMoves ==
  ASSUME NEW a, Exact(a, {}), a.bits # {}
  PROVE  LET p == BestReady(a)
             t == Head(a.q[p])
             r == DispatchHead(a)
         IN /\ p \in Priorities /\ p \in a.bits /\ t \in ToSet(a.q[p])
            /\ r.cur = t /\ r.prio = a.prio /\ r.q[p] = RemoveFirst(a.q[p], t)
            /\ \A x \in Priorities \ {p} : r.q[x] = a.q[x]
            /\ r.state[t] = "RUNNING" /\ \A u \in Threads \ {t} : r.state[u] = a.state[u]
<1> DEFINE p == BestReady(a)
           t == Head(a.q[p])
           r == DispatchHead(a)
<1>1. a \in SchedulerState
  BY DEF Exact
<1>2. p \in a.bits
  BY <1>1, BestIsLeast
<1> HIDE DEF p
<1>3. p \in Priorities /\ p \in Queues /\ a.q[p] \in Lines(Threads) /\ a.q[p] # <<>>
  <2>1. p \in Priorities
    BY <1>1, <1>2, Fields
  <2> QED
    BY <1>2, <2>1, Kinds DEF Exact, ListsExact, BitsExact
<1>4. t \in ToSet(a.q[p]) /\ t \in Threads
  BY <1>3, HeadTailLine, SeqFacts DEF Lines
<1>5. RemoveFirst(a.q[p], t) = Tail(a.q[p])
  BY <1>3, RemoveHead
<1> HIDE DEF t
<1>6. /\ r.cur = t /\ r.prio = a.prio /\ r.q = [a.q EXCEPT ![p] = Tail(@)]
      /\ r.state = [a.state EXCEPT ![t] = "RUNNING"]
  BY <1>1, Fields DEF SchedulerState, DispatchHead, p, t
<1> HIDE DEF r
<1>7. r.q[p] = RemoveFirst(a.q[p], t) /\ \A x \in Priorities \ {p} : r.q[x] = a.q[x]
  BY <1>1, <1>3, <1>5, <1>6, Fields, Kinds
<1>8. r.state[t] = "RUNNING" /\ \A u \in Threads \ {t} : r.state[u] = a.state[u]
  BY <1>1, <1>4, <1>6, Fields
<1> QED
  BY <1>2, <1>3, <1>4, <1>6, <1>7, <1>8 DEF p, t, r

\* A dispatch that is due, or nobody's loss, keeps all turns; only when the running thread
\* has the processor since a moment ago may it lose its turn, to a better thread.
LEMMA SelectTurns ==
  ASSUME NEW s0, Exact(s0, {}), NEW s, Exact(s, {}), NEW robbed \in BOOLEAN, InTurn(s0, s, robbed),
         NEW yield \in BOOLEAN, IF robbed THEN ~yield ELSE Fresh(s0, s),
         NEW r, r = SelectThread(s, yield)
  PROVE  InTurn(s0, r, robbed)
<1> DEFINE x == s.cur
           runs == s.cur # NoThread /\ s.state[s.cur] = "RUNNING"
           keeps == runs /\ ~yield /\ s.prio[s.cur] <= BestReady(s)
           a == IF runs THEN Preempt(s) ELSE s
           p == BestReady(a)
           h == Head(a.q[p])
<1>1. s \in SchedulerState /\ s.cur \in Threads \cup {NoThread}
  BY Fields DEF Exact
<1>2. /\ Exact(a, {}) /\ a.prio = s.prio /\ \A u \in Threads : a.state[u] # "RUNNING"
      /\ \A u \in Threads : a.state[u] = "WAITING" <=> s.state[u] = "WAITING"
  <2>1. CASE runs
    BY <1>1, <2>1, PreemptExact, PreemptMoves
  <2>2. CASE ~runs
    <3>1. \A u \in Threads : s.state[u] # "RUNNING"
      BY <2>2, Kinds, SMTT(30) DEF Exact, OnlyCurrentRuns
    <3> QED
      BY <2>2, <3>1
  <2> QED
    BY <2>1, <2>2
\* The running thread goes behind the others of its priority.
<1>3. /\ ~runs => a = s
      /\ runs => /\ x \in Threads /\ s.prio[x] \in Priorities /\ a.bits = s.bits \cup {s.prio[x]}
                 /\ a.q[s.prio[x]] = Append(s.q[s.prio[x]], x)
                 /\ \A z \in Priorities \ {s.prio[x]} : a.q[z] = s.q[z]
                 /\ \A z \in Priorities : x \notin ToSet(s.q[z])
  BY <1>1, PreemptMoves
<1> HIDE DEF a
<1>4. ASSUME NEW z \in Priorities
      PROVE  /\ \A t \in ToSet(a.q[z]) : t \in ToSet(s.q[z]) \/ (runs /\ t = x)
             /\ \A t, u \in Threads : Before(s.q[z], t, u) => Before(a.q[z], t, u)
             /\ \A t \in ToSet(s.q[z]) : runs /\ x \in ToSet(a.q[z]) => Before(a.q[z], t, x)
  <2>1. s.q[z] \in Lines(Threads)
    BY InRunQueue
  <2>2. CASE runs /\ z = s.prio[x]
    <3>1. a.q[z] = Append(s.q[z], x) /\ x \in Threads /\ x \notin ToSet(s.q[z])
      BY <1>3, <2>2
    <3> HIDE DEF x, runs
    <3>2. ToSet(a.q[z]) = ToSet(s.q[z]) \cup {x}
      BY <2>1, <3>1, AppendLine
    <3>3. /\ \A t \in ToSet(s.q[z]) : Before(a.q[z], t, x)
          /\ \A t, u \in Threads : Before(s.q[z], t, u) => Before(a.q[z], t, u)
      BY <2>1, <3>1, BeforeAppend
    <3> QED
      BY <2>2, <3>2, <3>3, SMTT(30)
  <2>3. CASE ~runs \/ z # s.prio[x]
    <3>1. a.q[z] = s.q[z]
      BY <1>3, <2>3, SMTT(30)
    <3> QED
      BY <1>3, <3>1
  <2> QED
    BY <2>2, <2>3
<1>5. CASE s.disabled > 0 \/ keeps
  BY <1>5 DEF SelectThread
<1>6. CASE ~(s.disabled > 0 \/ keeps) /\ a.bits = {}
  <2>1. ~runs /\ a = s
    BY <1>3, <1>6, SMTT(30)
  <2>2. r = [s EXCEPT !.cur = NoThread]
    BY <1>6, <2>1 DEF SelectThread, a
  <2>3. r.q = s.q /\ r.state = s.state /\ r.prio = s.prio /\ r.cur = NoThread
    BY <1>1, <2>2, Fields DEF SchedulerState
  <2>4. \A z \in Priorities : ~BetterRuns(s, z)
    BY <2>1 DEF BetterRuns
  <2> HIDE DEF runs, keeps, x
  <2> QED
    BY <2>3, <2>4 DEF InTurn, Ordered, Unjumped, Drowsy
<1>7. CASE ~(s.disabled > 0 \/ keeps) /\ a.bits # {}
  <2>1. r = DispatchHead(a)
    BY <1>7 DEF SelectThread, DispatchHead, a
  <2>2. /\ p \in Priorities /\ p \in a.bits /\ h \in ToSet(a.q[p])
        /\ r.cur = h /\ r.prio = a.prio /\ r.q[p] = RemoveFirst(a.q[p], h)
        /\ \A z \in Priorities \ {p} : r.q[z] = a.q[z]
        /\ r.state[h] = "RUNNING" /\ \A u \in Threads \ {h} : r.state[u] = a.state[u]
    BY <1>2, <1>7, <2>1, DispatchMoves
  <2>3. \A z \in Priorities : ~(runs /\ ~yield /\ z \in s.bits /\ z < p)
    <3>1. \A z \in s.bits : z \in a.bits
      BY <1>3
    <3>2. \A z \in a.bits : ~(z < p)
      BY <1>2, <1>7, BestIsLeast DEF Exact
    <3> QED
      BY <3>1, <3>2
\* Whoever takes the processor from a thread that does not yield is better.
  <2>4. ASSUME runs, ~yield PROVE p < s.prio[x]
    <3>1. s.prio[x] \in 0 .. 31 /\ ~(s.prio[x] <= BestReady(s))
      BY <1>3, <1>7, <2>4, Kinds
    <3>2. s.bits # {}
      BY <3>1 DEF BestReady
    <3>3. BestReady(s) \in s.bits /\ BestReady(s) \in Priorities
      BY <1>1, <3>2, BestIsLeast, Fields
    <3>4. ~(BestReady(s) < p) /\ BestReady(s) \in 0 .. 31 /\ p \in 0 .. 31
      BY <2>2, <2>3, <2>4, <3>3, Kinds
    <3> HIDE DEF p, x
    <3> QED
      BY <3>1, <3>4
  <2> HIDE DEF p, h
  <2>5. a.q[p] \in Lines(Threads) /\ h \in Threads /\ a.prio[h] = p
    BY <1>2, <2>2, InRunQueue
  <2>6. /\ ToSet(r.q[p]) = ToSet(a.q[p]) \ {h}
        /\ \A t, u \in ToSet(a.q[p]) \ {h} : Before(a.q[p], t, u) => Before(r.q[p], t, u)
    BY <2>2, <2>5, BeforeRemove
  <2>7. ASSUME NEW z \in Priorities, BetterRuns(s, z), robbed PROVE p < z /\ BetterRuns(r, z)
    <3>1. p < s.prio[x] /\ s.prio[x] < z /\ s.prio[x] \in 0 .. 31
      BY <1>3, <2>4, <2>7, Kinds DEF BetterRuns
    <3>2. z \in 0 .. 31 /\ p \in 0 .. 31
      BY <2>2, Kinds
    <3>3. p < z
      <4> HIDE DEF x
      <4> QED
        BY <3>1, <3>2
    <3>4. h # NoThread /\ r.prio[h] = p
      BY <2>2, <2>5, Kinds
    <3> QED
      BY <2>2, <3>3, <3>4 DEF BetterRuns
\* Nobody who waited in s0 runs in s unless a turn may be lost.
  <2>8. ASSUME NEW z \in Priorities, x \in ToSet(s0.q[z]), runs PROVE robbed /\ p < s.prio[x]
    <3>1. x \in Threads /\ s0.state[x] = "READY" /\ s.state[x] = "RUNNING"
      BY <2>8, InRunQueue
    <3>2. robbed /\ ~yield
      BY <3>1 DEF Fresh
    <3> QED
      BY <2>4, <2>8, <3>2
  <2>9. Ordered(s0, r, robbed)
    <3> SUFFICES ASSUME NEW z \in Priorities, NEW t \in Threads, NEW u \in Threads,
                        In(t, s0.q[z]), In(t, r.q[z]), t # u, In(u, r.q[z]), ~Before(s0.q[z], u, t),
                        ~(robbed /\ BetterRuns(r, z))
                 PROVE  Before(r.q[z], t, u)
      BY DEF Ordered
    <3>1. t \in ToSet(s0.q[z])
      BY InRunQueue, BeforeOrder
    <3>2. /\ a.q[z] \in Lines(Threads) /\ t \in ToSet(a.q[z]) /\ u \in ToSet(a.q[z])
          /\ Before(a.q[z], t, u) => Before(r.q[z], t, u)
      <4>1. a.q[z] \in Lines(Threads)
        BY <1>2, InRunQueue
      <4>2. CASE z = p
        <5>1. r.q[p] \in Lines(Threads)
          BY <2>2, <2>5, BeforeRemove
        <5> QED
          BY <2>6, <4>1, <4>2, <5>1, BeforeOrder
      <4>3. CASE z # p
        <5>1. r.q[z] = a.q[z]
          BY <2>2, <4>3
        <5> QED
          BY <4>1, <5>1, BeforeOrder
      <4> QED
        BY <4>2, <4>3
    <3>3. ~(runs /\ t = x)
      <4> SUFFICES ASSUME runs, t = x PROVE FALSE
        OBVIOUS
      <4>1. robbed /\ p < s.prio[x]
        BY <2>8, <3>1
      <4>2. s.prio[x] = z
        BY <1>2, <3>2, InRunQueue
      <4>3. h # NoThread /\ r.prio[h] = p
        BY <2>2, <2>5, Kinds
      <4> QED
        BY <2>2, <4>1, <4>2, <4>3 DEF BetterRuns
    <3>4. t \in ToSet(s.q[z]) /\ s.q[z] \in Lines(Threads)
      BY <1>4, <3>2, <3>3, InRunQueue
    <3>5. CASE runs /\ u = x
      BY <1>4, <3>2, <3>4, <3>5
    <3>6. CASE ~(runs /\ u = x)
      <4>1. u \in ToSet(s.q[z])
        BY <1>4, <3>2, <3>6
      <4>2. Before(s.q[z], t, u) \/ (robbed /\ BetterRuns(s, z))
        BY <3>4, <4>1, BeforeOrder DEF InTurn, Ordered
      <4> QED
        BY <1>4, <2>7, <3>2, <4>2
    <3> QED
      BY <3>5, <3>6
  <2>10. Unjumped(s0, r)
    <3> SUFFICES ASSUME NEW z \in Priorities, NEW t \in Threads, NEW u \in Threads,
                        In(t, s0.q[z]), In(t, r.q[z]), Before(s0.q[z], t, u), r.prio[u] = z,
                        r.state[u] = "RUNNING"
                 PROVE  FALSE
      BY DEF Unjumped
    <3>1. u = h /\ z = p
      BY <1>2, <2>2, <2>5
    <3>2. t \in ToSet(s0.q[p]) /\ h \in ToSet(s0.q[p]) /\ ~Before(s0.q[p], h, t) /\ t # h
      BY <3>1, InRunQueue, BeforeOrder
    <3>3. t \in ToSet(a.q[p]) /\ ~Before(a.q[p], t, h)
      <4>1. r.q[p] \in Lines(Threads)
        BY <2>2, <2>5, BeforeRemove
      <4>2. t \in ToSet(a.q[p])
        BY <2>6, <3>1, <4>1, BeforeOrder
      <4>3. Before(a.q[p], h, t)
        BY <2>5, <3>2, <4>2, BeforeHead DEF h
      <4> QED
        BY <2>5, <4>2, <4>3, BeforeOrder
    <3>4. ASSUME runs, x \in {t, h} PROVE FALSE
      <4>1. p < s.prio[x]
        <5>1. x \in ToSet(s0.q[p])
          BY <3>2, <3>4
        <5> QED
          BY <2>2, <2>8, <3>4, <5>1
      <4>2. s.prio[x] = p
        <5>1. s.prio[t] = p /\ s.prio[h] = p
          BY <1>2, <2>2, <3>3, InRunQueue
        <5> HIDE DEF x
        <5> QED
          BY <3>4, <5>1
      <4>3. p \in 0 .. 31
        BY <2>2, Kinds
      <4> HIDE DEF x
      <4> QED
        BY <4>1, <4>2, <4>3
    <3>5. t \in ToSet(s.q[p]) /\ h \in ToSet(s.q[p]) /\ s.q[p] \in Lines(Threads)
      <4>1. s.q[p] \in Lines(Threads)
        BY <2>2, InRunQueue
      <4>2. h \in ToSet(a.q[p])
        BY <2>2, <2>5
      <4> HIDE DEF a, h, x, runs
      <4> QED
        BY <1>4, <2>2, <3>3, <3>4, <4>1, <4>2
    <3>6. Before(s.q[p], t, h) \/ (robbed /\ BetterRuns(s, p))
      BY <2>2, <2>5, <3>1, <3>2, <3>5, BeforeOrder DEF InTurn, Ordered
    <3>7. ~(robbed /\ BetterRuns(s, p))
      <4>1. p \in 0 .. 31
        BY <2>2, Kinds
      <4>2. ~(p < p)
        BY <4>1
      <4> QED
        BY <2>2, <2>7, <4>2
    <3> QED
      BY <1>4, <2>2, <2>5, <3>3, <3>6, <3>7
  <2>11. Drowsy(s0, r)
    <3>1. \A t \in Threads : r.state[t] = "WAITING" => s.state[t] = "WAITING"
      BY <1>2, <2>2, <2>5
    <3> QED
      BY <3>1 DEF InTurn, Drowsy
  <2> QED
    BY <2>9, <2>10, <2>11, SMTT(30) DEF InTurn
<1> QED
  BY <1>5, <1>6, <1>7

\* A dispatch that finds nobody better changes nothing but who is current of none.
LEMMA SelectCalm ==
  ASSUME NEW s, Exact(s, {}), s.disabled = 0 => ~Missed(s), NEW r, r = SelectThread(s, FALSE)
  PROVE  r.q = s.q /\ r.state = s.state /\ r.prio = s.prio
<1> DEFINE runs == s.cur # NoThread /\ s.state[s.cur] = "RUNNING"
           keeps == runs /\ s.prio[s.cur] <= BestReady(s)
<1>1. s \in SchedulerState /\ s.disabled \in Nat /\ s.cur \in Threads \cup {NoThread}
  BY Fields DEF Exact
<1>2. CASE s.disabled > 0
  BY <1>2 DEF SelectThread
<1>3. CASE s.disabled = 0 /\ runs
  <2>1. s.prio[s.cur] \in 0 .. 31
    BY <1>1, <1>3, Kinds DEF Exact, OnlyCurrentRuns, RealPriorities, Live
  <2>2. s.prio[s.cur] <= BestReady(s)
    <3>1. CASE s.bits = {}
      BY <2>1, <3>1 DEF BestReady
    <3>2. CASE s.bits # {}
      <4>1. BestReady(s) \in s.bits /\ BestReady(s) \in Nat
        BY <1>1, <3>2, BestIsLeast
      <4>2. ~(BestReady(s) < s.prio[s.cur])
        BY <1>3, <4>1 DEF Missed
      <4> QED
        BY <2>1, <4>1, <4>2
    <3> QED
      BY <3>1, <3>2
  <2> QED
    BY <1>3, <2>2 DEF SelectThread
<1>4. CASE s.disabled = 0 /\ ~runs
  <2>1. s.bits = {}
    BY <1>4 DEF Missed
  <2>2. ~(s.disabled > 0)
    BY <1>4
  <2>3. r = [s EXCEPT !.cur = NoThread]
    BY <1>4, <2>1, <2>2 DEF SelectThread
  <2> QED
    BY <1>1, <2>3, Fields DEF SchedulerState
<1>5. s.disabled > 0 \/ s.disabled = 0
  BY <1>1
<1> QED
  BY <1>2, <1>3, <1>4, <1>5

\* A dispatch without a yield.
LEMMA SwitchTurns ==
  ASSUME NEW s0, Exact(s0, {}), NEW s, Exact(s, {}), NEW robbed \in BOOLEAN, InTurn(s0, s, robbed),
         robbed \/ Calm(s0, s), NEW r, r = SelectThread(s, FALSE)
  PROVE  InTurn(s0, r, robbed) /\ Calm(s0, r)
<1>1. Calm(s0, r)
  BY SelectExact DEF Calm
<1>2. CASE robbed \/ Fresh(s0, s)
  <2>1. FALSE \in BOOLEAN /\ (IF robbed THEN ~FALSE ELSE Fresh(s0, s))
    BY <1>2
  <2>2. InTurn(s0, r, robbed)
    BY <2>1, SelectTurns
  <2> QED
    BY <1>1, <2>2
<1>3. CASE ~robbed /\ (s.disabled = 0 => ~Missed(s))
  <2>1. r.q = s.q /\ r.state = s.state /\ r.prio = s.prio
    BY <1>3, SelectCalm
  <2> QED
    BY <1>1, <1>3, <2>1 DEF InTurn, Ordered, Unjumped, Drowsy
<1> QED
  BY <1>1, <1>2, <1>3 DEF Calm

\* The dispatch that ends most calls.
LEMMA RescheduleTurns ==
  ASSUME NEW s0, Exact(s0, {}), NEW s, Exact(s, {}), NEW robbed \in BOOLEAN, InTurn(s0, s, robbed),
         robbed \/ Calm(s0, s), NEW r, r = Reschedule(s)
  PROVE  InTurn(s0, r, robbed) /\ (Calm(s0, s) => Calm(s0, r))
<1>1. CASE s.hint
  BY <1>1, SwitchTurns DEF Reschedule
<1>2. CASE ~s.hint
  BY <1>2 DEF Reschedule
<1> QED
  BY <1>1, <1>2

\* If nobody was out of turn before any dispatch, nobody is after these steps; only when
\* not `robbed` is another dispatch still safe.
Turned(s, r, robbed) ==
  \A s0 : Exact(s0, {}) /\ InTurn(s0, s, FALSE) /\ Fresh(s0, s) =>
    InTurn(s0, r, robbed) /\ (~robbed => Calm(s0, r))

\* Another dispatch, when it is still safe.
LEMMA RescheduleTurned ==
  ASSUME NEW s, NEW a, Exact(a, {}), NEW robbed \in BOOLEAN, Turned(s, a, robbed)
  PROVE  Turned(s, Reschedule(a), robbed)
<1> SUFFICES ASSUME NEW s0, Exact(s0, {}), InTurn(s0, s, FALSE), Fresh(s0, s)
             PROVE  InTurn(s0, Reschedule(a), robbed) /\ (~robbed => Calm(s0, Reschedule(a)))
  BY DEF Turned
<1>1. InTurn(s0, a, robbed) /\ (robbed \/ Calm(s0, a))
  BY DEF Turned
<1> QED
  BY <1>1, RescheduleTurns

\* Sleepers have joined the run queues of s, each at the end.
Longer(s, r) ==
  /\ \A p \in Priorities :
       /\ ToSet(s.q[p]) \subseteq ToSet(r.q[p])
       /\ \A t, u \in Threads : Before(s.q[p], t, u) => Before(r.q[p], t, u)
       /\ \A u \in ToSet(r.q[p]) \ ToSet(s.q[p]) :
            s.state[u] = "WAITING" /\ \A t \in ToSet(s.q[p]) : Before(r.q[p], t, u)
       /\ ToSet(s.q[p]) \subseteq Threads /\ ToSet(r.q[p]) \subseteq Threads
  /\ \A t \in Threads : r.state[t] = "WAITING" => s.state[t] = "WAITING"

\* Nobody has joined, while no thread went to sleep.
LEMMA LongerCalm ==
  ASSUME NEW s, NEW off, Exact(s, off), NEW r, \A p \in Priorities : r.q[p] = s.q[p],
         \A t \in Threads : r.state[t] = "WAITING" => s.state[t] = "WAITING"
  PROVE  Longer(s, r)
<1>1. \A p \in Priorities : ToSet(s.q[p]) \subseteq Threads
  BY InRunQueue
<1> QED
  BY <1>1 DEF Longer

\* One sleeper has.
LEMMA LongerJoin ==
  ASSUME NEW s, NEW off, Exact(s, off), NEW t \in Threads, s.state[t] = "WAITING",
         NEW p \in Priorities, NEW r, r.q[p] = Append(s.q[p], t),
         \A x \in Priorities \ {p} : r.q[x] = s.q[x],
         \A u \in Threads : r.state[u] = "WAITING" => s.state[u] = "WAITING"
  PROVE  Longer(s, r)
<1>1. s.q[p] \in Lines(Threads) /\ t \notin ToSet(s.q[p])
      /\ \A x \in Priorities : ToSet(s.q[x]) \subseteq Threads
  BY InRunQueue
<1>2. ToSet(r.q[p]) = ToSet(s.q[p]) \cup {t}
  BY <1>1, AppendLine
<1>3. /\ \A u \in ToSet(s.q[p]) : Before(r.q[p], u, t)
      /\ \A u, v : Before(s.q[p], u, v) => Before(r.q[p], u, v)
  BY <1>1, BeforeAppend
<1>4. \A x \in Priorities : x = p \/ r.q[x] = s.q[x]
  OBVIOUS
<1> QED
  BY <1>1, <1>2, <1>3, <1>4 DEF Longer

\* Sleepers that join in turn all join at the end.
LEMMA LongerTransitive == ASSUME NEW s, NEW r, NEW v, Longer(s, r), Longer(r, v) PROVE Longer(s, v)
<1>1. ASSUME NEW p \in Priorities, NEW u \in ToSet(v.q[p]) \ ToSet(s.q[p])
      PROVE  s.state[u] = "WAITING" /\ \A t \in ToSet(s.q[p]) : Before(v.q[p], t, u)
  <2>1. ToSet(s.q[p]) \subseteq ToSet(r.q[p]) /\ ToSet(s.q[p]) \subseteq Threads /\ u \in Threads
    BY DEF Longer
  <2>2. CASE u \in ToSet(r.q[p])
    BY <2>1, <2>2 DEF Longer
  <2>3. CASE u \notin ToSet(r.q[p])
    BY <2>1, <2>3 DEF Longer
  <2> QED
    BY <2>2, <2>3
<1> QED
  BY <1>1 DEF Longer

\* Waking sleepers keeps all turns.
LEMMA LongerTurns ==
  ASSUME NEW s0, Exact(s0, {}), NEW s, Exact(s, {}), NEW robbed \in BOOLEAN, InTurn(s0, s, robbed),
         NEW r, Exact(r, {}), Longer(s, r), r.cur = s.cur, r.prio = s.prio,
         \A t \in Threads : r.state[t] = "RUNNING" <=> s.state[t] = "RUNNING"
  PROVE  InTurn(s0, r, robbed) /\ (Fresh(s0, s) => Fresh(s0, r))
<1>1. ASSUME NEW p \in Priorities, NEW t \in Threads, In(t, s0.q[p]), In(t, r.q[p])
      PROVE  t \in ToSet(s.q[p]) /\ In(t, s.q[p])
  <2>1. s0.state[t] = "READY" /\ t \in ToSet(r.q[p])
    BY <1>1, InRunQueue, BeforeOrder, SMTT(30)
  <2>2. s.state[t] # "WAITING"
    BY <2>1 DEF InTurn, Drowsy
  <2>3. t \in ToSet(s.q[p])
    BY <2>1, <2>2 DEF Longer
  <2> QED
    BY <2>3, InRunQueue, BeforeOrder
<1>2. Ordered(s0, r, robbed)
  <2> SUFFICES ASSUME NEW p \in Priorities, NEW t \in Threads, NEW u \in Threads,
                      In(t, s0.q[p]), In(t, r.q[p]), t # u, In(u, r.q[p]), ~Before(s0.q[p], u, t),
                      ~(robbed /\ BetterRuns(r, p))
               PROVE  Before(r.q[p], t, u)
    BY DEF Ordered
  <2>1. u \in ToSet(r.q[p]) /\ t \in ToSet(s.q[p]) /\ In(t, s.q[p])
    BY <1>1, InRunQueue, BeforeOrder
  <2>2. CASE u \in ToSet(s.q[p])
    <3>1. ~(robbed /\ BetterRuns(s, p))
      <4>1. s.cur # NoThread => s.cur \in Threads
        BY Fields DEF Exact
      <4> QED
        BY <4>1 DEF BetterRuns
    <3>2. In(u, s.q[p])
      BY <2>2, InRunQueue, BeforeOrder
    <3>3. Before(s.q[p], t, u)
      BY <2>1, <3>1, <3>2 DEF InTurn, Ordered
    <3> QED
      BY <3>3 DEF Longer
  <2>3. CASE u \notin ToSet(s.q[p])
    BY <2>1, <2>3 DEF Longer
  <2> QED
    BY <2>2, <2>3
<1>3. Unjumped(s0, r)
  BY <1>1 DEF InTurn, Unjumped
<1>4. Drowsy(s0, r) /\ (Fresh(s0, s) => Fresh(s0, r))
  BY DEF InTurn, Drowsy, Fresh, Longer
<1> QED
  BY <1>2, <1>3, <1>4 DEF InTurn

-----------------------------------------------------------------------------
(* Turns in a walk along a blocking chain. *)

\* Nobody moves in the run queues, or changes state.
SameRuns(s0, s) == s.state = s0.state /\ \A p \in Priorities : s.q[p] = s0.q[p]

\* Then nobody is out of turn.
LEMMA SameRunsTurns ==
  ASSUME NEW s0, Exact(s0, {}), NEW s, SameRuns(s0, s) PROVE InTurn(s0, s, FALSE) /\ Fresh(s0, s)
<1>1. Shifted(s0, s)
  BY DEF SameRuns, Shifted
<1> QED
  BY <1>1, TurnsKept

\* A thread that takes another priority joins another run queue, if it is in one.
LEMMA SetEffectiveTurns ==
  ASSUME NEW s0, Exact(s0, {}), NEW s, SameRuns(s0, s), NEW off, Exact(s, off), Lost(s, off),
         NEW t \in Threads, s.suspend[t] = 0, NEW p \in Priorities, p # s.prio[t],
         NEW r, r = SetEffectivePriority(s, t, p)
  PROVE  SameRuns(s0, r) \/ (s.state[t] = "READY" /\ InTurn(s0, r, FALSE) /\ Fresh(s0, r))
<1>1. s \in SchedulerState /\ (t \in off => s.state[t] = "WAITING" /\ s.queue[t] = NoQueue)
  BY DEF Exact, Lost
<1>2. CASE s.state[t] = "READY"
  <2> DEFINE w == s.queue[t]
             a == UnsetRun(s, t)
             b == [a EXCEPT !.prio[t] = p]
  <2>1. t \notin off /\ r = SetRun(b, t)
    BY <1>1, <1>2 DEF SetEffectivePriority
  <2>2. w = s.prio[t] /\ w # p
    BY <1>2, <2>1 DEF Exact, QueueFields
  <2>3. w \in Priorities
    BY <1>2, <2>2 DEF Exact, RealPriorities, Live
  <2>4. w \in Queues /\ p \in Queues
    BY <2>3, Kinds
  <2>5. t \in ToSet(s.q[w]) /\ t \notin ToSet(s.q[p])
    <3>1. t \in ToSet(s.q[w])
      BY <1>2, <2>1, <2>4 DEF Exact, ListsExact, OnQueue
    <3>2. t \notin ToSet(s.q[p])
      BY InRunQueue, SMTT(30)
    <3> QED
      BY <3>1, <3>2
  <2>6. /\ a.q = [s.q EXCEPT ![w] = RemoveFirst(@, t)] /\ a.prio = s.prio /\ a.state = s.state
        /\ b.q = a.q /\ b.prio = [s.prio EXCEPT ![t] = p] /\ b.state = s.state
        /\ r.state = s.state /\ r.q = [b.q EXCEPT ![b.prio[t]] = Append(@, t)]
    BY <1>1, <2>1, Fields, SMTT(30) DEF UnsetRun, SetRun, SchedulerState
  <2> HIDE DEF w, a, b
  <2>7. /\ r.q[w] = RemoveFirst(s.q[w], t) /\ r.q[p] = Append(s.q[p], t)
        /\ \A x \in Priorities \ {w, p} : r.q[x] = s.q[x]
    <3>1. b.prio[t] = p
      BY <1>1, <2>6, Fields
    <3>2. s.q \in [Queues -> Seq(Threads)]
      BY <1>1, Fields
    <3> QED
      BY <2>2, <2>4, <2>6, <3>1, <3>2, Kinds
  <2>8. InTurn(s0, r, FALSE) /\ Fresh(s0, r)
    <3>1. \A x \in Priorities :
            \/ r.q[x] = s0.q[x]
            \/ \E y \in Threads : y \notin ToSet(s0.q[x]) /\ r.q[x] = Append(s0.q[x], y)
            \/ \E y \in ToSet(s0.q[x]) : r.q[x] = RemoveFirst(s0.q[x], y)
      BY <2>3, <2>5, <2>7 DEF SameRuns
    <3>2. \A u \in Threads : /\ r.state[u] = "RUNNING" => s0.state[u] = "RUNNING"
                             /\ r.state[u] = "WAITING" => s0.state[u] # "READY"
      BY <2>6 DEF SameRuns
    <3>3. Shifted(s0, r)
      BY <3>1, <3>2 DEF Shifted
    <3> QED
      BY <3>3, TurnsKept
  <2> QED
    BY <1>2, <2>8
<1>3. CASE s.state[t] = "WAITING" /\ s.queue[t] = NoQueue
  <2>1. r = [s EXCEPT !.fault = TRUE]
    BY <1>3 DEF SetEffectivePriority, Reorder
  <2>2. r.state = s.state /\ r.q = s.q
    BY <1>1, <2>1, Fields DEF SchedulerState
  <2> QED
    BY <2>2 DEF SameRuns
<1>4. CASE s.state[t] = "WAITING" /\ s.queue[t] # NoQueue
  <2>1. s.queue[t] \in SleepQueues
    BY <1>1, <1>4 DEF Exact, QueueFields
  <2>2. r = Reorder(s, t, p)
    BY <1>4 DEF SetEffectivePriority
  <2>3. /\ r.state = s.state
        /\ \E us : r.q = [s.q EXCEPT ![s.queue[t]] = us]
    <3> DEFINE prio == [s.prio EXCEPT ![t] = p]
               us == AddPrio(RemoveFirst(s.q[s.queue[t]], t), t, prio)
    <3>1. r = [s EXCEPT !.prio = prio, !.q[s.queue[t]] = us]
      BY <1>4, <2>2 DEF Reorder
    <3> HIDE DEF us, prio
    <3>2. r.state = s.state /\ r.q = [s.q EXCEPT ![s.queue[t]] = us]
      BY <1>1, <3>1, Fields DEF SchedulerState
    <3> QED
      BY <3>2
  <2>4. \A x \in Priorities : r.q[x] = s.q[x]
    BY <1>1, <2>1, <2>3, Fields, Kinds
  <2> QED
    BY <2>3, <2>4 DEF SameRuns
<1>5. CASE s.state[t] = "RUNNING"
  <2>1. r.state = s.state /\ r.q = s.q
    BY <1>1, <1>5, Fields DEF SetEffectivePriority, SchedulerState
  <2> QED
    BY <2>1 DEF SameRuns
<1>6. CASE s.state[t] \notin {"READY", "WAITING", "RUNNING"}
  BY <1>6 DEF SetEffectivePriority
<1> QED
  BY <1>2, <1>3, <1>4, <1>5, <1>6

\* Up to a link of a walk nobody has moved in the run queues, or the walk is over.
Moved(s0, l) ==
  \/ SameRuns(s0, l.s)
  \/ l.t = NoThread /\ InTurn(s0, l.s, FALSE) /\ Fresh(s0, l.s)

\* A walk ends at the first runnable thread that it moves, so it moves at most one.
LEMMA WalkTurns ==
  ASSUME NEW s0, Exact(s0, {}), NEW s, SameRuns(s0, s), NEW off, Exact(s, off), Lost(s, off),
         NEW t \in Threads, NEW mutexes, Relations(mutexes), NEW n \in Nat, NEW g,
         g[0] = [s |-> s, t |-> t],
         \A i \in 0 .. n - 1 : WalkStep(g[i], g[i + 1], mutexes, off)
  PROVE  InTurn(s0, g[n].s, FALSE) /\ Fresh(s0, g[n].s)
<1> DEFINE T == {i \in 0 .. n : Moved(s0, g[i])}
<1>1. 0 \in T
  <2>1. g[0].s = s
    OBVIOUS
  <2>2. Moved(s0, g[0])
    BY <2>1 DEF Moved
  <2> QED
    BY <2>2
<1>2. ASSUME NEW i \in 0 .. n - 1, i \in T PROVE i + 1 \in T
  <2> DEFINE a == g[i].s
             u == g[i].t
  <2>1. i \in Nat /\ i + 1 \in 0 .. n /\ \A j \in 0 .. i - 1 : j \in 0 .. n - 1
    OBVIOUS
  <2>2. Exact(a, off) /\ Lost(a, off) /\ u \in Threads \cup {NoThread}
    BY <2>1, WalkExact
  <2>3. Moved(s0, g[i])
    BY <1>2
  <2>4. ASSUME g[i + 1].s = a /\ g[i + 1].t \in {u, NoThread} PROVE Moved(s0, g[i + 1])
    BY <2>3, <2>4 DEF Moved
  <2>5. ASSUME u # NoThread,
               NEW x, Exact(a, off) /\ u \in Threads => x \in Priorities /\ a.suspend[u] = 0,
               x # a.prio[u],
               g[i + 1] = [s |-> SetEffectivePriority(a, u, x), t |-> Blocker(a, mutexes, u)]
        PROVE  Moved(s0, g[i + 1])
    <3>1. SameRuns(s0, a) /\ u \in Threads /\ x \in Priorities /\ a.suspend[u] = 0
      BY <2>2, <2>3, <2>5 DEF Moved
    <3> DEFINE b == SetEffectivePriority(a, u, x)
    <3>2. g[i + 1].s = b /\ g[i + 1].t = Blocker(a, mutexes, u)
      BY <2>5
    <3> HIDE DEF b, a, u
    <3>3. SameRuns(s0, b) \/ (a.state[u] = "READY" /\ InTurn(s0, b, FALSE) /\ Fresh(s0, b))
      BY <2>2, <2>5, <3>1, SetEffectiveTurns DEF b
    <3>4. a.state[u] = "READY" => Blocker(a, mutexes, u) = NoThread
      BY DEF Blocker
    <3> QED
      BY <3>2, <3>3, <3>4 DEF Moved
  <2>6. Moved(s0, g[i + 1])
    <3>1. \/ g[i + 1].s = a /\ g[i + 1].t \in {u, NoThread}
          \/ /\ u # NoThread
             /\ \E x : /\ Exact(a, off) /\ u \in Threads => x \in Priorities /\ a.suspend[u] = 0
                      /\ x # a.prio[u]
                      /\ g[i + 1] = [s |-> SetEffectivePriority(a, u, x),
                                     t |-> Blocker(a, mutexes, u)]
      <4>1. WalkStep(g[i], g[i + 1], mutexes, off)
        OBVIOUS
      <4> QED
        BY <4>1 DEF WalkStep
    <3> HIDE DEF a, u
    <3> QED
      BY <2>4, <2>5, <3>1
  <2> QED
    BY <2>1, <2>6
<1>3. n \in T
  <2> HIDE DEF T
  <2>1. 0 .. n \subseteq T
    BY <1>1, <1>2, BoundedInduction
  <2> QED
    BY <2>1
<1> QED
  BY <1>3, SameRunsTurns DEF Moved

\* port_UpdatePriority is such a walk.
LEMMA UpdateTurns ==
  ASSUME NEW s0, Exact(s0, {}), NEW s, SameRuns(s0, s), NEW off, Exact(s, off), Lost(s, off),
         NEW t \in Threads \cup {NoThread}, NEW mutexes, Relations(mutexes)
  PROVE  LET r == UpdatePriority(s, mutexes, t) IN InTurn(s0, r, FALSE) /\ Fresh(s0, r)
<1> DEFINE r == UpdatePriority(s, mutexes, t)
           N == ChainBound
<1>1. CASE t = NoThread
  <2>1. r = [s EXCEPT !.fault = TRUE]
    BY <1>1 DEF UpdatePriority
  <2>2. r.state = s.state /\ r.q = s.q
    BY <2>1, Fields DEF SchedulerState, Exact
  <2> HIDE DEF r
  <2>3. SameRuns(s0, r)
    BY <2>2 DEF SameRuns
  <2>4. InTurn(s0, r, FALSE) /\ Fresh(s0, r)
    BY <2>3, SameRunsTurns
  <2> QED
    BY <2>4 DEF r
<1>2. CASE t # NoThread
  <2>1. PICK g : /\ g[0] = [s |-> s, t |-> t] /\ r = g[N].s
                 /\ \A i \in 0 .. N - 1 : g[i + 1] = UpdateLink(g[i], mutexes)
    BY <1>2, UpdateWalk
  <2>2. N \in Nat /\ t \in Threads
    BY <1>2, ChainBoundNat
  <2>3. ASSUME NEW i \in 0 .. N - 1 PROVE WalkStep(g[i], g[i + 1], mutexes, off)
    BY <2>1, UpdateStep
  <2> HIDE DEF N, r
  <2>4. InTurn(s0, g[N].s, FALSE) /\ Fresh(s0, g[N].s)
    BY <2>1, <2>2, <2>3, WalkTurns
  <2> QED
    BY <2>1, <2>4 DEF r
<1> QED
  BY <1>1, <1>2

\* So is a promotion.
LEMMA PromoteTurns ==
  ASSUME NEW s0, Exact(s0, {}), NEW s, SameRuns(s0, s), NEW off, Exact(s, off), Lost(s, off),
         NEW t \in Threads, NEW p \in Priorities, NEW mutexes, Relations(mutexes)
  PROVE  LET r == PromoteThread(s, mutexes, t, p) IN InTurn(s0, r, FALSE) /\ Fresh(s0, r)
<1> DEFINE N == ChainBound
<1>0. PromoteWalks(s, mutexes, t, p)
  BY PromoteWalk
<1>1. PICK g : /\ g[0] = [s |-> s, t |-> t] /\ PromoteThread(s, mutexes, t, p) = g[N].s
               /\ \A i \in 0 .. N - 1 : g[i + 1] = PromoteLink(g[i], mutexes, p)
  BY <1>0 DEF PromoteWalks
<1>2. N \in Nat
  BY ChainBoundNat
<1>3. /\ g[0] = [s |-> s, t |-> t] /\ PromoteThread(s, mutexes, t, p) = g[N].s
      /\ \A i \in 0 .. N - 1 : g[i + 1] = PromoteLink(g[i], mutexes, p)
  BY <1>1
<1>4. ASSUME NEW i \in 0 .. N - 1 PROVE WalkStep(g[i], g[i + 1], mutexes, off)
  BY <1>3, PromoteStep
<1> HIDE DEF N
<1>5. InTurn(s0, g[N].s, FALSE) /\ Fresh(s0, g[N].s)
  BY <1>2, <1>3, <1>4, WalkTurns
<1> QED
  BY <1>3, <1>5

-----------------------------------------------------------------------------
(* Sleep and wakeup. *)

\* The running thread goes to sleep: it joins the queue it names and no other.
LEMMA SleepExact ==
  ASSUME NEW s, Exact(s, {}), s.cur \in Threads, s.state[s.cur] = "RUNNING", NEW w \in SleepQueues
  PROVE  LET r == SleepThread(s, w)
         IN /\ Exact(r, {}) /\ Hinted(r) /\ (r.disabled = 0 => ~Missed(r))
            /\ \A t \in Threads : r.state[t] \in Live <=> s.state[t] \in Live
            /\ \A v \in SleepQueues \ {w} : ToSet(r.q[v]) \subseteq ToSet(s.q[v])
            /\ SameRanks(s, r) /\ \A v \in SleepQueues \ {w} : r.q[v] = s.q[v]
            /\ ToSet(r.q[w]) = ToSet(s.q[w]) \cup {s.cur} /\ Turned(s, r, FALSE)
<1> DEFINE t == s.cur
           b == [s EXCEPT !.state[t] = "WAITING", !.queue[t] = w]
           c == [s EXCEPT !.state[t] = "WAITING", !.queue[t] = w,
                          !.q[w] = AddPrio(@, t, s.prio), !.hint = TRUE]
<1>1. /\ s \in SchedulerState /\ s.suspend[t] = 0 /\ s.prio[t] \in Priorities
      /\ w \in Queues /\ t \in Threads
  BY Kinds DEF Exact, OnlyCurrentRuns, RealPriorities, Live
<1>2. /\ b.cur = s.cur /\ b.bits = s.bits /\ b.q = s.q /\ b.suspend = s.suspend /\ b.prio = s.prio
      /\ b.queue = [s.queue EXCEPT ![t] = w] /\ b.state = [s.state EXCEPT ![t] = "WAITING"]
  BY <1>1, Fields DEF SchedulerState
<1>3. b \in SchedulerState
  BY <1>1, Fields DEF SchedulerState, Live
<1>4. /\ b.state[t] = "WAITING" /\ b.queue[t] = w
      /\ \A u \in Threads \ {t} : b.state[u] = s.state[u] /\ b.queue[u] = s.queue[u]
  BY <1>1, <1>2, Fields
<1>5. /\ c.cur = b.cur /\ c.bits = b.bits /\ c.state = b.state /\ c.suspend = b.suspend
      /\ c.prio = b.prio /\ c.queue = b.queue /\ c.q = [b.q EXCEPT ![w] = AddPrio(@, t, b.prio)]
      /\ c.hint = TRUE /\ c.base = s.base /\ c.disabled = s.disabled /\ c.fault = s.fault
  BY <1>1, Fields DEF SchedulerState
<1> HIDE DEF b
<1>6. OnlyCurrentRuns(b) /\ ~OnQueue(s, t)
  BY <1>2, <1>4 DEF OnlyCurrentRuns, OnQueue, Exact
<1> HIDE DEF t, c
<1>7. Exact(b, {} \cup {t})
  <2>1. b.prio[t] \in Priorities
    BY <1>1, <1>2
  <2>2. \A u \in Threads \ {t} : /\ b.state[u] = s.state[u] /\ b.suspend[u] = s.suspend[u]
                                /\ b.prio[u] = s.prio[u] /\ b.queue[u] = s.queue[u]
    BY <1>2, <1>4
  <2> QED
    BY <1>1, <1>2, <1>3, <1>6, <2>1, <2>2, ThreadExact
<1>8. b.q[w] \in Lines(Threads) /\ t \notin ToSet(b.q[w])
  BY <1>1, <1>7 DEF Exact, ListsExact
<1>9. AddPrio(b.q[w], t, b.prio) \in Seq(Threads)
  BY <1>1, <1>3, <1>8, Fields, AddPrioLine DEF Lines
<1>10. c \in SchedulerState
  <2>1. c.q \in [Queues -> Seq(Threads)]
    BY <1>1, <1>3, <1>5, <1>9, Fields
  <2>2. /\ c.cur \in Threads \cup {NoThread} /\ c.bits \in SUBSET Priorities /\ c.hint \in BOOLEAN
        /\ c.disabled \in Nat /\ c.state \in [Threads -> Live \cup Dead]
        /\ c.suspend \in [Threads -> Nat] /\ c.prio \in [Threads -> Priorities \cup {Suspended}]
        /\ c.base \in [Threads -> Priorities] /\ c.queue \in [Threads -> Queues \cup {NoQueue}]
        /\ c.fault \in BOOLEAN
    BY <1>1, <1>3, <1>5, Fields
  <2> QED
    BY <1>1, <2>1, <2>2 DEF SchedulerState, c
<1>11. Exact(c, ({} \cup {t}) \ {t})
  BY <1>1, <1>4, <1>5, <1>7, <1>10, JoinExact
<1>12. ({} \cup {t}) \ {t} = {}
  OBVIOUS
<1>13. /\ Hinted(c) /\ \A u \in Threads : c.state[u] \in Live <=> s.state[u] \in Live
       /\ \A v \in SleepQueues \ {w} : c.q[v] = s.q[v]
  <2>1. \A v \in SleepQueues \ {w} : c.q[v] = s.q[v]
    BY <1>1, <1>2, <1>5, Fields, Kinds
  <2> QED
    BY <1>4, <1>5, <2>1 DEF Hinted, Live, t
<1>14. SleepThread(s, w) = Reschedule(c)
  BY DEF SleepThread, c, t
<1>15. /\ Exact(Reschedule(c), {}) /\ Hinted(Reschedule(c)) /\ Keeps(c, Reschedule(c))
       /\ Steady(c, Reschedule(c)) /\ (Reschedule(c).disabled = 0 => ~Missed(Reschedule(c)))
  BY <1>5, <1>11, <1>12, <1>13, RescheduleExact DEF Alert
<1>16. SameRanks(s, c)
  BY <1>2, <1>5 DEF SameRanks
<1>17. ToSet(c.q[w]) = ToSet(s.q[w]) \cup {t}
  <2>1. c.q[w] = AddPrio(b.q[w], t, b.prio)
    BY <1>1, <1>2, <1>5, Fields
  <2>2. b.q[w] \in Lines(Threads) /\ t \in Threads /\ t \notin ToSet(b.q[w])
        /\ b.prio \in [Threads -> Priorities \cup {Suspended}]
    BY <1>1, <1>3, <1>8, Fields
  <2>3. ToSet(AddPrio(b.q[w], t, b.prio)) = ToSet(b.q[w]) \cup {t}
    BY <2>2, AddPrioLine
  <2> QED
    BY <1>2, <2>1, <2>3
<1>18. Turned(s, Reschedule(c), FALSE)
  <2> SUFFICES ASSUME NEW s0, Exact(s0, {}), InTurn(s0, s, FALSE), Fresh(s0, s)
               PROVE  InTurn(s0, Reschedule(c), FALSE) /\ Calm(s0, Reschedule(c))
    BY DEF Turned
  <2>1. \A p \in Priorities : c.q[p] = s.q[p]
    BY <1>1, <1>2, <1>5, Fields, Kinds
  <2>2. \A u \in Threads : /\ c.state[u] = "RUNNING" => s.state[u] = "RUNNING"
                           /\ c.state[u] = "WAITING" => s.state[u] \in {"WAITING", "RUNNING"}
    BY <1>4, <1>5 DEF t
  <2>3. InTurn(s0, c, FALSE) /\ Fresh(s0, c)
    BY <2>1, <2>2, TurnsMoved
  <2>4. Calm(s0, c) /\ Exact(c, {}) /\ FALSE \in BOOLEAN
    BY <1>11, <1>12, <2>3 DEF Calm
  <2> QED
    BY <2>3, <2>4, RescheduleTurns
<1> QED
  BY <1>13, <1>14, <1>15, <1>16, <1>17, <1>18 DEF Keeps, Steady, SameRanks, t

\* What waking sleepers changes of the others: nothing but that the hint may be set.
Woken(s, r) ==
  /\ r.cur = s.cur /\ (s.hint => r.hint)
  /\ \A t \in Threads : r.state[t] = "RUNNING" <=> s.state[t] = "RUNNING"
  /\ Keeps(s, r) /\ SameRanks(s, r) /\ Heeds(s, r)

\* The same of what waking others leaves alone.
LEMMA WokenTransitive == ASSUME NEW s, NEW r, NEW v, Woken(s, r), Woken(r, v) PROVE Woken(s, v)
BY HeedsTransitive DEF Woken, Keeps, SameRanks

\* Waking others leaves a dispatch due.
LEMMA WokenHinted == ASSUME NEW s, s \in SchedulerState, NEW r, Hinted(s), Woken(s, r) PROVE Hinted(r)
BY Fields, Kinds DEF Hinted, Woken

\* The sleepers of a queue are all taken out.
LEMMA EmptyExact ==
  ASSUME NEW s, Exact(s, {}), NEW w \in SleepQueues
  PROVE  LET r == [s EXCEPT !.q[w] = <<>>]
         IN /\ Exact(r, ToSet(s.q[w])) /\ Woken(s, r) /\ r.q[w] = <<>>
            /\ \A v \in SleepQueues \ {w} : r.q[v] = s.q[v]
            /\ \A t \in ToSet(s.q[w]) : t \in Threads /\ r.state[t] = "WAITING"
<1> DEFINE r == [s EXCEPT !.q[w] = <<>>]
           off == ToSet(s.q[w])
<1>1. s \in SchedulerState /\ w \in Queues /\ w \notin Priorities
  BY Kinds DEF Exact
<1>2. \A t \in off : t \in Threads /\ s.state[t] = "WAITING" /\ s.queue[t] = w
  <2>1. ASSUME NEW t \in off PROVE t \in Threads /\ OnQueue(s, t) /\ s.queue[t] = w
    BY <1>1, SeqFacts DEF Exact, ListsExact, Lines
  <2>2. ASSUME NEW t \in off PROVE ~(s.state[t] = "READY" /\ s.suspend[t] = 0)
    BY <1>1, <2>1 DEF Exact, QueueFields, RealPriorities, Live
  <2> QED
    BY <2>1, <2>2 DEF OnQueue
<1>3. /\ r.cur = s.cur /\ r.disabled = s.disabled /\ r.state = s.state
      /\ r.suspend = s.suspend /\ r.prio = s.prio /\ r.base = s.base /\ r.fault = s.fault
      /\ r.hint = s.hint /\ r.bits = s.bits /\ r.queue = s.queue /\ r.q = [s.q EXCEPT ![w] = <<>>]
  BY <1>1, Fields DEF SchedulerState
<1>4. r.q[w] = <<>> /\ \A v \in Queues \ {w} : r.q[v] = s.q[v]
  BY <1>1, <1>3, Fields
<1>5. r \in SchedulerState
  <2>1. r.q \in [Queues -> Seq(Threads)]
    BY <1>1, <1>3, EmptySeq, Fields
  <2> QED
    BY <1>1, <1>3, <2>1, Fields DEF SchedulerState
<1> HIDE DEF r, off
<1>6. ListsExact(r, off)
  BY <1>1, <1>2, <1>3, <1>4, EmptyLine DEF Exact, ListsExact, OnQueue, off
<1>7. QueueFields(r, off) /\ BitsExact(r) /\ OnlyCurrentRuns(r) /\ RealPriorities(r)
  BY <1>1, <1>3, <1>4, Kinds DEF Exact, QueueFields, BitsExact, OnlyCurrentRuns, RealPriorities
<1>8. SleepersInOrder(r)
  <2>1. Sorted(<<>>, s.prio)
    BY DEF Sorted
  <2> QED
    BY <1>3, <1>4, <2>1, Kinds DEF Exact, SleepersInOrder
<1>9. Woken(s, r)
  BY <1>1, <1>3, <1>4, EmptyLine, HeedsCalm, Kinds DEF Woken, Keeps, SameRanks
<1>10. \A v \in SleepQueues \ {w} : r.q[v] = s.q[v]
  BY <1>4, Kinds
<1> QED
  BY <1>2, <1>3, <1>4, <1>5, <1>6, <1>7, <1>8, <1>9, <1>10 DEF Exact, r, off

\* One sleeper that was taken out becomes READY, and runnable unless suspended.
WakeOne(a, t) ==
  LET r == [a EXCEPT !.state[t] = "READY"]
  IN IF a.suspend[t] > 0 THEN r ELSE SetRun(r, t)

\* One sleeper, already off its queue, becomes READY, and runnable unless suspended.
LEMMA WakeOneExact ==
  ASSUME NEW a, NEW off, Exact(a, off), NEW t \in off, t \in Threads, a.state[t] = "WAITING"
  PROVE  LET r == WakeOne(a, t)
         IN /\ Exact(r, off \ {t}) /\ Woken(a, r) /\ (a.suspend[t] = 0 => r.hint)
            /\ \A u \in Threads \ {t} : r.state[u] = a.state[u]
            /\ \A w \in SleepQueues : r.q[w] = a.q[w]
            /\ Longer(a, r)
<1> DEFINE b == [a EXCEPT !.state[t] = "READY"]
           r == WakeOne(a, t)
<1>1. a \in SchedulerState /\ a.suspend[t] \in Nat /\ (a.suspend[t] = 0 => a.prio[t] \in Priorities)
  BY Fields DEF Exact, RealPriorities, Live
<1>2. /\ b.cur = a.cur /\ b.bits = a.bits /\ b.q = a.q /\ b.suspend = a.suspend /\ b.prio = a.prio
      /\ b.queue = a.queue /\ b.hint = a.hint /\ b.base = a.base /\ b.fault = a.fault
      /\ b.state = [a.state EXCEPT ![t] = "READY"]
  BY <1>1, Fields DEF SchedulerState
<1>3. b \in SchedulerState
  BY <1>1, Fields DEF SchedulerState, Live
<1>4. b.state[t] = "READY" /\ \A u \in Threads \ {t} : b.state[u] = a.state[u]
  BY <1>1, <1>2, Fields
<1>5. r = IF a.suspend[t] > 0 THEN b ELSE SetRun(b, t)
  BY DEF WakeOne
<1> HIDE DEF b, r
<1>6. OnlyCurrentRuns(b)
  BY <1>2, <1>4 DEF OnlyCurrentRuns, Exact
<1>7. Exact(b, off \cup {t}) /\ (~OnQueue(b, t) => Exact(b, off \ {t}))
  BY <1>1, <1>2, <1>3, <1>4, <1>6, ThreadExact, ZenonT(40)
<1>8. off \cup {t} = off
  OBVIOUS
<1>9. Woken(a, b)
  <2>1. a.cur # NoThread /\ a.state[a.cur] = "RUNNING" => a.cur \in Threads \ {t}
    BY <1>1, Fields
  <2>2. Heeds(a, b)
    BY <1>2, <1>4, <2>1, HeedsCalm
  <2> QED
    BY <1>2, <1>4, <2>2 DEF Woken, Keeps, Live, SameRanks
<1>10. CASE a.suspend[t] > 0
  <2>1. r = b /\ ~OnQueue(b, t) /\ a.suspend[t] # 0
    BY <1>1, <1>2, <1>4, <1>5, <1>10 DEF OnQueue
  <2>2. Longer(a, r)
    <3>1. /\ \A p \in Priorities : r.q[p] = a.q[p]
          /\ \A u \in Threads : r.state[u] = "WAITING" => a.state[u] = "WAITING"
      BY <1>2, <1>4, <2>1
    <3> QED
      BY <3>1, LongerCalm
  <2> QED
    BY <1>2, <1>4, <1>7, <1>9, <2>1, <2>2 DEF r
<1>11. CASE ~(a.suspend[t] > 0)
  <2>1. r = SetRun(b, t) /\ b.suspend[t] = 0
    BY <1>1, <1>2, <1>5, <1>11
  <2>2. /\ Exact(r, off \ {t}) /\ SameThreads(b, r) /\ Steady(b, r) /\ r.hint
        /\ \A w \in SleepQueues : r.q[w] = b.q[w]
    BY <1>4, <1>7, <1>8, <2>1, SetRunExact
  <2>3. Woken(b, r)
    BY <2>2 DEF SamePlaces, SameThreads, Woken, Keeps, Steady
  <2>4. Longer(a, r)
    <3> DEFINE p == a.prio[t]
    <3>1. r.q = [a.q EXCEPT ![p] = Append(@, t)] /\ r.state = b.state
      BY <1>2, <1>3, <2>1, Fields DEF SetRun, SchedulerState
    <3>2. p \in Priorities /\ p \in Queues
      BY <1>1, <1>11, Kinds
    <3> HIDE DEF p
    <3>3. r.q[p] = Append(a.q[p], t) /\ \A x \in Priorities \ {p} : r.q[x] = a.q[x]
      BY <1>1, <3>1, <3>2, Fields, Kinds
    <3>4. \A u \in Threads : r.state[u] = "WAITING" => a.state[u] = "WAITING"
      BY <1>4, <3>1
    <3> QED
      BY <3>2, <3>3, <3>4, LongerJoin
  <2> QED
    BY <1>2, <1>4, <1>9, <2>2, <2>3, <2>4, WokenTransitive DEF r, SamePlaces, SameThreads
<1> QED
  BY <1>10, <1>11

\* The sleepers of a queue become READY in turn, and nobody else is touched.
LEMMA WakeSleepersExact ==
  ASSUME NEW s, Exact(s, {}), NEW w \in SleepQueues
  PROVE  LET r == WakeSleepers(s, w)
         IN /\ Exact(r, {}) /\ Woken(s, r) /\ r.q[w] = <<>>
            /\ \A v \in SleepQueues \ {w} : r.q[v] = s.q[v]
            /\ ((\E t \in ToSet(s.q[w]) : s.suspend[t] = 0) => r.hint) /\ Longer(s, r)
<1> DEFINE ts == s.q[w]
           N == Len(ts)
           b == [s EXCEPT !.q[w] = <<>>]
           Turn(f, x) == IF x = {} THEN b ELSE WakeOne(f[x \ {Max(x)}], ts[Max(x)])
           Fold(f, k) == f = [x \in SUBSET (1 .. k) |-> Turn(f, x)]
           f == CHOOSE g : Fold(g, N)
<1>1. /\ ts \in Lines(Threads) /\ N \in Nat /\ DOMAIN ts = 1 .. N
      /\ \A i \in 1 .. N : ts[i] \in Threads
      /\ \A i, j \in 1 .. N : i # j => ts[i] # ts[j]
  <2>1. ts \in Lines(Threads)
    BY Kinds DEF Exact, ListsExact
  <2> QED
    BY <2>1, SeqFacts DEF Lines, IsInjective
<1>2. WakeSleepers(s, w) = f[1 .. N]
  <2>1. WakeSleepers(s, w) = (CHOOSE g : g = [x \in SUBSET DOMAIN ts |-> Turn(g, x)])[DOMAIN ts]
    BY DEF WakeSleepers, FoldLeft, MapThenFoldSet, WakeOne
  <2> QED
    BY <1>1, <2>1
<1> HIDE DEF N, b
<1>3. \A k \in Nat : /\ (1 .. k + 1) \ {k + 1} = 1 .. k
                    /\ \A x \in SUBSET (1 .. k + 1) : k + 1 \in x => Max(x) = k + 1
  <2>1. ASSUME NEW k \in Nat, NEW x \in SUBSET (1 .. k + 1), k + 1 \in x PROVE Max(x) = k + 1
    BY <2>1, MaxEqual
  <2> QED
    BY <2>1
<1>4. Fold(f, N)
  <2> DEFINE T == {k \in 0 .. N : \E g : Fold(g, k)}
  <2>1. 0 \in T
    <3>1. Fold([x \in SUBSET (1 .. 0) |-> b], 0)
      OBVIOUS
    <3>2. \E g : Fold(g, 0)
      BY <3>1
    <3> HIDE DEF Fold
    <3> QED
      BY <1>1, <3>2
  <2>2. ASSUME NEW k \in 0 .. N - 1, k \in T PROVE k + 1 \in T
    <3>1. PICK g : Fold(g, k)
      BY <2>2
    <3> DEFINE h == [x \in SUBSET (1 .. k + 1) |->
                       IF k + 1 \in x THEN WakeOne(g[x \ {k + 1}], ts[k + 1]) ELSE g[x]]
    <3>2. k \in Nat /\ k + 1 \in 0 .. N
      BY <1>1
    <3>3. ASSUME NEW x \in SUBSET (1 .. k + 1) PROVE h[x] = Turn(h, x)
      <4>1. CASE k + 1 \in x
        <5>1. x \ {k + 1} \in SUBSET (1 .. k) /\ Max(x) = k + 1 /\ x # {}
          BY <1>3, <3>2, <4>1
        <5>2. x \ {k + 1} \in SUBSET (1 .. k + 1)
          BY <3>2
        <5>3. h[x \ {k + 1}] = g[x \ {k + 1}]
          BY <5>2
        <5> QED
          BY <4>1, <5>1, <5>3
      <4>2. CASE k + 1 \notin x
        <5>1. x \in SUBSET (1 .. k) /\ x \ {Max(x)} \in SUBSET (1 .. k)
          <6>1. \A i \in x : i \in 1 .. k
            BY <3>2, <4>2
          <6> QED
            BY <6>1
        <5>2. x \ {Max(x)} \in SUBSET (1 .. k + 1) /\ k + 1 \notin x \ {Max(x)}
          BY <4>2
        <5>3. h[x] = g[x] /\ h[x \ {Max(x)}] = g[x \ {Max(x)}]
          BY <4>2, <5>2
        <5>4. g[x] = Turn(g, x)
          BY <3>1, <5>1
        <5> QED
          BY <5>3, <5>4
      <4> QED
        BY <4>1, <4>2
    <3>4. Fold(h, k + 1)
      <4>1. h = [x \in SUBSET (1 .. k + 1) |-> h[x]]
        OBVIOUS
      <4> HIDE DEF h, Turn
      <4> QED
        BY <3>3, <4>1
    <3> HIDE DEF h, Fold
    <3> QED
      BY <3>2, <3>4
  <2>3. N \in T
    <3> HIDE DEF T
    <3>1. 0 .. N \subseteq T
      BY <1>1, <2>1, <2>2, BoundedInduction
    <3> QED
      BY <1>1, <3>1
  <2>4. \E g : Fold(g, N)
    BY <2>3
  <2> HIDE DEF Fold
  <2> QED
    BY <2>4
<1> HIDE DEF f
<1>5. f[{}] = b /\ \A k \in 0 .. N - 1 : f[1 .. k + 1] = WakeOne(f[1 .. k], ts[k + 1])
  <2>1. f[{}] = b
    BY <1>4
  <2>2. ASSUME NEW k \in 0 .. N - 1 PROVE f[1 .. k + 1] = WakeOne(f[1 .. k], ts[k + 1])
    <3>1. /\ 1 .. k + 1 \in SUBSET (1 .. N) /\ 1 .. k + 1 # {} /\ Max(1 .. k + 1) = k + 1
          /\ (1 .. k + 1) \ {k + 1} = 1 .. k
      <4>1. k \in Nat /\ 1 .. k + 1 \in SUBSET (1 .. N) /\ k + 1 \in 1 .. k + 1
        BY <1>1
      <4>2. 1 .. k + 1 \in SUBSET (1 .. k + 1)
        OBVIOUS
      <4> QED
        BY <1>3, <4>1, <4>2
    <3>2. f[1 .. k + 1] = Turn(f, 1 .. k + 1)
      <4> HIDE DEF Turn
      <4> QED
        BY <1>4, <3>1
    <3> QED
      BY <3>1, <3>2
  <2> QED
    BY <2>1, <2>2
<1> DEFINE off(k) == {ts[i] : i \in k + 1 .. N}
           a(k) == f[1 .. k]
           T == {k \in 0 .. N : /\ Exact(a(k), off(k)) /\ Woken(s, a(k)) /\ a(k).q[w] = <<>>
                                /\ Longer(s, a(k))
                                /\ \A v \in SleepQueues \ {w} : a(k).q[v] = s.q[v]
                                /\ \A t \in off(k) : a(k).state[t] = "WAITING"
                                /\ \A i \in 1 .. k : s.suspend[ts[i]] = 0 => a(k).hint}
<1>6. 0 \in T
  <2>1. 1 .. 0 = {} /\ off(0) = ToSet(ts)
    BY <1>1 DEF ToSet
  <2>2. a(0) = b
    BY <1>5, <2>1
  <2>3. /\ Exact(b, ToSet(ts)) /\ Woken(s, b) /\ b.q[w] = <<>>
        /\ \A v \in SleepQueues \ {w} : b.q[v] = s.q[v]
        /\ \A t \in ToSet(ts) : b.state[t] = "WAITING"
    BY EmptyExact DEF b
  <2>5. Longer(s, b)
    <3>1. b.state = s.state /\ b.q = [s.q EXCEPT ![w] = <<>>]
      BY Fields DEF b, Exact, SchedulerState
    <3>2. \A p \in Priorities : b.q[p] = s.q[p]
      BY <3>1, Fields, Kinds DEF Exact
    <3>3. \A t \in Threads : b.state[t] = "WAITING" => s.state[t] = "WAITING"
      BY <3>1
    <3> QED
      BY <3>2, <3>3, LongerCalm
  <2>4. \A i \in 1 .. 0 : s.suspend[ts[i]] = 0 => a(0).hint
    BY <2>1
  <2> HIDE DEF a, off, ts
  <2> QED
    BY <1>1, <2>1, <2>2, <2>3, <2>4, <2>5
<1>7. ASSUME NEW k \in 0 .. N - 1, k \in T PROVE k + 1 \in T
  <2> DEFINE t == ts[k + 1]
  <2>1. k + 1 \in 1 .. N /\ k + 1 \in 0 .. N
    BY <1>1
  <2>2. t \in Threads /\ t \in off(k) /\ off(k + 1) = off(k) \ {t}
    <3>1. \A i \in k + 1 .. N : i \in 1 .. N /\ (i = k + 1 \/ i \in k + 2 .. N)
      BY <1>1
    <3>2. \A i \in k + 2 .. N : i \in 1 .. N /\ i # k + 1 /\ i \in k + 1 .. N
      BY <1>1
    <3>3. (k + 1) + 1 = k + 2
      BY <1>1
    <3> HIDE DEF ts
    <3> QED
      BY <1>1, <2>1, <3>1, <3>2, <3>3
  <2>3. a(k + 1) = WakeOne(a(k), t)
    BY <1>5
  <2>4. /\ Exact(a(k), off(k)) /\ Woken(s, a(k)) /\ a(k).q[w] = <<>> /\ Longer(s, a(k))
        /\ \A v \in SleepQueues \ {w} : a(k).q[v] = s.q[v]
        /\ \A u \in off(k) : a(k).state[u] = "WAITING"
        /\ \A i \in 1 .. k : s.suspend[ts[i]] = 0 => a(k).hint
    BY <1>7
  <2>5. off(k) \subseteq Threads
    BY <1>1
  <2> HIDE DEF a, off, t
  <2>8. /\ Exact(a(k + 1), off(k + 1)) /\ Woken(a(k), a(k + 1))
        /\ (a(k).suspend[t] = 0 => a(k + 1).hint)
        /\ \A u \in Threads \ {t} : a(k + 1).state[u] = a(k).state[u]
        /\ \A v \in SleepQueues : a(k + 1).q[v] = a(k).q[v]
        /\ Longer(a(k), a(k + 1))
    <3> DEFINE c == a(k)
               o == off(k)
               d == a(k + 1)
    <3>1. Exact(c, o) /\ t \in o /\ t \in Threads /\ c.state[t] = "WAITING"
      BY <2>2, <2>4
    <3>2. d = WakeOne(c, t)
      BY <2>3
    <3> HIDE DEF c, d, o
    <3>3. /\ Exact(d, o \ {t}) /\ Woken(c, d) /\ (c.suspend[t] = 0 => d.hint)
          /\ \A u \in Threads \ {t} : d.state[u] = c.state[u]
          /\ \A v \in SleepQueues : d.q[v] = c.q[v]
          /\ Longer(c, d)
      BY <3>1, <3>2, WakeOneExact
    <3> QED
      BY <2>2, <3>3 DEF c, d, o
  <2>6. /\ Exact(a(k + 1), off(k + 1)) /\ Woken(a(k), a(k + 1)) /\ a(k + 1).q[w] = <<>>
        /\ \A v \in SleepQueues \ {w} : a(k + 1).q[v] = s.q[v]
        /\ \A u \in off(k + 1) : a(k + 1).state[u] = "WAITING"
    BY <2>2, <2>4, <2>5, <2>8
  <2>7. Woken(s, a(k + 1)) /\ Longer(s, a(k + 1))
    BY <2>4, <2>6, <2>8, WokenTransitive, LongerTransitive
  <2>9. \A i \in 1 .. k + 1 : s.suspend[ts[i]] = 0 => a(k + 1).hint
    <3>1. \A i \in 1 .. k + 1 : i \in 1 .. k \/ (i = k + 1 /\ ts[i] = t)
      BY <1>1 DEF t
    <3>2. a(k).suspend = s.suspend /\ (a(k).hint => a(k + 1).hint)
      BY <2>4, <2>8 DEF Woken, SameRanks
    <3> QED
      BY <2>4, <2>8, <3>1, <3>2
  <2> QED
    BY <2>1, <2>6, <2>7, <2>9
<1>8. N \in T
  <2> HIDE DEF T
  <2>1. 0 .. N \subseteq T
    BY <1>1, <1>6, <1>7, BoundedInduction
  <2> QED
    BY <1>1, <2>1
<1>9. off(N) = {}
  BY <1>1
<1> QED
  <2>1. \A t \in ToSet(ts) : \E i \in 1 .. N : t = ts[i]
    BY <1>1 DEF ToSet
  <2> HIDE DEF off
  <2> QED
    BY <1>2, <1>8, <1>9, <2>1

\* OSWakeupThread wakes every sleeper of the queue and dispatches.
LEMMA WakeupExact ==
  ASSUME NEW s, Exact(s, {}), NEW w \in SleepQueues
  PROVE  LET r == WakeupThread(s, w)
         IN /\ Exact(r, {}) /\ Keeps(s, r) /\ (Hinted(s) => Hinted(r)) /\ r.q[w] = <<>>
            /\ SameRanks(s, r) /\ \A v \in SleepQueues \ {w} : r.q[v] = s.q[v]
            /\ Heeds(s, r)
            /\ (\/ Alert(s)
                \/ \E t \in ToSet(s.q[w]) : s.suspend[t] = 0) => (r.disabled = 0 => ~Missed(r))
<1> DEFINE a == WakeSleepers(s, w)
           r == Reschedule(a)
<1>1. /\ Exact(a, {}) /\ Woken(s, a) /\ a.q[w] = <<>>
      /\ \A v \in SleepQueues \ {w} : a.q[v] = s.q[v]
      /\ ((\E t \in ToSet(s.q[w]) : s.suspend[t] = 0) => a.hint)
  BY WakeSleepersExact
<1>2. Keeps(s, a) /\ SameRanks(s, a) /\ (Hinted(s) => Hinted(a))
  BY <1>1, WokenHinted DEF Woken, Exact
<1> HIDE DEF a
<1>3. /\ Exact(r, {}) /\ Keeps(a, r) /\ (Hinted(a) => Hinted(r)) /\ Steady(a, r)
      /\ Heeds(a, r) /\ (Alert(a) /\ r.disabled = 0 => ~Missed(r))
  BY <1>1, RescheduleExact
<1>4. r.q[w] = <<>>
  <2>1. ToSet(r.q[w]) = {} /\ r.q[w] \in Lines(Threads)
    BY <1>1, <1>3, EmptyLine, Kinds DEF Keeps, Exact, ListsExact
  <2> QED
    BY <2>1, SeqFacts DEF Lines
<1>5. WakeupThread(s, w) = r
  BY DEF WakeupThread, a
<1>6. Heeds(s, a) /\ Heeds(s, r)
  BY <1>1, <1>3, HeedsTransitive DEF Woken
<1>7. (\/ Alert(s)
       \/ \E t \in ToSet(s.q[w]) : s.suspend[t] = 0) => (r.disabled = 0 => ~Missed(r))
  BY <1>1, <1>3, <1>6 DEF Heeds, Alert
<1> QED
  BY <1>1, <1>2, <1>3, <1>4, <1>5, <1>6, <1>7, KeepsTransitive DEF Steady, SameRanks

\* OSWakeupThread keeps all turns, unless its dispatch comes after another that may be undone.
LEMMA WakeupTurns ==
  ASSUME NEW s0, Exact(s0, {}), NEW s, Exact(s, {}), NEW robbed \in BOOLEAN, InTurn(s0, s, robbed),
         robbed \/ Fresh(s0, s), NEW w \in SleepQueues, NEW r, r = WakeupThread(s, w)
  PROVE  InTurn(s0, r, robbed) /\ (Fresh(s0, s) => Calm(s0, r))
<1> DEFINE a == WakeSleepers(s, w)
<1>1. Exact(a, {}) /\ Woken(s, a) /\ Longer(s, a)
  BY WakeSleepersExact
<1>2. r = Reschedule(a)
  BY DEF WakeupThread
<1> HIDE DEF a
<1>3. a.cur = s.cur /\ a.prio = s.prio /\ \A t \in Threads : a.state[t] = "RUNNING" <=> s.state[t] = "RUNNING"
  BY <1>1 DEF Woken, SameRanks
<1>4. InTurn(s0, a, robbed) /\ (Fresh(s0, s) => Fresh(s0, a))
  BY <1>1, <1>3, LongerTurns
<1>5. (Fresh(s0, s) => Calm(s0, a)) /\ (robbed \/ Calm(s0, a))
  BY <1>4 DEF Calm
<1> QED
  BY <1>1, <1>2, <1>4, <1>5, RescheduleTurns

\* The same of a wakeup that comes first, and of one after others.
LEMMA WakeupTurned ==
  ASSUME NEW s, NEW a, Exact(a, {}), NEW robbed \in BOOLEAN, IF robbed THEN Turned(s, a, TRUE) ELSE a = s,
         NEW w \in SleepQueues, NEW r, r = WakeupThread(a, w)
  PROVE  Turned(s, r, robbed)
<1> SUFFICES ASSUME NEW s0, Exact(s0, {}), InTurn(s0, s, FALSE), Fresh(s0, s)
             PROVE  InTurn(s0, r, robbed) /\ (~robbed => Calm(s0, r))
  BY DEF Turned
<1>1. CASE robbed
  <2>1. InTurn(s0, a, TRUE) /\ TRUE \in BOOLEAN
    BY <1>1 DEF Turned
  <2>2. InTurn(s0, r, TRUE)
    BY <2>1, WakeupTurns
  <2> QED
    BY <1>1, <2>2
<1>2. CASE ~robbed
  <2>1. InTurn(s0, a, FALSE) /\ Fresh(s0, a) /\ FALSE \in BOOLEAN
    BY <1>2
  <2>2. InTurn(s0, r, FALSE) /\ Calm(s0, r)
    BY <2>1, WakeupTurns
  <2> QED
    BY <1>2, <2>2
<1> QED
  BY <1>1, <1>2

\* A sleeper that a handler takes out of its queue is lost.
LEMMA UnlinkExact ==
  ASSUME NEW s, Exact(s, {}), NEW t \in Threads, s.state[t] = "WAITING"
  PROVE  LET r == [s EXCEPT !.q[s.queue[t]] = RemoveFirst(@, t), !.queue[t] = NoQueue]
         IN /\ Exact(r, {t}) /\ Lost(r, {t}) /\ Keeps(s, r) /\ (Hinted(s) => Hinted(r)) /\ r.state = s.state
            /\ SameRanks(s, r) /\ \A v \in SleepQueues \ {s.queue[t]} : r.q[v] = s.q[v]
            /\ ToSet(r.q[s.queue[t]]) = ToSet(s.q[s.queue[t]]) \ {t} /\ Heeds(s, r)
<1> DEFINE w == s.queue[t]
           rest == RemoveFirst(s.q[w], t)
           r == [s EXCEPT !.q[w] = RemoveFirst(@, t), !.queue[t] = NoQueue]
<1>1. s \in SchedulerState /\ w \in SleepQueues /\ w \in Queues /\ w \notin Priorities
  BY Kinds DEF Exact, QueueFields
<1>2. s.q[w] \in Lines(Threads) /\ t \in ToSet(s.q[w]) /\ Sorted(s.q[w], s.prio)
  BY <1>1 DEF Exact, ListsExact, SleepersInOrder, OnQueue
<1>3. rest \in Lines(Threads) /\ ToSet(rest) = ToSet(s.q[w]) \ {t} /\ Sorted(rest, s.prio)
  BY <1>2, RemoveFirstLine, RemoveSorted
<1>4. /\ r.cur = s.cur /\ r.disabled = s.disabled /\ r.state = s.state
      /\ r.suspend = s.suspend /\ r.prio = s.prio /\ r.base = s.base /\ r.fault = s.fault
      /\ r.hint = s.hint /\ r.bits = s.bits /\ r.queue = [s.queue EXCEPT ![t] = NoQueue]
      /\ r.q = [s.q EXCEPT ![w] = rest]
  BY <1>1, Fields DEF SchedulerState
<1> HIDE DEF rest
<1>5. /\ r.q[w] = rest /\ \A v \in Queues \ {w} : r.q[v] = s.q[v]
      /\ r.queue[t] = NoQueue /\ \A u \in Threads \ {t} : r.queue[u] = s.queue[u]
  BY <1>1, <1>4, Fields
<1>6. r \in SchedulerState
  <2>1. r.q \in [Queues -> Seq(Threads)]
    BY <1>1, <1>3, <1>4, <1>5, Fields DEF Lines
  <2>2. r.queue \in [Threads -> Queues \cup {NoQueue}]
    BY <1>1, <1>4, Fields
  <2> QED
    BY <1>1, <1>4, <2>1, <2>2, Fields DEF SchedulerState
<1> HIDE DEF r
<1>7. ListsExact(r, {t})
  <2>1. \A v \in Queues : r.q[v] \in Lines(Threads)
    BY <1>3, <1>5 DEF Exact, ListsExact
  <2>2. \A v \in Queues, u \in Threads : u \in ToSet(r.q[v]) <=> u \in ToSet(s.q[v]) /\ u # t
    BY <1>3, <1>5 DEF Exact, ListsExact
  <2> QED
    BY <1>4, <1>5, <2>1, <2>2 DEF Exact, ListsExact, OnQueue
<1>8. QueueFields(r, {t}) /\ BitsExact(r) /\ OnlyCurrentRuns(r) /\ RealPriorities(r)
  BY <1>1, <1>4, <1>5, Kinds DEF Exact, QueueFields, BitsExact, OnlyCurrentRuns, RealPriorities
<1>9. SleepersInOrder(r) /\ Keeps(s, r)
  BY <1>1, <1>3, <1>4, <1>5, Kinds DEF Exact, SleepersInOrder, Keeps
<1>10. Heeds(s, r)
  BY <1>4, HeedsCalm
<1> QED
  BY <1>1, <1>3, <1>4, <1>5, <1>6, <1>7, <1>8, <1>9, <1>10, Kinds DEF Exact, Lost, Hinted, SameRanks, r

\* Waking the sleepers of several queues in turn, each wakeup dispatching, leaves
\* them all empty.
LEMMA WakeAllExact ==
  ASSUME NEW s, Exact(s, {}), NEW ts \in Seq(SleepQueues)
  PROVE  LET r == FoldLeft(WakeupThread, s, ts)
         IN /\ Exact(r, {}) /\ Keeps(s, r) /\ (Hinted(s) => Hinted(r))
            /\ \A w \in ToSet(ts) : r.q[w] = <<>>
            /\ SameRanks(s, r) /\ \A v \in SleepQueues \ ToSet(ts) : r.q[v] = s.q[v]
            /\ Heeds(s, r) /\ Turned(s, r, Len(ts) > 1)
<1> DEFINE N == Len(ts)
           Turn(f, x) == IF x = {} THEN s ELSE WakeupThread(f[x \ {Max(x)}], ts[Max(x)])
           Fold(f, k) == f = [x \in SUBSET (1 .. k) |-> Turn(f, x)]
           f == CHOOSE g : Fold(g, N)
<1>1. N \in Nat /\ DOMAIN ts = 1 .. N /\ \A i \in 1 .. N : ts[i] \in SleepQueues
  BY SeqFacts
<1>2. FoldLeft(WakeupThread, s, ts) = f[1 .. N]
  <2>1. FoldLeft(WakeupThread, s, ts) = (CHOOSE g : g = [x \in SUBSET DOMAIN ts |-> Turn(g, x)])[DOMAIN ts]
    BY DEF FoldLeft, MapThenFoldSet
  <2> QED
    BY <1>1, <2>1
<1> HIDE DEF N
<1>3. \A k \in Nat : /\ (1 .. k + 1) \ {k + 1} = 1 .. k
                    /\ \A x \in SUBSET (1 .. k + 1) : k + 1 \in x => Max(x) = k + 1
  <2>1. ASSUME NEW k \in Nat, NEW x \in SUBSET (1 .. k + 1), k + 1 \in x PROVE Max(x) = k + 1
    BY <2>1, MaxEqual
  <2> QED
    BY <2>1
<1>4. Fold(f, N)
  <2> DEFINE T == {k \in 0 .. N : \E g : Fold(g, k)}
  <2>1. 0 \in T
    <3>1. Fold([x \in SUBSET (1 .. 0) |-> s], 0)
      OBVIOUS
    <3>2. \E g : Fold(g, 0)
      BY <3>1
    <3> HIDE DEF Fold
    <3> QED
      BY <1>1, <3>2
  <2>2. ASSUME NEW k \in 0 .. N - 1, k \in T PROVE k + 1 \in T
    <3>1. PICK g : Fold(g, k)
      BY <2>2
    <3> DEFINE h == [x \in SUBSET (1 .. k + 1) |->
                       IF k + 1 \in x THEN WakeupThread(g[x \ {k + 1}], ts[k + 1]) ELSE g[x]]
    <3>2. k \in Nat /\ k + 1 \in 0 .. N
      BY <1>1
    <3>3. ASSUME NEW x \in SUBSET (1 .. k + 1) PROVE h[x] = Turn(h, x)
      <4>1. CASE k + 1 \in x
        <5>1. x \ {k + 1} \in SUBSET (1 .. k) /\ Max(x) = k + 1 /\ x # {}
          BY <1>3, <3>2, <4>1
        <5>2. x \ {k + 1} \in SUBSET (1 .. k + 1)
          BY <3>2
        <5>3. h[x \ {k + 1}] = g[x \ {k + 1}]
          BY <5>2
        <5> QED
          BY <4>1, <5>1, <5>3
      <4>2. CASE k + 1 \notin x
        <5>1. x \in SUBSET (1 .. k) /\ x \ {Max(x)} \in SUBSET (1 .. k)
          <6>1. \A i \in x : i \in 1 .. k
            BY <3>2, <4>2
          <6> QED
            BY <6>1
        <5>2. x \ {Max(x)} \in SUBSET (1 .. k + 1) /\ k + 1 \notin x \ {Max(x)}
          BY <4>2
        <5>3. h[x] = g[x] /\ h[x \ {Max(x)}] = g[x \ {Max(x)}]
          BY <4>2, <5>2
        <5>4. g[x] = Turn(g, x)
          BY <3>1, <5>1
        <5> QED
          BY <5>3, <5>4
      <4> QED
        BY <4>1, <4>2
    <3>4. Fold(h, k + 1)
      <4>1. h = [x \in SUBSET (1 .. k + 1) |-> h[x]]
        OBVIOUS
      <4> HIDE DEF h, Turn
      <4> QED
        BY <3>3, <4>1
    <3> HIDE DEF h, Fold
    <3> QED
      BY <3>2, <3>4
  <2>3. N \in T
    <3> HIDE DEF T
    <3>1. 0 .. N \subseteq T
      BY <1>1, <2>1, <2>2, BoundedInduction
    <3> QED
      BY <1>1, <3>1
  <2>4. \E g : Fold(g, N)
    BY <2>3
  <2> HIDE DEF Fold
  <2> QED
    BY <2>4
<1> HIDE DEF f
<1>5. f[{}] = s /\ \A k \in 0 .. N - 1 : f[1 .. k + 1] = WakeupThread(f[1 .. k], ts[k + 1])
  <2>1. f[{}] = s
    BY <1>4
  <2>2. ASSUME NEW k \in 0 .. N - 1 PROVE f[1 .. k + 1] = WakeupThread(f[1 .. k], ts[k + 1])
    <3>1. /\ 1 .. k + 1 \in SUBSET (1 .. N) /\ 1 .. k + 1 # {} /\ Max(1 .. k + 1) = k + 1
          /\ (1 .. k + 1) \ {k + 1} = 1 .. k
      <4>1. k \in Nat /\ 1 .. k + 1 \in SUBSET (1 .. N) /\ k + 1 \in 1 .. k + 1
        BY <1>1
      <4>2. 1 .. k + 1 \in SUBSET (1 .. k + 1)
        OBVIOUS
      <4> QED
        BY <1>3, <4>1, <4>2
    <3>2. f[1 .. k + 1] = Turn(f, 1 .. k + 1)
      <4> HIDE DEF Turn
      <4> QED
        BY <1>4, <3>1
    <3> QED
      BY <3>1, <3>2
  <2> QED
    BY <2>1, <2>2
<1> DEFINE a(k) == f[1 .. k]
           T == {k \in 0 .. N : /\ Exact(a(k), {}) /\ Keeps(s, a(k)) /\ (Hinted(s) => Hinted(a(k)))
                                /\ SameRanks(s, a(k)) /\ Heeds(s, a(k)) /\ Turned(s, a(k), k > 1)
                                /\ \A v \in SleepQueues : (\A i \in 1 .. k : ts[i] # v) => a(k).q[v] = s.q[v]
                                /\ \A i \in 1 .. k : a(k).q[ts[i]] = <<>>}
<1>6. 0 \in T
  <2>1. a(0) = s
    <3>1. 1 .. 0 = {}
      OBVIOUS
    <3> QED
      BY <1>5, <3>1
  <2>2. Turned(s, s, FALSE)
    BY DEF Turned, Calm
  <2>3. Turned(s, s, 0 > 1)
    <3>1. (0 > 1) = FALSE
      OBVIOUS
    <3> QED
      BY <2>2, <3>1
  <2> HIDE DEF a
  <2> QED
    BY <1>1, <2>1, <2>3 DEF Keeps, SameRanks, Heeds
<1>7. ASSUME NEW k \in 0 .. N - 1, k \in T PROVE k + 1 \in T
  <2> DEFINE w == ts[k + 1]
             c == a(k)
             d == a(k + 1)
  <2>1. k \in Nat /\ k + 1 \in 1 .. N /\ k + 1 \in 0 .. N /\ \A i \in 1 .. k + 1 : i \in 1 .. k \/ i = k + 1
    BY <1>1
  <2>2. d = WakeupThread(c, w) /\ w \in SleepQueues
    BY <1>1, <1>5, <2>1
  <2>3. /\ Exact(c, {}) /\ Keeps(s, c) /\ (Hinted(s) => Hinted(c))
        /\ SameRanks(s, c) /\ Heeds(s, c) /\ Turned(s, c, k > 1)
        /\ \A v \in SleepQueues : (\A i \in 1 .. k : ts[i] # v) => c.q[v] = s.q[v]
        /\ \A i \in 1 .. k : c.q[ts[i]] = <<>>
    BY <1>7
  <2>4. \A i \in 1 .. k : ts[i] \in SleepQueues
    BY <1>1
  <2>10. k = 0 => c = s
    BY <1>5
  <2> HIDE DEF c, d
  <2>5. /\ Exact(d, {}) /\ Keeps(c, d) /\ (Hinted(c) => Hinted(d)) /\ d.q[w] = <<>>
        /\ SameRanks(c, d) /\ (\A v \in SleepQueues \ {w} : d.q[v] = c.q[v]) /\ Heeds(c, d)
    <3> HIDE DEF w
    <3> QED
      BY <2>2, <2>3, WakeupExact
  <2>6. ASSUME NEW i \in 1 .. k PROVE d.q[ts[i]] = <<>>
    <3>1. ts[i] \in SleepQueues /\ c.q[ts[i]] = <<>>
      BY <2>3, <2>4
    <3>2. ToSet(d.q[ts[i]]) = {} /\ d.q[ts[i]] \in Lines(Threads)
      BY <2>5, <3>1, EmptyLine, Kinds DEF Keeps, Exact, ListsExact
    <3> QED
      BY <3>2, SeqFacts DEF Lines
  <2>7. \A i \in 1 .. k + 1 : d.q[ts[i]] = <<>>
    BY <2>1, <2>5, <2>6
  <2>8. Keeps(s, d) /\ Heeds(s, d)
    BY <2>3, <2>5, KeepsTransitive, HeedsTransitive
  <2>9. /\ SameRanks(s, d)
        /\ \A v \in SleepQueues : (\A i \in 1 .. k + 1 : ts[i] # v) => d.q[v] = s.q[v]
    <3>1. \A i \in 1 .. k : i \in 1 .. k + 1
      BY <2>1
    <3>2. k + 1 \in 1 .. k + 1
      BY <2>1
    <3>3. SameRanks(s, d)
      BY <2>3, <2>5 DEF SameRanks
    <3> QED
      BY <2>3, <2>5, <3>1, <3>2, <3>3
  <2>11. Turned(s, d, k + 1 > 1)
    <3>1. CASE k = 0
      <4>1. c = s /\ (k + 1 > 1) = FALSE /\ FALSE \in BOOLEAN
        BY <2>10, <3>1
      <4>2. Turned(s, d, FALSE)
        BY <2>2, <2>3, <4>1, WakeupTurned
      <4> QED
        BY <4>1, <4>2
    <3>2. CASE k # 0
      <4>1. (k + 1 > 1) = TRUE /\ TRUE \in BOOLEAN /\ FALSE \in BOOLEAN
        BY <2>1, <3>2
      <4>2. Turned(s, c, TRUE)
        <5>1. Turned(s, c, TRUE) \/ Turned(s, c, FALSE)
          <6>1. (k > 1) = TRUE \/ (k > 1) = FALSE
            BY <2>1
          <6> QED
            BY <2>3, <6>1
        <5> QED
          BY <4>1, <5>1, TurnsLoosened DEF Turned
      <4>3. Turned(s, d, TRUE)
        BY <2>2, <2>3, <4>1, <4>2, WakeupTurned
      <4> QED
        BY <4>1, <4>3
    <3> QED
      BY <3>1, <3>2
  <2> QED
    BY <2>1, <2>3, <2>5, <2>7, <2>8, <2>9, <2>11 DEF d
<1>8. N \in T
  <2> HIDE DEF T
  <2>1. 0 .. N \subseteq T
    BY <1>1, <1>6, <1>7, BoundedInduction
  <2> QED
    BY <1>1, <2>1
<1> QED
  <2>1. \A w \in ToSet(ts) : \E i \in 1 .. N : w = ts[i]
    BY <1>1 DEF ToSet
  <2>2. \A i \in 1 .. N : ts[i] \in ToSet(ts)
    BY <1>1 DEF ToSet
  <2>3. Turned(s, a(N), Len(ts) > 1)
    <3>1. Turned(s, a(N), N > 1)
      BY <1>8
    <3> HIDE DEF a
    <3> QED
      BY <3>1 DEF N
  <2> QED
    BY <1>2, <1>8, <2>1, <2>2, <2>3

-----------------------------------------------------------------------------
(* The mutex fields. *)


\* What the mutex fields hold.
MutexTypes ==
  /\ owner \in [Mutexes -> Threads \cup {NoThread}]
  /\ count \in [Mutexes -> Int]
  /\ waiting \in [Threads -> Mutexes \cup {NoMutex}]
  /\ val \in [Threads -> Int]

\* Nobody owns the mutex it has still to lock.
WantsAnothers == \A t \in Threads : waiting[t] # NoMutex => owner[waiting[t]] # t

IInv == MutexTypes /\ FreeCount /\ WantsAnothers

-----------------------------------------------------------------------------
(* How the mutex fields change. *)

\* NULL is neither a thread nor a mutex.
LEMMA Nulls == NoThread \notin Threads /\ NoMutex \notin Mutexes
BY NullAssumption, ThreadsAssumption DEF NoMutex

\* Taking a mutex changes that mutex only, and keeps free ones at count zero.
LEMMA AcquireInv ==
  ASSUME IInv, NEW t \in Threads, NEW m \in Mutexes, NEW n \in Int, Acquire(t, m, n)
  PROVE  /\ owner' \in [Mutexes -> Threads \cup {NoThread}] /\ count' \in [Mutexes -> Int]
         /\ owner'[m] = t /\ count'[m] = n /\ \A k \in Mutexes \ {m} : owner'[k] = owner[k]
         /\ FreeCount'
BY Nulls DEF IInv, MutexTypes, FreeCount, Acquire

\* Giving a mutex up changes that mutex only, and leaves it at count zero.
LEMMA ReleaseInv ==
  ASSUME IInv, NEW t \in Threads, NEW m \in Mutexes, Release(t, m)
  PROVE  /\ owner' \in [Mutexes -> Threads \cup {NoThread}] /\ count' \in [Mutexes -> Int]
         /\ owner'[m] = NoThread /\ \A k \in Mutexes \ {m} : owner'[k] = owner[k]
         /\ FreeCount'
BY DEF IInv, MutexTypes, FreeCount, Release

\* The death of a thread frees mutexes at count zero and gives it none.
LEMMA UnlockAllInv ==
  ASSUME IInv, NEW t \in Threads, UnlockAllMutex(t)
  PROVE  /\ owner' \in [Mutexes -> Threads \cup {NoThread}] /\ count' \in [Mutexes -> Int]
         /\ \A k \in Mutexes : owner'[k] \in {owner[k], NoThread}
         /\ FreeCount'
BY DEF IInv, MutexTypes, FreeCount, UnlockAllMutex

\* A thread that contends for m wants it from then on, and changes nothing else.
LEMMA ContendInv ==
  ASSUME IInv, NEW t \in Threads, NEW m \in Mutexes, ~Lockable(t, m), Contend(t, m),
         UNCHANGED val
  PROVE  IInv' /\ waiting'[t] = m /\ \A u \in Threads \ {t} : waiting'[u] = waiting[u]
<1>1. waiting' = [waiting EXCEPT ![t] = m] /\ owner' = owner /\ count' = count
  BY DEF Contend
<1>2. MutexTypes' /\ FreeCount'
  BY <1>1 DEF IInv, MutexTypes, FreeCount
<1>3. WantsAnothers'
  BY <1>1 DEF IInv, MutexTypes, WantsAnothers, Lockable
<1> QED BY <1>1, <1>2, <1>3 DEF IInv, MutexTypes
-----------------------------------------------------------------------------
(* The actions. *)

\* What RelockRestoresDepth says of one step.
Relock ==
  \A t \in Threads :
    sched.state[t] \in Live /\ waiting[t] # NoMutex /\ waiting'[t] = NoMutex =>
      /\ owner'[waiting[t]] = t
      /\ val[t] > 0 => count'[waiting[t]] = val[t]

\* OSCreateThread makes a thread that waits for no mutex.
LEMMA CreateStep ==
  ASSUME IInv, NEW t \in Threads, NEW p, NEW d, OSCreateThread(t, p, d)
  PROVE  IInv' /\ Relock
<1>1. /\ owner' = owner /\ count' = count /\ waiting' = [waiting EXCEPT ![t] = NoMutex]
      /\ val' = [val EXCEPT ![t] = DefaultVal] /\ sched.state[t] = "INACTIVE"
  BY DEF OSCreateThread
<1>2. IInv'
  BY <1>1 DEF IInv, MutexTypes, FreeCount, WantsAnothers, DefaultVal
<1>3. Relock
  BY <1>1 DEF IInv, MutexTypes, Relock, Live
<1> QED BY <1>2, <1>3

\* The end of a thread, by cancellation or by its own exit.
LEMMA DeathStep ==
  ASSUME IInv, NEW t \in Threads, UnlockAllMutex(t), UNCHANGED waiting, val' \in [Threads -> Int]
  PROVE  IInv' /\ Relock
<1>1. MutexTypes' /\ FreeCount'
  BY UnlockAllInv DEF IInv, MutexTypes
<1>2. ASSUME NEW u \in Threads, waiting'[u] # NoMutex PROVE owner'[waiting'[u]] # u
  <2>1. waiting'[u] = waiting[u] /\ waiting[u] \in Mutexes /\ owner[waiting[u]] # u
    BY <1>2 DEF IInv, MutexTypes, WantsAnothers
  <2>2. owner'[waiting[u]] \in {owner[waiting[u]], NoThread}
    BY <2>1, UnlockAllInv
  <2> QED BY <2>1, <2>2, Nulls
<1>3. WantsAnothers'
  BY <1>2 DEF WantsAnothers
<1> QED BY <1>1, <1>3 DEF IInv, Relock

\* Locking a mutex that is free or the caller's own.  The caller is not in the
\* middle of another lock.
LEMMA AcquireStep ==
  ASSUME IInv, NEW t \in Threads, NEW m \in Mutexes, Program(t),
         Acquire(t, m, count[m] + 1), UNCHANGED <<waiting, val>>
  PROVE  IInv' /\ Relock
<1>1. waiting[t] = NoMutex
  BY DEF Program, Settled, PendingLock
<1>2. count[m] + 1 \in Int
  BY DEF IInv, MutexTypes
<1>3. /\ owner'[m] = t /\ \A k \in Mutexes \ {m} : owner'[k] = owner[k]
      /\ MutexTypes' /\ FreeCount'
  BY <1>2, AcquireInv DEF IInv, MutexTypes
<1>4. WantsAnothers'
  BY <1>1, <1>3 DEF IInv, MutexTypes, WantsAnothers
<1> QED BY <1>3, <1>4 DEF IInv, Relock

\* OSLockMutex takes the mutex or begins to wait for another thread's.
LEMMA LockStep ==
  ASSUME IInv, NEW t \in Threads, NEW m \in Mutexes, OSLockMutex(t, m)
  PROVE  IInv' /\ Relock
<1>1. CASE Lockable(t, m) /\ Acquire(t, m, count[m] + 1) /\ UNCHANGED waiting
  BY <1>1, AcquireStep DEF OSLockMutex
<1>2. CASE ~Lockable(t, m) /\ Contend(t, m)
  <2>1. IInv' /\ waiting'[t] = m /\ \A u \in Threads \ {t} : waiting'[u] = waiting[u]
    BY <1>2, ContendInv DEF OSLockMutex
  <2> QED BY <2>1, Nulls DEF Relock
<1> QED BY <1>1, <1>2 DEF OSLockMutex

\* OSTryLockMutex takes a mutex that is free or the caller's own.
LEMMA TryLockStep ==
  ASSUME IInv, NEW t \in Threads, NEW m \in Mutexes, OSTryLockMutex(t, m)
  PROVE  IInv' /\ Relock
BY AcquireStep DEF OSTryLockMutex

\* OSUnlockMutex lowers the count or frees the mutex at count zero.
LEMMA UnlockStep ==
  ASSUME IInv, NEW t \in Threads, NEW m \in Mutexes, OSUnlockMutex(t, m)
  PROVE  IInv' /\ Relock
<1>1. owner[m] = t /\ waiting' = waiting /\ val' = val
  BY DEF OSUnlockMutex
<1>2. CASE Release(t, m)
  <2>1. /\ owner'[m] = NoThread /\ \A k \in Mutexes \ {m} : owner'[k] = owner[k]
        /\ MutexTypes' /\ FreeCount'
    BY <1>1, <1>2, ReleaseInv DEF IInv, MutexTypes
  <2>2. WantsAnothers'
    BY <1>1, <2>1, Nulls DEF IInv, MutexTypes, WantsAnothers
  <2> QED BY <1>1, <2>1, <2>2 DEF IInv, Relock
<1>3. CASE count' = [count EXCEPT ![m] = @ - 1] /\ UNCHANGED owner
  <2>1. MutexTypes' /\ FreeCount' /\ WantsAnothers'
    BY <1>1, <1>3, Nulls DEF IInv, MutexTypes, FreeCount, WantsAnothers
  <2> QED BY <1>1, <2>1 DEF IInv, Relock
<1> QED BY <1>2, <1>3 DEF OSUnlockMutex

\* OSWaitCond frees the mutex at count zero and waits for it as nobody's.
LEMMA WaitCondStep ==
  ASSUME IInv, NEW t \in Threads, NEW c, NEW m \in Mutexes, OSWaitCond(t, c, m)
  PROVE  IInv' /\ Relock
<1>1. /\ Release(t, m) /\ waiting' = [waiting EXCEPT ![t] = m]
      /\ val' = [val EXCEPT ![t] = count[m]]
  BY DEF OSWaitCond
<1>2. /\ owner'[m] = NoThread /\ \A k \in Mutexes \ {m} : owner'[k] = owner[k]
      /\ MutexTypes' /\ FreeCount'
  BY <1>1, ReleaseInv DEF IInv, MutexTypes
<1>3. WantsAnothers'
  BY <1>1, <1>2, Nulls DEF IInv, MutexTypes, WantsAnothers
<1>4. Relock
  BY <1>1, Nulls DEF IInv, MutexTypes, Relock
<1> QED BY <1>2, <1>3, <1>4 DEF IInv

\* The retried lock.  The mutex was not the thread's own, so it was free and
\* its count zero: the saved depth is what the count becomes.
LEMMA PendingStep ==
  ASSUME IInv, NEW t \in Threads, ProcessPendingLocks(t)
  PROVE  IInv' /\ Relock
<1> DEFINE m == waiting[t]
           n == IF Restores(t, m) THEN val[t] ELSE count[m] + 1
<1>1. m \in Mutexes /\ m # NoMutex /\ owner[m] # t
  BY DEF ProcessPendingLocks, PendingLock, IInv, MutexTypes, WantsAnothers
<1>2. n \in Int /\ val[t] \in Int /\ count[m] \in Int
  BY <1>1 DEF IInv, MutexTypes
<1>3. CASE /\ Lockable(t, m) /\ Acquire(t, m, n)
           /\ waiting' = [waiting EXCEPT ![t] = NoMutex]
           /\ val' = IF Restores(t, m) THEN [val EXCEPT ![t] = DefaultVal] ELSE val
  <2>1. /\ owner'[m] = t /\ count'[m] = n /\ \A k \in Mutexes \ {m} : owner'[k] = owner[k]
        /\ owner' \in [Mutexes -> Threads \cup {NoThread}] /\ count' \in [Mutexes -> Int]
        /\ FreeCount'
    BY <1>1, <1>2, <1>3, AcquireInv
  <2>2. MutexTypes'
    BY <1>3, <2>1 DEF IInv, MutexTypes, DefaultVal
  <2>3. WantsAnothers'
    BY <1>1, <1>3, <2>1 DEF IInv, MutexTypes, WantsAnothers
  <2>4. count[m] = 0
    BY <1>1, <1>3 DEF IInv, FreeCount, Lockable
  <2>5. val[t] > 0 => n = val[t]
    BY <1>2, <2>4 DEF Restores
  <2>6. \A u \in Threads \ {t} : waiting'[u] = waiting[u]
    BY <1>3 DEF IInv, MutexTypes
  <2>7. Relock
    BY <2>1, <2>5, <2>6 DEF Relock
  <2> QED BY <2>1, <2>2, <2>3, <2>7 DEF IInv
<1>4. CASE ~Lockable(t, m) /\ Contend(t, m) /\ UNCHANGED val
  <2>1. IInv' /\ waiting'[t] = m /\ \A u \in Threads \ {t} : waiting'[u] = waiting[u]
    BY <1>1, <1>4, ContendInv
  <2> QED BY <1>1, <2>1 DEF Relock
<1> QED BY <1>3, <1>4 DEF ProcessPendingLocks

\* The calls that touch no mutex.
LEMMA OtherStep ==
  ASSUME IInv, UNCHANGED <<mutexVars, val>>
  PROVE  IInv' /\ Relock
BY DEF mutexVars, IInv, MutexTypes, FreeCount, WantsAnothers, Relock

-----------------------------------------------------------------------------
\* OSThreadInit establishes the invariant.
LEMMA InitInv == Init => IInv
BY DEF Init, IInv, MutexTypes, FreeCount, WantsAnothers, DefaultVal

\* Every call preserves the invariant, and ends a wait only with the lock.
LEMMA NextInv == IInv /\ [Next]_vars => IInv' /\ [Relock]_vars
<1> SUFFICES ASSUME IInv, [Next]_vars PROVE IInv' /\ Relock
  OBVIOUS
<1>1. ASSUME NEW t \in Threads \ {Default}, NEW p \in Priorities, NEW d \in Attributes,
             OSCreateThread(t, p, d)
      PROVE  IInv' /\ Relock
  BY <1>1, CreateStep
<1>2. ASSUME NEW t \in Threads,
             \/ OSResumeThread(t) \/ OSSuspendThread(t) \/ OSYieldThread(t) \/ OSJoinThread(t)
             \/ OSDisableScheduler \/ OSEnableScheduler
             \/ \E w \in WaitQueues : OSSleepThread(t, w)
      PROVE  IInv' /\ Relock
  <2>1. UNCHANGED <<mutexVars, val>>
    BY <1>2 DEF OSResumeThread, OSSuspendThread, OSYieldThread, OSJoinThread,
                OSDisableScheduler, OSEnableScheduler, OSSleepThread
  <2> QED BY <2>1, OtherStep
<1>3. ASSUME NEW w, OSWakeupThread(w) PROVE IInv' /\ Relock
  <2>1. UNCHANGED <<mutexVars, val>>
    BY <1>3 DEF OSWakeupThread
  <2> QED BY <2>1, OtherStep
<1>4. ASSUME NEW t \in Threads \ {Default}, OSCancelThread(t) PROVE IInv' /\ Relock
  <2>1. UnlockAllMutex(t) /\ waiting' = waiting /\ val' = val
    BY <1>4 DEF OSCancelThread
  <2>2. val' \in [Threads -> Int]
    BY <2>1 DEF IInv, MutexTypes
  <2> QED BY <2>1, <2>2, DeathStep
<1>5. ASSUME NEW t \in Threads \ {Default}, NEW v \in ExitValues, OSExitThread(t, v)
      PROVE  IInv' /\ Relock
  <2>1. /\ UnlockAllMutex(t) /\ waiting' = waiting
        /\ val' = IF t \in detached THEN val ELSE [val EXCEPT ![t] = v]
    BY <1>5 DEF OSExitThread
  <2>2. val' \in [Threads -> Int]
    BY <2>1, ThreadsAssumption DEF IInv, MutexTypes
  <2> QED BY <2>1, <2>2, DeathStep
<1>6. CASE UNCHANGED vars
  BY <1>6, OtherStep DEF vars
<1>7. CASE ThreadCall
  BY <1>1, <1>2, <1>3, <1>4, <1>5, <1>7, ThreadsAssumption DEF ThreadCall
<1>8. CASE MutexCall
  BY <1>3, <1>8, LockStep, TryLockStep, UnlockStep, WaitCondStep DEF MutexCall, OSSignalCond
<1>9. CASE \E t \in Threads : ProcessPendingLocks(t)
  BY <1>9, PendingStep
<1> QED BY <1>6, <1>7, <1>8, <1>9 DEF Next

\* The invariant holds in every state: types, FreeCount, and that nobody owns
\* the mutex it has still to lock.
LEMMA Invariance == Spec => []IInv
<1>1. IInv /\ [Next]_vars => IInv'
  BY NextInv
<1> QED BY <1>1, InitInv, PTL DEF Spec

\* A thread comes out of a lock it waited for as the owner of the mutex, and
\* out of OSWaitCond with the depth it went in with, however often it lost the
\* race for the mutex.
THEOREM RelockAlways == Spec => RelockRestoresDepth
<1>1. IInv /\ [Next]_vars => [Relock]_vars
  BY NextInv
<1>2. Spec => [][Relock]_vars
  BY <1>1, Invariance, PTL DEF Spec
<1> QED BY <1>2 DEF RelockRestoresDepth, Relock

-----------------------------------------------------------------------------
(* The scheduler's lists, the mutexes and the sleepers.  The invariant     *)
(* joins what the scheduler's helpers keep exact (see the first part) to   *)
(* the mutex relations: a release leaves no sleeper only because the wake  *)
(* empties the whole queue, whichever threads it dispatches meanwhile.     *)

ListsInv == Exact(sched, {}) /\ Hinted(sched)

ThreadInv == ListsInv /\ TypeOK /\ OwnersListed /\ NoOrphanMutex /\ NoLostWakeup

\* Mutexes are queues to sleep on, and relate as port_UpdatePriority expects.
LEMMA MutexRelationsOK ==
  ASSUME TypeOK
  PROVE  Mutexes \subseteq SleepQueues /\ Relations(MutexRelations)
<1>1. Mutexes \subseteq SleepQueues
  BY ThreadsAssumption
<1>2. \A t \in Threads : ToSet(owned[t]) \subseteq Mutexes
  BY SeqFacts DEF TypeOK
<1> QED
  BY <1>1, <1>2 DEF TypeOK, Relations, MutexRelations, NoMutex

\* The owner that a sleeper depends on takes its effective priority.
LEMMA NotifyExact ==
  ASSUME TypeOK, NEW s, NEW off, Exact(s, off), Lost(s, off), NEW t \in Threads
  PROVE  LET r == NotifyOwner(s, t)
         IN Exact(r, off) /\ SameThreads(s, r) /\ SuspendedKeep(s, r)
<1>1. CASE waiting[t] = NoMutex
  BY <1>1, SameReflexive DEF NotifyOwner, SuspendedKeep
<1>2. CASE waiting[t] # NoMutex
  <2>1. owner[waiting[t]] \in Threads \cup {NoThread}
    BY <1>2 DEF TypeOK
  <2> QED
    BY <1>2, <2>1, MutexRelationsOK, UpdateExact DEF NotifyOwner
<1> QED
  BY <1>1, <1>2

\* What a call that frees no mutex does to the lists.
Quiet == ListsInv' /\ Keeps(sched, sched')

\* The call misses nobody better than the running thread, unless one was missed before or
\* the scheduler is disabled.
Attends == ~Missed(sched) /\ sched'.disabled = 0 => ~Missed(sched')

\* Between two calls no thread is lost.
LEMMA NothingLost == ASSUME NEW s PROVE Lost(s, {})
BY DEF Lost

-----------------------------------------------------------------------------
(* Turns in the helpers of the calls. *)

\* A dispatch that comes first keeps all turns.
LEMMA LastTurns ==
  ASSUME NEW s0, Exact(s0, {}), NEW s, Exact(s, {}), InTurn(s0, s, FALSE), Fresh(s0, s)
  PROVE  InTurn(s0, Reschedule(s), FALSE)
<1>1. FALSE \in BOOLEAN /\ Calm(s0, s)
  BY DEF Calm
<1> QED
  BY <1>1, RescheduleTurns

\* What a helper does to the turns, in a call that begins with it or has moved nobody.
LEMMA TurnedSoFar ==
  ASSUME NEW s0, Exact(s0, {}), NEW s, InTurn(s0, s, FALSE), Fresh(s0, s), NEW r, NEW robbed, Turned(s, r, robbed)
  PROVE  InTurn(s0, r, robbed) /\ (~robbed => Calm(s0, r))
BY DEF Turned

LEMMA TurnedHere ==
  ASSUME NEW s, Exact(s, {}), NEW r, NEW robbed, Turned(s, r, robbed)
  PROVE  InTurn(s, r, robbed) /\ (~robbed => Calm(s, r))
<1>1. SameRuns(s, s)
  BY DEF SameRuns
<1>2. InTurn(s, s, FALSE) /\ Fresh(s, s)
  BY <1>1, SameRunsTurns
<1> QED
  BY <1>2, Zenon DEF Turned

\* A thread that was in no run queue joins one at its end.
LEMMA JoinTurns ==
  ASSUME NEW s0, Exact(s0, {}), NEW s \in SchedulerState, SameRuns(s0, s), NEW t \in Threads,
         s.prio[t] \in Priorities, s0.suspend[t] # 0, NEW r, r = SetRun(s, t)
  PROVE  InTurn(s0, r, FALSE) /\ Fresh(s0, r)
<1> DEFINE p == s.prio[t]
<1>1. p \in Queues /\ \A x \in Priorities : x \in Queues
  BY Kinds
<1>2. r.state = s.state /\ r.q = [s.q EXCEPT ![p] = Append(@, t)]
  BY Fields DEF SetRun, SchedulerState
<1>3. r.q[p] = Append(s.q[p], t) /\ \A x \in Priorities \ {p} : r.q[x] = s.q[x]
  BY <1>1, <1>2, Fields
<1>4. t \notin ToSet(s0.q[p])
  BY InRunQueue
<1> HIDE DEF p
<1>5. Shifted(s0, r)
  <2>1. ASSUME NEW x \in Priorities
        PROVE  \/ r.q[x] = s0.q[x]
               \/ r.q[x] = Append(s0.q[x], t) /\ t \notin ToSet(s0.q[x])
    <3>1. s.q[x] = s0.q[x]
      BY DEF SameRuns
    <3>2. CASE x = p
      BY <1>3, <1>4, <3>1, <3>2
    <3>3. CASE x # p
      BY <1>3, <3>1, <3>3
    <3> QED
      BY <3>2, <3>3
  <2>2. r.state = s0.state
    BY <1>2 DEF SameRuns
  <2> QED
    BY <2>1, <2>2 DEF Shifted
<1> QED
  BY <1>5, TurnsKept

\* A runnable thread leaves its run queue.
LEMMA LeaveTurns ==
  ASSUME NEW s, Exact(s, {}), NEW t \in Threads, s.state[t] = "READY", s.suspend[t] = 0,
         NEW r, r = UnsetRun(s, t)
  PROVE  InTurn(s, r, FALSE) /\ Fresh(s, r)
<1> DEFINE p == s.queue[t]
<1>1. s \in SchedulerState /\ p = s.prio[t] /\ p \in Priorities /\ p \in Queues /\ t \in ToSet(s.q[p])
  BY Kinds DEF Exact, QueueFields, RealPriorities, Live, ListsExact, OnQueue
<1>2. r.state = s.state /\ r.q = [s.q EXCEPT ![p] = RemoveFirst(s.q[p], t)]
  BY <1>1, Fields DEF UnsetRun, SchedulerState
<1>3. \A x \in Priorities : x \in Queues
  BY Kinds
<1>4. r.q[p] = RemoveFirst(s.q[p], t) /\ \A x \in Priorities \ {p} : r.q[x] = s.q[x]
  BY <1>1, <1>2, <1>3, Fields
<1> HIDE DEF p
<1>5. Shifted(s, r)
  <2>1. ASSUME NEW x \in Priorities
        PROVE  \/ r.q[x] = s.q[x]
               \/ r.q[x] = RemoveFirst(s.q[x], t) /\ t \in ToSet(s.q[x])
    <3>1. CASE x = p
      BY <1>1, <1>4, <3>1
    <3>2. CASE x # p
      BY <1>4, <3>2
    <3> QED
      BY <3>1, <3>2
  <2> QED
    BY <1>2, <2>1 DEF Shifted
<1> QED
  BY <1>5, TurnsKept

\* A sleeper that takes another place in its queue is in no run queue.
LEMMA ReorderRuns ==
  ASSUME NEW s, Exact(s, {}), NEW t \in Threads, s.state[t] = "WAITING", NEW p, NEW r, r = Reorder(s, t, p)
  PROVE  SameRuns(s, r)
<1>1. s \in SchedulerState /\ s.queue[t] \in SleepQueues
  BY DEF Exact, QueueFields
<1>2. s.queue[t] \in Queues /\ s.queue[t] # NoQueue /\ s.queue[t] \notin Priorities
  BY <1>1, Kinds
<1> DEFINE us == AddPrio(RemoveFirst(s.q[s.queue[t]], t), t, [s.prio EXCEPT ![t] = p])
<1>3. r.state = s.state /\ r.q = [s.q EXCEPT ![s.queue[t]] = us]
  BY <1>1, <1>2, Fields DEF Reorder, SchedulerState
<1> HIDE DEF us
<1>4. \A x \in Priorities : r.q[x] = s.q[x]
  BY <1>1, <1>2, <1>3, Fields, Kinds
<1> QED
  BY <1>3, <1>4 DEF SameRuns

\* So is one that a handler takes out of its queue.
LEMMA UnlinkRuns ==
  ASSUME NEW s, Exact(s, {}), NEW t \in Threads, s.state[t] = "WAITING",
         NEW r, r = [s EXCEPT !.q[s.queue[t]] = RemoveFirst(@, t), !.queue[t] = NoQueue]
  PROVE  SameRuns(s, r)
<1>1. s \in SchedulerState /\ s.queue[t] \in SleepQueues
  BY DEF Exact, QueueFields
<1>2. s.queue[t] \in Queues /\ s.queue[t] \notin Priorities
  BY <1>1, Kinds
<1> DEFINE us == RemoveFirst(s.q[s.queue[t]], t)
<1>3. r.state = s.state /\ r.q = [s.q EXCEPT ![s.queue[t]] = us]
  BY <1>1, <1>2, Fields DEF SchedulerState
<1> HIDE DEF us
<1>4. \A x \in Priorities : r.q[x] = s.q[x]
  BY <1>1, <1>2, <1>3, Fields, Kinds
<1> QED
  BY <1>3, <1>4 DEF SameRuns

\* A walk from the owner that a sleeper depends on keeps all turns.
LEMMA NotifyTurns ==
  ASSUME TypeOK, NEW s0, Exact(s0, {}), NEW s, SameRuns(s0, s), NEW off, Exact(s, off), Lost(s, off),
         NEW t \in Threads, NEW r, r = NotifyOwner(s, t)
  PROVE  InTurn(s0, r, FALSE) /\ Fresh(s0, r)
<1>1. CASE waiting[t] = NoMutex
  BY <1>1, SameRunsTurns DEF NotifyOwner
<1>2. CASE waiting[t] # NoMutex
  <2>1. owner[waiting[t]] \in Threads \cup {NoThread} /\ Relations(MutexRelations)
    BY <1>2, MutexRelationsOK DEF TypeOK
  <2> QED
    BY <1>2, <2>1, UpdateTurns DEF NotifyOwner
<1> QED
  BY <1>1, <1>2

\* Falling back from an inherited priority moves nobody.
LEMMA DropRuns ==
  ASSUME NEW s \in SchedulerState, NEW t, NEW still PROVE SameRuns(s, DropInherited(s, t, still))
<1> DEFINE p == EffectivePriority(s, still, t)
<1>1. DropInherited(s, t, still) \in {s, [s EXCEPT !.prio[t] = p]}
  BY DEF DropInherited
<1> HIDE DEF p
<1> QED
  BY <1>1, Fields DEF SameRuns, SchedulerState

-----------------------------------------------------------------------------
(* The calls that free no mutex. *)

\* OSCreateThread keeps the lists.
LEMMA CreateLists ==
  ASSUME ThreadInv, NEW t \in Threads, NEW p \in Priorities, NEW d, OSCreateThread(t, p, d)
  PROVE  /\ ListsInv' /\ \A u \in Threads : sched.state[u] \in Live => sched'.state[u] \in Live
         /\ \A w \in SleepQueues : sched'.q[w] = sched.q[w]
         /\ Attends /\ InTurn(sched, sched', FALSE)
<1> DEFINE r == [sched EXCEPT !.state[t] = "READY", !.base[t] = p, !.prio[t] = p,
                              !.suspend[t] = 1, !.queue[t] = NoQueue]
<1>1. /\ Exact(sched, {}) /\ Hinted(sched) /\ sched \in SchedulerState
      /\ sched.state[t] = "INACTIVE" /\ sched' = r
  BY DEF ThreadInv, ListsInv, Exact, OSCreateThread
<1>2. /\ r.cur = sched.cur /\ r.bits = sched.bits /\ r.q = sched.q /\ r.hint = sched.hint
      /\ r.state = [sched.state EXCEPT ![t] = "READY"] /\ r.base = [sched.base EXCEPT ![t] = p]
      /\ r.prio = [sched.prio EXCEPT ![t] = p] /\ r.suspend = [sched.suspend EXCEPT ![t] = 1]
      /\ r.queue = [sched.queue EXCEPT ![t] = NoQueue]
  BY <1>1, Fields DEF SchedulerState
<1>3. r \in SchedulerState
  BY <1>1, Fields DEF SchedulerState, Live
<1>4. /\ r.state[t] = "READY" /\ r.suspend[t] = 1 /\ r.prio[t] = p
      /\ \A u \in Threads \ {t} : /\ r.state[u] = sched.state[u] /\ r.suspend[u] = sched.suspend[u]
                                 /\ r.prio[u] = sched.prio[u] /\ r.queue[u] = sched.queue[u]
  BY <1>1, <1>2, Fields
<1> HIDE DEF r
<1>5. OnlyCurrentRuns(r) /\ ~OnQueue(sched, t) /\ ~OnQueue(r, t)
  BY <1>1, <1>2, <1>4 DEF OnlyCurrentRuns, OnQueue, Exact
<1>6. OthersSame(sched, r, t) /\ r.suspend[t] # 0
  BY <1>2, <1>4 DEF OthersSame
<1>7. Exact(r, {})
  BY <1>1, <1>3, <1>5, <1>6, IdleExact
<1>8. Hinted(r)
  BY <1>1, <1>2, <1>4 DEF Hinted
<1>9. ~Missed(sched) => ~Missed(r)
  <2>1. sched.cur # NoThread /\ sched.state[sched.cur] = "RUNNING" => sched.cur \in Threads \ {t}
    BY <1>1, Fields
  <2> QED
    BY <1>2, <1>4, <2>1, HeedsCalm
<1>10. InTurn(sched, r, FALSE)
  <2>1. Shifted(sched, r)
    BY <1>1, <1>2, <1>4 DEF Shifted
  <2> QED
    BY <1>1, <2>1, TurnsKept
<1> QED
  BY <1>1, <1>2, <1>4, <1>7, <1>8, <1>9, <1>10 DEF ListsInv, Live, Attends

\* b is s but for the suspend count and the priority of t.
Recast(s, b, t, n, p) ==
  /\ b.base = s.base /\ b.fault = s.fault
  /\ \A u \in Threads : b.state[u] \in Live <=> s.state[u] \in Live
  /\ s.state[t] = "WAITING" => b.state[t] = "WAITING"
  /\ \A w \in SleepQueues : ToSet(b.q[w]) = ToSet(s.q[w])
  /\ b.suspend[t] = n /\ b.prio[t] = p
  /\ \A u \in Threads \ {t} : b.suspend[u] = s.suspend[u] /\ b.prio[u] = s.prio[u]

\* The call recasts t, tells the owner that t waits for where it must, and dispatches.
Recasts(t, n, p, told) ==
  \E b : /\ Exact(b, {}) /\ Recast(sched, b, t, n, p)
        /\ LET r == IF told THEN NotifyOwner(b, t) ELSE b IN Keeps(r, sched') /\ Steady(r, sched')

\* OSResumeThread: whatever the thread does, it comes back with the priority it deserves.
LEMMA ResumeLists ==
  ASSUME ThreadInv, NEW t \in Threads, OSResumeThread(t), NEW told,
         told = (sched.suspend[t] = 1 /\ sched.state[t] = "WAITING")
  PROVE  /\ Quiet /\ Attends /\ InTurn(sched, sched', FALSE)
         /\ Recasts(t, Lower(sched.suspend[t]),
                    IF sched.suspend[t] = 1 THEN EffectivePriority(sched, owned, t) ELSE sched.prio[t],
                    told)
<1> DEFINE s == [sched EXCEPT !.suspend[t] = Lower(@)]
           p == EffectivePriority(s, owned, t)
<1>1. /\ Exact(sched, {}) /\ Hinted(sched) /\ sched \in SchedulerState /\ TypeOK
      /\ sched.state[t] \in Live /\ sched.suspend[t] \in Nat
  BY Fields DEF ThreadInv, ListsInv, Exact, OSResumeThread
<1>2. /\ s.cur = sched.cur /\ s.bits = sched.bits /\ s.q = sched.q /\ s.hint = sched.hint
      /\ s.state = sched.state /\ s.base = sched.base /\ s.prio = sched.prio /\ s.queue = sched.queue
      /\ s.suspend = [sched.suspend EXCEPT ![t] = Lower(@)] /\ s.fault = sched.fault
  BY <1>1, Fields DEF SchedulerState
<1>3. sched' = IF sched.suspend[t] # 1 THEN s
               ELSE Reschedule(
                   CASE s.state[t] = "READY"   -> SetRun([s EXCEPT !.prio[t] = p], t)
                     [] s.state[t] = "WAITING" -> NotifyOwner(Reorder(s, t, p), t)
                     [] OTHER                  -> s)
  BY DEF OSResumeThread
<1>4. CASE sched.suspend[t] # 1
  <2> DEFINE n == Lower(sched.suspend[t])
  <2>1. n \in Nat /\ (n = 0 <=> sched.suspend[t] = 0) /\ s = [sched EXCEPT !.suspend[t] = n]
    BY <1>1, <1>4 DEF Lower
  <2>2. s.suspend[t] = n /\ \A u \in Threads \ {t} : s.suspend[u] = sched.suspend[u]
    BY <1>1, <1>2, Fields
  <2> HIDE DEF n
  <2>3. Exact(s, {})
    BY <1>1, <2>1, CountExact
  <2>4. Quiet
    BY <1>1, <1>2, <1>3, <1>4, <2>3 DEF Quiet, ListsInv, Hinted, Keeps
  <2> HIDE DEF s
  <2>7. Attends
    BY <1>2, <1>3, <1>4, HeedsCalm DEF Attends
  <2>5. Recast(sched, s, t, n, sched.prio[t]) /\ ~told
    BY <1>2, <1>4, <2>2 DEF Recast
  <2>6. Recasts(t, n, sched.prio[t], told)
    BY <1>3, <1>4, <2>3, <2>5 DEF Recasts, Keeps, Steady, SameRanks
  <2>8. InTurn(sched, sched', FALSE)
    BY <1>1, <1>2, <1>3, <1>4, SameRunsTurns DEF SameRuns
  <2> QED
    BY <1>4, <2>4, <2>6, <2>7, <2>8 DEF n
<1>5. CASE sched.suspend[t] = 1
  <2>1. s = [sched EXCEPT !.suspend[t] = 0] /\ Lower(sched.suspend[t]) = 0
    BY <1>5 DEF Lower
  <2>5. p = EffectivePriority(sched, owned, t)
    <3> HIDE DEF s
    <3> QED
      BY <1>2 DEF EffectivePriority
  <2>2. p \in Priorities
    <3>2. ToSet(owned[t]) \subseteq SleepQueues
      BY <1>1, MutexRelationsOK, SeqFacts DEF TypeOK
    <3> HIDE DEF p
    <3> QED
      BY <1>1, <2>5, <3>2, EffectiveIsReal
  <2> HIDE DEF p
  <2>6. SUFFICES Quiet /\ Attends /\ InTurn(sched, sched', FALSE) /\ Recasts(t, 0, p, told)
    BY <1>5, <2>1, <2>5
  <2>3. CASE sched.state[t] = "READY"
    <3> DEFINE b == [s EXCEPT !.prio[t] = p]
               r == SetRun(b, t)
    <3>1. /\ b.cur = sched.cur /\ b.bits = sched.bits /\ b.q = sched.q /\ b.hint = sched.hint
          /\ b.state = sched.state /\ b.queue = sched.queue
          /\ b.base = sched.base /\ b.fault = sched.fault
          /\ b.prio = [sched.prio EXCEPT ![t] = p] /\ b.suspend = [sched.suspend EXCEPT ![t] = 0]
      BY <1>1, <2>1, Fields DEF SchedulerState
    <3>2. b \in SchedulerState
      <4>1. b = [sched EXCEPT !.suspend[t] = 0, !.prio[t] = p]
        BY <1>1, <2>1, Fields DEF SchedulerState
      <4> HIDE DEF b
      <4> QED
        BY <1>1, <2>2, <4>1, Fields DEF SchedulerState
    <3>3. /\ b.prio[t] = p /\ b.suspend[t] = 0
          /\ \A u \in Threads \ {t} : b.prio[u] = sched.prio[u] /\ b.suspend[u] = sched.suspend[u]
      BY <1>1, <3>1, Fields
    <3> HIDE DEF b
    <3>4. OnlyCurrentRuns(b) /\ ~OnQueue(sched, t)
      BY <1>1, <1>5, <2>3, <3>1, <3>3 DEF OnlyCurrentRuns, OnQueue, Exact
    <3>5. Exact(b, {} \cup {t})
      BY <1>1, <2>2, <3>1, <3>2, <3>3, <3>4, ThreadExact
    <3>6. Exact(r, ({} \cup {t}) \ {t}) /\ SameThreads(b, r) /\ Steady(b, r) /\ r.hint
      <4>1. b.state[t] = "READY" /\ b.suspend[t] = 0 /\ t \in {} \cup {t}
        BY <2>3, <3>1, <3>3
      <4> QED
        BY <3>5, <4>1, SetRunExact
    <3>7. ({} \cup {t}) \ {t} = {}
      OBVIOUS
    <3>8. Hinted(b) /\ Keeps(sched, b)
      BY <1>1, <3>1 DEF Hinted, Keeps
    <3>9. sched' = Reschedule(r)
      BY <1>2, <1>3, <1>5, <2>3 DEF b
    <3> HIDE DEF r
    <3>10. Exact(r, {}) /\ Hinted(r) /\ Keeps(sched, r)
      BY <3>6, <3>7, <3>8, SameHinted, SameKeeps, KeepsTransitive
    <3>11. Exact(sched', {}) /\ (Hinted(r) => Hinted(sched')) /\ Keeps(r, sched') /\ Steady(r, sched')
      BY <3>9, <3>10, RescheduleExact
    <3>12. Quiet
      BY <3>10, <3>11, KeepsTransitive DEF Quiet, ListsInv
    <3>13. Recast(sched, r, t, 0, p) /\ ~told
      <4>1. ~told
        BY <2>3
      <4>2. /\ r.state = sched.state /\ r.base = sched.base /\ r.fault = sched.fault
            /\ r.prio = b.prio /\ r.suspend = b.suspend
        BY <3>1, <3>6 DEF SamePlaces, SameThreads, Steady, SameRanks
      <4>3. \A w \in SleepQueues : ToSet(r.q[w]) = ToSet(sched.q[w])
        BY <3>1, <3>6 DEF SamePlaces, SameThreads
      <4> QED
        BY <3>3, <4>1, <4>2, <4>3 DEF Recast
    <3>14. Attends
      BY <3>6, <3>9, <3>10, RescheduleExact DEF Attends, Alert
    <3>15. InTurn(sched, sched', FALSE)
      <4>1. SameRuns(sched, b) /\ b.prio[t] \in Priorities /\ sched.suspend[t] # 0
        BY <1>5, <2>2, <3>1, <3>3 DEF SameRuns
      <4>2. InTurn(sched, r, FALSE) /\ Fresh(sched, r)
        BY <1>1, <3>2, <4>1, JoinTurns DEF r
      <4> QED
        BY <1>1, <3>9, <3>10, <4>2, LastTurns
    <3> QED
      BY <3>10, <3>11, <3>12, <3>13, <3>14, <3>15 DEF Recasts
  <2>4. CASE sched.state[t] = "WAITING"
    <3> DEFINE a == Reorder(sched, t, p)
               b == [a EXCEPT !.suspend[t] = 0]
               r == NotifyOwner(b, t)
    <3>1. Exact(a, {}) /\ SameThreads(sched, a) /\ a \in SchedulerState
      <4>1. t \in Threads \ {} /\ p \in Priorities \cup {Suspended}
        BY <2>2
      <4>2. Exact(a, {}) /\ SameThreads(sched, a)
        BY <1>1, <1>5, <2>2, <2>4, <4>1, ReorderExact
      <4> QED
        BY <4>2 DEF Exact
    <3>2. sched.queue[t] # NoQueue
      BY <1>1, <2>4, Kinds DEF Exact, QueueFields
    <3>3. /\ a.prio[t] = p /\ a.fault = sched.fault
          /\ \A u \in Threads \ {t} : a.prio[u] = sched.prio[u]
      BY <1>1, <3>2, Fields DEF Reorder, SchedulerState
    <3>4. b = Reorder(s, t, p)
      BY <1>1, <2>1, <3>2, Fields DEF Reorder, SchedulerState
    <3> HIDE DEF a
    <3>5. Exact(b, {})
      BY <2>2, <2>4, <3>1, <3>3, CountExact DEF SamePlaces, SameThreads
    <3>6. /\ b.cur = a.cur /\ b.hint = a.hint /\ b.state = a.state /\ b.q = a.q /\ b.bits = a.bits
          /\ b.base = a.base /\ b.fault = a.fault /\ b.prio = a.prio
          /\ b.suspend[t] = 0 /\ \A u \in Threads \ {t} : b.suspend[u] = a.suspend[u]
      BY <3>1, Fields DEF SchedulerState
    <3>7. Hinted(b) /\ Keeps(sched, b)
      BY <1>1, <3>1, <3>6 DEF Hinted, Keeps, SamePlaces, SameThreads
    <3>8. Exact(r, {}) /\ SameThreads(b, r)
      <4> HIDE DEF b
      <4> QED
        BY <1>1, <3>5, NothingLost, NotifyExact
    <3>9. sched' = Reschedule(r)
      BY <1>2, <1>3, <1>5, <2>4, <3>4
    <3> HIDE DEF r, b
    <3>10. Exact(r, {}) /\ Hinted(r) /\ Keeps(sched, r)
      BY <3>7, <3>8, SameHinted, SameKeeps, KeepsTransitive
    <3>11. Exact(sched', {}) /\ (Hinted(r) => Hinted(sched')) /\ Keeps(r, sched') /\ Steady(r, sched')
      BY <3>9, <3>10, RescheduleExact
    <3>12. Quiet
      BY <3>10, <3>11, KeepsTransitive DEF Quiet, ListsInv
    <3>13. Recast(sched, b, t, 0, p) /\ told
      <4>1. told
        BY <1>5, <2>4
      <4>2. b.state = sched.state /\ b.base = sched.base /\ b.fault = sched.fault
        BY <3>1, <3>3, <3>6 DEF SamePlaces, SameThreads
      <4>3. \A w \in SleepQueues : ToSet(b.q[w]) = ToSet(sched.q[w])
        BY <3>1, <3>6 DEF SamePlaces, SameThreads
      <4>4. \A u \in Threads \ {t} : b.suspend[u] = sched.suspend[u] /\ b.prio[u] = sched.prio[u]
        BY <3>1, <3>3, <3>6 DEF SamePlaces, SameThreads
      <4> QED
        BY <3>3, <3>6, <4>1, <4>2, <4>3, <4>4 DEF Recast
    <3>14. Attends
      <4>1. Heeds(a, b)
        BY <3>6, HeedsCalm
      <4>2. Heeds(sched, r)
        BY <3>1, <3>8, <4>1, HeedsTransitive DEF SameThreads
      <4> QED
        BY <3>9, <3>10, <4>2, RescheduleExact DEF Attends, Heeds, Alert
    <3>15. InTurn(sched, sched', FALSE)
      <4>1. SameRuns(sched, a)
        BY <1>1, <2>4, ReorderRuns DEF a
      <4>2. SameRuns(sched, b)
        BY <3>6, <4>1 DEF SameRuns
      <4>3. InTurn(sched, r, FALSE) /\ Fresh(sched, r)
        BY <1>1, <3>5, <4>2, NothingLost, NotifyTurns DEF r
      <4> QED
        BY <1>1, <3>9, <3>10, <4>3, LastTurns
    <3> QED
      BY <3>5, <3>11, <3>12, <3>13, <3>14, <3>15 DEF Recasts, r
  <2>7. sched.state[t] \in {"READY", "WAITING"}
    BY <1>1, <1>5 DEF Exact, OnlyCurrentRuns, Live
  <2> QED
    BY <2>3, <2>4, <2>7
<1> QED
  BY <1>4, <1>5

\* OSSuspendThread: a thread that could run leaves its run queue, a sleeper goes behind
\* every other of its queue.
LEMMA SuspendLists ==
  ASSUME ThreadInv, NEW t \in Threads, OSSuspendThread(t), NEW told,
         told = (sched.suspend[t] = 0 /\ sched.state[t] = "WAITING")
  PROVE  /\ Quiet /\ Attends /\ InTurn(sched, sched', FALSE)
         /\ Recasts(t, sched.suspend[t] + 1, IF told THEN Suspended ELSE sched.prio[t], told)
<1> DEFINE s == [sched EXCEPT !.suspend[t] = @ + 1]
<1>1. /\ Exact(sched, {}) /\ Hinted(sched) /\ sched \in SchedulerState /\ TypeOK
      /\ sched.state[t] \in Live /\ sched.suspend[t] \in Nat
  BY Fields DEF ThreadInv, ListsInv, Exact, OSSuspendThread
<1>2. /\ s.cur = sched.cur /\ s.bits = sched.bits /\ s.q = sched.q /\ s.hint = sched.hint
      /\ s.state = sched.state /\ s.base = sched.base /\ s.prio = sched.prio /\ s.queue = sched.queue
      /\ s.suspend = [sched.suspend EXCEPT ![t] = @ + 1] /\ s.fault = sched.fault
  BY <1>1, Fields DEF SchedulerState
<1>3. sched' = IF sched.suspend[t] > 0 THEN s
               ELSE Reschedule(
                   CASE s.state[t] = "RUNNING" -> [s EXCEPT !.hint = TRUE, !.state[t] = "READY"]
                     [] s.state[t] = "READY"   -> UnsetRun(s, t)
                     [] s.state[t] = "WAITING" -> NotifyOwner(Reorder(s, t, Suspended), t))
  BY DEF OSSuspendThread
<1>4. CASE sched.suspend[t] > 0
  <2> DEFINE n == sched.suspend[t] + 1
  <2>1. n \in Nat /\ (n = 0 <=> sched.suspend[t] = 0) /\ s = [sched EXCEPT !.suspend[t] = n]
    BY <1>1, <1>4
  <2>2. s.suspend[t] = n /\ \A u \in Threads \ {t} : s.suspend[u] = sched.suspend[u]
    BY <1>1, <1>2, Fields
  <2> HIDE DEF n
  <2>3. Exact(s, {})
    BY <1>1, <2>1, CountExact
  <2>4. Quiet
    BY <1>1, <1>2, <1>3, <1>4, <2>3 DEF Quiet, ListsInv, Hinted, Keeps
  <2> HIDE DEF s
  <2>7. Attends
    BY <1>2, <1>3, <1>4, HeedsCalm DEF Attends
  <2>5. Recast(sched, s, t, n, sched.prio[t])
    BY <1>2, <2>2 DEF Recast
  <2>0. ~told
    <3>1. sched.suspend[t] # 0
      BY <1>1, <1>4
    <3> QED
      BY <3>1
  <2>6. Recasts(t, n, sched.prio[t], told)
    BY <1>3, <1>4, <2>0, <2>3, <2>5 DEF Recasts, Keeps, Steady, SameRanks
  <2>8. InTurn(sched, sched', FALSE)
    BY <1>1, <1>2, <1>3, <1>4, SameRunsTurns DEF SameRuns
  <2> QED
    BY <2>0, <2>4, <2>5, <2>6, <2>7, <2>8 DEF n
<1>5. CASE sched.suspend[t] = 0
  <2>1. s = [sched EXCEPT !.suspend[t] = 1] /\ sched.suspend[t] + 1 = 1
    BY <1>5
  <2>5. SUFFICES /\ Quiet /\ Attends /\ InTurn(sched, sched', FALSE)
                 /\ Recasts(t, 1, IF told THEN Suspended ELSE sched.prio[t], told)
    BY <2>1
  <2>2. CASE sched.state[t] = "RUNNING"
    <3> DEFINE r == [s EXCEPT !.hint = TRUE, !.state[t] = "READY"]
    <3>1. /\ r.cur = sched.cur /\ r.bits = sched.bits /\ r.q = sched.q /\ r.hint = TRUE
          /\ r.state = [sched.state EXCEPT ![t] = "READY"] /\ r.queue = sched.queue
          /\ r.prio = sched.prio /\ r.suspend = [sched.suspend EXCEPT ![t] = 1]
          /\ r.base = sched.base /\ r.fault = sched.fault
      BY <1>1, <2>1, Fields DEF SchedulerState
    <3>2. r \in SchedulerState
      <4>1. r = [sched EXCEPT !.suspend[t] = 1, !.hint = TRUE, !.state[t] = "READY"]
        BY <1>1, <2>1, Fields DEF SchedulerState
      <4> HIDE DEF r
      <4> QED
        BY <1>1, <4>1, Fields DEF SchedulerState, Live
    <3>3. /\ r.state[t] = "READY" /\ r.suspend[t] = 1
          /\ \A u \in Threads \ {t} : r.state[u] = sched.state[u] /\ r.suspend[u] = sched.suspend[u]
      BY <1>1, <3>1, Fields
    <3> HIDE DEF r
    <3>4. OnlyCurrentRuns(r) /\ ~OnQueue(sched, t) /\ ~OnQueue(r, t)
      BY <1>1, <2>2, <3>1, <3>3 DEF OnlyCurrentRuns, OnQueue, Exact
    <3>5. OthersSame(sched, r, t) /\ r.suspend[t] # 0
      BY <3>1, <3>3 DEF OthersSame
    <3>6. Exact(r, {})
      BY <1>1, <3>2, <3>4, <3>5, IdleExact
    <3>7. Hinted(r) /\ Keeps(sched, r)
      BY <2>2, <3>1, <3>3 DEF Hinted, Keeps, Live
    <3>8. sched' = Reschedule(r)
      BY <1>2, <1>3, <1>5, <2>2 DEF r
    <3>9. Exact(sched', {}) /\ (Hinted(r) => Hinted(sched')) /\ Keeps(r, sched') /\ Steady(r, sched')
      BY <3>6, <3>8, RescheduleExact
    <3>10. Quiet
      BY <3>7, <3>9, KeepsTransitive DEF Quiet, ListsInv
    <3>11. Recast(sched, r, t, 1, sched.prio[t]) /\ ~told
      BY <2>2, <3>1, <3>3, <3>7 DEF Recast, Keeps
    <3>12. Attends
      BY <3>1, <3>6, <3>8, RescheduleExact DEF Attends, Alert
    <3>13. InTurn(sched, sched', FALSE)
      <4>1. Shifted(sched, r)
        BY <3>1, <3>3 DEF Shifted
      <4> QED
        BY <1>1, <3>6, <3>8, <4>1, TurnsKept, LastTurns
    <3> QED
      BY <3>6, <3>9, <3>10, <3>11, <3>12, <3>13 DEF Recasts
  <2>3. CASE sched.state[t] = "READY"
    <3> DEFINE a == UnsetRun(sched, t)
               r == [a EXCEPT !.suspend[t] = 1]
    <3>1. /\ Exact(a, {} \cup {t}) /\ SameThreads(sched, a) /\ a \in SchedulerState
          /\ a.prio = sched.prio
      BY <1>1, <1>5, <2>3, UnsetRunExact DEF Exact
    <3>0. a.fault = sched.fault
      BY <1>1, Fields DEF UnsetRun, SchedulerState
    <3>2. r = UnsetRun(s, t)
      BY <1>1, <2>1, Fields, ZenonT(40) DEF UnsetRun, SchedulerState
    <3> HIDE DEF a
    <3>3. /\ r.cur = a.cur /\ r.bits = a.bits /\ r.q = a.q /\ r.hint = a.hint
          /\ r.state = a.state /\ r.queue = a.queue
          /\ r.prio = a.prio /\ r.suspend = [a.suspend EXCEPT ![t] = 1]
          /\ r.base = a.base /\ r.fault = a.fault
      BY <3>1, Fields DEF SchedulerState
    <3>4. r \in SchedulerState
      BY <3>1, Fields DEF SchedulerState
    <3>5. /\ r.state[t] = "READY" /\ r.suspend[t] = 1
          /\ \A u \in Threads \ {t} : r.suspend[u] = a.suspend[u]
      BY <2>3, <3>1, <3>3, Fields DEF SamePlaces, SameThreads
    <3> HIDE DEF r
    <3>6. OnlyCurrentRuns(r) /\ ~OnQueue(r, t)
      BY <3>1, <3>3, <3>5 DEF OnlyCurrentRuns, OnQueue, Exact
    <3>7. OthersSame(a, r, t) /\ r.suspend[t] # 0
      BY <3>3, <3>5 DEF OthersSame
    <3>8. Exact(r, {})
      BY <3>1, <3>4, <3>6, <3>7, IdleExact
    <3>9. Hinted(r) /\ Keeps(sched, r)
      BY <1>1, <3>1, <3>3 DEF Hinted, Keeps, SamePlaces, SameThreads
    <3>10. sched' = Reschedule(r)
      BY <1>2, <1>3, <1>5, <2>3, <3>2
    <3>11. Exact(sched', {}) /\ (Hinted(r) => Hinted(sched')) /\ Keeps(r, sched') /\ Steady(r, sched')
      BY <3>8, <3>10, RescheduleExact
    <3>12. Quiet
      BY <3>9, <3>11, KeepsTransitive DEF Quiet, ListsInv
    <3>13. Recast(sched, r, t, 1, sched.prio[t]) /\ ~told
      <4>1. ~told
        BY <2>3
      <4>2. /\ r.state = sched.state /\ r.base = sched.base /\ r.fault = sched.fault
            /\ r.prio = sched.prio
        BY <3>0, <3>1, <3>3 DEF SamePlaces, SameThreads
      <4>3. \A w \in SleepQueues : ToSet(r.q[w]) = ToSet(sched.q[w])
        BY <3>1, <3>3 DEF SamePlaces, SameThreads
      <4>4. \A u \in Threads \ {t} : r.suspend[u] = sched.suspend[u]
        BY <3>1, <3>5 DEF SamePlaces, SameThreads
      <4> QED
        BY <3>5, <4>1, <4>2, <4>3, <4>4 DEF Recast
    <3>14. Attends
      <4>1. Heeds(a, r)
        BY <3>3, HeedsCalm
      <4>2. Heeds(sched, r)
        BY <3>1, <4>1, HeedsTransitive DEF SameThreads
      <4> QED
        BY <3>8, <3>10, <4>2, RescheduleExact DEF Attends, Heeds, Alert
    <3>15. InTurn(sched, sched', FALSE)
      <4>1. InTurn(sched, a, FALSE) /\ Fresh(sched, a)
        BY <1>1, <1>5, <2>3, LeaveTurns DEF a
      <4>2. (\A z \in Priorities : r.q[z] = a.q[z]) /\ r.state = a.state
        BY <3>3
      <4>3. InTurn(sched, r, FALSE) /\ Fresh(sched, r)
        BY <1>1, <4>1, <4>2, TurnsMoved
      <4> QED
        BY <1>1, <3>8, <3>10, <4>3, LastTurns
    <3> QED
      BY <3>8, <3>11, <3>12, <3>13, <3>14, <3>15 DEF Recasts
  <2>4. CASE sched.state[t] = "WAITING"
    <3> DEFINE a == Reorder(s, t, Suspended)
               r == NotifyOwner(a, t)
    <3>1. Exact(s, {})
      <4>1. /\ Exact(sched, {}) /\ 1 \in Nat
            /\ sched.state[t] = "WAITING" /\ (1 = 0 => sched.prio[t] \in Priorities)
        BY <1>1, <2>4
      <4> HIDE DEF s
      <4> QED
        BY <2>1, <4>1, CountExact
    <3>2. /\ s.state[t] = "WAITING" /\ s.suspend[t] # 0 /\ s.suspend[t] = 1
          /\ \A u \in Threads \ {t} : s.suspend[u] = sched.suspend[u]
      BY <1>1, <1>2, <1>5, <2>1, <2>4, Fields
    <3>3. Hinted(s) /\ Keeps(sched, s) /\ Heeds(sched, s)
      BY <1>1, <1>2, HeedsCalm DEF Hinted, Keeps
    <3> HIDE DEF s
    <3>4. Exact(a, {}) /\ SameThreads(s, a)
      BY <3>1, <3>2, ReorderExact
    <3>8. s \in SchedulerState /\ s.queue[t] # NoQueue
      BY <3>1, <3>2, Kinds DEF Exact, QueueFields
    <3>9. /\ a.prio[t] = Suspended /\ a.fault = s.fault
          /\ \A u \in Threads \ {t} : a.prio[u] = s.prio[u]
      BY <3>8, Fields DEF Reorder, SchedulerState
    <3> HIDE DEF a
    <3>5. Exact(r, {}) /\ SameThreads(a, r)
      BY <1>1, <3>4, NothingLost, NotifyExact
    <3>6. sched' = Reschedule(r)
      BY <1>2, <1>3, <1>5, <2>4 DEF a
    <3> HIDE DEF r
    <3>7. Exact(r, {}) /\ Hinted(r) /\ Keeps(sched, r)
      BY <3>3, <3>4, <3>5, SameHinted, SameKeeps, SameTransitive, KeepsTransitive
    <3>10. Exact(sched', {}) /\ (Hinted(r) => Hinted(sched')) /\ Keeps(r, sched') /\ Steady(r, sched')
      BY <3>6, <3>7, RescheduleExact
    <3>11. Quiet
      BY <3>7, <3>10, KeepsTransitive DEF Quiet, ListsInv
    <3>12. Recast(sched, a, t, 1, Suspended) /\ told
      <4>1. told
        BY <1>5, <2>4
      <4>2. a.state = sched.state /\ a.base = sched.base /\ a.fault = sched.fault
        BY <1>2, <3>4, <3>9 DEF SamePlaces, SameThreads
      <4>3. \A w \in SleepQueues : ToSet(a.q[w]) = ToSet(sched.q[w])
        BY <1>2, <3>4 DEF SamePlaces, SameThreads
      <4>4. /\ a.suspend[t] = 1
            /\ \A u \in Threads \ {t} : a.suspend[u] = sched.suspend[u] /\ a.prio[u] = sched.prio[u]
        BY <1>2, <3>2, <3>4, <3>9 DEF SamePlaces, SameThreads
      <4> QED
        BY <3>9, <4>1, <4>2, <4>3, <4>4 DEF Recast
    <3>13. Attends
      <4>1. Heeds(sched, r)
        BY <3>3, <3>4, <3>5, HeedsTransitive DEF SameThreads
      <4> QED
        BY <3>6, <3>7, <4>1, RescheduleExact DEF Attends, Heeds, Alert
    <3>14. InTurn(sched, sched', FALSE)
      <4>1. SameRuns(s, a)
        BY <3>1, <3>2, ReorderRuns DEF a
      <4>2. SameRuns(sched, a)
        BY <1>2, <4>1 DEF SameRuns
      <4>3. InTurn(sched, r, FALSE) /\ Fresh(sched, r)
        BY <1>1, <3>4, <4>2, NothingLost, NotifyTurns DEF r
      <4> QED
        BY <1>1, <3>6, <3>7, <4>3, LastTurns
    <3> QED
      BY <3>4, <3>10, <3>11, <3>12, <3>13, <3>14 DEF Recasts, r
  <2> QED
    BY <1>1, <2>2, <2>3, <2>4 DEF Live
<1>6. sched.suspend[t] > 0 \/ sched.suspend[t] = 0
  BY <1>1
<1> QED
  BY <1>4, <1>5, <1>6

\* The calls that are one helper of the scheduler.
LEMMA SleepLists ==
  ASSUME ThreadInv, NEW t \in Threads, NEW w \in WaitQueues, OSSleepThread(t, w)
  PROVE  /\ ListsInv' /\ \A u \in Threads : sched'.state[u] \in Live <=> sched.state[u] \in Live
         /\ (\A v \in SleepQueues \ {w} : ToSet(sched'.q[v]) \subseteq ToSet(sched.q[v]))
         /\ Attends /\ InTurn(sched, sched', FALSE)
<1>1. /\ Exact(sched, {}) /\ sched.cur = t /\ sched.state[t] = "RUNNING"
      /\ sched' = SleepThread(sched, w)
  BY DEF ThreadInv, ListsInv, OSSleepThread, Program, Running
<1>2. w \in SleepQueues
  BY ThreadsAssumption
<1> QED
  BY <1>1, <1>2, SleepExact, TurnedHere DEF ListsInv, Attends

\* OSWakeupThread keeps the lists.
LEMMA WakeupLists ==
  ASSUME ThreadInv, NEW w \in WaitQueues \cup Conds, OSWakeupThread(w)
  PROVE  Quiet /\ Attends /\ InTurn(sched, sched', FALSE)
<1>1. w \in SleepQueues
  BY ThreadsAssumption
<1>2. Exact(sched, {}) /\ sched' = WakeupThread(sched, w) /\ FALSE \in BOOLEAN
  BY DEF ThreadInv, ListsInv, OSWakeupThread
<1>3. Turned(sched, sched', FALSE)
  BY <1>1, <1>2, WakeupTurned
<1>4. InTurn(sched, sched', FALSE)
  BY <1>2, <1>3, TurnedHere
<1> QED
  BY <1>1, <1>4, WakeupExact DEF ThreadInv, ListsInv, OSWakeupThread, Quiet, Attends, Alert

\* OSYieldThread keeps the lists.
LEMMA YieldLists ==
  ASSUME ThreadInv, NEW t \in Threads, OSYieldThread(t)
  PROVE  Quiet /\ Attends /\ InTurn(sched, sched', FALSE)
<1>1. /\ Exact(sched, {}) /\ sched' = SelectThread(sched, TRUE)
      /\ SameRuns(sched, sched) /\ FALSE \in BOOLEAN /\ TRUE \in BOOLEAN
  BY DEF ThreadInv, ListsInv, OSYieldThread, SameRuns
<1>2. InTurn(sched, sched, FALSE) /\ Fresh(sched, sched)
  BY <1>1, SameRunsTurns
<1>3. InTurn(sched, sched', FALSE)
  BY <1>1, <1>2, SelectTurns
<1> QED
  BY <1>3, SelectExact DEF ThreadInv, ListsInv, OSYieldThread, Quiet, Attends

\* OSJoinThread collects a dead thread.
LEMMA JoinLists ==
  ASSUME ThreadInv, NEW t \in Threads, OSJoinThread(t)
  PROVE  Quiet /\ Attends /\ InTurn(sched, sched', FALSE)
<1> DEFINE r == [sched EXCEPT !.state[t] = "INACTIVE"]
<1>1. /\ Exact(sched, {}) /\ Hinted(sched) /\ sched \in SchedulerState
      /\ sched.state[t] = "MORIBUND" /\ sched' = r
  BY DEF ThreadInv, ListsInv, Exact, OSJoinThread
<1>2. /\ r.cur = sched.cur /\ r.bits = sched.bits /\ r.q = sched.q /\ r.hint = sched.hint
      /\ r.state = [sched.state EXCEPT ![t] = "INACTIVE"]
      /\ r.prio = sched.prio /\ r.suspend = sched.suspend /\ r.queue = sched.queue
  BY <1>1, Fields DEF SchedulerState
<1>3. r \in SchedulerState
  BY <1>1, Fields DEF SchedulerState, Dead
<1>4. r.state[t] = "INACTIVE" /\ \A u \in Threads \ {t} : r.state[u] = sched.state[u]
  BY <1>1, <1>2, Fields
<1> HIDE DEF r
<1>5. OnlyCurrentRuns(r) /\ ~OnQueue(sched, t) /\ ~OnQueue(r, t)
  BY <1>1, <1>2, <1>4 DEF OnlyCurrentRuns, OnQueue, Exact
<1>6. OthersSame(sched, r, t) /\ r.state[t] \notin Live
  BY <1>2, <1>4 DEF OthersSame, Live
<1>7. Exact(r, {})
  BY <1>1, <1>3, <1>5, <1>6, IdleExact
<1>8. Hinted(r) /\ Keeps(sched, r)
  BY <1>1, <1>2, <1>4 DEF Hinted, Keeps, Live
<1>9. ~Missed(sched) => ~Missed(r)
  <2>1. sched.cur # NoThread /\ sched.state[sched.cur] = "RUNNING" => sched.cur \in Threads \ {t}
    BY <1>1, Fields
  <2> QED
    BY <1>2, <1>4, <2>1, HeedsCalm
<1>10. InTurn(sched, r, FALSE)
  <2>1. Shifted(sched, r)
    BY <1>1, <1>2, <1>4 DEF Shifted
  <2> QED
    BY <1>1, <2>1, TurnsKept
<1> QED
  BY <1>1, <1>7, <1>8, <1>9, <1>10 DEF ListsInv, Quiet, Attends

\* Disabling and enabling the scheduler only counts.
LEMMA CountLists ==
  ASSUME ThreadInv, OSDisableScheduler \/ OSEnableScheduler
  PROVE  Quiet /\ Attends /\ InTurn(sched, sched', FALSE)
<1>1. PICK n \in Nat : sched' = [sched EXCEPT !.disabled = n]
  <2>1. sched.disabled \in Nat
    BY Fields DEF ThreadInv, TypeOK
  <2>2. CASE OSDisableScheduler
    <3>1. sched' = [sched EXCEPT !.disabled = sched.disabled + 1]
      BY <2>2 DEF OSDisableScheduler
    <3> QED
      BY <2>1, <3>1
  <2>3. CASE OSEnableScheduler
    <3>1. sched' = [sched EXCEPT !.disabled = sched.disabled - 1] /\ sched.disabled > 0
      BY <2>3 DEF OSEnableScheduler
    <3>2. sched.disabled - 1 \in Nat
      BY <2>1, <3>1
    <3> QED
      BY <3>1, <3>2
  <2> QED
    BY <2>2, <2>3
<1>2. Exact(sched, {}) /\ Hinted(sched) /\ sched \in SchedulerState
  BY DEF ThreadInv, ListsInv, Exact
<1>3. /\ sched'.cur = sched.cur /\ sched'.bits = sched.bits /\ sched'.q = sched.q
      /\ sched'.hint = sched.hint /\ sched'.state = sched.state /\ sched'.prio = sched.prio
      /\ sched'.suspend = sched.suspend /\ sched'.queue = sched.queue /\ sched' \in SchedulerState
  BY <1>1, <1>2, Fields DEF SchedulerState
<1>4. Exact(sched', {})
  BY <1>2, <1>3, FlagsExact
<1>5. InTurn(sched, sched', FALSE)
  BY <1>2, <1>3, SameRunsTurns DEF SameRuns
<1> QED
  BY <1>2, <1>3, <1>4, <1>5, HeedsCalm DEF ListsInv, Quiet, Hinted, Keeps, Attends

-----------------------------------------------------------------------------
(* The end of a thread. *)

\* What the death of t does to the lists: t is dead, everybody else lives on, and
\* nobody sleeps for a mutex of its any more.
Ended(s, r, t) ==
  /\ \A u \in Threads \ {t} : r.state[u] \in Live <=> s.state[u] \in Live
  /\ \A w \in SleepQueues : ToSet(r.q[w]) \subseteq ToSet(s.q[w])
  /\ \A m \in ToSet(owned[t]) : r.q[m] = <<>>

\* The last part of OSCancelThread and OSExitThread, for a thread that is in no queue.
LEMMA BuryExact ==
  ASSUME TypeOK, NEW s, NEW off, NEW t \in Threads, Exact(s, off), off \subseteq {t},
         t \in off \/ ~OnQueue(s, t)
  PROVE  LET r == Bury(s, t)
         IN /\ Exact(r, {}) /\ Ended(s, r, t)
            /\ Hinted(s) /\ (s.state[t] = "RUNNING" => s.hint) => Hinted(r)
            /\ r.state[t] \notin Live /\ SameRanks(s, r)
            /\ (\A w \in SleepQueues \ ToSet(owned[t]) : r.q[w] = s.q[w])
            /\ Alert(s) /\ (s.state[t] = "RUNNING" => s.hint) /\ r.disabled = 0 => ~Missed(r)
            /\ Turned(s, r, Len(owned[t]) > 1)
<1> DEFINE x == IF t \in detached THEN "INACTIVE" ELSE "MORIBUND"
           dead == [s EXCEPT !.state[t] = x]
           a == FoldLeft(WakeupThread, dead, owned[t])
           r == Reschedule(a)
<1>1. s \in SchedulerState /\ x \in Dead /\ x \notin Live /\ x \notin {"RUNNING", "WAITING", "READY"}
  BY DEF Exact, Dead, Live
<1> HIDE DEF x
<1>2. /\ dead.cur = s.cur /\ dead.bits = s.bits /\ dead.q = s.q /\ dead.hint = s.hint
      /\ dead.state = [s.state EXCEPT ![t] = x]
      /\ dead.prio = s.prio /\ dead.suspend = s.suspend /\ dead.queue = s.queue
      /\ dead.base = s.base /\ dead.fault = s.fault
  BY <1>1, Fields DEF SchedulerState
<1>3. dead \in SchedulerState
  BY <1>1, Fields DEF SchedulerState
<1>4. dead.state[t] = x /\ \A u \in Threads \ {t} : dead.state[u] = s.state[u]
  BY <1>1, <1>2, Fields
<1> HIDE DEF dead
<1>5. OnlyCurrentRuns(dead) /\ ~OnQueue(dead, t) /\ OthersSame(s, dead, t)
  BY <1>1, <1>2, <1>4 DEF OnlyCurrentRuns, OnQueue, Exact, OthersSame
<1>6. Exact(dead, {})
  BY <1>1, <1>3, <1>4, <1>5, IdleExact
<1>7. Hinted(s) /\ (s.state[t] = "RUNNING" => s.hint) => Hinted(dead)
  BY <1>1, <1>2, <1>3, <1>4, Fields DEF Hinted
<1>8. owned[t] \in Seq(SleepQueues)
  <2>1. owned[t] \in Seq(Mutexes) /\ Mutexes \subseteq SleepQueues
    BY MutexRelationsOK DEF TypeOK
  <2>2. Len(owned[t]) \in Nat /\ owned[t] \in [1 .. Len(owned[t]) -> SleepQueues]
    BY <2>1, SeqFacts
  <2> QED
    BY <2>2, MakeSeq
<1>9. /\ Exact(a, {}) /\ Keeps(dead, a) /\ (Hinted(dead) => Hinted(a))
      /\ \A m \in ToSet(owned[t]) : a.q[m] = <<>>
      /\ SameRanks(dead, a) /\ (\A w \in SleepQueues \ ToSet(owned[t]) : a.q[w] = dead.q[w])
      /\ Heeds(dead, a) /\ Turned(dead, a, Len(owned[t]) > 1)
  BY <1>6, <1>8, WakeAllExact
<1>10. Bury(s, t) = r
  BY DEF Bury, dead, x
<1> HIDE DEF a
<1>11. /\ Exact(r, {}) /\ Keeps(a, r) /\ (Hinted(a) => Hinted(r)) /\ Steady(a, r)
       /\ (Alert(a) /\ r.disabled = 0 => ~Missed(r))
  BY <1>9, RescheduleExact
<1>12. ASSUME NEW m \in ToSet(owned[t]) PROVE r.q[m] = <<>>
  <2>1. m \in SleepQueues /\ a.q[m] = <<>>
    BY <1>8, <1>9, SeqFacts
  <2>2. ToSet(r.q[m]) = {} /\ r.q[m] \in Lines(Threads)
    BY <1>11, <2>1, EmptyLine, Kinds DEF Keeps, Exact, ListsExact
  <2> QED
    BY <2>2, SeqFacts DEF Lines
<1>13. Ended(s, r, t)
  <2>1. Keeps(dead, r)
    BY <1>9, <1>11, KeepsTransitive
  <2>2. Mutexes \subseteq SleepQueues
    BY MutexRelationsOK
  <2> QED
    BY <1>2, <1>4, <1>12, <2>1, <2>2 DEF Ended, Keeps
<1>14. r.state[t] \notin Live /\ SameRanks(s, r) /\ \A w \in SleepQueues \ ToSet(owned[t]) : r.q[w] = s.q[w]
  BY <1>1, <1>2, <1>4, <1>9, <1>11 DEF Keeps, Steady, SameRanks
<1>15. Alert(s) /\ (s.state[t] = "RUNNING" => s.hint) => Alert(dead)
  <2>1. CASE s.state[t] = "RUNNING"
    BY <1>2, <2>1 DEF Alert
  <2>2. CASE s.state[t] # "RUNNING"
    <3>1. s.cur # NoThread /\ s.state[s.cur] = "RUNNING" => s.cur \in Threads \ {t}
      BY <1>1, <2>2, Fields
    <3> QED
      BY <1>2, <1>4, <3>1, HeedsCalm DEF Heeds
  <2> QED
    BY <2>1, <2>2
<1>16. Turned(s, r, Len(owned[t]) > 1)
  <2> DEFINE robbed == Len(owned[t]) > 1
  <2>1. Turned(s, a, robbed)
    <3> SUFFICES ASSUME NEW s0, Exact(s0, {}), InTurn(s0, s, FALSE), Fresh(s0, s)
                 PROVE  InTurn(s0, dead, FALSE) /\ Fresh(s0, dead)
      BY <1>9 DEF Turned
    <3>1. \A u \in Threads : /\ dead.state[u] = "RUNNING" => s.state[u] = "RUNNING"
                             /\ dead.state[u] = "WAITING" => s.state[u] \in {"WAITING", "RUNNING"}
      BY <1>1, <1>4
    <3> QED
      BY <1>2, <3>1, TurnsMoved
  <2>2. robbed \in BOOLEAN
    OBVIOUS
  <2> HIDE DEF robbed
  <2>3. Turned(s, r, robbed)
    BY <1>9, <2>1, <2>2, RescheduleTurned
  <2> QED
    BY <2>3 DEF robbed
<1> QED
  BY <1>7, <1>9, <1>10, <1>11, <1>13, <1>14, <1>15, <1>16 DEF Heeds

\* OSCancelThread takes the thread out of its queue, tells the owner it depended on, and
\* buries it.
LEMMA CancelLists ==
  ASSUME ThreadInv, NEW t \in Threads, OSCancelThread(t)
  PROVE  /\ ListsInv' /\ Ended(sched, sched', t) /\ Attends
         /\ InTurn(sched, sched', Len(owned[t]) > 1)
<1> DEFINE asleep == [sched EXCEPT !.q[sched.queue[t]] = RemoveFirst(@, t), !.queue[t] = NoQueue]
           suspended == sched.suspend[t] > 0
           x == CASE sched.state[t] = "READY"   -> IF suspended THEN sched ELSE UnsetRun(sched, t)
                  [] sched.state[t] = "RUNNING" -> [sched EXCEPT !.hint = TRUE]
                  [] sched.state[t] = "WAITING" -> IF suspended THEN asleep ELSE NotifyOwner(asleep, t)
<1>1. /\ Exact(sched, {}) /\ Hinted(sched) /\ sched \in SchedulerState /\ TypeOK
      /\ sched.state[t] \in Live /\ sched.suspend[t] \in Nat
  BY Fields DEF ThreadInv, ListsInv, Exact, OSCancelThread
<1>2. sched' = Bury(x, t)
  BY DEF OSCancelThread
<1>3. InTurn(sched, x, FALSE) /\ Fresh(sched, x)
  <2>0. SameRuns(sched, sched)
    BY DEF SameRuns
  <2>1. CASE sched.state[t] = "READY" /\ suspended
    <3>1. x = sched
      BY <2>1
    <3> QED
      BY <1>1, <2>0, <3>1, SameRunsTurns
  <2>2. CASE sched.state[t] = "READY" /\ ~suspended
    <3>1. x = UnsetRun(sched, t) /\ sched.suspend[t] = 0
      BY <1>1, <2>2
    <3> HIDE DEF x
    <3> QED
      BY <1>1, <2>2, <3>1, LeaveTurns
  <2>3. CASE sched.state[t] = "RUNNING"
    <3>1. x = [sched EXCEPT !.hint = TRUE]
      BY <2>3
    <3> HIDE DEF x
    <3>2. x.state = sched.state /\ x.q = sched.q
      BY <1>1, <3>1, Fields DEF SchedulerState
    <3> QED
      BY <1>1, <3>2, SameRunsTurns DEF SameRuns
  <2>4. CASE sched.state[t] = "WAITING"
    <3>1. x = IF suspended THEN asleep ELSE NotifyOwner(asleep, t)
      BY <2>4
    <3>2. Exact(asleep, {t}) /\ Lost(asleep, {t})
      BY <1>1, <2>4, UnlinkExact
    <3>3. SameRuns(sched, asleep)
      BY <1>1, <2>4, UnlinkRuns
    <3> HIDE DEF asleep, x
    <3>4. InTurn(sched, asleep, FALSE) /\ Fresh(sched, asleep)
      BY <1>1, <3>3, SameRunsTurns
    <3>5. InTurn(sched, NotifyOwner(asleep, t), FALSE) /\ Fresh(sched, NotifyOwner(asleep, t))
      BY <1>1, <3>2, <3>3, NotifyTurns
    <3> QED
      BY <3>1, <3>4, <3>5
  <2> QED
    BY <1>1, <2>1, <2>2, <2>3, <2>4 DEF Live
<1>4. /\ \E off \in SUBSET {t} : Exact(x, off) /\ (t \in off \/ ~OnQueue(x, t))
      /\ Keeps(sched, x) /\ Hinted(x) /\ (x.state[t] = "RUNNING" => x.hint) /\ Heeds(sched, x)
  <2>1. CASE sched.state[t] = "READY" /\ suspended
    <3>1. x = sched
      BY <2>1
    <3>2. ~OnQueue(sched, t) /\ sched.state[t] # "RUNNING"
      BY <1>1, <2>1 DEF OnQueue
    <3> HIDE DEF x
    <3> QED
      BY <1>1, <3>1, <3>2 DEF Keeps, Heeds
  <2>2. CASE sched.state[t] = "READY" /\ ~suspended
    <3>1. x = UnsetRun(sched, t) /\ sched.suspend[t] = 0
      BY <1>1, <2>2
    <3> HIDE DEF x
    <3>2. Exact(x, {} \cup {t}) /\ SameThreads(sched, x)
      BY <1>1, <2>2, <3>1, UnsetRunExact
    <3>3. {} \cup {t} = {t}
      OBVIOUS
    <3>4. x.state[t] # "RUNNING"
      BY <2>2, <3>2 DEF SamePlaces, SameThreads
    <3> QED
      BY <1>1, <3>2, <3>3, <3>4, SameKeeps, SameHinted DEF SameThreads
  <2>3. CASE sched.state[t] = "RUNNING"
    <3>1. x = [sched EXCEPT !.hint = TRUE]
      BY <2>3
    <3> HIDE DEF asleep, x
    <3>2. /\ x \in SchedulerState /\ x.cur = sched.cur /\ x.bits = sched.bits /\ x.q = sched.q
          /\ x.state = sched.state /\ x.prio = sched.prio /\ x.suspend = sched.suspend
          /\ x.queue = sched.queue /\ x.hint = TRUE
      BY <1>1, <3>1, Fields DEF SchedulerState
    <3>3. Exact(x, {}) /\ ~OnQueue(x, t)
      BY <1>1, <2>3, <3>2, FlagsExact DEF OnQueue
    <3> QED
      BY <3>2, <3>3, HeedsHint DEF Keeps, Hinted
  <2>4. CASE sched.state[t] = "WAITING"
    <3>1. x = IF suspended THEN asleep ELSE NotifyOwner(asleep, t)
      BY <2>4
    <3>2. /\ Exact(asleep, {t}) /\ Lost(asleep, {t}) /\ Keeps(sched, asleep) /\ Hinted(asleep)
          /\ asleep.state = sched.state /\ Heeds(sched, asleep)
      BY <1>1, <2>4, UnlinkExact
    <3> HIDE DEF asleep, x
    <3>3. Exact(x, {t}) /\ SameThreads(asleep, x)
      BY <1>1, <3>1, <3>2, NotifyExact, SameReflexive
    <3>4. Keeps(sched, x) /\ Hinted(x) /\ Heeds(sched, x)
      BY <3>2, <3>3, SameKeeps, SameHinted, KeepsTransitive, HeedsTransitive DEF SameThreads
    <3>5. x.state[t] = "WAITING"
      BY <2>4, <3>2, <3>3 DEF SamePlaces, SameThreads
    <3> QED
      BY <3>3, <3>4, <3>5
  <2> QED
    BY <1>1, <2>1, <2>2, <2>3, <2>4 DEF Live
<1> HIDE DEF x
<1>5. /\ Exact(sched', {}) /\ Ended(x, sched', t) /\ Hinted(sched')
      /\ (Alert(x) /\ sched'.disabled = 0 => ~Missed(sched'))
      /\ Turned(x, sched', Len(owned[t]) > 1)
  BY <1>1, <1>2, <1>4, BuryExact
<1>6. Mutexes \subseteq SleepQueues
  BY <1>1, MutexRelationsOK
<1>7. Attends
  BY <1>4, <1>5 DEF Attends, Heeds, Alert
<1>8. InTurn(sched, sched', Len(owned[t]) > 1)
  BY <1>1, <1>3, <1>5, TurnedSoFar
<1> QED
  BY <1>8, <1>4, <1>5, <1>6, <1>7 DEF Ended, Keeps, ListsInv

\* OSExitThread buries the running thread and dispatches another.
LEMMA ExitLists ==
  ASSUME ThreadInv, NEW t \in Threads, NEW v, OSExitThread(t, v)
  PROVE  /\ ListsInv' /\ Ended(sched, sched', t) /\ Attends
         /\ InTurn(sched, sched', Len(owned[t]) > 1)
<1> DEFINE a == Bury(sched, t)
           b == [a EXCEPT !.hint = TRUE]
<1>1. /\ Exact(sched, {}) /\ TypeOK /\ sched.state[t] = "RUNNING" /\ sched' = SelectThread(b, FALSE)
  BY DEF ThreadInv, ListsInv, OSExitThread, Program, Running
<1>2. ~OnQueue(sched, t)
  BY <1>1 DEF OnQueue
<1>3. Exact(a, {}) /\ Ended(sched, a, t) /\ a \in SchedulerState
  <2>1. Exact(a, {}) /\ Ended(sched, a, t)
    BY <1>1, <1>2, BuryExact
  <2> QED
    BY <2>1 DEF Exact
<1> HIDE DEF a
<1>4. /\ b \in SchedulerState /\ b.cur = a.cur /\ b.bits = a.bits /\ b.q = a.q
      /\ b.state = a.state /\ b.prio = a.prio /\ b.suspend = a.suspend
      /\ b.queue = a.queue /\ b.hint = TRUE
  BY <1>3, Fields DEF SchedulerState
<1> HIDE DEF b
<1>5. Exact(b, {}) /\ Hinted(b) /\ Keeps(a, b)
  BY <1>3, <1>4, FlagsExact DEF Hinted, Keeps
<1>6. /\ Exact(sched', {}) /\ Hinted(sched') /\ Keeps(b, sched')
      /\ (sched'.disabled = 0 => ~Missed(sched'))
  BY <1>1, <1>5, SelectExact
<1>7. Keeps(a, sched')
  BY <1>5, <1>6, KeepsTransitive
<1>8. ASSUME NEW m \in ToSet(owned[t]) PROVE sched'.q[m] = <<>>
  <2>1. m \in SleepQueues /\ a.q[m] = <<>>
    BY <1>1, <1>3, MutexRelationsOK, SeqFacts DEF Ended, TypeOK
  <2>2. ToSet(sched'.q[m]) = {} /\ sched'.q[m] \in Lines(Threads)
    BY <1>6, <1>7, <2>1, EmptyLine, Kinds DEF Keeps, Exact, ListsExact
  <2> QED
    BY <2>2, SeqFacts DEF Lines
<1>9. Mutexes \subseteq SleepQueues
  BY <1>1, MutexRelationsOK
<1>10. InTurn(sched, sched', Len(owned[t]) > 1)
  <2> DEFINE robbed == Len(owned[t]) > 1
  <2>1. Turned(sched, a, robbed)
    BY <1>1, <1>2, BuryExact DEF a
  <2>2. robbed \in BOOLEAN
    OBVIOUS
  <2> HIDE DEF robbed
  <2>3. InTurn(sched, a, robbed) /\ (~robbed => Calm(sched, a))
    BY <1>1, <2>1, TurnedHere
  <2>4. b.disabled = a.disabled
    BY <1>3, Fields DEF b, SchedulerState
  <2>5. InTurn(sched, b, robbed)
    BY <1>4, <2>3 DEF InTurn, Ordered, Unjumped, Drowsy, BetterRuns
  <2>6. robbed \/ Calm(sched, b)
    BY <1>4, <2>3, <2>4, HeedsCalm DEF Calm, Fresh
  <2>7. InTurn(sched, sched', robbed)
    BY <1>1, <1>5, <2>2, <2>5, <2>6, SwitchTurns
  <2> QED
    BY <2>7 DEF robbed
<1> QED
  BY <1>10, <1>3, <1>6, <1>7, <1>8, <1>9 DEF Ended, Keeps, ListsInv, Attends

-----------------------------------------------------------------------------
(* Locks.  The lists first, then the mutex relations.                      *)

\* Falling back from an inherited priority disturbs no list: the thread runs.
LEMMA DropExact ==
  ASSUME NEW s, Exact(s, {}), NEW t \in Threads, s.state[t] = "RUNNING", NEW still,
         ToSet(still[t]) \subseteq SleepQueues
  PROVE  Exact(DropInherited(s, t, still), {}) /\ SamePlaces(s, DropInherited(s, t, still))
<1>1. CASE s.prio[t] < s.base[t]
  <2> DEFINE p == EffectivePriority(s, still, t)
  <2>1. p \in Priorities
    BY EffectiveIsReal
  <2>2. DropInherited(s, t, still) = [s EXCEPT !.prio[t] = p]
    BY <1>1 DEF DropInherited
  <2>3. ~OnQueue(s, t)
    BY DEF OnQueue
  <2> HIDE DEF p
  <2> QED
    BY <2>1, <2>2, <2>3, PrioExact
<1>2. CASE ~(s.prio[t] < s.base[t])
  BY <1>2, SameReflexive DEF DropInherited, SameThreads
<1> QED
  BY <1>1, <1>2

\* A mutex that is given up leaves the list of its owner, and no other list.
LEMMA ReleaseRelations ==
  ASSUME TypeOK, OwnersListed, NEW t \in Threads, NEW m \in Mutexes, owner[m] = t, Release(t, m)
  PROVE  /\ owner' \in [Mutexes -> Threads \cup {NoThread}] /\ count' \in [Mutexes -> Int]
         /\ owned' \in [Threads -> Seq(Mutexes)] /\ OwnersListed'
         /\ owner'[m] = NoThread /\ \A k \in Mutexes \ {m} : owner'[k] = owner[k]
         /\ ToSet(owned'[t]) \subseteq SleepQueues
<1> DEFINE rest == RemoveFirst(owned[t], m)
<1>1. /\ owner' = [owner EXCEPT ![m] = NoThread] /\ count' = [count EXCEPT ![m] = 0]
      /\ owned' = [owned EXCEPT ![t] = rest]
  BY DEF Release
<1>2. owned[t] \in Lines(Mutexes) /\ m \in ToSet(owned[t])
  BY DEF TypeOK, OwnersListed, Lines
<1>3. rest \in Lines(Mutexes) /\ ToSet(rest) = ToSet(owned[t]) \ {m}
  BY <1>2, RemoveFirstLine
<1> HIDE DEF rest
<1>4. rest \in Seq(Mutexes) /\ IsInjective(rest)
  BY <1>3 DEF Lines
<1>5. /\ owner' \in [Mutexes -> Threads \cup {NoThread}] /\ count' \in [Mutexes -> Int]
      /\ owner'[m] = NoThread /\ \A k \in Mutexes \ {m} : owner'[k] = owner[k]
  BY <1>1 DEF TypeOK
<1>6. /\ owned' \in [Threads -> Seq(Mutexes)] /\ owned'[t] = rest
      /\ \A u \in Threads \ {t} : owned'[u] = owned[u]
  BY <1>1, <1>4 DEF TypeOK
<1>7. ASSUME NEW u \in Threads, NEW k \in Mutexes PROVE owner'[k] = u <=> k \in ToSet(owned'[u])
  <2>1. owner[k] = u <=> k \in ToSet(owned[u])
    BY DEF OwnersListed
  <2>2. CASE u = t
    BY <1>3, <1>5, <1>6, <2>1, <2>2, Nulls
  <2>3. CASE u # t
    BY <1>5, <1>6, <2>1, <2>3, Nulls
  <2> QED
    BY <2>2, <2>3
<1>8. ASSUME NEW u \in Threads PROVE IsInjective(owned'[u])
  BY <1>4, <1>6 DEF OwnersListed
<1>9. ToSet(owned'[t]) \subseteq SleepQueues
  BY <1>3, <1>6, <1>2, SeqFacts, ThreadsAssumption DEF Lines
<1> QED
  BY <1>5, <1>6, <1>7, <1>8, <1>9 DEF OwnersListed

\* A mutex that is taken joins the list of its new owner, once.
LEMMA AcquireRelations ==
  ASSUME TypeOK, OwnersListed, NEW t \in Threads, NEW m \in Mutexes, NEW n \in Int, Lockable(t, m),
         Acquire(t, m, n)
  PROVE  /\ owner' \in [Mutexes -> Threads \cup {NoThread}] /\ count' \in [Mutexes -> Int]
         /\ owned' \in [Threads -> Seq(Mutexes)] /\ OwnersListed'
         /\ owner'[m] = t /\ \A k \in Mutexes \ {m} : owner'[k] = owner[k]
<1> DEFINE more == Append(owned[t], m)
<1>1. /\ owner' = [owner EXCEPT ![m] = t] /\ count' = [count EXCEPT ![m] = n]
      /\ owned' = IF owner[m] = t THEN owned ELSE [owned EXCEPT ![t] = more]
  BY DEF Acquire
<1>2. /\ owner' \in [Mutexes -> Threads \cup {NoThread}] /\ count' \in [Mutexes -> Int]
      /\ owner'[m] = t /\ \A k \in Mutexes \ {m} : owner'[k] = owner[k]
  BY <1>1 DEF TypeOK
<1>3. CASE owner[m] = t
  <2>1. owned' = owned /\ owner' = owner
    BY <1>1, <1>3 DEF TypeOK
  <2> QED
    BY <1>2, <2>1 DEF TypeOK, OwnersListed
<1>4. CASE owner[m] = NoThread
  <2>1. owned[t] \in Lines(Mutexes) /\ m \notin ToSet(owned[t])
    BY <1>4, Nulls DEF TypeOK, OwnersListed, Lines
  <2>2. more \in Lines(Mutexes) /\ ToSet(more) = ToSet(owned[t]) \cup {m}
    BY <2>1, AppendLine
  <2> HIDE DEF more
  <2>3. more \in Seq(Mutexes) /\ IsInjective(more)
    BY <2>2 DEF Lines
  <2>4. /\ owned' \in [Threads -> Seq(Mutexes)] /\ owned'[t] = more
        /\ \A u \in Threads \ {t} : owned'[u] = owned[u]
    BY <1>1, <1>4, <2>3, Nulls DEF TypeOK
  <2>5. ASSUME NEW u \in Threads, NEW k \in Mutexes PROVE owner'[k] = u <=> k \in ToSet(owned'[u])
    <3>1. owner[k] = u <=> k \in ToSet(owned[u])
      BY DEF OwnersListed
    <3>2. CASE u = t
      BY <1>2, <2>2, <2>4, <3>1, <3>2
    <3>3. CASE u # t
      BY <1>2, <1>4, <2>4, <3>1, <3>3, Nulls
    <3> QED
      BY <3>2, <3>3
  <2>6. ASSUME NEW u \in Threads PROVE IsInjective(owned'[u])
    BY <2>3, <2>4 DEF OwnersListed
  <2> QED
    BY <1>2, <2>4, <2>5, <2>6 DEF OwnersListed
<1> QED
  BY <1>3, <1>4 DEF Lockable

\* A dead thread has given up all of its mutexes.
LEMMA UnlockAllRelations ==
  ASSUME TypeOK, OwnersListed, NEW t \in Threads, UnlockAllMutex(t)
  PROVE  /\ owner' \in [Mutexes -> Threads \cup {NoThread}] /\ count' \in [Mutexes -> Int]
         /\ owned' \in [Threads -> Seq(Mutexes)] /\ OwnersListed'
         /\ \A m \in Mutexes : owner'[m] = IF m \in ToSet(owned[t]) THEN NoThread ELSE owner[m]
<1>1. /\ owner' = [m \in Mutexes |-> IF m \in ToSet(owned[t]) THEN NoThread ELSE owner[m]]
      /\ count' = [m \in Mutexes |-> IF m \in ToSet(owned[t]) THEN 0 ELSE count[m]]
      /\ owned' = [owned EXCEPT ![t] = <<>>]
  BY DEF UnlockAllMutex
<1>2. /\ owner' \in [Mutexes -> Threads \cup {NoThread}] /\ count' \in [Mutexes -> Int]
      /\ \A m \in Mutexes : owner'[m] = IF m \in ToSet(owned[t]) THEN NoThread ELSE owner[m]
  BY <1>1 DEF TypeOK
<1>3. <<>> \in Seq(Mutexes) /\ IsInjective(<<>>) /\ ToSet(<<>>) = {}
  BY EmptyLine DEF Lines
<1>4. /\ owned' \in [Threads -> Seq(Mutexes)] /\ owned'[t] = <<>>
      /\ \A u \in Threads \ {t} : owned'[u] = owned[u]
  BY <1>1, <1>3 DEF TypeOK
<1>5. ASSUME NEW u \in Threads, NEW k \in Mutexes PROVE owner'[k] = u <=> k \in ToSet(owned'[u])
  <2>1. (owner[k] = u <=> k \in ToSet(owned[u])) /\ (owner[k] = t <=> k \in ToSet(owned[t]))
    BY DEF OwnersListed
  <2>2. CASE u = t
    BY <1>2, <1>3, <1>4, <2>1, <2>2, Nulls
  <2>3. CASE u # t
    BY <1>2, <1>4, <2>1, <2>3, Nulls
  <2> QED
    BY <2>2, <2>3
<1>6. ASSUME NEW u \in Threads PROVE IsInjective(owned'[u])
  BY <1>3, <1>4 DEF OwnersListed
<1> QED
  BY <1>2, <1>4, <1>5, <1>6 DEF OwnersListed

\* A thread goes to sleep for a mutex: the chain of owners is promoted first.
LEMMA ContendLists ==
  ASSUME ThreadInv, NEW t \in Threads, NEW m \in Mutexes, Running(t), ~Lockable(t, m), Contend(t, m)
  PROVE  /\ ListsInv' /\ \A u \in Threads : sched'.state[u] \in Live <=> sched.state[u] \in Live
         /\ (\A k \in Mutexes \ {m} : ToSet(sched'.q[k]) \subseteq ToSet(sched.q[k]))
         /\ Attends /\ t \in ToSet(sched'.q[m]) /\ InTurn(sched, sched', FALSE)
         /\ \A k \in SleepQueues : ToSet(sched.q[k]) \subseteq ToSet(sched'.q[k])
<1> DEFINE wants == [waiting EXCEPT ![t] = m]
           relations == [MutexRelations EXCEPT !.waiting = wants]
           a == PromoteThread(sched, relations, owner[m], sched.prio[t])
<1>1. /\ Exact(sched, {}) /\ TypeOK /\ sched.cur = t /\ sched.state[t] = "RUNNING"
      /\ sched' = SleepThread(a, m)
  BY DEF ThreadInv, ListsInv, Running, Contend
<1>2. Relations(relations)
  <2>1. relations.owned = owned /\ relations.owner = owner /\ relations.waiting = wants
    BY DEF MutexRelations
  <2>2. wants \in [Threads -> Mutexes \cup {NoMutex}]
    BY <1>1 DEF TypeOK
  <2>3. \A u \in Threads : ToSet(owned[u]) \subseteq SleepQueues
    BY <1>1, MutexRelationsOK, SeqFacts DEF TypeOK
  <2> HIDE DEF relations, wants
  <2> QED
    BY <1>1, <2>1, <2>2, <2>3 DEF Relations, TypeOK, NoMutex
<1>3. sched.prio[t] \in Priorities
  BY <1>1 DEF Exact, OnlyCurrentRuns, RealPriorities, Live
<1>4. owner[m] \in Threads
  BY <1>1 DEF Lockable, TypeOK
<1>5. m \in SleepQueues /\ \A k \in Mutexes : k \in SleepQueues
  BY <1>1, MutexRelationsOK
<1> HIDE DEF relations
<1>6. Exact(a, {}) /\ SameThreads(sched, a)
  BY <1>1, <1>2, <1>3, <1>4, NothingLost, PromoteExact
<1>7. a.cur = t /\ a.state = sched.state /\ \A k \in SleepQueues : ToSet(a.q[k]) = ToSet(sched.q[k])
  BY <1>1, <1>6 DEF SamePlaces, SameThreads
<1> HIDE DEF a
<1>8. /\ Exact(sched', {}) /\ Hinted(sched') /\ (sched'.disabled = 0 => ~Missed(sched'))
      /\ \A u \in Threads : sched'.state[u] \in Live <=> a.state[u] \in Live
      /\ \A k \in SleepQueues \ {m} : sched'.q[k] = a.q[k]
      /\ ToSet(sched'.q[m]) = ToSet(a.q[m]) \cup {t} /\ Turned(a, sched', FALSE)
  <2>1. a.cur \in Threads /\ a.state[a.cur] = "RUNNING" /\ m \in SleepQueues
    BY <1>1, <1>5, <1>7
  <2> QED
    BY <1>1, <1>6, <1>7, <2>1, SleepExact
<1>9. InTurn(sched, sched', FALSE)
  <2>1. SameRuns(sched, sched)
    BY DEF SameRuns
  <2>2. InTurn(sched, a, FALSE) /\ Fresh(sched, a)
    BY <1>1, <1>2, <1>3, <1>4, <2>1, NothingLost, PromoteTurns DEF a
  <2> QED
    BY <1>1, <1>8, <2>2, TurnedSoFar
<1> QED
  BY <1>5, <1>7, <1>8, <1>9 DEF ListsInv, Attends

\* A mutex is released and its sleepers, all of them, become runnable.
LEMMA UnlockLists ==
  ASSUME ThreadInv, NEW t \in Threads, NEW m \in Mutexes, Running(t), owner[m] = t,
         Release(t, m), sched' = WakeupThread(DropInherited(sched, t, owned'), m)
  PROVE  /\ Quiet /\ sched'.q[m] = <<>> /\ InTurn(sched, sched', FALSE)
         /\ (\/ Heeds(sched, DropInherited(sched, t, owned'))
             \/ \E u \in ToSet(sched.q[m]) : sched.suspend[u] = 0) => Attends
<1> DEFINE a == DropInherited(sched, t, owned')
<1>1. Exact(sched, {}) /\ Hinted(sched) /\ TypeOK /\ OwnersListed /\ sched.state[t] = "RUNNING"
  BY DEF ThreadInv, ListsInv, Running
<1>2. ToSet(owned'[t]) \subseteq SleepQueues /\ m \in SleepQueues
  BY <1>1, ReleaseRelations, MutexRelationsOK
<1>3. Exact(a, {}) /\ SamePlaces(sched, a)
  BY <1>1, <1>2, DropExact
<1>4. Hinted(a) /\ Keeps(sched, a)
  BY <1>1, <1>3 DEF SamePlaces, Hinted, Keeps
<1> HIDE DEF a
<1>5. /\ Exact(sched', {}) /\ Keeps(a, sched') /\ Hinted(sched') /\ sched'.q[m] = <<>>
      /\ (\/ Alert(a)
          \/ \E u \in ToSet(a.q[m]) : a.suspend[u] = 0) => (sched'.disabled = 0 => ~Missed(sched'))
  BY <1>2, <1>3, <1>4, WakeupExact DEF a
<1>6. (\/ Heeds(sched, a)
       \/ \E u \in ToSet(sched.q[m]) : sched.suspend[u] = 0) => Attends
  BY <1>2, <1>3, <1>5 DEF SamePlaces, Attends, Heeds, Alert
<1>7. InTurn(sched, sched', FALSE)
  <2>1. sched \in SchedulerState /\ sched' = WakeupThread(a, m) /\ FALSE \in BOOLEAN
    BY <1>1 DEF Exact, a
  <2>2. InTurn(sched, a, FALSE) /\ Fresh(sched, a)
    BY <1>1, <2>1, DropRuns, SameRunsTurns DEF a
  <2>3. Turned(a, sched', FALSE)
    BY <1>2, <1>3, <2>1, WakeupTurned
  <2> QED
    BY <1>1, <2>2, <2>3, TurnedSoFar
<1> QED
  BY <1>4, <1>5, <1>6, <1>7, KeepsTransitive DEF Quiet, ListsInv, a

\* A mutex is released, its sleepers become runnable and the thread sleeps on c.
LEMMA WaitCondLists ==
  ASSUME ThreadInv, NEW t \in Threads, NEW c \in Conds, NEW m \in Mutexes, OSWaitCond(t, c, m)
  PROVE  /\ ListsInv' /\ \A u \in Threads : sched'.state[u] \in Live <=> sched.state[u] \in Live
         /\ \A k \in Mutexes : ToSet(sched'.q[k]) \subseteq ToSet(sched.q[k])
         /\ sched'.q[m] = <<>> /\ Attends /\ InTurn(sched, sched', FALSE)
<1> DEFINE a == DropInherited(sched, t, owned')
           b == WakeSleepers(a, m)
<1>1. /\ Exact(sched, {}) /\ TypeOK /\ OwnersListed /\ sched.cur = t /\ sched.state[t] = "RUNNING"
      /\ owner[m] = t /\ Release(t, m) /\ sched' = SleepThread(b, c)
  BY DEF ThreadInv, ListsInv, OSWaitCond, Program, Running
<1>2. ToSet(owned'[t]) \subseteq SleepQueues
  BY <1>1, ReleaseRelations
<1>3. Exact(a, {}) /\ SamePlaces(sched, a)
  BY <1>1, <1>2, DropExact
<1>4. m \in SleepQueues \ {c} /\ c \in SleepQueues /\ \A k \in Mutexes : k \in SleepQueues \ {c}
  BY ThreadsAssumption
<1> HIDE DEF a
<1>5. Exact(b, {}) /\ Woken(a, b) /\ b.q[m] = <<>> /\ Longer(a, b)
  BY <1>3, <1>4, WakeSleepersExact
<1>6. b.cur = t /\ b.state[t] = "RUNNING" /\ Keeps(sched, b)
  BY <1>1, <1>3, <1>5 DEF SamePlaces, Woken, Keeps
<1> HIDE DEF b
<1>7. /\ Exact(sched', {}) /\ Hinted(sched') /\ (sched'.disabled = 0 => ~Missed(sched'))
      /\ \A u \in Threads : sched'.state[u] \in Live <=> b.state[u] \in Live
      /\ (\A k \in SleepQueues \ {c} : ToSet(sched'.q[k]) \subseteq ToSet(b.q[k]))
      /\ Turned(b, sched', FALSE)
  <2>1. b.cur \in Threads /\ b.state[b.cur] = "RUNNING" /\ c \in SleepQueues /\ Exact(b, {})
    BY <1>4, <1>5, <1>6
  <2> QED
    BY <1>1, <2>1, SleepExact
<1>8. sched'.q[m] = <<>>
  <2>1. ToSet(sched'.q[m]) = {} /\ sched'.q[m] \in Lines(Threads)
    BY <1>4, <1>5, <1>7, EmptyLine, Kinds DEF Exact, ListsExact
  <2> QED
    BY <2>1, SeqFacts DEF Lines
<1>9. InTurn(sched, sched', FALSE)
  <2>1. sched \in SchedulerState /\ FALSE \in BOOLEAN
    BY <1>1 DEF Exact
  <2>2. InTurn(sched, a, FALSE) /\ Fresh(sched, a)
    BY <1>1, <2>1, DropRuns, SameRunsTurns DEF a
  <2>3. b.cur = a.cur /\ b.prio = a.prio /\ \A u \in Threads : b.state[u] = "RUNNING" <=> a.state[u] = "RUNNING"
    BY <1>5 DEF Woken, SameRanks
  <2>4. InTurn(sched, b, FALSE) /\ Fresh(sched, b)
    BY <1>1, <1>3, <1>5, <2>1, <2>2, <2>3, LongerTurns
  <2> QED
    BY <1>1, <1>7, <2>4, TurnedSoFar
<1> QED
  BY <1>4, <1>6, <1>7, <1>8, <1>9 DEF ListsInv, Keeps, Attends

-----------------------------------------------------------------------------
(* The invariant of threads and mutexes.                                   *)

\* The relations of a mutex that a step leaves alone, or frees with nobody asleep for it, or
\* gives to a live thread.
LEMMA RelationsKept ==
  ASSUME ThreadInv, ListsInv',
         \A m \in Mutexes :
           \/ owner'[m] = NoThread /\ sched'.q[m] = <<>>
           \/ owner'[m] \in Threads /\ sched'.state[owner'[m]] \in Live
           \/ /\ owner'[m] = owner[m] /\ ToSet(sched'.q[m]) \subseteq ToSet(sched.q[m])
              /\ owner[m] \in Threads /\ sched.state[owner[m]] \in Live
                   => sched'.state[owner[m]] \in Live
  PROVE  NoOrphanMutex' /\ NoLostWakeup'
<1>1. ASSUME NEW m \in Mutexes
      PROVE  /\ owner'[m] # NoThread => sched'.state[owner'[m]] \in Live
             /\ sched'.q[m] # <<>> => owner'[m] # NoThread
  <2>1. CASE owner'[m] = NoThread /\ sched'.q[m] = <<>>
    BY <2>1
  <2>2. CASE owner'[m] \in Threads /\ sched'.state[owner'[m]] \in Live
    BY <2>2, Nulls
  <2>3. CASE /\ owner'[m] = owner[m] /\ ToSet(sched'.q[m]) \subseteq ToSet(sched.q[m])
             /\ owner[m] \in Threads /\ sched.state[owner[m]] \in Live
                  => sched'.state[owner[m]] \in Live
    <3>1. m \in Queues /\ sched'.q[m] \in Seq(Threads) /\ sched.q[m] \in Seq(Threads)
      BY Kinds, MutexRelationsOK DEF ThreadInv, ListsInv, Exact, ListsExact, Lines
    <3>2. sched'.q[m] # <<>> => sched.q[m] # <<>>
      <4>1. sched'.q[m] = <<>> <=> ToSet(sched'.q[m]) = {}
        BY <3>1, SeqFacts
      <4>2. sched.q[m] = <<>> <=> ToSet(sched.q[m]) = {}
        BY <3>1, SeqFacts
      <4> QED
        BY <2>3, <4>1, <4>2
    <3>3. owner[m] \in Threads \cup {NoThread}
      BY DEF ThreadInv, TypeOK
    <3> QED
      BY <2>3, <3>2, <3>3 DEF ThreadInv, NoOrphanMutex, NoLostWakeup
  <2> QED
    BY <2>1, <2>2, <2>3
<1> QED
  BY <1>1 DEF NoOrphanMutex, NoLostWakeup

\* OSThreadInit establishes the invariant.
LEMMA InitThread == ASSUME Init PROVE ThreadInv
<1>1. /\ sched.cur = Default /\ sched.bits = {} /\ sched.hint = FALSE /\ sched.disabled = 0
      /\ sched.state = [t \in Threads |-> IF t = Default THEN "RUNNING" ELSE "INACTIVE"]
      /\ sched.suspend = [t \in Threads |-> 0] /\ sched.prio = [t \in Threads |-> DefaultPriority]
      /\ sched.base = [t \in Threads |-> DefaultPriority]
      /\ sched.queue = [t \in Threads |-> NoQueue]
      /\ sched.q = [w \in Queues |-> <<>>] /\ sched.fault = FALSE
  BY DEF Init
<1>2. sched \in SchedulerState
  BY ThreadsAssumption DEF Init, SchedulerState, Live, Dead
<1>3. /\ detached = {Default} /\ active = {Default} /\ owner = [m \in Mutexes |-> NoThread]
      /\ count = [m \in Mutexes |-> 0] /\ owned = [t \in Threads |-> <<>>]
      /\ waiting = [t \in Threads |-> NoMutex] /\ val = [t \in Threads |-> DefaultVal]
  BY DEF Init
<1>4. TypeOK
  BY <1>2, <1>3, ThreadsAssumption DEF TypeOK, DefaultVal
<1>5. \A w \in Queues : sched.q[w] = <<>> /\ <<>> \in Lines(Threads) /\ ToSet(<<>>) = {}
  BY <1>1, EmptyLine
<1>6. ListsExact(sched, {}) /\ QueueFields(sched, {}) /\ BitsExact(sched)
  BY <1>1, <1>5, Kinds DEF ListsExact, QueueFields, BitsExact, OnQueue
<1>7. OnlyCurrentRuns(sched) /\ RealPriorities(sched) /\ Hinted(sched)
  BY <1>1, ThreadsAssumption DEF OnlyCurrentRuns, RealPriorities, Hinted
<1>8. SleepersInOrder(sched)
  <2>1. ASSUME NEW w \in SleepQueues PROVE Sorted(sched.q[w], sched.prio)
    <3>1. sched.q[w] = <<>>
      BY <1>5, Kinds
    <3>2. DOMAIN sched.q[w] = {}
      BY <3>1
    <3> QED
      BY <3>2 DEF Sorted
  <2> QED
    BY <2>1 DEF SleepersInOrder
<1>9. OwnersListed
  BY <1>3, Nulls, EmptyLine DEF OwnersListed, Lines
<1>10. NoOrphanMutex /\ NoLostWakeup
  BY <1>3, <1>5, Kinds, ThreadsAssumption DEF NoOrphanMutex, NoLostWakeup
<1> QED
  BY <1>2, <1>4, <1>6, <1>7, <1>8, <1>9, <1>10 DEF ThreadInv, ListsInv, Exact

\* The calls that lock and free nothing, and put nobody to sleep for a mutex.
LEMMA SleepInv ==
  ASSUME ThreadInv, ListsInv',
         \A u \in Threads : sched'.state[u] \in Live <=> sched.state[u] \in Live,
         \A m \in Mutexes : ToSet(sched'.q[m]) \subseteq ToSet(sched.q[m]),
         UNCHANGED <<owner, count, owned, waiting, val, detached>>, active' \subseteq Threads
  PROVE  ThreadInv'
<1>1. sched' \in SchedulerState
  BY DEF ListsInv, Exact
<1>2. TypeOK' /\ OwnersListed'
  BY <1>1 DEF ThreadInv, TypeOK, OwnersListed
<1>3. NoOrphanMutex' /\ NoLostWakeup'
  <2>1. ASSUME NEW m \in Mutexes
        PROVE  /\ owner'[m] = owner[m] /\ ToSet(sched'.q[m]) \subseteq ToSet(sched.q[m])
               /\ owner[m] \in Threads /\ sched.state[owner[m]] \in Live
                    => sched'.state[owner[m]] \in Live
    OBVIOUS
  <2> QED
    BY <2>1, RelationsKept
<1> QED
  BY <1>2, <1>3 DEF ThreadInv

\* A call that moves no thread to or from a mutex keeps the invariant.
LEMMA QuietInv ==
  ASSUME ThreadInv, Quiet, UNCHANGED <<owner, count, owned, waiting, val, detached>>,
         active' \subseteq Threads
  PROVE  ThreadInv'
<1>1. /\ ListsInv' /\ \A u \in Threads : sched'.state[u] \in Live <=> sched.state[u] \in Live
      /\ \A m \in Mutexes : ToSet(sched'.q[m]) \subseteq ToSet(sched.q[m])
  BY ThreadsAssumption DEF Quiet, Keeps
<1> QED
  BY <1>1, SleepInv

\* OSCreateThread: a thread that has ended owns nothing, so that clearing its list is exact.
LEMMA CreateInv ==
  ASSUME ThreadInv, NEW t \in Threads, NEW p \in Priorities, NEW d, OSCreateThread(t, p, d)
  PROVE  ThreadInv'
<1>1. /\ ListsInv' /\ sched' \in SchedulerState
      /\ \A u \in Threads : sched.state[u] \in Live => sched'.state[u] \in Live
      /\ \A w \in SleepQueues : sched'.q[w] = sched.q[w]
  BY CreateLists DEF ListsInv, Exact
<1>2. /\ TypeOK /\ OwnersListed /\ NoOrphanMutex /\ sched.state[t] = "INACTIVE"
      /\ detached' = (IF d THEN detached \cup {t} ELSE detached \ {t})
      /\ active' = active \cup {t} /\ owned' = [owned EXCEPT ![t] = <<>>]
      /\ waiting' = [waiting EXCEPT ![t] = NoMutex] /\ val' = [val EXCEPT ![t] = DefaultVal]
      /\ owner' = owner /\ count' = count
  BY DEF ThreadInv, OSCreateThread
<1>3. owned' = owned
  <2>1. \A m \in Mutexes : m \notin ToSet(owned[t])
    BY <1>2, Nulls DEF OwnersListed, NoOrphanMutex, Live
  <2>2. owned[t] \in Seq(Mutexes)
    BY <1>2 DEF TypeOK
  <2>3. owned[t] = <<>> <=> ToSet(owned[t]) = {}
    BY <2>2, SeqFacts
  <2>4. ToSet(owned[t]) \subseteq Mutexes
    BY <2>2, SeqFacts
  <2>5. owned[t] = <<>>
    BY <2>1, <2>3, <2>4
  <2> QED
    BY <1>2, <2>5 DEF TypeOK
<1>4. TypeOK'
  BY <1>1, <1>2, <1>3 DEF TypeOK, DefaultVal
<1>5. OwnersListed'
  BY <1>2, <1>3 DEF OwnersListed
<1>6. NoOrphanMutex' /\ NoLostWakeup'
  <2>1. ASSUME NEW m \in Mutexes
        PROVE  /\ owner'[m] = owner[m] /\ ToSet(sched'.q[m]) \subseteq ToSet(sched.q[m])
               /\ owner[m] \in Threads /\ sched.state[owner[m]] \in Live
                    => sched'.state[owner[m]] \in Live
    BY <1>1, <1>2, ThreadsAssumption
  <2> QED
    BY <1>1, <2>1, RelationsKept
<1> QED
  BY <1>1, <1>4, <1>5, <1>6 DEF ThreadInv

\* A thread dies: its mutexes are free, and nobody sleeps for them any more.
LEMMA DeathInv ==
  ASSUME ThreadInv, NEW t \in Threads, ListsInv', Ended(sched, sched', t), UnlockAllMutex(t),
         UNCHANGED <<detached, waiting>>, active' \subseteq Threads, val' \in [Threads -> Int]
  PROVE  ThreadInv'
<1>1. TypeOK /\ OwnersListed /\ sched' \in SchedulerState
  BY DEF ThreadInv, ListsInv, Exact
<1>2. /\ owner' \in [Mutexes -> Threads \cup {NoThread}] /\ count' \in [Mutexes -> Int]
      /\ owned' \in [Threads -> Seq(Mutexes)] /\ OwnersListed'
      /\ \A m \in Mutexes : owner'[m] = IF m \in ToSet(owned[t]) THEN NoThread ELSE owner[m]
  BY <1>1, UnlockAllRelations
<1>3. TypeOK'
  BY <1>1, <1>2 DEF TypeOK
<1>4. NoOrphanMutex' /\ NoLostWakeup'
  <2>1. ASSUME NEW m \in Mutexes
        PROVE  \/ owner'[m] = NoThread /\ sched'.q[m] = <<>>
               \/ /\ owner'[m] = owner[m] /\ ToSet(sched'.q[m]) \subseteq ToSet(sched.q[m])
                  /\ owner[m] \in Threads /\ sched.state[owner[m]] \in Live
                       => sched'.state[owner[m]] \in Live
    <3>1. CASE m \in ToSet(owned[t])
      BY <1>2, <3>1 DEF Ended
    <3>2. CASE m \notin ToSet(owned[t])
      BY <1>1, <1>2, <3>2, ThreadsAssumption DEF Ended, OwnersListed
    <3> QED
      BY <3>1, <3>2
  <2> QED
    BY <2>1, RelationsKept
<1> QED
  BY <1>2, <1>3, <1>4 DEF ThreadInv

\* A mutex is taken, by OSLockMutex, OSTryLockMutex or the retried lock.
LEMMA AcquiredInv ==
  ASSUME ThreadInv, NEW t \in Threads, NEW m \in Mutexes, NEW n \in Int, Running(t), Lockable(t, m),
         Acquire(t, m, n), UNCHANGED <<detached, active>>,
         waiting' \in [Threads -> Mutexes \cup {NoMutex}], val' \in [Threads -> Int]
  PROVE  ThreadInv'
<1>1. TypeOK /\ OwnersListed /\ sched' = sched /\ sched.state[t] = "RUNNING"
  BY DEF ThreadInv, Acquire, Running
<1>2. /\ owner' \in [Mutexes -> Threads \cup {NoThread}] /\ count' \in [Mutexes -> Int]
      /\ owned' \in [Threads -> Seq(Mutexes)] /\ OwnersListed'
      /\ owner'[m] = t /\ \A k \in Mutexes \ {m} : owner'[k] = owner[k]
  BY <1>1, AcquireRelations
<1>3. TypeOK'
  BY <1>1, <1>2 DEF TypeOK
<1>4. ListsInv'
  BY <1>1 DEF ThreadInv, ListsInv
<1>5. NoOrphanMutex' /\ NoLostWakeup'
  <2>1. ASSUME NEW k \in Mutexes
        PROVE  \/ owner'[k] \in Threads /\ sched'.state[owner'[k]] \in Live
               \/ /\ owner'[k] = owner[k] /\ ToSet(sched'.q[k]) \subseteq ToSet(sched.q[k])
                  /\ owner[k] \in Threads /\ sched.state[owner[k]] \in Live
                       => sched'.state[owner[k]] \in Live
    BY <1>1, <1>2 DEF Live
  <2> QED
    BY <1>4, <2>1, RelationsKept
<1> QED
  BY <1>2, <1>3, <1>4, <1>5 DEF ThreadInv

\* A thread goes to sleep for a mutex, which has an owner: the mutex is not lockable.
LEMMA ContendedInv ==
  ASSUME ThreadInv, NEW t \in Threads, NEW m \in Mutexes, Running(t), ~Lockable(t, m),
         Contend(t, m), UNCHANGED <<detached, active, val>>
  PROVE  ThreadInv'
<1>1. /\ ListsInv' /\ \A u \in Threads : sched'.state[u] \in Live <=> sched.state[u] \in Live
      /\ \A k \in Mutexes \ {m} : ToSet(sched'.q[k]) \subseteq ToSet(sched.q[k])
  BY ContendLists
<1>2. /\ TypeOK /\ OwnersListed /\ NoOrphanMutex /\ sched' \in SchedulerState
      /\ waiting' = [waiting EXCEPT ![t] = m] /\ UNCHANGED <<owner, count, owned>>
  BY <1>1 DEF ThreadInv, ListsInv, Exact, Contend
<1>3. TypeOK' /\ OwnersListed'
  BY <1>2 DEF TypeOK, OwnersListed
<1>4. owner[m] \in Threads /\ sched.state[owner[m]] \in Live
  BY <1>2 DEF Lockable, TypeOK, NoOrphanMutex
<1>5. NoOrphanMutex' /\ NoLostWakeup'
  <2>1. ASSUME NEW k \in Mutexes
        PROVE  \/ owner'[k] \in Threads /\ sched'.state[owner'[k]] \in Live
               \/ /\ owner'[k] = owner[k] /\ ToSet(sched'.q[k]) \subseteq ToSet(sched.q[k])
                  /\ owner[k] \in Threads /\ sched.state[owner[k]] \in Live
                       => sched'.state[owner[k]] \in Live
    BY <1>1, <1>2, <1>4
  <2> QED
    BY <1>1, <2>1, RelationsKept
<1> QED
  BY <1>1, <1>3, <1>5 DEF ThreadInv

\* OSUnlockMutex and OSWaitCond free a mutex together with the last of its sleepers.
LEMMA ReleasedInv ==
  ASSUME ThreadInv, NEW t \in Threads, NEW m \in Mutexes, owner[m] = t, Release(t, m), ListsInv',
         \A u \in Threads : sched.state[u] \in Live => sched'.state[u] \in Live,
         \A k \in Mutexes : ToSet(sched'.q[k]) \subseteq ToSet(sched.q[k]), sched'.q[m] = <<>>,
         UNCHANGED <<detached, active>>,
         waiting' \in [Threads -> Mutexes \cup {NoMutex}], val' \in [Threads -> Int]
  PROVE  ThreadInv'
<1>1. TypeOK /\ OwnersListed /\ sched' \in SchedulerState
  BY DEF ThreadInv, ListsInv, Exact
<1>2. /\ owner' \in [Mutexes -> Threads \cup {NoThread}] /\ count' \in [Mutexes -> Int]
      /\ owned' \in [Threads -> Seq(Mutexes)] /\ OwnersListed'
      /\ owner'[m] = NoThread /\ \A k \in Mutexes \ {m} : owner'[k] = owner[k]
  BY <1>1, ReleaseRelations
<1>3. TypeOK'
  BY <1>1, <1>2 DEF TypeOK
<1>4. NoOrphanMutex' /\ NoLostWakeup'
  <2>1. ASSUME NEW k \in Mutexes
        PROVE  \/ owner'[k] = NoThread /\ sched'.q[k] = <<>>
               \/ /\ owner'[k] = owner[k] /\ ToSet(sched'.q[k]) \subseteq ToSet(sched.q[k])
                  /\ owner[k] \in Threads /\ sched.state[owner[k]] \in Live
                       => sched'.state[owner[k]] \in Live
    BY <1>2
  <2> QED
    BY <2>1, RelationsKept
<1> QED
  BY <1>2, <1>3, <1>4 DEF ThreadInv

\* Every call of the thread API preserves the invariant.
LEMMA ThreadCallInv ==
  ASSUME ThreadInv, ThreadCall
  PROVE  ThreadInv'
<1>1. TypeOK /\ active \subseteq Threads
  BY DEF ThreadInv, TypeOK
<1>2. ASSUME NEW t \in Threads \ {Default}, NEW p \in Priorities, NEW d \in Attributes,
             OSCreateThread(t, p, d)
      PROVE  ThreadInv'
  BY <1>2, CreateInv
<1>3. ASSUME NEW t \in Threads, OSResumeThread(t) \/ OSSuspendThread(t) \/ OSYieldThread(t)
      PROVE  ThreadInv'
  <2>1. Quiet
    BY <1>3, ResumeLists, SuspendLists, YieldLists
  <2>2. UNCHANGED <<detached, active, owner, count, owned, waiting, val>>
    BY <1>3 DEF OSResumeThread, OSSuspendThread, OSYieldThread, mutexVars
  <2> QED
    BY <1>1, <2>1, <2>2, QuietInv
<1>4. ASSUME NEW t \in Threads, NEW w \in WaitQueues, OSSleepThread(t, w)
      PROVE  ThreadInv'
  <2>1. /\ ListsInv' /\ \A u \in Threads : sched'.state[u] \in Live <=> sched.state[u] \in Live
        /\ \A v \in SleepQueues \ {w} : ToSet(sched'.q[v]) \subseteq ToSet(sched.q[v])
    BY <1>4, SleepLists
  <2>2. \A m \in Mutexes : ToSet(sched'.q[m]) \subseteq ToSet(sched.q[m])
    BY <2>1, ThreadsAssumption
  <2>3. UNCHANGED <<detached, active, owner, count, owned, waiting, val>>
    BY <1>4 DEF OSSleepThread, mutexVars
  <2> QED
    BY <1>1, <2>1, <2>2, <2>3, SleepInv
<1>5. ASSUME NEW w \in WaitQueues, OSWakeupThread(w) PROVE ThreadInv'
  <2>1. UNCHANGED <<detached, active, owner, count, owned, waiting, val>>
    BY <1>5 DEF OSWakeupThread, mutexVars
  <2> QED
    BY <1>1, <1>5, <2>1, WakeupLists, QuietInv
<1>6. ASSUME NEW t \in Threads \ {Default}, OSCancelThread(t) PROVE ThreadInv'
  <2>1. /\ UnlockAllMutex(t) /\ UNCHANGED <<detached, waiting, val>>
        /\ active' = IF t \in detached THEN active \ {t} ELSE active
    BY <1>6 DEF OSCancelThread
  <2>2. active' \subseteq Threads /\ val' \in [Threads -> Int]
    BY <1>1, <2>1 DEF TypeOK
  <2> QED
    BY <1>6, <2>1, <2>2, CancelLists, DeathInv
<1>7. ASSUME NEW t \in Threads \ {Default}, NEW v \in ExitValues, OSExitThread(t, v)
      PROVE  ThreadInv'
  <2>1. /\ UnlockAllMutex(t) /\ UNCHANGED <<detached, waiting>>
        /\ active' = (IF t \in detached THEN active \ {t} ELSE active)
        /\ val' = IF t \in detached THEN val ELSE [val EXCEPT ![t] = v]
    BY <1>7 DEF OSExitThread
  <2>2. v \in Int
    BY ThreadsAssumption
  <2>3. active' \subseteq Threads /\ val' \in [Threads -> Int]
    BY <1>1, <2>1, <2>2 DEF TypeOK
  <2> QED
    BY <1>7, <2>1, <2>3, ExitLists, DeathInv
<1>8. ASSUME NEW t \in Threads, OSJoinThread(t) PROVE ThreadInv'
  <2>1. UNCHANGED <<detached, owner, count, owned, waiting, val>> /\ active' = active \ {t}
    BY <1>8 DEF OSJoinThread, mutexVars
  <2> QED
    BY <1>1, <1>8, <2>1, JoinLists, QuietInv
<1>9. ASSUME OSDisableScheduler \/ OSEnableScheduler PROVE ThreadInv'
  <2>1. UNCHANGED <<detached, active, owner, count, owned, waiting, val>>
    BY <1>9 DEF OSDisableScheduler, OSEnableScheduler, mutexVars
  <2> QED
    BY <1>1, <1>9, <2>1, CountLists, QuietInv
<1> QED
  BY <1>2, <1>3, <1>4, <1>5, <1>6, <1>7, <1>8, <1>9 DEF ThreadCall

\* Every lock call, and every turn of the retry loop, preserves the invariant.
LEMMA MutexCallInv ==
  ASSUME ThreadInv, MutexCall \/ \E t \in Threads : ProcessPendingLocks(t)
  PROVE  ThreadInv'
<1>1. /\ TypeOK /\ active \subseteq Threads /\ count \in [Mutexes -> Int]
      /\ waiting \in [Threads -> Mutexes \cup {NoMutex}] /\ val \in [Threads -> Int]
  BY DEF ThreadInv, TypeOK
<1>2. ASSUME NEW t \in Threads, NEW m \in Mutexes, OSLockMutex(t, m) \/ OSTryLockMutex(t, m)
      PROVE  ThreadInv'
  <2>1. Running(t) /\ UNCHANGED <<detached, active, val>>
    BY <1>2 DEF OSLockMutex, OSTryLockMutex, Program
  <2>2. CASE Lockable(t, m) /\ Acquire(t, m, count[m] + 1) /\ UNCHANGED waiting
    <3>1. count[m] + 1 \in Int
      BY <1>1
    <3> QED
      BY <1>1, <2>1, <2>2, <3>1, AcquiredInv
  <2>3. CASE ~Lockable(t, m) /\ Contend(t, m)
    BY <2>1, <2>3, ContendedInv
  <2> QED
    BY <1>2, <2>2, <2>3 DEF OSLockMutex, OSTryLockMutex
<1>3. ASSUME NEW t \in Threads, NEW m \in Mutexes, OSUnlockMutex(t, m) PROVE ThreadInv'
  <2>1. Running(t) /\ owner[m] = t /\ UNCHANGED <<detached, active, waiting, val>>
    BY <1>3 DEF OSUnlockMutex, Program
  <2>2. CASE Release(t, m) /\ sched' = WakeupThread(DropInherited(sched, t, owned'), m)
    <3>1. ListsInv' /\ Keeps(sched, sched') /\ sched'.q[m] = <<>>
      BY <2>1, <2>2, UnlockLists DEF Quiet
    <3>2. /\ \A u \in Threads : sched.state[u] \in Live => sched'.state[u] \in Live
          /\ \A k \in Mutexes : ToSet(sched'.q[k]) \subseteq ToSet(sched.q[k])
      BY <3>1, ThreadsAssumption DEF Keeps
    <3> QED
      BY <1>1, <2>1, <2>2, <3>1, <3>2, ReleasedInv
  <2>3. CASE count' = [count EXCEPT ![m] = @ - 1] /\ UNCHANGED <<sched, owner, owned>>
    <3>1. count' \in [Mutexes -> Int]
      BY <1>1, <2>3
    <3> QED
      BY <2>1, <2>3, <3>1 DEF ThreadInv, ListsInv, TypeOK, OwnersListed, NoOrphanMutex, NoLostWakeup
  <2> QED
    BY <1>3, <2>2, <2>3 DEF OSUnlockMutex
<1>4. ASSUME NEW t \in Threads, NEW c \in Conds, NEW m \in Mutexes, OSWaitCond(t, c, m)
      PROVE  ThreadInv'
  <2>1. /\ owner[m] = t /\ Release(t, m) /\ UNCHANGED <<detached, active>>
        /\ waiting' = [waiting EXCEPT ![t] = m] /\ val' = [val EXCEPT ![t] = count[m]]
    BY <1>4 DEF OSWaitCond
  <2>2. /\ ListsInv' /\ \A u \in Threads : sched'.state[u] \in Live <=> sched.state[u] \in Live
        /\ \A k \in Mutexes : ToSet(sched'.q[k]) \subseteq ToSet(sched.q[k])
        /\ sched'.q[m] = <<>>
    BY <1>4, WaitCondLists
  <2>3. waiting' \in [Threads -> Mutexes \cup {NoMutex}] /\ val' \in [Threads -> Int]
    BY <1>1, <2>1
  <2> QED
    BY <2>1, <2>2, <2>3, ReleasedInv
<1>5. ASSUME NEW c \in Conds, OSSignalCond(c) PROVE ThreadInv'
  <2>1. OSWakeupThread(c)
    BY <1>5 DEF OSSignalCond
  <2>2. UNCHANGED <<detached, active, owner, count, owned, waiting, val>>
    BY <2>1 DEF OSWakeupThread, mutexVars
  <2> QED
    BY <1>1, <2>1, <2>2, WakeupLists, QuietInv
<1>6. ASSUME NEW t \in Threads, ProcessPendingLocks(t) PROVE ThreadInv'
  <2> DEFINE m == waiting[t]
             n == IF Restores(t, m) THEN val[t] ELSE count[m] + 1
  <2>1. m \in Mutexes /\ Running(t) /\ UNCHANGED <<detached, active>>
    BY <1>1, <1>6 DEF ProcessPendingLocks, PendingLock
  <2>2. CASE /\ Lockable(t, m) /\ Acquire(t, m, n)
             /\ waiting' = [waiting EXCEPT ![t] = NoMutex]
             /\ val' = IF Restores(t, m) THEN [val EXCEPT ![t] = DefaultVal] ELSE val
    <3>1. n \in Int
      BY <1>1, <2>1
    <3>2. waiting' \in [Threads -> Mutexes \cup {NoMutex}] /\ val' \in [Threads -> Int]
      BY <1>1, <2>2 DEF DefaultVal
    <3> HIDE DEF m, n
    <3> QED
      BY <2>1, <2>2, <3>1, <3>2, AcquiredInv
  <2>3. CASE ~Lockable(t, m) /\ Contend(t, m) /\ UNCHANGED val
    BY <2>1, <2>3, ContendedInv
  <2> QED
    BY <1>6, <2>2, <2>3 DEF ProcessPendingLocks
<1> QED
  BY <1>2, <1>3, <1>4, <1>5, <1>6 DEF MutexCall

\* A step that changes nothing keeps the invariant.
LEMMA ThreadStutter == ASSUME ThreadInv, UNCHANGED vars PROVE ThreadInv'
BY DEF vars, mutexVars, ThreadInv, ListsInv, TypeOK, OwnersListed, NoOrphanMutex, NoLostWakeup

\* The invariant holds in every state.
LEMMA ThreadInvariance == Spec => []ThreadInv
<1>1. ThreadInv /\ [Next]_vars => ThreadInv'
  <2> SUFFICES ASSUME ThreadInv, [Next]_vars PROVE ThreadInv'
    OBVIOUS
  <2>1. CASE UNCHANGED vars
    BY <2>1, ThreadStutter
  <2>2. CASE Next
    BY <2>2, ThreadCallInv, MutexCallInv DEF Next
  <2> QED
    BY <2>1, <2>2
<1>2. Init => ThreadInv
  BY InitThread
<1> QED
  BY <1>1, <1>2, PTL DEF Spec

-----------------------------------------------------------------------------
(* What the invariant says of the properties the runs check.               *)

\* A list without repetition is no longer than there are threads.
LEMMA LineLength ==
  ASSUME NEW ts \in Lines(Threads)
  PROVE  Len(ts) <= Cardinality(Threads) /\ Cardinality(Threads) \in Nat
<1>1. Len(ts) \in Nat /\ DOMAIN ts = 1 .. Len(ts) /\ ts \in [1 .. Len(ts) -> Threads]
  BY SeqFacts DEF Lines
<1>2. ts \in Injection(1 .. Len(ts), Threads)
  BY <1>1 DEF Injection, Lines, IsInjective
<1>3. IsFiniteSet(Threads)
  BY FiniteAssumption
<1>4. Cardinality(1 .. Len(ts)) <= Cardinality(Threads)
  BY <1>2, <1>3, FS_Injection
<1>5. Cardinality(1 .. Len(ts)) = Len(ts)
  <2>1. Cardinality(1 .. Len(ts)) = IF 1 > Len(ts) THEN 0 ELSE Len(ts) - 1 + 1
    BY <1>1, FS_Interval, SMTT(30)
  <2> QED
    BY <1>1, <2>1
<1> QED
  BY <1>3, <1>4, <1>5, FS_CardinalityType

\* Exact lists are what QueueMembership describes.
LEMMA MembershipOf == ASSUME Exact(sched, {}) PROVE QueueMembership
<1> SUFFICES ASSUME NEW t \in Threads
             PROVE  IF Queued(t)
                    THEN /\ Cardinality(Places(t)) = 1
                         /\ \A pl \in Places(t) : pl[1] = sched.queue[t]
                         /\ sched.state[t] = "READY" => sched.queue[t] = sched.prio[t]
                         /\ sched.state[t] = "WAITING" => sched.queue[t] \in SleepQueues
                    ELSE Places(t) = {}
  BY DEF QueueMembership
<1>1. /\ sched \in SchedulerState /\ QueueFields(sched, {})
      /\ \A w \in Queues : sched.q[w] \in Lines(Threads)
      /\ \A w \in Queues : t \in ToSet(sched.q[w]) <=> OnQueue(sched, t) /\ sched.queue[t] = w
  BY DEF Exact, ListsExact
<1>2. Queued(t) <=> OnQueue(sched, t)
  BY DEF Queued, OnQueue
<1>3. ASSUME NEW pl \in Places(t)
      PROVE  /\ pl[1] \in Queues /\ pl[2] \in DOMAIN sched.q[pl[1]] /\ sched.q[pl[1]][pl[2]] = t
             /\ OnQueue(sched, t) /\ pl[1] = sched.queue[t] /\ pl = <<pl[1], pl[2]>>
  <2>1. /\ pl[1] \in Queues /\ pl[2] \in DOMAIN sched.q[pl[1]] /\ sched.q[pl[1]][pl[2]] = t
        /\ pl = <<pl[1], pl[2]>>
    BY DEF Places
  <2>2. t \in ToSet(sched.q[pl[1]])
    BY <2>1 DEF ToSet
  <2> QED
    BY <1>1, <2>1, <2>2
<1>4. CASE ~Queued(t)
  BY <1>2, <1>3, <1>4
<1>5. CASE Queued(t)
  <2> DEFINE w == sched.queue[t]
             ts == sched.q[w]
  <2>1. w \in Queues /\ (sched.state[t] = "READY" => w = sched.prio[t])
        /\ (sched.state[t] = "WAITING" => w \in SleepQueues)
    <3>1. sched.state[t] = "WAITING" => w \in SleepQueues
      BY <1>1 DEF QueueFields
    <3>2. sched.state[t] = "READY" => w = sched.prio[t] /\ sched.prio[t] \in Priorities
      BY <1>2, <1>5, Fields DEF Queued, Exact, QueueFields, RealPriorities, Live
    <3> QED
      BY <1>5, <3>1, <3>2, Kinds DEF Queued
  <2>2. ts \in Lines(Threads) /\ t \in ToSet(ts)
    BY <1>1, <1>2, <1>5, <2>1
  <2>3. PICK i \in DOMAIN ts : ts[i] = t
    BY <2>2 DEF ToSet
  <2>4. i \in 1 .. Cardinality(Threads) /\ DOMAIN ts = 1 .. Len(ts) /\ Len(ts) \in Nat
    BY <2>2, <2>3, LineLength, SeqFacts DEF Lines
  <2>5. <<w, i>> \in Places(t)
    BY <2>1, <2>3, <2>4 DEF Places
  <2>6. ASSUME NEW pl \in Places(t) PROVE pl = <<w, i>>
    <3>1. pl[1] = w /\ pl[2] \in DOMAIN ts /\ ts[pl[2]] = t /\ pl = <<pl[1], pl[2]>>
      BY <1>3
    <3>2. pl[2] = i
      BY <2>2, <2>3, <3>1 DEF Lines, IsInjective
    <3> QED
      BY <3>1, <3>2
  <2>7. Places(t) = {<<w, i>>}
    BY <2>5, <2>6
  <2>8. Cardinality(Places(t)) = 1
    BY <2>7, FS_Singleton
  <2> QED
    BY <1>3, <1>5, <2>1, <2>8
<1> QED
  BY <1>4, <1>5

\* Who belongs to whom in a queue.
LEMMA QueueOf ==
  ASSUME NEW s, NEW off, Exact(s, off), NEW w \in SleepQueues, NEW t \in ToSet(s.q[w])
  PROVE  t \in Threads /\ t \notin off /\ s.state[t] = "WAITING" /\ s.queue[t] = w
<1>1. s.q[w] \in Lines(Threads) /\ w \in Queues /\ w \notin Priorities
  BY Kinds DEF Exact, ListsExact
<1>2. t \in Threads
  BY <1>1, SeqFacts DEF Lines
<1>3. OnQueue(s, t) /\ t \notin off /\ s.queue[t] = w
  BY <1>1, <1>2 DEF Exact, ListsExact
<1>4. s.state[t] = "WAITING"
  <2> SUFFICES ASSUME s.state[t] = "READY", s.suspend[t] = 0 PROVE FALSE
    BY <1>3 DEF OnQueue
  <2>1. s.queue[t] = s.prio[t] /\ s.prio[t] \in Priorities
    BY <1>2, <1>3 DEF Exact, QueueFields, RealPriorities, Live
  <2> QED
    BY <1>1, <1>3, <2>1
<1> QED
  BY <1>2, <1>3, <1>4

\* Every field always holds a value of its type: a resume too many lowers no count below zero,
\* and the priority of every thread is one that programs use, or that of a suspended sleeper.
THEOREM TypeCorrect == Spec => []TypeOK
<1>1. ThreadInv => TypeOK
  BY DEF ThreadInv
<1> QED
  BY <1>1, ThreadInvariance, PTL

\* The dispatcher's lists are exact, for any number of threads and priorities: a thread is in
\* the one queue it belongs into, once, or in none; the bits name the run queues that hold
\* threads; and nobody runs but the current thread.
THEOREM RunQueuesAlways == Spec => []RunQueuesExact
<1>1. ASSUME ThreadInv PROVE RunQueuesExact
  <2>1. Exact(sched, {}) /\ Hinted(sched)
    BY <1>1 DEF ThreadInv, ListsInv
  <2>2. QueueMembership
    BY <2>1, MembershipOf
  <2>3. RunBits /\ OneRunning
    BY <2>1 DEF Exact, BitsExact, RunBits, OnlyCurrentRuns, Hinted, OneRunning
  <2> QED
    BY <2>2, <2>3 DEF RunQueuesExact
<1>2. ThreadInv => RunQueuesExact
  BY <1>1
<1> QED
  BY <1>2, ThreadInvariance, PTL

\* Whoever is promoted, demoted, suspended or resumed while it is linked is afterwards where
\* its priority puts it, in a run queue or among sleepers in priority order.
THEOREM PlacesAlways == Spec => []PlacesFollowPriority
<1>1. ASSUME ThreadInv PROVE PlacesFollowPriority
  <2>1. Exact(sched, {})
    BY <1>1 DEF ThreadInv, ListsInv
  <2>2. QueueMembership
    BY <2>1, MembershipOf
  <2>3. RunBits /\ SleepersSorted
    BY <2>1 DEF Exact, BitsExact, RunBits, SleepersInOrder, Sorted, SleepersSorted
  <2> QED
    BY <2>2, <2>3 DEF PlacesFollowPriority
<1>2. ThreadInv => PlacesFollowPriority
  BY <1>1
<1> QED
  BY <1>2, ThreadInvariance, PTL

\* The owner that a mutex names and the list of mutexes that a thread keeps never part, and no
\* list holds a mutex twice.
THEOREM OwnershipAlways == Spec => []OwnershipOK
<1>1. ThreadInv /\ IInv => OwnershipOK
  BY DEF ThreadInv, IInv, OwnershipOK
<1> QED
  BY <1>1, ThreadInvariance, Invariance, PTL

\* A thread that has exited or was cancelled owns nothing.
THEOREM NoOrphanAlways == Spec => []NoOrphanMutex
<1>1. ThreadInv => NoOrphanMutex
  BY DEF ThreadInv
<1> QED
  BY <1>1, ThreadInvariance, PTL

\* Nobody sleeps for a free mutex, whichever way it was freed: OSUnlockMutex, OSWaitCond, or
\* the end of its owner, whose releases dispatch other threads half-way.
THEOREM NoLostWakeupAlways == Spec => []NoLostWakeup
<1>1. ThreadInv => NoLostWakeup
  BY DEF ThreadInv
<1> QED
  BY <1>1, ThreadInvariance, PTL

-----------------------------------------------------------------------------
(* The loop of ProcessPendingLocks.                                        *)

\* A turn that fails puts its thread to sleep and wakes nobody: all that slept sleep on.
LEMMA ContendSleeps ==
  ASSUME ThreadInv, NEW t \in Threads, NEW m \in Mutexes, Running(t), ~Lockable(t, m), Contend(t, m)
  PROVE  /\ sched'.state[t] = "WAITING"
         /\ \A u \in Threads : sched.state[u] = "WAITING" => sched'.state[u] = "WAITING"
         /\ \A u \in Threads : sched'.state[u] \in Live => sched.state[u] \in Live
<1>1. /\ Exact(sched, {}) /\ Exact(sched', {}) /\ m \in SleepQueues
      /\ t \in ToSet(sched'.q[m])
      /\ \A k \in SleepQueues : ToSet(sched.q[k]) \subseteq ToSet(sched'.q[k])
      /\ \A u \in Threads : sched'.state[u] \in Live <=> sched.state[u] \in Live
  BY ContendLists, MutexRelationsOK DEF ThreadInv, ListsInv
<1>2. ASSUME NEW w \in SleepQueues, NEW u \in ToSet(sched'.q[w]) PROVE sched'.state[u] = "WAITING"
  BY <1>1, QueueOf
<1>3. ASSUME NEW u \in Threads, sched.state[u] = "WAITING" PROVE sched'.state[u] = "WAITING"
  <2> DEFINE w == sched.queue[u]
  <2>1. w \in SleepQueues /\ w \in Queues
    BY <1>1, <1>3, Kinds DEF Exact, QueueFields
  <2>2. u \in ToSet(sched.q[w])
    BY <1>1, <1>3, <2>1 DEF Exact, ListsExact, OnQueue
  <2> HIDE DEF w
  <2> QED
    BY <1>1, <1>2, <2>1, <2>2
<1> QED
  BY <1>1, <1>2, <1>3

\* A turn of the loop takes its thread off those that may still try.
LEMMA TurnShrinks ==
  ASSUME ThreadInv, NEW t \in Threads, ProcessPendingLocks(t)
  PROVE  Retrying' \subseteq Retrying \ {t} /\ t \in Retrying
<1> DEFINE m == waiting[t]
<1>1. Running(t) /\ m # NoMutex /\ TypeOK /\ m \in Mutexes
  BY DEF ProcessPendingLocks, PendingLock, ThreadInv, TypeOK
<1>2. t \in Retrying
  BY <1>1 DEF Running, Retrying
<1>3. CASE Lockable(t, m)
  <2>1. sched' = sched /\ waiting' = [waiting EXCEPT ![t] = NoMutex]
    BY <1>3 DEF ProcessPendingLocks, Acquire
  <2> QED
    BY <1>1, <1>2, <2>1 DEF Retrying, TypeOK
<1>4. CASE ~Lockable(t, m)
  <2>1. Contend(t, m)
    BY <1>4 DEF ProcessPendingLocks
  <2>2. waiting' = waiting
    BY <1>1, <2>1 DEF Contend, TypeOK
  <2> HIDE DEF m
  <2>3. /\ sched'.state[t] = "WAITING"
        /\ \A u \in Threads : sched.state[u] = "WAITING" => sched'.state[u] = "WAITING"
        /\ \A u \in Threads : sched'.state[u] \in Live => sched.state[u] \in Live
    BY <1>1, <1>4, <2>1, ContendSleeps
  <2>4. \A u \in Threads : sched'.state[u] \in {"READY", "RUNNING"} => u # t /\ sched.state[u] \in {"READY", "RUNNING"}
    BY <2>3 DEF Live
  <2> QED
    BY <1>2, <2>2, <2>4 DEF Retrying
<1> QED
  BY <1>3, <1>4

\* No other call comes between two turns.
LEMMA CallsSettled == ThreadCall \/ MutexCall => Settled
<1>1. ASSUME NEW t, NEW m, NEW c,
             \/ OSLockMutex(t, m) \/ OSTryLockMutex(t, m) \/ OSUnlockMutex(t, m)
             \/ OSWaitCond(t, c, m) \/ OSSignalCond(c)
      PROVE  Settled
  BY <1>1 DEF OSLockMutex, OSTryLockMutex, OSUnlockMutex, OSWaitCond, OSSignalCond, OSWakeupThread, Program
<1>2. ASSUME NEW t, NEW w, NEW p, NEW d,
             \/ OSCreateThread(t, p, d) \/ OSResumeThread(t) \/ OSSuspendThread(t)
             \/ OSSleepThread(t, w) \/ OSWakeupThread(w) \/ OSYieldThread(t)
             \/ OSCancelThread(t) \/ OSExitThread(t, d) \/ OSJoinThread(t)
             \/ OSDisableScheduler \/ OSEnableScheduler
      PROVE  Settled
  <2>1. OSCreateThread(t, p, d) \/ OSResumeThread(t) \/ OSSuspendThread(t) => Settled
    BY DEF OSCreateThread, OSResumeThread, OSSuspendThread
  <2>2. OSSleepThread(t, w) \/ OSWakeupThread(w) \/ OSYieldThread(t) => Settled
    BY DEF OSSleepThread, OSWakeupThread, OSYieldThread, Program
  <2>3. OSCancelThread(t) \/ OSExitThread(t, d) \/ OSJoinThread(t) => Settled
    BY DEF OSCancelThread, OSExitThread, OSJoinThread, Program
  <2>4. OSDisableScheduler \/ OSEnableScheduler => Settled
    BY DEF OSDisableScheduler, OSEnableScheduler
  <2> QED
    BY <1>2, <2>1, <2>2, <2>3, <2>4
<1>3. ThreadCall => Settled
  BY <1>2 DEF ThreadCall
<1>4. MutexCall => Settled
  BY <1>1 DEF MutexCall
<1> QED
  BY <1>3, <1>4

\* The loop of port_ProcessPendingLocks ends, for any number of threads and mutexes: a thread
\* that gets its lock is done with it, and one that does not goes to sleep, which hands the
\* processor on but makes nobody runnable; so no turn adds a thread that the loop could come to.
THEOREM LoopEndsAlways == Spec => LoopEnds
<1>1. ThreadInv /\ [Next]_vars =>
        [(\E t \in Threads : PendingLock(t)) => Cardinality(Retrying') < Cardinality(Retrying)]_vars
  <2> SUFFICES ASSUME ThreadInv, Next, NEW t \in Threads, PendingLock(t)
               PROVE  Cardinality(Retrying') < Cardinality(Retrying)
    OBVIOUS
  <2>1. PICK u \in Threads : ProcessPendingLocks(u)
    BY CallsSettled DEF Next, Settled
  <2>2. Retrying' \subseteq Retrying \ {u} /\ u \in Retrying
    BY <2>1, TurnShrinks
  <2>3. IsFiniteSet(Retrying)
    BY FiniteAssumption, FS_Subset DEF Retrying
  <2> DEFINE R == Retrying
             S == Retrying'
  <2> HIDE DEF R, S
  <2>4. IsFiniteSet(R \ {u}) /\ Cardinality(R \ {u}) = Cardinality(R) - 1 /\ Cardinality(R) \in Nat
    BY <2>2, <2>3, FS_RemoveElement, FS_CardinalityType DEF R
  <2>5. IsFiniteSet(S) /\ Cardinality(S) <= Cardinality(R \ {u})
    BY <2>2, <2>4, FS_Subset DEF R, S
  <2>6. Cardinality(S) \in Nat
    BY <2>5, FS_CardinalityType
  <2>7. Cardinality(S) < Cardinality(R)
    BY <2>4, <2>5, <2>6
  <2> QED
    BY <2>7 DEF R, S
<1> QED
  BY <1>1, ThreadInvariance, PTL DEF Spec, LoopEnds

-----------------------------------------------------------------------------
(* Turns.                                                                  *)

\* What TurnsInOrder says of one step.
Turns ==
  \A p \in Priorities, t, u \in Threads :
    In(t, sched.q[p]) /\ In(t, sched'.q[p]) /\ t # u =>
      /\ In(u, sched'.q[p]) /\ ~Before(sched.q[p], u, t) =>
           Before(sched'.q[p], t, u) \/ (ReleasesSeveral /\ BetterRuns(sched', p))
      /\ Before(sched.q[p], t, u) /\ sched'.prio[u] = p => sched'.state[u] # "RUNNING"

\* A call that robs nobody of a turn, or ends the owner of several mutexes.
LEMMA TurnsMean ==
  ASSUME NEW robbed \in BOOLEAN, InTurn(sched, sched', robbed), robbed => ReleasesSeveral
  PROVE  Turns
<1> SUFFICES ASSUME NEW p \in Priorities, NEW t \in Threads, NEW u \in Threads,
                    In(t, sched.q[p]), In(t, sched'.q[p]), t # u
             PROVE  /\ In(u, sched'.q[p]) /\ ~Before(sched.q[p], u, t) =>
                         Before(sched'.q[p], t, u) \/ (ReleasesSeveral /\ BetterRuns(sched', p))
                    /\ Before(sched.q[p], t, u) /\ sched'.prio[u] = p => sched'.state[u] # "RUNNING"
  BY DEF Turns
<1>1. In(u, sched'.q[p]) /\ ~Before(sched.q[p], u, t) => Before(sched'.q[p], t, u) \/ (robbed /\ BetterRuns(sched', p))
  BY DEF InTurn, Ordered
<1>2. Before(sched.q[p], t, u) /\ sched'.prio[u] = p => sched'.state[u] # "RUNNING"
  BY DEF InTurn, Unjumped
<1> QED
  BY <1>1, <1>2

LEMMA CalmTurns == ASSUME InTurn(sched, sched', FALSE) PROVE Turns
<1>1. FALSE \in BOOLEAN
  OBVIOUS
<1> QED
  BY <1>1, TurnsMean

LEMMA IdleTurns == ASSUME ThreadInv, sched' = sched PROVE Turns
<1>1. Exact(sched, {}) /\ SameRuns(sched, sched')
  BY DEF ThreadInv, ListsInv, SameRuns
<1>2. InTurn(sched, sched', FALSE)
  BY <1>1, SameRunsTurns
<1> QED
  BY <1>2, CalmTurns

\* The death of a thread, which releases what it owns.
LEMMA DeathTurns ==
  ASSUME ThreadInv, NEW t \in Threads, UnlockAllMutex(t), InTurn(sched, sched', Len(owned[t]) > 1)
  PROVE  Turns
<1> DEFINE robbed == Len(owned[t]) > 1
<1>1. robbed \in BOOLEAN
  OBVIOUS
<1>2. owned'[t] = <<>>
  BY DEF ThreadInv, TypeOK, UnlockAllMutex
<1>3. robbed => ReleasesSeveral
  BY <1>2 DEF ReleasesSeveral
<1> HIDE DEF robbed
<1>4. InTurn(sched, sched', robbed)
  BY DEF robbed
<1> QED
  BY <1>1, <1>3, <1>4, TurnsMean

\* No call about threads lets anybody jump the queue.
LEMMA ThreadCallTurns == ASSUME ThreadInv, ThreadCall PROVE Turns
<1>1. ASSUME NEW t \in Threads \ {Default}, NEW p \in Priorities, NEW d \in Attributes,
             OSCreateThread(t, p, d)
      PROVE  Turns
  BY <1>1, CreateLists, CalmTurns
<1>2. ASSUME NEW t \in Threads, OSResumeThread(t) PROVE Turns
  BY <1>2, ResumeLists, CalmTurns
<1>3. ASSUME NEW t \in Threads, OSSuspendThread(t) PROVE Turns
  BY <1>3, SuspendLists, CalmTurns
<1>4. ASSUME NEW t \in Threads, NEW w \in WaitQueues, OSSleepThread(t, w) PROVE Turns
  BY <1>4, SleepLists, CalmTurns
<1>5. ASSUME NEW w \in WaitQueues, OSWakeupThread(w) PROVE Turns
  BY <1>5, WakeupLists, CalmTurns
<1>6. ASSUME NEW t \in Threads, OSYieldThread(t) PROVE Turns
  BY <1>6, YieldLists, CalmTurns
<1>7. ASSUME NEW t \in Threads \ {Default}, OSCancelThread(t) PROVE Turns
  <2>1. UnlockAllMutex(t)
    BY <1>7 DEF OSCancelThread
  <2>2. InTurn(sched, sched', Len(owned[t]) > 1)
    BY <1>7, CancelLists
  <2> QED
    BY <2>1, <2>2, DeathTurns
<1>8. ASSUME NEW t \in Threads \ {Default}, NEW v \in ExitValues, OSExitThread(t, v) PROVE Turns
  <2>1. UnlockAllMutex(t)
    BY <1>8 DEF OSExitThread
  <2>2. InTurn(sched, sched', Len(owned[t]) > 1)
    BY <1>8, ExitLists
  <2> QED
    BY <2>1, <2>2, DeathTurns
<1>9. ASSUME NEW t \in Threads, OSJoinThread(t) PROVE Turns
  BY <1>9, JoinLists, CalmTurns
<1>10. ASSUME OSDisableScheduler \/ OSEnableScheduler PROVE Turns
  BY <1>10, CountLists, CalmTurns
<1> QED
  BY <1>1, <1>2, <1>3, <1>4, <1>5, <1>6, <1>7, <1>8, <1>9, <1>10 DEF ThreadCall

\* Nor does a call about mutexes, or a turn of the loop that retries locks.
LEMMA MutexCallTurns ==
  ASSUME ThreadInv, MutexCall \/ \E t \in Threads : ProcessPendingLocks(t) PROVE Turns
<1>1. ASSUME NEW t \in Threads, NEW m \in Mutexes, Running(t), ~Lockable(t, m), Contend(t, m) PROVE Turns
  BY <1>1, ContendLists, CalmTurns
<1>2. ASSUME NEW t \in Threads, NEW m \in Mutexes, OSLockMutex(t, m) \/ OSTryLockMutex(t, m) PROVE Turns
  <2>1. Running(t)
    BY <1>2 DEF OSLockMutex, OSTryLockMutex, Program
  <2>2. sched' = sched \/ (~Lockable(t, m) /\ Contend(t, m))
    BY <1>2 DEF OSLockMutex, OSTryLockMutex, Acquire
  <2> QED
    BY <1>1, <2>1, <2>2, IdleTurns
<1>3. ASSUME NEW t \in Threads, NEW m \in Mutexes, OSUnlockMutex(t, m) PROVE Turns
  <2>1. Running(t) /\ owner[m] = t
    BY <1>3 DEF OSUnlockMutex, Program
  <2>2. CASE Release(t, m) /\ sched' = WakeupThread(DropInherited(sched, t, owned'), m)
    BY <2>1, <2>2, UnlockLists, CalmTurns
  <2>3. CASE sched' = sched
    BY <2>3, IdleTurns
  <2> QED
    BY <1>3, <2>2, <2>3 DEF OSUnlockMutex
<1>4. ASSUME NEW t \in Threads, NEW c \in Conds, NEW m \in Mutexes, OSWaitCond(t, c, m) PROVE Turns
  BY <1>4, WaitCondLists, CalmTurns
<1>5. ASSUME NEW c \in Conds, OSSignalCond(c) PROVE Turns
  BY <1>5, WakeupLists, CalmTurns DEF OSSignalCond
<1>6. ASSUME NEW t \in Threads, ProcessPendingLocks(t) PROVE Turns
  <2>1. waiting[t] \in Mutexes /\ Running(t)
    BY <1>6 DEF ThreadInv, TypeOK, ProcessPendingLocks, PendingLock
  <2>2. sched' = sched \/ (~Lockable(t, waiting[t]) /\ Contend(t, waiting[t]))
    BY <1>6 DEF ProcessPendingLocks, Acquire
  <2> QED
    BY <1>1, <2>1, <2>2, IdleTurns
<1> QED
  BY <1>2, <1>3, <1>4, <1>5, <1>6 DEF MutexCall

\* Threads of one priority take turns, but for the turn that is lost when the owner of
\* several mutexes dies and a later release wakes a better thread than an earlier one.
THEOREM TurnsInOrderAlways == Spec => TurnsInOrder
<1>1. ThreadInv /\ [Next]_vars => [Turns]_vars
  <2> SUFFICES ASSUME ThreadInv, Next PROVE Turns
    OBVIOUS
  <2> QED
    BY ThreadCallTurns, MutexCallTurns DEF Next
<1>2. Spec => [][Turns]_vars
  BY <1>1, ThreadInvariance, PTL DEF Spec
<1> QED
  BY <1>2 DEF TurnsInOrder, Turns
=============================================================================
