--------------------------- MODULE OSMessageProofs ---------------------------
(***************************************************************************)
(* Proofs about the message queues, for every number of threads, queues    *)
(* and slots: nobody sleeps in vain, and the circular buffer is the        *)
(* bounded mailbox of Mailbox.tla.                                         *)
(***************************************************************************)
EXTENDS OSMessageProps, OSThreadProofs

MessageInv == ThreadInv /\ MessageTypeOK /\ NobodySleepsInVain

\* The index of the n-th place of a buffer, for places no further than one round.
LEMMA Wraps ==
  ASSUME NEW c \in Nat \ {0}, NEW first \in 0 .. c - 1, NEW n \in 0 .. c
  PROVE  /\ (first + n) % c \in 0 .. c - 1
         /\ (first + n) % c = IF first + n < c THEN first + n ELSE first + n - c
<1>1. CASE first + n < c
  <2>1. \A a \in 0 .. c - 1 : a % c = a
    OBVIOUS
  <2> QED
    BY <1>1, <2>1
<1>2. CASE first + n >= c
  <2>1. \A a \in c .. 2 * c - 1 : a % c = a - c
    OBVIOUS
  <2> QED
    BY <1>2, <2>1
<1> QED
  BY <1>1, <1>2

\* What is known of the fields of one message queue.
LEMMA QueueTypes ==
  ASSUME MessageTypeOK, NEW k \in MsgQueues
  PROVE  /\ Capacity[k] \in Nat /\ mq[k].used \in 0 .. Capacity[k]
         /\ mq[k].slot \in [0 .. Capacity[k] - 1 -> Messages \cup {NoMessage}]
         /\ Capacity[k] # 0 => mq[k].first \in 0 .. Capacity[k] - 1
         /\ SendQueue[k] \in SleepQueues \ WaitQueues /\ ReceiveQueue[k] \in SleepQueues \ WaitQueues
<1>1. mq[k] \in Buffer(k)
  BY DEF MessageTypeOK
<1>2. Capacity[k] \in Nat
  BY MessageAssumption
<1>3. SendQueue[k] \in SleepQueues \ WaitQueues /\ ReceiveQueue[k] \in SleepQueues \ WaitQueues
  BY MessageAssumption
<1> QED
  BY <1>1, <1>2, <1>3 DEF Buffer

-----------------------------------------------------------------------------
(* The threads.                                                            *)

\* No thread call puts anyone to sleep on the queues of a message queue.
LEMMA CallsShrink ==
  ASSUME ThreadInv, ThreadCall
  PROVE  \A w \in SleepQueues \ WaitQueues : ToSet(sched'.q[w]) \subseteq ToSet(sched.q[w])
<1>1. ASSUME Quiet
      PROVE  \A w \in SleepQueues \ WaitQueues : ToSet(sched'.q[w]) \subseteq ToSet(sched.q[w])
  BY <1>1 DEF Quiet, Keeps
<1>2. ASSUME NEW t \in Threads \ {Default}, NEW p \in Priorities, NEW d \in Attributes,
             OSCreateThread(t, p, d)
      PROVE  \A w \in SleepQueues \ WaitQueues : ToSet(sched'.q[w]) \subseteq ToSet(sched.q[w])
  BY <1>2, CreateLists
<1>3. ASSUME NEW t \in Threads,
             OSResumeThread(t) \/ OSSuspendThread(t) \/ OSYieldThread(t) \/ OSJoinThread(t)
      PROVE  Quiet
  BY <1>3, ResumeLists, SuspendLists, YieldLists, JoinLists
<1>4. ASSUME NEW t \in Threads, NEW w \in WaitQueues, OSSleepThread(t, w)
      PROVE  \A v \in SleepQueues \ WaitQueues : ToSet(sched'.q[v]) \subseteq ToSet(sched.q[v])
  BY <1>4, SleepLists
<1>5. ASSUME NEW w \in WaitQueues, OSWakeupThread(w) PROVE Quiet
  BY <1>5, WakeupLists
<1>6. ASSUME NEW t \in Threads \ {Default},
             OSCancelThread(t) \/ \E v \in ExitValues : OSExitThread(t, v)
      PROVE  \A w \in SleepQueues \ WaitQueues : ToSet(sched'.q[w]) \subseteq ToSet(sched.q[w])
  <2>1. Ended(sched, sched', t)
    BY <1>6, CancelLists, ExitLists
  <2> QED
    BY <2>1 DEF Ended
<1>7. ASSUME OSDisableScheduler \/ OSEnableScheduler PROVE Quiet
  BY <1>7, CountLists
<1> QED
  BY <1>1, <1>2, <1>3, <1>4, <1>5, <1>6, <1>7 DEF ThreadCall

\* A caller that finds no room, or no message, sleeps on the one queue meant for it.
LEMMA BlockLists ==
  ASSUME ThreadInv, NEW t \in Threads, NEW w \in SleepQueues, Block(t, w)
  PROVE  /\ ListsInv' /\ \A u \in Threads : sched'.state[u] \in Live <=> sched.state[u] \in Live
         /\ \A v \in SleepQueues \ {w} : ToSet(sched'.q[v]) \subseteq ToSet(sched.q[v])
<1>1. /\ Exact(sched, {}) /\ sched.cur = t /\ sched.state[t] = "RUNNING"
      /\ sched' = SleepThread(sched, w)
  BY DEF ThreadInv, ListsInv, Block, Program, Running
<1> QED
  BY <1>1, SleepExact DEF ListsInv

\* Whoever sleeps on a queue of a message queue wants no mutex: ThreadInv survives.
LEMMA BlockInv ==
  ASSUME ThreadInv, NEW t \in Threads, NEW k \in MsgQueues,
         Block(t, SendQueue[k]) \/ Block(t, ReceiveQueue[k]),
         UNCHANGED <<detached, active, mutexVars, val>>
  PROVE  ThreadInv'
<1>1. SendQueue[k] \in SleepQueues \ Mutexes /\ ReceiveQueue[k] \in SleepQueues \ Mutexes
  BY MessageAssumption
<1>2. PICK w \in SleepQueues \ Mutexes : Block(t, w)
  BY <1>1
<1>3. /\ ListsInv' /\ \A u \in Threads : sched'.state[u] \in Live <=> sched.state[u] \in Live
      /\ \A v \in SleepQueues \ {w} : ToSet(sched'.q[v]) \subseteq ToSet(sched.q[v])
  BY <1>2, BlockLists
<1>4. \A m \in Mutexes : ToSet(sched'.q[m]) \subseteq ToSet(sched.q[m])
  BY <1>2, <1>3, ThreadsAssumption
<1>5. active' \subseteq Threads
  BY DEF ThreadInv, TypeOK
<1> QED
  BY <1>3, <1>4, <1>5, SleepInv DEF mutexVars

\* A wake-up empties the queue and puts nobody to sleep anywhere.
LEMMA WakeInv ==
  ASSUME ThreadInv, NEW w \in SleepQueues, sched' = WakeupThread(sched, w),
         UNCHANGED <<detached, active, mutexVars, val>>
  PROVE  /\ ThreadInv' /\ sched'.q[w] = <<>>
         /\ \A v \in SleepQueues : ToSet(sched'.q[v]) \subseteq ToSet(sched.q[v])
<1>1. Quiet /\ sched'.q[w] = <<>>
  BY WakeupExact DEF ThreadInv, ListsInv, Quiet
<1>2. active' \subseteq Threads
  BY DEF ThreadInv, TypeOK
<1> QED
  BY <1>1, <1>2, QuietInv DEF mutexVars, Quiet, Keeps

\* A queue that only shrinks does not become non-empty.
LEMMA StaysEmpty ==
  ASSUME ThreadInv, ThreadInv', NEW w \in SleepQueues,
         ToSet(sched'.q[w]) \subseteq ToSet(sched.q[w]), sched.q[w] = <<>>
  PROVE  sched'.q[w] = <<>>
<1>1. w \in Queues /\ sched'.q[w] \in Seq(Threads) /\ sched.q[w] \in Seq(Threads)
  BY Kinds DEF ThreadInv, ListsInv, Exact, ListsExact, Lines
<1>2. sched'.q[w] = <<>> <=> ToSet(sched'.q[w]) = {}
  BY <1>1, SeqFacts
<1>3. sched.q[w] = <<>> <=> ToSet(sched.q[w]) = {}
  BY <1>1, SeqFacts
<1> QED
  BY <1>2, <1>3

\* Nobody sleeps in vain after a step that, of each queue of sleepers, has emptied it, or lets
\* it only shrink without changing how full the buffer is, or has just let a thread that found
\* no message, or no room, join it.
LEMMA VainKept ==
  ASSUME MessageInv, ThreadInv',
         \A k \in MsgQueues :
           /\ \/ sched'.q[ReceiveQueue[k]] = <<>> \/ mq'[k].used = 0
              \/ /\ mq'[k].used <= mq[k].used
                 /\ ToSet(sched'.q[ReceiveQueue[k]]) \subseteq ToSet(sched.q[ReceiveQueue[k]])
                 /\ mq'[k].used \in Nat
           /\ \/ sched'.q[SendQueue[k]] = <<>> \/ mq'[k].used = Capacity[k]
              \/ /\ mq'[k].used >= mq[k].used
                 /\ ToSet(sched'.q[SendQueue[k]]) \subseteq ToSet(sched.q[SendQueue[k]])
                 /\ mq'[k].used \in 0 .. Capacity[k]
  PROVE  NobodySleepsInVain'
<1> SUFFICES ASSUME NEW k \in MsgQueues
             PROVE  /\ sched'.q[ReceiveQueue[k]] # <<>> => mq'[k].used = 0
                    /\ sched'.q[SendQueue[k]] # <<>> => mq'[k].used = Capacity[k]
  BY DEF NobodySleepsInVain
<1>1. /\ SendQueue[k] \in SleepQueues /\ ReceiveQueue[k] \in SleepQueues
      /\ mq[k].used \in 0 .. Capacity[k] /\ Capacity[k] \in Nat /\ ThreadInv
      /\ sched.q[ReceiveQueue[k]] # <<>> => mq[k].used = 0
      /\ sched.q[SendQueue[k]] # <<>> => mq[k].used = Capacity[k]
  BY QueueTypes DEF MessageInv, NobodySleepsInVain
<1>2. sched'.q[ReceiveQueue[k]] # <<>> => mq'[k].used = 0
  BY <1>1, StaysEmpty
<1>3. sched'.q[SendQueue[k]] # <<>> => mq'[k].used = Capacity[k]
  BY <1>1, StaysEmpty
<1> QED
  BY <1>2, <1>3

-----------------------------------------------------------------------------
(* The buffer, and the messages it holds.                                  *)

\* The messages of a buffer of c slots, oldest first.
Held(first, used, slot, c) == [i \in 1 .. used |-> slot[(first + i - 1) % c]]

\* A mailbox after a send, after a jam, and after a receive of its first message.
Sent(ms, msg) == Append(ms, msg)
Jammed(ms, msg) == <<msg>> \o ms
Oldest(ms) == Head(ms)
Received(ms) == Tail(ms)

\* A sent message is the last of those the buffer holds.
LEMMA SendHeld ==
  ASSUME NEW V, NEW c \in Nat \ {0}, NEW first \in 0 .. c - 1, NEW used \in 0 .. c - 1,
         NEW slot \in [0 .. c - 1 -> V], NEW msg \in V, NEW to \in [0 .. c - 1 -> V],
         NEW last, last = (first + used) % c, to[last] = msg, NEW j, j = first,
         \A i \in 0 .. c - 1 : i # last => to[i] = slot[i],
         NEW n, n = used + 1, NEW old, old = Held(first, used, slot, c)
  PROVE  Held(j, n, to, c) = Sent(old, msg)
<1> DEFINE new == Held(first, n, to, c)
<1>1. last \in 0 .. c - 1 /\ last = IF first + used < c THEN first + used ELSE first + used - c
  <2>1. used \in 0 .. c
    OBVIOUS
  <2> QED
    BY <2>1, Wraps
<1>2. to[last] = msg /\ \A i \in 0 .. c - 1 : i # last => to[i] = slot[i]
  OBVIOUS
<1>3. ASSUME NEW i \in 1 .. used
      PROVE  /\ (first + i - 1) % c \in 0 .. c - 1 /\ (first + i - 1) % c # last
  <2>1. i - 1 \in 0 .. c /\ first + i - 1 = first + (i - 1)
    OBVIOUS
  <2>2. /\ (first + (i - 1)) % c \in 0 .. c - 1
        /\ (first + (i - 1)) % c = IF first + (i - 1) < c THEN first + (i - 1) ELSE first + (i - 1) - c
    BY <2>1, Wraps
  <2> QED
    BY <1>1, <2>1, <2>2
<1>4. first + n - 1 = first + used /\ n \in Nat
  OBVIOUS
<1>5. \A i \in 1 .. used : to[(first + i - 1) % c] = slot[(first + i - 1) % c]
  BY <1>2, <1>3
<1>6. old \in [1 .. used -> V] /\ new \in [1 .. n -> V]
  <2>1. \A i \in 1 .. used : slot[(first + i - 1) % c] \in V
    BY <1>3
  <2>2. \A i \in 1 .. n : to[(first + i - 1) % c] \in V
    <3> TAKE i \in 1 .. n
    <3>1. CASE i \in 1 .. used
      BY <1>2, <1>3, <3>1
    <3>2. CASE i = n
      BY <1>1, <1>2, <1>4, <3>2
    <3> QED
      BY <3>1, <3>2
  <2> QED
    BY <2>1, <2>2 DEF Held
<1>7. old \in Seq(V) /\ Len(old) = used
  BY <1>6, MakeSeq
<1>8. /\ \A i \in 1 .. used : new[i] = old[i]
      /\ new[n] = msg
  <2>1. \A i \in 1 .. n : new[i] = to[(first + i - 1) % c]
    BY DEF Held
  <2>2. \A i \in 1 .. used : old[i] = slot[(first + i - 1) % c]
    BY DEF Held
  <2>3. n \in 1 .. n /\ \A i \in 1 .. used : i \in 1 .. n
    OBVIOUS
  <2>4. to[(first + n - 1) % c] = msg
    BY <1>2, <1>4
  <2> HIDE DEF new
  <2> QED
    BY <1>5, <2>1, <2>2, <2>3, <2>4
<1> HIDE DEF new
<1>9. new = Append(old, msg)
  BY <1>6, <1>7, <1>8, AppendIs
<1> QED
  BY <1>9 DEF new, Sent

\* A jammed message is the first of those the buffer holds.
LEMMA JamHeld ==
  ASSUME NEW V, NEW c \in Nat \ {0}, NEW first \in 0 .. c - 1, NEW used \in 0 .. c - 1,
         NEW slot \in [0 .. c - 1 -> V], NEW msg \in V, NEW to \in [0 .. c - 1 -> V],
         NEW j, j = (first + (c - 1)) % c, to[j] = msg,
         NEW n, n = used + 1, NEW old, old = Held(first, used, slot, c),
         \A i \in 0 .. c - 1 : i # j => to[i] = slot[i]
  PROVE  Held(j, n, to, c) = Jammed(old, msg)
<1> DEFINE new == Held(j, n, to, c)
<1>1. j \in 0 .. c - 1 /\ j = IF first = 0 THEN c - 1 ELSE first - 1
  <2>1. c - 1 \in 0 .. c
    OBVIOUS
  <2>2. j \in 0 .. c - 1 /\ j = IF first + (c - 1) < c THEN first + (c - 1) ELSE first + (c - 1) - c
    BY <2>1, Wraps
  <2> QED
    BY <2>2
<1>2. to[j] = msg /\ \A i \in 0 .. c - 1 : i # j => to[i] = slot[i]
  OBVIOUS
<1>3. ASSUME NEW i \in 1 .. used
      PROVE  /\ (first + i - 1) % c \in 0 .. c - 1 /\ (first + i - 1) % c # j
             /\ (j + (i + 1) - 1) % c = (first + i - 1) % c
  <2>1. i - 1 \in 0 .. c /\ first + i - 1 = first + (i - 1) /\ i \in 0 .. c /\ j + (i + 1) - 1 = j + i
    BY <1>1
  <2>2. /\ (first + (i - 1)) % c \in 0 .. c - 1
        /\ (first + (i - 1)) % c = IF first + (i - 1) < c THEN first + (i - 1) ELSE first + (i - 1) - c
    BY <2>1, Wraps
  <2>3. (j + i) % c = IF j + i < c THEN j + i ELSE j + i - c
    BY <1>1, <2>1, Wraps
  <2>4. (first + (i - 1)) % c # j
    BY <1>1, <2>2
  <2>5. (j + i) % c = (first + (i - 1)) % c
    <3>1. CASE first = 0
      BY <1>1, <2>2, <2>3, <3>1
    <3>2. CASE first # 0
      <4>1. j + i = first + (i - 1)
        BY <1>1, <3>2
      <4> QED
        BY <4>1
    <3> QED
      BY <3>1, <3>2
  <2> QED
    BY <2>1, <2>2, <2>4, <2>5
<1>4. (j + 1 - 1) % c = j
  <2>1. j + 1 - 1 = j + 0 /\ 0 \in 0 .. c
    BY <1>1
  <2>2. (j + 0) % c = IF j + 0 < c THEN j + 0 ELSE j + 0 - c
    BY <1>1, <2>1, Wraps
  <2> QED
    BY <1>1, <2>1, <2>2
<1>5. ASSUME NEW i \in 1 .. used
      PROVE  to[(j + (i + 1) - 1) % c] = slot[(first + i - 1) % c]
  BY <1>2, <1>3
<1>6. old \in [1 .. used -> V] /\ new \in [1 .. n -> V]
  <2>1. \A i \in 1 .. used : slot[(first + i - 1) % c] \in V
    BY <1>3
  <2>2. \A i \in 1 .. n : to[(j + i - 1) % c] \in V
    <3> TAKE i \in 1 .. n
    <3>1. CASE i = 1
      BY <1>1, <1>2, <1>4, <3>1
    <3>2. CASE i # 1
      <4>1. i - 1 \in 1 .. used /\ (i - 1) + 1 = i
        BY <3>2
      <4> QED
        BY <1>3, <1>5, <4>1
    <3> QED
      BY <3>1, <3>2
  <2> QED
    BY <2>1, <2>2 DEF Held
<1>7. old \in Seq(V) /\ Len(old) = used
  BY <1>6, MakeSeq
<1>8. new[1] = msg /\ \A i \in 1 .. used : new[i + 1] = old[i]
  <2>1. \A i \in 1 .. n : new[i] = to[(j + i - 1) % c]
    BY DEF Held
  <2>2. \A i \in 1 .. used : old[i] = slot[(first + i - 1) % c]
    BY DEF Held
  <2>3. 1 \in 1 .. n /\ \A i \in 1 .. used : i + 1 \in 1 .. n
    OBVIOUS
  <2>4. to[(j + 1 - 1) % c] = msg
    BY <1>2, <1>4
  <2> HIDE DEF new
  <2> QED
    BY <1>5, <2>1, <2>2, <2>3, <2>4
<1> HIDE DEF new
<1>9. new = <<msg>> \o old
  <2>1. <<msg>> \o old = [i \in 1 .. n |-> IF i = 1 THEN msg ELSE old[i - 1]]
    BY <1>7
  <2>2. \A i \in 2 .. n : new[i] = old[i - 1]
    <3> TAKE i \in 2 .. n
    <3>1. i - 1 \in 1 .. used /\ (i - 1) + 1 = i
      OBVIOUS
    <3> QED
      BY <1>8, <3>1
  <2> QED
    BY <1>6, <1>8, <2>1, <2>2
<1> QED
  BY <1>9 DEF new, Jammed

\* A circular buffer of c slots that starts at first.
Circular(V, c, first, slot) ==
  c \in Nat \ {0} /\ first \in 0 .. c - 1 /\ slot \in [0 .. c - 1 -> V]

\* A received message was the first of those the buffer held.
LEMMA ReceiveHeld ==
  ASSUME NEW V, NEW c, NEW first, NEW slot, Circular(V, c, first, slot), NEW used \in 1 .. c,
         NEW n, n = (first + 1) % c, NEW less, less = used - 1,
         NEW old, old = Held(first, used, slot, c), NEW new, new = Held(n, less, slot, c)
  PROVE  old # <<>> /\ Oldest(old) = slot[first] /\ Received(old) = new
<1>0. c \in Nat \ {0} /\ first \in 0 .. c - 1 /\ slot \in [0 .. c - 1 -> V]
  BY DEF Circular
<1> USE <1>0
<1>1. n \in 0 .. c - 1 /\ n = IF first + 1 < c THEN first + 1 ELSE first + 1 - c
  <2>1. 1 \in 0 .. c
    OBVIOUS
  <2> QED
    BY <2>1, Wraps
<1>2. ASSUME NEW i \in 1 .. used
      PROVE  /\ (first + i - 1) % c \in 0 .. c - 1
             /\ (first + i - 1) % c = IF first + i - 1 < c THEN first + i - 1 ELSE first + i - 1 - c
  <2>1. i - 1 \in 0 .. c /\ first + i - 1 = first + (i - 1)
    OBVIOUS
  <2>2. /\ (first + (i - 1)) % c \in 0 .. c - 1
        /\ (first + (i - 1)) % c = IF first + (i - 1) < c THEN first + (i - 1) ELSE first + (i - 1) - c
    BY <2>1, Wraps
  <2> QED
    BY <2>1, <2>2
<1>3. ASSUME NEW i \in 1 .. used - 1
      PROVE  (n + i - 1) % c = (first + (i + 1) - 1) % c
  <2>1. i - 1 \in 0 .. c /\ n + i - 1 = n + (i - 1) /\ i + 1 \in 1 .. used
    BY <1>1
  <2>2. (n + (i - 1)) % c = IF n + (i - 1) < c THEN n + (i - 1) ELSE n + (i - 1) - c
    BY <1>1, <2>1, Wraps
  <2>3. (first + (i + 1) - 1) % c
          = IF first + (i + 1) - 1 < c THEN first + (i + 1) - 1 ELSE first + (i + 1) - 1 - c
    BY <1>2, <2>1
  <2>4. CASE first + 1 < c
    <3>1. n + (i - 1) = first + (i + 1) - 1
      BY <1>1, <2>4
    <3> QED
      BY <2>1, <3>1
  <2>5. CASE ~(first + 1 < c)
    <3>1. n = 0 /\ first = c - 1
      BY <1>1, <2>5
    <3> QED
      BY <2>1, <2>2, <2>3, <3>1
  <2> QED
    BY <2>4, <2>5
<1>4. old \in [1 .. used -> V]
  <2>1. \A i \in 1 .. used : slot[(first + i - 1) % c] \in V
    BY <1>2
  <2> QED
    BY <2>1 DEF Held
<1>5. new = [i \in 1 .. used - 1 |-> old[i + 1]]
  <2>1. new = [i \in 1 .. used - 1 |-> slot[(n + i - 1) % c]]
    BY DEF Held
  <2>2. \A i \in 1 .. used - 1 : old[i + 1] = slot[(first + (i + 1) - 1) % c]
    BY DEF Held
  <2> QED
    BY <1>3, <2>1, <2>2
<1>6. old[1] = slot[first]
  <2>1. 1 \in 1 .. used /\ first + 1 - 1 = first /\ first < c
    OBVIOUS
  <2>2. (first + 1 - 1) % c = first
    BY <1>2, <2>1
  <2>3. old[1] = slot[(first + 1 - 1) % c]
    BY <2>1 DEF Held
  <2> QED
    BY <2>2, <2>3
<1>7. old \in Seq(V) /\ Len(old) = used
  BY <1>4, MakeSeq
<1>8. old # <<>> /\ Head(old) = old[1]
  <2>1. used # 0
    OBVIOUS
  <2> QED
    BY <1>7, <2>1
<1>9. new = Tail(old)
  <2>1. /\ Tail(old) \in Seq(V) /\ Len(Tail(old)) = used - 1
        /\ \A i \in 1 .. used - 1 : Tail(old)[i] = old[i + 1]
    BY <1>7, <1>8, HeadTailProperties
  <2>2. used - 1 \in Nat /\ \A i \in 1 .. used - 1 : i + 1 \in 1 .. used
    OBVIOUS
  <2>3. new \in [1 .. used - 1 -> V]
    BY <1>4, <1>5, <2>2
  <2>4. new \in Seq(V) /\ Len(new) = used - 1
    BY <2>2, <2>3, MakeSeq
  <2>5. \A i \in 1 .. used - 1 : new[i] = Tail(old)[i]
    BY <1>5, <2>1
  <2> QED
    BY <2>1, <2>4, <2>5, SeqEqual
<1> QED
  BY <1>6, <1>8, <1>9 DEF Oldest, Received

-----------------------------------------------------------------------------
(* The steps.                                                              *)

\* A step of the mailbox, or none.
BoxStep == [MailboxSpec!Next]_<<box, received>>

\* A step on one queue leaves the types and the mailboxes of the others as they were.
LEMMA OneQueue ==
  ASSUME MessageTypeOK, NEW k \in MsgQueues, NEW b \in Buffer(k), mq' = [mq EXCEPT ![k] = b],
         received' \in Messages \cup {NoMessage}
  PROVE  /\ MessageTypeOK' /\ mq'[k] = b /\ \A l \in MsgQueues \ {k} : mq'[l] = mq[l]
         /\ box' = [box EXCEPT ![k] = Held(b.first, b.used, b.slot, Capacity[k])]
         /\ box[k] = Held(mq[k].first, mq[k].used, mq[k].slot, Capacity[k])
<1>1. /\ mq' \in [MsgQueues -> UNION {Buffer(l) : l \in MsgQueues}]
      /\ mq'[k] = b /\ \A l \in MsgQueues \ {k} : mq'[l] = mq[l]
  BY DEF MessageTypeOK
<1>2. \A l \in MsgQueues : mq'[l] \in Buffer(l)
  BY <1>1 DEF MessageTypeOK
<1>3. MessageTypeOK'
  BY <1>1, <1>2 DEF MessageTypeOK, Buffer
<1>4. /\ box = [l \in MsgQueues |-> Held(mq[l].first, mq[l].used, mq[l].slot, Capacity[l])]
      /\ box' = [l \in MsgQueues |-> Held(mq'[l].first, mq'[l].used, mq'[l].slot, Capacity[l])]
  BY DEF box, Held
<1>5. box' = [box EXCEPT ![k] = Held(b.first, b.used, b.slot, Capacity[k])]
  BY <1>1, <1>4
<1>6. box[k] = Held(mq[k].first, mq[k].used, mq[k].slot, Capacity[k])
  BY <1>4
<1> QED
  BY <1>1, <1>3, <1>5, <1>6

\* A sleeper takes nothing and leaves nothing, and found the queue full or empty.
LEMMA BlockedStep ==
  ASSUME MessageInv, NEW t \in Threads, NEW k \in MsgQueues,
         \/ Full(k) /\ Block(t, SendQueue[k])
         \/ Empty(k) /\ Block(t, ReceiveQueue[k]),
         UNCHANGED <<detached, active, mutexVars, val>>
  PROVE  MessageInv' /\ BoxStep
<1>1. ThreadInv' /\ mq' = mq /\ received' = received
  BY BlockInv DEF MessageInv, Block, msgVars
<1>2. MessageTypeOK' /\ box' = box
  BY <1>1 DEF MessageInv, MessageTypeOK, Buffer, box
<1>3. PICK w \in {SendQueue[k], ReceiveQueue[k]} :
        /\ Block(t, w) /\ w \in SleepQueues
        /\ w = SendQueue[k] => Full(k)
        /\ w = ReceiveQueue[k] => Empty(k)
  BY MessageAssumption, QueueTypes DEF MessageInv
<1>4. \A v \in SleepQueues \ {w} : ToSet(sched'.q[v]) \subseteq ToSet(sched.q[v])
  BY <1>3, BlockLists DEF MessageInv
<1>5. ASSUME NEW l \in MsgQueues
      PROVE  /\ \/ mq'[l].used = 0
                \/ /\ mq'[l].used <= mq[l].used
                   /\ ToSet(sched'.q[ReceiveQueue[l]]) \subseteq ToSet(sched.q[ReceiveQueue[l]])
                   /\ mq'[l].used \in Nat
             /\ \/ mq'[l].used = Capacity[l]
                \/ /\ mq'[l].used >= mq[l].used
                   /\ ToSet(sched'.q[SendQueue[l]]) \subseteq ToSet(sched.q[SendQueue[l]])
                   /\ mq'[l].used \in 0 .. Capacity[l]
  <2>1. /\ mq[l].used \in 0 .. Capacity[l] /\ Capacity[l] \in Nat
        /\ SendQueue[l] \in SleepQueues /\ ReceiveQueue[l] \in SleepQueues
    BY QueueTypes DEF MessageInv
  <2>2. ReceiveQueue[l] = w => l = k
    BY <1>3, MessageAssumption DEF IsInjective
  <2>3. SendQueue[l] = w => l = k
    BY <1>3, MessageAssumption DEF IsInjective
  <2>4. ReceiveQueue[l] = w => mq'[l].used = 0
    BY <1>1, <1>3, <2>2 DEF Empty
  <2>5. SendQueue[l] = w => mq'[l].used = Capacity[l]
    BY <1>1, <1>3, <2>1, <2>3 DEF Full
  <2> QED
    BY <1>1, <1>4, <2>1, <2>4, <2>5
<1>6. NobodySleepsInVain'
  BY <1>1, <1>5, VainKept
<1> QED
  BY <1>1, <1>2, <1>6 DEF MessageInv, BoxStep

\* A message more, and nobody waits for one any longer.
LEMMA OneMore ==
  ASSUME MessageInv, NEW k \in MsgQueues, NEW b \in Buffer(k), mq' = [mq EXCEPT ![k] = b],
         b.used = mq[k].used + 1, sched' = WakeupThread(sched, ReceiveQueue[k]),
         UNCHANGED <<received, detached, active, mutexVars, val>>
  PROVE  MessageInv'
<1>1. MessageTypeOK /\ received' \in Messages \cup {NoMessage}
  BY DEF MessageInv, MessageTypeOK
<1>2. ThreadInv' /\ sched'.q[ReceiveQueue[k]] = <<>>
      /\ \A v \in SleepQueues : ToSet(sched'.q[v]) \subseteq ToSet(sched.q[v])
  BY QueueTypes, WakeInv DEF MessageInv
<1>3. MessageTypeOK' /\ mq'[k] = b /\ \A l \in MsgQueues \ {k} : mq'[l] = mq[l]
  BY <1>1, OneQueue
<1>4. ASSUME NEW l \in MsgQueues
      PROVE  /\ \/ sched'.q[ReceiveQueue[l]] = <<>> \/ mq'[l].used = 0
                \/ /\ mq'[l].used <= mq[l].used
                   /\ ToSet(sched'.q[ReceiveQueue[l]]) \subseteq ToSet(sched.q[ReceiveQueue[l]])
                   /\ mq'[l].used \in Nat
             /\ \/ sched'.q[SendQueue[l]] = <<>> \/ mq'[l].used = Capacity[l]
                \/ /\ mq'[l].used >= mq[l].used
                   /\ ToSet(sched'.q[SendQueue[l]]) \subseteq ToSet(sched.q[SendQueue[l]])
                   /\ mq'[l].used \in 0 .. Capacity[l]
  <2>1. /\ mq[l].used \in 0 .. Capacity[l] /\ Capacity[l] \in Nat /\ mq'[l].used \in 0 .. Capacity[l]
        /\ SendQueue[l] \in SleepQueues /\ ReceiveQueue[l] \in SleepQueues
    BY <1>1, <1>3, QueueTypes DEF MessageTypeOK, Buffer
  <2>2. /\ ToSet(sched'.q[ReceiveQueue[l]]) \subseteq ToSet(sched.q[ReceiveQueue[l]])
        /\ ToSet(sched'.q[SendQueue[l]]) \subseteq ToSet(sched.q[SendQueue[l]])
    BY <1>2, <2>1
  <2>3. mq'[l].used = (IF l = k THEN mq[l].used + 1 ELSE mq[l].used)
    BY <1>3
  <2>4. l = k => sched'.q[ReceiveQueue[l]] = <<>>
    BY <1>2
  <2> QED
    BY <2>1, <2>2, <2>3, <2>4
<1>5. NobodySleepsInVain'
  BY <1>2, <1>4, VainKept
<1> QED
  BY <1>2, <1>3, <1>5 DEF MessageInv

\* A message less, and nobody waits for room any longer.
LEMMA OneLess ==
  ASSUME MessageInv, NEW k \in MsgQueues, NEW b \in Buffer(k), mq' = [mq EXCEPT ![k] = b],
         b.used = mq[k].used - 1, sched' = WakeupThread(sched, SendQueue[k]),
         received' \in Messages \cup {NoMessage}, UNCHANGED <<detached, active, mutexVars, val>>
  PROVE  MessageInv'
<1>1. MessageTypeOK
  BY DEF MessageInv
<1>2. ThreadInv' /\ sched'.q[SendQueue[k]] = <<>>
      /\ \A v \in SleepQueues : ToSet(sched'.q[v]) \subseteq ToSet(sched.q[v])
  BY QueueTypes, WakeInv DEF MessageInv
<1>3. MessageTypeOK' /\ mq'[k] = b /\ \A l \in MsgQueues \ {k} : mq'[l] = mq[l]
  BY <1>1, OneQueue
<1>4. ASSUME NEW l \in MsgQueues
      PROVE  /\ \/ sched'.q[ReceiveQueue[l]] = <<>> \/ mq'[l].used = 0
                \/ /\ mq'[l].used <= mq[l].used
                   /\ ToSet(sched'.q[ReceiveQueue[l]]) \subseteq ToSet(sched.q[ReceiveQueue[l]])
                   /\ mq'[l].used \in Nat
             /\ \/ sched'.q[SendQueue[l]] = <<>> \/ mq'[l].used = Capacity[l]
                \/ /\ mq'[l].used >= mq[l].used
                   /\ ToSet(sched'.q[SendQueue[l]]) \subseteq ToSet(sched.q[SendQueue[l]])
                   /\ mq'[l].used \in 0 .. Capacity[l]
  <2>1. /\ mq[l].used \in 0 .. Capacity[l] /\ Capacity[l] \in Nat /\ mq'[l].used \in 0 .. Capacity[l]
        /\ SendQueue[l] \in SleepQueues /\ ReceiveQueue[l] \in SleepQueues
    BY <1>1, <1>3, QueueTypes DEF MessageTypeOK, Buffer
  <2>2. /\ ToSet(sched'.q[ReceiveQueue[l]]) \subseteq ToSet(sched.q[ReceiveQueue[l]])
        /\ ToSet(sched'.q[SendQueue[l]]) \subseteq ToSet(sched.q[SendQueue[l]])
    BY <1>2, <2>1
  <2>3. mq'[l].used = (IF l = k THEN mq[l].used - 1 ELSE mq[l].used)
    BY <1>3
  <2>4. l = k => sched'.q[SendQueue[l]] = <<>>
    BY <1>2
  <2> QED
    BY <2>1, <2>2, <2>3, <2>4
<1>5. NobodySleepsInVain'
  BY <1>2, <1>4, VainKept
<1> QED
  BY <1>2, <1>3, <1>5 DEF MessageInv

\* The fields of a queue that is not full, or not empty.
LEMMA RoomTypes ==
  ASSUME MessageInv, NEW k \in MsgQueues
  PROVE  /\ MessageTypeOK /\ mq[k] \in Buffer(k) /\ mq[k] = [first |-> mq[k].first,
                              used |-> mq[k].used, slot |-> mq[k].slot]
         /\ mq[k].slot \in [0 .. Capacity[k] - 1 -> Messages \cup {NoMessage}]
         /\ ~Full(k) => /\ Capacity[k] \in Nat \ {0} /\ mq[k].first \in 0 .. Capacity[k] - 1
                        /\ mq[k].used \in 0 .. Capacity[k] - 1
         /\ ~Empty(k) => /\ Capacity[k] \in Nat \ {0} /\ mq[k].first \in 0 .. Capacity[k] - 1
                         /\ mq[k].used \in 1 .. Capacity[k]
<1>1. MessageTypeOK /\ mq[k] \in Buffer(k)
  BY DEF MessageInv, MessageTypeOK
<1>2. mq[k] = [first |-> mq[k].first, used |-> mq[k].used, slot |-> mq[k].slot]
  BY <1>1 DEF Buffer
<1>3. ~Full(k) => /\ Capacity[k] \in Nat \ {0} /\ mq[k].first \in 0 .. Capacity[k] - 1
                  /\ mq[k].used \in 0 .. Capacity[k] - 1
  BY <1>1, QueueTypes DEF Full
<1>4. ~Empty(k) => /\ Capacity[k] \in Nat \ {0} /\ mq[k].first \in 0 .. Capacity[k] - 1
                   /\ mq[k].used \in 1 .. Capacity[k]
  BY <1>1, QueueTypes DEF Empty
<1> QED
  BY <1>1, <1>2, <1>3, <1>4, QueueTypes

\* As many messages are in the mailbox as the buffer says.
LEMMA BoxLength ==
  ASSUME NEW k \in MsgQueues, mq[k].used \in Nat
  PROVE  Len(box[k]) = mq[k].used
<1> DEFINE n == mq[k].used
<1>1. box[k] = [i \in 1 .. n |-> mq[k].slot[(mq[k].first + i - 1) % Capacity[k]]]
  BY DEF box
<1> HIDE DEF n
<1>2. n \in Nat
  BY DEF n
<1>3. Len(box[k]) = n
  BY <1>1, <1>2
<1> QED
  BY <1>3 DEF n

\* A buffer with one more message, in slot i: behind the others, or before them.
PutLast(r, i, msg) == [[r EXCEPT !.slot[i] = msg] EXCEPT !.used = @ + 1]
PutFirst(r, i, msg) == [[[r EXCEPT !.slot[i] = msg] EXCEPT !.first = i] EXCEPT !.used = @ + 1]

\* The fields of a buffer that was not full and has taken a message.
LEMMA Filled ==
  ASSUME MessageInv, NEW k \in MsgQueues, ~Full(k), NEW msg \in Messages,
         NEW i \in 0 .. Capacity[k] - 1, NEW j \in 0 .. Capacity[k] - 1, NEW b,
         \/ j = mq[k].first /\ b = PutLast(mq[k], i, msg)
         \/ j = i /\ b = PutFirst(mq[k], i, msg)
  PROVE  /\ b \in Buffer(k) /\ b.first = j /\ b.used = mq[k].used + 1
         /\ b.slot \in [0 .. Capacity[k] - 1 -> Messages \cup {NoMessage}] /\ b.slot[i] = msg
         /\ \A l \in 0 .. Capacity[k] - 1 : l # i => b.slot[l] = mq[k].slot[l]
<1>1. /\ mq[k] \in Buffer(k) /\ mq[k].used \in 0 .. Capacity[k] - 1 /\ Capacity[k] \in Nat \ {0}
      /\ mq[k].slot \in [0 .. Capacity[k] - 1 -> Messages \cup {NoMessage}]
  BY RoomTypes
<1>2. /\ b.first = j /\ b.used = mq[k].used + 1 /\ b.slot = [mq[k].slot EXCEPT ![i] = msg]
      /\ DOMAIN b = {"first", "used", "slot"}
  BY <1>1 DEF Buffer, PutLast, PutFirst
<1>3. /\ b.slot \in [0 .. Capacity[k] - 1 -> Messages \cup {NoMessage}] /\ b.slot[i] = msg
      /\ \A l \in 0 .. Capacity[k] - 1 : l # i => b.slot[l] = mq[k].slot[l]
  BY <1>1, <1>2
<1>4. b.used \in 0 .. Capacity[k]
  BY <1>1, <1>2
<1>5. b \in Buffer(k)
  BY <1>1, <1>2, <1>3, <1>4 DEF Buffer, PutLast, PutFirst
<1> QED
  BY <1>2, <1>3, <1>5

\* OSSendMessage: the message goes behind the others, and whoever waits for one is woken.
LEMMA SendStep ==
  ASSUME MessageInv, NEW t \in Threads, NEW k \in MsgQueues, NEW msg \in Messages,
         OSSendMessage(t, k, msg)
  PROVE  MessageInv' /\ BoxStep
<1>1. CASE Full(k) /\ Block(t, SendQueue[k])
  BY <1>1, BlockedStep DEF OSSendMessage
<1>2. CASE /\ Settled /\ ~Full(k)
           /\ mq' = [mq EXCEPT ![k].slot[Index(k, mq[k].used)] = msg, ![k].used = @ + 1]
           /\ sched' = WakeupThread(sched, ReceiveQueue[k])
           /\ UNCHANGED received
  <2> DEFINE V == Messages \cup {NoMessage}
             c == Capacity[k]
             first == mq[k].first
             used == mq[k].used
             n == used + 1
             last == (first + used) % c
             old == Held(first, used, mq[k].slot, c)
             b == PutLast(mq[k], last, msg)
  <2>1. /\ MessageTypeOK /\ UNCHANGED <<received, detached, active, mutexVars, val>>
        /\ received' \in V
    BY <1>2 DEF MessageInv, MessageTypeOK, OSSendMessage
  <2>2. /\ c \in Nat \ {0} /\ first \in 0 .. c - 1 /\ used \in 0 .. c - 1
        /\ mq[k].slot \in [0 .. c - 1 -> V] /\ msg \in V
    BY <1>2, RoomTypes
  <2>3. last \in 0 .. c - 1
    <3>1. used \in 0 .. c
      BY <2>2
    <3> HIDE DEF c, first, used
    <3> QED
      BY <2>2, <3>1, Wraps
  <2>4. mq' = [mq EXCEPT ![k] = b]
    BY <1>2, <2>1 DEF Index, MessageTypeOK, PutLast
  <2>5. /\ b \in Buffer(k) /\ b.first = first /\ b.used = n
        /\ b.slot \in [0 .. c - 1 -> V] /\ b.slot[last] = msg
        /\ \A l \in 0 .. c - 1 : l # last => b.slot[l] = mq[k].slot[l]
    <3>1. first \in 0 .. c - 1 /\ b = PutLast(mq[k], last, msg)
      BY <2>2
    <3> HIDE DEF last, b
    <3> QED
      BY <1>2, <2>2, <2>3, <3>1, Filled
  <2> HIDE DEF b
  <2>6. MessageInv'
    BY <1>2, <2>1, <2>4, <2>5, OneMore
  <2>7. Held(first, n, b.slot, c) = Append(old, msg)
    <3>1. last = (first + used) % c /\ n = used + 1 /\ old = Held(first, used, mq[k].slot, c)
      OBVIOUS
    <3> DEFINE from == mq[k].slot
               to == b.slot
    <3>2. /\ from \in [0 .. c - 1 -> V] /\ to \in [0 .. c - 1 -> V] /\ to[last] = msg
          /\ \A l \in 0 .. c - 1 : l # last => to[l] = from[l]
          /\ old = Held(first, used, from, c)
      BY <2>2, <2>5
    <3> DEFINE j == first
    <3>3. j = first
      OBVIOUS
    <3> HIDE DEF V, c, first, used, n, last, old, from, to, j
    <3>4. Held(j, n, to, c) = Sent(old, msg)
      BY <2>2, <3>1, <3>2, <3>3, SendHeld
    <3> QED
      BY <3>4 DEF to, j, Sent
  <2>8. box' = [box EXCEPT ![k] = Append(box[k], msg)]
    <3>1. /\ box' = [box EXCEPT ![k] = Held(b.first, b.used, b.slot, Capacity[k])]
          /\ box[k] = old
      BY <2>1, <2>4, <2>5, OneQueue
    <3> QED
      BY <2>5, <2>7, <3>1
  <2>9. Len(box[k]) < Capacity[k]
    BY <2>2, BoxLength
  <2>10. MailboxSpec!Send(k, msg)
    BY <1>2, <2>8, <2>9 DEF MailboxSpec!Send
  <2> QED
    BY <2>6, <2>10 DEF BoxStep, MailboxSpec!Next
<1> QED
  BY <1>1, <1>2 DEF OSSendMessage

\* OSJamMessage: the message goes before the others, and whoever waits for one is woken.
LEMMA JamStep ==
  ASSUME MessageInv, NEW t \in Threads, NEW k \in MsgQueues, NEW msg \in Messages,
         OSJamMessage(t, k, msg)
  PROVE  MessageInv' /\ BoxStep
<1> DEFINE c == Capacity[k]
           first == mq[k].first
           used == mq[k].used
           j == (first + (c - 1)) % c
           b == PutFirst(mq[k], j, msg)
<1>1. CASE Full(k) /\ Block(t, SendQueue[k])
  BY <1>1, BlockedStep DEF OSJamMessage
<1>2. CASE /\ Settled /\ ~Full(k)
           /\ mq' = [mq EXCEPT ![k].slot[j] = msg, ![k].first = j, ![k].used = @ + 1]
           /\ sched' = WakeupThread(sched, ReceiveQueue[k])
           /\ UNCHANGED received
  <2> DEFINE V == Messages \cup {NoMessage}
             n == used + 1
             old == Held(first, used, mq[k].slot, c)
  <2>1. /\ MessageTypeOK /\ UNCHANGED <<received, detached, active, mutexVars, val>>
        /\ received' \in V
    BY <1>2 DEF MessageInv, MessageTypeOK, OSJamMessage
  <2>2. /\ c \in Nat \ {0} /\ first \in 0 .. c - 1 /\ used \in 0 .. c - 1
        /\ mq[k].slot \in [0 .. c - 1 -> V] /\ msg \in V
    BY <1>2, RoomTypes
  <2>3. j \in 0 .. c - 1
    <3>1. c - 1 \in 0 .. c
      BY <2>2
    <3> HIDE DEF c, first, used
    <3> QED
      BY <2>2, <3>1, Wraps
  <2>4. mq' = [mq EXCEPT ![k] = b]
    BY <1>2, <2>1 DEF MessageTypeOK, PutFirst
  <2>5. /\ b \in Buffer(k) /\ b.first = j /\ b.used = n
        /\ b.slot \in [0 .. c - 1 -> V] /\ b.slot[j] = msg
        /\ \A l \in 0 .. c - 1 : l # j => b.slot[l] = mq[k].slot[l]
    <3>1. b = PutFirst(mq[k], j, msg)
      OBVIOUS
    <3> HIDE DEF j, b
    <3> QED
      BY <1>2, <2>2, <2>3, <3>1, Filled
  <2> HIDE DEF b
  <2>6. MessageInv'
    BY <1>2, <2>1, <2>4, <2>5, OneMore
  <2>7. Held(j, n, b.slot, c) = <<msg>> \o old
    <3>1. j = (first + (c - 1)) % c /\ n = used + 1 /\ old = Held(first, used, mq[k].slot, c)
      OBVIOUS
    <3> DEFINE from == mq[k].slot
               to == b.slot
    <3>2. /\ from \in [0 .. c - 1 -> V] /\ to \in [0 .. c - 1 -> V] /\ to[j] = msg
          /\ \A l \in 0 .. c - 1 : l # j => to[l] = from[l]
          /\ old = Held(first, used, from, c)
      BY <2>2, <2>5
    <3> HIDE DEF V, c, first, used, n, j, old, from, to
    <3>3. Held(j, n, to, c) = Jammed(old, msg)
      BY <2>2, <3>1, <3>2, JamHeld
    <3> QED
      BY <3>3 DEF to, Jammed
  <2>8. box' = [box EXCEPT ![k] = <<msg>> \o box[k]]
    <3>1. /\ box' = [box EXCEPT ![k] = Held(b.first, b.used, b.slot, Capacity[k])]
          /\ box[k] = old
      BY <2>1, <2>4, <2>5, OneQueue
    <3> QED
      BY <2>5, <2>7, <3>1
  <2>9. Len(box[k]) < Capacity[k]
    BY <2>2, BoxLength
  <2>10. MailboxSpec!Jam(k, msg)
    BY <1>2, <2>8, <2>9 DEF MailboxSpec!Jam
  <2> QED
    BY <2>6, <2>10 DEF BoxStep, MailboxSpec!Next
<1> QED
  BY <1>1, <1>2 DEF OSJamMessage, Index

\* A buffer without its oldest message: the slot keeps it, the first index passes it.
Taken(r, n) == [[r EXCEPT !.first = n] EXCEPT !.used = @ - 1]

\* The fields of a buffer that was not empty and has lost its oldest message.
LEMMA Emptied ==
  ASSUME MessageInv, NEW k \in MsgQueues, ~Empty(k), NEW n \in 0 .. Capacity[k] - 1, NEW b,
         b = Taken(mq[k], n)
  PROVE  b \in Buffer(k) /\ b.first = n /\ b.used = mq[k].used - 1 /\ b.slot = mq[k].slot
<1>1. /\ mq[k] \in Buffer(k) /\ mq[k].used \in 1 .. Capacity[k] /\ Capacity[k] \in Nat \ {0}
      /\ mq[k].slot \in [0 .. Capacity[k] - 1 -> Messages \cup {NoMessage}]
  BY RoomTypes
<1>2. b.first = n /\ b.used = mq[k].used - 1 /\ b.slot = mq[k].slot
  BY <1>1 DEF Buffer, Taken
<1>3. b.used \in 0 .. Capacity[k]
  BY <1>1, <1>2
<1>4. b \in Buffer(k)
  BY <1>1, <1>2, <1>3 DEF Buffer, Taken
<1> QED
  BY <1>2, <1>4

\* OSReceiveMessage: the oldest message is handed out, and whoever waits for room is woken.
LEMMA ReceiveStep ==
  ASSUME MessageInv, NEW t \in Threads, NEW k \in MsgQueues, OSReceiveMessage(t, k)
  PROVE  MessageInv' /\ BoxStep
<1>1. CASE Empty(k) /\ Block(t, ReceiveQueue[k])
  BY <1>1, BlockedStep DEF OSReceiveMessage
<1>2. CASE /\ Settled /\ ~Empty(k)
           /\ received' = mq[k].slot[mq[k].first]
           /\ mq' = [mq EXCEPT ![k].first = Index(k, 1), ![k].used = @ - 1]
           /\ sched' = WakeupThread(sched, SendQueue[k])
  <2> DEFINE V == Messages \cup {NoMessage}
             c == Capacity[k]
             first == mq[k].first
             used == mq[k].used
             less == used - 1
             n == (first + 1) % c
             old == Held(first, used, mq[k].slot, c)
             b == Taken(mq[k], n)
  <2>1. /\ c \in Nat \ {0} /\ first \in 0 .. c - 1 /\ used \in 1 .. c
        /\ mq[k].slot \in [0 .. c - 1 -> V]
    BY <1>2, RoomTypes
  <2>2. /\ MessageTypeOK /\ UNCHANGED <<detached, active, mutexVars, val>>
        /\ received' \in Messages \cup {NoMessage}
    BY <1>2, <2>1 DEF MessageInv, MessageTypeOK, OSReceiveMessage
  <2>3. n \in 0 .. c - 1
    <3>1. 1 \in 0 .. c
      BY <2>1
    <3> HIDE DEF c, first
    <3> QED
      BY <2>1, <3>1, Wraps
  <2>4. mq' = [mq EXCEPT ![k] = b]
    BY <1>2, <2>2 DEF Index, MessageTypeOK, Taken
  <2>5. b \in Buffer(k) /\ b.first = n /\ b.used = less /\ b.slot = mq[k].slot
    <3>1. b = Taken(mq[k], n)
      OBVIOUS
    <3> HIDE DEF n, b
    <3> QED
      BY <1>2, <2>3, <3>1, Emptied
  <2> HIDE DEF b
  <2>6. MessageInv'
    BY <1>2, <2>2, <2>4, <2>5, OneLess
  <2>7. old # <<>> /\ Head(old) = mq[k].slot[first] /\ Held(n, less, mq[k].slot, c) = Tail(old)
    <3> DEFINE from == mq[k].slot
               new == Held(n, less, from, c)
    <3>1. /\ n = (first + 1) % c /\ less = used - 1 /\ old = Held(first, used, from, c)
          /\ Circular(V, c, first, from) /\ new = Held(n, less, from, c)
      BY <2>1 DEF Circular
    <3> HIDE DEF V, c, first, used, n, less, old, from, new
    <3>2. old # <<>>
      BY <2>1, <3>1, ReceiveHeld
    <3>3. Oldest(old) = from[first]
      BY <2>1, <3>1, ReceiveHeld
    <3>4. Received(old) = new
      BY <2>1, <3>1, ReceiveHeld
    <3> QED
      BY <3>2, <3>3, <3>4 DEF from, new, Oldest, Received
  <2>8. box' = [box EXCEPT ![k] = Tail(box[k])] /\ box[k] = old
    <3>1. /\ box' = [box EXCEPT ![k] = Held(b.first, b.used, b.slot, Capacity[k])]
          /\ box[k] = old
      BY <2>2, <2>4, <2>5, OneQueue
    <3> QED
      BY <2>5, <2>7, <3>1
  <2>9. MailboxSpec!Receive(k)
    BY <1>2, <2>7, <2>8 DEF MailboxSpec!Receive
  <2> QED
    BY <2>6, <2>9 DEF BoxStep, MailboxSpec!Next
<1> QED
  BY <1>1, <1>2 DEF OSReceiveMessage

\* A call of the scheduler or of a mutex touches no buffer and brings no new sleeper.
LEMMA ThreadsStep ==
  ASSUME MessageInv, ThreadCall, mq' = mq, received' = received
  PROVE  MessageInv' /\ BoxStep
<1>1. ThreadInv' /\ mq' = mq /\ received' = received /\ MessageTypeOK
  BY ThreadCallInv DEF MessageInv
<1>2. MessageTypeOK' /\ box' = box
  BY <1>1 DEF MessageTypeOK, Buffer, box
<1>3. \A w \in SleepQueues \ WaitQueues : ToSet(sched'.q[w]) \subseteq ToSet(sched.q[w])
  BY CallsShrink DEF MessageInv
<1>4. ASSUME NEW k \in MsgQueues
      PROVE  /\ /\ mq'[k].used <= mq[k].used
                /\ ToSet(sched'.q[ReceiveQueue[k]]) \subseteq ToSet(sched.q[ReceiveQueue[k]])
                /\ mq'[k].used \in Nat
             /\ /\ mq'[k].used >= mq[k].used
                /\ ToSet(sched'.q[SendQueue[k]]) \subseteq ToSet(sched.q[SendQueue[k]])
                /\ mq'[k].used \in 0 .. Capacity[k]
  <2>1. /\ mq[k].used \in 0 .. Capacity[k] /\ Capacity[k] \in Nat
        /\ SendQueue[k] \in SleepQueues \ WaitQueues /\ ReceiveQueue[k] \in SleepQueues \ WaitQueues
    BY <1>1, QueueTypes
  <2> QED
    BY <1>1, <1>3, <2>1
<1>5. NobodySleepsInVain'
  BY <1>1, <1>4, VainKept
<1>6. MessageInv'
  BY <1>1, <1>2, <1>5 DEF MessageInv
<1>7. BoxStep
  BY <1>1, <1>2 DEF BoxStep
<1> QED
  BY <1>6, <1>7

\* The scheduler starts with nobody asleep, the buffers with no message.
LEMMA InitMessage == ASSUME MessageInit PROVE MessageInv /\ MailboxSpec!Init
<1>1. ThreadInv /\ \A w \in SleepQueues : sched.q[w] = <<>>
  <2>1. ThreadInv
    BY InitThread DEF MessageInit
  <2>2. sched.q = [w \in Queues |-> <<>>]
    BY DEF MessageInit, Init
  <2> QED
    BY <2>1, <2>2, Kinds
<1>2. \A k \in MsgQueues : Capacity[k] \in Nat /\ InitMessageQueue(k) \in Buffer(k)
                           /\ InitMessageQueue(k).used = 0
  BY MessageAssumption DEF InitMessageQueue, Buffer
<1>3. /\ mq = [k \in MsgQueues |-> InitMessageQueue(k)] /\ received = NoMessage
  BY DEF MessageInit
<1>4. MessageTypeOK
  <2> HIDE DEF InitMessageQueue
  <2> QED
    BY <1>2, <1>3 DEF MessageTypeOK
<1>5. NobodySleepsInVain
  BY <1>1, MessageAssumption DEF NobodySleepsInVain
<1>6. MailboxSpec!Init
  <2>1. ASSUME NEW k \in MsgQueues PROVE mq[k].used = 0
    BY <1>2, <1>3
  <2>2. box = [k \in MsgQueues |-> <<>>]
    BY <2>1 DEF box
  <2> QED
    BY <1>3, <2>2, MessageAssumption DEF MailboxSpec!Init
<1> QED
  BY <1>1, <1>4, <1>5, <1>6 DEF MessageInv

\* Every step keeps the invariant and is a step of the mailbox, or none.
LEMMA MessageStep ==
  ASSUME MessageInv, [MessageNext]_<<vars, msgVars>> PROVE MessageInv' /\ BoxStep
<1>1. CASE ThreadCall /\ UNCHANGED msgVars
  BY <1>1, ThreadsStep DEF msgVars
<1>2. CASE MessageCall
  BY <1>2, SendStep, JamStep, ReceiveStep DEF MessageCall
<1>3. CASE UNCHANGED <<vars, msgVars>>
  <2>1. ThreadInv'
    BY <1>3, ThreadStutter DEF MessageInv
  <2>2. mq' = mq /\ received' = received /\ sched' = sched
    BY <1>3 DEF vars, msgVars
  <2>3. MessageTypeOK' /\ NobodySleepsInVain' /\ box' = box
    BY <2>2 DEF MessageInv, MessageTypeOK, NobodySleepsInVain, Buffer, box
  <2> QED
    BY <2>1, <2>2, <2>3 DEF MessageInv, BoxStep
<1> QED
  BY <1>1, <1>2, <1>3 DEF MessageNext

-----------------------------------------------------------------------------
(* The theorems.                                                           *)

\* The invariant holds in every state.
LEMMA MessageAlways == MessageSpec => []MessageInv
<1>1. MessageInit => MessageInv
  BY InitMessage
<1>2. MessageInv /\ [MessageNext]_<<vars, msgVars>> => MessageInv'
  BY MessageStep
<1> QED
  BY <1>1, <1>2, PTL DEF MessageSpec

\* Whatever the threads call, nobody sleeps for a message that is there or for room there is.
THEOREM NobodySleepsInVainAlways == MessageSpec => []NobodySleepsInVain
<1>1. MessageInv => NobodySleepsInVain
  BY DEF MessageInv
<1> QED
  BY <1>1, MessageAlways, PTL

\* The circular buffers implement the bounded mailboxes, for every capacity, also none.
THEOREM BuffersAreMailboxes == MessageSpec => ImplementsMailbox
<1>1. MessageInit => MailboxSpec!Init
  BY InitMessage
<1>2. MessageInv /\ [MessageNext]_<<vars, msgVars>> => [MailboxSpec!Next]_(MailboxSpec!vars)
  BY MessageStep DEF BoxStep, MailboxSpec!vars
<1> QED
  BY <1>1, <1>2, MessageAlways, PTL DEF MessageSpec, ImplementsMailbox, MailboxSpec!Spec
=============================================================================
