------------------------------ MODULE OSAlarm ------------------------------
(***************************************************************************)
(* The alarm queue of src/sdk_port/os/OSAlarm.c: a doubly linked list of   *)
(* the alarms that are set, with the links in the alarms themselves.       *)
(* Programs create an alarm before they use it and set it only while it is *)
(* not in the list, as the property test does.                             *)
(***************************************************************************)
EXTENDS Integers, Sequences, FiniteSets, SequencesExt

CONSTANTS
  Alarms, NoAlarm,
  Ticks,      \* delays that programs ask for
  Periods,    \* periods that programs ask for
  MaxTime     \* bound on the system time

ASSUME AlarmAssumption ==
  /\ IsFiniteSet(Alarms) /\ NoAlarm \notin Alarms
  /\ Ticks \subseteq Int /\ Periods \subseteq Int /\ MaxTime \in Nat

VARIABLES
  queueHead, queueTail,
  alarms,       \* handler (whether one is stored), fire, prev, next, period, start
  systemTime,
  created       \* the alarms that OSCreateAlarm has prepared

alarmVars == <<queueHead, queueTail, alarms, systemTime, created>>

\* An alarm that was not created yet holds what was in memory.
AlarmInit ==
  /\ queueHead = NoAlarm /\ queueTail = NoAlarm /\ systemTime = 0
  /\ alarms \in [Alarms -> [handler : BOOLEAN, fire : {0}, prev : {NoAlarm}, next : {NoAlarm},
                            period : {0}, start : {0}]]
  /\ created = {}

OSCreateAlarm(alarm) ==
  /\ alarm \notin created
  /\ alarms' = [alarms EXCEPT ![alarm].handler = FALSE]
  /\ created' = created \cup {alarm}
  /\ UNCHANGED <<queueHead, queueTail, systemTime>>

-----------------------------------------------------------------------------
\* Mutant: the beat that has just passed.
LastBeat(start, period, time) ==
  IF start < time THEN start + period * ((time - start) \div period) ELSE start

PeriodicFire(start, period, time) ==
  IF start < time THEN start + period * ((time - start) \div period + 1) ELSE start

\* The queue as the functions below pass it on.
Queue == [head |-> queueHead, tail |-> queueTail, mem |-> alarms]

\* The first alarm that fires later, where the search is after at most all alarms.
Later(q, fire) ==
  LET search[n \in Nat] ==
        IF n = 0 THEN q.head
        ELSE LET a == search[n - 1]
             IN IF a # NoAlarm /\ q.mem[a].fire <= fire THEN q.mem[a].next ELSE a
  IN search[Cardinality(Alarms)]

InsertAlarm(q, alarm, given) ==
  LET old == q.mem[alarm]
      fire == IF old.period > 0 THEN PeriodicFire(old.start, old.period, systemTime) ELSE given
      next == Later(q, fire)
      prev == IF next = NoAlarm THEN q.tail ELSE q.mem[next].prev
  IN [head |-> IF prev = NoAlarm THEN alarm ELSE q.head,
      tail |-> IF next = NoAlarm THEN alarm ELSE q.tail,
      mem |-> [a \in Alarms |->
        IF a = alarm THEN [old EXCEPT !.handler = TRUE, !.fire = fire, !.prev = prev, !.next = next]
        ELSE IF a = next THEN [q.mem[a] EXCEPT !.prev = alarm]
        ELSE IF a = prev THEN [q.mem[a] EXCEPT !.next = alarm]
        ELSE q.mem[a]]]

Becomes(q) == queueHead' = q.head /\ queueTail' = q.tail /\ alarms' = q.mem

Idle(alarm) == alarm \in created /\ ~alarms[alarm].handler

OSSetAlarm(alarm, tick) ==
  /\ Idle(alarm)
  /\ Becomes(InsertAlarm([Queue EXCEPT !.mem[alarm].period = 0], alarm, systemTime + tick))
  /\ UNCHANGED <<systemTime, created>>

OSSetPeriodicAlarm(alarm, start, period) ==
  /\ Idle(alarm)
  /\ Becomes(InsertAlarm([Queue EXCEPT !.mem[alarm].period = period,
                                       !.mem[alarm].start = start], alarm, 0))
  /\ UNCHANGED <<systemTime, created>>

\* An alarm that is not set is left alone.
OSCancelAlarm(alarm) ==
  LET next == alarms[alarm].next
      prev == alarms[alarm].prev
  IN /\ alarm \in created /\ alarms[alarm].handler
     /\ queueTail' = IF next = NoAlarm THEN prev ELSE queueTail
     /\ queueHead' = IF prev = NoAlarm THEN next ELSE queueHead
     /\ alarms' = [a \in Alarms |->
          IF a = alarm THEN [alarms[a] EXCEPT !.handler = FALSE]
          ELSE IF a = next THEN [alarms[a] EXCEPT !.prev = prev]
          ELSE IF a = prev THEN [alarms[a] EXCEPT !.next = next]
          ELSE alarms[a]]
     /\ UNCHANGED <<systemTime, created>>

\* The handler of the first alarm, if its time has come.
OSAlarmFireHead ==
  LET next == alarms[queueHead].next
      popped == [head |-> next,
                 tail |-> IF next = NoAlarm THEN NoAlarm ELSE queueTail,
                 mem |-> [a \in Alarms |->
                   IF a = queueHead THEN [alarms[a] EXCEPT !.handler = FALSE]
                   ELSE IF a = next THEN [alarms[a] EXCEPT !.prev = NoAlarm]
                   ELSE alarms[a]]]
  IN /\ queueHead # NoAlarm /\ alarms[queueHead].fire <= systemTime
     /\ Becomes(IF alarms[queueHead].period > 0 THEN InsertAlarm(popped, queueHead, 0) ELSE popped)
     /\ UNCHANGED <<systemTime, created>>

\* The clock runs; the handler may come any time late.
PassTime ==
  /\ systemTime' \in systemTime + 1 .. MaxTime
  /\ UNCHANGED <<queueHead, queueTail, alarms, created>>

AlarmNext ==
  \/ \E a \in Alarms : OSCreateAlarm(a) \/ OSCancelAlarm(a)
  \/ \E a \in Alarms, tick \in Ticks : OSSetAlarm(a, tick)
  \/ \E a \in Alarms, start \in Ticks, period \in Periods :
       OSSetPeriodicAlarm(a, systemTime + start, period)
  \/ OSAlarmFireHead
  \/ PassTime

AlarmSpec == AlarmInit /\ [][AlarmNext]_alarmVars

-----------------------------------------------------------------------------
\* The alarms that a walk from the head of queue q meets.
AlarmsOf(q) ==
  LET walk[n \in Nat] ==
        IF n = 0 THEN q.head
        ELSE IF walk[n - 1] = NoAlarm THEN NoAlarm ELSE q.mem[walk[n - 1]].next
      met == Cardinality({n \in 0 .. Cardinality(Alarms) : walk[n] # NoAlarm})
      set(a) == [alarm |-> a, due |-> q.mem[a].fire, start |-> q.mem[a].start,
                 period |-> q.mem[a].period]
  IN [i \in 1 .. met |-> set(walk[i - 1])]

Clock == INSTANCE AlarmClock WITH now <- systemTime, line <- AlarmsOf(Queue)

\* The list implements a line in the order of due times: setting, cancelling anywhere and
\* firing late keep both directions of links, head and tail such that a walk meets exactly
\* the alarms that are set, in order; a periodic alarm keeps to the beats of its start and
\* skips those it missed.
ImplementsAlarmClock == Clock!Spec
=============================================================================
