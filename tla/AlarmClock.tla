----------------------------- MODULE AlarmClock -----------------------------
(***************************************************************************)
(* What the alarm queue promises: the alarms that are set form a line in   *)
(* the order of their due times, first come first served among equals.     *)
(* Only the first is ever fired, never before it is due, and a periodic    *)
(* one goes back to the line for a later beat of its own period.           *)
(***************************************************************************)
EXTENDS Integers, Sequences, FiniteSets, SequencesExt, FiniteSetsExt

CONSTANT Alarms

VARIABLES
  now,    \* the time
  line    \* the alarms that are set: [alarm, due, start, period]

InLine == {line[i].alarm : i \in DOMAIN line}

\* The line with one more, behind those that are due no later.
Placed(l, r) == InsertAt(l, 1 + Cardinality({i \in DOMAIN l : l[i].due <= r.due}), r)

\* The beats of a period are start, start + period, start + 2 * period, ...  The next one
\* is the first after this moment; start counts even if it is this very moment.
NextBeat(start, period) ==
  Min({t \in start .. Max({start, now}) + period :
         (t - start) % period = 0 /\ (t > now \/ (t = start /\ start = now))})

Init == now = 0 /\ line = <<>>

Set(r) ==
  /\ r.alarm \notin InLine
  /\ r.period > 0 => r.due = NextBeat(r.start, r.period)
  /\ line' = Placed(line, r) /\ UNCHANGED now

Cancel(i) == line' = RemoveAt(line, i) /\ UNCHANGED now

Fire ==
  LET r == Head(line)
  IN /\ line # <<>> /\ r.due <= now
     /\ line' = IF r.period > 0
                THEN Placed(Tail(line), [r EXCEPT !.due = NextBeat(r.start, r.period)])
                ELSE Tail(line)
     /\ UNCHANGED now

Wait == now' > now /\ UNCHANGED line

\* The records are left to the action that sets an alarm.
Next ==
  \/ \E i \in DOMAIN line' : Set(line'[i])
  \/ \E i \in DOMAIN line : Cancel(i)
  \/ Fire
  \/ Wait

Spec == Init /\ [][Next]_<<now, line>>
=============================================================================
