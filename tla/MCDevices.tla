----------------------------- MODULE MCDevices -----------------------------
(***************************************************************************)
(* The alarm queue, the allocator of audio memory, the module list, the    *)
(* retrace callbacks, and the arithmetic of dates and sticks.  They share  *)
(* no state, so a behaviour exercises one of them.                         *)
(***************************************************************************)
EXTENDS OSAlarm, ARAM, Bookkeeping, Calendar, PadClamp, TLC

VARIABLES
  part,
  x, y    \* two signed bytes: a stick, or together a number of 16 bits

numberVars == <<x, y>>
vars == <<alarmVars, aramVars, moduleVars, videoVars, numberVars, part>>

MCTicks == {-1, 0, 2}

Init ==
  /\ part \in {"alarms", "aram", "modules", "video", "numbers"}
  /\ IF part = "alarms" THEN AlarmInit
     ELSE AlarmInit /\ \A a \in Alarms : ~alarms[a].handler
  /\ AramInit /\ ModuleInit /\ VideoInit
  /\ IF part = "numbers" THEN x \in -128 .. 127 /\ y \in -128 .. 127 ELSE x = 0 /\ y = 0

Next ==
  \/ /\ part = "alarms" /\ AlarmNext
     /\ UNCHANGED <<aramVars, moduleVars, videoVars, numberVars, part>>
  \/ /\ part = "aram" /\ AramNext
     /\ UNCHANGED <<alarmVars, moduleVars, videoVars, numberVars, part>>
  \/ /\ part = "modules" /\ ModuleNext
     /\ UNCHANGED <<alarmVars, aramVars, videoVars, numberVars, part>>
  \/ /\ part = "video" /\ VideoNext
     /\ UNCHANGED <<alarmVars, aramVars, moduleVars, numberVars, part>>
  \/ part = "numbers" /\ UNCHANGED vars

Spec == Init /\ [][Next]_vars

Number == (x + 128) * 256 + y + 128

-----------------------------------------------------------------------------
\* The dates of every day from 1890 to 2069, the times of 65536 moments from 1935 to 2064
\* with and without fractions of a second, and every position of a stick come out right.
ArithmeticExact ==
  part = "numbers" =>
  LET whole == x * 16000000 + y * 20011
      parts == {0, 1, 40499, 40500, TicksPerSec - 1}
  IN /\ DatesFollow(365 * 1890 + Number)
     /\ \A p \in parts : TimesAddUp(whole, IF whole < 0 THEN -p ELSE p)
     /\ ClampedRight(x, y)

-----------------------------------------------------------------------------
\* What an alarm that is not set holds, its handler aside, is never read, nor is the start
\* of an alarm without period.
AlarmsInUse ==
  [a \in Alarms |->
     IF a \in created /\ ~alarms[a].handler THEN <<>>
     ELSE IF alarms[a].period = 0 THEN [alarms[a] EXCEPT !.start = 0] ELSE alarms[a]]

MCView ==
  <<queueHead, queueTail, AlarmsInUse, systemTime, created,
    aramVars, moduleVars, videoVars, numberVars, part>>

MCSymmetry == Permutations(Alarms) \cup Permutations(Modules)
=============================================================================
