------------------------------ MODULE PadClamp ------------------------------
(***************************************************************************)
(* What PADClamp of src/sdk_port/pad/PAD.c makes of the sticks and         *)
(* triggers of a controller: a dead zone in the middle is cut out and the  *)
(* rest is drawn in to an octagon.                                         *)
(***************************************************************************)
EXTENDS Integers

\* ClampRegion: triggers, left and right stick.
Trigger == [min |-> 30, max |-> 180]
Stick == [min |-> 15, max |-> 72, xy |-> 40]
Substick == [min |-> 15, max |-> 59, xy |-> 31]

Abs(n) == IF n < 0 THEN -n ELSE n
Sign(n) == IF n < 0 THEN -1 ELSE 1

\* A length without the dead zone.
Live(n, min) == IF n <= min THEN 0 ELSE n - min

\* The conversion to a signed byte.
S8(n) == ((n + 128) % 256) - 128

\* Mutant: both halves of the octagon are measured by the edge of one.
OneEdge(x, y, r) == r.xy * x + (r.max - r.xy) * y

\* How far out a point is, on the scale where r.xy * r.max is the edge of the octagon.
Distance(x, y, r) ==
  IF r.xy * y <= r.xy * x THEN r.xy * x + (r.max - r.xy) * y ELSE r.xy * y + (r.max - r.xy) * x

ClampStick(px, py, r) ==
  LET x == Live(Abs(px), r.min)
      y == Live(Abs(py), r.min)
      d == Distance(x, y, r)
      edge == r.xy * r.max
      drawn(n) == IF edge < d THEN S8((edge * n) \div d) ELSE n
  IN IF x = 0 /\ y = 0 THEN <<0, 0>>
     ELSE <<S8(Sign(px) * drawn(x)), S8(Sign(py) * drawn(y))>>

ClampTrigger(t) ==
  IF t <= Trigger.min THEN 0
  ELSE (IF Trigger.max < t THEN Trigger.max ELSE t) - Trigger.min

\* A controller that reports an error is left alone.
PADClamp(status) ==
  IF status.err # 0 THEN status
  ELSE [status EXCEPT !.stick = ClampStick(@[1], @[2], Stick),
                      !.substick = ClampStick(@[1], @[2], Substick),
                      !.trigger = <<ClampTrigger(@[1]), ClampTrigger(@[2])>>]

-----------------------------------------------------------------------------
\* Whatever a stick reports, -128 included: the result lies in the octagon, points the same
\* way on both axes, is centred just when both axes are in the dead zone, keeps the larger
\* axis the larger one, and mirrored sticks give mirrored results.
DrawnIn(x, y, r) ==
  LET c == ClampStick(x, y, r)
      u == Abs(c[1])
      v == Abs(c[2])
  IN /\ Distance(u, v, r) <= r.xy * r.max /\ u <= r.max /\ v <= r.max
     /\ c[1] * x >= 0 /\ c[2] * y >= 0
     /\ ((Abs(x) <= r.min /\ Abs(y) <= r.min) <=> (c = <<0, 0>>))
     /\ (Abs(x) >= Abs(y) => u >= v)
     /\ (-x \in -128 .. 127 => ClampStick(-x, y, r) = <<-c[1], c[2]>>)
     /\ ClampStick(y, x, r) = <<c[2], c[1]>>

\* A trigger keeps to the range without its dead zone and pressing it harder never gives less.
InRange(t) == ClampTrigger(t) \in 0 .. 150 /\ (t < 255 => ClampTrigger(t) <= ClampTrigger(t + 1))

\* PADClamp gives each of them the region of its own.
ClampedRight(x, y) ==
  LET raw == [err |-> 0, stick |-> <<x, y>>, substick |-> <<y, x>>, trigger |-> <<x + 128, y + 128>>]
      c == PADClamp(raw)
  IN /\ DrawnIn(x, y, Stick) /\ DrawnIn(x, y, Substick) /\ InRange(x + 128)
     /\ c.stick = ClampStick(x, y, Stick) /\ c.substick = ClampStick(y, x, Substick)
     /\ c.trigger = <<ClampTrigger(x + 128), ClampTrigger(y + 128)>>
     /\ PADClamp([raw EXCEPT !.err = -1]) = [raw EXCEPT !.err = -1]
=============================================================================
