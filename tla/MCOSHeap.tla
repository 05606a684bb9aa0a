------------------------------ MODULE MCOSHeap ------------------------------
(* Words of eight bits, and memory in their upper half, as on a console.   *)
(* Areas of four and two units that adjoin, and one of two behind a gap.   *)
(* Their limits are not aligned.                                           *)
EXTENDS OSHeapProps

MCAreas == {[start |-> 139, end |-> 157], [start |-> 156, end |-> 166], [start |-> 170, end |-> 182]}
=============================================================================
