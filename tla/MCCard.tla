------------------------------- MODULE MCCard -------------------------------
(***************************************************************************)
(* The memory card: its mount, its files, the check of its system blocks   *)
(* and its image.  They share no state in src/ that a model of one needs   *)
(* of the other, so a behaviour exercises one of them.                     *)
(***************************************************************************)
EXTENDS CardMount, CardFat, CardCheck

VARIABLE part

mcVars == <<vars, fatVars, checkVars, imageVars, part>>

MCNames == {<<1>>, <<1, 2>>, <<1, 2, 1>>}

MCInit ==
  /\ part \in {"mount", "files", "check", "image"}
  /\ Init /\ FatInit /\ CheckInit /\ ImageInit
  /\ part # "mount" => scb = InitSram(TRUE)
  /\ part # "check" => pair = "dir"

MCNext ==
  \/ part = "mount" /\ Next /\ UNCHANGED <<fatVars, checkVars, imageVars, part>>
  \/ part = "files" /\ FatNext /\ UNCHANGED <<vars, checkVars, imageVars, part>>
  \/ part = "check" /\ CheckNext /\ UNCHANGED <<vars, fatVars, imageVars, part>>
  \/ part = "image" /\ ImageNext /\ UNCHANGED <<vars, fatVars, checkVars, part>>

MCSpec == MCInit /\ [][MCNext]_mcVars
=============================================================================
