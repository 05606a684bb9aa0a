---------------------------- MODULE CardResults ----------------------------
(***************************************************************************)
(* What the calls of the memory card's library return (CARD_RESULT_...).   *)
(***************************************************************************)
EXTENDS Integers

READY == 0
BUSY == -1
WRONGDEVICE == -2
NOCARD == -3
NOFILE == -4
IOERROR == -5
BROKEN == -6
INSSPACE == -9
NOPERM == -10
LIMIT == -11
FATAL == -128
=============================================================================
