------------------------------- MODULE Mailbox -------------------------------
(***************************************************************************)
(* What a message queue promises: a bounded sequence of messages that is   *)
(* read at its front, sent to at its back and jammed at its front.         *)
(***************************************************************************)
EXTENDS Integers, Sequences

CONSTANTS Messages, MsgQueues, Capacity

VARIABLES
  box,       \* the messages each queue holds, oldest first
  received   \* the message the latest receive returned, or none yet

vars == <<box, received>>

Init == /\ box = [k \in MsgQueues |-> <<>>]
        /\ received \notin Messages

Send(k, msg) ==
  /\ Len(box[k]) < Capacity[k]
  /\ box' = [box EXCEPT ![k] = Append(@, msg)]
  /\ UNCHANGED received

Jam(k, msg) ==
  /\ Len(box[k]) < Capacity[k]
  /\ box' = [box EXCEPT ![k] = <<msg>> \o @]
  /\ UNCHANGED received

Receive(k) ==
  /\ box[k] # <<>>
  /\ received' = Head(box[k])
  /\ box' = [box EXCEPT ![k] = Tail(@)]

Next == \E k \in MsgQueues :
          Receive(k) \/ \E msg \in Messages : Send(k, msg) \/ Jam(k, msg)

Spec == Init /\ [][Next]_vars
=============================================================================
