---------------------------- MODULE Bookkeeping ----------------------------
(* The module list and the retrace callbacks, which share no state. *)
EXTENDS OSModule, Video

bookVars == <<moduleVars, videoVars>>

BookInit == ModuleInit /\ VideoInit

BookNext ==
  \/ ModuleNext /\ UNCHANGED videoVars
  \/ VideoNext /\ UNCHANGED moduleVars

BookSpec == BookInit /\ [][BookNext]_bookVars

\* The module list is what was linked, and the tokens of the retrace callbacks tell them
\* apart; both state their case in their modules.
BookkeepingExact == ModulesLinked /\ CallbacksTold
=============================================================================
