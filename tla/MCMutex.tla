------------------------------ MODULE MCMutex ------------------------------
(***************************************************************************)
(* Mutexes for TLC.  Programs that suspend threads, with one thread of     *)
(* each of three priorities, and programs that wait on a condition, with   *)
(* a second thread of the default priority, are checked one after the      *)
(* other: "part" says which.  The default thread signals, and never waits  *)
(* on the condition; programs of this part also disable the scheduler.     *)
(***************************************************************************)
EXTENDS MCOSThread

CONSTANT Third   \* the priority of programs that suspend only

VARIABLE part

There == {t \in Threads : sched.state[t] \in Live}
Created == There \ {Default}

MCInit == Init /\ part \in {"suspensions", "conditions"}

MCNext ==
  /\ Next /\ part' = part
  /\ \A t, u \in Created' : t # u => sched'.base[t] # sched'.base[u]
  /\ part = "suspensions" =>
       /\ sched'.disabled = 0
       /\ \A t \in Created' : sched'.base[t] # DefaultPriority
       /\ \A t \in Threads : sched'.queue[t] \notin Conds
  /\ part = "conditions" =>
       /\ \A t \in Created' : sched'.base[t] # Third
       /\ sched'.queue[Default] \notin Conds
       /\ \A t \in There : sched'.suspend[t] <= sched.suspend[t]

MCSpec == MCInit /\ [][MCNext]_<<vars, part>>
=============================================================================
