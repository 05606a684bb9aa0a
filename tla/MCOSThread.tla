----------------------------- MODULE MCOSThread -----------------------------
(* Instances of OSThread for TLC.                                          *)
EXTENDS OSThreadProps

\* Programs that use mutexes and conditions only, with threads that nobody joins.
CondNext ==
  \/ \E t \in Threads \ {Default}, p \in Priorities : OSCreateThread(t, p, TRUE)
  \/ \E t \in Threads : OSResumeThread(t)
  \/ \E t \in Threads : OSSuspendThread(t)
  \/ \E t \in Threads : OSYieldThread(t)
  \/ \E t \in Threads \ {Default} : OSCancelThread(t)
  \/ \E t \in Threads \ {Default}, v \in ExitValues : OSExitThread(t, v)
  \/ MutexCall
  \/ \E t \in Threads : ProcessPendingLocks(t)

CondSpec == Init /\ [][CondNext]_vars

\* Created threads differ in nothing but their name, nor do mutexes.
MCSymmetry == {f @@ g : f \in Permutations(Threads \ {Default}), g \in Permutations(Mutexes)}
=============================================================================
