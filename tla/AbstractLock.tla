---------------------------- MODULE AbstractLock ----------------------------
(***************************************************************************)
(* What threads/synch.h promises of a Lock: Acquire waits until the lock   *)
(* is FREE and makes it BUSY, Release makes it FREE, both are atomic, and  *)
(* only the thread that acquired the lock releases it.                     *)
(***************************************************************************)
CONSTANT Threads

VARIABLE holders    \* the threads between Acquire and Release

Init == holders = {}

Acquire(t) == holders = {} /\ holders' = {t}

Release(t) == holders = {t} /\ holders' = {}

Next == \E t \in Threads : Acquire(t) \/ Release(t)

Spec == Init /\ [][Next]_holders

=============================================================================
