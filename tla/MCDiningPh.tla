----------------------------- MODULE MCDiningPh -----------------------------
(* Philosophers at a table of N, for TLC.                                  *)
EXTENDS DiningPh

CONSTANT main

AllThreads == Philosophers \cup {main}
AllSems == Philosophers \cup {Dp}
Initial == [s \in AllSems |-> IF s = Dp THEN 1 ELSE 0]

=============================================================================
