---------------------------- MODULE FigureStore ----------------------------
(***************************************************************************)
(* What File_system promises to the manager and to Figure_server: a map    *)
(* from names to contents that outlives the process.  A name can be given  *)
(* only once, and only a figure that exists can be deleted.                *)
(***************************************************************************)
CONSTANTS Names, Texts

VARIABLES
  figures,   \* the content of every figure stored
  up         \* a process has the store open

vars == <<figures, up>>

TypeOK ==
  /\ \E S \in SUBSET Names : figures \in [S -> Texts]
  /\ up \in BOOLEAN

Init == figures = <<>> /\ up = FALSE

Start == ~up /\ up' = TRUE /\ UNCHANGED figures

Stop == up /\ up' = FALSE /\ UNCHANGED figures

Put(n, t) ==
  /\ up
  /\ n \notin DOMAIN figures
  /\ figures' = [m \in DOMAIN figures \cup {n} |-> IF m = n THEN t ELSE figures[m]]
  /\ UNCHANGED up

Remove(n) ==
  /\ up
  /\ n \in DOMAIN figures
  /\ figures' = [m \in DOMAIN figures \ {n} |-> figures[m]]
  /\ UNCHANGED up

Next == Start \/ Stop \/ \E n \in Names : Remove(n) \/ \E t \in Texts : Put(n, t)

Spec == Init /\ [][Next]_vars

=============================================================================
