----------------------------- MODULE MCTenedor -----------------------------
(* Two servers on their addresses, both compiled with the same name; one   *)
(* figure is held by both.  Clients that wait for each other, and a server *)
(* that ends and starts again, need one server only.                       *)
EXTENDS Tenedor, TLC

Islands == {"172.16.123.51", "172.16.123.67"}
Gallery == {"whale", "cat"}
Disks == [s \in Islands |-> IF s = "172.16.123.51" THEN Gallery ELSE {"cat"}]
Names == [s \in Islands |-> "ServidorA"]

Interchangeable == Permutations(Clients)

OneIsland == {"172.16.123.51"}
OneFigure == {"cat"}
OneDisk == [s \in OneIsland |-> OneFigure]
OneName == [s \in OneIsland |-> "ServidorA"]

=============================================================================
