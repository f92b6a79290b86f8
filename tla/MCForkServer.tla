---------------------------- MODULE MCForkServer ----------------------------
(* One server with responses shorter than a buffer, of exactly one buffer  *)
(* and longer than one; a buffer is two units of data.                     *)
EXTENDS ForkServer, TLC

Interchangeable == Permutations(Clients)

OneIsland == {"172.16.123.101"}
Gallery == {"cat", "frame", "whale"}
Sizes == [f \in Gallery |-> CASE f = "cat" -> 1 [] f = "frame" -> 2 [] f = "whale" -> 3]

Large == {"frame", "whale"}
LargeSizes == [f \in Large |-> Sizes[f]]

OneDisk == [s \in OneIsland |-> {"frame", "whale"}]

=============================================================================
