---------------------------- MODULE MCSharedDisk ----------------------------
(* Figure server and manager on a small disk, for TLC.                     *)
EXTENDS SharedDisk, TLC

CONSTANTS f1, f2, f3, a, b

Interchangeable == Permutations(Names)

OneText == {<<b, a, b>>}
ShortText == {<<a>>}

=============================================================================
