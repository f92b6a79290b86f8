---------------------------- MODULE MCFigureDisk ----------------------------
(* Instance of FigureDisk with kills for TLC: three figures, empty or with  *)
(* two blocks of two characters, a disk that grows by four blocks at a time. *)
EXTENDS FigureDiskProps, TLC

CONSTANTS f1, f2, f3, a, b

Interchangeable == Permutations(Names)

TextsAll == {<<>>, <<b, a, b>>}

=============================================================================
