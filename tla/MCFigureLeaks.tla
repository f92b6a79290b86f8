--------------------------- MODULE MCFigureLeaks ---------------------------
(* Instance of FigureLeaks for TLC: three figures, empty or with one or two  *)
(* blocks of two characters, a disk that grows by four blocks at a time.    *)
EXTENDS FigureLeaks, TLC

CONSTANTS f1, f2, f3, a, b

FullBlock == <<a, b>>
TwoBlocks == <<b, a, b>>

Interchangeable == Permutations(Names)

TextsOfAllSizes == {<<>>, FullBlock, TwoBlocks}

=============================================================================
