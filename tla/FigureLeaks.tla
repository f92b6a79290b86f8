---------------------------- MODULE FigureLeaks ----------------------------
(***************************************************************************)
(* What rm_file leaves behind.  It clears as many data blocks as countBlock *)
(* says, and wr_file counts none for an empty text although it takes a      *)
(* first block: the block of an empty figure outlives the figure.           *)
(***************************************************************************)
EXTENDS FigureDiskProps

VARIABLE leaked   \* history: the blocks of the empty figures that were deleted

leakVars == <<header, used, data, next, sb, table, pc, op, saved, kills,
              deletion, leaked>>

\* What a deletion of figure n does not give back.
LeftBehind(n) ==
  {inode.start : inode \in {i \in {table[IndexOf(n)]} : i.size = 0}}

LeakInit == Init /\ leaked = {}

LeakNext ==
  \/ \E n \in Names : DeleteFile(n) /\ leaked' = leaked \cup LeftBehind(n)
  \/ /\ \/ Load \/ Save \/ ExtendDisk \/ Make \/ Delete
        \/ \E n \in Names, t \in Texts : MakeFile(n, t)
     /\ UNCHANGED leaked

\* Processes that end through their destructors.
LeakSpec == LeakInit /\ [][LeakNext]_leakVars

\* When no operation runs, a block is in use because it is in the chain of one
\* figure of the table, or because it was the first block of an empty figure
\* that has been deleted.  rm_file gives back all other blocks; those are lost
\* for good, restarts included, and never become part of a figure again.
BlocksAccounted ==
  LET owned == UNION {FileBlocks(table[i]) : i \in DOMAIN table}
  IN  pc = "idle" => UsedBlocks = owned \cup leaked /\ owned \cap leaked = {}

=============================================================================
