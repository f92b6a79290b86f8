-------------------------- MODULE FigureDiskProps --------------------------
(***************************************************************************)
(* What must hold of the figure store: of its counters and block chains    *)
(* while it runs, of disk.bin across a restart, and of disk.bin when the   *)
(* process is killed.                                                      *)
(***************************************************************************)
EXTENDS FigureDisk

UsedBlocks == {b \in Blocks : used[b]}

Running == pc \notin {"closed", "loading", "damaged"}

Adding == pc \in {"inodeBlock", "inodeWrite", "firstBlock", "dataWrite",
                  "nextBlock", "link"}
Deleting == pc \in {"clearData", "clearInode"}

-----------------------------------------------------------------------------
\* The counters of the SuperBlock agree with each other and with the flags
\* on the disk, whatever empty_B, ExtendDisk and clear_block did to them.
CountersMatchFlags ==
  Running => /\ sb.free + sb.used = sb.total - InitBlocks
             /\ sb.used = Cardinality(UsedBlocks)
             /\ UsedBlocks \subseteq InitBlocks..(sb.total - 1)

\* The data blocks of an inode, as rd_file and rm_file follow them.
DataBlocks(inode) ==
  LET f[k \in 0..MaxBlock] == [b \in BlockOrNone |->
        IF b = 0 \/ k = MaxBlock \/ k >= inode.count THEN {}
        ELSE {b} \cup f[k + 1][next[b]]]
  IN  f[0][inode.start]

FileBlocks(inode) == ({inode.orig, inode.start} \ {0}) \cup DataBlocks(inode)

\* No two figures share a block, and a block of a figure is never free for
\* empty_B to hand out again.
FiguresApart ==
  pc = "idle" =>
    \A i, j \in DOMAIN table :
      /\ FileBlocks(table[i]) \subseteq UsedBlocks
      /\ i # j => FileBlocks(table[i]) \cap FileBlocks(table[j]) = {}

\* The inodes that matter now: those of the table or, before the constructor
\* has read them, those it will read.
Live == IF pc \in {"closed", "loading"} THEN saved ELSE table

\* rm_file clears the blocks of an inode before it drops the inode.
BeingCleared == IF Deleting THEN {IndexOf(op.name)} ELSE {}

\* Inode table t, without the data of the inodes C, and next pointers nx name
\* every block in one place at most (as the block of one inode, as the first
\* data block of one inode, or as the block after one other block), and name
\* only blocks of U.
NamedOnce(t, U, nx, C) ==
  /\ \A i \in DOMAIN t : t[i].orig \in U
  /\ \A i, j \in DOMAIN t : t[i].orig = t[j].orig => i = j
  /\ \A i \in DOMAIN t \ C : t[i].start # 0 =>
       /\ t[i].start \in U
       /\ \A j \in DOMAIN t : t[i].start # t[j].orig
       /\ \A j \in DOMAIN t \ C : t[i].start = t[j].start => i = j
  /\ \A b \in Blocks : nx[b] # 0 =>
       /\ nx[b] \in U
       /\ \A c \in Blocks : nx[b] = nx[c] => b = c
       /\ \A i \in DOMAIN t : nx[b] # t[i].orig
       /\ \A i \in DOMAIN t \ C : nx[b] # t[i].start

\* No block belongs to two figures, whatever chains rd_file and rm_file
\* follow, and no block of a figure is free for empty_B to hand out.
OneReference == NamedOnce(Live, UsedBlocks, next, BeingCleared)

\* The constructor finds the inodes that the destructor saved, in the same
\* order and with the same fields, although during the session the links
\* between inodes were only kept in memory.
ReopenRestores ==
  [][pc' = "idle" /\ pc \in {"closed", "loading"} => table' = saved]_vars

-----------------------------------------------------------------------------
(* The store as its users see it.                                          *)

Visible == IF Running THEN table ELSE DiskTable

\* An operation takes effect when it returns (make_file) or starts to clear
\* blocks (delete_file).
StoredNames == {Visible[i].name : i \in DOMAIN Visible}
                 \ (IF Adding \/ Deleting THEN {op.name} ELSE {})

\* The text of a figure: rd_file fails on one that was stored empty, and on one
\* whose chain is broken, which has no text at all.
Stored(inode) ==
  LET read == Contents(inode)
  IN  IF read.found \/ inode.size = 0 THEN read.text ELSE NoName

Store == INSTANCE FigureStore WITH
  figures <- [n \in StoredNames |-> Stored(Visible[IndexIn(Visible, n)])],
  up <- Running

\* File_system implements a persistent map from names to contents: what
\* rd_file returns is what make_file was given, until delete_file, through
\* any number of restarts, and no figure with characters becomes unreadable.
StoreRefined == Store!Spec

-----------------------------------------------------------------------------
(* Kills.                                                                  *)

\* What a reader would get for figure n if the process were killed now and
\* the disk opened again.
OnDisk(n) == ReadIn(DiskTable, n)

\* make_file writes only blocks that were free, and save_Bs lays the links of
\* the inodes over the old ones: no step but those of a deletion loses or
\* changes a figure that a kill at this moment would leave readable.
KillKeepsFigures ==
  [][deletion # "torn" /\ ~Deleting =>
       \A n \in Names : OnDisk(n).text # <<>> => OnDisk(n)' = OnDisk(n)]_vars

\* What a kill during a deletion loses: rm_file has cleared blocks of the chain
\* of inodes that the header still leads to.  Until the next destructor runs,
\* those are the deleted figures and, once the inode is cleared, the figures
\* after it in that chain; the figures before it stay readable.
Position(n) == IndexIn(DiskTable, n)

KillInDeletionKeepsEarlier ==
  [][Deleting /\ deletion = "unsaved" =>
       \A n \in Names \ {op.name} :
         /\ OnDisk(n).text # <<>>
         /\ pc = "clearInode" /\ Position(op.name) # 0 => Position(n) < Position(op.name)
         => OnDisk(n)' = OnDisk(n)]_vars

\* Kills during additions and saves leave blocks in use that no figure has,
\* but never one that two figures have, or that is free and in a figure.
KilledFiguresApart == deletion # "torn" => FiguresApart

=============================================================================
