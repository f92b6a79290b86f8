----------------------------- MODULE FigureDisk -----------------------------
(***************************************************************************)
(* The figure store of Trabajo_clase_24/Servergrupo nacho: File_system and *)
(* SuperBlock over disk.bin.  Block 0 of the disk holds the header, every  *)
(* other block a used flag, a payload and the number of a next block.  A   *)
(* file is an inode block plus a chain of data blocks; the inodes form a   *)
(* chain of their own, starting at the header.                             *)
(*                                                                         *)
(* A step is one write to the disk with the changes of memory that go with *)
(* it, so that a process may be killed between any two writes (Crash).     *)
(* Flags and data blocks are written by the operations, but the header and *)
(* the fields of the inodes only by the destructor (save_Bs).              *)
(***************************************************************************)
EXTENDS Integers, Sequences, FiniteSets

CONSTANTS
  Names,       \* names a figure may be given
  NoName,      \* the name of an inode read from a zeroed block
  Texts,       \* contents a figure may be given, sequences of characters
  Payload,     \* characters a data block holds (251 bytes)
  Extension,   \* blocks ExtendDisk adds (rewindBlocks, 64)
  MaxBlock,    \* bound of the model: the last block disk.bin may grow to
  MaxMade,     \* bound of the model on inodeCount, which never decreases
  MaxKills     \* bound of the model on the number of kills

Chars == UNION {{t[i] : i \in DOMAIN t} : t \in Texts}

ASSUME GeometryAssumption ==
  /\ Payload \in Nat \ {0}
  /\ Extension \in Nat \ {0}
  /\ MaxBlock \in Nat
  /\ MaxMade \in Nat
  /\ MaxKills \in Nat
ASSUME TextsAssumption == \A t \in Texts : t \in Seq(Chars)

VARIABLES
  header,   \* block 0 of the disk
  used,     \* used[b]: the flag byte of block b
  data,     \* data[b]: the payload of block b
  next,     \* next[b]: the last four bytes of block b
  sb,       \* the counters of the SuperBlock in memory
  table,    \* inodeTable, in memory
  pc,       \* where the running operation is
  op,       \* its local variables
  saved,    \* history: the inodes on the disk when the last process ended
  kills,    \* history: how often the process was killed
  deletion  \* history: whether a deletion is unsaved, or torn by a kill

disk == <<header, used, data, next>>
memory == <<sb, table>>
history == <<saved, kills, deletion>>
vars == <<header, used, data, next, sb, table, pc, op, saved, kills,
          deletion>>

-----------------------------------------------------------------------------
InitBlocks == 1
Blocks == InitBlocks..MaxBlock

Zero == [kind |-> "zero"]
Text(s) == [kind |-> "text", chars |-> s]
Inode(n, size, orig, start, count, nxt) ==
  [kind |-> "inode", name |-> n, size |-> size, orig |-> orig,
   start |-> start, count |-> count, next |-> nxt]

\* Mutant of NewInode: -1 for "no next inode".
NewInodeMinusOne(n, b) == Inode(n, 0, b, 0, 0, -1)

\* What the constructor of Inode leaves: only the name and origBlock are set.
NewInode(n, b) == Inode(n, 0, b, 0, 0, 0)

BlockOrNone == 0..MaxBlock

Inodes == [kind : {"inode"}, name : Names \cup {NoName}, size : Nat,
           orig : BlockOrNone, start : BlockOrNone, count : Nat,
           next : BlockOrNone]

ZeroHeader == [init |-> 0, total |-> 0, free |-> 0, used |-> 0, count |-> 0,
               first |-> 0]
FreshSuperBlock == [total |-> InitBlocks, free |-> 0, used |-> 0, count |-> 0]

NoOp == [name |-> NoName, rest |-> <<>>, cur |-> 0, nxt |-> 0, left |-> 0]

-----------------------------------------------------------------------------
(* Reading the disk through the table in memory.                           *)

\* find_inode_by_name in table t: the first match, or 0.
IndexIn(t, n) ==
  IF \E i \in DOMAIN t : t[i].name = n
  THEN CHOOSE i \in DOMAIN t :
         t[i].name = n /\ \A j \in 1..(i - 1) : t[j].name # n
  ELSE 0

IndexOf(n) == IndexIn(table, n)

\* The inode read from block b: a zeroed block has one without name.
InodeAt(b) == IF data[b].kind = "inode" THEN data[b] ELSE NewInode(NoName, 0)

\* The inodes a process would find if it opened the disk now.
DiskTable ==
  LET f[k \in 0..MaxBlock] == [b \in BlockOrNone |->
        IF b = 0 \/ k = MaxBlock THEN <<>>
        ELSE IF data[b].kind = "text" THEN <<>>
        ELSE <<InodeAt(b)>> \o f[k + 1][InodeAt(b).next]]
  IN  IF header.init # 0 /\ header.count > 0 THEN f[0][header.first] ELSE <<>>

\* Blocks empty_B may hand out before it has to extend the disk.
FreeBlocks == {b \in InitBlocks..(sb.total - 1) : ~used[b]}

\* The block empty_B hands out: it scans from initBlocks upwards.
EmptyB == CHOOSE b \in FreeBlocks : \A c \in FreeBlocks : b <= c

NotFound == [found |-> FALSE, text |-> <<>>]
Found(s) == [found |-> TRUE, text |-> s]

\* The characters of payload d as rd_file copies them: an inode starts with a
\* name, and a byte never written is the zero that ends a C string.
Bytes(d) == CASE d.kind = "text" -> d.chars
              [] d.kind = "inode" -> <<d.name>>
              [] d.kind = "zero" -> <<>>

\* rd_file from an inode; it fails on an empty file and on a chain that ends
\* before the size of the inode is reached.
Contents(inode) ==
  LET f[k \in 0..MaxBlock] == [b \in BlockOrNone |->
        LET left == inode.size - k * Payload
            want == IF left < Payload THEN left ELSE Payload
            got  == Bytes(data[b])
            here == SubSeq(got, 1, IF Len(got) < want THEN Len(got) ELSE want)
        IN  IF b = 0 \/ k = MaxBlock THEN NotFound
            ELSE IF left = want THEN Found(here)
            ELSE LET tail == f[k + 1][next[b]]
                 IN  IF ~tail.found THEN NotFound
                     ELSE Found(IF Len(here) < want THEN here
                                ELSE here \o tail.text)]
  IN  IF inode.size <= 0 THEN NotFound ELSE f[0][inode.start]

ReadIn(t, n) ==
  IF IndexIn(t, n) = 0 THEN NotFound ELSE Contents(t[IndexIn(t, n)])

ReadFile(n) == ReadIn(table, n)

\* list_file leaves out the inodes with an empty name.
ListFile == {table[i].name : i \in DOMAIN table} \ {NoName}

-----------------------------------------------------------------------------
Init ==
  /\ header = ZeroHeader
  /\ used = [b \in Blocks |-> FALSE]
  /\ data = [b \in Blocks |-> Zero]
  /\ next = [b \in Blocks |-> 0]
  /\ sb = FreshSuperBlock
  /\ table = <<>>
  /\ pc = "closed"
  /\ op = NoOp
  /\ saved = <<>>
  /\ kills = 0
  /\ deletion = "none"

(* The constructor reads the header; a header of zeros is a new disk.      *)
Open ==
  /\ pc = "closed"
  /\ IF header.init # 0
     THEN sb' = [total |-> header.total, free |-> header.free,
                 used |-> header.used, count |-> header.count]
     ELSE sb' = FreshSuperBlock
  /\ table' = <<>>
  /\ op' = [NoOp EXCEPT !.cur = IF sb'.count > 0 THEN header.first ELSE 0]
  /\ pc' = IF op'.cur = 0 THEN "idle" ELSE "loading"
  /\ UNCHANGED <<disk, history>>

(* One turn of the loop that follows the chain of inodes.  A zeroed block  *)
(* reads as an inode without name; a block of text reads as an inode of    *)
(* arbitrary fields, which ends the model ("damaged").                     *)
LoadInode ==
  /\ pc = "loading"
  /\ Len(table) < MaxBlock
  /\ IF data[op.cur].kind = "text"
     THEN /\ pc' = "damaged"
          /\ UNCHANGED <<table, op>>
     ELSE LET inode == InodeAt(op.cur)
          IN  /\ table' = Append(table, inode)
              /\ op' = [op EXCEPT !.cur = inode.next]
              /\ pc' = IF inode.next = 0 THEN "idle" ELSE "loading"
  /\ UNCHANGED <<disk, sb, history>>

\* Mutant of ExtendDisk: the new blocks are not counted as free.
ExtendDiskUncounted ==
  /\ pc \in {"inodeBlock", "firstBlock", "nextBlock"}
  /\ FreeBlocks = {}
  /\ sb.total + Extension <= MaxBlock + 1
  /\ sb' = [sb EXCEPT !.total = @ + Extension]
  /\ UNCHANGED <<disk, table, pc, op, history>>

(* ExtendDisk, called by empty_B when its scan finds no free block.        *)
ExtendDisk ==
  /\ pc \in {"inodeBlock", "firstBlock", "nextBlock"}
  /\ FreeBlocks = {}
  /\ sb.total + Extension <= MaxBlock + 1
  /\ sb' = [sb EXCEPT !.total = @ + Extension, !.free = @ + Extension]
  /\ UNCHANGED <<disk, table, pc, op, history>>

\* Mutant of TakeBlock: the flag is not written.
TakeBlockUnmarked(b) ==
  /\ FreeBlocks # {}
  /\ b = EmptyB
  /\ sb' = [sb EXCEPT !.used = @ + 1, !.free = @ - 1]
  /\ UNCHANGED used

\* empty_B found block b: its flag is written, the counters follow.
TakeBlock(b) ==
  /\ FreeBlocks # {}
  /\ b = EmptyB
  /\ used' = [used EXCEPT ![b] = TRUE]
  /\ sb' = [sb EXCEPT !.used = @ + 1, !.free = @ - 1]

-----------------------------------------------------------------------------
(* make_file: ad_file, that is adIno_file and then wr_file.                *)

MakeFile(n, t) ==
  /\ pc = "idle"
  /\ IndexOf(n) = 0
  /\ sb.count < MaxMade
  /\ pc' = "inodeBlock"
  /\ op' = [NoOp EXCEPT !.name = n, !.rest = t]
  /\ UNCHANGED <<disk, memory, history>>

AllocInode ==
  /\ pc = "inodeBlock"
  /\ \E b \in Blocks : TakeBlock(b) /\ op' = [op EXCEPT !.cur = b]
  /\ pc' = "inodeWrite"
  /\ UNCHANGED <<header, data, next, table, saved, kills, deletion>>

\* The new inode goes to the disk; the link from the one before it does not.
WriteInode ==
  /\ pc = "inodeWrite"
  /\ LET inode == NewInode(op.name, op.cur)
         last == Len(table)
     IN  /\ data' = [data EXCEPT ![op.cur] = inode]
         /\ table' = Append(IF last = 0 THEN table
                            ELSE [table EXCEPT ![last].next = op.cur], inode)
  /\ sb' = [sb EXCEPT !.count = @ + 1]
  /\ pc' = "firstBlock"
  /\ UNCHANGED <<header, used, next, op, history>>

\* A first data block is taken even for an empty text.
AllocFirst ==
  /\ pc = "firstBlock"
  /\ \E b \in Blocks :
       /\ TakeBlock(b)
       /\ table' = [table EXCEPT ![IndexOf(op.name)] =
                      [@ EXCEPT !.start = b, !.size = Len(op.rest), !.count = 0]]
       /\ op' = [op EXCEPT !.cur = b]
  /\ pc' = IF op.rest = <<>> THEN "idle" ELSE "dataWrite"
  /\ UNCHANGED <<header, data, next, saved, kills, deletion>>

\* Mutant of WriteData: the text goes on one character too far.
WriteDataSkipping ==
  /\ pc = "dataWrite"
  /\ LET n == IF Len(op.rest) <= Payload THEN Len(op.rest) ELSE Payload
     IN  /\ data' = [data EXCEPT ![op.cur] = Text(SubSeq(op.rest, 1, n))]
         /\ op' = [op EXCEPT !.rest = SubSeq(op.rest, n + 2, Len(op.rest)),
                             !.nxt = 0]
  /\ pc' = IF op'.rest = <<>> THEN "link" ELSE "nextBlock"
  /\ UNCHANGED <<header, used, next, memory, history>>

WriteData ==
  /\ pc = "dataWrite"
  /\ LET n == IF Len(op.rest) <= Payload THEN Len(op.rest) ELSE Payload
     IN  /\ data' = [data EXCEPT ![op.cur] = Text(SubSeq(op.rest, 1, n))]
         /\ op' = [op EXCEPT !.rest = SubSeq(op.rest, n + 1, Len(op.rest)),
                             !.nxt = 0]
  /\ pc' = IF op'.rest = <<>> THEN "link" ELSE "nextBlock"
  /\ UNCHANGED <<header, used, next, memory, history>>

AllocNext ==
  /\ pc = "nextBlock"
  /\ \E b \in Blocks : TakeBlock(b) /\ op' = [op EXCEPT !.nxt = b]
  /\ pc' = "link"
  /\ UNCHANGED <<header, data, next, table, saved, kills, deletion>>

\* Mutant of Link: the last block is not counted.
LinkUncounted ==
  /\ pc = "link"
  /\ next' = [next EXCEPT ![op.cur] = op.nxt]
  /\ table' = [table EXCEPT ![IndexOf(op.name)].count =
                 IF op.nxt = 0 THEN @ ELSE @ + 1]
  /\ op' = [op EXCEPT !.cur = op.nxt, !.nxt = 0]
  /\ pc' = IF op.rest = <<>> THEN "idle" ELSE "dataWrite"
  /\ UNCHANGED <<header, used, data, sb, history>>

Link ==
  /\ pc = "link"
  /\ next' = [next EXCEPT ![op.cur] = op.nxt]
  /\ table' = [table EXCEPT ![IndexOf(op.name)].count = @ + 1]
  /\ op' = [op EXCEPT !.cur = op.nxt, !.nxt = 0]
  /\ pc' = IF op.rest = <<>> THEN "idle" ELSE "dataWrite"
  /\ UNCHANGED <<header, used, data, sb, history>>

-----------------------------------------------------------------------------
(* delete_file: rm_file.                                                   *)

DeleteFile(n) ==
  /\ pc = "idle"
  /\ IndexOf(n) # 0
  /\ LET inode == table[IndexOf(n)]
     IN  /\ op' = [NoOp EXCEPT !.name = n, !.cur = inode.start,
                               !.left = inode.count]
         /\ pc' = IF inode.count = 0 THEN "clearInode" ELSE "clearData"
  /\ deletion' = IF deletion = "torn" THEN "torn" ELSE "unsaved"
  /\ UNCHANGED <<disk, memory, saved, kills>>

\* Mutant of ClearBlock: only the flag is cleared.
ClearFlag(b) ==
  /\ used' = [c \in Blocks |-> used[c] /\ c # b]
  /\ sb' = [sb EXCEPT !.used = @ - 1, !.free = @ + 1]
  /\ UNCHANGED <<header, data, next>>

\* clear_block writes 256 zeros, over the header too when it is given block
\* 0; the counters follow.
ClearBlock(b) ==
  /\ header' = IF b = 0 THEN ZeroHeader ELSE header
  /\ used' = [c \in Blocks |-> used[c] /\ c # b]
  /\ data' = [c \in Blocks |-> IF c = b THEN Zero ELSE data[c]]
  /\ next' = [c \in Blocks |-> IF c = b THEN 0 ELSE next[c]]
  /\ sb' = [sb EXCEPT !.used = @ - 1, !.free = @ + 1]

\* The next pointer of a block, that of the header always being zero.
NextOf(b) == IF b = 0 THEN 0 ELSE next[b]

\* Mutant of ClearData: the loop runs once more than countBlock says.
ClearDataOneMore ==
  /\ pc = "clearData"
  /\ ClearBlock(op.cur)
  /\ op' = [op EXCEPT !.cur = NextOf(op.cur), !.left = @ - 1]
  /\ pc' = IF op.left = 0 THEN "clearInode" ELSE "clearData"
  /\ UNCHANGED <<table, saved, kills, deletion>>

ClearData ==
  /\ pc = "clearData"
  /\ ClearBlock(op.cur)
  /\ op' = [op EXCEPT !.cur = NextOf(op.cur), !.left = @ - 1]
  /\ pc' = IF op.left = 1 THEN "clearInode" ELSE "clearData"
  /\ UNCHANGED <<table, saved, kills, deletion>>

\* Mutant of Unlinked: the predecessor keeps its link.
DroppedOnly(i) ==
  [j \in 1..(Len(table) - 1) |-> table[IF j < i THEN j ELSE j + 1]]

\* inodeTable without its i-th inode, whose predecessor skips it.
Unlinked(i) ==
  LET after == IF i = Len(table) THEN 0 ELSE table[i + 1].orig
      relinked == IF i = 1 THEN table
                  ELSE [table EXCEPT ![i - 1].next = after]
  IN  [j \in 1..(Len(table) - 1) |-> relinked[IF j < i THEN j ELSE j + 1]]

\* inodeCount keeps its value.
ClearInode ==
  /\ pc = "clearInode"
  /\ LET i == IndexOf(op.name)
     IN  /\ ClearBlock(table[i].orig)
         /\ table' = Unlinked(i)
  /\ pc' = "idle"
  /\ op' = NoOp
  /\ UNCHANGED <<saved, kills, deletion>>

-----------------------------------------------------------------------------
(* ~File_system: save_Bs, the header first and then each inode.            *)

Close ==
  /\ pc = "idle"
  /\ pc' = "saveHeader"
  /\ op' = NoOp
  /\ UNCHANGED <<disk, memory, history>>

\* The last write of save_Bs ends the process.
Saved == /\ saved' = table
         /\ table' = <<>>
         /\ sb' = FreshSuperBlock
         /\ op' = NoOp
         /\ pc' = "closed"
         /\ deletion' = IF deletion = "torn" THEN "torn" ELSE "none"

\* Mutant of SaveHeader: the header leads to the newest inode.
SaveHeaderNewest ==
  /\ pc = "saveHeader"
  /\ header' = [init |-> InitBlocks, total |-> sb.total, free |-> sb.free,
                used |-> sb.used, count |-> sb.count,
                first |-> IF table = <<>> THEN 0 ELSE table[Len(table)].orig]
  /\ IF table = <<>>
     THEN Saved
     ELSE /\ op' = [NoOp EXCEPT !.left = 1]
          /\ pc' = "saveInode"
          /\ UNCHANGED <<memory, saved, deletion>>
  /\ UNCHANGED <<used, data, next, kills>>

SaveHeader ==
  /\ pc = "saveHeader"
  /\ header' = [init |-> InitBlocks, total |-> sb.total, free |-> sb.free,
                used |-> sb.used, count |-> sb.count,
                first |-> IF table = <<>> THEN 0 ELSE table[1].orig]
  /\ IF table = <<>>
     THEN Saved
     ELSE /\ op' = [NoOp EXCEPT !.left = 1]
          /\ pc' = "saveInode"
          /\ UNCHANGED <<memory, saved, deletion>>
  /\ UNCHANGED <<used, data, next, kills>>

\* An inode that was read from a zeroed block has origBlock 0: its zeros go
\* over the header, from the second byte on, and leave only initBlocks.
SaveInode ==
  /\ pc = "saveInode"
  /\ LET inode == table[op.left]
     IN  IF inode.orig = 0
         THEN /\ header' = [ZeroHeader EXCEPT !.init = InitBlocks]
              /\ UNCHANGED data
         ELSE /\ data' = [data EXCEPT ![inode.orig] = inode]
              /\ UNCHANGED header
  /\ IF op.left = Len(table)
     THEN Saved
     ELSE /\ op' = [op EXCEPT !.left = @ + 1]
          /\ UNCHANGED <<memory, pc, saved, deletion>>
  /\ UNCHANGED <<used, next, kills>>

(* The process is killed (or an assert aborts it): memory is lost.         *)
Crash ==
  /\ pc \notin {"closed", "damaged"}
  /\ kills < MaxKills
  /\ kills' = kills + 1
  /\ deletion' = IF deletion = "none" THEN "none" ELSE "torn"
  /\ pc' = "closed"
  /\ sb' = FreshSuperBlock
  /\ table' = <<>>
  /\ op' = NoOp
  /\ saved' = DiskTable
  /\ UNCHANGED disk

-----------------------------------------------------------------------------
Make == AllocInode \/ WriteInode \/ AllocFirst \/ WriteData \/ AllocNext \/ Link
Delete == ClearData \/ ClearInode
Load == Open \/ LoadInode
Save == Close \/ SaveHeader \/ SaveInode

Next == \/ Load \/ Save \/ ExtendDisk \/ Make \/ Delete
        \/ \E n \in Names : DeleteFile(n) \/ \E t \in Texts : MakeFile(n, t)

\* A process that ends through its destructor.
Spec == Init /\ [][Next]_vars

\* A process that may also be killed.
CrashSpec == Init /\ [][Next \/ Crash]_vars

-----------------------------------------------------------------------------
(* Type invariant.  Every variable keeps its type even when kills leave    *)
(* the chains of disk.bin broken.                                          *)
Headers == [init : {0, InitBlocks}, total : Nat, free : Int, used : Int,
            count : Nat, first : BlockOrNone]
SuperBlocks == [total : Nat, free : Int, used : Int, count : Nat]
Payloads == {Zero} \cup Inodes \cup [kind : {"text"}, chars : Seq(Chars)]
Operations == [name : Names \cup {NoName}, rest : Seq(Chars),
               cur : BlockOrNone, nxt : BlockOrNone, left : Int]
Locations == {"closed", "loading", "idle", "inodeBlock", "inodeWrite",
  "firstBlock", "dataWrite", "nextBlock", "link", "clearData", "clearInode",
  "saveHeader", "saveInode", "damaged"}

TypeOK ==
  /\ header \in Headers
  /\ used \in [Blocks -> BOOLEAN]
  /\ data \in [Blocks -> Payloads]
  /\ next \in [Blocks -> BlockOrNone]
  /\ sb \in SuperBlocks
  /\ table \in Seq(Inodes)
  /\ pc \in Locations
  /\ op \in Operations
  /\ saved \in Seq(Inodes)
  /\ kills \in 0..MaxKills
  /\ deletion \in {"none", "unsaved", "torn"}

=============================================================================
