-------------------------- MODULE FigureDiskProofs --------------------------
(***************************************************************************)
(* Proofs about the figure store, for every set of names, every set of     *)
(* texts, every block size and every disk.                                 *)
(***************************************************************************)
EXTENDS FigureDiskProps, SequenceTheorems, WellFoundedInduction, TLAPS

-----------------------------------------------------------------------------
(* Facts about the data the model is built from.                           *)

\* Every set of numbers that is not empty has a least element.
LEMMA LeastNumber ==
  ASSUME NEW T, T \subseteq Nat, T # {}
  PROVE  \E x \in T : \A y \in T : x <= y
<1> DEFINE R == OpToRel(<, Nat)
<1>1. PICK x \in T : \A y \in T : ~(<<y, x>> \in R)
  <2>1. IsWellFoundedOn(R, Nat)
    BY NatLessThanWellFounded
  <2> HIDE DEF R
  <2> QED
    BY <2>1, WFMin, Zenon
<1>2. ASSUME NEW y \in T PROVE x <= y
  <2>1. ~(<<y, x>> \in R)
    BY <1>1
  <2>2. <<y, x>> \in Nat \X Nat
    BY <1>2
  <2>3. ~(y < x)
    BY <2>1, <2>2 DEF OpToRel
  <2> QED
    BY <2>3, <1>2
<1> QED
  BY <1>2

\* A sequence with one element replaced, whatever the index.
LEMMA Replaced ==
  ASSUME NEW S, NEW s \in Seq(S), NEW i, NEW v, i \in DOMAIN s => v \in S
  PROVE  /\ [s EXCEPT ![i] = v] \in Seq(S)
         /\ Len([s EXCEPT ![i] = v]) = Len(s)
         /\ DOMAIN [s EXCEPT ![i] = v] = DOMAIN s
<1>1. DOMAIN s = 1..Len(s)
  BY LenProperties
<1>2. CASE i \in DOMAIN s
  BY <1>1, <1>2, ExceptSeq
<1>3. CASE i \notin DOMAIN s
  <2>1. [s EXCEPT ![i] = v] = s
    BY <1>3, <1>1
  <2> QED
    BY <2>1
<1> QED
  BY <1>2, <1>3

\* find_inode_by_name returns an index of the table, or none.
LEMMA IndexFound ==
  ASSUME NEW t \in Seq(Inodes), NEW n
  PROVE  /\ IndexIn(t, n) = 0 \/ IndexIn(t, n) \in DOMAIN t
         /\ IndexIn(t, n) # 0 => t[IndexIn(t, n)].name = n
<1> DEFINE T == {i \in DOMAIN t : t[i].name = n}
<1>1. CASE T = {}
  BY <1>1 DEF IndexIn
<1>2. CASE T # {}
  <2>1. T \subseteq Nat
    BY LenProperties
  <2>2. PICK x \in T : \A y \in T : x <= y
    BY <1>2, <2>1, LeastNumber
  <2>3. \A j \in 1..(x - 1) : t[j].name # n
    <3> SUFFICES ASSUME NEW j \in 1..(x - 1), t[j].name = n PROVE FALSE
      OBVIOUS
    <3>1. x \in 1..Len(t) /\ DOMAIN t = 1..Len(t) /\ Len(t) \in Nat
      BY LenProperties
    <3>2. j \in T
      BY <3>1
    <3> QED
      BY <2>2, <3>1, <3>2
  <2>4. /\ IndexIn(t, n) \in DOMAIN t
        /\ t[IndexIn(t, n)].name = n
    BY <2>2, <2>3 DEF IndexIn
  <2> QED
    BY <2>4
<1> QED
  BY <1>1, <1>2

\* The block that empty_B hands out is free, and the lowest free one.
LEMMA EmptyBFree ==
  ASSUME FreeBlocks # {}, sb.total \in Nat
  PROVE  EmptyB \in FreeBlocks
<1>1. FreeBlocks \subseteq Nat
  BY DEF FreeBlocks, InitBlocks
<1>2. \E b \in FreeBlocks : \A c \in FreeBlocks : b <= c
  BY <1>1, LeastNumber
<1> QED
  BY <1>2 DEF EmptyB

-----------------------------------------------------------------------------
(* Recursion downwards.                                                    *)

\* H computes a value of D from an index and a value of D.
Computes(H, M, D) == H \in [0..M -> [D -> D]]

\* A function may be defined downwards: its value at M is given, that at k
\* from the one at k + 1.
LEMMA Downwards ==
  ASSUME NEW M \in Nat, NEW D, NEW d \in D, NEW H, Computes(H, M, D)
  PROVE  \E f \in [0..M -> D] :
           f[M] = d /\ \A k \in 0..(M - 1) : f[k] = H[k][f[k + 1]]
<1>0. H \in [0..M -> [D -> D]]
  BY DEF Computes
<1> DEFINE From(f, m) == f[M] = d /\ \A k \in m..(M - 1) : f[k] = H[k][f[k + 1]]
           S == {m \in 0..M : \E f \in [0..M -> D] : From(f, m)}
<1>1. S \subseteq Nat /\ S # {}
  <2>1. PICK f \in [0..M -> D] : f = [k \in 0..M |-> d]
    OBVIOUS
  <2>2. From(f, M)
    BY <2>1
  <2>3. M \in S
    BY <2>2
  <2>4. S # {}
    BY <2>3
  <2>5. S \subseteq Nat
    OBVIOUS
  <2> QED
    BY <2>4, <2>5
<1>2. PICK x \in S : \A y \in S : x <= y
  <2> HIDE DEF S
  <2> QED
    BY <1>1, LeastNumber
<1>3. PICK f \in [0..M -> D] : From(f, x)
  OBVIOUS
<1>4. x = 0
  <2> SUFFICES ASSUME x # 0 PROVE FALSE
    OBVIOUS
  <2>1. x \in 1..M /\ x - 1 \in 0..(M - 1) /\ (x - 1) + 1 = x
    OBVIOUS
  <2>2. PICK g \in [0..M -> D] : g = [f EXCEPT ![x - 1] = H[x - 1][f[x]]]
    <3>1. H[x - 1][f[x]] \in D
      BY <1>0, <2>1
    <3> QED
      BY <3>1
  <2>3. From(g, x - 1)
    <3>1. g[M] = d
      BY <1>3, <2>1, <2>2
    <3>2. ASSUME NEW k \in (x - 1)..(M - 1) PROVE g[k] = H[k][g[k + 1]]
      <4>1. k \in 0..M /\ k + 1 \in 0..M /\ k + 1 # x - 1
        BY <2>1
      <4>2. g[k + 1] = f[k + 1]
        BY <2>2, <4>1
      <4>3. CASE k = x - 1
        BY <2>1, <2>2, <4>1, <4>2, <4>3
      <4>4. CASE k # x - 1
        <5>1. k \in x..(M - 1)
          BY <2>1, <4>4
        <5> QED
          BY <1>3, <2>2, <4>1, <4>2, <4>4, <5>1
      <4> QED
        BY <4>3, <4>4
    <3> QED
      BY <3>1, <3>2
  <2>4. x - 1 \in S
    BY <2>1, <2>3
  <2> HIDE DEF S
  <2>5. x <= x - 1
    BY <1>2, <2>4
  <2>6. x \in Int
    BY <2>1
  <2> QED
    BY <2>5, <2>6
<1> QED
  BY <1>3, <1>4

\* What holds at M, and at k if it holds at k + 1, holds from 0 to M.
LEMMA Descent ==
  ASSUME NEW M \in Nat, NEW T, M \in T,
         \A k \in 0..(M - 1) : k + 1 \in T => k \in T
  PROVE  \A k \in 0..M : k \in T
<1> DEFINE S == {m \in 0..M : \A k \in m..M : k \in T}
<1>1. M \in S /\ S \subseteq Nat
  OBVIOUS
<1>2. PICK x \in S : \A y \in S : x <= y
  <2> HIDE DEF S
  <2> QED
    BY <1>1, LeastNumber
<1>3. x = 0
  <2> SUFFICES ASSUME x # 0 PROVE FALSE
    OBVIOUS
  <2>1. x \in Int /\ x - 1 \in 0..(M - 1) /\ (x - 1) + 1 \in T
    OBVIOUS
  <2>2. x - 1 \in T
    BY <2>1
  <2>3. \A k \in (x - 1)..M : k = x - 1 \/ k \in x..M
    OBVIOUS
  <2>4. x - 1 \in S
    BY <2>1, <2>2, <2>3
  <2> HIDE DEF S
  <2>5. x <= x - 1
    BY <1>2, <2>4
  <2> QED
    BY <2>1, <2>5
<1> QED
  BY <1>3

-----------------------------------------------------------------------------
(* Type correctness.  Three facts about the local variables make TypeOK    *)
(* inductive: the constructor only reads blocks behind the header, rm_file *)
(* clears the blocks of an inode of the table, and save_Bs only writes     *)
(* inodes of the table.                                                    *)
Cursors ==
  /\ pc = "loading" => op.cur # 0
  /\ pc \in {"clearData", "clearInode"} => IndexOf(op.name) # 0
  /\ pc = "saveInode" => op.left \in 1..Len(table)

TypeInv == TypeOK /\ Cursors

LEMMA InodeTyped ==
  ASSUME NEW n \in Names \cup {NoName}, NEW b \in BlockOrNone
  PROVE  NewInode(n, b) \in Inodes
<1>1. 0 \in BlockOrNone
  BY GeometryAssumption DEF BlockOrNone
<1> QED
  BY <1>1 DEF NewInode, Inode, Inodes

LEMMA BlockTyped == Blocks \subseteq BlockOrNone /\ 0 \in BlockOrNone
                    /\ BlockOrNone \ {0} = Blocks
  BY GeometryAssumption DEF Blocks, BlockOrNone, InitBlocks

LEMMA InitTyped == Init => TypeInv
<1> SUFFICES ASSUME Init PROVE TypeInv
  OBVIOUS
<1> USE DEF Init
<1>1. <<>> \in Seq(Inodes) /\ <<>> \in Seq(Chars)
  BY EmptySeq
<1>2. header \in Headers /\ sb \in SuperBlocks
  BY BlockTyped DEF Headers, SuperBlocks, ZeroHeader, FreshSuperBlock, InitBlocks
<1>3. /\ used \in [Blocks -> BOOLEAN]
      /\ data \in [Blocks -> Payloads]
      /\ next \in [Blocks -> BlockOrNone]
  BY BlockTyped DEF Payloads
<1> QED
  BY <1>1, <1>2, <1>3, BlockTyped, GeometryAssumption
     DEF TypeInv, TypeOK, Operations, Cursors, NoOp, Locations

LEMMA FieldsTyped ==
  ASSUME NEW i \in Inodes
  PROVE  /\ i.next \in BlockOrNone /\ i.start \in BlockOrNone
         /\ i.orig \in BlockOrNone /\ i.name \in Names \cup {NoName}
         /\ i.kind = "inode"
         /\ \A b \in BlockOrNone : [i EXCEPT !.next = b] \in Inodes
         /\ \A c \in Nat : [i EXCEPT !.count = c] \in Inodes
         /\ i.count \in Nat
         /\ \A b \in BlockOrNone, n \in Nat :
              [i EXCEPT !.start = b, !.size = n, !.count = 0] \in Inodes
<1>1. /\ i.next \in BlockOrNone /\ i.start \in BlockOrNone
      /\ i.orig \in BlockOrNone /\ i.name \in Names \cup {NoName}
      /\ i.kind = "inode" /\ i.count \in Nat /\ i.size \in Nat
  BY DEF Inodes
<1>2. ASSUME NEW b \in BlockOrNone PROVE [i EXCEPT !.next = b] \in Inodes
  BY DEF Inodes
<1>3. ASSUME NEW c \in Nat PROVE [i EXCEPT !.count = c] \in Inodes
  BY DEF Inodes
<1>4. ASSUME NEW b \in BlockOrNone, NEW n \in Nat
      PROVE  [i EXCEPT !.start = b, !.size = n, !.count = 0] \in Inodes
  BY DEF Inodes
<1> QED
  BY <1>1, <1>2, <1>3, <1>4

LEMMA CounterTypes ==
  ASSUME NEW c \in SuperBlocks
  PROVE  c.total \in Nat /\ c.free \in Int /\ c.used \in Int /\ c.count \in Nat
  BY DEF SuperBlocks

LEMMA BlocksCounted ==
  ASSUME NEW c \in SuperBlocks, NEW u \in Int, NEW f \in Int
  PROVE  [c EXCEPT !.used = u, !.free = f] \in SuperBlocks
  BY DEF SuperBlocks

LEMMA ExtensionCounted ==
  ASSUME NEW c \in SuperBlocks, NEW t \in Nat, NEW f \in Int
  PROVE  [c EXCEPT !.total = t, !.free = f] \in SuperBlocks
  BY DEF SuperBlocks

LEMMA InodesCounted ==
  ASSUME NEW c \in SuperBlocks, NEW k \in Nat
  PROVE  [c EXCEPT !.count = k] \in SuperBlocks
  BY DEF SuperBlocks

LEMMA OperationStep ==
  ASSUME NEW o \in Operations, NEW c \in BlockOrNone, NEW k \in Int
  PROVE  /\ [o EXCEPT !.cur = c, !.left = k] \in Operations
         /\ [o EXCEPT !.left = k] \in Operations
         /\ [o EXCEPT !.cur = c] \in Operations
         /\ [o EXCEPT !.nxt = c] \in Operations
         /\ o.left \in Int
  BY DEF Operations

LEMMA ReadInodeTyped ==
  ASSUME TypeInv, NEW b \in Blocks, data[b].kind # "text"
  PROVE  InodeAt(b) \in Inodes
<1>1. data[b] \in Payloads
  BY DEF TypeInv, TypeOK
<1>2. NoName \in Names \cup {NoName} /\ 0 \in BlockOrNone
  BY BlockTyped
<1>3. CASE data[b].kind = "inode"
  <2>1. data[b] # Zero /\ data[b] \notin [kind : {"text"}, chars : Seq(Chars)]
    BY <1>3 DEF Zero
  <2> QED
    BY <1>1, <1>3, <2>1 DEF InodeAt, Payloads
<1>4. CASE data[b].kind # "inode"
  BY <1>2, <1>4, InodeTyped DEF InodeAt
<1> QED
  BY <1>3, <1>4

LEMMA OpenTyped == TypeInv /\ Open => TypeInv'
<1> SUFFICES ASSUME TypeInv, Open PROVE TypeInv'
  OBVIOUS
<1> USE DEF TypeInv
<1>1. sb' \in SuperBlocks
  BY BlockTyped DEF Open, TypeOK, Headers, SuperBlocks, FreshSuperBlock, InitBlocks
<1> DEFINE c == IF sb'.count > 0 THEN header.first ELSE 0
<1>2. op'.cur = c /\ c \in BlockOrNone /\ (c = 0 <=> pc' = "idle")
      /\ op' = [NoOp EXCEPT !.cur = c]
  BY BlockTyped DEF Open, TypeOK, Headers, NoOp
<1>3. <<>> \in Seq(Inodes) /\ <<>> \in Seq(Chars)
  BY EmptySeq
<1>4. op' \in Operations
  <2> HIDE DEF c
  <2>1. op' = [name |-> NoName, rest |-> <<>>, cur |-> c, nxt |-> 0, left |-> 0]
    BY <1>2 DEF NoOp
  <2> QED
    BY <2>1, <1>2, <1>3, BlockTyped DEF Operations
<1> QED
  BY <1>1, <1>2, <1>3, <1>4
     DEF Open, TypeOK, Operations, Cursors, disk, history, Locations

LEMMA LoadTyped == TypeInv /\ LoadInode => TypeInv'
<1> SUFFICES ASSUME TypeInv, LoadInode PROVE TypeInv'
  OBVIOUS
<1>1. op.cur \in Blocks
  BY BlockTyped DEF TypeInv, TypeOK, Operations, Cursors, LoadInode
<1>2. CASE data[op.cur].kind = "text"
  BY <1>2 DEF TypeInv, TypeOK, Operations, Cursors, LoadInode, disk, history, Locations
<1>3. CASE data[op.cur].kind # "text"
  <2>1. InodeAt(op.cur) \in Inodes
    BY <1>1, <1>3, ReadInodeTyped
  <2>2. table' \in Seq(Inodes)
    <3>1. table \in Seq(Inodes) /\ table' = Append(table, InodeAt(op.cur))
      BY <1>3 DEF LoadInode, TypeInv, TypeOK
    <3> QED
      BY <2>1, <3>1, AppendProperties
  <2>3. InodeAt(op.cur).next \in BlockOrNone
    BY <2>1, FieldsTyped
  <2> QED
    BY <1>3, <2>2, <2>3
       DEF TypeInv, TypeOK, Operations, Cursors, LoadInode, disk, history, Locations
<1> QED
  BY <1>2, <1>3

LEMMA ExtendTyped == TypeInv /\ ExtendDisk => TypeInv'
<1> SUFFICES ASSUME TypeInv, ExtendDisk PROVE TypeInv'
  OBVIOUS
<1>1. sb' \in SuperBlocks
  <2>1. sb \in SuperBlocks /\ Extension \in Nat
    BY GeometryAssumption DEF TypeInv, TypeOK
  <2>2. sb.total + Extension \in Nat /\ sb.free + Extension \in Int
    BY <2>1, CounterTypes
  <2>3. sb' = [sb EXCEPT !.total = sb.total + Extension,
                         !.free = sb.free + Extension]
    BY DEF ExtendDisk
  <2> QED
    BY <2>1, <2>2, <2>3, ExtensionCounted
<1> QED
  BY <1>1 DEF TypeInv, TypeOK, Operations, Cursors, ExtendDisk, disk, history

LEMMA TakeTyped ==
  ASSUME TypeInv, NEW b \in Blocks, TakeBlock(b)
  PROVE  used' \in [Blocks -> BOOLEAN] /\ sb' \in SuperBlocks
<1>1. sb \in SuperBlocks /\ used \in [Blocks -> BOOLEAN]
  BY DEF TypeInv, TypeOK
<1>2. sb.used + 1 \in Int /\ sb.free - 1 \in Int
  BY <1>1, CounterTypes
<1>3. sb' = [sb EXCEPT !.used = sb.used + 1, !.free = sb.free - 1]
  BY DEF TakeBlock
<1>4. sb' \in SuperBlocks
  BY <1>1, <1>2, <1>3, BlocksCounted
<1> QED
  BY <1>1, <1>4 DEF TakeBlock

LEMMA MakeTyped == TypeInv /\ Make => TypeInv'
<1> SUFFICES ASSUME TypeInv, Make PROVE TypeInv'
  OBVIOUS
<1>1. CASE AllocInode
  <2>1. PICK b \in Blocks : TakeBlock(b) /\ op' = [op EXCEPT !.cur = b]
    BY <1>1 DEF AllocInode
  <2> QED
    BY <1>1, <2>1, TakeTyped, BlockTyped
       DEF AllocInode, TypeInv, TypeOK, Operations, Cursors, Locations
<1>2. CASE WriteInode
  <2> DEFINE new == NewInode(op.name, op.cur)
             last == Len(table)
             old == IF last = 0 THEN table
                    ELSE [table EXCEPT ![last].next = op.cur]
  <2>1. new \in Inodes
    BY InodeTyped DEF TypeInv, TypeOK, Operations
  <2>2. data' \in [Blocks -> Payloads]
    BY <1>2, <2>1 DEF WriteInode, TypeInv, TypeOK, Payloads
  <2>3. old \in Seq(Inodes)
    <3>1. CASE last # 0
      <4>1. table \in Seq(Inodes) /\ op.cur \in BlockOrNone
        BY DEF TypeInv, TypeOK, Operations
      <4>2. last \in 1..Len(table) /\ table[last] \in Inodes
        BY <3>1, <4>1, LenProperties, ElementOfSeq
      <4>3. [table[last] EXCEPT !.next = op.cur] \in Inodes
        BY <4>1, <4>2, FieldsTyped
      <4> QED
        BY <3>1, <4>1, <4>3, Replaced
    <3> QED
      BY <3>1 DEF TypeInv, TypeOK
  <2>4. table' \in Seq(Inodes)
    BY <1>2, <2>1, <2>3, AppendProperties DEF WriteInode
  <2>5. sb' \in SuperBlocks
    <3>1. sb \in SuperBlocks /\ sb' = [sb EXCEPT !.count = sb.count + 1]
      BY <1>2 DEF WriteInode, TypeInv, TypeOK
    <3>2. sb.count + 1 \in Nat
      BY <3>1, CounterTypes
    <3> QED
      BY <3>1, <3>2, InodesCounted
  <2> QED
    BY <1>2, <2>2, <2>4, <2>5
       DEF WriteInode, TypeInv, TypeOK, Operations, Cursors, Locations, history
<1>3. CASE AllocFirst
  <2> DEFINE i == IndexOf(op.name)
  <2>1. PICK b \in Blocks :
          /\ TakeBlock(b)
          /\ table' = [table EXCEPT ![i] =
               [@ EXCEPT !.start = b, !.size = Len(op.rest), !.count = 0]]
          /\ op' = [op EXCEPT !.cur = b]
    BY <1>3 DEF AllocFirst
  <2>2. table \in Seq(Inodes) /\ Len(op.rest) \in Nat
    BY LenProperties DEF TypeInv, TypeOK
  <2>3. i \in DOMAIN table =>
          [table[i] EXCEPT !.start = b, !.size = Len(op.rest), !.count = 0]
            \in Inodes
    BY <2>2, LenProperties, ElementOfSeq, FieldsTyped, BlockTyped
  <2>4. table' \in Seq(Inodes)
    BY <2>1, <2>2, <2>3, Replaced
  <2> QED
    BY <1>3, <2>1, <2>4, TakeTyped, BlockTyped
       DEF AllocFirst, TypeInv, TypeOK, Operations, Cursors, Locations
<1>4. CASE WriteData
  <2> DEFINE n == IF Len(op.rest) <= Payload THEN Len(op.rest) ELSE Payload
  <2>1. op.rest \in Seq(Chars) /\ Len(op.rest) \in Nat /\ n \in 0..Len(op.rest)
    BY LenProperties, GeometryAssumption DEF TypeInv, TypeOK, Operations
  <2>2. \A k \in 1..Len(op.rest) : op.rest[k] \in Chars
    BY <2>1, ElementOfSeq
  <2>3. SubSeq(op.rest, 1, n) \in Seq(Chars)
    BY <2>1, <2>2, SubSeqProperties
  <2>4. SubSeq(op.rest, n + 1, Len(op.rest)) \in Seq(Chars)
    BY <2>1, <2>2, SubSeqProperties
  <2>5. data' \in [Blocks -> Payloads]
    BY <1>4, <2>3 DEF WriteData, TypeInv, TypeOK, Payloads, Text
  <2>6. op' \in Operations
    BY <1>4, <2>4, BlockTyped DEF WriteData, TypeInv, TypeOK, Operations
  <2> QED
    BY <1>4, <2>5, <2>6
       DEF WriteData, TypeInv, TypeOK, Operations, Cursors, Locations, memory, history
<1>5. CASE AllocNext
  <2>1. PICK b \in Blocks : TakeBlock(b) /\ op' = [op EXCEPT !.nxt = b]
    BY <1>5 DEF AllocNext
  <2> QED
    BY <1>5, <2>1, TakeTyped, BlockTyped
       DEF AllocNext, TypeInv, TypeOK, Operations, Cursors, Locations
<1>6. CASE Link
  <2> DEFINE i == IndexOf(op.name)
  <2> DEFINE counted == [table[i] EXCEPT !.count = table[i].count + 1]
  <2>1. table' = [table EXCEPT ![i] = counted]
    BY <1>6 DEF Link
  <2>2. i \in DOMAIN table => counted \in Inodes
    <3>1. table \in Seq(Inodes)
      BY DEF TypeInv, TypeOK
    <3>2. i \in DOMAIN table => table[i] \in Inodes
      BY <3>1, LenProperties, ElementOfSeq
    <3>3. i \in DOMAIN table => table[i].count \in Nat
      BY <3>2 DEF Inodes
    <3>4. i \in DOMAIN table => table[i].count + 1 \in Nat
      BY <3>3
    <3> QED
      BY <3>2, <3>4, FieldsTyped
  <2>3. table' \in Seq(Inodes)
    <3>1. table \in Seq(Inodes)
      BY DEF TypeInv, TypeOK
    <3> HIDE DEF counted
    <3> QED
      BY <2>1, <2>2, <3>1, Replaced
  <2> QED
    BY <1>6, <2>3, BlockTyped
       DEF Link, TypeInv, TypeOK, Operations, Cursors, Locations, history
<1> QED
  BY <1>1, <1>2, <1>3, <1>4, <1>5, <1>6 DEF Make

LEMMA ClearTyped ==
  ASSUME TypeInv, NEW b, ClearBlock(b)
  PROVE  /\ header' \in Headers /\ used' \in [Blocks -> BOOLEAN]
         /\ data' \in [Blocks -> Payloads] /\ next' \in [Blocks -> BlockOrNone]
         /\ sb' \in SuperBlocks
<1>1. header' \in Headers
  BY BlockTyped DEF ClearBlock, TypeInv, TypeOK, Headers, ZeroHeader
<1>2. sb' \in SuperBlocks
  <2>1. sb \in SuperBlocks
        /\ sb' = [sb EXCEPT !.used = sb.used - 1, !.free = sb.free + 1]
    BY DEF ClearBlock, TypeInv, TypeOK
  <2>2. sb.used - 1 \in Int /\ sb.free + 1 \in Int
    BY <2>1, CounterTypes
  <2> QED
    BY <2>1, <2>2, BlocksCounted
<1>3. used' \in [Blocks -> BOOLEAN]
  BY DEF ClearBlock, TypeInv, TypeOK
<1>4. data' \in [Blocks -> Payloads]
  BY DEF ClearBlock, TypeInv, TypeOK, Payloads
<1>5. next' \in [Blocks -> BlockOrNone]
  BY BlockTyped DEF ClearBlock, TypeInv, TypeOK
<1> QED
  BY <1>1, <1>2, <1>3, <1>4, <1>5

\* rm_file closes the gap in the table and leaves its inodes well formed.
LEMMA UnlinkedTyped ==
  ASSUME table \in Seq(Inodes), NEW i \in DOMAIN table
  PROVE  Unlinked(i) \in Seq(Inodes) /\ Len(Unlinked(i)) = Len(table) - 1
<1> DEFINE after == IF i = Len(table) THEN 0 ELSE table[i + 1].orig
           linked == [table[i - 1] EXCEPT !.next = after]
           relinked == IF i = 1 THEN table ELSE [table EXCEPT ![i - 1] = linked]
           pick(j) == IF j < i THEN j ELSE j + 1
           t == [j \in 1..(Len(table) - 1) |-> relinked[pick(j)]]
<1>1. DOMAIN table = 1..Len(table) /\ Len(table) \in Nat
  BY LenProperties
<1>2. \A j \in DOMAIN table : table[j] \in Inodes
  BY <1>1, ElementOfSeq
<1>3. after \in BlockOrNone
  <2>1. CASE i # Len(table)
    <3>1. i + 1 \in DOMAIN table
      BY <1>1, <2>1
    <3> QED
      BY <1>2, <2>1, <3>1, FieldsTyped
  <2> QED
    BY <2>1, BlockTyped
<1>4. relinked \in Seq(Inodes) /\ Len(relinked) = Len(table)
  <2>1. CASE i # 1
    <3>1. i - 1 \in DOMAIN table
      BY <1>1, <2>1
    <3>2. linked \in Inodes
      BY <1>2, <1>3, <3>1, FieldsTyped
    <3> HIDE DEF linked
    <3> QED
      BY <2>1, <3>2, Replaced
  <2> QED
    BY <2>1
<1>5. \A j \in 1..(Len(table) - 1) : relinked[pick(j)] \in Inodes
  <2> TAKE j \in 1..(Len(table) - 1)
  <2>1. pick(j) \in 1..Len(relinked)
    BY <1>1, <1>4
  <2> HIDE DEF relinked
  <2> QED
    BY <2>1, <1>4, ElementOfSeq
<1>6. t \in Seq(Inodes) /\ Len(t) = Len(table) - 1
  <2> HIDE DEF relinked, pick
  <2>1. t \in [1..(Len(table) - 1) -> Inodes]
    BY <1>5
  <2>2. Len(table) - 1 \in Nat
    BY <1>1
  <2> QED
    BY <2>1, <2>2
<1>7. Unlinked(i) = t
  BY DEF Unlinked
<1> QED
  BY <1>6, <1>7

LEMMA DeleteTyped ==
  TypeInv /\ (Delete \/ \E n \in Names : DeleteFile(n)) => TypeInv'
<1> SUFFICES ASSUME TypeInv, Delete \/ \E n \in Names : DeleteFile(n)
             PROVE  TypeInv'
  OBVIOUS
<1>0. table \in Seq(Inodes) /\ DOMAIN table = 1..Len(table)
  BY LenProperties DEF TypeInv, TypeOK
<1>1. ASSUME NEW n \in Names, DeleteFile(n) PROVE TypeInv'
  <2> DEFINE i == IndexOf(n)
  <2>1. table[i] \in Inodes
    BY <1>0, <1>1, IndexFound, ElementOfSeq DEF DeleteFile, IndexOf
  <2>2. table[i].start \in BlockOrNone /\ table[i].count \in Int
    BY <2>1 DEF Inodes
  <2>3. op' = [name |-> n, rest |-> <<>>, cur |-> table[i].start, nxt |-> 0,
               left |-> table[i].count]
    BY <1>1 DEF DeleteFile, NoOp
  <2>4. <<>> \in Seq(Chars)
    BY EmptySeq
  <2>6. IndexOf(op.name)' = i
    BY <1>1, <2>3 DEF IndexOf, DeleteFile, memory
  <2> HIDE DEF i
  <2>5. op' \in Operations
    BY <2>2, <2>3, <2>4, BlockTyped DEF Operations
  <2> QED
    BY <1>1, <2>5, <2>6
       DEF DeleteFile, i, TypeInv, TypeOK, Operations, Cursors, Locations, disk, memory
<1>2. CASE ClearData
  <2>1. op.cur = 0 \/ op.cur \in Blocks
    BY BlockTyped DEF TypeInv, TypeOK, Operations
  <2>2. NextOf(op.cur) \in BlockOrNone
    BY <2>1, BlockTyped DEF NextOf, TypeInv, TypeOK
  <2>3. op' \in Operations
    <3>1. op \in Operations
      BY DEF TypeInv, TypeOK
    <3>2. op.left - 1 \in Int
      BY <3>1 DEF Operations
    <3>3. op' = [op EXCEPT !.cur = NextOf(op.cur), !.left = op.left - 1]
      BY <1>2 DEF ClearData
    <3> QED
      BY <2>2, <3>1, <3>2, <3>3, OperationStep
  <2>4. IndexOf(op.name)' = IndexOf(op.name) /\ IndexOf(op.name) # 0
    BY <1>2 DEF ClearData, IndexOf, TypeInv, Cursors
  <2> QED
    BY <1>2, <2>3, <2>4, ClearTyped
       DEF ClearData, TypeInv, TypeOK, Operations, Cursors, Locations
<1>3. CASE ClearInode
  <2> DEFINE i == IndexOf(op.name)
  <2>1. i \in DOMAIN table
    BY <1>0, <1>3, IndexFound DEF ClearInode, IndexOf, TypeInv, Cursors
  <2>2. table' \in Seq(Inodes)
    BY <1>0, <1>3, <2>1, UnlinkedTyped DEF ClearInode
  <2>3. <<>> \in Seq(Chars)
    BY EmptySeq
  <2> QED
    BY <1>3, <2>2, <2>3, ClearTyped, BlockTyped
       DEF ClearInode, TypeInv, TypeOK, Operations, Cursors, Locations, NoOp
<1> QED
  BY <1>1, <1>2, <1>3 DEF Delete

LEMMA SaveTyped == TypeInv /\ Save => TypeInv'
<1> SUFFICES ASSUME TypeInv, Save PROVE TypeInv'
  OBVIOUS
<1>0. /\ <<>> \in Seq(Inodes) /\ <<>> \in Seq(Chars)
      /\ table \in Seq(Inodes) /\ DOMAIN table = 1..Len(table)
      /\ Len(table) \in Nat /\ (table # <<>> => Len(table) # 0)
  BY EmptySeq, LenProperties DEF TypeInv, TypeOK
<1>1. FreshSuperBlock \in SuperBlocks /\ InitBlocks \in Nat
  BY DEF FreshSuperBlock, SuperBlocks, InitBlocks
<1>2. NoOp \in Operations
  BY <1>0, BlockTyped DEF NoOp, Operations
<1>3. CASE Close
  BY <1>2, <1>3 DEF Close, TypeInv, TypeOK, Operations, Cursors, Locations, disk, memory,
                    history
<1>4. CASE SaveHeader
  <2>1. header' \in Headers
    <3>1. table # <<>> => table[1].orig \in BlockOrNone
      <4>1. table # <<>> => table[1] \in Inodes
        BY <1>0, ElementOfSeq
      <4> QED
        BY <4>1, FieldsTyped
    <3>2. sb.total \in Nat /\ sb.free \in Int /\ sb.used \in Int /\ sb.count \in Nat
      BY CounterTypes DEF TypeInv, TypeOK
    <3> QED
      BY <1>4, <3>1, <3>2, BlockTyped DEF SaveHeader, Headers, InitBlocks
  <2>2. CASE table = <<>>
    BY <1>0, <1>1, <1>2, <1>4, <2>1, <2>2
       DEF SaveHeader, Saved, TypeInv, TypeOK, Operations, Cursors, Locations
  <2>3. CASE table # <<>>
    <3>1. op' = [name |-> NoName, rest |-> <<>>, cur |-> 0, nxt |-> 0, left |-> 1]
      BY <1>4, <2>3 DEF SaveHeader, NoOp
    <3>2. op' \in Operations
      BY <1>0, <3>1, BlockTyped DEF Operations
    <3> QED
      BY <1>0, <1>4, <2>1, <2>3, <3>1, <3>2
         DEF SaveHeader, TypeInv, TypeOK, Operations, Cursors, Locations, memory
  <2> QED
    BY <2>2, <2>3
<1>5. CASE SaveInode
  <2>1. table[op.left] \in Inodes
    BY <1>0, <1>5, ElementOfSeq DEF SaveInode, TypeInv, Cursors
  <2>2. header' \in Headers
    BY <1>5, BlockTyped DEF SaveInode, TypeInv, TypeOK, Headers, ZeroHeader, InitBlocks
  <2>3. data' \in [Blocks -> Payloads]
    BY <1>5, <2>1 DEF SaveInode, TypeInv, TypeOK, Payloads
  <2>4. CASE op.left = Len(table)
    BY <1>0, <1>1, <1>2, <1>5, <2>2, <2>3, <2>4
       DEF SaveInode, Saved, TypeInv, TypeOK, Operations, Cursors, Locations
  <2>5. CASE op.left # Len(table)
    <3>1. op.left + 1 \in 1..Len(table)
      BY <1>0, <1>5, <2>5 DEF SaveInode, TypeInv, Cursors
    <3>2. op' \in Operations
      <4>1. op \in Operations /\ op' = [op EXCEPT !.left = op.left + 1]
        BY <1>5, <2>5 DEF SaveInode, TypeInv, TypeOK
      <4>2. op.left + 1 \in Int
        BY <3>1
      <4> QED
        BY <4>1, <4>2, BlockTyped, OperationStep
    <3>3. op'.left = op.left + 1
      BY <1>5, <2>5 DEF SaveInode, TypeInv, TypeOK, Operations
    <3> QED
      BY <1>5, <2>2, <2>3, <2>5, <3>1, <3>2, <3>3
         DEF SaveInode, TypeInv, TypeOK, Operations, Cursors, Locations, memory
  <2> QED
    BY <2>4, <2>5
<1> QED
  BY <1>3, <1>4, <1>5 DEF Save

\* What the constructor loads from block b on, as its k-th inode, with rest what
\* it loads after that.
Loaded(k, b, rest) ==
  IF b = 0 \/ k = MaxBlock THEN <<>>
  ELSE IF data[b].kind = "text" THEN <<>>
  ELSE <<InodeAt(b)>> \o rest

LEMMA LoadedTyped ==
  ASSUME TypeInv, NEW k \in Nat, NEW b \in BlockOrNone, NEW rest,
         b \in Blocks /\ data[b].kind # "text" => rest \in Seq(Inodes)
  PROVE  Loaded(k, b, rest) \in Seq(Inodes)
<1>1. CASE b = 0 \/ data[b].kind = "text"
  BY <1>1, EmptySeq DEF Loaded
<1>2. CASE b # 0 /\ data[b].kind # "text"
  <2>1. b \in Blocks
    BY <1>2, BlockTyped
  <2>2. InodeAt(b) \in Inodes
    BY <1>2, <2>1, ReadInodeTyped
  <2>3. \A i \in Inodes : <<i>> \in Seq(Inodes)
    OBVIOUS
  <2>4. <<InodeAt(b)>> \o rest \in Seq(Inodes)
    BY <1>2, <2>1, <2>2, <2>3, ConcatProperties
  <2> QED
    BY <2>4, EmptySeq DEF Loaded
<1> QED
  BY <1>1, <1>2

\* DiskTable, which is a choice of a function, satisfies its equation.
LEMMA DiskTableIs ==
  ASSUME TypeInv
  PROVE  \E f :
           /\ \A k \in 0..MaxBlock, b \in BlockOrNone :
                f[k][b] = Loaded(k, b, f[k + 1][InodeAt(b).next])
           /\ DiskTable = IF header.init # 0 /\ header.count > 0 THEN f[0][header.first]
                          ELSE <<>>
<1> DEFINE Rows == [BlockOrNone -> Seq(Inodes)]
           none == [b \in BlockOrNone |-> <<>>]
           Row(k, h) == [b \in BlockOrNone |-> Loaded(k, b, h[InodeAt(b).next])]
<1>1. MaxBlock \in Nat /\ none \in Rows
  BY GeometryAssumption, EmptySeq
<1>2. \A k \in Nat, h \in Rows : Row(k, h) \in Rows
  <2> SUFFICES ASSUME NEW k \in Nat, NEW h \in Rows PROVE Row(k, h) \in Rows
    OBVIOUS
  <2>1. ASSUME NEW b \in BlockOrNone PROVE Loaded(k, b, h[InodeAt(b).next]) \in Seq(Inodes)
    <3>1. b \in Blocks /\ data[b].kind # "text" => InodeAt(b).next \in BlockOrNone
      BY ReadInodeTyped, FieldsTyped
    <3>2. b \in Blocks /\ data[b].kind # "text" => h[InodeAt(b).next] \in Seq(Inodes)
      BY <3>1
    <3> QED
      BY <3>2, LoadedTyped
  <2> QED
    BY <2>1
<1>3. \A h : Row(MaxBlock, h) = none
  BY DEF Loaded
<1> HIDE DEF Rows, none
<1>4. PICK step \in [0..MaxBlock -> [Rows -> Rows]] :
        \A k \in 0..MaxBlock, h \in Rows : step[k][h] = Row(k, h)
  <2> DEFINE step == [k \in 0..MaxBlock |-> [h \in Rows |-> Row(k, h)]]
  <2> HIDE DEF Row
  <2>1. step \in [0..MaxBlock -> [Rows -> Rows]]
    BY <1>1, <1>2
  <2>2. \A k \in 0..MaxBlock, h \in Rows : step[k][h] = Row(k, h)
    OBVIOUS
  <2> QED
    BY <2>1, <2>2
<1>5. PICK f \in [0..MaxBlock -> Rows] :
        f[MaxBlock] = none /\ \A k \in 0..(MaxBlock - 1) : f[k] = step[k][f[k + 1]]
  <2>1. Computes(step, MaxBlock, Rows)
    BY DEF Computes
  <2> QED
    BY <1>1, <2>1, Downwards
<1>6. f = [k \in 0..MaxBlock |-> Row(k, f[k + 1])]
  <2> HIDE DEF Row
  <2> SUFFICES ASSUME NEW k \in 0..MaxBlock PROVE f[k] = Row(k, f[k + 1])
    OBVIOUS
  <2>1. CASE k = MaxBlock
    BY <1>3, <1>5, <2>1
  <2>2. CASE k # MaxBlock
    <3>1. k \in 0..(MaxBlock - 1) /\ k + 1 \in 0..MaxBlock
      BY <1>1, <2>2
    <3> QED
      BY <1>4, <1>5, <3>1
  <2> QED
    BY <2>1, <2>2
<1> DEFINE F == CHOOSE g : g = [k \in 0..MaxBlock |-> Row(k, g[k + 1])]
<1>7. DiskTable = IF header.init # 0 /\ header.count > 0 THEN F[0][header.first] ELSE <<>>
  BY DEF DiskTable, Loaded
<1>8. F = [k \in 0..MaxBlock |-> Row(k, F[k + 1])]
  <2> HIDE DEF Row
  <2> QED
    BY <1>6
<1>9. \A k \in 0..MaxBlock, b \in BlockOrNone :
        F[k][b] = Loaded(k, b, F[k + 1][InodeAt(b).next])
  <2> HIDE DEF F
  <2> SUFFICES ASSUME NEW k \in 0..MaxBlock
               PROVE  \A b \in BlockOrNone : F[k][b] = Loaded(k, b, F[k + 1][InodeAt(b).next])
    OBVIOUS
  <2>1. F[k] = Row(k, F[k + 1])
    <3> HIDE DEF Row
    <3> QED
      BY <1>8
  <2> QED
    BY <2>1
<1> HIDE DEF F
<1> QED
  BY <1>7, <1>9

LEMMA DiskTableTyped ==
  ASSUME TypeInv
  PROVE  DiskTable \in Seq(Inodes)
<1>1. PICK f : /\ \A k \in 0..MaxBlock, b \in BlockOrNone :
                    f[k][b] = Loaded(k, b, f[k + 1][InodeAt(b).next])
               /\ DiskTable = IF header.init # 0 /\ header.count > 0 THEN f[0][header.first]
                              ELSE <<>>
  BY DiskTableIs
<1> DEFINE T == {k \in 0..MaxBlock : \A b \in BlockOrNone : f[k][b] \in Seq(Inodes)}
<1>2. MaxBlock \in Nat /\ header.first \in BlockOrNone
  BY GeometryAssumption DEF TypeInv, TypeOK, Headers
<1>3. MaxBlock \in T
  <2>1. MaxBlock \in 0..MaxBlock
    BY <1>2
  <2>2. ASSUME NEW b \in BlockOrNone PROVE f[MaxBlock][b] \in Seq(Inodes)
    <3>1. f[MaxBlock][b] = Loaded(MaxBlock, b, f[MaxBlock + 1][InodeAt(b).next])
      BY <1>1, <2>1
    <3>2. f[MaxBlock][b] = <<>>
      BY <3>1 DEF Loaded
    <3> QED
      BY <3>2, EmptySeq
  <2> QED
    BY <2>1, <2>2
<1>4. ASSUME NEW k \in 0..(MaxBlock - 1), k + 1 \in T PROVE k \in T
  <2>1. k \in 0..MaxBlock /\ k \in Nat
    BY <1>2
  <2>2. ASSUME NEW b \in BlockOrNone PROVE f[k][b] \in Seq(Inodes)
    <3>1. b \in Blocks /\ data[b].kind # "text" => InodeAt(b).next \in BlockOrNone
      BY ReadInodeTyped, FieldsTyped
    <3>2. b \in Blocks /\ data[b].kind # "text"
            => f[k + 1][InodeAt(b).next] \in Seq(Inodes)
      BY <1>4, <3>1
    <3>3. Loaded(k, b, f[k + 1][InodeAt(b).next]) \in Seq(Inodes)
      BY <2>1, <3>2, LoadedTyped
    <3> QED
      BY <1>1, <2>1, <3>3
  <2> QED
    BY <2>1, <2>2
<1>5. 0 \in T
  <2> HIDE DEF T
  <2> QED
    BY <1>2, <1>3, <1>4, Descent
<1> QED
  BY <1>1, <1>2, <1>5, EmptySeq

LEMMA CrashTyped == TypeInv /\ Crash => TypeInv'
<1> SUFFICES ASSUME TypeInv, Crash PROVE TypeInv'
  OBVIOUS
<1>1. <<>> \in Seq(Inodes) /\ <<>> \in Seq(Chars)
  BY EmptySeq
<1>2. FreshSuperBlock \in SuperBlocks
  BY DEF FreshSuperBlock, SuperBlocks, InitBlocks
<1>3. kills' \in 0..MaxKills
  BY GeometryAssumption DEF Crash, TypeInv, TypeOK
<1>4. saved' \in Seq(Inodes)
  BY DiskTableTyped DEF Crash
<1> QED
  BY <1>1, <1>2, <1>3, <1>4, BlockTyped
     DEF Crash, TypeInv, TypeOK, Operations, Cursors, Locations, NoOp, disk

LEMMA MakeFileTyped ==
  ASSUME TypeInv, NEW n \in Names, NEW t \in Texts, MakeFile(n, t)
  PROVE  TypeInv'
<1>1. t \in Seq(Chars)
  BY TextsAssumption
<1>2. op' = [name |-> n, rest |-> t, cur |-> 0, nxt |-> 0, left |-> 0]
  BY DEF MakeFile, NoOp
<1> QED
  BY <1>1, <1>2, BlockTyped
     DEF MakeFile, TypeInv, TypeOK, Operations, Cursors, Locations, disk, memory, history

LEMMA NextTyped == TypeInv /\ [Next \/ Crash]_vars => TypeInv'
<1> SUFFICES ASSUME TypeInv, [Next \/ Crash]_vars PROVE TypeInv'
  OBVIOUS
<1>1. CASE Load
  BY <1>1, OpenTyped, LoadTyped DEF Load
<1>2. CASE Save
  BY <1>2, SaveTyped
<1>3. CASE ExtendDisk
  BY <1>3, ExtendTyped
<1>4. CASE Make
  BY <1>4, MakeTyped
<1>5. CASE Delete \/ \E n \in Names : DeleteFile(n)
  BY <1>5, DeleteTyped
<1>6. CASE \E n \in Names : \E t \in Texts : MakeFile(n, t)
  BY <1>6, MakeFileTyped
<1>7. CASE Crash
  BY <1>7, CrashTyped
<1>8. CASE UNCHANGED vars
  BY <1>8 DEF vars, TypeInv, TypeOK, Cursors, IndexOf
<1> QED
  BY <1>1, <1>2, <1>3, <1>4, <1>5, <1>6, <1>7, <1>8 DEF Next

\* disk.bin and the SuperBlock keep their types however often the process is
\* killed: no operation of File_system leaves a counter, a pointer or a table
\* of inodes that a later one could not read.
THEOREM Typing == CrashSpec => []TypeOK
<1>1. Init => TypeInv
  BY InitTyped
<1>2. TypeInv /\ [Next \/ Crash]_vars => TypeInv'
  BY NextTyped
<1>3. TypeInv => TypeOK
  BY DEF TypeInv
<1> QED
  BY <1>1, <1>2, <1>3, PTL DEF CrashSpec

-----------------------------------------------------------------------------
(* How the operations change the names of blocks: facts about a table t,   *)
(* the blocks in use U, the next pointers nx and the inodes C being        *)
(* cleared, whatever they are.                                             *)

Unnamed(b, t, nx, C) ==
  /\ \A i \in DOMAIN t : t[i].orig # b
  /\ \A i \in DOMAIN t \ C : t[i].start # b
  /\ \A c \in Blocks : nx[c] # b

\* empty_B may mark more blocks, and those it marks are not named yet.
LEMMA TakingKeeps ==
  ASSUME NEW t, NEW U, NEW V, NEW nx, NEW C,
         NamedOnce(t, U, nx, C), U \subseteq V
  PROVE  NamedOnce(t, V, nx, C)
  BY DEF NamedOnce

LEMMA FreeIsUnnamed ==
  ASSUME NEW t, NEW U, NEW nx, NEW C, NEW b \in Blocks,
         NamedOnce(t, U, nx, C), b \notin U
  PROVE  Unnamed(b, t, nx, C)
<1>1. b # 0
  BY BlockTyped DEF Blocks, InitBlocks
<1> QED
  BY <1>1 DEF NamedOnce, Unnamed

\* adIno_file appends an inode in a block of its own.
LEMMA AppendingKeeps ==
  ASSUME NEW t, NEW U, NEW nx, NEW C, NEW b, NEW t2, NEW n,
         NamedOnce(t, U, nx, C), Unnamed(b, t, nx, C), b \in U,
         DOMAIN t2 = DOMAIN t \cup {n}, n \notin DOMAIN t,
         t2[n].orig = b, t2[n].start = 0,
         \A i \in DOMAIN t : t2[i].orig = t[i].orig /\ t2[i].start = t[i].start
  PROVE  NamedOnce(t2, U, nx, C)
  BY DEF NamedOnce, Unnamed

\* wr_file gives inode k a first data block.
LEMMA StartingKeeps ==
  ASSUME NEW t, NEW U, NEW nx, NEW C, NEW b, NEW t2, NEW k,
         NamedOnce(t, U, nx, C), Unnamed(b, t, nx, C), b \in U,
         DOMAIN t2 = DOMAIN t,
         \A i \in DOMAIN t : /\ t2[i].orig = t[i].orig
                             /\ t2[i].start = IF i = k THEN b ELSE t[i].start
  PROVE  NamedOnce(t2, U, nx, C)
  BY DEF NamedOnce, Unnamed

\* wr_file links block c to a block that no one names, or to none.
LEMMA LinkingKeeps ==
  ASSUME NEW t, NEW U, NEW nx \in [Blocks -> BlockOrNone], NEW C, NEW c, NEW v,
         NamedOnce(t, U, nx, C), v # 0 => v \in U /\ Unnamed(v, t, nx, C)
  PROVE  NamedOnce(t, U, [nx EXCEPT ![c] = v], C)
  BY DEF NamedOnce, Unnamed

\* clear_block frees a block that no one names, and with it the name of the
\* block after it.
LEMMA ClearingKeeps ==
  ASSUME NEW t, NEW U, NEW nx, NEW C, NEW c, NEW V, NEW mx,
         NamedOnce(t, U, nx, C), Unnamed(c, t, nx, C),
         \A b \in U : b # c => b \in V,
         \A b \in Blocks : mx[b] = IF b = c THEN 0 ELSE nx[b]
  PROVE  /\ NamedOnce(t, V, mx, C)
         /\ c \in Blocks /\ nx[c] # 0 => Unnamed(nx[c], t, mx, C)
  BY DEF NamedOnce, Unnamed

\* rm_file forgets the first data block of inode i before it clears it.
LEMMA ForgettingKeeps ==
  ASSUME NEW t, NEW U, NEW nx, NEW i \in DOMAIN t, NamedOnce(t, U, nx, {})
  PROVE  /\ NamedOnce(t, U, nx, {i})
         /\ t[i].start # 0 => Unnamed(t[i].start, t, nx, {i})
  BY DEF NamedOnce, Unnamed

\* rm_file drops inode i and clears its block.
LEMMA DroppingKeeps ==
  ASSUME NEW t, NEW U, NEW nx, NEW i \in DOMAIN t, NEW V, NEW mx, NEW t2,
         NEW pick \in [DOMAIN t2 -> DOMAIN t \ {i}],
         NamedOnce(t, U, nx, {i}),
         \A j, k \in DOMAIN t2 : pick[j] = pick[k] => j = k,
         \A j \in DOMAIN t2 : /\ t2[j].orig = t[pick[j]].orig
                              /\ t2[j].start = t[pick[j]].start,
         \A b \in U : b # t[i].orig => b \in V,
         \A b \in Blocks : mx[b] = IF b = t[i].orig THEN 0 ELSE nx[b]
  PROVE  NamedOnce(t2, V, mx, {})
  BY DEF NamedOnce

-----------------------------------------------------------------------------
(* The inductive invariant of a process that is never killed.  OneReference*)
(* alone is not inductive: the block an operation holds must be free of    *)
(* names until it is linked (Working), and what the constructor reads must *)
(* be what the destructor wrote (Linked, OnDiskAsSaved).                   *)

Working ==
  /\ pc = "inodeWrite" =>
       op.cur \in UsedBlocks /\ Unnamed(op.cur, Live, next, BeingCleared)
  /\ pc = "link" /\ op.nxt # 0 =>
       op.nxt \in UsedBlocks /\ Unnamed(op.nxt, Live, next, BeingCleared)
  /\ pc = "clearData" /\ op.cur # 0 =>
       Unnamed(op.cur, Live, next, BeingCleared)

\* In table t every inode knows the block of the next one.
Chained(t) == \A i \in DOMAIN t :
                t[i].next = IF i = Len(t) THEN 0 ELSE t[i + 1].orig

Linked == Chained(Live)

\* The header leads to table t.
HeaderLeadsTo(t) == IF t = <<>> THEN header.first = 0
                    ELSE /\ header.init # 0
                         /\ header.count > 0
                         /\ header.first = t[1].orig

OnDiskAsSaved ==
  /\ pc # "damaged"
  /\ pc \notin {"closed", "loading"} /\ table # <<>> => sb.count > 0
  /\ pc \in {"closed", "loading"} =>
       \A i \in DOMAIN saved : data[saved[i].orig] = saved[i]
  /\ pc = "closed" => HeaderLeadsTo(saved)
  /\ pc = "loading" =>
       /\ sb.count > 0
       /\ Len(table) < Len(saved)
       /\ \A i \in 1..Len(table) : table[i] = saved[i]
       /\ op.cur = saved[Len(table) + 1].orig
  /\ pc = "saveInode" =>
       /\ HeaderLeadsTo(table)
       /\ \A i \in 1..(op.left - 1) : data[table[i].orig] = table[i]

DiskInv == TypeInv /\ OneReference /\ Working /\ Linked
RestartInv == DiskInv /\ OnDiskAsSaved

LEMMA LiveTyped ==
  ASSUME TypeInv
  PROVE  /\ Live \in Seq(Inodes) /\ Len(Live) \in Nat
         /\ DOMAIN Live = 1..Len(Live)
         /\ \A i \in DOMAIN Live : Live[i] \in Inodes
         /\ Live = <<>> <=> Len(Live) = 0
<1>1. Live \in Seq(Inodes)
  BY DEF Live, TypeInv, TypeOK
<1> HIDE DEF Live
<1> QED
  BY <1>1, LenProperties, ElementOfSeq, EmptySeq

\* In the table the disk was left with, every inode has a block that is
\* neither the header nor the block of another inode.
LEMMA OrigsAreBlocks ==
  ASSUME DiskInv
  PROVE  \A i \in DOMAIN Live : Live[i].orig \in Blocks /\ Live[i].orig # 0
  BY BlockTyped DEF DiskInv, OneReference, NamedOnce, UsedBlocks

LEMMA InitInv == Init => RestartInv
<1> SUFFICES ASSUME Init PROVE RestartInv
  OBVIOUS
<1>1. TypeInv
  BY InitTyped
<1>2. Live = <<>> /\ BeingCleared = {} /\ DOMAIN Live = {}
  BY LiveTyped, <1>1 DEF Live, Init, BeingCleared, Deleting
<1>3. OneReference
  BY <1>2 DEF OneReference, NamedOnce, Init
<1>4. OnDiskAsSaved
  BY <1>2 DEF OnDiskAsSaved, HeaderLeadsTo, Init, ZeroHeader, Live
<1> QED
  BY <1>1, <1>2, <1>3, <1>4 DEF RestartInv, DiskInv, Working, Linked, Chained, Init

\* A step that takes no block, frees none, and changes neither a name of a
\* block nor the inodes that matter.
LEMMA FrameKeeps ==
  ASSUME OneReference, Linked, Live' = Live, UNCHANGED <<used, next>>,
         BeingCleared = {}, BeingCleared' = {}
  PROVE  OneReference' /\ Linked'
  BY DEF OneReference, Linked, UsedBlocks

LEMMA OpenKeeps == RestartInv /\ Open => RestartInv'
<1> SUFFICES ASSUME RestartInv, Open PROVE RestartInv'
  OBVIOUS
<1>1. TypeInv' /\ UNCHANGED <<used, next, data, header, saved>>
  BY OpenTyped DEF RestartInv, DiskInv, Open, disk, history
<1>2. Live = saved /\ pc = "closed" /\ pc' \in {"idle", "loading"}
  BY DEF Open, Live
<1>3. BeingCleared = {} /\ BeingCleared' = {}
  BY <1>2 DEF BeingCleared, Deleting
<1>4. CASE saved = <<>>
  <2>1. pc' = "idle" /\ table' = <<>>
    BY <1>2, <1>4 DEF Open, RestartInv, DiskInv, OnDiskAsSaved, HeaderLeadsTo, NoOp
  <2>2. Live' = Live
    BY <1>2, <1>4, <2>1 DEF Live
  <2>3. OneReference' /\ Linked'
    BY <1>1, <1>3, <2>2, FrameKeeps DEF RestartInv, DiskInv
  <2> QED
    BY <1>1, <2>1, <2>3 DEF RestartInv, DiskInv, Working, OnDiskAsSaved
<1>5. CASE saved # <<>>
  <2>1. 1 \in DOMAIN saved /\ Len(saved) > 0
    BY <1>2, <1>5, LiveTyped DEF RestartInv, DiskInv
  <2>2. saved[1].orig # 0
    BY <1>2, <2>1, OrigsAreBlocks DEF RestartInv
  <2>3. /\ header.init # 0 /\ header.count > 0
        /\ header.first = saved[1].orig
    BY <1>2, <1>5 DEF RestartInv, DiskInv, OnDiskAsSaved, HeaderLeadsTo
  <2>4. /\ pc' = "loading" /\ sb'.count > 0 /\ table' = <<>>
        /\ op'.cur = saved[1].orig
    BY <2>2, <2>3 DEF Open, NoOp
  <2>5. Live' = Live
    BY <1>1, <1>2, <2>4 DEF Live
  <2>6. OneReference' /\ Linked'
    BY <1>1, <1>3, <2>5, FrameKeeps DEF RestartInv, DiskInv
  <2>7. Len(table') = 0
    BY <2>4, EmptySeq
  <2>8. OnDiskAsSaved'
    BY <1>1, <1>2, <2>1, <2>4, <2>7 DEF RestartInv, DiskInv, OnDiskAsSaved
  <2> QED
    BY <1>1, <2>4, <2>6, <2>8 DEF RestartInv, DiskInv, Working
<1> QED
  BY <1>4, <1>5

LEMMA LoadKeeps == RestartInv /\ LoadInode => RestartInv'
<1> SUFFICES ASSUME RestartInv, LoadInode PROVE RestartInv'
  OBVIOUS
<1> DEFINE n == Len(table) + 1
<1>1. TypeInv' /\ UNCHANGED <<used, next, data, header, saved, sb>>
  BY LoadTyped DEF RestartInv, DiskInv, LoadInode, disk, history
<1>2. pc = "loading" /\ Live = saved
  BY DEF LoadInode, Live
<1>3. /\ BeingCleared = {} /\ BeingCleared' = {}
      /\ pc' \in {"idle", "loading", "damaged"}
  BY <1>2 DEF BeingCleared, Deleting, LoadInode
<1>4. /\ table \in Seq(Inodes) /\ Len(table) \in Nat /\ Len(saved) \in Nat
      /\ DOMAIN saved = 1..Len(saved) /\ n \in DOMAIN saved
      /\ saved[n] \in Inodes
  BY <1>2, LiveTyped, LenProperties DEF RestartInv, DiskInv, OnDiskAsSaved, TypeInv, TypeOK
<1>5. data[op.cur] = saved[n] /\ data[op.cur].kind = "inode"
  BY <1>2, <1>4 DEF RestartInv, DiskInv, OnDiskAsSaved, Inodes
<1>6. /\ table' = Append(table, saved[n])
      /\ op'.cur = saved[n].next
      /\ pc' = IF saved[n].next = 0 THEN "idle" ELSE "loading"
  <2>1. op \in Operations
    BY DEF RestartInv, DiskInv, TypeInv, TypeOK
  <2> QED
    BY <1>5, <2>1 DEF LoadInode, InodeAt, Operations
<1>7. /\ table' \in Seq(Inodes) /\ Len(table') = n
      /\ \A i \in 1..n : table'[i] = saved[i]
  <2>1. \A i \in 1..Len(table) : table[i] = saved[i]
    BY <1>2 DEF RestartInv, DiskInv, OnDiskAsSaved
  <2> QED
    BY <1>4, <1>6, <2>1, AppendProperties
<1>8. saved[n].next = IF n = Len(saved) THEN 0 ELSE saved[n + 1].orig
  BY <1>2, <1>4 DEF RestartInv, DiskInv, Linked, Chained
<1>9. n # Len(saved) => n < Len(saved) /\ saved[n + 1].orig # 0
  <2> HIDE DEF n
  <2>0. n \in 1..Len(saved) /\ Len(saved) \in Nat
    BY <1>4
  <2>3. n # Len(saved) => n < Len(saved) /\ n + 1 \in 1..Len(saved)
    BY <2>0
  <2>1. n # Len(saved) => n < Len(saved) /\ n + 1 \in DOMAIN saved
    BY <1>4, <2>3
  <2>2. n # Len(saved) => saved[n + 1].orig # 0
    BY <1>2, <2>1, OrigsAreBlocks DEF RestartInv
  <2> QED
    BY <2>1, <2>2
<1>10. CASE n = Len(saved)
  <2>1. pc' = "idle" /\ table' = saved
    BY <1>4, <1>6, <1>7, <1>8, <1>10, SeqEqual DEF RestartInv, DiskInv, TypeInv, TypeOK
  <2>2. Live' = Live
    BY <1>2, <2>1 DEF Live
  <2>3. OneReference' /\ Linked'
    BY <1>1, <1>3, <2>2, FrameKeeps DEF RestartInv, DiskInv
  <2>4. sb.count > 0
    BY <1>2 DEF RestartInv, DiskInv, OnDiskAsSaved
  <2> QED
    BY <1>1, <2>1, <2>3, <2>4 DEF RestartInv, DiskInv, Working, OnDiskAsSaved
<1>11. CASE n # Len(saved)
  <2>1. pc' = "loading" /\ op'.cur = saved[n + 1].orig /\ n < Len(saved)
    BY <1>6, <1>8, <1>9, <1>11
  <2>2. Live' = Live
    BY <1>1, <1>2, <2>1 DEF Live
  <2>3. OneReference' /\ Linked'
    BY <1>1, <1>3, <2>2, FrameKeeps DEF RestartInv, DiskInv
  <2>4. OnDiskAsSaved'
    BY <1>1, <1>2, <1>7, <2>1 DEF RestartInv, DiskInv, OnDiskAsSaved
  <2> QED
    BY <1>1, <2>1, <2>3, <2>4 DEF RestartInv, DiskInv, Working
<1> QED
  BY <1>10, <1>11

LEMMA ExtendKeeps == RestartInv /\ ExtendDisk => RestartInv'
<1> SUFFICES ASSUME RestartInv, ExtendDisk PROVE RestartInv'
  OBVIOUS
<1>1. TypeInv' /\ UNCHANGED <<used, next, data, header, saved, table, pc, op>>
  BY ExtendTyped DEF RestartInv, DiskInv, ExtendDisk, disk, history
<1>2. pc \in {"inodeBlock", "firstBlock", "nextBlock"}
  BY DEF ExtendDisk
<1>3. Live' = Live /\ BeingCleared = {} /\ BeingCleared' = {}
  BY <1>1, <1>2 DEF Live, BeingCleared, Deleting
<1>4. OneReference' /\ Linked'
  BY <1>1, <1>3, FrameKeeps DEF RestartInv, DiskInv
<1>5. sb'.count = sb.count
  BY DEF ExtendDisk, RestartInv, DiskInv, TypeInv, TypeOK, SuperBlocks
<1> QED
  BY <1>1, <1>2, <1>4, <1>5 DEF RestartInv, DiskInv, Working, OnDiskAsSaved

LEMMA MakeFileKeeps ==
  ASSUME RestartInv, NEW n \in Names, NEW t \in Texts, MakeFile(n, t)
  PROVE  RestartInv'
<1>1. TypeInv' /\ UNCHANGED <<used, next, data, header, saved, table, sb>>
  BY MakeFileTyped DEF RestartInv, DiskInv, MakeFile, disk, memory, history
<1>2. pc = "idle" /\ pc' = "inodeBlock"
  BY DEF MakeFile
<1>3. Live' = Live /\ BeingCleared = {} /\ BeingCleared' = {}
  BY <1>1, <1>2 DEF Live, BeingCleared, Deleting
<1>4. OneReference' /\ Linked'
  BY <1>1, <1>3, FrameKeeps DEF RestartInv, DiskInv
<1> QED
  BY <1>1, <1>2, <1>4 DEF RestartInv, DiskInv, Working, OnDiskAsSaved

\* The block empty_B takes was free, and therefore not named.
LEMMA TakeKeeps ==
  ASSUME DiskInv, NEW b \in Blocks, TakeBlock(b)
  PROVE  /\ UsedBlocks' = UsedBlocks \cup {b}
         /\ NamedOnce(Live, UsedBlocks', next, BeingCleared)
         /\ Unnamed(b, Live, next, BeingCleared)
         /\ sb'.count = sb.count
<1>1. b \notin UsedBlocks
  <2>1. sb.total \in Nat
    BY CounterTypes DEF DiskInv, TypeInv, TypeOK
  <2>2. b \in FreeBlocks
    BY <2>1, EmptyBFree DEF TakeBlock
  <2> QED
    BY <2>2 DEF FreeBlocks, UsedBlocks
<1>2. UsedBlocks' = UsedBlocks \cup {b}
  BY DEF TakeBlock, UsedBlocks, DiskInv, TypeInv, TypeOK
<1>3. NamedOnce(Live, UsedBlocks, next, BeingCleared)
  BY DEF DiskInv, OneReference
<1>4. sb'.count = sb.count
  BY DEF TakeBlock, DiskInv, TypeInv, TypeOK, SuperBlocks
<1> QED
  BY <1>1, <1>2, <1>3, <1>4, TakingKeeps, FreeIsUnnamed

LEMMA AllocKeeps == RestartInv /\ (AllocInode \/ AllocNext) => RestartInv'
<1> SUFFICES ASSUME RestartInv, AllocInode \/ AllocNext PROVE RestartInv'
  OBVIOUS
<1>1. TypeInv'
  BY MakeTyped DEF RestartInv, DiskInv, Make
<1>2. UNCHANGED <<next, table>>
  BY DEF AllocInode, AllocNext
<1>3. /\ pc \in {"inodeBlock", "nextBlock"} /\ pc' \in {"inodeWrite", "link"}
      /\ Live = table /\ Live' = table
      /\ BeingCleared = {} /\ BeingCleared' = {}
  BY <1>2 DEF AllocInode, AllocNext, Live, BeingCleared, Deleting
<1>4. PICK b \in Blocks :
        /\ TakeBlock(b)
        /\ pc' = "inodeWrite" => op'.cur = b
        /\ pc' = "link" => op'.nxt = b
  BY DEF AllocInode, AllocNext, RestartInv, DiskInv, TypeInv, TypeOK, Operations
<1>5. OneReference'
  BY <1>2, <1>3, <1>4, TakeKeeps DEF OneReference, RestartInv
<1>6. Working'
  BY <1>2, <1>3, <1>4, TakeKeeps DEF Working, RestartInv
<1>7. Linked'
  BY <1>3 DEF Linked, RestartInv, DiskInv
<1>8. OnDiskAsSaved'
  BY <1>2, <1>3, <1>4, TakeKeeps DEF OnDiskAsSaved, RestartInv, DiskInv
<1> QED
  BY <1>1, <1>5, <1>6, <1>7, <1>8 DEF RestartInv, DiskInv

LEMMA WriteInodeKeeps == RestartInv /\ WriteInode => RestartInv'
<1> SUFFICES ASSUME RestartInv, WriteInode PROVE RestartInv'
  OBVIOUS
<1> DEFINE n == Len(table)
           new == NewInode(op.name, op.cur)
           linked == [table[n] EXCEPT !.next = op.cur]
           old == IF n = 0 THEN table ELSE [table EXCEPT ![n] = linked]
<1>1. TypeInv'
  BY MakeTyped DEF RestartInv, DiskInv, Make
<1>2. UNCHANGED <<used, next>>
  BY DEF WriteInode
<1>3. /\ pc = "inodeWrite" /\ pc' = "firstBlock"
      /\ Live = table /\ Live' = table'
      /\ BeingCleared = {} /\ BeingCleared' = {}
  BY DEF WriteInode, Live, BeingCleared, Deleting
<1>4. /\ table \in Seq(Inodes) /\ n \in Nat /\ DOMAIN table = 1..n
      /\ \A i \in DOMAIN table : table[i] \in Inodes
  BY <1>3, LiveTyped DEF RestartInv, DiskInv
<1>5. /\ new \in Inodes /\ new.orig = op.cur /\ new.start = 0 /\ new.next = 0
  BY InodeTyped DEF RestartInv, DiskInv, TypeInv, TypeOK, Operations, NewInode, Inode
<1>6. n # 0 => /\ n \in DOMAIN table /\ linked \in Inodes
               /\ linked.orig = table[n].orig /\ linked.start = table[n].start
               /\ linked.next = op.cur
  <2>1. n # 0 => n \in DOMAIN table /\ table[n] \in Inodes
    BY <1>4
  <2>2. op.cur \in BlockOrNone
    BY DEF RestartInv, DiskInv, TypeInv, TypeOK, Operations
  <2> QED
    BY <2>1, <2>2 DEF Inodes
<1>7. /\ old \in Seq(Inodes) /\ Len(old) = n
      /\ \A i \in 1..n :
           /\ old[i].orig = table[i].orig /\ old[i].start = table[i].start
           /\ old[i].next = IF i = n THEN op.cur ELSE table[i].next
  <2>1. CASE n = 0
    BY <1>4, <2>1
  <2>2. CASE n # 0
    <3> HIDE DEF linked
    <3>1. /\ old \in Seq(Inodes) /\ Len(old) = n
          /\ \A i \in 1..n : old[i] = IF i = n THEN linked ELSE table[i]
      BY <1>4, <1>6, <2>2, ExceptSeq
    <3> HIDE DEF old, n
    <3>2. ASSUME NEW i \in 1..n
          PROVE  /\ old[i].orig = table[i].orig /\ old[i].start = table[i].start
                 /\ old[i].next = IF i = n THEN op.cur ELSE table[i].next
      <4>1. CASE i = n
        BY <1>6, <2>2, <3>1, <4>1
      <4>2. CASE i # n
        BY <3>1, <4>2
      <4> QED
        BY <4>1, <4>2
    <3> QED
      BY <3>1, <3>2
  <2> QED
    BY <2>1, <2>2
<1>8. table' = Append(old, new)
  BY DEF WriteInode
<1>9. /\ Len(table') = n + 1 /\ DOMAIN table' = 1..(n + 1)
      /\ \A i \in 1..n : table'[i] = old[i]
      /\ table'[n + 1] = new
  <2> HIDE DEF old, new
  <2>1. table' \in Seq(Inodes)
    BY <1>1 DEF TypeInv, TypeOK
  <2> QED
    BY <1>5, <1>7, <1>8, <2>1, AppendProperties, LenProperties
<1>10. OneReference'
  <2> HIDE DEF old, new
  <2>1. NamedOnce(table, UsedBlocks, next, {})
    BY <1>3 DEF RestartInv, DiskInv, OneReference
  <2>2. op.cur \in UsedBlocks /\ Unnamed(op.cur, table, next, {})
    BY <1>3 DEF RestartInv, DiskInv, Working
  <2>3. DOMAIN table' = DOMAIN table \cup {n + 1} /\ n + 1 \notin DOMAIN table
    BY <1>4, <1>9
  <2>4. \A i \in DOMAIN table : /\ table'[i].orig = table[i].orig
                                /\ table'[i].start = table[i].start
    BY <1>4, <1>7, <1>9
  <2>5. table'[n + 1].orig = op.cur /\ table'[n + 1].start = 0
    BY <1>5, <1>9
  <2> HIDE DEF n
  <2>6. NamedOnce(table', UsedBlocks, next, {})
    BY <2>1, <2>2, <2>3, <2>4, <2>5, AppendingKeeps
  <2> QED
    BY <1>2, <1>3, <2>6 DEF OneReference, UsedBlocks
<1>11. Linked'
  <2> HIDE DEF old, new
  <2>0. n \in Nat
    BY <1>4
  <2>1. Chained(table)
    BY <1>3 DEF RestartInv, DiskInv, Linked
  <2>2. Chained(table')
    <3> SUFFICES ASSUME NEW i \in 1..(n + 1)
                 PROVE  table'[i].next = IF i = n + 1 THEN 0
                                         ELSE table'[i + 1].orig
      BY <1>9 DEF Chained
    <3>1. CASE i = n + 1
      BY <1>5, <1>9, <3>1
    <3>2. CASE i = n
      <4>1. i \in 1..n /\ i + 1 = n + 1
        BY <1>4, <3>2
      <4> QED
        BY <1>5, <1>7, <1>9, <3>2, <4>1
    <3>3. CASE i < n
      <4> HIDE DEF n
      <4>1. i \in 1..n /\ i + 1 \in 1..n /\ i # n /\ i # n + 1
        BY <2>0, <3>3
      <4>2. table[i].next = table[i + 1].orig
        BY <1>4, <2>1, <4>1 DEF Chained, n
      <4> QED
        BY <1>7, <1>9, <4>1, <4>2
    <3>4. i = n + 1 \/ i = n \/ i < n
      <4> HIDE DEF n
      <4> QED
        BY <2>0
    <3> QED
      BY <3>1, <3>2, <3>3, <3>4
  <2> QED
    BY <1>3, <2>2 DEF Linked
<1>12. sb'.count > 0
  <2>1. sb \in SuperBlocks /\ sb' = [sb EXCEPT !.count = sb.count + 1]
    BY DEF WriteInode, RestartInv, DiskInv, TypeInv, TypeOK
  <2>2. sb.count \in Nat /\ sb'.count = sb.count + 1
    BY <2>1 DEF SuperBlocks
  <2> QED
    BY <2>2
<1> QED
  BY <1>1, <1>3, <1>10, <1>11, <1>12 DEF RestartInv, DiskInv, Working, OnDiskAsSaved

\* Replacing an inode of the table by one with the same block and the same
\* link keeps the chain.
LEMMA ChainKept ==
  ASSUME NEW t \in Seq(Inodes), NEW u \in Seq(Inodes), Chained(t),
         Len(u) = Len(t),
         \A i \in DOMAIN t : u[i].orig = t[i].orig /\ u[i].next = t[i].next
  PROVE  Chained(u)
<1>1. /\ DOMAIN t = 1..Len(t) /\ DOMAIN u = 1..Len(t) /\ Len(t) \in Nat
  BY LenProperties
<1>2. \A i \in 1..Len(t) : i # Len(t) => i + 1 \in 1..Len(t)
  <2> DEFINE n == Len(t)
  <2>1. n \in Nat
    BY <1>1
  <2> HIDE DEF n
  <2>2. \A i \in 1..n : i # n => i + 1 \in 1..n
    BY <2>1
  <2> QED
    BY <2>2 DEF n
<1> QED
  BY <1>1, <1>2 DEF Chained

LEMMA AllocFirstKeeps == RestartInv /\ AllocFirst => RestartInv'
<1> SUFFICES ASSUME RestartInv, AllocFirst PROVE RestartInv'
  OBVIOUS
<1> DEFINE k == IndexOf(op.name)
           size == Len(op.rest)
<1>1. TypeInv'
  BY MakeTyped DEF RestartInv, DiskInv, Make
<1>2. PICK b \in Blocks :
        /\ TakeBlock(b)
        /\ table' = [table EXCEPT ![k] =
             [@ EXCEPT !.start = b, !.size = size, !.count = 0]]
  BY DEF AllocFirst
<1>3. /\ pc = "firstBlock" /\ pc' \in {"idle", "dataWrite"}
      /\ Live = table /\ Live' = table' /\ UNCHANGED next
      /\ BeingCleared = {} /\ BeingCleared' = {}
  BY DEF AllocFirst, Live, BeingCleared, Deleting
<1>4. /\ table \in Seq(Inodes) /\ DOMAIN table = 1..Len(table)
      /\ \A i \in DOMAIN table : table[i] \in Inodes
      /\ table' \in Seq(Inodes)
  BY <1>1, <1>3, LiveTyped DEF RestartInv, DiskInv, TypeInv, TypeOK
<1> DEFINE started == [table[k] EXCEPT !.start = b, !.size = size, !.count = 0]
<1>5. k \in DOMAIN table =>
        /\ started \in Inodes
        /\ started.orig = table[k].orig /\ started.next = table[k].next
        /\ started.start = b
  <2>1. size \in Nat
    BY LenProperties DEF RestartInv, DiskInv, TypeInv, TypeOK, Operations
  <2>2. b \in BlockOrNone
    BY BlockTyped
  <2> HIDE DEF size, k
  <2> QED
    BY <1>4, <2>1, <2>2 DEF Inodes
<1>6. /\ Len(table') = Len(table) /\ DOMAIN table' = DOMAIN table
      /\ \A i \in DOMAIN table :
           table'[i] = IF i = k THEN started ELSE table[i]
  <2>1. table' = [table EXCEPT ![k] = started]
    BY <1>2
  <2> HIDE DEF started, k
  <2>2. Len(table') = Len(table) /\ DOMAIN table' = DOMAIN table
    BY <1>4, <1>5, <2>1, Replaced
  <2> QED
    BY <1>4, <2>1, <2>2
<1>7. \A i \in DOMAIN table :
        /\ table'[i].orig = table[i].orig /\ table'[i].next = table[i].next
        /\ table'[i].start = IF i = k THEN b ELSE table[i].start
  <2> HIDE DEF started, k
  <2> QED
    BY <1>5, <1>6
<1>8. OneReference'
  <2> HIDE DEF k
  <2>1. /\ NamedOnce(table, UsedBlocks', next, {})
        /\ b \in UsedBlocks' /\ Unnamed(b, table, next, {})
    BY <1>2, <1>3, TakeKeeps DEF RestartInv
  <2> DEFINE t2 == table'
             V == UsedBlocks'
  <2>3. /\ DOMAIN t2 = DOMAIN table
        /\ \A i \in DOMAIN table :
             /\ t2[i].orig = table[i].orig
             /\ t2[i].start = IF i = k THEN b ELSE table[i].start
        /\ NamedOnce(table, V, next, {}) /\ b \in V
    BY <1>6, <1>7, <2>1
  <2> HIDE DEF t2, V, started
  <2>5. Unnamed(b, table, next, {})
    BY <2>1
  <2>4. NamedOnce(t2, V, next, {})
    BY <2>3, <2>5 DEF NamedOnce, Unnamed
  <2>2. NamedOnce(table', UsedBlocks', next, {})
    BY <2>4 DEF t2, V
  <2> QED
    BY <1>3, <2>2 DEF OneReference
<1>9. Linked'
  <2>1. Chained(table)
    BY <1>3 DEF RestartInv, DiskInv, Linked
  <2>2. Chained(table')
    BY <1>4, <1>6, <1>7, <2>1, ChainKept
  <2> QED
    BY <1>3, <2>2 DEF Linked
<1>10. table' # <<>> => sb'.count > 0
  <2>1. table' # <<>> => table # <<>>
    BY <1>4, <1>6, EmptySeq
  <2>2. sb'.count = sb.count
    BY <1>2, TakeKeeps DEF RestartInv
  <2> QED
    BY <1>3, <2>1, <2>2 DEF RestartInv, DiskInv, OnDiskAsSaved
<1> QED
  BY <1>1, <1>3, <1>8, <1>9, <1>10 DEF RestartInv, DiskInv, Working, OnDiskAsSaved

LEMMA WriteDataKeeps == RestartInv /\ WriteData => RestartInv'
<1> SUFFICES ASSUME RestartInv, WriteData PROVE RestartInv'
  OBVIOUS
<1>1. TypeInv'
  BY MakeTyped DEF RestartInv, DiskInv, Make
<1>2. UNCHANGED <<header, used, next, sb, table, saved>>
  BY DEF WriteData, memory, history
<1>3. /\ pc = "dataWrite" /\ pc' \in {"link", "nextBlock"}
      /\ pc' = "link" => op'.nxt = 0
      /\ Live' = Live /\ BeingCleared = {} /\ BeingCleared' = {}
  BY <1>2 DEF WriteData, Live, BeingCleared, Deleting, RestartInv, DiskInv, TypeInv, TypeOK,
              Operations
<1>4. OneReference' /\ Linked'
  BY <1>2, <1>3, FrameKeeps DEF RestartInv, DiskInv
<1> QED
  BY <1>1, <1>2, <1>3, <1>4 DEF RestartInv, DiskInv, Working, OnDiskAsSaved

LEMMA LinkKeeps == RestartInv /\ Link => RestartInv'
<1> SUFFICES ASSUME RestartInv, Link PROVE RestartInv'
  OBVIOUS
<1> DEFINE k == IndexOf(op.name)
           counted == [table[k] EXCEPT !.count = table[k].count + 1]
<1>1. TypeInv'
  BY MakeTyped DEF RestartInv, DiskInv, Make
<1>2. UNCHANGED <<header, used, data, sb, saved>>
      /\ next' = [next EXCEPT ![op.cur] = op.nxt]
      /\ table' = [table EXCEPT ![k] = counted]
  BY DEF Link, history
<1>3. /\ pc = "link" /\ pc' \in {"idle", "dataWrite"}
      /\ Live = table /\ Live' = table'
      /\ BeingCleared = {} /\ BeingCleared' = {}
  BY DEF Link, Live, BeingCleared, Deleting
<1>4. /\ table \in Seq(Inodes) /\ DOMAIN table = 1..Len(table)
      /\ \A i \in DOMAIN table : table[i] \in Inodes
      /\ table' \in Seq(Inodes)
  BY <1>1, <1>3, LiveTyped DEF RestartInv, DiskInv, TypeInv, TypeOK
<1>5. k \in DOMAIN table =>
        /\ counted \in Inodes
        /\ counted.orig = table[k].orig /\ counted.next = table[k].next
        /\ counted.start = table[k].start
  <2> HIDE DEF k
  <2>1. k \in DOMAIN table => table[k] \in Inodes
    BY <1>4
  <2>2. k \in DOMAIN table => table[k].count \in Nat
    BY <2>1 DEF Inodes
  <2>3. k \in DOMAIN table => table[k].count + 1 \in Nat
    BY <2>2
  <2>4. k \in DOMAIN table => counted \in Inodes
    BY <2>1, <2>3, FieldsTyped
  <2>5. k \in DOMAIN table =>
          /\ counted.orig = table[k].orig /\ counted.next = table[k].next
          /\ counted.start = table[k].start
    BY <2>1 DEF Inodes
  <2> QED
    BY <2>4, <2>5
<1>6. /\ Len(table') = Len(table) /\ DOMAIN table' = DOMAIN table
      /\ \A i \in DOMAIN table :
           table'[i] = IF i = k THEN counted ELSE table[i]
  <2> HIDE DEF counted, k
  <2>2. Len(table') = Len(table) /\ DOMAIN table' = DOMAIN table
    BY <1>2, <1>4, <1>5, Replaced
  <2> QED
    BY <1>2, <1>4, <2>2
<1>7. \A i \in DOMAIN table :
        /\ table'[i].orig = table[i].orig /\ table'[i].next = table[i].next
        /\ table'[i].start = table[i].start
  <2> HIDE DEF counted, k
  <2> QED
    BY <1>5, <1>6
<1> HIDE DEF k, counted
<1>8. OneReference'
  <2>1. /\ NamedOnce(table, UsedBlocks, next, {})
        /\ next \in [Blocks -> BlockOrNone]
        /\ op.nxt # 0 => /\ op.nxt \in UsedBlocks
                         /\ Unnamed(op.nxt, table, next, {})
    BY <1>3 DEF RestartInv, DiskInv, OneReference, Working, TypeInv, TypeOK
  <2>2. NamedOnce(table, UsedBlocks, next', {})
    BY <1>2, <2>1, LinkingKeeps
  <2>3. NamedOnce(table', UsedBlocks, next', {})
    BY <1>6, <1>7, <2>2 DEF NamedOnce
  <2> QED
    BY <1>2, <1>3, <2>3 DEF OneReference, UsedBlocks
<1>9. Linked'
  <2>1. Chained(table)
    BY <1>3 DEF RestartInv, DiskInv, Linked
  <2>2. Chained(table')
    BY <1>4, <1>6, <1>7, <2>1, ChainKept
  <2> QED
    BY <1>3, <2>2 DEF Linked
<1>10. table' # <<>> => sb'.count > 0
  <2>1. table' # <<>> => table # <<>>
    BY <1>4, <1>6, EmptySeq
  <2> QED
    BY <1>2, <1>3, <2>1 DEF RestartInv, DiskInv, OnDiskAsSaved
<1> QED
  BY <1>1, <1>3, <1>8, <1>9, <1>10 DEF RestartInv, DiskInv, Working, OnDiskAsSaved

LEMMA DeleteFileKeeps ==
  ASSUME RestartInv, NEW n \in Names, DeleteFile(n)
  PROVE  RestartInv'
<1> DEFINE i == IndexOf(n)
<1>1. TypeInv'
  BY DeleteTyped DEF RestartInv, DiskInv
<1>2. UNCHANGED <<header, used, data, next, sb, table, saved>>
  BY DEF DeleteFile, disk, memory
<1>3. /\ pc = "idle" /\ pc' \in {"clearData", "clearInode"}
      /\ op'.name = n /\ op'.cur = table[i].start
  BY DEF DeleteFile, NoOp
<1>4. /\ Live = table /\ Live' = table
      /\ BeingCleared = {} /\ BeingCleared' = {i}
  BY <1>2, <1>3 DEF Live, BeingCleared, Deleting, IndexOf
<1>5. i \in DOMAIN table
  BY IndexFound DEF DeleteFile, IndexOf, RestartInv, DiskInv, TypeInv, TypeOK
<1>6. NamedOnce(table, UsedBlocks, next, {})
  BY <1>4 DEF RestartInv, DiskInv, OneReference
<1> HIDE DEF i
<1>7. /\ NamedOnce(table, UsedBlocks, next, {i})
      /\ table[i].start # 0 => Unnamed(table[i].start, table, next, {i})
  BY <1>5, <1>6, ForgettingKeeps
<1>8. OneReference' /\ Working' /\ Linked'
  BY <1>2, <1>3, <1>4, <1>7 DEF OneReference, Working, Linked, UsedBlocks, RestartInv, DiskInv
<1> QED
  BY <1>1, <1>2, <1>3, <1>8 DEF RestartInv, DiskInv, OnDiskAsSaved

LEMMA ClearDataKeeps == RestartInv /\ ClearData => RestartInv'
<1> SUFFICES ASSUME RestartInv, ClearData PROVE RestartInv'
  OBVIOUS
<1> DEFINE c == op.cur
           C == BeingCleared
<1>1. TypeInv'
  BY DeleteTyped DEF RestartInv, DiskInv, Delete
<1>2. UNCHANGED <<table, saved>> /\ sb'.count = sb.count
  BY DEF ClearData, ClearBlock, RestartInv, DiskInv, TypeInv, TypeOK, SuperBlocks
<1>3. /\ pc = "clearData" /\ pc' \in {"clearData", "clearInode"}
      /\ op'.name = op.name /\ op'.cur = NextOf(c)
      /\ c \in BlockOrNone
  BY DEF ClearData, RestartInv, DiskInv, TypeInv, TypeOK, Operations
<1>4. Live = table /\ Live' = table /\ C' = C
  BY <1>2, <1>3 DEF Live, BeingCleared, Deleting, IndexOf
<1>5. /\ NamedOnce(table, UsedBlocks, next, C)
      /\ c # 0 => Unnamed(c, table, next, C)
  BY <1>3, <1>4 DEF RestartInv, DiskInv, OneReference, Working
<1>6. /\ \A b \in UsedBlocks : b # c => b \in UsedBlocks'
      /\ \A b \in Blocks : next'[b] = IF b = c THEN 0 ELSE next[b]
      /\ 0 \notin Blocks
  BY BlockTyped DEF ClearData, ClearBlock, UsedBlocks, RestartInv, DiskInv, TypeInv, TypeOK
<1> HIDE DEF c, C
<1>7. /\ NamedOnce(table, UsedBlocks', next', C)
      /\ NextOf(c) # 0 => Unnamed(NextOf(c), table, next', C)
  <2>1. CASE c = 0
    <3>1. /\ UsedBlocks \subseteq UsedBlocks'
          /\ \A b \in Blocks : next'[b] = next[b]
      BY <1>6, <2>1 DEF UsedBlocks
    <3> QED
      BY <1>5, <2>1, <3>1 DEF NamedOnce, NextOf
  <2>2. CASE c # 0
    <3>1. c \in Blocks
      BY <1>3, <2>2, BlockTyped
    <3> DEFINE V == UsedBlocks'
               mx == next'
    <3>2. /\ \A b \in UsedBlocks : b # c => b \in V
          /\ \A b \in Blocks : mx[b] = IF b = c THEN 0 ELSE next[b]
      BY <1>6
    <3>3. NamedOnce(table, UsedBlocks, next, C) /\ Unnamed(c, table, next, C)
      BY <1>5, <2>2
    <3> HIDE DEF V, mx
    <3>4. /\ NamedOnce(table, V, mx, C)
          /\ next[c] # 0 => Unnamed(next[c], table, mx, C)
      BY <3>1, <3>2, <3>3, ClearingKeeps
    <3> QED
      BY <2>2, <3>4 DEF V, mx, NextOf
  <2> QED
    BY <2>1, <2>2
<1>8. OneReference' /\ Working' /\ Linked'
  BY <1>3, <1>4, <1>7 DEF OneReference, Working, Linked, RestartInv, DiskInv, C
<1> QED
  BY <1>1, <1>2, <1>3, <1>8 DEF RestartInv, DiskInv, OnDiskAsSaved

\* Where Unlinked takes the inodes of the new table from.
Pick(i) == [j \in 1..(Len(table) - 1) |-> IF j < i THEN j ELSE j + 1]

\* Unlinked keeps the other inodes in their order, each with its block and its
\* first data block, and links them past the one that goes.
LEMMA UnlinkedKeeps ==
  ASSUME table \in Seq(Inodes), NEW i \in DOMAIN table, Chained(table),
         NEW m, m = Len(table) - 1
  PROVE  /\ DOMAIN Unlinked(i) = 1..m
         /\ Pick(i) \in [1..m -> DOMAIN table \ {i}]
         /\ \A j, k \in 1..m : Pick(i)[j] = Pick(i)[k] => j = k
         /\ \A k \in DOMAIN table \ {i} : \E j \in 1..m : Pick(i)[j] = k
         /\ \A j \in 1..m : /\ Unlinked(i)[j].orig = table[Pick(i)[j]].orig
                            /\ Unlinked(i)[j].start = table[Pick(i)[j]].start
                            /\ Unlinked(i)[j].count = table[Pick(i)[j]].count
                            /\ Unlinked(i)[j].size = table[Pick(i)[j]].size
                            /\ Unlinked(i)[j].name = table[Pick(i)[j]].name
         /\ Chained(Unlinked(i))
<1> DEFINE n == Len(table)
           after == IF i = n THEN 0 ELSE table[i + 1].orig
           linked == [table[i - 1] EXCEPT !.next = after]
           relinked == IF i = 1 THEN table ELSE [table EXCEPT ![i - 1] = linked]
           pick == Pick(i)
<1>0. pick = [j \in 1..m |-> IF j < i THEN j ELSE j + 1]
  BY DEF Pick
<1> HIDE DEF pick
<1>1. /\ DOMAIN table = 1..n /\ n \in Nat /\ i \in 1..n
      /\ \A j \in 1..n : table[j] \in Inodes
  BY LenProperties, ElementOfSeq
<1>2. m \in Nat /\ n = m + 1 /\ i \in 1..(m + 1)
  BY <1>1
<1>9. \A j \in 1..m : pick[j] = IF j < i THEN j ELSE j + 1
  BY <1>0
<1>3. Unlinked(i) = [j \in 1..m |-> relinked[pick[j]]]
  BY <1>9 DEF Unlinked
<1>4. /\ pick \in [1..m -> DOMAIN table \ {i}]
      /\ \A j, k \in 1..m : pick[j] = pick[k] => j = k
      /\ \A k \in DOMAIN table \ {i} : \E j \in 1..m : pick[j] = k
  <2>2. DOMAIN table = 1..(m + 1)
    BY <1>1, <1>2
  <2> HIDE DEF n
  <2>3. \A j \in 1..m : pick[j] \in DOMAIN table \ {i}
    BY <1>2, <1>9, <2>2
  <2>4. pick \in [1..m -> DOMAIN table \ {i}]
    BY <1>0, <2>3
  <2>5. \A j, k \in 1..m : pick[j] = pick[k] => j = k
    BY <1>2, <1>9
  <2>6. ASSUME NEW k \in DOMAIN table \ {i} PROVE \E j \in 1..m : pick[j] = k
    <3>1. k \in 1..(m + 1) /\ k # i
      BY <2>2
    <3>2. CASE k < i
      <4>1. k \in 1..m /\ pick[k] = k
        BY <1>2, <1>9, <3>1, <3>2
      <4> QED
        BY <4>1
    <3>3. CASE k > i
      <4>1. k - 1 \in 1..m /\ ~(k - 1 < i) /\ (k - 1) + 1 = k
        BY <1>2, <3>1, <3>3
      <4>2. pick[k - 1] = k
        BY <1>9, <4>1
      <4> QED
        BY <4>1, <4>2
    <3>4. k < i \/ k > i
      BY <1>2, <3>1
    <3> QED
      BY <3>2, <3>3, <3>4
  <2> QED
    BY <2>4, <2>5, <2>6
<1>5. \A j \in 1..n :
        /\ relinked[j].orig = table[j].orig
        /\ relinked[j].start = table[j].start
        /\ relinked[j].count = table[j].count
        /\ relinked[j].size = table[j].size
        /\ relinked[j].name = table[j].name
        /\ relinked[j].next = IF i # 1 /\ j = i - 1 THEN after
                              ELSE table[j].next
  <2> SUFFICES ASSUME NEW j \in 1..n
               PROVE  /\ relinked[j].orig = table[j].orig
                      /\ relinked[j].start = table[j].start
                      /\ relinked[j].count = table[j].count
                      /\ relinked[j].size = table[j].size
                      /\ relinked[j].name = table[j].name
                      /\ relinked[j].next = IF i # 1 /\ j = i - 1 THEN after
                                            ELSE table[j].next
    OBVIOUS
  <2>0. j \in Int /\ i \in Int
    BY <1>2
  <2>1. CASE i = 1 \/ j # i - 1
    <3>1. relinked[j] = table[j]
      BY <1>1, <2>1
    <3> QED
      BY <2>1, <3>1
  <2>2. CASE i # 1 /\ j = i - 1
    <3> HIDE DEF after
    <3>1. relinked[j] = [table[j] EXCEPT !.next = after]
      BY <1>1, <2>2
    <3>2. table[j] \in Inodes
      BY <1>1
    <3> HIDE DEF relinked
    <3> QED
      BY <2>2, <3>1, <3>2 DEF Inodes
  <2> QED
    BY <2>1, <2>2
<1> HIDE DEF relinked
<1>6. \A j \in 1..m :
        /\ pick[j] \in 1..n
        /\ Unlinked(i)[j].orig = table[pick[j]].orig
        /\ Unlinked(i)[j].start = table[pick[j]].start
        /\ Unlinked(i)[j].count = table[pick[j]].count
        /\ Unlinked(i)[j].size = table[pick[j]].size
        /\ Unlinked(i)[j].name = table[pick[j]].name
        /\ Unlinked(i)[j].next = IF i # 1 /\ pick[j] = i - 1 THEN after
                                 ELSE table[pick[j]].next
  <2>1. \A j \in 1..m : pick[j] \in 1..n
    BY <1>1, <1>4
  <2>2. \A j \in 1..m : Unlinked(i)[j] = relinked[pick[j]]
    BY <1>3
  <2> HIDE DEF after, n
  <2>3. ASSUME NEW j \in 1..m
        PROVE  /\ pick[j] \in 1..n
               /\ Unlinked(i)[j].orig = table[pick[j]].orig
               /\ Unlinked(i)[j].start = table[pick[j]].start
               /\ Unlinked(i)[j].count = table[pick[j]].count
               /\ Unlinked(i)[j].size = table[pick[j]].size
               /\ Unlinked(i)[j].name = table[pick[j]].name
               /\ Unlinked(i)[j].next = IF i # 1 /\ pick[j] = i - 1 THEN after
                                        ELSE table[pick[j]].next
    <3>1. PICK k \in 1..n : k = pick[j]
      BY <2>1
    <3>2. Unlinked(i)[j] = relinked[k]
      BY <2>2, <3>1
    <3>3. /\ relinked[k].orig = table[k].orig /\ relinked[k].start = table[k].start
          /\ relinked[k].count = table[k].count /\ relinked[k].size = table[k].size
          /\ relinked[k].name = table[k].name
          /\ relinked[k].next = IF i # 1 /\ k = i - 1 THEN after ELSE table[k].next
      BY Zenon, <1>5
    <3> HIDE DEF relinked
    <3> QED
      BY <3>1, <3>2, <3>3
  <2> QED
    BY Zenon, <2>3
<1>7. Len(Unlinked(i)) = m /\ DOMAIN Unlinked(i) = 1..m
  BY <1>2, <1>3
<1>8. Chained(Unlinked(i))
  <2> SUFFICES ASSUME NEW j \in 1..m
               PROVE  Unlinked(i)[j].next =
                        IF j = m THEN 0 ELSE Unlinked(i)[j + 1].orig
    BY <1>7 DEF Chained
  <2>0. \A k \in 1..n : table[k].next = IF k = n THEN 0 ELSE table[k + 1].orig
    BY <1>1 DEF Chained
  <2>1. CASE j < i - 1
    <3>1. pick[j] = j /\ j # m /\ j + 1 \in 1..m /\ pick[j + 1] = j + 1
      BY <1>2, <1>9, <2>1
    <3>2. j # n /\ j # i - 1
      BY <1>2, <1>9, <2>1
    <3> HIDE DEF n, after
    <3> QED
      BY <1>6, <2>0, <3>1, <3>2
  <2>2. CASE j = i - 1
    <3>1. i # 1 /\ pick[j] = j
      BY <1>2, <1>9, <2>2
    <3>2. Unlinked(i)[j].next = after
      BY <1>6, <2>2, <3>1
    <3>3. CASE j = m
      <4>1. i = n
        BY <1>2, <1>9, <2>2, <3>3
      <4> QED
        BY <3>2, <3>3, <4>1
    <3>4. CASE j # m
      <4>1. i # n /\ j + 1 \in 1..m /\ pick[j + 1] = i + 1
        BY <1>2, <1>9, <2>2, <3>4
      <4>2. Unlinked(i)[j + 1].orig = table[i + 1].orig
        BY <1>6, <4>1
      <4> QED
        BY <3>2, <3>4, <4>1, <4>2
    <3> QED
      BY <3>3, <3>4
  <2>3. CASE j > i - 1
    <3>1. pick[j] = j + 1 /\ pick[j] # i - 1
      BY <1>2, <1>9, <2>3
    <3>2. Unlinked(i)[j].next = table[j + 1].next /\ j + 1 \in 1..n
      BY <1>6, <3>1
    <3>3. CASE j = m
      <4>1. j + 1 = n
        BY <1>2, <3>3
      <4> HIDE DEF n
      <4> QED
        BY <2>0, <3>2, <3>3, <4>1
    <3>4. CASE j # m
      <4>1. j + 1 # n /\ j + 1 \in 1..m /\ pick[j + 1] = (j + 1) + 1
        BY <1>2, <1>9, <2>3, <3>4
      <4>2. Unlinked(i)[j + 1].orig = table[(j + 1) + 1].orig
        BY <1>6, <4>1
      <4> HIDE DEF n
      <4> QED
        BY <2>0, <3>2, <3>4, <4>1, <4>2
    <3> QED
      BY <3>3, <3>4
  <2>4. j < i - 1 \/ j = i - 1 \/ j > i - 1
    BY <1>2
  <2> QED
    BY <2>1, <2>2, <2>3, <2>4
<1> QED
  BY <1>4, <1>6, <1>7, <1>8 DEF pick

LEMMA ClearInodeKeeps == RestartInv /\ ClearInode => RestartInv'
<1> SUFFICES ASSUME RestartInv, ClearInode PROVE RestartInv'
  OBVIOUS
<1> DEFINE i == IndexOf(op.name)
           m == Len(table) - 1
           pick == Pick(i)
           c == table[i].orig
<1>1. TypeInv'
  BY DeleteTyped DEF RestartInv, DiskInv, Delete
<1>2. UNCHANGED saved /\ sb'.count = sb.count /\ table' = Unlinked(i)
  BY DEF ClearInode, ClearBlock, RestartInv, DiskInv, TypeInv, TypeOK, SuperBlocks
<1>3. /\ pc = "clearInode" /\ pc' = "idle"
      /\ Live = table /\ Live' = table'
      /\ BeingCleared = {i} /\ BeingCleared' = {}
  BY DEF ClearInode, Live, BeingCleared, Deleting
<1>4. table \in Seq(Inodes) /\ i \in DOMAIN table
  BY <1>3, IndexFound DEF IndexOf, RestartInv, DiskInv, TypeInv, TypeOK, Cursors
<1>5. NamedOnce(table, UsedBlocks, next, {i}) /\ Chained(table)
  BY <1>3 DEF RestartInv, DiskInv, OneReference, Linked
<1>6. /\ \A b \in UsedBlocks : b # c => b \in UsedBlocks'
      /\ \A b \in Blocks : next'[b] = IF b = c THEN 0 ELSE next[b]
  BY DEF ClearInode, ClearBlock, UsedBlocks, RestartInv, DiskInv, TypeInv, TypeOK
<1>11. m = Len(table) - 1
  OBVIOUS
<1> HIDE DEF i, m, pick
<1>7. /\ DOMAIN table' = 1..m
      /\ pick \in [1..m -> DOMAIN table \ {i}]
      /\ \A j, k \in 1..m : pick[j] = pick[k] => j = k
      /\ \A j \in 1..m : /\ table'[j].orig = table[pick[j]].orig
                         /\ table'[j].start = table[pick[j]].start
      /\ Chained(table')
  <2>1. table \in Seq(Inodes) /\ i \in DOMAIN table /\ Chained(table)
    BY <1>4, <1>5
  <2>2. /\ DOMAIN Unlinked(i) = 1..m
        /\ pick \in [1..m -> DOMAIN table \ {i}]
        /\ \A j, k \in 1..m : pick[j] = pick[k] => j = k
        /\ \A j \in 1..m : /\ Unlinked(i)[j].orig = table[pick[j]].orig
                           /\ Unlinked(i)[j].start = table[pick[j]].start
        /\ Chained(Unlinked(i))
    <3>1. /\ DOMAIN Unlinked(i) = 1..m
          /\ Pick(i) \in [1..m -> DOMAIN table \ {i}]
          /\ \A j, k \in 1..m : Pick(i)[j] = Pick(i)[k] => j = k
          /\ \A k \in DOMAIN table \ {i} : \E j \in 1..m : Pick(i)[j] = k
          /\ \A j \in 1..m : /\ Unlinked(i)[j].orig = table[Pick(i)[j]].orig
                             /\ Unlinked(i)[j].start = table[Pick(i)[j]].start
                             /\ Unlinked(i)[j].count = table[Pick(i)[j]].count
                             /\ Unlinked(i)[j].size = table[Pick(i)[j]].size
                             /\ Unlinked(i)[j].name = table[Pick(i)[j]].name
          /\ Chained(Unlinked(i))
      BY Zenon, <1>11, <2>1, UnlinkedKeeps
    <3> QED
      BY Zenon, <3>1 DEF pick
  <2>3. table' = Unlinked(i)
    BY <1>2
  <2>4. \A j \in 1..m : /\ table'[j].orig = table[pick[j]].orig
                         /\ table'[j].start = table[pick[j]].start
    BY Zenon, <2>2, <2>3
  <2>5. DOMAIN table' = 1..m /\ Chained(table')
    BY Zenon, <2>2, <2>3
  <2> QED
    BY Zenon, <2>2, <2>4, <2>5
<1> DEFINE t2 == table'
           V == UsedBlocks'
           mx == next'
<1>8. /\ DOMAIN t2 = 1..m
      /\ \A j \in DOMAIN t2 : /\ t2[j].orig = table[pick[j]].orig
                              /\ t2[j].start = table[pick[j]].start
      /\ \A j, k \in DOMAIN t2 : pick[j] = pick[k] => j = k
      /\ pick \in [DOMAIN t2 -> DOMAIN table \ {i}]
      /\ \A b \in UsedBlocks : b # table[i].orig => b \in V
      /\ \A b \in Blocks : mx[b] = IF b = table[i].orig THEN 0 ELSE next[b]
  BY <1>6, <1>7
<1>9. NamedOnce(t2, V, mx, {})
  <2> HIDE DEF t2, V, mx
  <2>1. NamedOnce(table, UsedBlocks, next, {i})
    BY <1>5
  <2>2. i \in DOMAIN table
    BY <1>4
  <2>3. pick \in [DOMAIN t2 -> DOMAIN table \ {i}]
    BY <1>8
  <2> QED
    BY <1>8, <2>1, <2>2, <2>3 DEF NamedOnce
<1>10. OneReference' /\ Linked'
  BY <1>3, <1>7, <1>9 DEF OneReference, Linked
<1>12. sb'.count > 0
  <2>1. table # <<>>
    BY <1>4, EmptySeq, LenProperties
  <2> QED
    BY <1>2, <1>3, <2>1 DEF RestartInv, DiskInv, OnDiskAsSaved
<1> QED
  BY <1>1, <1>3, <1>10, <1>12 DEF RestartInv, DiskInv, Working, OnDiskAsSaved

LEMMA CloseKeeps == RestartInv /\ Close => RestartInv'
<1> SUFFICES ASSUME RestartInv, Close PROVE RestartInv'
  OBVIOUS
<1>1. TypeInv' /\ UNCHANGED <<header, used, data, next, sb, table, saved>>
  BY SaveTyped DEF RestartInv, DiskInv, Save, Close, disk, memory, history
<1>2. pc = "idle" /\ pc' = "saveHeader"
  BY DEF Close
<1>3. Live' = Live /\ BeingCleared = {} /\ BeingCleared' = {}
  BY <1>1, <1>2 DEF Live, BeingCleared, Deleting
<1>4. OneReference' /\ Linked'
  BY <1>1, <1>3, FrameKeeps DEF RestartInv, DiskInv
<1> QED
  BY <1>1, <1>2, <1>4 DEF RestartInv, DiskInv, Working, OnDiskAsSaved

LEMMA SaveHeaderKeeps == RestartInv /\ SaveHeader => RestartInv'
<1> SUFFICES ASSUME RestartInv, SaveHeader PROVE RestartInv'
  OBVIOUS
<1>1. TypeInv' /\ UNCHANGED <<used, data, next>>
  BY SaveTyped DEF RestartInv, DiskInv, Save, SaveHeader
<1>2. /\ pc = "saveHeader" /\ Live = table /\ BeingCleared = {}
      /\ pc' \in {"closed", "saveInode"} /\ BeingCleared' = {}
  BY DEF SaveHeader, Saved, Live, BeingCleared, Deleting
<1>3. CASE table = <<>>
  <2>1. pc' = "closed" /\ saved' = <<>> /\ header'.first = 0
    BY <1>3 DEF SaveHeader, Saved
  <2>2. Live' = Live
    BY <1>2, <1>3, <2>1 DEF Live
  <2>3. OneReference' /\ Linked'
    BY <1>1, <1>2, <2>2, FrameKeeps DEF RestartInv, DiskInv
  <2>4. DOMAIN saved' = {}
    BY <2>1
  <2> QED
    BY <1>1, <2>1, <2>3, <2>4 DEF RestartInv, DiskInv, Working, OnDiskAsSaved, HeaderLeadsTo
<1>4. CASE table # <<>>
  <2>1. /\ pc' = "saveInode" /\ UNCHANGED <<table, sb, saved>>
        /\ op'.left = 1
    BY <1>4 DEF SaveHeader, memory, NoOp
  <2>2. Live' = Live
    BY <1>2, <2>1 DEF Live
  <2>3. OneReference' /\ Linked'
    BY <1>1, <1>2, <2>2, FrameKeeps DEF RestartInv, DiskInv
  <2>4. HeaderLeadsTo(table)'
    <3>1. header' = [init |-> InitBlocks, total |-> sb.total, free |-> sb.free,
                     used |-> sb.used, count |-> sb.count,
                     first |-> table[1].orig]
      BY <1>4 DEF SaveHeader
    <3>2. sb.count > 0
      BY <1>2, <1>4 DEF RestartInv, DiskInv, OnDiskAsSaved
    <3>3. header'.init # 0 /\ header'.count = sb.count
          /\ header'.first = table[1].orig
      BY <3>1 DEF InitBlocks
    <3> QED
      BY <1>4, <2>1, <3>2, <3>3 DEF HeaderLeadsTo
  <2>5. sb'.count > 0
    BY <1>2, <1>4, <2>1 DEF RestartInv, DiskInv, OnDiskAsSaved
  <2> QED
    BY <1>1, <2>1, <2>3, <2>4, <2>5 DEF RestartInv, DiskInv, Working, OnDiskAsSaved
<1> QED
  BY <1>3, <1>4

LEMMA SaveInodeKeeps == RestartInv /\ SaveInode => RestartInv'
<1> SUFFICES ASSUME RestartInv, SaveInode PROVE RestartInv'
  OBVIOUS
<1> DEFINE k == op.left
           n == Len(table)
<1>1. TypeInv' /\ UNCHANGED <<used, next>>
  BY SaveTyped DEF RestartInv, DiskInv, Save, SaveInode
<1>2. /\ pc = "saveInode" /\ Live = table /\ BeingCleared = {}
      /\ pc' \in {"closed", "saveInode"} /\ BeingCleared' = {}
  BY DEF SaveInode, Saved, Live, BeingCleared, Deleting
<1>3. /\ DOMAIN table = 1..n /\ n \in Nat /\ k \in 1..n
      /\ table[k] \in Inodes
      /\ \A i \in 1..n : table[i].orig \in Blocks /\ table[i].orig # 0
  BY <1>2, LiveTyped, OrigsAreBlocks DEF RestartInv, DiskInv, TypeInv, Cursors
<1>4. header' = header /\ data' = [data EXCEPT ![table[k].orig] = table[k]]
  BY <1>3 DEF SaveInode
<1>5. \A i, j \in 1..n : table[i].orig = table[j].orig => i = j
  BY <1>2, <1>3 DEF RestartInv, DiskInv, OneReference, NamedOnce
<1>6. \A i \in 1..k : data'[table[i].orig] = table[i]
  <2>1. data \in [Blocks -> Payloads]
    BY DEF RestartInv, DiskInv, TypeInv, TypeOK
  <2>2. \A i \in 1..(k - 1) : data[table[i].orig] = table[i]
    BY <1>2 DEF RestartInv, DiskInv, OnDiskAsSaved
  <2>3. k \in 1..n /\ n \in Nat
    BY <1>3
  <2> HIDE DEF k, n
  <2> SUFFICES ASSUME NEW i \in 1..k PROVE data'[table[i].orig] = table[i]
    OBVIOUS
  <2>4. i \in 1..n /\ (i = k \/ (i \in 1..(k - 1) /\ i # k))
    BY <2>3
  <2>5. CASE i = k
    BY <1>3, <1>4, <2>1, <2>3, <2>5
  <2>6. CASE i \in 1..(k - 1) /\ i # k
    <3>1. table[i].orig # table[k].orig
      BY <1>5, <2>3, <2>4, <2>6
    <3>2. table[i].orig \in Blocks /\ data[table[i].orig] = table[i]
      BY <1>3, <2>2, <2>4, <2>6
    <3> QED
      BY <1>4, <2>1, <3>1, <3>2
  <2> QED
    BY <2>4, <2>5, <2>6
<1>7. HeaderLeadsTo(table) /\ sb.count > 0
  <2>1. table # <<>>
    BY <1>3
  <2> QED
    BY <1>2, <2>1 DEF RestartInv, DiskInv, OnDiskAsSaved
<1>8. CASE k = n
  <2>1. pc' = "closed" /\ saved' = table
    BY <1>8 DEF SaveInode, Saved
  <2>2. Live' = Live
    BY <1>2, <2>1 DEF Live
  <2>3. OneReference' /\ Linked'
    BY <1>1, <1>2, <2>2, FrameKeeps DEF RestartInv, DiskInv
  <2>4. \A i \in DOMAIN saved' : data'[saved'[i].orig] = saved'[i]
    BY <1>3, <1>6, <1>8, <2>1
  <2>5. HeaderLeadsTo(saved)'
    BY <1>4, <1>7, <2>1 DEF HeaderLeadsTo
  <2> HIDE DEF k, n
  <2> QED
    BY <1>1, <2>1, <2>3, <2>4, <2>5 DEF RestartInv, DiskInv, Working, OnDiskAsSaved
<1>9. CASE k # n
  <2>1. /\ pc' = "saveInode" /\ UNCHANGED <<table, sb, saved>>
        /\ op' = [op EXCEPT !.left = k + 1]
    BY <1>2, <1>9 DEF SaveInode, memory
  <2>2. op'.left = k + 1 /\ (k + 1) - 1 = k
    BY <1>3, <2>1 DEF RestartInv, DiskInv, TypeInv, TypeOK, Operations
  <2>3. Live' = Live
    BY <1>2, <2>1 DEF Live
  <2>4. OneReference' /\ Linked'
    BY <1>1, <1>2, <2>3, FrameKeeps DEF RestartInv, DiskInv
  <2>5. HeaderLeadsTo(table)'
    BY <1>4, <1>7, <2>1 DEF HeaderLeadsTo
  <2>6. \A i \in 1..(op'.left - 1) : data'[table'[i].orig] = table'[i]
    BY <1>6, <2>1, <2>2
  <2> HIDE DEF k, n
  <2> QED
    BY <1>1, <1>7, <2>1, <2>4, <2>5, <2>6 DEF RestartInv, DiskInv, Working, OnDiskAsSaved
<1> QED
  BY <1>8, <1>9

LEMMA StutterKeeps == RestartInv /\ UNCHANGED vars => RestartInv'
<1> SUFFICES ASSUME RestartInv, UNCHANGED vars PROVE RestartInv'
  OBVIOUS
<1>1. TypeInv'
  BY DEF vars, RestartInv, DiskInv, TypeInv, TypeOK, Cursors, IndexOf
<1>2. Live' = Live /\ BeingCleared' = BeingCleared /\ UsedBlocks' = UsedBlocks
  BY DEF vars, Live, BeingCleared, Deleting, IndexOf, UsedBlocks
<1>3. OneReference' /\ Working' /\ Linked'
  BY <1>2 DEF vars, RestartInv, DiskInv, OneReference, Working, Linked
<1>4. OnDiskAsSaved'
  BY DEF vars, RestartInv, DiskInv, OnDiskAsSaved, HeaderLeadsTo
<1> QED
  BY <1>1, <1>3, <1>4 DEF RestartInv, DiskInv

\* A step of the destructor leaves the table and its blocks as they are, whatever
\* the inodes on the disk.
LEMMA SaveKeepsDisk ==
  ASSUME DiskInv, Save
  PROVE  DiskInv'
<1>1. TypeInv' /\ UNCHANGED <<used, next>>
  BY SaveTyped DEF DiskInv, Save, Close, SaveHeader, SaveInode, disk
<1>2. /\ pc \in {"idle", "saveHeader", "saveInode"}
      /\ pc' \in {"saveHeader", "saveInode", "closed"}
      /\ Live' = Live /\ BeingCleared = {} /\ BeingCleared' = {}
  BY DEF Save, Close, SaveHeader, SaveInode, Saved, Live, memory, history, BeingCleared, Deleting
<1>3. OneReference' /\ Linked'
  BY <1>1, <1>2, FrameKeeps DEF DiskInv
<1> QED
  BY <1>1, <1>2, <1>3 DEF DiskInv, Working

LEMMA NextKeeps == RestartInv /\ [Next]_vars => RestartInv'
<1> SUFFICES ASSUME RestartInv, [Next]_vars PROVE RestartInv'
  OBVIOUS
<1>1. CASE Load
  BY <1>1, OpenKeeps, LoadKeeps DEF Load
<1>2. CASE Save
  BY <1>2, CloseKeeps, SaveHeaderKeeps, SaveInodeKeeps DEF Save
<1>3. CASE ExtendDisk
  BY <1>3, ExtendKeeps
<1>4. CASE Make
  BY <1>4, AllocKeeps, WriteInodeKeeps, AllocFirstKeeps, WriteDataKeeps,
     LinkKeeps DEF Make
<1>5. CASE Delete
  BY <1>5, ClearDataKeeps, ClearInodeKeeps DEF Delete
<1>6. CASE \E n \in Names : DeleteFile(n)
  BY <1>6, DeleteFileKeeps
<1>7. CASE \E n \in Names : \E t \in Texts : MakeFile(n, t)
  BY <1>7, MakeFileKeeps
<1>8. CASE UNCHANGED vars
  BY <1>8, StutterKeeps
<1> QED
  BY <1>1, <1>2, <1>3, <1>4, <1>5, <1>6, <1>7, <1>8 DEF Next

\* When the constructor has read the last inode, or finds none to read, its
\* table is the one the destructor saved.
LEMMA ReopenStep ==
  ASSUME RestartInv, RestartInv', [Next]_vars, pc' = "idle", pc \in {"closed", "loading"}
  PROVE  table' = saved
<1>1. CASE pc = "closed"
  <2>1. Open
    BY <1>1 DEF Next, Load, LoadInode, Save, Close, SaveHeader, SaveInode,
       ExtendDisk, Make, AllocInode, WriteInode, AllocFirst, WriteData, AllocNext,
       Link, Delete, ClearData, ClearInode, DeleteFile, MakeFile, vars
  <2>2. table' = <<>>
    BY <2>1 DEF Open
  <2>3. CASE saved # <<>>
    <3>1. Live = saved /\ 1 \in DOMAIN saved
      BY <1>1, <2>3, LiveTyped DEF Live, RestartInv, DiskInv
    <3>2. saved[1].orig # 0 /\ header.init # 0 /\ header.count > 0
          /\ header.first = saved[1].orig
      BY <1>1, <2>3, <3>1, OrigsAreBlocks DEF RestartInv, DiskInv, OnDiskAsSaved, HeaderLeadsTo
    <3>3. pc' # "idle"
      BY <2>1, <3>2 DEF Open, NoOp
    <3> QED
      BY <3>3
  <2> QED
    BY <2>2, <2>3
<1>2. CASE pc = "loading"
  <2>1. LoadInode
    BY <1>2 DEF Next, Load, Open, Save, Close, SaveHeader, SaveInode,
       ExtendDisk, Make, AllocInode, WriteInode, AllocFirst, WriteData, AllocNext,
       Link, Delete, ClearData, ClearInode, DeleteFile, MakeFile, vars
  <2> DEFINE n == Len(table) + 1
  <2>2. /\ n \in DOMAIN saved /\ data[op.cur] = saved[n]
        /\ saved[n] \in Inodes /\ table \in Seq(Inodes) /\ saved \in Seq(Inodes)
        /\ Len(table) \in Nat /\ Len(saved) \in Nat /\ DOMAIN saved = 1..Len(saved)
        /\ \A i \in 1..Len(table) : table[i] = saved[i]
    BY <1>2, LenProperties, ElementOfSeq
       DEF RestartInv, DiskInv, OnDiskAsSaved, TypeInv, TypeOK
  <2>3. data[op.cur].kind = "inode"
    BY <2>2 DEF Inodes
  <2>4. table' = Append(table, saved[n])
    BY <2>1, <2>2, <2>3 DEF LoadInode, InodeAt
  <2>5. saved[n].next = 0
    BY <2>1, <2>2, <2>3 DEF LoadInode, InodeAt
  <2>6. n = Len(saved)
    <3>1. Live = saved /\ Chained(saved)
      BY <1>2 DEF Live, RestartInv, DiskInv, Linked
    <3>3. saved[n].next = IF n = Len(saved) THEN 0 ELSE saved[n + 1].orig
      BY <2>2, <3>1 DEF Chained
    <3>4. n # Len(saved) => n + 1 \in DOMAIN saved
      <4>1. n \in 1..Len(saved) /\ Len(saved) \in Nat
        BY <2>2
      <4> HIDE DEF n
      <4>2. n # Len(saved) => n + 1 \in 1..Len(saved)
        BY <4>1
      <4> QED
        BY <2>2, <4>2
    <3> HIDE DEF n
    <3>2. n # Len(saved) => saved[n + 1].orig = 0 /\ n + 1 \in DOMAIN saved
      BY <2>5, <3>3, <3>4
    <3> QED
      BY <3>1, <3>2, OrigsAreBlocks DEF RestartInv
  <2>7. Len(table') = n /\ \A i \in 1..n : table'[i] = saved[i]
    BY <2>2, <2>4, AppendProperties
  <2>8. table' \in Seq(Inodes)
    BY DEF RestartInv, DiskInv, TypeInv, TypeOK
  <2> QED
    BY <2>2, <2>6, <2>7, <2>8, SeqEqual
<1> QED
  BY <1>1, <1>2

\* Whatever sequence of additions, deletions and restarts, no block of
\* disk.bin ever belongs to two figures, and empty_B never hands out a block
\* of a figure.
THEOREM NoBlockShared == Spec => []OneReference
<1>1. Init => RestartInv
  BY InitInv
<1>2. RestartInv /\ [Next]_vars => RestartInv'
  BY NextKeeps
<1>3. RestartInv => OneReference
  BY DEF RestartInv, DiskInv
<1> QED
  BY <1>1, <1>2, <1>3, PTL DEF Spec

\* A process that ends through the destructor of File_system finds, when it
\* starts again, the table of inodes it ended with.
THEOREM RestartsKeepTheTable == Spec => ReopenRestores
<1>1. Init => RestartInv
  BY InitInv
<1>2. RestartInv /\ [Next]_vars => RestartInv'
  BY NextKeeps
<1>3. RestartInv /\ RestartInv' /\ [Next]_vars =>
        [pc' = "idle" /\ pc \in {"closed", "loading"} => table' = saved]_vars
  BY ReopenStep
<1> QED
  BY <1>1, <1>2, <1>3, PTL DEF Spec, ReopenRestores

=============================================================================
