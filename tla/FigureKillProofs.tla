-------------------------- MODULE FigureKillProofs --------------------------
(***************************************************************************)
(* What a kill leaves of the store, whatever the names, the texts, the     *)
(* block size and the disk.  While a process runs, the links between the   *)
(* inodes of its table are in memory and disk.bin has older ones.  The     *)
(* invariant says where those lead: the constructor would find the first   *)
(* inodes of the table, each with its contents or still without, and after *)
(* a deletion perhaps one more that is empty.  The chains of data blocks   *)
(* of the figures it would find are then the ones that FigureChainProofs   *)
(* follows.                                                                *)
(***************************************************************************)
EXTENDS FigureChainProofs

-----------------------------------------------------------------------------
(* What disk.bin holds while a process runs, should it be killed.          *)

\* The block c holds no inode with contents: rm_file or wr_file wrote over it,
\* or adIno_file put an inode there that save_Bs has not completed.
Dead(d, c) == d[c].kind # "inode" \/ d[c] = NewInode(d[c].name, c)

\* On the disk d, the inode of v is as adIno_file left it, or is v but for
\* the link.
Blank(d, v) == d[v.orig] = NewInode(v.name, v.orig)
Intact(d, v) == d[v.orig] = [v EXCEPT !.next = d[v.orig].next]

\* The number c, read where the i-th inode of table t is looked for, is 0, the
\* block of that inode or, after a deletion (del), a dead one that is not the
\* block of an inode before it.
LeadsTo(t, d, del, c, i) ==
  \/ c = 0
  \/ i \in DOMAIN t /\ c = t[i].orig
  \/ /\ del /\ c \in Blocks /\ Dead(d, c)
     /\ \A j \in DOMAIN t : j < i => c # t[j].orig

\* The disk with header h and inodes d leads to no figure that table t has
\* not, nor to one in another order.
Foretells(t, h, d, del) ==
  /\ h.first # 0 => h.init # 0 /\ h.count > 0
  /\ LeadsTo(t, d, del, h.first, 1)
  /\ \A i \in DOMAIN t : /\ Intact(d, t[i]) \/ Blank(d, t[i])
                         /\ LeadsTo(t, d, del, d[t[i].orig].next, i + 1)

\* The figure being added has an inode on the disk that names no block yet.
Beginning == pc \in {"firstBlock", "dataWrite", "nextBlock", "link"}

KillInv ==
  deletion # "torn" =>
    /\ Foretells(Live, header, data, deletion # "none")
    /\ Beginning => Blank(data, table[Touched])
    /\ Deleting => deletion # "none"

\* A step that leaves the inodes on the disk and in the table as they are.
LEMMA KeepingForetells ==
  ASSUME NEW t, NEW h, NEW d, NEW del, NEW del2, Foretells(t, h, d, del), del => del2
  PROVE  Foretells(t, h, d, del2)
BY DEF Foretells, LeadsTo

\* A step that changes neither the disk nor the table.
LEMMA StillKillInv ==
  ASSUME KillInv, UNCHANGED <<header, data, table, deletion>>, Live' = Live, ~Deleting',
         Beginning' => Beginning /\ op'.name = op.name
  PROVE  KillInv'
<1>1. Touched' = IndexIn(table, op'.name) /\ Touched = IndexIn(table, op.name)
  BY DEF Touched, IndexOf
<1>2. ASSUME deletion' # "torn"
      PROVE  /\ Foretells(Live, header, data, deletion # "none")'
             /\ Beginning' => Blank(data, table[Touched])'
  BY <1>1, <1>2 DEF KillInv
<1> QED
  BY <1>2 DEF KillInv

\* wr_file writes over block b, or clear_block does, and b is the block of no
\* inode of the table.
LEMMA OverwritingForetells ==
  ASSUME NEW t, NEW h, NEW d, NEW del, Foretells(t, h, d, del), NEW b, NEW d2,
         \A c \in Blocks : c # b => d2[c] = d[c],
         d2[b].kind # "inode",
         \A i \in DOMAIN t : t[i].orig \in Blocks /\ t[i].orig # b
  PROVE  /\ Foretells(t, h, d2, del)
         /\ \A i \in DOMAIN t : Blank(d, t[i]) => Blank(d2, t[i])
<1>1. \A i \in DOMAIN t : d2[t[i].orig] = d[t[i].orig]
  OBVIOUS
<1>2. \A c \in Blocks : Dead(d, c) => Dead(d2, c)
  BY DEF Dead
<1>3. \A c, i : LeadsTo(t, d, del, c, i) => LeadsTo(t, d2, del, c, i)
  BY <1>2 DEF LeadsTo
<1>4. \A i \in DOMAIN t : /\ Intact(d, t[i]) => Intact(d2, t[i])
                          /\ Blank(d, t[i]) => Blank(d2, t[i])
  BY <1>1 DEF Intact, Blank
<1> QED
  BY <1>1, <1>3, <1>4 DEF Foretells

\* Only the inode of the table that is blank on the disk changes, and keeps its
\* name and its block.
LEMMA FillingForetells ==
  ASSUME NEW t, NEW h, NEW d, NEW del, Foretells(t, h, d, del), NEW i, NEW t2,
         DOMAIN t2 = DOMAIN t, i \in DOMAIN t => Blank(d, t[i]),
         \A j \in DOMAIN t : t2[j].orig = t[j].orig /\ t2[j].name = t[j].name,
         \A j \in DOMAIN t : j # i => t2[j] = t[j]
  PROVE  /\ Foretells(t2, h, d, del)
         /\ i \in DOMAIN t => Blank(d, t2[i])
<1>1. \A c, k : LeadsTo(t, d, del, c, k) => LeadsTo(t2, d, del, c, k)
  BY DEF LeadsTo
<1>2. \A j \in DOMAIN t : Blank(d, t[j]) => Blank(d, t2[j])
  BY DEF Blank
<1>3. \A j \in DOMAIN t : Intact(d, t[j]) \/ Blank(d, t[j]) => Intact(d, t2[j]) \/ Blank(d, t2[j])
  BY <1>2
<1> QED
  BY <1>1, <1>2, <1>3 DEF Foretells

\* Two inodes that differ only in their links.
Alike(v, w) == /\ v.name = w.name /\ v.orig = w.orig /\ v.start = w.start
               /\ v.count = w.count /\ v.size = w.size

\* They become equal when they are given the same link.
LEMMA LinkedAlike ==
  ASSUME NEW v \in Inodes, NEW w \in Inodes, Alike(v, w), NEW x \in BlockOrNone
  PROVE  [w EXCEPT !.next = x] = [v EXCEPT !.next = x]
BY DEF Inodes, Alike

\* What the disk has of the one it has of the other.
LEMMA AlikeOnDisk ==
  ASSUME NEW v \in Inodes, NEW w \in Inodes, Alike(v, w), NEW d,
         d[v.orig] \in Inodes
  PROVE  /\ Intact(d, v) => Intact(d, w)
         /\ Blank(d, v) => Blank(d, w)
<1>1. d[v.orig].next \in BlockOrNone
  BY FieldsTyped
<1>2. [w EXCEPT !.next = d[v.orig].next] = [v EXCEPT !.next = d[v.orig].next]
  BY <1>1, LinkedAlike
<1> QED
  BY <1>2 DEF Intact, Blank, Alike

\* The inode of the table that the disk holds, complete or not, is one.
LEMMA OnDiskTyped ==
  ASSUME NEW v \in Inodes, NEW d, Intact(d, v) \/ Blank(d, v), NEW x \in Payloads,
         d[v.orig] = x
  PROVE  x \in Inodes /\ x.kind = "inode" /\ x.name = v.name /\ x.orig = v.orig
<1>1. CASE Blank(d, v)
  <2>1. v.name \in Names \cup {NoName} /\ v.orig \in BlockOrNone
    BY FieldsTyped
  <2>2. x = NewInode(v.name, v.orig) /\ x \in Inodes
    BY <1>1, <2>1, InodeTyped DEF Blank
  <2> QED
    BY <2>2 DEF NewInode, Inode
<1>2. CASE Intact(d, v)
  <2>1. x = [v EXCEPT !.next = x.next]
    BY <1>2 DEF Intact
  <2>2. x.kind = "inode" /\ x.name = v.name /\ x.orig = v.orig
    BY <2>1, FieldsTyped DEF Inodes
  <2>3. x # Zero /\ x \notin [kind : {"text"}, chars : Seq(Chars)]
    BY <2>2 DEF Zero
  <2> QED
    BY <2>2, <2>3 DEF Payloads
<1> QED
  BY <1>1, <1>2

\* adIno_file puts a new inode in block b, behind the last.
LEMMA AppendingForetells ==
  ASSUME NEW t, NEW h, NEW d, NEW del, Foretells(t, h, d, del), NEW n \in Nat,
         NEW b \in Blocks, NEW m, NEW t2, NEW d2,
         DOMAIN t = 1..n, DOMAIN t2 = 1..(n + 1),
         \A i \in 1..n : /\ t[i] \in Inodes /\ t2[i] \in Inodes /\ Alike(t[i], t2[i])
                         /\ t[i].orig \in Blocks /\ t[i].orig # b
                         /\ d[t[i].orig] \in Payloads,
         t2[n + 1] = NewInode(m, b),
         d2[b] = NewInode(m, b), \A c \in Blocks : c # b => d2[c] = d[c]
  PROVE  /\ Foretells(t2, h, d2, del)
         /\ Blank(d2, t2[n + 1])
<1>1. NewInode(m, b).name = m /\ NewInode(m, b).orig = b /\ NewInode(m, b).next = 0
  BY DEF NewInode, Inode
<1>2. /\ \A i \in 1..n : d2[t[i].orig] = d[t[i].orig] /\ t2[i].orig = t[i].orig
      /\ t2[n + 1].orig = b
  BY <1>1 DEF Alike
<1>3. \A c \in Blocks : Dead(d, c) => Dead(d2, c)
  <2> SUFFICES ASSUME NEW c \in Blocks, Dead(d, c) PROVE Dead(d2, c)
    OBVIOUS
  <2>1. CASE c = b
    BY <1>1, <2>1 DEF Dead
  <2>2. CASE c # b
    BY <2>2 DEF Dead
  <2> QED
    BY <2>1, <2>2
<1>4. ASSUME NEW c, NEW i \in 1..(n + 1), LeadsTo(t, d, del, c, i)
      PROVE  LeadsTo(t2, d2, del, c, i)
  <2>1. CASE c = 0
    BY <2>1 DEF LeadsTo
  <2>2. CASE i \in DOMAIN t /\ c = t[i].orig
    BY <1>2, <2>2 DEF LeadsTo
  <2>3. CASE del /\ c \in Blocks /\ Dead(d, c) /\ \A j \in DOMAIN t : j < i => c # t[j].orig
    <3>1. \A j \in DOMAIN t2 : j < i => j \in 1..n
      OBVIOUS
    <3>2. \A j \in DOMAIN t2 : j < i => c # t2[j].orig
      BY <1>2, <2>3, <3>1
    <3> QED
      BY <1>3, <2>3, <3>2 DEF LeadsTo
  <2> QED
    BY <1>4, <2>1, <2>2, <2>3 DEF LeadsTo
<1>5. Blank(d2, t2[n + 1])
  BY <1>1, <1>2 DEF Blank
<1>6. ASSUME NEW i \in 1..n PROVE Intact(d2, t2[i]) \/ Blank(d2, t2[i])
  <2>1. Intact(d, t[i]) \/ Blank(d, t[i])
    BY DEF Foretells
  <2>2. d[t[i].orig] \in Inodes
    BY <2>1, OnDiskTyped
  <2>3. Intact(d, t2[i]) \/ Blank(d, t2[i])
    BY <2>1, <2>2, AlikeOnDisk
  <2> QED
    BY <1>2, <2>3 DEF Intact, Blank
<1>7. ASSUME NEW i \in 1..(n + 1) PROVE LeadsTo(t2, d2, del, d2[t2[i].orig].next, i + 1)
  <2>1. CASE i = n + 1
    BY <1>1, <1>2, <2>1 DEF LeadsTo
  <2>2. CASE i # n + 1
    <3>1. i \in 1..n /\ i + 1 \in 1..(n + 1)
      BY <2>2
    <3>2. LeadsTo(t, d, del, d[t[i].orig].next, i + 1)
      BY <3>1 DEF Foretells
    <3> QED
      BY <1>2, <1>4, <3>1, <3>2
  <2> QED
    BY <2>1, <2>2
<1>8. LeadsTo(t2, d2, del, h.first, 1)
  BY <1>4 DEF Foretells
<1>9. \A i \in 1..(n + 1) : Intact(d2, t2[i]) \/ Blank(d2, t2[i])
  <2> SUFFICES ASSUME NEW i \in 1..(n + 1) PROVE Intact(d2, t2[i]) \/ Blank(d2, t2[i])
    OBVIOUS
  <2>1. i = n + 1 \/ i \in 1..n
    OBVIOUS
  <2> QED
    BY <1>5, <1>6, <2>1
<1> QED
  BY <1>5, <1>7, <1>8, <1>9 DEF Foretells

\* rm_file drops the i-th of n inodes and clears its block.  pick tells where
\* the inodes that stay come from.
Picks(pick, i, n) ==
  \A j \in 1..(n - 1) : pick[j] = IF j < i THEN j ELSE j + 1

InodeCleared(t, d, n, i, pick, t2, d2) ==
  /\ n \in Nat /\ i \in 1..n /\ Picks(pick, i, n)
  /\ DOMAIN t = 1..n /\ DOMAIN t2 = 1..(n - 1)
  /\ \A j \in 1..n : /\ t[j] \in Inodes /\ t[j].orig \in Blocks
                     /\ d[t[j].orig] \in Payloads
  /\ \A j, k \in 1..n : t[j].orig = t[k].orig => j = k
  /\ \A j \in 1..(n - 1) : t2[j] \in Inodes /\ Alike(t[pick[j]], t2[j])
  /\ d2[t[i].orig] = Zero /\ \A c \in Blocks : c # t[i].orig => d2[c] = d[c]

\* rm_file drops an inode from the table and clears its block: what led there
\* now leads to a dead block.
LEMMA DroppingForetells ==
  ASSUME NEW t, NEW h, NEW d, Foretells(t, h, d, TRUE), NEW n, NEW i, NEW pick,
         NEW t2, NEW d2, InodeCleared(t, d, n, i, pick, t2, d2)
  PROVE  Foretells(t2, h, d2, TRUE)
<1>0. /\ n \in Nat /\ i \in 1..n /\ Picks(pick, i, n)
      /\ DOMAIN t = 1..n /\ DOMAIN t2 = 1..(n - 1)
      /\ \A j \in 1..n : /\ t[j] \in Inodes /\ t[j].orig \in Blocks
                         /\ d[t[j].orig] \in Payloads
      /\ \A j, k \in 1..n : t[j].orig = t[k].orig => j = k
      /\ \A j \in 1..(n - 1) : t2[j] \in Inodes /\ Alike(t[pick[j]], t2[j])
      /\ d2[t[i].orig] = Zero /\ \A c \in Blocks : c # t[i].orig => d2[c] = d[c]
  BY DEF InodeCleared
<1> USE <1>0
<1> DEFINE o == t[i].orig
<1>1. \A j \in 1..(n - 1) : /\ pick[j] \in 1..n /\ pick[j] # i
                            /\ t2[j].orig = t[pick[j]].orig /\ t2[j].orig \in Blocks
                            /\ t2[j].orig # o
                            /\ d2[t2[j].orig] = d[t[pick[j]].orig]
  <2> SUFFICES ASSUME NEW j \in 1..(n - 1)
               PROVE  /\ pick[j] \in 1..n /\ pick[j] # i
                      /\ t2[j].orig = t[pick[j]].orig /\ t2[j].orig \in Blocks
                      /\ t2[j].orig # o
                      /\ d2[t2[j].orig] = d[t[pick[j]].orig]
    OBVIOUS
  <2>1. pick[j] \in 1..n /\ pick[j] # i
    BY DEF Picks
  <2>2. t2[j].orig = t[pick[j]].orig
    BY DEF Alike
  <2>3. t[pick[j]].orig \in Blocks /\ t[pick[j]].orig # o
    BY <2>1
  <2> QED
    BY <2>1, <2>2, <2>3
<1>2. Dead(d2, o) /\ o \in Blocks
  BY DEF Dead, Zero
<1>3. \A c \in Blocks : Dead(d, c) => Dead(d2, c)
  BY <1>2 DEF Dead
\* What led to inode k leads to the one that has its place, or to the dead block.
<1>4. ASSUME NEW c, NEW k \in 1..(n + 1), NEW q \in 1..n,
             q = (IF k <= i THEN k ELSE k - 1), LeadsTo(t, d, TRUE, c, k)
      PROVE  LeadsTo(t2, d2, TRUE, c, q)
  <2>1. CASE c = 0
    BY <2>1 DEF LeadsTo
  <2>2. CASE c = o
    BY <1>1, <1>2, <2>2 DEF LeadsTo
  <2>3. CASE k \in DOMAIN t /\ c = t[k].orig /\ c # o
    <3>1. k # i /\ k \in 1..n
      BY <2>3
    <3>2. q \in 1..(n - 1) /\ pick[q] = k
      BY <1>4, <3>1 DEF Picks
    <3> QED
      BY <1>1, <2>3, <3>2 DEF LeadsTo
  <2>4. CASE c \in Blocks /\ Dead(d, c) /\ \A j \in DOMAIN t : j < k => c # t[j].orig
    <3>1. ASSUME NEW j \in DOMAIN t2, j < q PROVE c # t2[j].orig
      <4>1. pick[j] \in 1..n /\ pick[j] < k
        BY <1>1, <1>4, <3>1 DEF Picks
      <4> QED
        BY <1>1, <2>4, <4>1
    <3> QED
      BY <1>3, <2>4, <3>1 DEF LeadsTo
  <2> QED
    BY <1>4, <2>1, <2>2, <2>3, <2>4 DEF LeadsTo
<1>5. LeadsTo(t2, d2, TRUE, h.first, 1)
  <2>1. LeadsTo(t, d, TRUE, h.first, 1)
    BY DEF Foretells
  <2>2. 1 \in 1..n /\ 1 \in 1..(n + 1) /\ 1 = IF 1 <= i THEN 1 ELSE 1 - 1
    OBVIOUS
  <2> HIDE DEF o
  <2> QED
    BY <1>4, <2>1, <2>2
<1>6. ASSUME NEW j \in 1..(n - 1)
      PROVE  /\ LeadsTo(t2, d2, TRUE, d2[t2[j].orig].next, j + 1)
             /\ Intact(d2, t2[j]) \/ Blank(d2, t2[j])
  <2>1. PICK p \in 1..n : p = pick[j]
    BY <1>1
  <2>2. /\ LeadsTo(t, d, TRUE, d[t[p].orig].next, p + 1)
        /\ Intact(d, t[p]) \/ Blank(d, t[p])
    BY DEF Foretells
  <2>3. /\ p + 1 \in 1..(n + 1) /\ j + 1 \in 1..n
        /\ j + 1 = IF p + 1 <= i THEN p + 1 ELSE (p + 1) - 1
    BY <2>1 DEF Picks
  <2>4. LeadsTo(t2, d2, TRUE, d[t[p].orig].next, j + 1)
    <3> HIDE DEF o
    <3> QED
      BY <1>4, <2>2, <2>3
  <2>5. d[t[p].orig] \in Inodes
    BY <2>2, OnDiskTyped
  <2>6. Intact(d, t2[j]) \/ Blank(d, t2[j])
    BY <2>1, <2>2, <2>5, AlikeOnDisk
  <2>7. d2[t2[j].orig] = d[t2[j].orig] /\ d2[t2[j].orig] = d[t[p].orig]
    BY <1>1, <2>1
  <2>8. Intact(d2, t2[j]) \/ Blank(d2, t2[j])
    BY <2>6, <2>7 DEF Intact, Blank
  <2> QED
    BY <2>4, <2>7, <2>8
<1> QED
  BY <1>5, <1>6 DEF Foretells

\* The part of table t that save_Bs has written.
Completed(t, h, d, L) ==
  /\ h.init # 0 /\ h.count > 0 /\ h.first = t[1].orig
  /\ \A i \in 1..(L - 1) : d[t[i].orig] = t[i]

\* save_Bs writes the L-th inode over the one the disk had.
LEMMA CompletingForetells ==
  ASSUME NEW t, NEW h, NEW d, NEW del, Foretells(t, h, d, del), NEW n \in Nat,
         NEW L \in 1..n, Completed(t, h, d, L), NEW d2,
         DOMAIN t = 1..n,
         \A i \in 1..n : t[i] \in Inodes /\ t[i].orig \in Blocks,
         \A i \in 1..n : t[i].next = IF i = n THEN 0 ELSE t[i + 1].orig,
         \A j, k \in 1..n : t[j].orig = t[k].orig => j = k,
         d2[t[L].orig] = t[L], \A c \in Blocks : c # t[L].orig => d2[c] = d[c]
  PROVE  Foretells(t, h, d2, del)
<1>1. \A i \in 1..n : i # L => d2[t[i].orig] = d[t[i].orig]
  OBVIOUS
<1>2. \A i \in 1..n : LeadsTo(t, d2, del, t[i].next, i + 1)
  BY DEF LeadsTo
<1>3. ASSUME NEW i \in 1..n, i >= L, NEW c, LeadsTo(t, d, del, c, i + 1)
      PROVE  LeadsTo(t, d2, del, c, i + 1)
  <2>1. CASE c = 0
    BY <2>1 DEF LeadsTo
  <2>2. CASE i + 1 \in DOMAIN t /\ c = t[i + 1].orig
    BY <2>2 DEF LeadsTo
  <2>3. CASE del /\ c \in Blocks /\ Dead(d, c) /\ \A j \in DOMAIN t : j < i + 1 => c # t[j].orig
    <3>1. L \in DOMAIN t /\ L < i + 1
      BY <1>3
    <3>2. c # t[L].orig
      BY <2>3, <3>1
    <3>3. Dead(d2, c)
      BY <2>3, <3>2 DEF Dead
    <3> QED
      BY <2>3, <3>3 DEF LeadsTo
  <2> QED
    BY <1>3, <2>1, <2>2, <2>3 DEF LeadsTo
<1>4. ASSUME NEW i \in 1..n PROVE LeadsTo(t, d2, del, d2[t[i].orig].next, i + 1)
  <2>1. CASE i <= L
    <3>1. d2[t[i].orig] = t[i]
      BY <1>1, <2>1 DEF Completed
    <3> QED
      BY <1>2, <3>1
  <2>2. CASE i > L
    <3>1. d2[t[i].orig] = d[t[i].orig]
      BY <1>1, <2>2
    <3>2. LeadsTo(t, d, del, d[t[i].orig].next, i + 1)
      BY DEF Foretells
    <3> QED
      BY <1>3, <2>2, <3>1, <3>2
  <2> QED
    BY <2>1, <2>2
<1>5. ASSUME NEW i \in 1..n PROVE Intact(d2, t[i]) \/ Blank(d2, t[i])
  <2>1. CASE i = L
    <3>1. d2[t[i].orig] = t[i]
      BY <2>1
    <3>2. [t[i] EXCEPT !.next = t[i].next] = t[i]
      BY DEF Inodes
    <3> QED
      BY <3>1, <3>2 DEF Intact
  <2>2. CASE i # L
    BY <1>1, <2>2 DEF Foretells, Intact, Blank
  <2> QED
    BY <2>1, <2>2
<1>6. LeadsTo(t, d2, del, h.first, 1)
  BY DEF Completed, LeadsTo
<1> QED
  BY <1>4, <1>5, <1>6 DEF Foretells, Completed

\* The table of a running process, of length n.
Shaped(t, n, d) ==
  /\ n \in Nat /\ DOMAIN t = 1..n
  /\ \A i \in 1..n : /\ t[i] \in Inodes /\ t[i].orig \in Blocks /\ t[i].orig # 0
                     /\ d[t[i].orig] \in Payloads
  /\ \A j, k \in 1..n : t[j].orig = t[k].orig => j = k

\* The table that the disk gives, while no process runs.
LEMMA LiveShaped ==
  ASSUME DiskInv
  PROVE  Shaped(Live, Len(Live), data)
<1>1. /\ Len(Live) \in Nat /\ DOMAIN Live = 1..Len(Live)
      /\ \A i \in DOMAIN Live : Live[i] \in Inodes
  BY LiveTyped DEF DiskInv
<1>2. \A i \in DOMAIN Live : Live[i].orig \in Blocks /\ Live[i].orig # 0
  BY OrigsAreBlocks
<1>3. \A j, k \in DOMAIN Live : Live[j].orig = Live[k].orig => j = k
  BY OrigsDiffer
<1>4. \A b \in Blocks : data[b] \in Payloads
  BY DEF DiskInv, TypeInv, TypeOK
<1> QED
  BY <1>1, <1>2, <1>3, <1>4 DEF Shaped

\* The table of a running process.
LEMMA TableShaped ==
  ASSUME DiskInv, Running
  PROVE  Shaped(table, Len(table), data)
BY LiveShaped DEF Running, Live

\* The disk leads to table t, of length n, and holds its inodes.
LaidOut(t, n, h, d) ==
  /\ \A i \in 1..n : /\ d[t[i].orig] = t[i]
                     /\ t[i].next = IF i = n THEN 0 ELSE t[i + 1].orig
  /\ IF n = 0 THEN h.first = 0 ELSE h.init # 0 /\ h.count > 0 /\ h.first = t[1].orig

LEMMA LaidOutForetells ==
  ASSUME NEW t, NEW n, NEW h, NEW d, Shaped(t, n, d), LaidOut(t, n, h, d), NEW del
  PROVE  /\ Foretells(t, h, d, del)
         /\ \A i \in 1..n : Intact(d, t[i])
<1>1. n \in Nat /\ DOMAIN t = 1..n
  BY DEF Shaped
<1>2. \A i \in 1..n : Intact(d, t[i])
  <2> SUFFICES ASSUME NEW i \in 1..n PROVE Intact(d, t[i])
    OBVIOUS
  <2>1. PICK v \in Inodes : v = t[i] /\ d[v.orig] = v
    BY DEF Shaped, LaidOut
  <2>2. [v EXCEPT !.next = v.next] = v
    BY DEF Inodes
  <2> QED
    BY <2>1, <2>2 DEF Intact
<1>3. \A i \in 1..n : LeadsTo(t, d, del, d[t[i].orig].next, i + 1)
  BY <1>1 DEF LeadsTo, LaidOut
<1>4. LeadsTo(t, d, del, h.first, 1) /\ (h.first # 0 => h.init # 0 /\ h.count > 0)
  BY <1>1 DEF LaidOut, LeadsTo
<1> QED
  BY <1>1, <1>2, <1>3, <1>4 DEF Foretells

\* The inodes that were saved are laid out on the disk.
LEMMA SavedLaidOut ==
  ASSUME RestartInv, LoadLeads, pc \in {"closed", "loading"}, NEW n, n = Len(Live)
  PROVE  Shaped(Live, n, data) /\ LaidOut(Live, n, header, data)
<1> DiskInv
  BY DEF RestartInv
<1>1. Live = saved /\ Shaped(Live, n, data)
  BY LiveShaped DEF Live
<1>2. \A i \in DOMAIN Live : Live[i].next = IF i = n THEN 0 ELSE Live[i + 1].orig
  BY DEF DiskInv, Linked, Chained
<1>3. HeaderLeadsTo(saved) /\ \A i \in DOMAIN saved : data[saved[i].orig] = saved[i]
  BY DEF RestartInv, OnDiskAsSaved, LoadLeads
<1>4. saved = <<>> <=> n = 0
  BY <1>1, LiveTyped DEF DiskInv
<1> QED
  BY <1>1, <1>2, <1>3, <1>4 DEF HeaderLeadsTo, LaidOut, Shaped

\* The constructor has only what the disk leads to.
LEMMA LoadForetold ==
  ASSUME RestartInv, RestartInv', LoadLeads, Load
  PROVE  KillInv'
<1>1. /\ pc \in {"closed", "loading"} /\ pc' \in {"loading", "idle"} /\ Live' = Live
  BY LoadLive
<1>2. UNCHANGED <<header, data>>
  BY DEF Load, Open, LoadInode, disk
<1>3. PICK n : n = Len(Live)
  OBVIOUS
<1>4. PICK t, del : t = Live /\ del = (deletion # "none")'
  OBVIOUS
<1>5. Shaped(t, n, data) /\ LaidOut(t, n, header, data)
  BY <1>1, <1>3, <1>4, SavedLaidOut
<1>6. Foretells(t, header, data, del)
  BY <1>5, LaidOutForetells
<1>7. Foretells(Live, header, data, deletion # "none")'
  BY <1>1, <1>2, <1>4, <1>6
<1> QED
  BY <1>1, <1>7 DEF KillInv, Beginning, Deleting

\* The destructor leaves what the disk leads to.
LEMMA ClosedForetold ==
  ASSUME RestartInv, RestartInv', Save, pc' = "closed"
  PROVE  KillInv'
<1> DiskInv /\ DiskInv'
  BY DEF RestartInv
<1>1. Live' = Live /\ Live' = saved'
  BY SaveLive DEF Live
<1>2. PICK t, u, n, e, k, del : /\ t = Live /\ u = saved' /\ n = Len(t) /\ e = data'
                                /\ k = header' /\ del = (deletion # "none")'
  OBVIOUS
<1>3. Shaped(t, n, data) /\ t = u
  BY <1>1, <1>2, LiveShaped
<1>4. \A b \in Blocks : e[b] \in Payloads
  BY <1>2 DEF DiskInv, TypeInv, TypeOK
<1>5. Shaped(t, n, e)
  BY <1>3, <1>4 DEF Shaped
<1>6. \A i \in DOMAIN t : t[i].next = IF i = n THEN 0 ELSE t[i + 1].orig
  BY <1>2 DEF DiskInv, Linked, Chained
<1>7. \A i \in DOMAIN u : e[u[i].orig] = u[i]
  BY <1>2 DEF RestartInv, OnDiskAsSaved
<1>8. IF u = <<>> THEN k.first = 0 ELSE k.init # 0 /\ k.count > 0 /\ k.first = u[1].orig
  BY <1>2 DEF RestartInv, OnDiskAsSaved, HeaderLeadsTo
<1>9. t = <<>> <=> n = 0
  BY <1>2, LiveTyped DEF DiskInv
<1>10. LaidOut(t, n, k, e)
  BY <1>3, <1>6, <1>7, <1>8, <1>9 DEF LaidOut, Shaped
<1>11. Foretells(t, k, e, del)
  BY <1>5, <1>10, LaidOutForetells
<1>12. Foretells(Live, header, data, deletion # "none")'
  BY <1>1, <1>2, <1>3, <1>11
<1> QED
  BY <1>12 DEF KillInv, Beginning, Deleting

\* Steps that write no inode.
LEMMA QuietForetold ==
  ASSUME KillInv,
         \/ ExtendDisk \/ Close \/ AllocInode \/ AllocNext \/ UNCHANGED vars
         \/ \E n \in Names, t \in Texts : MakeFile(n, t)
  PROVE  KillInv'
<1>1. CASE UNCHANGED vars
  <2>1. Live' = Live /\ Beginning' = Beginning /\ Deleting' = Deleting
        /\ Touched' = Touched
    BY <1>1 DEF vars, Live, Beginning, Deleting, Touched, IndexOf
  <2>2. UNCHANGED <<header, data, table, deletion>>
    BY <1>1 DEF vars
  <2> QED
    BY <2>1, <2>2 DEF KillInv
<1>2. CASE ExtendDisk
  <2>1. /\ UNCHANGED <<header, data, table, deletion>> /\ Live' = Live /\ ~Deleting'
        /\ Beginning' => Beginning /\ op'.name = op.name
    BY <1>2 DEF ExtendDisk, disk, history, Live, Deleting, Beginning
  <2> QED
    BY <2>1, StillKillInv
<1>3. CASE Close
  <2>1. /\ UNCHANGED <<header, data, table, deletion>> /\ Live' = Live /\ ~Deleting'
        /\ ~Beginning'
    BY <1>3 DEF Close, disk, history, memory, Live, Deleting, Beginning
  <2> QED
    BY <2>1, StillKillInv
<1>4. CASE AllocInode
  <2>1. /\ UNCHANGED <<header, data, table, deletion>> /\ Live' = Live /\ ~Deleting'
        /\ ~Beginning'
    BY <1>4 DEF AllocInode, Live, Deleting, Beginning
  <2> QED
    BY <2>1, StillKillInv
<1>5. CASE AllocNext
  <2>1. PICK b \in Blocks : op' = [op EXCEPT !.nxt = b]
    BY <1>5 DEF AllocNext
  <2>2. /\ UNCHANGED <<header, data, table, deletion>> /\ Live' = Live /\ ~Deleting'
        /\ Beginning /\ op'.name = op.name
    BY <1>5, <2>1 DEF AllocNext, Live, Deleting, Beginning
  <2> QED
    BY <2>2, StillKillInv
<1>6. CASE \E n \in Names, t \in Texts : MakeFile(n, t)
  <2>1. /\ UNCHANGED <<header, data, table, deletion>> /\ Live' = Live /\ ~Deleting'
        /\ ~Beginning'
    BY <1>6 DEF MakeFile, disk, history, memory, Live, Deleting, Beginning
  <2> QED
    BY <2>1, StillKillInv
<1> QED
  BY <1>1, <1>2, <1>3, <1>4, <1>5, <1>6

(* Each step of a process keeps what the disk foretells. *)

LEMMA DeleteFileForetold ==
  ASSUME KillInv, NEW n \in Names, DeleteFile(n)
  PROVE  KillInv'
<1>1. Live' = Live /\ UNCHANGED <<header, data>> /\ ~Beginning'
  BY DEF DeleteFile, disk, memory, Live, Beginning
<1>2. deletion' = IF deletion = "torn" THEN "torn" ELSE "unsaved"
  BY DEF DeleteFile
<1>3. ASSUME deletion' # "torn"
      PROVE  Foretells(Live, header, data, deletion # "none")' /\ deletion' # "none"
  <2>1. deletion # "torn" /\ deletion' # "none"
    BY <1>2, <1>3
  <2>2. Foretells(Live, header, data, deletion # "none")
    BY <1>1, <2>1 DEF KillInv
  <2>3. Foretells(Live, header, data, deletion' # "none")
    BY <2>1, <2>2, KeepingForetells
  <2> QED
    BY <1>1, <2>1, <2>3
<1> QED
  BY <1>1, <1>3 DEF KillInv

LEMMA WriteInodeForetold ==
  ASSUME DiskInv, DiskInv', KillInv, NEW who, NEW pos, ChainsAre(who, pos), WriteInode
  PROVE  KillInv'
<1>1. /\ pc = "inodeWrite" /\ pc' = "firstBlock" /\ Running /\ Live = table
      /\ UNCHANGED <<header, deletion, op>>
      /\ data' = [data EXCEPT ![op.cur] = NewInode(op.name, op.cur)]
  BY DEF WriteInode, history, Running, Live
<1>2. Touched = 0
  BY <1>1 DEF ChainsAre, AtPlace
<1>3. PICK n : n = Len(table)
  OBVIOUS
<1>4. /\ n \in Nat /\ DOMAIN table = 1..n /\ DOMAIN table' = 1..(n + 1)
      /\ \A i \in 1..n : Alike(table[i], table'[i])
      /\ table'[n + 1] = NewInode(op.name, op.cur)
      /\ Touched' = n + 1
  BY <1>2, <1>3, InodeAppended DEF Alike
<1>5. Shaped(table, n, data)
  BY <1>1, <1>3, TableShaped
<1>6. op.cur \in UsedBlocks /\ Unnamed(op.cur, Live, next, BeingCleared)
  BY <1>1 DEF DiskInv, Working
<1>7. PICK b \in Blocks : b = op.cur
  BY <1>6 DEF UsedBlocks
<1>8. \A i \in 1..n : table[i].orig # b
  BY <1>1, <1>4, <1>6, <1>7 DEF Unnamed
<1>9. data'[b] = NewInode(op.name, b) /\ \A c \in Blocks : c # b => data'[c] = data[c]
  BY <1>1, <1>7 DEF DiskInv, TypeInv, TypeOK
<1>10. \A i \in 1..n : table'[i] \in Inodes
  BY <1>4, ElementOfSeq, LenProperties DEF DiskInv, TypeInv, TypeOK
<1>11. ASSUME deletion # "torn"
       PROVE  Foretells(table', header, data', deletion # "none") /\ Blank(data', table'[n + 1])
  <2>1. PICK t, u, d, e, m, del : /\ t = table /\ u = table' /\ d = data /\ e = data'
                                  /\ m = op.name /\ del = (deletion # "none")
    OBVIOUS
  <2>2. Foretells(t, header, d, del)
    BY <1>1, <1>11, <2>1 DEF KillInv
  <2>3. \A i \in 1..n : /\ t[i] \in Inodes /\ u[i] \in Inodes /\ Alike(t[i], u[i])
                        /\ t[i].orig \in Blocks /\ t[i].orig # b
                        /\ d[t[i].orig] \in Payloads
    BY <1>4, <1>5, <1>8, <1>10, <2>1 DEF Shaped
  <2>4. /\ DOMAIN t = 1..n /\ DOMAIN u = 1..(n + 1)
        /\ u[n + 1] = NewInode(m, b)
        /\ e[b] = NewInode(m, b) /\ \A c \in Blocks : c # b => e[c] = d[c]
    BY <1>4, <1>7, <1>9, <2>1
  <2>5. Foretells(u, header, e, del) /\ Blank(e, u[n + 1])
    BY <1>4, <2>2, <2>3, <2>4, AppendingForetells
  <2> QED
    BY <2>1, <2>5
<1>12. ~Deleting' /\ Live' = table'
  BY <1>1 DEF Deleting, Live
<1> QED
  BY <1>1, <1>4, <1>11, <1>12 DEF KillInv

\* wr_file fills in the fields of the new inode in the table only.
LEMMA FillingForetold ==
  ASSUME DiskInv, DiskInv', KillInv, UNCHANGED <<header, data, deletion>>, Beginning,
         ~Deleting', Live' = table', Touched \in DOMAIN table,
         DOMAIN table' = DOMAIN table, Touched' = Touched,
         table'[Touched].orig = table[Touched].orig,
         table'[Touched].name = table[Touched].name,
         \A j \in DOMAIN table : j # Touched => table'[j] = table[j]
  PROVE  KillInv'
<1>1. Live = table
  BY DEF Live, Beginning
<1>2. ASSUME deletion # "torn"
      PROVE  /\ Foretells(table', header, data, deletion # "none")
             /\ Blank(data, table'[Touched])
  <2>1. PICK t, u, i, del : t = table /\ u = table' /\ i = Touched /\ del = (deletion # "none")
    OBVIOUS
  <2>2. Foretells(t, header, data, del) /\ Blank(data, t[i])
    BY <1>1, <1>2, <2>1 DEF KillInv
  <2>3. /\ DOMAIN u = DOMAIN t /\ i \in DOMAIN t
        /\ \A j \in DOMAIN t : u[j].orig = t[j].orig /\ u[j].name = t[j].name
        /\ \A j \in DOMAIN t : j # i => u[j] = t[j]
    BY <2>1
  <2>4. Foretells(u, header, data, del) /\ Blank(data, u[i])
    BY <2>2, <2>3, FillingForetells
  <2> QED
    BY <2>1, <2>4
<1> QED
  BY <1>1, <1>2 DEF KillInv

LEMMA AllocFirstForetold ==
  ASSUME DiskInv, DiskInv', KillInv, NEW who, NEW pos, ChainsAre(who, pos), AllocFirst
  PROVE  KillInv'
<1>1. /\ pc = "firstBlock" /\ UNCHANGED <<header, data, deletion>>
      /\ Beginning /\ ~Deleting' /\ Live' = table'
  BY DEF AllocFirst, Beginning, Deleting, Live
<1>2. Touched # 0
  BY <1>1 DEF ChainsAre, AtPlace
<1>3. PICK i \in DOMAIN table : i = Touched
  BY <1>2, TouchedFound
<1>4. PICK b \in Blocks : op'.cur = b
  <2>1. PICK b \in Blocks : op' = [op EXCEPT !.cur = b]
    BY DEF AllocFirst
  <2> QED
    BY <2>1 DEF DiskInv, TypeInv, TypeOK, Operations
<1>5. /\ DOMAIN table' = DOMAIN table /\ Touched' = i
      /\ table'[i].orig = table[i].orig /\ table'[i].name = table[i].name
      /\ \A j \in DOMAIN table : j # i => table'[j] = table[j]
  BY <1>3, <1>4, InodeFilled
<1> QED
  BY <1>1, <1>3, <1>5, FillingForetold

LEMMA LinkForetold ==
  ASSUME DiskInv, DiskInv', KillInv, NEW who, NEW pos, ChainsAre(who, pos), Link
  PROVE  KillInv'
<1>1. /\ pc = "link" /\ UNCHANGED <<header, data, deletion>>
      /\ Beginning /\ ~Deleting' /\ Filling /\ Live' = table'
  BY DEF Link, history, Beginning, Deleting, Filling, Live
<1>2. Touched # 0
  BY <1>1 DEF ChainsAre, AtPlace
<1>3. PICK i \in DOMAIN table : i = Touched
  BY <1>2, TouchedFound
<1>4. /\ DOMAIN table' = DOMAIN table /\ Touched' = i
      /\ table'[i].orig = table[i].orig /\ table'[i].name = table[i].name
      /\ \A j \in DOMAIN table : j # i => table'[j] = table[j]
  BY <1>3, InodeCounted
<1> QED
  BY <1>1, <1>3, <1>4, FillingForetold

\* A block of a chain is not that of an inode.
LEMMA OwnedIsNoInode ==
  ASSUME NEW who, NEW pos, ChainsAre(who, pos), NEW b \in Blocks, who[b] # 0
  PROVE  \A i \in DOMAIN Live : Live[i].orig # b
BY DEF ChainsAre, Owned

\* wr_file and rm_file write over a block of the figure they change.
LEMMA OverwritingForetold ==
  ASSUME DiskInv, KillInv, NEW who, NEW pos, ChainsAre(who, pos), Running, Running',
         UNCHANGED <<header, table, deletion>>, op.cur \in Blocks, who[op.cur] # 0,
         \A c \in Blocks : c # op.cur => data'[c] = data[c],
         data'[op.cur].kind # "inode",
         Beginning' => Beginning /\ op'.name = op.name /\ Touched \in DOMAIN table,
         Deleting' => Deleting
  PROVE  KillInv'
<1>1. Live = table /\ Live' = table
  BY DEF Running, Live
<1>2. Shaped(table, Len(table), data)
  BY TableShaped
<1>3. \A i \in DOMAIN table : table[i].orig \in Blocks /\ table[i].orig # op.cur
  BY <1>1, <1>2, OwnedIsNoInode DEF Shaped
<1>4. op'.name = op.name => Touched' = Touched
  BY DEF Touched, IndexOf
<1>5. ASSUME deletion # "torn"
      PROVE  /\ Foretells(table, header, data', deletion # "none")
             /\ \A i \in DOMAIN table : Blank(data, table[i]) => Blank(data', table[i])
  <2>1. PICK t, d, e, b, del : /\ t = table /\ d = data /\ e = data' /\ b = op.cur
                               /\ del = (deletion # "none")
    OBVIOUS
  <2>2. Foretells(t, header, d, del)
    BY <1>1, <1>5, <2>1 DEF KillInv
  <2>3. /\ \A c \in Blocks : c # b => e[c] = d[c]
        /\ e[b].kind # "inode"
        /\ \A i \in DOMAIN t : t[i].orig \in Blocks /\ t[i].orig # b
    BY <1>3, <2>1
  <2>4. /\ Foretells(t, header, e, del)
        /\ \A i \in DOMAIN t : Blank(d, t[i]) => Blank(e, t[i])
    BY <2>2, <2>3, OverwritingForetells
  <2> QED
    BY <2>1, <2>4
<1>6. ASSUME deletion' # "torn"
      PROVE  /\ Foretells(Live', header', data', deletion' # "none")
             /\ Beginning' => Blank(data', table'[Touched'])
             /\ Deleting' => deletion' # "none"
  <2>1. deletion # "torn"
    BY <1>6
  <2>2. Beginning' => Blank(data', table'[Touched'])
    BY <1>4, <1>5, <2>1 DEF KillInv
  <2> QED
    BY <1>1, <1>5, <2>1, <2>2 DEF KillInv
<1> QED
  BY <1>6 DEF KillInv

LEMMA WriteDataForetold ==
  ASSUME DiskInv, DiskInv', KillInv, NEW who \in [Blocks -> BlockOrNone],
         NEW pos \in [Blocks -> Nat], ChainsAre(who, pos), WriteData
  PROVE  KillInv'
<1>1. /\ pc = "dataWrite" /\ pc' \in {"link", "nextBlock"}
      /\ UNCHANGED <<header, table, deletion>> /\ Running /\ Beginning /\ Filling
      /\ ~Deleting' /\ Running'
  BY DEF WriteData, history, memory, Running, Beginning, Filling, Deleting
<1>2. /\ Live = table /\ Touched \in DOMAIN table
      /\ op.cur \in Blocks /\ who[op.cur] = table[Touched].orig
  BY <1>1, FillingAt
<1>3. who[op.cur] # 0
  BY <1>2, OrigsDiffer
<1>4. PICK s : data' = [data EXCEPT ![op.cur] = Text(s)]
  BY DEF WriteData
<1>5. /\ data'[op.cur].kind # "inode"
      /\ \A c \in Blocks : c # op.cur => data'[c] = data[c]
  BY <1>2, <1>4 DEF Text, DiskInv, TypeInv, TypeOK
<1>6. op'.name = op.name
  BY DEF WriteData, DiskInv, TypeInv, TypeOK, Operations
<1> QED
  BY <1>1, <1>2, <1>3, <1>5, <1>6, OverwritingForetold

LEMMA ClearDataForetold ==
  ASSUME DiskInv, DiskInv', KillInv, NEW who, NEW pos, ChainsAre(who, pos), ClearData
  PROVE  KillInv'
<1>1. /\ pc = "clearData" /\ ClearBlock(op.cur) /\ UNCHANGED <<table, deletion>>
      /\ Running /\ Running' /\ Deleting /\ ~Beginning' /\ Live = table
  BY DEF ClearData, Running, Deleting, Beginning, Live
<1>2. Touched \in DOMAIN table
  BY <1>1, TouchedFound DEF DiskInv, TypeInv, Cursors, Touched
<1>3. op.cur \in Blocks /\ who[op.cur] = table[Touched].orig
  BY <1>1 DEF ChainsAre, AtPlace
<1>4. who[op.cur] # 0
  BY <1>1, <1>2, <1>3, OrigsDiffer
<1>5. op.cur # 0
  BY <1>3, BlockTyped
<1>6. /\ header' = header /\ data'[op.cur].kind # "inode"
      /\ \A c \in Blocks : c # op.cur => data'[c] = data[c]
  BY <1>1, <1>3, <1>5 DEF ClearBlock, Zero
<1> QED
  BY <1>1, <1>3, <1>4, <1>6, OverwritingForetold

\* Where the inodes of the table without the i-th come from.
LEMMA InodeGone ==
  ASSUME DiskInv, DiskInv', ClearInode, NEW i \in DOMAIN table, i = Touched,
         NEW n, n = Len(table)
  PROVE  /\ DOMAIN table' = 1..(n - 1) /\ Picks(Pick(i), i, n)
         /\ \A j \in 1..(n - 1) : Alike(table[Pick(i)[j]], table'[j])
         /\ header' = header /\ table[i].orig \in Blocks
         /\ \A b \in Blocks : data'[b] = IF b = table[i].orig THEN Zero ELSE data[b]
<1>1. /\ pc = "clearInode" /\ Live = table /\ Running
      /\ ClearBlock(table[i].orig) /\ table' = Unlinked(i)
  BY DEF ClearInode, Live, Running, Touched
<1>2. Shaped(table, n, data)
  BY <1>1, TableShaped
<1>3. PICK m : m = n - 1
  OBVIOUS
<1>4. table \in Seq(Inodes) /\ Chained(table)
  BY <1>1 DEF DiskInv, TypeInv, TypeOK, Linked
<1>5. /\ DOMAIN Unlinked(i) = 1..m
      /\ \A j \in 1..m : /\ Unlinked(i)[j].orig = table[Pick(i)[j]].orig
                         /\ Unlinked(i)[j].start = table[Pick(i)[j]].start
                         /\ Unlinked(i)[j].count = table[Pick(i)[j]].count
                         /\ Unlinked(i)[j].size = table[Pick(i)[j]].size
                         /\ Unlinked(i)[j].name = table[Pick(i)[j]].name
  BY <1>3, <1>4, UnlinkedKeeps
<1>6. \A j \in 1..m : Alike(table[Pick(i)[j]], Unlinked(i)[j])
  BY <1>5 DEF Alike
<1>7. Picks(Pick(i), i, n)
  BY DEF Picks, Pick
<1>8. table[i].orig \in Blocks /\ table[i].orig # 0
  BY <1>2 DEF Shaped
<1>9. /\ header' = header
      /\ \A b \in Blocks : data'[b] = IF b = table[i].orig THEN Zero ELSE data[b]
  BY <1>1, <1>8 DEF ClearBlock
<1> QED
  BY <1>1, <1>3, <1>5, <1>6, <1>7, <1>8, <1>9

LEMMA ClearInodeForetold ==
  ASSUME DiskInv, DiskInv', KillInv, ClearInode
  PROVE  KillInv'
<1>1. /\ pc = "clearInode" /\ pc' = "idle" /\ Running /\ Deleting /\ Live = table
      /\ deletion' = deletion /\ ~Beginning' /\ ~Deleting' /\ Live' = table'
  BY DEF ClearInode, Running, Deleting, Beginning, Live
<1>2. PICK i \in DOMAIN table : i = Touched
  BY <1>1, TouchedFound DEF DiskInv, TypeInv, Cursors, Touched
<1>3. PICK n : n = Len(table)
  OBVIOUS
<1>4. Shaped(table, n, data)
  BY <1>1, <1>3, TableShaped
<1>5. /\ DOMAIN table' = 1..(n - 1) /\ Picks(Pick(i), i, n)
      /\ \A j \in 1..(n - 1) : Alike(table[Pick(i)[j]], table'[j])
      /\ header' = header /\ table[i].orig \in Blocks
      /\ \A b \in Blocks : data'[b] = IF b = table[i].orig THEN Zero ELSE data[b]
  BY <1>2, <1>3, InodeGone
<1>6. \A j \in 1..(n - 1) : table'[j] \in Inodes
  BY <1>5, ElementOfSeq, LenProperties DEF DiskInv, TypeInv, TypeOK
<1>7. ASSUME deletion # "torn"
      PROVE  Foretells(table', header', data', TRUE) /\ deletion # "none"
  <2>1. PICK t, u, d, e, pick : /\ t = table /\ u = table' /\ d = data /\ e = data'
                                /\ pick = Pick(i)
    OBVIOUS
  <2>2. Foretells(t, header, d, TRUE) /\ deletion # "none"
    <3>1. Foretells(t, header, d, deletion # "none") /\ deletion # "none"
      BY <1>1, <1>7, <2>1 DEF KillInv
    <3> QED
      BY <3>1, KeepingForetells
  <2>3. /\ n \in Nat /\ i \in 1..n /\ DOMAIN t = 1..n /\ DOMAIN u = 1..(n - 1)
        /\ \A j \in 1..n : /\ t[j] \in Inodes /\ t[j].orig \in Blocks
                           /\ d[t[j].orig] \in Payloads
        /\ \A j, k \in 1..n : t[j].orig = t[k].orig => j = k
    BY <1>4, <1>5, <2>1 DEF Shaped
  <2>4. /\ Picks(pick, i, n)
        /\ \A j \in 1..(n - 1) : u[j] \in Inodes /\ Alike(t[pick[j]], u[j])
        /\ e[t[i].orig] = Zero /\ \A c \in Blocks : c # t[i].orig => e[c] = d[c]
    BY <1>5, <1>6, <2>1
  <2>5. Foretells(u, header, e, TRUE)
    <3>1. InodeCleared(t, d, n, i, pick, u, e)
      BY <2>3, <2>4 DEF InodeCleared
    <3> QED
      BY <2>2, <3>1, DroppingForetells
  <2> QED
    BY <1>5, <2>1, <2>2, <2>5
<1>8. ASSUME deletion' # "torn"
      PROVE  Foretells(Live, header, data, deletion # "none")'
  <2>1. Foretells(table', header', data', TRUE) /\ deletion' # "none"
    BY <1>1, <1>7, <1>8
  <2>2. Foretells(table', header', data', deletion' # "none")
    BY <2>1, KeepingForetells
  <2> QED
    BY <1>1, <2>2
<1> QED
  BY <1>1, <1>8 DEF KillInv

LEMMA SaveHeaderForetold ==
  ASSUME RestartInv, RestartInv', KillInv, SaveHeader
  PROVE  KillInv'
<1> DiskInv /\ DiskInv'
  BY DEF RestartInv
<1>1. pc = "saveHeader" /\ Running /\ UNCHANGED data /\ Live = table
  BY DEF SaveHeader, Running, Live
<1>2. CASE table = <<>>
  <2>1. pc' = "closed"
    BY <1>2 DEF SaveHeader, Saved
  <2> QED
    BY <2>1, ClosedForetold DEF Save
<1>3. CASE table # <<>>
  <2>1. UNCHANGED <<table, deletion>> /\ pc' = "saveInode"
    BY <1>3 DEF SaveHeader, memory
  <2>2. Shaped(table, Len(table), data)
    BY <1>1, TableShaped
  <2>3. 1 \in DOMAIN table
    BY <1>1, <1>3, <2>2, LiveTyped DEF Shaped, DiskInv
  <2>4. /\ header'.first = table[1].orig /\ header'.init # 0
        /\ header'.count = sb.count
    BY <1>3 DEF SaveHeader, InitBlocks
  <2>5. sb.count > 0
    BY <1>1, <1>3 DEF RestartInv, OnDiskAsSaved
  <2>6. ASSUME deletion # "torn" PROVE Foretells(table, header', data, deletion # "none")
    <3>1. Foretells(table, header, data, deletion # "none")
      BY <1>1, <2>6 DEF KillInv
    <3> QED
      BY <2>3, <2>4, <2>5, <3>1 DEF Foretells, LeadsTo
  <2>7. ~Beginning' /\ ~Deleting' /\ Live' = table
    BY <2>1 DEF Beginning, Deleting, Live
  <2> QED
    BY <1>1, <2>1, <2>6, <2>7 DEF KillInv
<1> QED
  BY <1>2, <1>3

LEMMA SaveInodeForetold ==
  ASSUME RestartInv, RestartInv', KillInv, SaveInode
  PROVE  KillInv'
<1> DiskInv /\ DiskInv'
  BY DEF RestartInv
<1>1. pc = "saveInode" /\ Running /\ Live = table
  BY DEF SaveInode, Running, Live
<1>2. CASE op.left = Len(table)
  <2>1. pc' = "closed"
    BY <1>2 DEF SaveInode, Saved
  <2> QED
    BY <2>1, ClosedForetold DEF Save
<1>3. CASE op.left # Len(table)
  <2>1. UNCHANGED <<table, deletion>> /\ pc' = "saveInode"
    BY <1>1, <1>3 DEF SaveInode, memory
  <2>2. PICK n, L : n = Len(table) /\ L = op.left
    OBVIOUS
  <2>3. Shaped(table, n, data)
    BY <1>1, <2>2, TableShaped
  <2>4. L \in 1..n
    BY <1>1, <2>2 DEF DiskInv, TypeInv, Cursors
  <2>5. table[L].orig # 0 /\ table[L].orig \in Blocks
    BY <2>3, <2>4 DEF Shaped
  <2>6. header' = header /\ data' = [data EXCEPT ![table[L].orig] = table[L]]
    BY <2>2, <2>5 DEF SaveInode
  <2>7. /\ data'[table[L].orig] = table[L]
        /\ \A c \in Blocks : c # table[L].orig => data'[c] = data[c]
    BY <2>5, <2>6 DEF DiskInv, TypeInv, TypeOK
  <2>8. \A i \in 1..n : table[i].next = IF i = n THEN 0 ELSE table[i + 1].orig
    BY <1>1, <2>2, <2>3 DEF DiskInv, Linked, Chained, Shaped
  <2>9. Completed(table, header, data, L)
    <3>1. table # <<>>
      BY <1>1, <2>2, <2>3, <2>4, LiveTyped DEF Shaped, DiskInv
    <3> QED
      BY <1>1, <2>2, <3>1 DEF RestartInv, OnDiskAsSaved, HeaderLeadsTo, Completed
  <2>10. ASSUME deletion # "torn" PROVE Foretells(table, header, data', deletion # "none")
    <3>1. PICK t, d, e, del : /\ t = table /\ d = data /\ e = data'
                              /\ del = (deletion # "none")
      OBVIOUS
    <3>2. Foretells(t, header, d, del)
      BY <1>1, <2>10, <3>1 DEF KillInv
    <3>3. /\ n \in Nat /\ DOMAIN t = 1..n
          /\ \A i \in 1..n : t[i] \in Inodes /\ t[i].orig \in Blocks
          /\ \A i \in 1..n : t[i].next = IF i = n THEN 0 ELSE t[i + 1].orig
          /\ \A j, k \in 1..n : t[j].orig = t[k].orig => j = k
      BY <2>3, <2>8, <3>1 DEF Shaped
    <3>4. /\ Completed(t, header, d, L)
          /\ e[t[L].orig] = t[L] /\ \A c \in Blocks : c # t[L].orig => e[c] = d[c]
      BY <2>7, <2>9, <3>1
    <3>5. Foretells(t, header, e, del)
      BY <2>4, <3>2, <3>3, <3>4, CompletingForetells
    <3> QED
      BY <3>1, <3>5
  <2>11. ~Beginning' /\ ~Deleting' /\ Live' = table
    BY <2>1 DEF Beginning, Deleting, Live
  <2> QED
    BY <1>1, <2>1, <2>6, <2>10, <2>11 DEF KillInv
<1> QED
  BY <1>2, <1>3

\* All steps of a process but the kill.
LEMMA NextForetold ==
  ASSUME RestartInv, RestartInv', LoadLeads, KillInv, Chains, [Next]_vars
  PROVE  KillInv'
<1> DiskInv /\ DiskInv'
  BY DEF RestartInv
<1>1. PICK who \in [Blocks -> BlockOrNone], pos \in [Blocks -> Nat] : ChainsAre(who, pos)
  BY DEF Chains
<1>2. CASE Load
  BY <1>2, LoadForetold
<1>3. CASE \/ ExtendDisk \/ Close \/ AllocInode \/ AllocNext \/ UNCHANGED vars
           \/ \E n \in Names, t \in Texts : MakeFile(n, t)
  BY <1>3, QuietForetold
<1>4. CASE WriteInode \/ AllocFirst \/ WriteData \/ Link
  BY <1>1, <1>4, WriteInodeForetold, AllocFirstForetold, WriteDataForetold, LinkForetold
<1>5. CASE Delete \/ \E n \in Names : DeleteFile(n)
  BY <1>1, <1>5, ClearDataForetold, ClearInodeForetold, DeleteFileForetold DEF Delete
<1>6. CASE SaveHeader \/ SaveInode
  BY <1>6, SaveHeaderForetold, SaveInodeForetold
<1> QED
  BY <1>2, <1>3, <1>4, <1>5, <1>6 DEF Next, Make, Save

-----------------------------------------------------------------------------
(* What the constructor would find after a kill.                           *)

\* The number that is read where the i-th inode of table t is looked for, on a
\* disk with header h and inodes d.
Pointer(t, h, d, i) == IF i = 1 THEN h.first ELSE d[t[i - 1].orig].next

\* The disk leads to the first i inodes of table t.
Reach(t, h, d, i) == \A j \in 1..i : Pointer(t, h, d, j) = t[j].orig

\* s is what the disk leads to behind the first k inodes of a table of length
\* n: the inodes up to the m-th and perhaps, after a deletion, an empty one.
Reads(t, n, h, d, del, s, k, m) ==
  /\ s \in Seq(Inodes)
  /\ Len(s) = m - k \/ Len(s) = m - k + 1
  /\ \A i \in 1..(m - k) : s[i] = d[t[k + i].orig]
  /\ Reach(t, h, d, m)
  /\ m < n => ~Reach(t, h, d, m + 1)
  /\ Len(s) = m - k + 1 => del /\ s[Len(s)].size = 0

\* The disk leads to an inode through those before it.
LEMMA ReachLess ==
  ASSUME NEW t, NEW h, NEW d, NEW i \in Nat, NEW j \in Nat, j <= i, Reach(t, h, d, i)
  PROVE  Reach(t, h, d, j)
BY DEF Reach

LEMMA ReachMore ==
  ASSUME NEW t, NEW h, NEW d, NEW i \in Nat
  PROVE  Reach(t, h, d, i + 1) <=>
           Reach(t, h, d, i) /\ Pointer(t, h, d, i + 1) = t[i + 1].orig
BY DEF Reach

\* What is read behind the k-th inode.
LEMMA PointerTyped ==
  ASSUME NEW t, NEW n, NEW h, NEW d, NEW del, Shaped(t, n, d), Foretells(t, h, d, del),
         NEW k \in 0..n
  PROVE  LeadsTo(t, d, del, Pointer(t, h, d, k + 1), k + 1)
<1>1. CASE k = 0
  BY <1>1 DEF Foretells, Pointer
<1>2. CASE k # 0
  <2>1. k \in 1..n /\ (k + 1) - 1 = k /\ k + 1 # 1
    BY <1>2 DEF Shaped
  <2>2. LeadsTo(t, d, del, d[t[k].orig].next, k + 1)
    BY <2>1 DEF Foretells, Shaped
  <2> QED
    BY <2>1, <2>2 DEF Pointer
<1> QED
  BY <1>1, <1>2

\* The constructor stops at a block that is dead or no block.
LEMMA DeadStops ==
  ASSUME TypeInv, NEW f, NEW k \in 0..MaxBlock, NEW c,
         \A j \in 0..MaxBlock, b \in BlockOrNone :
           f[j][b] = Loaded(j, b, f[j + 1][InodeAt(b).next]),
         c = 0 \/ (c \in Blocks /\ Dead(data, c))
  PROVE  \/ f[k][c] = <<>>
         \/ c # 0 /\ \E x \in Inodes : x.size = 0 /\ f[k][c] = <<x>>
<1>0. MaxBlock \in Nat /\ c \in BlockOrNone
  BY GeometryAssumption, BlockTyped
<1>1. f[k][c] = Loaded(k, c, f[k + 1][InodeAt(c).next])
  BY <1>0
<1>2. CASE c = 0 \/ k = MaxBlock \/ data[c].kind = "text"
  BY <1>1, <1>2 DEF Loaded
<1>3. CASE c # 0 /\ k # MaxBlock /\ data[c].kind # "text"
  <2>1. c \in Blocks
    BY <1>3
  <2>2. PICK x \in Inodes : x = InodeAt(c)
    BY <1>3, <2>1, ReadInodeTyped
  <2>3. x.size = 0 /\ x.next = 0
    <3>1. CASE data[c].kind = "inode"
      <4>1. x = NewInode(data[c].name, c)
        BY <1>3, <2>2, <3>1 DEF InodeAt, Dead
      <4> QED
        BY <4>1 DEF NewInode, Inode
    <3>2. CASE data[c].kind # "inode"
      BY <2>2, <3>2 DEF InodeAt, NewInode, Inode
    <3> QED
      BY <3>1, <3>2
  <2>4. f[k + 1][0] = <<>>
    <3>1. k + 1 \in 0..MaxBlock /\ 0 \in BlockOrNone
      BY <1>0, <1>3, BlockTyped
    <3>2. f[k + 1][0] = Loaded(k + 1, 0, f[(k + 1) + 1][InodeAt(0).next])
      BY <3>1
    <3> QED
      BY <3>2 DEF Loaded
  <2>5. f[k][c] = <<x>> \o f[k + 1][0]
    BY <1>1, <1>3, <2>2, <2>3 DEF Loaded
  <2>6. <<x>> \in Seq(Inodes) /\ <<x>> \o <<>> = <<x>>
    BY EmptySeq, ConcatEmptySeq
  <2> QED
    BY <1>3, <2>3, <2>4, <2>5, <2>6
<1> QED
  BY <1>2, <1>3

\* The constructor stops behind the k-th inode.
LEMMA StopReads ==
  ASSUME NEW t, NEW n \in Nat, NEW h, NEW d, NEW del, NEW k \in 0..n, NEW s,
         Reach(t, h, d, k), k < n => Pointer(t, h, d, k + 1) # t[k + 1].orig,
         s = <<>> \/ (del /\ \E x \in Inodes : x.size = 0 /\ s = <<x>>)
  PROVE  Reads(t, n, h, d, del, s, k, k)
<1>1. s \in Seq(Inodes) /\ (Len(s) = 0 \/ (Len(s) = 1 /\ del /\ s[Len(s)].size = 0))
  <2>1. CASE s = <<>>
    BY <2>1, EmptySeq
  <2>2. CASE del /\ \E x \in Inodes : x.size = 0 /\ s = <<x>>
    <3>1. PICK x \in Inodes : x.size = 0 /\ s = <<x>>
      BY <2>2
    <3>2. s \in Seq(Inodes) /\ Len(s) = 1 /\ s[1] = x
      BY <3>1
    <3> QED
      BY <2>2, <3>1, <3>2
  <2> QED
    BY <2>1, <2>2
<1>2. k < n => ~Reach(t, h, d, k + 1)
  BY ReachMore
<1>3. k - k = 0 /\ k - k + 1 = 1 /\ \A i \in 1..(k - k) : FALSE
  OBVIOUS
<1>4. Len(s) = k - k \/ Len(s) = k - k + 1
  BY <1>1, <1>3
<1>5. Len(s) = k - k + 1 => del /\ s[Len(s)].size = 0
  BY <1>1, <1>3
<1> QED
  BY <1>1, <1>2, <1>3, <1>4, <1>5 DEF Reads

\* The constructor goes on to the inode behind the k-th.
LEMMA GoOnReads ==
  ASSUME NEW t, NEW n \in Nat, NEW h, NEW d, NEW del, NEW k \in 0..(n - 1), NEW s, NEW r,
         NEW m \in (k + 1)..n, Reads(t, n, h, d, del, r, k + 1, m),
         NEW x \in Inodes, x = d[t[k + 1].orig], s = <<x>> \o r
  PROVE  Reads(t, n, h, d, del, s, k, m)
<1>1. r \in Seq(Inodes) /\ <<x>> \in Seq(Inodes) /\ Len(<<x>>) = 1
  BY DEF Reads
<1>2. s \in Seq(Inodes) /\ Len(s) = 1 + Len(r) /\ Len(r) \in Nat
  BY <1>1, LenProperties, ConcatProperties
<1>3. s[1] = x /\ \A i \in 1..Len(r) : s[i + 1] = r[i]
  BY <1>1, <1>2
<1>0. /\ k \in Int /\ m \in Int
      /\ Len(r) = m - (k + 1) \/ Len(r) = m - (k + 1) + 1
  BY DEF Reads
<1>4. Len(s) = m - k \/ Len(s) = m - k + 1
  <2>1. CASE Len(r) = m - (k + 1)
    BY <1>0, <1>2, <2>1
  <2>2. CASE Len(r) = m - (k + 1) + 1
    BY <1>0, <1>2, <2>2
  <2> QED
    BY <1>0, <2>1, <2>2
<1>5. ASSUME NEW i \in 1..(m - k) PROVE s[i] = d[t[k + i].orig]
  <2>1. CASE i = 1
    BY <1>3, <2>1
  <2>2. CASE i # 1
    <3>1. PICK j \in 1..(m - (k + 1)) : i = j + 1
      <4>1. i - 1 \in 1..(m - (k + 1)) /\ i = (i - 1) + 1
        BY <2>2
      <4> QED
        BY <4>1
    <3>2. j \in 1..Len(r)
      BY <1>0, <1>2
    <3>3. r[j] = d[t[(k + 1) + j].orig] /\ (k + 1) + j = k + i
      BY <3>1 DEF Reads
    <3> QED
      BY <1>3, <3>1, <3>2, <3>3
  <2> QED
    BY <2>1, <2>2
<1>6. Len(s) = m - k + 1 => del /\ s[Len(s)].size = 0
  <2>1. SUFFICES ASSUME Len(s) = m - k + 1 PROVE del /\ s[Len(s)].size = 0
    OBVIOUS
  <2>2. Len(r) = m - (k + 1) + 1 /\ Len(r) \in 1..Len(r) /\ Len(s) = Len(r) + 1
    BY <1>0, <1>2, <2>1
  <2>3. del /\ r[Len(r)].size = 0
    BY <2>2 DEF Reads
  <2> QED
    BY <1>3, <2>2, <2>3
<1> QED
  BY <1>2, <1>4, <1>5, <1>6 DEF Reads

\* What the constructor would load now, should the process be killed: the first
\* m inodes of the table as the disk has them, and perhaps an empty one.
LEMMA DiskTableForetold ==
  ASSUME DiskInv, KillInv, deletion # "torn", NEW n, n = Len(Live)
  PROVE  \E m \in 0..n :
           Reads(Live, n, header, data, deletion # "none", DiskTable, 0, m)
<1>1. PICK t, h, d, del : t = Live /\ h = header /\ d = data /\ del = (deletion # "none")
  OBVIOUS
<1>2. Shaped(t, n, d) /\ Foretells(t, h, d, del) /\ n \in Nat
  BY <1>1, LiveShaped DEF KillInv, Shaped
<1>3. n <= MaxBlock /\ MaxBlock \in Nat
  <2>1. DOMAIN Live = 1..n
    BY <1>1, <1>2 DEF Shaped
  <2> QED
    BY <1>2, <2>1, InodesFit, GeometryAssumption
<1>4. PICK f : /\ \A k \in 0..MaxBlock, b \in BlockOrNone :
                    f[k][b] = Loaded(k, b, f[k + 1][InodeAt(b).next])
               /\ DiskTable = IF header.init # 0 /\ header.count > 0 THEN f[0][header.first]
                              ELSE <<>>
  BY DiskTableIs DEF DiskInv
<1> DEFINE Good(k) == Reach(t, h, d, k) =>
                        \E m \in k..n : Reads(t, n, h, d, del, f[k][Pointer(t, h, d, k + 1)], k, m)
           T == {k \in 0..n : Good(k)}
\* The chain ends behind the k-th inode.
<1>5. ASSUME NEW k \in 0..n, Reach(t, h, d, k),
             k < n => Pointer(t, h, d, k + 1) # t[k + 1].orig
      PROVE  Reads(t, n, h, d, del, f[k][Pointer(t, h, d, k + 1)], k, k)
  <2>1. PICK c : c = Pointer(t, h, d, k + 1)
    OBVIOUS
  <2>2. LeadsTo(t, d, del, c, k + 1)
    BY <1>2, <2>1, PointerTyped
  <2>3. c = 0 \/ (del /\ c \in Blocks /\ Dead(d, c))
    <3>1. k + 1 \in DOMAIN t => k < n
      BY <1>2 DEF Shaped
    <3> QED
      BY <1>5, <2>1, <2>2, <3>1 DEF LeadsTo
  <2>4. k \in 0..MaxBlock
    BY <1>2, <1>3
  <2>5. \/ f[k][c] = <<>>
        \/ c # 0 /\ \E x \in Inodes : x.size = 0 /\ f[k][c] = <<x>>
    BY <1>1, <1>4, <2>3, <2>4, DeadStops DEF DiskInv
  <2>6. PICK s : s = f[k][c]
    OBVIOUS
  <2>7. s = <<>> \/ (del /\ \E x \in Inodes : x.size = 0 /\ s = <<x>>)
    BY <2>3, <2>5, <2>6
  <2>8. Reads(t, n, h, d, del, s, k, k)
    BY <1>2, <1>5, <2>1, <2>7, StopReads
  <2> QED
    BY <2>1, <2>6, <2>8
<1>6. n \in T
  <2>1. n \in 0..n /\ n \in n..n
    BY <1>2
  <2>2. Good(n)
    BY <1>5, <2>1
  <2> HIDE DEF Good
  <2> QED
    BY <2>1, <2>2
<1>7. ASSUME NEW k \in 0..(n - 1), k + 1 \in T PROVE k \in T
  <2>0. k \in 0..n /\ k + 1 \in 1..n /\ k \in Nat /\ k < n /\ k \in k..n
    BY <1>2
  <2>1. CASE Reach(t, h, d, k) /\ Pointer(t, h, d, k + 1) # t[k + 1].orig
    BY <1>5, <2>0, <2>1
  <2>2. CASE Reach(t, h, d, k) /\ Pointer(t, h, d, k + 1) = t[k + 1].orig
    <3>1. Reach(t, h, d, k + 1)
      BY <2>0, <2>2, ReachMore
    <3>2. PICK m \in (k + 1)..n :
            Reads(t, n, h, d, del, f[k + 1][Pointer(t, h, d, (k + 1) + 1)], k + 1, m)
      BY <1>7, <3>1
    <3>3. PICK c \in Blocks : c = t[k + 1].orig /\ c # 0
      BY <1>2, <2>0 DEF Shaped
    <3>4. PICK v \in Inodes : v = t[k + 1]
      BY <1>2, <2>0 DEF Shaped
    <3>5. PICK x \in Payloads : x = d[c]
      BY <1>2, <2>0, <3>3 DEF Shaped
    <3>6. x \in Inodes /\ x.kind = "inode"
      <4>1. Intact(d, v) \/ Blank(d, v)
        BY <1>2, <2>0, <3>4 DEF Foretells, Shaped
      <4>2. d[v.orig] = x
        BY <3>3, <3>4, <3>5
      <4> QED
        BY <4>1, <4>2, OnDiskTyped
    <3>7. Pointer(t, h, d, (k + 1) + 1) = x.next
      <4>1. (k + 1) + 1 # 1 /\ ((k + 1) + 1) - 1 = k + 1
        BY <2>0
      <4> QED
        BY <3>3, <3>5, <4>1 DEF Pointer
    <3>8. f[k][c] = <<x>> \o f[k + 1][x.next]
      <4>1. k \in 0..MaxBlock /\ k # MaxBlock /\ c \in BlockOrNone
        BY <1>3, <2>0, BlockTyped
      <4>2. f[k][c] = Loaded(k, c, f[k + 1][InodeAt(c).next])
        BY <1>4, <4>1
      <4>3. InodeAt(c) = x /\ data[c].kind # "text"
        BY <1>1, <3>5, <3>6 DEF InodeAt
      <4> QED
        BY <3>3, <4>1, <4>2, <4>3 DEF Loaded
    <3>9. PICK r, s : r = f[k + 1][x.next] /\ s = f[k][c]
      OBVIOUS
    <3>10. Reads(t, n, h, d, del, r, k + 1, m) /\ s = <<x>> \o r /\ x = d[t[k + 1].orig]
      BY <3>2, <3>3, <3>5, <3>7, <3>8, <3>9
    <3>11. Reads(t, n, h, d, del, s, k, m)
      BY <1>2, <3>6, <3>10, GoOnReads
    <3>12. Reads(t, n, h, d, del, f[k][Pointer(t, h, d, k + 1)], k, m) /\ m \in k..n
      BY <2>0, <2>2, <3>3, <3>9, <3>11
    <3> QED
      BY <2>0, <3>12
  <2>3. CASE ~Reach(t, h, d, k)
    BY <2>0, <2>3
  <2> QED
    BY <2>1, <2>2, <2>3
<1>8. 0 \in T
  <2> HIDE DEF T
  <2> QED
    BY <1>2, <1>6, <1>7, Descent
<1>9. Reach(t, h, d, 0) /\ Pointer(t, h, d, 0 + 1) = h.first
  BY DEF Reach, Pointer
<1>10. PICK m \in 0..n : Reads(t, n, h, d, del, f[0][h.first], 0, m)
  BY <1>8, <1>9
<1>11. DiskTable = f[0][h.first]
  <2>1. CASE h.first # 0
    BY <1>1, <1>2, <1>4, <2>1 DEF Foretells
  <2>2. CASE h.first = 0
    <3>1. f[0][0] = Loaded(0, 0, f[0 + 1][InodeAt(0).next])
      BY <1>3, <1>4, BlockTyped
    <3>2. f[0][0] = <<>>
      BY <3>1 DEF Loaded
    <3> QED
      BY <1>1, <1>4, <2>2, <3>2
  <2> QED
    BY <2>1, <2>2
<1> QED
  BY <1>1, <1>10, <1>11

-----------------------------------------------------------------------------
(* A kill that tears no deletion.                                          *)

\* What a kill leaves of inode v: all of it but its link, or its name only.
Left(v, w) == /\ w.name = v.name /\ w.orig = v.orig
              /\ Alike(v, w) \/ (w.start = 0 /\ w.count = 0 /\ w.size = 0)

\* What the disk has of inode v is left of it.
LEMMA OnDiskLeft ==
  ASSUME NEW v \in Inodes, NEW d, d[v.orig] \in Inodes, Intact(d, v) \/ Blank(d, v)
  PROVE  /\ Left(v, d[v.orig])
         /\ Blank(d, v) => d[v.orig].count = 0
<1>1. PICK w \in Inodes : w = d[v.orig]
  OBVIOUS
<1>2. CASE Intact(d, v)
  <2>1. w = [v EXCEPT !.next = w.next]
    BY <1>1, <1>2 DEF Intact
  <2>2. Alike(v, w)
    BY <2>1 DEF Alike, Inodes
  <2>3. Blank(d, v) => w.count = 0
    BY <1>1 DEF Blank, NewInode, Inode
  <2> QED
    BY <1>1, <2>2, <2>3 DEF Left, Alike
<1>3. CASE Blank(d, v)
  BY <1>1, <1>3 DEF Blank, NewInode, Inode, Left
<1> QED
  BY <1>2, <1>3

\* s is what is left of table t: the first m of its inodes.
Salvaged(t, s, m) ==
  /\ s \in Seq(Inodes) /\ Len(s) = m /\ DOMAIN s = 1..m
  /\ \A i \in 1..m : i \in DOMAIN t /\ s[i] \in Inodes /\ Left(t[i], s[i])

\* The links on the disk end with the m-th inode of table t, and s has the
\* inodes up to there, as the disk has them or with their own contents.
Shrinks(t, s, h, d, m) ==
  /\ Salvaged(t, s, m) /\ Chained(s)
  /\ Pointer(t, h, d, m + 1) = 0
  /\ \A i \in 1..m : Alike(t[i], s[i]) \/ s[i] = d[t[i].orig]

\* The inodes of s are the first m of table t as disk d has them.
Copies(t, s, d, m) == \A i \in 1..m : s[i] = d[t[i].orig] /\ d[s[i].orig] = s[i]

\* Without a deletion, the constructor finds the first inodes of the table,
\* each linked to the next.
LEMMA SalvagedLinks ==
  ASSUME NEW t, NEW n, NEW h, NEW d, Shaped(t, n, d), Foretells(t, h, d, FALSE),
         NEW s, NEW m \in 0..n, Len(s) = m, Reads(t, n, h, d, FALSE, s, 0, m)
  PROVE  Shrinks(t, s, h, d, m) /\ Copies(t, s, d, m)
<1>1. n \in Nat /\ DOMAIN t = 1..n /\ m \in Nat
  BY DEF Shaped
<1>2. s \in Seq(Inodes) /\ DOMAIN s = 1..m /\ \A i \in 1..m : s[i] \in Inodes
  BY LenProperties, ElementOfSeq DEF Reads
<1>0. Pointer(t, h, d, m + 1) = 0
  <2>1. LeadsTo(t, d, FALSE, Pointer(t, h, d, m + 1), m + 1)
    BY PointerTyped
  <2>2. SUFFICES ASSUME m + 1 \in DOMAIN t PROVE Pointer(t, h, d, m + 1) # t[m + 1].orig
    BY <2>1 DEF LeadsTo
  <2>3. m < n
    BY <1>1, <2>2
  <2>4. Reach(t, h, d, m) /\ ~Reach(t, h, d, m + 1)
    BY <2>3 DEF Reads
  <2> QED
    BY <1>1, <2>4, ReachMore
<1>3. ASSUME NEW i \in 1..m
      PROVE  /\ i \in 1..n /\ s[i] = d[t[i].orig] /\ Left(t[i], s[i]) /\ d[s[i].orig] = s[i]
             /\ s[i].next = IF i = m THEN 0 ELSE t[i + 1].orig
  <2>1. i \in 1..n /\ m - 0 = m /\ 0 + i = i /\ i \in 1..(m - 0)
    BY <1>1
  <2>2. s[i] = d[t[i].orig]
    BY <1>3, <2>1 DEF Reads
  <2>3. Left(t[i], s[i])
    <3>1. t[i] \in Inodes /\ d[t[i].orig] \in Inodes
      BY <1>2, <2>1, <2>2 DEF Shaped
    <3>2. Intact(d, t[i]) \/ Blank(d, t[i])
      BY <1>1, <2>1 DEF Foretells
    <3> QED
      BY <2>2, <3>1, <3>2, OnDiskLeft
  <2>4. d[s[i].orig] = s[i]
    BY <2>2, <2>3 DEF Left
  <2>5. Pointer(t, h, d, i + 1) = s[i].next
    <3>1. i + 1 # 1 /\ (i + 1) - 1 = i
      BY <1>1
    <3> QED
      BY <2>2, <3>1 DEF Pointer
  <2>6. CASE i # m
    <3>1. i \in Nat /\ i + 1 <= m /\ i + 1 \in Nat
      BY <1>1, <2>6
    <3>2. Reach(t, h, d, m)
      BY DEF Reads
    <3>3. Reach(t, h, d, i + 1)
      BY <1>1, <3>1, <3>2, ReachLess
    <3> QED
      BY <2>1, <2>2, <2>3, <2>4, <2>5, <2>6, <3>1, <3>3, ReachMore
  <2>7. CASE i = m
    BY <1>0, <2>1, <2>2, <2>3, <2>4, <2>5, <2>7
  <2> QED
    BY <2>6, <2>7
<1>4. Salvaged(t, s, m)
  BY <1>1, <1>2, <1>3 DEF Salvaged
<1>5. \A i \in 1..m : s[i].next = IF i = m THEN 0 ELSE s[i + 1].orig
  <2> SUFFICES ASSUME NEW i \in 1..m PROVE s[i].next = IF i = m THEN 0 ELSE s[i + 1].orig
    OBVIOUS
  <2>1. CASE i = m
    BY <1>3, <2>1
  <2>2. CASE i # m
    <3>1. i + 1 \in 1..m
      BY <1>1, <2>2
    <3>2. s[i + 1].orig = t[i + 1].orig
      BY <1>3, <3>1 DEF Left
    <3> QED
      BY <1>3, <2>2, <3>2
  <2> QED
    BY <2>1, <2>2
<1>6. Chained(s)
  BY <1>2, <1>4, <1>5 DEF Chained, Salvaged
<1> QED
  BY <1>0, <1>3, <1>4, <1>6 DEF Shrinks, Copies

\* The header leads to what is left.
LEMMA ShrunkLeads ==
  ASSUME NEW t, NEW n, NEW d, Shaped(t, n, d), Foretells(t, header, d, FALSE),
         NEW s \in Seq(Inodes), NEW m \in 0..n, Shrinks(t, s, header, d, m),
         Reach(t, header, d, m)
  PROVE  HeaderLeadsTo(s)
<1>1. n \in Nat /\ DOMAIN t = 1..n /\ Len(s) = m
  BY DEF Shaped, Shrinks, Salvaged
<1>2. CASE m = 0
  BY <1>1, <1>2, EmptySeq DEF HeaderLeadsTo, Shrinks, Pointer
<1>3. CASE m # 0
  <2>1. s # <<>> /\ 1 \in 1..m
    BY <1>1, <1>3, EmptySeq
  <2>2. header.first = t[1].orig
    BY <2>1 DEF Reach, Pointer
  <2>3. s[1].orig = t[1].orig /\ t[1].orig # 0
    BY <1>1, <2>1 DEF Shrinks, Salvaged, Left, Shaped
  <2> QED
    BY <2>1, <2>2, <2>3 DEF HeaderLeadsTo, Foretells
<1> QED
  BY <1>2, <1>3

\* The disk leads to no figure that is not left, and what it has of the others
\* is what is left of them.
LEMMA ShrinkingForetells ==
  ASSUME NEW t, NEW n, NEW h, NEW d, Shaped(t, n, d), Foretells(t, h, d, FALSE),
         NEW s, NEW m \in 0..n, Shrinks(t, s, h, d, m)
  PROVE  /\ Foretells(s, h, d, FALSE)
         /\ \A i \in 1..m : Intact(d, t[i]) => Alike(t[i], s[i]) /\ Intact(d, s[i])
<1>1. /\ n \in Nat /\ DOMAIN t = 1..n /\ DOMAIN s = 1..m /\ m \in Nat
      /\ \A i \in 1..m : i \in 1..n
  BY DEF Shaped, Shrinks, Salvaged
<1>2. ASSUME NEW i \in 1..m
      PROVE  /\ Intact(d, s[i]) \/ Blank(d, s[i])
             /\ Intact(d, t[i]) => Alike(t[i], s[i]) /\ Intact(d, s[i])
             /\ s[i].orig = t[i].orig
  <2>1. PICK v \in Inodes, w \in Inodes : v = t[i] /\ w = s[i] /\ Left(v, w)
    BY <1>1 DEF Shaped, Shrinks, Salvaged
  <2>2. PICK x \in Payloads : x = d[v.orig]
    BY <1>1, <2>1 DEF Shaped
  <2>3. Intact(d, v) \/ Blank(d, v)
    BY <1>1, <2>1 DEF Foretells
  <2>4. x \in Inodes
    BY <2>2, <2>3, OnDiskTyped
  <2>5. w.orig = v.orig
    BY <2>1 DEF Left
  <2>6. CASE Alike(v, w)
    <3>1. /\ Intact(d, v) => Intact(d, w)
          /\ Blank(d, v) => Blank(d, w)
      BY <2>2, <2>4, <2>6, AlikeOnDisk
    <3> QED
      BY <2>1, <2>3, <2>5, <2>6, <3>1
  <2>7. CASE w = x
    <3>1. [w EXCEPT !.next = w.next] = w
      BY DEF Inodes
    <3>2. Intact(d, w)
      BY <2>2, <2>5, <2>7, <3>1 DEF Intact
    <3>3. Intact(d, v) => Alike(v, w)
      <4>1. Intact(d, v) => w = [v EXCEPT !.next = w.next]
        BY <2>2, <2>7 DEF Intact
      <4> QED
        BY <4>1 DEF Alike, Inodes
    <3> QED
      BY <2>1, <2>5, <3>2, <3>3
  <2> QED
    BY <2>1, <2>2, <2>6, <2>7 DEF Shrinks
<1>3. ASSUME NEW k \in 0..m PROVE LeadsTo(s, d, FALSE, Pointer(t, h, d, k + 1), k + 1)
  <2>1. CASE k = m
    BY <2>1 DEF Shrinks, LeadsTo
  <2>2. CASE k # m
    <3>1. k + 1 \in 1..m /\ k \in 0..n /\ k + 1 \in DOMAIN s
      BY <1>1, <2>2
    <3>2. LeadsTo(t, d, FALSE, Pointer(t, h, d, k + 1), k + 1)
      BY <3>1, PointerTyped
    <3> QED
      BY <1>2, <3>1, <3>2 DEF LeadsTo
  <2> QED
    BY <2>1, <2>2
<1>4. LeadsTo(s, d, FALSE, h.first, 1)
  <2>1. 0 \in 0..m /\ 0 + 1 = 1
    BY <1>1
  <2> QED
    BY <1>3, <2>1 DEF Pointer
<1>5. ASSUME NEW i \in 1..m PROVE LeadsTo(s, d, FALSE, d[s[i].orig].next, i + 1)
  <2>1. i \in 0..m /\ i + 1 # 1 /\ (i + 1) - 1 = i
    BY <1>1
  <2>2. Pointer(t, h, d, i + 1) = d[t[i].orig].next
    BY <2>1 DEF Pointer
  <2> QED
    BY <1>2, <1>3, <2>1, <2>2
<1> QED
  BY <1>1, <1>2, <1>4, <1>5 DEF Foretells

\* The names of blocks in what is left are names of blocks in the table.
LEMMA SalvagedOnce ==
  ASSUME NEW t, NEW U, NEW nx, NamedOnce(t, U, nx, {}),
         NEW s, NEW m, Salvaged(t, s, m)
  PROVE  NamedOnce(s, U, nx, {})
<1>1. \A i \in DOMAIN s : /\ i \in DOMAIN t /\ s[i].orig = t[i].orig
                          /\ s[i].start = 0 \/ s[i].start = t[i].start
  BY DEF Salvaged, Left, Alike
<1> QED
  BY <1>1 DEF NamedOnce

\* What is left has the chain of every figure that it has the contents of; it
\* has not those of the figures C.
Spares(t, s, m, C, who, lo, hi, re, who2, lo2, re2) ==
  /\ Salvaged(t, s, m)
  /\ \A i, j \in DOMAIN t : t[i].orig = t[j].orig => i = j
  /\ \A i \in 1..m : t[i] \in Inodes
  /\ \A i \in 1..m : i \in C => s[i].count = 0 /\ s[i].size = 0
  /\ \A i \in 1..m : i \notin C => lo[i] = 1 /\ hi[i] = t[i].count /\ re[i] = t[i].count
  /\ \A i \in 1..m : lo2[i] = 1 /\ re2[i] = s[i].count
  /\ \A b \in Blocks :
       who2[b] = IF \E i \in 1..m : who[b] = s[i].orig /\ s[i].count # 0 THEN who[b] ELSE 0

\* The blocks whose owner is spared, one at a time.
LEMMA SparedBlock ==
  ASSUME NEW t, NEW s, NEW m, NEW C, NEW who, NEW lo, NEW hi, NEW re,
         NEW who2, NEW lo2, NEW re2,
         Spares(t, s, m, C, who, lo, hi, re, who2, lo2, re2),
         NEW b \in Blocks, NEW i \in 1..m
  PROVE  /\ who2[b] # 0 /\ who2[b] = s[i].orig =>
              /\ who[b] = t[i].orig /\ who[b] # 0 /\ s[i].count # 0 /\ i \notin C
         /\ s[i].count # 0 /\ who[b] = s[i].orig => who2[b] = who[b]
         /\ s[i].count # 0 => Alike(t[i], s[i]) /\ i \notin C
<1>1. i \in DOMAIN t /\ s[i].orig = t[i].orig
  BY DEF Spares, Salvaged, Left
<1>2. s[i].count # 0 => Alike(t[i], s[i]) /\ i \notin C
  BY DEF Spares, Salvaged, Left
<1>3. ASSUME who2[b] # 0, who2[b] = s[i].orig
      PROVE  who[b] = t[i].orig /\ who[b] # 0 /\ s[i].count # 0
  <2>1. PICK k \in 1..m : who[b] = s[k].orig /\ s[k].count # 0
    BY <1>3 DEF Spares
  <2>2. who2[b] = who[b]
    BY <1>3 DEF Spares
  <2>3. k \in DOMAIN t /\ s[k].orig = t[k].orig
    BY DEF Spares, Salvaged, Left
  <2>4. t[k].orig = t[i].orig
    BY <1>1, <1>3, <2>1, <2>2, <2>3
  <2>5. k = i
    BY <1>1, <2>3, <2>4 DEF Spares
  <2> QED
    BY <1>1, <1>3, <2>1, <2>2, <2>5
<1>4. s[i].count # 0 /\ who[b] = s[i].orig => who2[b] = who[b]
  BY DEF Spares
<1> QED
  BY <1>2, <1>3, <1>4

LEMMA SparedBlocks ==
  ASSUME NEW t, NEW s, NEW m, NEW C, NEW who, NEW lo, NEW hi, NEW re,
         NEW who2, NEW lo2, NEW re2,
         Spares(t, s, m, C, who, lo, hi, re, who2, lo2, re2),
         NEW b \in Blocks, who2[b] # 0
  PROVE  who2[b] = who[b] /\ \E i \in 1..m : who[b] = s[i].orig /\ s[i].count # 0
BY DEF Spares

\* The chains of the figures that are left are the ones they had.
LEMMA SalvagedOwned ==
  ASSUME NEW t, NEW U, NEW nx, NEW who \in [Blocks -> BlockOrNone],
         NEW pos \in [Blocks -> Nat], NEW lo, NEW hi, NEW re,
         Owned(t, U, nx, who, pos, lo, hi, re),
         NEW s, NEW m, NEW C, NEW who2, NEW lo2, NEW re2,
         Spares(t, s, m, C, who, lo, hi, re, who2, lo2, re2)
  PROVE  Owned(s, U, nx, who2, pos, lo2, re2, re2)
<1>0. /\ DOMAIN s = 1..m /\ \A i \in 1..m : i \in DOMAIN t /\ s[i].orig = t[i].orig
  BY DEF Spares, Salvaged, Left
<1>1. ASSUME NEW b \in Blocks, who2[b] # 0
      PROVE  /\ b \in U
             /\ \E i \in DOMAIN s : who2[b] = s[i].orig /\ pos[b] \in lo2[i]..re2[i]
             /\ \A i \in DOMAIN s : b # s[i].orig
  <2>1. who2[b] = who[b]
    BY <1>1, SparedBlocks
  <2>2. PICK i \in 1..m : who[b] = s[i].orig /\ s[i].count # 0
    BY <1>1, SparedBlocks
  <2>3. Alike(t[i], s[i]) /\ i \notin C
    BY <2>2, SparedBlock
  <2>4. PICK j \in DOMAIN t : who[b] = t[j].orig /\ pos[b] \in lo[j]..hi[j]
    BY <1>1, <2>1 DEF Owned
  <2>5. j = i
    BY <1>0, <2>2, <2>4 DEF Spares
  <2>6. lo2[i] = lo[i] /\ re2[i] = hi[i]
    BY <2>3 DEF Spares, Alike
  <2>7. b \in U /\ \A k \in DOMAIN t : b # t[k].orig
    BY <1>1, <2>1 DEF Owned
  <2> QED
    BY <1>0, <2>1, <2>2, <2>4, <2>5, <2>6, <2>7
<1>2. ASSUME NEW b \in Blocks, NEW c \in Blocks,
             who2[b] # 0 /\ who2[b] = who2[c] /\ pos[b] = pos[c]
      PROVE  b = c
  BY <1>2, SparedBlocks DEF Owned
<1>3. ASSUME NEW i \in DOMAIN s, lo2[i] = 1 /\ re2[i] >= 1
      PROVE  s[i].start \in Blocks /\ who2[s[i].start] = s[i].orig /\ pos[s[i].start] = 1
  <2>1. i \in 1..m /\ re2[i] = s[i].count
    BY <1>0 DEF Spares
  <2>2. s[i].count # 0
    BY <1>3, <2>1
  <2>4. s[i].count # 0 => Alike(t[i], s[i]) /\ i \notin C
    BY <2>1 DEF Spares, Salvaged, Left
  <2>5. lo[i] = 1 /\ hi[i] = s[i].count /\ s[i].start = t[i].start
    BY <2>1, <2>2, <2>4 DEF Spares, Alike
  <2>6. t[i].start \in Blocks /\ who[t[i].start] = t[i].orig /\ pos[t[i].start] = 1
    BY <1>0, <1>3, <2>1, <2>5 DEF Owned
  <2>7. who2[t[i].start] = who[t[i].start]
    <3>1. PICK b \in Blocks : b = t[i].start
      BY <2>6
    <3>2. s[i].count # 0 /\ who[b] = s[i].orig
      BY <1>0, <2>1, <2>2, <2>6, <3>1
    <3> QED
      BY <2>1, <3>1, <3>2, SparedBlock
  <2> QED
    BY <1>0, <2>1, <2>5, <2>6, <2>7
<1>4. ASSUME NEW b \in Blocks, NEW i \in DOMAIN s,
             who2[b] # 0 /\ who2[b] = s[i].orig /\ pos[b] < re2[i]
      PROVE  nx[b] \in Blocks /\ who2[nx[b]] = who2[b] /\ pos[nx[b]] = pos[b] + 1
  <2>1. i \in 1..m
    BY <1>0
  <2>2. who[b] = t[i].orig /\ who[b] # 0 /\ s[i].count # 0
    BY <1>4, <2>1, SparedBlock
  <2>3. Alike(t[i], s[i]) /\ i \notin C
    BY <2>1, <2>2, SparedBlock
  <2>4. re[i] = re2[i]
    BY <2>1, <2>3 DEF Spares, Alike
  <2>5. nx[b] \in Blocks /\ who[nx[b]] = who[b] /\ pos[nx[b]] = pos[b] + 1
    BY <1>0, <1>4, <2>1, <2>2, <2>4 DEF Owned
  <2>6. who2[nx[b]] = who[nx[b]]
    <3>1. PICK c \in Blocks : c = nx[b]
      BY <2>5
    <3>2. s[i].count # 0 /\ who[c] = s[i].orig
      BY <1>0, <2>1, <2>2, <2>5, <3>1
    <3> QED
      BY <2>1, <3>1, <3>2, SparedBlock
  <2> QED
    BY <1>0, <1>4, <2>1, <2>2, <2>5, <2>6
<1> QED
  BY <1>1, <1>2, <1>3, <1>4 DEF Owned

\* They have the texts they had.
LEMMA SalvagedTells ==
  ASSUME NEW t, NEW nx, NEW d, NEW who, NEW pos, NEW tail, NEW wr, NEW lo, NEW hi, NEW re,
         NEW C, Written(t, nx, d, who, pos, tail, wr, re), Ended(t, who, pos, tail, C),
         Distinct(t), NEW s, NEW m, NEW who2, NEW lo2, NEW re2,
         Spares(t, s, m, C, who, lo, hi, re, who2, lo2, re2),
         \A i \in 1..m : i \notin C => wr[i] = t[i].count
  PROVE  /\ Written(s, nx, d, who2, pos, tail, re2, re2)
         /\ Ended(s, who2, pos, tail, {})
         /\ Distinct(s)
<1>0. /\ DOMAIN s = 1..m
      /\ \A i \in 1..m : i \in DOMAIN t /\ s[i].orig = t[i].orig /\ s[i].name = t[i].name
  BY DEF Spares, Salvaged, Left
<1>1. ASSUME NEW b \in Blocks, NEW i \in 1..m, who2[b] # 0 /\ who2[b] = s[i].orig
      PROVE  /\ Fits(s[i].size, re2[i], re2[i], nx, d, pos, tail, b)
             /\ pos[b] = s[i].count => Len(tail[b]) <= Payload
  <2>1. who[b] = t[i].orig /\ who[b] # 0 /\ s[i].count # 0
    BY <1>1, SparedBlock
  <2>2. Alike(t[i], s[i]) /\ i \notin C
    BY <2>1, SparedBlock
  <2>3. wr[i] = re2[i] /\ re[i] = re2[i] /\ s[i].size = t[i].size /\ s[i].count = t[i].count
    BY <2>2 DEF Spares, Alike
  <2>4. Fits(t[i].size, wr[i], re[i], nx, d, pos, tail, b)
    BY <1>0, <2>1 DEF Written
  <2>5. pos[b] = t[i].count => Len(tail[b]) <= Payload
    BY <1>0, <2>1, <2>2 DEF Ended
  <2> QED
    BY <2>3, <2>4, <2>5
<1>2. ASSUME NEW i \in 1..m, s[i].count = 0
      PROVE  s[i].size = 0
  <2>1. CASE i \in C
    BY <2>1 DEF Spares
  <2>2. CASE i \notin C
    <3>1. t[i].count = 0 => t[i].size = 0
      BY <1>0, <2>2 DEF Ended
    <3> QED
      BY <1>2, <3>1 DEF Spares, Salvaged, Left, Alike
  <2> QED
    BY <2>1, <2>2
<1>3. Distinct(s)
  BY <1>0 DEF Distinct
<1> QED
  BY <1>0, <1>1, <1>2, <1>3 DEF Written, Ended

\* What a kill leaves of the inodes that matter.
Leaves(s, m) ==
  /\ s = DiskTable /\ m \in 0..Len(Live)
  /\ Shrinks(Live, s, header, data, m) /\ HeaderLeadsTo(s)
  /\ Copies(Live, s, data, m)

\* A kill of a process without deletions leaves the first of them.
LEMMA KillLeaves ==
  ASSUME DiskInv, KillInv, deletion = "none"
  PROVE  \E s, m : Leaves(s, m)
<1>1. PICK n : n = Len(Live)
  OBVIOUS
<1>2. PICK m \in 0..n :
        Reads(Live, n, header, data, deletion # "none", DiskTable, 0, m)
  BY <1>1, DiskTableForetold
<1>3. PICK s, t : s = DiskTable /\ t = Live
  OBVIOUS
<1>4. Reads(t, n, header, data, FALSE, s, 0, m)
  BY <1>2, <1>3
<1>5. Shaped(t, n, data) /\ Foretells(t, header, data, FALSE)
  BY <1>1, <1>3, LiveShaped DEF KillInv
<1>6. n \in Nat /\ m \in Nat /\ m - 0 = m
  BY <1>5 DEF Shaped
<1>7. /\ s \in Seq(Inodes) /\ m = Len(s) /\ Reads(t, n, header, data, FALSE, s, 0, Len(s))
      /\ Reach(t, header, data, m)
  BY <1>4, <1>6 DEF Reads
<1>8. Shrinks(t, s, header, data, m) /\ Copies(t, s, data, m)
  <2>1. PICK h, d : h = header /\ d = data
    OBVIOUS
  <2>2. Shaped(t, n, d) /\ Foretells(t, h, d, FALSE)
    BY Zenon, <1>5, <2>1
  <2>3. Reads(t, n, h, d, FALSE, s, 0, m) /\ Len(s) = m /\ m \in 0..n
    BY Zenon, <1>4, <1>7, <2>1
  <2>4. Shrinks(t, s, h, d, m) /\ Copies(t, s, d, m)
    BY Zenon, <2>2, <2>3, SalvagedLinks
  <2> QED
    BY Zenon, <2>1, <2>4
<1>9. HeaderLeadsTo(s)
  BY <1>5, <1>7, <1>8, ShrunkLeads
<1> QED
  BY <1>1, <1>3, <1>8, <1>9 DEF Leaves

\* No block is being cleared then.
LEMMA NothingBeingCleared ==
  ASSUME KillInv, deletion = "none"
  PROVE  ~Deleting /\ BeingCleared = {}
BY DEF KillInv, BeingCleared

\* A step that changes nothing on the disk leaves the first m inodes, s, of
\* those that matter.
ShrinksTo(s, m) ==
  /\ m \in 0..Len(Live) /\ Shrinks(Live, s, header, data, m)
  /\ Filling => \A i \in 1..m : s[i] = data[Live[i].orig]
  /\ Live' = s /\ pc' \in {"closed", "idle"}
  /\ deletion = "none" /\ deletion' = "none"
  /\ UNCHANGED <<header, used, data, next>>

LEMMA ShrinkKeeps ==
  ASSUME DiskInv, KillInv, TypeInv', NEW s, NEW m, ShrinksTo(s, m)
  PROVE  DiskInv' /\ KillInv'
<1>1. PICK n : n = Len(Live)
  OBVIOUS
<1>2. PICK t, d, h : t = Live /\ d = data /\ h = header
  OBVIOUS
<1>3. Shaped(t, n, d) /\ Foretells(t, h, d, FALSE)
  BY <1>1, <1>2, LiveShaped DEF KillInv, ShrinksTo
<1>4. m \in 0..n /\ Shrinks(t, s, h, d, m)
  BY <1>1, <1>2 DEF ShrinksTo
<1>5. Foretells(s, h, d, FALSE)
  BY <1>3, <1>4, ShrinkingForetells
<1>6. ~Deleting' /\ ~Beginning'
  BY DEF ShrinksTo, Deleting, Beginning
<1>7. KillInv'
  BY <1>2, <1>5, <1>6 DEF KillInv, ShrinksTo
<1>8. OneReference'
  <2>1. NamedOnce(Live, UsedBlocks, next, {})
    BY NothingBeingCleared DEF DiskInv, OneReference, ShrinksTo
  <2>2. NamedOnce(s, UsedBlocks, next, {})
    BY <1>2, <1>4, <2>1, SalvagedOnce DEF Shrinks
  <2>3. BeingCleared' = {} /\ UsedBlocks' = UsedBlocks /\ next' = next /\ Live' = s
    BY <1>6 DEF BeingCleared, UsedBlocks, ShrinksTo
  <2> QED
    BY <2>2, <2>3 DEF OneReference
<1>9. Working'
  BY DEF Working, ShrinksTo
<1>10. Linked'
  BY <1>4 DEF Linked, ShrinksTo, Shrinks
<1> QED
  BY <1>7, <1>8, <1>9, <1>10 DEF DiskInv

\* The chains of the figures that are left.
Spared(who, s, m) ==
  [b \in Blocks |-> IF \E i \in 1..m : who[b] = s[i].orig /\ s[i].count # 0 THEN who[b]
                    ELSE 0]

\* Every chain of the table s begins with its first block and ends with its last.
Complete(s, m, lo, re) == \A i \in 1..m : lo[i] = 1 /\ re[i] = s[i].count

\* The blocks of those whose contents are on the disk are spared.
LEMMA ShrinkSpares ==
  ASSUME DiskInv, KillInv,
         NEW who \in [Blocks -> BlockOrNone], NEW pos \in [Blocks -> Nat],
         ChainsAre(who, pos), NEW s, NEW m, ShrinksTo(s, m),
         NEW lo2, NEW re2, Complete(s, m, lo2, re2)
  PROVE  /\ Spares(Live, s, m, BeingFilled, who, Lo, Hi, Re, Spared(who, s, m), lo2, re2)
         /\ \A i \in 1..m : i \notin BeingFilled => Wr[i] = Live[i].count
<1>1. ~Deleting
  BY NothingBeingCleared DEF ShrinksTo
<1>2. Salvaged(Live, s, m)
  BY DEF ShrinksTo, Shrinks
<1>3. \A i, j \in DOMAIN Live : Live[i].orig = Live[j].orig => i = j
  BY OrigsDiffer
<1>4. \A i \in 1..m : i \in DOMAIN Live /\ Live[i] \in Inodes
  BY <1>2, LiveTyped DEF DiskInv, Salvaged
<1>5. ASSUME NEW i \in 1..m, i \in BeingFilled
      PROVE  s[i].count = 0 /\ s[i].size = 0
  <2>1. i = Touched /\ Beginning /\ Filling /\ Live = table
    BY <1>5 DEF BeingFilled, Filling, Beginning, Live
  <2>2. Blank(data, table[i])
    BY <2>1 DEF KillInv, ShrinksTo
  <2>3. s[i] = data[table[i].orig]
    BY <2>1 DEF ShrinksTo
  <2> QED
    BY <2>2, <2>3 DEF Blank, NewInode, Inode
<1>6. ASSUME NEW i \in 1..m, i \notin BeingFilled
      PROVE  Lo[i] = 1 /\ Hi[i] = Live[i].count /\ Re[i] = Live[i].count /\ Wr[i] = Live[i].count
  <2>1. ~(Filling /\ i = Touched)
    BY <1>6 DEF BeingFilled
  <2>2. i \in DOMAIN Live
    BY <1>4
  <2>3. Lo[i] = 1
    BY <1>1, <2>2 DEF Lo
  <2>4. Re[i] = Live[i].count
    BY <1>1, <2>1, <2>2 DEF Re
  <2>5. Hi[i] = Re[i]
    BY <2>1, <2>2 DEF Hi, Filling
  <2>6. Wr[i] = Live[i].count
    BY <1>1, <2>1, <2>2 DEF Wr, Filling
  <2> QED
    BY <2>3, <2>4, <2>5, <2>6
<1>7. \A b \in Blocks :
        Spared(who, s, m)[b] =
          IF \E i \in 1..m : who[b] = s[i].orig /\ s[i].count # 0 THEN who[b] ELSE 0
  BY DEF Spared
<1> QED
  BY <1>2, <1>3, <1>4, <1>5, <1>6, <1>7 DEF Spares, Complete

\* The texts of what is left.
LEMMA ShrinkTracks ==
  ASSUME DiskInv, KillInv, NEW s, NEW m, ShrinksTo(s, m),
         NEW tail \in [Blocks -> Seq(Chars)], Tracked(tail)
  PROVE  Tracked(tail)'
<1>2. PICK who \in [Blocks -> BlockOrNone], pos \in [Blocks -> Nat] :
        ChainsAre(who, pos) /\ Tells(who, pos, tail)
  BY DEF Tracked
<1>3. PICK w : w = Spared(who, s, m)
  OBVIOUS
<1>4. w \in [Blocks -> BlockOrNone]
  BY <1>3, BlockTyped DEF Spared
<1>5. /\ pc' \in {"closed", "idle"} /\ Live' = s /\ UNCHANGED <<header, used, data, next>>
      /\ UsedBlocks' = UsedBlocks
  BY DEF ShrinksTo, UsedBlocks
<1>6. DOMAIN s = 1..m
  BY DEF ShrinksTo, Shrinks, Salvaged
<1>7. PICK lo2, re2 : lo2 = Lo' /\ re2 = Re'
  OBVIOUS
<1>8. ~Filling' /\ ~Deleting' /\ ~Adding' /\ BeingFilled' = {}
  BY <1>5 DEF Filling, Deleting, Adding, BeingFilled
<1>9. /\ Lo' = [i \in 1..m |-> 1] /\ Re' = [i \in 1..m |-> s[i].count]
      /\ Hi' = [i \in 1..m |-> s[i].count] /\ Wr' = [i \in 1..m |-> s[i].count]
  BY <1>5, <1>6, <1>8 DEF Lo, Re, Hi, Wr
<1>10. Hi' = re2 /\ Wr' = re2 /\ \A i \in 1..m : lo2[i] = 1 /\ re2[i] = s[i].count
  BY <1>7, <1>9
<1>11. /\ Spares(Live, s, m, BeingFilled, who, Lo, Hi, Re, w, lo2, re2)
       /\ \A i \in 1..m : i \notin BeingFilled => Wr[i] = Live[i].count
  <2>1. Complete(s, m, lo2, re2)
    BY <1>10 DEF Complete
  <2>2. ChainsAre(who, pos)
    BY <1>2
  <2>3. /\ Spares(Live, s, m, BeingFilled, who, Lo, Hi, Re, Spared(who, s, m), lo2, re2)
        /\ \A i \in 1..m : i \notin BeingFilled => Wr[i] = Live[i].count
    BY <2>1, <2>2, ShrinkSpares
  <2> QED
    BY <1>3, <2>3
<1>13. Owned(s, UsedBlocks, next, w, pos, lo2, re2, re2)
  BY <1>2, <1>11, SalvagedOwned DEF ChainsAre
<1>14. /\ Written(s, next, data, w, pos, tail, re2, re2)
       /\ Ended(s, w, pos, tail, {}) /\ Distinct(s)
  BY <1>2, <1>11, SalvagedTells DEF Tells
<1>15. AtPlace(w, pos)'
  BY <1>5, <1>8 DEF AtPlace
<1>16. AtText(tail)'
  BY <1>5, <1>8 DEF AtText
<1>17. ChainsAre(w, pos)'
  BY <1>5, <1>7, <1>10, <1>13, <1>15 DEF ChainsAre
<1>18. Tells(w, pos, tail)'
  BY <1>5, <1>7, <1>8, <1>10, <1>14, <1>16 DEF Tells
<1> QED
  BY <1>4, <1>17, <1>18 DEF Tracked

\* A kill.
LEMMA CrashShrinks ==
  ASSUME DiskInv, KillInv, deletion = "none", Crash
  PROVE  \E s, m : Leaves(s, m) /\ ShrinksTo(s, m) /\ saved' = s
<1>1. PICK s, m : Leaves(s, m)
  BY KillLeaves
<1>2. /\ pc' = "closed" /\ saved' = s /\ Live' = s /\ UNCHANGED <<header, used, data, next>>
      /\ deletion' = "none"
  BY <1>1 DEF Leaves, Crash, Live, disk
<1> QED
  BY <1>1, <1>2 DEF Leaves, ShrinksTo, Copies

\* After a kill the constructor finds what was saved.
LEMMA CrashKeeps ==
  ASSUME DiskInv, KillInv, deletion = "none", Crash
  PROVE  RestartInv' /\ LoadLeads' /\ KillInv'
<1>1. PICK s, m : Leaves(s, m) /\ ShrinksTo(s, m) /\ saved' = s
  BY CrashShrinks
<1>2. TypeInv'
  BY CrashTyped DEF DiskInv
<1>3. DiskInv' /\ KillInv'
  BY <1>1, <1>2, ShrinkKeeps
<1>4. pc' = "closed" /\ UNCHANGED <<header, data>>
  BY DEF Crash, disk
<1>5. HeaderLeadsTo(s)' /\ DOMAIN s = 1..m
  BY <1>1, <1>4 DEF HeaderLeadsTo, Leaves, Shrinks, Salvaged
<1>6. OnDiskAsSaved'
  BY <1>1, <1>4, <1>5 DEF OnDiskAsSaved, Leaves, HeaderLeadsTo, Copies
<1>7. LoadLeads'
  BY <1>4 DEF LoadLeads
<1> QED
  BY <1>3, <1>6, <1>7 DEF RestartInv

LEMMA CrashTracks ==
  ASSUME DiskInv, KillInv, deletion = "none", Crash,
         NEW tail \in [Blocks -> Seq(Chars)], Tracked(tail)
  PROVE  Tracked(tail)'
BY CrashShrinks, ShrinkTracks

-----------------------------------------------------------------------------
(* The invariant of a store whose process may be killed.                   *)

\* Until a kill tears a deletion.
KilledInv ==
  /\ TypeInv
  /\ deletion # "torn" =>
       RestartInv /\ LoadLeads /\ KillInv /\ \E tail \in [Blocks -> Seq(Chars)] : Tracked(tail)

\* It holds of the first disk.
LEMMA InitKilled == Init => KilledInv
<1> SUFFICES ASSUME Init PROVE KilledInv
  OBVIOUS
<1>1. RestartInv
  BY InitInv
<1>2. LoadLeads
  BY DEF Init, LoadLeads
<1>3. Live = <<>> /\ DOMAIN Live = {} /\ header.first = 0 /\ ~Beginning /\ ~Deleting
  BY DEF Init, Live, ZeroHeader, Beginning, Deleting
<1>4. KillInv
  BY <1>3 DEF KillInv, Foretells, LeadsTo
<1> QED
  BY <1>1, <1>2, <1>4, InitTracked DEF KilledInv, RestartInv, DiskInv

\* A torn deletion stays torn.
LEMMA TornStays ==
  ASSUME [Next \/ Crash]_vars, deletion = "torn"
  PROVE  deletion' = "torn"
BY DEF Next, Load, Open, LoadInode, Save, Close, SaveHeader, SaveInode, Saved, ExtendDisk,
       Make, AllocInode, WriteInode, AllocFirst, WriteData, AllocNext, Link, Delete,
       ClearData, ClearInode, DeleteFile, MakeFile, Crash, vars, history

\* It is inductive, kills included.
LEMMA NextKilled ==
  ASSUME KilledInv, [Next \/ Crash]_vars
  PROVE  KilledInv'
<1>1. TypeInv'
  BY NextTyped DEF KilledInv
<1>2. SUFFICES ASSUME deletion' # "torn"
               PROVE  /\ RestartInv' /\ LoadLeads' /\ KillInv'
                      /\ \E tail \in [Blocks -> Seq(Chars)] : Tracked(tail)'
  BY <1>1 DEF KilledInv
<1>3. deletion # "torn" /\ RestartInv /\ LoadLeads /\ KillInv
  BY <1>2, TornStays DEF KilledInv
<1>4. PICK tail \in [Blocks -> Seq(Chars)] : Tracked(tail)
  BY <1>3 DEF KilledInv
<1>5. CASE [Next]_vars
  <2>1. RestartInv'
    BY <1>3, <1>5, NextKeeps
  <2>2. LoadLeads'
    BY <1>3, <1>5, <2>1, NextLeads
  <2>3. \E tl \in [Blocks -> Seq(Chars)] : Tracked(tl)'
    BY <1>3, <1>4, <1>5, <2>1, NextMoves DEF StepMoves
  <2>4. KillInv'
    BY <1>3, <1>4, <1>5, <2>1, NextForetold DEF Tracked, Chains
  <2> QED
    BY <2>1, <2>2, <2>3, <2>4
<1>6. CASE Crash
  <2>1. deletion = "none" /\ DiskInv
    BY <1>2, <1>3, <1>6 DEF Crash, RestartInv
  <2> QED
    BY <1>3, <1>4, <1>6, <2>1, CrashKeeps, CrashTracks
<1> QED
  BY <1>5, <1>6

-----------------------------------------------------------------------------
(* What a reader would get after a kill.                                   *)

\* It depends on the disk only.
LEMMA SameTable ==
  ASSUME UNCHANGED <<header, data>>
  PROVE  DiskTable' = DiskTable
BY DEF DiskTable, InodeAt

\* What is read depends on the data blocks and the links.
LEMMA SameRead ==
  ASSUME UNCHANGED <<data, next>>, NEW t, NEW n
  PROVE  ReadIn(t, n)' = ReadIn(t, n)
<1>1. \A x : Contents(x)' = Contents(x)
  BY DEF Contents, Bytes
<1> QED
  BY <1>1 DEF ReadIn

\* A step that changes neither.
LEMMA SameDisk ==
  ASSUME UNCHANGED <<header, data, next>>, NEW n
  PROVE  OnDisk(n)' = OnDisk(n)
<1>1. PICK t : t = DiskTable
  OBVIOUS
<1>2. DiskTable' = t
  BY <1>1, SameTable
<1>3. OnDisk(n) = ReadIn(t, n)
  BY <1>1 DEF OnDisk
<1>4. OnDisk(n)' = ReadIn(t, n)'
  BY <1>2 DEF OnDisk
<1> QED
  BY <1>3, <1>4, SameRead

\* rd_file returns the text of a figure that no operation changes, whatever the
\* link of its inode.
LEMMA ReadsAlike ==
  ASSUME DiskInv, NEW who \in [Blocks -> BlockOrNone], NEW pos \in [Blocks -> Nat],
         NEW tail \in [Blocks -> Seq(Chars)], ChainsAre(who, pos), Tells(who, pos, tail),
         NEW i \in DOMAIN Live, Filling \/ Deleting => i # Touched,
         NEW inode \in Inodes, Alike(Live[i], inode)
  PROVE  Contents(inode) = IF inode.count = 0 THEN NotFound ELSE Found(tail[inode.start])
<1>1. /\ Chain(who, pos, next, Live[i].orig, Live[i].start, Live[i].count)
      /\ Wr[i] = Live[i].count /\ Re[i] = Live[i].count
  BY WholeUntouched
<1>2. /\ inode.orig = Live[i].orig /\ inode.start = Live[i].start
      /\ inode.count = Live[i].count /\ inode.size = Live[i].size
  BY DEF Alike
<1>3. Chain(who, pos, next, inode.orig, inode.start, inode.count)
  BY <1>1, <1>2
<1>4. i \in DOMAIN Live \ BeingFilled
  BY DEF BeingFilled
<1>5. Live[i].orig # 0
  BY OrigsDiffer
<1>6. inode.count = 0 => inode.size = 0
  BY <1>2, <1>4 DEF Tells, Ended
<1>7. \A b \in Blocks : who[b] = inode.orig =>
        /\ Fits(inode.size, inode.count, inode.count, next, data, pos, tail, b)
        /\ pos[b] = inode.count => Len(tail[b]) <= Payload
  <2> SUFFICES ASSUME NEW b \in Blocks
               PROVE  who[b] = inode.orig =>
                        /\ Fits(inode.size, inode.count, inode.count, next, data, pos, tail, b)
                        /\ pos[b] = inode.count => Len(tail[b]) <= Payload
    OBVIOUS
  <2>1. who[b] = inode.orig =>
          Fits(Live[i].size, Wr[i], Re[i], next, data, pos, tail, b)
    BY <1>2, <1>5 DEF Tells, Written
  <2>2. who[b] = inode.orig /\ pos[b] = inode.count => Len(tail[b]) <= Payload
    BY <1>2, <1>4, <1>5 DEF Tells, Ended
  <2> QED
    BY <1>1, <1>2, <2>1, <2>2
<1>8. TypeOK
  BY DEF DiskInv, TypeInv
<1> QED
  BY <1>3, <1>6, <1>7, <1>8, ChainRead

\* An inode without contents.
LEMMA EmptyRead ==
  ASSUME NEW inode \in Inodes, inode.size = 0
  PROVE  Contents(inode) = NotFound
BY DEF Contents

\* What the constructor finds under name n in t, when the inodes 1..m of t have
\* the names that those of the table have, and at most one inode follows.
LEMMA FoundAmong ==
  ASSUME NEW s \in Seq(Inodes), NEW t, NEW n \in Nat, DOMAIN t = 1..n, Distinct(t),
         NEW m \in 0..n, Len(s) = m \/ Len(s) = m + 1,
         \A i \in 1..m : s[i].name = t[i].name
  PROVE  /\ \A i \in 1..m : IndexIn(s, t[i].name) = i
         /\ \A x : \/ IndexIn(s, x) = 0
                   \/ IndexIn(s, x) \in 1..m /\ t[IndexIn(s, x)].name = x
                   \/ IndexIn(s, x) = m + 1 /\ Len(s) = m + 1
<1>0. PICK L \in Nat : L = Len(s) /\ DOMAIN s = 1..L
  BY LenProperties
<1>1. m \in Nat /\ m <= L /\ m <= n /\ (L = m \/ L = m + 1)
  BY <1>0
<1>2. \A i \in 1..m : i \in DOMAIN s /\ i \in DOMAIN t
  BY <1>0, <1>1
<1>3. ASSUME NEW i \in 1..m PROVE IndexIn(s, t[i].name) = i
  <2>1. i \in DOMAIN s /\ s[i].name = t[i].name
    BY <1>2
  <2>2. ASSUME NEW j \in 1..(i - 1) PROVE s[j].name # t[i].name
    <3>1. j \in 1..m /\ j # i
      BY <1>1
    <3>2. j \in DOMAIN t /\ i \in DOMAIN t
      BY <1>2, <3>1
    <3> QED
      BY <3>1, <3>2 DEF Distinct
  <2> QED
    BY <2>1, <2>2, IndexIs
<1>4. ASSUME NEW x
      PROVE  \/ IndexIn(s, x) = 0
             \/ IndexIn(s, x) \in 1..m /\ t[IndexIn(s, x)].name = x
             \/ IndexIn(s, x) = m + 1 /\ Len(s) = m + 1
  <2>1. PICK k : k = IndexIn(s, x)
    OBVIOUS
  <2>2. k = 0 \/ (k \in DOMAIN s /\ s[k].name = x)
    BY <2>1, IndexFound
  <2>3. k \in DOMAIN s => k \in 1..m \/ (k = m + 1 /\ L = m + 1)
    BY <1>0, <1>1
  <2> QED
    BY <1>0, <2>1, <2>2, <2>3
<1> QED
  BY <1>3, <1>4

\* The disk leads to inode i.
Reached(i) == i \in DOMAIN Live /\ Reach(Live, header, data, i)

\* It has the contents of inode i there, too, and no operation changes it.
Seen(i) == /\ Reached(i) /\ Intact(data, Live[i])
           /\ Beginning \/ Deleting => i # Touched

\* The constructor would load s: the first m inodes as the disk has them, and
\* perhaps an empty one.
Shows(s, m, n) ==
  /\ s \in Seq(Inodes) /\ n \in Nat /\ DOMAIN Live = 1..n /\ m \in 0..n
  /\ Len(s) = m \/ (Len(s) = m + 1 /\ s[m + 1].size = 0)
  /\ \A i \in 1..m :
       /\ s[i] \in Inodes /\ s[i].name = Live[i].name
       /\ Reach(Live, header, data, i) /\ s[i] = data[Live[i].orig]
       /\ Intact(data, Live[i]) \/ Blank(data, Live[i])
  /\ \A i \in 1..n : Reach(Live, header, data, i) => i <= m

LEMMA DiskShows ==
  ASSUME DiskInv, KillInv, deletion # "torn"
  PROVE  \E s, m, n : s = DiskTable /\ Shows(s, m, n)
<1>1. PICK n : n = Len(Live)
  OBVIOUS
<1>2. PICK m \in 0..n :
        Reads(Live, n, header, data, deletion # "none", DiskTable, 0, m)
  BY <1>1, DiskTableForetold
<1>3. PICK s, t, del : s = DiskTable /\ t = Live /\ del = (deletion # "none")
  OBVIOUS
<1>4. Reads(t, n, header, data, del, s, 0, m)
  BY <1>2, <1>3
<1>5. Shaped(t, n, data) /\ n \in Nat /\ DOMAIN t = 1..n
  BY <1>1, <1>3, LiveShaped DEF Shaped
<1>6. m \in Nat /\ m - 0 = m
  BY <1>5
<1>7. /\ s \in Seq(Inodes) /\ \A i \in 1..m : s[i] = data[t[i].orig]
      /\ Len(s) = m \/ (Len(s) = m + 1 /\ s[m + 1].size = 0)
      /\ Reach(t, header, data, m)
      /\ m < n => ~Reach(t, header, data, m + 1)
  BY <1>4, <1>5, <1>6 DEF Reads
<1>8. ASSUME NEW i \in 1..m
      PROVE  /\ s[i] \in Inodes /\ s[i].name = t[i].name
             /\ Reach(t, header, data, i) /\ s[i] = data[t[i].orig]
             /\ Intact(data, t[i]) \/ Blank(data, t[i])
  <2>1. i \in 1..n /\ i \in Nat /\ i <= m
    BY <1>5, <1>6
  <2>2. s[i] = data[t[i].orig] /\ t[i] \in Inodes /\ s[i] \in Payloads
    BY <1>5, <1>7, <2>1 DEF Shaped
  <2>3. Intact(data, t[i]) \/ Blank(data, t[i])
    BY <1>3, <1>5, <2>1 DEF KillInv, Foretells
  <2>4. s[i] \in Inodes /\ s[i].name = t[i].name
    BY <2>2, <2>3, OnDiskTyped
  <2>5. Reach(t, header, data, i)
    BY <1>6, <1>7, <2>1, ReachLess
  <2> QED
    BY <2>2, <2>3, <2>4, <2>5
<1>9. ASSUME NEW i \in 1..n, Reach(t, header, data, i)
      PROVE  i <= m
  <2>1. SUFFICES ASSUME ~(i <= m) PROVE FALSE
    OBVIOUS
  <2>2. i \in Nat /\ m + 1 \in Nat /\ m + 1 <= i /\ m < n
    BY <1>5, <1>6, <2>1
  <2>3. Reach(t, header, data, m + 1)
    BY <1>9, <2>2, ReachLess
  <2> QED
    BY <1>7, <2>2, <2>3
<1>10. Shows(s, m, n)
  BY <1>3, <1>5, <1>7, <1>8, <1>9 DEF Shows
<1> QED
  BY <1>3, <1>10

\* The place of a name in what the disk shows is that in the table.
LEMMA ShownIndex ==
  ASSUME Distinct(Live), NEW s, NEW m, NEW n, Shows(s, m, n)
  PROVE  /\ \A i \in 1..m : IndexIn(s, Live[i].name) = i
         /\ \A x : \/ IndexIn(s, x) = 0
                   \/ IndexIn(s, x) \in 1..m /\ Live[IndexIn(s, x)].name = x
                   \/ IndexIn(s, x) = m + 1 /\ Len(s) = m + 1
<1>1. PICK t : t = Live
  OBVIOUS
<1>2. /\ s \in Seq(Inodes) /\ n \in Nat /\ DOMAIN t = 1..n /\ m \in 0..n
      /\ Len(s) = m \/ Len(s) = m + 1
      /\ \A i \in 1..m : s[i].name = t[i].name
  BY <1>1 DEF Shows
<1>3. Distinct(t)
  BY <1>1
<1>4. /\ \A i \in 1..m : IndexIn(s, t[i].name) = i
      /\ \A x : \/ IndexIn(s, x) = 0
                \/ IndexIn(s, x) \in 1..m /\ t[IndexIn(s, x)].name = x
                \/ IndexIn(s, x) = m + 1 /\ Len(s) = m + 1
  <2> QED
    BY <1>2, <1>3, FoundAmong
<1> QED
  BY Zenon, <1>1, <1>4

\* What an inode that is seen tells a reader of the disk.
LEMMA SeenReads ==
  ASSUME DiskInv, KillInv, deletion # "torn",
         NEW tail \in [Blocks -> Seq(Chars)], Tracked(tail), NEW i, Seen(i)
  PROVE  OnDisk(Live[i].name) =
           IF Live[i].count = 0 THEN NotFound ELSE Found(tail[Live[i].start])
<1>1. PICK who \in [Blocks -> BlockOrNone], pos \in [Blocks -> Nat] :
        ChainsAre(who, pos) /\ Tells(who, pos, tail)
  BY DEF Tracked
<1>2. PICK s, m, n : s = DiskTable /\ Shows(s, m, n)
  BY DiskShows
<1>3. i \in 1..m
  <2>1. i \in 1..n /\ Reach(Live, header, data, i)
    BY <1>2 DEF Seen, Reached, Shows
  <2>2. i <= m /\ m \in 0..n /\ n \in Nat
    BY <1>2, <2>1 DEF Shows
  <2> QED
    BY <2>1, <2>2
<1>4. IndexIn(s, Live[i].name) = i /\ i # 0
  <2>1. Distinct(Live)
    BY <1>1 DEF Tells
  <2>2. m \in Nat
    BY <1>2 DEF Shows
  <2> QED
    BY <1>2, <1>3, <2>1, <2>2, ShownIndex
<1>5. PICK inode \in Inodes : inode = s[i]
  BY <1>2, <1>3 DEF Shows
<1>6. i \in DOMAIN Live /\ (Filling \/ Deleting => i # Touched)
  BY DEF Seen, Reached, Filling, Beginning
<1>7. PICK v \in Inodes : v = Live[i]
  BY <1>6, LiveTyped DEF DiskInv
<1>8. Alike(Live[i], inode)
  <2>1. data[v.orig] = inode /\ Intact(data, v)
    BY <1>2, <1>3, <1>5, <1>7 DEF Shows, Seen
  <2>2. inode = [v EXCEPT !.next = inode.next]
    BY <2>1 DEF Intact
  <2> QED
    BY <1>7, <2>2 DEF Alike, Inodes
<1>9. Contents(inode) = IF inode.count = 0 THEN NotFound ELSE Found(tail[inode.start])
  BY <1>1, <1>6, <1>8, ReadsAlike
<1>10. OnDisk(Live[i].name) = Contents(inode)
  BY <1>2, <1>4, <1>5 DEF OnDisk, ReadIn
<1> QED
  BY <1>8, <1>9, <1>10 DEF Alike

\* What a reader of the disk finds, an inode that is seen tells, if it is not
\* that of the figure being deleted.
LEMMA ReadsSeen ==
  ASSUME DiskInv, KillInv, deletion # "torn",
         NEW tail \in [Blocks -> Seq(Chars)], Tracked(tail),
         NEW x, OnDisk(x) # NotFound, Deleting => x # op.name
  PROVE  \E i : Seen(i) /\ Live[i].count # 0 /\ Live[i].name = x
<1>1. PICK who \in [Blocks -> BlockOrNone], pos \in [Blocks -> Nat] :
        ChainsAre(who, pos) /\ Tells(who, pos, tail)
  BY DEF Tracked
<1>2. PICK s, m, n : s = DiskTable /\ Shows(s, m, n)
  BY DiskShows
<1>3. PICK i : i = IndexIn(s, x)
  OBVIOUS
<1>4. OnDisk(x) = IF i = 0 THEN NotFound ELSE Contents(s[i])
  BY <1>2, <1>3 DEF OnDisk, ReadIn
<1>5. i # 0
  BY <1>4
<1>6. \/ i \in 1..m /\ Live[i].name = x
      \/ i = m + 1 /\ Len(s) = m + 1
  <2>1. Distinct(Live)
    BY <1>1 DEF Tells
  <2> QED
    BY <1>2, <1>3, <1>5, <2>1, ShownIndex
<1>7. i \in DOMAIN s
  <2>1. PICK L \in Nat : L = Len(s) /\ DOMAIN s = 1..L
    BY <1>2, LenProperties DEF Shows
  <2>2. m \in Nat /\ (L = m \/ L = m + 1)
    BY <1>2, <2>1 DEF Shows
  <2>3. i \in 1..m \/ (i = m + 1 /\ L = m + 1)
    BY <1>6, <2>1
  <2> QED
    BY <2>1, <2>2, <2>3
<1>8. PICK inode \in Inodes : inode = s[i]
  BY <1>2, <1>7, ElementOfSeq DEF Shows
<1>9. inode.size # 0
  BY <1>4, <1>5, <1>8, EmptyRead
<1>10. i \in 1..m /\ Live[i].name = x /\ i \in DOMAIN Live
  <2>1. i \in 1..m /\ Live[i].name = x
    BY <1>2, <1>6, <1>8, <1>9 DEF Shows
  <2>2. m \in 0..n /\ n \in Nat /\ DOMAIN Live = 1..n
    BY <1>2 DEF Shows
  <2> QED
    BY <2>1, <2>2
<1>11. PICK v \in Inodes : v = Live[i]
  BY <1>10, LiveTyped DEF DiskInv
<1>12. Reach(Live, header, data, i) /\ Intact(data, v) /\ ~Blank(data, v)
  <2>1. /\ Reach(Live, header, data, i) /\ inode = data[v.orig]
        /\ Intact(data, v) \/ Blank(data, v)
    BY <1>2, <1>8, <1>10, <1>11 DEF Shows
  <2>2. ~Blank(data, v)
    BY <1>9, <2>1 DEF Blank, NewInode, Inode
  <2> QED
    BY <2>1, <2>2
<1>13. Beginning \/ Deleting => i # Touched
  <2>1. CASE Beginning
    <3>1. Live = table
      BY <2>1 DEF Beginning, Live
    <3>2. Blank(data, table[Touched])
      BY <2>1 DEF KillInv
    <3> QED
      BY <1>11, <1>12, <3>1, <3>2
  <2>2. CASE Deleting
    <3>1. Live = table
      BY <2>2 DEF Deleting, Live
    <3>2. SUFFICES ASSUME i = Touched PROVE FALSE
      BY <2>2 DEF Deleting, Beginning
    <3>3. table \in Seq(Inodes)
      BY DEF DiskInv, TypeInv, TypeOK
    <3>4. table[i].name = op.name
      BY <1>5, <3>2, <3>3, IndexFound DEF Touched, IndexOf
    <3> QED
      BY <1>10, <2>2, <3>1, <3>4
  <2> QED
    BY <2>1, <2>2
<1>14. Seen(i)
  BY <1>10, <1>11, <1>12, <1>13 DEF Seen, Reached
<1>15. Live[i].count # 0
  <2>1. OnDisk(x) = IF Live[i].count = 0 THEN NotFound ELSE Found(tail[Live[i].start])
    BY <1>10, <1>14, SeenReads
  <2> QED
    BY <2>1
<1> QED
  BY <1>10, <1>14, <1>15

-----------------------------------------------------------------------------
(* The steps of a process keep what is seen.                               *)

\* Inode i is still found after the step, with the same name.
StillReached(i) ==
  Reached(i)' /\ Live'[i].name = Live[i].name /\ Live'[i].orig = Live[i].orig

\* It is still seen, with the same figure.
StillSeen(i) == Seen(i)' /\ Alike(Live[i], Live'[i])

KeepsSeen ==
  \A i : (Reached(i) => StillReached(i)) /\ (Seen(i) => StillSeen(i))

\* The disk still leads to inode i when the links before it stay.
LEMMA ReachKept ==
  ASSUME NEW t, NEW h, NEW d, NEW i \in Nat, Reach(t, h, d, i),
         NEW t2, NEW h2, NEW d2, i # 0 => h2.first = h.first,
         \A j \in 1..i : t2[j].orig = t[j].orig,
         \A j \in 1..(i - 1) : d2[t[j].orig].next = d[t[j].orig].next
  PROVE  Reach(t2, h2, d2, i)
<1> SUFFICES ASSUME NEW j \in 1..i PROVE Pointer(t2, h2, d2, j) = t2[j].orig
  BY DEF Reach
<1>1. Pointer(t, h, d, j) = t[j].orig
  BY DEF Reach
<1>2. CASE j = 1
  BY <1>1, <1>2 DEF Pointer
<1>3. CASE j # 1
  <2>1. j - 1 \in 1..(i - 1) /\ j - 1 \in 1..i
    BY <1>3
  <2>2. t2[j - 1].orig = t[j - 1].orig /\ t2[j].orig = t[j].orig
    BY <2>1
  <2>3. d2[t[j - 1].orig].next = d[t[j - 1].orig].next
    BY <2>1
  <2> QED
    BY <1>1, <1>3, <2>2, <2>3 DEF Pointer
<1> QED
  BY <1>2, <1>3

\* What the disk has of inode v it has of one that differs in its link.
LEMMA IntactKept ==
  ASSUME NEW v \in Inodes, NEW w \in Inodes, Alike(v, w), NEW d, NEW e,
         d[v.orig] \in Payloads, e[v.orig] = d[v.orig], Intact(d, v)
  PROVE  Intact(e, w)
<1>1. d[v.orig] \in Inodes
  BY OnDiskTyped
<1>2. Intact(d, w)
  BY <1>1, AlikeOnDisk
<1> QED
  BY <1>2 DEF Intact, Alike

\* A step that may append to the table, change the link of an inode or the
\* figure it works on, and writes over the block of no inode.
LEMMA FrameSees ==
  ASSUME DiskInv, DiskInv',
         Live # <<>> /\ header.first = Live[1].orig => header'.first = header.first,
         \A j \in DOMAIN Live :
           /\ j \in DOMAIN Live'
           /\ Live'[j].name = Live[j].name /\ Live'[j].orig = Live[j].orig
           /\ data'[Live[j].orig] = data[Live[j].orig],
         \A j \in DOMAIN Live : (Beginning \/ Deleting => j # Touched) =>
           Alike(Live[j], Live'[j]) /\ (Beginning' \/ Deleting' => j # Touched')
  PROVE  KeepsSeen
<1>1. PICK n : n = Len(Live)
  OBVIOUS
<1>2. PICK t, u, h, k, d, e : /\ t = Live /\ u = Live' /\ h = header /\ k = header'
                              /\ d = data /\ e = data'
  OBVIOUS
<1>3. Shaped(t, n, d)
  BY <1>1, <1>2, LiveShaped
<1>4. n \in Nat /\ DOMAIN t = 1..n /\ (n # 0 => t # <<>>)
  BY <1>1, <1>2, <1>3 DEF Shaped
<1>5. u \in Seq(Inodes)
  BY <1>2 DEF DiskInv, TypeInv, TypeOK, Live
<1>6. ASSUME NEW i, Reached(i)
      PROVE  StillReached(i)
  <2>1. i \in 1..n /\ i \in Nat /\ Reach(t, h, d, i) /\ \A j \in 1..i : j \in 1..n
    BY <1>2, <1>4, <1>6 DEF Reached
  <2>2. h.first = t[1].orig
    BY <2>1 DEF Reach, Pointer
  <2>3. k.first = h.first /\ \A j \in 1..i : u[j].orig = t[j].orig /\ e[t[j].orig] = d[t[j].orig]
    BY <1>2, <1>4, <2>1, <2>2
  <2>4. Reach(u, k, e, i)
    BY <2>1, <2>3, ReachKept
  <2> QED
    BY <1>2, <1>4, <2>1, <2>4 DEF StillReached, Reached
<1>7. ASSUME NEW i, Seen(i)
      PROVE  StillSeen(i)
  <2>1. Reached(i) /\ i \in DOMAIN t /\ i \in 1..n
    BY <1>2, <1>4, <1>7 DEF Seen, Reached
  <2>2. Reached(i)'
    BY <1>6, <2>1 DEF StillReached
  <2>3. /\ Alike(t[i], u[i]) /\ e[t[i].orig] = d[t[i].orig] /\ i \in DOMAIN u
        /\ Beginning' \/ Deleting' => i # Touched'
    BY <1>2, <1>7, <2>1 DEF Seen
  <2>4. t[i] \in Inodes /\ d[t[i].orig] \in Payloads /\ u[i] \in Inodes
    BY <1>3, <1>5, <2>1, <2>3, ElementOfSeq, LenProperties DEF Shaped
  <2>5. Intact(d, t[i])
    BY <1>2, <1>7 DEF Seen
  <2>6. Intact(e, u[i])
    BY <2>3, <2>4, <2>5, IntactKept
  <2> QED
    BY <1>2, <2>2, <2>3, <2>6 DEF StillSeen, Seen
<1> QED
  BY <1>6, <1>7 DEF KeepsSeen

\* A step that changes no inode, neither in the table nor on the disk.
LEMMA QuietSees ==
  ASSUME DiskInv, DiskInv', Live' = Live, header'.first = header.first,
         \A j \in DOMAIN Live : data'[Live[j].orig] = data[Live[j].orig],
         Beginning' \/ Deleting' => (Beginning \/ Deleting) /\ Touched' = Touched
  PROVE  KeepsSeen
BY FrameSees DEF Alike

(* Each step keeps the inodes that are seen, but for the figure it works on. *)

LEMMA WriteDataSees ==
  ASSUME DiskInv, DiskInv', NEW who \in [Blocks -> BlockOrNone],
         NEW pos \in [Blocks -> Nat], ChainsAre(who, pos), WriteData
  PROVE  KeepsSeen
<1>1. /\ pc = "dataWrite" /\ pc' \in {"link", "nextBlock"}
      /\ UNCHANGED <<header, table>> /\ Filling /\ Beginning
  BY DEF WriteData, memory, Beginning, Filling
<1>2. /\ Live = table /\ Live' = table
      /\ Touched \in DOMAIN table /\ op.cur \in Blocks /\ who[op.cur] = table[Touched].orig
  BY <1>1, FillingAt DEF Live
<1>3. who[op.cur] # 0
  BY <1>2, OrigsDiffer
<1>4. PICK s : data' = [data EXCEPT ![op.cur] = Text(s)]
  BY DEF WriteData
<1>5. \A c \in Blocks : c # op.cur => data'[c] = data[c]
  BY <1>4 DEF DiskInv, TypeInv, TypeOK
<1>6. Touched' = Touched
  BY <1>1 DEF WriteData, DiskInv, TypeInv, TypeOK, Operations, Touched, IndexOf
<1>7. \A j \in DOMAIN Live : Live[j].orig # op.cur /\ Live[j].orig \in Blocks
  BY <1>2, <1>3, OwnedIsNoInode, OrigsAreBlocks
<1> QED
  BY <1>1, <1>2, <1>5, <1>6, <1>7, QuietSees

LEMMA ClearDataSees ==
  ASSUME DiskInv, DiskInv', NEW who, NEW pos, ChainsAre(who, pos), ClearData
  PROVE  KeepsSeen
<1>1. /\ pc = "clearData" /\ ClearBlock(op.cur) /\ UNCHANGED table
      /\ Deleting /\ Live = table /\ Live' = table
  BY DEF ClearData, Deleting, Live
<1>2. Touched \in DOMAIN table
  BY <1>1, TouchedFound DEF DiskInv, TypeInv, Cursors, Touched
<1>3. op.cur \in Blocks /\ who[op.cur] = table[Touched].orig
  BY <1>1 DEF ChainsAre, AtPlace
<1>4. who[op.cur] # 0
  BY <1>1, <1>2, <1>3, OrigsDiffer
<1>5. op.cur # 0
  BY <1>3, BlockTyped
<1>6. /\ header' = header /\ \A c \in Blocks : c # op.cur => data'[c] = data[c]
  BY <1>1, <1>3, <1>5 DEF ClearBlock
<1>7. Touched' = Touched
  BY <1>1 DEF ClearData, DiskInv, TypeInv, TypeOK, Operations, Touched, IndexOf
<1>8. \A j \in DOMAIN Live : Live[j].orig # op.cur /\ Live[j].orig \in Blocks
  BY <1>3, <1>4, OwnedIsNoInode, OrigsAreBlocks
<1> QED
  BY <1>1, <1>6, <1>7, <1>8, QuietSees

LEMMA LinkSees ==
  ASSUME DiskInv, DiskInv', NEW who, NEW pos, ChainsAre(who, pos), Link
  PROVE  KeepsSeen
<1>1. /\ pc = "link" /\ UNCHANGED <<header, data>> /\ Beginning
      /\ ~Deleting' /\ Live = table /\ Live' = table'
  BY DEF Link, Deleting, Beginning, Live
<1>2. Touched # 0
  BY <1>1 DEF ChainsAre, AtPlace, Filling
<1>3. PICK k \in DOMAIN table : k = Touched
  BY <1>2, TouchedFound
<1>4. /\ DOMAIN table' = DOMAIN table /\ Touched' = k
      /\ table'[k].orig = table[k].orig /\ table'[k].name = table[k].name
      /\ \A j \in DOMAIN table : j # k => table'[j] = table[j]
  BY <1>3, InodeCounted
<1> QED
  BY <1>1, <1>3, <1>4, FrameSees DEF Alike

LEMMA AllocFirstSees ==
  ASSUME DiskInv, DiskInv', NEW who, NEW pos, ChainsAre(who, pos), AllocFirst
  PROVE  KeepsSeen
<1>1. /\ pc = "firstBlock" /\ UNCHANGED <<header, data>> /\ Beginning
      /\ ~Deleting' /\ Live = table /\ Live' = table'
  BY DEF AllocFirst, Deleting, Beginning, Live
<1>2. Touched # 0
  BY <1>1 DEF ChainsAre, AtPlace
<1>3. PICK k \in DOMAIN table : k = Touched
  BY <1>2, TouchedFound
<1>4. PICK b \in Blocks : op' = [op EXCEPT !.cur = b]
  BY DEF AllocFirst
<1>5. op'.cur = b
  BY <1>4 DEF DiskInv, TypeInv, TypeOK, Operations
<1>6. /\ DOMAIN table' = DOMAIN table /\ Touched' = k
      /\ table'[k].orig = table[k].orig /\ table'[k].name = table[k].name
      /\ \A j \in DOMAIN table : j # k => table'[j] = table[j]
  BY <1>3, <1>5, InodeFilled
<1> QED
  BY <1>1, <1>3, <1>6, FrameSees DEF Alike

LEMMA WriteInodeSees ==
  ASSUME DiskInv, DiskInv', NEW who, NEW pos, ChainsAre(who, pos), WriteInode
  PROVE  KeepsSeen
<1>1. /\ pc = "inodeWrite" /\ pc' = "firstBlock" /\ Live = table /\ Live' = table'
      /\ UNCHANGED header /\ data' = [data EXCEPT ![op.cur] = NewInode(op.name, op.cur)]
  BY DEF WriteInode, Live
<1>2. Touched = 0
  BY <1>1 DEF ChainsAre, AtPlace
<1>3. PICK n : n = Len(table)
  OBVIOUS
<1>4. /\ n \in Nat /\ DOMAIN table = 1..n /\ DOMAIN table' = 1..(n + 1)
      /\ \A j \in 1..n : Alike(table[j], table'[j])
      /\ Touched' = n + 1
  BY <1>2, <1>3, InodeAppended DEF Alike
<1>5. op.cur \in UsedBlocks /\ Unnamed(op.cur, Live, next, BeingCleared)
  BY <1>1 DEF DiskInv, Working
<1>6. \A j \in DOMAIN table : table[j].orig # op.cur /\ table[j].orig \in Blocks
  BY <1>1, <1>5, OrigsAreBlocks DEF Unnamed
<1>7. \A j \in DOMAIN table : data'[table[j].orig] = data[table[j].orig]
  BY <1>1, <1>6 DEF DiskInv, TypeInv, TypeOK
<1>8. \A j \in DOMAIN table : j \in DOMAIN table' /\ Alike(table[j], table'[j]) /\ j # Touched'
  BY <1>4
<1> QED
  BY <1>1, <1>7, <1>8, FrameSees DEF Alike

LEMMA SaveHeaderSees ==
  ASSUME DiskInv, DiskInv', SaveHeader
  PROVE  KeepsSeen
<1>1. pc = "saveHeader" /\ UNCHANGED data /\ Live = table
  BY DEF SaveHeader, Live
<1>2. Live' = Live
  BY SaveLive DEF Save
<1>3. ~Beginning' /\ ~Deleting'
  BY DEF SaveHeader, Saved, memory, Beginning, Deleting
<1>4. table # <<>> => header'.first = table[1].orig
  BY DEF SaveHeader
<1> QED
  BY <1>1, <1>2, <1>3, <1>4, FrameSees DEF Alike
\* An inode v is written over the L-th of table t, of length n: that one but for
\* its link or a blank one, with the right link or none.
Writes(t, n, d, L, v, e) ==
  /\ L \in 1..n /\ v \in Inodes /\ v.name = t[L].name /\ v.orig = t[L].orig
  /\ v = NewInode(v.name, v.orig) \/ Alike(t[L], v)
  /\ v.next = 0 \/ (L + 1 \in 1..n /\ v.next = t[L + 1].orig)
  /\ e[t[L].orig] = v /\ \A c \in Blocks : c # t[L].orig => e[c] = d[c]

LEMMA WritingSees ==
  ASSUME NEW t, NEW n, NEW d, Shaped(t, n, d), NEW L, NEW v, NEW e,
         Writes(t, n, d, L, v, e), NEW i \in 1..n
  PROVE  /\ i # L => e[t[i].orig] = d[t[i].orig]
         /\ i = L /\ Alike(t[L], v) => Intact(e, t[i])
         /\ i = L /\ v = NewInode(v.name, v.orig) => Blank(e, t[i])
<1>1. i # L => e[t[i].orig] = d[t[i].orig]
  BY DEF Shaped, Writes
<1>2. ASSUME i = L, Alike(t[L], v) PROVE Intact(e, t[i])
  <2>1. PICK w \in Inodes : w = t[i]
    BY DEF Shaped
  <2>2. v = [w EXCEPT !.next = v.next]
    BY <1>2, <2>1 DEF Alike, Inodes, Writes
  <2>3. e[w.orig] = v
    BY <1>2, <2>1 DEF Writes
  <2> QED
    BY <2>1, <2>2, <2>3 DEF Intact
<1>3. i = L /\ v = NewInode(v.name, v.orig) => Blank(e, t[i])
  BY DEF Writes, Blank
<1> QED
  BY <1>1, <1>2, <1>3

\* It leads where the disk led before or to the next inode.
LEMMA WritingForetells ==
  ASSUME NEW t, NEW n, NEW h, NEW d, Shaped(t, n, d), Foretells(t, h, d, FALSE),
         NEW L, NEW v, NEW e, Writes(t, n, d, L, v, e)
  PROVE  Foretells(t, h, e, FALSE)
<1>1. n \in Nat /\ DOMAIN t = 1..n
  BY DEF Shaped
<1>2. h.first # 0 => h.init # 0 /\ h.count > 0
  BY DEF Foretells
<1>3. LeadsTo(t, e, FALSE, h.first, 1)
  BY DEF Foretells, LeadsTo
<1>4. ASSUME NEW i \in 1..n
      PROVE  /\ Intact(e, t[i]) \/ Blank(e, t[i])
             /\ LeadsTo(t, e, FALSE, e[t[i].orig].next, i + 1)
  <2>1. CASE i = L
    <3>1. Intact(e, t[i]) \/ Blank(e, t[i])
      BY <2>1, WritingSees DEF Writes
    <3>2. e[t[i].orig] = v
      BY <2>1 DEF Writes
    <3> QED
      BY <1>1, <2>1, <3>1, <3>2 DEF Writes, LeadsTo
  <2>2. CASE i # L
    <3>1. e[t[i].orig] = d[t[i].orig]
      BY <2>2, WritingSees
    <3>2. /\ Intact(d, t[i]) \/ Blank(d, t[i])
          /\ LeadsTo(t, d, FALSE, d[t[i].orig].next, i + 1)
      BY <1>1 DEF Foretells
    <3> QED
      BY <3>1, <3>2 DEF Intact, Blank, LeadsTo
  <2> QED
    BY <2>1, <2>2
<1> QED
  BY <1>1, <1>2, <1>3, <1>4 DEF Foretells

\* The disk leads on to all inodes, or to those up to the L-th.
LEMMA WritingReaches ==
  ASSUME NEW t, NEW n, NEW h, NEW d, Shaped(t, n, d), NEW L, NEW v, NEW e,
         Writes(t, n, d, L, v, e), NEW i \in 1..n, Reach(t, h, d, i),
         i <= L \/ v.next # 0
  PROVE  Reach(t, h, e, i)
<1>1. n \in Nat /\ i \in Nat /\ L \in Nat /\ \A j \in 1..(i - 1) : j \in 1..n /\ j + 1 \in 1..i
  BY DEF Shaped, Writes
<1>2. ASSUME NEW j \in 1..(i - 1)
      PROVE  e[t[j].orig].next = d[t[j].orig].next
  <2>1. CASE j # L
    BY <1>1, <2>1, WritingSees
  <2>2. CASE j = L
    <3>1. v.next # 0
      BY <1>1, <2>2
    <3>2. v.next = t[j + 1].orig /\ e[t[j].orig] = v
      BY <2>2, <3>1 DEF Writes
    <3>3. Pointer(t, h, d, j + 1) = t[j + 1].orig /\ j + 1 # 1 /\ (j + 1) - 1 = j
      BY <1>1 DEF Reach
    <3>4. d[t[j].orig].next = t[j + 1].orig
      BY <3>3 DEF Pointer
    <3> QED
      BY <3>2, <3>4
  <2> QED
    BY <2>1, <2>2
<1> QED
  BY <1>1, <1>2, ReachKept

\* save_Bs of the process writes the inodes of its table.
LEMMA SaveInodeWrites ==
  ASSUME DiskInv, SaveInode
  PROVE  /\ Live = table /\ Live' = Live /\ UNCHANGED header /\ ~Beginning' /\ ~Deleting'
         /\ \E n, L : /\ Shaped(Live, n, data) /\ Writes(Live, n, data, L, Live[L], data')
                      /\ Live[L].next = 0 => L = n
<1>1. pc = "saveInode" /\ Live = table
  BY DEF SaveInode, Live
<1>2. Live' = Live
  BY SaveLive DEF Save
<1>3. ~Beginning' /\ ~Deleting'
  BY DEF SaveInode, Saved, Beginning, Deleting
<1>4. PICK n, L : n = Len(table) /\ L = op.left
  OBVIOUS
<1>5. Shaped(table, n, data)
  BY <1>1, <1>4, LiveShaped
<1>6. L \in 1..n
  BY <1>1, <1>4 DEF DiskInv, TypeInv, Cursors
<1>7. table[L].orig # 0 /\ table[L].orig \in Blocks /\ table[L] \in Inodes
  BY <1>5, <1>6 DEF Shaped
<1>8. header' = header /\ data' = [data EXCEPT ![table[L].orig] = table[L]]
  BY <1>4, <1>7 DEF SaveInode
<1>9. /\ data'[table[L].orig] = table[L]
      /\ \A c \in Blocks : c # table[L].orig => data'[c] = data[c]
  BY <1>7, <1>8 DEF DiskInv, TypeInv, TypeOK
<1>10. /\ table[L].next = IF L = n THEN 0 ELSE table[L + 1].orig
       /\ L # n => L + 1 \in 1..n /\ table[L + 1].orig # 0
  BY <1>1, <1>4, <1>5, <1>6 DEF DiskInv, Linked, Chained, Shaped
<1>11. Writes(table, n, data, L, table[L], data')
  BY <1>6, <1>7, <1>9, <1>10 DEF Writes, Alike
<1> QED
  BY <1>1, <1>2, <1>3, <1>5, <1>8, <1>10, <1>11

LEMMA SaveInodeSees ==
  ASSUME DiskInv, DiskInv', SaveInode
  PROVE  KeepsSeen
<1>1. Live' = Live /\ UNCHANGED header /\ ~Beginning' /\ ~Deleting'
  BY SaveInodeWrites
<1>2. PICK n, L : /\ Shaped(Live, n, data) /\ Writes(Live, n, data, L, Live[L], data')
                  /\ Live[L].next = 0 => L = n
  BY SaveInodeWrites
<1>3. PICK t, h, d, e : t = Live /\ h = header /\ d = data /\ e = data'
  OBVIOUS
<1>4. /\ Shaped(t, n, d) /\ Writes(t, n, d, L, t[L], e)
      /\ n \in Nat /\ L \in 1..n /\ DOMAIN t = 1..n
  BY <1>2, <1>3 DEF Shaped, Writes
<1>5. ASSUME NEW i, Reached(i) PROVE StillReached(i)
  <2>1. i \in 1..n /\ Reach(t, h, d, i)
    BY <1>3, <1>4, <1>5 DEF Reached
  <2>2. i <= L \/ t[L].next # 0
    BY <1>2, <1>3, <1>4, <2>1
  <2>3. Reach(t, h, e, i)
    BY <1>4, <2>1, <2>2, WritingReaches
  <2> QED
    BY <1>1, <1>3, <1>4, <2>1, <2>3 DEF StillReached, Reached
<1>6. ASSUME NEW i, Seen(i) PROVE StillSeen(i)
  <2>1. i \in 1..n /\ Reached(i)' /\ Intact(d, t[i])
    BY <1>3, <1>4, <1>5, <1>6 DEF Seen, Reached, StillReached
  <2>2. Intact(e, t[i])
    <3>1. CASE i = L
      BY <1>4, <2>1, <3>1, WritingSees DEF Alike
    <3>2. CASE i # L
      <4>1. e[t[i].orig] = d[t[i].orig]
        BY <1>4, <2>1, <3>2, WritingSees
      <4> QED
        BY <2>1, <4>1 DEF Intact
    <3> QED
      BY <3>1, <3>2
  <2> QED
    BY <1>1, <1>3, <2>1, <2>2 DEF StillSeen, Seen, Alike
<1> QED
  BY <1>5, <1>6 DEF KeepsSeen

\* An inode before the one that rm_file drops.
LEMMA ClearInodeSees ==
  ASSUME DiskInv, DiskInv', ClearInode, NEW i, Seen(i), i < Touched
  PROVE  StillSeen(i)
<1>1. /\ pc = "clearInode" /\ Live = table /\ Live' = table'
      /\ ~Beginning' /\ ~Deleting'
  BY DEF ClearInode, Live, Deleting, Beginning
<1>2. PICK k \in DOMAIN table : k = Touched
  BY <1>1, TouchedFound DEF DiskInv, TypeInv, Cursors, Touched
<1>3. PICK n : n = Len(table)
  OBVIOUS
<1>4. PICK t, u, h, d, e : /\ t = table /\ u = table' /\ h = header
                           /\ d = data /\ e = data'
  OBVIOUS
<1>5. Shaped(t, n, d) /\ DOMAIN t = 1..n /\ n \in Nat
  BY <1>1, <1>3, <1>4, LiveShaped DEF Shaped
<1>6. /\ DOMAIN u = 1..(n - 1) /\ Picks(Pick(k), k, n)
      /\ \A j \in 1..(n - 1) : Alike(t[Pick(k)[j]], u[j])
      /\ header' = header
      /\ \A b \in Blocks : e[b] = IF b = t[k].orig THEN Zero ELSE d[b]
  BY <1>2, <1>3, <1>4, InodeGone
<1>7. /\ i \in 1..n /\ i \in Nat /\ k \in 1..n /\ i < k
      /\ \A j \in 1..i : j \in 1..n /\ j \in 1..(n - 1) /\ j < k
  BY <1>1, <1>2, <1>4, <1>5 DEF Seen, Reached
<1>8. ASSUME NEW j \in 1..i
      PROVE  Alike(t[j], u[j]) /\ e[t[j].orig] = d[t[j].orig]
  <2>1. Pick(k)[j] = j
    BY <1>6, <1>7 DEF Picks
  <2>2. Alike(t[j], u[j])
    BY <1>6, <1>7, <2>1
  <2>3. t[j].orig \in Blocks /\ t[j].orig # t[k].orig
    BY <1>5, <1>7 DEF Shaped
  <2> QED
    BY <1>6, <2>2, <2>3
<1>9. i \in 1..i /\ i \in DOMAIN u
  BY <1>6, <1>7
<1>10. Reach(u, h, e, i)
  <2>1. Reach(t, h, d, i)
    BY <1>1, <1>4 DEF Seen, Reached
  <2>2. \A j \in 1..i : u[j].orig = t[j].orig /\ e[t[j].orig].next = d[t[j].orig].next
    BY <1>8 DEF Alike
  <2> QED
    BY <1>7, <2>1, <2>2, ReachKept
<1>11. Intact(e, u[i])
  <2>1. t[i] \in Inodes /\ d[t[i].orig] \in Payloads
    BY <1>5, <1>7 DEF Shaped
  <2>2. u[i] \in Inodes
    BY <1>4, <1>9, ElementOfSeq, LenProperties DEF DiskInv, TypeInv, TypeOK
  <2>3. Intact(d, t[i])
    BY <1>1, <1>4 DEF Seen
  <2> QED
    BY <1>8, <1>9, <2>1, <2>2, <2>3, IntactKept
<1> QED
  BY <1>1, <1>4, <1>6, <1>8, <1>9, <1>10, <1>11 DEF StillSeen, Seen, Reached
-----------------------------------------------------------------------------
(* No step but those of a deletion changes what a reader of the disk gets. *)

\* rd_file would return the text of a figure whose inode is seen.
Showing ==
  deletion # "torn" =>
    \A i, x : \A tail \in [Blocks -> Seq(Chars)] :
      Tracked(tail) /\ Seen(i) /\ Live[i].name = x =>
        OnDisk(x) = IF Live[i].count = 0 THEN NotFound ELSE Found(tail[Live[i].start])

\* So it is under the invariant.
LEMMA KilledShows == KilledInv => Showing
BY SeenReads DEF KilledInv, RestartInv, Showing

\* The chains tell the same after a step that takes no block for a figure.
LEMMA SameTail ==
  ASSUME DiskInv, DiskInv', NEW tail \in [Blocks -> Seq(Chars)], Tracked(tail),
         WriteInode \/ WriteData \/ Link \/ Save \/ ClearData \/ ClearInode
  PROVE  Tracked(tail)'
<1>1. PICK who \in [Blocks -> BlockOrNone], pos \in [Blocks -> Nat] :
        ChainsAre(who, pos) /\ Tells(who, pos, tail)
  BY DEF Tracked
<1>2. CASE WriteInode
  BY <1>1, <1>2, WriteInodeChains, WriteInodeTells DEF Tracked
<1>3. CASE WriteData
  BY <1>1, <1>3, WriteDataChains, WriteDataTells DEF Tracked
<1>4. CASE Link
  BY <1>1, <1>4, LinkChains, LinkTells DEF Tracked
<1>5. CASE Save
  BY <1>1, <1>5, SaveChains, SaveTells DEF Tracked
<1>6. CASE ClearData
  <2>1. PICK w \in [Blocks -> BlockOrNone] : Loses(who, op.cur, w)
    BY BlockTyped DEF Loses
  <2> QED
    BY <1>1, <1>6, <2>1, ClearDataChains, ClearDataTells DEF Tracked
<1>7. CASE ClearInode
  BY <1>1, <1>7, ClearInodeChains, ClearInodeTells DEF Tracked
<1> QED
  BY <1>2, <1>3, <1>4, <1>5, <1>6, <1>7

\* A figure that a kill would leave readable, and that is still seen, reads
\* the same.
LEMMA StillRead ==
  ASSUME DiskInv, KillInv, deletion # "torn", deletion' # "torn",
         Showing, Showing',
         NEW tail \in [Blocks -> Seq(Chars)], Tracked(tail), Tracked(tail)',
         NEW x, OnDisk(x).text # <<>>, Deleting => x # op.name,
         \A i : Seen(i) /\ Live[i].name = x => StillSeen(i)
  PROVE  OnDisk(x)' = OnDisk(x)
<1>1. PICK i : Seen(i) /\ Live[i].count # 0 /\ Live[i].name = x
  BY ReadsSeen DEF NotFound
<1>2. StillSeen(i)
  BY <1>1
<1>3. OnDisk(x) = Found(tail[Live[i].start])
  BY <1>1 DEF Showing
<1>4. Seen(i)' /\ Live'[i].name = x /\ Live'[i].count # 0 /\ Live'[i].start = Live[i].start
  BY <1>1, <1>2 DEF StillSeen, Alike
<1>5. OnDisk(x)' = Found(tail[Live'[i].start])
  BY <1>4 DEF Showing, Found, NotFound
<1> QED
  BY <1>3, <1>4, <1>5

\* Steps that write no inode, no block of text and no link.
LEMMA QuietDisk ==
  ASSUME \/ Load \/ Close \/ ExtendDisk \/ AllocInode \/ AllocFirst \/ AllocNext
         \/ Crash \/ UNCHANGED vars
         \/ \E n \in Names : DeleteFile(n) \/ \E t \in Texts : MakeFile(n, t)
  PROVE  UNCHANGED <<header, data, next>>
BY DEF Load, Open, LoadInode, Close, ExtendDisk, AllocInode, AllocFirst, AllocNext, Crash,
       DeleteFile, MakeFile, TakeBlock, disk, vars

\* Only a kill tears a deletion.
LEMMA NotTorn ==
  ASSUME [Next]_vars, deletion # "torn"
  PROVE  deletion' # "torn"
BY DEF Next, Load, Open, LoadInode, Save, Close, SaveHeader, SaveInode, Saved, ExtendDisk,
       Make, AllocInode, WriteInode, AllocFirst, WriteData, AllocNext, Link, Delete,
       ClearData, ClearInode, DeleteFile, MakeFile, vars, history

\* The step of KillKeepsFigures.
LEMMA StepKeepsFigures ==
  ASSUME KilledInv, KilledInv', Showing, Showing', [Next \/ Crash]_vars,
         deletion # "torn", ~Deleting, NEW x, OnDisk(x).text # <<>>
  PROVE  OnDisk(x)' = OnDisk(x)
<1>1. CASE \/ Load \/ Close \/ ExtendDisk \/ AllocInode \/ AllocFirst \/ AllocNext
           \/ Crash \/ UNCHANGED vars
           \/ \E n \in Names : DeleteFile(n) \/ \E t \in Texts : MakeFile(n, t)
  BY <1>1, QuietDisk, SameDisk
<1>2. CASE WriteInode \/ WriteData \/ Link \/ SaveHeader \/ SaveInode
  <2>1. [Next]_vars
    BY <1>2 DEF Next, Make, Save
  <2>2. deletion' # "torn"
    BY <2>1, NotTorn
  <2>3. DiskInv /\ KillInv /\ DiskInv'
    BY <2>2 DEF KilledInv, RestartInv
  <2>4. PICK tail \in [Blocks -> Seq(Chars)] : Tracked(tail)
    BY DEF KilledInv
  <2>5. Tracked(tail)'
    BY <1>2, <2>3, <2>4, SameTail DEF Save
  <2>6. PICK who \in [Blocks -> BlockOrNone], pos \in [Blocks -> Nat] :
          ChainsAre(who, pos)
    BY <2>4 DEF Tracked
  <2>7. KeepsSeen
    BY <1>2, <2>3, <2>6, WriteInodeSees, WriteDataSees, LinkSees, SaveHeaderSees,
       SaveInodeSees
  <2> QED
    BY <2>2, <2>3, <2>4, <2>5, <2>7, StillRead DEF KeepsSeen
<1>3. ~Delete
  BY DEF Delete, ClearData, ClearInode, Deleting
<1> QED
  BY <1>1, <1>2, <1>3 DEF Next, Make, Save

\* The figure being deleted has the place of its inode, if the disk leads there.
LEMMA PlaceOfTouched ==
  ASSUME KilledInv, deletion # "torn", pc = "clearInode", NEW i, Seen(i),
         Position(op.name) # 0 => Position(Live[i].name) < Position(op.name)
  PROVE  i < Touched
<1>1. DiskInv /\ KillInv /\ Running /\ Live = table
  BY DEF KilledInv, RestartInv, Running, Live
<1>2. PICK tail \in [Blocks -> Seq(Chars)] : Tracked(tail)
  BY DEF KilledInv
<1>3. Distinct(Live)
  BY <1>2 DEF Tracked, Tells
<1>4. PICK s, m, n : s = DiskTable /\ Shows(s, m, n)
  BY <1>1, DiskShows
<1>5. n \in Nat /\ DOMAIN table = 1..n /\ m \in 0..n /\ m \in Nat
  BY <1>1, <1>4 DEF Shows
<1>6. PICK k \in 1..n : k = Touched /\ table[k].name = op.name
  <2>1. Touched # 0 /\ table \in Seq(Inodes)
    BY <1>1 DEF DiskInv, TypeInv, TypeOK, Cursors, Touched
  <2> QED
    BY <1>5, <2>1, IndexFound DEF Touched, IndexOf
<1>7. i \in 1..n /\ Reach(table, header, data, i)
  BY <1>1, <1>5 DEF Seen, Reached
<1>8. \A j \in 1..n : Reach(table, header, data, j) => j \in 1..m
  <2> SUFFICES ASSUME NEW j \in 1..n, Reach(table, header, data, j) PROVE j \in 1..m
    OBVIOUS
  <2>1. j <= m
    BY <1>1, <1>4 DEF Shows
  <2> QED
    BY <1>5, <2>1
<1>9. \A j \in 1..m : Position(table[j].name) = j
  BY <1>1, <1>3, <1>4, ShownIndex DEF Position
<1>10. SUFFICES ASSUME ~(i < k) PROVE FALSE
  BY <1>6, <1>7
<1>11. k \in Nat /\ i \in Nat /\ k <= i /\ k # 0
  BY <1>6, <1>7, <1>10
<1>12. Reach(table, header, data, k)
  BY <1>7, <1>11, ReachLess
<1>13. Position(op.name) = k /\ Position(Live[i].name) = i
  BY <1>1, <1>6, <1>7, <1>8, <1>9, <1>12
<1> QED
  BY <1>11, <1>13

\* The step of KillInDeletionKeepsEarlier.
LEMMA StepKeepsEarlier ==
  ASSUME KilledInv, KilledInv', Showing, Showing', [Next \/ Crash]_vars,
         deletion = "unsaved", Deleting, NEW x, x # op.name, OnDisk(x).text # <<>>,
         pc = "clearInode" /\ Position(op.name) # 0 => Position(x) < Position(op.name)
  PROVE  OnDisk(x)' = OnDisk(x)
<1>1. CASE Crash \/ UNCHANGED vars
  BY <1>1, QuietDisk, SameDisk
<1>2. CASE ClearData \/ ClearInode
  <2>1. [Next]_vars
    BY <1>2 DEF Next, Delete
  <2>2. deletion' # "torn"
    BY <2>1, NotTorn
  <2>3. DiskInv /\ KillInv /\ DiskInv'
    BY <2>2 DEF KilledInv, RestartInv
  <2>4. PICK tail \in [Blocks -> Seq(Chars)] : Tracked(tail)
    BY DEF KilledInv
  <2>5. Tracked(tail)'
    BY <1>2, <2>3, <2>4, SameTail
  <2>6. PICK who \in [Blocks -> BlockOrNone], pos \in [Blocks -> Nat] :
          ChainsAre(who, pos)
    BY <2>4 DEF Tracked
  <2>7. ASSUME NEW i, Seen(i), Live[i].name = x PROVE StillSeen(i)
    <3>1. CASE ClearData
      BY <2>3, <2>6, <2>7, <3>1, ClearDataSees DEF KeepsSeen
    <3>2. CASE ClearInode
      <4>1. i < Touched
        BY <2>7, <3>2, PlaceOfTouched DEF ClearInode
      <4> QED
        BY <2>3, <2>7, <3>2, <4>1, ClearInodeSees
    <3> QED
      BY <1>2, <3>1, <3>2
  <2> QED
    BY <2>2, <2>3, <2>4, <2>5, <2>7, StillRead
<1>3. ~(Load \/ Save \/ ExtendDisk \/ Make
        \/ \E n \in Names : DeleteFile(n) \/ \E t \in Texts : MakeFile(n, t))
  BY DEF Load, Open, LoadInode, Save, Close, SaveHeader, SaveInode, ExtendDisk, Make,
         AllocInode, WriteInode, AllocFirst, WriteData, AllocNext, Link, DeleteFile, MakeFile,
         Deleting
<1> QED
  BY <1>1, <1>2, <1>3 DEF Next, Delete

\* Whatever the names, the texts, the block size and the disk, and however often
\* the process is killed, no two figures that rd_file or rm_file would follow
\* share a block, and no block of a figure is free for empty_B to hand out, until
\* a kill cuts a deletion short.
THEOREM KillsKeepFiguresApart == CrashSpec => []KilledFiguresApart
<1>1. Init => KilledInv
  BY InitKilled
<1>2. KilledInv /\ [Next \/ Crash]_vars => KilledInv'
  BY NextKilled
<1>3. KilledInv => KilledFiguresApart
  BY ApartAtRest DEF KilledInv, RestartInv, KilledFiguresApart, Tracked, Chains
<1> QED
  BY <1>1, <1>2, <1>3, PTL DEF CrashSpec

\* No write of make_file or of save_Bs, and no kill, takes from the disk a figure
\* that the constructor would find there, nor changes its text, until a kill cuts
\* a deletion short.
THEOREM KillsLoseNoFigure == CrashSpec => KillKeepsFigures
<1>1. Init => KilledInv
  BY InitKilled
<1>2. KilledInv /\ [Next \/ Crash]_vars => KilledInv'
  BY NextKilled
<1>3. KilledInv => Showing
  BY KilledShows
<1>4. ASSUME KilledInv, KilledInv', Showing, Showing', [Next \/ Crash]_vars
      PROVE  [deletion # "torn" /\ ~Deleting =>
                \A n \in Names : OnDisk(n).text # <<>> => OnDisk(n)' = OnDisk(n)]_vars
  BY <1>4, StepKeepsFigures
<1> QED
  BY <1>1, <1>2, <1>3, <1>4, PTL DEF CrashSpec, KillKeepsFigures

\* A deletion that no destructor has saved puts at risk the figures deleted and
\* those behind them in the chain of inodes on the disk: the figures before stay
\* readable with the same text, should the process be killed.
THEOREM KillsInDeletionKeepEarlier == CrashSpec => KillInDeletionKeepsEarlier
<1>1. Init => KilledInv
  BY InitKilled
<1>2. KilledInv /\ [Next \/ Crash]_vars => KilledInv'
  BY NextKilled
<1>3. KilledInv => Showing
  BY KilledShows
<1>4. ASSUME KilledInv, KilledInv', Showing, Showing', [Next \/ Crash]_vars
      PROVE  [Deleting /\ deletion = "unsaved" =>
                \A n \in Names \ {op.name} :
                  /\ OnDisk(n).text # <<>>
                  /\ pc = "clearInode" /\ Position(op.name) # 0 =>
                       Position(n) < Position(op.name)
                  => OnDisk(n)' = OnDisk(n)]_vars
  BY <1>4, StepKeepsEarlier
<1> QED
  BY <1>1, <1>2, <1>3, <1>4, PTL DEF CrashSpec, KillInDeletionKeepsEarlier

=============================================================================
