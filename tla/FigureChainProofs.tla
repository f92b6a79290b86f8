------------------------- MODULE FigureChainProofs -------------------------
(***************************************************************************)
(* The counters of the SuperBlock agree with the flags on the disk, for    *)
(* every set of names and texts, every block size and every disk.  They    *)
(* are changed by counting: rm_file clears countBlock blocks whatever the  *)
(* chain it follows, so that the proof needs to know that the chain of     *)
(* every figure has as many blocks as countBlock says.                     *)
(* From the same chains: no block is in two figures and, when no operation *)
(* runs, the blocks in use are those of the figures and those that         *)
(* deletions of empty figures left behind (the variable leaked of          *)
(* FigureLeaks; no other theorem here speaks of it).                       *)
(* And what the chains tell: along the chain of a figure that no operation *)
(* changes, rd_file reads the text that make_file was given.  tail[b] is   *)
(* the part of that text from block b on.  With it, File_system is shown   *)
(* to implement the map of FigureStore, whatever the names, the texts, the *)
(* block size and the disk, through every restart.                         *)
(***************************************************************************)
EXTENDS FigureDiskProofs, FigureLeaks, FiniteSetTheorems

-----------------------------------------------------------------------------
(* Chains.  A chain is described from its blocks: who[b] is the inode      *)
(* block of the figure that b belongs to, or 0, and pos[b] its place in    *)
(* the text.  Figure i of table t has blocks at the places lo[i]..hi[i],   *)
(* each below re[i] linked to the one at the next place.                   *)

Owned(t, U, nx, who, pos, lo, hi, re) ==
  /\ \A b \in Blocks : who[b] # 0 =>
       /\ b \in U
       /\ \E i \in DOMAIN t : who[b] = t[i].orig /\ pos[b] \in lo[i]..hi[i]
       /\ \A i \in DOMAIN t : b # t[i].orig
  /\ \A b, c \in Blocks : who[b] # 0 /\ who[b] = who[c] /\ pos[b] = pos[c] => b = c
  /\ \A i \in DOMAIN t : lo[i] = 1 /\ hi[i] >= 1 =>
       t[i].start \in Blocks /\ who[t[i].start] = t[i].orig /\ pos[t[i].start] = 1
  /\ \A b \in Blocks, i \in DOMAIN t :
       who[b] # 0 /\ who[b] = t[i].orig /\ pos[b] < re[i] =>
         nx[b] \in Blocks /\ who[nx[b]] = who[b] /\ pos[nx[b]] = pos[b] + 1

\* The figure that the operation under way makes or deletes.
Touched == IndexOf(op.name)

Filling == pc \in {"dataWrite", "nextBlock", "link"}

Lo == [i \in DOMAIN Live |->
         IF Deleting /\ i = Touched THEN Live[i].count - op.left + 1 ELSE 1]
Re == [i \in DOMAIN Live |->
         IF Filling /\ i = Touched THEN Live[i].count + 1 ELSE Live[i].count]
Hi == [i \in DOMAIN Live |->
         IF pc = "link" /\ op.nxt # 0 /\ i = Touched THEN Re[i] + 1 ELSE Re[i]]

\* Where the operation under way is in its chain.
AtPlace(who, pos) ==
  /\ pc \in {"inodeBlock", "inodeWrite"} => Touched = 0
  /\ pc = "inodeWrite" => who[op.cur] = 0
  /\ pc = "firstBlock" => Touched # 0 /\ table[Touched].count = 0
  /\ pc = "nextBlock" => op.rest # <<>>
  /\ pc = "link" => (op.nxt = 0 <=> op.rest = <<>>)
  /\ Filling =>
       /\ Touched # 0
       /\ op.cur \in Blocks /\ who[op.cur] = table[Touched].orig
       /\ pos[op.cur] = table[Touched].count + 1
  /\ pc = "link" /\ op.nxt # 0 =>
       /\ op.nxt \in Blocks /\ who[op.nxt] = table[Touched].orig
       /\ pos[op.nxt] = table[Touched].count + 2
  /\ pc = "clearData" =>
       /\ op.left \in 1..table[Touched].count
       /\ op.cur \in Blocks /\ who[op.cur] = table[Touched].orig
       /\ pos[op.cur] = table[Touched].count - op.left + 1
  /\ pc = "clearInode" => op.left = 0

ChainsAre(who, pos) ==
  /\ Owned(Live, UsedBlocks, next, who, pos, Lo, Hi, Re)
  /\ AtPlace(who, pos)

Chains == \E who \in [Blocks -> BlockOrNone], pos \in [Blocks -> Nat] :
            ChainsAre(who, pos)

\* The counters c of a SuperBlock or of a header.
Agree(c, U) ==
  /\ c.free + c.used = c.total - InitBlocks
  /\ c.used = Cardinality(U)
  /\ U \subseteq InitBlocks..(c.total - 1)

Counted ==
  /\ pc # "closed" => Agree(sb, UsedBlocks)
  /\ pc = "closed" => IF header.init # 0 THEN Agree(header, UsedBlocks) ELSE UsedBlocks = {}
  /\ pc = "saveInode" =>
       /\ header.init # 0
       /\ header.total = sb.total /\ header.free = sb.free /\ header.used = sb.used

CountInv == RestartInv /\ Chains /\ Counted

-----------------------------------------------------------------------------
(* find_inode_by_name.                                                     *)

\* The index found is the first with that name, and none has it if none is
\* found.
LEMMA IndexLeast ==
  ASSUME NEW t \in Seq(Inodes), NEW n
  PROVE  /\ IndexIn(t, n) = 0 => \A j \in DOMAIN t : t[j].name # n
         /\ IndexIn(t, n) # 0 => \A j \in 1..(IndexIn(t, n) - 1) : t[j].name # n
<1> DEFINE T == {i \in DOMAIN t : t[i].name = n}
<1>0. DOMAIN t = 1..Len(t) /\ Len(t) \in Nat
  BY LenProperties
<1>1. CASE T = {}
  <2>1. \A i \in DOMAIN t : t[i].name # n
    BY <1>1
  <2>2. IndexIn(t, n) = 0
    BY <2>1 DEF IndexIn
  <2> QED
    BY <2>1, <2>2
<1>2. CASE T # {}
  <2>1. T \subseteq Nat
    BY <1>0
  <2>2. PICK x \in T : \A y \in T : x <= y
    BY <1>2, <2>1, LeastNumber
  <2>3. \A j \in 1..(x - 1) : t[j].name # n
    <3> SUFFICES ASSUME NEW j \in 1..(x - 1), t[j].name = n PROVE FALSE
      OBVIOUS
    <3>1. x \in 1..Len(t)
      BY <1>0
    <3>2. j \in T
      BY <1>0, <3>1
    <3> QED
      BY <2>2, <3>1, <3>2
  <2>4. /\ IndexIn(t, n) \in DOMAIN t
        /\ \A j \in 1..(IndexIn(t, n) - 1) : t[j].name # n
    BY <2>2, <2>3 DEF IndexIn
  <2> QED
    BY <1>0, <2>4
<1> QED
  BY <1>1, <1>2

LEMMA IndexIs ==
  ASSUME NEW t \in Seq(Inodes), NEW n, NEW i \in DOMAIN t, t[i].name = n,
         \A j \in 1..(i - 1) : t[j].name # n
  PROVE  IndexIn(t, n) = i
<1> DEFINE k == IndexIn(t, n)
<1>1. k \in DOMAIN t /\ t[k].name = n /\ \A j \in 1..(k - 1) : t[j].name # n
  BY IndexFound, IndexLeast
<1>2. DOMAIN t = 1..Len(t) /\ Len(t) \in Nat
  BY LenProperties
<1> HIDE DEF k
<1>3. ~(k < i) /\ ~(i < k)
  BY <1>1, <1>2
<1>4. k = i
  BY <1>1, <1>2, <1>3
<1> QED
  BY <1>4 DEF k

LEMMA SameNames ==
  ASSUME NEW t \in Seq(Inodes), NEW u \in Seq(Inodes), NEW n,
         DOMAIN t = DOMAIN u, \A i \in DOMAIN t : t[i].name = u[i].name
  PROVE  IndexIn(u, n) = IndexIn(t, n)
<1>1. CASE IndexIn(t, n) = 0
  <2>1. \A i \in DOMAIN u : u[i].name # n
    BY <1>1, IndexLeast
  <2> QED
    BY <1>1, <2>1 DEF IndexIn
<1>2. CASE IndexIn(t, n) # 0
  <2> DEFINE k == IndexIn(t, n)
  <2>1. k \in DOMAIN t /\ t[k].name = n /\ \A j \in 1..(k - 1) : t[j].name # n
    BY <1>2, IndexFound, IndexLeast
  <2>2. DOMAIN t = 1..Len(t) /\ Len(t) \in Nat
    BY LenProperties
  <2> HIDE DEF k
  <2>3. k \in DOMAIN u /\ u[k].name = n /\ \A j \in 1..(k - 1) : u[j].name # n
    <3>1. 1..(k - 1) \subseteq DOMAIN t
      BY <2>1, <2>2
    <3> QED
      BY <2>1, <3>1
  <2>4. IndexIn(u, n) = k
    BY <2>3, IndexIs
  <2> QED
    BY <2>4 DEF k
<1> QED
  BY <1>1, <1>2

-----------------------------------------------------------------------------
(* What the steps do to chains, for any table.                             *)

\* rm_file clears the first block that is left of figure i.
Clears(t, U, nx, who, pos, lo, hi, i, c, V, mx, who2, lo2) ==
  /\ i \in DOMAIN t /\ c \in Blocks
  /\ who[c] # 0 /\ who[c] = t[i].orig /\ pos[c] = lo[i]
  /\ lo[i] \in Nat /\ lo[i] >= 1 /\ hi[i] \in Nat
  /\ \A j, k \in DOMAIN t : t[j].orig = t[k].orig => j = k
  /\ \A b \in U : b # c => b \in V
  /\ \A b \in Blocks : mx[b] = IF b = c THEN 0 ELSE nx[b]
  /\ lo2[i] = lo[i] + 1 /\ \A j \in DOMAIN t : j # i => lo2[j] = lo[j]
  /\ who2[c] = 0 /\ \A b \in Blocks : b # c => who2[b] = who[b]

LEMMA ClearingOwned ==
  ASSUME NEW t, NEW U, NEW nx, NEW who \in [Blocks -> BlockOrNone],
         NEW pos \in [Blocks -> Nat], NEW lo, NEW hi, NEW re,
         Owned(t, U, nx, who, pos, lo, hi, re),
         NEW i, NEW c, NEW V, NEW mx, NEW who2, NEW lo2,
         Clears(t, U, nx, who, pos, lo, hi, i, c, V, mx, who2, lo2)
  PROVE  Owned(t, V, mx, who2, pos, lo2, hi, re)
<1> USE DEF Clears
<1>1. who2[c] = 0 /\ \A b \in Blocks : b # c => who2[b] = who[b]
  OBVIOUS
<1>2. \A b \in Blocks : who2[b] # 0 =>
        /\ b \in V
        /\ \E j \in DOMAIN t : who2[b] = t[j].orig /\ pos[b] \in lo2[j]..hi[j]
        /\ \A j \in DOMAIN t : b # t[j].orig
  <2> SUFFICES ASSUME NEW b \in Blocks, who2[b] # 0
               PROVE  /\ b \in V
                      /\ \E j \in DOMAIN t : who2[b] = t[j].orig /\ pos[b] \in lo2[j]..hi[j]
                      /\ \A j \in DOMAIN t : b # t[j].orig
    OBVIOUS
  <2>1. b # c /\ who2[b] = who[b] /\ who[b] # 0
    BY <1>1
  <2>2. b \in U /\ \A j \in DOMAIN t : b # t[j].orig
    BY <2>1 DEF Owned
  <2>3. PICK j \in DOMAIN t : who[b] = t[j].orig /\ pos[b] \in lo[j]..hi[j]
    BY <2>1 DEF Owned
  <2>4. CASE j = i
    <3>1. pos[b] # pos[c]
      BY <2>1, <2>3, <2>4 DEF Owned
    <3>2. pos[b] \in lo2[i]..hi[i]
      BY <2>3, <2>4, <3>1
    <3> QED
      BY <2>1, <2>2, <2>3, <2>4, <3>2
  <2>5. CASE j # i
    BY <2>1, <2>2, <2>3, <2>5
  <2> QED
    BY <2>4, <2>5
<1>3. \A b, d \in Blocks : who2[b] # 0 /\ who2[b] = who2[d] /\ pos[b] = pos[d] => b = d
  BY <1>1 DEF Owned
<1>4. \A j \in DOMAIN t : lo2[j] = 1 /\ hi[j] >= 1 =>
        t[j].start \in Blocks /\ who2[t[j].start] = t[j].orig /\ pos[t[j].start] = 1
  <2> SUFFICES ASSUME NEW j \in DOMAIN t, lo2[j] = 1, hi[j] >= 1
               PROVE  /\ t[j].start \in Blocks /\ who2[t[j].start] = t[j].orig
                      /\ pos[t[j].start] = 1
    OBVIOUS
  <2>1. j # i
    OBVIOUS
  <2>2. t[j].start \in Blocks /\ who[t[j].start] = t[j].orig /\ pos[t[j].start] = 1
    BY <2>1 DEF Owned
  <2>3. t[j].start # c
    BY <2>1, <2>2
  <2> QED
    BY <1>1, <2>2, <2>3
<1>5. \A b \in Blocks, j \in DOMAIN t :
        who2[b] # 0 /\ who2[b] = t[j].orig /\ pos[b] < re[j] =>
          mx[b] \in Blocks /\ who2[mx[b]] = who2[b] /\ pos[mx[b]] = pos[b] + 1
  <2> SUFFICES ASSUME NEW b \in Blocks, NEW j \in DOMAIN t,
                      who2[b] # 0, who2[b] = t[j].orig, pos[b] < re[j]
               PROVE  mx[b] \in Blocks /\ who2[mx[b]] = who2[b] /\ pos[mx[b]] = pos[b] + 1
    OBVIOUS
  <2>1. /\ b # c /\ who2[b] = who[b] /\ who[b] # 0 /\ mx[b] = nx[b]
        /\ who[b] = t[j].orig
    BY <1>1
  <2>2. nx[b] \in Blocks /\ who[nx[b]] = who[b] /\ pos[nx[b]] = pos[b] + 1
    BY <2>1 DEF Owned
  <2>3. nx[b] # c
    <3> SUFFICES ASSUME nx[b] = c PROVE FALSE
      OBVIOUS
    <3>1. who[b] = t[i].orig /\ pos[b] + 1 = lo[i]
      BY <2>2
    <3>2. PICK k \in DOMAIN t : who[b] = t[k].orig /\ pos[b] \in lo[k]..hi[k]
      BY <2>1 DEF Owned
    <3>3. k = i
      <4>1. t[k].orig = t[i].orig
        BY Zenon, <3>1, <3>2
      <4> QED
        BY <4>1
    <3> QED
      BY <3>1, <3>2, <3>3
  <2> QED
    BY <1>1, <2>1, <2>2, <2>3
<1> QED
  BY <1>2, <1>3, <1>4, <1>5 DEF Owned

\* Block c, free until now, becomes the block of figure i after its last.
Takes(t, U, who, pos, lo, hi, re, i, c, t2, V, who2, pos2, hi2, re2) ==
  /\ i \in DOMAIN t /\ c \in Blocks /\ c \notin U
  /\ \A j \in DOMAIN t : t[j].orig \in U /\ t[j].orig # 0
  /\ \A j, k \in DOMAIN t : t[j].orig = t[k].orig => j = k
  /\ lo[i] = 1 /\ hi[i] \in Nat
  /\ c \in V /\ \A b \in U : b \in V
  /\ DOMAIN t2 = DOMAIN t /\ \A j \in DOMAIN t : t2[j].orig = t[j].orig
  /\ \A j \in DOMAIN t : j # i => t2[j].start = t[j].start
  /\ hi2[i] = hi[i] + 1 /\ \A j \in DOMAIN t : j # i => hi2[j] = hi[j]
  /\ re2[i] \in Nat /\ re2[i] <= hi[i] + 1
  /\ \A j \in DOMAIN t : j # i => re2[j] = re[j]
  /\ \/ hi[i] = 0 /\ t2[i].start = c
     \/ hi[i] >= 1 /\ t2[i].start = t[i].start /\ re2[i] = re[i]
  /\ who2[c] = t[i].orig /\ pos2[c] = hi[i] + 1
  /\ \A b \in Blocks : b # c => who2[b] = who[b] /\ pos2[b] = pos[b]

\* wr_file takes a block for a figure.
LEMMA TakingOwned ==
  ASSUME NEW t, NEW U, NEW nx, NEW who \in [Blocks -> BlockOrNone],
         NEW pos \in [Blocks -> Nat], NEW lo, NEW hi, NEW re,
         Owned(t, U, nx, who, pos, lo, hi, re),
         NEW i, NEW c, NEW t2, NEW V, NEW who2, NEW pos2, NEW hi2, NEW re2,
         Takes(t, U, who, pos, lo, hi, re, i, c, t2, V, who2, pos2, hi2, re2)
  PROVE  Owned(t2, V, nx, who2, pos2, lo, hi2, re2)
<1> USE DEF Takes
<1>1. /\ who2[c] = t[i].orig /\ pos2[c] = hi[i] + 1
      /\ \A b \in Blocks : b # c => who2[b] = who[b] /\ pos2[b] = pos[b]
      /\ who[c] = 0
  BY DEF Owned
<1>0. \A b \in Blocks : who[b] # 0 =>
        /\ b \in U /\ b # c
        /\ \A j \in DOMAIN t : b # t[j].orig
        /\ \A j \in DOMAIN t : who[b] = t[j].orig => pos[b] \in lo[j]..hi[j]
  BY DEF Owned
<1>2. \A b \in Blocks : who2[b] # 0 =>
        /\ b \in V
        /\ \E j \in DOMAIN t2 : who2[b] = t2[j].orig /\ pos2[b] \in lo[j]..hi2[j]
        /\ \A j \in DOMAIN t2 : b # t2[j].orig
  <2> SUFFICES ASSUME NEW b \in Blocks, who2[b] # 0
               PROVE  /\ b \in V
                      /\ \E j \in DOMAIN t2 : who2[b] = t2[j].orig /\ pos2[b] \in lo[j]..hi2[j]
                      /\ \A j \in DOMAIN t2 : b # t2[j].orig
    OBVIOUS
  <2>1. CASE b = c
    <3>1. pos2[b] \in lo[i]..hi2[i]
      BY <1>1, <2>1
    <3>2. \A j \in DOMAIN t2 : b # t2[j].orig
      BY <2>1
    <3> QED
      BY <1>1, <2>1, <3>1, <3>2
  <2>2. CASE b # c
    <3>1. who2[b] = who[b] /\ who[b] # 0 /\ pos2[b] = pos[b]
      BY <1>1, <2>2
    <3>2. b \in V /\ \A j \in DOMAIN t2 : b # t2[j].orig
      BY <1>0, <3>1
    <3>3. PICK j \in DOMAIN t : who[b] = t[j].orig /\ pos[b] \in lo[j]..hi[j]
      BY <3>1 DEF Owned
    <3>4. pos[b] \in lo[j]..hi2[j]
      BY <3>3
    <3> QED
      BY <3>1, <3>2, <3>3, <3>4
  <2> QED
    BY <2>1, <2>2
<1>3. \A b, d \in Blocks : who2[b] # 0 /\ who2[b] = who2[d] /\ pos2[b] = pos2[d] => b = d
  <2>1. \A b \in Blocks : b # c /\ who2[b] = t[i].orig => pos2[b] # hi[i] + 1
    BY <1>0, <1>1
  <2>2. \A b, d \in Blocks : who[b] # 0 /\ who[b] = who[d] /\ pos[b] = pos[d] => b = d
    BY DEF Owned
  <2> QED
    BY <1>1, <2>1, <2>2
<1>4. \A j \in DOMAIN t2 : lo[j] = 1 /\ hi2[j] >= 1 =>
        t2[j].start \in Blocks /\ who2[t2[j].start] = t2[j].orig /\ pos2[t2[j].start] = 1
  <2> SUFFICES ASSUME NEW j \in DOMAIN t2, lo[j] = 1, hi2[j] >= 1
               PROVE  /\ t2[j].start \in Blocks /\ who2[t2[j].start] = t2[j].orig
                      /\ pos2[t2[j].start] = 1
    OBVIOUS
  <2>1. CASE j = i /\ hi[i] = 0
    BY <1>1, <2>1
  <2>2. CASE j # i \/ hi[i] >= 1
    <3>1. hi[j] >= 1 /\ t2[j].start = t[j].start
      BY <2>2
    <3>2. t[j].start \in Blocks /\ who[t[j].start] = t[j].orig /\ pos[t[j].start] = 1
      BY <3>1 DEF Owned
    <3>3. t[j].start # c
      BY <1>0, <3>2
    <3> QED
      BY <1>1, <3>1, <3>2, <3>3
  <2> QED
    BY <2>1, <2>2
<1>5. \A b \in Blocks, j \in DOMAIN t2 :
        who2[b] # 0 /\ who2[b] = t2[j].orig /\ pos2[b] < re2[j] =>
          nx[b] \in Blocks /\ who2[nx[b]] = who2[b] /\ pos2[nx[b]] = pos2[b] + 1
  <2> SUFFICES ASSUME NEW b \in Blocks, NEW j \in DOMAIN t2,
                      who2[b] # 0, who2[b] = t2[j].orig, pos2[b] < re2[j]
               PROVE  nx[b] \in Blocks /\ who2[nx[b]] = who2[b] /\ pos2[nx[b]] = pos2[b] + 1
    OBVIOUS
  <2>1. b # c
    <3> SUFFICES ASSUME b = c PROVE FALSE
      OBVIOUS
    <3>1. j = i
      BY <1>1
    <3> QED
      BY <1>1, <3>1
  <2>2. who2[b] = who[b] /\ who[b] # 0 /\ pos2[b] = pos[b]
    BY <1>1, <2>1
  <2>3. re2[j] = re[j]
    <3>1. CASE j # i
      BY <3>1
    <3>2. CASE j = i
      <4>1. who[b] = t[i].orig
        BY <2>2, <3>2
      <4>2. pos[b] \in 1..hi[i]
        BY <1>0, <2>2, <4>1
      <4>3. hi[i] # 0
        BY <4>2
      <4> QED
        BY <3>2, <4>3
    <3> QED
      BY <3>1, <3>2
  <2>4. nx[b] \in Blocks /\ who[nx[b]] = who[b] /\ pos[nx[b]] = pos[b] + 1
    <3>1. who[b] = t[j].orig /\ pos[b] < re[j]
      BY <2>2, <2>3
    <3> QED
      BY <2>2, <3>1 DEF Owned
  <2>5. nx[b] # c
    BY <1>0, <2>2, <2>4
  <2> QED
    BY <1>1, <2>2, <2>4, <2>5
<1> QED
  BY <1>2, <1>3, <1>4, <1>5 DEF Owned

\* wr_file links block c, the last of figure i until now, to block v, or to none.
Links(t, nx, who, pos, lo, hi, re, i, c, v, t2, mx, lo2, hi2, re2) ==
  /\ i \in DOMAIN t /\ c \in Blocks
  /\ who[c] # 0 /\ who[c] = t[i].orig /\ pos[c] = re[i]
  /\ \A j, k \in DOMAIN t : t[j].orig = t[k].orig => j = k
  /\ \A b \in Blocks : mx[b] = IF b = c THEN v ELSE nx[b]
  /\ DOMAIN t2 = DOMAIN t
  /\ \A j \in DOMAIN t : t2[j].orig = t[j].orig /\ t2[j].start = t[j].start
  /\ \A j \in DOMAIN t : lo2[j] = lo[j] /\ hi2[j] = hi[j]
  /\ \A j \in DOMAIN t : j # i => re2[j] = re[j]
  /\ \/ re2[i] = re[i]
     \/ /\ re2[i] = re[i] + 1
        /\ v \in Blocks /\ who[v] = who[c] /\ pos[v] = pos[c] + 1

LEMMA LinkingOwned ==
  ASSUME NEW t, NEW U, NEW nx, NEW who \in [Blocks -> BlockOrNone],
         NEW pos \in [Blocks -> Nat], NEW lo, NEW hi, NEW re,
         Owned(t, U, nx, who, pos, lo, hi, re),
         NEW i, NEW c, NEW v, NEW t2, NEW mx, NEW lo2, NEW hi2, NEW re2,
         Links(t, nx, who, pos, lo, hi, re, i, c, v, t2, mx, lo2, hi2, re2)
  PROVE  Owned(t2, U, mx, who, pos, lo2, hi2, re2)
<1> USE DEF Links
<1>1. \A b \in Blocks : who[b] # 0 =>
        /\ b \in U
        /\ \E j \in DOMAIN t2 : who[b] = t2[j].orig /\ pos[b] \in lo2[j]..hi2[j]
        /\ \A j \in DOMAIN t2 : b # t2[j].orig
  BY DEF Owned
<1>2. \A b, d \in Blocks : who[b] # 0 /\ who[b] = who[d] /\ pos[b] = pos[d] => b = d
  BY DEF Owned
<1>3. \A j \in DOMAIN t2 : lo2[j] = 1 /\ hi2[j] >= 1 =>
        t2[j].start \in Blocks /\ who[t2[j].start] = t2[j].orig /\ pos[t2[j].start] = 1
  BY DEF Owned
<1>4. ASSUME NEW b \in Blocks, NEW j \in DOMAIN t2,
             who[b] # 0, who[b] = t2[j].orig, pos[b] < re2[j]
      PROVE  mx[b] \in Blocks /\ who[mx[b]] = who[b] /\ pos[mx[b]] = pos[b] + 1
  <2>1. who[b] = t[j].orig
    BY <1>4
  <2>2. CASE b = c
    <3>1. j = i
      BY <1>4, <2>1, <2>2
    <3>2. re2[i] # re[i]
      BY <1>4, <2>2, <3>1
    <3> QED
      BY <2>2, <3>2
  <2>3. CASE b # c
    <3>1. pos[b] < re[j]
      <4>1. CASE j # i
        BY <1>4, <4>1
      <4>2. CASE j = i
        <5>1. pos[b] # pos[c]
          BY <1>2, <1>4, <2>1, <2>3, <4>2
        <5> QED
          BY <1>4, <4>2, <5>1
      <4> QED
        BY <4>1, <4>2
    <3>2. nx[b] \in Blocks /\ who[nx[b]] = who[b] /\ pos[nx[b]] = pos[b] + 1
      BY <1>4, <2>1, <3>1 DEF Owned
    <3> QED
      BY <2>3, <3>2
  <2> QED
    BY <2>2, <2>3
<1> QED
  BY <1>1, <1>2, <1>3, <1>4 DEF Owned

\* adIno_file appends a figure without data.
LEMMA AppendingOwned ==
  ASSUME NEW t, NEW U, NEW nx, NEW who \in [Blocks -> BlockOrNone],
         NEW pos \in [Blocks -> Nat], NEW lo, NEW hi, NEW re,
         Owned(t, U, nx, who, pos, lo, hi, re),
         NEW t2, NEW n, DOMAIN t2 = DOMAIN t \cup {n}, n \notin DOMAIN t,
         \A j \in DOMAIN t : t2[j].orig = t[j].orig /\ t2[j].start = t[j].start,
         t2[n].orig \in Blocks, who[t2[n].orig] = 0,
         \A j \in DOMAIN t : t2[n].orig # t[j].orig,
         NEW lo2, NEW hi2, NEW re2,
         \A j \in DOMAIN t : lo2[j] = lo[j] /\ hi2[j] = hi[j] /\ re2[j] = re[j],
         hi2[n] = 0
  PROVE  Owned(t2, U, nx, who, pos, lo2, hi2, re2)
<1>1. \A b \in Blocks : who[b] # 0 =>
        /\ b \in U
        /\ \E j \in DOMAIN t : who[b] = t[j].orig /\ pos[b] \in lo[j]..hi[j]
        /\ \A j \in DOMAIN t : b # t[j].orig
  BY DEF Owned
<1>2. \A b \in Blocks : who[b] # 0 =>
        /\ b \in U
        /\ \E j \in DOMAIN t2 : who[b] = t2[j].orig /\ pos[b] \in lo2[j]..hi2[j]
        /\ \A j \in DOMAIN t2 : b # t2[j].orig
  BY <1>1
<1>3. \A b, d \in Blocks : who[b] # 0 /\ who[b] = who[d] /\ pos[b] = pos[d] => b = d
  BY DEF Owned
<1>4. \A j \in DOMAIN t2 : lo2[j] = 1 /\ hi2[j] >= 1 =>
        t2[j].start \in Blocks /\ who[t2[j].start] = t2[j].orig /\ pos[t2[j].start] = 1
  <2> SUFFICES ASSUME NEW j \in DOMAIN t2, lo2[j] = 1, hi2[j] >= 1
               PROVE  /\ t2[j].start \in Blocks /\ who[t2[j].start] = t2[j].orig
                      /\ pos[t2[j].start] = 1
    OBVIOUS
  <2>1. j \in DOMAIN t
    OBVIOUS
  <2> QED
    BY <2>1 DEF Owned
<1>5. \A b \in Blocks, j \in DOMAIN t2 :
        who[b] # 0 /\ who[b] = t2[j].orig /\ pos[b] < re2[j] =>
          nx[b] \in Blocks /\ who[nx[b]] = who[b] /\ pos[nx[b]] = pos[b] + 1
  <2> SUFFICES ASSUME NEW b \in Blocks, NEW j \in DOMAIN t2,
                      who[b] # 0, who[b] = t2[j].orig, pos[b] < re2[j]
               PROVE  nx[b] \in Blocks /\ who[nx[b]] = who[b] /\ pos[nx[b]] = pos[b] + 1
    OBVIOUS
  <2>1. j # n
    BY <1>1
  <2>2. j \in DOMAIN t
    BY <2>1
  <2>3. who[b] = t[j].orig /\ pos[b] < re[j]
    BY <2>2
  <2> QED
    BY <2>2, <2>3 DEF Owned
<1> QED
  BY <1>2, <1>3, <1>4, <1>5 DEF Owned

\* rm_file drops figure i, that has no blocks left, and clears its inode block.
Drops(t, U, nx, lo, hi, re, i, t2, pick, V, mx, lo2, hi2, re2) ==
  /\ i \in DOMAIN t /\ lo[i] \in Int /\ hi[i] \in Int /\ lo[i] > hi[i]
  /\ \A j, k \in DOMAIN t : t[j].orig = t[k].orig => j = k
  /\ pick \in [DOMAIN t2 -> DOMAIN t \ {i}]
  /\ \A j \in DOMAIN t \ {i} : \E k \in DOMAIN t2 : pick[k] = j
  /\ \A k \in DOMAIN t2 : /\ t2[k].orig = t[pick[k]].orig
                          /\ t2[k].start = t[pick[k]].start
  /\ \A b \in U : b # t[i].orig => b \in V
  /\ \A b \in Blocks : mx[b] = IF b = t[i].orig THEN 0 ELSE nx[b]
  /\ \A k \in DOMAIN t2 : /\ lo2[k] = lo[pick[k]] /\ hi2[k] = hi[pick[k]]
                          /\ re2[k] = re[pick[k]]

LEMMA DroppingOwned ==
  ASSUME NEW t, NEW U, NEW nx, NEW who \in [Blocks -> BlockOrNone],
         NEW pos \in [Blocks -> Nat], NEW lo, NEW hi, NEW re,
         Owned(t, U, nx, who, pos, lo, hi, re),
         NEW i, NEW t2, NEW pick, NEW V, NEW mx, NEW lo2, NEW hi2, NEW re2,
         Drops(t, U, nx, lo, hi, re, i, t2, pick, V, mx, lo2, hi2, re2)
  PROVE  Owned(t2, V, mx, who, pos, lo2, hi2, re2)
<1> USE DEF Drops
<1>1. ASSUME NEW b \in Blocks, who[b] # 0
      PROVE  /\ b \in V
             /\ \E k \in DOMAIN t2 : who[b] = t2[k].orig /\ pos[b] \in lo2[k]..hi2[k]
             /\ \A k \in DOMAIN t2 : b # t2[k].orig
  <2>1. b \in U /\ \A j \in DOMAIN t : b # t[j].orig
    BY <1>1 DEF Owned
  <2>2. PICK j \in DOMAIN t : who[b] = t[j].orig /\ pos[b] \in lo[j]..hi[j]
    BY <1>1 DEF Owned
  <2>3. j # i
    BY <2>2
  <2>4. PICK k \in DOMAIN t2 : pick[k] = j
    BY <2>3
  <2> QED
    BY <2>1, <2>2, <2>4
<1>2. \A b, d \in Blocks : who[b] # 0 /\ who[b] = who[d] /\ pos[b] = pos[d] => b = d
  BY DEF Owned
<1>3. \A k \in DOMAIN t2 : lo2[k] = 1 /\ hi2[k] >= 1 =>
        t2[k].start \in Blocks /\ who[t2[k].start] = t2[k].orig /\ pos[t2[k].start] = 1
  <2> SUFFICES ASSUME NEW k \in DOMAIN t2, lo2[k] = 1, hi2[k] >= 1
               PROVE  /\ t2[k].start \in Blocks /\ who[t2[k].start] = t2[k].orig
                      /\ pos[t2[k].start] = 1
    OBVIOUS
  <2>1. pick[k] \in DOMAIN t /\ lo[pick[k]] = 1 /\ hi[pick[k]] >= 1
    OBVIOUS
  <2> QED
    BY <2>1 DEF Owned
<1>4. \A b \in Blocks, k \in DOMAIN t2 :
        who[b] # 0 /\ who[b] = t2[k].orig /\ pos[b] < re2[k] =>
          mx[b] \in Blocks /\ who[mx[b]] = who[b] /\ pos[mx[b]] = pos[b] + 1
  <2> SUFFICES ASSUME NEW b \in Blocks, NEW k \in DOMAIN t2,
                      who[b] # 0, who[b] = t2[k].orig, pos[b] < re2[k]
               PROVE  mx[b] \in Blocks /\ who[mx[b]] = who[b] /\ pos[mx[b]] = pos[b] + 1
    OBVIOUS
  <2>1. pick[k] \in DOMAIN t /\ who[b] = t[pick[k]].orig /\ pos[b] < re[pick[k]]
    OBVIOUS
  <2>2. b # t[i].orig
    BY DEF Owned
  <2>3. nx[b] \in Blocks /\ who[nx[b]] = who[b] /\ pos[nx[b]] = pos[b] + 1
    BY <2>1 DEF Owned
  <2> QED
    BY <2>2, <2>3
<1> QED
  BY <1>1, <1>2, <1>3, <1>4 DEF Owned

\* The other steps leave the chains as they are.
LEMMA KeepingOwned ==
  ASSUME NEW t, NEW U, NEW nx, NEW who \in [Blocks -> BlockOrNone],
         NEW pos \in [Blocks -> Nat], NEW lo, NEW hi, NEW re,
         Owned(t, U, nx, who, pos, lo, hi, re),
         NEW t2, DOMAIN t2 = DOMAIN t,
         \A j \in DOMAIN t : /\ t2[j].orig = t[j].orig
                             /\ hi[j] = 0 \/ t2[j].start = t[j].start,
         NEW V, U \subseteq V, NEW lo2, NEW hi2, NEW re2,
         \A j \in DOMAIN t : lo2[j] = lo[j] /\ hi2[j] = hi[j] /\ re2[j] = re[j]
  PROVE  Owned(t2, V, nx, who, pos, lo2, hi2, re2)
<1>1. \A b \in Blocks : who[b] # 0 =>
        /\ b \in V
        /\ \E j \in DOMAIN t2 : who[b] = t2[j].orig /\ pos[b] \in lo2[j]..hi2[j]
        /\ \A j \in DOMAIN t2 : b # t2[j].orig
  BY DEF Owned
<1>2. \A j \in DOMAIN t2 : lo2[j] = 1 /\ hi2[j] >= 1 =>
        t2[j].start \in Blocks /\ who[t2[j].start] = t2[j].orig /\ pos[t2[j].start] = 1
  <2> SUFFICES ASSUME NEW j \in DOMAIN t2, lo2[j] = 1, hi2[j] >= 1
               PROVE  /\ t2[j].start \in Blocks /\ who[t2[j].start] = t2[j].orig
                      /\ pos[t2[j].start] = 1
    OBVIOUS
  <2>1. hi[j] # 0 /\ lo[j] = 1 /\ hi[j] >= 1
    OBVIOUS
  <2> QED
    BY <2>1 DEF Owned
<1>3. \A b \in Blocks, j \in DOMAIN t2 :
        who[b] # 0 /\ who[b] = t2[j].orig /\ pos[b] < re2[j] =>
          nx[b] \in Blocks /\ who[nx[b]] = who[b] /\ pos[nx[b]] = pos[b] + 1
  BY DEF Owned
<1>4. \A b, d \in Blocks : who[b] # 0 /\ who[b] = who[d] /\ pos[b] = pos[d] => b = d
  BY DEF Owned
<1> QED
  BY <1>1, <1>2, <1>3, <1>4 DEF Owned

-----------------------------------------------------------------------------
(* The steps of the store, one by one.                                     *)

LEMMA TouchedFound ==
  ASSUME DiskInv
  PROVE  Touched = 0 \/ (Touched \in DOMAIN table /\ table[Touched] \in Inodes)
<1>1. table \in Seq(Inodes)
  BY DEF DiskInv, TypeInv, TypeOK
<1>2. Touched = 0 \/ Touched \in DOMAIN table
  BY <1>1, IndexFound DEF Touched, IndexOf
<1> QED
  BY <1>1, <1>2, LenProperties, ElementOfSeq

LEMMA OrigsDiffer ==
  ASSUME DiskInv
  PROVE  /\ \A j, k \in DOMAIN Live : Live[j].orig = Live[k].orig => j = k
         /\ \A j \in DOMAIN Live : Live[j].orig \in UsedBlocks /\ Live[j].orig # 0
  BY OrigsAreBlocks DEF DiskInv, OneReference, NamedOnce

\* A chain that is followed in the same way, before and after.
LEMMA KeepingChains ==
  ASSUME Live' = Live, next' = next, UsedBlocks \subseteq UsedBlocks',
         NEW who \in [Blocks -> BlockOrNone], NEW pos \in [Blocks -> Nat],
         ChainsAre(who, pos),
         \A i \in DOMAIN Live : /\ Lo'[i] = Lo[i] /\ Hi'[i] = Hi[i]
                                /\ Re'[i] = Re[i],
         AtPlace(who, pos)'
  PROVE  ChainsAre(who, pos)'
<1>1. Owned(Live, UsedBlocks, next, who, pos, Lo, Hi, Re)
  BY DEF ChainsAre
<1> DEFINE l == Lo'
           h == Hi'
           r == Re'
<1>2. \A i \in DOMAIN Live : l[i] = Lo[i] /\ h[i] = Hi[i] /\ r[i] = Re[i]
  OBVIOUS
<1> HIDE DEF l, h, r
<1>3. Owned(Live, UsedBlocks', next, who, pos, l, h, r)
  BY <1>1, <1>2, KeepingOwned
<1>4. Owned(Live, UsedBlocks, next, who, pos, Lo, Hi, Re)'
  BY <1>3 DEF l, h, r
<1> QED
  BY <1>4 DEF ChainsAre

\* Between operations.
LEMMA QuietChains ==
  ASSUME DiskInv, DiskInv',
         NEW who \in [Blocks -> BlockOrNone], NEW pos \in [Blocks -> Nat],
         ChainsAre(who, pos), Live' = Live, UNCHANGED <<used, next>>,
         ~Filling, ~Deleting, ~Filling', ~Deleting',
         pc' \notin {"inodeWrite", "firstBlock"},
         pc' = "inodeBlock" => Touched' = 0
  PROVE  ChainsAre(who, pos)'
<1>1. ChainsAre(who, pos)
  OBVIOUS
<1>2. AtPlace(who, pos)'
  BY DEF AtPlace, Filling, Deleting
<1>3. \A i \in DOMAIN Live : /\ Lo'[i] = Lo[i] /\ Hi'[i] = Hi[i]
                             /\ Re'[i] = Re[i]
  <2>1. pc # "link" /\ pc' # "link"
    BY DEF Filling
  <2> QED
    BY <2>1 DEF Lo, Hi, Re
<1>4. UsedBlocks \subseteq UsedBlocks'
  BY DEF UsedBlocks
<1> QED
  BY <1>1, <1>2, <1>3, <1>4, KeepingChains

LEMMA StillChains ==
  ASSUME NEW who \in [Blocks -> BlockOrNone], NEW pos \in [Blocks -> Nat],
         ChainsAre(who, pos), UNCHANGED <<used, next, table, pc, op, saved>>
  PROVE  ChainsAre(who, pos)'
<1>1. ChainsAre(who, pos)
  OBVIOUS
<1>2. Live' = Live /\ Touched' = Touched /\ Filling' = Filling /\ Deleting' = Deleting
  BY DEF Live, Touched, IndexOf, Filling, Deleting
<1>3. AtPlace(who, pos)'
  BY <1>1, <1>2 DEF ChainsAre, AtPlace
<1>4. \A i \in DOMAIN Live : /\ Lo'[i] = Lo[i] /\ Hi'[i] = Hi[i]
                             /\ Re'[i] = Re[i]
  BY <1>2 DEF Lo, Hi, Re
<1>5. UsedBlocks \subseteq UsedBlocks'
  BY DEF UsedBlocks
<1> QED
  BY <1>1, <1>2, <1>3, <1>4, <1>5, KeepingChains

\* The destructor and the constructor leave the inodes that matter alone.
LEMMA LoadLive ==
  ASSUME RestartInv, RestartInv', Load
  PROVE  /\ pc \in {"closed", "loading"} /\ pc' \in {"loading", "idle"}
         /\ UNCHANGED <<saved, used, next>> /\ Live' = Live
<1> DiskInv /\ DiskInv'
  BY DEF RestartInv
<1>1. pc \in {"closed", "loading"} /\ pc' \in {"loading", "idle"}
  BY DEF Load, Open, LoadInode, RestartInv, OnDiskAsSaved
<1>2. UNCHANGED <<saved, used, next>>
  BY DEF Load, Open, LoadInode, disk, history
<1>3. Live' = Live
  <2>1. CASE pc' = "loading"
    BY <1>1, <1>2, <2>1 DEF Live
  <2>2. CASE pc' = "idle"
    <3>1. table' = saved
      BY <1>1, <2>2, ReopenStep DEF Next
    <3> QED
      BY <1>1, <2>2, <3>1 DEF Live
  <2> QED
    BY <1>1, <2>1, <2>2
<1> QED
  BY <1>1, <1>2, <1>3

LEMMA SaveLive ==
  ASSUME Save
  PROVE  /\ pc \in {"idle", "saveHeader", "saveInode"}
         /\ pc' \in {"saveHeader", "saveInode", "closed"}
         /\ UNCHANGED <<used, next>> /\ Live' = Live
<1>1. /\ pc \in {"idle", "saveHeader", "saveInode"}
      /\ pc' \in {"saveHeader", "saveInode", "closed"}
  BY DEF Save, Close, SaveHeader, SaveInode, Saved
<1>2. UNCHANGED <<used, next>>
  BY DEF Save, Close, SaveHeader, SaveInode, disk
<1>3. \/ pc' # "closed" /\ table' = table
      \/ pc' = "closed" /\ saved' = table
  BY DEF Save, Close, SaveHeader, SaveInode, Saved, memory
<1>4. Live' = Live
  BY <1>1, <1>3 DEF Live
<1> QED
  BY <1>1, <1>2, <1>4

LEMMA LoadChains ==
  ASSUME RestartInv, RestartInv',
         NEW who \in [Blocks -> BlockOrNone], NEW pos \in [Blocks -> Nat],
         ChainsAre(who, pos), Load
  PROVE  ChainsAre(who, pos)'
<1> DiskInv /\ DiskInv'
  BY DEF RestartInv
<1>1. /\ pc \in {"closed", "loading"} /\ pc' \in {"loading", "idle"}
      /\ UNCHANGED <<used, next>> /\ Live' = Live
  BY LoadLive
<1>2. ~Filling /\ ~Deleting /\ ~Filling' /\ ~Deleting'
  BY <1>1 DEF Filling, Deleting
<1> QED
  BY <1>1, <1>2, QuietChains

LEMMA SaveChains ==
  ASSUME DiskInv, DiskInv',
         NEW who \in [Blocks -> BlockOrNone], NEW pos \in [Blocks -> Nat],
         ChainsAre(who, pos), Save
  PROVE  ChainsAre(who, pos)'
<1>1. /\ pc \in {"idle", "saveHeader", "saveInode"}
      /\ pc' \in {"saveHeader", "saveInode", "closed"}
      /\ UNCHANGED <<used, next>> /\ Live' = Live
  BY SaveLive
<1>2. ~Filling /\ ~Deleting /\ ~Filling' /\ ~Deleting'
  BY <1>1 DEF Filling, Deleting
<1> QED
  BY <1>1, <1>2, QuietChains

LEMMA MakeFileChains ==
  ASSUME DiskInv, DiskInv',
         NEW who \in [Blocks -> BlockOrNone], NEW pos \in [Blocks -> Nat],
         ChainsAre(who, pos), NEW n \in Names, NEW t \in Texts, MakeFile(n, t)
  PROVE  ChainsAre(who, pos)'
<1>1. pc = "idle" /\ pc' = "inodeBlock" /\ UNCHANGED <<used, next, table>>
  BY DEF MakeFile, disk, memory
<1>2. Live' = Live /\ ~Filling /\ ~Deleting /\ ~Filling' /\ ~Deleting'
  BY <1>1 DEF Live, Filling, Deleting
<1>3. op'.name = n /\ IndexIn(table, n) = 0
  BY DEF MakeFile, NoOp, IndexOf
<1>4. Touched' = 0
  BY <1>1, <1>3 DEF Touched, IndexOf
<1> QED
  BY <1>1, <1>2, <1>4, QuietChains

LEMMA DeleteFileChains ==
  ASSUME DiskInv, DiskInv',
         NEW who \in [Blocks -> BlockOrNone], NEW pos \in [Blocks -> Nat],
         ChainsAre(who, pos), NEW n \in Names, DeleteFile(n)
  PROVE  ChainsAre(who, pos)'
<1>1. ChainsAre(who, pos)
  OBVIOUS
<1>2. pc = "idle" /\ pc' \in {"clearData", "clearInode"} /\ UNCHANGED <<used, next, table>>
  BY DEF DeleteFile, disk, memory
<1>3. Live = table /\ Live' = table /\ ~Filling /\ ~Deleting /\ ~Filling'
  BY <1>2 DEF Live, Filling, Deleting
<1>4. op'.name = n /\ IndexIn(table, n) # 0
  BY DEF DeleteFile, NoOp, IndexOf
<1>5. PICK i \in DOMAIN table : i = IndexIn(table, n) /\ i = Touched' /\ table[i] \in Inodes
  <2>1. table \in Seq(Inodes)
    BY DEF DiskInv, TypeInv, TypeOK
  <2>2. IndexIn(table, n) \in DOMAIN table
    BY <1>4, <2>1, IndexFound
  <2>3. table[IndexIn(table, n)] \in Inodes
    BY <2>1, <2>2, LenProperties, ElementOfSeq
  <2> QED
    BY <1>2, <1>4, <2>2, <2>3 DEF Touched, IndexOf
<1>6. /\ op'.cur = table[i].start /\ op'.left = table[i].count
      /\ pc' = IF table[i].count = 0 THEN "clearInode" ELSE "clearData"
      /\ table[i].count \in Nat
  BY <1>5, FieldsTyped DEF DeleteFile, NoOp, IndexOf
<1>7. \A j \in DOMAIN Live : /\ Lo[j] = 1 /\ Hi[j] = Live[j].count
                             /\ Re[j] = Live[j].count
  BY <1>2, <1>3 DEF Lo, Hi, Re
<1>8. \A j \in DOMAIN Live : /\ Lo'[j] = Lo[j] /\ Hi'[j] = Hi[j]
                             /\ Re'[j] = Re[j]
  <2>1. \A j \in DOMAIN Live : /\ Hi'[j] = Live[j].count
                               /\ Re'[j] = Live[j].count
    BY <1>2, <1>3 DEF Hi, Re
  <2>2. ASSUME NEW j \in DOMAIN Live PROVE Lo'[j] = 1
    <3>1. CASE j # i
      BY <1>2, <1>3, <1>5, <3>1 DEF Lo
    <3>2. CASE j = i
      <4>1. Lo'[j] = table[i].count - op'.left + 1
        BY <1>2, <1>3, <1>5, <3>2 DEF Lo, Deleting
      <4> QED
        BY <1>6, <4>1
    <3> QED
      BY <3>1, <3>2
  <2> QED
    BY <1>7, <2>1, <2>2
<1>9. AtPlace(who, pos)'
  <2>1. CASE table[i].count = 0
    BY <1>6, <2>1, <1>3 DEF AtPlace
  <2>2. CASE table[i].count # 0
    <3>1. pc' = "clearData" /\ op'.left \in 1..table[i].count
      BY <1>6, <2>2
    <3>2. Lo[i] = 1 /\ Hi[i] >= 1
      BY <1>3, <1>6, <1>7, <2>2
    <3>3. /\ op'.cur \in Blocks /\ who[op'.cur] = table[i].orig
          /\ pos[op'.cur] = 1
      BY <1>1, <1>3, <1>6, <3>2 DEF ChainsAre, Owned
    <3>4. pos[op'.cur] = table[i].count - op'.left + 1
      BY <1>6, <3>3
    <3> QED
      BY <1>2, <1>3, <1>5, <3>1, <3>3, <3>4 DEF AtPlace
  <2> QED
    BY <2>1, <2>2
<1>10. UsedBlocks \subseteq UsedBlocks'
  BY <1>2 DEF UsedBlocks
<1> QED
  BY <1>1, <1>2, <1>3, <1>8, <1>9, <1>10, KeepingChains

\* Block b goes to the figure with inode block o, at place k.
Gives(who, pos, b, o, k, w, p) ==
  w = [who EXCEPT ![b] = o] /\ p = [pos EXCEPT ![b] = k]

\* Block b goes.
Loses(who, b, w) == w = [who EXCEPT ![b] = 0]

\* empty_B takes a block that was free, below the end of the disk.
LEMMA TakenWasFree ==
  ASSUME DiskInv, NEW b \in Blocks, TakeBlock(b)
  PROVE  /\ b \notin UsedBlocks /\ b \in InitBlocks..(sb.total - 1)
         /\ UsedBlocks' = UsedBlocks \cup {b}
<1>1. sb.total \in Nat
  BY CounterTypes DEF DiskInv, TypeInv, TypeOK
<1>2. b \in FreeBlocks
  BY <1>1, EmptyBFree DEF TakeBlock
<1>3. b \notin UsedBlocks /\ b \in InitBlocks..(sb.total - 1)
  BY <1>2 DEF FreeBlocks, UsedBlocks
<1> QED
  BY <1>3, TakeKeeps

LEMMA ChainsNow ==
  ASSUME NEW who \in [Blocks -> BlockOrNone], NEW pos \in [Blocks -> Nat],
         Owned(Live', UsedBlocks', next', who, pos, Lo', Hi', Re'),
         AtPlace(who, pos)'
  PROVE  ChainsAre(who, pos)'
  BY DEF ChainsAre

LEMMA AllocInodeChains ==
  ASSUME DiskInv, DiskInv',
         NEW who \in [Blocks -> BlockOrNone], NEW pos \in [Blocks -> Nat],
         ChainsAre(who, pos), AllocInode
  PROVE  ChainsAre(who, pos)'
<1>1. ChainsAre(who, pos)
  OBVIOUS
<1>2. pc = "inodeBlock" /\ pc' = "inodeWrite" /\ UNCHANGED <<next, table, saved>>
  BY DEF AllocInode
<1>3. PICK b \in Blocks : TakeBlock(b) /\ op' = [op EXCEPT !.cur = b]
  BY DEF AllocInode
<1>4. op'.cur = b /\ op'.name = op.name
  BY <1>3 DEF DiskInv, TypeInv, TypeOK, Operations
<1>5. b \notin UsedBlocks /\ UsedBlocks \subseteq UsedBlocks'
  BY <1>3, TakenWasFree
<1>6. who[b] = 0
  BY <1>1, <1>5 DEF ChainsAre, Owned
<1>7. Live = table /\ Live' = table /\ Touched' = Touched
  BY <1>2, <1>4 DEF Live, Touched, IndexOf
<1>8. Touched = 0
  BY <1>1, <1>2 DEF ChainsAre, AtPlace
<1>9. AtPlace(who, pos)'
  BY <1>2, <1>4, <1>6, <1>7, <1>8 DEF AtPlace, Filling
<1>10. \A i \in DOMAIN Live : /\ Lo'[i] = Lo[i] /\ Hi'[i] = Hi[i]
                              /\ Re'[i] = Re[i]
  BY <1>2, <1>7 DEF Lo, Hi, Re, Filling, Deleting
<1> QED
  BY <1>1, <1>2, <1>5, <1>7, <1>9, <1>10, KeepingChains

\* adIno_file appends an inode without data and links the last one to it.
LEMMA InodeAppended ==
  ASSUME DiskInv, DiskInv', WriteInode, Touched = 0, NEW n, n = Len(table)
  PROVE  /\ n \in Nat /\ DOMAIN table = 1..n /\ DOMAIN table' = 1..(n + 1)
         /\ \A i \in 1..n :
              /\ table'[i].orig = table[i].orig /\ table'[i].start = table[i].start
              /\ table'[i].count = table[i].count /\ table'[i].name = table[i].name
              /\ table'[i].size = table[i].size
         /\ table'[n + 1] = NewInode(op.name, op.cur)
         /\ Touched' = n + 1
<1> DEFINE new == NewInode(op.name, op.cur)
           old == IF n = 0 THEN table
                  ELSE [table EXCEPT ![n] = [table[n] EXCEPT !.next = op.cur]]
<1>1. n \in Nat /\ pc = "inodeWrite" /\ pc' = "firstBlock" /\ op' = op
  BY LenProperties DEF DiskInv, TypeInv, TypeOK, WriteInode
<1>2. /\ table \in Seq(Inodes) /\ DOMAIN table = 1..n
      /\ \A i \in DOMAIN table : table[i] \in Inodes
      /\ table' \in Seq(Inodes)
  BY <1>1, LenProperties, ElementOfSeq DEF DiskInv, TypeInv, TypeOK
<1>3. new \in Inodes /\ new.name = op.name
  BY InodeTyped DEF DiskInv, TypeInv, TypeOK, Operations, NewInode, Inode
<1>4. /\ old \in Seq(Inodes) /\ Len(old) = n
      /\ \A i \in 1..n :
           /\ old[i].orig = table[i].orig /\ old[i].start = table[i].start
           /\ old[i].count = table[i].count /\ old[i].name = table[i].name
           /\ old[i].size = table[i].size
  <2>1. CASE n = 0
    BY <1>1, <1>2, <2>1
  <2>2. CASE n # 0
    <3> DEFINE linked == [table[n] EXCEPT !.next = op.cur]
    <3>1. n \in DOMAIN table /\ table[n] \in Inodes /\ op.cur \in BlockOrNone
      BY <1>1, <1>2, <2>2 DEF DiskInv, TypeInv, TypeOK, Operations
    <3>2. /\ linked \in Inodes /\ linked.orig = table[n].orig
          /\ linked.start = table[n].start /\ linked.count = table[n].count
          /\ linked.name = table[n].name /\ linked.size = table[n].size
      BY <3>1 DEF Inodes
    <3> HIDE DEF linked
    <3>3. /\ old \in Seq(Inodes) /\ Len(old) = n
          /\ \A i \in 1..n : old[i] = IF i = n THEN linked ELSE table[i]
      BY <1>1, <1>2, <2>2, <3>1, <3>2, ExceptSeq DEF linked
    <3> HIDE DEF old
    <3> QED
      BY <3>2, <3>3
  <2> QED
    BY <2>1, <2>2
<1>5. table' = Append(old, new)
  BY DEF WriteInode
<1>6. /\ DOMAIN table' = 1..(n + 1) /\ table'[n + 1] = new
      /\ \A i \in 1..n : table'[i] = old[i]
  <2> HIDE DEF old, new
  <2> QED
    BY <1>1, <1>2, <1>3, <1>4, <1>5, AppendProperties, LenProperties
<1> HIDE DEF old, new
<1>7. Touched' = n + 1
  <2>1. IndexIn(table, op.name) = 0
    BY DEF Touched, IndexOf
  <2>2. \A j \in 1..n : table[j].name # op.name
    BY <1>2, <2>1, IndexLeast
  <2>3. \A j \in 1..((n + 1) - 1) : table'[j].name # op.name
    BY <1>1, <1>4, <1>6, <2>2
  <2>4. n + 1 \in DOMAIN table' /\ table'[n + 1].name = op.name
    BY <1>1, <1>3, <1>6
  <2>5. IndexIn(table', op.name) = n + 1
    BY <1>2, <2>3, <2>4, IndexIs
  <2> QED
    BY <1>1, <2>5 DEF Touched, IndexOf
<1> QED
  BY <1>1, <1>2, <1>4, <1>6, <1>7 DEF new

LEMMA WriteInodeChains ==
  ASSUME DiskInv, DiskInv',
         NEW who \in [Blocks -> BlockOrNone], NEW pos \in [Blocks -> Nat],
         ChainsAre(who, pos), WriteInode
  PROVE  ChainsAre(who, pos)'
<1>1. ChainsAre(who, pos)
  OBVIOUS
<1>2. pc = "inodeWrite" /\ pc' = "firstBlock" /\ UNCHANGED <<used, next, op>>
  BY DEF WriteInode
<1>3. Live = table /\ Live' = table' /\ UsedBlocks' = UsedBlocks
  BY <1>2 DEF Live, UsedBlocks
<1> DEFINE new == NewInode(op.name, op.cur)
<1>6. new.orig = op.cur /\ new.start = 0 /\ new.count = 0
  BY DEF NewInode, Inode
<1>4. Touched = 0
  BY <1>1, <1>2 DEF ChainsAre, AtPlace
<1>5. PICK n : n = Len(table)
  OBVIOUS
<1>9. /\ n \in Nat /\ DOMAIN table = 1..n /\ DOMAIN table' = 1..(n + 1)
      /\ \A i \in 1..n :
           /\ table'[i].orig = table[i].orig /\ table'[i].start = table[i].start
           /\ table'[i].count = table[i].count
      /\ table'[n + 1] = new /\ Touched' = n + 1
  BY <1>4, <1>5, InodeAppended
<1> HIDE DEF new
<1> DEFINE l == Lo'
           h == Hi'
           r == Re'
           t2 == table'
           N == n + 1
<1>11. /\ \A j \in DOMAIN table : l[j] = Lo[j] /\ h[j] = Hi[j] /\ r[j] = Re[j]
       /\ h[N] = 0
  <2>1. \A j \in DOMAIN table : table'[j].count = table[j].count /\ j \in DOMAIN table'
    BY <1>9
  <2>2. N \in DOMAIN table' /\ table'[N].count = 0
    BY <1>6, <1>9
  <2>3. ~Filling /\ ~Deleting /\ ~Filling' /\ ~Deleting' /\ pc # "link" /\ pc' # "link"
    BY <1>2 DEF Filling, Deleting
  <2> HIDE DEF N
  <2> QED
    BY <1>3, <2>1, <2>2, <2>3 DEF Lo, Hi, Re
<1>12. /\ DOMAIN t2 = DOMAIN table \cup {N} /\ N \notin DOMAIN table
       /\ \A j \in DOMAIN table : t2[j].orig = table[j].orig /\ t2[j].start = table[j].start
       /\ t2[N].orig = op.cur
  BY <1>6, <1>9
<1>13. /\ op.cur \in Blocks /\ who[op.cur] = 0
       /\ \A j \in DOMAIN table : op.cur # table[j].orig
  <2>1. who[op.cur] = 0
    BY <1>1, <1>2 DEF ChainsAre, AtPlace
  <2>2. op.cur \in UsedBlocks /\ Unnamed(op.cur, table, next, BeingCleared)
    BY <1>2, <1>3 DEF DiskInv, Working
  <2> QED
    BY <2>1, <2>2 DEF UsedBlocks, Unnamed
<1>14. Owned(table, UsedBlocks, next, who, pos, Lo, Hi, Re)
  BY <1>1, <1>3 DEF ChainsAre
<1>15. Owned(t2, UsedBlocks, next, who, pos, l, h, r)
  <2> HIDE DEF l, h, r, t2, N
  <2>1. t2[N].orig \in Blocks /\ who[t2[N].orig] = 0
        /\ \A j \in DOMAIN table : t2[N].orig # table[j].orig
    BY <1>12, <1>13
  <2>2. /\ DOMAIN t2 = DOMAIN table \cup {N} /\ N \notin DOMAIN table
        /\ \A j \in DOMAIN table : t2[j].orig = table[j].orig /\ t2[j].start = table[j].start
    BY <1>12
  <2> QED
    BY <1>11, <1>14, <2>1, <2>2, AppendingOwned
<1>16. AtPlace(who, pos)'
  <2>1. Touched' # 0 /\ table'[Touched'].count = 0
    BY <1>6, <1>9
  <2> QED
    BY <1>2, <2>1 DEF AtPlace, Filling
<1> QED
  BY <1>2, <1>3, <1>15, <1>16, ChainsNow

\* Changing the fields of one inode, but not its name, leaves the names alone.
Rewrites(t, u, i, v) == u = [t EXCEPT ![i] = v] /\ v.name = t[i].name

LEMMA Rewritten ==
  ASSUME NEW t \in Seq(Inodes), NEW u \in Seq(Inodes), NEW i \in DOMAIN t,
         NEW v \in Inodes, Rewrites(t, u, i, v)
  PROVE  /\ DOMAIN u = DOMAIN t /\ u[i] = v
         /\ \A j \in DOMAIN t : j # i => u[j] = t[j]
         /\ \A n : IndexIn(u, n) = IndexIn(t, n)
<1>1. /\ DOMAIN u = DOMAIN t /\ u[i] = v
      /\ \A j \in DOMAIN t : j # i => u[j] = t[j]
  BY Replaced DEF Rewrites
<1>2. \A j \in DOMAIN t : t[j].name = u[j].name
  BY <1>1 DEF Rewrites
<1>3. \A n : IndexIn(u, n) = IndexIn(t, n)
  BY <1>1, <1>2, SameNames
<1> QED
  BY <1>1, <1>3

\* wr_file gives the inode of the new figure its first block and its size.
LEMMA InodeFilled ==
  ASSUME DiskInv, DiskInv', AllocFirst, NEW b \in Blocks, op'.cur = b,
         NEW i \in DOMAIN table
  PROVE  i = Touched =>
           /\ TakeBlock(b) /\ op'.name = op.name /\ op'.rest = op.rest
           /\ DOMAIN table' = DOMAIN table /\ Touched' = i
           /\ table'[i].orig = table[i].orig /\ table'[i].name = table[i].name
           /\ table'[i].start = b /\ table'[i].count = 0 /\ table'[i].size = Len(op.rest)
           /\ \A j \in DOMAIN table : j # i => table'[j] = table[j]
<1>0. SUFFICES ASSUME i = Touched
             PROVE  /\ TakeBlock(b) /\ op'.name = op.name /\ op'.rest = op.rest
                    /\ DOMAIN table' = DOMAIN table /\ Touched' = i
                    /\ table'[i].orig = table[i].orig /\ table'[i].name = table[i].name
                    /\ table'[i].start = b /\ table'[i].count = 0 /\ table'[i].size = Len(op.rest)
                    /\ \A j \in DOMAIN table : j # i => table'[j] = table[j]
  OBVIOUS
<1>5. /\ TakeBlock(b)
      /\ table' = [table EXCEPT ![IndexOf(op.name)] =
             [@ EXCEPT !.start = b, !.size = Len(op.rest), !.count = 0]]
      /\ op' = [op EXCEPT !.cur = b]
  BY DEF AllocFirst, DiskInv, TypeInv, TypeOK, Operations
<1>6. op'.name = op.name /\ op'.rest = op.rest
  BY <1>5 DEF DiskInv, TypeInv, TypeOK, Operations
<1>7. table[i] \in Inodes
  BY LenProperties, ElementOfSeq DEF DiskInv, TypeInv, TypeOK
<1> DEFINE v == [table[i] EXCEPT !.start = b, !.size = Len(op.rest), !.count = 0]
<1>8. /\ v \in Inodes /\ v.name = table[i].name /\ v.orig = table[i].orig
      /\ v.start = b /\ v.count = 0 /\ v.size = Len(op.rest)
  <2>1. Len(op.rest) \in Nat
    BY LenProperties DEF DiskInv, TypeInv, TypeOK, Operations
  <2>2. b \in BlockOrNone
    BY BlockTyped
  <2> QED
    BY <1>7, <2>1, <2>2 DEF Inodes
<1>9. /\ DOMAIN table' = DOMAIN table /\ table'[i] = v
      /\ \A j \in DOMAIN table : j # i => table'[j] = table[j]
      /\ Touched' = i
  <2>1. table' = [table EXCEPT ![i] = v]
    BY <1>0, <1>5 DEF Touched
  <2>2. table \in Seq(Inodes) /\ table' \in Seq(Inodes)
    BY DEF DiskInv, TypeInv, TypeOK
  <2> HIDE DEF v
  <2>3. /\ DOMAIN table' = DOMAIN table /\ table'[i] = v
        /\ \A j \in DOMAIN table : j # i => table'[j] = table[j]
        /\ \A n : IndexIn(table', n) = IndexIn(table, n)
    <3>1. v \in Inodes /\ Rewrites(table, table', i, v)
      BY <1>8, <2>1 DEF Rewrites
    <3> QED
      BY <2>2, <3>1, Rewritten
  <2>4. Touched' = IndexIn(table', op.name) /\ Touched = IndexIn(table, op.name)
    BY <1>6 DEF Touched, IndexOf
  <2> QED
    BY <1>0, <2>3, <2>4
<1> HIDE DEF v
<1> QED
  BY <1>5, <1>6, <1>8, <1>9

LEMMA AllocFirstChains ==
  ASSUME DiskInv, DiskInv',
         NEW who \in [Blocks -> BlockOrNone], NEW pos \in [Blocks -> Nat],
         ChainsAre(who, pos), AllocFirst,
         NEW w \in [Blocks -> BlockOrNone], NEW p \in [Blocks -> Nat],
         NEW b \in Blocks, op'.cur = b,
         op.rest = <<>> => w = who /\ p = pos,
         op.rest # <<>> => Gives(who, pos, b, table[Touched].orig, 1, w, p)
  PROVE  ChainsAre(w, p)'
<1>1. ChainsAre(who, pos)
  OBVIOUS
<1>2. /\ pc = "firstBlock" /\ UNCHANGED <<next, saved>>
      /\ pc' = IF op.rest = <<>> THEN "idle" ELSE "dataWrite"
  BY DEF AllocFirst
<1>3. Live = table /\ Live' = table'
  BY <1>2 DEF Live
<1>4. PICK i \in DOMAIN table : i = Touched /\ i = IndexOf(op.name) /\ table[i] \in Inodes
  <2>1. Touched # 0
    BY <1>1, <1>2 DEF ChainsAre, AtPlace
  <2> QED
    BY <2>1, TouchedFound DEF Touched
<1>5. /\ TakeBlock(b)
      /\ DOMAIN table' = DOMAIN table /\ Touched' = i
      /\ table'[i].orig = table[i].orig /\ table'[i].start = b /\ table'[i].count = 0
      /\ \A j \in DOMAIN table : j # i => table'[j] = table[j]
  BY <1>4, InodeFilled
<1>7. /\ b \notin UsedBlocks /\ \A x \in UsedBlocks : x \in UsedBlocks'
      /\ b \in UsedBlocks'
  BY <1>5, TakenWasFree
<1>10. table[i].count = 0
  BY <1>1, <1>2, <1>4 DEF ChainsAre, AtPlace
<1>11. Owned(table, UsedBlocks, next, who, pos, Lo, Hi, Re)
  BY <1>1, <1>3 DEF ChainsAre
<1>12. \A j \in DOMAIN table : Lo[j] = 1 /\ Hi[j] = table[j].count /\ Re[j] = table[j].count
  BY <1>2, <1>3 DEF Lo, Hi, Re, Filling, Deleting
<1> DEFINE l == Lo'
           h == Hi'
           r == Re'
           t2 == table'
           V == UsedBlocks'
<1>13. CASE op.rest = <<>>
  <2>0. w = who /\ p = pos
    BY <1>13
  <2>1. pc' = "idle"
    BY <1>2, <1>13
  <2>2. \A j \in DOMAIN table' : l[j] = 1 /\ h[j] = table'[j].count /\ r[j] = table'[j].count
    BY <1>3, <2>1 DEF Lo, Hi, Re, Filling, Deleting
  <2>3. \A j \in DOMAIN table : table'[j].count = table[j].count
    BY <1>5, <1>10
  <2>4. \A j \in DOMAIN table : l[j] = Lo[j] /\ h[j] = Hi[j] /\ r[j] = Re[j]
    BY <1>5, <1>12, <2>2, <2>3
  <2>5. /\ DOMAIN t2 = DOMAIN table
        /\ \A j \in DOMAIN table : /\ t2[j].orig = table[j].orig
                                   /\ Hi[j] = 0 \/ t2[j].start = table[j].start
        /\ UsedBlocks \subseteq V
    BY <1>7, <1>5, <1>10, <1>12
  <2>6. Owned(t2, V, next, who, pos, l, h, r)
    <3> HIDE DEF l, h, r, t2, V
    <3> QED
      BY <1>11, <2>4, <2>5, KeepingOwned
  <2>7. AtPlace(who, pos)'
    BY <2>1 DEF AtPlace, Filling
  <2> QED
    BY <1>2, <1>3, <2>0, <2>6, <2>7, ChainsNow
<1>14. CASE op.rest # <<>>
  <2>1. pc' = "dataWrite"
    BY <1>2, <1>14
  <2>2. ASSUME NEW j \in DOMAIN table
        PROVE  /\ l[j] = 1 /\ h[j] = r[j]
               /\ r[j] = IF j = i THEN 1 ELSE table[j].count
    <3>1. l[j] = 1 /\ h[j] = r[j]
      BY <1>3, <1>5, <2>1 DEF Lo, Hi, Re, Deleting
    <3>2. CASE j # i
      <4>1. r[j] = table'[j].count
        BY <1>3, <1>5, <2>1, <3>2 DEF Re
      <4> QED
        BY <1>5, <3>1, <3>2, <4>1
    <3>3. CASE j = i
      <4>1. r[j] = table'[j].count + 1
        BY <1>3, <1>5, <2>1, <3>3 DEF Re, Filling
      <4>2. r[j] = 1
        BY <1>5, <3>3, <4>1
      <4> QED
        BY <3>1, <3>3, <4>2
    <3> QED
      BY <3>2, <3>3
  <2>3. w = [who EXCEPT ![b] = table[i].orig]
    BY <1>4, <1>14 DEF Gives
  <2>4. p = [pos EXCEPT ![b] = 1]
    BY <1>14 DEF Gives
  <2>5. Owned(t2, V, next, w, p, l, h, r)
    <3>1. \A j \in DOMAIN table : table[j].orig \in UsedBlocks /\ table[j].orig # 0
      BY <1>3, OrigsDiffer
    <3>2. \A j, k \in DOMAIN table : table[j].orig = table[k].orig => j = k
      BY <1>3, OrigsDiffer
    <3>3. Lo[i] = 1 /\ Hi[i] = 0 /\ Re[i] = 0 /\ Hi[i] + 1 = 1
      BY <1>10, <1>12
    <3>4. /\ DOMAIN t2 = DOMAIN table
          /\ \A j \in DOMAIN table : t2[j].orig = table[j].orig
          /\ \A j \in DOMAIN table : j # i => t2[j].start = table[j].start
          /\ t2[i].start = b
          /\ \A x \in UsedBlocks : x \in V
          /\ b \in V
      BY <1>7, <1>5
    <3>5. /\ h[i] = 1 /\ r[i] = 1
          /\ \A j \in DOMAIN table : j # i => h[j] = Hi[j] /\ r[j] = Re[j]
          /\ \A j \in DOMAIN table : l[j] = Lo[j]
      BY <1>12, <2>2
    <3> HIDE DEF h, r, t2, V, l
    <3> DEFINE lo == Lo
               hi == Hi
               re == Re
    <3>6. /\ Owned(table, UsedBlocks, next, who, pos, lo, hi, re)
          /\ lo[i] = 1 /\ hi[i] = 0 /\ re[i] = 0
          /\ \A j \in DOMAIN table : j # i => h[j] = hi[j] /\ r[j] = re[j]
          /\ \A j \in DOMAIN table : l[j] = lo[j]
      BY <1>11, <3>3, <3>5
    <3> HIDE DEF lo, hi, re
    <3>7. hi[i] \in Nat /\ h[i] = hi[i] + 1 /\ r[i] \in Nat /\ r[i] <= hi[i] + 1
      BY <3>5, <3>6
    <3>8. /\ w[b] = table[i].orig /\ p[b] = hi[i] + 1
          /\ \A x \in Blocks : x # b => w[x] = who[x] /\ p[x] = pos[x]
      BY <2>3, <2>4, <3>6
    <3>9. Takes(table, UsedBlocks, who, pos, lo, hi, re, i, b, t2, V, w, p, h, r)
      BY <1>7, <3>1, <3>2, <3>4, <3>6, <3>7, <3>8 DEF Takes
    <3>10. Owned(t2, V, next, w, p, lo, h, r)
      BY <3>6, <3>9, TakingOwned
    <3>11. \A j \in DOMAIN t2 : t2[j].orig = t2[j].orig /\ l[j] = lo[j]
      BY <3>4, <3>6
    <3> QED
      BY <3>10, <3>11, KeepingOwned
  <2>6. AtPlace(w, p)'
    <3>1. /\ Touched' # 0 /\ table'[Touched'].count = 0
          /\ table'[Touched'].orig = table[i].orig
      BY <1>4, <1>5, LenProperties DEF DiskInv, TypeInv, TypeOK
    <3>2. w[op'.cur] = table[i].orig /\ p[op'.cur] = 1 /\ op'.cur \in Blocks
      BY <2>3, <2>4
    <3>3. p[op'.cur] = table'[Touched'].count + 1
      BY <3>1, <3>2
    <3> QED
      BY <2>1, <3>1, <3>2, <3>3 DEF AtPlace
  <2> QED
    BY <1>2, <1>3, <2>5, <2>6, ChainsNow
<1> QED
  BY <1>13, <1>14

LEMMA WriteDataChains ==
  ASSUME DiskInv, DiskInv',
         NEW who \in [Blocks -> BlockOrNone], NEW pos \in [Blocks -> Nat],
         ChainsAre(who, pos), WriteData
  PROVE  ChainsAre(who, pos)'
<1>1. ChainsAre(who, pos)
  OBVIOUS
<1>2. /\ pc = "dataWrite" /\ pc' \in {"link", "nextBlock"}
      /\ UNCHANGED <<used, next, table>>
      /\ pc' = IF op'.rest = <<>> THEN "link" ELSE "nextBlock"
  BY DEF WriteData, memory
<1>3. op'.nxt = 0 /\ op'.cur = op.cur /\ op'.name = op.name
  BY DEF WriteData, DiskInv, TypeInv, TypeOK, Operations
<1>4. Live = table /\ Live' = table /\ Touched' = Touched
  BY <1>2, <1>3 DEF Live, Touched, IndexOf
<1>5. Filling /\ Filling' /\ ~Deleting /\ ~Deleting'
  BY <1>2 DEF Filling, Deleting
<1>6. \A j \in DOMAIN Live : /\ Lo'[j] = Lo[j] /\ Hi'[j] = Hi[j]
                             /\ Re'[j] = Re[j]
  BY <1>2, <1>3, <1>4, <1>5 DEF Lo, Hi, Re
<1>7. AtPlace(who, pos)'
  BY <1>1, <1>2, <1>3, <1>4, <1>5 DEF ChainsAre, AtPlace
<1>8. UsedBlocks \subseteq UsedBlocks'
  BY <1>2 DEF UsedBlocks
<1> QED
  BY <1>1, <1>2, <1>4, <1>6, <1>7, <1>8, KeepingChains

LEMMA AllocNextChains ==
  ASSUME DiskInv, DiskInv',
         NEW who \in [Blocks -> BlockOrNone], NEW pos \in [Blocks -> Nat],
         ChainsAre(who, pos), AllocNext,
         NEW w \in [Blocks -> BlockOrNone], NEW p \in [Blocks -> Nat],
         NEW b \in Blocks, op'.nxt = b,
         Gives(who, pos, b, table[Touched].orig, table[Touched].count + 2, w, p)
  PROVE  ChainsAre(w, p)'
<1>1. ChainsAre(who, pos)
  OBVIOUS
<1>2. pc = "nextBlock" /\ pc' = "link" /\ UNCHANGED <<next, table>>
  BY DEF AllocNext
<1>3. TakeBlock(b) /\ op' = [op EXCEPT !.nxt = b]
  BY DEF AllocNext, DiskInv, TypeInv, TypeOK, Operations
<1>4. op'.nxt = b /\ op'.cur = op.cur /\ op'.name = op.name /\ op'.rest = op.rest
  BY <1>3 DEF DiskInv, TypeInv, TypeOK, Operations
<1>5. /\ b \notin UsedBlocks /\ \A x \in UsedBlocks : x \in UsedBlocks'
      /\ b \in UsedBlocks'
  BY <1>3, TakenWasFree
<1>6. Live = table /\ Live' = table /\ Touched' = Touched
  BY <1>2, <1>4 DEF Live, Touched, IndexOf
<1>7. Filling /\ Filling' /\ ~Deleting /\ ~Deleting'
  BY <1>2 DEF Filling, Deleting
<1>8. PICK i \in DOMAIN table : i = Touched /\ table[i] \in Inodes
  BY <1>1, <1>7, TouchedFound DEF ChainsAre, AtPlace
<1>9. PICK n \in Nat : n = table[i].count
  BY <1>8, FieldsTyped
<1>10. /\ op.rest # <<>> /\ op.cur \in Blocks
       /\ who[op.cur] = table[i].orig /\ pos[op.cur] = n + 1
  BY <1>1, <1>2, <1>7, <1>8, <1>9 DEF ChainsAre, AtPlace
<1>11. b # 0
  BY BlockTyped
<1> DEFINE lo == Lo
           hi == Hi
           re == Re
           l == Lo'
           h == Hi'
           r == Re'
           V == UsedBlocks'
<1>12. /\ Owned(table, UsedBlocks, next, who, pos, lo, hi, re)
       /\ lo[i] = 1 /\ hi[i] = n + 1 /\ re[i] = n + 1
  <2>1. Re[i] = n + 1
    BY <1>6, <1>7, <1>8, <1>9 DEF Re
  <2>2. Hi[i] = Re[i] /\ Lo[i] = 1
    BY <1>2, <1>6, <1>7, <1>8 DEF Hi, Lo
  <2> QED
    BY <1>1, <1>6, <2>1, <2>2 DEF ChainsAre
<1>13. ASSUME NEW j \in DOMAIN table
       PROVE  /\ l[j] = lo[j] /\ r[j] = re[j]
              /\ h[j] = IF j = i THEN n + 2 ELSE hi[j]
  <2>1. l[j] = lo[j] /\ r[j] = re[j]
    BY <1>6, <1>7 DEF Lo, Re
  <2>2. CASE j # i
    <3>1. h[j] = Re'[j] /\ hi[j] = Re[j]
      BY <1>2, <1>6, <1>8, <2>2 DEF Hi
    <3> QED
      BY <2>1, <2>2, <3>1
  <2>3. CASE j = i
    <3>1. h[j] = Re'[j] + 1
      BY <1>2, <1>4, <1>6, <1>8, <1>11, <2>3 DEF Hi
    <3>2. h[j] = n + 2
      BY <1>12, <2>1, <2>3, <3>1
    <3> QED
      BY <2>1, <2>3, <3>2
  <2> QED
    BY <2>2, <2>3
<1>14. w = [who EXCEPT ![b] = table[i].orig]
  BY <1>8 DEF Gives
<1>15. p = [pos EXCEPT ![b] = n + 2]
  BY <1>8, <1>9 DEF Gives
<1>16. Owned(table, V, next, w, p, l, h, r)
  <2>1. /\ \A j \in DOMAIN table : table[j].orig \in UsedBlocks /\ table[j].orig # 0
        /\ \A j, k \in DOMAIN table : table[j].orig = table[k].orig => j = k
    BY <1>6, OrigsDiffer
  <2>2. \A x \in UsedBlocks : x \in V
    BY <1>5
  <2>3. b \in V
    BY <1>5
  <2> HIDE DEF lo, hi, re, l, h, r, V
  <2>4. /\ hi[i] \in Nat /\ h[i] = hi[i] + 1 /\ r[i] \in Nat /\ r[i] <= hi[i] + 1
        /\ hi[i] >= 1 /\ r[i] = re[i] /\ hi[i] + 1 = n + 2
    BY <1>12, <1>13
  <2>5. /\ w[b] = table[i].orig /\ p[b] = hi[i] + 1
        /\ \A x \in Blocks : x # b => w[x] = who[x] /\ p[x] = pos[x]
    BY <1>14, <1>15, <2>4
  <2>6. Takes(table, UsedBlocks, who, pos, lo, hi, re, i, b, table, V, w, p, h, r)
    BY <1>5, <1>12, <1>13, <2>1, <2>2, <2>3, <2>4, <2>5 DEF Takes
  <2>7. Owned(table, V, next, w, p, lo, h, r)
    BY <1>12, <2>6, TakingOwned
  <2> QED
    BY <1>13, <2>7, KeepingOwned
<1>17. AtPlace(w, p)'
  <2>1. op.cur # b
    <3>1. who[op.cur] # 0
      BY <1>6, <1>8, <1>10, OrigsDiffer
    <3> QED
      BY <1>1, <1>5, <1>10, <3>1 DEF ChainsAre, Owned
  <2>2. w[op.cur] = table[i].orig /\ p[op.cur] = n + 1
    BY <1>10, <1>14, <1>15, <2>1
  <2>3. w[b] = table[i].orig /\ p[b] = n + 2
    BY <1>14, <1>15
  <2>4. Touched' # 0 /\ Touched' = i /\ table' = table
    BY <1>1, <1>2, <1>6, <1>7, <1>8 DEF ChainsAre, AtPlace
  <2> QED
    BY <1>2, <1>4, <1>9, <1>10, <1>11, <2>2, <2>3, <2>4 DEF AtPlace
<1> QED
  BY <1>2, <1>6, <1>16, <1>17, ChainsNow

\* wr_file counts the block it has linked.
LEMMA InodeCounted ==
  ASSUME DiskInv, DiskInv', Link, NEW i \in DOMAIN table
  PROVE  i = Touched =>
           /\ DOMAIN table' = DOMAIN table /\ Touched' = i
           /\ table'[i].orig = table[i].orig /\ table'[i].name = table[i].name
           /\ table'[i].start = table[i].start /\ table'[i].size = table[i].size
           /\ table'[i].count = table[i].count + 1
           /\ \A j \in DOMAIN table : j # i => table'[j] = table[j]
<1>0. SUFFICES ASSUME i = Touched
             PROVE  /\ DOMAIN table' = DOMAIN table /\ Touched' = i
                    /\ table'[i].orig = table[i].orig /\ table'[i].name = table[i].name
                    /\ table'[i].start = table[i].start /\ table'[i].size = table[i].size
                    /\ table'[i].count = table[i].count + 1
                    /\ \A j \in DOMAIN table : j # i => table'[j] = table[j]
  OBVIOUS
<1>7. table[i] \in Inodes
  BY LenProperties, ElementOfSeq DEF DiskInv, TypeInv, TypeOK
<1> DEFINE v == [table[i] EXCEPT !.count = table[i].count + 1]
<1>1. op'.name = op.name
  BY DEF Link, DiskInv, TypeInv, TypeOK, Operations
<1>2. /\ v \in Inodes /\ v.name = table[i].name /\ v.orig = table[i].orig
      /\ v.start = table[i].start /\ v.size = table[i].size /\ v.count = table[i].count + 1
  <2>1. table[i].count \in Nat
    BY <1>7, FieldsTyped
  <2> QED
    BY <1>7, <2>1 DEF Inodes
<1>3. /\ DOMAIN table' = DOMAIN table /\ table'[i] = v
      /\ \A j \in DOMAIN table : j # i => table'[j] = table[j]
      /\ Touched' = i
  <2>1. table' = [table EXCEPT ![i] = v]
    BY <1>0 DEF Link, Touched
  <2>2. table \in Seq(Inodes) /\ table' \in Seq(Inodes)
    BY DEF DiskInv, TypeInv, TypeOK
  <2> HIDE DEF v
  <2>3. /\ DOMAIN table' = DOMAIN table /\ table'[i] = v
        /\ \A j \in DOMAIN table : j # i => table'[j] = table[j]
        /\ \A m : IndexIn(table', m) = IndexIn(table, m)
    <3>1. v \in Inodes /\ Rewrites(table, table', i, v)
      BY <1>2, <2>1 DEF Rewrites
    <3> QED
      BY <2>2, <3>1, Rewritten
  <2>4. Touched' = IndexIn(table', op.name) /\ Touched = IndexIn(table, op.name)
    BY <1>1 DEF Touched, IndexOf
  <2> QED
    BY <1>0, <2>3, <2>4
<1> HIDE DEF v
<1> QED
  BY <1>2, <1>3

LEMMA LinkChains ==
  ASSUME DiskInv, DiskInv',
         NEW who \in [Blocks -> BlockOrNone], NEW pos \in [Blocks -> Nat],
         ChainsAre(who, pos), Link
  PROVE  ChainsAre(who, pos)'
<1>1. ChainsAre(who, pos)
  OBVIOUS
<1>2. /\ pc = "link" /\ UNCHANGED used
      /\ pc' = IF op.rest = <<>> THEN "idle" ELSE "dataWrite"
      /\ next' = [next EXCEPT ![op.cur] = op.nxt]
  BY DEF Link
<1>3. op'.cur = op.nxt /\ op'.name = op.name /\ op'.rest = op.rest
  BY DEF Link, DiskInv, TypeInv, TypeOK, Operations
<1>4. Live = table /\ Live' = table' /\ UsedBlocks' = UsedBlocks
  BY <1>2 DEF Live, UsedBlocks
<1>5. Filling /\ ~Deleting /\ ~Deleting'
  BY <1>2 DEF Filling, Deleting
<1>6. PICK i \in DOMAIN table :
        i = Touched /\ i = IndexOf(op.name) /\ table[i] \in Inodes
  BY <1>1, <1>5, TouchedFound DEF ChainsAre, AtPlace, Touched
<1>7. PICK n \in Nat : n = table[i].count
  BY <1>6, FieldsTyped
<1>8. /\ op.nxt = 0 <=> op.rest = <<>>
      /\ op.cur \in Blocks
      /\ who[op.cur] = table[i].orig /\ pos[op.cur] = n + 1
      /\ op.nxt # 0 => /\ op.nxt \in Blocks /\ who[op.nxt] = table[i].orig
                       /\ pos[op.nxt] = n + 2
  BY <1>1, <1>2, <1>5, <1>6, <1>7 DEF ChainsAre, AtPlace
<1>10. /\ DOMAIN table' = DOMAIN table /\ Touched' = i
       /\ table'[i].orig = table[i].orig /\ table'[i].start = table[i].start
       /\ table'[i].count = n + 1
       /\ \A j \in DOMAIN table : j # i => table'[j] = table[j]
  BY <1>6, <1>7, InodeCounted
<1> DEFINE lo == Lo
           hi == Hi
           re == Re
           l == Lo'
           h == Hi'
           r == Re'
           t2 == table'
           mx == next'
<1>11. /\ Owned(table, UsedBlocks, next, who, pos, lo, hi, re)
       /\ re[i] = n + 1 /\ hi[i] = IF op.nxt = 0 THEN n + 1 ELSE n + 2
       /\ \A j \in DOMAIN table : lo[j] = 1
       /\ \A j \in DOMAIN table : j # i => hi[j] = table[j].count /\ re[j] = table[j].count
  <2>1. re[i] = n + 1
    BY <1>4, <1>5, <1>6, <1>7 DEF Re
  <2>2. hi[i] = IF op.nxt = 0 THEN n + 1 ELSE n + 2
    <3>1. hi[i] = IF op.nxt = 0 THEN re[i] ELSE re[i] + 1
      BY <1>2, <1>4, <1>6 DEF Hi
    <3> QED
      BY <2>1, <3>1
  <2>3. \A j \in DOMAIN table : lo[j] = 1
    BY <1>4, <1>5 DEF Lo
  <2>4. \A j \in DOMAIN table : j # i => hi[j] = table[j].count /\ re[j] = table[j].count
    BY <1>4, <1>6 DEF Hi, Re
  <2> QED
    BY <1>1, <1>4, <2>1, <2>2, <2>3, <2>4 DEF ChainsAre
<1>12. /\ r[i] = IF op.nxt = 0 THEN n + 1 ELSE n + 2
       /\ \A j \in DOMAIN table : l[j] = 1 /\ h[j] = r[j]
       /\ \A j \in DOMAIN table : j # i => r[j] = table[j].count
  <2>1. \A j \in DOMAIN table : l[j] = 1 /\ h[j] = r[j]
    BY <1>2, <1>4, <1>5, <1>10 DEF Lo, Hi
  <2>2. \A j \in DOMAIN table : j # i => r[j] = table[j].count
    BY <1>4, <1>10 DEF Re
  <2>3. CASE op.nxt = 0
    <3>1. ~Filling'
      BY <1>2, <1>8, <2>3 DEF Filling
    <3>2. r[i] = n + 1
      BY <1>4, <1>10, <3>1 DEF Re
    <3> QED
      BY <2>1, <2>2, <2>3, <3>2
  <2>4. CASE op.nxt # 0
    <3>1. Filling'
      BY <1>2, <1>8, <2>4 DEF Filling
    <3>2. r[i] = (n + 1) + 1
      BY <1>4, <1>10, <3>1 DEF Re
    <3>3. (n + 1) + 1 = n + 2
      OBVIOUS
    <3> QED
      BY <2>1, <2>2, <2>4, <3>2, <3>3
  <2> QED
    BY <2>3, <2>4
<1>13. /\ DOMAIN t2 = DOMAIN table
       /\ \A j \in DOMAIN table : t2[j].orig = table[j].orig /\ t2[j].start = table[j].start
       /\ \A b \in Blocks : mx[b] = IF b = op.cur THEN op.nxt ELSE next[b]
  <2>1. \A b \in Blocks : mx[b] = IF b = op.cur THEN op.nxt ELSE next[b]
    BY <1>2, <1>8 DEF DiskInv, TypeInv, TypeOK
  <2> QED
    BY <1>10, <2>1
<1>14. Owned(t2, UsedBlocks, mx, who, pos, l, h, r)
  <2>1. /\ \A j, k \in DOMAIN table : table[j].orig = table[k].orig => j = k
        /\ table[i].orig # 0
    BY <1>4, OrigsDiffer
  <2> HIDE DEF lo, hi, re, l, h, r, t2, mx
  <2>2. \A j \in DOMAIN table : l[j] = lo[j] /\ h[j] = hi[j]
    BY <1>11, <1>12
  <2>3. \A j \in DOMAIN table : j # i => r[j] = re[j]
    BY <1>11, <1>12
  <2>4. \/ r[i] = re[i]
        \/ /\ r[i] = re[i] + 1 /\ op.nxt \in Blocks
           /\ who[op.nxt] = who[op.cur] /\ pos[op.nxt] = pos[op.cur] + 1
    BY <1>8, <1>11, <1>12
  <2>5. /\ op.cur \in Blocks /\ who[op.cur] # 0 /\ who[op.cur] = table[i].orig
        /\ pos[op.cur] = re[i]
    BY <1>8, <1>11, <2>1
  <2>6. Links(table, next, who, pos, lo, hi, re, i, op.cur, op.nxt, t2, mx, l, h, r)
    BY <1>13, <2>1, <2>2, <2>3, <2>4, <2>5 DEF Links
  <2> QED
    BY <1>11, <2>6, LinkingOwned
<1>15. AtPlace(who, pos)'
  <2>1. CASE op.nxt = 0
    <3>1. pc' = "idle"
      BY <1>2, <1>8, <2>1
    <3> QED
      BY <3>1 DEF AtPlace, Filling
  <2>2. CASE op.nxt # 0
    <3>1. pc' = "dataWrite"
      BY <1>2, <1>8, <2>2
    <3>2. Touched' # 0 /\ table'[Touched'].count = n + 1
          /\ table'[Touched'].orig = table[i].orig
      BY <1>6, <1>10, LenProperties DEF DiskInv, TypeInv, TypeOK
    <3>3. pos[op'.cur] = table'[Touched'].count + 1
      BY <1>3, <1>8, <2>2, <3>2
    <3> QED
      BY <1>3, <1>8, <2>2, <3>1, <3>2, <3>3 DEF AtPlace
  <2> QED
    BY <2>1, <2>2
<1> QED
  BY <1>4, <1>14, <1>15, ChainsNow

\* What clear_block does to the flags, the links and the counters.
LEMMA Cleared ==
  ASSUME DiskInv, NEW b \in Blocks, b \in UsedBlocks, ClearBlock(b)
  PROVE  /\ UsedBlocks' = UsedBlocks \ {b}
         /\ \A c \in Blocks : next'[c] = IF c = b THEN 0 ELSE next[c]
         /\ header' = header
  BY BlockTyped DEF ClearBlock, UsedBlocks, DiskInv, TypeInv, TypeOK

LEMMA ClearDataChains ==
  ASSUME DiskInv, DiskInv',
         NEW who \in [Blocks -> BlockOrNone], NEW pos \in [Blocks -> Nat],
         ChainsAre(who, pos), ClearData,
         NEW w \in [Blocks -> BlockOrNone], Loses(who, op.cur, w)
  PROVE  ChainsAre(w, pos)'
<1>1. ChainsAre(who, pos)
  OBVIOUS
<1>2. /\ pc = "clearData" /\ UNCHANGED table /\ ClearBlock(op.cur)
      /\ pc' = IF op.left = 1 THEN "clearInode" ELSE "clearData"
  BY DEF ClearData
<1>3. op'.cur = NextOf(op.cur) /\ op'.left = op.left - 1 /\ op'.name = op.name
  BY DEF ClearData, DiskInv, TypeInv, TypeOK, Operations
<1>4. Live = table /\ Live' = table /\ Touched' = Touched
  BY <1>2, <1>3 DEF Live, Touched, IndexOf
<1>5. ~Filling /\ ~Filling' /\ Deleting /\ Deleting'
  BY <1>2 DEF Filling, Deleting
<1>6. PICK i \in DOMAIN table : i = Touched /\ table[i] \in Inodes
  <2>1. Touched # 0
    BY <1>2 DEF DiskInv, TypeInv, Cursors, Touched
  <2> QED
    BY <2>1, TouchedFound
<1>7. PICK n \in Nat : n = table[i].count
  BY <1>6, FieldsTyped
<1>8. PICK m \in 1..n : m = op.left
  BY <1>1, <1>2, <1>6, <1>7 DEF ChainsAre, AtPlace
<1>9. PICK c \in Blocks : c = op.cur
  BY <1>1, <1>2 DEF ChainsAre, AtPlace
<1>10. who[c] = table[i].orig /\ pos[c] = n - m + 1
  BY <1>1, <1>2, <1>6, <1>7, <1>8, <1>9 DEF ChainsAre, AtPlace
<1> DEFINE lo == Lo
           hi == Hi
           re == Re
           l == Lo'
           h == Hi'
           r == Re'
           V == UsedBlocks'
           mx == next'
<1>11. /\ Owned(table, UsedBlocks, next, who, pos, lo, hi, re)
       /\ lo[i] = n - m + 1 /\ hi[i] = n /\ re[i] = n
  <2>1. lo[i] = n - m + 1
    BY <1>4, <1>5, <1>6, <1>7, <1>8 DEF Lo
  <2>2. hi[i] = n /\ re[i] = n
    BY <1>2, <1>4, <1>5, <1>6, <1>7 DEF Hi, Re
  <2> QED
    BY <1>1, <1>4, <2>1, <2>2 DEF ChainsAre
<1>12. ASSUME NEW j \in DOMAIN table
       PROVE  /\ h[j] = hi[j] /\ r[j] = re[j]
              /\ l[j] = IF j = i THEN (n - m + 1) + 1 ELSE lo[j]
  <2>1. h[j] = hi[j] /\ r[j] = re[j]
    BY <1>2, <1>4, <1>5 DEF Hi, Re
  <2>2. CASE j # i
    <3>1. l[j] = 1 /\ lo[j] = 1
      BY <1>4, <1>6, <2>2 DEF Lo
    <3> QED
      BY <2>1, <2>2, <3>1
  <2>3. CASE j = i
    <3>1. l[j] = n - (m - 1) + 1
      BY <1>3, <1>4, <1>5, <1>6, <1>7, <1>8, <2>3 DEF Lo
    <3>2. n - (m - 1) + 1 = (n - m + 1) + 1
      OBVIOUS
    <3> QED
      BY <2>1, <2>3, <3>1, <3>2
  <2> QED
    BY <2>2, <2>3
<1>13. who[c] # 0 /\ c \in UsedBlocks
  <2>1. who[c] # 0
    BY <1>4, <1>6, <1>10, OrigsDiffer
  <2> QED
    BY <1>11, <2>1 DEF Owned
<1>14. /\ V = UsedBlocks \ {c}
       /\ \A b \in Blocks : mx[b] = IF b = c THEN 0 ELSE next[b]
  BY <1>2, <1>9, <1>13, Cleared
<1>15. w = [who EXCEPT ![c] = 0]
  BY <1>9 DEF Loses
<1>16. Owned(table, V, mx, w, pos, l, h, r)
  <2>1. \A j, k \in DOMAIN table : table[j].orig = table[k].orig => j = k
    BY <1>4, OrigsDiffer
  <2> HIDE DEF lo, hi, re, l, h, r, V, mx
  <2>2. /\ pos[c] = lo[i] /\ lo[i] \in Nat /\ hi[i] \in Nat /\ lo[i] >= 1
        /\ l[i] = lo[i] + 1 /\ \A j \in DOMAIN table : j # i => l[j] = lo[j]
    BY <1>10, <1>11, <1>12
  <2>3. /\ \A b \in UsedBlocks : b # c => b \in V
        /\ w[c] = 0 /\ \A b \in Blocks : b # c => w[b] = who[b]
    BY <1>14, <1>15
  <2>4. Clears(table, UsedBlocks, next, who, pos, lo, hi, i, c, V, mx, w, l)
    BY <1>10, <1>13, <1>14, <2>1, <2>2, <2>3 DEF Clears
  <2>5. Owned(table, V, mx, w, pos, l, hi, re)
    BY <1>11, <2>4, ClearingOwned
  <2> QED
    BY <1>12, <2>5, KeepingOwned
<1>17. AtPlace(w, pos)'
  <2>1. CASE m = 1
    <3>1. pc' = "clearInode" /\ op'.left = 0
      BY <1>2, <1>3, <1>8, <2>1
    <3> QED
      BY <3>1 DEF AtPlace, Filling
  <2>2. CASE m # 1
    <3>1. pc' = "clearData" /\ op'.left = m - 1 /\ op'.left \in 1..n
      BY <1>2, <1>3, <1>8, <2>2
    <3>2. pos[c] < re[i]
      BY <1>8, <1>10, <1>11, <2>2
    <3>3. next[c] \in Blocks /\ who[next[c]] = who[c] /\ pos[next[c]] = pos[c] + 1
      BY <1>10, <1>11, <1>13, <3>2 DEF Owned
    <3>4. op'.cur = next[c]
      BY <1>3, <1>9, BlockTyped DEF NextOf
    <3>5. w[next[c]] = table[i].orig
      <4>1. next[c] # c
        BY <3>3
      <4> QED
        BY <1>10, <1>15, <3>3, <4>1
    <3>6. pos[next[c]] = n - (m - 1) + 1
      BY <1>10, <3>3
    <3> QED
      BY <1>2, <1>4, <1>6, <1>7, <3>1, <3>3, <3>4, <3>5, <3>6 DEF AtPlace, Filling
  <2> QED
    BY <2>1, <2>2
<1> QED
  BY <1>4, <1>16, <1>17, ChainsNow

LEMMA ClearInodeChains ==
  ASSUME DiskInv, DiskInv',
         NEW who \in [Blocks -> BlockOrNone], NEW pos \in [Blocks -> Nat],
         ChainsAre(who, pos), ClearInode
  PROVE  ChainsAre(who, pos)'
<1>1. ChainsAre(who, pos)
  OBVIOUS
<1>2. pc = "clearInode" /\ pc' = "idle"
  BY DEF ClearInode
<1>3. Live = table /\ Live' = table'
  BY <1>2 DEF Live
<1>4. ~Filling /\ ~Filling' /\ Deleting /\ ~Deleting'
  BY <1>2 DEF Filling, Deleting
<1>5. PICK i \in DOMAIN table :
        i = Touched /\ i = IndexOf(op.name) /\ table[i] \in Inodes
  <2>1. Touched # 0
    BY <1>2 DEF DiskInv, TypeInv, Cursors, Touched
  <2> QED
    BY <2>1, TouchedFound DEF Touched
<1>6. PICK n \in Nat : n = table[i].count
  BY <1>5, FieldsTyped
<1>7. op.left = 0
  BY <1>1, <1>2 DEF ChainsAre, AtPlace
<1>8. ClearBlock(table[i].orig) /\ table' = Unlinked(i)
  BY <1>5 DEF ClearInode
<1>9. table[i].orig \in Blocks /\ table[i].orig \in UsedBlocks
  BY <1>3, OrigsAreBlocks, OrigsDiffer
<1>10. PICK m : m = Len(table) - 1
  OBVIOUS
<1> DEFINE lo == Lo
           hi == Hi
           re == Re
           l == Lo'
           h == Hi'
           r == Re'
           V == UsedBlocks'
           mx == next'
           t2 == table'
           pick == Pick(i)
<1>11. /\ Owned(table, UsedBlocks, next, who, pos, lo, hi, re)
       /\ lo[i] = n + 1 /\ hi[i] = n
       /\ \A j \in DOMAIN table : j # i =>
            lo[j] = 1 /\ hi[j] = table[j].count /\ re[j] = table[j].count
  <2>1. lo[i] = n - 0 + 1
    BY <1>3, <1>4, <1>5, <1>6, <1>7 DEF Lo
  <2>2. \A j \in DOMAIN table : hi[j] = table[j].count /\ re[j] = table[j].count
    BY <1>2, <1>3, <1>4 DEF Hi, Re
  <2>3. \A j \in DOMAIN table : j # i => lo[j] = 1
    BY <1>3, <1>5 DEF Lo
  <2>4. Owned(table, UsedBlocks, next, who, pos, lo, hi, re)
    BY <1>1, <1>3 DEF ChainsAre
  <2> QED
    BY <1>6, <2>1, <2>2, <2>3, <2>4
<1>12. /\ DOMAIN t2 = 1..m
       /\ pick \in [DOMAIN t2 -> DOMAIN table \ {i}]
       /\ \A j \in DOMAIN table \ {i} : \E k \in DOMAIN t2 : pick[k] = j
       /\ \A k \in DOMAIN t2 : /\ t2[k].orig = table[pick[k]].orig
                               /\ t2[k].start = table[pick[k]].start
                               /\ t2[k].count = table[pick[k]].count
  <2>1. table \in Seq(Inodes) /\ Chained(table)
    BY <1>3 DEF DiskInv, TypeInv, TypeOK, Linked
  <2> HIDE DEF pick
  <2>2. /\ DOMAIN Unlinked(i) = 1..m
        /\ pick \in [1..m -> DOMAIN table \ {i}]
        /\ \A k \in DOMAIN table \ {i} : \E j \in 1..m : pick[j] = k
        /\ \A j \in 1..m : /\ Unlinked(i)[j].orig = table[pick[j]].orig
                           /\ Unlinked(i)[j].start = table[pick[j]].start
                           /\ Unlinked(i)[j].count = table[pick[j]].count
    BY <1>10, <2>1, UnlinkedKeeps DEF pick
  <2> QED
    BY <1>8, <2>2
<1>13. \A k \in DOMAIN t2 : l[k] = 1 /\ h[k] = t2[k].count /\ r[k] = t2[k].count
  BY <1>2, <1>3, <1>4 DEF Lo, Hi, Re
<1>14. /\ \A b \in UsedBlocks : b # table[i].orig => b \in V
       /\ \A b \in Blocks : mx[b] = IF b = table[i].orig THEN 0 ELSE next[b]
  BY <1>8, <1>9, Cleared
<1>15. Owned(t2, V, mx, who, pos, l, h, r)
  <2>1. \A j, k \in DOMAIN table : table[j].orig = table[k].orig => j = k
    BY <1>3, OrigsDiffer
  <2> HIDE DEF lo, hi, re, l, h, r, V, mx, t2, pick
  <2>2. lo[i] \in Int /\ hi[i] \in Int /\ lo[i] > hi[i]
    BY <1>11
  <2>3. \A k \in DOMAIN t2 : /\ l[k] = lo[pick[k]] /\ h[k] = hi[pick[k]]
                             /\ r[k] = re[pick[k]]
    BY <1>11, <1>12, <1>13
  <2>4. Drops(table, UsedBlocks, next, lo, hi, re, i, t2, pick, V, mx, l, h, r)
    BY <1>12, <1>14, <2>1, <2>2, <2>3 DEF Drops
  <2> QED
    BY <1>11, <2>4, DroppingOwned
<1>16. AtPlace(who, pos)'
  BY <1>2 DEF AtPlace, Filling
<1> QED
  BY <1>3, <1>15, <1>16, ChainsNow

LEMMA InitChains == Init => Chains
<1> SUFFICES ASSUME Init PROVE Chains
  OBVIOUS
<1>1. Live = <<>> /\ pc = "closed" /\ DOMAIN Live = {}
  BY DEF Init, Live
<1>2. PICK who \in [Blocks -> BlockOrNone] : who = [b \in Blocks |-> 0]
  BY BlockTyped
<1>3. PICK pos \in [Blocks -> Nat] : pos = [b \in Blocks |-> 0]
  OBVIOUS
<1>4. Owned(Live, UsedBlocks, next, who, pos, Lo, Hi, Re)
  BY <1>1, <1>2 DEF Owned
<1>5. AtPlace(who, pos)
  BY <1>1 DEF AtPlace, Filling
<1>6. ChainsAre(who, pos)
  BY <1>4, <1>5 DEF ChainsAre
<1> QED
  BY <1>6 DEF Chains

\* The chains after a step: those before it, but for the block that the step
\* adds to a chain or clears.
LEMMA NextChains ==
  ASSUME RestartInv, RestartInv', Chains, [Next]_vars
  PROVE  Chains'
<1> DiskInv /\ DiskInv'
  BY DEF RestartInv
<1>1. PICK who \in [Blocks -> BlockOrNone], pos \in [Blocks -> Nat] : ChainsAre(who, pos)
  BY DEF Chains
<1>2. CASE AllocFirst
  <2>1. PICK b \in Blocks : op'.cur = b
    BY <1>2 DEF AllocFirst, DiskInv, TypeInv, TypeOK, Operations
  <2>2. table[Touched].orig \in BlockOrNone
    <3>1. table[Touched] \in Inodes
      BY <1>1, <1>2, TouchedFound DEF AllocFirst, ChainsAre, AtPlace
    <3> QED
      BY <3>1 DEF Inodes
  <2>3. PICK w \in [Blocks -> BlockOrNone], p \in [Blocks -> Nat] :
          /\ op.rest = <<>> => w = who /\ p = pos
          /\ op.rest # <<>> => Gives(who, pos, b, table[Touched].orig, 1, w, p)
    BY <2>2 DEF Gives
  <2>4. ChainsAre(w, p)'
    BY <1>1, <1>2, <2>1, <2>3, AllocFirstChains
  <2> QED
    BY <2>4 DEF Chains
<1>3. CASE AllocNext
  <2>1. PICK b \in Blocks : op'.nxt = b
    BY <1>3 DEF AllocNext, DiskInv, TypeInv, TypeOK, Operations
  <2>2. table[Touched].orig \in BlockOrNone /\ table[Touched].count + 2 \in Nat
    <3>1. table[Touched] \in Inodes
      BY <1>1, <1>3, TouchedFound DEF AllocNext, ChainsAre, AtPlace, Filling
    <3>2. table[Touched].orig \in BlockOrNone /\ table[Touched].count \in Nat
      BY <3>1, FieldsTyped
    <3>3. \A n \in Nat : n + 2 \in Nat
      OBVIOUS
    <3> QED
      BY <3>2, <3>3, Zenon
  <2>3. PICK w \in [Blocks -> BlockOrNone], p \in [Blocks -> Nat] :
          Gives(who, pos, b, table[Touched].orig, table[Touched].count + 2, w, p)
    BY <2>2 DEF Gives
  <2>4. ChainsAre(w, p)'
    BY <1>1, <1>3, <2>1, <2>3, AllocNextChains
  <2> QED
    BY <2>4 DEF Chains
<1>4. CASE ClearData
  <2>1. PICK w \in [Blocks -> BlockOrNone] : Loses(who, op.cur, w)
    BY BlockTyped DEF Loses
  <2>2. ChainsAre(w, pos)'
    BY <1>1, <1>4, <2>1, ClearDataChains
  <2> QED
    BY <2>2 DEF Chains
<1>5. CASE ExtendDisk
  BY <1>1, <1>5, StillChains DEF ExtendDisk, disk, history, Chains
<1>6. CASE UNCHANGED vars
  BY <1>1, <1>6, StillChains DEF vars, Chains
<1>7. CASE Load \/ Save
  BY <1>1, <1>7, LoadChains, SaveChains DEF Chains
<1>8. CASE \E n \in Names : DeleteFile(n) \/ \E t \in Texts : MakeFile(n, t)
  BY <1>1, <1>8, MakeFileChains, DeleteFileChains DEF Chains
<1>9. CASE AllocInode \/ WriteInode \/ WriteData \/ Link \/ ClearInode
  BY <1>1, <1>9, AllocInodeChains, WriteInodeChains, WriteDataChains, LinkChains,
     ClearInodeChains DEF Chains
<1> QED
  BY <1>2, <1>3, <1>4, <1>5, <1>6, <1>7, <1>8, <1>9 DEF Next, Make, Delete

-----------------------------------------------------------------------------
(* The counters.                                                           *)

LEMMA UsedFinite ==
  /\ IsFiniteSet(UsedBlocks) /\ IsFiniteSet(UsedBlocks')
  /\ Cardinality(UsedBlocks) \in Nat
<1>1. IsFiniteSet(Blocks)
  <2> DEFINE first == InitBlocks
  <2>1. first \in Int /\ MaxBlock \in Int
    BY GeometryAssumption DEF InitBlocks
  <2> HIDE DEF first
  <2>2. IsFiniteSet(first..MaxBlock)
    BY <2>1, FS_Interval
  <2> QED
    BY <2>2 DEF Blocks, first
<1>2. UsedBlocks \in SUBSET Blocks /\ UsedBlocks' \in SUBSET Blocks
  BY DEF UsedBlocks
<1>3. IsFiniteSet(UsedBlocks) /\ IsFiniteSet(UsedBlocks')
  BY <1>1, <1>2, FS_Subset
<1> QED
  BY <1>3, FS_CardinalityType

\* The counters that matter are the same, and so are the flags.
LEMMA SameCounts ==
  ASSUME Counted, UsedBlocks' = UsedBlocks, sb'.total = sb.total,
         sb'.free = sb.free, sb'.used = sb.used, pc # "closed",
         pc' \notin {"closed", "saveInode"}
  PROVE  Counted'
BY DEF Counted, Agree

LEMMA TakeCounts ==
  ASSUME DiskInv, Counted, NEW b \in Blocks, TakeBlock(b), pc # "closed",
         pc' \notin {"closed", "saveInode"}
  PROVE  Counted'
<1>1. /\ b \notin UsedBlocks /\ b \in InitBlocks..(sb.total - 1)
      /\ UsedBlocks' = UsedBlocks \cup {b}
  BY TakenWasFree
<1>2. sb \in SuperBlocks
  BY DEF DiskInv, TypeInv, TypeOK
<1>3. /\ sb'.total = sb.total /\ sb'.used = sb.used + 1 /\ sb'.free = sb.free - 1
      /\ sb.total \in Nat /\ sb.free \in Int /\ sb.used \in Int
  BY <1>2 DEF TakeBlock, SuperBlocks
<1>4. Cardinality(UsedBlocks') = Cardinality(UsedBlocks) + 1
  BY <1>1, UsedFinite, FS_AddElement
<1>5. Agree(sb, UsedBlocks)
  BY DEF Counted
<1>6. sb'.free + sb'.used = sb'.total - InitBlocks
  BY <1>3, <1>5 DEF Agree, InitBlocks
<1>7. sb'.used = Cardinality(UsedBlocks')
  BY <1>3, <1>4, <1>5 DEF Agree
<1>8. UsedBlocks' \subseteq InitBlocks..(sb'.total - 1)
  BY <1>1, <1>3, <1>5 DEF Agree
<1> QED
  BY <1>6, <1>7, <1>8 DEF Counted, Agree

LEMMA ClearCounts ==
  ASSUME DiskInv, Counted, NEW b \in UsedBlocks, ClearBlock(b), pc # "closed",
         pc' \notin {"closed", "saveInode"}
  PROVE  Counted'
<1>1. UsedBlocks' = UsedBlocks \ {b}
  BY Cleared DEF UsedBlocks
<1>2. sb \in SuperBlocks
  BY DEF DiskInv, TypeInv, TypeOK
<1>3. /\ sb'.total = sb.total /\ sb'.used = sb.used - 1 /\ sb'.free = sb.free + 1
      /\ sb.total \in Nat /\ sb.free \in Int /\ sb.used \in Int
  BY <1>2 DEF ClearBlock, SuperBlocks
<1>4. Cardinality(UsedBlocks') = Cardinality(UsedBlocks) - 1
  BY <1>1, UsedFinite, FS_RemoveElement
<1>5. Agree(sb, UsedBlocks)
  BY DEF Counted
<1>6. sb'.free + sb'.used = sb'.total - InitBlocks
  BY <1>3, <1>5 DEF Agree, InitBlocks
<1>7. sb'.used = Cardinality(UsedBlocks')
  BY <1>3, <1>4, <1>5 DEF Agree
<1>8. UsedBlocks' \subseteq InitBlocks..(sb'.total - 1)
  BY <1>1, <1>3, <1>5 DEF Agree
<1> QED
  BY <1>6, <1>7, <1>8 DEF Counted, Agree

LEMMA ExtendCounts == DiskInv /\ Counted /\ ExtendDisk => Counted'
<1> SUFFICES ASSUME DiskInv, Counted, ExtendDisk PROVE Counted'
  OBVIOUS
<1>1. /\ pc \notin {"closed", "saveInode"} /\ pc' = pc /\ UsedBlocks' = UsedBlocks
  BY DEF ExtendDisk, disk, UsedBlocks
<1>2. sb \in SuperBlocks /\ Extension \in Nat
  BY GeometryAssumption DEF DiskInv, TypeInv, TypeOK
<1>3. /\ sb'.total = sb.total + Extension /\ sb'.used = sb.used
      /\ sb'.free = sb.free + Extension
      /\ sb.total \in Nat /\ sb.free \in Int /\ sb.used \in Int
  BY <1>2 DEF ExtendDisk, SuperBlocks
<1>4. Agree(sb, UsedBlocks)
  BY <1>1 DEF Counted
<1>5. sb'.free + sb'.used = sb'.total - InitBlocks
  BY <1>2, <1>3, <1>4 DEF Agree, InitBlocks
<1>6. sb'.used = Cardinality(UsedBlocks')
  BY <1>1, <1>3, <1>4 DEF Agree
<1>7. UsedBlocks' \subseteq InitBlocks..(sb'.total - 1)
  <2> SUFFICES ASSUME NEW b \in UsedBlocks PROVE b \in InitBlocks..(sb'.total - 1)
    BY <1>1
  <2>1. b \in InitBlocks..(sb.total - 1)
    BY <1>4 DEF Agree
  <2> QED
    BY <1>2, <1>3, <2>1 DEF InitBlocks
<1> QED
  BY <1>1, <1>5, <1>6, <1>7 DEF Counted, Agree

LEMMA OpenCounts == DiskInv /\ Counted /\ Open => Counted'
<1> SUFFICES ASSUME DiskInv, Counted, Open PROVE Counted'
  OBVIOUS
<1>1. /\ pc = "closed" /\ pc' \notin {"closed", "saveInode"}
      /\ UsedBlocks' = UsedBlocks
  BY DEF Open, disk, UsedBlocks
<1>2. CASE header.init # 0
  <2>1. sb'.total = header.total /\ sb'.free = header.free /\ sb'.used = header.used
    BY <1>2 DEF Open
  <2> QED
    BY <1>1, <1>2, <2>1 DEF Counted, Agree
<1>3. CASE header.init = 0
  <2>1. sb'.total = 1 /\ sb'.free = 0 /\ sb'.used = 0
    BY <1>3 DEF Open, FreshSuperBlock, InitBlocks
  <2>2. UsedBlocks' = {} /\ Cardinality(UsedBlocks') = 0
    BY <1>1, <1>3, FS_EmptySet DEF Counted
  <2>3. Agree(sb', UsedBlocks')
    BY <2>1, <2>2 DEF Agree, InitBlocks
  <2> QED
    BY <1>1, <2>3 DEF Counted, Agree
<1> QED
  BY <1>2, <1>3

LEMMA SaveCounts == DiskInv /\ Counted /\ Save => Counted'
<1> SUFFICES ASSUME DiskInv, Counted, Save PROVE Counted'
  OBVIOUS
<1>1. Agree(sb, UsedBlocks) /\ UsedBlocks' = UsedBlocks
  BY DEF Save, Close, SaveHeader, SaveInode, Counted, disk, UsedBlocks
<1>2. CASE Close
  <2>1. pc' = "saveHeader" /\ sb' = sb
    BY <1>2 DEF Close, memory
  <2> QED
    BY <1>1, <2>1 DEF Counted, Agree
<1>3. CASE SaveHeader
  <2>1. /\ header'.init # 0 /\ header'.total = sb.total
        /\ header'.free = sb.free /\ header'.used = sb.used
    BY <1>3 DEF SaveHeader, InitBlocks
  <2>2. pc' = "closed" \/ (pc' = "saveInode" /\ sb' = sb)
    BY <1>3 DEF SaveHeader, Saved, memory
  <2> QED
    BY <1>1, <2>1, <2>2 DEF Counted, Agree
<1>4. CASE SaveInode
  <2>1. header.init # 0 /\ header.total = sb.total
        /\ header.free = sb.free /\ header.used = sb.used
    BY <1>4 DEF SaveInode, Counted
  <2>2. header' = header
    <3>1. pc = "saveInode" /\ op.left \in DOMAIN Live /\ Live = table
      BY <1>4, LenProperties
         DEF SaveInode, DiskInv, TypeInv, TypeOK, Cursors, Live
    <3>2. table[op.left].orig # 0
      BY <3>1, OrigsAreBlocks
    <3> QED
      BY <1>4, <3>2 DEF SaveInode
  <2>3. pc' = "closed" \/ (pc' = "saveInode" /\ sb' = sb)
    BY <1>4 DEF SaveInode, Saved, memory
  <2> QED
    BY <1>1, <2>1, <2>2, <2>3 DEF Counted, Agree
<1> QED
  BY <1>2, <1>3, <1>4 DEF Save

LEMMA MakeCounts == DiskInv /\ Counted /\ Make => Counted'
<1> SUFFICES ASSUME DiskInv, Counted, Make PROVE Counted'
  OBVIOUS
<1>1. pc # "closed" /\ pc' \notin {"closed", "saveInode"}
  BY DEF Make, AllocInode, WriteInode, AllocFirst, WriteData, AllocNext, Link
<1>2. CASE AllocInode \/ AllocFirst \/ AllocNext
  <2>1. PICK b \in Blocks : TakeBlock(b)
    BY <1>2 DEF AllocInode, AllocFirst, AllocNext
  <2> QED
    BY <1>1, <2>1, TakeCounts
<1>3. CASE WriteInode \/ WriteData \/ Link
  <2>1. UsedBlocks' = UsedBlocks
    BY <1>3 DEF WriteInode, WriteData, Link, UsedBlocks
  <2>2. sb'.total = sb.total /\ sb'.free = sb.free /\ sb'.used = sb.used
    BY <1>3 DEF WriteInode, WriteData, Link, memory, DiskInv, TypeInv, TypeOK,
                SuperBlocks
  <2> QED
    BY <1>1, <2>1, <2>2, SameCounts
<1> QED
  BY <1>2, <1>3 DEF Make

LEMMA DeleteCounts == DiskInv /\ Chains /\ Counted /\ Delete => Counted'
<1> SUFFICES ASSUME DiskInv, Chains, Counted, Delete PROVE Counted'
  OBVIOUS
<1>1. pc # "closed" /\ pc' \notin {"closed", "saveInode"}
  BY DEF Delete, ClearData, ClearInode
<1>2. Live = table
  BY DEF Delete, ClearData, ClearInode, Live
<1>3. Touched # 0 /\ Touched \in DOMAIN table
  BY TouchedFound DEF Delete, ClearData, ClearInode, DiskInv, TypeInv, Cursors, Touched
<1>4. CASE ClearData
  <2>1. PICK who \in [Blocks -> BlockOrNone], pos \in [Blocks -> Nat] :
          ChainsAre(who, pos)
    BY DEF Chains
  <2>2. op.cur \in Blocks /\ who[op.cur] = table[Touched].orig
    BY <1>4, <2>1 DEF ClearData, ChainsAre, AtPlace
  <2>3. who[op.cur] # 0
    BY <1>2, <1>3, <2>2, OrigsDiffer
  <2>4. op.cur \in UsedBlocks
    BY <2>1, <2>2, <2>3 DEF ChainsAre, Owned
  <2> QED
    BY <1>1, <1>4, <2>4, ClearCounts DEF ClearData
<1>5. CASE ClearInode
  <2>1. table[Touched].orig \in UsedBlocks
    BY <1>2, <1>3, OrigsDiffer
  <2>2. ClearBlock(table[Touched].orig)
    BY <1>5 DEF ClearInode, Touched
  <2> QED
    BY <1>1, <2>1, <2>2, ClearCounts
<1> QED
  BY <1>4, <1>5 DEF Delete

LEMMA NextCounts ==
  ASSUME DiskInv, Chains, Counted, [Next]_vars
  PROVE  Counted'
<1>1. CASE Next
  <2>1. CASE Load
    <3>1. CASE Open
      BY <3>1, OpenCounts
    <3>2. CASE LoadInode
      BY <3>2, SameCounts DEF LoadInode, disk, UsedBlocks
    <3> QED
      BY <2>1, <3>1, <3>2 DEF Load
  <2>2. CASE \E n \in Names : DeleteFile(n) \/ \E t \in Texts : MakeFile(n, t)
    BY <2>2, SameCounts DEF DeleteFile, MakeFile, disk, memory, UsedBlocks
  <2> QED
    BY <1>1, <2>1, <2>2, SaveCounts, ExtendCounts, MakeCounts, DeleteCounts
       DEF Next
<1>2. CASE UNCHANGED vars
  <2>1. UsedBlocks' = UsedBlocks /\ UNCHANGED <<header, sb, pc>>
    BY <1>2 DEF vars, UsedBlocks
  <2> QED
    BY <2>1 DEF Counted, Agree
<1> QED
  BY <1>1, <1>2

\* Whatever empty_B, ExtendDisk and clear_block do to them, the counters of
\* the SuperBlock agree with each other and with the flags on the disk, in a
\* process that ends through the destructor of File_system.
THEOREM CountersAgree == Spec => []CountersMatchFlags
<1>1. Init => CountInv
  <2> SUFFICES ASSUME Init PROVE CountInv
    OBVIOUS
  <2>1. RestartInv /\ Chains
    BY InitInv, InitChains
  <2>2. Counted
    BY DEF Init, Counted, ZeroHeader, UsedBlocks
  <2> QED
    BY <2>1, <2>2 DEF CountInv
<1>2. CountInv /\ [Next]_vars => CountInv'
  BY NextKeeps, NextChains, NextCounts DEF CountInv, RestartInv
<1>3. CountInv => CountersMatchFlags
  BY DEF CountInv, Counted, Agree, CountersMatchFlags, Running
<1> QED
  BY <1>1, <1>2, <1>3, PTL DEF Spec

-----------------------------------------------------------------------------
(* Following next pointers.  The functions that do it are recursive,       *)
(* downwards from the last block: that they exist, and what they give, is  *)
(* proved from the least number of a set.                                  *)

\* DataBlocks, which is a choice of a function, satisfies its equation.
LEMMA DataBlocksIs ==
  ASSUME TypeOK, NEW inode \in Inodes
  PROVE  \E f :
           /\ \A k \in 0..MaxBlock, b \in BlockOrNone :
                f[k][b] = IF b = 0 \/ k = MaxBlock \/ k >= inode.count THEN {}
                          ELSE {b} \cup f[k + 1][next[b]]
           /\ DataBlocks(inode) = f[0][inode.start]
<1> DEFINE Rows == [BlockOrNone -> SUBSET Blocks]
           none == [b \in BlockOrNone |-> {}]
           Row(k, h) == [b \in BlockOrNone |->
                           IF b = 0 \/ k = MaxBlock \/ k >= inode.count THEN {}
                           ELSE {b} \cup h[next[b]]]
<1>1. MaxBlock \in Nat /\ none \in Rows
  BY GeometryAssumption
<1>2. \A k, h : h \in Rows => Row(k, h) \in Rows
  <2> SUFFICES ASSUME NEW k, NEW h \in Rows PROVE Row(k, h) \in Rows
    OBVIOUS
  <2>1. ASSUME NEW b \in BlockOrNone, b # 0 PROVE {b} \cup h[next[b]] \subseteq Blocks
    <3>1. b \in Blocks
      BY <2>1, GeometryAssumption DEF Blocks, BlockOrNone, InitBlocks
    <3>2. next[b] \in BlockOrNone
      BY <3>1 DEF TypeOK
    <3> QED
      BY <3>1, <3>2
  <2> QED
    BY <2>1
<1>3. \A h : Row(MaxBlock, h) = none
  OBVIOUS
<1> HIDE DEF Rows, none
<1>4. PICK step \in [0..MaxBlock -> [Rows -> Rows]] :
        \A k \in 0..MaxBlock, h \in Rows : step[k][h] = Row(k, h)
  <2> DEFINE step == [k \in 0..MaxBlock |-> [h \in Rows |-> Row(k, h)]]
  <2> HIDE DEF Row
  <2>1. step \in [0..MaxBlock -> [Rows -> Rows]]
    BY <1>2
  <2>2. \A k \in 0..MaxBlock, h \in Rows : step[k][h] = Row(k, h)
    OBVIOUS
  <2> QED
    BY <2>1, <2>2
<1>45. Computes(step, MaxBlock, Rows)
  BY DEF Computes
<1>5. PICK f \in [0..MaxBlock -> Rows] :
        f[MaxBlock] = none /\ \A k \in 0..(MaxBlock - 1) : f[k] = step[k][f[k + 1]]
  BY <1>1, <1>45, Downwards
<1>6. f = [k \in 0..MaxBlock |-> Row(k, f[k + 1])]
  <2> HIDE DEF Row
  <2> SUFFICES ASSUME NEW k \in 0..MaxBlock PROVE f[k] = Row(k, f[k + 1])
    OBVIOUS
  <2>1. CASE k = MaxBlock
    BY <1>3, <1>5, <2>1
  <2>2. CASE k # MaxBlock
    <3>1. k \in 0..(MaxBlock - 1) /\ k + 1 \in 0..MaxBlock
      BY <1>1, <2>2
    <3> QED
      BY <1>4, <1>5, <3>1
  <2> QED
    BY <2>1, <2>2
<1>7. DataBlocks(inode) =
        (CHOOSE g : g = [k \in 0..MaxBlock |-> Row(k, g[k + 1])])[0][inode.start]
  BY DEF DataBlocks
<1> DEFINE F == CHOOSE g : g = [k \in 0..MaxBlock |-> Row(k, g[k + 1])]
<1>8. F = [k \in 0..MaxBlock |-> Row(k, F[k + 1])]
  <2> HIDE DEF Row
  <2> QED
    BY <1>6
<1>9. DataBlocks(inode) = F[0][inode.start]
  BY <1>7
<1>10. \A k \in 0..MaxBlock, b \in BlockOrNone :
         F[k][b] = IF b = 0 \/ k = MaxBlock \/ k >= inode.count THEN {}
                   ELSE {b} \cup F[k + 1][next[b]]
  <2> HIDE DEF F
  <2> SUFFICES ASSUME NEW k \in 0..MaxBlock
               PROVE  \A b \in BlockOrNone :
                        F[k][b] = IF b = 0 \/ k = MaxBlock \/ k >= inode.count THEN {}
                                  ELSE {b} \cup F[k + 1][next[b]]
    OBVIOUS
  <2>1. F[k] = Row(k, F[k + 1])
    <3> HIDE DEF Row
    <3> QED
      BY <1>8
  <2> QED
    BY <2>1
<1> HIDE DEF F
<1> QED
  BY <1>9, <1>10

\* What rd_file gets from the k-th block b of an inode, with rest what it gets
\* from the blocks after it.
Part(inode, k, b, rest) ==
  LET left == inode.size - k * Payload
      want == IF left < Payload THEN left ELSE Payload
      got  == Bytes(data[b])
      here == SubSeq(got, 1, IF Len(got) < want THEN Len(got) ELSE want)
  IN  IF b = 0 \/ k = MaxBlock THEN NotFound
      ELSE IF left = want THEN Found(here)
      ELSE IF ~rest.found THEN NotFound
      ELSE Found(IF Len(here) < want THEN here ELSE here \o rest.text)

Characters == Chars \cup Names \cup {NoName}
Results == [found : BOOLEAN, text : Seq(Characters)]

LEMMA PartTyped ==
  ASSUME TypeOK, NEW inode \in Inodes, NEW k \in Nat, NEW b \in BlockOrNone,
         NEW rest \in Results
  PROVE  Part(inode, k, b, rest) \in Results
<1>1. NotFound \in Results /\ \A s \in Seq(Characters) : Found(s) \in Results
  BY EmptySeq DEF NotFound, Found, Results
<1>2. CASE b = 0
  BY <1>1, <1>2 DEF Part
<1>3. CASE b # 0
  <2> DEFINE left == inode.size - k * Payload
             want == IF left < Payload THEN left ELSE Payload
             got == Bytes(data[b])
             n == IF Len(got) < want THEN Len(got) ELSE want
             here == SubSeq(got, 1, n)
  <2>1. data[b] \in Payloads
    <3>1. b \in Blocks
      BY <1>3, GeometryAssumption DEF Blocks, BlockOrNone, InitBlocks
    <3> QED
      BY <3>1 DEF TypeOK
  <2>2. got \in Seq(Characters)
    <3>1. CASE data[b] = Zero
      BY <3>1, EmptySeq DEF Bytes, Zero
    <3>2. CASE data[b] \in Inodes
      <4>1. data[b].kind = "inode" /\ data[b].name \in Characters
        BY <3>2 DEF Inodes, Characters
      <4>2. <<data[b].name>> \in Seq(Characters)
        BY <4>1
      <4> QED
        BY <4>1, <4>2 DEF Bytes
    <3>3. CASE data[b] \in [kind : {"text"}, chars : Seq(Chars)]
      <4>1. data[b].kind = "text" /\ data[b].chars \in Seq(Chars)
        BY <3>3
      <4>2. data[b].chars \in Seq(Characters)
        BY <4>1, SeqMonotonic DEF Characters
      <4> QED
        BY <4>1, <4>2 DEF Bytes
    <3> QED
      BY <2>1, <3>1, <3>2, <3>3 DEF Payloads
  <2>3. n \in Int /\ n <= Len(got)
    <3>1. inode.size \in Nat /\ Payload \in Nat
      BY GeometryAssumption DEF Inodes
    <3>2. k * Payload \in Int
      BY <3>1
    <3>3. Len(got) \in Nat
      BY <2>2, LenProperties
    <3> HIDE DEF got
    <3> QED
      BY <3>1, <3>2, <3>3
  <2>4. here \in Seq(Characters)
    <3> HIDE DEF n, got
    <3>1. \A i \in 1..n : got[i] \in Characters
      BY <2>2, <2>3, LenProperties, ElementOfSeq
    <3> QED
      BY <2>3, <3>1, SubSeqProperties
  <2>5. here \o rest.text \in Seq(Characters)
    <3> HIDE DEF here
    <3>1. rest.text \in Seq(Characters)
      BY DEF Results
    <3> QED
      BY <2>4, <3>1, ConcatProperties
  <2>6. Part(inode, k, b, rest) \in
          {NotFound, Found(here), Found(here \o rest.text)}
    BY DEF Part
  <2> HIDE DEF here
  <2> QED
    BY <1>1, <2>4, <2>5, <2>6
<1> QED
  BY <1>2, <1>3

\* Contents, which is a choice of a function, satisfies its equation.
LEMMA ContentsIs ==
  ASSUME TypeOK, NEW inode \in Inodes
  PROVE  \E f :
           /\ \A k \in 0..MaxBlock, b \in BlockOrNone :
                f[k][b] = Part(inode, k, b, f[k + 1][next[b]])
           /\ Contents(inode) = IF inode.size <= 0 THEN NotFound ELSE f[0][inode.start]
<1> DEFINE Rows == [BlockOrNone -> Results]
           none == [b \in BlockOrNone |-> NotFound]
           Row(k, h) == [b \in BlockOrNone |-> Part(inode, k, b, h[next[b]])]
<1>1. MaxBlock \in Nat /\ none \in Rows
  BY GeometryAssumption, EmptySeq DEF NotFound, Results
<1>2. \A k \in Nat, h \in Rows : Row(k, h) \in Rows
  <2> SUFFICES ASSUME NEW k \in Nat, NEW h \in Rows PROVE Row(k, h) \in Rows
    OBVIOUS
  <2>1. ASSUME NEW b \in BlockOrNone PROVE Part(inode, k, b, h[next[b]]) \in Results
    <3>1. CASE b = 0
      BY <3>1, <1>1 DEF Part
    <3>2. CASE b # 0
      <4>1. b \in Blocks
        BY <3>2, GeometryAssumption DEF Blocks, BlockOrNone, InitBlocks
      <4>2. next[b] \in BlockOrNone
        BY <4>1 DEF TypeOK
      <4>3. h[next[b]] \in Results
        BY <4>2
      <4> QED
        BY <4>3, PartTyped
    <3> QED
      BY <3>1, <3>2
  <2> QED
    BY <2>1
<1>3. \A h : Row(MaxBlock, h) = none
  BY DEF Part
<1> HIDE DEF Rows, none
<1>4. PICK step \in [0..MaxBlock -> [Rows -> Rows]] :
        \A k \in 0..MaxBlock, h \in Rows : step[k][h] = Row(k, h)
  <2> DEFINE step == [k \in 0..MaxBlock |-> [h \in Rows |-> Row(k, h)]]
  <2> HIDE DEF Row
  <2>1. step \in [0..MaxBlock -> [Rows -> Rows]]
    BY <1>1, <1>2
  <2>2. \A k \in 0..MaxBlock, h \in Rows : step[k][h] = Row(k, h)
    OBVIOUS
  <2> QED
    BY <2>1, <2>2
<1>5. PICK f \in [0..MaxBlock -> Rows] :
        f[MaxBlock] = none /\ \A k \in 0..(MaxBlock - 1) : f[k] = step[k][f[k + 1]]
  <2>1. Computes(step, MaxBlock, Rows)
    BY DEF Computes
  <2> QED
    BY <1>1, <2>1, Downwards
<1>6. f = [k \in 0..MaxBlock |-> Row(k, f[k + 1])]
  <2> HIDE DEF Row
  <2> SUFFICES ASSUME NEW k \in 0..MaxBlock PROVE f[k] = Row(k, f[k + 1])
    OBVIOUS
  <2>1. CASE k = MaxBlock
    BY <1>3, <1>5, <2>1
  <2>2. CASE k # MaxBlock
    <3>1. k \in 0..(MaxBlock - 1) /\ k + 1 \in 0..MaxBlock
      BY <1>1, <2>2
    <3> QED
      BY <1>4, <1>5, <3>1
  <2> QED
    BY <2>1, <2>2
<1> DEFINE F == CHOOSE g : g = [k \in 0..MaxBlock |-> Row(k, g[k + 1])]
<1>7. Contents(inode) = IF inode.size <= 0 THEN NotFound ELSE F[0][inode.start]
  BY DEF Contents, Part
<1>8. F = [k \in 0..MaxBlock |-> Row(k, F[k + 1])]
  <2> HIDE DEF Row
  <2> QED
    BY <1>6
<1>9. \A k \in 0..MaxBlock, b \in BlockOrNone :
        F[k][b] = Part(inode, k, b, F[k + 1][next[b]])
  <2> HIDE DEF F
  <2> SUFFICES ASSUME NEW k \in 0..MaxBlock
               PROVE  \A b \in BlockOrNone : F[k][b] = Part(inode, k, b, F[k + 1][next[b]])
    OBVIOUS
  <2>1. F[k] = Row(k, F[k + 1])
    <3> HIDE DEF Row
    <3> QED
      BY <1>8
  <2> QED
    BY <2>1
<1> HIDE DEF F
<1> QED
  BY <1>7, <1>9

-----------------------------------------------------------------------------
(* The chain of a figure between operations.                               *)

\* The chain of one whole figure: o is its inode block, first its first data
\* block, n its number of blocks.
Chain(who, pos, nx, o, first, n) ==
  /\ o # 0 /\ n \in Nat
  /\ \A b \in Blocks : who[b] = o => pos[b] \in 1..n
  /\ \A b, c \in Blocks : who[b] = o /\ who[c] = o /\ pos[b] = pos[c] => b = c
  /\ n >= 1 => first \in Blocks /\ who[first] = o /\ pos[first] = 1
  /\ \A b \in Blocks : who[b] = o /\ pos[b] < n =>
       nx[b] \in Blocks /\ who[nx[b]] = o /\ pos[nx[b]] = pos[b] + 1

\* A figure that no operation changes has such a chain.
LEMMA WholeChain ==
  ASSUME NEW t, NEW U, NEW nx, NEW who \in [Blocks -> BlockOrNone],
         NEW pos \in [Blocks -> Nat], NEW lo, NEW hi, NEW re,
         Owned(t, U, nx, who, pos, lo, hi, re),
         \A j, k \in DOMAIN t : t[j].orig = t[k].orig => j = k,
         NEW i \in DOMAIN t, t[i].orig # 0, NEW n \in Nat,
         lo[i] = 1, hi[i] = n, re[i] = n
  PROVE  Chain(who, pos, nx, t[i].orig, t[i].start, n)
<1>1. \A b \in Blocks : who[b] = t[i].orig => pos[b] \in 1..n
  BY DEF Owned
<1>2. \A b, c \in Blocks : who[b] = t[i].orig /\ who[c] = t[i].orig /\ pos[b] = pos[c] => b = c
  BY DEF Owned
<1>3. n >= 1 => t[i].start \in Blocks /\ who[t[i].start] = t[i].orig /\ pos[t[i].start] = 1
  BY DEF Owned
<1>4. \A b \in Blocks : who[b] = t[i].orig /\ pos[b] < n =>
        nx[b] \in Blocks /\ who[nx[b]] = t[i].orig /\ pos[nx[b]] = pos[b] + 1
  BY DEF Owned
<1> QED
  BY <1>1, <1>2, <1>3, <1>4 DEF Chain

\* Every place of a chain is taken.
LEMMA PlacesTaken ==
  ASSUME NEW who \in [Blocks -> BlockOrNone], NEW pos \in [Blocks -> Nat],
         NEW nx, NEW o, NEW first, NEW n, Chain(who, pos, nx, o, first, n),
         NEW p \in 1..n
  PROVE  \E b \in Blocks : who[b] = o /\ pos[b] = p
<1> DEFINE S == {k \in 1..n : \A b \in Blocks : ~(who[b] = o /\ pos[b] = k)}
<1> SUFFICES ASSUME p \in S PROVE FALSE
  OBVIOUS
<1>1. n \in Nat
  BY DEF Chain
<1>2. S \subseteq Nat
  BY <1>1
<1>3. PICK x \in S : \A y \in S : x <= y
  <2> HIDE DEF S
  <2> QED
    BY <1>2, LeastNumber
<1>4. x # 1
  BY <1>1 DEF Chain
<1>5. x - 1 \in 1..n /\ x - 1 < n /\ x \in Int /\ (x - 1) + 1 = x
  BY <1>1, <1>4
<1>6. x - 1 \notin S
  <2> HIDE DEF S
  <2>1. x - 1 \in S => x <= x - 1
    BY <1>3
  <2> QED
    BY <1>5, <2>1
<1>7. PICK b \in Blocks : who[b] = o /\ pos[b] = x - 1
  BY <1>5, <1>6
<1>8. nx[b] \in Blocks /\ who[nx[b]] = o /\ pos[nx[b]] = x
  BY <1>5, <1>7 DEF Chain
<1> QED
  BY <1>8

\* A set whose elements are numbered from 1 to n has room for n.
LEMMA BlocksFit ==
  ASSUME NEW n \in Nat, NEW g \in [1..n -> Blocks],
         \A p, q \in 1..n : g[p] = g[q] => p = q
  PROVE  n <= MaxBlock
<1>1. IsFiniteSet(Blocks) /\ Cardinality(Blocks) = MaxBlock
  <2> DEFINE low == InitBlocks
             high == MaxBlock
  <2>1. low \in Int /\ high \in Int /\ low = 1 /\ high \in Nat
    BY GeometryAssumption DEF InitBlocks
  <2> HIDE DEF low, high
  <2>2. IsFiniteSet(low..high) /\ Cardinality(low..high) = IF low > high THEN 0 ELSE high - low + 1
    BY <2>1, FS_Interval
  <2>3. Cardinality(low..high) = high
    BY <2>1, <2>2
  <2> QED
    BY <2>2, <2>3 DEF low, high, Blocks
<1>2. Cardinality(1..n) = n
  <2> DEFINE low == 1
  <2>1. low \in Int /\ low = 1 /\ n \in Int
    OBVIOUS
  <2> HIDE DEF low
  <2>2. Cardinality(low..n) = IF low > n THEN 0 ELSE n - low + 1
    BY <2>1, FS_Interval
  <2>3. Cardinality(low..n) = n
    BY <2>1, <2>2
  <2> QED
    BY <2>3 DEF low
<1>3. g \in Injection(1..n, Blocks)
  BY DEF Injection, IsInjective
<1>4. Cardinality(1..n) <= Cardinality(Blocks)
  BY <1>1, <1>3, FS_Injection
<1> QED
  BY <1>1, <1>2, <1>4

\* A chain is not longer than the disk.
LEMMA ChainFits ==
  ASSUME NEW who \in [Blocks -> BlockOrNone], NEW pos \in [Blocks -> Nat],
         NEW nx, NEW o, NEW first, NEW n, Chain(who, pos, nx, o, first, n)
  PROVE  n <= MaxBlock
<1> DEFINE At(p) == CHOOSE b \in Blocks : who[b] = o /\ pos[b] = p
           g == [p \in 1..n |-> At(p)]
<1>1. \A p \in 1..n : At(p) \in Blocks /\ pos[At(p)] = p
  <2> SUFFICES ASSUME NEW p \in 1..n PROVE At(p) \in Blocks /\ pos[At(p)] = p
    OBVIOUS
  <2>1. \E b \in Blocks : who[b] = o /\ pos[b] = p
    BY PlacesTaken
  <2> QED
    BY <2>1
<1> HIDE DEF At
<1>2. g \in [1..n -> Blocks]
  BY <1>1
<1>3. \A p, q \in 1..n : g[p] = g[q] => p = q
  BY <1>1
<1>4. n \in Nat
  BY DEF Chain
<1> HIDE DEF g
<1> QED
  BY <1>2, <1>3, <1>4, BlocksFit

\* rm_file follows the whole chain of a figure.
LEMMA DataBlocksOwned ==
  ASSUME TypeOK, NEW inode \in Inodes,
         NEW who \in [Blocks -> BlockOrNone], NEW pos \in [Blocks -> Nat],
         Chain(who, pos, next, inode.orig, inode.start, inode.count)
  PROVE  DataBlocks(inode) = {b \in Blocks : who[b] = inode.orig}
<1>1. PICK f : /\ \A k \in 0..MaxBlock, b \in BlockOrNone :
                   f[k][b] = IF b = 0 \/ k = MaxBlock \/ k >= inode.count THEN {}
                             ELSE {b} \cup f[k + 1][next[b]]
               /\ DataBlocks(inode) = f[0][inode.start]
  BY DataBlocksIs
<1>2. PICK n \in Nat : n = inode.count
  BY DEF Inodes
<1>3. PICK o : o = inode.orig
  OBVIOUS
<1>4. n <= MaxBlock /\ MaxBlock \in Nat
  BY <1>2, ChainFits, GeometryAssumption
<1>5. \A b \in Blocks : b # 0 /\ b \in BlockOrNone /\ next[b] \in BlockOrNone
  BY BlockTyped DEF TypeOK, Blocks, InitBlocks
<1>6. Chain(who, pos, next, o, inode.start, n)
  BY <1>2, <1>3
<1> DEFINE After(k) == {c \in Blocks : who[c] = o /\ pos[c] > k}
           T == {k \in 0..n : \A b \in Blocks :
                   who[b] = o /\ pos[b] = k + 1 => f[k][b] = After(k)}
<1>7. n \in T
  BY <1>6 DEF Chain
<1>8. ASSUME NEW k \in 0..(n - 1), k + 1 \in T PROVE k \in T
  <2> SUFFICES ASSUME NEW b \in Blocks, who[b] = o, pos[b] = k + 1
               PROVE  f[k][b] = After(k)
    BY <1>8
  <2>1. k \in 0..MaxBlock /\ k + 1 \in 0..MaxBlock /\ k # MaxBlock /\ ~(k >= n)
    BY <1>4
  <2>2. f[k][b] = {b} \cup f[k + 1][next[b]]
    BY <1>1, <1>2, <1>5, <2>1
  <2>3. f[k + 1][next[b]] = After(k + 1)
    <3>1. CASE k + 1 = n
      <4>1. f[k + 1][next[b]] = {}
        <5>1. next[b] \in BlockOrNone
          BY <1>5
        <5>2. k + 1 >= inode.count
          BY <1>2, <3>1
        <5> QED
          BY <1>1, <2>1, <5>1, <5>2
      <4>2. After(k + 1) = {}
        BY <1>6, <3>1 DEF Chain
      <4> QED
        BY <4>1, <4>2
    <3>2. CASE k + 1 # n
      <4>1. pos[b] < n
        BY <3>2
      <4>2. next[b] \in Blocks /\ who[next[b]] = o /\ pos[next[b]] = (k + 1) + 1
        BY <1>6, <4>1 DEF Chain
      <4> QED
        BY <1>8, <4>2
    <3> QED
      BY <3>1, <3>2
  <2>4. After(k) = {b} \cup After(k + 1)
    <3>1. \A c \in Blocks : who[c] = o /\ pos[c] > k => c = b \/ pos[c] > k + 1
      BY <1>6 DEF Chain
    <3>2. \A c \in Blocks : pos[c] > k + 1 => pos[c] > k
      OBVIOUS
    <3> QED
      BY <3>1, <3>2
  <2> HIDE DEF After
  <2> QED
    BY <2>2, <2>3, <2>4
<1>9. 0 \in T
  <2> HIDE DEF T
  <2> QED
    BY <1>2, <1>7, <1>8, Descent
<1>10. CASE n = 0
  <2>1. DataBlocks(inode) = {}
    <3>1. inode.start \in BlockOrNone
      BY DEF Inodes
    <3> QED
      BY <1>1, <1>2, <1>4, <1>10, <3>1
  <2>2. \A b \in Blocks : who[b] # o
    BY <1>6, <1>10 DEF Chain
  <2> QED
    BY <1>3, <2>1, <2>2
<1>11. CASE n # 0
  <2>1. inode.start \in Blocks /\ who[inode.start] = o /\ pos[inode.start] = 0 + 1
    BY <1>6, <1>11 DEF Chain
  <2>2. DataBlocks(inode) = After(0)
    BY <1>1, <1>9, <2>1
  <2>3. \A b \in Blocks : who[b] = o => pos[b] > 0
    BY <1>6 DEF Chain
  <2> QED
    BY <1>3, <2>2, <2>3
<1> QED
  BY <1>10, <1>11

-----------------------------------------------------------------------------
(* The blocks of the figures.                                              *)

\* rm_file drops one inode and keeps the fields of the others.
LEMMA InodeDropped ==
  ASSUME DiskInv, ClearInode
  PROVE  /\ Touched \in DOMAIN table /\ table[Touched].orig \in UsedBlocks
         /\ ClearBlock(table[Touched].orig) /\ op' = NoOp
         /\ \E pick \in [DOMAIN table' -> DOMAIN table \ {Touched}] :
              /\ \A j, k \in DOMAIN table' : pick[j] = pick[k] => j = k
              /\ \A j \in DOMAIN table \ {Touched} : \E k \in DOMAIN table' : pick[k] = j
              /\ \A k \in DOMAIN table' :
                   /\ table'[k].orig = table[pick[k]].orig
                   /\ table'[k].start = table[pick[k]].start
                   /\ table'[k].count = table[pick[k]].count
                   /\ table'[k].size = table[pick[k]].size
                   /\ table'[k].name = table[pick[k]].name
<1>1. pc = "clearInode" /\ Live = table
  BY DEF ClearInode, Live
<1>2. PICK i \in DOMAIN table : i = Touched /\ i = IndexOf(op.name)
  BY <1>1, TouchedFound DEF DiskInv, TypeInv, Cursors, Touched
<1>3. ClearBlock(table[i].orig) /\ table' = Unlinked(i) /\ op' = NoOp
  BY <1>2 DEF ClearInode
<1>4. PICK m : m = Len(table) - 1
  OBVIOUS
<1>5. table \in Seq(Inodes) /\ Chained(table)
  BY <1>1 DEF DiskInv, TypeInv, TypeOK, Linked
<1>6. /\ DOMAIN Unlinked(i) = 1..m
      /\ Pick(i) \in [1..m -> DOMAIN table \ {i}]
      /\ \A j, k \in 1..m : Pick(i)[j] = Pick(i)[k] => j = k
      /\ \A k \in DOMAIN table \ {i} : \E j \in 1..m : Pick(i)[j] = k
      /\ \A j \in 1..m : /\ Unlinked(i)[j].orig = table[Pick(i)[j]].orig
                         /\ Unlinked(i)[j].start = table[Pick(i)[j]].start
                         /\ Unlinked(i)[j].count = table[Pick(i)[j]].count
                         /\ Unlinked(i)[j].size = table[Pick(i)[j]].size
                         /\ Unlinked(i)[j].name = table[Pick(i)[j]].name
  BY <1>4, <1>5, UnlinkedKeeps
<1>7. table[i].orig \in UsedBlocks
  BY <1>1, OrigsDiffer
<1>8. PICK pick : pick = Pick(i)
  OBVIOUS
<1>9. /\ pick \in [DOMAIN table' -> DOMAIN table \ {Touched}]
      /\ \A j, k \in DOMAIN table' : pick[j] = pick[k] => j = k
      /\ \A j \in DOMAIN table \ {Touched} : \E k \in DOMAIN table' : pick[k] = j
      /\ \A k \in DOMAIN table' :
           /\ table'[k].orig = table[pick[k]].orig
           /\ table'[k].start = table[pick[k]].start
           /\ table'[k].count = table[pick[k]].count
           /\ table'[k].size = table[pick[k]].size
           /\ table'[k].name = table[pick[k]].name
  BY <1>2, <1>3, <1>6, <1>8
<1>10. /\ Touched \in DOMAIN table /\ table[Touched].orig \in UsedBlocks
       /\ ClearBlock(table[Touched].orig) /\ op' = NoOp
  BY <1>2, <1>3, <1>7
<1> QED
  BY <1>9, <1>10

\* The block that rm_file clears is in use.
LEMMA CurIsUsed ==
  ASSUME DiskInv, NEW who, NEW pos, ChainsAre(who, pos), ClearData
  PROVE  op.cur \in UsedBlocks
<1>1. pc = "clearData" /\ Live = table
  BY DEF ClearData, Live
<1>2. Touched # 0 /\ Touched \in DOMAIN table
  BY <1>1, TouchedFound DEF DiskInv, TypeInv, Cursors, Touched
<1>3. op.cur \in Blocks /\ who[op.cur] = table[Touched].orig
  BY <1>1 DEF ChainsAre, AtPlace
<1>4. who[op.cur] # 0
  BY <1>1, <1>2, <1>3, OrigsDiffer
<1> QED
  BY <1>3, <1>4 DEF ChainsAre, Owned

\* Between operations the chain of every figure is whole.
LEMMA WholeAtRest ==
  ASSUME DiskInv, pc = "idle",
         NEW who \in [Blocks -> BlockOrNone], NEW pos \in [Blocks -> Nat],
         ChainsAre(who, pos), NEW i \in DOMAIN table
  PROVE  /\ Chain(who, pos, next, table[i].orig, table[i].start, table[i].count)
         /\ DataBlocks(table[i]) = {b \in Blocks : who[b] = table[i].orig}
<1>1. Live = table
  BY DEF Live
<1>2. table[i] \in Inodes
  BY LenProperties, ElementOfSeq DEF DiskInv, TypeInv, TypeOK
<1>3. Lo[i] = 1 /\ Hi[i] = table[i].count /\ Re[i] = table[i].count
  BY <1>1 DEF Lo, Hi, Re, Filling, Deleting
<1> DEFINE lo == Lo
           hi == Hi
           re == Re
<1>4. Owned(table, UsedBlocks, next, who, pos, lo, hi, re)
  BY <1>1 DEF ChainsAre
<1>5. lo[i] = 1 /\ hi[i] = table[i].count /\ re[i] = table[i].count
  BY <1>3
<1> HIDE DEF lo, hi, re
<1>6. \A j, k \in DOMAIN table : table[j].orig = table[k].orig => j = k
  BY <1>1, OrigsDiffer
<1>7. table[i].orig # 0 /\ table[i].count \in Nat
  BY <1>1, <1>2, OrigsDiffer, FieldsTyped
<1>8. Chain(who, pos, next, table[i].orig, table[i].start, table[i].count)
  BY <1>4, <1>5, <1>6, <1>7, WholeChain
<1> QED
  BY <1>2, <1>8, DataBlocksOwned DEF DiskInv, TypeInv

\* The blocks of a figure are in use.
LEMMA BlocksInUse ==
  ASSUME DiskInv, pc = "idle",
         NEW who \in [Blocks -> BlockOrNone], NEW pos \in [Blocks -> Nat],
         ChainsAre(who, pos), NEW i \in DOMAIN table
  PROVE  FileBlocks(table[i]) \subseteq UsedBlocks
<1>1. Live = table /\ BeingCleared = {}
  BY DEF Live, BeingCleared, Deleting
<1>2. table[i].orig \in UsedBlocks /\ table[i].orig # 0
  BY <1>1, OrigsDiffer
<1>3. table[i].start # 0 => table[i].start \in UsedBlocks
  BY <1>1 DEF DiskInv, OneReference, NamedOnce
<1>4. \A c \in DataBlocks(table[i]) : c \in UsedBlocks
  BY <1>2, WholeAtRest DEF ChainsAre, Owned
<1> QED
  BY <1>2, <1>3, <1>4 DEF FileBlocks

\* A block that the inode of one figure names is in the chain of no other.
LEMMA StartsApart ==
  ASSUME DiskInv, pc = "idle",
         NEW who \in [Blocks -> BlockOrNone], NEW pos \in [Blocks -> Nat],
         ChainsAre(who, pos), NEW i \in DOMAIN table, NEW j \in DOMAIN table, i # j,
         table[i].start # 0
  PROVE  table[i].start \notin DataBlocks(table[j])
<1> DEFINE s == table[i].start
<1>1. Live = table /\ BeingCleared = {}
  BY DEF Live, BeingCleared, Deleting
<1>2. OneReference
  BY DEF DiskInv
<1>3. \A k \in DOMAIN table : s = table[k].start => k = i
  BY <1>1, <1>2 DEF OneReference, NamedOnce
<1>4. \A c \in Blocks : next[c] # s
  BY <1>1, <1>2 DEF OneReference, NamedOnce
<1>5. PICK o, first, n : o = table[j].orig /\ first = table[j].start /\ n = table[j].count
  OBVIOUS
<1>6. Chain(who, pos, next, o, first, n) /\ DataBlocks(table[j]) = {b \in Blocks : who[b] = o}
  BY <1>5, WholeAtRest
<1> HIDE DEF s
<1> SUFFICES ASSUME s \in Blocks, who[s] = o PROVE FALSE
  BY <1>6 DEF s
<1>7. pos[s] \in 1..n /\ n \in Nat
  BY <1>6 DEF Chain
<1>8. pos[s] # 1
  <2>1. pos[s] = 1 => s = first
    BY <1>6, <1>7 DEF Chain
  <2> QED
    BY <1>3, <1>5, <2>1
<1>9. PICK p \in 1..n : p = pos[s] - 1 /\ p < n /\ p + 1 = pos[s]
  BY <1>7, <1>8
<1>10. PICK c \in Blocks : who[c] = o /\ pos[c] = p
  BY <1>6, PlacesTaken
<1>11. next[c] \in Blocks /\ who[next[c]] = o /\ pos[next[c]] = pos[s]
  BY <1>6, <1>9, <1>10 DEF Chain
<1>12. next[c] = s
  BY <1>6, <1>11 DEF Chain
<1> QED
  BY <1>4, <1>12

\* With the chains whole, no block is in two figures.
LEMMA ApartAtRest ==
  ASSUME DiskInv, Chains
  PROVE  FiguresApart
<1> SUFFICES ASSUME DiskInv, Chains, pc = "idle",
                    NEW i \in DOMAIN table, NEW j \in DOMAIN table
             PROVE  /\ FileBlocks(table[i]) \subseteq UsedBlocks
                    /\ i # j => FileBlocks(table[i]) \cap FileBlocks(table[j]) = {}
  BY DEF FiguresApart
<1>1. PICK who \in [Blocks -> BlockOrNone], pos \in [Blocks -> Nat] : ChainsAre(who, pos)
  BY DEF Chains
<1>2. FileBlocks(table[i]) \subseteq UsedBlocks
  BY <1>1, BlocksInUse
<1>3. ASSUME i # j, NEW b \in FileBlocks(table[i]), b \in FileBlocks(table[j])
      PROVE  FALSE
  <2>1. Live = table /\ BeingCleared = {}
    BY DEF Live, BeingCleared, Deleting
  <2>2. /\ DataBlocks(table[i]) = {c \in Blocks : who[c] = table[i].orig}
        /\ DataBlocks(table[j]) = {c \in Blocks : who[c] = table[j].orig}
    BY <1>1, WholeAtRest
  <2>3. table[i].orig # table[j].orig /\ table[i].orig # 0 /\ table[j].orig # 0
    BY <1>3, <2>1, OrigsDiffer
  <2>4. \A c \in Blocks : who[c] # 0 => c # table[i].orig /\ c # table[j].orig
    BY <1>1, <2>1 DEF ChainsAre, Owned
  <2>5. /\ table[i].start # 0 => /\ table[i].start # table[j].orig
                                 /\ table[i].start # table[j].start
                                 /\ table[i].start \notin DataBlocks(table[j])
        /\ table[j].start # 0 => /\ table[j].start # table[i].orig
                                 /\ table[j].start \notin DataBlocks(table[i])
    <3>1. OneReference
      BY DEF DiskInv
    <3>2. /\ table[i].start # 0 => table[i].start # table[j].orig
          /\ table[i].start # 0 => table[i].start # table[j].start
          /\ table[j].start # 0 => table[j].start # table[i].orig
      BY <1>3, <2>1, <3>1 DEF OneReference, NamedOnce
    <3> QED
      BY <1>1, <1>3, <3>2, StartsApart
  <2> QED
    BY <1>3, <2>2, <2>3, <2>4, <2>5 DEF FileBlocks
<1> QED
  BY <1>2, <1>3

\* When no operation runs, no two figures of the table share a block, along
\* the chains that rd_file and rm_file follow, and empty_B has none of their
\* blocks to hand out.
THEOREM FiguresKeptApart == Spec => []FiguresApart
<1>1. Init => RestartInv /\ Chains
  BY InitInv, InitChains
<1>2. RestartInv /\ Chains /\ [Next]_vars => RestartInv' /\ Chains'
  BY NextKeeps, NextChains
<1>3. RestartInv /\ Chains => FiguresApart
  BY ApartAtRest DEF RestartInv
<1> QED
  BY <1>1, <1>2, <1>3, PTL DEF Spec

-----------------------------------------------------------------------------
(* Every block in use has a place.                                         *)

\* wr_file gives every inode a first block, and counts a block exactly when
\* the text is not empty.
Sized ==
  \A i \in DOMAIN Live :
    /\ Live[i].start = 0 <=> pc = "firstBlock" /\ i = Touched
    /\ IF Filling /\ i = Touched THEN Live[i].size # 0
       ELSE Live[i].count = 0 <=> Live[i].size = 0

\* Block b is the block of an inode, in a chain, the first block of a figure
\* that rm_file does not delete, or the block that adIno_file just took.
Held(b, who) ==
  \/ \E i \in DOMAIN Live : b = Live[i].orig
  \/ who[b] # 0
  \/ \E i \in DOMAIN Live \ BeingCleared : b = Live[i].start
  \/ pc = "inodeWrite" /\ b = op.cur

\* A block in use is held or was left behind, and never both.
Accounted(who) ==
  /\ leaked \subseteq UsedBlocks
  /\ \A b \in UsedBlocks : b \notin leaked <=> Held(b, who)

Accounts == \E who \in [Blocks -> BlockOrNone], pos \in [Blocks -> Nat] :
              ChainsAre(who, pos) /\ Accounted(who)

LEMMA KeepingSized ==
  ASSUME Sized, Live' = Live, Filling' <=> Filling,
         pc' = "firstBlock" <=> pc = "firstBlock",
         Filling \/ pc = "firstBlock" => Touched' = Touched
  PROVE  Sized'
<1>1. \A i \in DOMAIN Live : Filling \/ pc = "firstBlock" => (i = Touched' <=> i = Touched)
  OBVIOUS
<1> QED
  BY <1>1 DEF Sized

LEMMA WriteInodeSized ==
  ASSUME DiskInv, DiskInv', Sized, WriteInode, Touched = 0
  PROVE  Sized'
<1>1. pc = "inodeWrite" /\ pc' = "firstBlock"
  BY DEF WriteInode
<1>2. Live = table /\ Live' = table' /\ ~Filling /\ ~Filling'
  BY <1>1 DEF Live, Filling
<1>3. PICK n : n = Len(table)
  OBVIOUS
<1>4. /\ n \in Nat /\ DOMAIN table = 1..n /\ DOMAIN table' = 1..(n + 1)
      /\ \A i \in 1..n : /\ table'[i].start = table[i].start
                         /\ table'[i].count = table[i].count
                         /\ table'[i].size = table[i].size
      /\ table'[n + 1] = NewInode(op.name, op.cur) /\ Touched' = n + 1
  BY <1>3, InodeAppended
<1>5. table'[n + 1].start = 0 /\ table'[n + 1].count = 0 /\ table'[n + 1].size = 0
  BY <1>4 DEF NewInode, Inode
<1>6. ASSUME NEW i \in DOMAIN table'
      PROVE  /\ table'[i].start = 0 <=> i = n + 1
             /\ table'[i].count = 0 <=> table'[i].size = 0
  <2>1. CASE i = n + 1
    BY <1>5, <2>1
  <2>2. CASE i \in 1..n
    <3>1. i # n + 1
      BY <1>4, <2>2
    <3> QED
      BY <1>1, <1>2, <1>4, <2>2, <3>1 DEF Sized
  <2> QED
    BY <1>4, <2>1, <2>2
<1> QED
  BY <1>1, <1>2, <1>4, <1>6 DEF Sized

LEMMA AllocFirstSized ==
  ASSUME DiskInv, DiskInv', Sized, AllocFirst, Touched # 0
  PROVE  Sized'
<1>1. /\ pc = "firstBlock"
      /\ pc' = IF op.rest = <<>> THEN "idle" ELSE "dataWrite"
  BY DEF AllocFirst
<1>2. Live = table /\ Live' = table' /\ ~Filling /\ (Filling' <=> op.rest # <<>>)
  BY <1>1 DEF Live, Filling
<1>3. PICK b \in Blocks : op'.cur = b
  BY DEF AllocFirst, DiskInv, TypeInv, TypeOK, Operations
<1>4. PICK i \in DOMAIN table : i = Touched
  BY TouchedFound
<1>5. /\ DOMAIN table' = DOMAIN table /\ Touched' = i
      /\ table'[i].start = b /\ table'[i].count = 0 /\ table'[i].size = Len(op.rest)
      /\ \A j \in DOMAIN table : j # i => table'[j] = table[j]
  BY <1>3, <1>4, InodeFilled
<1>6. b # 0 /\ (Len(op.rest) = 0 <=> op.rest = <<>>)
  BY BlockTyped, EmptySeq DEF DiskInv, TypeInv, TypeOK, Operations, Blocks, InitBlocks
<1>7. ASSUME NEW j \in DOMAIN table, j # i
      PROVE  table'[j].start # 0 /\ (table'[j].count = 0 <=> table'[j].size = 0)
  BY <1>1, <1>2, <1>4, <1>5, <1>7 DEF Sized
<1>8. pc' # "firstBlock"
  BY <1>1
<1> QED
  BY <1>2, <1>5, <1>6, <1>7, <1>8 DEF Sized

LEMMA LinkSized ==
  ASSUME DiskInv, DiskInv', Sized, Link, Touched # 0
  PROVE  Sized'
<1>1. pc = "link" /\ pc' \in {"idle", "dataWrite"}
  BY DEF Link
<1>2. Live = table /\ Live' = table' /\ Filling
  BY <1>1 DEF Live, Filling
<1>3. PICK i \in DOMAIN table : i = Touched /\ table[i] \in Inodes
  BY TouchedFound
<1>4. /\ DOMAIN table' = DOMAIN table /\ Touched' = i
      /\ table'[i].start = table[i].start /\ table'[i].size = table[i].size
      /\ table'[i].count = table[i].count + 1
      /\ \A j \in DOMAIN table : j # i => table'[j] = table[j]
  BY <1>3, InodeCounted
<1>5. table[i].count \in Nat
  BY <1>3, FieldsTyped
<1>6. /\ table'[i].start # 0 /\ table'[i].size # 0 /\ table'[i].count # 0
  BY <1>1, <1>2, <1>3, <1>4, <1>5 DEF Sized
<1>7. ASSUME NEW j \in DOMAIN table, j # i
      PROVE  table'[j].start # 0 /\ (table'[j].count = 0 <=> table'[j].size = 0)
  BY <1>1, <1>2, <1>3, <1>4, <1>7 DEF Sized
<1>8. pc' # "firstBlock"
  BY <1>1
<1> QED
  BY <1>2, <1>4, <1>6, <1>7, <1>8 DEF Sized

LEMMA ClearInodeSized ==
  ASSUME DiskInv, DiskInv', Sized, ClearInode
  PROVE  Sized'
<1>1. pc = "clearInode" /\ pc' = "idle"
  BY DEF ClearInode
<1>2. Live = table /\ Live' = table' /\ ~Filling /\ ~Filling'
  BY <1>1 DEF Live, Filling
<1>3. PICK pick \in [DOMAIN table' -> DOMAIN table] :
        \A k \in DOMAIN table' : /\ table'[k].start = table[pick[k]].start
                                 /\ table'[k].count = table[pick[k]].count
                                 /\ table'[k].size = table[pick[k]].size
  BY InodeDropped
<1>4. \A k \in DOMAIN table' : pick[k] \in DOMAIN table
  OBVIOUS
<1> QED
  BY <1>1, <1>2, <1>3, <1>4 DEF Sized

LEMMA NextSized ==
  ASSUME RestartInv, RestartInv', Chains, Sized, [Next]_vars
  PROVE  Sized'
<1> DiskInv /\ DiskInv'
  BY DEF RestartInv
<1>1. /\ pc \in {"inodeWrite"} => Touched = 0
      /\ pc = "firstBlock" \/ Filling => Touched # 0
  BY DEF Chains, ChainsAre, AtPlace
<1>2. CASE Load
  <2>1. pc \in {"closed", "loading"} /\ pc' \in {"loading", "idle"} /\ Live' = Live
    BY <1>2, LoadLive
  <2> QED
    BY <2>1, KeepingSized DEF Filling
<1>3. CASE Save
  <2>1. /\ pc \in {"idle", "saveHeader", "saveInode"}
        /\ pc' \in {"saveHeader", "saveInode", "closed"} /\ Live' = Live
    BY <1>3, SaveLive
  <2> QED
    BY <2>1, KeepingSized DEF Filling
<1>4. CASE ExtendDisk \/ UNCHANGED vars
  <2>1. UNCHANGED <<table, saved, pc, op>>
    BY <1>4 DEF ExtendDisk, vars, history
  <2> QED
    BY <2>1, KeepingSized DEF Filling, Live, Touched, IndexOf
<1>5. CASE AllocInode \/ ClearData \/ \E n \in Names : DeleteFile(n) \/ \E t \in Texts : MakeFile(n, t)
  <2>1. /\ UNCHANGED table
        /\ pc \in {"idle", "inodeBlock", "clearData"}
        /\ pc' \in {"inodeBlock", "inodeWrite", "clearData", "clearInode"}
    BY <1>5 DEF AllocInode, ClearData, DeleteFile, MakeFile, memory
  <2> QED
    BY <2>1, KeepingSized DEF Filling, Live
<1>6. CASE WriteData \/ AllocNext
  <2>1. /\ UNCHANGED table /\ pc \in {"dataWrite", "nextBlock"}
        /\ pc' \in {"nextBlock", "link"} /\ op'.name = op.name
    BY <1>6 DEF WriteData, AllocNext, memory, DiskInv, TypeInv, TypeOK, Operations
  <2> QED
    BY <2>1, KeepingSized DEF Filling, Live, Touched, IndexOf
<1>7. CASE WriteInode
  BY <1>1, <1>7, WriteInodeSized DEF WriteInode
<1>8. CASE AllocFirst
  BY <1>1, <1>8, AllocFirstSized DEF AllocFirst
<1>9. CASE Link
  BY <1>1, <1>9, LinkSized DEF Link, Filling
<1>10. CASE ClearInode
  BY <1>10, ClearInodeSized
<1> QED
  BY <1>2, <1>3, <1>4, <1>5, <1>6, <1>7, <1>8, <1>9, <1>10 DEF Next, Make, Delete

\* A step that gives no block back and takes none.
LEMMA KeepingAccounted ==
  ASSUME NEW who, Accounted(who), UsedBlocks' = UsedBlocks, leaked' = leaked,
         \A b \in UsedBlocks : Held(b, who)' <=> Held(b, who)
  PROVE  Accounted(who)'
  BY DEF Accounted

\* A step that takes block c.
LEMMA TakingAccounted ==
  ASSUME NEW who, NEW w, Accounted(who), NEW c, c \notin UsedBlocks,
         UsedBlocks' = UsedBlocks \cup {c}, leaked' = leaked, Held(c, w)',
         \A b \in UsedBlocks : Held(b, w)' <=> Held(b, who)
  PROVE  Accounted(w)'
  BY DEF Accounted

\* A step that gives back block c.
LEMMA GivingAccounted ==
  ASSUME NEW who, NEW w, Accounted(who), NEW c, c \in UsedBlocks, Held(c, who),
         UsedBlocks' = UsedBlocks \ {c}, leaked' = leaked,
         \A b \in UsedBlocks \ {c} : Held(b, w)' <=> Held(b, who)
  PROVE  Accounted(w)'
  BY DEF Accounted

LEMMA QuietAccounted ==
  ASSUME RestartInv, RestartInv', NEW who, Accounted(who), leaked' = leaked,
         \/ Load \/ Save \/ ExtendDisk \/ UNCHANGED vars \/ WriteData
         \/ \E n \in Names, t \in Texts : MakeFile(n, t)
  PROVE  Accounted(who)'
<1> DEFINE Places == {"closed", "loading", "idle", "saveHeader", "saveInode",
                      "dataWrite", "nextBlock", "link", "inodeBlock"}
<1>1. CASE Load
  <2>1. /\ pc \in Places /\ pc' \in Places /\ Live' = Live /\ UsedBlocks' = UsedBlocks
    BY <1>1, LoadLive DEF UsedBlocks
  <2> QED
    BY <2>1, KeepingAccounted DEF Held, BeingCleared, Deleting
<1>2. CASE Save
  <2>1. /\ pc \in Places /\ pc' \in Places /\ Live' = Live /\ UsedBlocks' = UsedBlocks
    BY <1>2, SaveLive DEF UsedBlocks
  <2> QED
    BY <2>1, KeepingAccounted DEF Held, BeingCleared, Deleting
<1>3. CASE ExtendDisk \/ UNCHANGED vars
  <2>1. UNCHANGED <<table, saved, pc, op, used>>
    BY <1>3 DEF ExtendDisk, vars, disk, history
  <2>2. Live' = Live /\ BeingCleared' = BeingCleared /\ UsedBlocks' = UsedBlocks
    BY <2>1 DEF Live, BeingCleared, Deleting, IndexOf, UsedBlocks
  <2> QED
    BY <2>1, <2>2, KeepingAccounted DEF Held
<1>4. CASE WriteData \/ \E n \in Names, t \in Texts : MakeFile(n, t)
  <2>1. UNCHANGED <<table, used>> /\ pc \in Places /\ pc' \in Places
    BY <1>4 DEF WriteData, MakeFile, memory, disk
  <2>2. pc \notin {"closed", "loading"} /\ pc' \notin {"closed", "loading"}
    BY <1>4 DEF WriteData, MakeFile
  <2>3. Live' = Live /\ UsedBlocks' = UsedBlocks
    BY <2>1, <2>2 DEF Live, UsedBlocks
  <2> QED
    BY <2>1, <2>3, KeepingAccounted DEF Held, BeingCleared, Deleting
<1> QED
  BY <1>1, <1>2, <1>3, <1>4

LEMMA AllocInodeAccounted ==
  ASSUME DiskInv, NEW who, Accounted(who), AllocInode, leaked' = leaked
  PROVE  Accounted(who)'
<1>1. pc = "inodeBlock" /\ pc' = "inodeWrite" /\ UNCHANGED table
  BY DEF AllocInode
<1>2. PICK b \in Blocks : TakeBlock(b) /\ op' = [op EXCEPT !.cur = b]
  BY DEF AllocInode
<1>3. op'.cur = b
  BY <1>2 DEF DiskInv, TypeInv, TypeOK, Operations
<1>4. b \notin UsedBlocks /\ UsedBlocks' = UsedBlocks \cup {b}
  BY <1>2, TakenWasFree
<1>5. Live' = Live /\ BeingCleared = {} /\ BeingCleared' = {}
  BY <1>1 DEF Live, BeingCleared, Deleting
<1>6. Held(b, who)' /\ \A c \in UsedBlocks : Held(c, who)' <=> Held(c, who)
  BY <1>1, <1>3, <1>4, <1>5 DEF Held
<1> QED
  BY <1>4, <1>6, TakingAccounted

LEMMA WriteInodeAccounted ==
  ASSUME DiskInv, DiskInv', NEW who, Accounted(who), WriteInode, Touched = 0,
         leaked' = leaked
  PROVE  Accounted(who)'
<1>1. pc = "inodeWrite" /\ pc' = "firstBlock" /\ UNCHANGED <<used, op>>
  BY DEF WriteInode
<1>2. PICK n : n = Len(table)
  OBVIOUS
<1>3. /\ n \in Nat /\ DOMAIN table = 1..n /\ DOMAIN table' = 1..(n + 1)
      /\ \A i \in 1..n : table'[i].orig = table[i].orig /\ table'[i].start = table[i].start
      /\ table'[n + 1] = NewInode(op.name, op.cur)
  BY <1>2, InodeAppended
<1>4. table'[n + 1].orig = op.cur /\ table'[n + 1].start = 0
  BY <1>3 DEF NewInode, Inode
<1>5. /\ Live = table /\ Live' = table' /\ BeingCleared = {} /\ BeingCleared' = {}
      /\ UsedBlocks' = UsedBlocks
  BY <1>1 DEF Live, BeingCleared, Deleting, UsedBlocks
<1>6. DOMAIN table' = DOMAIN table \cup {n + 1}
  BY <1>3
<1>7. \A b \in UsedBlocks : b # 0
  BY BlockTyped DEF UsedBlocks
<1>8. \A b \in UsedBlocks :
        /\ (\E i \in DOMAIN table' : b = table'[i].orig)
             <=> (\E i \in DOMAIN table : b = table[i].orig) \/ b = op.cur
        /\ (\E i \in DOMAIN table' : b = table'[i].start)
             <=> (\E i \in DOMAIN table : b = table[i].start)
  BY <1>3, <1>4, <1>6, <1>7
<1>9. \A b \in UsedBlocks : Held(b, who)' <=> Held(b, who)
  BY <1>1, <1>5, <1>8 DEF Held
<1> QED
  BY <1>5, <1>9, KeepingAccounted

LEMMA AllocFirstAccounted ==
  ASSUME DiskInv, DiskInv', Sized, AllocFirst, Touched # 0, leaked' = leaked,
         NEW who \in [Blocks -> BlockOrNone], NEW pos \in [Blocks -> Nat], Accounted(who),
         NEW w \in [Blocks -> BlockOrNone], NEW p \in [Blocks -> Nat],
         NEW b \in Blocks, op'.cur = b,
         op.rest = <<>> => w = who /\ p = pos,
         op.rest # <<>> => Gives(who, pos, b, table[Touched].orig, 1, w, p)
  PROVE  Accounted(w)'
<1>1. pc = "firstBlock" /\ pc' \in {"idle", "dataWrite"}
  BY DEF AllocFirst
<1>2. Live = table /\ Live' = table' /\ BeingCleared = {} /\ BeingCleared' = {}
  BY <1>1 DEF Live, BeingCleared, Deleting
<1>3. PICK i \in DOMAIN table : i = Touched
  BY TouchedFound
<1>4. /\ TakeBlock(b) /\ DOMAIN table' = DOMAIN table
      /\ table'[i].orig = table[i].orig /\ table'[i].start = b
      /\ \A j \in DOMAIN table : j # i => table'[j] = table[j]
  BY <1>3, InodeFilled
<1>5. b \notin UsedBlocks /\ UsedBlocks' = UsedBlocks \cup {b}
  BY <1>4, TakenWasFree
<1>6. table[i].start = 0
  BY <1>1, <1>2, <1>3 DEF Sized
<1>7. \A c \in UsedBlocks : c \in Blocks /\ c # b /\ c # 0
  BY <1>5, BlockTyped DEF UsedBlocks
<1>8. \A c \in UsedBlocks : w[c] = who[c]
  BY <1>7 DEF Gives
<1>9. \A c \in UsedBlocks :
        /\ (\E j \in DOMAIN table' : c = table'[j].orig)
             <=> (\E j \in DOMAIN table : c = table[j].orig)
        /\ (\E j \in DOMAIN table' : c = table'[j].start)
             <=> (\E j \in DOMAIN table : c = table[j].start)
  BY <1>4, <1>6, <1>7
<1>10. Held(b, w)'
  BY <1>2, <1>4 DEF Held
<1>11. \A c \in UsedBlocks : Held(c, w)' <=> Held(c, who)
  BY <1>1, <1>2, <1>8, <1>9 DEF Held
<1> QED
  BY <1>5, <1>10, <1>11, TakingAccounted

LEMMA AllocNextAccounted ==
  ASSUME DiskInv, DiskInv', AllocNext, Touched # 0, leaked' = leaked,
         NEW who \in [Blocks -> BlockOrNone], NEW pos \in [Blocks -> Nat], Accounted(who),
         NEW w \in [Blocks -> BlockOrNone], NEW p \in [Blocks -> Nat],
         NEW b \in Blocks, op'.nxt = b,
         Gives(who, pos, b, table[Touched].orig, table[Touched].count + 2, w, p)
  PROVE  Accounted(w)'
<1>1. pc = "nextBlock" /\ pc' = "link" /\ UNCHANGED table
  BY DEF AllocNext
<1>2. Live = table /\ Live' = table /\ BeingCleared = {} /\ BeingCleared' = {}
  BY <1>1 DEF Live, BeingCleared, Deleting
<1>3. TakeBlock(b)
  BY DEF AllocNext, DiskInv, TypeInv, TypeOK, Operations
<1>4. b \notin UsedBlocks /\ UsedBlocks' = UsedBlocks \cup {b}
  BY <1>3, TakenWasFree
<1>5. w[b] # 0 /\ \A c \in Blocks : c # b => w[c] = who[c]
  BY <1>2, TouchedFound, OrigsDiffer DEF Gives
<1>6. \A c \in UsedBlocks : c \in Blocks /\ c # b
  BY <1>4 DEF UsedBlocks
<1>7. Held(b, w)' /\ \A c \in UsedBlocks : Held(c, w)' <=> Held(c, who)
  BY <1>1, <1>2, <1>5, <1>6 DEF Held
<1> QED
  BY <1>4, <1>7, TakingAccounted

LEMMA LinkAccounted ==
  ASSUME DiskInv, DiskInv', NEW who, Accounted(who), Link, Touched # 0,
         leaked' = leaked
  PROVE  Accounted(who)'
<1>1. pc = "link" /\ pc' \in {"idle", "dataWrite"} /\ UNCHANGED used
  BY DEF Link
<1>2. /\ Live = table /\ Live' = table' /\ BeingCleared = {} /\ BeingCleared' = {}
      /\ UsedBlocks' = UsedBlocks
  BY <1>1 DEF Live, BeingCleared, Deleting, UsedBlocks
<1>3. PICK i \in DOMAIN table : i = Touched
  BY TouchedFound
<1>4. /\ DOMAIN table' = DOMAIN table
      /\ table'[i].orig = table[i].orig /\ table'[i].start = table[i].start
      /\ \A j \in DOMAIN table : j # i => table'[j] = table[j]
  BY <1>3, InodeCounted
<1>5. \A j \in DOMAIN table : table'[j].orig = table[j].orig /\ table'[j].start = table[j].start
  BY <1>4
<1>6. \A b \in UsedBlocks : Held(b, who)' <=> Held(b, who)
  BY <1>1, <1>2, <1>4, <1>5 DEF Held
<1> QED
  BY <1>2, <1>6, KeepingAccounted

\* rm_file on an empty figure leaves its first block behind; on any other it
\* finds the first block at the head of the chain.
LEMMA DeleteFileAccounted ==
  ASSUME DiskInv, Sized,
         NEW who \in [Blocks -> BlockOrNone], NEW pos \in [Blocks -> Nat],
         ChainsAre(who, pos), Accounted(who),
         NEW n \in Names, DeleteFile(n), leaked' = leaked \cup LeftBehind(n)
  PROVE  Accounted(who)'
<1>1. /\ pc = "idle" /\ pc' \in {"clearData", "clearInode"} /\ UNCHANGED <<used, table>>
      /\ op'.name = n
  BY DEF DeleteFile, disk, memory, NoOp
<1>2. PICK i \in DOMAIN table : i = IndexOf(n)
  <2>1. table \in Seq(Inodes)
    BY DEF DiskInv, TypeInv, TypeOK
  <2>2. IndexIn(table, n) # 0
    BY DEF DeleteFile, IndexOf
  <2> QED
    BY <2>1, <2>2, IndexFound DEF IndexOf
<1>3. /\ Live = table /\ Live' = table /\ UsedBlocks' = UsedBlocks
      /\ BeingCleared = {} /\ BeingCleared' = {i}
  BY <1>1, <1>2 DEF Live, BeingCleared, Deleting, UsedBlocks, IndexOf
<1>3a. PICK s : s = table[i].start
  OBVIOUS
<1>4. s # 0 /\ (table[i].count = 0 <=> table[i].size = 0)
  BY <1>1, <1>3, <1>3a DEF Sized, Filling
<1>5. /\ s \in UsedBlocks /\ \A j \in DOMAIN table : s # table[j].orig
      /\ \A j \in DOMAIN table : s = table[j].start => j = i
  BY <1>3, <1>3a, <1>4 DEF DiskInv, OneReference, NamedOnce
<1>6. CASE table[i].size # 0
  <2>1. LeftBehind(n) = {}
    BY <1>2, <1>6 DEF LeftBehind
  <2>2. who[s] # 0
    <3>1. Chain(who, pos, next, table[i].orig, table[i].start, table[i].count)
      BY <1>1, WholeAtRest
    <3>2. table[i].orig # 0
      BY <1>3, OrigsDiffer
    <3> QED
      BY <1>3a, <1>4, <1>6, <3>1, <3>2 DEF Chain
  <2>3. ASSUME NEW b \in UsedBlocks
        PROVE  Held(b, who)' <=> Held(b, who)
    <3>1. (\E j \in DOMAIN table : b = table[j].start)
            <=> (\E j \in DOMAIN table \ {i} : b = table[j].start) \/ b = s
      BY <1>3a
    <3>2. b = s => who[b] # 0
      BY <2>2
    <3>3. Held(b, who) <=> \/ \E j \in DOMAIN table : b = table[j].orig
                           \/ who[b] # 0
                           \/ \E j \in DOMAIN table : b = table[j].start
      BY <1>1, <1>3 DEF Held
    <3>4. Held(b, who)' <=> \/ \E j \in DOMAIN table : b = table[j].orig
                            \/ who[b] # 0
                            \/ \E j \in DOMAIN table \ {i} : b = table[j].start
      BY <1>1, <1>3 DEF Held
    <3> QED
      BY <3>1, <3>2, <3>3, <3>4
  <2> QED
    BY <1>3, <2>1, <2>3, KeepingAccounted
<1>7. CASE table[i].size = 0
  <2>1. LeftBehind(n) = {s}
    BY <1>2, <1>3a, <1>7 DEF LeftBehind
  <2>2. who[s] = 0
    <3>1. \A j \in DOMAIN table : s \notin DataBlocks(table[j])
      <4>1. ASSUME NEW j \in DOMAIN table, j # i PROVE s \notin DataBlocks(table[j])
        BY <1>1, <1>3a, <1>4, <4>1, StartsApart
      <4>2. DataBlocks(table[i]) = {}
        <5>1. /\ Chain(who, pos, next, table[i].orig, table[i].start, table[i].count)
              /\ DataBlocks(table[i]) = {b \in Blocks : who[b] = table[i].orig}
          BY <1>1, WholeAtRest
        <5>2. \A b \in Blocks : who[b] # table[i].orig
          BY <1>4, <1>7, <5>1 DEF Chain
        <5> QED
          BY <5>1, <5>2
      <4> QED
        BY <4>1, <4>2
    <3>2. \A j \in DOMAIN table : DataBlocks(table[j]) = {b \in Blocks : who[b] = table[j].orig}
      BY <1>1, WholeAtRest
    <3>3. s \in Blocks
      BY <1>5 DEF UsedBlocks
    <3>4. who[s] # 0 => \E j \in DOMAIN table : who[s] = table[j].orig
      BY <1>3, <3>3 DEF ChainsAre, Owned
    <3> QED
      BY <3>1, <3>2, <3>3, <3>4
  <2>3. Held(s, who) /\ ~Held(s, who)'
    BY <1>1, <1>3, <1>3a, <1>5, <2>2 DEF Held
  <2>4. \A b \in UsedBlocks : b # s => (Held(b, who)' <=> Held(b, who))
    BY <1>1, <1>3, <1>3a DEF Held
  <2> QED
    BY <1>3, <1>5, <2>1, <2>3, <2>4 DEF Accounted
<1> QED
  BY <1>6, <1>7

LEMMA ClearDataAccounted ==
  ASSUME DiskInv, DiskInv', ClearData, leaked' = leaked,
         NEW who \in [Blocks -> BlockOrNone], NEW pos \in [Blocks -> Nat],
         ChainsAre(who, pos), Accounted(who),
         NEW w \in [Blocks -> BlockOrNone], Loses(who, op.cur, w)
  PROVE  Accounted(w)'
<1>1. /\ pc = "clearData" /\ UNCHANGED table /\ ClearBlock(op.cur)
      /\ pc' \in {"clearInode", "clearData"} /\ op'.name = op.name
  BY DEF ClearData, DiskInv, TypeInv, TypeOK, Operations
<1>2. Live = table /\ Live' = table /\ BeingCleared' = BeingCleared
  BY <1>1 DEF Live, BeingCleared, Deleting, IndexOf
<1>3. op.cur \in UsedBlocks
  BY CurIsUsed
<1>4. UsedBlocks' = UsedBlocks \ {op.cur}
  BY <1>1, <1>3, Cleared DEF UsedBlocks
<1>5. who[op.cur] # 0
  <2>1. Touched # 0 /\ Touched \in DOMAIN table
    BY <1>1, TouchedFound DEF DiskInv, TypeInv, Cursors, Touched
  <2>2. who[op.cur] = table[Touched].orig
    BY <1>1 DEF ChainsAre, AtPlace
  <2> QED
    BY <1>2, <2>1, <2>2, OrigsDiffer
<1>6. Held(op.cur, who)
  BY <1>5 DEF Held
<1>7. \A c \in UsedBlocks \ {op.cur} : w[c] = who[c]
  BY DEF Loses, UsedBlocks
<1>8. \A c \in UsedBlocks \ {op.cur} : Held(c, w)' <=> Held(c, who)
  BY <1>1, <1>2, <1>7 DEF Held
<1> QED
  BY <1>3, <1>4, <1>6, <1>8, GivingAccounted

LEMMA ClearInodeAccounted ==
  ASSUME DiskInv, DiskInv', NEW who, Accounted(who), ClearInode, leaked' = leaked
  PROVE  Accounted(who)'
<1>1. pc = "clearInode" /\ pc' = "idle"
  BY DEF ClearInode
<1>2. PICK i \in DOMAIN table : i = Touched
  BY InodeDropped
<1>3. Live = table /\ Live' = table' /\ BeingCleared = {i} /\ BeingCleared' = {}
  BY <1>1, <1>2 DEF Live, BeingCleared, Deleting, Touched
<1>4. PICK pick \in [DOMAIN table' -> DOMAIN table \ {i}] :
        /\ \A j \in DOMAIN table \ {i} : \E k \in DOMAIN table' : pick[k] = j
        /\ \A k \in DOMAIN table' : /\ table'[k].orig = table[pick[k]].orig
                                    /\ table'[k].start = table[pick[k]].start
  BY <1>2, InodeDropped
<1>4a. PICK o : o = table[i].orig
  OBVIOUS
<1>5. o \in UsedBlocks /\ UsedBlocks' = UsedBlocks \ {o}
  BY <1>2, <1>4a, InodeDropped, Cleared DEF UsedBlocks
<1>6. ASSUME NEW b
      PROVE  /\ (\E k \in DOMAIN table' : b = table'[k].orig)
                  <=> (\E j \in DOMAIN table \ {i} : b = table[j].orig)
             /\ (\E k \in DOMAIN table' : b = table'[k].start)
                  <=> (\E j \in DOMAIN table \ {i} : b = table[j].start)
  BY <1>4
<1>7. Held(o, who)
  BY <1>3, <1>4a DEF Held
<1>8. ASSUME NEW b \in UsedBlocks \ {o}
      PROVE  Held(b, who)' <=> Held(b, who)
  <2>1. (\E j \in DOMAIN table : b = table[j].orig)
          <=> (\E j \in DOMAIN table \ {i} : b = table[j].orig)
    BY <1>4a
  <2>2. Held(b, who) <=> \/ \E j \in DOMAIN table : b = table[j].orig
                         \/ who[b] # 0
                         \/ \E j \in DOMAIN table \ {i} : b = table[j].start
    BY <1>1, <1>3 DEF Held
  <2>3. Held(b, who)' <=> \/ \E k \in DOMAIN table' : b = table'[k].orig
                          \/ who[b] # 0
                          \/ \E k \in DOMAIN table' : b = table'[k].start
    BY <1>1, <1>3 DEF Held
  <2> QED
    BY <1>6, <2>1, <2>2, <2>3
<1> QED
  BY <1>5, <1>7, <1>8, GivingAccounted

LEMMA NextAccounts ==
  ASSUME RestartInv, RestartInv', Sized, Accounts, [LeakNext]_leakVars
  PROVE  Accounts'
<1> DiskInv /\ DiskInv'
  BY DEF RestartInv
<1>1. PICK who \in [Blocks -> BlockOrNone], pos \in [Blocks -> Nat] :
        ChainsAre(who, pos) /\ Accounted(who)
  BY DEF Accounts
<1>2. CASE AllocFirst /\ leaked' = leaked
  <2>1. PICK b \in Blocks : op'.cur = b
    BY <1>2 DEF AllocFirst, DiskInv, TypeInv, TypeOK, Operations
  <2>2. Touched # 0 /\ table[Touched].orig \in BlockOrNone
    <3>1. Touched # 0
      BY <1>1, <1>2 DEF AllocFirst, ChainsAre, AtPlace
    <3>2. table[Touched] \in Inodes
      BY <3>1, TouchedFound
    <3> QED
      BY <3>1, <3>2 DEF Inodes
  <2>3. PICK w \in [Blocks -> BlockOrNone], p \in [Blocks -> Nat] :
          /\ op.rest = <<>> => w = who /\ p = pos
          /\ op.rest # <<>> => Gives(who, pos, b, table[Touched].orig, 1, w, p)
    BY <2>2 DEF Gives
  <2>4. ChainsAre(w, p)'
    BY <1>1, <1>2, <2>1, <2>3, AllocFirstChains
  <2>5. Accounted(w)'
    BY <1>1, <1>2, <2>1, <2>2, <2>3, AllocFirstAccounted
  <2> QED
    BY <2>4, <2>5 DEF Accounts
<1>3. CASE AllocNext /\ leaked' = leaked
  <2>1. PICK b \in Blocks : op'.nxt = b
    BY <1>3 DEF AllocNext, DiskInv, TypeInv, TypeOK, Operations
  <2>2. Touched # 0 /\ table[Touched].orig \in BlockOrNone /\ table[Touched].count + 2 \in Nat
    <3>1. Touched # 0
      BY <1>1, <1>3 DEF AllocNext, ChainsAre, AtPlace, Filling
    <3>2. table[Touched] \in Inodes
      BY <3>1, TouchedFound
    <3>3. table[Touched].orig \in BlockOrNone /\ table[Touched].count \in Nat
      BY <3>2, FieldsTyped
    <3>4. \A n \in Nat : n + 2 \in Nat
      OBVIOUS
    <3> QED
      BY <3>1, <3>3, <3>4, Zenon
  <2>3. PICK w \in [Blocks -> BlockOrNone], p \in [Blocks -> Nat] :
          Gives(who, pos, b, table[Touched].orig, table[Touched].count + 2, w, p)
    BY <2>2 DEF Gives
  <2>4. ChainsAre(w, p)'
    BY <1>1, <1>3, <2>1, <2>3, AllocNextChains
  <2>5. Accounted(w)'
    BY <1>1, <1>3, <2>1, <2>2, <2>3, AllocNextAccounted
  <2> QED
    BY <2>4, <2>5 DEF Accounts
<1>4. CASE ClearData /\ leaked' = leaked
  <2>1. PICK w \in [Blocks -> BlockOrNone] : Loses(who, op.cur, w)
    BY BlockTyped DEF Loses
  <2>2. ChainsAre(w, pos)'
    BY <1>1, <1>4, <2>1, ClearDataChains
  <2>3. Accounted(w)'
    BY <1>1, <1>4, <2>1, ClearDataAccounted
  <2> QED
    BY <2>2, <2>3 DEF Accounts
<1>5. CASE ExtendDisk /\ leaked' = leaked
  <2>1. ChainsAre(who, pos)'
    BY <1>1, <1>5, StillChains DEF ExtendDisk, disk, history
  <2> QED
    BY <1>1, <1>5, <2>1, QuietAccounted DEF Accounts
<1>6. CASE UNCHANGED leakVars
  <2>1. UNCHANGED vars /\ leaked' = leaked
    BY <1>6 DEF leakVars, vars
  <2>2. ChainsAre(who, pos)'
    BY <1>1, <2>1, StillChains DEF vars
  <2> QED
    BY <1>1, <2>1, <2>2, QuietAccounted DEF Accounts
<1>7. CASE (Load \/ Save) /\ leaked' = leaked
  BY <1>1, <1>7, LoadChains, SaveChains, QuietAccounted DEF Accounts
<1>8. CASE (\E n \in Names, t \in Texts : MakeFile(n, t)) /\ leaked' = leaked
  BY <1>1, <1>8, MakeFileChains, QuietAccounted DEF Accounts
<1>9. CASE \E n \in Names : DeleteFile(n) /\ leaked' = leaked \cup LeftBehind(n)
  BY <1>1, <1>9, DeleteFileChains, DeleteFileAccounted DEF Accounts
<1>10. CASE (AllocInode \/ WriteData \/ ClearInode) /\ leaked' = leaked
  BY <1>1, <1>10, AllocInodeChains, WriteDataChains, ClearInodeChains,
     AllocInodeAccounted, QuietAccounted, ClearInodeAccounted DEF Accounts
<1>11. CASE WriteInode /\ leaked' = leaked
  <2>1. Touched = 0
    BY <1>1, <1>11 DEF WriteInode, ChainsAre, AtPlace
  <2> QED
    BY <1>1, <1>11, <2>1, WriteInodeChains, WriteInodeAccounted DEF Accounts
<1>12. CASE Link /\ leaked' = leaked
  <2>1. Touched # 0
    BY <1>1, <1>12 DEF Link, ChainsAre, AtPlace, Filling
  <2> QED
    BY <1>1, <1>12, <2>1, LinkChains, LinkAccounted DEF Accounts
<1> QED
  BY <1>2, <1>3, <1>4, <1>5, <1>6, <1>7, <1>8, <1>9, <1>10, <1>11, <1>12
     DEF LeakNext, Make, Delete

\* What is held between operations is in the chain of a figure.
LEMMA AccountedAtRest ==
  ASSUME DiskInv, Accounts
  PROVE  BlocksAccounted
<1> DEFINE owned == UNION {FileBlocks(table[i]) : i \in DOMAIN table}
<1> SUFFICES ASSUME pc = "idle"
             PROVE  UsedBlocks = owned \cup leaked /\ owned \cap leaked = {}
  BY DEF BlocksAccounted
<1>1. PICK who \in [Blocks -> BlockOrNone], pos \in [Blocks -> Nat] :
        ChainsAre(who, pos) /\ Accounted(who)
  BY DEF Accounts
<1>2. Live = table /\ BeingCleared = {}
  BY DEF Live, BeingCleared, Deleting
<1>3. \A i \in DOMAIN table : /\ DataBlocks(table[i]) = {b \in Blocks : who[b] = table[i].orig}
                              /\ FileBlocks(table[i]) \subseteq UsedBlocks
  BY <1>1, WholeAtRest, BlocksInUse
<1>4. ASSUME NEW b \in UsedBlocks
      PROVE  Held(b, who) <=> \E i \in DOMAIN table : b \in FileBlocks(table[i])
  <2>1. b \in Blocks /\ b # 0
    BY BlockTyped DEF UsedBlocks
  <2>2. \A i \in DOMAIN table : b \in FileBlocks(table[i]) <=>
          b = table[i].orig \/ b = table[i].start \/ who[b] = table[i].orig
    BY <1>3, <2>1 DEF FileBlocks
  <2>3. who[b] # 0 <=> \E i \in DOMAIN table : who[b] = table[i].orig
    BY <1>1, <1>2, <2>1, OrigsDiffer DEF ChainsAre, Owned
  <2>4. Held(b, who) <=> \/ \E i \in DOMAIN table : b = table[i].orig
                         \/ who[b] # 0
                         \/ \E i \in DOMAIN table : b = table[i].start
    BY <1>2 DEF Held
  <2> QED
    BY <2>2, <2>3, <2>4
<1>5. owned \subseteq UsedBlocks
  BY <1>3
<1>6. \A b \in UsedBlocks : Held(b, who) <=> b \in owned
  BY <1>4
<1> HIDE DEF owned
<1> QED
  BY <1>1, <1>5, <1>6 DEF Accounted

\* When no operation runs, every block in use is in the chain of one figure of
\* the table or was the first block of an empty figure that is deleted, and
\* none is both: but for those blocks, that no one can get back, rm_file gives
\* back all that wr_file took, whatever the texts.
THEOREM EveryBlockAccounted == LeakSpec => []BlocksAccounted
<1>1. LeakInit => RestartInv /\ Chains /\ Sized /\ Accounts
  <2> SUFFICES ASSUME LeakInit PROVE RestartInv /\ Chains /\ Sized /\ Accounts
    OBVIOUS
  <2>1. Init /\ leaked = {} /\ UsedBlocks = {}
    BY DEF LeakInit, Init, UsedBlocks
  <2>2. RestartInv /\ Chains
    BY <2>1, InitInv, InitChains
  <2>3. Live = <<>>
    BY <2>1 DEF Init, Live
  <2>4. Sized
    BY <2>3 DEF Sized
  <2>5. Accounts
    BY <2>1, <2>2 DEF Accounts, Chains, Accounted
  <2> QED
    BY <2>2, <2>4, <2>5
<1>2. RestartInv /\ Chains /\ Sized /\ Accounts /\ [LeakNext]_leakVars =>
        RestartInv' /\ Chains' /\ Sized' /\ Accounts'
  <2>1. [LeakNext]_leakVars => [Next]_vars
    BY DEF LeakNext, Next, leakVars, vars
  <2> QED
    BY <2>1, NextKeeps, NextChains, NextSized, NextAccounts
<1>3. RestartInv /\ Accounts => BlocksAccounted
  BY AccountedAtRest DEF RestartInv
<1> QED
  BY <1>1, <1>2, <1>3, PTL DEF LeakSpec

-----------------------------------------------------------------------------
(* What is written in the blocks.  tail[b] is the text from block b on.    *)

Lesser(m, n) == IF m <= n THEN m ELSE n

\* The text of an inode of that size, of which wr blocks are written and re
\* blocks linked, is right at block b.
Fits(size, wr, re, nx, d, pos, tail, b) ==
  /\ tail[b] # <<>>
  /\ Len(tail[b]) = size - (pos[b] - 1) * Payload
  /\ pos[b] <= wr => d[b] = Text(SubSeq(tail[b], 1, Lesser(Len(tail[b]), Payload)))
  /\ pos[b] < re => /\ Len(tail[b]) > Payload
                    /\ tail[nx[b]] = SubSeq(tail[b], Payload + 1, Len(tail[b]))

\* Cutting a text after its first block.
LEMMA Cut ==
  ASSUME NEW S, NEW s \in Seq(S)
  PROVE  /\ Len(s) \in Nat
         /\ Len(s) <= Payload => SubSeq(s, 1, Lesser(Len(s), Payload)) = s
         /\ Len(s) > Payload =>
              /\ Len(SubSeq(s, 1, Payload)) = Payload
              /\ SubSeq(s, 1, Payload) \in Seq(S)
              /\ SubSeq(s, Payload + 1, Len(s)) \in Seq(S)
              /\ Len(SubSeq(s, Payload + 1, Len(s))) = Len(s) - Payload
              /\ SubSeq(s, 1, Payload) \o SubSeq(s, Payload + 1, Len(s)) = s
         /\ Len(s) <= Payload => SubSeq(s, Lesser(Len(s), Payload) + 1, Len(s)) = <<>>
<1>1. Len(s) \in Nat /\ \A i \in 1..Len(s) : s[i] \in S
  BY LenProperties, ElementOfSeq
<1>2. Payload \in Nat \ {0}
  BY GeometryAssumption
<1>3. ASSUME Len(s) <= Payload
      PROVE  /\ SubSeq(s, 1, Lesser(Len(s), Payload)) = s
             /\ SubSeq(s, Lesser(Len(s), Payload) + 1, Len(s)) = <<>>
  <2>1. Lesser(Len(s), Payload) = Len(s)
    BY <1>3 DEF Lesser
  <2>2. SubSeq(s, Len(s) + 1, Len(s)) = <<>>
    BY <1>1, SubSeqEmpty
  <2> QED
    BY <2>1, <2>2, SubSeqFull
<1>4. ASSUME Len(s) > Payload
      PROVE  /\ Len(SubSeq(s, 1, Payload)) = Payload
             /\ SubSeq(s, 1, Payload) \in Seq(S)
             /\ SubSeq(s, Payload + 1, Len(s)) \in Seq(S)
             /\ Len(SubSeq(s, Payload + 1, Len(s))) = Len(s) - Payload
             /\ SubSeq(s, 1, Payload) \o SubSeq(s, Payload + 1, Len(s)) = s
  <2>1. /\ SubSeq(s, 1, Payload) \in Seq(S)
        /\ Len(SubSeq(s, 1, Payload)) = Payload
    <3>1. \A i \in 1..Payload : s[i] \in S
      BY <1>1, <1>2, <1>4
    <3>2. SubSeq(s, 1, Payload) \in Seq(S)
          /\ Len(SubSeq(s, 1, Payload)) = IF 1 <= Payload THEN Payload - 1 + 1 ELSE 0
      BY <1>2, <3>1, SubSeqProperties
    <3> QED
      BY <1>2, <3>2
  <2>2. /\ SubSeq(s, Payload + 1, Len(s)) \in Seq(S)
        /\ Len(SubSeq(s, Payload + 1, Len(s))) = Len(s) - Payload
    <3> DEFINE m == Payload + 1
    <3>1. m \in Int /\ \A i \in m..Len(s) : s[i] \in S
      BY <1>1, <1>2
    <3>2. m <= Len(s) /\ Len(s) - m + 1 = Len(s) - Payload
      BY <1>1, <1>2, <1>4
    <3> HIDE DEF m
    <3>3. SubSeq(s, m, Len(s)) \in Seq(S)
          /\ Len(SubSeq(s, m, Len(s))) = IF m <= Len(s) THEN Len(s) - m + 1 ELSE 0
      BY <1>1, <3>1, SubSeqProperties
    <3> QED
      BY <3>2, <3>3 DEF m
  <2>3. SubSeq(s, 1, Payload) \o SubSeq(s, Payload + 1, Len(s)) = s
    <3>1. SubSeq(s, 1, Payload) \o SubSeq(s, Payload + 1, Len(s)) = SubSeq(s, 1, Len(s))
      <4>1. /\ 1 \in 1..(Len(s) + 1) /\ Payload \in (1 - 1)..Len(s)
            /\ Len(s) \in Payload..Len(s)
        BY <1>1, <1>2, <1>4
      <4> QED
        BY <4>1, ConcatAdjacentSubSeq
    <3> QED
      BY <3>1, SubSeqFull
  <2> QED
    BY <2>1, <2>2, <2>3
<1> QED
  BY <1>1, <1>3, <1>4

\* rd_file reads the text that a chain of written blocks holds.
LEMMA ChainRead ==
  ASSUME TypeOK, NEW inode \in Inodes,
         NEW who \in [Blocks -> BlockOrNone], NEW pos \in [Blocks -> Nat],
         NEW tail \in [Blocks -> Seq(Chars)],
         Chain(who, pos, next, inode.orig, inode.start, inode.count),
         \A b \in Blocks : who[b] = inode.orig =>
           /\ Fits(inode.size, inode.count, inode.count, next, data, pos, tail, b)
           /\ pos[b] = inode.count => Len(tail[b]) <= Payload,
         inode.count = 0 => inode.size = 0
  PROVE  Contents(inode) = IF inode.count = 0 THEN NotFound ELSE Found(tail[inode.start])
<1>1. PICK f : /\ \A k \in 0..MaxBlock, b \in BlockOrNone :
                   f[k][b] = Part(inode, k, b, f[k + 1][next[b]])
               /\ Contents(inode) = IF inode.size <= 0 THEN NotFound ELSE f[0][inode.start]
  BY ContentsIs
<1>2. PICK n, o, size : n = inode.count /\ o = inode.orig /\ size = inode.size
  OBVIOUS
<1>3. n \in Nat /\ size \in Nat /\ Payload \in Nat \ {0}
  BY <1>2, GeometryAssumption DEF Inodes
<1>4. Chain(who, pos, next, o, inode.start, n)
  BY <1>2
<1>5. n <= MaxBlock /\ MaxBlock \in Nat
  BY <1>4, ChainFits, GeometryAssumption
<1>6. \A b \in Blocks : b # 0 /\ b \in BlockOrNone
  BY BlockTyped DEF Blocks, InitBlocks
<1>7. \A b \in Blocks : who[b] = o =>
        /\ Fits(size, n, n, next, data, pos, tail, b)
        /\ pos[b] = n => Len(tail[b]) <= Payload
  BY <1>2
<1> DEFINE T == {k \in 0..n : \A b \in Blocks :
                   who[b] = o /\ pos[b] = k + 1 => f[k][b] = Found(tail[b])}
<1>8. n \in T
  BY <1>3, <1>4 DEF Chain
<1>9. ASSUME NEW k \in 0..(n - 1), k + 1 \in T PROVE k \in T
  <2> SUFFICES ASSUME NEW b \in Blocks, who[b] = o, pos[b] = k + 1
               PROVE  f[k][b] = Found(tail[b])
    BY <1>3, <1>9
  <2>1. k \in 0..MaxBlock /\ k + 1 \in 0..MaxBlock /\ k # MaxBlock /\ k + 1 <= n /\ k \in Nat
    BY <1>3, <1>5
  <2>2. f[k][b] = Part(inode, k, b, f[k + 1][next[b]])
    BY <1>1, <1>6, <2>1
  <2>3. PICK s \in Seq(Chars) : s = tail[b]
    OBVIOUS
  <2>4. PICK left \in Nat : left = Len(s)
    BY LenProperties
  <2>5. left = size - k * Payload
    <3>1. pos[b] - 1 = k
      BY <2>1
    <3>2. left = size - (pos[b] - 1) * Payload
      BY <1>7, <2>3, <2>4 DEF Fits
    <3> QED
      BY <3>1, <3>2
  <2>6. data[b] = Text(SubSeq(s, 1, Lesser(left, Payload)))
    BY <1>7, <2>1, <2>3, <2>4 DEF Fits
  <2>7. Bytes(data[b]) = SubSeq(s, 1, Lesser(left, Payload))
    <3> DEFINE chars == SubSeq(s, 1, Lesser(left, Payload))
    <3>1. data[b].kind = "text" /\ data[b].chars = chars
      <4> HIDE DEF chars
      <4>1. data[b] = Text(chars)
        BY <2>6 DEF chars
      <4> QED
        BY <4>1 DEF Text
    <3> HIDE DEF chars
    <3>2. Bytes(data[b]) = chars
      BY <3>1 DEF Bytes
    <3> QED
      BY <3>2 DEF chars
  <2> DEFINE want == IF left < Payload THEN left ELSE Payload
             got == Bytes(data[b])
             here == SubSeq(got, 1, IF Len(got) < want THEN Len(got) ELSE want)
             rest == f[k + 1][next[b]]
  <2>8. f[k][b] = IF left = want THEN Found(here)
                  ELSE IF ~rest.found THEN NotFound
                  ELSE Found(IF Len(here) < want THEN here ELSE here \o rest.text)
    <3>1. b # 0
      BY <1>6
    <3>2. Part(inode, k, b, rest) =
            IF left = want THEN Found(here)
                  ELSE IF ~rest.found THEN NotFound
                  ELSE Found(IF Len(here) < want THEN here ELSE here \o rest.text)
      <4> HIDE DEF rest
      <4> QED
        BY <1>2, <2>1, <2>5, <3>1 DEF Part
    <3> QED
      BY <2>2, <3>2
  <2> HIDE DEF rest
  <2>9. CASE k + 1 = n
    <3>1. left <= Payload
      BY <1>7, <2>3, <2>4, <2>9
    <3>2. want = left
      BY <1>3, <3>1
    <3>3. got = s
      BY <2>4, <2>7, <3>1, Cut
    <3>4. here = s
      BY <2>4, <3>2, <3>3, SubSeqFull
    <3> HIDE DEF want, here
    <3> QED
      BY <2>3, <2>8, <3>2, <3>4
  <2>10. CASE k + 1 # n
    <3>1. pos[b] < n
      BY <1>3, <2>1, <2>10
    <3>2. left > Payload /\ tail[next[b]] = SubSeq(s, Payload + 1, left)
      BY <1>7, <2>3, <2>4, <3>1 DEF Fits
    <3>3. next[b] \in Blocks /\ who[next[b]] = o /\ pos[next[b]] = (k + 1) + 1
      BY <1>4, <3>1 DEF Chain
    <3>4. rest = Found(tail[next[b]])
      BY <1>9, <3>3 DEF rest
    <3>5. want = Payload /\ left # want /\ Lesser(left, Payload) = Payload
      BY <1>3, <3>2 DEF Lesser
    <3>6. got = SubSeq(s, 1, Payload) /\ got \in Seq(Chars) /\ Len(got) = Payload
      BY <2>4, <2>7, <3>2, <3>5, Cut
    <3>7. here = got
      <4> HIDE DEF got, want
      <4>1. ~(Len(got) < want)
        BY <1>3, <3>5, <3>6
      <4>2. here = SubSeq(got, 1, Len(got))
        BY <3>5, <3>6, <4>1
      <4> QED
        BY <3>6, <4>2, SubSeqFull
    <3>8. got \o SubSeq(s, Payload + 1, left) = s
      BY <2>4, <3>2, <3>6, Cut
    <3>9. ~(Len(here) < want)
      BY <1>3, <3>5, <3>6, <3>7
    <3> HIDE DEF want, here, got
    <3>10. rest.found /\ rest.text = SubSeq(s, Payload + 1, left)
      BY <3>2, <3>4 DEF Found
    <3> QED
      BY <2>3, <2>8, <3>5, <3>7, <3>8, <3>9, <3>10
  <2> QED
    BY <2>9, <2>10
<1>10. 0 \in T
  <2> HIDE DEF T
  <2> QED
    BY <1>3, <1>8, <1>9, Descent
<1>11. CASE n = 0
  BY <1>1, <1>2, <1>3, <1>11
<1>12. CASE n # 0
  <2>1. inode.start \in Blocks /\ who[inode.start] = o /\ pos[inode.start] = 0 + 1
    BY <1>3, <1>4, <1>12 DEF Chain
  <2>2. f[0][inode.start] = Found(tail[inode.start])
    BY <1>10, <2>1
  <2>3. ~(size <= 0)
    <3>1. Fits(size, n, n, next, data, pos, tail, inode.start)
      BY <1>7, <2>1
    <3>2. Len(tail[inode.start]) = size - 0 * Payload /\ tail[inode.start] # <<>>
      BY <2>1, <3>1 DEF Fits
    <3>3. Len(tail[inode.start]) \in Nat /\ Len(tail[inode.start]) # 0
      BY <2>1, <3>2, LenProperties, EmptySeq
    <3>4. 0 * Payload = 0
      BY <1>3
    <3> QED
      BY <1>3, <3>2, <3>3, <3>4
  <2> QED
    BY <1>1, <1>2, <1>12, <2>2, <2>3
<1> QED
  BY <1>11, <1>12

-----------------------------------------------------------------------------
(* The invariant.                                                          *)

\* How many blocks of a figure are written.
Wr == [i \in DOMAIN Live |->
         IF pc \in {"nextBlock", "link"} /\ i = Touched THEN Live[i].count + 1
         ELSE Live[i].count]

\* Every block of a figure of table t has its part of the text.
Written(t, nx, d, who, pos, tail, wr, re) ==
  \A b \in Blocks, i \in DOMAIN t : who[b] # 0 /\ who[b] = t[i].orig =>
    Fits(t[i].size, wr[i], re[i], nx, d, pos, tail, b)

\* The texts of figures other than those of C end with their last block.
Ended(t, who, pos, tail, C) ==
  \A i \in DOMAIN t \ C :
    /\ t[i].count = 0 => t[i].size = 0
    /\ \A b \in Blocks :
         who[b] # 0 /\ who[b] = t[i].orig /\ pos[b] = t[i].count => Len(tail[b]) <= Payload

Distinct(t) == \A i, j \in DOMAIN t : t[i].name = t[j].name => i = j

BeingFilled == IF Filling THEN {Touched} ELSE {}

\* Where the operation under way is in its text.
AtText(tail) ==
  /\ Adding => op.name \in Names
  /\ pc \in {"inodeBlock", "inodeWrite", "firstBlock"} => op.rest \in Texts
  /\ Filling => tail[table[Touched].start] \in Texts
  /\ pc = "dataWrite" => op.rest = tail[op.cur]
  /\ pc = "link" /\ op.nxt = 0 => Len(tail[op.cur]) <= Payload
  /\ pc = "link" /\ op.nxt # 0 => tail[op.nxt] = op.rest
  /\ pc = "nextBlock" \/ (pc = "link" /\ op.nxt # 0) =>
       /\ Len(tail[op.cur]) > Payload
       /\ op.rest = SubSeq(tail[op.cur], Payload + 1, Len(tail[op.cur]))

Tells(who, pos, tail) ==
  /\ Written(Live, next, data, who, pos, tail, Wr, Re)
  /\ Ended(Live, who, pos, tail, BeingFilled)
  /\ Distinct(Live)
  /\ AtText(tail)

\* The parts of the disk that block b is judged by stay the same.
SameAt(b, re, nx, d, pos, tail, nx2, d2, pos2, tail2) ==
  /\ d2[b] = d[b] /\ pos2[b] = pos[b] /\ tail2[b] = tail[b]
  /\ pos[b] < re => nx2[b] = nx[b] /\ tail2[nx[b]] = tail[nx[b]]

LEMMA FitsKept ==
  ASSUME NEW size, NEW wr, NEW re, NEW nx, NEW d, NEW pos, NEW tail, NEW b,
         Fits(size, wr, re, nx, d, pos, tail, b),
         NEW nx2, NEW d2, NEW pos2, NEW tail2,
         SameAt(b, re, nx, d, pos, tail, nx2, d2, pos2, tail2)
  PROVE  Fits(size, wr, re, nx2, d2, pos2, tail2, b)
BY DEF Fits, SameAt

\* Steps that change no figure: what they write is not a block of one.
LEMMA KeepingTells ==
  ASSUME Live' = Live, next' = next, ~Filling, ~Filling',
         NEW who \in [Blocks -> BlockOrNone], NEW pos \in [Blocks -> Nat],
         NEW tail \in [Blocks -> Seq(Chars)], Tells(who, pos, tail),
         \A b \in Blocks : who[b] # 0 => data'[b] = data[b],
         AtText(tail)'
  PROVE  Tells(who, pos, tail)'
<1>1. /\ Written(Live, next, data, who, pos, tail, Wr, Re)
      /\ Ended(Live, who, pos, tail, BeingFilled) /\ Distinct(Live)
  BY DEF Tells
<1>2. BeingFilled = {} /\ BeingFilled' = {}
  BY DEF BeingFilled
<1>3. \A i \in DOMAIN Live : Wr'[i] = Wr[i] /\ Re'[i] = Re[i]
  BY DEF Wr, Re, Filling
<1>4. Written(Live, next, data', who, pos, tail, Wr', Re')
  <2> SUFFICES ASSUME NEW b \in Blocks, NEW i \in DOMAIN Live,
                      who[b] # 0, who[b] = Live[i].orig
               PROVE  Fits(Live[i].size, Wr'[i], Re'[i], next, data', pos, tail, b)
    BY DEF Written
  <2>1. Fits(Live[i].size, Wr[i], Re[i], next, data, pos, tail, b)
    BY <1>1 DEF Written
  <2>2. SameAt(b, Re[i], next, data, pos, tail, next, data', pos, tail)
    BY DEF SameAt
  <2>3. Fits(Live[i].size, Wr[i], Re[i], next, data', pos, tail, b)
    BY <2>1, <2>2, FitsKept
  <2> QED
    BY <1>3, <2>3
<1>5. Written(Live, next, data, who, pos, tail, Wr, Re)'
  <2> DEFINE w == Wr'
             r == Re'
  <2>1. Written(Live, next, data', who, pos, tail, w, r)
    BY <1>4
  <2> HIDE DEF w, r
  <2>2. Written(Live', next', data', who, pos, tail, w, r)
    BY <2>1
  <2> QED
    BY <2>2 DEF w, r
<1>6. Ended(Live, who, pos, tail, BeingFilled)' /\ Distinct(Live)'
  BY <1>1, <1>2 DEF Ended, Distinct
<1> QED
  BY <1>5, <1>6 DEF Tells

LEMMA StillTells ==
  ASSUME NEW who \in [Blocks -> BlockOrNone], NEW pos \in [Blocks -> Nat],
         NEW tail \in [Blocks -> Seq(Chars)], Tells(who, pos, tail),
         UNCHANGED <<data, next, table, pc, op, saved>>
  PROVE  Tells(who, pos, tail)'
<1>1. /\ Live' = Live /\ Touched' = Touched /\ Filling' = Filling /\ Adding' = Adding
  BY DEF Live, Touched, IndexOf, Filling, Adding
<1>2. Wr' = Wr /\ Re' = Re /\ BeingFilled' = BeingFilled
  BY <1>1 DEF Wr, Re, BeingFilled
<1>3. AtText(tail)'
  BY <1>1 DEF Tells, AtText
<1>4. Written(Live, next, data, who, pos, tail, Wr, Re)'
  BY <1>1, <1>2 DEF Tells
<1>5. Ended(Live, who, pos, tail, BeingFilled)' /\ Distinct(Live)'
  BY <1>1, <1>2 DEF Tells
<1> QED
  BY <1>3, <1>4, <1>5 DEF Tells

-----------------------------------------------------------------------------
(* The steps keep it.                                                      *)

LEMMA LoadTells ==
  ASSUME RestartInv, RestartInv',
         NEW who \in [Blocks -> BlockOrNone], NEW pos \in [Blocks -> Nat],
         NEW tail \in [Blocks -> Seq(Chars)], Tells(who, pos, tail), Load
  PROVE  Tells(who, pos, tail)'
<1> DiskInv /\ DiskInv'
  BY DEF RestartInv
<1>1. /\ pc \in {"closed", "loading"} /\ pc' \in {"loading", "idle"}
      /\ UNCHANGED <<used, next>> /\ Live' = Live
  BY LoadLive
<1>2. ~Filling /\ ~Filling' /\ AtText(tail)'
  BY <1>1 DEF Filling, AtText, Adding
<1>3. data' = data
  BY DEF Load, Open, LoadInode, disk
<1> QED
  BY <1>1, <1>2, <1>3, KeepingTells

LEMMA SaveTells ==
  ASSUME DiskInv, DiskInv',
         NEW who \in [Blocks -> BlockOrNone], NEW pos \in [Blocks -> Nat],
         NEW tail \in [Blocks -> Seq(Chars)],
         ChainsAre(who, pos), Tells(who, pos, tail), Save
  PROVE  Tells(who, pos, tail)'
<1>1. /\ pc \in {"idle", "saveHeader", "saveInode"}
      /\ pc' \in {"saveHeader", "saveInode", "closed"}
      /\ UNCHANGED <<used, next>> /\ Live' = Live
  BY SaveLive
<1>2. ~Filling /\ ~Filling' /\ AtText(tail)'
  BY <1>1 DEF Filling, AtText, Adding
<1>3. \A b \in Blocks : who[b] # 0 => data'[b] = data[b]
  <2>1. CASE Close \/ SaveHeader
    BY <2>1 DEF Close, SaveHeader, disk
  <2>2. CASE SaveInode
    <3>1. op.left \in DOMAIN table /\ Live = table
      BY <2>2, LenProperties
         DEF SaveInode, DiskInv, TypeInv, TypeOK, Cursors, Live
    <3>2. \/ data' = data
          \/ data' = [data EXCEPT ![table[op.left].orig] = table[op.left]]
      BY <2>2 DEF SaveInode
    <3>3. \A b \in Blocks : who[b] # 0 => b # table[op.left].orig
      BY <3>1 DEF ChainsAre, Owned
    <3> QED
      BY <3>2, <3>3 DEF DiskInv, TypeInv, TypeOK
  <2> QED
    BY <2>1, <2>2 DEF Save
<1> QED
  BY <1>1, <1>2, <1>3, KeepingTells

LEMMA MakeFileTells ==
  ASSUME DiskInv, DiskInv',
         NEW who \in [Blocks -> BlockOrNone], NEW pos \in [Blocks -> Nat],
         NEW tail \in [Blocks -> Seq(Chars)], Tells(who, pos, tail),
         NEW n \in Names, NEW t \in Texts, MakeFile(n, t)
  PROVE  Tells(who, pos, tail)'
<1>1. /\ pc = "idle" /\ pc' = "inodeBlock" /\ op'.name = n /\ op'.rest = t
      /\ UNCHANGED <<disk, memory, history>>
  BY DEF MakeFile, NoOp
<1>2. ~Filling /\ ~Filling' /\ Live' = Live /\ next' = next /\ data' = data
  BY <1>1 DEF Filling, Live, disk, memory, history
<1>3. AtText(tail)'
  BY <1>1 DEF AtText, Adding, Filling
<1> QED
  BY <1>2, <1>3, KeepingTells

LEMMA DeleteFileTells ==
  ASSUME DiskInv, DiskInv',
         NEW who \in [Blocks -> BlockOrNone], NEW pos \in [Blocks -> Nat],
         NEW tail \in [Blocks -> Seq(Chars)], Tells(who, pos, tail),
         NEW n \in Names, DeleteFile(n)
  PROVE  Tells(who, pos, tail)'
<1>1. /\ pc = "idle" /\ pc' \in {"clearInode", "clearData"}
      /\ UNCHANGED <<disk, memory, saved>>
  BY DEF DeleteFile
<1>2. ~Filling /\ ~Filling' /\ Live' = Live /\ next' = next /\ data' = data
  BY <1>1 DEF Filling, Live, disk, memory
<1>3. AtText(tail)'
  BY <1>1 DEF AtText, Adding, Filling
<1> QED
  BY <1>2, <1>3, KeepingTells

LEMMA AllocInodeTells ==
  ASSUME DiskInv, DiskInv',
         NEW who \in [Blocks -> BlockOrNone], NEW pos \in [Blocks -> Nat],
         NEW tail \in [Blocks -> Seq(Chars)], Tells(who, pos, tail), AllocInode
  PROVE  Tells(who, pos, tail)'
<1>1. /\ pc = "inodeBlock" /\ pc' = "inodeWrite"
      /\ op'.name = op.name /\ op'.rest = op.rest
      /\ UNCHANGED <<data, next, table>>
  BY DEF AllocInode, DiskInv, TypeInv, TypeOK, Operations
<1>2. ~Filling /\ ~Filling' /\ Live' = Live
  BY <1>1 DEF Filling, Live
<1>3. AtText(tail)'
  BY <1>1 DEF AtText, Adding, Filling, Tells
<1> QED
  BY <1>1, <1>2, <1>3, KeepingTells

\* The new inode has no block of data yet.
LEMMA WriteInodeTells ==
  ASSUME DiskInv, DiskInv',
         NEW who \in [Blocks -> BlockOrNone], NEW pos \in [Blocks -> Nat],
         NEW tail \in [Blocks -> Seq(Chars)],
         ChainsAre(who, pos), Tells(who, pos, tail), WriteInode
  PROVE  Tells(who, pos, tail)'
<1>1. /\ pc = "inodeWrite" /\ pc' = "firstBlock" /\ op' = op /\ next' = next
      /\ data' = [data EXCEPT ![op.cur] = NewInode(op.name, op.cur)]
  BY DEF WriteInode
<1>2. Touched = 0 /\ who[op.cur] = 0
  BY <1>1 DEF ChainsAre, AtPlace
<1>3. PICK n : n = Len(table)
  OBVIOUS
<1>4. /\ n \in Nat /\ DOMAIN table = 1..n /\ DOMAIN table' = 1..(n + 1)
      /\ \A i \in 1..n :
           /\ table'[i].orig = table[i].orig
           /\ table'[i].count = table[i].count /\ table'[i].name = table[i].name
           /\ table'[i].size = table[i].size
      /\ table'[n + 1] = NewInode(op.name, op.cur)
  BY <1>2, <1>3, InodeAppended
<1>5. Live = table /\ Live' = table' /\ BeingFilled = {} /\ BeingFilled' = {}
  BY <1>1 DEF Live, BeingFilled, Filling
<1>6. /\ Written(table, next, data, who, pos, tail, Wr, Re)
      /\ Ended(table, who, pos, tail, {}) /\ Distinct(table)
  BY <1>5 DEF Tells
<1>7. /\ \A i \in 1..n : Wr[i] = table[i].count /\ Re[i] = table[i].count
      /\ \A i \in 1..n : Wr'[i] = table[i].count /\ Re'[i] = table[i].count
  <2>1. ~Filling /\ ~Filling' /\ pc \notin {"nextBlock", "link"}
        /\ pc' \notin {"nextBlock", "link"}
    BY <1>1 DEF Filling
  <2>2. /\ \A i \in DOMAIN table : Wr[i] = table[i].count /\ Re[i] = table[i].count
        /\ \A i \in DOMAIN table' : Wr'[i] = table'[i].count /\ Re'[i] = table'[i].count
    BY <1>5, <2>1 DEF Wr, Re
  <2>3. \A i \in 1..n : i \in 1..(n + 1)
    BY <1>4
  <2> QED
    BY <1>4, <2>2, <2>3
<1>8. ASSUME NEW b \in Blocks, NEW i \in DOMAIN table', who[b] # 0, who[b] = table'[i].orig
      PROVE  i \in 1..n /\ who[b] = table[i].orig
  <2>1. PICK j \in 1..n : who[b] = table[j].orig
    <3>1. Owned(Live, UsedBlocks, next, who, pos, Lo, Hi, Re)
      BY DEF ChainsAre
    <3>2. \E j \in DOMAIN Live : who[b] = Live[j].orig
      <4>1. who[b] # 0
        BY <1>8
      <4> QED
        BY Zenon, <3>1, <4>1 DEF Owned
    <3> QED
      BY <1>4, <1>5, <3>2
  <2>2. j \in DOMAIN table' /\ table'[j].orig = table'[i].orig
    <3>1. \A k \in 1..n : k \in 1..(n + 1)
      BY <1>4
    <3>2. table'[j].orig = table[j].orig
      BY <1>4
    <3> QED
      BY <1>4, <1>8, <2>1, <3>1, <3>2, Zenon
  <2>3. j = i
    BY <1>5, <1>8, <2>2, OrigsDiffer DEF DiskInv, OneReference, NamedOnce
  <2> QED
    BY <2>1, <2>3
<1>9. ASSUME NEW b \in Blocks, who[b] # 0 PROVE data'[b] = data[b]
  <2>1. b # op.cur
    BY <1>2, <1>9
  <2> QED
    BY <1>1, <2>1 DEF DiskInv, TypeInv, TypeOK
<1>10. Written(Live, next, data, who, pos, tail, Wr, Re)'
  <2> SUFFICES ASSUME NEW b \in Blocks, NEW i \in DOMAIN table',
                      who[b] # 0, who[b] = table'[i].orig
               PROVE  Fits(table'[i].size, Wr'[i], Re'[i], next', data', pos, tail, b)
    BY <1>5 DEF Written
  <2>1. i \in 1..n /\ who[b] = table[i].orig
    BY <1>8
  <2>2. Fits(table[i].size, Wr[i], Re[i], next, data, pos, tail, b)
    BY <1>4, <1>6, <2>1 DEF Written
  <2>3. SameAt(b, Re[i], next, data, pos, tail, next', data', pos, tail)
    BY <1>1, <1>9 DEF SameAt
  <2>4. Fits(table[i].size, Wr[i], Re[i], next', data', pos, tail, b)
    BY <2>2, <2>3, FitsKept
  <2>5. table'[i].size = table[i].size /\ Wr'[i] = Wr[i] /\ Re'[i] = Re[i]
    BY <1>4, <1>7, <2>1
  <2> QED
    BY <2>4, <2>5
<1>11. Ended(Live, who, pos, tail, BeingFilled)'
  <2>1. \A i \in DOMAIN table' : table'[i].count = 0 => table'[i].size = 0
    <3>1. \A i \in 1..n : table[i].count = 0 => table[i].size = 0
      BY <1>4, <1>6 DEF Ended
    <3>2. table'[n + 1].size = 0
      BY <1>4 DEF NewInode, Inode
    <3> QED
      BY <1>4, <3>1, <3>2
  <2>2. \A b \in Blocks, i \in DOMAIN table' :
          who[b] # 0 /\ who[b] = table'[i].orig /\ pos[b] = table'[i].count
            => Len(tail[b]) <= Payload
    BY <1>4, <1>6, <1>8 DEF Ended
  <2> QED
    BY <1>5, <2>1, <2>2 DEF Ended
<1>12. Distinct(Live)'
  <2>1. \A i \in 1..n : table[i].name # op.name
    BY <1>2, <1>4, IndexLeast DEF Touched, IndexOf, DiskInv, TypeInv, TypeOK
  <2>2. table'[n + 1].name = op.name
    BY <1>4 DEF NewInode, Inode
  <2>3. \A i \in 1..(n + 1) : i \in 1..n \/ i = n + 1
    BY <1>4
  <2>4. \A i, j \in 1..n : table'[i].name = table'[j].name => i = j
    BY <1>4, <1>6 DEF Distinct
  <2>5. \A i \in 1..n : table'[i].name # table'[n + 1].name
    BY <1>4, <2>1, <2>2
  <2>6. \A i, j \in 1..(n + 1) : table'[i].name = table'[j].name => i = j
    BY <2>3, <2>4, <2>5
  <2> QED
    BY <1>4, <1>5, <2>6 DEF Distinct
<1>13. AtText(tail)'
  BY <1>1 DEF AtText, Adding, Filling, Tells
<1> QED
  BY <1>10, <1>11, <1>12, <1>13 DEF Tells

\* What belonging to figure i says of block b.
LEMMA OwnedBlock ==
  ASSUME DiskInv, NEW who \in [Blocks -> BlockOrNone], NEW pos \in [Blocks -> Nat],
         ChainsAre(who, pos), NEW b \in Blocks, NEW i \in DOMAIN Live
  PROVE  who[b] = Live[i].orig =>
           /\ who[b] # 0 /\ b \in UsedBlocks
           /\ pos[b] \in Lo[i]..Hi[i]
           /\ pos[b] < Re[i] => /\ next[b] \in Blocks /\ who[next[b]] = who[b]
                                /\ pos[next[b]] = pos[b] + 1
<1> DEFINE t == Live
           U == UsedBlocks
           lo == Lo
           hi == Hi
           re == Re
<1>1. Owned(t, U, next, who, pos, lo, hi, re)
  BY DEF ChainsAre
<1>2. /\ \A j, k \in DOMAIN t : t[j].orig = t[k].orig => j = k
      /\ \A j \in DOMAIN t : t[j].orig # 0
  BY OrigsDiffer
<1>3. i \in DOMAIN t
  OBVIOUS
<1> HIDE DEF t, U, lo, hi, re
<1>4. ASSUME who[b] = t[i].orig
      PROVE  /\ who[b] # 0 /\ b \in U
             /\ pos[b] \in lo[i]..hi[i]
             /\ pos[b] < re[i] => /\ next[b] \in Blocks /\ who[next[b]] = who[b]
                                  /\ pos[next[b]] = pos[b] + 1
  <2>1. who[b] # 0
    BY <1>2, <1>3, <1>4
  <2>2. PICK k \in DOMAIN t : who[b] = t[k].orig /\ pos[b] \in lo[k]..hi[k]
    BY <1>1, <2>1 DEF Owned
  <2>3. k = i
    BY <1>2, <1>3, <1>4, <2>2
  <2> QED
    BY <1>1, <1>3, <1>4, <2>1, <2>2, <2>3 DEF Owned
<1> QED
  BY <1>4 DEF t, U, lo, hi, re

\* A block of no figure comes after none.
LEMMA FreeNotNext ==
  ASSUME DiskInv, NEW who \in [Blocks -> BlockOrNone], NEW pos \in [Blocks -> Nat],
         ChainsAre(who, pos), NEW b \in Blocks, who[b] = 0,
         NEW c \in Blocks, NEW i \in DOMAIN Live, who[c] = Live[i].orig, pos[c] < Re[i]
  PROVE  next[c] # b
BY OwnedBlock

LEMMA PlacesApart ==
  ASSUME NEW who \in [Blocks -> BlockOrNone], NEW pos \in [Blocks -> Nat],
         ChainsAre(who, pos), NEW b \in Blocks, NEW c \in Blocks
  PROVE  who[b] # 0 /\ who[b] = who[c] /\ pos[b] = pos[c] => b = c
BY DEF ChainsAre, Owned

LEMMA SizeTyped ==
  ASSUME NEW i \in Inodes
  PROVE  i.size \in Nat
BY DEF Inodes

LEMMA FitsMoved ==
  ASSUME NEW size, NEW wr, NEW re, NEW nx, NEW d, NEW pos, NEW tail, NEW b,
         Fits(size, wr, re, nx, d, pos, tail, b), NEW wr2, NEW re2,
         pos[b] <= wr2 => pos[b] <= wr, pos[b] < re2 => pos[b] < re
  PROVE  Fits(size, wr2, re2, nx, d, pos, tail, b)
BY DEF Fits

\* The figure an addition is filling, and where it is in it.
LEMMA FillingAt ==
  ASSUME DiskInv, NEW who \in [Blocks -> BlockOrNone], NEW pos \in [Blocks -> Nat],
         ChainsAre(who, pos), Filling
  PROVE  /\ Live = table /\ Touched \in DOMAIN table /\ table[Touched] \in Inodes
         /\ op.cur \in Blocks /\ who[op.cur] = table[Touched].orig
         /\ pos[op.cur] = table[Touched].count + 1
         /\ Lo[Touched] = 1 /\ Re[Touched] = table[Touched].count + 1
         /\ table[Touched].start \in Blocks
         /\ who[table[Touched].start] = table[Touched].orig
         /\ pos[table[Touched].start] = 1
         /\ table[Touched].count \in Nat
<1>1. Live = table
  BY DEF Live, Filling
<1>2. /\ Touched # 0 /\ op.cur \in Blocks /\ who[op.cur] = table[Touched].orig
      /\ pos[op.cur] = table[Touched].count + 1
  BY DEF ChainsAre, AtPlace
<1>3. PICK i : i = Touched
  OBVIOUS
<1>4. i \in DOMAIN table /\ table[i] \in Inodes
  BY <1>2, <1>3, TouchedFound
<1>5. table[i].count \in Nat
  BY <1>4, FieldsTyped
<1>6. ~Deleting
  BY DEF Filling, Deleting
<1>7. Lo[i] = 1 /\ Re[i] = table[i].count + 1
  BY <1>1, <1>3, <1>4, <1>6 DEF Lo, Re
<1>8. Hi[i] >= 1
  BY <1>1, <1>3, <1>4, <1>5, <1>7 DEF Hi
<1>9. /\ table[i].start \in Blocks /\ who[table[i].start] = table[i].orig
      /\ pos[table[i].start] = 1
  <2> DEFINE lo == Lo
             hi == Hi
             re == Re
  <2>1. Owned(table, UsedBlocks, next, who, pos, lo, hi, re) /\ lo[i] = 1 /\ hi[i] >= 1
    BY <1>1, <1>7, <1>8 DEF ChainsAre
  <2> HIDE DEF lo, hi, re
  <2> QED
    BY <1>4, <2>1 DEF Owned
<1> QED
  BY <1>1, <1>2, <1>3, <1>4, <1>5, <1>7, <1>9

\* clear_block writes over a block of the figure being deleted, which is no
\* longer its own.
LEMMA ClearDataTells ==
  ASSUME DiskInv, DiskInv',
         NEW who \in [Blocks -> BlockOrNone], NEW pos \in [Blocks -> Nat],
         NEW tail \in [Blocks -> Seq(Chars)],
         ChainsAre(who, pos), Tells(who, pos, tail), ClearData,
         NEW w \in [Blocks -> BlockOrNone], Loses(who, op.cur, w)
  PROVE  Tells(w, pos, tail)'
<1>1. /\ pc = "clearData" /\ pc' \in {"clearData", "clearInode"}
      /\ UNCHANGED table /\ ClearBlock(op.cur)
  BY DEF ClearData
<1>2. ~Filling /\ ~Filling' /\ ~Adding' /\ Live = table /\ Live' = table
  BY <1>1 DEF Filling, Adding, Live
<1>3. \A i \in DOMAIN table : /\ Wr[i] = table[i].count /\ Re[i] = table[i].count
                              /\ Wr'[i] = table[i].count /\ Re'[i] = table[i].count
  BY <1>1, <1>2 DEF Wr, Re
<1>4. /\ Written(table, next, data, who, pos, tail, Wr, Re)
      /\ Ended(table, who, pos, tail, {}) /\ Distinct(table)
      /\ BeingFilled' = {}
  BY <1>2 DEF Tells, BeingFilled
<1>5. \A b \in Blocks : w[b] # 0 => w[b] = who[b] /\ b # op.cur
  BY DEF Loses
<1>6. \A b \in Blocks : b # op.cur => data'[b] = data[b] /\ next'[b] = next[b]
  BY <1>1 DEF ClearBlock
<1>7. Written(Live, next, data, w, pos, tail, Wr, Re)'
  <2> SUFFICES ASSUME NEW b \in Blocks, NEW i \in DOMAIN table,
                      w[b] # 0, w[b] = table[i].orig
               PROVE  Fits(table[i].size, Wr'[i], Re'[i], next', data', pos, tail, b)
    BY <1>2 DEF Written
  <2>1. Fits(table[i].size, Wr[i], Re[i], next, data, pos, tail, b)
    BY <1>4, <1>5 DEF Written
  <2>2. SameAt(b, Re[i], next, data, pos, tail, next', data', pos, tail)
    BY <1>5, <1>6 DEF SameAt
  <2>3. Fits(table[i].size, Wr[i], Re[i], next', data', pos, tail, b)
    BY <2>1, <2>2, FitsKept
  <2> QED
    BY <1>3, <2>3
<1>8. Ended(Live, w, pos, tail, BeingFilled)' /\ Distinct(Live)'
  BY <1>2, <1>4, <1>5 DEF Ended
<1>9. AtText(tail)'
  BY <1>2, <1>1 DEF AtText
<1> QED
  BY <1>7, <1>8, <1>9 DEF Tells

LEMMA ClearInodeTells ==
  ASSUME DiskInv, DiskInv',
         NEW who \in [Blocks -> BlockOrNone], NEW pos \in [Blocks -> Nat],
         NEW tail \in [Blocks -> Seq(Chars)],
         ChainsAre(who, pos), Tells(who, pos, tail), ClearInode
  PROVE  Tells(who, pos, tail)'
<1>1. pc = "clearInode" /\ pc' = "idle"
  BY DEF ClearInode
<1>2. ~Filling /\ ~Filling' /\ ~Adding' /\ Live = table /\ Live' = table'
  BY <1>1 DEF Filling, Adding, Live
<1>3. /\ \A i \in DOMAIN table : Wr[i] = table[i].count /\ Re[i] = table[i].count
      /\ \A i \in DOMAIN table' : Wr'[i] = table'[i].count /\ Re'[i] = table'[i].count
  BY <1>1, <1>2 DEF Wr, Re
<1>4. /\ Written(table, next, data, who, pos, tail, Wr, Re)
      /\ Ended(table, who, pos, tail, {}) /\ Distinct(table)
      /\ BeingFilled' = {}
  BY <1>2 DEF Tells, BeingFilled
<1>5. /\ Touched \in DOMAIN table /\ ClearBlock(table[Touched].orig)
  BY InodeDropped
<1>6. PICK pick \in [DOMAIN table' -> DOMAIN table \ {Touched}] :
        /\ \A j, k \in DOMAIN table' : pick[j] = pick[k] => j = k
        /\ \A j \in DOMAIN table \ {Touched} : \E k \in DOMAIN table' : pick[k] = j
        /\ \A k \in DOMAIN table' :
             /\ table'[k].orig = table[pick[k]].orig
             /\ table'[k].start = table[pick[k]].start
             /\ table'[k].count = table[pick[k]].count
             /\ table'[k].size = table[pick[k]].size
             /\ table'[k].name = table[pick[k]].name
  BY InodeDropped
<1>7. \A b \in Blocks : who[b] # 0 => data'[b] = data[b] /\ next'[b] = next[b]
  <2>1. \A b \in Blocks : who[b] # 0 => b # table[Touched].orig
    BY <1>2, <1>5 DEF ChainsAre, Owned
  <2> QED
    BY <1>5, <2>1 DEF ClearBlock
<1>8. Written(Live, next, data, who, pos, tail, Wr, Re)'
  <2> SUFFICES ASSUME NEW b \in Blocks, NEW k \in DOMAIN table',
                      who[b] # 0, who[b] = table'[k].orig
               PROVE  Fits(table'[k].size, Wr'[k], Re'[k], next', data', pos, tail, b)
    BY <1>2 DEF Written
  <2>1. PICK i \in DOMAIN table : i = pick[k]
    BY <1>6
  <2>2. /\ who[b] = table[i].orig /\ table'[k].size = table[i].size
        /\ Wr'[k] = Wr[i] /\ Re'[k] = Re[i]
    BY <1>3, <1>6, <2>1
  <2>3. Fits(table[i].size, Wr[i], Re[i], next, data, pos, tail, b)
    BY <1>4, <2>2 DEF Written
  <2>4. SameAt(b, Re[i], next, data, pos, tail, next', data', pos, tail)
    BY <1>7 DEF SameAt
  <2>5. Fits(table[i].size, Wr[i], Re[i], next', data', pos, tail, b)
    BY <2>3, <2>4, FitsKept
  <2> QED
    BY <2>2, <2>5
<1>9. Ended(Live, who, pos, tail, BeingFilled)' /\ Distinct(Live)'
  <2>1. Distinct(table')
    BY <1>4, <1>6 DEF Distinct
  <2>2. Ended(table', who, pos, tail, {})
    <3> SUFFICES ASSUME NEW k \in DOMAIN table'
                 PROVE  /\ table'[k].count = 0 => table'[k].size = 0
                        /\ \A b \in Blocks :
                             who[b] # 0 /\ who[b] = table'[k].orig /\ pos[b] = table'[k].count
                               => Len(tail[b]) <= Payload
      BY DEF Ended
    <3>1. pick[k] \in DOMAIN table \ {}
      BY <1>6
    <3> QED
      BY <1>4, <1>6, <3>1 DEF Ended
  <2> QED
    BY <1>2, <1>4, <2>1, <2>2
<1>10. AtText(tail)'
  BY <1>1, <1>2 DEF AtText
<1> QED
  BY <1>8, <1>9, <1>10 DEF Tells

\* A block gets its part of the text.
LEMMA WriteDataTells ==
  ASSUME DiskInv, DiskInv',
         NEW who \in [Blocks -> BlockOrNone], NEW pos \in [Blocks -> Nat],
         NEW tail \in [Blocks -> Seq(Chars)],
         ChainsAre(who, pos), Tells(who, pos, tail), WriteData
  PROVE  Tells(who, pos, tail)'
<1>1. /\ pc = "dataWrite" /\ pc' \in {"link", "nextBlock"}
      /\ UNCHANGED <<next, table>> /\ op'.name = op.name /\ op'.cur = op.cur
      /\ op'.nxt = 0
      /\ pc' = IF op'.rest = <<>> THEN "link" ELSE "nextBlock"
  BY DEF WriteData, memory, DiskInv, TypeInv, TypeOK, Operations
<1>2. /\ Filling /\ Filling' /\ Adding /\ Adding' /\ Live = table /\ Live' = table
      /\ Touched' = Touched /\ BeingFilled' = BeingFilled
  BY <1>1 DEF Filling, Adding, Live, Touched, IndexOf, BeingFilled
<1>3. PICK i \in DOMAIN table, c \in Blocks : i = Touched /\ c = op.cur
  BY <1>2, FillingAt
<1>4. /\ who[c] = table[i].orig /\ pos[c] = table[i].count + 1
      /\ Lo[i] = 1 /\ Re[i] = table[i].count + 1 /\ table[i].count \in Nat
  BY <1>2, <1>3, FillingAt
<1>5. /\ Written(table, next, data, who, pos, tail, Wr, Re)
      /\ Ended(table, who, pos, tail, BeingFilled) /\ Distinct(table) /\ AtText(tail)
  BY <1>2 DEF Tells
<1>6. PICK s \in Seq(Chars) : s = tail[c]
  OBVIOUS
<1>7. /\ op.rest = s
      /\ data' = [data EXCEPT ![c] = Text(SubSeq(s, 1, Lesser(Len(s), Payload)))]
      /\ op'.rest = SubSeq(s, Lesser(Len(s), Payload) + 1, Len(s))
  <2>1. op.rest = s
    BY <1>1, <1>3, <1>5, <1>6 DEF AtText
  <2>2. data' = [data EXCEPT ![c] = Text(SubSeq(s, 1, Lesser(Len(s), Payload)))]
    BY <1>3, <2>1 DEF WriteData, Lesser
  <2>3. op'.rest = SubSeq(s, Lesser(Len(s), Payload) + 1, Len(s))
    BY <1>3, <2>1 DEF WriteData, Lesser, DiskInv, TypeInv, TypeOK, Operations
  <2> QED
    BY <2>1, <2>2, <2>3
<1>8. /\ Wr[i] = table[i].count /\ Wr'[i] = table[i].count + 1
      /\ \A j \in DOMAIN table : j # i => Wr'[j] = Wr[j]
      /\ \A j \in DOMAIN table : Re'[j] = Re[j]
  <2>1. \A j \in DOMAIN table : Wr[j] = table[j].count
    BY <1>1, <1>2 DEF Wr
  <2>2. \A j \in DOMAIN table :
          Wr'[j] = IF j = i THEN table[j].count + 1 ELSE table[j].count
    BY <1>1, <1>2, <1>3 DEF Wr
  <2>3. \A j \in DOMAIN table : Re'[j] = Re[j]
    BY <1>1, <1>2 DEF Re
  <2> QED
    BY <2>1, <2>2, <2>3
<1>9. /\ data'[c] = Text(SubSeq(s, 1, Lesser(Len(s), Payload)))
      /\ \A b \in Blocks : b # c => data'[b] = data[b]
  BY <1>7 DEF DiskInv, TypeInv, TypeOK
<1>10. Written(Live, next, data, who, pos, tail, Wr, Re)'
  <2> SUFFICES ASSUME NEW b \in Blocks, NEW j \in DOMAIN table,
                      who[b] # 0, who[b] = table[j].orig
               PROVE  Fits(table[j].size, Wr'[j], Re'[j], next, data', pos, tail, b)
    BY <1>1, <1>2 DEF Written
  <2>1. Fits(table[j].size, Wr[j], Re[j], next, data, pos, tail, b)
    BY <1>5 DEF Written
  <2>2. CASE b = c
    <3>1. j = i
      BY <1>2, <1>4, <2>2, OrigsDiffer
    <3>2. /\ tail[b] # <<>> /\ Len(tail[b]) = table[j].size - (pos[b] - 1) * Payload
      BY <2>1 DEF Fits
    <3>3. ~(pos[b] < Re'[j])
      BY <1>4, <1>8, <2>2, <3>1
    <3>4. data'[b] = Text(SubSeq(tail[b], 1, Lesser(Len(tail[b]), Payload)))
      BY <1>6, <1>9, <2>2
    <3> QED
      BY <3>2, <3>3, <3>4 DEF Fits
  <2>3. CASE b # c
    <3>1. SameAt(b, Re[j], next, data, pos, tail, next, data', pos, tail)
      BY <1>9, <2>3 DEF SameAt
    <3>2. Fits(table[j].size, Wr[j], Re[j], next, data', pos, tail, b)
      BY <2>1, <3>1, FitsKept
    <3>3. pos[b] <= Wr'[j] => pos[b] <= Wr[j]
      <4>1. CASE j = i
        <5>1. pos[b] # pos[c]
          <6>1. who[b] = who[c]
            BY <1>4, <4>1
          <6> QED
            BY <2>3, <6>1, PlacesApart
        <5> QED
          BY <1>4, <1>8, <4>1, <5>1
      <4> QED
        BY <1>8, <4>1
    <3>4. Fits(table[j].size, Wr'[j], Re[j], next, data', pos, tail, b)
      BY <3>2, <3>3, FitsMoved
    <3> QED
      BY <1>8, <3>4
  <2> QED
    BY <2>2, <2>3
<1>11. Ended(Live, who, pos, tail, BeingFilled)' /\ Distinct(Live)'
  BY <1>2, <1>5
<1>12. AtText(tail)'
  <2>1. op'.rest = <<>> <=> Len(s) <= Payload
    <3>1. CASE Len(s) <= Payload
      BY <1>7, <3>1, Cut
    <3>2. CASE Len(s) > Payload
      <4>1. /\ Len(s) \in Nat /\ SubSeq(s, Payload + 1, Len(s)) \in Seq(Chars)
            /\ Len(SubSeq(s, Payload + 1, Len(s))) = Len(s) - Payload
            /\ Payload \in Nat
        BY <3>2, Cut, GeometryAssumption
      <4>2. Lesser(Len(s), Payload) = Payload /\ Len(s) - Payload # 0
        BY <3>2, <4>1 DEF Lesser
      <4>3. op'.rest # <<>>
        BY <1>7, <4>1, <4>2, EmptySeq
      <4> QED
        BY <3>2, <4>1, <4>3
    <3> QED
      BY <3>1, <3>2, Cut, GeometryAssumption
  <2>2. Len(s) > Payload => op'.rest = SubSeq(s, Payload + 1, Len(s))
    <3> SUFFICES ASSUME Len(s) > Payload
                 PROVE  op'.rest = SubSeq(s, Payload + 1, Len(s))
      OBVIOUS
    <3>1. Lesser(Len(s), Payload) = Payload
      BY Cut, GeometryAssumption DEF Lesser
    <3> QED
      BY <1>7, <3>1
  <2>3. Len(s) <= Payload \/ Len(s) > Payload
    BY Cut, GeometryAssumption
  <2>4. tail[op'.cur] = s
    BY <1>1, <1>3, <1>6
  <2>5. op'.name \in Names /\ tail[table'[Touched'].start] \in Texts
    BY <1>1, <1>2, <1>5 DEF AtText
  <2> QED
    BY <1>1, <1>2, <2>1, <2>2, <2>3, <2>4, <2>5 DEF AtText
<1> QED
  BY <1>10, <1>11, <1>12 DEF Tells

\* A block that was free is in no chain.
LEMMA FreeInNoChain ==
  ASSUME DiskInv, NEW who \in [Blocks -> BlockOrNone], NEW pos \in [Blocks -> Nat],
         ChainsAre(who, pos), NEW b \in Blocks, b \notin UsedBlocks
  PROVE  who[b] = 0
BY DEF ChainsAre, Owned

\* The first data block b of the figure at o, for the text s.
Starts(who, pos, tail, s, b, o, w, p, tl) ==
  IF s = <<>> THEN w = who /\ p = pos /\ tl = tail
  ELSE Gives(who, pos, b, o, 1, w, p) /\ tl = [tail EXCEPT ![b] = s]

LEMMA AllocFirstTells ==
  ASSUME DiskInv, DiskInv',
         NEW who \in [Blocks -> BlockOrNone], NEW pos \in [Blocks -> Nat],
         NEW tail \in [Blocks -> Seq(Chars)],
         ChainsAre(who, pos), Tells(who, pos, tail), AllocFirst,
         NEW w \in [Blocks -> BlockOrNone], NEW p \in [Blocks -> Nat],
         NEW tl \in [Blocks -> Seq(Chars)],
         NEW b \in Blocks, op'.cur = b,
         Starts(who, pos, tail, op.rest, b, table[Touched].orig, w, p, tl)
  PROVE  Tells(w, p, tl)'
<1>1. /\ pc = "firstBlock" /\ UNCHANGED <<data, next>>
      /\ pc' = IF op.rest = <<>> THEN "idle" ELSE "dataWrite"
  BY DEF AllocFirst
<1>2. Live = table /\ Live' = table' /\ ~Filling /\ ~Deleting /\ BeingFilled = {}
  BY <1>1 DEF Live, Filling, Deleting, BeingFilled
<1>3. PICK i \in DOMAIN table : i = Touched
  BY <1>1, TouchedFound DEF ChainsAre, AtPlace
<1>4. /\ TakeBlock(b) /\ op'.name = op.name /\ op'.rest = op.rest
      /\ DOMAIN table' = DOMAIN table /\ Touched' = i
      /\ table'[i].orig = table[i].orig /\ table'[i].name = table[i].name
      /\ table'[i].start = b /\ table'[i].count = 0 /\ table'[i].size = Len(op.rest)
      /\ \A j \in DOMAIN table : j # i => table'[j] = table[j]
  BY <1>3, InodeFilled
<1>5. table[i].count = 0
  BY <1>1, <1>3 DEF ChainsAre, AtPlace
<1>6. Lo[i] = 1 /\ Hi[i] = 0
  BY <1>1, <1>2, <1>5 DEF Lo, Hi, Re
<1>7. \A c \in Blocks : who[c] # table[i].orig
  <2> SUFFICES ASSUME NEW c \in Blocks, who[c] = table[i].orig PROVE FALSE
    OBVIOUS
  <2>1. pos[c] \in Lo[i]..Hi[i] /\ pos[c] \in Nat
    BY <1>2, OwnedBlock
  <2> QED
    BY <1>6, <2>1
<1>8. /\ Written(table, next, data, who, pos, tail, Wr, Re)
      /\ Ended(table, who, pos, tail, {}) /\ Distinct(table) /\ AtText(tail)
  BY <1>2 DEF Tells
<1>9. /\ \A j \in DOMAIN table : Wr[j] = table[j].count /\ Re[j] = table[j].count
      /\ \A j \in DOMAIN table : j # i => Wr'[j] = table[j].count /\ Re'[j] = table[j].count
      /\ Wr'[i] = 0 /\ (op.rest # <<>> => Re'[i] = 1)
  <2>1. \A j \in DOMAIN table : Wr[j] = table[j].count /\ Re[j] = table[j].count
    BY <1>1, <1>2 DEF Wr, Re
  <2>2. /\ \A j \in DOMAIN table : Wr'[j] = table'[j].count
        /\ \A j \in DOMAIN table : j # i => Re'[j] = table'[j].count
        /\ op.rest # <<>> => Re'[i] = table'[i].count + 1
    BY <1>1, <1>2, <1>4 DEF Wr, Re, Filling
  <2> QED
    BY <1>4, <2>1, <2>2
<1>10. /\ who[b] = 0
       /\ \A c \in Blocks, j \in DOMAIN table :
            who[c] = table[j].orig /\ pos[c] < Re[j] => next[c] # b
  <2>1. /\ who[b] = 0
        /\ \A c \in Blocks, j \in DOMAIN Live :
             who[c] = Live[j].orig /\ pos[c] < Re[j] => next[c] # b
    <3>1. b \notin UsedBlocks
      BY <1>4, TakenWasFree
    <3>2. who[b] = 0
      BY <3>1, FreeInNoChain
    <3>3. ASSUME NEW c \in Blocks, NEW j \in DOMAIN Live,
                 who[c] = Live[j].orig, pos[c] < Re[j]
          PROVE  next[c] # b
      BY <3>2, <3>3, FreeNotNext
    <3> QED
      BY <3>2, <3>3
  <2> QED
    BY <1>2, <2>1
<1>11. \A c \in Blocks : c # b => w[c] = who[c] /\ p[c] = pos[c] /\ tl[c] = tail[c]
  BY DEF Starts, Gives
<1>12. \A j \in DOMAIN table : table'[j].orig = table[j].orig /\ table'[j].name = table[j].name
  BY <1>4
<1>13. ASSUME NEW c \in Blocks, NEW j \in DOMAIN table, w[c] # 0, w[c] = table[j].orig
       PROVE  \/ c = b /\ j = i /\ op.rest # <<>> /\ p[c] = 1 /\ tl[c] = op.rest
              \/ c # b /\ j # i /\ who[c] = w[c] /\ p[c] = pos[c] /\ tl[c] = tail[c]
  <2>1. CASE c = b
    <3>1. op.rest # <<>>
      BY <1>10, <1>13, <2>1 DEF Starts
    <3>2. w[b] = table[i].orig /\ p[b] = 1 /\ tl[b] = op.rest
      BY <1>3, <3>1 DEF Starts, Gives
    <3>3. j = i
      BY <1>2, <1>13, <2>1, <3>2, OrigsDiffer
    <3> QED
      BY <2>1, <3>1, <3>2, <3>3
  <2>2. CASE c # b
    BY <1>7, <1>11, <1>13, <2>2
  <2> QED
    BY <2>1, <2>2
<1>14. Written(Live, next, data, w, p, tl, Wr, Re)'
  <2> SUFFICES ASSUME NEW c \in Blocks, NEW j \in DOMAIN table,
                      w[c] # 0, w[c] = table[j].orig
               PROVE  Fits(table'[j].size, Wr'[j], Re'[j], next, data, p, tl, c)
    BY <1>1, <1>2, <1>4, <1>12 DEF Written
  <2>1. CASE c = b
    <3>1. j = i /\ op.rest # <<>> /\ p[c] = 1 /\ tl[c] = op.rest
      BY <1>13, <2>1
    <3>2. Len(op.rest) \in Nat /\ Payload \in Nat
      BY LenProperties, GeometryAssumption DEF DiskInv, TypeInv, TypeOK, Operations
    <3>3. Len(op.rest) - (1 - 1) * Payload = Len(op.rest)
      <4>1. \A m, n \in Nat : m - (1 - 1) * n = m
        OBVIOUS
      <4> QED
        BY <3>2, <4>1
    <3>4. ~(1 <= 0) /\ ~(1 < 1)
      OBVIOUS
    <3> QED
      BY <1>4, <1>9, <3>1, <3>3, <3>4 DEF Fits
  <2>2. CASE c # b
    <3>1. j # i /\ who[c] = w[c] /\ p[c] = pos[c] /\ tl[c] = tail[c]
      BY <1>13, <2>2
    <3>2. Fits(table[j].size, Wr[j], Re[j], next, data, pos, tail, c)
      BY <1>8, <3>1 DEF Written
    <3>3. pos[c] < Re[j] => next[c] \in Blocks /\ next[c] # b
      <4>1. j \in DOMAIN Live /\ who[c] = Live[j].orig
        BY <1>2, <3>1
      <4>2. pos[c] < Re[j] => next[c] \in Blocks
        BY <4>1, OwnedBlock
      <4> QED
        BY <1>10, <3>1, <4>2
    <3>4. SameAt(c, Re[j], next, data, pos, tail, next, data, p, tl)
      BY <1>11, <3>1, <3>3 DEF SameAt
    <3>5. Fits(table[j].size, Wr[j], Re[j], next, data, p, tl, c)
      BY <3>2, <3>4, FitsKept
    <3> QED
      BY <1>4, <1>9, <3>1, <3>5
  <2> QED
    BY <2>1, <2>2
<1>15. Ended(Live, w, p, tl, BeingFilled)'
  <2>1. op.rest # <<>> => BeingFilled' = {i}
    BY <1>1, <1>4 DEF BeingFilled, Filling
  <2>2. \A j \in DOMAIN table \ BeingFilled' : table'[j].count = 0 => table'[j].size = 0
    <3>1. \A j \in DOMAIN table : j # i => (table'[j].count = 0 => table'[j].size = 0)
      BY <1>4, <1>8 DEF Ended
    <3>2. op.rest = <<>> => table'[i].size = 0
      BY <1>4, EmptySeq
    <3> QED
      BY <2>1, <3>1, <3>2
  <2>3. ASSUME NEW j \in DOMAIN table \ BeingFilled', NEW c \in Blocks,
               w[c] # 0, w[c] = table'[j].orig, p[c] = table'[j].count
        PROVE  Len(tl[c]) <= Payload
    <3>1. j # i /\ who[c] = w[c] /\ p[c] = pos[c] /\ tl[c] = tail[c]
      BY <1>12, <1>13, <2>1, <2>3
    <3> QED
      BY <1>4, <1>8, <2>3, <3>1 DEF Ended
  <2> QED
    BY <1>2, <1>4, <2>2, <2>3 DEF Ended
<1>16. Distinct(Live)'
  BY <1>2, <1>4, <1>8, <1>12 DEF Distinct
<1>17. AtText(tl)'
  <2>1. op.name \in Names /\ op.rest \in Texts
    BY <1>1, <1>8 DEF AtText, Adding
  <2>2. CASE op.rest = <<>>
    BY <1>1, <2>2 DEF AtText, Adding, Filling
  <2>3. CASE op.rest # <<>>
    <3>1. tl[b] = op.rest
      BY <2>3 DEF Starts
    <3>2. pc' = "dataWrite" /\ table'[Touched'].start = b
      BY <1>1, <1>4, <2>3
    <3> QED
      BY <1>4, <2>1, <3>1, <3>2 DEF AtText
  <2> QED
    BY <2>2, <2>3
<1> QED
  BY <1>14, <1>15, <1>16, <1>17 DEF Tells

\* From block b on, the text is s.
Goes(tail, b, s, tl) == tl = [tail EXCEPT ![b] = s]

\* A further data block.
LEMMA AllocNextTells ==
  ASSUME DiskInv, DiskInv',
         NEW who \in [Blocks -> BlockOrNone], NEW pos \in [Blocks -> Nat],
         NEW tail \in [Blocks -> Seq(Chars)],
         ChainsAre(who, pos), Tells(who, pos, tail), AllocNext,
         NEW w \in [Blocks -> BlockOrNone], NEW p \in [Blocks -> Nat],
         NEW tl \in [Blocks -> Seq(Chars)],
         NEW b \in Blocks, op'.nxt = b,
         Gives(who, pos, b, table[Touched].orig, table[Touched].count + 2, w, p),
         Goes(tail, b, op.rest, tl)
  PROVE  Tells(w, p, tl)'
<1>1. /\ pc = "nextBlock" /\ pc' = "link" /\ UNCHANGED <<data, next, table>>
      /\ TakeBlock(b) /\ op'.nxt = b /\ op'.cur = op.cur
      /\ op'.name = op.name /\ op'.rest = op.rest
  BY DEF AllocNext, DiskInv, TypeInv, TypeOK, Operations
<1>2. /\ Live = table /\ Live' = table /\ Touched' = Touched /\ Filling /\ Filling'
      /\ BeingFilled' = BeingFilled /\ BeingFilled = {Touched} /\ Wr' = Wr /\ Re' = Re
      /\ Adding /\ Adding'
  <2>1. /\ Live = table /\ Live' = table /\ Touched' = Touched /\ Filling /\ Filling'
        /\ Adding /\ Adding'
    BY <1>1 DEF Live, Touched, IndexOf, Filling, Adding
  <2>2. Wr' = Wr /\ Re' = Re
    BY <1>1, <2>1 DEF Wr, Re
  <2> QED
    BY <2>1, <2>2 DEF BeingFilled
<1>3. PICK i \in DOMAIN table, c \in Blocks : i = Touched /\ c = op.cur
  BY <1>2, FillingAt
<1>4. /\ who[c] = table[i].orig /\ pos[c] = table[i].count + 1
      /\ table[i].count \in Nat
      /\ table[i].start \in Blocks /\ who[table[i].start] = table[i].orig
  BY <1>2, <1>3, FillingAt
<1>5. /\ Written(table, next, data, who, pos, tail, Wr, Re)
      /\ Ended(table, who, pos, tail, {i}) /\ Distinct(table) /\ AtText(tail)
  BY <1>2, <1>3 DEF Tells
<1>6. PICK s \in Seq(Chars) : s = tail[c]
  OBVIOUS
<1>7. /\ op.rest = SubSeq(s, Payload + 1, Len(s)) /\ Len(s) > Payload
  BY <1>1, <1>3, <1>5, <1>6 DEF AtText
<1>8. who[b] = 0
  BY <1>1, TakenWasFree, FreeInNoChain
<1>9. table[i].orig # 0
  BY <1>2, OrigsDiffer
<1>10. /\ w[b] = table[i].orig /\ p[b] = table[i].count + 2 /\ tl[b] = op.rest
       /\ \A x \in Blocks : x # b => w[x] = who[x] /\ p[x] = pos[x] /\ tl[x] = tail[x]
  BY <1>3 DEF Gives, Goes
<1>11. Wr[i] = table[i].count + 1 /\ Re[i] = table[i].count + 1
  BY <1>1, <1>2, <1>3 DEF Wr, Re
<1>12. Written(Live, next, data, w, p, tl, Wr, Re)'
  <2> SUFFICES ASSUME NEW x \in Blocks, NEW j \in DOMAIN table,
                      w[x] # 0, w[x] = table[j].orig
               PROVE  Fits(table[j].size, Wr[j], Re[j], next, data, p, tl, x)
    BY <1>1, <1>2 DEF Written
  <2>1. CASE x = b
    <3>1. j = i
      BY <1>2, <1>10, <2>1, OrigsDiffer
    <3>2. Fits(table[i].size, Wr[i], Re[i], next, data, pos, tail, c)
      BY <1>4, <1>5, <1>9 DEF Written
    <3>3. Len(s) = table[i].size - (pos[c] - 1) * Payload
      BY <1>6, <3>2 DEF Fits
    <3>4. PICK size \in Nat, k \in Nat : size = table[i].size /\ k = table[i].count
      BY <1>2, <1>3, <1>4, FillingAt, SizeTyped
    <3>5. /\ Len(op.rest) = Len(s) - Payload /\ Len(s) \in Nat /\ Payload \in Nat
          /\ op.rest \in Seq(Chars)
      BY <1>7, Cut, GeometryAssumption
    <3>6. Len(op.rest) = size - (k + 2 - 1) * Payload
      <4>1. \A l, m, n, z \in Int :
              l = m - (n + 1 - 1) * z => l - z = m - (n + 2 - 1) * z
        OBVIOUS
      <4>2. Len(s) = size - (k + 1 - 1) * Payload
        <5>1. pos[c] = k + 1
          BY Zenon, <1>4, <3>4
        <5>2. pos[c] - 1 = k + 1 - 1
          BY <5>1
        <5> QED
          BY Zenon, <3>3, <3>4, <5>2
      <4>3. Len(s) \in Int /\ size \in Int /\ k \in Int /\ Payload \in Int
        BY <3>5
      <4>4. Len(s) - Payload = size - (k + 2 - 1) * Payload
        BY <4>1, <4>2, <4>3
      <4> QED
        BY <3>5, <4>4
    <3>7. op.rest # <<>>
      <4>1. Len(op.rest) # 0
        BY <1>7, <3>5
      <4> QED
        BY <3>5, <4>1, EmptySeq
    <3>8. Len(tl[b]) = table[j].size - (p[b] - 1) * Payload
      <4>1. tl[b] = op.rest /\ p[b] = k + 2 /\ table[j].size = size
        BY <1>10, <3>1, <3>4
      <4>2. p[b] - 1 = k + 2 - 1
        BY <4>1
      <4>3. Len(tl[b]) = Len(op.rest)
        BY Zenon, <4>1
      <4> QED
        BY Zenon, <3>6, <4>1, <4>2, <4>3
    <3>9. ~(p[b] <= Wr[j]) /\ ~(p[b] < Re[j])
      <4>1. p[b] = k + 2 /\ Wr[j] = k + 1 /\ Re[j] = k + 1
        BY <1>10, <1>11, <3>1, <3>4
      <4> QED
        BY <4>1
    <3> QED
      BY <1>10, <2>1, <3>7, <3>8, <3>9 DEF Fits
  <2>2. CASE x # b
    <3>1. who[x] = w[x] /\ p[x] = pos[x] /\ tl[x] = tail[x]
      BY <1>10, <2>2
    <3>2. Fits(table[j].size, Wr[j], Re[j], next, data, pos, tail, x)
      BY <1>5, <3>1 DEF Written
    <3>3. j \in DOMAIN Live /\ who[x] = Live[j].orig
      BY <1>2, <3>1
    <3>4. pos[x] < Re[j] => next[x] \in Blocks /\ who[next[x]] = who[x]
      BY <3>3, OwnedBlock
    <3>5. pos[x] < Re[j] => tl[next[x]] = tail[next[x]]
      BY <1>8, <1>10, <3>1, <3>4
    <3>6. SameAt(x, Re[j], next, data, pos, tail, next, data, p, tl)
      BY <3>1, <3>5 DEF SameAt
    <3> QED
      BY <3>2, <3>6, FitsKept
  <2> QED
    BY <2>1, <2>2
<1>13. Ended(Live, w, p, tl, BeingFilled)'
  <2>1. Ended(table, w, p, tl, {i})
    <3> SUFFICES ASSUME NEW j \in DOMAIN table \ {i}
                 PROVE  /\ table[j].count = 0 => table[j].size = 0
                        /\ \A x \in Blocks :
                             w[x] # 0 /\ w[x] = table[j].orig /\ p[x] = table[j].count
                               => Len(tl[x]) <= Payload
      BY DEF Ended
    <3>1. table[j].orig # table[i].orig
      BY <1>2, OrigsDiffer
    <3>2. \A x \in Blocks : w[x] = table[j].orig =>
            who[x] = w[x] /\ pos[x] = p[x] /\ tail[x] = tl[x]
      BY <1>10, <3>1
    <3>3. /\ table[j].count = 0 => table[j].size = 0
          /\ \A x \in Blocks :
               who[x] # 0 /\ who[x] = table[j].orig /\ pos[x] = table[j].count
                 => Len(tail[x]) <= Payload
      BY <1>5 DEF Ended
    <3> QED
      BY <3>2, <3>3
  <2> QED
    BY <1>2, <1>3, <2>1
<1>14. AtText(tl)'
  <2>1. tl[op'.cur] = s /\ tl[table[i].start] = tail[table[i].start]
    BY <1>1, <1>3, <1>4, <1>6, <1>8, <1>9, <1>10
  <2>2. tail[table[i].start] \in Texts /\ op.name \in Names
    BY <1>2, <1>3, <1>5 DEF AtText
  <2>3. op'.nxt # 0
    BY <1>1, BlockTyped
  <2> QED
    BY <1>1, <1>2, <1>3, <1>7, <1>10, <2>1, <2>2, <2>3 DEF AtText
<1> QED
  BY <1>2, <1>5, <1>12, <1>13, <1>14 DEF Tells

\* A block is linked to the one after it, or ends the text.
LEMMA LinkTells ==
  ASSUME DiskInv, DiskInv',
         NEW who \in [Blocks -> BlockOrNone], NEW pos \in [Blocks -> Nat],
         NEW tail \in [Blocks -> Seq(Chars)],
         ChainsAre(who, pos), Tells(who, pos, tail), Link
  PROVE  Tells(who, pos, tail)'
<1>1. /\ pc = "link" /\ data' = data /\ next' = [next EXCEPT ![op.cur] = op.nxt]
      /\ op'.name = op.name /\ op'.rest = op.rest /\ op'.cur = op.nxt
      /\ pc' = IF op.rest = <<>> THEN "idle" ELSE "dataWrite"
  BY DEF Link, DiskInv, TypeInv, TypeOK, Operations
<1>2. Live = table /\ Live' = table' /\ Filling /\ Adding
  BY <1>1 DEF Live, Filling, Adding
<1>3. PICK i \in DOMAIN table, c \in Blocks : i = Touched /\ c = op.cur
  BY <1>2, FillingAt
<1>4. /\ who[c] = table[i].orig /\ pos[c] = table[i].count + 1
      /\ table[i].count \in Nat /\ table[i].orig # 0
  BY <1>2, <1>3, FillingAt, OrigsDiffer
<1>5. /\ DOMAIN table' = DOMAIN table /\ Touched' = i
      /\ table'[i].orig = table[i].orig /\ table'[i].name = table[i].name
      /\ table'[i].start = table[i].start /\ table'[i].size = table[i].size
      /\ table'[i].count = table[i].count + 1
      /\ \A j \in DOMAIN table : j # i => table'[j] = table[j]
  BY <1>3, InodeCounted
<1>6. /\ Written(table, next, data, who, pos, tail, Wr, Re)
      /\ Ended(table, who, pos, tail, {i}) /\ Distinct(table) /\ AtText(tail)
  BY <1>2, <1>3 DEF Tells, BeingFilled
<1>7. op.nxt = 0 <=> op.rest = <<>>
  BY <1>1 DEF ChainsAre, AtPlace
<1>8. /\ \A j \in DOMAIN table : j # i => Wr'[j] = Wr[j] /\ Re'[j] = Re[j]
      /\ Wr'[i] = Wr[i] /\ Re[i] = table[i].count + 1
      /\ Re'[i] = IF op.nxt = 0 THEN Re[i] ELSE Re[i] + 1
  <2>1. /\ \A j \in DOMAIN table : j # i => Wr[j] = table[j].count /\ Re[j] = table[j].count
        /\ Wr[i] = table[i].count + 1 /\ Re[i] = table[i].count + 1
    BY <1>1, <1>2, <1>3 DEF Wr, Re
  <2>2. /\ \A j \in DOMAIN table : Wr'[j] = table'[j].count
        /\ \A j \in DOMAIN table : j # i => Re'[j] = table'[j].count
    BY <1>1, <1>2, <1>5 DEF Wr, Re
  <2>3. Re'[i] = IF op.nxt = 0 THEN table'[i].count ELSE table'[i].count + 1
    BY <1>1, <1>2, <1>5, <1>7 DEF Re, Filling
  <2>4. ASSUME NEW j \in DOMAIN table, j # i PROVE Wr'[j] = Wr[j] /\ Re'[j] = Re[j]
    BY <1>5, <2>1, <2>2, <2>4
  <2>5. Wr'[i] = Wr[i]
    BY <1>5, <2>1, <2>2
  <2> QED
    BY <1>5, <2>1, <2>3, <2>4, <2>5
<1>9. \A j \in DOMAIN table : /\ table'[j].orig = table[j].orig
                              /\ table'[j].name = table[j].name
                              /\ table'[j].size = table[j].size
  BY <1>5
<1>10. next'[c] = op.nxt /\ \A b \in Blocks : b # c => next'[b] = next[b]
  BY <1>1, <1>3 DEF DiskInv, TypeInv, TypeOK
<1>11. Written(Live, next, data, who, pos, tail, Wr, Re)'
  <2> SUFFICES ASSUME NEW b \in Blocks, NEW j \in DOMAIN table,
                      who[b] # 0, who[b] = table[j].orig
               PROVE  Fits(table[j].size, Wr'[j], Re'[j], next', data, pos, tail, b)
    BY <1>1, <1>2, <1>5, <1>9 DEF Written
  <2>1. Fits(table[j].size, Wr[j], Re[j], next, data, pos, tail, b)
    BY <1>6 DEF Written
  <2>2. CASE b = c
    <3>1. j = i
      BY <1>2, <1>4, <2>2, OrigsDiffer
    <3>2. Wr'[j] = Wr[j]
      BY <1>8, <3>1
    <3>3. pos[b] < Re'[j] => op.nxt # 0
      BY <1>4, <1>8, <2>2, <3>1
    <3>4. op.nxt # 0 => /\ Len(tail[b]) > Payload
                        /\ tail[next'[b]] = SubSeq(tail[b], Payload + 1, Len(tail[b]))
      BY <1>1, <1>3, <1>6, <1>10, <2>2 DEF AtText
    <3> QED
      BY <2>1, <3>2, <3>3, <3>4 DEF Fits
  <2>3. CASE b # c
    <3>1. SameAt(b, Re[j], next, data, pos, tail, next', data, pos, tail)
      BY <1>10, <2>3 DEF SameAt
    <3>2. Fits(table[j].size, Wr[j], Re[j], next', data, pos, tail, b)
      BY <2>1, <3>1, FitsKept
    <3>3. Wr'[j] = Wr[j]
      BY <1>8
    <3>4. pos[b] < Re'[j] => pos[b] < Re[j]
      <4>1. CASE j = i
        <5>1. who[b] = who[c]
          BY <1>4, <4>1
        <5>2. pos[b] # pos[c]
          BY <2>3, <5>1, PlacesApart
        <5> QED
          BY <1>4, <1>8, <4>1, <5>2
      <4> QED
        BY <1>8, <4>1
    <3>5. Fits(table[j].size, Wr'[j], Re'[j], next', data, pos, tail, b)
      BY <3>2, <3>3, <3>4, FitsMoved
    <3> QED
      BY <3>5
  <2> QED
    BY <2>2, <2>3
<1>12. Ended(Live, who, pos, tail, BeingFilled)'
  <2>1. BeingFilled' = IF op.nxt = 0 THEN {} ELSE {i}
    BY <1>1, <1>5, <1>7 DEF BeingFilled, Filling
  <2> SUFFICES ASSUME NEW j \in DOMAIN table \ BeingFilled'
               PROVE  /\ table'[j].count = 0 => table'[j].size = 0
                      /\ \A b \in Blocks :
                           who[b] # 0 /\ who[b] = table'[j].orig /\ pos[b] = table'[j].count
                             => Len(tail[b]) <= Payload
    BY <1>2, <1>5 DEF Ended
  <2>2. CASE j # i
    BY <1>5, <1>6, <2>2 DEF Ended
  <2>3. CASE j = i
    <3>1. Len(tail[c]) <= Payload
      BY <1>1, <1>3, <1>6, <2>1, <2>3 DEF AtText
    <3>2. table'[j].count # 0 /\ table'[j].count = pos[c] /\ table'[j].orig = who[c]
      BY <1>4, <1>5, <2>3
    <3> QED
      <4>1. table'[j].count = 0 => table'[j].size = 0
        BY <3>2
      <4>2. \A b \in Blocks : who[b] # 0 /\ who[b] = who[c] /\ pos[b] = pos[c] => b = c
        BY PlacesApart
      <4> QED
        BY <3>1, <3>2, <4>1, <4>2
  <2> QED
    BY <2>2, <2>3
<1>13. Distinct(Live)'
  BY <1>2, <1>5, <1>6, <1>9 DEF Distinct
<1>14. AtText(tail)'
  <2>1. CASE op.nxt = 0
    BY <1>1, <1>7, <2>1 DEF AtText, Adding, Filling
  <2>2. CASE op.nxt # 0
    <3>1. pc' = "dataWrite"
      BY <1>1, <1>7, <2>2
    <3>2. tail[table[i].start] \in Texts /\ op.name \in Names /\ tail[op.nxt] = op.rest
      BY <1>1, <1>2, <1>3, <1>6, <2>2 DEF AtText
    <3> QED
      BY <1>1, <1>5, <3>1, <3>2 DEF AtText
  <2> QED
    BY <2>1, <2>2
<1> QED
  BY <1>11, <1>12, <1>13, <1>14 DEF Tells

-----------------------------------------------------------------------------
(* What the constructor would find.                                        *)

\* The header leads to the inodes that were saved while they are read, too.
LoadLeads == pc = "loading" => HeaderLeadsTo(saved)

LEMMA NextLeads ==
  ASSUME RestartInv, RestartInv', LoadLeads, [Next]_vars
  PROVE  LoadLeads'
<1>1. CASE pc' = "loading"
  <2>1. CASE UNCHANGED vars
    BY <2>1 DEF vars, LoadLeads, HeaderLeadsTo
  <2>2. CASE Open
    BY <2>2 DEF Open, disk, history, LoadLeads, HeaderLeadsTo, RestartInv, OnDiskAsSaved
  <2>3. CASE LoadInode
    BY <2>3 DEF LoadInode, disk, history, LoadLeads, HeaderLeadsTo
  <2>4. CASE Save
    <3>1. pc' # "loading"
      BY <2>4, SaveLive
    <3> QED
      BY <1>1, <3>1
  <2>5. CASE ExtendDisk
    BY <1>1, <2>5 DEF ExtendDisk
  <2>6. CASE Make
    BY <1>1, <2>6
       DEF Make, AllocInode, WriteInode, AllocFirst, WriteData, AllocNext, Link
  <2>7. CASE Delete
    BY <1>1, <2>7 DEF Delete, ClearData, ClearInode
  <2>8. CASE \E n \in Names : DeleteFile(n) \/ \E t \in Texts : MakeFile(n, t)
    BY <1>1, <2>8 DEF DeleteFile, MakeFile
  <2> QED
    BY <2>1, <2>2, <2>3, <2>4, <2>5, <2>6, <2>7, <2>8 DEF Next, Load
<1> QED
  BY <1>1 DEF LoadLeads

\* Each block of the disk holds at most one inode.
LEMMA InodesFit ==
  ASSUME DiskInv, NEW m \in Nat, DOMAIN Live = 1..m
  PROVE  m <= MaxBlock
<1> DEFINE g == [p \in 1..m |-> Live[p].orig]
<1>1. g \in [1..m -> Blocks]
  BY OrigsAreBlocks
<1>2. \A p, q \in 1..m : g[p] = g[q] => p = q
  BY OrigsDiffer
<1> HIDE DEF g
<1> QED
  BY <1>1, <1>2, BlocksFit

\* Before the constructor runs, and while it does, disk.bin holds the inodes
\* of the last destructor.
LEMMA DiskTableSaved ==
  ASSUME RestartInv, LoadLeads, pc \in {"closed", "loading"}
  PROVE  DiskTable = saved
<1> DiskInv
  BY DEF RestartInv
<1>1. HeaderLeadsTo(saved) /\ \A i \in DOMAIN saved : data[saved[i].orig] = saved[i]
  BY DEF RestartInv, OnDiskAsSaved, LoadLeads
<1>2. Live = saved
  BY DEF Live
<1>3. PICK t \in Seq(Inodes), m \in Nat : t = saved /\ m = Len(t) /\ DOMAIN t = 1..m
  BY LenProperties DEF DiskInv, TypeInv, TypeOK
<1>4. m <= MaxBlock /\ MaxBlock \in Nat
  BY <1>2, <1>3, InodesFit, GeometryAssumption
<1>5. \A i \in 1..m : /\ t[i] \in Inodes /\ data[t[i].orig] = t[i]
                      /\ t[i].orig \in Blocks /\ t[i].orig # 0
                      /\ t[i].next = IF i = m THEN 0 ELSE t[i + 1].orig
  <2>1. \A i \in 1..m : t[i] \in Inodes /\ data[t[i].orig] = t[i]
    BY <1>1, <1>3, ElementOfSeq
  <2>2. \A i \in 1..m : t[i].orig \in Blocks /\ t[i].orig # 0
    BY <1>2, <1>3, OrigsAreBlocks
  <2>3. \A i \in 1..m : t[i].next = IF i = m THEN 0 ELSE t[i + 1].orig
    BY <1>2, <1>3 DEF DiskInv, Linked, Chained
  <2> QED
    BY <2>1, <2>2, <2>3
<1>6. PICK f : /\ \A k \in 0..MaxBlock, b \in BlockOrNone :
                    f[k][b] = Loaded(k, b, f[k + 1][InodeAt(b).next])
               /\ DiskTable = IF header.init # 0 /\ header.count > 0 THEN f[0][header.first]
                              ELSE <<>>
  BY DiskTableIs DEF DiskInv
<1>7. ASSUME NEW k \in 0..MaxBlock PROVE f[k][0] = <<>>
  BY <1>6, BlockTyped DEF Loaded
<1> DEFINE Node(k) == IF k = m THEN 0 ELSE t[k + 1].orig
           T == {k \in 0..m : f[k][Node(k)] = SubSeq(t, k + 1, m)}
<1>8. m \in T
  <2>1. SubSeq(t, m + 1, m) = <<>>
    BY SubSeqEmpty
  <2>2. m \in 0..MaxBlock /\ m \in 0..m
    BY <1>4
  <2>3. Node(m) = 0 /\ f[m][0] = <<>>
    BY <1>7, <2>2
  <2>4. f[m][Node(m)] = SubSeq(t, m + 1, m)
    BY <2>1, <2>3
  <2> QED
    BY <2>2, <2>4
<1>9. ASSUME NEW k \in 0..(m - 1), k + 1 \in T PROVE k \in T
  <2>1. /\ k \in 0..MaxBlock /\ k # MaxBlock /\ k # m /\ k + 1 \in 1..m
        /\ k \in 0..m /\ k \in Nat
    BY <1>4
  <2>2. PICK b \in Blocks : b = t[k + 1].orig /\ b # 0
    BY <1>5, <2>1
  <2>3. data[b] = t[k + 1] /\ data[b].kind = "inode" /\ InodeAt(b) = t[k + 1]
    <3>1. data[b] = t[k + 1] /\ t[k + 1] \in Inodes
      BY <1>5, <2>1, <2>2
    <3> QED
      BY <3>1, FieldsTyped DEF InodeAt
  <2>4. b \in BlockOrNone
    BY BlockTyped
  <2>5. f[k][b] = <<t[k + 1]>> \o f[k + 1][t[k + 1].next]
    <3>1. f[k][b] = Loaded(k, b, f[k + 1][InodeAt(b).next])
      BY <1>6, <2>1, <2>4
    <3> QED
      BY <2>1, <2>2, <2>3, <3>1 DEF Loaded
  <2>6. t[k + 1].next = Node(k + 1)
    BY <1>5, <2>1
  <2>7. f[k + 1][Node(k + 1)] = SubSeq(t, (k + 1) + 1, m)
    BY <1>9
  <2>8. SubSeq(t, k + 1, m) = <<t[k + 1]>> \o SubSeq(t, (k + 1) + 1, m)
    <3>1. k + 1 \in 1..Len(t) /\ m \in (k + 1)..Len(t)
      BY <1>3, <2>1
    <3> QED
      BY <3>1, SubSeqRecursiveFirst
  <2>9. Node(k) = b
    BY <2>1, <2>2
  <2> HIDE DEF Node
  <2>10. f[k][Node(k)] = SubSeq(t, k + 1, m)
    BY <2>5, <2>6, <2>7, <2>8, <2>9
  <2> QED
    BY <2>1, <2>10
<1>10. f[0][Node(0)] = t
  <2>1. 0 \in T
    <3> HIDE DEF T
    <3> QED
      BY <1>8, <1>9, Descent
  <2>2. SubSeq(t, 0 + 1, m) = t
    BY <1>3, SubSeqFull
  <2> HIDE DEF Node
  <2> QED
    BY <2>1, <2>2
<1>11. CASE m = 0
  <2>1. t = <<>>
    BY <1>3, <1>11, EmptySeq
  <2>2. header.first = 0
    BY <1>1, <1>3, <2>1 DEF HeaderLeadsTo
  <2> QED
    BY <1>3, <1>6, <1>10, <1>11, <2>1, <2>2
<1>12. CASE m # 0
  <2>1. t # <<>>
    BY <1>3, <1>12, EmptySeq
  <2>2. header.init # 0 /\ header.count > 0 /\ header.first = Node(0)
    BY <1>1, <1>3, <1>12, <2>1 DEF HeaderLeadsTo
  <2> HIDE DEF Node
  <2> QED
    BY <1>3, <1>6, <1>10, <2>2
<1> QED
  BY <1>11, <1>12

\* The users see the inodes that matter.
LEMMA VisibleIsLive ==
  ASSUME RestartInv, LoadLeads
  PROVE  Visible = Live
<1> DiskInv
  BY DEF RestartInv
<1>1. CASE Running
  BY <1>1 DEF Visible, Live, Running
<1>2. CASE ~Running
  <2>1. pc \in {"closed", "loading"}
    BY <1>2 DEF Running, RestartInv, OnDiskAsSaved
  <2> QED
    BY <1>2, <2>1, DiskTableSaved DEF Visible, Live
<1> QED
  BY <1>1, <1>2

-----------------------------------------------------------------------------
(* The figures that the users see.                                         *)

\* The text of an inode whose chain is whole.
TextOf(inode, tail) == IF inode.count = 0 THEN <<>> ELSE tail[inode.start]

Named(t) == {t[i].name : i \in DOMAIN t}

\* The figures of table t, those with a name in h excepted.
Figs(t, h, tail) == [n \in Named(t) \ h |-> TextOf(t[IndexIn(t, n)], tail)]

\* The figure that is not complete.
Hidden == IF Adding \/ Deleting THEN {op.name} ELSE {}

\* Figures F without that of name n, and with text s under name n.
Less(F, n) == [m \in DOMAIN F \ {n} |-> F[m]]
More(F, n, s) == [m \in DOMAIN F \cup {n} |-> IF m = n THEN s ELSE F[m]]

Figures == [n \in StoredNames |-> Stored(Visible[IndexIn(Visible, n)])]

\* A name leads to the one inode that has it.
LEMMA NameLeads ==
  ASSUME NEW t \in Seq(Inodes), Distinct(t), NEW i \in DOMAIN t
  PROVE  IndexIn(t, t[i].name) = i
<1>1. DOMAIN t = 1..Len(t) /\ Len(t) \in Nat
  BY LenProperties
<1>2. PICK n : n = t[i].name
  OBVIOUS
<1>3. IndexIn(t, n) # 0
  BY <1>2, IndexLeast
<1>4. IndexIn(t, n) \in DOMAIN t /\ t[IndexIn(t, n)].name = n
  BY <1>3, IndexFound
<1>5. IndexIn(t, n) = i
  BY <1>2, <1>4 DEF Distinct
<1> QED
  BY <1>2, <1>5

LEMMA NamesLead ==
  ASSUME NEW t \in Seq(Inodes), NEW n \in Named(t)
  PROVE  IndexIn(t, n) # 0 /\ IndexIn(t, n) \in DOMAIN t /\ t[IndexIn(t, n)].name = n
<1>1. PICK i \in DOMAIN t : t[i].name = n
  BY DEF Named
<1>2. IndexIn(t, n) # 0
  BY <1>1, IndexLeast
<1> QED
  BY <1>2, IndexFound

\* The chain of a figure that no operation changes is whole.
LEMMA WholeUntouched ==
  ASSUME DiskInv, NEW who \in [Blocks -> BlockOrNone], NEW pos \in [Blocks -> Nat],
         ChainsAre(who, pos), NEW i \in DOMAIN Live,
         Filling \/ Deleting => i # Touched
  PROVE  /\ Chain(who, pos, next, Live[i].orig, Live[i].start, Live[i].count)
         /\ Wr[i] = Live[i].count /\ Re[i] = Live[i].count
<1>1. /\ Lo[i] = 1 /\ Hi[i] = Live[i].count /\ Re[i] = Live[i].count
      /\ Wr[i] = Live[i].count
  BY DEF Lo, Hi, Re, Wr, Filling
<1> DEFINE t == Live
           U == UsedBlocks
           lo == Lo
           hi == Hi
           re == Re
<1>2. Owned(t, U, next, who, pos, lo, hi, re)
  BY DEF ChainsAre
<1>3. /\ \A j, k \in DOMAIN t : t[j].orig = t[k].orig => j = k
      /\ t[i].orig # 0
  BY OrigsDiffer
<1>4. PICK n \in Nat : n = t[i].count
  BY LiveTyped, FieldsTyped DEF DiskInv
<1>5. i \in DOMAIN t /\ lo[i] = 1 /\ hi[i] = n /\ re[i] = n
  BY <1>1, <1>4
<1> HIDE DEF t, U, lo, hi, re
<1>6. Chain(who, pos, next, t[i].orig, t[i].start, n)
  BY <1>2, <1>3, <1>5, WholeChain
<1> QED
  BY <1>1, <1>4, <1>6 DEF t

\* rd_file returns the text of such a figure.
LEMMA ReadsText ==
  ASSUME DiskInv, NEW who \in [Blocks -> BlockOrNone], NEW pos \in [Blocks -> Nat],
         NEW tail \in [Blocks -> Seq(Chars)], ChainsAre(who, pos), Tells(who, pos, tail),
         NEW i \in DOMAIN Live, Filling \/ Deleting => i # Touched
  PROVE  Stored(Live[i]) = TextOf(Live[i], tail)
<1>1. /\ Chain(who, pos, next, Live[i].orig, Live[i].start, Live[i].count)
      /\ Wr[i] = Live[i].count /\ Re[i] = Live[i].count
  BY WholeUntouched
<1>2. PICK inode \in Inodes : inode = Live[i]
  BY LiveTyped DEF DiskInv
<1>3. Chain(who, pos, next, inode.orig, inode.start, inode.count)
  BY <1>1, <1>2
<1>4. i \in DOMAIN Live \ BeingFilled
  BY DEF BeingFilled
<1>5. Live[i].orig # 0
  BY OrigsDiffer
<1>6. inode.count = 0 => inode.size = 0
  BY <1>2, <1>4 DEF Tells, Ended
<1>7. \A b \in Blocks : who[b] = inode.orig =>
        /\ Fits(inode.size, inode.count, inode.count, next, data, pos, tail, b)
        /\ pos[b] = inode.count => Len(tail[b]) <= Payload
  <2> SUFFICES ASSUME NEW b \in Blocks
               PROVE  who[b] = inode.orig =>
                        /\ Fits(inode.size, inode.count, inode.count, next, data, pos, tail, b)
                        /\ pos[b] = inode.count => Len(tail[b]) <= Payload
    OBVIOUS
  <2>1. who[b] = inode.orig =>
          Fits(Live[i].size, Wr[i], Re[i], next, data, pos, tail, b)
    BY <1>2, <1>5 DEF Tells, Written
  <2>2. who[b] = inode.orig /\ pos[b] = inode.count => Len(tail[b]) <= Payload
    BY <1>2, <1>4, <1>5 DEF Tells, Ended
  <2> QED
    BY <1>1, <1>2, <2>1, <2>2
<1>8. TypeOK
  BY DEF DiskInv, TypeInv
<1>9. Contents(inode) = IF inode.count = 0 THEN NotFound ELSE Found(tail[inode.start])
  BY <1>3, <1>6, <1>7, <1>8, ChainRead
<1>10. NotFound.text = <<>> /\ \A s : Found(s).found /\ Found(s).text = s
  BY DEF NotFound, Found
<1>11. Stored(inode) = TextOf(inode, tail)
  BY <1>6, <1>9, <1>10 DEF Stored, TextOf
<1> QED
  BY <1>2, <1>11

LEMMA FiguresAre ==
  ASSUME RestartInv, LoadLeads,
         NEW who \in [Blocks -> BlockOrNone], NEW pos \in [Blocks -> Nat],
         NEW tail \in [Blocks -> Seq(Chars)], ChainsAre(who, pos), Tells(who, pos, tail)
  PROVE  Figures = Figs(Live, Hidden, tail)
<1> DiskInv
  BY DEF RestartInv
<1>1. Visible = Live /\ Live \in Seq(Inodes)
  BY VisibleIsLive, LiveTyped DEF DiskInv
<1>2. StoredNames = Named(Live) \ Hidden
  BY <1>1 DEF StoredNames, Named, Hidden
<1>3. ASSUME NEW n \in Named(Live) \ Hidden
      PROVE  Stored(Live[IndexIn(Live, n)]) = TextOf(Live[IndexIn(Live, n)], tail)
  <2>1. PICK i : i = IndexIn(Live, n)
    OBVIOUS
  <2>2. i # 0 /\ i \in DOMAIN Live /\ Live[i].name = n
    BY <1>1, <2>1, NamesLead
  <2>3. Filling \/ Deleting => i # Touched
    <3>1. CASE Filling \/ Deleting
      <4>1. n # op.name /\ Live = table
        BY <3>1 DEF Hidden, Filling, Deleting, Adding, Live
      <4>2. Touched # 0 => table[Touched].name = op.name
        BY IndexFound DEF Touched, IndexOf, DiskInv, TypeInv, TypeOK
      <4> QED
        BY <2>2, <4>1, <4>2
    <3> QED
      BY <3>1
  <2>4. Stored(Live[i]) = TextOf(Live[i], tail)
    BY <2>2, <2>3, ReadsText
  <2> QED
    BY <2>1, <2>4
<1>4. Figures = [n \in Named(Live) \ Hidden |-> Stored(Live[IndexIn(Live, n)])]
  BY <1>1, <1>2 DEF Figures
<1> QED
  BY <1>3, <1>4 DEF Figs

\* The figures stay the same when every one that is seen has the same name and
\* the same text as one that was.
Matches(t, h, tail, t2, h2, tail2) ==
  /\ \A j \in DOMAIN t2 : t2[j].name \notin h2 =>
       \E i \in DOMAIN t : /\ t[i].name = t2[j].name /\ t[i].name \notin h
                           /\ TextOf(t2[j], tail2) = TextOf(t[i], tail)
  /\ \A i \in DOMAIN t : t[i].name \notin h =>
       \E j \in DOMAIN t2 : t2[j].name = t[i].name /\ t2[j].name \notin h2

LEMMA FigsSame ==
  ASSUME NEW t \in Seq(Inodes), NEW t2 \in Seq(Inodes), Distinct(t), Distinct(t2),
         NEW h, NEW h2, NEW tail, NEW tail2, Matches(t, h, tail, t2, h2, tail2)
  PROVE  Figs(t2, h2, tail2) = Figs(t, h, tail)
<1>1. Named(t2) \ h2 = Named(t) \ h
  <2>1. ASSUME NEW n \in Named(t2) \ h2 PROVE n \in Named(t) \ h
    BY <2>1 DEF Named, Matches
  <2>2. ASSUME NEW n \in Named(t) \ h PROVE n \in Named(t2) \ h2
    BY <2>2 DEF Named, Matches
  <2> QED
    BY <2>1, <2>2
<1>2. ASSUME NEW n \in Named(t) \ h
      PROVE  TextOf(t2[IndexIn(t2, n)], tail2) = TextOf(t[IndexIn(t, n)], tail)
  <2>1. PICK j \in DOMAIN t2 : j = IndexIn(t2, n) /\ t2[j].name = n
    BY <1>1, NamesLead
  <2>2. PICK i \in DOMAIN t : /\ t[i].name = n
                              /\ TextOf(t2[j], tail2) = TextOf(t[i], tail)
    BY <1>1, <2>1 DEF Matches
  <2>3. IndexIn(t, n) = i
    BY <2>2, NameLeads
  <2> QED
    BY <2>1, <2>2, <2>3
<1> QED
  BY <1>1, <1>2 DEF Figs

\* Figure i of table t, hidden until now, is seen with text s.
Reveals(t, tail, t2, tail2, i, s) ==
  /\ i \in DOMAIN t /\ DOMAIN t2 = DOMAIN t
  /\ \A j \in DOMAIN t : t2[j].name = t[j].name
  /\ \A j \in DOMAIN t : j # i => TextOf(t2[j], tail2) = TextOf(t[j], tail)
  /\ TextOf(t2[i], tail2) = s

LEMMA FigsRevealed ==
  ASSUME NEW t \in Seq(Inodes), NEW t2 \in Seq(Inodes), Distinct(t), Distinct(t2),
         NEW tail, NEW tail2, NEW i, NEW s, Reveals(t, tail, t2, tail2, i, s),
         NEW n, NEW F
  PROVE  t[i].name = n /\ F = Figs(t, {n}, tail) =>
           /\ n \notin DOMAIN F
           /\ Figs(t2, {}, tail2) = More(F, n, s)
<1> SUFFICES ASSUME t[i].name = n, F = Figs(t, {n}, tail)
             PROVE  /\ n \notin DOMAIN F
                    /\ Figs(t2, {}, tail2) = More(F, n, s)
  OBVIOUS
<1>1. DOMAIN F = Named(t) \ {n}
  BY DEF Figs
<1>2. n \in Named(t) /\ Named(t2) = Named(t)
  BY DEF Named, Reveals
<1>3. ASSUME NEW m \in Named(t)
      PROVE  TextOf(t2[IndexIn(t2, m)], tail2) = IF m = n THEN s ELSE F[m]
  <2>1. PICK j \in DOMAIN t : j = IndexIn(t, m) /\ t[j].name = m
    BY NamesLead
  <2>2. j \in DOMAIN t2 /\ t2[j].name = m
    BY <2>1 DEF Reveals
  <2>3. IndexIn(t2, m) = j
    BY <2>2, NameLeads
  <2>4. CASE m = n
    <3>1. j = i
      BY <2>1, <2>4 DEF Reveals, Distinct
    <3> QED
      BY <2>3, <2>4, <3>1 DEF Reveals
  <2>5. CASE m # n
    <3>1. F[m] = TextOf(t[j], tail)
      BY <2>1, <2>5 DEF Figs
    <3>2. j # i
      BY <2>1, <2>5
    <3> QED
      BY <2>1, <2>3, <2>5, <3>1, <3>2 DEF Reveals
  <2> QED
    BY <2>4, <2>5
<1>4. Figs(t2, {}, tail2) = [m \in Named(t) |-> TextOf(t2[IndexIn(t2, m)], tail2)]
  BY <1>2 DEF Figs
<1>5. DOMAIN F \cup {n} = Named(t)
  BY <1>1, <1>2
<1> QED
  BY <1>1, <1>3, <1>4, <1>5 DEF More

LEMMA FigsHidden ==
  ASSUME NEW t \in Seq(Inodes), NEW tail, NEW n, NEW F
  PROVE  F = Figs(t, {}, tail) => Figs(t, {n}, tail) = Less(F, n)
<1> SUFFICES ASSUME F = Figs(t, {}, tail)
             PROVE  Figs(t, {n}, tail) = Less(F, n)
  OBVIOUS
<1>1. DOMAIN F = Named(t) /\ \A m \in Named(t) : F[m] = TextOf(t[IndexIn(t, m)], tail)
  BY DEF Figs
<1> QED
  BY <1>1 DEF Figs, Less

-----------------------------------------------------------------------------
(* What the steps do to the figures.                                       *)

\* From figures F to G nothing happens, a figure comes or, if one may, goes.
Moves(F, u, G, v, may) ==
  \/ G = F
  \/ /\ u /\ v
     /\ \E n \in Names :
          \/ may /\ n \in DOMAIN F /\ G = Less(F, n)
          \/ n \notin DOMAIN F /\ \E s \in Texts : G = More(F, n, s)

\* rm_file begins.
Removing == ~Deleting /\ Deleting'

Moved(tail, tl) ==
  Moves(Figs(Live, Hidden, tail), Running, Figs(Live, Hidden, tl)', Running', Removing)

\* The first block of a figure that has blocks is one of its own.
LEMMA StartInChain ==
  ASSUME DiskInv, NEW who \in [Blocks -> BlockOrNone], NEW pos \in [Blocks -> Nat],
         ChainsAre(who, pos), NEW i \in DOMAIN Live, ~Deleting
  PROVE  Live[i].count # 0 => Live[i].start \in Blocks /\ who[Live[i].start] # 0
<1>1. CASE Live[i].count # 0
  <2>1. Live[i].count \in Nat /\ Live[i].orig # 0
    BY LiveTyped, FieldsTyped, OrigsDiffer DEF DiskInv
  <2>2. Lo[i] = 1 /\ Re[i] >= 1
    BY <1>1, <2>1 DEF Lo, Re
  <2>3. Hi[i] >= 1
    <3>1. Re[i] \in Nat
      BY <2>1 DEF Re
    <3> QED
      BY <2>2, <3>1 DEF Hi
  <2> DEFINE t == Live
             lo == Lo
             hi == Hi
             re == Re
  <2>4. Owned(t, UsedBlocks, next, who, pos, lo, hi, re) /\ lo[i] = 1 /\ hi[i] >= 1
    BY <2>2, <2>3 DEF ChainsAre
  <2>5. i \in DOMAIN t /\ t[i].orig # 0
    BY <2>1
  <2> HIDE DEF t, lo, hi, re
  <2>6. t[i].start \in Blocks /\ who[t[i].start] = t[i].orig
    BY <2>4, <2>5 DEF Owned
  <2> QED
    BY <2>1, <2>6 DEF t
<1> QED
  BY <1>1

LEMMA QuietMoves ==
  ASSUME NEW tail, Live' = Live, Hidden' = Hidden
  PROVE  Moved(tail, tail)
BY DEF Moved, Moves

LEMMA MakeFileMoves ==
  ASSUME DiskInv, NEW who, NEW pos, NEW tail, Tells(who, pos, tail),
         NEW n \in Names, NEW s \in Texts, MakeFile(n, s)
  PROVE  Moved(tail, tail)
<1>1. /\ pc = "idle" /\ pc' = "inodeBlock" /\ op'.name = n /\ IndexOf(n) = 0
      /\ UNCHANGED <<disk, memory, history>>
  BY DEF MakeFile, NoOp
<1>2. Live = table /\ Live' = table /\ table \in Seq(Inodes) /\ Distinct(table)
  BY <1>1 DEF Live, memory, Tells, DiskInv, TypeInv, TypeOK
<1>3. Hidden = {} /\ Hidden' = {n}
  BY <1>1 DEF Hidden, Adding, Deleting
<1>4. \A j \in DOMAIN table : table[j].name # n
  BY <1>1, <1>2, IndexLeast DEF IndexOf
<1>5. Matches(table, {}, tail, table, {n}, tail)
  BY <1>4 DEF Matches
<1>6. Figs(table, {n}, tail) = Figs(table, {}, tail)
  BY <1>2, <1>5, FigsSame
<1> QED
  BY <1>2, <1>3, <1>6 DEF Moved, Moves

LEMMA WriteInodeMoves ==
  ASSUME DiskInv, DiskInv', NEW who, NEW pos, NEW tail, WriteInode,
         ChainsAre(who, pos), Tells(who, pos, tail), Tells(who, pos, tail)'
  PROVE  Moved(tail, tail)
<1>1. /\ pc = "inodeWrite" /\ pc' = "firstBlock" /\ op' = op
  BY DEF WriteInode
<1>2. /\ Live = table /\ Live' = table' /\ table \in Seq(Inodes) /\ table' \in Seq(Inodes)
      /\ Distinct(table) /\ Distinct(table')
  BY <1>1 DEF Live, Tells, DiskInv, TypeInv, TypeOK
<1>3. Touched = 0
  BY <1>1 DEF ChainsAre, AtPlace
<1>4. PICK n : n = Len(table)
  OBVIOUS
<1>5. /\ n \in Nat /\ DOMAIN table = 1..n /\ DOMAIN table' = 1..(n + 1)
      /\ \A i \in 1..n : /\ table'[i].start = table[i].start
                         /\ table'[i].count = table[i].count
                         /\ table'[i].name = table[i].name
      /\ table'[n + 1] = NewInode(op.name, op.cur)
  BY <1>3, <1>4, InodeAppended
<1>6. table'[n + 1].name = op.name
  BY <1>5 DEF NewInode, Inode
<1>7. PICK h : h = {op.name}
  OBVIOUS
<1>8. Hidden = h /\ Hidden' = h
  BY <1>1, <1>7 DEF Hidden, Adding
<1>9. Matches(table, h, tail, table', h, tail)
  <2>1. ASSUME NEW j \in DOMAIN table', table'[j].name \notin h
        PROVE  \E i \in DOMAIN table : /\ table[i].name = table'[j].name
                                       /\ table[i].name \notin h
                                       /\ TextOf(table'[j], tail) = TextOf(table[i], tail)
    <3>1. j # n + 1
      BY <1>6, <1>7, <2>1
    <3>2. j \in 1..n
      BY <1>5, <3>1
    <3> QED
      BY <1>5, <2>1, <3>2 DEF TextOf
  <2>2. ASSUME NEW i \in DOMAIN table, table[i].name \notin h
        PROVE  \E j \in DOMAIN table' : /\ table'[j].name = table[i].name
                                        /\ table'[j].name \notin h
    <3>1. i \in DOMAIN table' /\ table'[i].name = table[i].name
      BY <1>5
    <3> QED
      BY <2>2, <3>1
  <2> QED
    BY <2>1, <2>2 DEF Matches
<1>10. Figs(table', h, tail) = Figs(table, h, tail)
  BY <1>2, <1>9, FigsSame
<1> QED
  BY <1>2, <1>8, <1>10 DEF Moved, Moves

LEMMA ClearInodeMoves ==
  ASSUME DiskInv, DiskInv', NEW who, NEW pos, NEW tail, ClearInode,
         Tells(who, pos, tail), Tells(who, pos, tail)'
  PROVE  Moved(tail, tail)
<1>1. pc = "clearInode" /\ pc' = "idle"
  BY DEF ClearInode
<1>2. /\ Live = table /\ Live' = table' /\ table \in Seq(Inodes) /\ table' \in Seq(Inodes)
      /\ Distinct(table) /\ Distinct(table')
  BY <1>1 DEF Live, Tells, DiskInv, TypeInv, TypeOK
<1>3. Touched # 0 /\ table[Touched].name = op.name
  BY <1>1, <1>2, IndexFound DEF Touched, IndexOf, DiskInv, TypeInv, Cursors
<1>4. Touched \in DOMAIN table
  BY InodeDropped
<1>5. PICK pick \in [DOMAIN table' -> DOMAIN table \ {Touched}] :
        /\ \A j, k \in DOMAIN table' : pick[j] = pick[k] => j = k
        /\ \A j \in DOMAIN table \ {Touched} : \E k \in DOMAIN table' : pick[k] = j
        /\ \A k \in DOMAIN table' :
             /\ table'[k].orig = table[pick[k]].orig
             /\ table'[k].start = table[pick[k]].start
             /\ table'[k].count = table[pick[k]].count
             /\ table'[k].size = table[pick[k]].size
             /\ table'[k].name = table[pick[k]].name
  BY InodeDropped
<1>6. PICK h : h = {op.name}
  OBVIOUS
<1>7. Hidden = h /\ Hidden' = {}
  BY <1>1, <1>6 DEF Hidden, Adding, Deleting
<1>8. Matches(table, h, tail, table', {}, tail)
  <2>1. ASSUME NEW j \in DOMAIN table'
        PROVE  \E i \in DOMAIN table : /\ table[i].name = table'[j].name
                                       /\ table[i].name \notin h
                                       /\ TextOf(table'[j], tail) = TextOf(table[i], tail)
    <3>1. PICK i \in DOMAIN table : i = pick[j] /\ i # Touched
      BY <1>5
    <3>2. table'[j].name = table[i].name /\ TextOf(table'[j], tail) = TextOf(table[i], tail)
      BY <1>5, <3>1 DEF TextOf
    <3>3. table[i].name # op.name
      BY <1>2, <1>3, <1>4, <3>1 DEF Distinct
    <3> QED
      BY <1>6, <3>2, <3>3
  <2>2. ASSUME NEW i \in DOMAIN table, table[i].name \notin h
        PROVE  \E j \in DOMAIN table' : table'[j].name = table[i].name
    <3>1. i \in DOMAIN table \ {Touched}
      BY <1>3, <1>6, <2>2
    <3>2. PICK k \in DOMAIN table' : pick[k] = i
      BY <1>5, <3>1
    <3> QED
      BY <1>5, <3>2
  <2> QED
    BY <2>1, <2>2 DEF Matches
<1>9. Figs(table', {}, tail) = Figs(table, h, tail)
  BY <1>2, <1>8, FigsSame
<1> QED
  BY <1>2, <1>7, <1>9 DEF Moved, Moves

LEMMA DeleteFileMoves ==
  ASSUME DiskInv, NEW tail, NEW n \in Names, DeleteFile(n)
  PROVE  Moved(tail, tail)
<1>1. /\ pc = "idle" /\ pc' \in {"clearInode", "clearData"} /\ op'.name = n
      /\ IndexOf(n) # 0 /\ UNCHANGED <<disk, memory, saved, kills>>
  BY DEF DeleteFile, NoOp
<1>2. Live = table /\ Live' = table /\ table \in Seq(Inodes)
  BY <1>1 DEF Live, memory, DiskInv, TypeInv, TypeOK
<1>3. Hidden = {} /\ Hidden' = {n} /\ Running /\ Running' /\ Removing
  BY <1>1 DEF Hidden, Adding, Deleting, Running, Removing
<1>4. n \in Named(table)
  BY <1>1, <1>2, IndexFound DEF IndexOf, Named
<1>5. PICK F : F = Figs(table, {}, tail)
  OBVIOUS
<1>6. Figs(table, {n}, tail) = Less(F, n)
  BY <1>2, <1>5, FigsHidden
<1>7. n \in DOMAIN F
  BY <1>4, <1>5 DEF Figs
<1> QED
  BY <1>2, <1>3, <1>5, <1>6, <1>7 DEF Moved, Moves

\* The taken block begins no other figure.
LEMMA AllocNextMoves ==
  ASSUME DiskInv, DiskInv',
         NEW who \in [Blocks -> BlockOrNone], NEW pos \in [Blocks -> Nat],
         NEW tail, NEW tl, AllocNext, ChainsAre(who, pos), Tells(who, pos, tail),
         NEW b \in Blocks, op'.nxt = b, Goes(tail, b, op.rest, tl),
         tail \in [Blocks -> Seq(Chars)]
  PROVE  Moved(tail, tl)
<1>1. /\ pc = "nextBlock" /\ pc' = "link" /\ UNCHANGED table
      /\ TakeBlock(b) /\ op'.name = op.name
  BY DEF AllocNext, DiskInv, TypeInv, TypeOK, Operations
<1>2. Live = table /\ Live' = table /\ table \in Seq(Inodes) /\ Distinct(table) /\ ~Deleting
  BY <1>1 DEF Live, Deleting, Tells, DiskInv, TypeInv, TypeOK
<1>3. PICK h : h = {op.name}
  OBVIOUS
<1>4. Hidden = h /\ Hidden' = h
  BY <1>1, <1>3 DEF Hidden, Adding
<1>5. who[b] = 0
  BY <1>1, TakenWasFree, FreeInNoChain
<1>6. \A j \in DOMAIN table : TextOf(table[j], tl) = TextOf(table[j], tail)
  <2> SUFFICES ASSUME NEW j \in DOMAIN table
               PROVE  TextOf(table[j], tl) = TextOf(table[j], tail)
    OBVIOUS
  <2>1. table[j].count # 0 => table[j].start \in Blocks /\ who[table[j].start] # 0
    BY <1>2, StartInChain
  <2>2. table[j].count # 0 => tl[table[j].start] = tail[table[j].start]
    BY <1>5, <2>1 DEF Goes
  <2> QED
    BY <2>2 DEF TextOf
<1>7. Matches(table, h, tail, table, h, tl)
  BY <1>6 DEF Matches
<1>8. Figs(table, h, tl) = Figs(table, h, tail)
  BY <1>2, <1>7, FigsSame
<1> QED
  BY <1>2, <1>4, <1>8 DEF Moved, Moves

\* AllocFirst takes block b, which begins the chain of the text unless it is empty.
Begins(who, pos, tail, b, w, p, tl) ==
  /\ op'.cur = b
  /\ Starts(who, pos, tail, op.rest, b, table[Touched].orig, w, p, tl)

\* An empty text is complete with its first block, any other goes on.
LEMMA AllocFirstMoves ==
  ASSUME DiskInv, DiskInv',
         NEW who \in [Blocks -> BlockOrNone], NEW pos \in [Blocks -> Nat],
         NEW tail \in [Blocks -> Seq(Chars)],
         ChainsAre(who, pos), Tells(who, pos, tail), AllocFirst,
         NEW w, NEW p, NEW tl,
         NEW b \in Blocks, Begins(who, pos, tail, b, w, p, tl),
         Tells(w, p, tl)'
  PROVE  Moved(tail, tl)
<1>1. /\ pc = "firstBlock" /\ pc' = IF op.rest = <<>> THEN "idle" ELSE "dataWrite"
  BY DEF AllocFirst
<1>2. /\ Live = table /\ Live' = table' /\ table \in Seq(Inodes) /\ table' \in Seq(Inodes)
      /\ Distinct(table) /\ Distinct(table') /\ ~Deleting
  BY <1>1 DEF Live, Deleting, Tells, DiskInv, TypeInv, TypeOK
<1>3. PICK i \in DOMAIN table : i = Touched
  BY <1>1, TouchedFound DEF ChainsAre, AtPlace
<1>4. /\ TakeBlock(b) /\ op'.name = op.name /\ op'.rest = op.rest
      /\ DOMAIN table' = DOMAIN table /\ table'[i].name = table[i].name
      /\ table'[i].start = b /\ table'[i].count = 0
      /\ \A j \in DOMAIN table : j # i => table'[j] = table[j]
  BY <1>3, InodeFilled DEF Begins
<1>5. table[i].name = op.name
  <2>1. i # 0
    BY <1>2, <1>3, LenProperties
  <2> QED
    BY <1>2, <1>3, <2>1, IndexFound DEF Touched, IndexOf
<1>6. op.name \in Names /\ op.rest \in Texts
  BY <1>1 DEF Tells, AtText, Adding
<1>7. PICK s \in Texts : s = op.rest
  BY <1>6
<1>8. who[b] = 0
  BY <1>4, TakenWasFree, FreeInNoChain
<1>9. \A j \in DOMAIN table : j # i => TextOf(table'[j], tl) = TextOf(table[j], tail)
  <2> SUFFICES ASSUME NEW j \in DOMAIN table, j # i
               PROVE  TextOf(table[j], tl) = TextOf(table[j], tail)
    BY <1>4
  <2>1. table[j].count # 0 => table[j].start \in Blocks /\ who[table[j].start] # 0
    BY <1>2, StartInChain
  <2>2. table[j].count # 0 => tl[table[j].start] = tail[table[j].start]
    BY <1>8, <2>1 DEF Starts, Begins
  <2> QED
    BY <2>2 DEF TextOf
<1>10. PICK n : n = op.name
  OBVIOUS
<1>11. PICK h : h = {n}
  OBVIOUS
<1>12. Hidden = h
  BY <1>1, <1>10, <1>11 DEF Hidden, Adding
<1>13. CASE op.rest = <<>>
  <2>1. Hidden' = {} /\ Running /\ Running'
    BY <1>1, <1>13 DEF Hidden, Adding, Deleting, Running
  <2>2. tl = tail
    BY <1>13 DEF Starts, Begins
  <2>3. Reveals(table, tail, table', tail, i, s)
    <3>1. TextOf(table'[i], tail) = s
      BY <1>4, <1>13, <1>7 DEF TextOf
    <3> QED
      BY <1>4, <1>9, <2>2, <3>1 DEF Reveals
  <2>4. PICK F : F = Figs(table, {n}, tail)
    OBVIOUS
  <2>5. n \notin DOMAIN F /\ Figs(table', {}, tail) = More(F, n, s)
    <3>1. table[i].name = n /\ F = Figs(table, {n}, tail)
      BY <1>5, <1>10, <2>4
    <3>2. table \in Seq(Inodes) /\ table' \in Seq(Inodes) /\ Distinct(table) /\ Distinct(table')
      BY <1>2
    <3> QED
      BY <2>3, <3>1, <3>2, FigsRevealed
  <2>6. Moves(F, Running, Figs(table', {}, tail), Running', Removing)
    BY <1>6, <1>10, <2>1, <2>5 DEF Moves
  <2> QED
    BY <1>2, <1>11, <1>12, <2>1, <2>4, <2>6, <2>2 DEF Moved
<1>14. CASE op.rest # <<>>
  <2>1. Hidden' = h
    BY <1>1, <1>4, <1>10, <1>11, <1>14 DEF Hidden, Adding
  <2>2. Matches(table, h, tail, table', h, tl)
    <3>1. \A j \in DOMAIN table : table'[j].name = table[j].name
      BY <1>4
    <3>2. \A j \in DOMAIN table : table[j].name \notin h => j # i
      BY <1>5, <1>10, <1>11
    <3> QED
      BY <1>4, <1>9, <3>1, <3>2 DEF Matches
  <2>3. Figs(table', h, tl) = Figs(table, h, tail)
    BY <1>2, <2>2, FigsSame
  <2> QED
    BY <1>2, <1>12, <2>1, <2>3 DEF Moved, Moves
<1> QED
  BY <1>13, <1>14

\* The last link of a text completes the figure.
LEMMA LinkMoves ==
  ASSUME DiskInv, DiskInv',
         NEW who \in [Blocks -> BlockOrNone], NEW pos \in [Blocks -> Nat],
         NEW tail \in [Blocks -> Seq(Chars)], ChainsAre(who, pos),
         Tells(who, pos, tail), Tells(who, pos, tail)', Link
  PROVE  Moved(tail, tail)
<1>1. /\ pc = "link" /\ pc' = IF op.rest = <<>> THEN "idle" ELSE "dataWrite"
      /\ op'.name = op.name
  BY DEF Link, DiskInv, TypeInv, TypeOK, Operations
<1>2. /\ Live = table /\ Live' = table' /\ table \in Seq(Inodes) /\ table' \in Seq(Inodes)
      /\ Distinct(table) /\ Distinct(table') /\ Filling
  BY <1>1 DEF Live, Filling, Tells, DiskInv, TypeInv, TypeOK
<1>3. PICK i \in DOMAIN table : i = Touched /\ table[i].count \in Nat
  BY <1>2, FillingAt
<1>4. /\ DOMAIN table' = DOMAIN table /\ table'[i].name = table[i].name
      /\ table'[i].start = table[i].start /\ table'[i].count = table[i].count + 1
      /\ \A j \in DOMAIN table : j # i => table'[j] = table[j]
  BY <1>3, InodeCounted
<1>5. table[i].name = op.name
  <2>1. i # 0
    BY <1>2, <1>3, LenProperties
  <2> QED
    BY <1>2, <1>3, <2>1, IndexFound DEF Touched, IndexOf
<1>6. PICK s \in Texts : s = tail[table[i].start]
  BY <1>2, <1>3 DEF Tells, AtText
<1>7. op.name \in Names
  BY <1>1 DEF Tells, AtText, Adding
<1>8. \A j \in DOMAIN table : j # i => TextOf(table'[j], tail) = TextOf(table[j], tail)
  BY <1>4
<1>9. PICK n : n = op.name
  OBVIOUS
<1>10. PICK h : h = {n}
  OBVIOUS
<1>11. Hidden = h
  BY <1>1, <1>9, <1>10 DEF Hidden, Adding
<1>12. CASE op.rest = <<>>
  <2>1. Hidden' = {} /\ Running /\ Running'
    BY <1>1, <1>12 DEF Hidden, Adding, Deleting, Running
  <2>2. Reveals(table, tail, table', tail, i, s)
    <3>1. table'[i].count # 0
      BY <1>3, <1>4
    <3>2. TextOf(table'[i], tail) = s
      BY <1>4, <1>6, <3>1 DEF TextOf
    <3> QED
      BY <1>4, <1>8, <3>2 DEF Reveals
  <2>3. PICK F : F = Figs(table, {n}, tail)
    OBVIOUS
  <2>4. n \notin DOMAIN F /\ Figs(table', {}, tail) = More(F, n, s)
    <3>1. table[i].name = n /\ F = Figs(table, {n}, tail)
      BY <1>5, <1>9, <2>3
    <3>2. table \in Seq(Inodes) /\ table' \in Seq(Inodes) /\ Distinct(table) /\ Distinct(table')
      BY <1>2
    <3> QED
      BY <2>2, <3>1, <3>2, FigsRevealed
  <2>5. Moves(F, Running, Figs(table', {}, tail), Running', Removing)
    BY <1>7, <1>9, <2>1, <2>4 DEF Moves
  <2> QED
    BY <1>2, <1>10, <1>11, <2>1, <2>3, <2>5 DEF Moved
<1>13. CASE op.rest # <<>>
  <2>1. Hidden' = h
    BY <1>1, <1>9, <1>10, <1>13 DEF Hidden, Adding
  <2>2. Matches(table, h, tail, table', h, tail)
    <3>1. \A j \in DOMAIN table : table'[j].name = table[j].name
      BY <1>4
    <3>2. \A j \in DOMAIN table : table[j].name \notin h => j # i
      BY <1>5, <1>9, <1>10
    <3> QED
      BY <1>4, <1>8, <3>1, <3>2 DEF Matches
  <2>3. Figs(table', h, tail) = Figs(table, h, tail)
    BY <1>2, <2>2, FigsSame
  <2> QED
    BY <1>2, <1>11, <2>1, <2>3 DEF Moved, Moves
<1> QED
  BY <1>12, <1>13

-----------------------------------------------------------------------------
(* Every step keeps the invariant and does what the store allows.          *)

\* The chains of the figures are whole, and tail is what they tell.
Tracked(tail) ==
  \E who \in [Blocks -> BlockOrNone], pos \in [Blocks -> Nat] :
    ChainsAre(who, pos) /\ Tells(who, pos, tail)

StepMoves(tail) ==
  \E tl \in [Blocks -> Seq(Chars)] : Tracked(tl)' /\ Moved(tail, tl)

LEMMA AllocFirstStep ==
  ASSUME DiskInv, DiskInv', NEW tail \in [Blocks -> Seq(Chars)], Tracked(tail), AllocFirst
  PROVE  StepMoves(tail)
<1>1. PICK who \in [Blocks -> BlockOrNone], pos \in [Blocks -> Nat] :
        ChainsAre(who, pos) /\ Tells(who, pos, tail)
  BY DEF Tracked
<1>2. PICK b \in Blocks : op'.cur = b
  BY DEF AllocFirst, DiskInv, TypeInv, TypeOK, Operations
<1>3. table[Touched].orig \in BlockOrNone
  <2>1. Touched # 0
    BY <1>1 DEF AllocFirst, ChainsAre, AtPlace
  <2>2. table[Touched] \in Inodes
    BY <2>1, TouchedFound
  <2> QED
    BY <2>2 DEF Inodes
<1>4. op.rest \in Seq(Chars)
  BY DEF DiskInv, TypeInv, TypeOK, Operations
<1>5. PICK o \in BlockOrNone, s \in Seq(Chars) : o = table[Touched].orig /\ s = op.rest
  BY <1>3, <1>4
<1>6. PICK w \in [Blocks -> BlockOrNone], p \in [Blocks -> Nat], tl \in [Blocks -> Seq(Chars)] :
        Starts(who, pos, tail, s, b, o, w, p, tl)
  <2>1. CASE s = <<>>
    BY <2>1 DEF Starts
  <2>2. CASE s # <<>>
    <3>1. PICK w \in [Blocks -> BlockOrNone], p \in [Blocks -> Nat] :
            Gives(who, pos, b, o, 1, w, p)
      BY DEF Gives
    <3>2. [tail EXCEPT ![b] = s] \in [Blocks -> Seq(Chars)]
      OBVIOUS
    <3> QED
      BY <2>2, <3>1, <3>2 DEF Starts
  <2> QED
    BY <2>1, <2>2
<1>7. Starts(who, pos, tail, op.rest, b, table[Touched].orig, w, p, tl)
  BY <1>5, <1>6
<1>8. /\ op.rest = <<>> => w = who /\ p = pos
      /\ op.rest # <<>> => Gives(who, pos, b, table[Touched].orig, 1, w, p)
  BY <1>7 DEF Starts
<1>9. ChainsAre(w, p)'
  BY <1>1, <1>2, <1>8, AllocFirstChains
<1>10. Tells(w, p, tl)'
  BY <1>1, <1>2, <1>7, AllocFirstTells
<1>11. Begins(who, pos, tail, b, w, p, tl)
  BY <1>2, <1>7 DEF Begins
<1>12. Moved(tail, tl)
  BY <1>1, <1>10, <1>11, AllocFirstMoves
<1> QED
  BY <1>9, <1>10, <1>12 DEF StepMoves, Tracked

LEMMA AllocNextStep ==
  ASSUME DiskInv, DiskInv', NEW tail \in [Blocks -> Seq(Chars)], Tracked(tail), AllocNext
  PROVE  StepMoves(tail)
<1>1. PICK who \in [Blocks -> BlockOrNone], pos \in [Blocks -> Nat] :
        ChainsAre(who, pos) /\ Tells(who, pos, tail)
  BY DEF Tracked
<1>2. PICK b \in Blocks : op'.nxt = b
  BY DEF AllocNext, DiskInv, TypeInv, TypeOK, Operations
<1>3. table[Touched].orig \in BlockOrNone /\ table[Touched].count + 2 \in Nat
  <2>1. Touched # 0
    BY <1>1 DEF AllocNext, ChainsAre, AtPlace, Filling
  <2>2. table[Touched] \in Inodes
    BY <2>1, TouchedFound
  <2>3. table[Touched].orig \in BlockOrNone /\ table[Touched].count \in Nat
    BY <2>2, FieldsTyped
  <2>4. \A n \in Nat : n + 2 \in Nat
    OBVIOUS
  <2> QED
    BY <2>3, <2>4, Zenon
<1>4. op.rest \in Seq(Chars)
  BY DEF DiskInv, TypeInv, TypeOK, Operations
<1>5. PICK w \in [Blocks -> BlockOrNone], p \in [Blocks -> Nat] :
        Gives(who, pos, b, table[Touched].orig, table[Touched].count + 2, w, p)
  BY <1>3 DEF Gives
<1>6. PICK tl \in [Blocks -> Seq(Chars)] : Goes(tail, b, op.rest, tl)
  BY <1>4 DEF Goes
<1>7. ChainsAre(w, p)'
  BY <1>1, <1>2, <1>5, AllocNextChains
<1>8. Tells(w, p, tl)'
  BY <1>1, <1>2, <1>5, <1>6, AllocNextTells
<1>9. Moved(tail, tl)
  BY <1>1, <1>2, <1>6, AllocNextMoves
<1> QED
  BY <1>7, <1>8, <1>9 DEF StepMoves, Tracked

\* Steps that keep the figures as they are, and those that write no chain.
LEMMA QuietStep ==
  ASSUME RestartInv, RestartInv', NEW tail \in [Blocks -> Seq(Chars)], Tracked(tail),
         \/ Load \/ Save \/ ExtendDisk \/ UNCHANGED vars
         \/ AllocInode \/ WriteData \/ ClearData
  PROVE  StepMoves(tail)
<1> DiskInv /\ DiskInv'
  BY DEF RestartInv
<1>1. PICK who \in [Blocks -> BlockOrNone], pos \in [Blocks -> Nat] :
        ChainsAre(who, pos) /\ Tells(who, pos, tail)
  BY DEF Tracked
<1>2. CASE Load
  <2>1. Live' = Live /\ Hidden' = Hidden
    BY <1>2, LoadLive DEF Hidden, Adding, Deleting
  <2>2. Moved(tail, tail)
    BY <2>1, QuietMoves
  <2> QED
    BY <1>1, <1>2, <2>2, LoadChains, LoadTells DEF StepMoves, Tracked
<1>3. CASE Save
  <2>1. Live' = Live /\ Hidden' = Hidden
    BY <1>3, SaveLive DEF Hidden, Adding, Deleting
  <2>2. Moved(tail, tail)
    BY <2>1, QuietMoves
  <2> QED
    BY <1>1, <1>3, <2>2, SaveChains, SaveTells DEF StepMoves, Tracked
<1>4. CASE ExtendDisk \/ UNCHANGED vars
  <2>1. UNCHANGED <<used, data, next, table, pc, op, saved>>
    BY <1>4 DEF ExtendDisk, vars, disk, history
  <2>2. Live' = Live /\ Hidden' = Hidden
    BY <2>1 DEF Live, Hidden, Adding, Deleting
  <2>3. Moved(tail, tail)
    BY <2>2, QuietMoves
  <2> QED
    BY <1>1, <2>1, <2>3, StillChains, StillTells DEF StepMoves, Tracked
<1>5. CASE AllocInode
  <2>1. pc = "inodeBlock" /\ pc' = "inodeWrite" /\ UNCHANGED table /\ op'.name = op.name
    BY <1>5 DEF AllocInode, DiskInv, TypeInv, TypeOK, Operations
  <2>2. Live' = Live /\ Hidden' = Hidden
    BY <2>1 DEF Live, Hidden, Adding, Deleting
  <2>3. Moved(tail, tail)
    BY <2>2, QuietMoves
  <2> QED
    BY <1>1, <1>5, <2>3, AllocInodeChains, AllocInodeTells DEF StepMoves, Tracked
<1>6. CASE WriteData
  <2>1. /\ pc = "dataWrite" /\ pc' \in {"link", "nextBlock"} /\ UNCHANGED table
        /\ op'.name = op.name
    BY <1>6 DEF WriteData, memory, DiskInv, TypeInv, TypeOK, Operations
  <2>2. Live' = Live /\ Hidden' = Hidden
    BY <2>1 DEF Live, Hidden, Adding, Deleting
  <2>3. Moved(tail, tail)
    BY <2>2, QuietMoves
  <2> QED
    BY <1>1, <1>6, <2>3, WriteDataChains, WriteDataTells DEF StepMoves, Tracked
<1>7. CASE ClearData
  <2>1. /\ pc = "clearData" /\ pc' \in {"clearData", "clearInode"} /\ UNCHANGED table
        /\ op'.name = op.name
    BY <1>7 DEF ClearData, DiskInv, TypeInv, TypeOK, Operations
  <2>2. Live' = Live /\ Hidden' = Hidden
    BY <2>1 DEF Live, Hidden, Adding, Deleting
  <2>3. Moved(tail, tail)
    BY <2>2, QuietMoves
  <2>4. PICK w \in [Blocks -> BlockOrNone] : Loses(who, op.cur, w)
    BY BlockTyped DEF Loses
  <2> QED
    BY <1>1, <1>7, <2>3, <2>4, ClearDataChains, ClearDataTells DEF StepMoves, Tracked
<1> QED
  BY <1>2, <1>3, <1>4, <1>5, <1>6, <1>7

LEMMA FigureStep ==
  ASSUME DiskInv, DiskInv', NEW tail \in [Blocks -> Seq(Chars)], Tracked(tail),
         \/ WriteInode \/ Link \/ ClearInode
         \/ \E n \in Names : DeleteFile(n) \/ \E t \in Texts : MakeFile(n, t)
  PROVE  StepMoves(tail)
<1>1. PICK who \in [Blocks -> BlockOrNone], pos \in [Blocks -> Nat] :
        ChainsAre(who, pos) /\ Tells(who, pos, tail)
  BY DEF Tracked
<1>2. CASE WriteInode
  <2>1. ChainsAre(who, pos)' /\ Tells(who, pos, tail)'
    BY <1>1, <1>2, WriteInodeChains, WriteInodeTells
  <2> QED
    BY <1>1, <1>2, <2>1, WriteInodeMoves DEF StepMoves, Tracked
<1>3. CASE Link
  <2>1. ChainsAre(who, pos)' /\ Tells(who, pos, tail)'
    BY <1>1, <1>3, LinkChains, LinkTells
  <2> QED
    BY <1>1, <1>3, <2>1, LinkMoves DEF StepMoves, Tracked
<1>4. CASE ClearInode
  <2>1. ChainsAre(who, pos)' /\ Tells(who, pos, tail)'
    BY <1>1, <1>4, ClearInodeChains, ClearInodeTells
  <2> QED
    BY <1>1, <1>4, <2>1, ClearInodeMoves DEF StepMoves, Tracked
<1>5. ASSUME NEW n \in Names, DeleteFile(n) PROVE StepMoves(tail)
  <2>1. ChainsAre(who, pos)' /\ Tells(who, pos, tail)'
    BY <1>1, <1>5, DeleteFileChains, DeleteFileTells
  <2> QED
    BY <1>5, <2>1, DeleteFileMoves DEF StepMoves, Tracked
<1>6. ASSUME NEW n \in Names, NEW t \in Texts, MakeFile(n, t) PROVE StepMoves(tail)
  <2>1. ChainsAre(who, pos)' /\ Tells(who, pos, tail)'
    BY <1>1, <1>6, MakeFileChains, MakeFileTells
  <2> QED
    BY <1>1, <1>6, <2>1, MakeFileMoves DEF StepMoves, Tracked
<1> QED
  BY <1>2, <1>3, <1>4, <1>5, <1>6

LEMMA NextMoves ==
  ASSUME RestartInv, RestartInv', NEW tail \in [Blocks -> Seq(Chars)], Tracked(tail), [Next]_vars
  PROVE  StepMoves(tail)
BY AllocFirstStep, AllocNextStep, QuietStep, FigureStep DEF Next, Make, Delete, RestartInv

-----------------------------------------------------------------------------
(* The store that the users see.                                           *)

\* The initial chains tell nothing: no figure, no operation.
LEMMA InitTracked ==
  Init => \E tail \in [Blocks -> Seq(Chars)] : Tracked(tail)
<1> SUFFICES ASSUME Init PROVE \E tail \in [Blocks -> Seq(Chars)] : Tracked(tail)
  OBVIOUS
<1>1. PICK who \in [Blocks -> BlockOrNone], pos \in [Blocks -> Nat] : ChainsAre(who, pos)
  BY InitChains DEF Chains
<1>2. PICK tail \in [Blocks -> Seq(Chars)] : tail = [b \in Blocks |-> <<>>]
  <2>1. [b \in Blocks |-> <<>>] \in [Blocks -> Seq(Chars)]
    OBVIOUS
  <2> QED
    BY <2>1
<1>3. pc = "closed" /\ Live = <<>> /\ DOMAIN Live = {}
  BY DEF Init, Live
<1>4. /\ Written(Live, next, data, who, pos, tail, Wr, Re)
      /\ Ended(Live, who, pos, tail, BeingFilled) /\ Distinct(Live)
  BY <1>3 DEF Written, Ended, Distinct
<1>5. AtText(tail)
  BY <1>3 DEF AtText, Adding, Filling
<1> QED
  BY <1>1, <1>4, <1>5 DEF Tracked, Tells

\* Whatever the chains tell is what the users see.
Agreeing ==
  \A tail \in [Blocks -> Seq(Chars)] :
    Tracked(tail) => Figures = Figs(Live, Hidden, tail)

StoreInv == LoadLeads /\ \E tail \in [Blocks -> Seq(Chars)] : Tracked(tail)

LEMMA StoreAgrees ==
  ASSUME RestartInv, StoreInv
  PROVE  Agreeing
BY FiguresAre DEF Agreeing, StoreInv, Tracked

LEMMA StoreMoves ==
  ASSUME RestartInv, RestartInv', StoreInv, Agreeing, [Next]_vars
  PROVE  StoreInv' /\ (Agreeing' => Moves(Figures, Running, Figures', Running', Removing))
<1> DiskInv /\ DiskInv'
  BY DEF RestartInv
<1>1. PICK tail \in [Blocks -> Seq(Chars)] : Tracked(tail)
  BY DEF StoreInv
<1>2. PICK tl \in [Blocks -> Seq(Chars)] : Tracked(tl)' /\ Moved(tail, tl)
  BY <1>1, NextMoves DEF StepMoves
<1>3. StoreInv'
  BY <1>2, NextLeads DEF StoreInv
<1>4. ASSUME Agreeing' PROVE Moves(Figures, Running, Figures', Running', Removing)
  <2>1. Figures = Figs(Live, Hidden, tail)
    BY <1>1 DEF Agreeing
  <2>2. Figures' = Figs(Live, Hidden, tl)'
    BY <1>2, <1>4 DEF Agreeing
  <2> QED
    BY <1>2, <2>1, <2>2 DEF Moved
<1> QED
  BY <1>3, <1>4

\* A move is a step of the store, or none.
LEMMA MoveIsStoreStep ==
  ASSUME Moves(Figures, Running, Figures', Running', Removing)
  PROVE  [Store!Next]_Store!vars
<1>1. Running \in BOOLEAN /\ Running' \in BOOLEAN
  BY DEF Running
<1>2. CASE Figures' = Figures
  <2>1. CASE Running' = Running
    BY <1>2, <2>1 DEF Store!vars, Figures
  <2>2. CASE Running' # Running
    BY <1>1, <1>2, <2>2 DEF Store!Next, Store!Start, Store!Stop, Figures
  <2> QED
    BY <2>1, <2>2
<1>3. ASSUME Running, Running', NEW n \in Names, n \in DOMAIN Figures, Figures' = Less(Figures, n)
      PROVE  Store!Remove(n)
  BY <1>3 DEF Store!Remove, Less, Figures
<1>4. ASSUME Running, Running', NEW n \in Names, NEW s \in Texts,
             n \notin DOMAIN Figures, Figures' = More(Figures, n, s)
      PROVE  Store!Put(n, s)
  BY <1>4 DEF Store!Put, More, Figures
<1> QED
  BY <1>2, <1>3, <1>4 DEF Moves, Store!Next

LEMMA InitStore == Init => Store!Init
<1> SUFFICES ASSUME Init PROVE Store!Init
  OBVIOUS
<1>1. pc = "closed" /\ RestartInv /\ LoadLeads
  BY InitInv DEF Init, LoadLeads
<1>2. Live = <<>> /\ DOMAIN Live = {}
  BY <1>1 DEF Init, Live
<1>3. DOMAIN Visible = {}
  BY <1>1, <1>2, VisibleIsLive
<1>4. DOMAIN Figures = {}
  BY <1>3 DEF Figures, StoredNames
<1>5. Figures = <<>>
  BY <1>4 DEF Figures
<1> QED
  BY <1>1, <1>5 DEF Store!Init, Figures, Running

\* The figures that the users see behave as a map that outlives the process.
THEOREM FiguresOutliveTheProcess == Spec => StoreRefined
<1>1. Init => RestartInv /\ StoreInv /\ Store!Init
  <2>1. Init => LoadLeads
    BY DEF Init, LoadLeads
  <2> QED
    BY <2>1, InitInv, InitTracked, InitStore DEF StoreInv
<1>2. RestartInv /\ [Next]_vars => RestartInv'
  BY NextKeeps
<1>3. RestartInv /\ StoreInv => Agreeing
  BY StoreAgrees
<1>4. RestartInv /\ RestartInv' /\ StoreInv /\ Agreeing /\ [Next]_vars => StoreInv'
  BY StoreMoves
<1>5. RestartInv /\ RestartInv' /\ StoreInv /\ Agreeing /\ Agreeing' /\ [Next]_vars
        => [Store!Next]_Store!vars
  BY StoreMoves, MoveIsStoreStep
<1> QED
  BY <1>1, <1>2, <1>3, <1>4, <1>5, PTL DEF Spec, StoreRefined, Store!Spec

=============================================================================
