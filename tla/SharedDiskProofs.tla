-------------------------- MODULE SharedDiskProofs --------------------------
(***************************************************************************)
(* The figure server and the manager menu on one disk, whatever the names, *)
(* the texts, the block size and the disk, and whenever either is killed.  *)
(* Nothing keeps the two from running at once, and each writes the header  *)
(* and its inodes when it ends.  The invariant says why that is harmless   *)
(* while no deletion overlaps a session of the server: the table of the    *)
(* server is a beginning of the manager's, each of its inodes equal to the *)
(* manager's or read before it was completed, so that what the server      *)
(* writes relinks the first inodes in the order they have and takes no     *)
(* contents from any figure that it found when it started.                 *)
(***************************************************************************)
EXTENDS FigureKillProofs, SharedDisk

-----------------------------------------------------------------------------
(* The invariant of the two processes, while no deletion is torn and none  *)
(* overlaps a session of the server.                                       *)

\* Between two sessions of the manager no deletion is unsaved.
Resting == pc \in {"closed", "loading"} => deletion = "none"

\* What the manager's destructor has written, the server may write over; not when
\* a deletion is being saved, since no server runs then.
SavingInv ==
  pc \notin {"saveInode", "closed", "loading"} \/ deletion # "none" => OnDiskAsSaved

\* The manager's constructor has the first of the inodes that matter, each with
\* its contents, and has to read the next one.
LoadFollows ==
  pc = "loading" =>
    /\ sb.count > 0
    /\ Len(table) < Len(saved)
    /\ op.cur = saved[Len(table) + 1].orig
    /\ \A i \in DOMAIN table : /\ Alike(saved[i], table[i])
                               /\ table[i].next = saved[i + 1].orig

ManagerInv == DiskInv /\ KillInv /\ Resting /\ SavingInv /\ LoadFollows

ServerTyped == sSb \in SuperBlocks /\ sTable \in Seq(Inodes) /\ sOp \in Operations

\* How many inodes the server has, the one it is about to read included.
Foreseen == Len(sTable) + (IF sPc = "loading" THEN 1 ELSE 0)

\* The server's inode i is the manager's, or the server read it before any of
\* its contents were saved.
Copied(i) == \/ sTable[i] = NewInode(Live[i].name, Live[i].orig)
             \/ Alike(Live[i], sTable[i]) /\ Seen(i)

\* The server has the first of the inodes that matter, and the disk leads to
\* them.  What its destructor writes therefore links some of the inodes that
\* the disk has in the order that they have.
ServerFollows ==
  sPc # "closed" =>
    /\ deletion = "none"
    /\ sPc \in {"loading", "idle", "saveHeader", "saveInode"}
    /\ \A i \in 1..Foreseen : Reached(i)
    /\ sPc = "loading" => sOp.cur = Live[Foreseen].orig
    /\ sPc = "loading" \/ sTable # <<>> => sSb.count > 0
    /\ sPc = "saveInode" => sOp.left \in DOMAIN sTable
    /\ \A i \in DOMAIN sTable :
         Copied(i) /\ sTable[i].next = IF i < Foreseen THEN Live[i + 1].orig ELSE 0

\* The disk leads to the inode of figure n, and so does the table of the server
\* that has loaded it.
KeptAt(i) ==
  /\ deletion = "none" => Seen(i)
  /\ sPc # "closed" /\ i \in DOMAIN sTable => Alike(Live[i], sTable[i])
  /\ sPc \notin {"closed", "loading"} => i \in DOMAIN sTable

KeptFollows(tail) ==
  \A n \in DOMAIN kept :
    /\ kept[n] # <<>>
    /\ n \in DOMAIN Figs(Live, Hidden, tail) /\ Figs(Live, Hidden, tail)[n] = kept[n]
    /\ KeptAt(IndexIn(Live, n))

Ok == ~mixed /\ deletion # "torn"

-----------------------------------------------------------------------------
(* What the steps of the manager leave of what is seen.                    *)

\* A kill, or a constructor that finds fewer inodes, keeps those that the disk
\* leads to.
LEMMA ShrinkSees ==
  ASSUME DiskInv, KillInv, NEW s, NEW m, ShrinksTo(s, m)
  PROVE  KeepsSeen
<1>1. PICK n, t, h, d : n = Len(Live) /\ t = Live /\ h = header /\ d = data
  OBVIOUS
<1>2. Shaped(t, n, d) /\ Foretells(t, h, d, FALSE)
  BY <1>1, LiveShaped DEF KillInv, ShrinksTo
<1>3. m \in 0..n /\ Shrinks(t, s, h, d, m)
  BY <1>1 DEF ShrinksTo
<1>4. Live' = s /\ header' = h /\ data' = d /\ ~Beginning' /\ ~Deleting'
  BY <1>1 DEF ShrinksTo, Beginning, Deleting
<1>5. n \in Nat /\ m \in Nat /\ m <= n /\ DOMAIN t = 1..n
  BY <1>2, <1>3 DEF Shaped
<1>6. /\ DOMAIN s = 1..m
      /\ \A i \in 1..m : s[i].name = t[i].name /\ s[i].orig = t[i].orig
  BY <1>3 DEF Shrinks, Salvaged, Left
<1>7. ASSUME NEW i, Reached(i) PROVE i \in 1..m /\ StillReached(i)
  <2>1. i \in 1..n /\ i \in Nat /\ Reach(t, h, d, i)
    BY <1>1, <1>5, <1>7 DEF Reached
  <2>2. ASSUME ~(i <= m) PROVE FALSE
    <3>1. m + 1 \in 1..i /\ m + 1 \in 1..n
      BY <1>5, <2>1, <2>2
    <3>2. Pointer(t, h, d, m + 1) = t[m + 1].orig
      BY <2>1, <3>1 DEF Reach
    <3> QED
      BY <1>2, <1>3, <3>1, <3>2 DEF Shrinks, Shaped
  <2>3. i \in 1..m /\ \A j \in 1..i : j \in 1..m
    BY <1>5, <2>1, <2>2
  <2>4. Reach(s, h, d, i)
    <3>1. \A j \in 1..i : s[j].orig = t[j].orig
      BY <1>6, <2>3
    <3> QED
      BY <2>1, <3>1, ReachKept
  <2> QED
    BY <1>1, <1>4, <1>6, <2>3, <2>4 DEF StillReached, Reached
<1>8. \A i \in 1..m : Intact(d, t[i]) => Alike(t[i], s[i]) /\ Intact(d, s[i])
  BY Zenon, <1>2, <1>3, ShrinkingForetells
<1>9. ASSUME NEW i, Seen(i) PROVE StillSeen(i)
  <2>1. i \in 1..m /\ Reached(i)' /\ Intact(d, t[i])
    BY <1>1, <1>7, <1>9 DEF Seen, StillReached
  <2>2. Alike(t[i], s[i]) /\ Intact(d, s[i])
    BY <1>8, <2>1
  <2> QED
    BY <1>1, <1>4, <2>1, <2>2 DEF StillSeen, Seen
<1> QED
  BY <1>7, <1>9 DEF KeepsSeen

\* The disk leads to all inodes of a table that it holds as it is.
LEMMA LaidOutReached ==
  ASSUME NEW t, NEW n, NEW h, NEW d, Shaped(t, n, d), LaidOut(t, n, h, d), NEW i \in 1..n
  PROVE  Reach(t, h, d, i)
<1> SUFFICES ASSUME NEW j \in 1..i PROVE Pointer(t, h, d, j) = t[j].orig
  BY DEF Reach
<1>1. n \in Nat /\ j \in 1..n
  BY DEF Shaped
<1>2. CASE j = 1
  BY <1>1, <1>2 DEF Pointer, LaidOut
<1>3. CASE j # 1
  <2>1. j - 1 \in 1..n /\ j - 1 # n /\ (j - 1) + 1 = j
    BY <1>1, <1>3
  <2>2. d[t[j - 1].orig] = t[j - 1] /\ t[j - 1].next = t[(j - 1) + 1].orig
    BY <2>1 DEF LaidOut
  <2> QED
    BY <1>3, <2>1, <2>2 DEF Pointer
<1> QED
  BY <1>2, <1>3

\* When the destructor ends and nobody wrote on the disk meanwhile, the disk
\* leads to every inode.
LEMMA ClosedSeen ==
  ASSUME RestartInv, RestartInv', Save, pc' = "closed"
  PROVE  \A i \in DOMAIN Live' : Seen(i)'
<1> DiskInv /\ DiskInv'
  BY DEF RestartInv
<1>1. Live' = Live /\ Live' = saved'
  BY SaveLive DEF Live
<1>2. PICK t, n, e, k : t = Live /\ n = Len(t) /\ e = data' /\ k = header'
  OBVIOUS
<1>3. Shaped(t, n, data) /\ t = saved'
  BY <1>1, <1>2, LiveShaped
<1>4. \A b \in Blocks : e[b] \in Payloads
  BY <1>2 DEF DiskInv, TypeInv, TypeOK
<1>5. Shaped(t, n, e)
  BY <1>3, <1>4 DEF Shaped
<1>6. \A i \in DOMAIN t : t[i].next = IF i = n THEN 0 ELSE t[i + 1].orig
  BY <1>2 DEF DiskInv, Linked, Chained
<1>7. \A i \in DOMAIN t : e[t[i].orig] = t[i]
  BY <1>2, <1>3 DEF RestartInv, OnDiskAsSaved
<1>8. IF t = <<>> THEN k.first = 0 ELSE k.init # 0 /\ k.count > 0 /\ k.first = t[1].orig
  BY <1>2, <1>3 DEF RestartInv, OnDiskAsSaved, HeaderLeadsTo
<1>9. t = <<>> <=> n = 0
  BY <1>2, LiveTyped DEF DiskInv
<1>10. LaidOut(t, n, k, e) /\ DOMAIN t = 1..n
  BY <1>3, <1>6, <1>7, <1>8, <1>9 DEF LaidOut, Shaped
<1>11. ASSUME NEW i \in DOMAIN t PROVE Reach(t, k, e, i) /\ Intact(e, t[i])
  <2>1. Reach(t, k, e, i)
    BY <1>5, <1>10, LaidOutReached
  <2>2. \A j \in 1..n : Intact(e, t[j])
    BY Zenon, <1>5, <1>10, LaidOutForetells
  <2> QED
    BY <1>10, <2>1, <2>2
<1>12. ~Beginning' /\ ~Deleting'
  BY DEF Beginning, Deleting
<1> QED
  BY <1>1, <1>2, <1>11, <1>12 DEF Seen, Reached

\* Steps that write no inode, neither in the table nor on the disk.
LEMMA QuietStepSees ==
  ASSUME DiskInv, DiskInv',
         \/ Close \/ ExtendDisk \/ AllocInode \/ AllocNext \/ UNCHANGED vars
         \/ \E n \in Names, t \in Texts : MakeFile(n, t)
  PROVE  KeepsSeen
<1>1. Live' = Live /\ UNCHANGED <<header, data>>
  BY DEF Close, ExtendDisk, AllocInode, AllocNext, MakeFile, vars, disk, memory, history, Live
<1>2. Beginning' \/ Deleting' => (Beginning \/ Deleting) /\ Touched' = Touched
  <2>1. CASE Close \/ AllocInode \/ \E n \in Names, t \in Texts : MakeFile(n, t)
    BY <2>1 DEF Close, AllocInode, MakeFile, Beginning, Deleting
  <2>2. CASE ExtendDisk \/ UNCHANGED vars
    BY <2>2 DEF ExtendDisk, vars, Beginning, Deleting, Touched, IndexOf
  <2>3. CASE AllocNext
    BY <2>3 DEF AllocNext, Beginning, Touched, IndexOf, DiskInv, TypeInv, TypeOK, Operations
  <2> QED
    BY <2>1, <2>2, <2>3
<1> QED
  BY <1>1, <1>2, QuietSees

\* All steps of the manager between two deletions, once its constructor is
\* through.
LEMMA WorkSees ==
  ASSUME DiskInv, DiskInv', Chains, [Next]_vars, ~Load, deletion = "none",
         deletion' = "none", KillInv
  PROVE  KeepsSeen
<1>1. PICK who \in [Blocks -> BlockOrNone], pos \in [Blocks -> Nat] : ChainsAre(who, pos)
  BY DEF Chains
<1>2. ~Deleting
  BY DEF KillInv
<1>3. ~Delete
  BY <1>2 DEF Delete, ClearData, ClearInode, Deleting
<1>4. ASSUME NEW n, DeleteFile(n) PROVE FALSE
  BY <1>4 DEF DeleteFile
<1>5. CASE \/ Close \/ ExtendDisk \/ AllocInode \/ AllocNext \/ UNCHANGED vars
           \/ \E n \in Names, t \in Texts : MakeFile(n, t)
  BY <1>5, QuietStepSees
<1>6. CASE \/ WriteInode \/ AllocFirst \/ WriteData \/ Link \/ SaveHeader \/ SaveInode
  BY <1>1, <1>6, WriteInodeSees, AllocFirstSees, WriteDataSees, LinkSees, SaveHeaderSees,
     SaveInodeSees
<1> QED
  BY <1>3, <1>4, <1>5, <1>6 DEF Next, Make, Save

-----------------------------------------------------------------------------
(* A server that does nothing still follows.                               *)

\* Figure n stays, with its text.
Keeps(F, G, n) == n \in DOMAIN F => n \in DOMAIN G /\ G[n] = F[n]

\* What a step of the manager leaves: what is seen stays so while no deletion
\* is unsaved, and is seen again when one is saved; the figures stay but for
\* the one deleted and, after a kill, those that are not on the disk.
Stays(tail, tl) ==
  /\ deletion = "none" /\ deletion' = "none" => KeepsSeen
  /\ deletion # "none" /\ deletion' = "none" => \A i \in DOMAIN Live' : Seen(i)'
  /\ \A n : /\ Removing => n # op'.name
            /\ deletion = "none" => /\ Seen(IndexIn(Live, n))
                                    /\ Figs(Live, Hidden, tail)[n] # <<>>
            => Keeps(Figs(Live, Hidden, tail), Figs(Live, Hidden, tl)', n)

LEMMA ServerStays ==
  ASSUME ServerTyped, ServerFollows, UNCHANGED serverVars,
         sPc # "closed" => deletion' = "none",
         deletion = "none" /\ deletion' = "none" => KeepsSeen
  PROVE  ServerTyped' /\ ServerFollows'
<1>1. ServerTyped'
  BY DEF ServerTyped, serverVars
<1>2. SUFFICES ASSUME sPc # "closed" PROVE ServerFollows'
  BY <1>1 DEF ServerFollows, serverVars
<1>3. deletion = "none" /\ deletion' = "none" /\ KeepsSeen
  BY <1>2 DEF ServerFollows
<1>4. sTable' = sTable /\ sPc' = sPc /\ sOp' = sOp /\ sSb' = sSb /\ Foreseen' = Foreseen
  BY DEF serverVars, Foreseen
<1>5. PICK l \in Nat : l = Len(sTable) /\ DOMAIN sTable = 1..l
  BY LenProperties DEF ServerTyped
<1>6. PICK N : N = Foreseen
  OBVIOUS
<1>7. N \in Nat /\ (N = l \/ N = l + 1) /\ (sPc = "loading" => N = l + 1)
  BY <1>5, <1>6 DEF Foreseen
<1>8. ASSUME NEW i \in 1..N
      PROVE  Reached(i)' /\ Live'[i].name = Live[i].name /\ Live'[i].orig = Live[i].orig
  BY <1>2, <1>3, <1>6 DEF ServerFollows, KeepsSeen, StillReached
<1>9. sPc = "loading" => sOp.cur = Live'[N].orig
  <2>1. sPc = "loading" => N \in 1..N
    BY <1>5, <1>7
  <2> QED
    BY <1>2, <1>6, <1>8, <2>1 DEF ServerFollows
<1>10. ASSUME NEW i \in DOMAIN sTable
       PROVE  /\ Copied(i)'
              /\ sTable[i].next = IF i < N THEN Live'[i + 1].orig ELSE 0
  <2>1. i \in 1..N /\ (i < N => i + 1 \in 1..N)
    BY <1>5, <1>7, <1>10
  <2>2. Copied(i) /\ sTable[i].next = IF i < N THEN Live[i + 1].orig ELSE 0
    BY <1>2, <1>6 DEF ServerFollows
  <2>3. Seen(i) => Seen(i)' /\ Alike(Live[i], Live'[i])
    BY <1>3 DEF KeepsSeen, StillSeen
  <2>4. Copied(i)'
    BY <1>4, <1>8, <2>1, <2>2, <2>3 DEF Copied, Alike
  <2> QED
    BY <1>8, <2>1, <2>2, <2>4
<1> QED
  BY <1>2, <1>3, <1>4, <1>6, <1>8, <1>9, <1>10 DEF ServerFollows

LEMMA KeptStays ==
  ASSUME TypeInv, TypeInv', ServerFollows, UNCHANGED serverVars,
         sPc # "closed" => deletion' = "none",
         NEW tail, NEW tl, KeptFollows(tail), Stays(tail, tl), Distinct(Live'),
         \A n \in DOMAIN kept' :
           n \in DOMAIN kept /\ kept'[n] = kept[n] /\ (Removing => n # op'.name)
  PROVE  KeptFollows(tl)'
<1> SUFFICES ASSUME NEW n \in DOMAIN kept'
             PROVE  /\ kept'[n] # <<>>
                    /\ n \in DOMAIN Figs(Live, Hidden, tl)'
                    /\ Figs(Live, Hidden, tl)'[n] = kept'[n]
                    /\ KeptAt(IndexIn(Live, n))'
  BY DEF KeptFollows
<1>1. PICK F, G : F = Figs(Live, Hidden, tail) /\ G = Figs(Live, Hidden, tl)'
  OBVIOUS
<1>2. PICK i : i = IndexIn(Live, n)
  OBVIOUS
<1>3. /\ kept'[n] = kept[n] /\ kept[n] # <<>> /\ n \in DOMAIN F /\ F[n] = kept[n]
      /\ KeptAt(i) /\ (Removing => n # op'.name)
  BY <1>1, <1>2 DEF KeptFollows
<1>4. n \in DOMAIN G /\ G[n] = F[n]
  BY <1>1, <1>2, <1>3 DEF Stays, Keeps, KeptAt
<1>5. Live \in Seq(Inodes) /\ Live' \in Seq(Inodes)
  BY DEF TypeInv, TypeOK, Live
<1>6. PICK t, u, g : t = Live /\ u = Live' /\ g = Hidden' /\ G = Figs(u, g, tl)
  BY <1>1
<1>7. n \in Named(u)
  BY <1>4, <1>6 DEF Figs
<1>8. IndexIn(u, n) \in DOMAIN u /\ u[IndexIn(u, n)].name = n
  BY <1>5, <1>6, <1>7, NamesLead
<1>9. KeptAt(IndexIn(u, n))'
  <2>1. CASE deletion' # "none"
    BY <2>1 DEF KeptAt, serverVars
  <2>2. CASE deletion # "none" /\ deletion' = "none"
    <3>1. sPc' = "closed"
      BY <2>2 DEF ServerFollows, serverVars
    <3>2. Seen(IndexIn(u, n))'
      BY <1>6, <1>8, <2>2 DEF Stays
    <3> QED
      BY <3>1, <3>2 DEF KeptAt
  <2>3. CASE deletion = "none" /\ deletion' = "none"
    <3>1. Seen(i)' /\ Alike(t[i], u[i])
      BY <1>3, <1>6, <2>3 DEF Stays, KeptAt, KeepsSeen, StillSeen
    <3>2. i \in DOMAIN u
      BY <1>6, <3>1 DEF Seen, Reached
    <3>3. n \in Named(t) /\ t[i].name = n
      <4>1. n \in Named(t)
        BY <1>1, <1>3, <1>6 DEF Figs
      <4> QED
        BY <1>2, <1>5, <1>6, <4>1, NamesLead
    <3>4. u[i].name = n
      BY <3>1, <3>3 DEF Alike
    <3>5. IndexIn(u, n) = i
      BY <1>5, <1>6, <3>2, <3>4, NameLeads
    <3>6. KeptAt(i)'
      BY <1>3, <1>6, <2>3, <3>1 DEF KeptAt, Alike, serverVars
    <3> QED
      BY <3>5, <3>6
  <2> QED
    BY <2>1, <2>2, <2>3
<1> QED
  BY <1>1, <1>3, <1>4, <1>6, <1>9

-----------------------------------------------------------------------------
(* The steps of the manager.                                               *)

\* What a constructor reads in the block of the L-th inode: that inode or one
\* without contents, which leads to the next inode or to none.
ReadsAs(t, n, d, L, x) ==
  /\ x \in Inodes /\ x.kind = "inode" /\ Left(t[L], x)
  /\ x.next = 0 \/ (L + 1 \in 1..n /\ x.next = t[L + 1].orig)
  /\ Intact(d, t[L]) => Alike(t[L], x)
  /\ Blank(d, t[L]) => x = NewInode(t[L].name, t[L].orig)
  /\ Intact(d, t[L]) \/ (Blank(d, t[L]) /\ x.next = 0)

LEMMA InodeRead ==
  ASSUME NEW t, NEW n, NEW h, NEW d, Shaped(t, n, d), Foretells(t, h, d, FALSE),
         NEW L \in 1..n, NEW x, x = d[t[L].orig]
  PROVE  ReadsAs(t, n, d, L, x)
<1>1. PICK v \in Inodes : v = t[L]
  BY DEF Shaped
<1>2. Intact(d, v) \/ Blank(d, v)
  BY <1>1 DEF Foretells, Shaped
<1>3. x \in Payloads /\ d[v.orig] = x
  BY <1>1 DEF Shaped
<1>4. x \in Inodes /\ x.kind = "inode"
  BY <1>2, <1>3, OnDiskTyped
<1>5. Left(v, x)
  BY <1>2, <1>3, <1>4, OnDiskLeft
<1>6. LeadsTo(t, d, FALSE, x.next, L + 1)
  BY DEF Foretells, Shaped
<1>7. x.next = 0 \/ (L + 1 \in 1..n /\ x.next = t[L + 1].orig)
  BY <1>6 DEF LeadsTo, Shaped
<1>8. Blank(d, v) => x = NewInode(v.name, v.orig) /\ x.next = 0
  BY <1>3 DEF Blank, NewInode, Inode
<1>9. Intact(d, v) => Alike(v, x)
  <2>1. Intact(d, v) => x = [v EXCEPT !.next = x.next]
    BY <1>3 DEF Intact
  <2> QED
    BY <1>1, <2>1 DEF Alike, Inodes
<1> QED
  BY <1>1, <1>2, <1>4, <1>5, <1>7, <1>8, <1>9 DEF ReadsAs

\* Which of the manager's steps there are.
ManagerStays(tail) ==
  ManagerInv' /\ \E tl \in [Blocks -> Seq(Chars)] : Tracked(tl)' /\ Stays(tail, tl)

\* The figures that are seen keep their texts when the others go.
LEMMA ShrinkStays ==
  ASSUME DiskInv, KillInv, TypeInv', NEW s, NEW m, ShrinksTo(s, m),
         NEW tail \in [Blocks -> Seq(Chars)], Tracked(tail)
  PROVE  DiskInv' /\ KillInv' /\ Tracked(tail)' /\ Stays(tail, tail)
<1>1. DiskInv' /\ KillInv'
  BY ShrinkKeeps
<1>2. Tracked(tail)'
  BY ShrinkTracks
<1>3. KeepsSeen
  BY ShrinkSees
<1>4. deletion = "none" /\ deletion' = "none" /\ Hidden' = {}
  BY DEF ShrinksTo, Hidden, Adding, Deleting
<1>5. PICK t, u, g, F, G : /\ t = Live /\ u = Live' /\ g = Hidden /\ F = Figs(t, g, tail)
                           /\ G = Figs(u, {}, tail)
  OBVIOUS
<1>6. t \in Seq(Inodes) /\ u \in Seq(Inodes)
  BY <1>1, <1>5 DEF DiskInv, TypeInv, TypeOK, Live
<1>7. Distinct(u)
  BY <1>2, <1>5 DEF Tracked, Tells
<1>8. ASSUME NEW n, Seen(IndexIn(t, n)), n \in DOMAIN F
      PROVE  n \in DOMAIN G /\ G[n] = F[n]
  <2>1. PICK i : i = IndexIn(t, n)
    OBVIOUS
  <2>2. n \in Named(t) /\ F[n] = TextOf(t[i], tail)
    BY <1>5, <1>8, <2>1 DEF Figs
  <2>3. i \in DOMAIN t /\ t[i].name = n
    BY <1>6, <2>1, <2>2, NamesLead
  <2>4. i \in DOMAIN u /\ Alike(t[i], u[i])
    BY <1>3, <1>5, <1>8, <2>1 DEF KeepsSeen, StillSeen, Seen, Reached
  <2>5. u[i].name = n /\ TextOf(u[i], tail) = TextOf(t[i], tail)
    BY <2>3, <2>4 DEF Alike, TextOf
  <2>6. IndexIn(u, n) = i
    BY <1>6, <1>7, <2>4, <2>5, NameLeads
  <2>7. n \in Named(u)
    BY <2>4, <2>5 DEF Named
  <2> QED
    BY <1>5, <2>2, <2>5, <2>6, <2>7 DEF Figs
<1>9. Stays(tail, tail)
  BY <1>3, <1>4, <1>5, <1>8 DEF Stays, Keeps
<1> QED
  BY <1>1, <1>2, <1>9

\* A kill.
LEMMA CrashStays ==
  ASSUME ManagerInv, NEW tail \in [Blocks -> Seq(Chars)], Tracked(tail), Crash,
         deletion' # "torn"
  PROVE  ManagerStays(tail)
<1>1. deletion = "none" /\ deletion' = "none" /\ pc' = "closed"
  BY DEF Crash
<1>2. PICK s, m : ShrinksTo(s, m)
  BY <1>1, CrashShrinks DEF ManagerInv
<1>3. TypeInv'
  BY CrashTyped DEF ManagerInv, DiskInv
<1>4. DiskInv' /\ KillInv' /\ Tracked(tail)' /\ Stays(tail, tail)
  BY <1>2, <1>3, ShrinkStays DEF ManagerInv
<1>5. Resting' /\ SavingInv' /\ LoadFollows'
  BY <1>1 DEF Resting, SavingInv, LoadFollows
<1> QED
  BY <1>4, <1>5 DEF ManagerStays, ManagerInv

\* The destructor writes an inode, whatever the server wrote before.
LEMMA SaveInodeStays ==
  ASSUME ManagerInv, NEW tail \in [Blocks -> Seq(Chars)], Tracked(tail), SaveInode,
         deletion = "none"
  PROVE  ManagerStays(tail)
<1>1. /\ pc = "saveInode" /\ pc' \in {"saveInode", "closed"} /\ deletion' = "none"
  BY DEF SaveInode, Saved
<1>2. DiskInv /\ KillInv
  BY DEF ManagerInv
<1>3. DiskInv'
  BY <1>2, SaveKeepsDisk DEF Save
<1>4. Tracked(tail)'
  BY <1>2, <1>3, SameTail DEF Save
<1>5. KeepsSeen
  BY <1>2, <1>3, SaveInodeSees
<1>6. Live' = Live /\ UNCHANGED header /\ ~Beginning' /\ ~Deleting'
  BY <1>2, SaveInodeWrites
<1>7. KillInv'
  <2>1. PICK n, L : Shaped(Live, n, data) /\ Writes(Live, n, data, L, Live[L], data')
    BY <1>2, SaveInodeWrites
  <2>2. PICK t, h, d, e : t = Live /\ h = header /\ d = data /\ e = data'
    OBVIOUS
  <2>3. Shaped(t, n, d) /\ Writes(t, n, d, L, t[L], e)
    BY <2>1, <2>2
  <2>4. Foretells(t, h, d, FALSE)
    BY <1>2, <2>2 DEF KillInv
  <2>5. Foretells(t, h, e, FALSE)
    BY <2>3, <2>4, WritingForetells
  <2> QED
    BY <1>1, <1>6, <2>2, <2>5 DEF KillInv
<1>8. Resting' /\ SavingInv' /\ LoadFollows'
  BY <1>1 DEF Resting, SavingInv, LoadFollows
<1>9. Hidden = {} /\ Hidden' = {}
  BY <1>1 DEF Hidden, Adding, Deleting
<1>10. Figs(Live, Hidden, tail)' = Figs(Live, Hidden, tail)
  BY <1>6, <1>9
<1>11. Stays(tail, tail)
  BY <1>1, <1>5, <1>10 DEF Stays, Keeps
<1> QED
  BY <1>3, <1>4, <1>7, <1>8, <1>11 DEF ManagerStays, ManagerInv

\* rm_file begins.
LEMMA DeleteFileStays ==
  ASSUME ManagerInv, NEW tail \in [Blocks -> Seq(Chars)], Tracked(tail),
         NEW n \in Names, DeleteFile(n), deletion # "torn"
  PROVE  ManagerStays(tail)
<1>1. /\ pc = "idle" /\ pc' \in {"clearData", "clearInode"} /\ deletion' = "unsaved"
      /\ op'.name = n /\ UNCHANGED <<header, data, table, saved>>
  BY DEF DeleteFile, NoOp, disk, memory
<1>2. RestartInv
  BY <1>1 DEF ManagerInv, SavingInv, RestartInv
<1>3. RestartInv' /\ DiskInv /\ DiskInv'
  BY <1>2, DeleteFileKeeps DEF RestartInv
<1>4. Tracked(tail)'
  <2>1. PICK who \in [Blocks -> BlockOrNone], pos \in [Blocks -> Nat] :
          ChainsAre(who, pos) /\ Tells(who, pos, tail)
    BY DEF Tracked
  <2> QED
    BY <1>3, <2>1, DeleteFileChains, DeleteFileTells DEF Tracked
<1>5. KillInv'
  BY DeleteFileForetold DEF ManagerInv
<1>6. Resting' /\ SavingInv' /\ LoadFollows'
  BY <1>1, <1>3 DEF Resting, SavingInv, LoadFollows, RestartInv
<1>7. Live' = Live /\ Hidden = {} /\ Hidden' = {n} /\ Removing
  BY <1>1 DEF Live, Hidden, Adding, Deleting, Removing
<1>8. Figs(Live, Hidden, tail)' = Less(Figs(Live, Hidden, tail), n)
  <2>1. PICK t, F : t = Live /\ F = Figs(t, {}, tail)
    OBVIOUS
  <2>2. t \in Seq(Inodes)
    BY <1>3, <2>1 DEF DiskInv, TypeInv, TypeOK, Live
  <2>3. Figs(t, {n}, tail) = Less(F, n)
    BY <2>1, <2>2, FigsHidden
  <2> QED
    BY <1>7, <2>1, <2>3
<1>9. Stays(tail, tail)
  BY <1>1, <1>7, <1>8 DEF Stays, Keeps, Less
<1> QED
  BY <1>3, <1>4, <1>5, <1>6, <1>9 DEF ManagerStays, ManagerInv

\* The other steps of the manager once its constructor is through.
LEMMA WorkStays ==
  ASSUME ManagerInv, NEW tail \in [Blocks -> Seq(Chars)], Tracked(tail),
         Next, ~Load, SaveInode => deletion # "none", deletion # "torn",
         \A n \in Names : ~DeleteFile(n)
  PROVE  ManagerStays(tail)
<1>1. pc \notin {"closed", "loading"}
  BY DEF Next, Save, Close, SaveHeader, SaveInode, ExtendDisk, Make, AllocInode, WriteInode,
         AllocFirst, WriteData, AllocNext, Link, Delete, ClearData, ClearInode, MakeFile
<1>2. pc = "saveInode" => deletion # "none"
  BY DEF Next, Save, Close, SaveHeader, ExtendDisk, Make, AllocInode, WriteInode,
         AllocFirst, WriteData, AllocNext, Link, Delete, ClearData, ClearInode, MakeFile
<1>3. RestartInv /\ KillInv /\ DiskInv
  BY <1>1, <1>2 DEF ManagerInv, SavingInv, RestartInv
<1>4. RestartInv' /\ DiskInv'
  BY <1>3, NextKeeps DEF RestartInv
<1>5. LoadLeads
  BY <1>1 DEF LoadLeads
<1>6. Chains
  BY DEF Tracked, Chains
<1>7. KillInv'
  BY <1>3, <1>4, <1>5, <1>6, NextForetold
<1>8. PICK tl \in [Blocks -> Seq(Chars)] : Tracked(tl)' /\ Moved(tail, tl)
  BY <1>3, <1>4, NextMoves DEF StepMoves
<1>9. /\ pc' # "loading"
      /\ pc' = "closed" => Save /\ deletion' = "none"
      /\ deletion # "none" /\ deletion' = "none" => Save /\ pc' = "closed"
      /\ ~Removing
  BY <1>1 DEF Next, Save, Close, SaveHeader, SaveInode, Saved, ExtendDisk, Make, AllocInode,
         WriteInode, AllocFirst, WriteData, AllocNext, Link, Delete, ClearData, ClearInode,
         MakeFile, Removing, Deleting, history
<1>10. Resting' /\ SavingInv' /\ LoadFollows'
  BY <1>4, <1>9 DEF Resting, SavingInv, LoadFollows, RestartInv
<1>11. deletion = "none" /\ deletion' = "none" => KeepsSeen
  BY <1>3, <1>4, <1>6, WorkSees
<1>12. deletion # "none" /\ deletion' = "none" => \A i \in DOMAIN Live' : Seen(i)'
  BY <1>3, <1>4, <1>9, ClosedSeen
<1>13. PICK F, G : F = Figs(Live, Hidden, tail) /\ G = Figs(Live, Hidden, tl)'
  OBVIOUS
<1>14. G = F \/ \E n, s : n \notin DOMAIN F /\ G = More(F, n, s)
  BY <1>8, <1>9, <1>13 DEF Moved, Moves
<1>15. ASSUME NEW n, n \in DOMAIN F PROVE n \in DOMAIN G /\ G[n] = F[n]
  BY <1>14, <1>15 DEF More
<1>16. Stays(tail, tl)
  BY <1>11, <1>12, <1>13, <1>15 DEF Stays, Keeps
<1> QED
  BY <1>4, <1>7, <1>8, <1>10, <1>16 DEF ManagerStays, ManagerInv

\* The constructor has nothing more to read.
LEMMA LoadEnds ==
  ASSUME ManagerInv, NEW tail \in [Blocks -> Seq(Chars)], Tracked(tail), TypeInv',
         NEW m, m = Len(table'), ShrinksTo(table', m), pc' = "idle",
         table' # <<>> => sb'.count > 0
  PROVE  ManagerStays(tail)
<1>1. DiskInv' /\ KillInv' /\ Tracked(tail)' /\ Stays(tail, tail)
  BY ShrinkStays DEF ManagerInv
<1>2. Resting' /\ LoadFollows'
  BY DEF Resting, LoadFollows
<1>3. SavingInv'
  BY DEF SavingInv, OnDiskAsSaved
<1> QED
  BY <1>1, <1>2, <1>3 DEF ManagerStays, ManagerInv

\* It goes on.
LEMMA LoadGoesOn ==
  ASSUME ManagerInv, NEW tail \in [Blocks -> Seq(Chars)], Tracked(tail), TypeInv',
         pc \in {"closed", "loading"}, pc' = "loading",
         UNCHANGED <<header, used, data, next, saved, deletion>>, LoadFollows'
  PROVE  ManagerStays(tail)
<1>1. deletion = "none" /\ deletion' = "none"
  BY DEF ManagerInv, Resting
<1>2. /\ Live' = Live /\ ~Beginning' /\ ~Deleting' /\ ~Deleting /\ ~Filling /\ ~Filling'
      /\ Hidden = {} /\ Hidden' = {} /\ BeingCleared = {} /\ BeingCleared' = {}
  BY DEF Live, Beginning, Deleting, Filling, Hidden, Adding, BeingCleared
<1>3. DiskInv /\ KillInv
  BY DEF ManagerInv
<1>4. DiskInv'
  <2>1. OneReference' /\ Linked'
    BY <1>2, <1>3, FrameKeeps DEF DiskInv
  <2>2. Working'
    BY DEF Working
  <2> QED
    BY <2>1, <2>2 DEF DiskInv
<1>5. KillInv'
  BY <1>1, <1>2, <1>3 DEF KillInv
<1>6. Tracked(tail)'
  <2>1. PICK who \in [Blocks -> BlockOrNone], pos \in [Blocks -> Nat] :
          ChainsAre(who, pos) /\ Tells(who, pos, tail)
    BY DEF Tracked
  <2>2. ChainsAre(who, pos)'
    BY <1>2, <1>3, <1>4, <2>1, QuietChains
  <2>3. AtText(tail)'
    BY <1>2 DEF AtText, Adding
  <2>4. Tells(who, pos, tail)'
    BY <1>2, <2>1, <2>3, KeepingTells
  <2> QED
    BY <2>2, <2>4 DEF Tracked
<1>7. KeepsSeen
  BY <1>2, <1>3, <1>4, QuietSees
<1>8. Figs(Live, Hidden, tail)' = Figs(Live, Hidden, tail)
  BY <1>2
<1>9. Stays(tail, tail)
  BY <1>1, <1>7, <1>8 DEF Stays, Keeps
<1>10. Resting' /\ SavingInv'
  BY <1>1 DEF Resting, SavingInv
<1> QED
  BY <1>4, <1>5, <1>6, <1>9, <1>10 DEF ManagerStays, ManagerInv

\* What the constructor of the manager has to start with.
LEMMA LoadStarts ==
  ASSUME ManagerInv, pc \in {"closed", "loading"}, NEW n, n = Len(saved)
  PROVE  /\ Live = saved /\ deletion = "none" /\ ~Filling
         /\ Shaped(saved, n, data) /\ Foretells(saved, header, data, FALSE)
<1>1. Live = saved /\ deletion = "none" /\ ~Filling
  BY DEF Live, ManagerInv, Resting, Filling
<1>2. Shaped(saved, n, data)
  BY <1>1, LiveShaped DEF ManagerInv
<1>3. Foretells(saved, header, data, FALSE)
  BY <1>1 DEF ManagerInv, KillInv
<1> QED
  BY <1>1, <1>2, <1>3

LEMMA OpenStays ==
  ASSUME ManagerInv, NEW tail \in [Blocks -> Seq(Chars)], Tracked(tail), Open
  PROVE  ManagerStays(tail)
<1>1. TypeInv /\ TypeInv'
  BY OpenTyped DEF ManagerInv, DiskInv
<1>2. PICK n, t, h, d : n = Len(saved) /\ t = saved /\ h = header /\ d = data
  OBVIOUS
<1>3. /\ Live = t /\ deletion = "none" /\ ~Filling
      /\ Shaped(t, n, d) /\ Foretells(t, h, d, FALSE)
  BY <1>2, LoadStarts DEF Open
<1>4. /\ pc = "closed" /\ table' = <<>> /\ Len(table') = 0
      /\ UNCHANGED <<header, used, data, next, saved, deletion>>
      /\ pc' = IF op'.cur = 0 THEN "idle" ELSE "loading"
  BY DEF Open, disk, history
<1>5. /\ h.first # 0 => h.init # 0 /\ h.count > 0
      /\ h.first = 0 \/ (1 \in DOMAIN t /\ h.first = t[1].orig)
  BY <1>3 DEF Foretells, LeadsTo
<1>6. op'.cur = h.first /\ (h.first # 0 => sb'.count > 0)
  <2>1. op'.cur = IF sb'.count > 0 THEN h.first ELSE 0
    BY <1>2 DEF Open, NoOp
  <2>2. h.init # 0 => sb'.count = h.count
    BY <1>2 DEF Open
  <2> QED
    BY <1>5, <2>1, <2>2
<1>7. CASE h.first = 0
  <2>1. pc' = "idle" /\ Live' = <<>>
    BY <1>4, <1>6, <1>7 DEF Live
  <2>2. Shrinks(t, <<>>, h, d, 0)
    <3>1. Salvaged(t, <<>>, 0)
      BY DEF Salvaged
    <3>2. Chained(<<>>)
      BY DEF Chained
    <3>3. Pointer(t, h, d, 0 + 1) = 0
      BY <1>7 DEF Pointer
    <3> QED
      BY <3>1, <3>2, <3>3 DEF Shrinks
  <2>3. n \in Nat
    BY <1>3 DEF Shaped
  <2>4. ShrinksTo(<<>>, 0)
    BY <1>2, <1>3, <1>4, <2>1, <2>2, <2>3 DEF ShrinksTo
  <2> QED
    BY <1>1, <1>4, <2>1, <2>4, LoadEnds
<1>8. CASE h.first # 0
  <2>1. pc' = "loading" /\ sb'.count > 0 /\ op'.cur = t[1].orig
    BY <1>4, <1>5, <1>6, <1>8
  <2>2. 0 < n
    BY <1>3, <1>5, <1>8 DEF Shaped
  <2>3. LoadFollows'
    BY <1>2, <1>4, <2>1, <2>2 DEF LoadFollows
  <2> QED
    BY <1>1, <1>4, <2>1, <2>3, LoadGoesOn
<1> QED
  BY <1>7, <1>8

LEMMA LoadInodeStays ==
  ASSUME ManagerInv, NEW tail \in [Blocks -> Seq(Chars)], Tracked(tail), LoadInode
  PROVE  ManagerStays(tail)
<1>1. TypeInv /\ TypeInv'
  BY LoadTyped DEF ManagerInv, DiskInv
<1>2. PICK n, t, h, d : n = Len(saved) /\ t = saved /\ h = header /\ d = data
  OBVIOUS
<1>3. /\ Live = t /\ deletion = "none" /\ ~Filling
      /\ Shaped(t, n, d) /\ Foretells(t, h, d, FALSE)
  BY <1>2, LoadStarts DEF LoadInode
<1>4. pc = "loading" /\ UNCHANGED <<header, used, data, next, sb, saved, deletion>>
  BY DEF LoadInode, disk, history
<1>5. PICK k \in Nat : k = Len(table) /\ DOMAIN table = 1..k
  BY <1>1, LenProperties DEF TypeInv, TypeOK
<1>6. /\ sb.count > 0 /\ k < n /\ op.cur = t[k + 1].orig
      /\ \A i \in 1..k : Alike(t[i], table[i]) /\ table[i].next = t[i + 1].orig
  BY <1>2, <1>4, <1>5 DEF ManagerInv, LoadFollows
<1>7. n \in Nat /\ k + 1 \in 1..n /\ DOMAIN t = 1..n
  BY <1>3, <1>5, <1>6 DEF Shaped
<1>8. PICK x : x = d[t[k + 1].orig]
  OBVIOUS
<1>9. /\ x \in Inodes /\ x.kind = "inode" /\ Left(t[k + 1], x)
      /\ x.next = 0 \/ ((k + 1) + 1 \in 1..n /\ x.next = t[(k + 1) + 1].orig)
      /\ Intact(d, t[k + 1]) => Alike(t[k + 1], x)
      /\ Intact(d, t[k + 1]) \/ (Blank(d, t[k + 1]) /\ x.next = 0)
  <2>1. PICK L \in 1..n : L = k + 1
    BY <1>7
  <2>2. x = d[t[L].orig]
    BY Zenon, <1>8, <2>1
  <2>3. Shaped(t, n, d)
    BY <1>3
  <2>4. Foretells(t, h, d, FALSE)
    BY <1>3
  <2>5. ReadsAs(t, n, d, L, x)
    BY <2>2, <2>3, <2>4, InodeRead
  <2>6. /\ x \in Inodes /\ x.kind = "inode" /\ Left(t[L], x)
        /\ x.next = 0 \/ (L + 1 \in 1..n /\ x.next = t[L + 1].orig)
        /\ Intact(d, t[L]) => Alike(t[L], x)
        /\ Intact(d, t[L]) \/ (Blank(d, t[L]) /\ x.next = 0)
    BY Zenon, <2>5 DEF ReadsAs
  <2> QED
    BY Zenon, <2>1, <2>6
<1>10. InodeAt(op.cur) = x
  BY <1>2, <1>6, <1>8, <1>9 DEF InodeAt
<1>11. /\ table' = Append(table, x) /\ op' = [op EXCEPT !.cur = x.next]
       /\ pc' = IF x.next = 0 THEN "idle" ELSE "loading"
  BY <1>2, <1>6, <1>8, <1>9, <1>10 DEF LoadInode
<1>12. /\ table' \in Seq(Inodes) /\ Len(table') = k + 1 /\ DOMAIN table' = 1..(k + 1)
       /\ table'[k + 1] = x /\ \A i \in 1..k : table'[i] = table[i]
  BY <1>1, <1>5, <1>9, <1>11, AppendProperties DEF TypeInv, TypeOK
<1>13. op'.cur = x.next
  BY <1>1, <1>11 DEF TypeInv, TypeOK, Operations
<1>14. CASE x.next = 0
  <2>1. pc' = "idle" /\ Live' = table'
    BY <1>11, <1>14 DEF Live
  <2>2. PICK s : s = table'
    OBVIOUS
  <2>3. /\ s \in Seq(Inodes) /\ Len(s) = k + 1 /\ DOMAIN s = 1..(k + 1)
        /\ s[k + 1] = x /\ \A i \in 1..k : Alike(t[i], s[i]) /\ s[i].next = t[i + 1].orig
    BY <1>6, <1>12, <2>2
  <2>4. \A i \in 1..(k + 1) : i \in 1..k \/ i = k + 1
    BY <1>5
  <2>5. Salvaged(t, s, k + 1)
    <3> SUFFICES ASSUME NEW i \in 1..(k + 1)
                 PROVE  i \in DOMAIN t /\ s[i] \in Inodes /\ Left(t[i], s[i])
      BY <2>3 DEF Salvaged
    <3>1. i \in DOMAIN t
      BY <1>5, <1>7
    <3>2. s[i] \in Inodes
      BY <2>3, ElementOfSeq
    <3>3. Left(t[i], s[i])
      BY <1>9, <2>3, <2>4 DEF Left, Alike
    <3> QED
      BY <3>1, <3>2, <3>3
  <2>6. Chained(s)
    <3> SUFFICES ASSUME NEW i \in 1..(k + 1)
                 PROVE  s[i].next = IF i = k + 1 THEN 0 ELSE s[i + 1].orig
      BY <2>3 DEF Chained
    <3>1. CASE i = k + 1
      BY <1>14, <2>3, <3>1
    <3>2. CASE i # k + 1
      <4>1. i \in 1..k /\ (i + 1 \in 1..k \/ i + 1 = k + 1) /\ i + 1 \in 1..(k + 1)
        BY <1>5, <3>2
      <4>2. s[i + 1].orig = t[i + 1].orig
        BY <2>5, <4>1 DEF Salvaged, Left
      <4> QED
        BY <2>3, <3>2, <4>1, <4>2
    <3> QED
      BY <3>1, <3>2
  <2>7. Pointer(t, h, d, (k + 1) + 1) = 0
    <3>1. (k + 1) + 1 # 1 /\ ((k + 1) + 1) - 1 = k + 1
      BY <1>5
    <3> QED
      BY <1>8, <1>14, <3>1 DEF Pointer
  <2>8. Shrinks(t, s, h, d, k + 1)
    BY <1>8, <2>3, <2>4, <2>5, <2>6, <2>7 DEF Shrinks
  <2>9. ShrinksTo(s, k + 1)
    BY <1>2, <1>3, <1>4, <1>5, <1>6, <1>7, <2>1, <2>2, <2>8 DEF ShrinksTo
  <2> QED
    BY <1>1, <1>4, <1>6, <1>12, <2>1, <2>2, <2>9, LoadEnds
<1>15. CASE x.next # 0
  <2>1. pc' = "loading"
    BY <1>11, <1>15
  <2>2. (k + 1) + 1 \in 1..n /\ op'.cur = t[(k + 1) + 1].orig /\ Alike(t[k + 1], x)
    BY <1>9, <1>13, <1>15
  <2>3. k + 1 < n
    BY <1>5, <1>7, <2>2
  <2>4. ASSUME NEW i \in 1..(k + 1)
        PROVE  Alike(t[i], table'[i]) /\ table'[i].next = t[i + 1].orig
    <3>1. CASE i \in 1..k
      BY <1>6, <1>12, <3>1
    <3>2. CASE i = k + 1
      BY <1>9, <1>12, <1>15, <2>2, <3>2
    <3> QED
      BY <1>5, <3>1, <3>2
  <2>5. LoadFollows'
    BY <1>2, <1>4, <1>6, <1>12, <2>2, <2>3, <2>4 DEF LoadFollows
  <2> QED
    BY <1>1, <1>4, <2>1, <2>5, LoadGoesOn
<1> QED
  BY <1>14, <1>15

\* Every step of the manager, kills included, that tears no deletion.
LEMMA ManagerSteps ==
  ASSUME ManagerInv, NEW tail \in [Blocks -> Seq(Chars)], Tracked(tail),
         Next \/ Crash, deletion # "torn", deletion' # "torn"
  PROVE  ManagerStays(tail)
<1>1. CASE Crash
  BY <1>1, CrashStays
<1>2. CASE Load
  BY <1>2, OpenStays, LoadInodeStays DEF Load
<1>3. CASE SaveInode /\ deletion = "none"
  BY <1>3, SaveInodeStays
<1>4. CASE \E n \in Names : DeleteFile(n)
  BY <1>4, DeleteFileStays
<1>5. CASE /\ Next /\ ~Load /\ (SaveInode => deletion # "none")
           /\ \A n \in Names : ~DeleteFile(n)
  BY <1>5, WorkStays
<1> QED
  BY <1>1, <1>2, <1>3, <1>4, <1>5

-----------------------------------------------------------------------------
(* What the server does, in the words of the manager: its actions are those *)
(* of FigureDisk over the same disk, with a memory of its own.              *)

LEMMA ServerOpened ==
  ASSUME Server!Open
  PROVE  /\ sPc = "closed" /\ sTable' = <<>> /\ UNCHANGED disk
         /\ sSb' = IF header.init # 0
                   THEN [total |-> header.total, free |-> header.free,
                         used |-> header.used, count |-> header.count]
                   ELSE FreshSuperBlock
         /\ sOp' = [NoOp EXCEPT !.cur = IF sSb'.count > 0 THEN header.first ELSE 0]
         /\ sPc' = IF sOp'.cur = 0 THEN "idle" ELSE "loading"
BY DEF Server!Open, Server!NoOp, NoOp, Server!FreshSuperBlock, FreshSuperBlock,
       Server!InitBlocks, InitBlocks, Server!disk, disk

LEMMA ServerLoaded ==
  ASSUME Server!LoadInode
  PROVE  /\ sPc = "loading" /\ UNCHANGED <<disk, sSb>>
         /\ data[sOp.cur].kind # "text" =>
              /\ sTable' = Append(sTable, InodeAt(sOp.cur))
              /\ sOp' = [sOp EXCEPT !.cur = InodeAt(sOp.cur).next]
              /\ sPc' = IF InodeAt(sOp.cur).next = 0 THEN "idle" ELSE "loading"
BY DEF Server!LoadInode, Server!InodeAt, InodeAt, Server!NewInode, NewInode,
       Server!Inode, Inode, Server!disk, disk

LEMMA ServerClosing ==
  ASSUME Server!Close
  PROVE  /\ sPc = "idle" /\ sPc' = "saveHeader" /\ sOp' = NoOp
         /\ UNCHANGED <<disk, sSb, sTable>>
BY DEF Server!Close, Server!NoOp, NoOp, Server!disk, disk, Server!memory

LEMMA ServerSaved ==
  ASSUME Server!Saved
  PROVE  sTable' = <<>> /\ sSb' = FreshSuperBlock /\ sOp' = NoOp /\ sPc' = "closed"
BY DEF Server!Saved, Server!NoOp, NoOp, Server!FreshSuperBlock, FreshSuperBlock,
       Server!InitBlocks, InitBlocks

LEMMA ServerSavedHeader ==
  ASSUME Server!SaveHeader
  PROVE  /\ sPc = "saveHeader" /\ UNCHANGED <<used, data, next>>
         /\ header' = [init |-> InitBlocks, total |-> sSb.total, free |-> sSb.free,
                       used |-> sSb.used, count |-> sSb.count,
                       first |-> IF sTable = <<>> THEN 0 ELSE sTable[1].orig]
         /\ sTable = <<>> => Server!Saved
         /\ sTable # <<>> => /\ sOp' = [NoOp EXCEPT !.left = 1] /\ sPc' = "saveInode"
                             /\ UNCHANGED <<sSb, sTable>>
BY DEF Server!SaveHeader, Server!NoOp, NoOp, Server!InitBlocks, InitBlocks,
       Server!memory

LEMMA ServerSavedInode ==
  ASSUME Server!SaveInode
  PROVE  /\ sPc = "saveInode" /\ UNCHANGED <<used, next>>
         /\ sTable[sOp.left].orig # 0 =>
              /\ UNCHANGED header
              /\ data' = [data EXCEPT ![sTable[sOp.left].orig] = sTable[sOp.left]]
         /\ sOp.left = Len(sTable) => Server!Saved
         /\ sOp.left # Len(sTable) => /\ sOp' = [sOp EXCEPT !.left = @ + 1]
                                      /\ UNCHANGED <<sSb, sTable, sPc>>
BY DEF Server!SaveInode, Server!memory

LEMMA ServerCrashed ==
  ASSUME Server!Crash
  PROVE  /\ sPc # "closed" /\ UNCHANGED disk /\ sSb' = FreshSuperBlock
         /\ sTable' = <<>> /\ sOp' = NoOp /\ sPc' = "closed"
BY DEF Server!Crash, Server!NoOp, NoOp, Server!FreshSuperBlock, FreshSuperBlock,
       Server!InitBlocks, InitBlocks, Server!disk, disk

\* What the server has in memory before its constructor.
LEMMA EmptyTyped ==
  FreshSuperBlock \in SuperBlocks /\ NoOp \in Operations /\ <<>> \in Seq(Inodes)
<1>1. FreshSuperBlock \in SuperBlocks
  BY DEF FreshSuperBlock, SuperBlocks, InitBlocks
<1>2. 0 \in BlockOrNone
  BY BlockTyped
<1>3. NoOp \in Operations
  BY <1>2 DEF NoOp, Operations
<1> QED
  BY <1>1, <1>3

-----------------------------------------------------------------------------
(* The steps of the server.                                                *)

\* A step that changes nothing of the manager's memory, and on the disk no flag
\* and no link of data blocks.
Aside == UNCHANGED <<managerVars, used, next>>

LEMMA AsideSame ==
  ASSUME Aside
  PROVE  /\ Live' = Live /\ Touched' = Touched /\ Hidden' = Hidden
         /\ (Beginning' <=> Beginning) /\ (Deleting' <=> Deleting) /\ (Filling' <=> Filling)
         /\ BeingCleared' = BeingCleared /\ BeingFilled' = BeingFilled
         /\ Wr' = Wr /\ Re' = Re
BY DEF Aside, managerVars, Live, Touched, IndexOf, Hidden, Adding, Beginning, Deleting,
       Filling, BeingCleared, BeingFilled, Wr, Re

\* No block of a chain is written.
LEMMA AsideTells ==
  ASSUME Aside, NEW who \in [Blocks -> BlockOrNone], NEW pos \in [Blocks -> Nat],
         NEW tail \in [Blocks -> Seq(Chars)], Tells(who, pos, tail),
         \A b \in Blocks : who[b] # 0 => data'[b] = data[b]
  PROVE  Tells(who, pos, tail)'
<1>1. PICK t, nx, d, e, wr, re : /\ t = Live /\ nx = next /\ d = data /\ e = data'
                                 /\ wr = Wr /\ re = Re
  OBVIOUS
<1>2. Written(t, nx, d, who, pos, tail, wr, re)
  BY <1>1 DEF Tells
<1>3. Written(t, nx, e, who, pos, tail, wr, re)
  <2> SUFFICES ASSUME NEW b \in Blocks, NEW i \in DOMAIN t, who[b] # 0,
                      who[b] = t[i].orig
               PROVE  Fits(t[i].size, wr[i], re[i], nx, e, pos, tail, b)
    BY DEF Written
  <2>1. Fits(t[i].size, wr[i], re[i], nx, d, pos, tail, b)
    BY <1>2 DEF Written
  <2>2. e[b] = d[b]
    BY <1>1
  <2> QED
    BY <2>1, <2>2 DEF Fits
<1>4. /\ t = Live' /\ nx = next' /\ wr = Wr' /\ re = Re'
      /\ BeingFilled' = BeingFilled
  BY <1>1, AsideSame DEF Aside
<1>5. Written(Live, next, data, who, pos, tail, Wr, Re)'
  BY <1>1, <1>3, <1>4
<1>6. Ended(Live, who, pos, tail, BeingFilled)' /\ Distinct(Live)'
  BY <1>1, <1>4 DEF Tells
<1>7. AtText(tail)'
  BY DEF Tells, AtText, Aside, managerVars, Adding, Filling, Touched, IndexOf
<1> QED
  BY <1>5, <1>6, <1>7 DEF Tells

\* What the manager keeps when the server writes a header or an inode.
LEMMA AsideKeeps ==
  ASSUME ManagerInv, NEW tail \in [Blocks -> Seq(Chars)], Tracked(tail), Aside,
         deletion = "none", header' \in Headers, data' \in [Blocks -> Payloads],
         \A b \in Blocks : data'[b] = data[b] \/ \E i \in DOMAIN Live : b = Live[i].orig,
         Foretells(Live, header, data, FALSE)',
         Beginning => Blank(data', table[Touched])
  PROVE  ManagerInv' /\ Tracked(tail)'
<1>1. DiskInv /\ KillInv
  BY DEF ManagerInv
<1>2. UNCHANGED <<sb, table, pc, op, saved, kills, deletion, used, next>>
  BY DEF Aside, managerVars
<1>3. DiskInv'
  <2>1. TypeInv'
    BY <1>1, <1>2 DEF DiskInv, TypeInv, TypeOK, Cursors, IndexOf
  <2>2. OneReference' /\ Working' /\ Linked'
    BY <1>1, <1>2, AsideSame
    DEF DiskInv, OneReference, Working, Linked, UsedBlocks
  <2> QED
    BY <2>1, <2>2 DEF DiskInv
<1>4. KillInv'
  BY <1>1, <1>2, AsideSame DEF KillInv
<1>5. Resting' /\ LoadFollows'
  BY <1>2 DEF ManagerInv, Resting, LoadFollows
<1>6. SavingInv'
  <2>1. SUFFICES ASSUME pc \notin {"saveInode", "closed", "loading"} PROVE OnDiskAsSaved'
    BY <1>2 DEF SavingInv
  <2>2. pc # "damaged" /\ (table # <<>> => sb.count > 0)
    BY <2>1 DEF ManagerInv, SavingInv, OnDiskAsSaved
  <2> QED
    BY <1>2, <2>1, <2>2 DEF OnDiskAsSaved
<1>7. Tracked(tail)'
  <2>1. PICK who \in [Blocks -> BlockOrNone], pos \in [Blocks -> Nat] :
          ChainsAre(who, pos) /\ Tells(who, pos, tail)
    BY DEF Tracked
  <2>2. ChainsAre(who, pos)'
    BY <1>2, <2>1, StillChains
  <2>3. ASSUME NEW b \in Blocks, who[b] # 0 PROVE data'[b] = data[b]
    <3>1. \A i \in DOMAIN Live : Live[i].orig # b
      BY <2>1, <2>3, OwnedIsNoInode
    <3> QED
      BY <3>1
  <2>4. Tells(who, pos, tail)'
    BY <2>1, <2>3, AsideTells
  <2> QED
    BY <2>2, <2>4 DEF Tracked
<1> QED
  BY <1>3, <1>4, <1>5, <1>6, <1>7 DEF ManagerInv

\* A step that leaves the disk as it is.
LEMMA IdleKeeps ==
  ASSUME ManagerInv, NEW tail \in [Blocks -> Seq(Chars)], Tracked(tail), Aside,
         deletion = "none", UNCHANGED <<header, data>>
  PROVE  /\ ManagerInv' /\ Tracked(tail)'
         /\ \A i : (Reached(i)' <=> Reached(i)) /\ (Seen(i)' <=> Seen(i))
<1>1. PICK t, h, d : t = Live /\ h = header /\ d = data
  OBVIOUS
<1>2. /\ h \in Headers /\ d \in [Blocks -> Payloads]
      /\ Beginning => Blank(d, table[Touched])
  BY <1>1 DEF ManagerInv, DiskInv, TypeInv, TypeOK, KillInv
<1>3. Foretells(t, h, d, FALSE)
  BY <1>1 DEF ManagerInv, KillInv
<1>4. t = Live' /\ h = header' /\ d = data'
  BY <1>1, AsideSame
<1>5. Foretells(Live, header, data, FALSE)'
  BY <1>3, <1>4
<1>6. ManagerInv' /\ Tracked(tail)'
  BY <1>1, <1>2, <1>4, <1>5, AsideKeeps
<1>7. \A i : Reached(i)' <=> Reached(i)
  BY AsideSame DEF Reached
<1>8. \A i : Seen(i)' <=> Seen(i)
  BY <1>7, AsideSame DEF Seen
<1> QED
  BY <1>6, <1>7, <1>8

\* The figures kept are on the disk and with the server as before.
LEMMA KeptGoesOn ==
  ASSUME Aside, NEW tail, KeptFollows(tail), kept' = kept,
         \A i : KeptAt(i) => KeptAt(i)'
  PROVE  KeptFollows(tail)'
<1> SUFFICES ASSUME NEW n \in DOMAIN kept'
             PROVE  /\ kept'[n] # <<>>
                    /\ n \in DOMAIN Figs(Live, Hidden, tail)'
                    /\ Figs(Live, Hidden, tail)'[n] = kept'[n]
                    /\ KeptAt(IndexIn(Live, n))'
  BY DEF KeptFollows
<1>1. PICK F, t, h : F = Figs(t, h, tail) /\ t = Live /\ h = Hidden
  OBVIOUS
<1>2. /\ kept'[n] # <<>> /\ n \in DOMAIN F /\ F[n] = kept'[n]
      /\ KeptAt(IndexIn(t, n))
  BY <1>1 DEF KeptFollows
<1>3. F = Figs(Live, Hidden, tail)' /\ t = Live'
  BY <1>1, AsideSame
<1>4. KeptAt(IndexIn(t, n))'
  BY <1>2
<1>5. KeptAt(IndexIn(Live, n))'
  BY <1>3, <1>4
<1> QED
  BY <1>2, <1>3, <1>5

\* What holds of the manager, the server and the figures kept, whose texts the
\* chains on the disk tell.
Together(tail) ==
  /\ ManagerInv /\ ServerTyped /\ ServerFollows
  /\ Tracked(tail) /\ KeptFollows(tail)

\* The server goes on with the table that it has.
LEMMA SameFollows ==
  ASSUME ServerTyped, ServerFollows, Aside, UNCHANGED <<sTable, sSb>>,
         sPc \notin {"closed", "loading"}, sPc' \in {"saveHeader", "saveInode"},
         sPc' = "saveInode" => sOp'.left \in DOMAIN sTable, sOp' \in Operations,
         \A i \in DOMAIN sTable :
           /\ Reached(i) => Reached(i)'
           /\ Seen(i) /\ Alike(Live[i], sTable[i]) => Seen(i)',
         NEW tail, KeptFollows(tail), kept' = kept
  PROVE  ServerTyped' /\ ServerFollows' /\ KeptFollows(tail)'
<1>1. ServerTyped'
  BY DEF ServerTyped
<1>2. PICK l \in Nat : l = Len(sTable) /\ DOMAIN sTable = 1..l
  BY LenProperties DEF ServerTyped
<1>3. Foreseen = l /\ Foreseen' = l /\ Live' = Live /\ deletion = "none" /\ deletion' = "none"
  BY <1>2, AsideSame DEF Foreseen, ServerFollows, Aside, managerVars
<1>4. /\ \A i \in 1..l : Reached(i)
      /\ sTable # <<>> => sSb.count > 0
      /\ \A i \in 1..l :
           Copied(i) /\ sTable[i].next = IF i < l THEN Live[i + 1].orig ELSE 0
  BY <1>2, <1>3 DEF ServerFollows
<1>5. \A i \in 1..l : Reached(i)' /\ Copied(i)'
  BY <1>2, <1>3, <1>4 DEF Copied
<1>6. ServerFollows'
  BY <1>2, <1>3, <1>4, <1>5 DEF ServerFollows
<1>7. ASSUME NEW i, KeptAt(i) PROVE KeptAt(i)'
  <2>1. i \in DOMAIN sTable /\ Seen(i) /\ Alike(Live[i], sTable[i])
    BY <1>3, <1>7 DEF KeptAt
  <2> QED
    BY <1>3, <2>1 DEF KeptAt
<1>8. KeptFollows(tail)'
  BY <1>7, KeptGoesOn
<1> QED
  BY <1>1, <1>6, <1>8

\* The server ends.
LEMMA EndFollows ==
  ASSUME Aside, sPc' = "closed", sTable' = <<>>, sSb' = FreshSuperBlock, sOp' = NoOp,
         \A i : KeptAt(i) => Seen(i)',
         NEW tail, KeptFollows(tail), kept' = kept
  PROVE  ServerTyped' /\ ServerFollows' /\ KeptFollows(tail)'
<1>1. ServerTyped'
  BY EmptyTyped DEF ServerTyped
<1>2. ServerFollows'
  BY DEF ServerFollows
<1>3. \A i : KeptAt(i) => KeptAt(i)'
  BY DEF KeptAt
<1>4. KeptFollows(tail)'
  BY <1>3, KeptGoesOn
<1> QED
  BY <1>1, <1>2, <1>4

LEMMA ServerCloseKeeps ==
  ASSUME NEW tail \in [Blocks -> Seq(Chars)], Together(tail), Server!Close,
         UNCHANGED <<managerVars, kept>>
  PROVE  Together(tail)'
<1>1. /\ sPc = "idle" /\ sPc' = "saveHeader" /\ sOp' = NoOp
      /\ UNCHANGED <<sSb, sTable, kept>> /\ UNCHANGED <<header, data>> /\ Aside
  BY ServerClosing DEF disk, Aside
<1>2. ManagerInv /\ ServerTyped /\ ServerFollows /\ Tracked(tail) /\ KeptFollows(tail)
  BY DEF Together
<1>3. deletion = "none"
  BY <1>1, <1>2 DEF ServerFollows
<1>4. /\ ManagerInv' /\ Tracked(tail)'
      /\ \A i : (Reached(i)' <=> Reached(i)) /\ (Seen(i)' <=> Seen(i))
  BY <1>1, <1>2, <1>3, IdleKeeps
<1>5. sOp' \in Operations
  BY <1>1, EmptyTyped
<1>6. ServerTyped' /\ ServerFollows' /\ KeptFollows(tail)'
  BY <1>1, <1>2, <1>4, <1>5, SameFollows
<1> QED
  BY <1>4, <1>6 DEF Together

LEMMA ServerCrashKeeps ==
  ASSUME NEW tail \in [Blocks -> Seq(Chars)], Together(tail), Server!Crash,
         UNCHANGED <<managerVars, kept>>
  PROVE  Together(tail)'
<1>1. /\ sPc # "closed" /\ sPc' = "closed" /\ sOp' = NoOp /\ sTable' = <<>>
      /\ sSb' = FreshSuperBlock /\ kept' = kept /\ UNCHANGED <<header, data>> /\ Aside
  BY ServerCrashed DEF disk, Aside
<1>2. ManagerInv /\ ServerTyped /\ ServerFollows /\ Tracked(tail) /\ KeptFollows(tail)
  BY DEF Together
<1>3. deletion = "none"
  BY <1>1, <1>2 DEF ServerFollows
<1>4. /\ ManagerInv' /\ Tracked(tail)'
      /\ \A i : (Reached(i)' <=> Reached(i)) /\ (Seen(i)' <=> Seen(i))
  BY <1>1, <1>2, <1>3, IdleKeeps
<1>5. \A i : KeptAt(i) => Seen(i)'
  BY <1>3, <1>4 DEF KeptAt
<1>6. ServerTyped' /\ ServerFollows' /\ KeptFollows(tail)'
  BY <1>1, <1>2, <1>5, EndFollows
<1> QED
  BY <1>4, <1>6 DEF Together

\* What the server's table is when its constructor is through.
LEMMA ServerHas ==
  ASSUME ServerTyped, ServerFollows, sPc \notin {"closed", "loading"}
  PROVE  /\ deletion = "none"
         /\ \E l \in Nat :
              /\ l = Len(sTable) /\ DOMAIN sTable = 1..l /\ (sTable = <<>> <=> l = 0)
              /\ sTable # <<>> => sSb.count > 0
              /\ \A i \in 1..l :
                   /\ sTable[i] \in Inodes /\ Reached(i) /\ Copied(i)
                   /\ sTable[i].next = IF i < l THEN Live[i + 1].orig ELSE 0
                   /\ sTable[i].orig = Live[i].orig /\ sTable[i].name = Live[i].name
<1>1. PICK l \in Nat : l = Len(sTable) /\ DOMAIN sTable = 1..l /\ (sTable = <<>> <=> l = 0)
  BY LenProperties, EmptySeq DEF ServerTyped
<1>2. Foreseen = l
  BY <1>1 DEF Foreseen
<1>3. ASSUME NEW i \in 1..l
      PROVE  /\ sTable[i] \in Inodes /\ Reached(i) /\ Copied(i)
             /\ sTable[i].next = IF i < l THEN Live[i + 1].orig ELSE 0
             /\ sTable[i].orig = Live[i].orig /\ sTable[i].name = Live[i].name
  <2>1. sTable[i] \in Inodes
    BY <1>1, ElementOfSeq DEF ServerTyped
  <2>2. /\ Reached(i) /\ Copied(i)
        /\ sTable[i].next = IF i < l THEN Live[i + 1].orig ELSE 0
    BY <1>1, <1>2 DEF ServerFollows
  <2>3. sTable[i].orig = Live[i].orig /\ sTable[i].name = Live[i].name
    BY <2>2 DEF Copied, Alike, NewInode, Inode
  <2> QED
    BY <2>1, <2>2, <2>3
<1> QED
  BY <1>1, <1>2, <1>3 DEF ServerFollows

LEMMA ServerHeaderKeeps ==
  ASSUME NEW tail \in [Blocks -> Seq(Chars)], Together(tail), Server!SaveHeader,
         UNCHANGED <<managerVars, kept>>
  PROVE  Together(tail)'
<1>1. /\ sPc = "saveHeader" /\ kept' = kept /\ data' = data /\ Aside
      /\ header' = [init |-> InitBlocks, total |-> sSb.total, free |-> sSb.free,
                    used |-> sSb.used, count |-> sSb.count,
                    first |-> IF sTable = <<>> THEN 0 ELSE sTable[1].orig]
  BY ServerSavedHeader DEF Aside
<1>2. ManagerInv /\ ServerTyped /\ ServerFollows /\ Tracked(tail) /\ KeptFollows(tail)
      /\ DiskInv
  BY DEF Together, ManagerInv
<1>3. deletion = "none"
  BY <1>1, <1>2, ServerHas
<1>4. PICK l \in Nat :
        /\ DOMAIN sTable = 1..l /\ (sTable = <<>> <=> l = 0)
        /\ sTable # <<>> => sSb.count > 0
        /\ \A i \in 1..l : /\ sTable[i] \in Inodes /\ Reached(i)
                           /\ sTable[i].orig = Live[i].orig
  BY <1>1, <1>2, ServerHas
<1>5. header' \in Headers
  <2>1. /\ sSb.total \in Nat /\ sSb.free \in Int /\ sSb.used \in Int /\ sSb.count \in Nat
    BY <1>2, CounterTypes DEF ServerTyped
  <2>2. (IF sTable = <<>> THEN 0 ELSE sTable[1].orig) \in BlockOrNone
    <3>1. sTable # <<>> => 1 \in 1..l
      BY <1>4
    <3> QED
      BY <1>4, <3>1, FieldsTyped, BlockTyped
  <2> QED
    BY <1>1, <2>1, <2>2 DEF Headers
<1>6. data' \in [Blocks -> Payloads] /\ (Beginning => Blank(data', table[Touched]))
  <2>1. data' \in [Blocks -> Payloads]
    BY <1>1, <1>2 DEF DiskInv, TypeInv, TypeOK
  <2>2. Beginning => Blank(data, table[Touched])
    BY <1>2, <1>3 DEF ManagerInv, KillInv
  <2> QED
    BY <1>1, <2>1, <2>2 DEF Blank
<1>7. PICK t, h, d, k : t = Live /\ h = header /\ d = data /\ k = header'
  OBVIOUS
<1>8. Foretells(t, h, d, FALSE)
  BY <1>2, <1>3, <1>7 DEF ManagerInv, KillInv
<1>9. /\ k.first = IF sTable = <<>> THEN 0 ELSE sTable[1].orig
      /\ k.init # 0 /\ k.count = sSb.count
  BY <1>1, <1>7 DEF InitBlocks
<1>10. sTable # <<>> => k.first = h.first /\ k.count > 0
  <2> SUFFICES ASSUME sTable # <<>> PROVE k.first = h.first
    BY <1>4, <1>9
  <2>1. 1 \in 1..l
    BY <1>4
  <2>2. Pointer(t, h, d, 1) = t[1].orig
    BY <1>4, <1>7, <2>1 DEF Reached, Reach
  <2> QED
    BY <1>4, <1>7, <1>9, <2>1, <2>2 DEF Pointer
<1>11. Foretells(t, k, d, FALSE)
  BY <1>8, <1>9, <1>10 DEF Foretells, LeadsTo
<1>12. Foretells(Live, header, data, FALSE)'
  BY <1>1, <1>7, <1>11, AsideSame
<1>13. ManagerInv' /\ Tracked(tail)'
  BY <1>1, <1>2, <1>3, <1>5, <1>6, <1>12, AsideKeeps
<1>14. CASE sTable = <<>>
  <2>1. sTable' = <<>> /\ sSb' = FreshSuperBlock /\ sOp' = NoOp /\ sPc' = "closed"
    BY <1>14, ServerSavedHeader, ServerSaved
  <2>2. \A i : ~KeptAt(i)
    BY <1>1, <1>4, <1>14 DEF KeptAt
  <2>3. ServerTyped' /\ ServerFollows' /\ KeptFollows(tail)'
    BY <1>1, <1>2, <2>1, <2>2, EndFollows
  <2> QED
    BY <1>13, <2>3 DEF Together
<1>15. CASE sTable # <<>>
  <2>1. sOp' = [NoOp EXCEPT !.left = 1] /\ sPc' = "saveInode" /\ UNCHANGED <<sSb, sTable>>
    BY <1>15, ServerSavedHeader
  <2>2. sOp'.left \in DOMAIN sTable /\ sOp' \in Operations
    <3>1. sOp'.left = 1
      BY <2>1 DEF NoOp
    <3>2. 1 \in 1..l
      BY <1>4, <1>15
    <3>3. NoOp \in Operations
      BY EmptyTyped
    <3>4. NoOp.cur \in BlockOrNone /\ 1 \in Int
      BY BlockTyped DEF NoOp
    <3>5. [NoOp EXCEPT !.left = 1] \in Operations
      BY <3>3, <3>4, OperationStep
    <3> QED
      BY <1>4, <2>1, <3>1, <3>2, <3>5
  <2>3. KeepsSeen
    <3>1. DiskInv'
      BY <1>13 DEF ManagerInv
    <3>2. header'.first = header.first
      BY <1>7, <1>10, <1>15
    <3> QED
      BY <1>1, <1>2, <3>1, <3>2, AsideSame, QuietSees
  <2>4. \A i \in DOMAIN sTable :
          /\ Reached(i) => Reached(i)'
          /\ Seen(i) /\ Alike(Live[i], sTable[i]) => Seen(i)'
    BY <2>3 DEF KeepsSeen, StillReached, StillSeen
  <2>5. ServerTyped' /\ ServerFollows' /\ KeptFollows(tail)'
    BY <1>1, <1>2, <2>1, <2>2, <2>4, SameFollows
  <2> QED
    BY <1>13, <2>5 DEF Together
<1> QED
  BY <1>14, <1>15

\* The inode that an addition is at is in the table.
LEMMA BeginningAt ==
  ASSUME DiskInv, NEW who, NEW pos, ChainsAre(who, pos), Beginning
  PROVE  Live = table /\ Touched \in DOMAIN Live
<1>1. Live = table
  BY DEF Beginning, Live
<1>2. Touched # 0
  BY DEF ChainsAre, AtPlace, Beginning, Filling
<1>3. Touched = 0 \/ Touched \in DOMAIN table
  BY TouchedFound DEF DiskInv, TypeInv, TypeOK
<1> QED
  BY <1>1, <1>2, <1>3

\* The server writes the L-th inode of its table over that of the manager's.
LEMMA ServerWrites ==
  ASSUME ManagerInv, ServerTyped, ServerFollows, Server!SaveInode, NEW L, L = sOp.left,
         NEW n, n = Len(Live)
  PROVE  /\ L \in DOMAIN sTable /\ UNCHANGED header
         /\ Shaped(Live, n, data)
         /\ Writes(Live, n, data, L, sTable[L], data')
         /\ data' \in [Blocks -> Payloads]
<1>1. sPc = "saveInode" /\ L \in DOMAIN sTable
  BY ServerSavedInode DEF ServerFollows
<1>2. PICK l \in Nat :
        /\ DOMAIN sTable = 1..l
        /\ \A i \in 1..l :
             /\ sTable[i] \in Inodes /\ Reached(i) /\ Copied(i)
             /\ sTable[i].next = IF i < l THEN Live[i + 1].orig ELSE 0
             /\ sTable[i].orig = Live[i].orig /\ sTable[i].name = Live[i].name
  BY <1>1, ServerHas
<1>3. Shaped(Live, n, data)
  BY LiveShaped DEF ManagerInv
<1>4. PICK t, d, v : t = Live /\ d = data /\ v = sTable[L]
  OBVIOUS
<1>5. /\ v \in Inodes /\ v.orig = t[L].orig /\ v.name = t[L].name /\ L \in 1..n
      /\ v.orig \in Blocks /\ v.orig # 0
  BY <1>1, <1>2, <1>3, <1>4 DEF Reached, Shaped
<1>6. UNCHANGED header /\ data' = [d EXCEPT ![v.orig] = v]
  BY <1>4, <1>5, ServerSavedInode
<1>7. v = NewInode(v.name, v.orig) \/ Alike(t[L], v)
  BY <1>1, <1>2, <1>4, <1>5 DEF Copied
<1>8. v.next = 0 \/ (L + 1 \in 1..n /\ v.next = t[L + 1].orig)
  <2>1. L < l => L + 1 \in 1..l
    BY <1>1, <1>2
  <2> QED
    BY <1>1, <1>2, <1>3, <1>4, <2>1 DEF Reached, Shaped
<1>9. d \in [Blocks -> Payloads] /\ v \in Payloads
  BY <1>4, <1>5 DEF ManagerInv, DiskInv, TypeInv, TypeOK, Payloads
<1>10. data' \in [Blocks -> Payloads]
  BY <1>5, <1>6, <1>9
<1>11. data'[t[L].orig] = v /\ \A c \in Blocks : c # t[L].orig => data'[c] = d[c]
  BY <1>5, <1>6, <1>9
<1>12. Writes(t, n, d, L, v, data')
  BY <1>5, <1>7, <1>8, <1>11 DEF Writes
<1> QED
  BY <1>1, <1>3, <1>4, <1>6, <1>10, <1>12

LEMMA ServerInodeKeeps ==
  ASSUME NEW tail \in [Blocks -> Seq(Chars)], Together(tail), Server!SaveInode,
         UNCHANGED <<managerVars, kept>>
  PROVE  Together(tail)'
<1>1. sPc = "saveInode" /\ kept' = kept /\ Aside
  BY ServerSavedInode DEF Aside
<1>2. ManagerInv /\ ServerTyped /\ ServerFollows /\ Tracked(tail) /\ KeptFollows(tail)
      /\ DiskInv
  BY DEF Together, ManagerInv
<1>3. deletion = "none"
  BY <1>1, <1>2, ServerHas
<1>4. PICK l \in Nat :
        /\ l = Len(sTable) /\ DOMAIN sTable = 1..l
        /\ \A i \in 1..l : /\ Reached(i) /\ Copied(i)
                           /\ sTable[i].next = IF i < l THEN Live[i + 1].orig ELSE 0
  BY <1>1, <1>2, ServerHas
<1>5. PICK t, h, d, e, n, L, v : /\ t = Live /\ h = header /\ d = data /\ e = data'
                                 /\ n = Len(Live) /\ L = sOp.left /\ v = sTable[L]
  OBVIOUS
<1>6. /\ L \in 1..l /\ header' = h /\ Shaped(t, n, d) /\ Writes(t, n, d, L, v, e)
      /\ data' \in [Blocks -> Payloads]
  BY <1>2, <1>4, <1>5, ServerWrites
<1>7. Foretells(t, h, d, FALSE)
  BY <1>2, <1>3, <1>5 DEF ManagerInv, KillInv
<1>8. Foretells(t, h, e, FALSE)
  BY <1>6, <1>7, WritingForetells
<1>9. Foretells(Live, header, data, FALSE)'
  BY <1>1, <1>5, <1>6, <1>8, AsideSame
<1>10. header' \in Headers
  BY <1>2, <1>5, <1>6 DEF DiskInv, TypeInv, TypeOK
<1>11. \A b \in Blocks : data'[b] = data[b] \/ \E i \in DOMAIN Live : b = Live[i].orig
  BY <1>5, <1>6 DEF Writes, Shaped
<1>12. ASSUME NEW i \in 1..n
       PROVE  /\ i # L => e[t[i].orig] = d[t[i].orig]
              /\ i = L /\ Alike(t[L], v) => Intact(e, t[i])
              /\ i = L /\ v = NewInode(v.name, v.orig) => Blank(e, t[i])
  BY <1>6, WritingSees
<1>13. ASSUME Beginning PROVE Blank(data', table[Touched])
  <2>1. PICK who, pos : ChainsAre(who, pos)
    BY <1>2 DEF Tracked
  <2>2. t = table /\ Touched \in 1..n
    BY <1>2, <1>5, <1>6, <1>13, <2>1, BeginningAt DEF Shaped
  <2>3. Blank(d, t[Touched])
    BY <1>2, <1>3, <1>5, <1>13, <2>2 DEF ManagerInv, KillInv
  <2>4. CASE Touched # L
    <3>1. e[t[Touched].orig] = d[t[Touched].orig]
      BY <1>12, <2>2, <2>4
    <3> QED
      BY <1>5, <2>2, <2>3, <3>1 DEF Blank
  <2>5. CASE Touched = L
    <3>1. ~Seen(L)
      BY <1>13, <2>5 DEF Seen
    <3>2. v = NewInode(t[L].name, t[L].orig)
      BY <1>4, <1>5, <1>6, <3>1 DEF Copied
    <3>3. v = NewInode(v.name, v.orig)
      BY <1>6, <3>2 DEF Writes
    <3>4. Blank(e, t[L])
      BY <1>12, <2>2, <2>5, <3>3
    <3> QED
      BY <1>5, <2>2, <2>5, <3>4
  <2> QED
    BY <2>4, <2>5
<1>14. ManagerInv' /\ Tracked(tail)'
  BY <1>1, <1>2, <1>3, <1>6, <1>9, <1>10, <1>11, <1>13, AsideKeeps
<1>15. ASSUME NEW i \in 1..l
       PROVE  /\ Reached(i)'
              /\ Seen(i) /\ Alike(Live[i], sTable[i]) => Seen(i)'
  <2>1. i \in 1..n /\ Reach(t, h, d, i)
    BY <1>4, <1>5, <1>6, <1>15 DEF Reached, Shaped
  <2>2. i <= L \/ v.next # 0
    <3> SUFFICES ASSUME ~(i <= L) PROVE v.next # 0
      OBVIOUS
    <3>1. L < l /\ L + 1 \in 1..l
      BY <1>6
    <3>2. v.next = t[L + 1].orig
      BY <1>4, <1>5, <1>6, <3>1
    <3>3. L + 1 \in 1..n
      BY <1>4, <1>5, <1>6, <3>1 DEF Reached, Shaped
    <3> QED
      BY <1>6, <3>2, <3>3 DEF Shaped
  <2>3. Reach(t, h, e, i)
    BY <1>6, <2>1, <2>2, WritingReaches
  <2>4. Reached(i)'
    BY <1>1, <1>5, <1>6, <2>1, <2>3, AsideSame DEF Reached, Shaped
  <2>5. ASSUME Seen(i), Alike(Live[i], sTable[i]) PROVE Seen(i)'
    <3>1. Intact(d, t[i])
      BY <1>5, <2>5 DEF Seen
    <3>2. Intact(e, t[i])
      <4>1. CASE i # L
        <5>1. e[t[i].orig] = d[t[i].orig]
          BY <1>12, <2>1, <4>1
        <5> QED
          BY <3>1, <5>1 DEF Intact
      <4>2. CASE i = L
        BY <1>5, <1>12, <2>1, <2>5, <4>2
      <4> QED
        BY <4>1, <4>2
    <3> QED
      BY <1>1, <1>5, <2>4, <2>5, <3>2, AsideSame DEF Seen
  <2> QED
    BY <2>4, <2>5
<1>16. CASE L = l
  <2>1. sTable' = <<>> /\ sSb' = FreshSuperBlock /\ sOp' = NoOp /\ sPc' = "closed"
    BY <1>4, <1>5, <1>16, ServerSavedInode, ServerSaved
  <2>2. ASSUME NEW i, KeptAt(i) PROVE Seen(i)'
    <3>1. i \in DOMAIN sTable /\ Seen(i) /\ Alike(Live[i], sTable[i])
      BY <1>1, <1>3, <2>2 DEF KeptAt
    <3> QED
      BY <1>4, <1>15, <3>1
  <2>3. ServerTyped' /\ ServerFollows' /\ KeptFollows(tail)'
    BY <1>1, <1>2, <2>1, <2>2, EndFollows
  <2> QED
    BY <1>14, <2>3 DEF Together
<1>17. CASE L # l
  <2>1. sOp' = [sOp EXCEPT !.left = L + 1] /\ UNCHANGED <<sSb, sTable, sPc>>
    BY <1>4, <1>5, <1>17, ServerSavedInode
  <2>2. sOp'.left \in DOMAIN sTable /\ sOp' \in Operations
    <3>1. sOp'.left = L + 1
      BY <1>2, <2>1 DEF ServerTyped, Operations
    <3>2. L + 1 \in 1..l /\ L + 1 \in Int
      BY <1>6, <1>17
    <3>3. sOp' \in Operations
      BY <1>2, <2>1, <3>2, OperationStep, BlockTyped DEF ServerTyped
    <3> QED
      BY <1>4, <3>1, <3>2, <3>3
  <2>3. ServerTyped' /\ ServerFollows' /\ KeptFollows(tail)'
    BY <1>1, <1>2, <1>4, <1>15, <2>1, <2>2, SameFollows
  <2> QED
    BY <1>14, <2>3 DEF Together
<1> QED
  BY <1>16, <1>17

\* The server reads inode x in the block of the N-th.
LEMMA ServerReads ==
  ASSUME ManagerInv, ServerTyped, ServerFollows, Server!LoadInode,
         NEW N, N = Len(sTable) + 1, NEW n, n = Len(Live)
  PROVE  \E x \in Inodes :
           /\ N \in 1..n /\ Reached(N) /\ x = data[Live[N].orig]
           /\ Shaped(Live, n, data) /\ ReadsAs(Live, n, data, N, x)
           /\ sTable' = Append(sTable, x) /\ sOp' = [sOp EXCEPT !.cur = x.next]
           /\ sPc' = IF x.next = 0 THEN "idle" ELSE "loading"
<1>1. sPc = "loading"
  BY ServerLoaded
<1>2. deletion = "none" /\ N = Foreseen /\ sOp.cur = Live[N].orig
  BY <1>1 DEF ServerFollows, Foreseen
<1>3. Len(sTable) \in Nat
  BY LenProperties DEF ServerTyped
<1>4. N \in 1..N
  BY <1>3
<1>5. Reached(N)
  BY <1>1, <1>2, <1>4 DEF ServerFollows
<1>6. PICK t, h, d, x : t = Live /\ h = header /\ d = data /\ x = d[t[N].orig]
  OBVIOUS
<1>7. Shaped(t, n, d)
  BY <1>6, LiveShaped DEF ManagerInv
<1>8. Foretells(t, h, d, FALSE)
  BY <1>2, <1>6 DEF ManagerInv, KillInv
<1>9. N \in 1..n
  BY <1>5, <1>6, <1>7 DEF Reached, Shaped
<1>10. ReadsAs(t, n, d, N, x)
  BY <1>6, <1>7, <1>8, <1>9, InodeRead
<1>11. x \in Inodes /\ x.kind = "inode"
  BY <1>10 DEF ReadsAs
<1>12. data[sOp.cur] = x /\ InodeAt(sOp.cur) = x
  BY <1>2, <1>6, <1>11 DEF InodeAt
<1>13. /\ sTable' = Append(sTable, x) /\ sOp' = [sOp EXCEPT !.cur = x.next]
       /\ sPc' = IF x.next = 0 THEN "idle" ELSE "loading"
  BY <1>11, <1>12, ServerLoaded
<1> QED
  BY <1>5, <1>6, <1>7, <1>9, <1>10, <1>11, <1>13

LEMMA ServerLoadKeeps ==
  ASSUME NEW tail \in [Blocks -> Seq(Chars)], Together(tail), Server!LoadInode,
         UNCHANGED <<managerVars, kept>>
  PROVE  Together(tail)'
<1>1. /\ sPc = "loading" /\ kept' = kept /\ sSb' = sSb /\ UNCHANGED <<header, data>>
      /\ Aside
  BY ServerLoaded DEF Aside, disk
<1>2. /\ ManagerInv /\ ServerTyped /\ ServerFollows /\ Tracked(tail) /\ KeptFollows(tail)
      /\ DiskInv /\ KillInv
  BY DEF Together, ManagerInv
<1>3. deletion = "none" /\ sSb.count > 0
  BY <1>1, <1>2 DEF ServerFollows
<1>4. /\ ManagerInv' /\ Tracked(tail)'
      /\ \A i : (Reached(i)' <=> Reached(i)) /\ (Seen(i)' <=> Seen(i))
  BY <1>1, <1>2, <1>3, IdleKeeps
<1>5. PICK l \in Nat : l = Len(sTable) /\ DOMAIN sTable = 1..l
  BY <1>2, LenProperties DEF ServerTyped
<1>6. PICK t, h, d, n, N : /\ t = Live /\ h = header /\ d = data /\ n = Len(Live)
                           /\ N = l + 1
  OBVIOUS
<1>7. PICK x \in Inodes :
        /\ N \in 1..n /\ Reached(N) /\ x = d[t[N].orig]
        /\ Shaped(t, n, d) /\ ReadsAs(t, n, d, N, x)
        /\ sTable' = Append(sTable, x) /\ sOp' = [sOp EXCEPT !.cur = x.next]
        /\ sPc' = IF x.next = 0 THEN "idle" ELSE "loading"
  BY <1>2, <1>5, <1>6, ServerReads
<1>8. /\ x.next = 0 \/ (N + 1 \in 1..n /\ x.next = t[N + 1].orig)
      /\ Intact(d, t[N]) => Alike(t[N], x)
      /\ Blank(d, t[N]) => x = NewInode(t[N].name, t[N].orig)
      /\ Intact(d, t[N]) \/ Blank(d, t[N])
  BY <1>7 DEF ReadsAs
<1>9. /\ sTable' \in Seq(Inodes) /\ Len(sTable') = N /\ DOMAIN sTable' = 1..N
      /\ sTable'[N] = x /\ \A i \in 1..l : sTable'[i] = sTable[i]
  BY <1>2, <1>5, <1>6, <1>7, AppendProperties DEF ServerTyped
<1>10. sOp'.cur = x.next /\ sOp' \in Operations
  BY <1>2, <1>7, FieldsTyped, OperationStep DEF ServerTyped, Operations
<1>11. ServerTyped'
  BY <1>1, <1>2, <1>9, <1>10 DEF ServerTyped
<1>12. Foreseen = N /\ Foreseen' = IF x.next = 0 THEN N ELSE N + 1
  BY <1>1, <1>5, <1>6, <1>7, <1>9 DEF Foreseen
<1>13. /\ \A i \in 1..N : Reached(i)
       /\ \A i \in 1..l : Copied(i) /\ sTable[i].next = t[i + 1].orig
  <2>1. \A i \in 1..N : Reached(i)
    BY <1>1, <1>2, <1>12 DEF ServerFollows
  <2>2. \A i \in 1..l :
          Copied(i) /\ sTable[i].next = IF i < N THEN Live[i + 1].orig ELSE 0
    BY <1>1, <1>2, <1>5, <1>12 DEF ServerFollows
  <2>3. \A i \in 1..l : i < N
    BY <1>5, <1>6
  <2> QED
    BY <1>6, <2>1, <2>2, <2>3
<1>14. x.next # 0 => Reached(N + 1)
  <2> SUFFICES ASSUME x.next # 0 PROVE Reached(N + 1)
    OBVIOUS
  <2>1. Reach(t, h, d, N)
    BY <1>6, <1>7 DEF Reached
  <2>2. Pointer(t, h, d, N + 1) = t[N + 1].orig
    <3>1. N + 1 # 1 /\ (N + 1) - 1 = N
      BY <1>5, <1>6
    <3> QED
      BY <1>7, <1>8, <3>1 DEF Pointer
  <2>3. N \in Nat
    BY <1>5, <1>6
  <2>4. Reach(t, h, d, N + 1)
    BY <2>1, <2>2, <2>3, ReachMore
  <2> QED
    BY <1>6, <1>7, <1>8, <2>4 DEF Reached, Shaped
<1>15. \A i \in 1..Foreseen' : Reached(i)'
  <2>1. \A i \in 1..(N + 1) : i \in 1..N \/ i = N + 1
    BY <1>5, <1>6
  <2> QED
    BY <1>4, <1>12, <1>13, <1>14, <2>1
<1>16. Seen(N) \/ Blank(d, t[N])
  <2> SUFFICES ASSUME ~Blank(d, t[N]) PROVE Beginning \/ Deleting => N # Touched
    BY <1>6, <1>7, <1>8 DEF Seen
  <2>1. ~Deleting
    BY <1>2, <1>3 DEF KillInv
  <2>2. ASSUME Beginning, N = Touched PROVE FALSE
    <3>1. t = table
      BY <1>6, <2>2 DEF Beginning, Live
    <3> QED
      BY <1>2, <1>3, <1>6, <2>2, <3>1 DEF KillInv
  <2> QED
    BY <2>1, <2>2
<1>17. ASSUME NEW i \in 1..N
       PROVE  /\ Copied(i)'
              /\ sTable'[i].next = IF i < Foreseen' THEN Live'[i + 1].orig ELSE 0
  <2>1. Live' = t
    BY <1>1, <1>6, AsideSame
  <2>2. CASE i = N
    <3>1. \/ sTable'[i] = NewInode(t[i].name, t[i].orig)
          \/ Alike(t[i], sTable'[i]) /\ Seen(i)'
      BY <1>4, <1>6, <1>8, <1>9, <1>16, <2>2 DEF Seen
    <3>2. Copied(i)'
      BY <2>1, <3>1 DEF Copied
    <3>3. x.next = IF N < Foreseen' THEN t[N + 1].orig ELSE 0
      BY <1>5, <1>6, <1>8, <1>12
    <3> QED
      BY <1>9, <2>1, <2>2, <3>2, <3>3
  <2>3. CASE i # N
    <3>1. i \in 1..l /\ i < N /\ i < N + 1
      BY <1>5, <1>6, <2>3
    <3>2. Copied(i) /\ sTable'[i] = sTable[i] /\ sTable[i].next = t[i + 1].orig
      BY <1>9, <1>13, <3>1
    <3>3. Copied(i)'
      BY <1>4, <1>6, <2>1, <3>2 DEF Copied
    <3> QED
      BY <1>12, <2>1, <3>1, <3>2, <3>3
  <2> QED
    BY <2>2, <2>3
<1>18. ServerFollows'
  <2>1. sPc' \in {"loading", "idle"} /\ (sPc' = "loading" => x.next # 0)
    BY <1>7
  <2>2. sPc' = "loading" => sOp'.cur = Live'[Foreseen'].orig
    BY <1>1, <1>6, <1>8, <1>10, <1>12, <2>1, AsideSame
  <2>3. deletion' = "none" /\ sSb'.count > 0
    BY <1>1, <1>3 DEF Aside, managerVars
  <2> QED
    BY <1>9, <1>15, <1>17, <2>1, <2>2, <2>3 DEF ServerFollows
<1>19. ASSUME NEW i, KeptAt(i) PROVE KeptAt(i)'
  <2>1. Seen(i) /\ Seen(i)'
    BY <1>3, <1>4, <1>19 DEF KeptAt
  <2>2. ASSUME i \in 1..N PROVE Alike(Live'[i], sTable'[i])
    <3>1. Live' = t
      BY <1>1, <1>6, AsideSame
    <3>2. CASE i = N
      BY <1>6, <1>8, <1>9, <2>1, <3>1, <3>2 DEF Seen
    <3>3. CASE i # N
      <4>1. i \in 1..l
        BY <1>5, <1>6, <2>2, <3>3
      <4>2. Alike(t[i], sTable[i])
        BY <1>1, <1>5, <1>6, <1>19, <4>1 DEF KeptAt
      <4> QED
        BY <1>9, <3>1, <4>1, <4>2
    <3> QED
      BY <3>2, <3>3
  <2>3. ASSUME sPc' # "loading" PROVE i \in 1..N
    <3>1. x.next = 0
      BY <1>7, <2>3
    <3>2. i \in 1..n /\ Reach(t, h, d, i)
      BY <1>6, <1>7, <2>1 DEF Seen, Reached, Shaped
    <3>3. ASSUME ~(i <= N) PROVE FALSE
      <4>1. N + 1 \in 1..i /\ N + 1 \in 1..n /\ N + 1 # 1 /\ (N + 1) - 1 = N
        BY <1>5, <1>6, <1>7, <3>2, <3>3
      <4>2. Pointer(t, h, d, N + 1) = t[N + 1].orig
        BY <3>2, <4>1 DEF Reach
      <4>3. Pointer(t, h, d, N + 1) = 0
        BY <1>7, <3>1, <4>1 DEF Pointer
      <4> QED
        BY <1>7, <4>1, <4>2, <4>3 DEF Shaped
    <3> QED
      BY <1>5, <1>6, <3>2, <3>3
  <2> QED
    BY <1>9, <2>1, <2>2, <2>3 DEF KeptAt
<1>20. KeptFollows(tail)'
  BY <1>1, <1>2, <1>19, KeptGoesOn
<1> QED
  BY <1>4, <1>11, <1>18, <1>20 DEF Together

\* The text of a figure that an operation leaves alone is what its first block
\* begins, and is not empty when the figure has blocks.
LEMMA SeenText ==
  ASSUME DiskInv, NEW tail \in [Blocks -> Seq(Chars)], Tracked(tail), ~Deleting,
         NEW i, Seen(i), Live[i].count # 0, NEW x, Live[i].name = x
  PROVE  /\ IndexIn(Live, x) = i
         /\ tail[Live[i].start] # <<>>
         /\ x \in DOMAIN Figs(Live, Hidden, tail)
         /\ Figs(Live, Hidden, tail)[x] = tail[Live[i].start]
<1>1. PICK who \in [Blocks -> BlockOrNone], pos \in [Blocks -> Nat] :
        ChainsAre(who, pos) /\ Tells(who, pos, tail)
  BY DEF Tracked
<1>2. i \in DOMAIN Live /\ (Beginning => i # Touched)
  BY DEF Seen, Reached
<1>3. PICK t : t = Live /\ t \in Seq(Inodes) /\ Distinct(t)
  BY <1>1 DEF Tells, DiskInv, TypeInv, TypeOK, Live
<1>4. IndexIn(t, x) = i
  BY <1>2, <1>3, NameLeads
<1>5. PICK b : b = t[i].start
  OBVIOUS
<1>6. b \in Blocks /\ who[b] # 0
  BY <1>1, <1>2, <1>3, <1>5, StartInChain
<1>7. tail[b] # <<>>
  <2>1. PICK j \in DOMAIN Live : who[b] = Live[j].orig
    BY <1>1, <1>6 DEF ChainsAre, Owned
  <2>2. Fits(Live[j].size, Wr[j], Re[j], next, data, pos, tail, b)
    BY <1>1, <1>6, <2>1 DEF Tells, Written
  <2> QED
    BY <2>2 DEF Fits
<1>8. x \in Named(t)
  BY <1>2, <1>3 DEF Named
<1>9. x \notin Hidden
  <2> SUFFICES ASSUME Adding, x = op.name PROVE FALSE
    BY DEF Hidden
  <2>1. t = table
    BY <1>3 DEF Adding, Live
  <2>2. Touched = i
    BY <1>4, <2>1 DEF Touched, IndexOf
  <2>3. pc \in {"inodeBlock", "inodeWrite"} => Touched = 0
    BY <1>1 DEF ChainsAre, AtPlace
  <2>4. i # 0
    BY <1>2, <1>3, LenProperties
  <2> QED
    BY <1>2, <2>2, <2>3, <2>4 DEF Adding, Beginning
<1>10. TextOf(t[i], tail) = tail[b]
  BY <1>3, <1>5 DEF TextOf
<1>11. x \in DOMAIN Figs(t, Hidden, tail) /\ Figs(t, Hidden, tail)[x] = tail[b]
  BY <1>4, <1>8, <1>9, <1>10 DEF Figs
<1> QED
  BY <1>3, <1>4, <1>5, <1>7, <1>11

\* What the server finds when it opens the disk.
LEMMA ReadableSeen ==
  ASSUME DiskInv, KillInv, deletion = "none",
         NEW tail \in [Blocks -> Seq(Chars)], Tracked(tail), NEW x \in Readable
  PROVE  \E i : /\ Seen(i) /\ IndexIn(Live, x) = i
                /\ OnDisk(x).text # <<>>
                /\ x \in DOMAIN Figs(Live, Hidden, tail)
                /\ Figs(Live, Hidden, tail)[x] = OnDisk(x).text
<1>1. ~Deleting
  BY DEF KillInv
<1>2. OnDisk(x) # NotFound
  BY DEF Readable, NotFound
<1>3. PICK i : Seen(i) /\ Live[i].count # 0 /\ Live[i].name = x
  BY <1>1, <1>2, ReadsSeen
<1>4. OnDisk(x) = Found(tail[Live[i].start])
  BY <1>3, SeenReads
<1>5. OnDisk(x).text = tail[Live[i].start]
  BY <1>4 DEF Found
<1> QED
  BY <1>1, <1>3, <1>5, SeenText

LEMMA ServerOpenKeeps ==
  ASSUME ManagerInv, NEW tail \in [Blocks -> Seq(Chars)], Tracked(tail), Server!Open,
         UNCHANGED managerVars, deletion = "none",
         kept' = [x \in Readable |-> OnDisk(x).text]
  PROVE  Together(tail)'
<1>1. /\ sPc = "closed" /\ sTable' = <<>> /\ UNCHANGED <<header, data>> /\ Aside
      /\ sOp' = [NoOp EXCEPT !.cur = IF sSb'.count > 0 THEN header.first ELSE 0]
      /\ sPc' = IF sOp'.cur = 0 THEN "idle" ELSE "loading"
      /\ sSb' = IF header.init # 0
                THEN [total |-> header.total, free |-> header.free,
                      used |-> header.used, count |-> header.count]
                ELSE FreshSuperBlock
  BY ServerOpened DEF disk, Aside
<1>2. DiskInv /\ KillInv /\ deletion' = "none"
  BY <1>1 DEF ManagerInv, Aside, managerVars
<1>3. /\ ManagerInv' /\ Tracked(tail)'
      /\ \A i : (Reached(i)' <=> Reached(i)) /\ (Seen(i)' <=> Seen(i))
  BY <1>1, IdleKeeps
<1>4. PICK t, h, d, n : t = Live /\ h = header /\ d = data /\ n = Len(Live)
  OBVIOUS
<1>5. /\ h.first # 0 => h.init # 0 /\ h.count > 0
      /\ h.first = 0 \/ (1 \in DOMAIN t /\ h.first = t[1].orig)
  BY <1>2, <1>4 DEF KillInv, Foretells, LeadsTo
<1>6. Shaped(t, n, d)
  BY <1>2, <1>4, LiveShaped
<1>7. /\ sOp'.cur = h.first
      /\ h.first # 0 => sSb'.count > 0
  <2>1. sOp'.cur = IF sSb'.count > 0 THEN h.first ELSE 0
    BY <1>1, <1>4 DEF NoOp
  <2>2. h.init # 0 => sSb'.count = h.count
    BY <1>1, <1>4
  <2> QED
    BY <1>5, <2>1, <2>2
<1>8. ServerTyped'
  <2>1. header \in Headers
    BY <1>2 DEF DiskInv, TypeInv, TypeOK
  <2>2. sSb' \in SuperBlocks
    BY <1>1, <2>1, EmptyTyped DEF Headers, SuperBlocks
  <2>3. (IF sSb'.count > 0 THEN header.first ELSE 0) \in BlockOrNone
    BY <2>1, BlockTyped DEF Headers
  <2>4. sOp' \in Operations
    <3>1. PICK c \in BlockOrNone : sOp' = [NoOp EXCEPT !.cur = c]
      BY <1>1, <2>3
    <3>2. NoOp \in Operations /\ 0 \in Int
      BY EmptyTyped
    <3> QED
      BY <3>1, <3>2, OperationStep
  <2> QED
    BY <1>1, <2>2, <2>4, EmptyTyped DEF ServerTyped
<1>9. DOMAIN sTable' = {} /\ Len(sTable') = 0
  BY <1>1
<1>10. Foreseen' = IF h.first = 0 THEN 0 ELSE 1
  BY <1>1, <1>7, <1>9 DEF Foreseen
<1>11. ASSUME h.first # 0 PROVE Reached(1)
  <2>1. Pointer(t, h, d, 1) = t[1].orig
    BY <1>5, <1>11 DEF Pointer
  <2>2. \A j \in 1..1 : j = 1
    OBVIOUS
  <2> QED
    BY <1>4, <1>5, <1>11, <2>1, <2>2 DEF Reached, Reach
<1>12. ServerFollows'
  <2>1. sPc' \in {"loading", "idle"} /\ (sPc' = "loading" <=> h.first # 0)
    BY <1>1, <1>7
  <2>2. \A i \in 1..Foreseen' : Reached(i)'
    BY <1>3, <1>10, <1>11
  <2>3. sPc' = "loading" => sOp'.cur = Live'[Foreseen'].orig
    BY <1>1, <1>4, <1>5, <1>7, <1>10, <2>1, AsideSame
  <2> QED
    BY <1>1, <1>2, <1>7, <1>9, <2>1, <2>2, <2>3 DEF ServerFollows
<1>13. KeptFollows(tail)'
  <2> SUFFICES ASSUME NEW x \in DOMAIN kept'
               PROVE  /\ kept'[x] # <<>>
                      /\ x \in DOMAIN Figs(Live, Hidden, tail)'
                      /\ Figs(Live, Hidden, tail)'[x] = kept'[x]
                      /\ KeptAt(IndexIn(Live, x))'
    BY DEF KeptFollows
  <2>1. x \in Readable /\ kept'[x] = OnDisk(x).text
    OBVIOUS
  <2>2. PICK F, i : /\ F = Figs(Live, Hidden, tail) /\ i = IndexIn(Live, x)
    OBVIOUS
  <2>3. Seen(i) /\ kept'[x] # <<>> /\ x \in DOMAIN F /\ F[x] = kept'[x]
    BY <1>2, <2>1, <2>2, ReadableSeen
  <2>4. F = Figs(Live, Hidden, tail)' /\ i = IndexIn(Live, x)'
    BY <1>1, <2>2, AsideSame
  <2>5. sPc' # "idle"
    <3>1. i \in 1..n /\ Reach(t, h, d, i)
      BY <1>4, <1>6, <2>3 DEF Seen, Reached, Shaped
    <3>2. 1 \in 1..i /\ 1 \in 1..n
      BY <1>6, <3>1 DEF Shaped
    <3>3. h.first = t[1].orig
      BY <3>1, <3>2 DEF Reach, Pointer
    <3> QED
      BY <1>1, <1>6, <1>7, <3>2, <3>3 DEF Shaped
  <2>6. KeptAt(i)'
    BY <1>1, <1>3, <1>9, <2>3, <2>5 DEF KeptAt
  <2> QED
    BY <2>3, <2>4, <2>6
<1> QED
  BY <1>3, <1>8, <1>12, <1>13 DEF Together

-----------------------------------------------------------------------------
(* The invariant of the two processes: until a deletion is torn or overlaps *)
(* a session of the server, what is said above holds of them together.      *)

SharedInv ==
  /\ Ok => \E tail \in [Blocks -> Seq(Chars)] : Together(tail)
  /\ deletion = "torn" /\ ~mixed => sPc = "closed"

LEMMA InitShared == SharedInit => SharedInv
<1> SUFFICES ASSUME SharedInit PROVE SharedInv
  OBVIOUS
<1>1. Init /\ pc = "closed" /\ deletion = "none"
  BY DEF SharedInit, Init
<1>2. PICK tail \in [Blocks -> Seq(Chars)] : Tracked(tail)
  BY <1>1, InitKilled DEF KilledInv
<1>3. DiskInv /\ KillInv
  BY <1>1, InitKilled DEF KilledInv, RestartInv
<1>4. Resting /\ SavingInv /\ LoadFollows
  BY <1>1 DEF Resting, SavingInv, LoadFollows
<1>5. sSb = FreshSuperBlock /\ sTable = <<>> /\ sPc = "closed" /\ sOp = NoOp
  BY DEF SharedInit, Server!Init, Server!NoOp, NoOp, Server!FreshSuperBlock,
         FreshSuperBlock, Server!InitBlocks, InitBlocks
<1>6. ServerTyped /\ ServerFollows
  BY <1>5, EmptyTyped DEF ServerTyped, ServerFollows
<1>7. KeptFollows(tail)
  <2>1. DOMAIN kept = {}
    BY DEF SharedInit
  <2> QED
    BY <2>1 DEF KeptFollows
<1>8. Together(tail)
  BY <1>2, <1>3, <1>4, <1>6, <1>7 DEF Together, ManagerInv
<1> QED
  BY <1>1, <1>8 DEF SharedInv

\* A step of the manager, the server doing nothing.
LEMMA ManagerKeeps ==
  ASSUME NEW tail \in [Blocks -> Seq(Chars)], Together(tail), UNCHANGED serverVars,
         Next \/ Crash, deletion # "torn", deletion' # "torn",
         sPc # "closed" => deletion' = "none",
         \A n \in DOMAIN kept' :
           n \in DOMAIN kept /\ kept'[n] = kept[n] /\ (Removing => n # op'.name)
  PROVE  \E tl \in [Blocks -> Seq(Chars)] : Together(tl)'
<1>1. ManagerInv /\ ServerTyped /\ ServerFollows /\ Tracked(tail) /\ KeptFollows(tail)
  BY DEF Together
<1>2. ManagerStays(tail)
  BY <1>1, ManagerSteps
<1>3. PICK tl \in [Blocks -> Seq(Chars)] : Tracked(tl)' /\ Stays(tail, tl)
  BY <1>2 DEF ManagerStays
<1>4. ManagerInv'
  BY <1>2 DEF ManagerStays
<1>5. ServerTyped' /\ ServerFollows'
  BY <1>1, <1>3, ServerStays DEF Stays
<1>6. TypeInv /\ TypeInv' /\ Distinct(Live')
  BY <1>1, <1>3, <1>4 DEF ManagerInv, DiskInv, Tracked, Tells
<1>7. KeptFollows(tl)'
  BY <1>1, <1>3, <1>6, KeptStays
<1> QED
  BY <1>3, <1>4, <1>5, <1>7 DEF Together

\* No step of either.
LEMMA NothingKeeps ==
  ASSUME NEW tail \in [Blocks -> Seq(Chars)], Together(tail), UNCHANGED sharedVars
  PROVE  Together(tail)'
<1>1. /\ UNCHANGED <<header, used, data, next, sb, table, pc, op, saved, kills, deletion>>
      /\ UNCHANGED <<sSb, sTable, sPc, sOp, kept>> /\ Aside
  BY DEF sharedVars, disk, managerVars, serverVars, Aside
<1>2. ManagerInv'
  <2>1. TypeInv'
    BY <1>1 DEF Together, ManagerInv, DiskInv, TypeInv, TypeOK, Cursors, IndexOf
  <2>2. OneReference' /\ Working' /\ Linked'
    BY <1>1, AsideSame
    DEF Together, ManagerInv, DiskInv, OneReference, Working, Linked, UsedBlocks
  <2>3. KillInv'
    BY <1>1, AsideSame DEF Together, ManagerInv, KillInv
  <2>4. Resting' /\ LoadFollows'
    BY <1>1 DEF Together, ManagerInv, Resting, LoadFollows
  <2>5. SavingInv'
    BY <1>1 DEF Together, ManagerInv, SavingInv, OnDiskAsSaved, HeaderLeadsTo
  <2> QED
    BY <2>1, <2>2, <2>3, <2>4, <2>5 DEF ManagerInv, DiskInv
<1>3. Tracked(tail)'
  <2>1. PICK who \in [Blocks -> BlockOrNone], pos \in [Blocks -> Nat] :
          ChainsAre(who, pos) /\ Tells(who, pos, tail)
    BY DEF Together, Tracked
  <2>2. ChainsAre(who, pos)'
    BY <1>1, <2>1, StillChains DEF Together, ManagerInv
  <2>3. Tells(who, pos, tail)'
    BY <1>1, <2>1, StillTells
  <2> QED
    BY <2>2, <2>3 DEF Tracked
<1>4. /\ Live' = Live
      /\ \A i : (Reached(i)' <=> Reached(i)) /\ (Seen(i)' <=> Seen(i))
      /\ \A i : (Copied(i)' <=> Copied(i)) /\ (KeptAt(i) => KeptAt(i)')
  <2>1. \A i : Reached(i)' <=> Reached(i)
    BY <1>1, AsideSame DEF Reached
  <2>2. \A i : Seen(i)' <=> Seen(i)
    BY <1>1, <2>1, AsideSame DEF Seen
  <2> QED
    BY <1>1, <2>1, <2>2, AsideSame DEF Copied, KeptAt
<1>5. ServerTyped' /\ ServerFollows'
  BY <1>1, <1>4 DEF Together, ServerTyped, ServerFollows, Foreseen
<1>6. KeptFollows(tail)'
  BY <1>1, <1>4, KeptGoesOn DEF Together
<1> QED
  BY <1>2, <1>3, <1>5, <1>6 DEF Together

\* What the steps of the manager do to deletions and to the history.
LEMMA ManagerActs ==
  ASSUME NEW tail, Together(tail), ~mixed', deletion # "torn", deletion' # "torn",
         \/ ManagerOpens \/ ManagerWorks \/ ManagerKilled
         \/ \E n \in Names : ManagerDeletes(n)
  PROVE  /\ UNCHANGED serverVars /\ (Next \/ Crash)
         /\ sPc # "closed" => deletion' = "none"
         /\ \A n \in DOMAIN kept' :
              n \in DOMAIN kept /\ kept'[n] = kept[n] /\ (Removing => n # op'.name)
<1>1. sPc # "closed" => deletion = "none"
  BY DEF Together, ServerFollows
<1>2. CASE ManagerOpens \/ ManagerWorks \/ ManagerKilled
  <2>1. UNCHANGED serverVars /\ kept' = kept
    BY <1>2 DEF ManagerOpens, ManagerWorks, ManagerKilled
  <2>2. \/ Crash \/ Load \/ Save \/ ExtendDisk \/ Make \/ Delete
        \/ \E n \in Names, t \in Texts : MakeFile(n, t)
    BY <1>2 DEF ManagerOpens, ManagerWorks, ManagerKilled, Load
  <2>3. Next \/ Crash
    BY <2>2 DEF Next
  <2>4. (deletion = "none" => deletion' = "none") /\ ~Removing
    BY <2>2
    DEF Load, Open, LoadInode, Save, Close, SaveHeader, SaveInode, Saved, ExtendDisk,
        Make, AllocInode, WriteInode, AllocFirst, WriteData, AllocNext, Link, Delete,
        ClearData, ClearInode, MakeFile, Crash, history, Removing, Deleting
  <2> QED
    BY <1>1, <2>1, <2>3, <2>4
<1>3. CASE \E n \in Names : ManagerDeletes(n)
  <2>1. PICK x \in Names : ManagerDeletes(x)
    BY <1>3
  <2>2. /\ UNCHANGED serverVars /\ DeleteFile(x) /\ sPc = "closed"
        /\ kept' = [m \in DOMAIN kept \ {x} |-> kept[m]]
    BY <2>1 DEF ManagerDeletes
  <2>3. Next /\ op'.name = x
    BY <2>2 DEF Next, DeleteFile, NoOp
  <2> QED
    BY <2>2, <2>3
<1> QED
  BY <1>2, <1>3

\* A session of the server and a deletion that have overlapped, and a torn
\* deletion, stay so.
LEMMA NotOkStays ==
  ASSUME [SharedNext]_sharedVars, Ok'
  PROVE  Ok
<1>1. mixed => mixed'
  BY DEF SharedNext, ServerOpens, ServerLoads, ServerSaves, ManagerOpens, ManagerWorks,
         ManagerDeletes, ManagerKilled, ServerKilled, sharedVars
<1>2. \/ [Next \/ Crash]_vars
      \/ deletion' = deletion
  BY DEF SharedNext, ServerOpens, ServerLoads, ServerSaves, ManagerOpens, ManagerWorks,
         ManagerDeletes, ManagerKilled, ServerKilled, sharedVars, managerVars, Next, Load
<1>3. deletion = "torn" => deletion' = "torn"
  BY <1>2, TornStays
<1> QED
  BY <1>1, <1>3 DEF Ok

\* Every step keeps it.
LEMMA NextShared ==
  ASSUME SharedInv, [SharedNext]_sharedVars
  PROVE  SharedInv'
<1>1. ASSUME Ok' PROVE \E tl \in [Blocks -> Seq(Chars)] : Together(tl)'
  <2>1. Ok /\ deletion # "torn" /\ deletion' # "torn" /\ ~mixed'
    BY <1>1, NotOkStays DEF Ok
  <2>2. PICK tail \in [Blocks -> Seq(Chars)] : Together(tail)
    BY <2>1 DEF SharedInv
  <2>3. CASE ServerOpens
    <3>1. deletion = "none" /\ UNCHANGED managerVars /\ Server!Open
          /\ kept' = [x \in Readable |-> OnDisk(x).text]
      BY <2>1, <2>3 DEF ServerOpens
    <3>2. ManagerInv /\ Tracked(tail)
      BY <2>2 DEF Together
    <3>3. Together(tail)'
      BY <3>1, <3>2, ServerOpenKeeps
    <3> QED
      BY <3>3
  <2>4. CASE ServerLoads
    <3>1. Together(tail)'
      BY <2>2, <2>4, ServerLoadKeeps DEF ServerLoads
    <3> QED
      BY <3>1
  <2>5. CASE ServerSaves
    <3>1. Together(tail)'
      BY <2>2, <2>5, ServerCloseKeeps, ServerHeaderKeeps, ServerInodeKeeps
      DEF ServerSaves
    <3> QED
      BY <3>1
  <2>6. CASE ServerKilled
    <3>1. Together(tail)'
      BY <2>2, <2>6, ServerCrashKeeps DEF ServerKilled
    <3> QED
      BY <3>1
  <2>7. CASE \/ ManagerOpens \/ ManagerWorks \/ ManagerKilled
             \/ \E n \in Names : ManagerDeletes(n)
    <3>1. /\ UNCHANGED serverVars /\ (Next \/ Crash)
          /\ sPc # "closed" => deletion' = "none"
          /\ \A n \in DOMAIN kept' :
               n \in DOMAIN kept /\ kept'[n] = kept[n] /\ (Removing => n # op'.name)
      BY <2>1, <2>2, <2>7, ManagerActs
    <3> QED
      BY <2>1, <2>2, <3>1, ManagerKeeps
  <2>8. CASE UNCHANGED sharedVars
    <3>1. Together(tail)'
      BY <2>2, <2>8, NothingKeeps
    <3> QED
      BY <3>1
  <2> QED
    BY <2>3, <2>4, <2>5, <2>6, <2>7, <2>8 DEF SharedNext
<1>2. ASSUME deletion' = "torn", ~mixed' PROVE sPc' = "closed"
  <2>1. ~mixed
    BY <1>2 DEF SharedNext, ServerOpens, ServerLoads, ServerSaves, ManagerOpens,
                ManagerWorks, ManagerDeletes, ManagerKilled, ServerKilled, sharedVars
  <2>2. CASE ServerOpens
    <3>1. deletion' = "none"
      BY <1>2, <2>2 DEF ServerOpens, managerVars
    <3> QED
      BY <1>2, <3>1
  <2>3. CASE ServerLoads \/ ServerSaves \/ ServerKilled
    <3>1. deletion = "torn"
      BY <1>2, <2>3 DEF ServerLoads, ServerSaves, ServerKilled, managerVars
    <3>2. sPc # "closed"
      BY <2>3, ServerLoaded, ServerClosing, ServerSavedHeader, ServerSavedInode,
         ServerCrashed DEF ServerLoads, ServerSaves, ServerKilled
    <3> QED
      BY <2>1, <3>1, <3>2 DEF SharedInv
  <2>4. CASE \/ ManagerOpens \/ ManagerWorks \/ ManagerKilled
             \/ \E n \in Names : ManagerDeletes(n)
    <3>1. sPc' = sPc /\ (Crash \/ Next)
      BY <2>4 DEF ManagerOpens, ManagerWorks, ManagerKilled, ManagerDeletes, serverVars,
                  Next, Load
    <3>2. CASE deletion = "torn"
      BY <2>1, <3>1, <3>2 DEF SharedInv
    <3>3. CASE deletion # "torn"
      <4>1. Crash
        BY <1>2, <3>1, <3>3, NotTorn
      <4>2. deletion # "none"
        BY <1>2, <4>1 DEF Crash
      <4>3. PICK tail \in [Blocks -> Seq(Chars)] : Together(tail)
        BY <2>1, <3>3 DEF SharedInv, Ok
      <4> QED
        BY <3>1, <4>2, <4>3 DEF Together, ServerFollows
    <3> QED
      BY <3>2, <3>3
  <2>5. CASE UNCHANGED sharedVars
    BY <1>2, <2>1, <2>5 DEF SharedInv, sharedVars, managerVars, serverVars
  <2> QED
    BY <2>2, <2>3, <2>4, <2>5 DEF SharedNext
<1> QED
  BY <1>1, <1>2 DEF SharedInv

LEMMA AlwaysShared == SharedSpec => []SharedInv
<1>1. SharedInv /\ [SharedNext]_sharedVars => SharedInv'
  BY NextShared
<1> QED
  BY InitShared, <1>1, PTL DEF SharedSpec

-----------------------------------------------------------------------------
(* What the invariant says.                                                *)

\* A figure that is kept has an inode that is seen, and the text of that inode.
LEMMA KeptSeen ==
  ASSUME NEW tail \in [Blocks -> Seq(Chars)], Together(tail), deletion = "none",
         NEW n \in DOMAIN kept, NEW i, i = IndexIn(Live, n)
  PROVE  /\ Seen(i) /\ KeptAt(i) /\ Live[i].name = n
         /\ Live[i].count # 0 /\ tail[Live[i].start] = kept[n]
<1>1. PICK t : t = Live /\ t \in Seq(Inodes)
  BY DEF Together, ManagerInv, DiskInv, TypeInv, TypeOK, Live
<1>2. PICK F : F = Figs(t, Hidden, tail)
  OBVIOUS
<1>3. kept[n] # <<>> /\ n \in DOMAIN F /\ F[n] = kept[n] /\ KeptAt(i)
  BY <1>1, <1>2 DEF Together, KeptFollows
<1>4. n \in Named(t) /\ F[n] = TextOf(t[i], tail)
  BY <1>1, <1>2, <1>3 DEF Figs
<1>5. t[i].name = n
  BY <1>1, <1>4, NamesLead
<1>6. t[i].count # 0 /\ tail[t[i].start] = kept[n]
  BY <1>3, <1>4 DEF TextOf
<1> QED
  BY <1>1, <1>3, <1>5, <1>6 DEF KeptAt

\* The server reads the same disk in the same way.
LEMMA SameContents ==
  ASSUME NEW inode
  PROVE  Server!Contents(inode) = Contents(inode)
BY DEF Server!Contents, Contents, Server!NotFound, NotFound, Server!Found, Found,
       Server!Bytes, Bytes, Server!BlockOrNone, BlockOrNone

LEMMA SameIndex ==
  ASSUME NEW t, NEW n
  PROVE  Server!IndexIn(t, n) = IndexIn(t, n)
BY DEF Server!IndexIn, IndexIn

LEMMA SharedIsApart == SharedInv => SharedApart
<1> SUFFICES ASSUME SharedInv, Ok PROVE FiguresApart
  BY DEF SharedApart, Ok
<1>1. DiskInv /\ Chains
  BY DEF SharedInv, Together, ManagerInv, Tracked, Chains
<1> QED
  BY <1>1, ApartAtRest

LEMMA SharedIsKept == SharedInv => KeptOnDisk
<1> SUFFICES ASSUME SharedInv, ~mixed, deletion = "none", NEW n \in DOMAIN kept
             PROVE  OnDisk(n) = Found(kept[n])
  BY DEF KeptOnDisk
<1>1. PICK tail \in [Blocks -> Seq(Chars)] : Together(tail)
  BY DEF SharedInv, Ok
<1>2. PICK i : i = IndexIn(Live, n)
  OBVIOUS
<1>3. /\ Seen(i) /\ Live[i].name = n
      /\ Live[i].count # 0 /\ tail[Live[i].start] = kept[n]
  BY <1>1, <1>2, KeptSeen
<1>4. DiskInv /\ KillInv /\ Tracked(tail)
  BY <1>1 DEF Together, ManagerInv
<1> QED
  BY <1>3, <1>4, SeenReads

LEMMA SharedIsServed == SharedInv => KeptServed
<1> SUFFICES ASSUME SharedInv, ~mixed, sPc = "idle", NEW n \in DOMAIN kept
             PROVE  Server!ReadFile(n) = Found(kept[n])
  BY DEF KeptServed
<1>1. PICK tail \in [Blocks -> Seq(Chars)] : Together(tail)
  BY DEF SharedInv, Ok
<1>2. ServerTyped /\ ServerFollows /\ DiskInv /\ Tracked(tail)
  BY <1>1 DEF Together, ManagerInv
<1>3. PICK l \in Nat :
        /\ l = Len(sTable) /\ DOMAIN sTable = 1..l
        /\ \A j \in 1..l : /\ sTable[j] \in Inodes /\ Reached(j)
                           /\ sTable[j].name = Live[j].name
  BY <1>2, ServerHas
<1>4. deletion = "none"
  BY <1>2 DEF ServerFollows
<1>5. PICK i, t, m : i = IndexIn(Live, n) /\ t = Live /\ m = Len(Live)
  OBVIOUS
<1>6. /\ Seen(i) /\ KeptAt(i) /\ t[i].name = n
      /\ t[i].count # 0 /\ tail[t[i].start] = kept[n]
  BY <1>1, <1>4, <1>5, KeptSeen
<1>7. i \in 1..l /\ Alike(t[i], sTable[i]) /\ i \in DOMAIN t
  BY <1>3, <1>5, <1>6 DEF KeptAt, Seen, Reached
<1>8. PICK who \in [Blocks -> BlockOrNone], pos \in [Blocks -> Nat] :
        ChainsAre(who, pos) /\ Tells(who, pos, tail)
  BY <1>2 DEF Tracked
<1>9. Contents(sTable[i]) = Found(kept[n])
  <2>1. Filling \/ Deleting => i # Touched
    BY <1>6 DEF Seen, Filling, Beginning
  <2>2. sTable[i].count # 0 /\ tail[sTable[i].start] = kept[n]
    BY <1>6, <1>7 DEF Alike
  <2>3. PICK v \in Inodes : v = sTable[i]
    BY <1>3, <1>7
  <2>4. Contents(v) = IF v.count = 0 THEN NotFound ELSE Found(tail[v.start])
    BY <1>2, <1>5, <1>7, <1>8, <2>1, <2>3, ReadsAlike
  <2> QED
    BY <2>2, <2>3, <2>4
<1>10. IndexIn(sTable, n) = i /\ i # 0
  <2>1. m \in Nat /\ DOMAIN t = 1..m
    BY <1>2, <1>5, LiveTyped DEF DiskInv
  <2>2. l \in 0..m
    <3>1. l \in 1..l
      BY <1>3, <1>7
    <3>2. l \in 1..m
      BY <1>3, <1>5, <2>1, <3>1 DEF Reached
    <3> QED
      BY <3>2
  <2>3. Distinct(t)
    BY <1>5, <1>8 DEF Tells
  <2>4. \A j \in 1..l : sTable[j].name = t[j].name
    BY <1>3, <1>5
  <2>5. sTable \in Seq(Inodes)
    BY <1>2 DEF ServerTyped
  <2>6. \A j \in 1..l : IndexIn(sTable, t[j].name) = j
    BY <1>3, <2>1, <2>2, <2>3, <2>4, <2>5, FoundAmong
  <2> QED
    BY <1>6, <1>7, <2>6
<1>11. Server!ReadFile(n) = Contents(sTable[i])
  <2>1. Server!IndexIn(sTable, n) = i
    BY <1>10, SameIndex
  <2>2. Server!ReadFile(n) = Server!Contents(sTable[i])
    BY <1>10, <2>1 DEF Server!ReadFile, Server!ReadIn
  <2> QED
    BY <2>2, SameContents
<1> QED
  BY <1>9, <1>11

\* The server and the manager on one disk, each writing what the other does not
\* know of: whatever the names, the texts, the block size and the disk, in every
\* order of their steps, and whoever ends first or is killed, no two figures of
\* the manager share a block and empty_B has none of their blocks to hand out,
\* unless a deletion overlapped a session of the server or was cut short.
THEOREM SharingKeepsFiguresApart == SharedSpec => []SharedApart
BY AlwaysShared, SharedIsApart, PTL

\* A figure that the server found when it started, and that nobody deleted
\* since, is on the disk with its text at every later moment, although the
\* server's destructor writes the header and the inodes as it read them over
\* those of the manager: while no deletion is unsaved and none overlapped a
\* session of the server.
THEOREM SharingKeepsFiguresOnDisk == SharedSpec => []KeptOnDisk
BY AlwaysShared, SharedIsKept, PTL

\* The server answers with that text for it, although it reads no inode again
\* while the manager adds figures, links them and saves: unless a deletion
\* overlapped a session of the server.
THEOREM SharingServesFigures == SharedSpec => []KeptServed
BY AlwaysShared, SharedIsServed, PTL

=============================================================================
