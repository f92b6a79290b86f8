------------------------ MODULE NachosSyscallsProofs ------------------------
(***************************************************************************)
(* Proofs about the system calls, for every set of files, every size of    *)
(* the table of open files and every number of descriptors of the host.    *)
(***************************************************************************)
EXTENDS NachosSyscalls, WellFoundedInduction, TLAPS

-----------------------------------------------------------------------------
(* The inductive invariant: the three properties need each other, and      *)
(* LegalProgramsRun needs to know what only an unsupported program does.   *)

\* The terminal keeps its entries, and no handle of a file is one of them.
TerminalOpen ==
  /\ {0, 1, 2} \subseteq openFilesMap
  /\ \A h \in DOMAIN given : h > 2

\* What ends a kernel later is the doing of a program that went astray.
OnlyAstray == corrupt \/ forked > 0 => astray

IInv ==
  /\ TypeOK /\ TerminalOpen /\ FilesReached /\ FdsAccounted
  /\ OnlyAstray /\ LegalProgramsRun

\* The end by SIGPIPE that a supported program may come to.
Piped == /\ machine = "piped" /\ socket_
         /\ \E d \in DOMAIN socks : again = <<"Write", d>> /\ socks[d] # "open"

\* What the calls do to files, given only the variables that speak of them.
FilesInv == TypeOK /\ TerminalOpen /\ FilesReached /\ FdsAccounted

\* The least element of a set of numbers is in it.
LEMMA MinInSet ==
  ASSUME NEW T, T \subseteq Nat, T # {}
  PROVE  Min(T) \in T
<1> DEFINE R == OpToRel(<, Nat)
<1>1. PICK x \in T : \A y \in T : ~(<<y, x>> \in R)
  <2>1. IsWellFoundedOn(R, Nat)
    BY NatLessThanWellFounded
  <2> HIDE DEF R
  <2> QED
    BY <2>1, WFMin, Zenon
<1>2. ASSUME NEW y \in T PROVE x <= y
  <2>1. <<y, x>> \in Nat \X Nat /\ ~(y < x)
    BY <1>1, <1>2 DEF OpToRel
  <2> QED
    BY <2>1, <1>2
<1> QED
  BY <1>2 DEF Min

LEMMA FreeEntry ==
  ASSUME Free # {}
  PROVE  Min(Free) \in Entries /\ Min(Free) \notin openFilesMap
<1>1. Free \subseteq Nat
  BY TableSize DEF Free, Entries
<1>2. Min(Free) \in Free
  BY <1>1, MinInSet
<1> QED
  BY <1>2 DEF Free

LEMMA FreeFd ==
  ASSUME ~HostFull
  PROVE  NewFd \in Fds /\ NewFd \notin DOMAIN fds
<1> DEFINE T == Fds \ DOMAIN fds
<1>1. T \subseteq Nat /\ T # {}
  BY HostSize DEF Fds, HostFull
<1>2. Min(T) \in T
  <2> HIDE DEF T
  <2> QED
    BY <1>1, MinInSet
<1> QED
  BY <1>2 DEF NewFd

LEMMA InitInv == Init => IInv
<1> SUFFICES ASSUME Init PROVE IInv
  OBVIOUS
<1>1. TypeOK
  <2>1. openFilesMap \subseteq Entries /\ openFiles \in [Entries -> Fds \cup {-1, None}]
    BY TableSize, HostSize DEF Init, Entries, Fds
  <2>2. DOMAIN fds \subseteq Fds
    BY HostSize DEF Init, Fds
  <2>3. socks \in [DOMAIN socks -> Connections] /\ DOMAIN socks = {}
    BY DEF Init
  <2> QED
    BY <2>1, <2>2, <2>3 DEF Init, TypeOK
<1>2. TerminalOpen
  BY DEF Init, TerminalOpen
<1>3. FilesReached
  BY TableSize DEF Init, FilesReached, Entries
<1>4. FdsAccounted
  <2>1. \A h \in {0, 1, 2} : openFiles[h] = h
    BY TableSize DEF Init, Entries
  <2>2. {openFiles[h] : h \in {0, 1, 2}} = {0, 1, 2}
    BY <2>1
  <2>3. DOMAIN fds = {0, 1, 2}
    BY DEF Init
  <2> QED
    BY <2>2, <2>3 DEF Init, FdsAccounted
<1>5. OnlyAstray /\ LegalProgramsRun
  BY DEF Init, OnlyAstray, LegalProgramsRun
<1> QED
  BY <1>1, <1>2, <1>3, <1>4, <1>5 DEF IInv

-----------------------------------------------------------------------------
(* The calls that change files and descriptors.                            *)

LEMMA RegisterKeeps ==
  ASSUME FilesInv, NEW f \in Files, ~HostFull, Free # {},
         Register(NewFd, f), fds' = Opened(NewFd, f),
         UNCHANGED <<lost, socks>>
  PROVE  /\ openFilesMap' \subseteq Entries
         /\ openFiles' \in [Entries -> Fds \cup {-1, None}]
         /\ DOMAIN fds' \subseteq Fds /\ DOMAIN given' \subseteq Entries
         /\ TerminalOpen' /\ FilesReached' /\ FdsAccounted'
<1> DEFINE pos == Min(Free)
           d == NewFd
<1>1. pos \in Entries /\ pos \notin openFilesMap /\ d \in Fds /\ d \notin DOMAIN fds
  BY FreeEntry, FreeFd
<1>2. /\ openFilesMap' = openFilesMap \cup {pos}
      /\ openFiles' = [openFiles EXCEPT ![pos] = d]
      /\ given' = [h \in DOMAIN given \cup {pos} |-> IF h = pos THEN f ELSE given[h]]
      /\ fds' = [e \in DOMAIN fds \cup {d} |-> IF e = d THEN f ELSE fds[e]]
  BY DEF Register, Opened
<1>3. /\ openFilesMap \subseteq Entries /\ DOMAIN fds \subseteq Fds
      /\ openFiles \in [Entries -> Fds \cup {-1, None}] /\ DOMAIN given \subseteq Entries
  BY DEF FilesInv, TypeOK
<1>4. /\ \A h \in openFilesMap : openFiles[h] \in DOMAIN fds
      /\ \A h, g \in openFilesMap : openFiles[h] = openFiles[g] => h = g
      /\ \A h \in DOMAIN given : h \in openFilesMap /\ fds[openFiles[h]] = given[h]
      /\ {0, 1, 2} \subseteq openFilesMap /\ \A h \in DOMAIN given : h > 2
      /\ DOMAIN fds = {openFiles[h] : h \in openFilesMap} \cup DOMAIN socks \cup lost
  BY DEF FilesInv, TerminalOpen, FilesReached, FdsAccounted, isOpened, getUnixHandle
<1> HIDE DEF pos, d
<1>5. /\ openFiles'[pos] = d
      /\ \A h \in openFilesMap : h # pos /\ openFiles'[h] = openFiles[h]
      /\ \A e \in DOMAIN fds : e # d /\ fds'[e] = fds[e]
      /\ fds'[d] = f
  BY <1>1, <1>2, <1>3
<1>6. TerminalOpen'
  <2>1. pos > 2
    BY <1>1, <1>4, TableSize DEF Entries
  <2> QED
    BY <1>2, <1>4, <2>1 DEF TerminalOpen
<1>7. FilesReached'
  <2>1. \A h \in DOMAIN given' :
          /\ h \in openFilesMap' /\ openFiles'[h] \in DOMAIN fds'
          /\ fds'[openFiles'[h]] = given'[h]
    <3> SUFFICES ASSUME NEW h \in DOMAIN given'
                 PROVE  /\ h \in openFilesMap' /\ openFiles'[h] \in DOMAIN fds'
                        /\ fds'[openFiles'[h]] = given'[h]
      OBVIOUS
    <3>1. CASE h = pos
      BY <1>2, <1>5, <3>1
    <3>2. CASE h # pos
      <4>1. h \in DOMAIN given /\ given'[h] = given[h]
        BY <1>2, <3>2
      <4>2. h \in openFilesMap /\ openFiles[h] \in DOMAIN fds /\ fds[openFiles[h]] = given[h]
        BY <1>4, <4>1
      <4> QED
        BY <1>2, <1>5, <4>1, <4>2
    <3> QED
      BY <3>1, <3>2
  <2>2. \A h, g \in openFilesMap' : openFiles'[h] = openFiles'[g] => h = g
    BY <1>1, <1>2, <1>4, <1>5
  <2> QED
    BY <2>1, <2>2 DEF FilesReached, isOpened, getUnixHandle
<1>8. FdsAccounted'
  <2>1. {openFiles'[h] : h \in openFilesMap'} = {openFiles[h] : h \in openFilesMap} \cup {d}
    BY <1>2, <1>5
  <2>2. DOMAIN fds' = DOMAIN fds \cup {d}
    BY <1>2
  <2> QED
    BY <1>4, <2>1, <2>2 DEF FdsAccounted
<1>9. /\ openFilesMap' \subseteq Entries /\ DOMAIN fds' \subseteq Fds
      /\ openFiles' \in [Entries -> Fds \cup {-1, None}] /\ DOMAIN given' \subseteq Entries
  BY <1>1, <1>2, <1>3
<1> QED
  BY <1>6, <1>7, <1>8, <1>9

\* A step that leaves the table, the host's descriptors and the program's
\* handles alone; a socket may gain or lose its connection.
FilesFrame == UNCHANGED <<table, fds, given, lost, DOMAIN socks>>

LEMMA FrameKeeps ==
  ASSUME FilesInv, FilesFrame
  PROVE  /\ openFilesMap' \subseteq Entries
         /\ openFiles' \in [Entries -> Fds \cup {-1, None}]
         /\ DOMAIN fds' \subseteq Fds /\ DOMAIN given' \subseteq Entries
         /\ lost' \subseteq Fds /\ DOMAIN socks' \subseteq Fds
         /\ TerminalOpen' /\ FilesReached' /\ FdsAccounted'
  BY DEF FilesFrame, FilesInv, TypeOK, TerminalOpen, FilesReached, FdsAccounted,
     isOpened, getUnixHandle, table

LEMMA OpenKeeps ==
  ASSUME IInv, NEW f \in Files, Open(f)
  PROVE  IInv'
<1>1. FilesInv /\ TypeOK
  BY DEF IInv, FilesInv
<1>2. /\ UNCHANGED <<lockHeld, socket_, forked, corrupt, names, lost, socks, asked, astray>>
      /\ again' = None /\ UNCHANGED machine /\ machine = "runs"
  BY DEF Open, Returns, Calls
<1>3. /\ openFilesMap' \subseteq Entries
      /\ openFiles' \in [Entries -> Fds \cup {-1, None}]
      /\ DOMAIN fds' \subseteq Fds /\ DOMAIN given' \subseteq Entries
      /\ TerminalOpen' /\ FilesReached' /\ FdsAccounted'
  <2>1. CASE f \in names /\ ~HostFull /\ Free # {}
    <3>1. fds' = Opened(NewFd, f) /\ Register(NewFd, f)
      BY <2>1 DEF Open
    <3> QED
      BY <1>1, <1>2, <2>1, <3>1, RegisterKeeps
  <2>2. CASE ~(f \in names /\ ~HostFull /\ Free # {})
    BY <1>1, <1>2, <2>2, FrameKeeps DEF Open, FilesFrame
  <2> QED
    BY <2>1, <2>2
<1>4. TypeOK'
  BY <1>1, <1>2, <1>3 DEF TypeOK
<1>5. OnlyAstray' /\ LegalProgramsRun'
  BY <1>2 DEF IInv, OnlyAstray, LegalProgramsRun
<1> QED
  BY <1>3, <1>4, <1>5 DEF IInv

LEMMA CloseKeeps ==
  ASSUME IInv, NEW h \in Ids, Close(h)
  PROVE  IInv'
<1>0. TypeOK /\ FilesInv /\ h \in Int
  BY TableSize, HostSize DEF IInv, FilesInv, Ids
<1>1. CASE Blocks
  <2>1. FilesFrame /\ UNCHANGED <<names, socks, again, socket_, lockHeld, forked, corrupt, asked, astray>>
    BY <1>1 DEF Blocks, FilesFrame, host, program, Leaves
  <2>2. lockHeld /\ machine' \in {"crashed", "halted"}
    BY <1>1 DEF Blocks, Leaves
  <2>3. TypeOK'
    BY <1>0, <2>1, <2>2, FrameKeeps DEF TypeOK
  <2>4. OnlyAstray' /\ LegalProgramsRun'
    BY <2>1, <2>2 DEF IInv, OnlyAstray, LegalProgramsRun
  <2> QED
    BY <1>0, <2>1, <2>3, <2>4, FrameKeeps DEF IInv
<1>2. CASE ~Blocks
  <2> DEFINE closed == IF h > 2 /\ isOpened(h) THEN {h} ELSE {}
  <2>1. /\ ~lockHeld
        /\ IF h < 0 \/ InTable(h) THEN Returns ELSE Aborts
        /\ lockHeld' = (h \in 0..2 \/ (InTable(h) /\ ~isOpened(h)))
        /\ openFilesMap' = openFilesMap \ closed
        /\ openFiles' = [e \in Entries |-> IF e \in closed THEN -1 ELSE openFiles[e]]
        /\ given' = [e \in DOMAIN given \ closed |-> given[e]]
        /\ lost' = lost \cup {openFiles[e] : e \in closed}
        /\ astray' = (astray \/ h \notin DOMAIN given)
        /\ UNCHANGED <<socket_, forked, corrupt, fds, names, socks, asked>>
    BY <1>2 DEF Close, Astray, host
  <2>2. closed \subseteq openFilesMap /\ closed \cap {0, 1, 2} = {}
    BY DEF isOpened
  <2>3. /\ openFilesMap \subseteq Entries /\ DOMAIN fds \subseteq Fds
        /\ openFiles \in [Entries -> Fds \cup {-1, None}] /\ DOMAIN given \subseteq Entries
        /\ lost \subseteq Fds /\ DOMAIN socks \subseteq Fds
    BY <1>0 DEF TypeOK
  <2>4. /\ \A e \in openFilesMap : openFiles[e] \in DOMAIN fds
        /\ \A e, g \in openFilesMap : openFiles[e] = openFiles[g] => e = g
        /\ \A e \in DOMAIN given : e \in openFilesMap /\ fds[openFiles[e]] = given[e]
        /\ {0, 1, 2} \subseteq openFilesMap /\ \A e \in DOMAIN given : e > 2
        /\ DOMAIN fds = {openFiles[e] : e \in openFilesMap} \cup DOMAIN socks \cup lost
    BY <1>0 DEF FilesInv, TerminalOpen, FilesReached, FdsAccounted, isOpened, getUnixHandle
  <2> HIDE DEF closed
  <2>5. /\ \A e \in openFilesMap' : e \in openFilesMap /\ openFiles'[e] = openFiles[e]
        /\ \A e \in DOMAIN given' : e \in DOMAIN given /\ given'[e] = given[e] /\ e \notin closed
    BY <2>1, <2>3
  <2>6. TerminalOpen'
    BY <2>1, <2>2, <2>4, <2>5 DEF TerminalOpen
  <2>7. FilesReached'
    <3>1. \A e \in DOMAIN given' :
            /\ e \in openFilesMap' /\ openFiles'[e] \in DOMAIN fds'
            /\ fds'[openFiles'[e]] = given'[e]
      BY <2>1, <2>4, <2>5
    <3>2. \A e, g \in openFilesMap' : openFiles'[e] = openFiles'[g] => e = g
      BY <2>4, <2>5
    <3> QED
      BY <3>1, <3>2 DEF FilesReached, isOpened, getUnixHandle
  <2>8. FdsAccounted'
    <3>1. {openFiles[e] : e \in openFilesMap} =
            {openFiles'[e] : e \in openFilesMap'} \cup {openFiles[e] : e \in closed}
      <4>1. openFilesMap = openFilesMap' \cup closed
        BY <2>1, <2>2
      <4>2. {openFiles[e] : e \in openFilesMap} =
              {openFiles[e] : e \in openFilesMap'} \cup {openFiles[e] : e \in closed}
        BY <4>1
      <4>3. {openFiles[e] : e \in openFilesMap'} = {openFiles'[e] : e \in openFilesMap'}
        BY <2>5
      <4> QED
        BY <4>2, <4>3
    <3> QED
      BY <2>1, <2>4, <3>1 DEF FdsAccounted
  <2>9. TypeOK'
    <3>1. /\ openFilesMap' \subseteq Entries /\ DOMAIN fds' \subseteq Fds
          /\ openFiles' \in [Entries -> Fds \cup {-1, None}] /\ DOMAIN given' \subseteq Entries
      BY <2>1, <2>3
    <3>2. lost' \subseteq Fds
      BY <2>1, <2>2, <2>3, <2>4
    <3>3. lockHeld' \in BOOLEAN /\ astray' \in BOOLEAN
      BY <2>1
    <3>4. /\ machine' \in {"runs", "halted", "aborted", "crashed", "piped"}
          /\ again' \in {None} \cup {again}
      BY <1>0, <2>1 DEF TypeOK, Returns, Aborts
    <3> QED
      BY <1>0, <2>1, <3>1, <3>2, <3>3, <3>4 DEF TypeOK
  <2>10. OnlyAstray' /\ LegalProgramsRun'
    <3>0. machine = "runs"
      BY <1>2 DEF Close, Calls
    <3>1. ASSUME ~astray' PROVE again' = None /\ ~lockHeld' /\ machine' = machine
      <4>1. h \in DOMAIN given
        BY <2>1, <3>1
      <4>2. InTable(h) /\ h \notin 0..2 /\ h \in openFilesMap
        BY <1>0, <2>3, <2>4, <4>1 DEF InTable
      <4>3. lockHeld' = FALSE
        BY <2>1, <4>2 DEF isOpened
      <4>4. Returns
        BY <2>1, <4>2
      <4> QED
        BY <4>3, <4>4 DEF Returns
    <3> QED
      BY <2>1, <3>0, <3>1 DEF IInv, OnlyAstray, LegalProgramsRun
  <2> QED
    BY <2>6, <2>7, <2>8, <2>9, <2>10 DEF IInv
<1> QED
  BY <1>1, <1>2

LEMMA SocketKeeps == IInv /\ Socket => IInv'
<1> SUFFICES ASSUME IInv, Socket PROVE IInv'
  OBVIOUS
<1>0. TypeOK /\ FilesInv
  BY DEF IInv, FilesInv
<1>1. CASE Blocks
  <2>1. FilesFrame /\ UNCHANGED <<names, socks, again, socket_, lockHeld, forked, corrupt, asked, astray>>
    BY <1>1 DEF Blocks, FilesFrame, host, program, Leaves
  <2>2. lockHeld /\ machine' \in {"crashed", "halted"}
    BY <1>1 DEF Blocks, Leaves
  <2>3. TypeOK'
    BY <1>0, <2>1, <2>2, FrameKeeps DEF TypeOK
  <2>4. OnlyAstray' /\ LegalProgramsRun'
    BY <2>1, <2>2 DEF IInv, OnlyAstray, LegalProgramsRun
  <2> QED
    BY <1>0, <2>1, <2>3, <2>4, FrameKeeps DEF IInv
<1>2. CASE ~Blocks
  <2>1. /\ again' = None /\ UNCHANGED machine /\ socket_' = TRUE /\ machine = "runs"
        /\ UNCHANGED <<lockHeld, openFilesMap, openFiles, forked, corrupt, names,
                       given, lost, asked, astray>>
    BY <1>2 DEF Socket, Returns, table, Calls
  <2>2. OnlyAstray' /\ LegalProgramsRun'
    BY <2>1 DEF IInv, OnlyAstray, LegalProgramsRun
  <2>3. CASE HostFull
    <3>1. FilesFrame
      BY <1>2, <2>1, <2>3 DEF Socket, FilesFrame, table
    <3>2. TypeOK'
      <4>1. UNCHANGED <<fds, socks>>
        BY <1>2, <2>3 DEF Socket
      <4> QED
        BY <1>0, <2>1, <3>1, <4>1, FrameKeeps DEF TypeOK
    <3> QED
      BY <1>0, <2>2, <3>1, <3>2, FrameKeeps DEF IInv
  <2>4. CASE ~HostFull
    <3> DEFINE d == NewFd
    <3>1. /\ d \in Fds /\ d \notin DOMAIN fds
          /\ fds' = [e \in DOMAIN fds \cup {d} |-> IF e = d THEN "socket" ELSE fds[e]]
          /\ socks' = [e \in DOMAIN socks \cup {d} |-> IF e = d THEN "none" ELSE socks[e]]
      BY <1>2, <2>4, FreeFd DEF Socket, Opened
    <3> HIDE DEF d
    <3>2. /\ \A h \in openFilesMap : openFiles[h] \in DOMAIN fds
          /\ \A h, g \in openFilesMap : openFiles[h] = openFiles[g] => h = g
          /\ \A h \in DOMAIN given : h \in openFilesMap /\ fds[openFiles[h]] = given[h]
          /\ DOMAIN fds = {openFiles[h] : h \in openFilesMap} \cup DOMAIN socks \cup lost
      BY <1>0 DEF FilesInv, FilesReached, FdsAccounted, isOpened, getUnixHandle
    <3>3. \A e \in DOMAIN fds : e \in DOMAIN fds' /\ fds'[e] = fds[e]
      BY <3>1
    <3>4. FilesReached'
      <4>1. \A h \in DOMAIN given' :
              /\ h \in openFilesMap' /\ openFiles'[h] \in DOMAIN fds'
              /\ fds'[openFiles'[h]] = given'[h]
        BY <2>1, <3>2, <3>3
      <4>2. \A h, g \in openFilesMap' : openFiles'[h] = openFiles'[g] => h = g
        BY <2>1, <3>2
      <4> QED
        BY <4>1, <4>2 DEF FilesReached, isOpened, getUnixHandle
    <3>5. FdsAccounted'
      <4>1. DOMAIN fds' = DOMAIN fds \cup {d}
        BY <3>1
      <4> QED
        BY <2>1, <3>1, <3>2, <4>1 DEF FdsAccounted
    <3>6. TypeOK' /\ TerminalOpen'
      <4>1. DOMAIN fds' \subseteq Fds /\ DOMAIN socks' \subseteq Fds
        BY <1>0, <3>1 DEF TypeOK
      <4>2. socks' \in [DOMAIN socks' -> Connections]
        BY <1>0, <3>1 DEF TypeOK, Connections
      <4> QED
        BY <1>0, <2>1, <4>1, <4>2 DEF TypeOK, TerminalOpen, FilesInv
    <3> QED
      BY <2>2, <3>4, <3>5, <3>6 DEF IInv
  <2> QED
    BY <2>3, <2>4
<1> QED
  BY <1>1, <1>2

-----------------------------------------------------------------------------
(* The other calls.                                                        *)

\* A step that leaves files alone keeps the invariant if it keeps the types
\* of the rest, and what is said of programs.
LEMMA QuietKeeps ==
  ASSUME IInv, FilesFrame,
         machine' \in {"runs", "halted", "aborted", "crashed", "piped"},
         again' \in {None, <<"unwritten">>} \cup {<<"Write", h>> : h \in Ids},
         names' \subseteq Files, socks' \in [DOMAIN socks' -> Connections], lockHeld' \in BOOLEAN, socket_' \in BOOLEAN,
         corrupt' \in BOOLEAN, asked' \in BOOLEAN, astray' \in BOOLEAN,
         forked' \in 0..1, OnlyAstray', LegalProgramsRun'
  PROVE  IInv'
<1>1. FilesInv
  BY DEF IInv, FilesInv
<1>2. TypeOK'
  BY <1>1, FrameKeeps DEF TypeOK
<1> QED
  BY <1>1, <1>2, FrameKeeps DEF IInv

\* What a step that is quiet needs of the invariant.
LEMMA Types ==
  ASSUME IInv
  PROVE  /\ machine \in {"runs", "halted", "aborted", "crashed", "piped"}
         /\ again \in {None, <<"unwritten">>} \cup {<<"Write", h>> : h \in Ids}
         /\ names \subseteq Files /\ socks \in [DOMAIN socks -> Connections] /\ lockHeld \in BOOLEAN /\ socket_ \in BOOLEAN
         /\ corrupt \in BOOLEAN /\ asked \in BOOLEAN /\ astray \in BOOLEAN
         /\ forked \in 0..1
         /\ corrupt \/ forked > 0 => astray
         /\ ~astray => /\ ~lockHeld
                       /\ \/ again = None /\ (machine = "runs" \/ (machine = "halted" /\ asked))
                          \/ Piped
  BY DEF IInv, TypeOK, OnlyAstray, LegalProgramsRun, Piped

LEMMA BlocksKeeps == IInv /\ Blocks => IInv'
<1> SUFFICES ASSUME IInv, Blocks PROVE IInv'
  OBVIOUS
<1>1. /\ FilesFrame /\ lockHeld /\ machine' \in {"crashed", "halted"}
      /\ UNCHANGED <<again, names, socks, lockHeld, socket_, forked, corrupt, asked, astray>>
  BY DEF Blocks, Leaves, FilesFrame, host, program
<1>2. OnlyAstray' /\ LegalProgramsRun'
  BY <1>1, Types DEF OnlyAstray, LegalProgramsRun, Piped
<1> QED
  BY <1>1, <1>2, Types, QuietKeeps

LEMMA ThreadsKeep ==
  ASSUME IInv, HaltCall \/ Exit \/ Fork \/ Yield \/ Timer
  PROVE  IInv'
<1>1. FilesFrame /\ UNCHANGED <<names, socks, lockHeld, socket_, corrupt>>
  BY DEF HaltCall, Exit, Fork, Yield, Timer, FilesFrame, host, program
<1>2. /\ machine' \in {"runs", "halted", "aborted", "crashed", "piped"}
      /\ again' \in {None, again} /\ asked' \in BOOLEAN /\ astray' \in BOOLEAN
      /\ forked' \in 0..1
  <2>1. machine' \in {"runs", "halted", "aborted", "crashed", "piped"} /\ again' \in {None, again}
    BY Types DEF HaltCall, Exit, Fork, Yield, Timer, Leaves, Returns
  <2>2. asked' \in BOOLEAN /\ astray' \in BOOLEAN
    BY Types DEF HaltCall, Exit, Fork, Yield, Timer, Astray
  <2>3. forked' \in 0..1
    <3>1. forked' = forked \/ (forked < 1 /\ forked' = forked + 1)
      BY DEF HaltCall, Exit, Fork, Yield, Timer
    <3>2. forked \in {0, 1}
      BY Types
    <3> QED
      BY <3>1, <3>2
  <2> QED
    BY <2>1, <2>2, <2>3
<1>3. OnlyAstray' /\ LegalProgramsRun'
  <2>1. CASE HaltCall
    <3>1. /\ machine' = "halted" /\ asked' = TRUE /\ machine = "runs"
          /\ UNCHANGED <<again, lockHeld, forked, corrupt, astray>>
      BY <1>1, <2>1 DEF HaltCall, Calls
    <3> QED
      BY <3>1, Types DEF OnlyAstray, LegalProgramsRun, Piped
  <2>2. CASE Exit
    <3>1. /\ machine' = (IF forked > 0 THEN "crashed" ELSE "halted")
          /\ asked' = TRUE /\ UNCHANGED <<again, forked, astray>> /\ machine = "runs"
      BY <2>2 DEF Exit, Leaves, Calls
    <3>2. ~astray => machine' = "halted"
      BY <3>1, Types
    <3> QED
      BY <1>1, <3>1, <3>2, Types DEF OnlyAstray, LegalProgramsRun, Piped
  <2>3. CASE Fork
    <3>1. astray' = TRUE
      BY <2>3 DEF Fork, Astray
    <3> QED
      BY <3>1 DEF OnlyAstray, LegalProgramsRun, Piped
  <2>4. CASE Yield
    <3>1. /\ UNCHANGED <<forked, asked, astray>> /\ machine = "runs"
          /\ forked > 0 \/ (again' = None /\ UNCHANGED machine)
      BY <2>4 DEF Yield, Returns, Calls
    <3> QED
      BY <1>1, <3>1, Types DEF OnlyAstray, LegalProgramsRun, Piped
  <2>5. CASE Timer
    <3>1. astray' = astray /\ astray
      BY <2>5, Types DEF Timer
    <3> QED
      BY <3>1 DEF OnlyAstray, LegalProgramsRun, Piped
  <2> QED
    BY <2>1, <2>2, <2>3, <2>4, <2>5
<1> QED
  BY <1>1, <1>2, <1>3, Types, QuietKeeps

LEMMA FaultsKeep ==
  ASSUME IInv, Unwritten \/ Faults \/ HeapFails
  PROVE  IInv'
<1>1. FilesFrame /\ UNCHANGED <<names, socks, lockHeld, socket_, corrupt, forked, asked>>
  BY DEF Unwritten, Faults, HeapFails, FilesFrame, host, program
<1>2. /\ machine' \in {"runs", "halted", "aborted", "crashed", "piped"}
      /\ again' \in {<<"unwritten">>, again} /\ astray' \in BOOLEAN
  BY Types DEF Unwritten, Faults, HeapFails, Repeats, Aborts, Astray
<1>3. OnlyAstray' /\ LegalProgramsRun'
  <2>1. CASE Unwritten \/ Faults
    <3>1. astray' = TRUE
      BY <2>1 DEF Unwritten, Faults, Astray
    <3> QED
      BY <3>1 DEF OnlyAstray, LegalProgramsRun, Piped
  <2>2. CASE HeapFails
    <3>1. astray' = astray /\ astray
      BY <2>2, Types DEF HeapFails
    <3> QED
      BY <3>1 DEF OnlyAstray, LegalProgramsRun, Piped
  <2> QED
    BY <2>1, <2>2
<1> QED
  BY <1>1, <1>2, <1>3, Types, QuietKeeps

LEMMA CreateKeeps ==
  ASSUME IInv, NEW f \in Files, Create(f)
  PROVE  IInv'
<1>1. CASE Blocks
  BY <1>1, BlocksKeeps
<1>2. CASE ~Blocks
  <2>1. /\ FilesFrame /\ again' = None /\ machine = "runs" /\ names' \in {names, names \cup {f}}
        /\ UNCHANGED <<socks, machine, lockHeld, socket_, corrupt, forked, asked, astray>>
    BY <1>2 DEF Create, Returns, Calls, FilesFrame, program
  <2>2. OnlyAstray' /\ LegalProgramsRun'
    BY <2>1, Types DEF OnlyAstray, LegalProgramsRun, Piped
  <2> QED
    BY <2>1, <2>2, Types, QuietKeeps
<1> QED
  BY <1>1, <1>2

LEMMA ConnectKeeps ==
  ASSUME IInv, NEW d \in Ids, Connect(d)
  PROVE  IInv'
<1>1. CASE Blocks
  BY <1>1, BlocksKeeps
<1>2. CASE ~Blocks
  <2>1. /\ UNCHANGED <<fds, given, lost>> /\ table' = table /\ Returns
        /\ UNCHANGED <<names, lockHeld, socket_, corrupt, forked, asked, astray>>
        /\ IF d \in DOMAIN socks
             THEN \E s \in AfterConnect(socks[d]) : socks' = [socks EXCEPT ![d] = s]
             ELSE UNCHANGED socks
    BY <1>2 DEF Connect, program
  <2>2. socks' \in [DOMAIN socks -> Connections] /\ DOMAIN socks' = DOMAIN socks
    <3>1. CASE d \in DOMAIN socks
      <4>1. PICK s \in AfterConnect(socks[d]) : socks' = [socks EXCEPT ![d] = s]
        BY <2>1, <3>1
      <4>2. s \in Connections
        BY <3>1, <4>1, Types DEF AfterConnect, Connections
      <4> QED
        BY <4>1, <4>2, Types
    <3>2. CASE d \notin DOMAIN socks
      BY <2>1, <3>2, Types
    <3> QED
      BY <3>1, <3>2
  <2>3. FilesFrame /\ again' = None /\ UNCHANGED machine
    BY <2>1, <2>2 DEF FilesFrame, Returns
  <2>4. machine # "piped"
    BY DEF Connect, Calls
  <2>5. OnlyAstray' /\ LegalProgramsRun'
    BY <2>1, <2>3, <2>4, Types DEF OnlyAstray, LegalProgramsRun, Piped
  <2> QED
    BY <2>1, <2>2, <2>3, <2>5, Types, QuietKeeps
<1> QED
  BY <1>1, <1>2

LEMMA PeerKeeps ==
  ASSUME IInv, NEW d \in Ids, PeerResets(d)
  PROVE  IInv'
<1>1. /\ socks' = [socks EXCEPT ![d] = "reset"] /\ machine = "runs"
      /\ UNCHANGED <<machine, again, lockHeld, socket_, table, forked, corrupt, fds, names,
                     given, lost, asked, astray>>
  BY DEF PeerResets, program
<1>2. socks' \in [DOMAIN socks -> Connections] /\ DOMAIN socks' = DOMAIN socks
  BY <1>1, Types DEF Connections
<1>3. FilesFrame
  BY <1>1, <1>2 DEF FilesFrame
<1>4. OnlyAstray' /\ LegalProgramsRun'
  BY <1>1, Types DEF OnlyAstray, LegalProgramsRun, Piped
<1> QED
  BY <1>1, <1>2, <1>3, <1>4, Types, QuietKeeps

\* A handle that the program has, or one of the terminal, is in the table.
LEMMA HandlesInTable ==
  ASSUME IInv
  PROVE  /\ \A h \in DOMAIN given : h \in Entries /\ h \in openFilesMap /\ h > 2
         /\ \A h \in {0, 1, 2} : h \in Entries /\ h \in openFilesMap
  BY DEF IInv, TypeOK, TerminalOpen, FilesReached, isOpened

LEMMA ReadKeeps ==
  ASSUME IInv, NEW h \in Ids, NEW ok \in BOOLEAN, Read(h, ok)
  PROVE  IInv'
<1>1. CASE Blocks
  BY <1>1, BlocksKeeps
<1>2. CASE ~Blocks
  <2>1. /\ FilesFrame
        /\ IF socket_ \/ InTable(h) THEN Returns ELSE Aborts
        /\ lockHeld' = (~socket_ /\ (~isOpened(h) \/ ~ok))
        /\ socket_' = (socket_ /\ ~(ok /\ Readable(h)))
        /\ astray' = (astray \/ (IF socket_ THEN h \notin DOMAIN socks
                                 ELSE ~ok \/ h \notin {0, 1, 2} \cup DOMAIN given))
        /\ UNCHANGED <<names, socks, corrupt, forked, asked>>
    BY <1>2 DEF Read, Astray, FilesFrame, host, program
  <2>2. machine = "runs" /\ machine' \in {machine, "aborted"} /\ again' \in {None, again}
    BY <2>1 DEF Read, Calls, Returns, Aborts
  <2>3. ~astray' => again' = None /\ ~lockHeld' /\ machine' = machine
    BY <2>1, HandlesInTable DEF Returns, InTable, isOpened
  <2>4. OnlyAstray' /\ LegalProgramsRun'
    BY <2>1, <2>2, <2>3, Types DEF OnlyAstray, LegalProgramsRun, Piped
  <2>5. lockHeld' \in BOOLEAN /\ socket_' \in BOOLEAN /\ astray' \in BOOLEAN
    BY <2>1, Types
  <2> QED
    BY <2>1, <2>2, <2>4, <2>5, Types, QuietKeeps
<1> QED
  BY <1>1, <1>2

LEMMA WriteKeeps ==
  ASSUME IInv, NEW h \in Ids, NEW edge \in BOOLEAN, Write(h, edge)
  PROVE  IInv'
<1>0. h \in Int /\ machine = "runs"
  BY TableSize, HostSize DEF Ids, Write, Calls
<1>1. /\ FilesFrame /\ corrupt' = (corrupt \/ edge)
      /\ astray' = (astray \/ edge \/ (~socket_ /\ h \notin {1, 2} \cup DOMAIN given))
      /\ UNCHANGED <<names, socks, lockHeld, socket_, forked, asked>>
  BY DEF Write, Astray, FilesFrame, host, program
<1>2. \/ socket_ /\ HostWrites(h)
      \/ ~socket_ /\ h \in 1..2 /\ Returns
      \/ ~socket_ /\ h > 2 /\ (IF InTable(h) THEN Returns ELSE Aborts)
      \/ ~socket_ /\ h < 1 /\ Repeats(<<"Write", h>>)
  <2>1. \/ socket_
        \/ ~socket_ /\ h > 2
        \/ ~socket_ /\ h \in 1..2 /\ ~(h > 2)
        \/ ~socket_ /\ h < 1 /\ ~(h > 2) /\ h \notin 1..2
    BY <1>0
  <2> QED
    BY <2>1 DEF Write
<1>3. machine' \in {machine, "aborted", "piped"} /\ again' \in {None, again, <<"Write", h>>}
  BY <1>2 DEF Returns, Aborts, Repeats, HostWrites
<1>4. ~astray' => \/ again' = None /\ machine' = machine
                  \/ Piped'
  <2> SUFFICES ASSUME ~astray'
               PROVE  \/ again' = None /\ machine' = machine
                      \/ Piped'
    OBVIOUS
  <2>1. CASE socket_
    BY <1>1, <1>2, <2>1 DEF HostWrites, Returns, Piped
  <2>2. CASE ~socket_
    <3>1. h \in {1, 2} \cup DOMAIN given
      BY <1>1, <2>2
    <3>2. h \in DOMAIN given => h > 2 /\ InTable(h)
      BY HandlesInTable DEF InTable
    <3>3. Returns
      BY <1>0, <1>2, <2>2, <3>1, <3>2
    <3> QED
      BY <3>3 DEF Returns
  <2> QED
    BY <2>1, <2>2
<1>5. OnlyAstray' /\ LegalProgramsRun'
  BY <1>0, <1>1, <1>4, Types DEF OnlyAstray, LegalProgramsRun, Piped
<1>6. corrupt' \in BOOLEAN /\ astray' \in BOOLEAN
  BY <1>1, Types
<1> QED
  BY <1>1, <1>3, <1>5, <1>6, Types, QuietKeeps

LEMMA NextKeeps == IInv /\ [Next]_vars => IInv'
<1> SUFFICES ASSUME IInv, [Next]_vars PROVE IInv'
  OBVIOUS
<1>1. CASE HaltCall \/ Exit \/ Fork \/ Yield \/ Timer
  BY <1>1, ThreadsKeep
<1>2. CASE Unwritten \/ Faults \/ HeapFails
  BY <1>2, FaultsKeep
<1>3. CASE \E f \in Files : Create(f) \/ Open(f)
  BY <1>3, CreateKeeps, OpenKeeps
<1>4. CASE \E h \in Ids : Close(h)
  BY <1>4, CloseKeeps
<1>5. CASE \E h \in Ids, yes \in BOOLEAN : Read(h, yes) \/ Write(h, yes)
  BY <1>5, ReadKeeps, WriteKeeps
<1>6. CASE Socket \/ \E h \in Ids : Connect(h) \/ PeerResets(h)
  BY <1>6, SocketKeeps, ConnectKeeps, PeerKeeps
<1>7. CASE UNCHANGED vars
  <2>1. /\ FilesFrame
        /\ UNCHANGED <<machine, again, names, socks, lockHeld, socket_, corrupt, forked, asked, astray>>
    BY <1>7 DEF vars, FilesFrame, table, host, program
  <2>2. OnlyAstray' /\ LegalProgramsRun'
    BY <2>1, Types DEF OnlyAstray, LegalProgramsRun, Piped
  <2> QED
    BY <2>1, <2>2, Types, QuietKeeps
<1> QED
  BY <1>1, <1>2, <1>3, <1>4, <1>5, <1>6, <1>7 DEF Next

LEMMA Invariant == Spec => []IInv
<1>1. Init => IInv
  BY InitInv
<1>2. IInv /\ [Next]_vars => IInv'
  BY NextKeeps
<1> QED
  BY <1>1, <1>2, PTL DEF Spec

-----------------------------------------------------------------------------
\* The table holds descriptors of the host, and handles are entries of it.
THEOREM SyscallTyping == Spec => []TypeOK
<1>1. IInv => TypeOK
  BY DEF IInv
<1> QED
  BY <1>1, Invariant, PTL

\* In the table, whatever a program calls, a handle that Open gave it leads to
\* its file until it is closed, although entries and descriptors are used again.
THEOREM HandlesReachTheirFiles == Spec => []FilesReached
<1>1. IInv => FilesReached
  BY DEF IInv
<1> QED
  BY <1>1, Invariant, PTL

\* The only descriptors that are left behind are those of handles that were
\* closed.
THEOREM DescriptorsAccounted == Spec => []FdsAccounted
<1>1. IInv => FdsAccounted
  BY DEF IInv
<1> QED
  BY <1>1, Invariant, PTL

\* Programs that stay within what the calls support are never blocked by the
\* kernel lock, repeated, aborted or halted; only a write to a socket that has
\* no connection any more, or has had none, may end the kernel under them.
THEOREM LegalProgramsGoOn == Spec => []LegalProgramsRun
<1>1. IInv => LegalProgramsRun
  BY DEF IInv
<1> QED
  BY <1>1, Invariant, PTL

=============================================================================
