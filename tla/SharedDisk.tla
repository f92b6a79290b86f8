----------------------------- MODULE SharedDisk -----------------------------
(***************************************************************************)
(* The figure server and the manager menu on the same machine: each has a  *)
(* File_system over disk.bin, with a SuperBlock and a table of its own.    *)
(* The manager takes any step of FigureDisk.  The server opens the disk,   *)
(* answers from it, and ends through its destructor too, which saves the   *)
(* header and the inodes it read when it started.  Either may be killed.    *)
(***************************************************************************)
EXTENDS FigureDiskProps

CONSTANT MaxSessions    \* bound of the model on the sessions of each process

VARIABLES sSb, sTable, sPc, sOp,           \* the server's memory
          sSaved, sKills, sDeletion,       \* its history variables
          kept,       \* history: figures the server found when it opened the
                      \* disk and that nobody deleted since, with their texts
          mixed,      \* history: a deletion and a session of the server overlapped
          sessions    \* how often the disk was opened

serverVars == <<sSb, sTable, sPc, sOp, sSaved, sKills, sDeletion>>
managerVars == <<sb, table, pc, op, saved, kills, deletion>>
sharedVars == <<disk, managerVars, serverVars, kept, mixed, sessions>>

Server == INSTANCE FigureDisk WITH
  sb <- sSb, table <- sTable, pc <- sPc, op <- sOp,
  saved <- sSaved, kills <- sKills, deletion <- sDeletion

SharedInit ==
  /\ Init
  /\ Server!Init
  /\ kept = [n \in {} |-> <<>>]
  /\ mixed = FALSE
  /\ sessions = 0

-----------------------------------------------------------------------------
\* What a process that opened the disk now would read.
Readable == {n \in Names : OnDisk(n).found}

\* The constructor of Figure_server: that of its File_system.
ServerOpens ==
  /\ sessions < MaxSessions
  /\ Server!Open
  /\ kept' = [n \in Readable |-> OnDisk(n).text]
  /\ mixed' = (mixed \/ deletion # "none")
  /\ sessions' = sessions + 1
  /\ UNCHANGED managerVars

ServerLoads ==
  /\ Server!LoadInode
  /\ UNCHANGED <<managerVars, kept, mixed, sessions>>

\* Mutant: the server saves its inodes as it would link them anew, from the
\* last to the first.
ServerSavesBackwards ==
  /\ \/ Server!Close
     \/ Server!SaveHeaderNewest
     \/ Server!SaveInode
  /\ UNCHANGED <<managerVars, kept, mixed, sessions>>

\* SIGINT: running is cleared, main returns, and the destructor of
\* File_system saves what the server knows.
ServerSaves ==
  /\ \/ Server!Close
     \/ Server!SaveHeader
     \/ Server!SaveInode
  /\ UNCHANGED <<managerVars, kept, mixed, sessions>>

ManagerOpens ==
  /\ sessions < MaxSessions
  /\ Open
  /\ sessions' = sessions + 1
  /\ UNCHANGED <<serverVars, kept, mixed>>

ManagerDeletes(n) ==
  /\ DeleteFile(n)
  /\ kept' = [m \in DOMAIN kept \ {n} |-> kept[m]]
  /\ mixed' = (mixed \/ sPc # "closed")
  /\ UNCHANGED <<serverVars, sessions>>

\* Any other step of the manager.
ManagerWorks ==
  /\ \/ LoadInode \/ Save \/ ExtendDisk \/ Make \/ Delete
     \/ \E n \in Names, t \in Texts : MakeFile(n, t)
  /\ UNCHANGED <<serverVars, kept, mixed, sessions>>

\* The menu has no handler for SIGINT; the server may get another signal.
ManagerKilled ==
  /\ Crash
  /\ UNCHANGED <<serverVars, kept, mixed, sessions>>

ServerKilled ==
  /\ Server!Crash
  /\ UNCHANGED <<managerVars, kept, mixed, sessions>>

SharedNext ==
  \/ ServerOpens \/ ServerLoads \/ ServerSaves
  \/ ManagerOpens \/ ManagerWorks \/ \E n \in Names : ManagerDeletes(n)
  \/ ManagerKilled \/ ServerKilled

SharedSpec == SharedInit /\ [][SharedNext]_sharedVars

-----------------------------------------------------------------------------
\* A figure that the server found is on the disk at every later moment, with
\* its text, whichever of the two processes ends first, saves between two
\* writes of the other or is killed, unless a deletion came between or is
\* still unsaved.
KeptOnDisk ==
  ~mixed /\ deletion = "none" => \A n \in DOMAIN kept : OnDisk(n) = Found(kept[n])

\* What the server answers for it is that text, although the manager writes
\* on the same disk and the server never reads an inode again.
KeptServed ==
  ~mixed /\ sPc = "idle" => \A n \in DOMAIN kept : Server!ReadFile(n) = Found(kept[n])

\* The additions that the save of the server undoes leave blocks in use, but
\* none that two figures have or that is free and in a figure.
SharedApart == ~mixed /\ deletion # "torn" => FiguresApart

=============================================================================
