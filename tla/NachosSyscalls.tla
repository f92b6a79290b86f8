--------------------------- MODULE NachosSyscalls ---------------------------
(***************************************************************************)
(* The system calls of userprog/exception.cc and the table of open files,  *)
(* as a user program sees them: the program is any sequence of calls, the  *)
(* kernel runs one at a time, and the host keeps the Unix descriptors.     *)
(***************************************************************************)
EXTENDS Integers, FiniteSets, FiniteSetsExt

CONSTANTS Files,       \* names that programs use
          MAX_FILES,   \* entries of the table of open files, 32 in the code
          MaxFds,      \* descriptors that the host gives a process
          None

ASSUME TableSize == MAX_FILES \in Nat /\ MAX_FILES > 3
ASSUME HostSize == MaxFds \in Nat /\ MaxFds > 3

VARIABLES machine,        \* "runs", "halted", "aborted" (by an ASSERT), "crashed",
                          \* "piped" (ended by SIGPIPE)
          again,          \* the call whose pc was not advanced, with its argument
          lockHeld,       \* lock, the lock that calls take
          socket_,        \* the flag of Socket, for Read and Write
          openFilesMap,   \* the bitmap of the table, a set
          openFiles,      \* the Unix descriptor of each entry
          forked,         \* threads of Fork that wait for the processor
          corrupt,        \* Write has put a zero behind its buffer, in the heap
          fds,            \* host: what each open descriptor stands for
          names,          \* host: files that exist
          socks,          \* host: the connection of each socket that Socket made
          given,          \* program: the handles that Open gave it, with their names
          lost,           \* program: descriptors of the handles it has closed
          asked,          \* program: it has called Halt or Exit
          astray          \* program: it has done what the calls do not support

table == <<openFilesMap, openFiles>>
host == <<fds, names, socks>>
program == <<given, lost>>
vars == <<machine, again, lockHeld, socket_, table, forked, corrupt, host,
          program, asked, astray>>

Entries == 0..(MAX_FILES - 1)
Fds == 0..(MaxFds - 1)
Ids == -1..Max({MAX_FILES, MaxFds})     \* arguments of a call

\* A socket has no connection, has one, or had one that the peer has reset.
Connections == {"none", "open", "reset"}

Init ==
  /\ machine = "runs" /\ again = None
  /\ lockHeld = FALSE /\ socket_ = FALSE
  /\ openFilesMap = {0, 1, 2}
  /\ openFiles = [h \in Entries |-> IF h <= 2 THEN h ELSE None]
  /\ forked = 0 /\ corrupt = FALSE
  /\ fds = [d \in 0..2 |-> "terminal"]
  /\ names \in SUBSET Files
  /\ socks = [d \in {} |-> "none"]
  /\ given = [h \in {} |-> None] /\ lost = {}
  /\ asked = FALSE /\ astray = FALSE

-----------------------------------------------------------------------------
(* How a call ends.                                                        *)

\* The program makes the call: the same one if the pc still points at it.
Calls(call) == machine = "runs" /\ again \in {None, call}

\* returnFromSystemCall: the next call may be any.
Returns == again' = None /\ UNCHANGED machine

\* The handler ends and the pc still points at the call.
Repeats(call) == again' = call /\ UNCHANGED machine

Aborts == machine' = "aborted" /\ UNCHANGED again

\* The user thread gives up the processor for good.  A thread of Fork that
\* is switched to reads from the pointer 2; with no thread, Idle halts.
Leaves == machine' = (IF forked > 0 THEN "crashed" ELSE "halted") /\ UNCHANGED again

Astray(yes) == astray' = (astray \/ yes)

\* Acquire by the one user thread, on a lock that a call before has kept.
Blocks ==
  /\ lockHeld
  /\ Leaves
  /\ UNCHANGED <<lockHeld, socket_, table, forked, corrupt, host, program, asked, astray>>

\* BitMap::Test asserts that its argument is in range.
InTable(h) == h \in Entries
isOpened(h) == h \in openFilesMap
getUnixHandle(h) == IF isOpened(h) THEN openFiles[h] ELSE -1

\* The lowest descriptor that is free, as open, creat and socket choose it.
HostFull == Fds \subseteq DOMAIN fds
NewFd == Min(Fds \ DOMAIN fds)
Opened(d, what) == [e \in DOMAIN fds \cup {d} |-> IF e = d THEN what ELSE fds[e]]

-----------------------------------------------------------------------------
(* Threads.                                                                *)

HaltCall ==
  /\ Calls(<<"Halt">>)
  /\ machine' = "halted" /\ asked' = TRUE
  /\ UNCHANGED <<again, lockHeld, socket_, table, forked, corrupt, host, program, astray>>

Exit ==
  /\ Calls(<<"Exit">>)
  /\ Leaves /\ asked' = TRUE
  /\ UNCHANGED <<lockHeld, socket_, table, forked, corrupt, host, program, astray>>

Fork ==
  /\ Calls(<<"Fork">>)
  /\ forked < 1          \* a bound: the first of them to run ends the kernel
  /\ forked' = forked + 1
  /\ Returns /\ Astray(TRUE)
  /\ UNCHANGED <<lockHeld, socket_, table, corrupt, host, program, asked>>

Yield ==
  /\ Calls(<<"Yield">>)
  /\ IF forked > 0 THEN Leaves ELSE Returns
  /\ UNCHANGED <<lockHeld, socket_, table, forked, corrupt, host, program, asked, astray>>

\* The timer of -rs or -p switches to a thread of Fork.
Timer ==
  /\ machine = "runs" /\ forked > 0
  /\ Leaves
  /\ UNCHANGED <<lockHeld, socket_, table, forked, corrupt, host, program, asked, astray>>

\* Exec, Join, the calls on semaphores, locks and conditions, Bind, Listen,
\* Accept and Shutdown: functions with an empty body.
Unwritten ==
  /\ Calls(<<"unwritten">>)
  /\ Repeats(<<"unwritten">>) /\ Astray(TRUE)
  /\ UNCHANGED <<lockHeld, socket_, table, forked, corrupt, host, program, asked>>

\* A number of no call, a negative length of Write or Read, or an exception,
\* that of a bad address in ReadMem or WriteMem included.
Faults ==
  /\ machine = "runs"
  /\ Aborts /\ Astray(TRUE)
  /\ UNCHANGED <<lockHeld, socket_, table, forked, corrupt, host, program, asked>>

-----------------------------------------------------------------------------
(* Files.                                                                  *)

Create(f) ==
  /\ Calls(<<"Create", f>>)
  /\ \/ Blocks
     \/ /\ ~lockHeld
        /\ names' = IF HostFull THEN names ELSE names \cup {f}
        /\ Returns
        /\ UNCHANGED <<lockHeld, socket_, table, forked, corrupt, fds, socks, program, asked, astray>>

\* Mutants: the search goes past the last entry; the entry that is found is
\* not marked; a full table leaves the file open.
FreePastEnd == (0..MAX_FILES) \ openFilesMap

RegisterUnmarked(d, f) ==
  LET pos == Min(Entries \ openFilesMap)
  IN  /\ openFiles' = [openFiles EXCEPT ![pos] = d]
      /\ given' = [h \in DOMAIN given \cup {pos} |-> IF h = pos THEN f ELSE given[h]]
      /\ UNCHANGED openFilesMap

\* The entries that BitMap::Find looks through.
Free == Entries \ openFilesMap

\* NachosOpenFilesTable::Open of the descriptor d of file f, which finds the
\* first free entry and answers its number.
Register(d, f) ==
  LET pos == Min(Free)
  IN  /\ openFilesMap' = openFilesMap \cup {pos}
      /\ openFiles' = [openFiles EXCEPT ![pos] = d]
      /\ given' = [h \in DOMAIN given \cup {pos} |-> IF h = pos THEN f ELSE given[h]]

OpenKeepsFd(f) ==
  /\ Calls(<<"Open", f>>)
  /\ Returns
  /\ fds' = IF f \in names /\ ~HostFull THEN Opened(NewFd, f) ELSE fds
  /\ IF f \in names /\ ~HostFull /\ Free # {} THEN Register(NewFd, f)
                                               ELSE UNCHANGED <<table, given>>
  /\ UNCHANGED <<lockHeld, socket_, forked, corrupt, names, lost, socks, asked, astray>>

\* Open takes no lock.  A descriptor that finds no entry is closed again.
Open(f) ==
  /\ Calls(<<"Open", f>>)
  /\ Returns
  /\ IF f \in names /\ ~HostFull /\ Free # {}
       THEN fds' = Opened(NewFd, f) /\ Register(NewFd, f)
       ELSE UNCHANGED <<fds, table, given>>
  /\ UNCHANGED <<lockHeld, socket_, forked, corrupt, names, lost, socks, asked, astray>>

\* write of the host to descriptor h.  On a socket without a connection it
\* raises SIGPIPE, which nothing in NachOS ignores or catches: the process ends
\* inside the call.  After a reset that is so, or write answers the reset first.
\* Other answers, EBADF included, are left out: Write does not look at them.
HostWrites(h) ==
  \/ /\ h \in DOMAIN socks /\ socks[h] # "open"
     /\ machine' = "piped" /\ again' = <<"Write", h>>
  \/ /\ ~(h \in DOMAIN socks /\ socks[h] = "none")
     /\ Returns

\* Write to h, under socket_ a descriptor of the host.  The zero behind the
\* buffer is at size + 1, past the size + 1 bytes of it: at some sizes that is
\* the header of the next block of the heap, and a later new or delete may abort.
Write(h, edge) ==
  /\ Calls(<<"Write", h>>)
  /\ corrupt' = (corrupt \/ edge)
  /\ CASE socket_              -> HostWrites(h)
       [] ~socket_ /\ h > 2    -> IF InTable(h) THEN Returns ELSE Aborts
       [] ~socket_ /\ h \in 1..2 -> Returns
       [] ~socket_ /\ h < 1    -> Repeats(<<"Write", h>>)
  /\ Astray(edge \/ (~socket_ /\ h \notin {1, 2} \cup DOMAIN given))
  /\ UNCHANGED <<lockHeld, socket_, table, forked, host, program, asked>>

HeapFails ==
  /\ machine = "runs" /\ corrupt
  /\ Aborts
  /\ UNCHANGED <<lockHeld, socket_, table, forked, corrupt, host, program, asked, astray>>

Readable(d) == d \in DOMAIN fds /\ (d \in DOMAIN socks => socks[d] # "none")

\* Read from h; ok is FALSE when read answers -1, as it always does on a socket
\* without a connection.  Without the flag a handle that is not open, or an
\* error, leaves with the lock held.
Read(h, ok) ==
  /\ Calls(<<"Read", h>>)
  /\ \/ Blocks
     \/ /\ ~lockHeld
        /\ IF socket_ \/ InTable(h) THEN Returns ELSE Aborts
        /\ lockHeld' = (~socket_ /\ (~isOpened(h) \/ ~ok))
        /\ socket_' = (socket_ /\ ~(ok /\ Readable(h)))
        /\ Astray(IF socket_ THEN h \notin DOMAIN socks
                             ELSE ~ok \/ h \notin {0, 1, 2} \cup DOMAIN given)
        /\ UNCHANGED <<table, forked, corrupt, host, program, asked>>

\* Close of h frees its entry, and never closes the Unix descriptor.  A handle
\* of the terminal, or one that is not open, leaves with the lock held.
Close(h) ==
  /\ Calls(<<"Close", h>>)
  /\ \/ Blocks
     \/ /\ ~lockHeld
        /\ IF h < 0 \/ InTable(h) THEN Returns ELSE Aborts
        /\ lockHeld' = (h \in 0..2 \/ (InTable(h) /\ ~isOpened(h)))
        /\ LET closed == IF h > 2 /\ isOpened(h) THEN {h} ELSE {}
           IN  /\ openFilesMap' = openFilesMap \ closed
               /\ openFiles' = [e \in Entries |-> IF e \in closed THEN -1 ELSE openFiles[e]]
               /\ given' = [e \in DOMAIN given \ closed |-> given[e]]
               /\ lost' = lost \cup {openFiles[e] : e \in closed}
        /\ Astray(h \notin DOMAIN given)
        /\ UNCHANGED <<socket_, forked, corrupt, host, asked>>

-----------------------------------------------------------------------------
(* Sockets.                                                                *)

\* Mutant: Socket leaves with the lock held.
SocketKeepsLock ==
  /\ Calls(<<"Socket">>)
  /\ \/ Blocks
     \/ /\ ~lockHeld
        /\ Returns
        /\ lockHeld' = TRUE /\ socket_' = TRUE
        /\ UNCHANGED <<table, forked, corrupt, host, program, asked, astray>>

\* Socket hands out the Unix descriptor itself, past the table.
Socket ==
  /\ Calls(<<"Socket">>)
  /\ \/ Blocks
     \/ /\ ~lockHeld
        /\ Returns
        /\ socket_' = TRUE
        /\ IF HostFull
             THEN UNCHANGED <<fds, socks>>
             ELSE /\ fds' = Opened(NewFd, "socket")
                  /\ socks' = [d \in DOMAIN socks \cup {NewFd} |->
                                IF d = NewFd THEN "none" ELSE socks[d]]
        /\ UNCHANGED <<lockHeld, table, forked, corrupt, names, given, lost, asked, astray>>

\* What connect may leave of the connection s of a socket.
AfterConnect(s) == IF s = "none" THEN {"none", "open"} ELSE {s, "none"}

\* Connect of descriptor d; its answer goes to the program.  inet_pton writes
\* the address over the family: mostly connect fails, but another host may
\* answer, and the family 0 takes a connection away.
Connect(d) ==
  /\ Calls(<<"Connect", d>>)
  /\ \/ Blocks
     \/ /\ ~lockHeld
        /\ Returns
        /\ IF d \in DOMAIN socks
             THEN \E s \in AfterConnect(socks[d]) : socks' = [socks EXCEPT ![d] = s]
             ELSE UNCHANGED socks
        /\ UNCHANGED <<lockHeld, socket_, table, forked, corrupt, fds, names, program,
                       asked, astray>>

\* The peer of socket d resets the connection.
PeerResets(d) ==
  /\ machine = "runs"
  /\ d \in DOMAIN socks /\ socks[d] = "open"
  /\ socks' = [socks EXCEPT ![d] = "reset"]
  /\ UNCHANGED <<machine, again, lockHeld, socket_, table, forked, corrupt, fds, names,
                 program, asked, astray>>

-----------------------------------------------------------------------------
Next ==
  \/ HaltCall \/ Exit \/ Fork \/ Yield \/ Timer \/ Unwritten \/ Faults \/ HeapFails
  \/ \E f \in Files : Create(f) \/ Open(f)
  \/ \E h \in Ids : \/ Close(h) \/ Connect(h) \/ PeerResets(h)
                    \/ \E yes \in BOOLEAN : Read(h, yes) \/ Write(h, yes)
  \/ Socket

Spec == Init /\ [][Next]_vars

-----------------------------------------------------------------------------
TypeOK ==
  /\ machine \in {"runs", "halted", "aborted", "crashed", "piped"}
  /\ again \in {None, <<"unwritten">>} \cup {<<"Write", h>> : h \in Ids}
  /\ openFilesMap \subseteq Entries
  /\ openFiles \in [Entries -> Fds \cup {-1, None}]
  /\ DOMAIN fds \subseteq Fds
  /\ socks \in [DOMAIN socks -> Connections]
  /\ names \subseteq Files /\ DOMAIN given \subseteq Entries
  /\ lockHeld \in BOOLEAN /\ socket_ \in BOOLEAN /\ corrupt \in BOOLEAN
  /\ asked \in BOOLEAN /\ astray \in BOOLEAN
  /\ lost \subseteq Fds /\ DOMAIN socks \subseteq Fds /\ forked \in 0..1

\* In the table, a handle that Open gave, and that the program has not closed,
\* leads to the file it was opened for, although handles and descriptors are
\* numbered apart and entries are used again; no two handles share a descriptor.
\* Read and Write go by the table while socket_ is not set.
FilesReached ==
  /\ \A h \in DOMAIN given :
       isOpened(h) /\ getUnixHandle(h) \in DOMAIN fds /\ fds[getUnixHandle(h)] = given[h]
  /\ \A h, g \in openFilesMap : openFiles[h] = openFiles[g] => h = g

\* Every descriptor of the host is in the table, or a socket, or that of a
\* handle the program has closed, which the kernel never closes: no other
\* path, that of a full table included, leaves one behind.
FdsAccounted ==
  DOMAIN fds = {openFiles[h] : h \in openFilesMap} \cup DOMAIN socks \cup lost

\* A program that stays within what the calls support (it reads and closes
\* handles it has open, reads a socket once after Socket, forks nothing, ...)
\* gets its calls answered, and the machine stops when it asks, with one way
\* out: while socket_ is set, a Write to a socket that has no connection (after
\* test/socket.c:8 it mostly has none), or that its peer has reset, may end the
\* kernel by SIGPIPE.
LegalProgramsRun ==
  ~astray =>
    /\ ~lockHeld
    /\ \/ again = None /\ (machine = "runs" \/ (machine = "halted" /\ asked))
       \/ /\ machine = "piped" /\ socket_
          /\ \E d \in DOMAIN socks : again = <<"Write", d>> /\ socks[d] # "open"

=============================================================================
