# Verification of the island figure system

The repository is the course work of a group on operating systems and
networks.  Its product is a distributed service of ASCII figures: every
"island" runs a figure server with figures on a disk image of its own, and an
intermediary (the fork server, called *tenedor* in the group's protocol) finds
the servers by broadcast and forwards the requests of clients to them.  The
clients of the course run on NachOS, a teaching kernel, of which the group wrote
the locks, a monitor of dining philosophers and the system calls.  This project
models the store on the disk, the processes that share it, the tenedor of the
group protocol, the later fork server with its shared connections, and the
group's part of NachOS.

Contents: [inventory](#inventory), [modules](#modules),
[runs](#runs), [fairness](#fairness), [proofs](#proofs),
[deviations found](#deviations-between-documents-and-code),
[abstractions](#abstractions), [plan](#plan).

## Inventory

Paths are relative to `src/`.  `G/` stands for
`Trabajo_clase_24/Servergrupo nacho/`, `T/` for `Tarea_corta_22/src/`, and
`N/` for `Trabajo_clase_18/Nachos_client/NachOSx64/code/`.

### Figure store (`G/SuperBlock.cc`, `G/File_system.cc`)

*State.*  `disk.bin`: a header block and blocks of 256 bytes with a used flag,
251 bytes of payload and a next pointer.  In memory: the counters of the
`SuperBlock` and `inodeTable`.

*Operations.*  `make_file`, `delete_file`, `read_file`, `list_file`,
`ExtendDisk`, the constructor (reads the header and follows the inodes) and the
destructor (`save_Bs`, writes header and inodes).

*Users.*  `main_manage_figures` (menu) and `Figure_server`, which only reads
during its session, but whose destructor writes the header and the inodes that
it read when it started.  Nothing keeps the two from running at once.

*Hard.*  Metadata reach the disk only in the destructor while data and flags
are written at once, so a kill leaves the two apart; blocks are given back by
counting links, as many as were counted when they were taken, and the first
block of an empty figure, which the menu stores when its first line is empty, is
not counted; the disk grows in the middle of an operation.

*Correct when.*  Every block belongs to one figure at most and is free
otherwise, but for the blocks that deleted empty figures leave behind; counters agree with flags; a clean restart restores the table; seen
from outside the store is a persistent map; a kill loses no saved figure, and one
that cuts a deletion short none that lies before the deleted one; a server and
a manager that overlap lose no figure that both know, as long as nothing is
deleted.

### Tenedor of the group protocol (`T/Tenedor.cc`) and its servers (`T/Server.cc`)

*State.*  `figureMap` (figure -> address) under one mutex; the flag `running`;
a thread for discovery, one that asks every ten seconds, one that accepts HTTP
connections and one per connection.

*Operations.*  Announcements, farewells and discovery over UDP; for a request:
lookup, TCP connection to the server, answer.  The mutex is held during the
whole conversation with the server.

*Hard.*  Lost and reordered datagrams; servers that leave, return, hang or
announce themselves before they listen; the end after a signal.

*Correct when.*  The table does not change under a request that is being
forwarded; every request is answered and every announcement is heard although
the mutex is held so long; a server that has left is forgotten; a tenedor that
starts late still finds the servers; a signal ends it.

### Fork server (`G/Fork_Server.cc`), figure server (`G/Figure_server.cc`), client (`G/client_udp.cc`)

*State.*  `tabla` (figure -> name and address) and `sockets` (address -> TCP
connection, or null) under `tabla_mutex`; the flag `runningF`.  One connection
per figure server, used by all workers.

*Operations.*  `udp_discovery` (a broadcast every two minutes, at most six
datagrams read, `addRoute` for each), `udp_client_receptor` (a datagram from a
client, `searchRoute`, a thread), `tcp_servers` (the thread: write the request
to the connection, read the response in pieces of 512 bytes, send it to the
client).  The figure server answers discovery with a list of figures and each
request on a connection with a figure or 404.

*Hard.*  `sockets` is read without the mutex; workers share a byte stream; the
length of a response is guessed from full buffers; a connection that failed is
to be tried again; a connection whose server has gone is never replaced, and a
write to it raises SIGPIPE.

*Correct when.*  A worker finds the connection of its server; a client is
answered with the figure it asked for, complete; the process does not die of
what a client or an announcement says; a server that could not be reached is
reached later; workers end.

### NachOS synchronisation (`N/threads/synch.cc`) and dining philosophers (`N/threads/diningph.cc`)

*State.*  The scheduler's ready list, the current thread, the thread to be
destroyed; value and queue of each semaphore; the owner of a lock; the state of
each philosopher, one lock `dp` and a semaphore `self` for each.

*Operations.*  `Fork`, `Yield`, `Sleep`, `Finish` and `Run`; `P` and `V`;
`Acquire` and `Release`; `pickup`, `putdown` and `test`; the rounds of `Philo`
as `ThreadTest` starts them.

*Hard.*  A time slice may end between any two steps (`-p`, `-rs`); `owner` is
written with interrupts on, after `P` and before `V`; a thread that is woken
gets no permit with it; `test` acts for a neighbour that may be anywhere.

*Correct when.*  The lock excludes, and is released by its owner; a thread is in
one place and is deleted after its end only; neighbours do not eat together; a
permit comes once for each meal; all meals are eaten and the machine halts.

### NachOS system calls (`N/userprog/exception.cc`) and open-file table (`N/userprog/NachosOpenFileTable.cc`)

*State.*  The kernel lock of the calls, the flag `socket_`, the table of open
files (a bitmap and Unix descriptors); on the host, the open descriptors.

*Operations.*  `Halt`, `Exit`, `Fork`, `Yield`, `Create`, `Open`, `Read`,
`Write`, `Close`, `Socket`, `Connect`; fourteen further calls with an empty body.

*Hard.*  Early returns that keep the lock or do not advance the program
counter; a flag that makes handles of files look like sockets; entries and
descriptors that are numbered apart and both used again; a full table; a write
to a socket that has no connection, or lost it, raises SIGPIPE, which nothing in
NachOS ignores.

*Correct when.*  A handle stands for the file it was opened for until it is
closed; descriptors are neither lost nor shared; a program that stays within
what the calls support gets its answer, unless a write to such a socket ends
the kernel.

### Parts that are not modelled

| Part | Sources | Why |
|---|---|---|
| NachOS address spaces | `N/userprog/addrspace.cc` | page i is frame i, there is one space, and nothing changes after it is loaded |
| NachOS as distributed | `N/machine`, `N/filesys` | not of this project; what the locks use of the scheduler is in `NachosSynch` |
| Conditions, mutexes and barriers of NachOS | `N/threads/synch.cc` | their bodies are empty; nothing that could be modelled is behind the names |
| File system of the group server | `T/FileSystem.cc` | replaced by the store of `G/`; `Tenedor` sees of it which figures a server holds.  It starts to allocate at block 0, the directory, in every process that opens an existing disk |
| Fork server simulation, simulation 3 | `Trabajo_clase_22/`, `Trabajo_clase_18/Simulation#3/` | the servers that they simulate are modelled themselves |
| HTTP figure server | `Trabajo_clase_18/ServidorHTTP/` | reads a copy of the store, one thread per connection |
| First file system | `Tarea_corta_23/` | superseded by the store above |
| Echo servers, socket clients, TLS wrapper | `Tarea_corta_02` to `_09` | no state between two messages |
| Configurations of devices | `Config_Switch/` | no program |

`G/SuperBlock.cc` has identical copies in `Trabajo_clase_18` and `_22`.

## Modules

| Module | Models or holds |
|---|---|
| `FigureStore` | what the store promises: a persistent map from names to texts |
| `FigureDisk` | `SuperBlock` and `File_system`, one step per write to `disk.bin` |
| `FigureDiskProps` | properties of `FigureDisk` and its refinement of `FigureStore` |
| `FigureLeaks` | `FigureDisk` with the history of the blocks that deletions leave behind |
| `FigureDiskProofs`, `FigureChainProofs`, `FigureKillProofs` | theorems about `FigureDisk`; the second on the chains of data blocks, what following them finds, the texts read along them and the refinement, the third on what a kill leaves |
| `SharedDisk` | figure server and manager, two processes over one `disk.bin` |
| `SharedDiskProofs` | theorems about `SharedDisk` |
| `Tenedor` | the tenedor, its figure servers, clients and the network |
| `TenedorProofs` | theorems about `Tenedor` |
| `ForkServer` | the fork server, its figure servers, clients and the network |
| `ForkServerProofs` | theorems about `ForkServer` |
| `AbstractLock` | what `synch.h` promises of a lock |
| `NachosSynch` | threads, scheduler, semaphores and the lock of NachOS |
| `DiningPh` | the philosophers over `NachosSynch`; the lock refines `AbstractLock` |
| `DiningPhProofs` | theorems about `DiningPh` and with it about `NachosSynch` |
| `NachosSyscalls` | system calls, open-file table and the descriptors of the host |
| `NachosSyscallsProofs` | theorems about `NachosSyscalls` |
| `MCFigureDisk`, `MCFigureLeaks`, `MCSharedDisk`, `MCTenedor`, `MCForkServer`, `MCDiningPh`, `MCNachosSyscalls` | instances for TLC |

### FigureDisk

`header`, `used`, `data` and `next` are `disk.bin`; `sb` and `table` are the
counters and `inodeTable`; `pc` and `op` are the operation that runs and its
local variables.  `saved` (the inodes on the disk when the last process ended, by
its destructor or by a kill), `kills` and `deletion` are history.

| Code | Actions |
|---|---|
| constructor | `Open`, `LoadInode` |
| `make_file` / `ad_file` / `adIno_file` / `wr_file` | `MakeFile`, `AllocInode`, `WriteInode`, `AllocFirst`, `WriteData`, `AllocNext`, `Link` |
| `empty_B`, `ExtendDisk` | `TakeBlock` (part of the allocations), `ExtendDisk` |
| `delete_file` / `rm_file` / `clear_block` | `DeleteFile`, `ClearData`, `ClearInode` |
| destructor / `save_Bs` | `Close`, `SaveHeader`, `SaveInode` |
| `read_file`, `list_file` | operators `ReadFile`, `ListFile` |
| kill of the process | `Crash` |

`StoreRefined` shows that the store implements `FigureStore`: `figures` is what
`rd_file` returns for the names of the table, or of the table that the
constructor would find if no process runs.  `rd_file` fails on an empty figure, which
`Stored` takes for the empty text, and on a broken chain, which it takes for no
text, so that a figure that becomes unreadable breaks the refinement.  An
addition takes effect when it ends, a deletion when it starts.

`FigureLeaks` adds one history variable to the behaviours without kills:
`leaked`, the first blocks of the empty figures that were deleted, which
`rm_file` does not clear because `wr_file` did not count them.
`BlocksAccounted` says that these are the only blocks that a deletion keeps, and
that no figure ever gets one of them.

### SharedDisk

Extends `FigureDiskProps` for the manager and instantiates `FigureDisk` a second
time, over the same disk and a memory of its own, for the server.  The server
opens, loads, answers (`Server!ReadFile`) and saves in its destructor
(`ServerSaves`); the manager takes every step of `FigureDisk`
(`ManagerOpens`, `ManagerDeletes`, `ManagerWorks`); each may be killed.  `kept`
is history: the figures that the server found when it opened the disk and that
nobody deleted since; `mixed` says that a deletion and a session of the server
overlapped.

### Tenedor

`figureMap`, `running`, `mtx` and `threads` are those of the process,
`client[c]` is the thread of connection `c`, `server[s]` says whether a figure
server is off, has announced itself, or listens; `net` holds datagrams.
`LookUp` takes the mutex, `Connect`, `ServerAnswers` and `GiveUp` are the ways
through `forwardToServer`, `Register` and `Forget` are what `listenDiscovery`
does with an announcement and a farewell.  A response to a discovery request
carries the port it is sent to: `sendDiscoveryRequest` asks from a socket that
it closes at once.

### ForkServer

`tabla`, `sockets` and `running` are those of the process; an entry of
`sockets` is `unset`, `null`, `open`, or `closed`, `reset` and `broken` for a
connection whose server has gone.  `queries[s]` and `replies[s]` are the two
directions of the one TCP stream to server `s`; data are counted in units, of
which a buffer of `BUFSIZE` bytes holds `BufSize`.  `worker[c]` is the request
of client `c` on its way.

| Code | Actions |
|---|---|
| `udp_discovery` | `Broadcast`, `Ignore`, `Collect`, `EndRound`, `Wake` |
| `addRoute` | `Collect` (routes, mutex taken), `Connect` (entry, mutex released) |
| `udp_client_receptor`, `searchRoute` | `Route` |
| `tcp_servers` | `Forward` (with `Write`), `Read` |
| `Figure_server` | `Boot`, `BindOther`, `AnswerDiscovery`, `Serve`, `GoOff` |
| `client_udp` | `Ask` |
| signal, end of the threads, SIGPIPE | `Signal`, `End`, `Gone` |

`Serve` takes all the requests that have arrived: two of them in one buffer
make one request for a name that no server has, hence one 404 for both.

### NachosSynch, DiningPh

A step is code that runs with interrupts off, or one step of the code between
two such stretches.  `current`, `ready`, `fresh`, `doomed` and `deleted` are the
scheduler's, `value`, `queue` and `asleep` those of the semaphores, `owner` that
of the lock.  `Run` carries what happens behind `SWITCH`: the thread that goes on
deletes the one that ended, and one that is switched to for the first time does
not.  `Preempt` is the end of a time slice, possible in every state.  `pc[t]` is
the place of a thread in `Philo`, `pickup` and `putdown`, in the order of
`After`; the semaphore `self[i]` is named `i`.

| Code | Actions |
|---|---|
| `ThreadTest`, end of a thread | `ForkPhilosopher`, `End` |
| `Philo` | `YieldOnce`, `EndRound` |
| `Lock::Acquire` | `AcquireP` (up to the end of `P`), `AcquireOwn` |
| `Lock::Release` | `ReleaseDisown` (with its ASSERT), `ReleaseV` |
| `pickup` | `Hungry` (with `test`), `WaitSelf` |
| `putdown` | `Thinks`, `Tests` (the two neighbours) |
| time slice | `Slice` |

### NachosSyscalls

The user program is any sequence of calls with any arguments; each call is one
action, since one user thread exists and a forked one never makes a call.
`again` is a call whose program counter was not advanced, `lockHeld` the kernel
lock, `fds` what each descriptor of the host stands for, and `socks` the
connection of each socket: none, open, or reset by the peer (`Connect`,
`PeerResets`).  A `Write` to a socket whose connection is not open may end the
kernel by SIGPIPE (`HostWrites`; the machine is then "piped").  `given`, `lost`,
`asked` and `astray` are history of the program: the handles it holds
with their files, the descriptors of handles it closed, a
call of `Halt` or `Exit`, and whether it did anything that the calls do not
support.

## Runs

Every passing run checks the complete state space of its instance.  Deadlock is
not checked: all the systems may stop (a process that nobody starts again, a
machine that halts, a bound that is reached).

| Run | Instance | Checks |
|---|---|---|
| `disk_clean` | `FigureLeaks`: 3 figures, the empty text, texts of one full and of one and a half blocks, a disk that grows twice, clean restarts | `TypeOK`, `CountersMatchFlags`, `BlocksAccounted`, `OneReference`, `ReopenRestores`, `StoreRefined` |
| `disk_crash` | 3 figures, the empty text and one of one and a half blocks, one kill | `KilledFiguresApart`, `KillKeepsFigures`, `KillInDeletionKeepsEarlier` |
| `disk_shared` | 3 figures of one and a half blocks, a disk that grows, 4 sessions of the two processes together, one kill of each | `KeptOnDisk`, `KeptServed`, `SharedApart` |
| `tenedor_safe` | 2 servers of the same name with a figure in common, 2 clients, a lossy network | `TypeOK`, `ForwardsToListed` |
| `tenedor_live` | 1 server that may return, 2 clients | `Answered`, `EndsAfterConnection`, `AnnouncementsHeard` |
| `tenedor_farewell` | 1 server | finds `FarewellForgets` violated |
| `tenedor_discovery` | 1 server, nothing lost | finds `ServersDiscovered` violated |
| `fork_talk` | 1 server that may start twice, figures of one and a half and of exactly one buffer, and 404; 2 clients, a lossy network | `TypeOK`, `OwnAnswer`, `RoutedHasEntry`, `StaysUp` |
| `fork_live` | 1 server, 2 clients, a figure of one buffer and one of one and a half | `NextBroadcastConnects`, `Finishes` |
| `fork_crossed` | that of `fork_talk`, one start, nothing lost | finds `NeverCrossed` violated |
| `nachos_dining` | 3 philosophers, 2 meals each, a time slice that ends anywhere | `TypeOK`, `NeighboursApart`, `OnePermit`, `NeverAborts`, `OnePlace`, `HaltsWhenDone`, `LockRefined`, `Completes` |
| `nachos_syscalls` | any program over 2 files, a table of 5 entries, a host of 7 descriptors, peers that reset connections | `TypeOK`, `FilesReached`, `FdsAccounted`, `LegalProgramsRun` |

### Bounds, and why they are enough

*FigureDisk.*  `Payload = 2` makes texts that fill a block exactly and texts
that spill over, beside the empty one, whose block is not counted; `Extension = 4` with `MaxBlock = 9` lets the disk grow twice,
in the middle of an addition as well; three names make an inode with neighbours
on both sides, whose deletion relinks the chain.  `MaxMade` bounds
`inodeCount`, which the code never decreases; in `disk_clean` it is one above
the number of names, so that a name is used again.  `MaxKills = 1`: one kill brings the disk into every
state a second one would start from, except after a torn deletion, which the
properties leave out.  Names are interchangeable, and symmetry in them
is used: all properties of these runs are safety properties.

*SharedDisk.*  `MaxSessions = 4` lets either process open the disk up to three
times while the other runs or after it ended; with `MaxKills = 1` for each.
Three figures, each of two blocks, on a disk of three blocks that grows once:
the manager extends the disk, and adds figures, in every phase of a session of
the server.

*Tenedor.*  Two servers compete for a figure; two clients compete for the
mutex; `MaxBoots = 2` lets a server come back with its old farewell or
announcement in flight.

*ForkServer.*  `BufSize = 2` tells a response shorter than a buffer, of exactly
one and of more.  `MaxResponses` (the code's 6) is 1 or 2, below the number of
datagrams of a round with the own broadcast, as six is with six islands.
`MaxBoots = 2` lets a server come back while its old connection is still in
`sockets`.  Each client makes one request, as `client_udp` does; two clients
make all the interleavings of two workers (`fork_talk` and `tenedor_safe`, whose
properties are safety properties, use the symmetry of the clients), and `mixed` marks the connections
that two workers use at once.  `fork_talk` has one server; with several, a
route to a server without an entry is excluded by the theorem
`WorkersFindEntries`, for any number of them.

*DiningPh.*  With `N = 3` every two philosophers are neighbours; the theorems
hold for every `N` of at least two, so that the run is there for what they do not
say (`Completes`).  Two meals bring a philosopher
back to `pickup` with its semaphore used before.

*NachosSyscalls.*  `MAX_FILES = 5` leaves two entries besides the terminal's, so
that the table gets full and entries are used again in any order; `MaxFds = 7`
leaves four descriptors, more than the table holds, so that both limits are met
and descriptors and handles drift apart.  One thread of `Fork` is enough: it ends
the kernel when it runs.

## Fairness

*Tenedor.*  Weak fairness of the threads' steps, the expiry of the timeouts
(`GiveUp`: `SO_RCVTIMEO` of five seconds) and the delivery of datagrams.  Nothing obliges clients to come, servers to answer, or anyone to
start, stop or signal a process.  Weak fairness of `LookUp` is enough because
each connection asks once, so that the mutex is free for good in the end.

*ForkServer.*  The same, with strong fairness of `Collect(s)`: a round may end
before the response of `s` is read, but the queue of the socket is first in,
first out, and every round reads at least the first datagram of it, so that a
response that is there in every round is read in one of them. Nothing
obliges clients, `udp_client_receptor` or servers to do anything on their own.

*DiningPh.*  Strong fairness of each philosopher's own steps, and of
`ThreadTest`: a step is possible only while the thread has the processor, and a
thread that gets it again and again moves on, since a time slice of the timer is
longer than one step.  Nothing is assumed about when slices end, nor about the
order in which threads run: the ready list and the queues decide that.

## Proofs

TLAPS checks the theorems for every value of the constants that satisfies the
assumptions named in the modules (sizes are positive, `NoServer` is no server,
`Holds` maps servers to sets of figures, and so on).

| Theorem | States |
|---|---|
| `FigureDiskProofs!Typing` | `CrashSpec => []TypeOK`, with any number of kills |
| `FigureDiskProofs!NoBlockShared` | `Spec => []OneReference` |
| `FigureDiskProofs!RestartsKeepTheTable` | `Spec => ReopenRestores` |
| `FigureChainProofs!CountersAgree` | `Spec => []CountersMatchFlags` |
| `FigureChainProofs!EveryBlockAccounted` | `LeakSpec => []BlocksAccounted`, whatever the texts |
| `FigureChainProofs!FiguresKeptApart` | `Spec => []FiguresApart` |
| `FigureChainProofs!FiguresOutliveTheProcess` | `Spec => StoreRefined`, the store implements `FigureStore` |
| `FigureKillProofs!KillsKeepFiguresApart` | `CrashSpec => []KilledFiguresApart` |
| `FigureKillProofs!KillsLoseNoFigure` | `CrashSpec => KillKeepsFigures` |
| `FigureKillProofs!KillsInDeletionKeepEarlier` | `CrashSpec => KillInDeletionKeepsEarlier` |
| `SharedDiskProofs!SharingKeepsFiguresApart` | `SharedSpec => []SharedApart` |
| `SharedDiskProofs!SharingKeepsFiguresOnDisk` | `SharedSpec => []KeptOnDisk` |
| `SharedDiskProofs!SharingServesFigures` | `SharedSpec => []KeptServed` |
| `TenedorProofs!TableStillWhileForwarding` | `Spec => []ForwardsToListed` |
| `TenedorProofs!TenedorTyping` | `Spec => []TypeOK` |
| `ForkServerProofs!WorkersFindEntries` | `Spec => []RoutedHasEntry` |
| `ForkServerProofs!ForkStaysUp` | `Spec => StaysUp` |
| `ForkServerProofs!ForkTyping` | `Spec => []TypeOK` |
| `ForkServerProofs!AloneGetsItsAnswer` | `Spec => []OwnAnswer` if responses are not segmented |
| `DiningPhProofs!DiningTyping` | `Spec => []TypeOK` |
| `DiningPhProofs!DiningApart` | `Spec => []NeighboursApart` |
| `DiningPhProofs!DiningPermits` | `Spec => []OnePermit` |
| `DiningPhProofs!DiningNeverAborts` | `Spec => []NeverAborts` |
| `DiningPhProofs!DiningLock` | `Spec => LockRefined`, the lock implements `AbstractLock` |
| `DiningPhProofs!DiningOnePlace` | `Spec => []OnePlace`, the scheduler loses and doubles no thread |
| `DiningPhProofs!DiningHaltsWhenDone` | `Spec => []HaltsWhenDone`, no deadlock for any number of philosophers |
| `NachosSyscallsProofs!SyscallTyping` | `Spec => []TypeOK` |
| `NachosSyscallsProofs!HandlesReachTheirFiles` | `Spec => []FilesReached` |
| `NachosSyscallsProofs!DescriptorsAccounted` | `Spec => []FdsAccounted` |
| `NachosSyscallsProofs!LegalProgramsGoOn` | `Spec => []LegalProgramsRun` |

*The store.*  `TypeOK` is not inductive: a local variable must lie in the table
while it is used (`Cursors`).  `DiskInv` adds, to types and `OneReference`:
`Working` (the block that the running operation holds is marked and named by
nobody) and `Linked` (in memory, every inode's link is the origin of the inode
after it).  It holds whether or not processes are killed or another one writes on
the disk.  `RestartInv` adds `OnDiskAsSaved` (what a closed or loading disk holds is
the saved table, and the part already loaded is its prefix), which does not hold
of a disk that two processes write.  `NoBlockShared` needs `Linked` because a deletion relinks the chain;
`RestartsKeepTheTable` is an action property of `LoadInode` and follows from
`OnDiskAsSaved`.  The lemmas on `NamedOnce` say, for any table, blocks and
pointers, what appending, starting, linking, clearing and dropping preserve.

`CountersAgree` needs more: `rm_file` calls `clear_block` `countBlock` times and
each call decrements `usedBlocks`, so that the counters are right only if each
call is given another block that is in use, which is to say if the chain of a
figure is as long as `countBlock` says, also half way through an addition or a
deletion.  A chain is described without recursion, from its blocks: `Chains`
says that there are functions `who` (the figure a block belongs to) and `pos`
(its place in the text) under which the blocks of every figure are at the places
`Lo..Hi`, no two at the same, and each is linked to the one at the next place.
`Counted` says what the header holds of the counters while the process is down
or saving.  The lemmas on `Owned` say what taking, linking, clearing and dropping
a block do to chains of any table, and there is one lemma for each action.

`EveryBlockAccounted` and `FiguresKeptApart` are about what the program finds by
following the pointers.  `DataBlocks`, `Contents` and `DiskTable` are recursive
functions that count the blocks followed, up to the last of the disk; `Downwards`
shows that such a function exists and `Descent` that what holds at the end of
the disk, and before each block that it holds after, holds at the start, both from
the least number of a set.  From them `DataBlocksOwned`: the blocks found from an
inode are those that `who` gives it, and by `ChainFits` the bound is never
reached.  `Accounted` adds that a block in use is either leaked or `Held`: it is
an inode's, has an owner, or is in the hands of the operation under way, and that
no leaked block is any of these.  The step that moves a block from one side to
the other is the deletion of an empty figure (the hazard at `SuperBlock.cc:103`):
`rm_file` clears as many blocks as were counted, and `Sized` says that none was
counted exactly for figures without characters, which do have a first block.

`FiguresOutliveTheProcess` is the refinement of `FigureStore`.  It adds to `who` and
`pos` a third function: `tail[b]` is the text of b's figure from block b on.
`Tells` says that each block that was written holds the first `Payload`
characters of its tail and is linked to a block whose tail is the rest, that
the length of a tail is what the inode's size leaves for it, that a finished
figure ends with a tail that fits into its block, that names differ, and how much
of the text the operation under way has still to write (`AtText`).  `ChainRead`
concludes by descent that `rd_file` reads `tail` of the first block, and
`LoadLeads` that the constructor would find the table that was saved, so that the
map the users see is `Figs`, a function of the table and the tails
(`FiguresAre`).  Then every step is judged on `Figs` (the lemmas `...Moves`): a
deletion takes its figure away with its first step, an addition puts it there
with its last one, and all other steps leave the map as it was, including
`ClearData`, which destroys a chain whose figure is hidden already.

The kills.  `Chained` says that in memory every inode is linked to the next; on
the disk the links are older, since only the destructor writes them, and an
inode may be one that `adIno_file` wrote and nothing completed.  `Foretells`
says what is left of the table there: the header, and the link of the i-th
inode, is 0 or the block of the inode that the table has next, and each inode is
either that of the table but for its link (`Intact`) or still without contents
(`Blank`).  While a deletion is unsaved a link may also lead to a `Dead` block,
which the constructor takes for an empty inode or stops at.  Each write keeps it
(the lemmas `...Foretold`): an addition puts a blank inode on a free block, which no
link names or which counts as dead, and `save_Bs` writes the links from the first inode on, so that in the
middle of it the disk leads along new links to the point reached and from there
along the old ones.  `DiskTableForetold` concludes, by descent, that the
constructor would find the first m inodes of the table, for some m, and after a
deletion perhaps an empty one behind them.

With no deletion cut short, a kill therefore leaves a table (`Salvaged`) whose
figures have the chains they had or none: `SalvagedOwned` and `SalvagedTells` give
the new process `who` and `tail` with the lost figures left out, and
`SalvagedLinks` the links.  What those had stays in use for ever, which is why
`BlocksAccounted` is stated without kills.  So `KilledInv`, the invariant of the
proofs above guarded by `deletion`, is inductive with kills, and
`KillsKeepFiguresApart` follows as `FiguresKeptApart` does.  The two action
properties compare what a reader of the disk would get before and after a step.
An inode is `Seen` if the disk leads to it, it is intact and the running
operation does not work on it; `Showing` says that its figure then reads as
`tail` tells, every figure that reads as something is seen (`ReadsSeen`), and
every step keeps what is seen (the lemmas `...Sees`), except `ClearInode`, which
keeps what comes before the inode that it clears.

*Two processes on one disk.*  The invariant `SharedInv` is about the behaviours in
which no deletion overlaps a session of the server and none is torn (`Ok`).  It
relates two tables to one disk.

* `ManagerInv` is what is left of the store's invariants when another process
  writes header and inodes: `DiskInv` and what the disk `Foretells` of the
  manager's inodes (`KillInv`).  `OnDiskAsSaved` is kept only where the server cannot
  write over what was saved, above all while a deletion is saved (`SavingInv`); the
  manager's constructor may find fewer inodes than were saved, each linked to the
  next (`LoadFollows`), as after a kill.  The chains and their texts are `Tracked` as before.
* `ServerFollows`: the disk leads to the inodes of the server, which are the first
  of the manager's in the same order; each is a copy of the manager's, which the
  disk has too, or was read while it was still without contents (`Copied`).  What
  the server's destructor writes therefore only cuts the chain of inodes behind
  the last one that it has.  It may also empty inodes that were completed during
  its session; their figures were not there when it started.
* `KeptFollows`: a figure in `kept` reads as it did, its inode is seen on the disk,
  and the server's copy of that inode is complete.
* A deletion is torn only while no server runs, or the behaviour is `mixed`.

The parts need each other: the save of the server leaves a figure readable only
if its copy is complete, and leaves the chain of inodes whole only if its inodes
have the order of the manager's.  The steps of the manager are judged with the
lemmas of `FigureKillProofs` (what is seen stays seen); `ShrinksTo` covers both a
kill and a constructor that finds fewer inodes.  The steps of the server change
nothing of the manager's memory, no flag and no data block (`Aside`), so that for
them only what the disk foretells, what is seen and the server's own table are to
be shown.  `SameContents` says that both processes read the blocks of the disk
in the same way.  TLC checked the parts of the invariant on the instance of
`disk_shared` before they were proved.

*Tenedor.*  The invariant is `ForwardsToListed` with the shapes of the table
and the threads and the fact that a request that was read names a figure
(`FigureAsked`).  The argument: every step that changes `figureMap` or starts a
forward needs the mutex free, and if it is free nobody forwards.

*Fork server.*  `RoutedHasEntry` rests on `RoutesHaveEntries`: a route whose
server has no entry was made by the `addRoute` under way, which holds the
mutex (`Locked`), so that `Route` cannot hand it out.  `StaysUp` rests on
`Told`: a connection is closed, reset or broken only after a server has ended.
`AloneGetsItsAnswer` follows the data of a connection that was never shared
(`Alone`): either the request is still to be read, or nothing will come, or what
the worker has gathered and what it has still to read are together the answer
(`Taken`), up to the memory that full buffers let in.  That last part counts the
units of a text with `Cardinality`, since the library's `SelectSeq` would need
induction over data.  With segmented responses the theorem is false: a reader
stops at the first segment that does not fill its buffer.

*Dining philosophers.*  One invariant, `IInv`, carries the first five theorems:
`Typed`; `LockInv`, the semaphore of the lock holds a permit exactly if nobody is
between its `P` and its `V`, and at most one is; `OwnerInv`, whoever is past
`AcquireOwn` and before `ReleaseDisown` is the owner, although `owner` is written
outside of the semaphore's critical sections; `MealInv`, the state of each
philosopher against its place in the code and the value of its semaphore, with
neighbours apart; `NeverAborts`.  `LockInv` gives the refinement: a step that
enters or leaves the critical section is an `Acquire` or a `Release`, all others
stutter.  The scheduler needs no part of it, so that these theorems hold for any
scheduling.

`FullInv` adds the scheduler.  `PlaceInv`: every thread that was forked and has not
ended either is up (it runs or is in the ready list) or waits in the queue of one
semaphore, and it is in these lists once; lists are counted by `Times`, and the
lemmas on `Listed` and `Once` say what appending and taking the first do to
them.  `LockOwed`: if somebody waits for the lock, a philosopher that does not
wait for it is between its `P` and its `V`, or on its way there.  `MealOwed`:
whoever is hungry has a neighbour that eats, or a left neighbour that has put its
forks down and is about to test it.  The machine halts when nobody is up, so
that everybody who has not ended waits: nobody is left to hold the lock, so
nobody waits for it; so whoever waits does so, hungry, on its own semaphore, with
a neighbour that eats, and that one waits for nothing.

*System calls.*  `IInv` joins the four properties with `TerminalOpen` (the first
three entries stay open and no handle of a file is among them) and `OnlyAstray`
(a damaged table and a forked kernel are the doing of a program that went
astray).  Which connections the sockets have is free: `Connect` and `PeerResets`
touch nothing else, and `HostWrites` is the only step to "piped", from a socket
whose connection is not open.  The properties need each other: that `Open` returns an entry nobody
holds (`FilesReached`) needs every descriptor in the table to be open
(`FdsAccounted`), since a fresh descriptor differs from them only then; and
`LegalProgramsRun` needs to know which calls only an unsupported program makes.
`Find`, `BitMap`'s search for the first clear bit, is a `CHOOSE` of the least
entry; `MinInSet` shows that there is one.

*Only model-checked.*  Liveness (`Answered`, `AnnouncementsHeard`,
`EndsAfterConnection`, `NextBroadcastConnects`, `Finishes`, `Completes`): properties under
fairness are beyond the prover.  Every other property of a passing run is stated by
a theorem.

## Deviations between documents and code

* `tenedor_farewell`: the protocol has a tenedor remove everything about a
  server that says farewell; `Tenedor.cc:121` looks for the name of the server
  among addresses and removes nothing.
* `tenedor_discovery`: the protocol has a tenedor learn from the responses to
  its request; they go to the ephemeral port of a closed socket
  (`Tenedor.cc:160`, `Server.cc:212`).
* `fork_crossed`: comments of `Fork_Server.cc` speak of a `SafeSocket`; the
  socket is a plain one, and two workers read each other's responses.

## Abstractions

*FigureDisk.*  A step is one write of the program; the stream's buffer is taken
as flushed at each step, while the library may hold back the last write until
the next seek.  Names longer than an inode's field are left out.  `damaged`
stands for a table read from a block of text, whose fields would be arbitrary;
it can only follow a torn deletion.  The menu calls one operation after the
other, so operations of one process do not overlap.

*SharedDisk.*  What the two processes do to each other by a deletion is in the
model and outside the properties (`mixed`): figures are then lost or mixed.  So
are the figures that the manager adds during a session of the server: they are
lost when the server ends last, and their blocks stay in use (`SharedApart` says
that no worse follows).  The server's detached threads are taken as ended when
its destructor runs; one that still reads would move the position at which the
destructor writes.

*Tenedor.*  After a signal `accept` has no timeout and the handler restarts it:
the process stays until a client connects, which is why `EndsAfterConnection`
asks for a connection.  Figures, headers and pages are status codes.  A server's threads
are one choice: it answers, or it does not.  A TCP connection is closed at both
ends when its server ends.

*ForkServer.*
* The tables are unordered maps read without the mutex; a find during an
  insertion is a data race, taken as atomic here.  What is checked and proved
  is that the entry looked for was inserted before.
* A response shorter than a TCP segment arrives whole if `Segmented` is FALSE;
  `OwnAnswer` is checked under that.  With segments a worker stops at the first
  read that does not fill its buffer, and the rest is the next worker's answer.
* `std::string(buffer)` of a full buffer reads on until a zero.  In the
  repository's build eight bytes of padding lie behind the buffer, then a guard
  word whose first byte is zero.  `Padding` lets such bytes get into the text
  (`Junk`), and `Sent` cuts the text to the number of bytes read, as `sendTo`
  does.
* `client_udp` shows 511 bytes of the datagram only; the model ends with the
  datagram.  A client that never gets one waits for ever (`unanswered`).
* A figure server that has gone: a connection with unread requests is reset;
  otherwise the next write succeeds and is answered by a reset, and the write
  after that raises SIGPIPE, which nothing in the code ignores.
* When the fork server ends, its connections end with it; a figure server that
  had two answers to write is ended by SIGPIPE in its turn.
* `Figure_server.cc:111-113` cuts the name that is asked for at its first space;
  names are taken to have none, so that the cut changes nothing.
* Threads that cannot be created and sockets that cannot be opened are left out.

*NachosSynch, DiningPh.*  Values of semaphores do not overflow (they are at most
one here).  `Sleep` with nobody ready halts the machine, as `Interrupt::Idle`
does without an interrupt to come but the timer's.

*NachosSyscalls.*
* Contents of files and buffers are left out; which descriptor a read or write
  reaches matters only for what the call does to the kernel.
* The zero that `Create` and `Open` put at index 256 of a buffer of 256 bytes hits
  a byte of the stack frame and is without effect; that of `Write` lies behind a
  buffer of the heap, where it may lead to an abort at any later time (`corrupt`,
  `HeapFails`); that of `Read` of a socket whose read failed lies before it and is
  without effect.
* The error returns behind `ReadMem` are never taken: a bad address raises an
  exception first, which ends the kernel (`Faults`).  A page fault cannot arise,
  since all pages are loaded.
* `Connect` copies an address of any length and has it written over the family
  (`exception.cc:514`), so that it mostly fails; the other field makes of it an
  address that some host may answer.  Both outcomes are taken, and the family 0
  may take a connection away (`AfterConnect`).
* A write to a socket without a connection raises SIGPIPE; one to a connection
  that the peer has reset raises it or answers the reset first.  `sysdep.cc:364`
  handles SIGINT only, so the process ends before `returnFromSystemCall`.
  `LegalProgramsRun` names this end: `test/socket.c:7-9` can meet it without a
  mistake of its own but that it does not look at the answer of `Connect`.
  Other answers of `write` are not looked at by the code and make no difference.
* `FilesReached` is about the table.  While `socket_` is set, `Read` and `Write`
  take their argument for a descriptor of the host and go past the table
  (`exception.cc:240`, `281`), so that a file's handle then reaches whatever has
  that descriptor.
* A thread of `Fork` reads from the pointer 2 when it first runs, and ends the
  kernel; `test/pingPong.c` expects it to run.

## Plan

Done: the store and its two users, the tenedor, the fork server, the locks and
philosophers of NachOS, its system calls, and theorems for all their safety
properties.  Left, in this order:

1. The file system of the group server (`T/FileSystem.cc`): blocks and directory
   across restarts.
2. The simulations (`Trabajo_clase_22`, `Trabajo_clase_18`), if they come to
   hold logic that the servers have not.
