-------------------------- MODULE ForkServerProofs --------------------------
(***************************************************************************)
(* For any servers, figures, clients, lengths, buffers and bounds: a       *)
(* worker always finds the entry of its server in sockets, which it reads  *)
(* without tabla_mutex, ForkServer keeps its types, and a client whose     *)
(* worker had the connection for itself gets the whole answer to its       *)
(* request, if responses arrive in one segment.                            *)
(***************************************************************************)
EXTENDS ForkServer, TLAPS, SequenceTheorems, FiniteSetTheorems

Working == {"routed", "reading"}
SocketStates == {"unset", "null", "open", "closed", "reset", "broken"}

\* addRoute holds the mutex exactly while it connects, in the thread of
\* udp_discovery.
Locked ==
  /\ IF phase = "connect" THEN adding \in Servers ELSE adding = NoServer
  /\ phase # "off" => "discovery" \in threads

\* A route whose server has no entry yet was made by the addRoute under way.
RoutesHaveEntries ==
  \A f \in Figures :
    tabla[f] # NoServer /\ sockets[tabla[f]] = "unset" => tabla[f] = adding

\* The inductive invariant.
Inv == /\ tabla \in [Figures -> Servers \cup {NoServer}]
       /\ sockets \in [Servers -> SocketStates]
       /\ DOMAIN worker = Clients
       /\ \A c \in Clients :
            /\ worker[c].pc = "asked" => worker[c].fig \in Figures
            /\ worker[c].pc \in Working => worker[c].to \in Servers
       /\ Locked
       /\ RoutesHaveEntries
       /\ RoutedHasEntry

LEMMA JobFields ==
  ASSUME NEW p, NEW f, NEW s, NEW t
  PROVE  /\ Job(p, f, s, t).pc = p
         /\ Job(p, f, s, t).fig = f
         /\ Job(p, f, s, t).to = s
  BY DEF Job

LEMMA ForkInit == Init => Inv
<1> SUFFICES ASSUME Init PROVE Inv
  OBVIOUS
<1>1. DOMAIN worker = Clients /\ \A c \in Clients : worker[c].pc = "none"
  BY JobFields DEF Init, NoJob
<1>2. tabla \in [Figures -> Servers \cup {NoServer}]
      /\ sockets \in [Servers -> SocketStates]
  BY DEF Init, SocketStates
<1>3. Locked /\ RoutesHaveEntries
  BY DEF Init, Locked, RoutesHaveEntries
<1> QED
  BY <1>1, <1>2, <1>3 DEF Inv, RoutedHasEntry, Working

-----------------------------------------------------------------------------
(* The frame: what a step may do to the variables of the invariant.        *)

\* Connections change their state, but no entry disappears.
EntriesKept ==
  /\ sockets' \in [Servers -> SocketStates]
  /\ \A s \in Servers : sockets[s] # "unset" => sockets'[s] # "unset"

\* Workers go on with the same server, or end.
WorkersGoOn ==
  /\ DOMAIN worker' = Clients
  /\ \A c \in Clients :
       /\ worker'[c].pc = "asked" =>
            \/ worker[c].pc = "asked" /\ worker'[c].fig = worker[c].fig
            \/ worker'[c].fig \in Figures
       /\ worker'[c].pc \in Working =>
            worker[c].pc \in Working /\ worker'[c].to = worker[c].to

LEMMA Frame ==
  ASSUME Inv, UNCHANGED tabla, Locked', adding = NoServer \/ UNCHANGED adding,
         EntriesKept, WorkersGoOn
  PROVE  Inv'
<1>1. RoutesHaveEntries'
  BY DEF Inv, RoutesHaveEntries, EntriesKept
<1>2. RoutedHasEntry'
  BY DEF Inv, RoutedHasEntry, EntriesKept, WorkersGoOn, Working
<1>3. \A c \in Clients :
        /\ worker'[c].pc = "asked" => worker'[c].fig \in Figures
        /\ worker'[c].pc \in Working => worker'[c].to \in Servers
  BY DEF Inv, WorkersGoOn
<1> QED
  BY <1>1, <1>2, <1>3 DEF Inv, EntriesKept, WorkersGoOn

LEMMA SocketsFrame ==
  ASSUME Inv, UNCHANGED sockets
  PROVE  EntriesKept
  BY DEF Inv, EntriesKept

LEMMA WorkersFrame ==
  ASSUME Inv, UNCHANGED worker
  PROVE  WorkersGoOn
  BY DEF Inv, WorkersGoOn

LEMMA OneEntry ==
  ASSUME Inv, NEW s \in Servers, NEW v \in SocketStates \ {"unset"},
         sockets' = [sockets EXCEPT ![s] = v]
  PROVE  EntriesKept
  BY DEF Inv, EntriesKept

\* A worker whose next state is that of the same request, or the end of it.
LEMMA OneWorker ==
  ASSUME Inv, NEW c \in Clients, NEW job, Becomes(c, job),
         job.pc = "asked" => job.fig \in Figures,
         job.pc \in Working => worker[c].pc \in Working /\ job.to = worker[c].to
  PROVE  WorkersGoOn
<1>1. \A d \in Clients : worker'[d] = IF d = c THEN job ELSE worker[d]
  BY DEF Inv, Becomes
<1> QED
  BY <1>1 DEF Inv, Becomes, WorkersGoOn

\* An answer, or none, ends the work for a client.
LEMMA ReplyEnds ==
  ASSUME Inv, NEW c \in Clients, NEW s, NEW text, Reply(c, s, text)
  PROVE  WorkersGoOn
<1>1. PICK pc \in {"done", "unanswered"} :
        Becomes(c, Job(pc, worker[c].fig, s, Sent(text)))
  BY DEF Reply
<1>2. Job(pc, worker[c].fig, s, Sent(text)).pc = pc
  BY JobFields
<1> DEFINE job == Job(pc, worker[c].fig, s, Sent(text))
<1> HIDE DEF job
<1> QED
  BY <1>1, <1>2, OneWorker DEF Working, job

LEMMA MovesOn ==
  ASSUME Inv, NEW c \in Clients, NEW pc, Moves(c, pc),
         pc # "asked", pc \in Working => worker[c].pc \in Working
  PROVE  WorkersGoOn
<1> DEFINE job == Moved(c, pc)
<1>1. job.pc = pc /\ job.to = worker[c].to /\ Becomes(c, job)
  BY JobFields DEF Moved, Moves
<1> HIDE DEF job
<1> QED
  BY <1>1, OneWorker

\* When the process ends there are no routes and no workers.
LEMMA GoneInv ==
  ASSUME Inv, Gone
  PROVE  Inv'
<1>1. tabla' \in [Figures -> Servers \cup {NoServer}]
      /\ sockets' \in [Servers -> SocketStates]
  BY DEF Gone, SocketStates
<1>2. Locked' /\ RoutesHaveEntries'
  BY DEF Gone, Locked, RoutesHaveEntries
<1>3. \A c \in Clients : worker'[c] =
        IF worker[c].pc \in {"asked", "routed", "reading"}
        THEN Moved(c, "unanswered") ELSE worker[c]
  BY DEF Gone
<1>4. \A c \in Clients : Moved(c, "unanswered").pc = "unanswered"
  BY JobFields DEF Moved
<1>5. \A c \in Clients : worker'[c].pc \notin {"asked", "routed", "reading"}
  BY <1>3, <1>4
<1>6. DOMAIN worker' = Clients
  BY DEF Gone
<1> QED
  BY <1>1, <1>2, <1>5, <1>6 DEF Inv, RoutedHasEntry, Working

-----------------------------------------------------------------------------
(* Steps of the figure servers and of discovery.                           *)

LEMMA FigureServerInv ==
  ASSUME Inv, NEW s \in Servers,
         Boot(s) \/ BindOther(s) \/ AnswerDiscovery(s) \/ Serve(s) \/ GoOff(s)
  PROVE  Inv'
<1>1. UNCHANGED <<threads, phase, adding, tabla, worker>>
  BY DEF Boot, BindOther, AnswerDiscovery, Serve, GoOff, discoveryVars, routeVars
<1>2. EntriesKept
  <2>1. CASE Boot(s) \/ BindOther(s) \/ AnswerDiscovery(s) \/ Serve(s)
    BY <2>1, SocketsFrame
       DEF Boot, BindOther, AnswerDiscovery, Serve, routeVars
  <2>2. CASE GoOff(s) /\ sockets[s] = "open"
    <3>1. PICK end \in {"closed", "reset"} :
            sockets' = [sockets EXCEPT ![s] = end]
      BY <2>2 DEF GoOff
    <3> QED
      BY <3>1, OneEntry DEF SocketStates
  <2>3. CASE GoOff(s) /\ sockets[s] # "open"
    BY <2>3, SocketsFrame DEF GoOff
  <2> QED
    BY <2>1, <2>2, <2>3
<1> QED
  BY <1>1, <1>2, Frame, WorkersFrame DEF Inv, Locked

\* addRoute takes the mutex with the route, and gives it back with the entry.
LEMMA CollectInv ==
  ASSUME Inv, NEW s \in Servers, Collect(s)
  PROVE  Inv'
<1>1. UNCHANGED <<threads, sockets, worker>> /\ adding = NoServer
  BY DEF Collect, Receive, Inv, Locked
<1>2. tabla' \in [Figures -> Servers \cup {NoServer}]
  BY DEF Collect, Inv
<1>3. Locked'
  <2>1. phase = "collect" /\ "discovery" \in threads
    BY DEF Collect, Receive, Inv, Locked
  <2>2. CASE phase' = "connect" /\ adding' = s
    BY <1>1, <2>1, <2>2 DEF Locked
  <2>3. CASE UNCHANGED <<phase, adding>>
    BY <1>1, <2>1, <2>3 DEF Locked
  <2> QED
    BY <2>2, <2>3 DEF Collect
<1>4. ASSUME NEW f \in Figures, tabla'[f] # NoServer, sockets'[tabla'[f]] = "unset"
      PROVE  tabla'[f] = adding'
  <2>1. CASE f \in Holds[s]
    BY <1>1, <1>4, <2>1 DEF Collect
  <2>2. CASE f \notin Holds[s]
    <3>1. tabla'[f] = tabla[f]
      BY <2>2 DEF Collect
    <3>2. tabla[f] = NoServer
      BY <1>1, <1>4, <3>1 DEF Inv, RoutesHaveEntries
    <3> QED
      BY <1>4, <3>1, <3>2
  <2> QED
    BY <2>1, <2>2
<1> QED
  BY <1>1, <1>2, <1>3, <1>4 DEF Inv, RoutesHaveEntries, RoutedHasEntry

LEMMA ConnectInv ==
  ASSUME Inv, Connect
  PROVE  Inv'
<1> DEFINE v == IF "tcp" \in server[adding] THEN "open" ELSE "null"
<1>1. adding \in Servers /\ UNCHANGED <<threads, tabla, worker>> /\ adding' = NoServer
      /\ sockets' = [sockets EXCEPT ![adding] = v] /\ phase' = "collect"
  BY DEF Connect, Inv, Locked
<1>2. v \in SocketStates \ {"unset"}
  BY DEF SocketStates
<1> HIDE DEF v
<1>3. EntriesKept
  BY <1>1, <1>2, OneEntry
<1>4. RoutesHaveEntries'
  BY <1>1, <1>2 DEF Inv, RoutesHaveEntries
<1>5. RoutedHasEntry'
  BY <1>1, <1>3 DEF Inv, RoutedHasEntry, EntriesKept, Working
<1>6. Locked'
  BY <1>1 DEF Inv, Locked, Connect
<1>7. \A c \in Clients :
        /\ worker'[c].pc = "asked" => worker'[c].fig \in Figures
        /\ worker'[c].pc \in Working => worker'[c].to \in Servers
  BY <1>1 DEF Inv
<1> QED
  BY <1>1, <1>3, <1>4, <1>5, <1>6, <1>7 DEF Inv, EntriesKept

-----------------------------------------------------------------------------
(* Steps of the receptor and of the workers.                               *)

LEMMA AskInv ==
  ASSUME Inv, NEW c \in Clients, NEW f \in Figures, Ask(c, f)
  PROVE  Inv'
<1>1. PICK pc \in {"asked", "unanswered"} : Becomes(c, Job(pc, f, NoServer, <<>>))
  BY DEF Ask
<1> DEFINE job == Job(pc, f, NoServer, <<>>)
<1>2. job.pc = pc /\ job.fig = f
  BY JobFields
<1> HIDE DEF job
<1>3. WorkersGoOn
  BY <1>1, <1>2, OneWorker DEF Working, job
<1>4. UNCHANGED <<threads, phase, adding, tabla, sockets>>
  BY DEF Ask, discoveryVars, routeVars
<1> QED
  BY <1>3, <1>4, Frame, SocketsFrame DEF Inv, Locked

\* searchRoute has the mutex: no addRoute is under way.
LEMMA RouteInv ==
  ASSUME Inv, NEW c \in Clients, Route(c)
  PROVE  Inv'
<1> DEFINE f == worker[c].fig
           s == tabla[f]
           job == Job("routed", f, s, <<>>)
<1>1. UNCHANGED <<threads, phase, adding, tabla, sockets>> /\ adding = NoServer
      /\ f \in Figures
  BY DEF Route, discoveryVars, routeVars, Inv
<1>2. CASE s = NoServer
  <2>1. WorkersGoOn
    BY <1>2, ReplyEnds DEF Route
  <2> QED
    BY <1>1, <2>1, Frame, SocketsFrame DEF Inv, Locked
<1>3. CASE s # NoServer
  <2>1. Becomes(c, job) /\ job.pc = "routed" /\ job.to = s
    BY <1>3, JobFields DEF Route
  <2>2. s \in Servers /\ sockets[s] # "unset"
    BY <1>1, <1>3 DEF Inv, RoutesHaveEntries
  <2> HIDE DEF job
  <2>3. \A d \in Clients : worker'[d] = IF d = c THEN job ELSE worker[d]
    BY <2>1 DEF Inv, Becomes
  <2>4. DOMAIN worker' = Clients
    BY <2>1 DEF Inv, Becomes
  <2>5. RoutedHasEntry'
    BY <1>1, <2>1, <2>2, <2>3 DEF Inv, RoutedHasEntry, Working
  <2>6. \A d \in Clients :
          /\ worker'[d].pc = "asked" => worker'[d].fig \in Figures
          /\ worker'[d].pc \in Working => worker'[d].to \in Servers
    BY <2>1, <2>2, <2>3 DEF Inv
  <2> QED
    BY <1>1, <2>4, <2>5, <2>6 DEF Inv, Locked, RoutesHaveEntries
<1> QED
  BY <1>2, <1>3

LEMMA ForwardInv ==
  ASSUME Inv, NEW c \in Clients, Forward(c)
  PROVE  Inv'
<1> DEFINE s == worker[c].to
<1>1. worker[c].pc \in Working /\ s \in Servers
  BY DEF Forward, Inv, Working
<1>2. CASE Gone
  BY <1>2, GoneInv
<1>3. CASE ~Gone
  <2>1. UNCHANGED <<threads, phase, adding, tabla>>
    BY <1>3 DEF Forward, Write, discoveryVars, routeVars
  <2>2. Moves(c, "reading") \/ Moves(c, "unanswered")
    BY <1>3 DEF Forward, Write
  <2>3. WorkersGoOn
    BY <1>1, <2>2, MovesOn DEF Working
  <2>4. UNCHANGED sockets
        \/ \E end \in {"closed", "broken"} : sockets' = [sockets EXCEPT ![s] = end]
    BY <1>3 DEF Forward, Write, routeVars
  <2>5. EntriesKept
    BY <1>1, <2>4, SocketsFrame, OneEntry DEF SocketStates
  <2> QED
    BY <2>1, <2>3, <2>5, Frame DEF Inv, Locked
<1> QED
  BY <1>2, <1>3

LEMMA ReadInv ==
  ASSUME Inv, NEW c \in Clients, Read(c)
  PROVE  Inv'
<1> DEFINE s == worker[c].to
<1>1. worker[c].pc \in Working /\ s \in Servers
  BY DEF Read, Inv, Working
<1>2. UNCHANGED <<threads, phase, adding, tabla>>
  BY DEF Read, discoveryVars
<1>3. \/ \E text : Reply(c, s, text)
      \/ \E text : Becomes(c, Job("reading", worker[c].fig, s, text))
      \/ Moves(c, "unanswered")
  BY DEF Read
<1>4. WorkersGoOn
  <2>1. CASE \E text : Reply(c, s, text)
    BY <2>1, ReplyEnds
  <2>2. CASE \E text : Becomes(c, Job("reading", worker[c].fig, s, text))
    <3>1. PICK text : Becomes(c, Job("reading", worker[c].fig, s, text))
      BY <2>2
    <3> DEFINE job == Job("reading", worker[c].fig, s, text)
    <3>2. job.pc = "reading" /\ job.to = worker[c].to
      BY JobFields
    <3> HIDE DEF job
    <3> QED
      BY <1>1, <3>1, <3>2, OneWorker DEF job
  <2>3. CASE Moves(c, "unanswered")
    BY <2>3, MovesOn DEF Working
  <2> QED
    BY <1>3, <2>1, <2>2, <2>3
<1>5. UNCHANGED sockets \/ sockets' = [sockets EXCEPT ![s] = "broken"]
  BY DEF Read
<1>6. EntriesKept
  BY <1>1, <1>5, SocketsFrame, OneEntry DEF SocketStates
<1> QED
  BY <1>2, <1>4, <1>6, Frame DEF Inv, Locked

-----------------------------------------------------------------------------
LEMMA ForkNext == Inv /\ [Next]_vars => Inv'
<1> SUFFICES ASSUME Inv, [Next]_vars PROVE Inv'
  OBVIOUS
<1>1. CASE Start \/ Signal \/ Broadcast \/ EndRound \/ Wake
           \/ (\E m \in net : Discard(m) \/ Ignore(m)) \/ UNCHANGED vars
  <2>1. UNCHANGED <<adding, tabla, sockets, worker>>
    BY <1>1 DEF Start, Signal, Broadcast, Ignore, Receive, EndRound, Wake,
                Discard, vars, discoveryVars, routeVars
  <2>2. Locked'
    BY <1>1 DEF Start, Signal, Broadcast, Ignore, Receive, EndRound, Wake,
                Discard, vars, discoveryVars, routeVars, Inv, Locked, On
  <2> QED
    BY <2>1, <2>2, Frame, SocketsFrame, WorkersFrame
<1>2. CASE \E t \in threads : End(t)
  <2>1. PICK t \in threads : End(t)
    BY <1>2
  <2>2. CASE threads = {t}
    BY <2>1, <2>2, GoneInv DEF End
  <2>3. CASE threads # {t}
    <3>1. UNCHANGED <<adding, tabla, sockets, worker>>
      BY <2>1, <2>3 DEF End, routeVars
    <3>2. Locked'
      BY <2>1, <2>3 DEF End, Inv, Locked
    <3> QED
      BY <3>1, <3>2, Frame, SocketsFrame, WorkersFrame
  <2> QED
    BY <2>2, <2>3
<1>3. CASE Connect \/ \E s \in Servers : Collect(s)
  BY <1>3, ConnectInv, CollectInv
<1>4. CASE \E s \in Servers : \/ Boot(s) \/ BindOther(s) \/ AnswerDiscovery(s)
                              \/ Serve(s) \/ GoOff(s)
  BY <1>4, FigureServerInv
<1>5. CASE \E c \in Clients : Handle(c)
  BY <1>5, AskInv, RouteInv, ForwardInv, ReadInv DEF Handle
<1> QED
  BY <1>1, <1>2, <1>3, <1>4, <1>5 DEF Next, Discovery

\* Whatever is announced, refused or closed, and however the threads of the
\* fork server interleave, a worker finds the entry of its server.
THEOREM WorkersFindEntries == Spec => []RoutedHasEntry
<1>1. Inv => RoutedHasEntry
  BY DEF Inv
<1> QED
  BY <1>1, ForkInit, ForkNext, PTL DEF Spec

-----------------------------------------------------------------------------
(* What ends the fork server.                                              *)

\* A stopped process has no entries, and a connection ends with its server.
Told ==
  \A s \in Servers :
    /\ sockets[s] # "unset" => On
    /\ sockets[s] \in {"closed", "reset", "broken"} => stopped

LEMMA ToldKept ==
  ASSUME Told, UNCHANGED <<sockets, threads, stopped>>
  PROVE  Told'
  BY DEF Told, On

LEMMA ToldGone ==
  ASSUME Gone
  PROVE  Told'
  BY DEF Gone, Told

\* One entry changes: it was there before, or addRoute made it.
LEMMA ToldEntry ==
  ASSUME Inv, Told, NEW s \in Servers, NEW v \in SocketStates,
         sockets' = [sockets EXCEPT ![s] = v], UNCHANGED threads, On,
         v \in {"closed", "reset", "broken"} => stopped',
         stopped => stopped'
  PROVE  Told'
<1>1. \A r \in Servers : sockets'[r] = IF r = s THEN v ELSE sockets[r]
  BY DEF Inv
<1> QED
  BY <1>1 DEF Told, On

LEMMA ToldNext ==
  ASSUME Inv, Told, [Next]_vars
  PROVE  Told'
<1>1. CASE Signal \/ Broadcast \/ EndRound \/ Wake
           \/ (\E m \in net : Discard(m) \/ Ignore(m)) \/ (\E s \in Servers : Collect(s))
           \/ UNCHANGED vars
  <2>1. UNCHANGED <<sockets, threads, stopped>>
    BY <1>1 DEF Signal, Broadcast, Ignore, Receive, EndRound, Wake, Discard,
                Collect, vars, routeVars, history
  <2> QED
    BY <2>1, ToldKept
<1>2. CASE Start
  <2>1. sockets' = sockets /\ \A s \in Servers : sockets[s] = "unset"
    BY <1>2 DEF Start, Told, routeVars
  <2> QED
    BY <2>1 DEF Told
<1>3. ASSUME NEW t \in threads, End(t) PROVE Told'
  <2>1. CASE threads = {t}
    BY <1>3, <2>1, ToldGone DEF End
  <2>2. CASE threads # {t}
    <3>1. On' /\ UNCHANGED <<sockets, stopped>>
      BY <1>3, <2>2 DEF End, On, routeVars, history
    <3> QED
      BY <3>1 DEF Told
  <2> QED
    BY <2>1, <2>2
<1>4. CASE Connect
  <2> DEFINE v == IF "tcp" \in server[adding] THEN "open" ELSE "null"
  <2>1. adding \in Servers /\ On /\ sockets' = [sockets EXCEPT ![adding] = v]
        /\ UNCHANGED <<threads, stopped>>
    BY <1>4 DEF Connect, Inv, Locked, On, history
  <2>2. v \in SocketStates /\ v \notin {"closed", "reset", "broken"}
    BY DEF SocketStates
  <2> HIDE DEF v
  <2> QED
    BY <2>1, <2>2, ToldEntry
<1>5. ASSUME NEW s \in Servers,
             Boot(s) \/ BindOther(s) \/ AnswerDiscovery(s) \/ Serve(s)
      PROVE  Told'
  <2>1. UNCHANGED <<sockets, threads, stopped>>
    BY <1>5 DEF Boot, BindOther, AnswerDiscovery, Serve, routeVars, history
  <2> QED
    BY <2>1, ToldKept
<1>6. ASSUME NEW s \in Servers, GoOff(s) PROVE Told'
  <2>1. UNCHANGED threads /\ stopped' = On
    BY <1>6 DEF GoOff
  <2>2. CASE sockets[s] = "open"
    <3>1. PICK end \in {"closed", "reset"} : sockets' = [sockets EXCEPT ![s] = end]
      BY <1>6, <2>2 DEF GoOff
    <3>2. On
      BY <2>2 DEF Told
    <3>3. end \in SocketStates
      BY DEF SocketStates
    <3> QED
      BY <2>1, <3>1, <3>2, <3>3, ToldEntry
  <2>3. CASE sockets[s] # "open"
    <3>1. UNCHANGED sockets
      BY <1>6, <2>3 DEF GoOff
    <3> QED
      BY <2>1, <3>1 DEF Told, On
  <2> QED
    BY <2>2, <2>3
<1>7. ASSUME NEW c \in Clients, (\E f \in Figures : Ask(c, f)) \/ Route(c)
      PROVE  Told'
  <2>1. UNCHANGED <<sockets, threads, stopped>>
    BY <1>7 DEF Ask, Route, routeVars, history
  <2> QED
    BY <2>1, ToldKept
<1>8. ASSUME NEW c \in Clients, Forward(c) \/ Read(c) PROVE Told'
  <2> DEFINE s == worker[c].to
  <2>1. s \in Servers /\ sockets[s] # "unset"
    BY <1>8 DEF Forward, Read, Inv, RoutedHasEntry, Working
  <2>2. On /\ UNCHANGED stopped
    BY <1>8, <2>1 DEF Told, Forward, Read, history
  <2>3. CASE Gone
    BY <2>3, ToldGone
  <2>4. CASE ~Gone
    <3>1. UNCHANGED threads
      BY <1>8, <2>4 DEF Forward, Write, Read
    <3>2. UNCHANGED sockets
          \/ \E end \in {"closed", "broken"} :
               /\ sockets' = [sockets EXCEPT ![s] = end]
               /\ sockets[s] \in {"closed", "reset"}
      BY <1>8, <2>4 DEF Forward, Write, Read, routeVars
    <3>3. CASE UNCHANGED sockets
      BY <2>2, <3>1, <3>3, ToldKept
    <3>4. ASSUME NEW end \in {"closed", "broken"},
                 sockets' = [sockets EXCEPT ![s] = end],
                 sockets[s] \in {"closed", "reset"}
          PROVE  Told'
      <4>1. stopped /\ end \in SocketStates
        BY <2>1, <3>4 DEF Told, SocketStates
      <4> QED
        BY <2>1, <2>2, <3>1, <3>4, <4>1, ToldEntry
    <3> QED
      BY <3>2, <3>3, <3>4
  <2> QED
    BY <2>3, <2>4
<1> QED
  BY <1>1, <1>2, <1>3, <1>4, <1>5, <1>6, <1>7, <1>8 DEF Next, Discovery, Handle

\* The last thread of a fork server that runs ends only by SIGPIPE, and that
\* takes a connection that its server has left.
LEMMA EndsTold ==
  ASSUME Inv, Told, [Next]_vars, On, running, threads' = {}
  PROVE  stopped
<1>1. PICK c \in Clients : Forward(c)
  BY DEF Next, Discovery, Handle, Start, Signal, Broadcast, Ignore, Receive,
         EndRound, Wake, Collect, Connect, End, Discard, Boot, BindOther,
         AnswerDiscovery, Serve, GoOff, Ask, Route, Read, vars, On
<1>2. worker[c].to \in Servers
  BY <1>1 DEF Forward, Inv, Working
<1>3. sockets[worker[c].to] = "broken"
  BY <1>1 DEF Forward, Write, On
<1> QED
  BY <1>2, <1>3 DEF Told

\* Only a signal, or the end of a figure server it was connected to, can end
\* the fork server: no announcement, timeout or refused connection does.
THEOREM ForkStaysUp == Spec => StaysUp
<1>1. Init => Told
  BY DEF Init, Told
<1>2. Inv /\ Told /\ [Next]_vars => (Inv /\ Told)'
  BY ForkNext, ToldNext
<1>3. Inv /\ Told /\ [Next]_vars => [On /\ running /\ threads' = {} => stopped]_vars
  BY EndsTold
<1> QED
  BY <1>1, <1>2, <1>3, ForkInit, PTL DEF Spec, StaysUp

-----------------------------------------------------------------------------
(* What is read, gathered and sent.                                        *)

Units == Figures \cup {"404"}
Texts == Seq(Units \cup {Junk})

\* A worker has gathered text, rest is still to be read, and both come from
\* the answer all: the text is that of all up to its first junk.
Taken(text, rest, all) ==
  /\ Len(rest) + Cardinality(Data(text)) = Len(all)
  /\ \A i \in 1..Len(rest) : rest[i] = all[Cardinality(Data(text)) + i]
  /\ \A k \in 1..Len(text) :
       (\A i \in 1..k : text[i] # Junk) => k <= Len(all) /\ text[k] = all[k]

LEMMA DataSize ==
  ASSUME NEW text \in Texts
  PROVE  /\ IsFiniteSet(Data(text))
         /\ Cardinality(Data(text)) \in 0..Len(text)
         /\ Cardinality(Data(text)) = Len(text) => Data(text) = 1..Len(text)
         /\ (\A i \in 1..Len(text) : text[i] # Junk) => Cardinality(Data(text)) = Len(text)
<1>1. Len(text) \in Nat /\ DOMAIN text = 1..Len(text)
  BY DEF Texts
<1>2. Data(text) \in SUBSET (1..Len(text))
  BY <1>1 DEF Data
<1>3. IsFiniteSet(1..Len(text)) /\ Cardinality(1..Len(text)) = Len(text)
  <2> DEFINE n == Len(text)
  <2> HIDE DEF n
  <2>1. n \in Nat
    BY <1>1 DEF n
  <2>2. /\ IsFiniteSet(1..n)
        /\ Cardinality(1..n) = IF 1 > n THEN 0 ELSE n - 1 + 1
    BY <2>1, FS_Interval
  <2> QED
    BY <2>1, <2>2 DEF n
<1>4. /\ IsFiniteSet(Data(text))
      /\ Cardinality(Data(text)) <= Len(text)
      /\ Len(text) = Cardinality(Data(text)) => 1..Len(text) = Data(text)
  BY <1>2, <1>3, FS_Subset
<1>5. Cardinality(Data(text)) \in Nat
  BY <1>4, FS_CardinalityType
<1>6. (\A i \in 1..Len(text) : text[i] # Junk) => Data(text) = 1..Len(text)
  BY <1>1 DEF Data
<1> QED
  BY <1>1, <1>3, <1>4, <1>5, <1>6

LEMMA SentText ==
  ASSUME NEW text \in Texts
  PROVE  /\ Sent(text) \in Texts
         /\ Len(Sent(text)) = Cardinality(Data(text))
         /\ \A i \in 1..Cardinality(Data(text)) : Sent(text)[i] = text[i]
<1> DEFINE n == Cardinality(Data(text))
<1>1. n \in 0..Len(text) /\ Len(text) \in Nat
  BY DataSize DEF Texts
<1>2. \A i \in 1..n : text[i] \in Units \cup {Junk}
  BY <1>1, ElementOfSeq DEF Texts
<1> HIDE DEF n
<1>3. /\ SubSeq(text, 1, n) \in Seq(Units \cup {Junk})
      /\ Len(SubSeq(text, 1, n)) = IF 1 <= n THEN n - 1 + 1 ELSE 0
      /\ \A i \in 1..n - 1 + 1 : SubSeq(text, 1, n)[i] = text[1 + i - 1]
  BY <1>1, <1>2, SubSeqProperties
<1>4. Sent(text) = SubSeq(text, 1, n)
  BY DEF Sent, n
<1>5. /\ Len(SubSeq(text, 1, n)) = n
      /\ \A i \in 1..n : SubSeq(text, 1, n)[i] = text[i]
  <2>1. Len(SubSeq(text, 1, n)) = n
    BY <1>1, <1>3
  <2>2. ASSUME NEW i \in 1..n PROVE SubSeq(text, 1, n)[i] = text[i]
    <3>1. i \in 1..n - 1 + 1 /\ 1 + i - 1 = i
      BY <1>1
    <3> QED
      BY <1>3, <3>1
  <2> QED
    BY <2>1, <2>2
<1> QED
  BY <1>3, <1>4, <1>5 DEF Texts, n

\* A full text that was sent without junk is the answer.
LEMMA WholeAnswer ==
  ASSUME NEW text \in Texts, NEW all \in Seq(Units), NEW rest, Len(rest) = 0,
         Taken(text, rest, all), \A i \in 1..Len(Sent(text)) : Sent(text)[i] # Junk
  PROVE  Sent(text) = all
<1> DEFINE n == Cardinality(Data(text))
<1>1. n \in 0..Len(text) /\ Len(text) \in Nat /\ Len(all) = n
  BY DataSize DEF Texts, Taken
<1>2. Sent(text) \in Texts /\ Len(Sent(text)) = n
      /\ \A i \in 1..n : Sent(text)[i] = text[i]
  BY SentText
<1>3. ASSUME NEW k \in 1..n PROVE Sent(text)[k] = all[k]
  <2>1. k \in 1..Len(text) /\ \A i \in 1..k : text[i] # Junk
    BY <1>1, <1>2
  <2> QED
    BY <1>2, <2>1 DEF Taken
<1> HIDE DEF n
<1>4. all \in Texts
  <2>1. all \in Seq(Units \cup {Junk})
    BY SeqMonotonic
  <2> QED
    BY <2>1 DEF Texts
<1> QED
  BY <1>1, <1>2, <1>3, <1>4, SeqEqual DEF Texts

\* The next read takes the next units, and may add junk behind them.
LEMMA TakeMore ==
  ASSUME NEW text \in Texts, NEW all \in Seq(Units), NEW rest \in Seq(Units),
         Taken(text, rest, all), NEW n \in 1..Len(rest),
         NEW behind \in {<<>>, <<Junk>>}
  PROVE  Taken((text \o SubSeq(rest, 1, n)) \o behind, SubSeq(rest, n + 1, Len(rest)), all)
<1> DEFINE chunk == SubSeq(rest, 1, n)
           left == SubSeq(rest, n + 1, Len(rest))
           both == text \o chunk
           more == both \o behind
           N == Cardinality(Data(text))
           L == Len(text)
<1>0. Junk \notin Units
  BY JunkAssumption DEF Units, Junk
<1>1. /\ L \in Nat /\ Len(rest) \in Nat /\ n \in Nat /\ n <= Len(rest) /\ N \in 0..L
      /\ IsFiniteSet(Data(text)) /\ Data(text) \subseteq 1..L
      /\ \A i \in 1..L : i \in Data(text) <=> text[i] # Junk
  BY DataSize DEF Texts, Data
<1>2. \A i \in 1..Len(rest) : rest[i] \in Units
  BY ElementOfSeq
<1>3. /\ chunk \in Seq(Units) /\ Len(chunk) = n
      /\ \A i \in 1..n : chunk[i] = rest[i]
  <2>1. \A i \in 1..n : rest[i] \in Units
    BY <1>1, <1>2
  <2>2. /\ chunk \in Seq(Units)
        /\ Len(chunk) = IF 1 <= n THEN n - 1 + 1 ELSE 0
        /\ \A i \in 1..n - 1 + 1 : chunk[i] = rest[1 + i - 1]
    BY <1>1, <2>1, SubSeqProperties
  <2> QED
    BY <1>1, <2>2
<1>4. /\ left \in Seq(Units) /\ Len(left) = Len(rest) - n
      /\ \A i \in 1..Len(rest) - n : left[i] = rest[n + i]
  <2>1. \A i \in n + 1..Len(rest) : rest[i] \in Units
    BY <1>1, <1>2
  <2>2. /\ left \in Seq(Units)
        /\ Len(left) = IF n + 1 <= Len(rest) THEN Len(rest) - (n + 1) + 1 ELSE 0
        /\ \A i \in 1..Len(rest) - (n + 1) + 1 : left[i] = rest[n + 1 + i - 1]
    <3> HIDE DEF left
    <3>1. n + 1 \in Int /\ Len(rest) \in Int
      BY <1>1
    <3> QED
      BY <2>1, <3>1, SubSeqProperties DEF left
  <2> HIDE DEF left
  <2> QED
    BY <1>1, <2>2
<1> HIDE DEF chunk, left
<1>5. /\ both \in Texts /\ Len(both) = L + n
      /\ \A i \in 1..L + n : both[i] = IF i <= L THEN text[i] ELSE chunk[i - L]
  <2>1. chunk \in Seq(Units \cup {Junk}) /\ text \in Seq(Units \cup {Junk})
    BY <1>3, SeqMonotonic DEF Texts
  <2> QED
    BY <1>1, <1>3, <2>1, ConcatProperties DEF Texts
<1> HIDE DEF both
<1>6. behind \in Texts /\ Len(behind) \in 0..1
      /\ (Len(behind) = 1 => behind[1] = Junk)
  <2>1. CASE behind = <<>>
    BY <2>1, EmptySeq DEF Texts
  <2>2. CASE behind = <<Junk>>
    BY <2>2 DEF Texts
  <2> QED
    BY <2>1, <2>2
<1>7. /\ more \in Texts /\ Len(more) = L + n + Len(behind)
      /\ \A i \in 1..Len(more) : more[i] = IF i <= L + n THEN both[i] ELSE Junk
  <2>1. /\ more \in Texts /\ Len(more) = Len(both) + Len(behind)
        /\ \A i \in 1..Len(both) + Len(behind) :
             more[i] = IF i <= Len(both) THEN both[i] ELSE behind[i - Len(both)]
    BY <1>5, <1>6, ConcatProperties DEF Texts
  <2> HIDE DEF more
  <2>2. ASSUME NEW i \in 1..Len(more), i > L + n PROVE behind[i - Len(both)] = Junk
    BY <1>1, <1>5, <1>6, <2>1, <2>2
  <2> QED
    BY <1>1, <1>5, <1>6, <2>1, <2>2
<1> HIDE DEF more
<1>8. Data(more) = Data(text) \cup (L + 1..L + n)
  <2>1. DOMAIN more = 1..Len(more)
    BY <1>7 DEF Texts
  <2>2. \A i \in 1..L : i \in DOMAIN more /\ more[i] = text[i]
    BY <1>1, <1>5, <1>6, <1>7, <2>1
  <2>3. \A i \in L + 1..L + n : i \in DOMAIN more /\ more[i] = rest[i - L]
    BY <1>1, <1>3, <1>5, <1>6, <1>7, <2>1
  <2>4. \A i \in L + 1..L + n : i \in DOMAIN more /\ more[i] # Junk
    BY <1>0, <1>1, <1>2, <2>3
  <2>5. \A i \in DOMAIN more : i > L + n => more[i] = Junk
    BY <1>1, <1>7, <2>1
  <2>6. \A i \in DOMAIN more : i \in 1..L \/ i \in L + 1..L + n \/ i > L + n
    BY <1>1, <1>6, <1>7, <2>1
  <2> QED
    BY <1>1, <2>2, <2>4, <2>5, <2>6 DEF Data
<1>9. Cardinality(Data(more)) = N + n
  <2>1. IsFiniteSet(L + 1..L + n) /\ Cardinality(L + 1..L + n) = n
    <3> DEFINE first == L + 1
               last == L + n
    <3>1. first \in Int /\ last \in Int
      BY <1>1
    <3>2. first <= last /\ last - first + 1 = n
      BY <1>1
    <3> HIDE DEF first, last
    <3>3. /\ IsFiniteSet(first..last)
          /\ Cardinality(first..last) = IF first > last THEN 0 ELSE last - first + 1
      BY <3>1, FS_Interval
    <3>4. IsFiniteSet(first..last) /\ Cardinality(first..last) = n
      BY <3>1, <3>2, <3>3
    <3> QED
      BY <3>4 DEF first, last
  <2>2. Data(text) \cap (L + 1..L + n) = {}
    BY <1>1
  <2>3. Cardinality(Data(text) \cap (L + 1..L + n)) = 0
    BY <2>2, FS_EmptySet
  <2>4. Cardinality(Data(text) \cup (L + 1..L + n)) =
          Cardinality(Data(text)) + Cardinality(L + 1..L + n)
            - Cardinality(Data(text) \cap (L + 1..L + n))
    BY <1>1, <2>1, FS_Union
  <2> QED
    BY <1>1, <1>8, <2>1, <2>3, <2>4
<1>10. ASSUME NEW k \in 1..Len(more), \A i \in 1..k : more[i] # Junk
       PROVE  k <= Len(all) /\ more[k] = all[k]
  <2>1. k <= L + n
    BY <1>1, <1>6, <1>7, <1>10
  <2>2. \A i \in 1..k : i <= L => more[i] = text[i]
    BY <1>1, <1>5, <1>7, <2>1
  <2>3. CASE k <= L
    <3>1. k \in 1..L /\ \A i \in 1..k : text[i] # Junk
      BY <1>1, <1>10, <2>2, <2>3
    <3> QED
      BY <2>2, <3>1 DEF Taken
  <2>4. CASE k > L
    <3>1. \A i \in 1..L : text[i] # Junk
      BY <1>1, <1>10, <2>2, <2>4
    <3>2. N = L
      BY <3>1, DataSize
    <3>3. k - L \in 1..n /\ more[k] = rest[k - L]
      <4>1. k - L \in 1..n /\ k \in 1..L + n /\ ~(k <= L)
        BY <1>1, <2>1, <2>4
      <4>2. more[k] = both[k]
        BY <1>7, <1>10, <4>1
      <4>3. both[k] = chunk[k - L]
        BY <1>5, <4>1
      <4>4. chunk[k - L] = rest[k - L]
        BY <1>3, <4>1
      <4> QED
        BY <4>1, <4>2, <4>3, <4>4
    <3>4. k - L \in 1..Len(rest) /\ rest[k - L] = all[L + (k - L)]
      <4>1. k - L \in 1..Len(rest)
        BY <1>1, <3>3
      <4>2. rest[k - L] = all[N + (k - L)]
        BY <4>1 DEF Taken
      <4> QED
        BY <3>2, <4>1, <4>2
    <3>5. Len(rest) + L = Len(all) /\ L + (k - L) = k
      BY <1>1, <3>2 DEF Taken
    <3> QED
      BY <1>1, <3>3, <3>4, <3>5
  <2> QED
    BY <1>1, <2>3, <2>4
<1>11. Len(left) + Cardinality(Data(more)) = Len(all)
  BY <1>1, <1>4, <1>9 DEF Taken
<1>12. ASSUME NEW i \in 1..Len(left)
       PROVE  left[i] = all[Cardinality(Data(more)) + i]
  <2>1. n + i \in 1..Len(rest) /\ left[i] = rest[n + i]
    BY <1>1, <1>4
  <2>2. rest[n + i] = all[N + (n + i)]
    BY <2>1 DEF Taken
  <2>3. N + (n + i) = (N + n) + i
    BY <1>1, <1>4
  <2> QED
    BY <1>9, <2>1, <2>2, <2>3
<1> QED
  BY <1>10, <1>11, <1>12 DEF Taken, left, more, both, chunk

-----------------------------------------------------------------------------
(* Types.                                                                  *)

\* Workers with a route know what their client asked for.
FiguresKnown ==
  \A c \in Clients : worker[c].pc \in Working => worker[c].fig \in Figures

LEMMA TextsAre == Texts = Seq(Figures \cup {"404", Junk})
<1>1. Figures \cup {"404", Junk} = Units \cup {Junk}
  BY DEF Units
<1> QED
  BY <1>1 DEF Texts

LEMMA EmptyText == <<>> \in Texts /\ <<>> \in Seq(Units) /\ <<>> \in Seq(Figures)
  BY EmptySeq DEF Texts

LEMMA JunkText == <<Junk>> \in Texts
  BY DEF Texts

LEMMA NoAnswer ==
  /\ NotFound \in Seq(Units) /\ NotFound \in Texts /\ Len(NotFound) = 1
  BY DEF NotFound, Units, Texts

LEMMA JobTyped ==
  ASSUME NEW pc \in {"none", "asked", "routed", "reading", "done", "unanswered"},
         NEW f \in Figures \cup {"none"}, NEW s \in Servers \cup {NoServer},
         NEW text \in Texts
  PROVE  Job(pc, f, s, text) \in Jobs /\ Job(pc, f, s, text).text = text
  BY TextsAre DEF Job, Jobs

LEMMA JobParts ==
  ASSUME TypeOK, NEW c \in Clients
  PROVE  /\ worker[c] \in Jobs
         /\ worker[c].fig \in Figures \cup {"none"}
         /\ worker[c].to \in Servers \cup {NoServer}
         /\ worker[c].text \in Texts
         /\ worker[c].pc \in {"none", "asked", "routed", "reading", "done", "unanswered"}
<1>1. worker[c] \in Jobs
  BY DEF TypeOK
<1> QED
  BY <1>1, TextsAre DEF Jobs

LEMMA OneJob ==
  ASSUME TypeOK, NEW c \in Clients, NEW job \in Jobs, Becomes(c, job)
  PROVE  /\ worker' \in [Clients -> Jobs]
         /\ worker'[c] = job
         /\ \A d \in Clients \ {c} : worker'[d] = worker[d]
  BY DEF TypeOK, Becomes

LEMMA ReplyJob ==
  ASSUME TypeOK, NEW c \in Clients, NEW s \in Servers \cup {NoServer},
         NEW text \in Texts, Reply(c, s, text)
  PROVE  /\ worker' \in [Clients -> Jobs]
         /\ worker'[c].pc \in {"done", "unanswered"}
         /\ worker'[c].pc = "done" => text # <<>>
         /\ worker'[c].fig = worker[c].fig
         /\ worker'[c].to = s
         /\ worker'[c].text = Sent(text)
         /\ \A d \in Clients \ {c} : worker'[d] = worker[d]
<1>1. PICK pc \in {"done", "unanswered"} :
        /\ pc = "done" => text # <<>>
        /\ Becomes(c, Job(pc, worker[c].fig, s, Sent(text)))
  BY DEF Reply
<1> DEFINE job == Job(pc, worker[c].fig, s, Sent(text))
<1>2. job \in Jobs /\ job.text = Sent(text)
  <2>1. /\ pc \in {"none", "asked", "routed", "reading", "done", "unanswered"}
        /\ worker[c].fig \in Figures \cup {"none"}
        /\ Sent(text) \in Texts
    BY JobParts, SentText
  <2> QED
    BY <2>1, JobTyped
<1>3. job.pc = pc /\ job.fig = worker[c].fig /\ job.to = s
  BY JobFields
<1> HIDE DEF job
<1> QED
  BY <1>1, <1>2, <1>3, OneJob DEF job

LEMMA MovedJob ==
  ASSUME TypeOK, NEW c \in Clients, NEW pc \in {"reading", "unanswered"}
  PROVE  /\ Moved(c, pc) \in Jobs /\ Moved(c, pc).pc = pc
         /\ Moved(c, pc).fig = worker[c].fig
         /\ Moved(c, pc).to = worker[c].to
         /\ Moved(c, pc).text = worker[c].text
<1>1. /\ pc \in {"none", "asked", "routed", "reading", "done", "unanswered"}
      /\ worker[c].fig \in Figures \cup {"none"}
      /\ worker[c].to \in Servers \cup {NoServer}
      /\ worker[c].text \in Texts
  BY JobParts
<1>2. /\ Moved(c, pc) \in Jobs
      /\ Moved(c, pc).text = worker[c].text
  BY <1>1, JobTyped DEF Moved
<1> QED
  BY <1>2, JobFields DEF Moved

LEMMA MovesJob ==
  ASSUME TypeOK, NEW c \in Clients, NEW pc \in {"reading", "unanswered"}, Moves(c, pc)
  PROVE  /\ worker' \in [Clients -> Jobs]
         /\ worker'[c] = Moved(c, pc)
         /\ \A d \in Clients \ {c} : worker'[d] = worker[d]
  BY MovedJob, OneJob DEF Moves

LEMMA AnswerTyped ==
  ASSUME NEW s \in Servers, NEW f \in Figures
  PROVE  Answer(s, f) \in Seq(Units) /\ Len(Answer(s, f)) \in Nat \ {0}
<1>1. CASE f \in Holds[s]
  <2> DEFINE n == Length[f]
  <2>1. n \in Nat \ {0} /\ f \in Units
    BY SizesAssumption DEF Units
  <2>2. Answer(s, f) = [i \in 1..n |-> f]
    BY <1>1 DEF Answer
  <2> HIDE DEF n
  <2>3. [i \in 1..n |-> f] \in Seq(Units) /\ Len([i \in 1..n |-> f]) = n
    BY <2>1
  <2> QED
    BY <2>1, <2>2, <2>3
<1>2. CASE f \notin Holds[s]
  BY <1>2, NoAnswer DEF Answer
<1> QED
  BY <1>1, <1>2

\* What is left of a sequence after n of its elements were taken.
LEMMA RestTyped ==
  ASSUME NEW S, NEW seq \in Seq(S), NEW n \in 0..Len(seq)
  PROVE  /\ SubSeq(seq, n + 1, Len(seq)) \in Seq(S)
         /\ SubSeq(seq, 1, n) \in Seq(S)
         /\ n = Len(seq) => SubSeq(seq, n + 1, Len(seq)) = <<>>
<1>1. Len(seq) \in Nat /\ n \in Nat /\ n <= Len(seq) /\ \A i \in 1..Len(seq) : seq[i] \in S
  BY ElementOfSeq
<1> DEFINE m == n + 1
           l == Len(seq)
<1>2. m \in Int /\ l \in Int /\ n \in Int /\ 1 \in Int
  BY <1>1
<1>3. (\A i \in m..l : seq[i] \in S) /\ (\A i \in 1..n : seq[i] \in S)
  BY <1>1
<1>4. n = Len(seq) => l < m
  BY <1>1
<1> HIDE DEF m, l
<1>5. SubSeq(seq, m, l) \in Seq(S) /\ SubSeq(seq, 1, n) \in Seq(S)
  BY <1>2, <1>3, SubSeqProperties
<1>6. l < m => SubSeq(seq, m, l) = <<>>
  BY <1>2, SubSeqEmpty
<1> QED
  BY <1>4, <1>5, <1>6 DEF m, l

\* The variables of the type invariant in groups that steps leave alone.
WorkersTyped == worker \in [Clients -> Jobs]
StreamsTyped == /\ queries \in [Servers -> Seq(Figures)]
                /\ replies \in [Servers -> Seq(Units)]
RoutesTyped == /\ tabla \in [Figures -> Servers \cup {NoServer}]
               /\ sockets \in [Servers -> SocketStates]
ThreadsTyped == /\ running \in BOOLEAN
                /\ threads \in SUBSET {"discovery", "receptor"}
                /\ phase \in {"off", "ask", "collect", "connect", "sleep"}
                /\ received \in 0..MaxResponses
                /\ adding \in Servers \cup {NoServer}
WorldTyped == /\ server \in [Servers -> SUBSET Ports]
              /\ net \in SUBSET Datagrams
              /\ boots \in 0..MaxBoots
              /\ mixed \in SUBSET Servers
              /\ stopped \in BOOLEAN

LEMMA TypesAre ==
  /\ TypeOK <=> WorkersTyped /\ StreamsTyped /\ RoutesTyped /\ ThreadsTyped /\ WorldTyped
  /\ TypeOK' <=> (WorkersTyped /\ StreamsTyped /\ RoutesTyped /\ ThreadsTyped /\ WorldTyped)'
  BY DEF TypeOK, WorkersTyped, StreamsTyped, RoutesTyped, ThreadsTyped, WorldTyped,
         SocketStates, Units

LEMMA ForkTypesInit == Init => TypeOK /\ FiguresKnown
<1> SUFFICES ASSUME Init PROVE TypeOK /\ FiguresKnown
  OBVIOUS
<1>1. WorkersTyped
  BY EmptyText, JobTyped DEF Init, NoJob, WorkersTyped
<1>2. StreamsTyped
  BY EmptyText DEF Init, StreamsTyped
<1>3. RoutesTyped /\ ThreadsTyped /\ WorldTyped
  <2>1. RoutesTyped
    BY DEF Init, RoutesTyped, SocketStates
  <2>2. received \in 0..MaxResponses /\ boots \in 0..MaxBoots
    BY SizesAssumption, ForkBoundsAssumption DEF Init
  <2>3. running \in BOOLEAN /\ stopped \in BOOLEAN
    BY Zenon DEF Init
  <2>4. ThreadsTyped /\ WorldTyped
    BY <2>2, <2>3 DEF Init, ThreadsTyped, WorldTyped
  <2> QED
    BY <2>1, <2>4
<1>4. FiguresKnown
  BY JobFields DEF Init, NoJob, FiguresKnown, Working
<1> QED
  BY <1>1, <1>2, <1>3, <1>4, TypesAre

\* The process ends: what is left has its types.
LEMMA GoneTypes ==
  ASSUME TypeOK, Gone, UNCHANGED <<running, net, boots, mixed, stopped>>
  PROVE  TypeOK' /\ FiguresKnown'
<1>1. WorkersTyped'
  <2>1. \A c \in Clients : Moved(c, "unanswered") \in Jobs /\ worker[c] \in Jobs
    BY MovedJob, JobParts
  <2> QED
    BY <2>1 DEF Gone, WorkersTyped
<1>2. StreamsTyped'
  BY EmptyText DEF Gone, StreamsTyped
<1>3. RoutesTyped'
  BY DEF Gone, RoutesTyped, SocketStates
<1>4. ThreadsTyped'
  BY SizesAssumption, TypesAre DEF Gone, ThreadsTyped
<1>5. WorldTyped'
  BY TypesAre DEF Gone, WorldTyped
<1>6. FiguresKnown'
  <2>1. \A c \in Clients : Moved(c, "unanswered").pc = "unanswered"
    BY MovedJob
  <2> QED
    BY <2>1 DEF Gone, FiguresKnown, Working
<1> QED
  BY <1>1, <1>2, <1>3, <1>4, <1>5, <1>6, TypesAre

\* Steps that concern neither workers nor the streams between them and the
\* servers.
LEMMA DiscoveryTypes ==
  ASSUME TypeOK, FiguresKnown, Inv,
         \/ Start \/ Signal \/ Discovery
         \/ \E t \in threads : End(t) /\ threads # {t}
         \/ \E m \in net : Discard(m)
         \/ \E s \in Servers : Boot(s) \/ BindOther(s) \/ AnswerDiscovery(s)
         \/ UNCHANGED vars
  PROVE  TypeOK' /\ FiguresKnown'
<1> USE TypesAre
<1>1. UNCHANGED <<worker, queries, replies>>
  BY DEF Start, Signal, Discovery, Broadcast, Connect, EndRound, Wake, Ignore,
         Collect, Receive, End, Discard, Boot, BindOther, AnswerDiscovery, vars,
         streamVars
<1>2. WorkersTyped' /\ StreamsTyped' /\ FiguresKnown'
  BY <1>1 DEF WorkersTyped, StreamsTyped, FiguresKnown
<1>3. RoutesTyped'
  <2>1. CASE Connect
    <3>1. adding \in Servers
      BY <2>1 DEF Connect, Inv, Locked
    <3> QED
      BY <2>1, <3>1 DEF Connect, RoutesTyped, SocketStates
  <2>2. CASE \E s \in Servers : Collect(s)
    BY <2>2 DEF Collect, RoutesTyped
  <2>3. CASE ~Connect /\ ~\E s \in Servers : Collect(s)
    <3>1. UNCHANGED <<tabla, sockets>>
      BY <2>3 DEF Start, Signal, Discovery, Broadcast, EndRound, Wake, Ignore,
                  Receive, End, Discard, Boot, BindOther, AnswerDiscovery, vars,
                  routeVars
    <3> QED
      BY <3>1 DEF RoutesTyped
  <2> QED
    BY <2>1, <2>2, <2>3
<1>4. ThreadsTyped'
  <2>1. received' \in 0..MaxResponses
    <3>1. \/ received' = received \/ received' = 0
          \/ received < MaxResponses /\ received' = received + 1
      BY DEF Start, Signal, Discovery, Broadcast, Connect, EndRound, Wake, Ignore,
             Collect, Receive, End, Discard, Boot, BindOther, AnswerDiscovery, vars,
             discoveryVars
    <3> QED
      BY <3>1, SizesAssumption DEF ThreadsTyped
  <2>2. running' \in BOOLEAN
    BY Zenon
       DEF Start, Signal, Discovery, Broadcast, Connect, EndRound, Wake, Ignore,
           Collect, Receive, End, Discard, Boot, BindOther, AnswerDiscovery, vars,
           ThreadsTyped
  <2>3. /\ threads' \in SUBSET {"discovery", "receptor"}
        /\ phase' \in {"off", "ask", "collect", "connect", "sleep"}
    BY DEF Start, Signal, Discovery, Broadcast, Connect, EndRound, Wake, Ignore,
           Collect, Receive, End, Discard, Boot, BindOther, AnswerDiscovery, vars,
           discoveryVars, ThreadsTyped
  <2>4. adding' \in Servers \cup {NoServer}
    BY DEF Start, Signal, Discovery, Broadcast, Connect, EndRound, Wake, Ignore,
           Collect, Receive, End, Discard, Boot, BindOther, AnswerDiscovery, vars,
           discoveryVars, ThreadsTyped
  <2> QED
    BY <2>1, <2>2, <2>3, <2>4 DEF ThreadsTyped
<1>5. net' \in SUBSET Datagrams
  BY DEF Start, Signal, Discovery, Broadcast, Connect, EndRound, Wake, Ignore,
         Collect, Receive, End, Discard, Boot, BindOther, AnswerDiscovery, vars,
         WorldTyped, Send, Datagrams
<1>6. server' \in [Servers -> SUBSET Ports] /\ mixed' \in SUBSET Servers
  BY DEF Start, Signal, Discovery, Broadcast, Connect, EndRound, Wake, Ignore,
         Collect, Receive, End, Discard, Boot, BindOther, AnswerDiscovery, vars,
         history, WorldTyped
<1>7. boots' \in 0..MaxBoots
  <2>1. boots' = boots \/ (boots < MaxBoots /\ boots' = boots + 1)
    BY DEF Start, Signal, Discovery, Broadcast, Connect, EndRound, Wake, Ignore,
           Collect, Receive, End, Discard, Boot, BindOther, AnswerDiscovery, vars,
           history
  <2> QED
    BY <2>1, ForkBoundsAssumption DEF WorldTyped
<1>8. stopped' \in BOOLEAN
  BY Zenon
     DEF Start, Signal, Discovery, Broadcast, Connect, EndRound, Wake, Ignore,
         Collect, Receive, End, Discard, Boot, BindOther, AnswerDiscovery, vars,
         history, WorldTyped
<1> QED
  BY <1>2, <1>3, <1>4, <1>5, <1>6, <1>7, <1>8 DEF WorldTyped

LEMMA ServeTypes ==
  ASSUME TypeOK, FiguresKnown, NEW s \in Servers, Serve(s)
  PROVE  TypeOK' /\ FiguresKnown'
<1> USE TypesAre
<1>1. PICK n \in 1..Len(queries[s]) :
        /\ queries' = [queries EXCEPT ![s] = SubSeq(@, n + 1, Len(@))]
        /\ replies' = [replies EXCEPT ![s] =
             @ \o IF n = 1 THEN Answer(s, queries[s][1]) ELSE NotFound]
  BY DEF Serve
<1>2. queries[s] \in Seq(Figures) /\ replies[s] \in Seq(Units)
  BY DEF StreamsTyped
<1>3. SubSeq(queries[s], n + 1, Len(queries[s])) \in Seq(Figures)
  BY <1>2, RestTyped
<1>4. queries[s][1] \in Figures
  BY <1>2, ElementOfSeq
<1> DEFINE more == IF n = 1 THEN Answer(s, queries[s][1]) ELSE NotFound
<1>5. more \in Seq(Units)
  BY <1>4, AnswerTyped, NoAnswer
<1> HIDE DEF more
<1>6. replies[s] \o more \in Seq(Units)
  BY <1>2, <1>5, ConcatProperties
<1>7. StreamsTyped'
  BY <1>1, <1>3, <1>6 DEF StreamsTyped, more
<1>8. UNCHANGED <<running, threads, discoveryVars, routeVars, worker, server, net, history>>
  BY DEF Serve
<1> QED
  BY <1>7, <1>8 DEF WorkersTyped, RoutesTyped, ThreadsTyped, WorldTyped, FiguresKnown,
                    discoveryVars, routeVars, history

LEMMA GoOffTypes ==
  ASSUME TypeOK, FiguresKnown, NEW s \in Servers, GoOff(s)
  PROVE  TypeOK' /\ FiguresKnown'
<1> USE TypesAre
<1>1. StreamsTyped'
  BY EmptyText DEF GoOff, StreamsTyped
<1>2. RoutesTyped'
  BY DEF GoOff, RoutesTyped, SocketStates
<1>3. WorldTyped'
  BY DEF GoOff, WorldTyped, On
<1>4. WorkersTyped' /\ ThreadsTyped' /\ FiguresKnown'
  BY DEF GoOff, WorkersTyped, ThreadsTyped, FiguresKnown, discoveryVars
<1> QED
  BY <1>1, <1>2, <1>3, <1>4

\* One worker changes, and with it what it knows.
LEMMA WorkerTypes ==
  ASSUME TypeOK, FiguresKnown, NEW c \in Clients,
         worker' \in [Clients -> Jobs],
         \A d \in Clients \ {c} : worker'[d] = worker[d],
         worker'[c].pc \in Working => worker'[c].fig \in Figures,
         UNCHANGED <<running, threads, discoveryVars, tabla, server, net, boots, stopped>>,
         RoutesTyped', StreamsTyped', mixed' \in SUBSET Servers
  PROVE  TypeOK' /\ FiguresKnown'
<1> USE TypesAre
<1>1. WorkersTyped' /\ FiguresKnown'
  BY DEF WorkersTyped, FiguresKnown
<1>2. ThreadsTyped' /\ WorldTyped'
  BY DEF ThreadsTyped, WorldTyped, discoveryVars
<1> QED
  BY <1>1, <1>2

LEMMA AskTypes ==
  ASSUME TypeOK, FiguresKnown, NEW c \in Clients, NEW f \in Figures, Ask(c, f)
  PROVE  TypeOK' /\ FiguresKnown'
<1>1. PICK pc \in {"asked", "unanswered"} : Becomes(c, Job(pc, f, NoServer, <<>>))
  BY DEF Ask
<1> DEFINE job == Job(pc, f, NoServer, <<>>)
<1>2. job \in Jobs /\ job.pc = pc
  BY EmptyText, JobTyped, JobFields
<1> HIDE DEF job
<1>3. /\ worker' \in [Clients -> Jobs] /\ worker'[c] = job
      /\ \A d \in Clients \ {c} : worker'[d] = worker[d]
  BY <1>1, <1>2, OneJob DEF job
<1>4. UNCHANGED <<running, threads, discoveryVars, routeVars, streamVars, server, net, history>>
  BY DEF Ask
<1>5. RoutesTyped' /\ StreamsTyped' /\ mixed' \in SUBSET Servers
  BY <1>4, TypesAre DEF RoutesTyped, StreamsTyped, WorldTyped, routeVars, streamVars, history
<1> QED
  BY <1>2, <1>3, <1>4, <1>5, WorkerTypes DEF Working, routeVars, history

LEMMA RouteTypes ==
  ASSUME TypeOK, FiguresKnown, Inv, NEW c \in Clients, Route(c)
  PROVE  TypeOK' /\ FiguresKnown'
<1> DEFINE f == worker[c].fig
           s == tabla[f]
           job == Job("routed", f, s, <<>>)
<1>1. f \in Figures /\ s \in Servers \cup {NoServer}
  BY DEF Route, Inv
<1>2. /\ worker' \in [Clients -> Jobs]
      /\ \A d \in Clients \ {c} : worker'[d] = worker[d]
      /\ worker'[c].fig = f
  <2>1. CASE s = NoServer
    <3>1. Reply(c, NoServer, NotFound)
      BY <2>1 DEF Route
    <3> QED
      BY <3>1, NoAnswer, ReplyJob
  <2>2. CASE s # NoServer
    <3>1. Becomes(c, job) /\ job \in Jobs /\ job.fig = f
      BY <1>1, <2>2, EmptyText, JobTyped, JobFields DEF Route
    <3> HIDE DEF job
    <3> QED
      BY <3>1, OneJob
  <2> QED
    BY <2>1, <2>2
<1>4. UNCHANGED <<running, threads, discoveryVars, routeVars, streamVars, server, net, history>>
  BY DEF Route
<1>5. RoutesTyped' /\ StreamsTyped' /\ mixed' \in SUBSET Servers
  BY <1>4, TypesAre DEF RoutesTyped, StreamsTyped, WorldTyped, routeVars, streamVars, history
<1> QED
  BY <1>1, <1>2, <1>4, <1>5, WorkerTypes DEF routeVars, history

LEMMA ForwardTypes ==
  ASSUME TypeOK, FiguresKnown, Inv, NEW c \in Clients, Forward(c)
  PROVE  TypeOK' /\ FiguresKnown'
<1> DEFINE s == worker[c].to
<1>1. s \in Servers /\ worker[c].fig \in Figures
  BY DEF Forward, Inv, FiguresKnown, Working
<1>2. CASE Gone /\ UNCHANGED mixed
  BY <1>2, GoneTypes DEF Forward
<1>3. CASE ~(Gone /\ UNCHANGED mixed)
  <2>1. PICK pc \in {"reading", "unanswered"} : Moves(c, pc)
    BY <1>3 DEF Forward, Write
  <2>2. /\ worker' \in [Clients -> Jobs]
        /\ \A d \in Clients \ {c} : worker'[d] = worker[d]
        /\ worker'[c].fig = worker[c].fig
    BY <2>1, MovesJob, MovedJob
  <2>3. UNCHANGED <<running, threads, discoveryVars, tabla, server, net, boots, stopped>>
    BY <1>3 DEF Forward, Write, routeVars
  <2>4. \/ UNCHANGED sockets
        \/ \E end \in {"closed", "broken"} : sockets' = [sockets EXCEPT ![s] = end]
    BY <1>3 DEF Forward, Write, routeVars
  <2>5. RoutesTyped'
    BY <2>3, <2>4, TypesAre DEF RoutesTyped, SocketStates
  <2>6. UNCHANGED replies
        /\ \/ UNCHANGED queries
           \/ queries' = [queries EXCEPT ![s] = Append(@, worker[c].fig)]
    BY <1>3 DEF Forward, Write, streamVars
  <2>7. StreamsTyped'
    <3>1. queries[s] \in Seq(Figures)
      BY <1>1, TypesAre DEF StreamsTyped
    <3>2. Append(queries[s], worker[c].fig) \in Seq(Figures)
      BY <1>1, <3>1, AppendProperties
    <3> QED
      BY <2>6, <3>2, TypesAre DEF StreamsTyped
  <2>8. mixed' \in SUBSET Servers
    BY <1>1, <1>3, TypesAre DEF Forward, Write, WorldTyped
  <2> QED
    BY <1>1, <2>2, <2>3, <2>5, <2>7, <2>8, WorkerTypes
<1> QED
  BY <1>2, <1>3

\* What a read does to the worker: it goes on after a full buffer, and answers
\* otherwise.
Takes(c, s, n) ==
  LET text == worker[c].text \o SubSeq(replies[s], 1, n)
  IN  \/ /\ n = BufSize
         /\ \E behind \in {<<>>, <<Junk>>} :
              Becomes(c, Job("reading", worker[c].fig, s, text \o behind))
      \/ n # BufSize /\ Reply(c, s, text)

LEMMA ReadCases ==
  ASSUME TypeOK, Inv, NEW c \in Clients, Read(c), NEW s, s = worker[c].to
  PROVE  \/ \E n \in 1..Len(replies[s]) :
              /\ n = Least(BufSize, Len(replies[s])) \/ Segmented
              /\ replies' = [replies EXCEPT ![s] = SubSeq(@, n + 1, Len(@))]
              /\ Takes(c, s, n) /\ UNCHANGED sockets
         \/ /\ Len(replies[s]) = 0 /\ sockets[s] \in {"closed", "broken"}
            /\ Reply(c, s, worker[c].text)
            /\ UNCHANGED <<replies, sockets>>
         \/ /\ Len(replies[s]) = 0 /\ sockets[s] = "reset" /\ Moves(c, "unanswered")
            /\ sockets' = [sockets EXCEPT ![s] = "broken"]
            /\ UNCHANGED replies
<1> DEFINE most == Least(BufSize, Len(replies[s]))
<1>1. s \in Servers /\ replies[s] \in Seq(Units)
  BY TypesAre DEF Read, Inv, Working, StreamsTyped
<1>2. Len(replies[s]) \in Nat /\ BufSize \in Nat \ {0, 1}
  BY <1>1, SizesAssumption
<1>3. most \in 0..Len(replies[s]) /\ (most = 0 => Len(replies[s]) = 0)
  BY <1>2 DEF Least
<1> HIDE DEF most
<1>4. ASSUME NEW n \in 1..most, n = most \/ Segmented,
             replies' = [replies EXCEPT ![s] = SubSeq(@, n + 1, Len(@))],
             LET text == worker[c].text \o SubSeq(replies[s], 1, n)
             IN  IF More(n)
                 THEN \E behind \in {<<>>, <<Junk>>} :
                        /\ behind = <<>> \/ Padding
                        /\ Becomes(c, Job("reading", worker[c].fig, s, text \o behind))
                 ELSE Reply(c, s, text),
             UNCHANGED sockets
      PROVE  \E k \in 1..Len(replies[s]) :
               /\ k = most \/ Segmented
               /\ replies' = [replies EXCEPT ![s] = SubSeq(@, k + 1, Len(@))]
               /\ Takes(c, s, k) /\ UNCHANGED sockets
  <2>1. Takes(c, s, n)
    BY <1>4 DEF Takes, More
  <2>2. n \in 1..Len(replies[s])
    BY <1>2, <1>3
  <2> QED
    BY <1>4, <2>1, <2>2
<1> QED
  BY <1>3, <1>4 DEF Read, most

LEMMA ReadTypes ==
  ASSUME TypeOK, FiguresKnown, Inv, NEW c \in Clients, Read(c)
  PROVE  TypeOK' /\ FiguresKnown'
<1> DEFINE s == worker[c].to
<1> USE TypesAre
<1>1. s \in Servers /\ worker[c].fig \in Figures
      /\ worker[c].text \in Texts /\ replies[s] \in Seq(Units)
  BY JobParts DEF Read, Inv, FiguresKnown, Working, StreamsTyped
<1>2. UNCHANGED <<running, threads, discoveryVars, tabla, queries, server, net, history>>
  BY DEF Read
<1>3. ASSUME NEW n \in 1..Len(replies[s]),
             replies' = [replies EXCEPT ![s] = SubSeq(@, n + 1, Len(@))],
             Takes(c, s, n), UNCHANGED sockets
      PROVE  TypeOK' /\ FiguresKnown'
  <2> DEFINE text == worker[c].text \o SubSeq(replies[s], 1, n)
  <2>1. n \in 0..Len(replies[s])
    BY <1>1
  <2>2. SubSeq(replies[s], n + 1, Len(replies[s])) \in Seq(Units)
        /\ SubSeq(replies[s], 1, n) \in Seq(Units)
    BY <1>1, <2>1, RestTyped
  <2>3. text \in Texts
    <3>1. SubSeq(replies[s], 1, n) \in Seq(Units \cup {Junk})
      BY <2>2, SeqMonotonic
    <3> QED
      BY <1>1, <3>1, ConcatProperties DEF Texts
  <2> HIDE DEF text
  <2>4. /\ worker' \in [Clients -> Jobs]
        /\ worker'[c].fig = worker[c].fig
        /\ \A d \in Clients \ {c} : worker'[d] = worker[d]
    <3>1. CASE Reply(c, s, text)
      BY <1>1, <2>3, <3>1, ReplyJob
    <3>2. ASSUME NEW behind \in {<<>>, <<Junk>>},
                 Becomes(c, Job("reading", worker[c].fig, s, text \o behind))
          PROVE  <2>4
      <4> DEFINE job == Job("reading", worker[c].fig, s, text \o behind)
      <4>1. behind \in Texts
        BY EmptyText, JunkText
      <4>2. text \o behind \in Texts
        BY <2>3, <4>1, ConcatProperties DEF Texts
      <4>3. job \in Jobs
        BY <1>1, <4>2, JobTyped
      <4>4. job.fig = worker[c].fig
        BY JobFields
      <4> HIDE DEF job
      <4> QED
        BY <3>2, <4>3, <4>4, OneJob DEF job
    <3> QED
      BY <1>3, <3>1, <3>2 DEF Takes, text
  <2>5. StreamsTyped' /\ RoutesTyped' /\ mixed' \in SUBSET Servers
    BY <1>2, <1>3, <2>2 DEF StreamsTyped, RoutesTyped, WorldTyped, history
  <2> QED
    BY <1>1, <1>2, <2>4, <2>5, WorkerTypes DEF history
<1>4. ASSUME Reply(c, s, worker[c].text) \/ Moves(c, "unanswered"),
             UNCHANGED sockets \/ sockets' = [sockets EXCEPT ![s] = "broken"],
             UNCHANGED replies
      PROVE  TypeOK' /\ FiguresKnown'
  <2>1. /\ worker' \in [Clients -> Jobs]
        /\ worker'[c].fig = worker[c].fig
        /\ \A d \in Clients \ {c} : worker'[d] = worker[d]
    BY <1>1, <1>4, ReplyJob, MovesJob, MovedJob
  <2>2. StreamsTyped' /\ RoutesTyped' /\ mixed' \in SUBSET Servers
    BY <1>2, <1>4 DEF StreamsTyped, RoutesTyped, WorldTyped, SocketStates, history
  <2> QED
    BY <1>1, <1>2, <2>1, <2>2, WorkerTypes DEF history
<1> QED
  BY <1>3, <1>4, ReadCases

LEMMA ForkTypesNext ==
  ASSUME TypeOK, FiguresKnown, Inv, [Next]_vars
  PROVE  TypeOK' /\ FiguresKnown'
<1>1. ASSUME NEW t \in threads, End(t), threads = {t}
      PROVE  TypeOK' /\ FiguresKnown'
  BY <1>1, GoneTypes DEF End, history
<1>2. ASSUME NEW c \in Clients, Handle(c)
      PROVE  TypeOK' /\ FiguresKnown'
  BY <1>2, AskTypes, RouteTypes, ForwardTypes, ReadTypes DEF Handle
<1>3. ASSUME NEW s \in Servers, Serve(s) \/ GoOff(s)
      PROVE  TypeOK' /\ FiguresKnown'
  BY <1>3, ServeTypes, GoOffTypes
<1> QED
  BY <1>1, <1>2, <1>3, DiscoveryTypes DEF Next

LEMMA ForkTypes == Spec => [](Inv /\ TypeOK /\ FiguresKnown)
<1>1. Inv /\ TypeOK /\ FiguresKnown /\ [Next]_vars => (Inv /\ TypeOK /\ FiguresKnown)'
  BY ForkNext, ForkTypesNext
<1> QED
  BY <1>1, ForkInit, ForkTypesInit, PTL DEF Spec

\* Whatever the network loses and memory adds, the tables, the streams and the
\* requests keep their types.
THEOREM ForkTyping == Spec => []TypeOK
  BY ForkTypes, PTL

-----------------------------------------------------------------------------
(* Whose data is on a connection that no two workers used at once.         *)

\* The worker waits for the server to read its request, or for the end of a
\* connection that will bring nothing.
Awaits(c, s) ==
  /\ \/ queries[s] = <<worker[c].fig>>
     \/ queries[s] = <<>> /\ sockets[s] # "open"
  /\ replies[s] = <<>> /\ worker[c].text = <<>>

\* The server has answered.
Gets(c, s) ==
  queries[s] = <<>> /\ Taken(worker[c].text, replies[s], Answer(s, worker[c].fig))

Alone(s) ==
  /\ \A c, d \in Readers(s) : c = d
  /\ Readers(s) = {} => queries[s] = <<>> /\ replies[s] = <<>>
  /\ sockets[s] # "open" => queries[s] = <<>>
  /\ \A c \in Readers(s) : Awaits(c, s) \/ Gets(c, s)

\* addRoute connects only to what has no connection.
Connecting == phase = "connect" => sockets[adding] \in {"unset", "null"}

WorkersConnected ==
  \A c \in Clients :
    /\ worker[c].pc = "routed" => worker[c].text = <<>>
    /\ worker[c].pc = "reading" => sockets[worker[c].to] \notin {"unset", "null"}

Streams == \A s \in Servers \ mixed : Alone(s)

AnswerInv == Connecting /\ WorkersConnected /\ Streams /\ OwnAnswer

\* What a client was sent, if the connection was not shared.
Own(c) ==
  LET s == worker[c].to
      clean == \A i \in DOMAIN worker[c].text : worker[c].text[i] # Junk
  IN  s \notin mixed /\ clean =>
        worker[c].text = IF s = NoServer THEN NotFound ELSE Answer(s, worker[c].fig)

LEMMA OwnAnswerIs == OwnAnswer <=> \A c \in Clients : worker[c].pc = "done" => Own(c)
  BY DEF OwnAnswer, Own

LEMMA AnswerInit == Init => AnswerInv
<1> SUFFICES ASSUME Init PROVE AnswerInv
  OBVIOUS
<1>1. \A c \in Clients : worker[c].pc = "none"
  BY JobFields DEF Init, NoJob
<1>2. Connecting /\ WorkersConnected /\ OwnAnswer
  BY <1>1 DEF Init, Connecting, WorkersConnected, OwnAnswer
<1>3. Streams
  BY <1>1 DEF Init, Streams, Alone, Readers
<1> QED
  BY <1>2, <1>3 DEF AnswerInv

Reads(c, s) == worker[c].pc = "reading" /\ worker[c].to = s

\* A connection that a step leaves alone, for the workers that read from it
\* too.
LEMMA AloneFrame ==
  ASSUME NEW s, Alone(s),
         queries'[s] = queries[s], replies'[s] = replies[s], sockets'[s] = sockets[s],
         \A c \in Clients : \/ worker'[c] = worker[c]
                            \/ ~Reads(c, s) /\ ~Reads(c, s)'
  PROVE  Alone(s)'
<1>1. Readers(s)' = Readers(s)
  BY DEF Readers, Reads
<1>2. \A c \in Readers(s) : worker'[c] = worker[c]
  BY DEF Readers, Reads
<1>3. ASSUME NEW c \in Readers(s), Awaits(c, s) PROVE Awaits(c, s)'
  BY <1>2, <1>3 DEF Awaits
<1>4. ASSUME NEW c \in Readers(s), Gets(c, s) PROVE Gets(c, s)'
  BY <1>2, <1>4 DEF Gets
<1> QED
  BY <1>1, <1>3, <1>4 DEF Alone

\* Without workers, and with nothing on it, a connection is as it should be.
LEMMA AloneEmpty ==
  ASSUME NEW s, Readers(s)' = {}, queries'[s] = <<>>, replies'[s] = <<>>
  PROVE  Alone(s)'
  BY DEF Alone

LEMMA OwnKept ==
  ASSUME OwnAnswer, mixed \subseteq mixed',
         \A c \in Clients :
           worker'[c].pc = "done" => worker'[c] = worker[c] \/ Own(c)'
  PROVE  OwnAnswer'
<1>1. ASSUME NEW c \in Clients, worker'[c].pc = "done" PROVE Own(c)'
  <2>1. CASE worker'[c] = worker[c]
    <3>1. Own(c)
      BY <1>1, <2>1, OwnAnswerIs
    <3> QED
      BY <2>1, <3>1 DEF Own, Answer, NotFound
  <2> QED
    BY <1>1, <2>1
<1> QED
  BY <1>1 DEF OwnAnswer, Own

LEMMA GoneAnswers ==
  ASSUME TypeOK, AnswerInv, Gone, UNCHANGED mixed
  PROVE  AnswerInv'
<1>1. \A c \in Clients :
        \/ worker'[c] = worker[c] /\ worker[c].pc \notin {"asked", "routed", "reading"}
        \/ worker'[c].pc = "unanswered"
  <2>1. \A c \in Clients : Moved(c, "unanswered").pc = "unanswered"
    BY MovedJob
  <2> QED
    BY <2>1 DEF Gone
<1>2. \A s \in Servers : Readers(s)' = {}
  BY <1>1 DEF Readers
<1>3. Streams'
  BY <1>2, AloneEmpty DEF Gone, Streams
<1>4. Connecting' /\ WorkersConnected'
  BY <1>1 DEF Gone, Connecting, WorkersConnected
<1>5. OwnAnswer'
  BY <1>1, OwnKept DEF AnswerInv
<1> QED
  BY <1>3, <1>4, <1>5 DEF AnswerInv

\* Steps that change neither workers nor streams.
LEMMA DiscoveryAnswers ==
  ASSUME TypeOK, Inv, AnswerInv,
         \/ Start \/ Signal \/ Discovery
         \/ \E t \in threads : End(t) /\ threads # {t}
         \/ \E m \in net : Discard(m)
         \/ \E s \in Servers : Boot(s) \/ BindOther(s) \/ AnswerDiscovery(s)
         \/ UNCHANGED vars
  PROVE  AnswerInv'
<1>1. UNCHANGED <<worker, queries, replies, mixed>>
  BY DEF Start, Signal, Discovery, Broadcast, Connect, EndRound, Wake, Ignore,
         Collect, Receive, End, Discard, Boot, BindOther, AnswerDiscovery, vars,
         streamVars, history
<1>2. OwnAnswer'
  BY <1>1, OwnKept DEF AnswerInv
<1>3. CASE Connect
  <2>1. adding \in Servers /\ sockets[adding] \in {"unset", "null"}
        /\ phase' = "collect"
    BY <1>3 DEF Connect, Inv, Locked, AnswerInv, Connecting
  <2>2. \A s \in Servers \ {adding} : sockets'[s] = sockets[s]
    BY <1>3 DEF Connect, Inv
  <2>3. \A c \in Clients : worker[c].pc = "reading" =>
          worker[c].to \in Servers /\ worker[c].to # adding
    BY <2>1 DEF Inv, Working, AnswerInv, WorkersConnected
  <2>4. WorkersConnected'
    BY <1>1, <2>2, <2>3 DEF AnswerInv, WorkersConnected
  <2>5. ASSUME NEW s \in Servers \ mixed' PROVE Alone(s)'
    <3>1. Alone(s)
      BY <1>1 DEF AnswerInv, Streams
    <3>2. CASE s = adding
      <4>1. Readers(s) = {} /\ Readers(s)' = {}
        BY <1>1, <2>3, <3>2 DEF Readers
      <4> QED
        BY <1>1, <3>1, <4>1, AloneEmpty DEF Alone
    <3>3. CASE s # adding
      <4>1. queries'[s] = queries[s] /\ replies'[s] = replies[s] /\ sockets'[s] = sockets[s]
            /\ \A c \in Clients : worker'[c] = worker[c]
        BY <1>1, <2>2, <3>3
      <4> QED
        BY <3>1, <4>1, AloneFrame
    <3> QED
      BY <3>2, <3>3
  <2> QED
    BY <1>2, <2>1, <2>4, <2>5 DEF AnswerInv, Connecting, Streams
<1>4. CASE ~Connect
  <2>1. UNCHANGED sockets
    BY <1>4 DEF Start, Signal, Discovery, Broadcast, EndRound, Wake, Ignore,
                Collect, Receive, End, Discard, Boot, BindOther, AnswerDiscovery,
                vars, routeVars
  <2>2. phase' = "connect" => \/ phase = "connect" /\ adding' = adding
                              \/ sockets[adding'] \in {"unset", "null"}
    BY <1>4 DEF Start, Signal, Discovery, Broadcast, EndRound, Wake, Ignore,
                Collect, Receive, End, Discard, Boot, BindOther, AnswerDiscovery,
                vars, discoveryVars
  <2>3. Connecting' /\ WorkersConnected'
    BY <1>1, <2>1, <2>2 DEF AnswerInv, Connecting, WorkersConnected
  <2>4. ASSUME NEW s \in Servers \ mixed' PROVE Alone(s)'
    <3>1. Alone(s)
      BY <1>1 DEF AnswerInv, Streams
    <3>2. queries'[s] = queries[s] /\ replies'[s] = replies[s] /\ sockets'[s] = sockets[s]
          /\ \A c \in Clients : worker'[c] = worker[c]
      BY <1>1, <2>1
    <3> QED
      BY <3>1, <3>2, AloneFrame
  <2> QED
    BY <1>2, <2>3, <2>4 DEF AnswerInv, Streams
<1> QED
  BY <1>3, <1>4

\* The other connections, when a step concerns that of one server and at most
\* one worker for it.
LEMMA Others ==
  ASSUME TypeOK, AnswerInv, NEW r, mixed \subseteq mixed',
         \A s \in Servers \ {r} :
           queries'[s] = queries[s] /\ replies'[s] = replies[s] /\ sockets'[s] = sockets[s],
         \A c \in Clients :
           \/ worker'[c] = worker[c]
           \/ \A s \in Servers \ {r} : ~Reads(c, s) /\ ~Reads(c, s)'
  PROVE  \A s \in Servers \ mixed' : s # r => Alone(s)'
<1> SUFFICES ASSUME NEW s \in Servers \ mixed', s # r PROVE Alone(s)'
  OBVIOUS
<1>1. Alone(s)
  BY DEF AnswerInv, Streams
<1>2. queries'[s] = queries[s] /\ replies'[s] = replies[s] /\ sockets'[s] = sockets[s]
  OBVIOUS
<1>3. \A c \in Clients : \/ worker'[c] = worker[c]
                         \/ ~Reads(c, s) /\ ~Reads(c, s)'
  OBVIOUS
<1> QED
  BY <1>1, <1>2, <1>3, AloneFrame

LEMMA NothingTaken ==
  ASSUME NEW all \in Seq(Units)
  PROVE  Taken(<<>>, all, all)
<1>1. Data(<<>>) = {}
  BY EmptySeq DEF Data
<1>2. Cardinality(Data(<<>>)) = 0
  BY <1>1, FS_EmptySet
<1>3. Len(<<>>) = 0 /\ Len(all) \in Nat
  BY EmptySeq
<1> QED
  BY <1>2, <1>3 DEF Taken

LEMMA ServeAnswers ==
  ASSUME TypeOK, FiguresKnown, AnswerInv, NEW s \in Servers, Serve(s)
  PROVE  AnswerInv'
<1>1. UNCHANGED <<phase, adding, sockets, worker, mixed>>
  BY DEF Serve, discoveryVars, routeVars, history
<1>2. Connecting' /\ WorkersConnected'
  BY <1>1 DEF AnswerInv, Connecting, WorkersConnected
<1>3. OwnAnswer'
  BY <1>1, OwnKept DEF AnswerInv
<1>4. PICK n \in 1..Len(queries[s]) :
        /\ queries' = [queries EXCEPT ![s] = SubSeq(@, n + 1, Len(@))]
        /\ replies' = [replies EXCEPT ![s] =
             @ \o IF n = 1 THEN Answer(s, queries[s][1]) ELSE NotFound]
  BY DEF Serve
<1>5. \A r \in Servers \mixed' : r # s => Alone(r)'
  <2>1. \A r \in Servers \ {s} :
          queries'[r] = queries[r] /\ replies'[r] = replies[r] /\ sockets'[r] = sockets[r]
    BY <1>1, <1>4, TypesAre DEF StreamsTyped
  <2> QED
    BY <1>1, <2>1, Others
<1>6. ASSUME s \notin mixed PROVE Alone(s)'
  <2>1. Alone(s) /\ sockets[s] = "open"
    BY <1>6 DEF AnswerInv, Streams, Serve
  <2>2. queries[s] # <<>>
    BY <1>4, EmptySeq
  <2>3. PICK c \in Readers(s) : \A d \in Readers(s) : d = c
    BY <2>1, <2>2 DEF Alone
  <2>4. /\ queries[s] = <<worker[c].fig>> /\ replies[s] = <<>>
        /\ worker[c].text = <<>>
    BY <2>1, <2>2 DEF Alone, Awaits, Gets
  <2>5. c \in Clients /\ worker[c].fig \in Figures
    BY DEF Readers, FiguresKnown, Working
  <2>6. n = 1 /\ queries[s][1] = worker[c].fig /\ Len(queries[s]) = 1
    BY <1>4, <2>4
  <2> DEFINE all == Answer(s, worker[c].fig)
  <2>7. all \in Seq(Units)
    BY <2>5, AnswerTyped
  <2> HIDE DEF all
  <2>8. queries'[s] = <<>>
    <3>1. queries'[s] = SubSeq(queries[s], 2, 1)
      BY <1>4, <2>6, TypesAre DEF StreamsTyped
    <3> QED
      BY <3>1, SubSeqEmpty
  <2>9. replies'[s] = all
    <3>1. replies'[s] = <<>> \o all
      BY <1>4, <2>4, <2>6, TypesAre DEF StreamsTyped, all
    <3> QED
      BY <2>7, <3>1, ConcatEmptySeq
  <2>10. Taken(<<>>, all, all)
    BY <2>7, NothingTaken
  <2>11. Gets(c, s)'
    BY <1>1, <2>4, <2>8, <2>9, <2>10 DEF Gets, all
  <2>12. Readers(s)' = {c}
    BY <1>1, <2>3 DEF Readers
  <2> QED
    BY <2>8, <2>11, <2>12 DEF Alone
<1> QED
  BY <1>1, <1>2, <1>3, <1>5, <1>6 DEF AnswerInv, Streams

LEMMA GoOffAnswers ==
  ASSUME TypeOK, Inv, AnswerInv, NEW s \in Servers, GoOff(s)
  PROVE  AnswerInv'
<1>1. UNCHANGED <<phase, adding, replies, worker, mixed>>
  BY DEF GoOff, discoveryVars
<1>2. sockets' \in [Servers -> SocketStates]
      /\ (\A r \in Servers \ {s} : sockets'[r] = sockets[r])
      /\ (sockets[s] # "open" => sockets'[s] = sockets[s])
      /\ (sockets[s] = "open" => sockets'[s] \in {"closed", "reset"})
  BY TypesAre DEF GoOff, RoutesTyped, SocketStates
<1>3. queries'[s] = <<>> /\ \A r \in Servers \ {s} : queries'[r] = queries[r]
  BY TypesAre DEF GoOff, StreamsTyped
<1>4. Connecting'
  <2>1. phase = "connect" => adding \in Servers
    BY DEF Inv, Locked
  <2> QED
    BY <1>1, <1>2, <2>1 DEF AnswerInv, Connecting
<1>5. WorkersConnected'
  <2>1. \A c \in Clients : worker[c].pc = "reading" => worker[c].to \in Servers
    BY DEF Inv, Working
  <2> QED
    BY <1>1, <1>2, <2>1 DEF AnswerInv, WorkersConnected
<1>6. OwnAnswer'
  BY <1>1, OwnKept DEF AnswerInv
<1>7. \A r \in Servers \mixed' : r # s => Alone(r)'
  BY <1>1, <1>2, <1>3, Others
<1>8. ASSUME s \notin mixed PROVE Alone(s)'
  <2>1. Alone(s)
    BY <1>8 DEF AnswerInv, Streams
  <2>2. Readers(s)' = Readers(s)
    BY <1>1 DEF Readers
  <2>3. ASSUME NEW c \in Readers(s), Awaits(c, s) PROVE Awaits(c, s)'
    <3>1. sockets'[s] # "open"
      BY <1>2
    <3> QED
      BY <1>1, <1>3, <2>3, <3>1 DEF Awaits
  <2>4. ASSUME NEW c \in Readers(s), Gets(c, s) PROVE Gets(c, s)'
    BY <1>1, <1>3, <2>4 DEF Gets
  <2> QED
    BY <1>1, <1>3, <2>1, <2>2, <2>3, <2>4 DEF Alone
<1> QED
  BY <1>1, <1>4, <1>5, <1>6, <1>7, <1>8 DEF AnswerInv, Streams

\* Asking and routing move a worker that reads from no connection.
LEMMA AskAnswers ==
  ASSUME TypeOK, AnswerInv, NEW c \in Clients, NEW f \in Figures, Ask(c, f)
  PROVE  AnswerInv'
<1>1. PICK pc \in {"asked", "unanswered"} : Becomes(c, Job(pc, f, NoServer, <<>>))
  BY DEF Ask
<1> DEFINE job == Job(pc, f, NoServer, <<>>)
<1>2. job.pc = pc /\ job \in Jobs
  BY EmptyText, JobTyped, JobFields
<1> HIDE DEF job
<1>3. worker'[c] = job /\ \A d \in Clients \ {c} : worker'[d] = worker[d]
  BY <1>1, <1>2, OneJob DEF job
<1>4. UNCHANGED <<phase, adding, sockets, queries, replies, mixed>> /\ worker[c].pc = "none"
  BY DEF Ask, discoveryVars, routeVars, streamVars, history
<1>5. \A d \in Clients : \/ worker'[d] = worker[d]
                         \/ \A s \in Servers \ {NoServer} : ~Reads(d, s) /\ ~Reads(d, s)'
  BY <1>2, <1>3, <1>4 DEF Reads
<1>6. Streams'
  <2>1. \A s \in Servers \ mixed' : s # NoServer => Alone(s)'
    BY <1>4, <1>5, Others
  <2> QED
    BY <2>1, ForkServersAssumption DEF Streams
<1>7. OwnAnswer'
  BY <1>2, <1>3, <1>4, OwnKept DEF AnswerInv
<1>8. Connecting' /\ WorkersConnected'
  BY <1>2, <1>3, <1>4 DEF AnswerInv, Connecting, WorkersConnected
<1> QED
  BY <1>6, <1>7, <1>8 DEF AnswerInv

LEMMA SentNotFound == Sent(NotFound) = NotFound
<1>1. Len(NotFound) = 1 /\ NotFound \in Texts /\ NotFound[1] # Junk
  BY NoAnswer DEF NotFound, Junk
<1>2. Cardinality(Data(NotFound)) = 1
  <2>1. \A i \in 1..Len(NotFound) : NotFound[i] # Junk
    BY <1>1
  <2> QED
    BY <1>1, <2>1, DataSize
<1>3. /\ Sent(NotFound) \in Texts /\ Len(Sent(NotFound)) = 1
      /\ Sent(NotFound)[1] = NotFound[1]
  BY <1>1, <1>2, SentText
<1> QED
  BY <1>1, <1>3, SeqEqual DEF Texts

LEMMA RouteAnswers ==
  ASSUME TypeOK, Inv, AnswerInv, NEW c \in Clients, Route(c)
  PROVE  AnswerInv'
<1> DEFINE f == worker[c].fig
           s == tabla[f]
           job == Job("routed", f, s, <<>>)
<1>1. f \in Figures /\ s \in Servers \cup {NoServer}
  BY DEF Route, Inv
<1>2. UNCHANGED <<phase, adding, sockets, queries, replies, mixed>> /\ worker[c].pc = "asked"
  BY DEF Route, discoveryVars, routeVars, streamVars, history
<1>3. /\ \A d \in Clients \ {c} : worker'[d] = worker[d]
      /\ worker'[c].pc \in {"routed", "done", "unanswered"}
      /\ worker'[c].pc = "routed" => worker'[c].text = <<>>
      /\ worker'[c].pc = "done" => worker'[c].to = NoServer /\ worker'[c].text = NotFound
  <2>1. CASE s = NoServer
    <3>1. Reply(c, NoServer, NotFound)
      BY <2>1 DEF Route
    <3> QED
      BY <3>1, NoAnswer, ReplyJob, SentNotFound
  <2>2. CASE s # NoServer
    <3>1. Becomes(c, job) /\ job \in Jobs /\ job.pc = "routed" /\ job.text = <<>>
      BY <1>1, <2>2, EmptyText, JobTyped, JobFields DEF Route
    <3> HIDE DEF job
    <3> QED
      BY <3>1, OneJob
  <2> QED
    BY <2>1, <2>2
<1>5. \A d \in Clients : \/ worker'[d] = worker[d]
                         \/ \A r \in Servers \ {NoServer} : ~Reads(d, r) /\ ~Reads(d, r)'
  BY <1>2, <1>3 DEF Reads
<1>6. Streams'
  <2>1. \A r \in Servers \ mixed' : r # NoServer => Alone(r)'
    BY <1>2, <1>5, Others
  <2> QED
    BY <2>1, ForkServersAssumption DEF Streams
<1>7. OwnAnswer'
  <2>1. worker'[c].pc = "done" => Own(c)'
    BY <1>3 DEF Own, NotFound
  <2> QED
    BY <1>2, <1>3, <2>1, OwnKept DEF AnswerInv
<1>8. Connecting' /\ WorkersConnected'
  BY <1>2, <1>3 DEF AnswerInv, Connecting, WorkersConnected
<1> QED
  BY <1>6, <1>7, <1>8 DEF AnswerInv

LEMMA ForwardAnswers ==
  ASSUME TypeOK, FiguresKnown, Inv, AnswerInv, NEW c \in Clients, Forward(c)
  PROVE  AnswerInv'
<1>0. PICK s \in Servers : s = worker[c].to
  BY DEF Forward, Inv, Working
<1>1. worker[c].fig \in Figures /\ worker[c].pc = "routed" /\ worker[c].text = <<>>
  BY DEF Forward, FiguresKnown, Working, AnswerInv, WorkersConnected
<1>2. CASE Gone /\ UNCHANGED mixed
  BY <1>2, GoneAnswers
<1>3. CASE ~(Gone /\ UNCHANGED mixed)
  <2>1. PICK pc \in {"reading", "unanswered"} : Moves(c, pc)
    BY <1>0, <1>3 DEF Forward, Write
  <2>2. UNCHANGED <<phase, adding, replies>>
    BY <1>0, <1>3 DEF Forward, Write, discoveryVars, streamVars
  <2>3. /\ worker'[c].pc = pc /\ worker'[c].to = s /\ worker'[c].text = <<>>
        /\ worker'[c].fig = worker[c].fig
        /\ \A d \in Clients \ {c} : worker'[d] = worker[d]
    BY <1>0, <1>1, <2>1, MovesJob, MovedJob
  <2>4. /\ mixed \subseteq mixed'
        /\ \A r \in Servers \ {s} : queries'[r] = queries[r] /\ sockets'[r] = sockets[r]
    BY <1>0, <1>1, <1>3, TypesAre
       DEF Forward, Write, routeVars, streamVars, StreamsTyped, RoutesTyped
  <2>5. sockets'[s] \in {"unset", "null"} <=> sockets[s] \in {"unset", "null"}
    BY <1>0, <1>1, <1>3, TypesAre DEF Forward, Write, routeVars, RoutesTyped
  <2>6. Connecting'
    <3>1. phase = "connect" => adding \in Servers
      BY DEF Inv, Locked
    <3> QED
      BY <2>2, <2>4, <2>5, <3>1 DEF AnswerInv, Connecting
  <2>7. pc = "reading" => sockets[s] \in {"open", "closed"}
    <3>1. \/ Moves(c, "unanswered") \/ sockets[s] \in {"open", "closed"}
      BY <1>0, <1>3 DEF Forward, Write
    <3>2. Moves(c, "unanswered") => worker'[c].pc = "unanswered"
      BY MovesJob, MovedJob
    <3> QED
      BY <2>3, <3>1, <3>2
  <2>8. WorkersConnected'
    <3>1. \A d \in Clients : worker[d].pc = "reading" => worker[d].to \in Servers
      BY DEF Inv, Working
    <3> QED
      BY <1>0, <1>1, <2>3, <2>4, <2>5, <2>7, <3>1 DEF AnswerInv, WorkersConnected
  <2>9. OwnAnswer'
    BY <2>3, <2>4, OwnKept DEF AnswerInv
  <2>10. \A r \in Servers \ mixed' : r # s => Alone(r)'
    <3>1. \A r \in Servers \ {s} :
            queries'[r] = queries[r] /\ replies'[r] = replies[r] /\ sockets'[r] = sockets[r]
      BY <2>2, <2>4
    <3>2. \A d \in Clients :
            \/ worker'[d] = worker[d]
            \/ \A r \in Servers \ {s} : ~Reads(d, r) /\ ~Reads(d, r)'
      BY <1>0, <1>1, <2>3 DEF Reads
    <3> QED
      BY <2>4, <3>1, <3>2, Others
  <2>11. ASSUME s \notin mixed' PROVE Alone(s)'
    <3>1. Alone(s)
      BY <1>0, <1>1, <2>4, <2>11 DEF AnswerInv, Streams
    <3>2. CASE sockets[s] \in {"open", "closed"}
      <4>1. Readers(s) = {}
        BY <1>0, <1>1, <1>3, <2>11, <3>2 DEF Forward, Write
      <4>2. queries[s] = <<>> /\ replies[s] = <<>>
        BY <3>1, <4>1 DEF Alone
      <4>3. Readers(s)' \subseteq {c}
        BY <2>3, <4>1 DEF Readers
      <4>4. CASE sockets[s] = "open"
        <5>1. queries' = [queries EXCEPT ![s] = Append(@, worker[c].fig)]
              /\ sockets' = sockets /\ pc = "reading"
          <6>1. Moves(c, "reading")
            BY <1>0, <1>3, <4>4 DEF Forward, Write
          <6>2. worker'[c].pc = "reading"
            BY <6>1, MovesJob, MovedJob
          <6> QED
            BY <1>0, <1>3, <2>3, <4>4, <6>2 DEF Forward, Write
        <5>2. queries'[s] = <<worker[c].fig>>
          BY <1>0, <1>1, <4>2, <5>1, TypesAre DEF StreamsTyped
        <5>3. Awaits(c, s)'
          BY <2>2, <2>3, <4>2, <5>2 DEF Awaits
        <5>4. Readers(s)' = {c}
          BY <2>3, <4>3, <5>1 DEF Readers
        <5> QED
          BY <4>4, <5>1, <5>3, <5>4 DEF Alone
      <4>5. CASE sockets[s] = "closed"
        <5>1. queries'[s] = <<>> /\ replies'[s] = <<>> /\ sockets'[s] # "open"
          BY <1>0, <1>1, <1>3, <2>2, <4>2, <4>5, TypesAre DEF Forward, Write, RoutesTyped
        <5>2. Awaits(c, s)'
          BY <2>3, <5>1 DEF Awaits
        <5> QED
          BY <4>3, <5>1, <5>2 DEF Alone
      <4> QED
        BY <3>2, <4>4, <4>5
    <3>3. CASE sockets[s] \notin {"open", "closed"}
      <4>1. pc = "unanswered" /\ UNCHANGED queries
        BY <1>0, <1>3, <2>7, <3>3 DEF Forward, Write, streamVars
      <4>2. Readers(s)' = Readers(s)
        BY <1>0, <1>1, <2>3, <4>1 DEF Readers
      <4>3. \A d \in Readers(s) : worker'[d] = worker[d]
        BY <1>0, <1>1, <2>3 DEF Readers
      <4>4. queries[s] = <<>>
        BY <3>1, <3>3 DEF Alone
      <4>5. sockets'[s] # "open"
        BY <1>0, <1>1, <1>3, <3>3, TypesAre DEF Forward, Write, routeVars, RoutesTyped
      <4>6. ASSUME NEW d \in Readers(s), Awaits(d, s) PROVE Awaits(d, s)'
        BY <2>2, <4>1, <4>3, <4>4, <4>5, <4>6 DEF Awaits
      <4>7. ASSUME NEW d \in Readers(s), Gets(d, s) PROVE Gets(d, s)'
        BY <2>2, <4>1, <4>3, <4>7 DEF Gets
      <4> QED
        BY <2>2, <3>1, <4>1, <4>2, <4>4, <4>6, <4>7 DEF Alone
    <3> QED
      BY <3>2, <3>3
  <2> QED
    BY <2>6, <2>8, <2>9, <2>10, <2>11 DEF AnswerInv, Streams
<1> QED
  BY <1>2, <1>3

\* A read takes what belongs to the worker, and the last one completes it.
LEMMA ReadAnswers ==
  ASSUME ~Segmented, TypeOK, FiguresKnown, Inv, AnswerInv, NEW c \in Clients, Read(c)
  PROVE  AnswerInv'
<1>0. PICK s \in Servers : s = worker[c].to
  BY DEF Read, Inv, Working
<1> DEFINE all == Answer(s, worker[c].fig)
           old == worker[c].text
<1>1. worker[c].fig \in Figures /\ worker[c].pc = "reading" /\ old \in Texts
      /\ replies[s] \in Seq(Units) /\ all \in Seq(Units)
      /\ c \in Readers(s)
  BY <1>0, JobParts, AnswerTyped, TypesAre
     DEF Read, FiguresKnown, Working, StreamsTyped, Readers
<1>2. UNCHANGED <<phase, adding, queries, mixed>>
  BY DEF Read, discoveryVars, history
<1>3. /\ \A r \in Servers \ {s} : replies'[r] = replies[r] /\ sockets'[r] = sockets[r]
      /\ UNCHANGED sockets \/ (sockets[s] = "reset" /\ sockets'[s] = "broken")
  BY <1>0, TypesAre, ReadCases DEF StreamsTyped, RoutesTyped
<1>4. Connecting'
  <2>1. phase = "connect" => adding \in Servers
    BY DEF Inv, Locked
  <2> QED
    BY <1>2, <1>3, <2>1 DEF AnswerInv, Connecting
<1> DEFINE SameJob == /\ \A d \in Clients \ {c} : worker'[d] = worker[d]
                     /\ worker'[c].pc \in {"reading", "done", "unanswered"}
                     /\ worker'[c].to = s
                     /\ worker'[c].fig = worker[c].fig
<1>5. ASSUME SameJob, worker'[c].pc = "done" => Own(c)',
             s \notin mixed => Alone(s)'
      PROVE  AnswerInv'
  <2>1. OwnAnswer'
    BY <1>2, <1>5, OwnKept DEF AnswerInv
  <2>2. WorkersConnected'
    <3>1. \A d \in Clients : worker[d].pc = "reading" => worker[d].to \in Servers
      BY DEF Inv, Working
    <3> QED
      BY <1>0, <1>1, <1>3, <1>5, <3>1 DEF AnswerInv, WorkersConnected
  <2>3. \A r \in Servers \ mixed' : r # s => Alone(r)'
    <3>1. \A r \in Servers \ {s} :
            queries'[r] = queries[r] /\ replies'[r] = replies[r] /\ sockets'[r] = sockets[r]
      BY <1>2, <1>3
    <3>2. \A d \in Clients :
            \/ worker'[d] = worker[d]
            \/ \A r \in Servers \ {s} : ~Reads(d, r) /\ ~Reads(d, r)'
      BY <1>0, <1>5 DEF Reads
    <3> QED
      BY <1>2, <3>1, <3>2, Others
  <2> QED
    BY <1>2, <1>4, <1>5, <2>1, <2>2, <2>3 DEF AnswerInv, Streams
<1>6. ASSUME s \notin mixed
      PROVE  /\ Alone(s) /\ Readers(s) = {c}
             /\ Len(replies[s]) # 0 \/ old # <<>> => Gets(c, s)
             /\ sockets[s] # "open" => queries[s] = <<>>
  <2>1. Alone(s)
    BY <1>6 DEF AnswerInv, Streams
  <2>2. Awaits(c, s) \/ Gets(c, s)
    BY <1>1, <2>1 DEF Alone
  <2>3. Awaits(c, s) => Len(replies[s]) = 0 /\ old = <<>>
    BY EmptySeq DEF Awaits
  <2> QED
    BY <1>1, <2>1, <2>2, <2>3 DEF Alone
<1>7. ASSUME SameJob, worker'[c].pc # "reading" PROVE s \notin mixed => Readers(s)' = {}
  BY <1>0, <1>6, <1>7 DEF Readers
\* A text that is complete, once it is sent.
<1>8. ASSUME NEW text \in Texts, NEW rest, Len(rest) = 0, SameJob,
             worker'[c].text = Sent(text), s \notin mixed => Taken(text, rest, all)
      PROVE  Own(c)'
  <2> SUFFICES ASSUME s \notin mixed, \A i \in DOMAIN Sent(text) : Sent(text)[i] # Junk
               PROVE  Sent(text) = all
    BY <1>0, <1>2, <1>8, ForkServersAssumption DEF Own, Answer, NotFound
  <2>1. \A i \in 1..Len(Sent(text)) : Sent(text)[i] # Junk
    BY SentText DEF Texts
  <2> QED
    BY <1>1, <1>8, <2>1, WholeAnswer
<1>9. ASSUME NEW n \in 1..Len(replies[s]), n = Least(BufSize, Len(replies[s])),
             replies' = [replies EXCEPT ![s] = SubSeq(@, n + 1, Len(@))],
             Takes(c, s, n), UNCHANGED sockets
      PROVE  AnswerInv'
  <2> DEFINE chunk == SubSeq(replies[s], 1, n)
             rest == SubSeq(replies[s], n + 1, Len(replies[s]))
             text == old \o chunk
  <2>1. n \in 0..Len(replies[s]) /\ Len(replies[s]) # 0 /\ Len(replies[s]) \in Nat
    BY <1>1
  <2>2. chunk \in Seq(Units) /\ rest \in Seq(Units) /\ replies'[s] = rest
        /\ (n = Len(replies[s]) => rest = <<>>)
    BY <1>1, <1>9, <2>1, RestTyped, TypesAre DEF StreamsTyped
  <2>3. ASSUME s \notin mixed, NEW behind \in {<<>>, <<Junk>>}
        PROVE  Taken(text \o behind, rest, all)
    <3>1. Taken(old, replies[s], all)
      BY <1>6, <2>1, <2>3 DEF Gets
    <3> QED
      BY <1>1, <3>1, TakeMore
  <2> HIDE DEF chunk, rest
  <2>4. text \in Texts
    <3>1. chunk \in Seq(Units \cup {Junk})
      BY <2>2, SeqMonotonic
    <3> QED
      BY <1>1, <3>1, ConcatProperties DEF Texts
  <2> HIDE DEF text, all
  <2>5. ASSUME n = BufSize, NEW behind \in {<<>>, <<Junk>>},
               Becomes(c, Job("reading", worker[c].fig, s, text \o behind))
        PROVE  AnswerInv'
    <3> DEFINE job == Job("reading", worker[c].fig, s, text \o behind)
    <3>1. behind \in Texts
      BY EmptyText, JunkText
    <3>2. text \o behind \in Texts
      BY <2>4, <3>1, ConcatProperties DEF Texts
    <3>3. job \in Jobs /\ job.text = text \o behind
      <4>1. /\ worker[c].fig \in Figures \cup {"none"}
            /\ s \in Servers \cup {NoServer}
        BY <1>1
      <4> HIDE DEF text
      <4> QED
        BY <3>2, <4>1, JobTyped
    <3>4. job.pc = "reading" /\ job.fig = worker[c].fig /\ job.to = s
      BY JobFields
    <3> HIDE DEF job
    <3>5. worker'[c] = job /\ \A d \in Clients \ {c} : worker'[d] = worker[d]
      BY <2>5, <3>3, OneJob DEF job
    <3>6. ASSUME s \notin mixed PROVE Alone(s)'
      <4>1. Taken(text \o behind, rest, all)
        BY <2>3, <3>6
      <4>2. queries[s] = <<>>
        BY <1>6, <2>1, <3>6 DEF Gets
      <4>3. Gets(c, s)'
        BY <1>2, <2>2, <3>3, <3>4, <3>5, <4>1, <4>2 DEF Gets, all
      <4>4. Readers(s)' = {c}
        BY <1>6, <3>4, <3>5, <3>6 DEF Readers
      <4> QED
        BY <1>2, <4>2, <4>3, <4>4 DEF Alone
    <3> QED
      BY <1>5, <3>4, <3>5, <3>6
  <2>6. ASSUME n # BufSize, Reply(c, s, text) PROVE AnswerInv'
    <3>1. /\ worker'[c].pc \in {"done", "unanswered"}
          /\ worker'[c].fig = worker[c].fig /\ worker'[c].to = s
          /\ worker'[c].text = Sent(text)
          /\ \A d \in Clients \ {c} : worker'[d] = worker[d]
      BY <2>4, <2>6, ReplyJob
    <3>2. rest = <<>>
      <4>1. n = Len(replies[s])
        BY <1>9, <2>6, SizesAssumption DEF Least
      <4> QED
        BY <2>2, <4>1
    <3>3. s \notin mixed => Taken(text, rest, all)
      <4>1. text \o <<>> = text
        BY <2>4, ConcatEmptySeq DEF Texts
      <4> QED
        BY <2>3, <4>1
    <3>4. Own(c)'
      BY <1>8, <2>4, <3>1, <3>2, <3>3, EmptySeq
    <3>5. ASSUME s \notin mixed PROVE Alone(s)'
      <4>1. queries'[s] = <<>>
        BY <1>2, <1>6, <2>1, <3>5 DEF Gets
      <4> QED
        BY <1>7, <2>2, <3>1, <3>2, <3>5, <4>1, AloneEmpty
    <3> QED
      BY <1>5, <3>1, <3>4, <3>5
  <2> QED
    BY <1>9, <2>5, <2>6 DEF Takes, text, chunk
<1>10. ASSUME Len(replies[s]) = 0, sockets[s] \in {"closed", "broken"},
              Reply(c, s, old), UNCHANGED <<replies, sockets>>
       PROVE  AnswerInv'
  <2>1. /\ worker'[c].pc \in {"done", "unanswered"}
        /\ worker'[c].pc = "done" => old # <<>>
        /\ worker'[c].fig = worker[c].fig /\ worker'[c].to = s
        /\ worker'[c].text = Sent(old)
        /\ \A d \in Clients \ {c} : worker'[d] = worker[d]
    BY <1>1, <1>10, ReplyJob
  <2>2. ASSUME worker'[c].pc = "done" PROVE Own(c)'
    <3>1. s \notin mixed => Taken(old, replies[s], all)
      BY <1>6, <2>1, <2>2 DEF Gets
    <3> QED
      BY <1>1, <1>8, <1>10, <2>1, <3>1
  <2>3. ASSUME s \notin mixed PROVE Alone(s)'
    <3>1. queries'[s] = <<>> /\ replies'[s] = <<>>
      BY <1>1, <1>2, <1>6, <1>10, <2>3, EmptySeq
    <3> QED
      BY <1>7, <2>1, <2>3, <3>1, AloneEmpty
  <2> QED
    BY <1>5, <2>1, <2>2, <2>3
<1>11. ASSUME Len(replies[s]) = 0, sockets[s] = "reset", Moves(c, "unanswered"),
              UNCHANGED replies
       PROVE  AnswerInv'
  <2>1. /\ worker'[c].pc = "unanswered"
        /\ worker'[c].fig = worker[c].fig /\ worker'[c].to = s
        /\ \A d \in Clients \ {c} : worker'[d] = worker[d]
    BY <1>0, <1>11, MovesJob, MovedJob
  <2>2. ASSUME s \notin mixed PROVE Alone(s)'
    <3>1. queries'[s] = <<>> /\ replies'[s] = <<>>
      BY <1>1, <1>2, <1>6, <1>11, <2>2, EmptySeq
    <3> QED
      BY <1>7, <2>1, <2>2, <3>1, AloneEmpty
  <2> QED
    BY <1>5, <2>1, <2>2
<1> HIDE DEF all
<1> QED
  BY <1>0, <1>9, <1>10, <1>11, ReadCases

LEMMA AnswerNext ==
  ASSUME ~Segmented, TypeOK, FiguresKnown, Inv, AnswerInv, [Next]_vars
  PROVE  AnswerInv'
<1>1. ASSUME NEW t \in threads, End(t), threads = {t} PROVE AnswerInv'
  BY <1>1, GoneAnswers DEF End, history
<1>2. ASSUME NEW c \in Clients, Handle(c) PROVE AnswerInv'
  BY <1>2, AskAnswers, RouteAnswers, ForwardAnswers, ReadAnswers DEF Handle
<1>3. ASSUME NEW s \in Servers, Serve(s) \/ GoOff(s) PROVE AnswerInv'
  BY <1>3, ServeAnswers, GoOffAnswers
<1> QED
  BY <1>1, <1>2, <1>3, DiscoveryAnswers DEF Next

\* If every response arrives in one segment, a client whose worker had the
\* connection to its server for itself is sent the whole answer to its request,
\* or nothing: whatever is lost, and however servers end and threads interleave.
THEOREM AloneGetsItsAnswer ==
  ASSUME ~Segmented
  PROVE  Spec => []OwnAnswer
<1>1. Init => AnswerInv
  BY AnswerInit
<1>2. /\ Inv /\ TypeOK /\ FiguresKnown /\ AnswerInv /\ [Next]_vars
      => AnswerInv'
  BY AnswerNext
<1>3. AnswerInv => OwnAnswer
  BY DEF AnswerInv
<1> QED
  BY <1>1, <1>2, <1>3, ForkTypes, PTL DEF Spec

=============================================================================
