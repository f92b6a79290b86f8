------------------------------ MODULE Tenedor ------------------------------
(***************************************************************************)
(* The tenedor of Tarea_corta_22 and the figure servers it forwards to.    *)
(* Clients speak HTTP to the tenedor; the tenedor learns from UDP          *)
(* datagrams on DISCOVERY_PORT which server holds which figure, keeps that *)
(* in figureMap, and forwards a request over a TCP connection of its own.  *)
(* One mutex protects figureMap, and is held while a request is forwarded. *)
(***************************************************************************)
EXTENDS Naturals, FiniteSets

CONSTANTS
  Servers,     \* figure servers, one per IP address
  Figures,     \* names of figures
  Holds,       \* Holds[s]: the figures on the disk of server s
  NameOf,      \* NameOf[s]: the serverName that server s was compiled with
  Clients,     \* HTTP connections that may be made to the tenedor
  NoServer,
  NoClient,
  Lossy,       \* whether the network may lose datagrams
  MaxBoots     \* bound of the model: how often servers are started in all

ASSUME ServersAssumption == /\ NoServer \notin Servers
                            /\ Holds \in [Servers -> SUBSET Figures]
                            /\ DOMAIN NameOf = Servers
ASSUME ClientsAssumption == NoClient \notin Clients
ASSUME BoundsAssumption == Lossy \in BOOLEAN /\ MaxBoots \in Nat

VARIABLES
  running,    \* the flag that SIGINT and SIGTERM clear
  threads,    \* threads of the tenedor that have not returned
  figureMap,  \* figure -> address of the server
  mtx,        \* the client thread that holds the mutex for a forward
  client,     \* client[c]: the thread that serves connection c
  server,     \* server[s]: "off", "announced" or "up" (listening on TCP)
  net,        \* UDP datagrams in flight
  boots       \* history: how often servers were started

tenedorVars == <<running, threads, figureMap, mtx, client>>
vars == <<running, threads, figureMap, mtx, client, server, net, boots>>

-----------------------------------------------------------------------------
(* Datagrams.  The port of a datagram to a server is the one the request   *)
(* came from, where the server sends its reply.                            *)
DiscoveryPort == "5354"
Ephemeral == "ephemeral"

Request(s) == [kind |-> "request", to |-> s, port |-> DiscoveryPort]
Response(s, p) == [kind |-> "response", from |-> s, port |-> p]
Farewell(s) == [kind |-> "shutdown", name |-> NameOf[s], port |-> DiscoveryPort]

Datagrams == {Request(s) : s \in Servers}
             \cup {Response(s, p) : s \in Servers, p \in {DiscoveryPort, Ephemeral}}
             \cup {Farewell(s) : s \in Servers}

\* The network delivers in any order; it may lose some of the new datagrams.
Send(old, new) ==
  \E lost \in SUBSET new : (lost = {} \/ Lossy) /\ net' = old \cup (new \ lost)

Receive(m) == m \in net /\ net' = net \ {m}

On == threads # {}

\* The thread of a connection: what it is doing, the figure it was asked for,
\* the server it forwards to, and the code it has answered.
Thread(pc, f, s, code) == [pc |-> pc, fig |-> f, to |-> s, answer |-> code]
Idle == Thread("none", "none", NoServer, 0)

-----------------------------------------------------------------------------
Init ==
  /\ running = FALSE
  /\ threads = {}
  /\ figureMap = [f \in Figures |-> NoServer]
  /\ mtx = NoClient
  /\ client = [c \in Clients |-> Idle]
  /\ server = [s \in Servers |-> "off"]
  /\ net = {}
  /\ boots = 0

(* The figure servers (Server.cc).                                         *)

\* main up to announceServer: it broadcasts before it listens.
Boot(s) ==
  /\ server[s] = "off"
  /\ boots < MaxBoots
  /\ boots' = boots + 1
  /\ server' = [server EXCEPT ![s] = "announced"]
  /\ Send(net, {Response(s, DiscoveryPort)})
  /\ UNCHANGED tenedorVars

\* Bind and MarkPassive on the TCP port.
Listen(s) ==
  /\ server[s] = "announced"
  /\ server' = [server EXCEPT ![s] = "up"]
  /\ UNCHANGED <<tenedorVars, net, boots>>

\* listenForDiscovery answers to where the request came from, and
\* sendDiscoveryRequest sent it from a socket that is not bound.
AnswerDiscovery(s) ==
  /\ server[s] # "off"
  /\ Request(s) \in net
  /\ Send(net \ {Request(s)}, {Response(s, Ephemeral)})
  /\ UNCHANGED <<tenedorVars, server, boots>>

\* The process ends, and with it its TCP connections.
GoesOff(s) ==
  /\ server[s] # "off"
  /\ server' = [server EXCEPT ![s] = "off"]
  /\ client' = [c \in Clients |->
                  IF client[c].pc = "connected" /\ client[c].to = s
                  THEN [client[c] EXCEPT !.pc = "reset"] ELSE client[c]]
  /\ UNCHANGED <<running, threads, figureMap, mtx, boots>>

\* handleSigint broadcasts the name of the server and exits.
Shutdown(s) == GoesOff(s) /\ Send(net, {Farewell(s)})

Kill(s) == GoesOff(s) /\ UNCHANGED net

-----------------------------------------------------------------------------
(* The tenedor: discovery.                                                 *)

\* main starts the listening and the HTTP thread, and then the periodic one.
Start ==
  /\ ~On
  /\ running' = TRUE
  /\ threads' = {"discovery", "http", "periodic"}
  /\ UNCHANGED <<figureMap, mtx, client, server, net, boots>>

\* sendDiscoveryRequest: at the start, and every ten seconds.
Discover ==
  /\ running
  /\ "periodic" \in threads
  /\ Send(net, {Request(s) : s \in Servers})
  /\ UNCHANGED <<tenedorVars, server, boots>>

\* Mutant of Register: the table keeps the name of the server.
RegisterName(s) ==
  /\ "discovery" \in threads
  /\ mtx = NoClient
  /\ Receive(Response(s, DiscoveryPort))
  /\ figureMap' = [f \in Figures |->
                     IF f \in Holds[s] THEN NameOf[s] ELSE figureMap[f]]
  /\ UNCHANGED <<running, threads, mtx, client, server, boots>>

\* listenDiscovery has read a Response.
Register(s) ==
  /\ "discovery" \in threads
  /\ mtx = NoClient
  /\ Receive(Response(s, DiscoveryPort))
  /\ figureMap' = [f \in Figures |-> IF f \in Holds[s] THEN s ELSE figureMap[f]]
  /\ UNCHANGED <<running, threads, mtx, client, server, boots>>

\* A name is found in an address only if it is that address: no address of
\* the islands contains another word.
FoundIn(address, name) == address = name

\* listenDiscovery has read a Shutdown: it looks for the name in the values of
\* figureMap, which are addresses.
Forget(s) ==
  /\ "discovery" \in threads
  /\ mtx = NoClient
  /\ Receive(Farewell(s))
  /\ figureMap' = [f \in Figures |-> IF FoundIn(figureMap[f], NameOf[s])
                                     THEN NoServer ELSE figureMap[f]]
  /\ UNCHANGED <<running, threads, mtx, client, server, boots>>

\* A datagram that no socket reads: the receiver is off, or the port is that
\* of the socket sendDiscoveryRequest has closed.
Discard(m) ==
  /\ Receive(m)
  /\ \/ m.kind = "request" /\ server[m.to] = "off"
     \/ m.kind # "request" /\ m.port = DiscoveryPort /\ "discovery" \notin threads
     \/ m.port = Ephemeral
  /\ UNCHANGED <<tenedorVars, server, boots>>

-----------------------------------------------------------------------------
(* The tenedor: requests.                                                  *)

Becomes(c, thread) == client' = [client EXCEPT ![c] = thread]
Done(c, code) == Becomes(c, Thread("done", "none", NoServer, code))

\* The process ends when its last thread has returned: connections that are
\* still open are closed without an answer.
Unanswered(thread) == IF thread.pc \in {"none", "done"} THEN thread
                      ELSE Thread("done", "none", NoServer, 0)

Remaining(ts, clients) ==
  /\ threads' = ts
  /\ IF ts = {}
     THEN /\ client' = [c \in Clients |-> Unanswered(clients[c])]
          /\ figureMap' = [f \in Figures |-> NoServer]
          /\ mtx' = NoClient
     ELSE client' = clients /\ UNCHANGED <<figureMap, mtx>>

\* httpServer accepts a connection; it looks at running only afterwards.
Accept(c) ==
  /\ "http" \in threads
  /\ client[c].pc = "none"
  /\ Remaining(IF running THEN threads ELSE threads \ {"http"},
               [client EXCEPT ![c] = Thread("open", "none", NoServer, 0)])
  /\ UNCHANGED <<running, server, net, boots>>

\* The client sends a request for f, one without figure, or nothing at all.
Ask(c, f) ==
  /\ On
  /\ client[c].pc = "open"
  /\ Becomes(c, Thread("asked", f, NoServer, 0))
  /\ UNCHANGED <<running, threads, figureMap, mtx, server, net, boots>>

AskNothing(c) ==
  /\ On
  /\ client[c].pc = "open"
  /\ \E code \in {0, 400} : Done(c, code)
  /\ UNCHANGED <<running, threads, figureMap, mtx, server, net, boots>>

\* Mutant of LookUp: the mutex is released before the request is forwarded.
LookUpOnly(c) ==
  /\ On
  /\ client[c].pc = "asked"
  /\ mtx = NoClient
  /\ LET s == figureMap[client[c].fig]
     IN  IF s = NoServer THEN Done(c, 404)
         ELSE Becomes(c, Thread("forwarding", client[c].fig, s, 0))
  /\ UNCHANGED <<running, threads, figureMap, mtx, server, net, boots>>

\* The mutex is taken; a figure that is not in figureMap is answered at once.
LookUp(c) ==
  /\ On
  /\ client[c].pc = "asked"
  /\ mtx = NoClient
  /\ LET s == figureMap[client[c].fig]
     IN  IF s = NoServer
         THEN Done(c, 404) /\ UNCHANGED mtx
         ELSE /\ Becomes(c, Thread("forwarding", client[c].fig, s, 0))
              /\ mtx' = c
  /\ UNCHANGED <<running, threads, figureMap, server, net, boots>>

\* Mutant of Connect: the return for a refused connection keeps the mutex.
ConnectKeepingMutex(c) ==
  /\ On
  /\ client[c].pc = "forwarding"
  /\ IF server[client[c].to] = "up"
     THEN Becomes(c, [client[c] EXCEPT !.pc = "connected"])
     ELSE Done(c, 502)
  /\ UNCHANGED <<running, threads, figureMap, mtx, server, net, boots>>

\* forwardToServer connects and sends the request.
Connect(c) ==
  /\ On
  /\ client[c].pc = "forwarding"
  /\ IF server[client[c].to] = "up"
     THEN Becomes(c, [client[c] EXCEPT !.pc = "connected"]) /\ UNCHANGED mtx
     ELSE Done(c, 502) /\ mtx' = NoClient
  /\ UNCHANGED <<running, threads, figureMap, server, net, boots>>

\* A thread of the server answers; forwardToServer returns what it says.
ServerAnswers(c) ==
  /\ On
  /\ client[c].pc = "connected"
  /\ Done(c, IF client[c].fig \in Holds[client[c].to] THEN 200 ELSE 404)
  /\ mtx' = NoClient
  /\ UNCHANGED <<running, threads, figureMap, server, net, boots>>

\* Mutant of GiveUp: the socket has no timeout.
GiveUpOnReset(c) ==
  /\ On
  /\ client[c].pc = "reset"
  /\ Done(c, 502)
  /\ mtx' = NoClient
  /\ UNCHANGED <<running, threads, figureMap, server, net, boots>>

\* recv fails: the connection was reset, or five seconds have passed.
GiveUp(c) ==
  /\ On
  /\ client[c].pc \in {"connected", "reset"}
  /\ Done(c, 502)
  /\ mtx' = NoClient
  /\ UNCHANGED <<running, threads, figureMap, server, net, boots>>

-----------------------------------------------------------------------------
(* The tenedor: its end.                                                   *)

\* signalHandler.
Signal ==
  /\ running
  /\ running' = FALSE
  /\ UNCHANGED <<threads, figureMap, mtx, client, server, net, boots>>

\* Mutant of Ends: the socket of listenDiscovery has no timeout.
EndsPeriodic(t) ==
  /\ ~running
  /\ t \in threads \cap {"periodic"}
  /\ Remaining(threads \ {t}, client)
  /\ UNCHANGED <<running, server, net, boots>>

\* listenDiscovery and the periodic thread see the flag within seconds.
Ends(t) ==
  /\ ~running
  /\ t \in threads \cap {"discovery", "periodic"}
  /\ Remaining(threads \ {t}, client)
  /\ UNCHANGED <<running, server, net, boots>>

-----------------------------------------------------------------------------
Serve(c) == LookUp(c) \/ Connect(c) \/ ServerAnswers(c) \/ GiveUp(c)

Hear(s) == Register(s) \/ Forget(s)

Next == \/ Start \/ Discover \/ Signal
        \/ \E t \in threads : Ends(t)
        \/ \E m \in net : Discard(m)
        \/ \E s \in Servers : \/ Boot(s) \/ Listen(s) \/ AnswerDiscovery(s)
                             \/ Shutdown(s) \/ Kill(s) \/ Hear(s)
        \/ \E c \in Clients : \/ Accept(c) \/ AskNothing(c) \/ Serve(c)
                             \/ \E f \in Figures : Ask(c, f)

Spec == Init /\ [][Next]_vars

\* Threads that can run do run, the timeouts of the sockets expire, and the
\* network delivers what it has not lost to the socket that reads it.  Nothing
\* obliges clients to come, servers to answer, or anyone to start or stop a
\* process.
FairSpec ==
  /\ Spec
  /\ WF_vars(Discover)
  /\ \A t \in {"discovery", "periodic"} : WF_vars(Ends(t))
  /\ \A s \in Servers : /\ WF_vars(Listen(s))
                        /\ WF_vars(AnswerDiscovery(s))
                        /\ WF_vars(Hear(s))
  /\ \A c \in Clients : /\ WF_vars(LookUp(c))
                        /\ WF_vars(Connect(c))
                        /\ WF_vars(GiveUp(c))

Threads == {"discovery", "http", "periodic"}
ClientThreads ==
  [pc : {"none", "open", "asked", "forwarding", "connected", "reset", "done"},
   fig : Figures \cup {"none"}, to : Servers \cup {NoServer},
   answer : {0, 200, 400, 404, 502}]

TypeOK ==
  /\ running \in BOOLEAN
  /\ threads \in SUBSET Threads
  /\ figureMap \in [Figures -> Servers \cup {NoServer}]
  /\ mtx \in Clients \cup {NoClient}
  /\ client \in [Clients -> ClientThreads]
  /\ server \in [Servers -> {"off", "announced", "up"}]
  /\ net \in SUBSET Datagrams
  /\ boots \in 0..MaxBoots

-----------------------------------------------------------------------------
(* Properties.                                                             *)

\* A client whose request is being forwarded holds the mutex, and the table
\* still names the server the request went to: no announcement or farewell
\* changes the table between the lookup and the answer.
ForwardsToListed ==
  \A c \in Clients : client[c].pc \in {"forwarding", "connected", "reset"} =>
    mtx = c /\ figureMap[client[c].fig] = client[c].to

\* Every request gets an answer, or sees its connection closed, although one
\* request at a time is forwarded and a server may never answer.
Answered ==
  \A c \in Clients : client[c].pc = "asked" ~> client[c].pc = "done"

\* An announcement that reaches a running tenedor is read and ends up in its
\* table, also when it comes while requests are being forwarded, perhaps to the
\* same server, which ended and started again.
AnnouncementsHeard ==
  \A s \in Servers :
    Response(s, DiscoveryPort) \in net /\ running ~>
      \/ ~running
      \/ /\ Response(s, DiscoveryPort) \notin net
         /\ \A f \in Holds[s] : figureMap[f] = s

\* After a signal and one more connection the tenedor ends.
EndsAfterConnection == ~running /\ "http" \notin threads ~> running \/ ~On

-----------------------------------------------------------------------------
(* What the documents say.                                                 *)

\* The protocol of the group: a tenedor that receives the farewell of a server
\* removes from its table everything about that server.
FarewellForgets ==
  [][\A s \in Servers : Forget(s) => \A f \in Figures : figureMap'[f] # s]_vars

\* The protocol of the group: a tenedor that asks for servers learns from
\* their responses; a server that stays up is found by a tenedor that runs.
ServersDiscovered ==
  \A s \in Servers :
    running /\ server[s] = "up" ~>
      ~running \/ server[s] # "up" \/ \A f \in Holds[s] : figureMap[f] # NoServer

=============================================================================
