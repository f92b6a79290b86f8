----------------------------- MODULE ForkServer -----------------------------
(***************************************************************************)
(* The fork server of Trabajo_clase_24 with the figure servers it asks and *)
(* the clients it answers.  One thread discovers servers by broadcast and  *)
(* keeps tabla (figure -> server) and sockets (server -> TCP connection);  *)
(* one receives the requests of clients and starts a worker for each.  All *)
(* workers for a server write to, and read from, the same connection.      *)
(***************************************************************************)
EXTENDS Integers, Sequences, FiniteSets

CONSTANTS
  Servers,       \* figure servers, one per IP address
  Figures,       \* names of figures
  Holds,         \* Holds[s]: the figures on the disk of server s
  Length,        \* Length[f]: the units of data in the response for f
  BufSize,       \* the units of data that a buffer of BUFSIZE bytes holds
  MaxResponses,  \* NUM_HILOS: datagrams that a round of discovery reads
  Clients,       \* runs of client_udp, each with one request
  NoServer,
  Lossy,         \* whether the network may lose datagrams
  Segmented,     \* whether a response may arrive in several segments
  Padding,       \* whether the memory behind a buffer may hold data
  MaxBoots       \* bound of the model: how often servers are started in all

ASSUME ForkServersAssumption == /\ NoServer \notin Servers
                                /\ Holds \in [Servers -> SUBSET Figures]
ASSUME SizesAssumption == /\ Length \in [Figures -> Nat \ {0}]
                          /\ BufSize \in Nat \ {0, 1}
                          /\ MaxResponses \in Nat \ {0}
ASSUME ForkBoundsAssumption == /\ Lossy \in BOOLEAN /\ Segmented \in BOOLEAN
                               /\ Padding \in BOOLEAN
                               /\ MaxBoots \in Nat

VARIABLES
  running,    \* runningF, which SIGINT clears
  threads,    \* threads of the fork server that have not returned
  phase,      \* where udp_discovery is
  received,   \* responses_received
  adding,     \* the server addRoute connects to, with tabla_mutex held
  tabla,      \* figure -> server
  sockets,    \* sockets[s]: the entry for s and the state of its connection
  queries,    \* queries[s]: requests that the server has not read
  replies,    \* replies[s]: data that no worker has read
  worker,     \* worker[c]: the request of client c
  server,     \* server[s]: the ports that server s has bound
  net,        \* datagrams of the discovery in flight
  boots,      \* history: how often servers were started
  mixed,      \* history: servers whose connection two workers used at once
  stopped     \* history: a server has ended since the fork server started

discoveryVars == <<phase, received, adding>>
routeVars == <<tabla, sockets>>
streamVars == <<queries, replies>>
history == <<boots, mixed, stopped>>
vars == <<running, threads, discoveryVars, routeVars, streamVars, worker, server,
          net, history>>

-----------------------------------------------------------------------------
Request(s) == [kind |-> "request", host |-> s]
Response(s) == [kind |-> "response", host |-> s]
Echo == [kind |-> "echo", host |-> NoServer]   \* its own broadcast

\* The figures a datagram names.
Named(m) == IF m.kind = "response" THEN Holds[m.host] ELSE {}

Datagrams == {Request(s) : s \in Servers} \cup {Response(s) : s \in Servers}
             \cup {Echo}

\* The network may lose some of the new datagrams.
Send(old, new) ==
  \E lost \in SUBSET new : (lost = {} \/ Lossy) /\ net' = old \cup (new \ lost)

\* A response is a sequence of units; that of 404 is shorter than a buffer.
NotFound == <<"404">>
Answer(s, f) == IF f \in Holds[s] THEN [i \in 1..Length[f] |-> f] ELSE NotFound

On == threads # {}

\* Text is appended up to its first zero.  After a full buffer that zero is in
\* the memory behind it, which nobody has written; what is sent has the length
\* of the data that was read.
Junk == "junk"
Data(text) == {i \in DOMAIN text : text[i] # Junk}
Sent(text) == SubSeq(text, 1, Cardinality(Data(text)))

ASSUME JunkAssumption == Junk \notin Figures

\* What client c asked for, the server it was routed to and the text so far.
Job(pc, f, s, text) == [pc |-> pc, fig |-> f, to |-> s, text |-> text]
NoJob == Job("none", "none", NoServer, <<>>)

Becomes(c, job) == worker' = [worker EXCEPT ![c] = job]
Moved(c, pc) == Job(pc, worker[c].fig, worker[c].to, worker[c].text)
Moves(c, pc) == Becomes(c, Moved(c, pc))

\* One datagram to the client.  client_udp ignores an empty one.
Reply(c, s, text) ==
  \E pc \in {"done", "unanswered"} :
    /\ pc = "unanswered" => text = <<>> \/ Lossy
    /\ pc = "done" => text # <<>>
    /\ Becomes(c, Job(pc, worker[c].fig, s, Sent(text)))

-----------------------------------------------------------------------------
Init ==
  /\ running = FALSE
  /\ threads = {}
  /\ phase = "off" /\ received = 0 /\ adding = NoServer
  /\ tabla = [f \in Figures |-> NoServer]
  /\ sockets = [s \in Servers |-> "unset"]
  /\ queries = [s \in Servers |-> <<>>]
  /\ replies = [s \in Servers |-> <<>>]
  /\ worker = [c \in Clients |-> NoJob]
  /\ server = [s \in Servers |-> {}]
  /\ net = {}
  /\ boots = 0 /\ mixed = {} /\ stopped = FALSE

(* The figure servers (Figure_server.cc).                                  *)

\* udp_broadcast and tcp_handler bind their ports in either order.
Ports == {"udp", "tcp"}

Boot(s) ==
  /\ server[s] = {}
  /\ boots < MaxBoots
  /\ boots' = boots + 1
  /\ \E p \in Ports : server' = [server EXCEPT ![s] = {p}]
  /\ UNCHANGED <<running, threads, discoveryVars, routeVars, streamVars, worker,
                 net, mixed, stopped>>

BindOther(s) ==
  /\ server[s] # {} /\ server[s] # Ports
  /\ server' = [server EXCEPT ![s] = Ports]
  /\ UNCHANGED <<running, threads, discoveryVars, routeVars, streamVars, worker,
                 net, history>>

AnswerDiscovery(s) ==
  /\ "udp" \in server[s]
  /\ Request(s) \in net
  /\ Send(net \ {Request(s)}, {Response(s)})
  /\ UNCHANGED <<running, threads, discoveryVars, routeVars, streamVars, worker,
                 server, history>>

\* tcp_asist: Read takes every request that has arrived.  Two in one buffer
\* make one request for a figure that no server has.
Serve(s) ==
  /\ sockets[s] = "open"
  /\ \E n \in 1..Len(queries[s]) :
       /\ queries' = [queries EXCEPT ![s] = SubSeq(@, n + 1, Len(@))]
       /\ replies' = [replies EXCEPT ![s] =
            @ \o IF n = 1 THEN Answer(s, queries[s][1]) ELSE NotFound]
  /\ UNCHANGED <<running, threads, discoveryVars, routeVars, worker, server, net,
                 history>>

\* The process ends.  Its side of the connection is closed, with a reset if
\* requests were not read.
GoOff(s) ==
  /\ server[s] # {}
  /\ server' = [server EXCEPT ![s] = {}]
  /\ stopped' = On
  /\ queries' = [queries EXCEPT ![s] = <<>>]
  /\ IF sockets[s] = "open"
     THEN \E end \in {"closed", "reset"} :
            /\ end = "reset" => queries[s] # <<>>
            /\ sockets' = [sockets EXCEPT ![s] = end]
     ELSE UNCHANGED sockets
  /\ UNCHANGED <<running, threads, discoveryVars, tabla, replies, worker, net,
                 boots, mixed>>

-----------------------------------------------------------------------------
(* The fork server: its start and its end.                                 *)

Start ==
  /\ ~On
  /\ running' = TRUE
  /\ threads' = {"discovery", "receptor"}
  /\ phase' = "ask"
  /\ stopped' = FALSE
  /\ UNCHANGED <<received, adding, routeVars, streamVars, worker, server, net,
                 boots, mixed>>

\* The process ends, and its workers, connections and tables with it.  A
\* server with two requests to answer is killed by SIGPIPE at the second.
Gone ==
  /\ threads' = {}
  /\ phase' = "off" /\ received' = 0 /\ adding' = NoServer
  /\ tabla' = [f \in Figures |-> NoServer]
  /\ sockets' = [s \in Servers |-> "unset"]
  /\ queries' = [s \in Servers |-> <<>>]
  /\ replies' = [s \in Servers |-> <<>>]
  /\ worker' = [c \in Clients |->
                  IF worker[c].pc \in {"asked", "routed", "reading"}
                  THEN Moved(c, "unanswered") ELSE worker[c]]
  /\ \E broken \in SUBSET {s \in Servers : Len(queries[s]) > 1} :
       server' = [s \in Servers |-> IF s \in broken THEN {} ELSE server[s]]

Signal ==
  /\ running
  /\ running' = FALSE
  /\ UNCHANGED <<threads, discoveryVars, routeVars, streamVars, worker, server,
                 net, history>>

\* The loops of both threads look at runningF every second.
End(t) ==
  /\ ~running
  /\ t \in threads
  /\ t = "discovery" => phase # "connect"
  /\ IF threads = {t} THEN Gone
     ELSE /\ threads' = threads \ {t}
          /\ phase' = IF t = "discovery" THEN "off" ELSE phase
          /\ UNCHANGED <<received, adding, routeVars, streamVars, worker, server>>
  /\ UNCHANGED <<running, net, history>>

-----------------------------------------------------------------------------
(* The fork server: udp_discovery.                                         *)

Broadcast ==
  /\ running
  /\ phase = "ask"
  /\ Send(net, {Request(s) : s \in Servers} \cup {Echo})
  /\ phase' = "collect"
  /\ received' = 0
  /\ UNCHANGED <<running, threads, adding, routeVars, streamVars, worker, server,
                 history>>

\* Mutant of Receive: the count is compared after the datagram is read.
ReceiveOneMore(m) ==
  /\ phase = "collect"
  /\ received <= MaxResponses
  /\ m \in net
  /\ net' = net \ {m}
  /\ received' = received + 1

\* A datagram is read, and counted whatever it says.
Receive(m) ==
  /\ phase = "collect"
  /\ received < MaxResponses
  /\ m \in net
  /\ net' = net \ {m}
  /\ received' = received + 1

\* addRoute refuses what does not have three fields, and a list of figures
\* that is empty is not a field.
Ignore(m) ==
  /\ m.kind # "request"
  /\ Receive(m)
  /\ Named(m) = {}
  /\ UNCHANGED <<running, threads, phase, adding, routeVars, streamVars, worker,
                 server, history>>

\* Mutant of Collect: a server whose connection failed once is not retried.
CollectOnce(s) ==
  /\ Receive(Response(s))
  /\ Named(Response(s)) # {}
  /\ tabla' = [f \in Figures |-> IF f \in Holds[s] THEN s ELSE tabla[f]]
  /\ IF sockets[s] = "unset"
     THEN phase' = "connect" /\ adding' = s
     ELSE UNCHANGED <<phase, adding>>
  /\ UNCHANGED <<running, threads, sockets, streamVars, worker, server, history>>

\* addRoute up to MakeConnection.  An entry that is not null is kept, whatever
\* has become of its connection.
Collect(s) ==
  /\ Receive(Response(s))
  /\ Named(Response(s)) # {}
  /\ tabla' = [f \in Figures |-> IF f \in Holds[s] THEN s ELSE tabla[f]]
  /\ IF sockets[s] \in {"unset", "null"}
     THEN phase' = "connect" /\ adding' = s
     ELSE UNCHANGED <<phase, adding>>
  /\ UNCHANGED <<running, threads, sockets, streamVars, worker, server, history>>

\* addRoute from MakeConnection: the mutex is released.
Connect ==
  /\ phase = "connect"
  /\ sockets' = [sockets EXCEPT ![adding] =
                   IF "tcp" \in server[adding] THEN "open" ELSE "null"]
  /\ phase' = "collect" /\ adding' = NoServer
  /\ UNCHANGED <<running, threads, received, tabla, streamVars, worker, server,
                 net, history>>

\* Enough datagrams, or TIMEOUT_RESPONSE.
EndRound ==
  /\ phase = "collect"
  /\ phase' = "sleep"
  /\ UNCHANGED <<running, threads, received, adding, routeVars, streamVars, worker,
                 server, net, history>>

\* BROADCAST_WAIT is over.
Wake ==
  /\ running
  /\ phase = "sleep"
  /\ phase' = "ask"
  /\ UNCHANGED <<running, threads, received, adding, routeVars, streamVars, worker,
                 server, net, history>>

\* A datagram that nobody will read.
Discard(m) ==
  /\ m \in net
  /\ IF m.kind = "request" THEN "udp" \notin server[m.host]
     ELSE "discovery" \notin threads
  /\ net' = net \ {m}
  /\ UNCHANGED <<running, threads, discoveryVars, routeVars, streamVars, worker,
                 server, history>>

-----------------------------------------------------------------------------
(* The fork server: requests of clients.                                   *)

\* client_udp sends its request, and waits.
Ask(c, f) ==
  /\ worker[c].pc = "none"
  /\ \E pc \in {"asked", "unanswered"} :
       /\ pc = "asked" => "receptor" \in threads
       /\ pc = "unanswered" => "receptor" \notin threads \/ Lossy
       /\ Becomes(c, Job(pc, f, NoServer, <<>>))
  /\ UNCHANGED <<running, threads, discoveryVars, routeVars, streamVars, server,
                 net, history>>

\* Mutant of Route: searchRoute does not take tabla_mutex.
RouteUnlocked(c) ==
  /\ "receptor" \in threads
  /\ worker[c].pc = "asked"
  /\ LET s == tabla[worker[c].fig]
     IN  IF s = NoServer THEN Reply(c, NoServer, NotFound)
         ELSE Becomes(c, Job("routed", worker[c].fig, s, <<>>))
  /\ UNCHANGED <<running, threads, discoveryVars, routeVars, streamVars, server,
                 net, history>>

\* udp_client_receptor: searchRoute, then an answer or a worker.
Route(c) ==
  /\ "receptor" \in threads
  /\ worker[c].pc = "asked"
  /\ adding = NoServer
  /\ LET s == tabla[worker[c].fig]
     IN  IF s = NoServer THEN Reply(c, NoServer, NotFound)
         ELSE Becomes(c, Job("routed", worker[c].fig, s, <<>>))
  /\ UNCHANGED <<running, threads, discoveryVars, routeVars, streamVars, server,
                 net, history>>

\* Workers that wait for data on the connection to s.
Readers(s) == {c \in Clients : worker[c].pc = "reading" /\ worker[c].to = s}

\* A write to a connection that the server has closed succeeds once: it is
\* answered with a reset, after which a write raises SIGPIPE.
Write(c, s) ==
  \/ /\ sockets[s] \in {"open", "closed"}
     /\ Moves(c, "reading")
     /\ IF sockets[s] = "open"
        THEN queries' = [queries EXCEPT ![s] = Append(@, worker[c].fig)]
             /\ UNCHANGED sockets
        ELSE /\ \E end \in {"closed", "broken"} :
                  sockets' = [sockets EXCEPT ![s] = end]
             /\ UNCHANGED queries
     /\ mixed' = IF Readers(s) = {} THEN mixed ELSE mixed \cup {s}
     /\ UNCHANGED <<threads, discoveryVars, tabla, replies, server>>
  \/ /\ sockets[s] = "reset"
     /\ Moves(c, "unanswered")
     /\ sockets' = [sockets EXCEPT ![s] = "broken"]
     /\ UNCHANGED <<threads, discoveryVars, tabla, streamVars, server, mixed>>
  \/ sockets[s] = "broken" /\ Gone /\ UNCHANGED mixed

\* Mutant of Forward: a null entry is used like any other.
ForwardUnchecked(c) ==
  /\ worker[c].pc = "routed"
  /\ LET s == worker[c].to
     IN  IF sockets[s] \in {"unset", "null"} THEN Gone /\ UNCHANGED mixed
         ELSE Write(c, s)
  /\ UNCHANGED <<running, net, boots, stopped>>

\* tcp_servers looks for the connection, without tabla_mutex, and writes the
\* request.  Without a connection the client gets no answer.
Forward(c) ==
  /\ worker[c].pc = "routed"
  /\ LET s == worker[c].to
     IN  IF sockets[s] \in {"unset", "null"}
         THEN /\ Moves(c, "unanswered")
              /\ UNCHANGED <<threads, discoveryVars, routeVars, streamVars, server,
                             mixed>>
         ELSE Write(c, s)
  /\ UNCHANGED <<running, net, boots, stopped>>

Least(m, n) == IF m < n THEN m ELSE n

\* Mutant of More: the worker reads once.
MoreNever(n) == FALSE

\* Mutant of More: the worker reads until the connection is closed.
MoreUntilClosed(n) == n > 0

\* The loop of tcp_servers goes on after a full buffer.
More(n) == n = BufSize

\* Read returns what has arrived, up to BUFSIZE; 0 at the end of the
\* connection; and it throws after a reset.
Read(c) ==
  /\ worker[c].pc = "reading"
  /\ LET s == worker[c].to
         most == Least(BufSize, Len(replies[s]))
     IN  \/ \E n \in 1..most :
              /\ n = most \/ Segmented
              /\ replies' = [replies EXCEPT ![s] = SubSeq(@, n + 1, Len(@))]
              /\ LET text == worker[c].text \o SubSeq(replies[s], 1, n)
                 IN  IF More(n)
                     THEN \E behind \in {<<>>, <<Junk>>} :
                            /\ behind = <<>> \/ Padding
                            /\ Becomes(c, Job("reading", worker[c].fig, s, text \o behind))
                     ELSE Reply(c, s, text)
              /\ UNCHANGED sockets
         \/ /\ most = 0
            /\ sockets[s] \in {"closed", "broken"}
            /\ Reply(c, s, worker[c].text)
            /\ UNCHANGED <<replies, sockets>>
         \/ /\ most = 0
            /\ sockets[s] = "reset"
            /\ Moves(c, "unanswered")
            /\ sockets' = [sockets EXCEPT ![s] = "broken"]
            /\ UNCHANGED replies
  /\ UNCHANGED <<running, threads, discoveryVars, tabla, queries, server, net,
                 history>>

-----------------------------------------------------------------------------
Discovery == Broadcast \/ Connect \/ EndRound \/ Wake
             \/ (\E m \in net : Ignore(m)) \/ \E s \in Servers : Collect(s)

Handle(c) == (\E f \in Figures : Ask(c, f)) \/ Route(c) \/ Forward(c) \/ Read(c)

Next == \/ Start \/ Signal \/ Discovery
        \/ \E t \in threads : End(t)
        \/ \E m \in net : Discard(m)
        \/ \E s \in Servers : \/ Boot(s) \/ BindOther(s) \/ AnswerDiscovery(s)
                             \/ Serve(s) \/ GoOff(s)
        \/ \E c \in Clients : Handle(c)

Spec == Init /\ [][Next]_vars

\* Threads that can run do run, and the network delivers what it has not lost.
\* A response that is queued is read in one of the next rounds: the queue of
\* the socket is first in, first out, and a round reads the first of it.
FairSpec ==
  /\ Spec
  /\ WF_vars(Broadcast) /\ WF_vars(Connect) /\ WF_vars(EndRound) /\ WF_vars(Wake)
  /\ \A m \in Datagrams : WF_vars(Discard(m))
  /\ \A s \in Servers : /\ WF_vars(BindOther(s))
                        /\ WF_vars(AnswerDiscovery(s))
                        /\ WF_vars(Serve(s))
                        /\ SF_vars(Collect(s))
  /\ \A c \in Clients : /\ WF_vars(Forward(c))
                        /\ WF_vars(Read(c))

Jobs == [pc : {"none", "asked", "routed", "reading", "done", "unanswered"},
         fig : Figures \cup {"none"}, to : Servers \cup {NoServer},
         text : Seq(Figures \cup {"404", Junk})]

TypeOK ==
  /\ running \in BOOLEAN
  /\ threads \in SUBSET {"discovery", "receptor"}
  /\ phase \in {"off", "ask", "collect", "connect", "sleep"}
  /\ received \in 0..MaxResponses
  /\ adding \in Servers \cup {NoServer}
  /\ tabla \in [Figures -> Servers \cup {NoServer}]
  /\ sockets \in [Servers -> {"unset", "null", "open", "closed", "reset", "broken"}]
  /\ queries \in [Servers -> Seq(Figures)]
  /\ replies \in [Servers -> Seq(Figures \cup {"404"})]
  /\ worker \in [Clients -> Jobs]
  /\ server \in [Servers -> SUBSET Ports]
  /\ net \in SUBSET Datagrams
  /\ boots \in 0..MaxBoots
  /\ mixed \in SUBSET Servers
  /\ stopped \in BOOLEAN

-----------------------------------------------------------------------------
(* Properties.                                                             *)

\* A worker reads sockets without the mutex; still it never misses the entry
\* of its server, which addRoute makes after the route: the mutex it holds
\* while it connects keeps the route from being used before.
RoutedHasEntry ==
  \A c \in Clients :
    worker[c].pc \in {"routed", "reading"} => sockets[worker[c].to] # "unset"

\* As long as no two workers use the connection to a server at once, the
\* datagram for a client is the answer of that server to its own request, and
\* complete, unless memory behind the buffer got into it.
OwnAnswer ==
  \A c \in Clients :
    LET s == worker[c].to
        clean == \A i \in DOMAIN worker[c].text : worker[c].text[i] # Junk
    IN  worker[c].pc = "done" /\ s \notin mixed /\ clean =>
          worker[c].text = IF s = NoServer THEN NotFound ELSE Answer(s, worker[c].fig)

\* "Recuperamos el SafeSocket": workers may share the connection to a server,
\* and no client gets a piece of a figure that it did not ask for.
NeverCrossed ==
  \A c \in Clients : worker[c].pc = "done" =>
    \A i \in DOMAIN worker[c].text : worker[c].text[i] \in {worker[c].fig, "404", Junk}

\* Without a signal the fork server ends only after a figure server did.
StaysUp == [][On /\ running /\ threads' = {} => stopped]_vars

\* "Espere hasta el siguiente broadcast": a server that could not be reached
\* over TCP when it responded is reached in a later round, if it stays.
NextBroadcastConnects ==
  \A s \in Servers :
    sockets[s] = "null" /\ server[s] = Ports /\ running ~>
      sockets[s] # "null" \/ server[s] # Ports \/ ~running

\* A worker that has the connection for itself ends, even if the server does
\* not stay, unless the response is a multiple of BUFSIZE.
Finishes ==
  \A c \in Clients :
    /\ worker[c].pc = "reading"
    /\ Len(Answer(worker[c].to, worker[c].fig)) % BufSize # 0
    ~> worker[c].pc # "reading" \/ worker[c].to \in mixed

=============================================================================
