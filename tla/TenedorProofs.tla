--------------------------- MODULE TenedorProofs ---------------------------
(***************************************************************************)
(* Proof that the mutex of the tenedor keeps figureMap still while a       *)
(* request is forwarded, for any servers, figures and clients.             *)
(***************************************************************************)
EXTENDS Tenedor, TLAPS

Pcs == {"none", "open", "asked", "forwarding", "connected", "reset", "done"}
Codes == {0, 200, 400, 404, 502}

Forwarding == {"forwarding", "connected", "reset"}

\* A request that was read names a figure.
FigureAsked ==
  \A c \in Clients :
    client[c].pc \in {"asked"} \cup Forwarding => client[c].fig \in Figures

\* The inductive invariant: besides the property itself, the shapes of the
\* table and of the threads of the clients.
Inv == /\ figureMap \in [Figures -> Servers \cup {NoServer}]
       /\ client \in [Clients -> ClientThreads]
       /\ FigureAsked
       /\ ForwardsToListed

-----------------------------------------------------------------------------
(* Threads of clients.                                                     *)

LEMMA ThreadTyped ==
  ASSUME NEW p \in Pcs, NEW f \in Figures \cup {"none"},
         NEW s \in Servers \cup {NoServer}, NEW code \in Codes
  PROVE  /\ Thread(p, f, s, code) \in ClientThreads
         /\ Thread(p, f, s, code).pc = p
         /\ Thread(p, f, s, code).fig = f
         /\ Thread(p, f, s, code).to = s
  BY DEF Thread, ClientThreads, Pcs, Codes

LEMMA ThreadMoved ==
  ASSUME NEW t \in ClientThreads, NEW p \in Pcs
  PROVE  /\ [t EXCEPT !.pc = p] \in ClientThreads
         /\ [t EXCEPT !.pc = p].pc = p
         /\ [t EXCEPT !.pc = p].fig = t.fig
         /\ [t EXCEPT !.pc = p].to = t.to
  BY DEF ClientThreads, Pcs

LEMMA ThreadFields ==
  ASSUME NEW t \in ClientThreads
  PROVE  t.fig \in Figures \cup {"none"} /\ t.to \in Servers \cup {NoServer}
  BY DEF ClientThreads

LEMMA UnansweredTyped ==
  ASSUME NEW t \in ClientThreads
  PROVE  Unanswered(t) \in ClientThreads /\ Unanswered(t).pc \in {"none", "done"}
  BY ThreadTyped DEF Unanswered, Pcs, Codes

-----------------------------------------------------------------------------
LEMMA InitInv == Init => Inv
<1> SUFFICES ASSUME Init PROVE Inv
  OBVIOUS
<1>1. Idle \in ClientThreads /\ Idle.pc = "none"
  BY ThreadTyped DEF Idle, Pcs, Codes
<1>2. \A c \in Clients : client[c].pc = "none"
  BY <1>1 DEF Init
<1> QED
  BY <1>1, <1>2 DEF Init, Inv, FigureAsked, ForwardsToListed, Forwarding

\* Steps of the servers, of the network and of the client leave the table, the
\* mutex and the address a request went to as they are.
LEMMA FrameInv ==
  ASSUME Inv, UNCHANGED <<figureMap, mtx>>,
         client' \in [Clients -> ClientThreads],
         \A c \in Clients : client'[c].pc \in {"asked"} \cup Forwarding =>
           client'[c].fig \in Figures,
         \A c \in Clients : client'[c].pc \in Forwarding =>
           /\ client[c].pc \in Forwarding
           /\ client'[c].fig = client[c].fig
           /\ client'[c].to = client[c].to
  PROVE  Inv'
  BY DEF Inv, FigureAsked, ForwardsToListed, Forwarding

\* A step that finds the mutex free finds no request being forwarded.
LEMMA NoneForwarded ==
  ASSUME Inv, mtx = NoClient
  PROVE  \A c \in Clients : client[c].pc \notin Forwarding
  BY ClientsAssumption DEF Inv, ForwardsToListed, Forwarding

LEMMA ServerInv ==
  ASSUME Inv, NEW s \in Servers,
         Boot(s) \/ Listen(s) \/ AnswerDiscovery(s) \/ Shutdown(s) \/ Kill(s)
  PROVE  Inv'
<1>1. CASE Boot(s) \/ Listen(s) \/ AnswerDiscovery(s)
  <2>1. UNCHANGED <<figureMap, mtx, client>>
    BY <1>1 DEF Boot, Listen, AnswerDiscovery, tenedorVars
  <2> QED
    BY <2>1 DEF Inv, FigureAsked, ForwardsToListed
<1>2. CASE GoesOff(s)
  <2>1. UNCHANGED <<figureMap, mtx>>
    BY <1>2 DEF GoesOff
  <2>2. \A c \in Clients :
          client'[c] = IF client[c].pc = "connected" /\ client[c].to = s
                       THEN [client[c] EXCEPT !.pc = "reset"] ELSE client[c]
    BY <1>2 DEF GoesOff
  <2>3. ASSUME NEW c \in Clients
        PROVE  /\ client'[c] \in ClientThreads
               /\ client'[c].fig = client[c].fig /\ client'[c].to = client[c].to
               /\ client'[c].pc \in Forwarding => client[c].pc \in Forwarding
               /\ client'[c].pc = "asked" => client[c].pc = "asked"
    <3> DEFINE t == [client[c] EXCEPT !.pc = "reset"]
    <3>1. client[c] \in ClientThreads
      BY DEF Inv
    <3>2. /\ t \in ClientThreads /\ t.pc = "reset"
          /\ t.fig = client[c].fig /\ t.to = client[c].to
      BY <3>1, ThreadMoved DEF Pcs
    <3>3. client'[c] = IF client[c].pc = "connected" /\ client[c].to = s
                       THEN t ELSE client[c]
      BY <2>2
    <3> HIDE DEF t
    <3> QED
      BY <3>1, <3>2, <3>3 DEF Forwarding
  <2>4. client' \in [Clients -> ClientThreads]
    BY <1>2, <2>3 DEF GoesOff
  <2>5. \A c \in Clients : client'[c].pc \in {"asked"} \cup Forwarding =>
          client'[c].fig \in Figures
    BY <2>3 DEF Inv, FigureAsked
  <2> QED
    BY <2>1, <2>3, <2>4, <2>5, FrameInv
<1> QED
  BY <1>1, <1>2 DEF Shutdown, Kill

LEMMA HearInv ==
  ASSUME Inv, NEW s \in Servers, Hear(s)
  PROVE  Inv'
<1>1. mtx = NoClient /\ UNCHANGED <<client, mtx>>
  BY DEF Hear, Register, Forget
<1>2. figureMap' \in [Figures -> Servers \cup {NoServer}]
  BY DEF Hear, Register, Forget, Inv
<1> QED
  BY <1>1, <1>2, NoneForwarded DEF Inv, FigureAsked, ForwardsToListed, Forwarding

\* A client thread that takes a step may start to forward only with the mutex.
LEMMA BecomesInv ==
  ASSUME Inv, NEW c \in Clients, NEW t \in ClientThreads, Becomes(c, t),
         UNCHANGED figureMap,
         t.pc \in {"asked"} \cup Forwarding => t.fig \in Figures,
         t.pc \in Forwarding => mtx' = c /\ figureMap[t.fig] = t.to,
         \A d \in Clients \ {c} : client[d].pc \in Forwarding => mtx' = d
  PROVE  Inv'
<1>1. \A d \in Clients : client'[d] = IF d = c THEN t ELSE client[d]
  BY DEF Becomes, Inv
<1>2. client' \in [Clients -> ClientThreads]
  BY DEF Becomes, Inv
<1>3. FigureAsked'
  BY <1>1 DEF Inv, FigureAsked
<1>4. ForwardsToListed'
  BY <1>1 DEF Inv, ForwardsToListed, Forwarding
<1> QED
  BY <1>2, <1>3, <1>4 DEF Inv

\* An answer to a client leaves the mutex alone, or returns it.
LEMMA DoneInv ==
  ASSUME Inv, NEW c \in Clients, NEW code \in Codes, Done(c, code),
         UNCHANGED figureMap,
         mtx' = mtx \/ client[c].pc \in Forwarding
  PROVE  Inv'
<1> DEFINE t == Thread("done", "none", NoServer, code)
<1>1. t \in ClientThreads /\ t.pc = "done" /\ Becomes(c, t)
  BY ThreadTyped DEF Pcs, Done
<1>2. \A d \in Clients \ {c} : client[d].pc \in Forwarding => mtx' = d
  BY DEF Inv, ForwardsToListed, Forwarding
<1> HIDE DEF t
<1> QED
  BY <1>1, <1>2, BecomesInv DEF Forwarding

LEMMA ClientInv ==
  ASSUME Inv, NEW c \in Clients,
         Serve(c) \/ AskNothing(c) \/ \E f \in Figures : Ask(c, f)
  PROVE  Inv'
<1>1. UNCHANGED figureMap
  BY DEF Serve, LookUp, Connect, ServerAnswers, GiveUp, AskNothing, Ask
<1>2. client[c] \in ClientThreads
      /\ \A d \in Clients : client[d].pc \in Forwarding => mtx = d
  BY DEF Inv, ForwardsToListed, Forwarding
<1>3. CASE \E f \in Figures : Ask(c, f)
  <2>1. PICK f \in Figures : Ask(c, f)
    BY <1>3
  <2> DEFINE t == Thread("asked", f, NoServer, 0)
  <2>2. Becomes(c, t) /\ UNCHANGED mtx
    BY <2>1 DEF Ask
  <2>3. t \in ClientThreads /\ t.pc = "asked" /\ t.fig \in Figures
    BY ThreadTyped DEF Pcs, Codes
  <2> HIDE DEF t
  <2> QED
    BY <1>1, <1>2, <2>2, <2>3, BecomesInv DEF Forwarding
<1>4. CASE LookUp(c) /\ figureMap[client[c].fig] # NoServer
  <2> DEFINE f == client[c].fig
             s == figureMap[f]
             t == Thread("forwarding", f, s, 0)
  <2>1. f \in Figures /\ s \in Servers
    BY <1>4 DEF LookUp, Inv, FigureAsked
  <2>2. Becomes(c, t) /\ mtx' = c
    BY <1>4 DEF LookUp
  <2>3. t \in ClientThreads /\ t.pc = "forwarding" /\ t.fig = f /\ t.to = s
    BY <2>1, ThreadTyped DEF Pcs, Codes
  <2>4. \A d \in Clients : client[d].pc \notin Forwarding
    BY <1>4, NoneForwarded DEF LookUp
  <2> HIDE DEF t
  <2> QED
    BY <1>1, <2>1, <2>2, <2>3, <2>4, BecomesInv
<1>5. CASE Connect(c) /\ server[client[c].to] = "up"
  <2> DEFINE t == [client[c] EXCEPT !.pc = "connected"]
  <2>1. Becomes(c, t) /\ UNCHANGED mtx /\ client[c].pc \in Forwarding
    BY <1>5 DEF Connect, Forwarding
  <2>2. t \in ClientThreads /\ t.fig = client[c].fig /\ t.to = client[c].to
    BY <1>2, ThreadMoved DEF Pcs
  <2>3. mtx = c /\ client[c].fig \in Figures
        /\ figureMap[client[c].fig] = client[c].to
    BY <2>1 DEF Inv, FigureAsked, ForwardsToListed, Forwarding
  <2> HIDE DEF t
  <2> QED
    BY <1>1, <1>2, <2>1, <2>2, <2>3, BecomesInv
<1>6. CASE LookUp(c) /\ figureMap[client[c].fig] = NoServer
  BY <1>1, <1>6, DoneInv DEF LookUp, Codes
<1>7. CASE Connect(c) /\ server[client[c].to] # "up"
  BY <1>1, <1>7, DoneInv DEF Connect, Codes, Forwarding
<1>8. CASE ServerAnswers(c)
  <2> DEFINE code == IF client[c].fig \in Holds[client[c].to] THEN 200 ELSE 404
  <2>1. Done(c, code) /\ code \in Codes /\ client[c].pc \in Forwarding
    BY <1>8 DEF ServerAnswers, Codes, Forwarding
  <2> HIDE DEF code
  <2> QED
    BY <1>1, <2>1, DoneInv
<1>9. CASE GiveUp(c)
  BY <1>1, <1>9, DoneInv DEF GiveUp, Codes, Forwarding
<1>10. CASE AskNothing(c)
  <2>1. PICK code \in {0, 400} : Done(c, code)
    BY <1>10 DEF AskNothing
  <2>2. mtx' = mtx /\ code \in Codes
    BY <1>10 DEF AskNothing, Codes
  <2> QED
    BY <1>1, <2>1, <2>2, DoneInv
<1> QED
  BY <1>3, <1>4, <1>5, <1>6, <1>7, <1>8, <1>9, <1>10 DEF Serve

\* The end of a thread of the tenedor closes every connection, or none.
LEMMA RemainingInv ==
  ASSUME Inv, NEW ts, NEW clients \in [Clients -> ClientThreads],
         Remaining(ts, clients),
         \A c \in Clients : clients[c].pc \in {"asked"} \cup Forwarding =>
           clients[c] = client[c]
  PROVE  Inv'
<1>1. CASE ts # {}
  <2>1. client' = clients /\ UNCHANGED <<figureMap, mtx>>
    BY <1>1 DEF Remaining
  <2> QED
    BY <2>1, FrameInv DEF Inv, FigureAsked
<1>2. CASE ts = {}
  <2>1. client' = [c \in Clients |-> Unanswered(clients[c])]
        /\ figureMap' = [f \in Figures |-> NoServer]
    BY <1>2 DEF Remaining
  <2>2. \A c \in Clients : /\ client'[c] \in ClientThreads
                           /\ client'[c].pc \in {"none", "done"}
    BY <2>1, UnansweredTyped
  <2>3. client' \in [Clients -> ClientThreads]
    BY <2>1, <2>2
  <2> QED
    BY <2>1, <2>2, <2>3 DEF Inv, FigureAsked, ForwardsToListed, Forwarding
<1> QED
  BY <1>1, <1>2

LEMMA NextInv == Inv /\ [Next]_vars => Inv'
<1> SUFFICES ASSUME Inv, [Next]_vars PROVE Inv'
  OBVIOUS
<1>1. CASE Start \/ Discover \/ Signal \/ (\E m \in net : Discard(m))
           \/ UNCHANGED vars
  <2>1. UNCHANGED <<figureMap, mtx, client>>
    BY <1>1 DEF Start, Discover, Signal, Discard, vars, tenedorVars
  <2> QED
    BY <2>1 DEF Inv, FigureAsked, ForwardsToListed
<1>2. CASE \E t \in threads : Ends(t)
  <2>1. PICK t \in threads : Ends(t)
    BY <1>2
  <2>2. Remaining(threads \ {t}, client) /\ client \in [Clients -> ClientThreads]
    BY <2>1 DEF Ends, Inv
  <2> QED
    BY <2>2, RemainingInv
<1>3. CASE \E s \in Servers : \/ Boot(s) \/ Listen(s) \/ AnswerDiscovery(s)
                              \/ Shutdown(s) \/ Kill(s) \/ Hear(s)
  BY <1>3, ServerInv, HearInv
<1>4. ASSUME NEW c \in Clients, Accept(c) PROVE Inv'
  <2> DEFINE t == Thread("open", "none", NoServer, 0)
             opened == [client EXCEPT ![c] = t]
  <2>1. t \in ClientThreads /\ t.pc = "open"
    BY ThreadTyped DEF Pcs, Codes
  <2>2. \E ts : Remaining(ts, opened)
    BY <1>4 DEF Accept
  <2> HIDE DEF t
  <2>3. opened \in [Clients -> ClientThreads]
    BY <2>1 DEF Inv
  <2>4. \A d \in Clients :
          opened[d].pc \in {"asked"} \cup Forwarding => opened[d] = client[d]
    BY <2>1 DEF Inv, Forwarding
  <2> HIDE DEF opened
  <2> QED
    BY <2>2, <2>3, <2>4, RemainingInv
<1>5. CASE \E c \in Clients : \/ AskNothing(c) \/ Serve(c)
                              \/ \E f \in Figures : Ask(c, f)
  BY <1>5, ClientInv
<1> QED
  BY <1>1, <1>2, <1>3, <1>4, <1>5 DEF Next

\* The table of the tenedor never changes between the lookup of a figure and
\* the answer to its client, whatever servers announce in the meantime.
THEOREM TableStillWhileForwarding == Spec => []ForwardsToListed
<1>1. Inv => ForwardsToListed
  BY DEF Inv
<1> QED
  BY <1>1, InitInv, NextInv, PTL DEF Spec

-----------------------------------------------------------------------------
(* Types.                                                                  *)

\* The rest of the state: flags, threads, servers and datagrams.
Shapes == /\ running \in BOOLEAN
          /\ threads \in SUBSET Threads
          /\ mtx \in Clients \cup {NoClient}
          /\ server \in [Servers -> {"off", "announced", "up"}]
          /\ net \in SUBSET Datagrams
          /\ boots \in 0..MaxBoots

LEMMA SendTyped ==
  ASSUME NEW old \in SUBSET Datagrams, NEW new \in SUBSET Datagrams,
         Send(old, new)
  PROVE  net' \in SUBSET Datagrams
  BY DEF Send

LEMMA DatagramsOf ==
  ASSUME NEW s \in Servers
  PROVE  /\ Request(s) \in Datagrams
         /\ Response(s, DiscoveryPort) \in Datagrams
         /\ Response(s, Ephemeral) \in Datagrams
         /\ Farewell(s) \in Datagrams
  BY DEF Datagrams

LEMMA ServerShapes ==
  ASSUME Shapes, NEW s \in Servers,
         Boot(s) \/ Listen(s) \/ AnswerDiscovery(s) \/ Shutdown(s) \/ Kill(s)
  PROVE  Shapes'
<1>1. UNCHANGED <<running, threads, mtx>>
  BY DEF Boot, Listen, AnswerDiscovery, Shutdown, Kill, GoesOff, tenedorVars
<1>2. server' \in [Servers -> {"off", "announced", "up"}]
  BY DEF Shapes, Boot, Listen, AnswerDiscovery, Shutdown, Kill, GoesOff
<1>3. boots' \in 0..MaxBoots
  BY BoundsAssumption
     DEF Shapes, Boot, Listen, AnswerDiscovery, Shutdown, Kill, GoesOff
<1>4. net' \in SUBSET Datagrams
  <2>1. CASE Boot(s)
    BY <2>1, SendTyped, DatagramsOf DEF Shapes, Boot
  <2>2. CASE AnswerDiscovery(s)
    BY <2>2, SendTyped, DatagramsOf DEF Shapes, AnswerDiscovery
  <2>3. CASE Shutdown(s)
    BY <2>3, SendTyped, DatagramsOf DEF Shapes, Shutdown
  <2>4. CASE Listen(s) \/ Kill(s)
    BY <2>4 DEF Shapes, Listen, Kill
  <2> QED
    BY <2>1, <2>2, <2>3, <2>4
<1> QED
  BY <1>1, <1>2, <1>3, <1>4 DEF Shapes

LEMMA TenedorShapes ==
  ASSUME Shapes,
         \/ Start \/ Discover \/ Signal
         \/ \E t \in threads : Ends(t)
         \/ \E m \in net : Discard(m)
         \/ \E s \in Servers : Hear(s)
  PROVE  Shapes'
<1>1. UNCHANGED <<server, boots>>
  BY DEF Start, Discover, Signal, Ends, Discard, Hear, Register, Forget, tenedorVars
<1>2. running' \in BOOLEAN /\ threads' \in SUBSET Threads
      /\ mtx' \in Clients \cup {NoClient}
  BY DEF Shapes, Threads, Start, Discover, Signal, Ends, Remaining, Discard, Hear,
         Register, Forget, tenedorVars
<1>3. net' \in SUBSET Datagrams
  <2>1. CASE Discover
    <3>1. {Request(s) : s \in Servers} \in SUBSET Datagrams
      BY DatagramsOf
    <3> QED
      BY <2>1, <3>1, SendTyped DEF Shapes, Discover
  <2>2. CASE \/ Start \/ Signal \/ (\E t \in threads : Ends(t))
             \/ (\E m \in net : Discard(m)) \/ \E s \in Servers : Hear(s)
    BY <2>2 DEF Shapes, Start, Signal, Ends, Discard, Hear, Register, Forget, Receive
  <2> QED
    BY <2>1, <2>2
<1> QED
  BY <1>1, <1>2, <1>3 DEF Shapes

LEMMA ClientShapes ==
  ASSUME Shapes, NEW c \in Clients,
         Accept(c) \/ AskNothing(c) \/ Serve(c) \/ \E f \in Figures : Ask(c, f)
  PROVE  Shapes'
<1>1. UNCHANGED <<running, server, net, boots>>
  BY DEF Accept, AskNothing, Serve, LookUp, Connect, ServerAnswers, GiveUp, Ask
<1>2. threads' \in SUBSET Threads
  <2>1. CASE Accept(c)
    <3>1. \E ts \in {threads, threads \ {"http"}} : threads' = ts
      BY <2>1 DEF Accept, Remaining
    <3> QED
      BY <3>1 DEF Shapes
  <2>2. CASE AskNothing(c) \/ Serve(c) \/ \E f \in Figures : Ask(c, f)
    BY <2>2 DEF Shapes, AskNothing, Serve, LookUp, Connect, ServerAnswers, GiveUp, Ask
  <2> QED
    BY <2>1, <2>2
<1>3. mtx' \in Clients \cup {NoClient}
  BY DEF Shapes, Accept, Remaining, AskNothing, Serve, LookUp, Connect,
         ServerAnswers, GiveUp, Ask
<1> QED
  BY <1>1, <1>2, <1>3 DEF Shapes

\* Every variable keeps its type: in particular figureMap holds addresses of
\* servers only, and the mutex is free or held by one connection.
THEOREM TenedorTyping == Spec => []TypeOK
<1>1. Init => Shapes
  <2> SUFFICES ASSUME Init PROVE Shapes
    OBVIOUS
  <2>1. boots \in 0..MaxBoots
    BY BoundsAssumption DEF Init
  <2>2. server \in [Servers -> {"off", "announced", "up"}]
    BY DEF Init
  <2>3. running \in BOOLEAN /\ threads \in SUBSET Threads
        /\ mtx \in Clients \cup {NoClient} /\ net \in SUBSET Datagrams
    BY DEF Init
  <2> QED
    BY <2>1, <2>2, <2>3 DEF Shapes
<1>2. Shapes /\ [Next]_vars => Shapes'
  <2> SUFFICES ASSUME Shapes, [Next]_vars PROVE Shapes'
    OBVIOUS
  <2>1. CASE UNCHANGED vars
    BY <2>1 DEF Shapes, vars
  <2>2. CASE Next
    BY <2>2, ServerShapes, TenedorShapes, ClientShapes DEF Next
  <2> QED
    BY <2>1, <2>2
<1>3. Inv /\ Shapes => TypeOK
  BY DEF Inv, Shapes, TypeOK
<1> QED
  BY <1>1, <1>2, <1>3, InitInv, NextInv, PTL DEF Spec

=============================================================================
