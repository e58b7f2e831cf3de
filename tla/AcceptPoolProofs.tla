-------------------------- MODULE AcceptPoolProofs --------------------------
(***************************************************************************)
(* Proofs about AcceptPool, for every pool of handlers, every set of       *)
(* client connections and either or both address families: the types; that *)
(* there is always a handler that can look at every family, no client is   *)
(* orphaned, descriptors are fresh, clients are answered once, nobody is   *)
(* dropped in silence, handlers are signalled before the pool is gone,     *)
(* those excepted that a failed waitpid has made it forget; and            *)
(* that the pool implements HandlerService.                                *)
(***************************************************************************)
EXTENDS AcceptPool, SequenceTheorems, TLAPS

(* Facts about one handler's step used all over: it changes neither the    *)
(* parent nor which families have which queues, except through the kernel. *)
LEMMA TypeInit == Init => TypeOK
<1> SUFFICES ASSUME Init PROVE TypeOK
  OBVIOUS
<1>1. AnyFamily \in Families
  BY FamiliesAssumption DEF AnyFamily
<1>2. /\ parent \in ParentState /\ pool \in Seq(Child)
      /\ signalled \subseteq Child /\ forgotten \subseteq Child
  BY DEF Init, ParentState
<1>0. startFailed \in BOOLEAN /\ serverData \in BOOLEAN
  BY DEF Init
<1>3. /\ pc \in [Child -> ChildState]
      /\ fam \in [Child -> Families]
      /\ fd \in [Child -> Conn \cup {NoConn}]
  BY <1>1 DEF Init, ChildState
<1>4. stale \in [Child -> BOOLEAN]
  BY DEF Init
<1>5. /\ backlog \in [Families -> Seq(Conn)]
      /\ peer \in [Conn -> PeerState]
      /\ hungUp \subseteq Conn
      /\ tried \in [Conn -> Nat]
      /\ answered \in [Conn -> Nat]
  BY DEF Init, PeerState
<1>6. QED
  BY <1>0, <1>2, <1>3, <1>4, <1>5 DEF TypeOK

LEMMA SetPeerType ==
  ASSUME TypeOK, NEW K, NEW s \in PeerState, SetPeer(K, s)
  PROVE  peer' \in [Conn -> PeerState]
<1>1. peer \in [Conn -> PeerState]
  BY DEF TypeOK
<1>2. QED
  BY <1>1 DEF SetPeer

LEMMA EndConnectionsType ==
  ASSUME TypeOK, NEW K, NEW held, EndConnections(K, held)
  PROVE  peer' \in [Conn -> PeerState] /\ backlog' \in [Families -> Seq(Conn)]
<1>1. peer \in [Conn -> PeerState] /\ backlog \in [Families -> Seq(Conn)]
  BY DEF TypeOK
<1>2. CASE held
  BY <1>1, <1>2 DEF EndConnections, SetPeer, PeerState
<1>3. CASE ~held
  <2>1. backlog' \in [Families -> Seq(Conn)]
    <3>1. backlog' = [f \in Families |-> <<>>]
      BY <1>3 DEF EndConnections
    <3>2. QED
      BY <3>1
  <2>2. SetPeer(K \cup Waiting, "done")
    BY <1>3 DEF EndConnections
  <2>3. QED
    BY <2>1, <2>2, SetPeerType DEF PeerState
<1>4. QED
  BY <1>2, <1>3

LEMMA GotoType ==
  ASSUME TypeOK, NEW c \in Child, NEW s \in ChildState, Goto(c, s)
  PROVE  pc' \in [Child -> ChildState]
BY DEF Goto, TypeOK

LEMMA DieType ==
  ASSUME TypeOK, NEW c \in Child, Die(c)
  PROVE  TypeOK'
<1>1. pc' \in [Child -> ChildState]
  BY GotoType DEF Die, ChildState
<1>2. peer' \in [Conn -> PeerState] /\ backlog' \in [Families -> Seq(Conn)]
  BY EndConnectionsType DEF Die
<1>3. QED
  BY <1>1, <1>2 DEF Die, TypeOK, parentVars, replyVars

LEMMA SendType ==
  ASSUME TypeOK, NEW c \in Child, NEW b, Send(c, b)
  PROVE  tried' \in [Conn -> Nat] /\ answered' \in [Conn -> Nat]
<1>1. tried \in [Conn -> Nat] /\ answered \in [Conn -> Nat]
  BY DEF TypeOK
<1>0. tried' = [tried EXCEPT ![fd[c]] = tried[fd[c]] + 1]
  BY DEF Send
<1>2. tried' \in [Conn -> Nat]
  <2>1. CASE fd[c] \in Conn
    <3>1. tried[fd[c]] + 1 \in Nat
      BY <1>1, <2>1
    <3>2. QED
      BY <1>0, <1>1, <3>1
  <2>2. CASE fd[c] \notin Conn
    BY <1>0, <1>1, <2>2
  <2>3. QED
    BY <2>1, <2>2
<1>3. CASE b
  BY <1>1, <1>2, <1>3 DEF Send
<1>4. CASE ~b
  BY <1>1, <1>2, <1>4 DEF Send
<1>5. QED
  BY <1>3, <1>4

LEMMA CloseConnType ==
  ASSUME TypeOK, NEW c \in Child, NEW s \in ChildState,
         CloseConn(c, s) \/ CloseThrows(c, s)
  PROVE  /\ pc' \in [Child -> ChildState]
         /\ fd' \in [Child -> Conn \cup {NoConn}]
         /\ stale' \in [Child -> BOOLEAN]
         /\ backlog' \in [Families -> Seq(Conn)]
         /\ peer' \in [Conn -> PeerState]
<1>1. pc' \in [Child -> ChildState]
  BY GotoType DEF CloseConn, CloseThrows
<1>2. peer' \in [Conn -> PeerState]
  BY SetPeerType DEF CloseConn, CloseThrows, PeerState
<1>3. QED
  BY <1>1, <1>2 DEF CloseConn, CloseThrows, TypeOK

LEMMA TypeNext ==
  ASSUME TypeOK, [Next]_vars
  PROVE  TypeOK'
<1> USE DEF parentVars, childVars, kernelVars, replyVars
<1>1. ASSUME NEW c \in Child, Fork(c) PROVE TypeOK'
  <2>1. pc' \in [Child -> ChildState]
    BY <1>1, GotoType DEF Fork, ChildState
  <2>2. pool' \in Seq(Child)
    BY <1>1 DEF Fork, TypeOK
  <2>3. QED
    BY <1>1, <2>1, <2>2 DEF Fork, TypeOK
<1>2. CASE ForkFails
  BY <1>2 DEF ForkFails, TypeOK, ParentState
<1>3. CASE StartReturns
  <2>1. peer' \in [Conn -> PeerState] /\ backlog' \in [Families -> Seq(Conn)]
    BY <1>3, EndConnectionsType DEF StartReturns
  <2>2. QED
    BY <1>3, <2>1 DEF StartReturns, TypeOK, ParentState
<1>4. ASSUME NEW from \in ParentState, NEW to \in ParentState, ParentGoto(from, to)
      PROVE  TypeOK'
  BY <1>4 DEF ParentGoto, TypeOK
<1>5. CASE KillHandler
  <2>1. Head(pool) \in Child /\ Tail(pool) \in Seq(Child)
    BY <1>5 DEF KillHandler, TypeOK
  <2>2. QED
    BY <1>5, <2>1 DEF KillHandler, TypeOK
<1>6. CASE ReapHandler
  <2>1. Head(pool) \in Child /\ Tail(pool) \in Seq(Child)
    BY <1>6 DEF ReapHandler, TypeOK
  <2>2. pc' \in [Child -> ChildState]
    BY <1>6, <2>1, GotoType DEF ReapHandler, ChildState
  <2>3. QED
    BY <1>6, <2>1, <2>2 DEF ReapHandler, TypeOK
<1>13. CASE WaitFails
  <2>1. Head(pool) \in Child /\ Tail(pool) \in Seq(Child)
    BY <1>13 DEF WaitFails, TypeOK
  <2>2. QED
    BY <1>13, <2>1 DEF WaitFails, TypeOK
<1>7. CASE LoopDone \/ Application
  BY <1>7, <1>4 DEF LoopDone, Application, TerminateAllHandlers,
     WaitForAllHandlersFinish, Destroy, ParentState
<1>8. ASSUME NEW k \in Conn, NEW f \in Families, Connect(k, f) PROVE TypeOK'
  <2>1. peer' \in [Conn -> PeerState]
    BY <1>8, SetPeerType DEF Connect, PeerState
  <2>2. backlog' \in [Families -> Seq(Conn)]
    BY <1>8 DEF Connect, TypeOK
  <2>3. QED
    BY <1>8, <2>1, <2>2 DEF Connect, TypeOK
<1>9. ASSUME NEW k \in Conn, HangUp(k) PROVE TypeOK'
  BY <1>9 DEF HangUp, TypeOK
<1>10. ASSUME NEW c \in Child, Handle(c) PROVE TypeOK'
  <2>1. CASE BeginWait(c)
    <3>1. pc' \in [Child -> ChildState]
      BY <2>1, GotoType DEF BeginWait, ChildState, ServingState
    <3>2. QED
      BY <2>1, <3>1 DEF BeginWait, TypeOK
  <2>2. CASE Select(c)
    <3>1. pc' \in [Child -> ChildState]
      BY <2>2, GotoType DEF Select, ChildState
    <3>2. fam' \in [Child -> Families]
      BY <2>2 DEF Select, TypeOK
    <3>3. QED
      BY <2>2, <3>1, <3>2 DEF Select, TypeOK
  <2>3. CASE Accept(c)
    <3>1. pc' \in [Child -> ChildState]
      BY <2>3, GotoType DEF Accept, ChildState, ServingState
    <3>2. peer' \in [Conn -> PeerState]
      BY <2>3, SetPeerType DEF Accept, PeerState
    <3>3. /\ Head(backlog[fam[c]]) \in Conn
          /\ Tail(backlog[fam[c]]) \in Seq(Conn)
      BY <2>3 DEF Accept, TypeOK
    <3>4. QED
      BY <2>3, <3>1, <3>2, <3>3 DEF Accept, TypeOK
  <2>4. CASE AcceptFails(c) \/ ReadCall(c) \/ CallFails(c)
    <3>1. pc' \in [Child -> ChildState]
      BY <2>4, GotoType DEF AcceptFails, ReadCall, CallFails, ChildState, ServingState
    <3>2. QED
      BY <2>4, <3>1 DEF AcceptFails, ReadCall, CallFails, TypeOK
  <2>5. CASE ReadEof(c) \/ CloseConnection(c) \/ RecoverClose(c)
    <3>1. \E s \in ChildState : CloseConn(c, s) \/ CloseThrows(c, s)
      BY <2>5 DEF ReadEof, CloseConnection, RecoverClose, ChildState, ServingState
    <3>2. /\ pc' \in [Child -> ChildState]
          /\ fd' \in [Child -> Conn \cup {NoConn}]
          /\ stale' \in [Child -> BOOLEAN]
          /\ backlog' \in [Families -> Seq(Conn)]
          /\ peer' \in [Conn -> PeerState]
      BY <3>1, CloseConnType
    <3>3. QED
      BY <2>5, <3>2 DEF ReadEof, CloseConnection, RecoverClose, TypeOK
  <2>6. CASE SendResponse(c) \/ SendErrorResponse(c)
    <3>1. pc' \in [Child -> ChildState]
      BY <2>6, GotoType DEF SendResponse, SendErrorResponse, ChildState, ServingState
    <3>2. tried' \in [Conn -> Nat] /\ answered' \in [Conn -> Nat]
      BY <2>6, SendType DEF SendResponse, SendErrorResponse
    <3>3. QED
      BY <2>6, <3>1, <3>2 DEF SendResponse, SendErrorResponse, TypeOK
  <2>7. CASE SendBrokenPipe(c)
    <3>1. \E s \in ChildState : CloseConn(c, s) \/ CloseThrows(c, s)
      BY <2>7 DEF SendBrokenPipe, ChildState, ServingState
    <3>2. /\ pc' \in [Child -> ChildState]
          /\ fd' \in [Child -> Conn \cup {NoConn}]
          /\ stale' \in [Child -> BOOLEAN]
          /\ backlog' \in [Families -> Seq(Conn)]
          /\ peer' \in [Conn -> PeerState]
      BY <3>1, CloseConnType
    <3>3. tried' \in [Conn -> Nat] /\ answered' \in [Conn -> Nat]
      BY <2>7, SendType DEF SendBrokenPipe
    <3>4. QED
      BY <2>7, <3>2, <3>3 DEF SendBrokenPipe, TypeOK
  <2>8. CASE ExitHandler(c) \/ Killed(c)
    BY <2>8, DieType DEF ExitHandler, Killed
  <2>9. QED
    BY <1>10, <2>1, <2>2, <2>3, <2>4, <2>5, <2>6, <2>7, <2>8 DEF Handle, Serve
<1>11. CASE UNCHANGED vars
  BY <1>11 DEF vars, TypeOK
<1>12. QED
  BY <1>1, <1>2, <1>3, <1>5, <1>6, <1>7, <1>8, <1>9, <1>10, <1>11, <1>13
     DEF Next, Start, Stop, Client

(* Every variable of the pool keeps its type. *)
THEOREM PoolType == Spec => []TypeOK
<1>1. Init => TypeOK
  BY TypeInit
<1>2. TypeOK /\ [Next]_vars => TypeOK'
  BY TypeNext
<1>3. QED
  BY <1>1, <1>2, PTL DEF Spec

-----------------------------------------------------------------------------
(* A handler that lives and, if it is committed to one family, has a       *)
(* client to take there.                                                   *)
Ready(c) == Live(c) /\ (pc[c] = "accept" => backlog[fam[c]] # <<>>)

(* A handler that takes a step of its own and lives is ready afterwards.   *)
LEMMA StepReady ==
  ASSUME TypeOK, NEW c \in Child, Handle(c)
  PROVE  Ready(c)' \/ pc'[c] = "zombie"
<1>1. pc \in [Child -> ChildState]
  BY DEF TypeOK
<1>2. CASE BeginWait(c)
  BY <1>1, <1>2 DEF BeginWait, Goto, Ready, Live
<1>3. CASE Select(c)
  <2>1. fam \in [Child -> Families]
    BY DEF TypeOK
  <2>2. PICK f \in Families : backlog[f] # <<>> /\ fam' = [fam EXCEPT ![c] = f]
    BY <1>3 DEF Select
  <2>3. fam'[c] = f /\ backlog' = backlog /\ pc'[c] = "accept"
    BY <1>1, <1>3, <2>1, <2>2 DEF Select, Goto, kernelVars
  <2>4. QED
    BY <2>2, <2>3 DEF Ready, Live
<1>4. CASE Accept(c)
  BY <1>1, <1>4 DEF Accept, Goto, Ready, Live
<1>5. CASE AcceptFails(c) \/ ReadCall(c) \/ CallFails(c)
  BY <1>1, <1>5 DEF AcceptFails, ReadCall, CallFails, Goto, Ready, Live
<1>6. CASE ReadEof(c) \/ CloseConnection(c) \/ RecoverClose(c) \/ SendBrokenPipe(c)
  <2>1. pc'[c] \in {"loop", "recover", "recoverClose"}
    BY <1>1, <1>6 DEF ReadEof, CloseConnection, RecoverClose, SendBrokenPipe,
       CloseConn, CloseThrows, Goto
  <2>2. QED
    BY <2>1 DEF Ready, Live
<1>7. CASE SendResponse(c) \/ SendErrorResponse(c)
  <2>1. pc'[c] \in {"close", "recover", "recoverClose"}
    BY <1>1, <1>7 DEF SendResponse, SendErrorResponse, Goto
  <2>2. QED
    BY <2>1 DEF Ready, Live
<1>8. CASE ExitHandler(c) \/ Killed(c)
  BY <1>1, <1>8 DEF ExitHandler, Killed, Die, Goto
<1>9. QED
  BY <1>2, <1>3, <1>4, <1>5, <1>6, <1>7, <1>8 DEF Handle, Serve

(* SomeHandlerReady needs no strengthening beyond the types. *)
LEMMA ReadyNext ==
  ASSUME TypeOK, SomeHandlerReady, [Next]_vars
  PROVE  SomeHandlerReady'
<1>1. ASSUME UNCHANGED <<pc, fam, backlog>> PROVE SomeHandlerReady'
  BY <1>1 DEF SomeHandlerReady, Live
<1>2. ASSUME NEW c \in Child, Handle(c) PROVE SomeHandlerReady'
  <2>1. CASE Ready(c)'
    BY <2>1 DEF SomeHandlerReady, Ready
  <2>2. CASE pc'[c] = "zombie"
    BY <2>2 DEF SomeHandlerReady
  <2>3. QED
    BY <1>2, <2>1, <2>2, StepReady
<1>3. ASSUME NEW c \in Child, Fork(c) PROVE SomeHandlerReady'
  <2>1. pc'[c] = "loop"
    BY <1>3 DEF Fork, Goto, TypeOK
  <2>2. QED
    BY <2>1 DEF SomeHandlerReady, Live
<1>4. CASE StartReturns
  <2>1. pc' = pc /\ fam' = fam
    BY <1>4 DEF StartReturns, childVars
  <2>2. CASE \E c \in Child : Live(c)
    <3>1. backlog' = backlog
      BY <1>4, <2>2 DEF StartReturns, EndConnections
    <3>2. QED
      BY <1>1, <2>1, <3>1
  <2>3. CASE ~ \E c \in Child : Live(c)
    BY <2>1, <2>3 DEF SomeHandlerReady, Live
  <2>4. QED
    BY <2>2, <2>3
<1>5. ASSUME NEW k \in Conn, NEW f \in Families, Connect(k, f)
      PROVE  SomeHandlerReady'
  <2>1. pc' = pc /\ fam' = fam
    BY <1>5 DEF Connect, childVars
  <2>2. backlog'[f] # <<>>
    <3>1. backlog'[f] = Append(backlog[f], k) /\ backlog[f] \in Seq(Conn)
      BY <1>5 DEF Connect, TypeOK
    <3>2. QED
      BY <3>1, AppendProperties
  <2>3. \A g \in Families : g # f => backlog'[g] = backlog[g]
    BY <1>5 DEF Connect, TypeOK
  <2>4. \A c \in Child : fam[c] \in Families
    BY DEF TypeOK
  <2>5. QED
    BY <2>1, <2>2, <2>3, <2>4 DEF SomeHandlerReady, Live
<1>6. CASE ReapHandler
  <2>1. Head(pool) \in Child
    BY <1>6 DEF ReapHandler, TypeOK
  <2>2. pc'[Head(pool)] = "reaped"
    BY <1>6, <2>1 DEF ReapHandler, Goto, TypeOK
  <2>3. QED
    BY <2>1, <2>2 DEF SomeHandlerReady
<1>7. CASE ForkFails \/ KillHandler \/ WaitFails \/ LoopDone \/ Application
  BY <1>1, <1>7 DEF ForkFails, KillHandler, WaitFails, LoopDone, Application, ParentGoto,
     TerminateAllHandlers, WaitForAllHandlersFinish, Destroy, childVars, kernelVars
<1>8. ASSUME NEW k \in Conn, HangUp(k) PROVE SomeHandlerReady'
  BY <1>1, <1>8 DEF HangUp, childVars
<1>9. CASE UNCHANGED vars
  BY <1>1, <1>9 DEF vars, childVars, kernelVars
<1>10. QED
  BY <1>2, <1>3, <1>4, <1>5, <1>6, <1>7, <1>8, <1>9
     DEF Next, Start, Stop, Client

(* As long as no handler has died, one of them can look at every family or *)
(* has a client to take (the blocking ::accept behind select).             *)
THEOREM PoolReady == Spec => []SomeHandlerReady
<1>1. Init => SomeHandlerReady
  BY DEF Init, SomeHandlerReady
<1>2. TypeOK /\ SomeHandlerReady /\ [Next]_vars => SomeHandlerReady'
  BY ReadyNext
<1>3. QED
  BY <1>1, <1>2, PoolType, PTL DEF Spec

-----------------------------------------------------------------------------
(* The parent lets go of the listening sockets when start() returns, and   *)
(* nobody waits in a queue that nobody holds.                              *)
SocketsInv ==
  /\ parent # "forking" /\ ~startFailed => ~serverData
  /\ Waiting # {} => Listening

(* What EndConnections leaves behind. *)
LEMMA EndConnectionsWaiting ==
  ASSUME TypeOK, NEW K, NEW held, EndConnections(K, held)
  PROVE  /\ Waiting' \subseteq Waiting
         /\ ~held => Waiting' = {}
<1>1. peer \in [Conn -> PeerState]
  BY DEF TypeOK
<1>2. QED
  BY <1>1 DEF EndConnections, SetPeer, Waiting

(* A handler's step takes clients out of the queues only, and unless the   *)
(* handler dies it still holds the sockets.                                *)
LEMMA StepSockets ==
  ASSUME TypeOK, NEW c \in Child, Handle(c), Waiting' # {}
  PROVE  Waiting # {} /\ Listening'
<1>1. CASE ExitHandler(c) \/ Killed(c)
  <2>1. Die(c)
    BY <1>1 DEF ExitHandler, Killed
  <2>2. serverData' = serverData /\ \A d \in Child \ {c} : pc'[d] = pc[d]
    BY <2>1 DEF Die, Goto, TypeOK, parentVars
  <2>3. /\ Waiting' \subseteq Waiting
        /\ serverData \/ \E d \in Child \ {c} : Live(d)
    BY <2>1, EndConnectionsWaiting DEF Die
  <2>4. QED
    BY <2>2, <2>3 DEF Listening, Live
<1>2. CASE ~ (ExitHandler(c) \/ Killed(c))
  <2>1. Ready(c)' \/ pc'[c] = "zombie"
    BY StepReady
  <2>2. pc'[c] # "zombie" /\ Waiting' \subseteq Waiting
    BY <1>2 DEF Handle, Serve, BeginWait, Select, Accept, AcceptFails, ReadCall,
       ReadEof, CallFails, SendResponse, SendBrokenPipe, CloseConnection,
       SendErrorResponse, RecoverClose, CloseConn, CloseThrows, SetPeer, Goto,
       Waiting, kernelVars, TypeOK
  <2>3. QED
    BY <2>1, <2>2 DEF Ready, Listening
<1>3. QED
  BY <1>1, <1>2

LEMMA SocketsNext ==
  ASSUME TypeOK, SocketsInv, [Next]_vars
  PROVE  SocketsInv'
<1>1. ASSUME UNCHANGED <<pc, peer, serverData>>,
             \/ startFailed'
             \/ UNCHANGED <<parent, startFailed>>
             \/ parent # "forking" /\ UNCHANGED startFailed
      PROVE  SocketsInv'
  BY <1>1 DEF SocketsInv, Waiting, Listening, Live
<1>2. ASSUME NEW c \in Child, Handle(c) PROVE SocketsInv'
  <2>1. UNCHANGED <<parent, startFailed, serverData>>
    BY <1>2 DEF Handle, Serve, BeginWait, Select, Accept, AcceptFails, ReadCall,
       ReadEof, CallFails, SendResponse, SendBrokenPipe, CloseConnection,
       SendErrorResponse, RecoverClose, ExitHandler, Killed, Die, parentVars
  <2>2. QED
    BY <1>2, <2>1, StepSockets DEF SocketsInv
<1>3. ASSUME NEW c \in Child, Fork(c) PROVE SocketsInv'
  <2>1. UNCHANGED <<parent, startFailed, serverData, peer>> /\ pc'[c] = "loop"
    BY <1>3 DEF Fork, Goto, TypeOK, kernelVars
  <2>2. QED
    BY <2>1 DEF SocketsInv, Waiting, Listening, Live
<1>4. CASE StartReturns
  <2>1. ~serverData' /\ pc' = pc
    BY <1>4 DEF StartReturns, childVars
  <2>2. Waiting' # {} => \E c \in Child : Live(c)
    BY <1>4, EndConnectionsWaiting DEF StartReturns
  <2>3. QED
    BY <2>1, <2>2 DEF SocketsInv, Listening, Live
<1>5. ASSUME NEW k \in Conn, NEW f \in Families, Connect(k, f) PROVE SocketsInv'
  <2>1. Listening /\ UNCHANGED <<pc, parent, startFailed, serverData>>
    BY <1>5 DEF Connect, parentVars, childVars
  <2>2. QED
    BY <2>1 DEF SocketsInv, Listening, Live
<1>6. CASE ReapHandler
  <2>1. Head(pool) \in Child /\ pc[Head(pool)] = "zombie"
    BY <1>6 DEF ReapHandler, TypeOK
  <2>2. \A c \in Child : Live(c)' <=> Live(c)
    BY <1>6, <2>1 DEF ReapHandler, Goto, Live, TypeOK
  <2>3. UNCHANGED <<parent, startFailed, serverData, peer>>
    BY <1>6 DEF ReapHandler, kernelVars
  <2>4. QED
    BY <2>2, <2>3 DEF SocketsInv, Waiting, Listening
<1>7. CASE ForkFails
  <2>1. startFailed'
    BY <1>7 DEF ForkFails
  <2>2. UNCHANGED <<pc, peer, serverData>>
    BY <1>7 DEF ForkFails, childVars, kernelVars
  <2>3. QED
    BY <1>1, <2>1, <2>2
<1>8. CASE KillHandler \/ WaitFails \/ LoopDone \/ Application
  BY <1>1, <1>8 DEF KillHandler, WaitFails, LoopDone, Application, ParentGoto,
     TerminateAllHandlers, WaitForAllHandlersFinish, Destroy, childVars, kernelVars
<1>9. ASSUME NEW k \in Conn, HangUp(k) PROVE SocketsInv'
  BY <1>1, <1>9 DEF HangUp, parentVars, childVars
<1>10. CASE UNCHANGED vars
  BY <1>1, <1>10 DEF vars, parentVars, childVars, kernelVars
<1>11. QED
  BY <1>2, <1>3, <1>4, <1>5, <1>6, <1>7, <1>8, <1>9, <1>10
     DEF Next, Start, Stop, Client

(* After start() a client waits only where a handler lives: the kernel     *)
(* resets the queues with the last process that holds the sockets.         *)
THEOREM PoolNoOrphans == Spec => []NoOrphans
<1>1. Init => SocketsInv
  BY DEF Init, SocketsInv, Waiting
<1>2. TypeOK /\ SocketsInv /\ [Next]_vars => SocketsInv'
  BY SocketsNext
<1>3. SocketsInv => NoOrphans
  BY DEF SocketsInv, NoOrphans, Listening
<1>4. QED
  BY <1>1, <1>2, <1>3, PoolType, PTL DEF Spec

-----------------------------------------------------------------------------
(* The invariant behind FreshDescriptor, AnsweredOnce and the refinement.  *)
(* A handler holds a descriptor exactly while it serves; a descriptor      *)
(* whose close failed is held only until the catch clause ends the handler.*)
PhaseInv ==
  \A c \in Child :
    /\ fd[c] # NoConn <=> pc[c] \in ServingState
    /\ stale[c] => pc[c] \in {"recover", "recoverClose"}

(* A connection is in one place: in one queue once, or with one handler;   *)
(* and the kernel agrees about which.                                      *)
QueueInv ==
  /\ \A f \in Families : \A i \in DOMAIN backlog[f] : peer[backlog[f][i]] = "waiting"
  /\ \A f, g \in Families : \A i \in DOMAIN backlog[f], j \in DOMAIN backlog[g] :
       backlog[f][i] = backlog[g][j] => f = g /\ i = j

HolderInv ==
  /\ \A c \in Child :
       fd[c] # NoConn => peer[fd[c]] = IF stale[c] THEN "done" ELSE "taken"
  /\ \A c, d \in Child : fd[c] = fd[d] /\ fd[c] # NoConn => c = d

(* What may have been written by the time a handler is where it is.        *)
Budget(c) ==
  /\ pc[c] \in {"read", "reply"} => tried[fd[c]] = 0 /\ answered[fd[c]] = 0
  /\ pc[c] = "close" => tried[fd[c]] = 1
  /\ pc[c] = "recover" =>
       tried[fd[c]] <= 1 /\ (~stale[c] => answered[fd[c]] = 0)

BudgetInv ==
  /\ AnsweredOnce
  /\ \A k \in Conn : peer[k] \in {"idle", "waiting"} => tried[k] = 0 /\ answered[k] = 0
  /\ \A c \in Child : Budget(c)

ServiceInv == PhaseInv /\ QueueInv /\ HolderInv /\ BudgetInv

LEMMA ServiceInit == Init => ServiceInv
<1> SUFFICES ASSUME Init PROVE ServiceInv
  OBVIOUS
<1>1. /\ pc = [c \in Child |-> "unborn"]
      /\ fd = [c \in Child |-> NoConn]
      /\ peer = [k \in Conn |-> "idle"]
      /\ backlog = [f \in Families |-> <<>>]
  BY DEF Init
<1>2. \A c \in Child : ~stale[c]
  BY DEF Init
<1>3. PhaseInv
  BY <1>1, <1>2 DEF PhaseInv, ServingState
<1>4. QueueInv
  BY <1>1 DEF QueueInv
<1>5. HolderInv
  BY <1>1 DEF HolderInv
<1>6. BudgetInv
  BY <1>1 DEF Init, BudgetInv, Budget, AnsweredOnce
<1>7. QED
  BY <1>3, <1>4, <1>5, <1>6 DEF ServiceInv

(* The queues keep their shape when connections that do not wait change.   *)
LEMMA QueueKept ==
  ASSUME TypeOK, QueueInv, NEW K, K \cap Waiting = {}, NEW s,
         SetPeer(K, s), UNCHANGED backlog
  PROVE  QueueInv'
<1>1. /\ backlog \in [Families -> Seq(Conn)]
      /\ peer \in [Conn -> PeerState]
  BY DEF TypeOK
<1>2. ASSUME NEW f \in Families, NEW i \in DOMAIN backlog[f]
      PROVE  peer'[backlog[f][i]] = "waiting"
  <2>1. backlog[f][i] \in Conn
    BY <1>1
  <2>2. backlog[f][i] \in Waiting
    BY <2>1 DEF QueueInv, Waiting
  <2>3. QED
    BY <2>1, <2>2 DEF SetPeer, Waiting
<1>3. QED
  BY <1>2 DEF QueueInv

LEMMA QueueEnd ==
  ASSUME TypeOK, QueueInv, NEW K, K \cap Waiting = {}, NEW held,
         EndConnections(K, held)
  PROVE  QueueInv'
<1>1. CASE held
  BY <1>1, QueueKept DEF EndConnections
<1>2. CASE ~held
  <2>1. backlog' = [f \in Families |-> <<>>]
    BY <1>2 DEF EndConnections
  <2>2. QED
    BY <2>1 DEF QueueInv
<1>3. QED
  BY <1>1, <1>2

(* A connection in a handler's hands does not wait. *)
LEMMA HeldNotWaiting ==
  ASSUME HolderInv, NEW c \in Child
  PROVE  ({fd[c]} \ {NoConn}) \cap Waiting = {}
BY DEF HolderInv, Waiting

LEMMA QueueAccept ==
  ASSUME TypeOK, QueueInv, NEW c \in Child, Accept(c)
  PROVE  QueueInv'
<1> DEFINE g == fam[c]
           q == backlog[g]
<1>1. /\ backlog \in [Families -> Seq(Conn)]
      /\ peer \in [Conn -> PeerState]
      /\ g \in Families
  BY DEF TypeOK
<1>2. q \in Seq(Conn) /\ q # <<>> /\ 1 \in DOMAIN q /\ Head(q) = q[1]
  BY <1>1 DEF Accept
<1>3. /\ DOMAIN Tail(q) = 1 .. Len(q) - 1
      /\ \A i \in DOMAIN Tail(q) : Tail(q)[i] = q[i + 1] /\ i + 1 \in DOMAIN q
  BY <1>2
<1>4. /\ backlog'[g] = Tail(q)
      /\ \A f \in Families : f # g => backlog'[f] = backlog[f]
  BY <1>1 DEF Accept
<1>5. \A k \in Conn : k # Head(q) => peer'[k] = peer[k]
  BY <1>1 DEF Accept, SetPeer
<1>6. ASSUME NEW f \in Families, NEW i \in DOMAIN backlog'[f]
      PROVE  \E j \in DOMAIN backlog[f] :
               /\ backlog'[f][i] = backlog[f][j]
               /\ j = IF f = g THEN i + 1 ELSE i
               /\ f = g => j # 1
  <2>1. CASE f = g
    <3>1. i + 1 \in DOMAIN q /\ Tail(q)[i] = q[i + 1]
      BY <1>3, <1>4, <1>6, <2>1
    <3>2. i \in 1 .. Len(q) - 1
      BY <1>3, <1>4, <1>6, <2>1
    <3>3. i + 1 # 1
      BY <3>2
    <3>4. QED
      BY <1>4, <2>1, <3>1, <3>3
  <2>2. CASE f # g
    BY <1>4, <1>6, <2>2
  <2>3. QED
    BY <2>1, <2>2
<1>7. ASSUME NEW f \in Families, NEW i \in DOMAIN backlog'[f]
      PROVE  peer'[backlog'[f][i]] = "waiting"
  <2>1. PICK j \in DOMAIN backlog[f] :
          backlog'[f][i] = backlog[f][j] /\ (f = g => j # 1)
    BY <1>6, <1>7
  <2>2. backlog[f][j] # Head(q)
    BY <1>1, <1>2, <2>1 DEF QueueInv
  <2>3. backlog[f][j] \in Conn /\ peer[backlog[f][j]] = "waiting"
    BY <1>1, <2>1 DEF QueueInv
  <2>4. QED
    BY <1>5, <2>1, <2>2, <2>3
<1>8. ASSUME NEW f \in Families, NEW h \in Families,
             NEW i \in DOMAIN backlog'[f], NEW j \in DOMAIN backlog'[h],
             backlog'[f][i] = backlog'[h][j]
      PROVE  f = h /\ i = j
  <2>1. PICK m \in DOMAIN backlog[f] :
          backlog'[f][i] = backlog[f][m] /\ m = IF f = g THEN i + 1 ELSE i
    BY <1>6
  <2>2. PICK n \in DOMAIN backlog[h] :
          backlog'[h][j] = backlog[h][n] /\ n = IF h = g THEN j + 1 ELSE j
    BY <1>6
  <2>3. f = h /\ m = n
    <3>1. backlog[f][m] = backlog[h][n]
      BY <1>8, <2>1, <2>2
    <3>2. QED
      BY <3>1 DEF QueueInv
  <2>4. i \in Nat /\ j \in Nat
    <3>1. backlog' \in [Families -> Seq(Conn)]
      BY <1>1, <1>2, <1>4 DEF Accept
    <3>2. QED
      BY <3>1
  <2>5. QED
    BY <2>1, <2>2, <2>3, <2>4
<1>9. QED
  BY <1>7, <1>8 DEF QueueInv

(* A step of handler c that touches no connection.                         *)
LEMMA MoveInv ==
  ASSUME TypeOK, ServiceInv, NEW c \in Child, NEW s, Goto(c, s),
         UNCHANGED <<fd, stale, backlog, peer, tried, answered>>,
         s \in ServingState <=> pc[c] \in ServingState,
         stale[c] => s \in {"recover", "recoverClose"},
         Budget(c)'
  PROVE  ServiceInv'
<1>1. pc'[c] = s /\ \A d \in Child \ {c} : pc'[d] = pc[d]
  BY DEF Goto, TypeOK
<1>2. PhaseInv'
  BY <1>1 DEF ServiceInv, PhaseInv
<1>3. QueueInv'
  BY DEF ServiceInv, QueueInv
<1>4. HolderInv'
  BY DEF ServiceInv, HolderInv
<1>5. BudgetInv'
  BY <1>1 DEF ServiceInv, BudgetInv, Budget, AnsweredOnce
<1>6. QED
  BY <1>2, <1>3, <1>4, <1>5 DEF ServiceInv

LEMMA AcceptInv ==
  ASSUME TypeOK, ServiceInv, NEW c \in Child, Accept(c)
  PROVE  ServiceInv'
<1> DEFINE k == Head(backlog[fam[c]])
<1>1. k \in Conn /\ peer[k] = "waiting"
  <2>1. backlog[fam[c]] \in Seq(Conn) /\ backlog[fam[c]] # <<>> /\ fam[c] \in Families
    BY DEF TypeOK, Accept
  <2>2. k = backlog[fam[c]][1] /\ 1 \in DOMAIN backlog[fam[c]] /\ k \in Conn
    BY <2>1
  <2>3. QED
    BY <2>1, <2>2 DEF ServiceInv, QueueInv
<1>2. /\ pc'[c] = "read" /\ fd'[c] = k
      /\ \A d \in Child \ {c} : pc'[d] = pc[d] /\ fd'[d] = fd[d]
      /\ UNCHANGED <<stale, tried, answered>>
  BY DEF Accept, Goto, TypeOK, replyVars
<1>3. peer'[k] = "taken" /\ \A j \in Conn \ {k} : peer'[j] = peer[j]
  BY <1>1 DEF Accept, SetPeer
<1>4. ~stale[c] /\ k # NoConn
  <2>1. pc[c] = "accept"
    BY DEF Accept
  <2>2. QED
    BY <1>1, <2>1, NoConnAssumption DEF ServiceInv, PhaseInv
<1>5. \A d \in Child : fd[d] # k
  BY <1>1, <1>4 DEF ServiceInv, HolderInv
<1>6. PhaseInv'
  BY <1>2, <1>4 DEF ServiceInv, PhaseInv, ServingState
<1>7. QueueInv'
  BY QueueAccept DEF ServiceInv
<1>8. HolderInv'
  <2>1. \A d \in Child : fd[d] \in Conn \cup {NoConn}
    BY DEF TypeOK
  <2>2. ASSUME NEW d \in Child, fd'[d] # NoConn
        PROVE  peer'[fd'[d]] = IF stale'[d] THEN "done" ELSE "taken"
    <3>1. CASE d = c
      BY <1>2, <1>3, <1>4, <3>1
    <3>2. CASE d # c
      BY <1>2, <1>3, <1>5, <2>1, <2>2, <3>2 DEF ServiceInv, HolderInv
    <3>3. QED
      BY <3>1, <3>2
  <2>3. \A d, e \in Child : fd'[d] = fd'[e] /\ fd'[d] # NoConn => d = e
    BY <1>2, <1>5 DEF ServiceInv, HolderInv
  <2>4. QED
    BY <2>2, <2>3 DEF HolderInv
<1>9. BudgetInv'
  <2>1. tried[k] = 0 /\ answered[k] = 0
    BY <1>1 DEF ServiceInv, BudgetInv
  <2>2. \A d \in Child : Budget(d)'
    BY <1>2, <2>1 DEF ServiceInv, BudgetInv, Budget
  <2>3. \A j \in Conn : peer'[j] \in {"idle", "waiting"}
                          => tried'[j] = 0 /\ answered'[j] = 0
    BY <1>2, <1>3 DEF ServiceInv, BudgetInv
  <2>4. AnsweredOnce'
    BY <1>2 DEF ServiceInv, BudgetInv, AnsweredOnce
  <2>5. QED
    BY <2>2, <2>3, <2>4 DEF BudgetInv
<1>10. QED
  BY <1>6, <1>7, <1>8, <1>9 DEF ServiceInv

(* The books of a response: only the handler's own connection is charged.  *)
LEMMA SendBudget ==
  ASSUME TypeOK, BudgetInv, NEW c \in Child, fd[c] \in Conn, NEW b \in BOOLEAN,
         Send(c, b), tried[fd[c]] <= 1, b => answered[fd[c]] = 0
  PROVE  /\ AnsweredOnce'
         /\ tried'[fd[c]] = tried[fd[c]] + 1
         /\ ~b => answered'[fd[c]] = answered[fd[c]]
         /\ \A k \in Conn \ {fd[c]} : tried'[k] = tried[k] /\ answered'[k] = answered[k]
<1>1. tried \in [Conn -> Nat] /\ answered \in [Conn -> Nat]
  BY DEF TypeOK
<1>2. \A k \in Conn : answered[k] <= 1 /\ tried[k] <= 2
  BY DEF BudgetInv, AnsweredOnce
<1>3. /\ tried'[fd[c]] = tried[fd[c]] + 1
      /\ \A k \in Conn \ {fd[c]} : tried'[k] = tried[k]
  BY <1>1 DEF Send
<1>4. /\ answered'[fd[c]] = IF b THEN answered[fd[c]] + 1 ELSE answered[fd[c]]
      /\ \A k \in Conn \ {fd[c]} : answered'[k] = answered[k]
  BY <1>1 DEF Send
<1>5. \A k \in Conn : answered'[k] <= 1 /\ tried'[k] <= 2
  <2>1. tried'[fd[c]] <= 2
    BY <1>1, <1>3
  <2>2. answered'[fd[c]] <= 1
    BY <1>1, <1>2, <1>4
  <2>3. QED
    BY <1>2, <1>3, <1>4, <2>1, <2>2
<1>6. QED
  BY <1>3, <1>4, <1>5 DEF AnsweredOnce

(* What a step of handler c may do to the books.                           *)
Charged(c) ==
  /\ AnsweredOnce'
  /\ \A k \in Conn \ {fd[c]} : tried'[k] = tried[k] /\ answered'[k] = answered[k]

(* A serving handler has a connection of its own.                          *)
LEMMA ServingHolds ==
  ASSUME TypeOK, ServiceInv, NEW c \in Child, pc[c] \in ServingState
  PROVE  /\ fd[c] \in Conn /\ fd[c] # NoConn
         /\ peer[fd[c]] \in {"taken", "done"}
         /\ \A d \in Child \ {c} : fd[d] # fd[c]
<1>1. fd[c] # NoConn
  BY DEF ServiceInv, PhaseInv
<1>2. fd[c] \in Conn
  BY <1>1 DEF TypeOK
<1>3. peer[fd[c]] \in {"taken", "done"}
  BY <1>1 DEF ServiceInv, HolderInv
<1>4. \A d \in Child \ {c} : fd[d] # fd[c]
  BY <1>1 DEF ServiceInv, HolderInv
<1>5. QED
  BY <1>1, <1>2, <1>3, <1>4

(* The books are in order after a step that charges c's connection, which  *)
(* does not wait, and leaves the other handlers where they were.           *)
LEMMA ChargedBudget ==
  ASSUME TypeOK, ServiceInv, NEW c \in Child, pc[c] \in ServingState, Charged(c),
         \A d \in Child \ {c} : pc'[d] = pc[d] /\ fd'[d] = fd[d] /\ stale'[d] = stale[d],
         \A k \in Conn : peer'[k] \in {"idle", "waiting"} => peer'[k] = peer[k],
         Budget(c)'
  PROVE  BudgetInv'
<1>1. /\ fd[c] \in Conn
      /\ peer[fd[c]] \in {"taken", "done"}
      /\ \A d \in Child \ {c} : fd[d] # fd[c]
  BY ServingHolds
<1>2. ASSUME NEW d \in Child \ {c} PROVE Budget(d)'
  <2>1. CASE pc[d] \in ServingState
    <3>1. fd[d] \in Conn /\ fd[d] # fd[c]
      BY <1>1, <2>1, ServingHolds
    <3>2. tried'[fd[d]] = tried[fd[d]] /\ answered'[fd[d]] = answered[fd[d]]
      BY <3>1 DEF Charged
    <3>3. Budget(d)
      BY DEF ServiceInv, BudgetInv
    <3>4. QED
      BY <3>2, <3>3 DEF Budget
  <2>2. CASE pc[d] \notin ServingState
    BY <2>2 DEF Budget, ServingState
  <2>3. QED
    BY <2>1, <2>2
<1>3. ASSUME NEW k \in Conn, peer'[k] \in {"idle", "waiting"}
      PROVE  tried'[k] = 0 /\ answered'[k] = 0
  <2>1. k # fd[c] /\ peer[k] \in {"idle", "waiting"}
    BY <1>1, <1>3
  <2>2. tried'[k] = tried[k] /\ answered'[k] = answered[k]
    BY <2>1 DEF Charged
  <2>3. QED
    BY <2>1, <2>2 DEF ServiceInv, BudgetInv
<1>4. AnsweredOnce'
  BY DEF Charged
<1>5. QED
  BY <1>2, <1>3, <1>4 DEF BudgetInv

(* A step that writes and does not close. *)
LEMMA SendInv ==
  ASSUME TypeOK, ServiceInv, NEW c \in Child,
         SendResponse(c) \/ SendErrorResponse(c)
  PROVE  ServiceInv'
<1>1. /\ pc[c] \in {"reply", "recover"}
      /\ UNCHANGED <<fd, stale, backlog, peer>>
      /\ \A d \in Child \ {c} : pc'[d] = pc[d]
  BY DEF SendResponse, SendErrorResponse, Goto, kernelVars, TypeOK
<1>2. pc[c] \in ServingState
  BY <1>1 DEF ServingState
<1>3. /\ fd[c] \in Conn
      /\ \A d \in Child \ {c} : fd[d] # fd[c]
      /\ Budget(c)
      /\ BudgetInv
  BY <1>2, ServingHolds DEF ServiceInv, BudgetInv
<1>4. PICK b \in BOOLEAN :
        /\ Send(c, b)
        /\ b /\ pc[c] = "recover" => ~stale[c]
        /\ pc[c] = "reply" => pc'[c] = IF b THEN "close" ELSE "recover"
        /\ pc[c] = "recover" => pc'[c] = "recoverClose"
  BY DEF SendResponse, SendErrorResponse, Goto, TypeOK
<1>5. tried[fd[c]] <= 1 /\ (b => answered[fd[c]] = 0)
  BY <1>1, <1>3, <1>4 DEF Budget
<1>6. /\ Charged(c)
      /\ tried'[fd[c]] = tried[fd[c]] + 1
      /\ ~b => answered'[fd[c]] = answered[fd[c]]
  BY <1>3, <1>4, <1>5, SendBudget DEF Charged
<1>7. Budget(c)'
  <2>1. CASE pc[c] = "reply"
    <3>1. tried'[fd[c]] = 1 /\ (~b => answered'[fd[c]] = 0)
      BY <1>3, <1>6, <2>1 DEF Budget
    <3>2. QED
      BY <1>1, <1>4, <2>1, <3>1 DEF Budget
  <2>2. CASE pc[c] = "recover"
    BY <1>4, <2>2 DEF Budget
  <2>3. QED
    BY <1>1, <2>1, <2>2
<1>8. BudgetInv'
  BY <1>1, <1>2, <1>6, <1>7, ChargedBudget
<1>9. PhaseInv'
  <2>1. pc'[c] \in {"close", "recover", "recoverClose"}
    BY <1>1, <1>4
  <2>2. stale[c] => pc[c] = "recover"
    BY <1>1 DEF ServiceInv, PhaseInv
  <2>3. QED
    BY <1>1, <1>2, <1>4, <2>1, <2>2 DEF ServiceInv, PhaseInv, ServingState
<1>10. QueueInv' /\ HolderInv'
  BY <1>1 DEF ServiceInv, QueueInv, HolderInv
<1>11. QED
  BY <1>8, <1>9, <1>10 DEF ServiceInv

(* Connection::close in either outcome, after a write or without one.      *)
LEMMA CloseInv ==
  ASSUME TypeOK, ServiceInv, NEW c \in Child, pc[c] \in ServingState,
         NEW s \in {"recover", "recoverClose"}, Charged(c),
         \/ CloseConn(c, "loop")
         \/ CloseThrows(c, s) /\ (s = "recover" => tried'[fd[c]] <= 1)
  PROVE  ServiceInv'
<1>1. /\ fd[c] \in Conn /\ fd[c] # NoConn
      /\ peer[fd[c]] \in {"taken", "done"}
      /\ \A d \in Child \ {c} : fd[d] # fd[c]
  BY ServingHolds
<1>2. /\ SetPeer({fd[c]}, "done")
      /\ UNCHANGED backlog
      /\ \A d \in Child \ {c} :
           pc'[d] = pc[d] /\ fd'[d] = fd[d] /\ (stale'[d] <=> stale[d])
  BY DEF CloseConn, CloseThrows, Goto, TypeOK
<1>3. /\ peer'[fd[c]] = "done"
      /\ \A k \in Conn \ {fd[c]} : peer'[k] = peer[k]
  BY <1>1, <1>2 DEF SetPeer
<1>4. \/ pc'[c] = "loop" /\ fd'[c] = NoConn /\ ~stale'[c]
      \/ pc'[c] = s /\ fd'[c] = fd[c] /\ stale'[c] /\ (s = "recover" => tried'[fd[c]] <= 1)
  BY DEF CloseConn, CloseThrows, Goto, TypeOK
<1>5. PhaseInv'
  BY <1>1, <1>2, <1>4 DEF ServiceInv, PhaseInv, ServingState
<1>6. QueueInv'
  <2>1. {fd[c]} \cap Waiting = {}
    BY <1>1 DEF Waiting
  <2>2. QED
    BY <1>2, <2>1, QueueKept DEF ServiceInv
<1>7. HolderInv'
  <2>1. \A d \in Child : fd[d] \in Conn \cup {NoConn}
    BY DEF TypeOK
  <2>2. \A d \in Child \ {c} : fd[d] # NoConn => peer'[fd[d]] = peer[fd[d]]
    BY <1>1, <1>3, <2>1
  <2>3. \A d \in Child : fd'[d] # NoConn => fd'[d] = fd[d]
    BY <1>2, <1>4
  <2>4. \A d, e \in Child : fd'[d] = fd'[e] /\ fd'[d] # NoConn => d = e
    BY <2>3 DEF ServiceInv, HolderInv
  <2>5. ASSUME NEW d \in Child, fd'[d] # NoConn
        PROVE  peer'[fd'[d]] = IF stale'[d] THEN "done" ELSE "taken"
    <3>1. CASE d = c
      BY <1>3, <1>4, <2>5, <3>1
    <3>2. CASE d # c
      <4>1. fd'[d] = fd[d] /\ peer'[fd[d]] = peer[fd[d]] /\ (stale'[d] <=> stale[d])
        BY <1>2, <2>2, <2>5, <3>2
      <4>2. QED
        BY <2>5, <4>1 DEF ServiceInv, HolderInv
    <3>3. QED
      BY <3>1, <3>2
  <2>6. QED
    BY <2>4, <2>5 DEF HolderInv
<1>8. BudgetInv'
  <2>1. Budget(c)'
    BY <1>4 DEF Budget
  <2>2. \A d \in Child \ {c} : stale'[d] = stale[d]
    BY <1>2 DEF CloseConn, CloseThrows, TypeOK
  <2>3. QED
    BY <1>2, <1>3, <2>1, <2>2, ChargedBudget
<1>9. QED
  BY <1>5, <1>6, <1>7, <1>8 DEF ServiceInv

(* Ending connections nobody else holds, and perhaps the queues with them, *)
(* while the handlers in Gone let go of theirs.                            *)
LEMMA EndInv ==
  ASSUME TypeOK, ServiceInv, NEW Gone \in SUBSET Child,
         NEW K, \A k \in K : k # NoConn /\ \E c \in Gone : fd[c] = k,
         NEW held, EndConnections(K, held),
         \A c \in Gone : pc'[c] = "zombie" /\ fd'[c] = NoConn /\ ~stale'[c],
         \A d \in Child \ Gone : pc'[d] = pc[d] /\ fd'[d] = fd[d] /\ stale'[d] = stale[d],
         UNCHANGED <<tried, answered>>
  PROVE  ServiceInv'
<1>1. \A k \in Conn : \/ peer'[k] = peer[k]
                      \/ peer'[k] = "done" /\ (k \in K \/ k \in Waiting)
  <2>1. peer \in [Conn -> PeerState]
    BY DEF TypeOK
  <2>2. QED
    BY <2>1 DEF EndConnections, SetPeer
<1>2. ASSUME NEW d \in Child \ Gone, fd[d] # NoConn
      PROVE  peer'[fd[d]] = peer[fd[d]]
  <2>1. fd[d] \in Conn /\ fd[d] \notin Waiting
    <3>1. fd[d] \in Conn
      BY <1>2 DEF TypeOK
    <3>2. peer[fd[d]] # "waiting"
      BY <1>2 DEF ServiceInv, HolderInv
    <3>3. QED
      BY <3>1, <3>2 DEF Waiting
  <2>2. fd[d] \notin K
    BY <1>2 DEF ServiceInv, HolderInv
  <2>3. peer'[fd[d]] = peer[fd[d]]
    BY <1>1, <2>1, <2>2
  <2>4. QED
    BY <2>3
<1>3. PhaseInv'
  BY DEF ServiceInv, PhaseInv, ServingState
<1>4. QueueInv'
  <2>1. K \cap Waiting = {}
    BY HeldNotWaiting DEF ServiceInv
  <2>2. QED
    BY <2>1, QueueEnd DEF ServiceInv
<1>5. HolderInv'
  <2>1. ASSUME NEW d \in Child, fd'[d] # NoConn
        PROVE  d \in Child \ Gone /\ fd'[d] = fd[d]
    BY <2>1
  <2>2. ASSUME NEW d \in Child, fd'[d] # NoConn
        PROVE  peer'[fd'[d]] = IF stale'[d] THEN "done" ELSE "taken"
    BY <1>2, <2>1, <2>2 DEF ServiceInv, HolderInv
  <2>3. \A d, e \in Child : fd'[d] = fd'[e] /\ fd'[d] # NoConn => d = e
    BY <2>1 DEF ServiceInv, HolderInv
  <2>4. QED
    BY <2>2, <2>3 DEF HolderInv
<1>6. BudgetInv'
  <2>1. \A d \in Child : Budget(d)'
    BY DEF ServiceInv, BudgetInv, Budget
  <2>2. \A k \in Conn : peer'[k] \in {"idle", "waiting"}
                          => tried'[k] = 0 /\ answered'[k] = 0
    BY <1>1 DEF ServiceInv, BudgetInv
  <2>3. AnsweredOnce'
    BY DEF ServiceInv, BudgetInv, AnsweredOnce
  <2>4. QED
    BY <2>1, <2>2, <2>3 DEF BudgetInv
<1>7. QED
  BY <1>3, <1>4, <1>5, <1>6 DEF ServiceInv

LEMMA DieInv ==
  ASSUME TypeOK, ServiceInv, NEW c \in Child, Die(c)
  PROVE  ServiceInv'
<1> DEFINE held == serverData \/ \E d \in Child \ {c} : Live(d)
<1>1. /\ pc'[c] = "zombie" /\ fd'[c] = NoConn
      /\ \A d \in Child \ {c} : pc'[d] = pc[d] /\ fd'[d] = fd[d]
      /\ UNCHANGED <<tried, answered>>
  BY DEF Die, Goto, TypeOK, replyVars
<1>2. ~stale'[c] /\ \A d \in Child \ {c} : stale'[d] = stale[d]
  BY DEF Die, TypeOK
<1>3. EndConnections({fd[c]} \ {NoConn}, held)
  BY DEF Die
<1>4. \A k \in {fd[c]} \ {NoConn} : k # NoConn /\ \E d \in {c} : fd[d] = k
  OBVIOUS
<1>5. {c} \in SUBSET Child
  OBVIOUS
<1>6. \A d \in {c} : pc'[d] = "zombie" /\ fd'[d] = NoConn /\ ~stale'[d]
  BY <1>1, <1>2
<1>7. \A d \in Child \ {c} : pc'[d] = pc[d] /\ fd'[d] = fd[d] /\ stale'[d] = stale[d]
  BY <1>1, <1>2
<1> HIDE DEF held
<1>8. QED
  BY <1>1, <1>3, <1>4, <1>5, <1>6, <1>7, EndInv

LEMMA StartReturnsInv ==
  ASSUME TypeOK, ServiceInv, StartReturns
  PROVE  ServiceInv'
<1> DEFINE held == \E c \in Child : Live(c)
<1>1. EndConnections({}, held)
  BY DEF StartReturns
<1>2. UNCHANGED <<pc, fd, stale, tried, answered>>
  BY DEF StartReturns, childVars, replyVars
<1> HIDE DEF held
<1>3. QED
  BY <1>1, <1>2, EndInv

LEMMA ConnectInv ==
  ASSUME TypeOK, ServiceInv, NEW k \in Conn, NEW f \in Families, Connect(k, f)
  PROVE  ServiceInv'
<1>1. /\ peer[k] = "idle"
      /\ UNCHANGED <<pc, fd, stale, tried, answered>>
      /\ backlog' = [backlog EXCEPT ![f] = Append(backlog[f], k)]
  BY DEF Connect, childVars, replyVars
<1>2. peer'[k] = "waiting" /\ \A j \in Conn \ {k} : peer'[j] = peer[j]
  BY DEF Connect, SetPeer
<1>3. \A d \in Child : fd[d] # NoConn => fd[d] \in Conn /\ fd[d] # k
  BY <1>1 DEF TypeOK, ServiceInv, HolderInv
<1>4. PhaseInv'
  BY <1>1 DEF ServiceInv, PhaseInv
<1>5. HolderInv'
  BY <1>1, <1>2, <1>3 DEF ServiceInv, HolderInv
<1>6. BudgetInv'
  BY <1>1, <1>2 DEF ServiceInv, BudgetInv, Budget, AnsweredOnce
<1>7. QueueInv'
  <2>1. backlog \in [Families -> Seq(Conn)]
    BY DEF TypeOK
  <2>2. backlog'[f] = Append(backlog[f], k) /\ Len(backlog'[f]) = Len(backlog[f]) + 1
    BY <1>1, <2>1
  <2>3. \A g \in Families : g # f => backlog'[g] = backlog[g]
    BY <1>1, <2>1
  <2>4. ASSUME NEW g \in Families, NEW i \in DOMAIN backlog'[g]
        PROVE  \/ i \in DOMAIN backlog[g] /\ backlog'[g][i] = backlog[g][i]
               \/ g = f /\ i = Len(backlog[f]) + 1 /\ backlog'[g][i] = k
    <3>1. CASE g = f
      BY <2>1, <2>2, <2>4, <3>1
    <3>2. CASE g # f
      BY <2>3, <2>4, <3>2
    <3>3. QED
      BY <3>1, <3>2
  <2>5. \A g \in Families : \A i \in DOMAIN backlog[g] :
          backlog[g][i] \in Conn /\ backlog[g][i] # k
    BY <1>1, <2>1 DEF ServiceInv, QueueInv
  <2>6. ASSUME NEW g \in Families, NEW i \in DOMAIN backlog'[g]
        PROVE  peer'[backlog'[g][i]] = "waiting"
    <3>1. CASE i \in DOMAIN backlog[g] /\ backlog'[g][i] = backlog[g][i]
      BY <1>2, <2>5, <3>1 DEF ServiceInv, QueueInv
    <3>2. CASE backlog'[g][i] = k
      BY <1>2, <3>2
    <3>3. QED
      BY <2>4, <3>1, <3>2
  <2>7. ASSUME NEW g \in Families, NEW h \in Families,
               NEW i \in DOMAIN backlog'[g], NEW j \in DOMAIN backlog'[h],
               backlog'[g][i] = backlog'[h][j]
        PROVE  g = h /\ i = j
    <3>1. CASE backlog'[g][i] = k
      <4>1. g = f /\ i = Len(backlog[f]) + 1
        BY <2>4, <2>5, <3>1
      <4>2. backlog'[h][j] = k
        BY <2>7, <3>1
      <4>3. h = f /\ j = Len(backlog[f]) + 1
        <5>1. \/ j \in DOMAIN backlog[h] /\ backlog'[h][j] = backlog[h][j]
              \/ h = f /\ j = Len(backlog[f]) + 1
          BY <2>4
        <5>2. QED
          BY <2>5, <4>2, <5>1
      <4>4. QED
        BY <4>1, <4>3
    <3>2. CASE backlog'[g][i] # k
      <4>1. /\ i \in DOMAIN backlog[g] /\ backlog'[g][i] = backlog[g][i]
            /\ j \in DOMAIN backlog[h] /\ backlog'[h][j] = backlog[h][j]
        BY <2>4, <2>7, <3>2
      <4>2. backlog[g][i] = backlog[h][j]
        BY <2>7, <4>1
      <4>3. QED
        BY <4>1, <4>2 DEF ServiceInv, QueueInv
    <3>3. QED
      BY <3>1, <3>2
  <2>8. QED
    BY <2>6, <2>7 DEF QueueInv
<1>8. QED
  BY <1>4, <1>5, <1>6, <1>7 DEF ServiceInv

(* Where a handler's ordinary steps lead. *)
LEMMA HandleInv ==
  ASSUME TypeOK, ServiceInv, NEW c \in Child, Handle(c)
  PROVE  ServiceInv'
<1>1. CASE BeginWait(c) \/ Select(c) \/ AcceptFails(c) \/ ReadCall(c) \/ CallFails(c)
  <2>1. UNCHANGED <<fd, stale, backlog, peer, tried, answered>>
    BY <1>1 DEF BeginWait, Select, AcceptFails, ReadCall, CallFails,
       kernelVars, replyVars
  <2>2. PICK s : Goto(c, s) /\ pc'[c] = s
    BY <1>1 DEF BeginWait, Select, AcceptFails, ReadCall, CallFails, Goto, TypeOK
  <2>3. \/ pc[c] \in {"loop", "select", "accept"} /\ s \in {"select", "accept", "loop"}
        \/ pc[c] = "read" /\ s \in {"reply", "recover"}
        \/ pc[c] = "reply" /\ s = "recover"
    <3>1. pc[c] = "loop" => fd[c] = NoConn
      BY DEF ServiceInv, PhaseInv, ServingState
    <3>2. QED
      BY <1>1, <2>2, <3>1 DEF BeginWait, Select, AcceptFails, ReadCall, CallFails,
         Goto, TypeOK
  <2>4. s \in ServingState <=> pc[c] \in ServingState
    BY <2>3 DEF ServingState
  <2>5. ~stale[c]
    BY <2>3 DEF ServiceInv, PhaseInv
  <2>6. Budget(c)'
    BY <2>1, <2>2, <2>3 DEF ServiceInv, BudgetInv, Budget
  <2>7. QED
    BY <2>1, <2>2, <2>4, <2>5, <2>6, MoveInv
<1>2. CASE Accept(c)
  BY <1>2, AcceptInv
<1>3. CASE SendResponse(c) \/ SendErrorResponse(c)
  BY <1>3, SendInv
<1>4. CASE ReadEof(c) \/ CloseConnection(c) \/ RecoverClose(c)
  <2>1. pc[c] \in {"read", "close", "recoverClose"} /\ UNCHANGED <<tried, answered>>
    BY <1>4 DEF ReadEof, CloseConnection, RecoverClose, replyVars
  <2>2. \/ CloseConn(c, "loop")
        \/ pc[c] \in {"read", "close"} /\ CloseThrows(c, "recover")
    BY <1>4 DEF ReadEof, CloseConnection, RecoverClose
  <2>3. Budget(c) /\ AnsweredOnce
    BY DEF ServiceInv, BudgetInv
  <2>4. pc[c] \in {"read", "close"} => tried'[fd[c]] <= 1
    BY <2>1, <2>3 DEF Budget
  <2>5. Charged(c)
    BY <2>1, <2>3 DEF Charged, AnsweredOnce
  <2>6. pc[c] \in ServingState
    BY <2>1 DEF ServingState
  <2>7. QED
    BY <2>2, <2>4, <2>5, <2>6, CloseInv
<1>5. CASE SendBrokenPipe(c)
  <2>1. pc[c] \in {"reply", "recover"} /\ Send(c, FALSE)
    BY <1>5 DEF SendBrokenPipe
  <2>2. pc[c] \in ServingState
    BY <2>1 DEF ServingState
  <2>3. fd[c] \in Conn /\ Budget(c) /\ BudgetInv
    BY <2>2, ServingHolds DEF ServiceInv, BudgetInv
  <2>4. tried[fd[c]] <= 1
    BY <2>1, <2>3 DEF Budget
  <2>5. Charged(c) /\ tried'[fd[c]] = tried[fd[c]] + 1
    BY <2>1, <2>3, <2>4, SendBudget DEF Charged
  <2>6. pc[c] = "reply" => tried'[fd[c]] = 1
    BY <2>3, <2>5 DEF Budget
  <2>7. \/ CloseConn(c, "loop")
        \/ pc[c] = "reply" /\ CloseThrows(c, "recover")
        \/ CloseThrows(c, "recoverClose")
    BY <1>5 DEF SendBrokenPipe
  <2>8. QED
    BY <2>2, <2>5, <2>6, <2>7, CloseInv
<1>6. CASE ExitHandler(c) \/ Killed(c)
  BY <1>6, DieInv DEF ExitHandler, Killed
<1>7. QED
  BY <1>1, <1>2, <1>3, <1>4, <1>5, <1>6 DEF Handle, Serve

LEMMA ServiceNext ==
  ASSUME TypeOK, ServiceInv, [Next]_vars
  PROVE  ServiceInv'
<1>1. ASSUME UNCHANGED <<pc, fd, stale, backlog, peer, tried, answered>>
      PROVE  ServiceInv'
  BY <1>1 DEF ServiceInv, PhaseInv, QueueInv, HolderInv, BudgetInv, Budget, AnsweredOnce
<1>2. ASSUME NEW c \in Child, Fork(c) PROVE ServiceInv'
  <2>1. /\ Goto(c, "loop") /\ pc[c] = "unborn" /\ pc'[c] = "loop"
        /\ UNCHANGED <<fd, stale, backlog, peer, tried, answered>>
    BY <1>2 DEF Fork, Goto, TypeOK, kernelVars, replyVars
  <2>2. ~stale[c]
    BY <2>1 DEF ServiceInv, PhaseInv
  <2>3. QED
    BY <2>1, <2>2, MoveInv DEF ServingState, Budget
<1>3. CASE StartReturns
  BY <1>3, StartReturnsInv
<1>4. CASE ReapHandler
  <2>1. PICK c \in Child : c = Head(pool)
    BY <1>4 DEF ReapHandler, TypeOK
  <2>2. /\ Goto(c, "reaped") /\ pc[c] = "zombie" /\ pc'[c] = "reaped"
        /\ UNCHANGED <<fd, stale, backlog, peer, tried, answered>>
    BY <1>4, <2>1 DEF ReapHandler, Goto, TypeOK, kernelVars, replyVars
  <2>3. ~stale[c]
    BY <2>2 DEF ServiceInv, PhaseInv
  <2>4. QED
    BY <2>2, <2>3, MoveInv DEF ServingState, Budget
<1>5. CASE ForkFails \/ KillHandler \/ WaitFails \/ LoopDone \/ Application
  BY <1>1, <1>5 DEF ForkFails, KillHandler, WaitFails, LoopDone, Application, ParentGoto,
     TerminateAllHandlers, WaitForAllHandlersFinish, Destroy,
     childVars, kernelVars, replyVars
<1>6. ASSUME NEW k \in Conn, NEW f \in Families, Connect(k, f) PROVE ServiceInv'
  BY <1>6, ConnectInv
<1>7. ASSUME NEW k \in Conn, HangUp(k) PROVE ServiceInv'
  BY <1>1, <1>7 DEF HangUp, childVars, replyVars
<1>8. ASSUME NEW c \in Child, Handle(c) PROVE ServiceInv'
  BY <1>8, HandleInv
<1>9. CASE UNCHANGED vars
  BY <1>1, <1>9 DEF vars, childVars, kernelVars, replyVars
<1>10. QED
  BY <1>2, <1>3, <1>4, <1>5, <1>6, <1>7, <1>8, <1>9 DEF Next, Start, Stop, Client

LEMMA PoolServiceInv == Spec => [](TypeOK /\ ServiceInv)
<1>1. Init => ServiceInv
  BY ServiceInit
<1>2. TypeOK /\ ServiceInv /\ [Next]_vars => ServiceInv'
  BY ServiceNext
<1>3. QED
  BY <1>1, <1>2, PoolType, PTL DEF Spec

(* A handler accepts only with no connection in hand, whatever has failed: *)
(* the branch of waitForCall that reads an open connection again is dead   *)
(* in the pool.                                                            *)
THEOREM PoolFresh == Spec => []FreshDescriptor
<1>1. ServiceInv => FreshDescriptor
  BY DEF ServiceInv, PhaseInv, FreshDescriptor, ServingState
<1>2. QED
  BY <1>1, PoolServiceInv, PTL

(* No client is written two complete responses, nor more than two at all.  *)
THEOREM PoolAnsweredOnce == Spec => []AnsweredOnce
<1>1. ServiceInv => AnsweredOnce
  BY DEF ServiceInv, BudgetInv
<1>2. QED
  BY <1>1, PoolServiceInv, PTL

-----------------------------------------------------------------------------
(* Whoever is about to close in the catch clause has begun to answer.      *)
TriedInv == \A c \in Child : pc[c] = "recoverClose" => tried[fd[c]] > 0

(* What a handler's step does to its own connection and to the others'.    *)
LEMMA HandleTried ==
  ASSUME TypeOK, ServiceInv, TriedInv, NEW c \in Child, Handle(c)
  PROVE  /\ \A k \in Conn : tried'[k] >= tried[k]
         /\ \A d \in Child \ {c} : pc'[d] = pc[d] /\ fd'[d] = fd[d]
         /\ pc'[c] = "recoverClose" => tried'[fd'[c]] > 0
         /\ fd[c] # NoConn /\ fd'[c] = NoConn /\ pc'[c] # "zombie"
              => tried'[fd[c]] > 0 \/ fd[c] \in hungUp
<1> USE DEF Goto
<1>1. /\ pc \in [Child -> ChildState] /\ fd \in [Child -> Conn \cup {NoConn}]
      /\ tried \in [Conn -> Nat] /\ \A d \in Child : stale[d] \in BOOLEAN
  BY DEF TypeOK
<1>2. CASE BeginWait(c) \/ Select(c) \/ AcceptFails(c) \/ ReadCall(c) \/ CallFails(c)
  <2>1. UNCHANGED <<fd, tried>> /\ pc'[c] # "recoverClose"
    BY <1>1, <1>2 DEF BeginWait, Select, AcceptFails, ReadCall, CallFails, replyVars
  <2>2. \A d \in Child \ {c} : pc'[d] = pc[d]
    BY <1>1, <1>2 DEF BeginWait, Select, AcceptFails, ReadCall, CallFails
  <2>3. QED
    BY <1>1, <2>1, <2>2
<1>3. CASE Accept(c)
  <2>1. fd[c] = NoConn
    BY <1>3 DEF Accept, ServiceInv, PhaseInv, ServingState
  <2>2. QED
    BY <1>1, <1>3, <2>1 DEF Accept, replyVars
<1>4. CASE ReadEof(c)
  BY <1>1, <1>4 DEF ReadEof, CloseConn, CloseThrows, replyVars
<1>5. CASE SendResponse(c)
  BY <1>1, <1>5, ServingHolds DEF SendResponse, Send, ServingState
<1>6. CASE SendBrokenPipe(c)
  <2>1. fd[c] \in Conn /\ tried'[fd[c]] = tried[fd[c]] + 1
    BY <1>1, <1>6, ServingHolds DEF SendBrokenPipe, Send, ServingState
  <2>2. \A k \in Conn : tried'[k] >= tried[k]
    BY <1>1, <1>6 DEF SendBrokenPipe, Send
  <2>3. /\ \A d \in Child \ {c} : pc'[d] = pc[d] /\ fd'[d] = fd[d]
        /\ pc'[c] = "recoverClose" => fd'[c] = fd[c]
    BY <1>1, <1>6 DEF SendBrokenPipe, CloseConn, CloseThrows
  <2>4. QED
    BY <1>1, <2>1, <2>2, <2>3
<1>7. CASE CloseConnection(c)
  <2>1. tried[fd[c]] = 1 /\ UNCHANGED tried
    BY <1>7 DEF CloseConnection, ServiceInv, BudgetInv, Budget, replyVars
  <2>2. QED
    BY <1>1, <1>7, <2>1 DEF CloseConnection, CloseConn, CloseThrows
<1>8. CASE SendErrorResponse(c)
  <2>1. fd[c] \in Conn
    BY <1>8, ServingHolds DEF SendErrorResponse, ServingState
  <2>2. \A k \in Conn : tried'[k] = IF k = fd[c] THEN tried[k] + 1 ELSE tried[k]
    BY <1>1, <1>8, <2>1 DEF SendErrorResponse, Send
  <2>3. UNCHANGED fd /\ \A d \in Child \ {c} : pc'[d] = pc[d]
    BY <1>1, <1>8 DEF SendErrorResponse
  <2>4. QED
    BY <1>1, <2>1, <2>2, <2>3
<1>9. CASE RecoverClose(c)
  <2>1. tried[fd[c]] > 0 /\ UNCHANGED tried
    BY <1>9 DEF RecoverClose, TriedInv, replyVars
  <2>2. QED
    BY <1>1, <1>9, <2>1 DEF RecoverClose, CloseConn
<1>10. CASE ExitHandler(c) \/ Killed(c)
  BY <1>1, <1>10 DEF ExitHandler, Killed, Die, replyVars
<1>11. QED
  BY <1>2, <1>3, <1>4, <1>5, <1>6, <1>7, <1>8, <1>9, <1>10 DEF Handle, Serve

(* Only handlers open, answer and close.                                   *)
LEMMA OthersKeepFd ==
  ASSUME TypeOK, Start \/ Stop \/ Application \/ Client \/ UNCHANGED vars
  PROVE  /\ UNCHANGED <<fd, tried>>
         /\ \A c \in Child : pc'[c] = "recoverClose" => pc[c] = "recoverClose"
<1> USE DEF Goto, childVars, replyVars, TypeOK
<1>1. CASE Start
  BY <1>1 DEF Start, Fork, ForkFails, StartReturns
<1>2. CASE Stop
  BY <1>2 DEF Stop, KillHandler, ReapHandler, WaitFails, LoopDone, ParentGoto
<1>3. CASE Application
  BY <1>3 DEF Application, ParentGoto, TerminateAllHandlers, WaitForAllHandlersFinish, Destroy
<1>4. CASE Client
  BY <1>4 DEF Client, Connect, HangUp
<1>5. CASE UNCHANGED vars
  BY <1>5 DEF vars
<1>6. QED
  BY <1>1, <1>2, <1>3, <1>4, <1>5

(* TriedInv is inductive, given where the connections are.                 *)
LEMMA TriedNext ==
  ASSUME TypeOK, ServiceInv, TriedInv, [Next]_vars
  PROVE  TriedInv'
<1>1. CASE Start \/ Stop \/ Application \/ Client \/ UNCHANGED vars
  BY <1>1, OthersKeepFd DEF TriedInv
<1>2. ASSUME NEW c \in Child, Handle(c) PROVE TriedInv'
  <2> SUFFICES ASSUME NEW d \in Child, pc'[d] = "recoverClose" PROVE tried'[fd'[d]] > 0
    BY DEF TriedInv
  <2>1. CASE d = c
    BY <1>2, <2>1, HandleTried
  <2>2. CASE d # c
    <3>1. pc[d] = "recoverClose" /\ fd'[d] = fd[d]
      BY <1>2, <2>2, HandleTried
    <3>2. fd[d] \in Conn /\ tried[fd[d]] > 0
      BY <3>1, ServingHolds DEF TriedInv, ServingState
    <3>3. tried'[fd[d]] >= tried[fd[d]] /\ tried'[fd[d]] \in Nat /\ tried[fd[d]] \in Nat
      BY <1>2, <3>2, HandleTried, TypeNext DEF TypeOK
    <3>4. QED
      BY <3>1, <3>2, <3>3
  <2>3. QED
    BY <2>1, <2>2
<1>3. QED
  BY <1>1, <1>2 DEF Next

(* A handler that lives on lets go of a client only when it has begun an   *)
(* answer or the client has hung up: no path through the serving loop and  *)
(* its catch clauses closes on a client without a word.                    *)
THEOREM PoolNoSilentDrop == Spec => NoSilentDrop
<1> DEFINE Spoken == \A c \in Child :
             fd[c] # NoConn /\ fd'[c] = NoConn /\ pc'[c] # "zombie"
               => tried'[fd[c]] > 0 \/ fd[c] \in hungUp
<1>1. Init => TriedInv
  BY DEF Init, TriedInv
<1>2. TypeOK /\ ServiceInv /\ TriedInv /\ [Next]_vars => TriedInv'
  BY TriedNext
<1>3. TypeOK /\ ServiceInv /\ TriedInv /\ [Next]_vars => Spoken
  <2> SUFFICES ASSUME TypeOK, ServiceInv, TriedInv, [Next]_vars PROVE Spoken
    OBVIOUS
  <2>1. CASE Start \/ Stop \/ Application \/ Client \/ UNCHANGED vars
    BY <2>1, OthersKeepFd
  <2>2. ASSUME NEW c \in Child, Handle(c) PROVE Spoken
    BY <2>2, HandleTried
  <2>3. QED
    BY <2>1, <2>2 DEF Next
<1>4. QED
  BY <1>1, <1>2, <1>3, PoolServiceInv, PTL DEF Spec, NoSilentDrop

-----------------------------------------------------------------------------
(* terminateAllHandlers finds in the pool whoever still lives and was      *)
(* neither signalled before nor erased by a waitpid that failed, and the   *)
(* destructor leaves its loop with an empty pool.                          *)
InPool(c) == \E i \in 1 .. Len(pool) : pool[i] = c

StopInv ==
  /\ \A c \in Child : Live(c) => InPool(c) \/ c \in signalled \cup forgotten
  /\ parent \in {"dtorWait", "destroyed"} => pool = <<>>

(* The pool loses its first handler only. *)
LEMMA InPoolTail ==
  ASSUME TypeOK, pool # <<>>, pool' = Tail(pool), NEW c \in Child, InPool(c), c # Head(pool)
  PROVE  InPool(c)'
<1>1. PICK i \in 1 .. Len(pool) : pool[i] = c
  BY DEF InPool
<1>2. pool \in Seq(Child) /\ i # 1
  BY <1>1 DEF TypeOK
<1>3. i - 1 \in 1 .. Len(pool') /\ pool'[i - 1] = c
  BY <1>1, <1>2
<1>4. QED
  BY <1>3 DEF InPool

LEMMA StopNext ==
  ASSUME TypeOK, StopInv, [Next]_vars
  PROVE  StopInv'
<1>1. ASSUME UNCHANGED <<pool, signalled, forgotten, parent>>, \A c \in Child : Live(c)' => Live(c)
      PROVE  StopInv'
  BY <1>1 DEF StopInv, InPool
<1>2. ASSUME NEW c \in Child, Handle(c) PROVE StopInv'
  <2>1. UNCHANGED <<pool, signalled, forgotten, parent>>
    BY <1>2 DEF Handle, Serve, BeginWait, Select, Accept, AcceptFails, ReadCall,
       ReadEof, CallFails, SendResponse, SendBrokenPipe, CloseConnection,
       SendErrorResponse, RecoverClose, ExitHandler, Killed, Die, parentVars
  <2>2. Live(c)
    BY <1>2 DEF Handle, Serve, BeginWait, Select, Accept, AcceptFails, ReadCall,
       ReadEof, CallFails, SendResponse, SendBrokenPipe, CloseConnection,
       SendErrorResponse, RecoverClose, ExitHandler, Killed, Live
  <2>3. \A d \in Child \ {c} : pc'[d] = pc[d]
    BY <1>2 DEF Handle, Serve, BeginWait, Select, Accept, AcceptFails, ReadCall,
       ReadEof, CallFails, SendResponse, SendBrokenPipe, CloseConnection,
       SendErrorResponse, RecoverClose, ExitHandler, Killed, Die, CloseConn,
       CloseThrows, Goto, TypeOK
  <2>4. \A d \in Child : Live(d)' => Live(d)
    BY <2>2, <2>3 DEF Live
  <2>5. QED
    BY <1>1, <2>1, <2>4
<1>3. ASSUME NEW c \in Child, Fork(c) PROVE StopInv'
  <2>1. pool' = Append(pool, c) /\ pool \in Seq(Child)
    BY <1>3 DEF Fork, TypeOK
  <2>2. parent' = "forking" /\ UNCHANGED <<signalled, forgotten>>
    BY <1>3 DEF Fork
  <2>3. \A d \in Child \ {c} : Live(d)' => Live(d)
    BY <1>3 DEF Fork, Goto, Live, TypeOK
  <2>4. ASSUME NEW d \in Child, d = c \/ InPool(d) PROVE InPool(d)'
    <3>1. CASE d = c
      <4>1. Len(pool') = Len(pool) + 1 /\ pool'[Len(pool) + 1] = c
        BY <2>1
      <4>2. Len(pool) + 1 \in 1 .. Len(pool')
        BY <2>1, <4>1
      <4>3. QED
        BY <3>1, <4>1, <4>2 DEF InPool
    <3>2. CASE InPool(d)
      <4>1. PICK i \in 1 .. Len(pool) : pool[i] = d
        BY <3>2 DEF InPool
      <4>2. i \in 1 .. Len(pool') /\ pool'[i] = d
        BY <2>1, <4>1
      <4>3. QED
        BY <4>2 DEF InPool
    <3>3. QED
      BY <2>4, <3>1, <3>2
  <2>5. QED
    BY <2>2, <2>3, <2>4 DEF StopInv
<1>4. CASE KillHandler
  <2>1. /\ pool # <<>> /\ pool' = Tail(pool)
        /\ signalled' = signalled \cup {Head(pool)} /\ forgotten' = forgotten
        /\ parent' = parent /\ parent \in {"terminate", "dtorTerminate"} /\ pc' = pc
    BY <1>4 DEF KillHandler, childVars
  <2>2. \A c \in Child : Live(c)' <=> Live(c)
    BY <2>1 DEF Live
  <2>3. \A c \in Child : InPool(c) /\ c # Head(pool) => InPool(c)'
    BY <2>1, InPoolTail
  <2>4. QED
    BY <2>1, <2>2, <2>3 DEF StopInv
<1>5. CASE ReapHandler
  <2>1. /\ pool # <<>> /\ pool' = Tail(pool) /\ pc[Head(pool)] = "zombie"
        /\ UNCHANGED <<signalled, forgotten, parent>>
    BY <1>5 DEF ReapHandler
  <2>2. Head(pool) \in Child
    BY <2>1 DEF TypeOK
  <2>3. \A c \in Child : Live(c)' => Live(c) /\ c # Head(pool)
    BY <1>5, <2>1, <2>2 DEF ReapHandler, Goto, Live, TypeOK
  <2>4. \A c \in Child : InPool(c) /\ c # Head(pool) => InPool(c)'
    BY <2>1, InPoolTail
  <2>5. QED
    BY <2>1, <2>3, <2>4 DEF StopInv
<1>10. CASE WaitFails
  <2>1. /\ pool # <<>> /\ pool' = Tail(pool) /\ parent' = parent /\ pc' = pc
        /\ signalled' = signalled /\ forgotten' = forgotten \cup {Head(pool)}
    BY <1>10 DEF WaitFails, childVars
  <2>2. \A c \in Child : Live(c)' <=> Live(c)
    BY <2>1 DEF Live
  <2>3. \A c \in Child : InPool(c) /\ c # Head(pool) => InPool(c)'
    BY <2>1, InPoolTail
  <2>4. pool = <<>> => pool' = <<>>
    BY <2>1
  <2>5. QED
    BY <2>1, <2>2, <2>3, <2>4 DEF StopInv
<1>6. CASE LoopDone \/ Application
  <2>1. /\ UNCHANGED <<pool, signalled, forgotten, pc>>
        /\ parent' \in {"dtorWait", "destroyed"} => pool = <<>>
    BY <1>6 DEF LoopDone, Application, ParentGoto, TerminateAllHandlers,
       WaitForAllHandlersFinish, Destroy, childVars
  <2>2. QED
    BY <2>1 DEF StopInv, InPool, Live
<1>7. CASE ForkFails \/ StartReturns
  <2>1. UNCHANGED <<pool, signalled, forgotten, pc>> /\ parent' = "idle"
    BY <1>7 DEF ForkFails, StartReturns, childVars
  <2>2. QED
    BY <2>1 DEF StopInv, InPool, Live
<1>8. CASE Client \/ UNCHANGED vars
  BY <1>1, <1>8 DEF Client, Connect, HangUp, vars, parentVars, childVars, Live
<1>9. QED
  BY <1>2, <1>3, <1>4, <1>5, <1>6, <1>7, <1>8, <1>10 DEF Next, Start, Stop

(* When the destructor returns, every handler that lives has been          *)
(* signalled, however start() ended and whatever was called in between,    *)
(* unless a waitpid that failed has erased its pid before: that is the one *)
(* way to lose a handler.                                                  *)
THEOREM PoolSignalled == Spec => []DestroyedSignalled
<1>1. Init => StopInv
  BY DEF Init, StopInv, Live
<1>2. TypeOK /\ StopInv /\ [Next]_vars => StopInv'
  BY StopNext
<1>3. TypeOK /\ StopInv => DestroyedSignalled
  <2>1. ASSUME StopInv, parent = "destroyed", NEW c \in Child, Live(c)
        PROVE  c \in signalled \cup forgotten
    <3>1. Len(pool) = 0
      BY <2>1 DEF StopInv
    <3>2. ~InPool(c)
      BY <3>1 DEF InPool
    <3>3. QED
      BY <2>1, <3>2 DEF StopInv
  <2>2. QED
    BY <2>1 DEF DestroyedSignalled
<1>4. QED
  BY <1>1, <1>2, <1>3, PoolType, PTL DEF Spec

-----------------------------------------------------------------------------
(***************************************************************************)
(* The refinement: which step of HandlerService each step of the pool is.  *)
(***************************************************************************)
Holder == [c \in Child |-> IF stale[c] THEN NoConn ELSE fd[c]]

LEMMA ServiceStutter ==
  ASSUME UNCHANGED <<fd, stale, peer>>
  PROVE  UNCHANGED Service!svars
BY DEF Service!svars

LEMMA ServiceWaiting == Service!Waiting = Waiting
BY DEF Service!Waiting, Waiting

(* EndConnections as the service sees it. *)
LEMMA EndStatus ==
  ASSUME NEW K, NEW held, EndConnections(K, held)
  PROVE  \E W \in SUBSET Conn : W \subseteq Waiting /\ Service!SetStatus(K \cup W, "done")
<1>1. CASE held
  <2>1. Service!SetStatus(K \cup {}, "done")
    <3>1. SetPeer(K, "done") /\ K \cup {} = K
      BY <1>1 DEF EndConnections
    <3>2. QED
      BY <3>1 DEF SetPeer, Service!SetStatus
  <2>2. QED
    BY <2>1
<1>2. CASE ~held
  <2>1. Service!SetStatus(K \cup Waiting, "done")
    BY <1>2 DEF EndConnections, SetPeer, Service!SetStatus
  <2>2. Waiting \in SUBSET Conn
    BY DEF Waiting
  <2>3. QED
    BY <2>1, <2>2
<1>3. QED
  BY <1>1, <1>2

(* A handler lets go of a connection whose close it has not seen fail.     *)
LEMMA CloseIsFinish ==
  ASSUME TypeOK, ServiceInv, NEW c \in Child, pc[c] \in ServingState, ~stale[c],
         NEW s, CloseConn(c, "loop") \/ CloseThrows(c, s)
  PROVE  Service!Finish(c, {})
<1>1. fd[c] \in Conn /\ fd[c] # NoConn
  BY ServingHolds
<1>2. /\ SetPeer({fd[c]}, "done")
      /\ \A d \in Child \ {c} : fd'[d] = fd[d] /\ stale'[d] = stale[d]
      /\ fd'[c] = NoConn \/ stale'[c]
  BY DEF CloseConn, CloseThrows, TypeOK
<1>3. Holder' = [Holder EXCEPT ![c] = NoConn]
  BY <1>2 DEF Holder
<1>4. Service!SetStatus({fd[c]} \cup {}, "done")
  <2>1. {fd[c]} \cup {} = {fd[c]}
    OBVIOUS
  <2>2. QED
    BY <1>2, <2>1 DEF SetPeer, Service!SetStatus
<1>5. Holder[c] = fd[c]
  BY DEF Holder
<1>6. QED
  BY <1>1, <1>3, <1>4, <1>5 DEF Service!Finish, Holder

LEMMA DieIsFinish ==
  ASSUME TypeOK, ServiceInv, NEW c \in Child, Die(c)
  PROVE  Service!Next \/ UNCHANGED Service!svars
<1> DEFINE K == {fd[c]} \ {NoConn}
<1>1. PICK W \in SUBSET Conn : W \subseteq Waiting /\ Service!SetStatus(K \cup W, "done")
  BY EndStatus DEF Die
<1>2. Holder' = [Holder EXCEPT ![c] = NoConn]
  BY DEF Die, Holder, TypeOK
<1>3. CASE Holder[c] # NoConn
  <2>1. K = {Holder[c]}
    BY <1>3 DEF Holder
  <2>2. Service!Finish(c, W)
    BY <1>1, <1>2, <1>3, <2>1, ServiceWaiting DEF Service!Finish, Holder
  <2>3. QED
    BY <2>2 DEF Service!Next
<1>4. CASE Holder[c] = NoConn
  <2>1. Holder' = Holder
    BY <1>2, <1>4 DEF Holder
  <2>2. \A k \in K : peer[k] = "done"
    BY <1>4 DEF Holder, ServiceInv, HolderInv
  <2>3. Service!SetStatus(W, "done")
    BY <1>1, <2>2 DEF Service!SetStatus
  <2>4. Service!TurnAway(W)
    BY <1>1, <2>1, <2>3, ServiceWaiting DEF Service!TurnAway, Holder
  <2>5. QED
    BY <2>4 DEF Service!Next
<1>5. QED
  BY <1>3, <1>4

LEMMA AcceptIsTake ==
  ASSUME TypeOK, ServiceInv, NEW c \in Child, Accept(c)
  PROVE  Service!Next
<1>1. PICK k \in Conn : k = Head(backlog[fam[c]]) /\ k \in Waiting
  <2> DEFINE k == Head(backlog[fam[c]])
  <2>1. backlog[fam[c]] \in Seq(Conn) /\ backlog[fam[c]] # <<>> /\ fam[c] \in Families
    BY DEF TypeOK, Accept
  <2>2. k = backlog[fam[c]][1] /\ 1 \in DOMAIN backlog[fam[c]] /\ k \in Conn
    BY <2>1
  <2>3. peer[k] = "waiting"
    BY <2>1, <2>2 DEF ServiceInv, QueueInv
  <2>4. QED
    BY <2>2, <2>3 DEF Waiting
<1>2. ~stale[c] /\ fd[c] = NoConn
  <2>1. pc[c] = "accept"
    BY DEF Accept
  <2>2. QED
    BY <2>1 DEF ServiceInv, PhaseInv, ServingState
<1>3. /\ fd' = [fd EXCEPT ![c] = k]
      /\ SetPeer({k}, "taken")
      /\ UNCHANGED stale
  BY <1>1 DEF Accept
<1>4. Holder' = [Holder EXCEPT ![c] = k]
  BY <1>2, <1>3 DEF Holder, TypeOK
<1>5. Service!Take(c, k)
  BY <1>1, <1>2, <1>3, <1>4, ServiceWaiting
     DEF Service!Take, Service!SetStatus, SetPeer, Holder
<1>6. \E j \in Conn : Service!Take(c, j)
  BY <1>1, <1>5
<1>7. QED
  BY <1>6 DEF Service!Next

LEMMA HandleRefines ==
  ASSUME TypeOK, ServiceInv, NEW c \in Child, Handle(c)
  PROVE  Service!Next \/ UNCHANGED Service!svars
<1>1. ASSUME Service!Finish(c, {}) PROVE Service!Next
  <2>1. {} \in SUBSET Conn
    OBVIOUS
  <2>2. QED
    BY <1>1, <2>1 DEF Service!Next
<1>2. CASE \/ BeginWait(c) \/ Select(c) \/ AcceptFails(c) \/ ReadCall(c)
           \/ CallFails(c) \/ SendResponse(c) \/ SendErrorResponse(c)
  <2>1. UNCHANGED <<fd, stale, peer>>
    BY <1>2 DEF BeginWait, Select, AcceptFails, ReadCall, CallFails, SendResponse,
       SendErrorResponse, kernelVars
  <2>2. QED
    BY <2>1, ServiceStutter
<1>3. CASE Accept(c)
  BY <1>3, AcceptIsTake
<1>4. CASE ReadEof(c) \/ CloseConnection(c) \/ RecoverClose(c) \/ SendBrokenPipe(c)
  <2>1. /\ pc[c] \in ServingState
        /\ \E s : CloseConn(c, "loop") \/ CloseThrows(c, s)
    BY <1>4 DEF ReadEof, CloseConnection, RecoverClose, SendBrokenPipe, ServingState
  <2>2. ~stale[c]
    <3>1. CASE ReadEof(c) \/ CloseConnection(c)
      <4>1. pc[c] \in {"read", "close"}
        BY <3>1 DEF ReadEof, CloseConnection
      <4>2. QED
        BY <4>1 DEF ServiceInv, PhaseInv
    <3>2. CASE RecoverClose(c) \/ SendBrokenPipe(c)
      BY <3>2 DEF RecoverClose, SendBrokenPipe, CloseConn
    <3>3. QED
      BY <1>4, <3>1, <3>2
  <2>3. QED
    BY <1>1, <2>1, <2>2, CloseIsFinish
<1>5. CASE ExitHandler(c) \/ Killed(c)
  BY <1>5, DieIsFinish DEF ExitHandler, Killed
<1>6. QED
  BY <1>2, <1>3, <1>4, <1>5 DEF Handle, Serve

LEMMA NextRefines ==
  ASSUME TypeOK, ServiceInv, [Next]_vars
  PROVE  Service!Next \/ UNCHANGED Service!svars
<1>1. CASE UNCHANGED <<fd, stale, peer>>
  BY <1>1, ServiceStutter
<1>2. CASE StartReturns
  <2>1. PICK W \in SUBSET Conn : W \subseteq Waiting /\ Service!SetStatus({} \cup W, "done")
    BY <1>2, EndStatus DEF StartReturns
  <2>2. Service!SetStatus(W, "done")
    <3>1. {} \cup W = W
      OBVIOUS
    <3>2. QED
      BY <2>1, <3>1
  <2>3. UNCHANGED <<fd, stale>>
    BY <1>2 DEF StartReturns, childVars
  <2>4. Service!TurnAway(W)
    BY <2>1, <2>2, <2>3, ServiceWaiting DEF Service!TurnAway
  <2>5. QED
    BY <2>4 DEF Service!Next
<1>3. ASSUME NEW k \in Conn, NEW f \in Families, Connect(k, f)
      PROVE  Service!Next
  <2>1. Service!Arrive(k)
    BY <1>3 DEF Connect, SetPeer, Service!Arrive, Service!SetStatus, childVars
  <2>2. QED
    BY <2>1 DEF Service!Next
<1>4. ASSUME NEW c \in Child, Handle(c)
      PROVE  Service!Next \/ UNCHANGED Service!svars
  BY <1>4, HandleRefines
<1>5. ASSUME NEW c \in Child, Fork(c) PROVE UNCHANGED <<fd, stale, peer>>
  BY <1>5 DEF Fork, kernelVars
<1>6. CASE ForkFails \/ Stop \/ Application
  <2>1. UNCHANGED <<fd, stale, peer>>
    BY <1>6 DEF ForkFails, Stop, KillHandler, ReapHandler, WaitFails, LoopDone, Application,
       ParentGoto, TerminateAllHandlers, WaitForAllHandlersFinish, Destroy,
       childVars, kernelVars
  <2>2. QED
    BY <1>1, <2>1
<1>7. ASSUME NEW k \in Conn, HangUp(k) PROVE UNCHANGED <<fd, stale, peer>>
  BY <1>7 DEF HangUp, childVars
<1>8. CASE UNCHANGED vars
  BY <1>1, <1>8 DEF vars, childVars, kernelVars
<1>9. QED
  BY <1>1, <1>2, <1>3, <1>4, <1>5, <1>6, <1>7, <1>8 DEF Next, Start, Client

(* The pool implements the service: every client is taken by one handler   *)
(* at most, kept by it and finished for good, whichever handlers race for  *)
(* it, fail or are killed.                                                 *)
THEOREM PoolImplementsService == Spec => ServiceSpec
<1>1. Init => Service!Init
  <2>1. ASSUME Init PROVE peer = [k \in Conn |-> "idle"]
    BY <2>1 DEF Init
  <2>2. ASSUME Init PROVE [c \in Child |-> IF stale[c] THEN NoConn ELSE fd[c]]
                            = [h \in Child |-> NoConn]
    BY <2>2 DEF Init
  <2>3. QED
    BY <2>1, <2>2 DEF Service!Init
<1>2. TypeOK /\ ServiceInv /\ [Next]_vars => [Service!Next]_Service!svars
  BY NextRefines
<1>3. QED
  BY <1>1, <1>2, PoolServiceInv, PTL DEF Spec, ServiceSpec, Service!Spec
=============================================================================
