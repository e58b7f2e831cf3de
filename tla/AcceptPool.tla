----------------------------- MODULE AcceptPool -----------------------------
(***************************************************************************)
(* The pre-forked RPC server: MultiProcessRpcServer (ulxr_mprpc_server),   *)
(* the accept path of TcpIpConnection (select on the shared listening      *)
(* sockets, then a blocking ::accept), and the close and write paths of    *)
(* Connection, as far as they decide which handler holds which client and  *)
(* what each client is sent.                                               *)
(*                                                                         *)
(* The parent forks its handlers and lets go of the listening sockets; the *)
(* handlers compete for the clients queued in the kernel.  The kernel (its *)
(* accept queues, EPIPE, close on exit, SIGKILL) and the clients are       *)
(* modelled from the way the code uses them.                               *)
(***************************************************************************)
EXTENDS Naturals, Sequences, FiniteSets

CONSTANTS
  Child,        \* the handlers the server forks, theNumProcesses of them
  Families,     \* the address families listened on (isIpv4, isIpv6)
  Conn,         \* client connections, each used at most once
  NoConn,       \* no descriptor (fd_handle = -1)
  CloseMayFail, \* whether ::close can return an error
  ForkMayFail,  \* whether fork can return -1
  AppMayStop    \* whether the application ever waits for or stops the pool

ASSUME ChildAssumption == Child # {}      \* the constructor throws on 0
ASSUME FamiliesAssumption == Families # {} /\ Families \subseteq {"v4", "v6"}
ASSUME NoConnAssumption == NoConn \notin Conn
ASSUME FlagsAssumption == {CloseMayFail, ForkMayFail, AppMayStop} \subseteq BOOLEAN

VARIABLES
  parent,      \* where the parent process is
  startFailed, \* start() threw because fork failed
  serverData,  \* the parent still holds the listening sockets
  pool,        \* theProcessPool
  signalled,   \* handlers with a pending SIGKILL
  forgotten,   \* history: living handlers whose pid a failed waitpid erased
  pc,          \* where each handler is
  fam,         \* the family a handler's accept() settled on
  fd,          \* fd_handle of each handler's connection
  stale,       \* close() failed: fd_handle is kept, the kernel's is gone
  backlog,     \* kernel accept queue of each listening socket
  peer,        \* each client connection, as the kernel sees it
  hungUp,      \* clients that have closed their end
  tried,       \* responses begun on each connection
  answered     \* responses written completely on each connection

parentVars == <<parent, startFailed, serverData, pool, signalled, forgotten>>
childVars  == <<pc, fam, fd, stale>>
kernelVars == <<backlog, peer, hungUp>>
replyVars  == <<tried, answered>>
vars == <<parentVars, childVars, kernelVars, replyVars>>

ParentState == {"forking", "idle", "terminate", "wait",
                "dtorTerminate", "dtorWait", "destroyed"}
ServingState == {"read", "reply", "close", "recover", "recoverClose"}
ChildState == {"unborn", "loop", "select", "accept", "zombie", "reaped"}
                \cup ServingState
PeerState == {"idle", "waiting", "taken", "done"}

AnyFamily == CHOOSE f \in Families : TRUE   \* fam is set before it is used

Init ==
  /\ parent = "forking"
  /\ startFailed = FALSE
  /\ serverData = TRUE
  /\ pool = <<>>
  /\ signalled = {}
  /\ forgotten = {}
  /\ pc = [c \in Child |-> "unborn"]
  /\ fam = [c \in Child |-> AnyFamily]
  /\ fd = [c \in Child |-> NoConn]
  /\ stale = [c \in Child |-> FALSE]
  /\ backlog = [f \in Families |-> <<>>]
  /\ peer = [k \in Conn |-> "idle"]
  /\ hungUp = {}
  /\ tried = [k \in Conn |-> 0]
  /\ answered = [k \in Conn |-> 0]

Live(c) == pc[c] \notin {"unborn", "zombie", "reaped"}
Waiting == {k \in Conn : peer[k] = "waiting"}

(* Some process holds the listening sockets. *)
Listening == serverData \/ \E c \in Child : Live(c)

-----------------------------------------------------------------------------
(* The kernel.                                                             *)

Goto(c, s) == pc' = [pc EXCEPT ![c] = s]

SetPeer(K, s) == peer' = [k \in Conn |-> IF k \in K THEN s ELSE peer[k]]

(* The connections of K end.  When no holder of the listening sockets is   *)
(* left the kernel also resets every connection that still waits.          *)
EndConnections(K, held) ==
  IF held
  THEN SetPeer(K, "done") /\ UNCHANGED backlog
  ELSE SetPeer(K \cup Waiting, "done") /\ backlog' = [f \in Families |-> <<>>]

(* A handler process ends: its descriptors go with it. *)
Die(c) ==
  /\ Goto(c, "zombie")
  /\ fd' = [fd EXCEPT ![c] = NoConn]
  /\ stale' = [stale EXCEPT ![c] = FALSE]
  /\ EndConnections({fd[c]} \ {NoConn},
                    serverData \/ \E d \in Child \ {c} : Live(d))
  /\ UNCHANGED <<parentVars, fam, hungUp, replyVars>>

(* Pending SIGKILL is delivered. *)
Killed(c) ==
  /\ Live(c)
  /\ c \in signalled
  /\ Die(c)

-----------------------------------------------------------------------------
(* Clients.                                                                *)

Connect(k, f) ==
  /\ Listening
  /\ peer[k] = "idle"
  /\ SetPeer({k}, "waiting")
  /\ backlog' = [backlog EXCEPT ![f] = Append(@, k)]
  /\ UNCHANGED <<parentVars, childVars, hungUp, replyVars>>

HangUp(k) ==
  /\ peer[k] \in {"waiting", "taken"}
  /\ k \notin hungUp
  /\ hungUp' = hungUp \cup {k}
  /\ UNCHANGED <<parentVars, childVars, backlog, peer, replyVars>>

-----------------------------------------------------------------------------
(* The parent: start(), terminateAllHandlers(), waitForAllHandlersFinish() *)
(* and the destructor, which calls the two in this order.                  *)

Fork(c) ==
  /\ parent = "forking"
  /\ pc[c] = "unborn"
  /\ Goto(c, "loop")
  /\ pool' = Append(pool, c)
  /\ UNCHANGED <<parent, startFailed, serverData, signalled, forgotten,
                 fam, fd, stale, kernelVars, replyVars>>

(* start() throws: the handlers forked so far go on, stopServing() is not  *)
(* called.                                                                 *)
ForkFails ==
  /\ ForkMayFail
  /\ parent = "forking"
  /\ \E c \in Child : pc[c] = "unborn"
  /\ parent' = "idle"
  /\ startFailed' = TRUE
  /\ UNCHANGED <<serverData, pool, signalled, forgotten,
                 childVars, kernelVars, replyVars>>

StartReturns_KeepsServing ==   \* mutant: no stopServing()
  /\ parent = "forking"
  /\ \A c \in Child : pc[c] # "unborn"
  /\ parent' = "idle"
  /\ UNCHANGED <<startFailed, serverData, pool, signalled, forgotten,
                 childVars, kernelVars, replyVars>>

StartReturns ==
  /\ parent = "forking"
  /\ \A c \in Child : pc[c] # "unborn"
  /\ parent' = "idle"
  /\ serverData' = FALSE
  /\ EndConnections({}, \E c \in Child : Live(c))
  /\ UNCHANGED <<startFailed, pool, signalled, forgotten, childVars, hungUp, replyVars>>

ParentGoto(from, to) ==
  /\ parent = from
  /\ parent' = to
  /\ UNCHANGED <<startFailed, serverData, pool, signalled, forgotten,
                 childVars, kernelVars, replyVars>>

TerminateAllHandlers == ParentGoto("idle", "terminate")
WaitForAllHandlersFinish == ParentGoto("idle", "wait")
Destroy == ParentGoto("idle", "dtorTerminate")

KillHandler_NoSignal ==   \* mutant: the pid is erased before kill() sees it
  /\ parent \in {"terminate", "dtorTerminate"}
  /\ pool # <<>>
  /\ pool' = Tail(pool)
  /\ UNCHANGED <<parent, startFailed, serverData, signalled, forgotten,
                 childVars, kernelVars, replyVars>>

KillHandler ==
  /\ parent \in {"terminate", "dtorTerminate"}
  /\ pool # <<>>
  /\ signalled' = signalled \cup {Head(pool)}
  /\ pool' = Tail(pool)
  /\ UNCHANGED <<parent, startFailed, serverData, forgotten,
                 childVars, kernelVars, replyVars>>

(* waitpid on the first handler of the pool; the others wait their turn. *)
ReapHandler ==
  /\ parent \in {"wait", "dtorWait"}
  /\ pool # <<>>
  /\ pc[Head(pool)] = "zombie"
  /\ Goto(Head(pool), "reaped")
  /\ pool' = Tail(pool)
  /\ UNCHANGED <<parent, startFailed, serverData, signalled, forgotten,
                 fam, fd, stale, kernelVars, replyVars>>

(* A signal interrupts waitpid; the result is not looked at and the pid is *)
(* erased as if the handler had ended.                                     *)
WaitFails ==
  /\ parent \in {"wait", "dtorWait"}
  /\ pool # <<>>
  /\ Live(Head(pool))
  /\ forgotten' = forgotten \cup {Head(pool)}
  /\ pool' = Tail(pool)
  /\ UNCHANGED <<parent, startFailed, serverData, signalled,
                 childVars, kernelVars, replyVars>>

LoopDone ==
  /\ pool = <<>>
  /\ \/ ParentGoto("terminate", "idle")
     \/ ParentGoto("wait", "idle")
     \/ ParentGoto("dtorTerminate", "dtorWait")
     \/ ParentGoto("dtorWait", "destroyed")

-----------------------------------------------------------------------------
(* A handler waits for a call: Dispatcher::waitForCall and                 *)
(* TcpIpConnection::accept.                                                *)

(* An open connection would be reset and read again instead of accepting. *)
BeginWait(c) ==
  /\ pc[c] = "loop"
  /\ Goto(c, IF fd[c] = NoConn THEN "select" ELSE "read")
  /\ UNCHANGED <<parentVars, fam, fd, stale, kernelVars, replyVars>>

Select_FirstFamily(c) ==   \* mutant: FD_ISSET is not asked which socket is ready
  /\ pc[c] = "select"
  /\ \E f \in Families : backlog[f] # <<>>
  /\ fam' = [fam EXCEPT ![c] = IF "v4" \in Families THEN "v4" ELSE "v6"]
  /\ Goto(c, "accept")
  /\ UNCHANGED <<parentVars, fd, stale, kernelVars, replyVars>>

Select_OnlyV6(c) ==   \* mutant: IPv4 is left out of the set when IPv6 is there
  /\ pc[c] = "select"
  /\ \E f \in Families :
       /\ backlog[f] # <<>>
       /\ f = "v4" => "v6" \notin Families
       /\ fam' = [fam EXCEPT ![c] = f]
  /\ Goto(c, "accept")
  /\ UNCHANGED <<parentVars, fd, stale, kernelVars, replyVars>>

(* waitForConnection: select returns once a queue is not empty; IPv6 is    *)
(* preferred if both have a client.                                        *)
Select(c) ==
  /\ pc[c] = "select"
  /\ \E f \in Families :
       /\ backlog[f] # <<>>
       /\ f = "v4" => "v6" \notin Families \/ backlog["v6"] = <<>>
       /\ fam' = [fam EXCEPT ![c] = f]
  /\ Goto(c, "accept")
  /\ UNCHANGED <<parentVars, fd, stale, kernelVars, replyVars>>

(* ::accept blocks until the family's queue has a client. *)
Accept(c) ==
  /\ pc[c] = "accept"
  /\ backlog[fam[c]] # <<>>
  /\ fd' = [fd EXCEPT ![c] = Head(backlog[fam[c]])]
  /\ SetPeer({Head(backlog[fam[c]])}, "taken")
  /\ backlog' = [backlog EXCEPT ![fam[c]] = Tail(@)]
  /\ Goto(c, "read")
  /\ UNCHANGED <<parentVars, fam, stale, hungUp, replyVars>>

(* ::accept fails (no descriptor, no memory): accept() throws and the      *)
(* handler loop swallows it, the connection not being open.                *)
AcceptFails(c) ==
  /\ pc[c] = "accept"
  /\ Goto(c, "loop")
  /\ UNCHANGED <<parentVars, fam, fd, stale, kernelVars, replyVars>>

-----------------------------------------------------------------------------
(* A handler serves a call: one pass through the try block of              *)
(* startChildLoop and through the catch clause that takes its exceptions.  *)

CloseConn_KeepsHandle(c, s) ==   \* mutant: fd_handle is not reset
  /\ ~stale[c]
  /\ Goto(c, s)
  /\ SetPeer({fd[c]}, "done")
  /\ UNCHANGED <<fd, stale, backlog>>

(* Connection::close succeeds and the handler goes on at s. *)
CloseConn(c, s) ==
  /\ ~stale[c]
  /\ Goto(c, s)
  /\ fd' = [fd EXCEPT ![c] = NoConn]
  /\ SetPeer({fd[c]}, "done")
  /\ UNCHANGED <<stale, backlog>>

(* Connection::close throws and leaves fd_handle as it was; the kernel has *)
(* let go of the descriptor, so it fails again whenever it is used.        *)
CloseThrows(c, s) ==
  /\ CloseMayFail
  /\ Goto(c, s)
  /\ stale' = [stale EXCEPT ![c] = TRUE]
  /\ SetPeer({fd[c]}, "done")
  /\ UNCHANGED <<fd, backlog>>

ReadCall(c) ==
  /\ pc[c] = "read"
  /\ Goto(c, "reply")
  /\ UNCHANGED <<parentVars, fam, fd, stale, kernelVars, replyVars>>

(* End of file: Connection::read closes and throws. *)
ReadEof(c) ==
  /\ pc[c] = "read"
  /\ fd[c] \in hungUp
  /\ CloseConn(c, "loop") \/ CloseThrows(c, "recover")
  /\ UNCHANGED <<parentVars, fam, hungUp, replyVars>>

(* Timeout, malformed header or XML, an exception of the application's     *)
(* hooks: the connection stays open.                                       *)
CallFails(c) ==
  /\ pc[c] \in {"read", "reply"}
  /\ Goto(c, "recover")
  /\ UNCHANGED <<parentVars, fam, fd, stale, kernelVars, replyVars>>

(* The bookkeeping of one sendRpcResponse, written completely or not. *)
Send(c, complete) ==
  /\ tried' = [tried EXCEPT ![fd[c]] = @ + 1]
  /\ answered' = [answered EXCEPT ![fd[c]] = IF complete THEN @ + 1 ELSE @]

SendResponse(c) ==
  /\ pc[c] = "reply"
  /\ \/ Send(c, TRUE) /\ Goto(c, "close")
     \/ Send(c, FALSE) /\ Goto(c, "recover")      \* write timeout or error
  /\ UNCHANGED <<parentVars, fam, fd, stale, kernelVars>>

(* EPIPE: Connection::write closes and throws. *)
SendBrokenPipe(c) ==
  /\ pc[c] \in {"reply", "recover"}
  /\ ~stale[c]
  /\ fd[c] \in hungUp
  /\ Send(c, FALSE)
  /\ \/ CloseConn(c, "loop")
     \/ CloseThrows(c, IF pc[c] = "reply" THEN "recover" ELSE "recoverClose")
  /\ UNCHANGED <<parentVars, fam, hungUp>>

CloseConnection_Skipped(c) ==   \* mutant: the answered connection stays open
  /\ pc[c] = "close"
  /\ Goto(c, "loop")
  /\ UNCHANGED <<parentVars, fam, fd, stale, kernelVars, replyVars>>

CloseConnection(c) ==
  /\ pc[c] = "close"
  /\ CloseConn(c, "loop") \/ CloseThrows(c, "recover")
  /\ UNCHANGED <<parentVars, fam, hungUp, replyVars>>

SendErrorResponse_Skipped(c) ==   \* mutant: the catch clause only closes
  /\ pc[c] = "recover"
  /\ Goto(c, "recoverClose")
  /\ UNCHANGED <<parentVars, fam, fd, stale, kernelVars, replyVars>>

(* The catch clause sends an error response and forgets whether it could. *)
SendErrorResponse(c) ==
  /\ pc[c] = "recover"
  /\ \E complete \in BOOLEAN : ~(complete /\ stale[c]) /\ Send(c, complete)
  /\ Goto(c, "recoverClose")
  /\ UNCHANGED <<parentVars, fam, fd, stale, kernelVars>>

RecoverClose_Skipped(c) ==   \* mutant: the catch clause only answers
  /\ pc[c] = "recoverClose"
  /\ Goto(c, "loop")
  /\ UNCHANGED <<parentVars, fam, fd, stale, kernelVars, replyVars>>

RecoverClose(c) ==
  /\ pc[c] = "recoverClose"
  /\ CloseConn(c, "loop")
  /\ UNCHANGED <<parentVars, fam, hungUp, replyVars>>

(* closeConnection() throws out of the catch clause, out of                *)
(* startChildLoop and into start(), which calls _exit(1).                  *)
ExitHandler(c) ==
  /\ pc[c] = "recoverClose"
  /\ CloseMayFail \/ stale[c]
  /\ Die(c)

-----------------------------------------------------------------------------
Serve(c) ==
  \/ ReadCall(c) \/ ReadEof(c) \/ CallFails(c)
  \/ SendResponse(c) \/ SendBrokenPipe(c) \/ CloseConnection(c)
  \/ SendErrorResponse(c) \/ RecoverClose(c) \/ ExitHandler(c)

Handle(c) ==
  BeginWait(c) \/ Select(c) \/ Accept(c) \/ AcceptFails(c) \/ Serve(c) \/ Killed(c)

Start == (\E c \in Child : Fork(c)) \/ ForkFails \/ StartReturns

Stop == KillHandler \/ ReapHandler \/ WaitFails \/ LoopDone

Application ==
  AppMayStop /\ (TerminateAllHandlers \/ WaitForAllHandlersFinish \/ Destroy)

Client ==
  \/ \E k \in Conn, f \in Families : Connect(k, f)
  \/ \E k \in Conn : HangUp(k)

Next ==
  \/ Start \/ Stop \/ Application \/ Client
  \/ \E c \in Child : Handle(c)

Spec == Init /\ [][Next]_vars

-----------------------------------------------------------------------------
TypeOK ==
  /\ parent \in ParentState
  /\ startFailed \in BOOLEAN
  /\ serverData \in BOOLEAN
  /\ pool \in Seq(Child)
  /\ signalled \subseteq Child
  /\ forgotten \subseteq Child
  /\ pc \in [Child -> ChildState]
  /\ fam \in [Child -> Families]
  /\ fd \in [Child -> Conn \cup {NoConn}]
  /\ stale \in [Child -> BOOLEAN]
  /\ backlog \in [Families -> Seq(Conn)]
  /\ peer \in [Conn -> PeerState]
  /\ hungUp \subseteq Conn
  /\ tried \in [Conn -> Nat]
  /\ answered \in [Conn -> Nat]

(* A handler accepts only with no connection in hand: the resetConnection  *)
(* branch of waitForCall, which would read a second call from a connection *)
(* already answered, is never taken by a pool handler, whatever failed.    *)
FreshDescriptor ==
  \A c \in Child : pc[c] \in {"loop", "select", "accept"} => fd[c] = NoConn

(* No client is written two complete responses, and none is written to     *)
(* more than twice: the catch clauses answer only for a response that      *)
(* failed or a descriptor that is gone.                                    *)
AnsweredOnce == \A k \in Conn : answered[k] <= 1 /\ tried[k] <= 2

(* Losing the race for a client leaves a handler blocked in ::accept on    *)
(* one family, deaf to the other.  As long as no handler has died, they    *)
(* are never all stuck like this on empty queues: whoever takes the client *)
(* a loser was after is itself free to look at every family again.         *)
SomeHandlerReady ==
  (\E c \in Child : pc[c] # "unborn") /\ (\A c \in Child : pc[c] \notin {"zombie", "reaped"})
    => \E c \in Child : Live(c) /\ (pc[c] = "accept" => backlog[fam[c]] # <<>>)

(* Once start() has returned, a client waits only where a handler lives to *)
(* take it: the parent let go of the sockets, so with the last handler the *)
(* kernel resets the queue instead of leaving clients to hang.             *)
NoOrphans ==
  parent # "forking" /\ ~startFailed /\ Waiting # {} => \E c \in Child : Live(c)

(* A handler that lives on never lets go of a client it has not tried to   *)
(* answer, unless the client closed first.                                 *)
NoSilentDrop ==
  [][\A c \in Child :
       fd[c] # NoConn /\ fd'[c] = NoConn /\ pc'[c] # "zombie"
         => tried'[fd[c]] > 0 \/ fd[c] \in hungUp]_vars

(* The pool implements the service promised to clients: every connection   *)
(* is taken by one handler at most, kept by it, and finished for good.     *)
Service == INSTANCE HandlerService WITH
  Handler <- Child,
  status <- peer,
  holder <- [c \in Child |-> IF stale[c] THEN NoConn ELSE fd[c]]
ServiceSpec == Service!Spec

(* The destructor has signalled every handler that still lives, also those *)
(* of a start() that threw halfway or of a pool that was stopped before: a *)
(* handler goes on for ever only if a waitpid that failed has forgotten    *)
(* it.                                                                     *)
DestroyedSignalled ==
  parent = "destroyed" => \A c \in Child : Live(c) => c \in signalled \cup forgotten
=============================================================================
