----------------------------- MODULE PoolClients -----------------------------
(***************************************************************************)
(* The pool of AcceptPool under clients that never stop coming and that    *)
(* send their calls in parts: the preference for IPv6 in accept() and the  *)
(* timeout of Connection::read, which starts anew with every read that the *)
(* loop of Dispatcher::waitForCall makes.  A connection that is over is    *)
(* used again for the next client, so clients come for ever.               *)
(***************************************************************************)
EXTENDS AcceptPool

VARIABLE sent   \* connections on which there is something to read

openVars == <<vars, sent>>

OpenInit == Init /\ sent = {}

-----------------------------------------------------------------------------
(* The clients.                                                            *)

(* What a client sends after its call is never read, and left out. *)
SendPart(k) ==
  /\ peer[k] = "waiting" \/ \E c \in Child : fd[c] = k /\ pc[c] = "read"
  /\ k \notin hungUp \cup sent
  /\ sent' = sent \cup {k}
  /\ UNCHANGED vars

NextClient(k) ==
  /\ peer[k] = "done"
  /\ \A c \in Child : fd[c] # k
  /\ SetPeer({k}, "idle")
  /\ hungUp' = hungUp \ {k}
  /\ tried' = [tried EXCEPT ![k] = 0]
  /\ answered' = [answered EXCEPT ![k] = 0]
  /\ sent' = sent \ {k}
  /\ UNCHANGED <<parentVars, childVars, backlog>>

-----------------------------------------------------------------------------
(* A handler reads.                                                        *)

(* The call is not complete: waitForCall reads on. *)
ReadPart(c) ==
  /\ pc[c] = "read"
  /\ fd[c] \in sent
  /\ sent' = sent \ {fd[c]}
  /\ UNCHANGED vars

ReadRest(c) ==
  /\ fd[c] \in sent
  /\ sent' = sent \ {fd[c]}
  /\ ReadCall(c)

ReadFails_NoTimeout(c) ==   \* mutant: read waits until something comes
  /\ fd[c] \in sent
  /\ CallFails(c)
  /\ sent' = sent \ {fd[c]}

(* A timeout, or what has been read is malformed. *)
ReadFails(c) ==
  /\ CallFails(c)
  /\ sent' = sent \ {fd[c]}

(* What was sent before the client closed is read first. *)
ServePart(c) ==
  \/ ReadPart(c) \/ ReadRest(c) \/ ReadFails(c)
  \/ /\ \/ fd[c] \notin sent /\ ReadEof(c)
        \/ SendResponse(c) \/ SendBrokenPipe(c) \/ CloseConnection(c)
        \/ SendErrorResponse(c) \/ RecoverClose(c) \/ ExitHandler(c)
     /\ UNCHANGED sent

OpenNext ==
  \/ \E k \in Conn : SendPart(k) \/ NextClient(k)
  \/ \E c \in Child : ServePart(c)
  \/ /\ \/ Start \/ Stop \/ Application \/ Client
        \/ \E c \in Child :
             BeginWait(c) \/ Select(c) \/ Accept(c) \/ AcceptFails(c) \/ Killed(c)
     /\ UNCHANGED sent

(* The scheduler runs every process; each single read and write ends by    *)
(* its select timeout, and user methods return; ::accept does not fail for *)
(* ever while it could succeed.  Nothing obliges clients to arrive, to     *)
(* send or to hang up, or the application to stop the server.              *)
HandlerFairness(c) ==
  /\ WF_openVars(BeginWait(c) /\ UNCHANGED sent)
  /\ WF_openVars(Select(c) /\ UNCHANGED sent)
  /\ SF_openVars(Accept(c) /\ UNCHANGED sent)
  /\ WF_openVars(ServePart(c))

OpenSpec ==
  /\ OpenInit
  /\ [][OpenNext]_openVars
  /\ WF_openVars(Start /\ UNCHANGED sent)
  /\ \A c \in Child : HandlerFairness(c)

-----------------------------------------------------------------------------
(* A handler is for ever busy with a client only if that client goes on    *)
(* sending: each part is read and each read has a timeout of its own.  A   *)
(* silent client, or one that fails at any later point, is got rid of.     *)
TakenFinished ==
  \A k \in Conn :
    []<>(peer[k] # "taken") \/ ([]<>(k \in sent) /\ []<>(k \notin sent))

(* No handler will ever look at the queues again: it has ended, is held by *)
(* a client, or has lost the race for one and is blocked on one family.    *)
NobodyFree ==
  \A c \in Child :
    \/ ~Live(c)
    \/ pc[c] = "read"
    \/ pc[c] = "accept" /\ backlog[fam[c]] = <<>>

TakesV6 == \E c \in Child : fam[c] = "v6" /\ Accept(c)

QueuedOn(k, f) == \E i \in DOMAIN backlog[f] : backlog[f][i] = k

(* A client waits for ever only if handlers are for ever held by clients   *)
(* that go on sending, or dead, and the others deaf to its family; or if   *)
(* it is on IPv4 and handlers go on taking clients from IPv6, which they   *)
(* prefer.                                                                 *)
WaitingServed ==
  \A k \in Conn :
    \/ []<>(peer[k] # "waiting")
    \/ <>[]NobodyFree
    \/ <>[]QueuedOn(k, "v4") /\ []<><<TakesV6>>_openVars
=============================================================================
