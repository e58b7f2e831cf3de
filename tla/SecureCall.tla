----------------------------- MODULE SecureCall -----------------------------
(***************************************************************************)
(* A Requester making authenticated calls over an SSLConnection: two       *)
(* pieces of state that outlive a call and its connection, theSSL (with    *)
(* fd_handle) and the one-time header fields of HttpProtocol, and on the   *)
(* server the header fields that checkAuthentication looks at.             *)
(*                                                                         *)
(* The server's handler is MultiProcessRpcServer's, whose application      *)
(* checks the credentials after waitForCall and answers those it does not  *)
(* know by a fault, or by rejectAuthentication as tests/secure_server.cpp  *)
(* does.  OpenSSL and the kernel are modelled from the way they are used.  *)
(* Requests are whole; what becomes of cut-off ones is RpcExchange's.      *)
(***************************************************************************)
EXTENDS Naturals, Sequences

CONSTANTS
  NumCalls,  \* how many calls the application makes
  Users,     \* user names, each with its password
  AuthData,  \* those the server knows; {} if it accepts all
  NoUser,    \* a call without credentials
  AppCloses  \* whether the application closes after a call that threw

ASSUME NumCallsAssumption == NumCalls \in Nat \ {0}
ASSUME UsersAssumption == NoUser \notin Users /\ AuthData \subseteq Users
ASSUME AppClosesAssumption == AppCloses \in BOOLEAN

Call == 1 .. NumCalls
Conn == 1 .. NumCalls   \* TCP connections; at most one is opened per call
NoConn == 0             \* fd_handle = -1

VARIABLES
  pc,             \* where the requester is
  caller,         \* the user each call is made for
  made,           \* calls made so far
  result,         \* how each call ended
  userTempFields, \* users whose Authorization field waits to be sent
  composed,       \* calls whose header has been composed
  fd,             \* the requester's descriptor
  stale,          \* ::close failed: fd_handle is kept, the kernel's is gone
  theSSL,         \* the requester's SSL object, NULL being "none"
  connected,      \* the TCP connections that came about
  hello, agreed,  \* those on which each side has done its part of the handshake
  gone,           \* those the requester has closed
  up, down,       \* requests and responses on their way
  hpc, hfd, hSSL, \* the same for the handler
  headerprops,    \* its protocol's "authorization" field
  hcall,          \* the call it has read
  ended,          \* connections the handler has closed
  executed        \* every execution: the call, the user seen, the fields sent

requestVars == <<caller, made, result, userTempFields, composed>>
socketVars == <<fd, stale, theSSL, gone>>
clientVars == <<pc, requestVars, socketVars, connected, hello>>
serverVars == <<hpc, hfd, hSSL, headerprops, hcall, ended, agreed, executed>>
vars == <<clientVars, serverVars, up, down>>

NoCall == [call |-> 0, fields |-> <<>>]

Init ==
  /\ pc = "idle"
  /\ caller \in [Call -> Users \cup {NoUser}]
  /\ made = 0
  /\ result = [i \in Call |-> "none"]
  /\ userTempFields = <<>>
  /\ composed = {}
  /\ fd = NoConn
  /\ stale = FALSE
  /\ theSSL = "none"
  /\ connected = {}
  /\ hello = {}
  /\ agreed = {}
  /\ gone = {}
  /\ up = [j \in Conn |-> <<>>]
  /\ down = [j \in Conn |-> <<>>]
  /\ hpc = "accept"
  /\ hfd = NoConn
  /\ hSSL = "none"
  /\ headerprops = NoUser
  /\ hcall = NoCall
  /\ ended = {}
  /\ executed = {}

-----------------------------------------------------------------------------
(* The requester: Requester::call, SSLConnection and Connection.           *)

isOpen == fd # NoConn

Closed_KeepsSSL ==   \* mutant: theSSL is not freed
  /\ ~stale
  /\ fd' = NoConn
  /\ gone' = gone \cup {fd}
  /\ UNCHANGED <<theSSL, stale>>

Closed_OnlySSL ==   \* mutant: nothing to close where there is no theSSL
  /\ ~stale
  /\ IF theSSL = "none" THEN UNCHANGED <<fd, gone>>
                        ELSE fd' = NoConn /\ gone' = gone \cup {fd}
  /\ theSSL' = "none"
  /\ UNCHANGED stale

(* SSLConnection::close, which frees theSSL once the socket is closed. *)
Closed ==
  /\ ~stale
  /\ fd' = NoConn
  /\ theSSL' = "none"
  /\ gone' = gone \cup {fd}
  /\ UNCHANGED stale

(* ::close fails, always so from then on, and theSSL is kept. *)
CloseThrows ==
  /\ stale' = TRUE
  /\ gone' = gone \cup {fd}
  /\ UNCHANGED <<fd, theSSL>>

Return(how) ==
  /\ pc' = IF how = "threw" /\ AppCloses THEN "threw" ELSE "idle"
  /\ result' = [result EXCEPT ![made] = how]
  /\ UNCHANGED <<caller, made>>

KeepFields == UNCHANGED <<userTempFields, composed>>

(* close() and throw, or throw whatever close() throws. *)
CloseAndThrow == Return("threw") /\ (Closed \/ CloseThrows)

(* setMessageAuthentication comes first; then send_call opens the          *)
(* connection unless there is one.                                         *)
CallMethod ==
  /\ pc = "idle"
  /\ made < NumCalls
  /\ made' = made + 1
  /\ userTempFields' = IF caller[made'] = NoUser THEN userTempFields
                       ELSE Append(userTempFields, caller[made'])
  /\ pc' = IF isOpen THEN "write" ELSE "open"
  /\ UNCHANGED <<caller, result, composed, socketVars, connected, hello, serverVars, up, down>>

Listening == hpc # "exited"

(* TcpIpConnection::open: the connection stands before there is a theSSL. *)
Open ==
  /\ pc = "open"
  /\ Listening
  /\ fd' = made
  /\ connected' = connected \cup {made}
  /\ pc' = "createSSL"
  /\ UNCHANGED <<requestVars, stale, theSSL, gone, hello, serverVars, up, down>>

(* It throws: it leaves a socket, unless there was none to be had, and no  *)
(* theSSL.  The socket may be connected even so, or be later.              *)
OpenThrows ==
  /\ pc = "open"
  /\ fd' \in {NoConn, made}
  /\ connected' \in {connected} \cup
       {connected \cup {j} : j \in IF Listening THEN {fd'} \ {NoConn} ELSE {}}
  /\ Return("threw")
  /\ KeepFields
  /\ UNCHANGED <<stale, theSSL, gone, hello, serverVars, up, down>>

(* The kernel goes on connecting what open() has given up. *)
ConnectedLate ==
  /\ Listening
  /\ isOpen
  /\ ~stale
  /\ fd \notin connected
  /\ connected' = connected \cup {fd}
  /\ UNCHANGED <<pc, requestVars, socketVars, hello, serverVars, up, down>>

(* createSSL, and SSL_connect begins the handshake. *)
CreateSSL ==
  /\ pc = "createSSL"
  /\ theSSL' = "handshaking"
  /\ hello' = hello \cup {fd}
  /\ pc' = "handshake"
  /\ UNCHANGED <<requestVars, fd, stale, gone, connected, serverVars, up, down>>

(* SSL_new gives no object, or SSL_set_fd one that is of no use: the       *)
(* connection stands and nothing is ever said on it.                       *)
CreateSSLThrows ==
  /\ pc = "createSSL"
  /\ theSSL' \in {"none", "broken"}
  /\ Return("threw")
  /\ KeepFields
  /\ UNCHANGED <<fd, stale, gone, connected, hello, serverVars, up, down>>

(* SSL_connect ends: handshakeNonBlocking, or SSL_write, which resumes it. *)
Handshake ==
  /\ pc \in {"handshake", "write"}
  /\ ~stale
  /\ theSSL = "handshaking"
  /\ fd \in agreed
  /\ theSSL' = "established"
  /\ pc' = "write"
  /\ UNCHANGED <<requestVars, fd, stale, gone, connected, hello, serverVars, up, down>>

(* It fails, or select times out and leaves it unfinished. *)
HandshakeThrows ==
  /\ pc = "handshake"
  /\ theSSL' \in {"handshaking", "broken"}
  /\ Return("threw")
  /\ KeepFields
  /\ UNCHANGED <<fd, stale, gone, connected, hello, serverVars, up, down>>

Compose_KeepsFields ==   \* mutant: userTempFields is not cleared
  composed' = composed \cup {made} /\ UNCHANGED userTempFields

(* sendRequestHeader takes the one-time fields before anything is written. *)
Compose == composed' = composed \cup {made} /\ userTempFields' = <<>>

(* SSL_write; with a theSSL that is NULL the process crashes. *)
SendRpcCall ==
  /\ pc = "write"
  /\ ~stale
  /\ theSSL \in {"none", "established"}
  /\ Compose
  /\ IF theSSL = "none"
       THEN pc' = "crashed" /\ UNCHANGED up
       ELSE /\ pc' = "response"
            /\ up' = [up EXCEPT ![fd] =
                        Append(@, [call |-> made, fields |-> userTempFields])]
  /\ UNCHANGED <<caller, made, result, socketVars, connected, hello, serverVars, down>>

(* select times out or finds the descriptor stale; or SSL_write fails with *)
(* whatever errno has been left behind, which may be EPIPE.                *)
WriteThrows ==
  /\ pc = "write"
  /\ Compose
  /\ \/ Return("threw") /\ UNCHANGED socketVars
     \/ /\ ~stale
        /\ theSSL # "none"
        /\ \/ CloseAndThrow
           \/ Return("threw") /\ theSSL' = "broken" /\ UNCHANGED <<fd, stale, gone>>
  /\ UNCHANGED <<connected, hello, serverVars, up, down>>

(* A response with status 200 is returned once the connection is closed. *)
ReceiveResponse ==
  /\ pc = "response"
  /\ down[fd] # <<>>
  /\ Head(down[fd]).status = "200"
  /\ down' = [down EXCEPT ![fd] = Tail(@)]
  /\ \/ Return("returned") /\ Closed
     \/ Return("threw") /\ CloseThrows
  /\ KeepFields
  /\ UNCHANGED <<connected, hello, serverVars, up>>

(* The page that tells of the rejection is no XML-RPC response: the parser *)
(* throws before the status is asked for; the connection stays open.       *)
ReceiveRejection ==
  /\ pc = "response"
  /\ down[fd] # <<>>
  /\ Head(down[fd]).status = "401"
  /\ down' = [down EXCEPT ![fd] = Tail(@)]
  /\ Return("threw")
  /\ KeepFields
  /\ UNCHANGED <<socketVars, connected, hello, serverVars, up>>

(* End of file, or what SSL_read makes of it without a close_notify. *)
ReceiveEof ==
  /\ pc = "response"
  /\ down[fd] = <<>>
  /\ fd \in ended
  /\ \/ CloseAndThrow
     \/ Return("threw") /\ theSSL' = "broken" /\ UNCHANGED <<fd, stale, gone>>
  /\ KeepFields
  /\ UNCHANGED <<connected, hello, serverVars, up, down>>

ReceiveTimeout ==
  /\ pc = "response"
  /\ Return("threw")
  /\ KeepFields
  /\ UNCHANGED <<socketVars, connected, hello, serverVars, up, down>>

(* The application reacts to an exception: Protocol::closeConnection. *)
CloseAfterThrow ==
  /\ pc = "threw"
  /\ pc' = "idle"
  /\ IF isOpen THEN Closed \/ CloseThrows ELSE UNCHANGED socketVars
  /\ UNCHANGED <<requestVars, connected, hello, serverVars, up, down>>

-----------------------------------------------------------------------------
(* The handler.                                                            *)

Waiting == connected \ (ended \cup {hfd})

ClearHttpInfo_KeepsFields == headerprops   \* mutant: headerprops is not cleared
ClearHttpInfo == NoUser

AcceptConn ==
  /\ hpc = "accept"
  /\ hfd' \in Waiting
  /\ hSSL' = "handshaking"
  /\ hpc' = "handshake"
  /\ UNCHANGED <<headerprops, hcall, ended, agreed, executed, clientVars, up, down>>

(* SSL_accept, which has no timeout; then Protocol::resetConnection. *)
AcceptSSL ==
  /\ hpc = "handshake"
  /\ hfd \in hello
  /\ agreed' = agreed \cup {hfd}
  /\ hSSL' = "established"
  /\ headerprops' = ClearHttpInfo
  /\ hpc' = "read"
  /\ UNCHANGED <<hfd, hcall, ended, executed, clientVars, up, down>>

AcceptSSLThrows ==
  /\ hpc = "handshake"
  /\ hfd \in hello \cup gone
  /\ hSSL' = "broken"
  /\ hpc' = "recover"
  /\ UNCHANGED <<hfd, headerprops, hcall, ended, agreed, executed, clientVars, up, down>>

(* parseHeaderLine inserts: of several fields of a name the first counts. *)
Insert(old, fields) == IF old # NoUser \/ fields = <<>> THEN old ELSE Head(fields)

ReadCall ==
  /\ hpc = "read"
  /\ up[hfd] # <<>>
  /\ hcall' = Head(up[hfd])
  /\ headerprops' = Insert(ClearHttpInfo, hcall'.fields)
  /\ up' = [up EXCEPT ![hfd] = Tail(@)]
  /\ hpc' = "check"
  /\ UNCHANGED <<hfd, hSSL, ended, agreed, executed, clientVars, down>>

(* A timeout, an error, or the client has gone. *)
ReadThrows ==
  /\ hpc = "read"
  /\ hpc' = "recover"
  /\ UNCHANGED <<hfd, hSSL, headerprops, hcall, ended, agreed, executed, clientVars, up, down>>

checkAuthentication == AuthData = {} \/ headerprops \in AuthData

Execute ==
  /\ hpc = "check"
  /\ checkAuthentication
  /\ executed' = executed \cup
       {[call |-> hcall.call, user |-> headerprops, fields |-> hcall.fields]}
  /\ hpc' = "reply"
  /\ UNCHANGED <<hfd, hSSL, headerprops, hcall, ended, agreed, clientVars, up, down>>

(* The application rejects the call, or throws. *)
Refuse ==
  /\ hpc = "check"
  /\ ~checkAuthentication
  /\ hpc' \in {"reject", "recover"}
  /\ UNCHANGED <<hfd, hSSL, headerprops, hcall, ended, agreed, executed, clientVars, up, down>>

Send(status, call) ==
  down' = [down EXCEPT ![hfd] = Append(@, [call |-> call, status |-> status])]

Reply ==
  /\ \/ hpc = "reply" /\ Send("200", hcall.call)
     \/ hpc = "reject" /\ Send("401", hcall.call)
  /\ hpc' = "close"
  /\ UNCHANGED <<hfd, hSSL, headerprops, hcall, ended, agreed, executed, clientVars, up>>

(* A failing write throws; if it was EPIPE the connection is closed. *)
ReplyThrows ==
  /\ hpc \in {"reply", "reject"}
  /\ hpc' = "recover"
  /\ UNCHANGED <<hfd, hSSL, headerprops, hcall, ended, agreed, executed, clientVars, up, down>>

(* The catch clauses: a fault, if it can be written. *)
Recover ==
  /\ hpc = "recover"
  /\ \/ hSSL = "established" /\ Send("200", 0)
     \/ UNCHANGED down
  /\ hpc' = "close"
  /\ UNCHANGED <<hfd, hSSL, headerprops, hcall, ended, agreed, executed, clientVars, up>>

CloseConn_KeepAlive ==   \* mutant: the next call is read from the same connection
  /\ hpc = "close"
  /\ hpc' = "read"
  /\ UNCHANGED <<hfd, hSSL, headerprops, hcall, ended, agreed, executed, clientVars, up, down>>

CloseConn ==
  /\ hpc = "close"
  /\ hpc' = "accept"
  /\ ended' = ended \cup {hfd}
  /\ hfd' = NoConn
  /\ hSSL' = "none"
  /\ UNCHANGED <<headerprops, hcall, agreed, executed, clientVars, up, down>>

(* closeConnection throws, in the catch clause too, and the handler calls  *)
(* _exit; or SSL_new fails after an accept and the catch clause answers    *)
(* without a theSSL.  As the pool's last it takes the listening socket     *)
(* along, and with it the connections that wait.                           *)
HandlerExits ==
  /\ hpc = "close" \/ (hpc = "accept" /\ Waiting # {})
  /\ hpc' = "exited"
  /\ ended' = connected
  /\ hfd' = NoConn
  /\ hSSL' = "none"
  /\ UNCHANGED <<headerprops, hcall, agreed, executed, clientVars, up, down>>

-----------------------------------------------------------------------------
Receive == ReceiveResponse \/ ReceiveRejection \/ ReceiveEof

Requester ==
  \/ CallMethod \/ Open \/ OpenThrows \/ CreateSSL \/ CreateSSLThrows
  \/ Handshake \/ HandshakeThrows
  \/ SendRpcCall \/ WriteThrows \/ Receive \/ CloseAfterThrow

Handler ==
  \/ AcceptConn \/ AcceptSSL \/ AcceptSSLThrows \/ ReadCall \/ ReadThrows
  \/ Execute \/ Refuse \/ Reply \/ ReplyThrows \/ Recover \/ CloseConn
  \/ HandlerExits

Next == Requester \/ ConnectedLate \/ ReceiveTimeout \/ Handler

Spec == Init /\ [][Next]_vars

(* The application goes on calling, connects and handshakes end by their   *)
(* timeouts, what has come is read, and the handler is scheduled.  Nothing *)
(* is assumed of the requester's timeout for a response, nor that the      *)
(* kernel ever completes the connection of an open that was given up.      *)
FairSpec == Spec /\ WF_vars(Requester) /\ WF_vars(Handler)

-----------------------------------------------------------------------------
(* An SSL object never outlives the descriptor it was made for, so that    *)
(* neither open() nor accept() ever finds "an already open SSL connection",*)
(* even if ::close fails.                                                  *)
SSLWithSocket ==
  /\ theSSL # "none" => fd \in connected /\ (fd \in gone => stale)
  /\ hSSL # "none" <=> hfd # NoConn
  /\ pc \in {"open", "createSSL"} => theSSL = "none"

(* ulxr_connection.h, isOpen: "true if connection is already open": a call *)
(* that writes to a connection which isOpen() holds for has an SSL object  *)
(* to write with.                                                          *)
OpenHasSSL == pc # "crashed"

(* A method is executed only for a user the server knows and whose         *)
(* credentials came in the header of that very call.                       *)
ExecutedAuthorised ==
  \A e \in executed :
    AuthData # {} => e.user \in AuthData /\ \E k \in 1 .. Len(e.fields) : e.fields[k] = e.user

(* A call is executed for another user than it was made for only if a call *)
(* for that user threw before its header was composed: its one-time field  *)
(* has waited and precedes the call's own.                                 *)
OthersCredentials ==
  \A e \in executed :
    \/ e.user = caller[e.call]
    \/ \E i \in 1 .. e.call - 1 :
         caller[i] = e.user /\ result[i] = "threw" /\ i \notin composed

(* Every call returns or throws, without the requester's read timeout. *)
CallsEnd == \A i \in Call : made = i ~> result[i] # "none"

(* SSL_accept has no timeout, and a connection that open() has given up    *)
(* before SSL_connect stays silent; but a handler gets rid of it, since    *)
(* the application closes after every exception.                           *)
HandlerFreed == \A j \in Conn : hfd = j ~> hfd # j
=============================================================================
