-------------------------- MODULE SecureCallProofs --------------------------
(***************************************************************************)
(* Proofs about SecureCall for any number of calls and any users, whether  *)
(* or not the application closes after an exception: no SSL object without *)
(* its socket, no execution without credentials in the call's header, and  *)
(* credentials of another user only after a call that threw early.  If it  *)
(* closes, a call that finds the connection open finds an SSL object too.  *)
(***************************************************************************)
EXTENDS SecureCall, SequenceTheorems, TLAPS

(* Where a place of the requester or the handler implies that there is an  *)
(* SSL object and a socket, or that there is none.                         *)
SocketInv ==
  /\ made \in Nat
  /\ connected \subseteq Nat \ {0}
  /\ fd \in 0 .. made
  /\ gone \subseteq 0 .. made
  /\ pc = "open" => made > 0 /\ made \notin gone /\ fd = NoConn
  /\ pc = "createSSL" =>
       theSSL = "none" /\ fd \in connected /\ fd \notin gone /\ fd # NoConn
  /\ fd = NoConn => theSSL = "none"
  /\ theSSL # "none" => fd \in connected /\ (fd \in gone => stale)
  /\ pc = "handshake" => theSSL = "handshaking"
  /\ pc = "response" => theSSL # "none"

HandlerInv ==
  /\ hSSL # "none" <=> hfd # NoConn
  /\ hpc \in {"accept", "exited"} <=> hfd = NoConn

LEMMA SocketInit == Init => SocketInv
BY DEF Init, SocketInv, NoConn

LEMMA HandlerInit == Init => HandlerInv
BY DEF Init, HandlerInv, NoConn

LEMMA SocketStep == SocketInv /\ [Next]_vars => SocketInv'
<1> SUFFICES ASSUME SocketInv, [Next]_vars PROVE SocketInv' OBVIOUS
<1> USE DEF SocketInv, NoConn
<1>1. CASE CallMethod
  BY <1>1 DEF CallMethod, isOpen, socketVars
<1>2. CASE Open
  BY <1>2 DEF Open, requestVars
<1>3. CASE OpenThrows
  BY <1>3 DEF OpenThrows, Return, KeepFields
<1>4. CASE Handshake
  BY <1>4 DEF Handshake, requestVars
<1>5. CASE HandshakeThrows
  BY <1>5 DEF HandshakeThrows, Return, KeepFields
<1>16. CASE CreateSSL
  BY <1>16 DEF CreateSSL, requestVars
<1>17. CASE CreateSSLThrows
  BY <1>17 DEF CreateSSLThrows, Return, KeepFields
<1>18. CASE ConnectedLate
  BY <1>18 DEF ConnectedLate, requestVars, socketVars, isOpen
<1>6. CASE SendRpcCall
  BY <1>6 DEF SendRpcCall, Compose, socketVars
<1>7. ASSUME Closed \/ CloseThrows, UNCHANGED <<made, connected>>,
             pc' \in {"idle", "threw"}
      PROVE  SocketInv'
  <2>1. made' \in Nat /\ connected' \subseteq Nat \ {0} /\ fd' \in 0 .. made'
    BY <1>7 DEF Closed, CloseThrows
  <2>2. gone' \subseteq 0 .. made'
    BY <1>7 DEF Closed, CloseThrows
  <2>3. fd' = NoConn => theSSL' = "none"
    BY <1>7 DEF Closed, CloseThrows
  <2>4. theSSL' # "none" => fd' \in connected' /\ (fd' \in gone' => stale')
    BY <1>7 DEF Closed, CloseThrows
  <2>5. pc' \notin {"open", "createSSL", "handshake", "response"}
    BY <1>7
  <2> QED BY <2>1, <2>2, <2>3, <2>4, <2>5
<1>8. CASE WriteThrows
  <2>1. CASE Return("threw") /\ UNCHANGED socketVars
    BY <2>1, <1>8 DEF WriteThrows, Return, socketVars
  <2>2. CASE theSSL # "none" /\ CloseAndThrow
    BY <2>2, <1>8, <1>7 DEF WriteThrows, CloseAndThrow, Return
  <2>3. CASE theSSL # "none" /\ Return("threw") /\ theSSL' = "broken" /\ UNCHANGED <<fd, stale, gone>>
    BY <2>3, <1>8 DEF WriteThrows, Return
  <2> QED BY <1>8, <2>1, <2>2, <2>3 DEF WriteThrows
<1>9. CASE ReceiveResponse
  BY <1>9, <1>7 DEF ReceiveResponse, Return
<1>10. CASE ReceiveRejection
  BY <1>10 DEF ReceiveRejection, Return, socketVars
<1>11. CASE ReceiveEof
  <2>1. CASE CloseAndThrow
    BY <2>1, <1>11, <1>7 DEF ReceiveEof, CloseAndThrow, Return
  <2>2. CASE Return("threw") /\ theSSL' = "broken" /\ UNCHANGED <<fd, stale, gone>>
    BY <2>2, <1>11 DEF ReceiveEof, Return
  <2> QED BY <1>11, <2>1, <2>2 DEF ReceiveEof
<1>12. CASE ReceiveTimeout
  BY <1>12 DEF ReceiveTimeout, Return, socketVars
<1>13. CASE CloseAfterThrow
  <2>1. CASE isOpen
    BY <2>1, <1>13, <1>7 DEF CloseAfterThrow, requestVars
  <2>2. CASE ~isOpen
    BY <2>2, <1>13 DEF CloseAfterThrow, requestVars, socketVars, isOpen
  <2> QED BY <2>1, <2>2
<1>14. CASE Handler
  <2>1. UNCHANGED clientVars
    BY <1>14 DEF Handler, AcceptConn, AcceptSSL, AcceptSSLThrows, ReadCall, ReadThrows,
      Execute, Refuse, Reply, ReplyThrows, Recover, CloseConn, HandlerExits
  <2> QED BY <2>1 DEF clientVars, requestVars, socketVars
<1>15. CASE UNCHANGED vars
  BY <1>15 DEF vars, clientVars, requestVars, socketVars
<1> QED
  BY <1>1, <1>2, <1>3, <1>4, <1>5, <1>6, <1>8, <1>9, <1>10, <1>11, <1>12, <1>13, <1>14, <1>15,
     <1>16, <1>17, <1>18
  DEF Next, Requester, Receive

LEMMA HandlerStep == SocketInv /\ HandlerInv /\ [Next]_vars => HandlerInv'
<1> SUFFICES ASSUME SocketInv, HandlerInv, [Next]_vars PROVE HandlerInv' OBVIOUS
<1> USE DEF HandlerInv, NoConn
<1>1. CASE AcceptConn
  BY <1>1 DEF AcceptConn, Waiting, SocketInv
<1>2. CASE CloseConn \/ HandlerExits
  BY <1>2 DEF CloseConn, HandlerExits
<1>3. CASE AcceptSSL \/ AcceptSSLThrows
  BY <1>3 DEF AcceptSSL, AcceptSSLThrows
<1>4. CASE ReadCall \/ ReadThrows \/ Execute \/ Refuse \/ Reply \/ ReplyThrows \/ Recover
  <2>1. /\ UNCHANGED <<hfd, hSSL>>
        /\ hpc \notin {"accept", "exited"} /\ hpc' \notin {"accept", "exited"}
    BY <1>4 DEF ReadCall, ReadThrows, Execute, Refuse, Reply, ReplyThrows, Recover
  <2> QED BY <2>1
<1>5. CASE Requester \/ ConnectedLate \/ ReceiveTimeout \/ UNCHANGED vars
  <2>1. UNCHANGED serverVars
    BY <1>5 DEF Requester, Receive, CallMethod, Open, OpenThrows, CreateSSL,
        CreateSSLThrows, ConnectedLate, Handshake, HandshakeThrows,
      SendRpcCall, WriteThrows, ReceiveResponse, ReceiveRejection, ReceiveEof, CloseAfterThrow,
      ReceiveTimeout, vars
  <2> QED BY <2>1 DEF serverVars
<1> QED BY <1>1, <1>2, <1>3, <1>4, <1>5 DEF Next, Handler

(* No SSL object, of the requester or of a handler, is ever without the    *)
(* descriptor it was made for: SSLConnection::close, open and accept never *)
(* get into a state in which open() or accept() throws for good.           *)
THEOREM SSLOwnership == Spec => []SSLWithSocket
<1>1. Init => SocketInv /\ HandlerInv
  BY SocketInit, HandlerInit
<1>2. SocketInv /\ HandlerInv /\ [Next]_vars => (SocketInv /\ HandlerInv)'
  BY SocketStep, HandlerStep
<1>3. SocketInv /\ HandlerInv => SSLWithSocket
  BY DEF SocketInv, HandlerInv, SSLWithSocket
<1> QED BY <1>1, <1>2, <1>3, PTL DEF Spec

-----------------------------------------------------------------------------
(* What is known of the fields from setMessageAuthentication to            *)
(* checkAuthentication: whoever is looked at is the first of the header.   *)
Message == [call : Nat, fields : Seq(Users)]

FieldsType ==
  /\ caller \in [Call -> Users \cup {NoUser}]
  /\ made \in 0 .. NumCalls
  /\ connected \subseteq Conn
  /\ hfd \in Conn \cup {NoConn}
  /\ userTempFields \in Seq(Users)
  /\ up \in [Conn -> Seq(Message)]
  /\ hcall \in Message

ExecutedInv ==
  \A e \in executed :
    /\ e.fields \in Seq(Users)
    /\ e.user = Insert(NoUser, e.fields)
    /\ AuthData # {} => e.user \in AuthData

CheckInv == hpc = "check" => headerprops = Insert(NoUser, hcall.fields)

LEMMA FieldsInit == Init => FieldsType /\ CheckInv /\ ExecutedInv
BY NumCallsAssumption DEF Init, FieldsType, CheckInv, ExecutedInv, NoCall, Message, Call, Conn, NoConn

LEMMA TypeStep == SocketInv /\ HandlerInv /\ FieldsType /\ [Next]_vars => FieldsType'
<1> SUFFICES ASSUME SocketInv, HandlerInv, FieldsType, [Next]_vars PROVE FieldsType' OBVIOUS
<1> USE DEF FieldsType
<1>1. CASE CallMethod
  <2>1. made' \in Call /\ made' \in 0 .. NumCalls
    BY <1>1, NumCallsAssumption DEF CallMethod, Call
  <2>2. userTempFields' \in Seq(Users)
    BY <2>1, <1>1 DEF CallMethod
  <2> QED BY <1>1, <2>1, <2>2 DEF CallMethod, serverVars
<1>2. CASE Open
  <2>1. made \in Conn
    BY <1>2, NumCallsAssumption DEF Open, SocketInv, Conn
  <2> QED BY <1>2, <2>1 DEF Open, requestVars, serverVars
<1>3. CASE SendRpcCall
  <2>1. [call |-> made, fields |-> userTempFields] \in Message
    BY <1>3, NumCallsAssumption DEF Message
  <2>2. up' \in [Conn -> Seq(Message)]
    <3> DEFINE m == [call |-> made, fields |-> userTempFields]
    <3>1. CASE theSSL = "none"
      BY <3>1, <1>3 DEF SendRpcCall
    <3>2. CASE theSSL # "none"
      <4>1. up' = [up EXCEPT ![fd] = Append(up[fd], m)]
        BY <3>2, <1>3 DEF SendRpcCall
      <4>2. m \in Message
        BY <2>1
      <4> HIDE DEF m
      <4>3. ASSUME fd \in Conn PROVE Append(up[fd], m) \in Seq(Message)
        <5>1. up[fd] \in Seq(Message)
          BY <4>3
        <5> QED BY <5>1, <4>2
      <4> QED BY <4>1, <4>3
    <3> QED BY <3>1, <3>2
  <2>3. UNCHANGED <<caller, made, connected, hfd, hcall>> /\ userTempFields' = <<>>
    BY <1>3 DEF SendRpcCall, Compose, serverVars
  <2> QED BY <2>2, <2>3
<1>10. CASE OpenThrows \/ ConnectedLate
  <2>1. UNCHANGED <<caller, made, hfd, userTempFields, up, hcall>>
    BY <1>10 DEF OpenThrows, ConnectedLate, Return, KeepFields, requestVars, serverVars
  <2>2. \A j \in connected' \ connected : j \in 0 .. made /\ j # 0
    BY <1>10 DEF OpenThrows, ConnectedLate, isOpen, SocketInv, NoConn
  <2>3. connected' \subseteq Conn
    <3>1. (0 .. made) \ {0} \subseteq Conn
      BY NumCallsAssumption DEF Conn
    <3>2. connected \subseteq Conn
      OBVIOUS
    <3> QED BY <2>2, <3>1, <3>2
  <2> QED BY <2>1, <2>3
<1>4. CASE CreateSSL \/ CreateSSLThrows \/ Handshake \/ HandshakeThrows \/ Receive \/ ReceiveTimeout \/ CloseAfterThrow
  <2>1. UNCHANGED <<caller, made, connected, hfd, userTempFields, up, hcall>>
    BY <1>4 DEF CreateSSL, CreateSSLThrows, Handshake, HandshakeThrows, Receive, ReceiveTimeout, ReceiveResponse,
      ReceiveRejection, ReceiveEof, CloseAfterThrow, CloseAndThrow, Return, KeepFields,
      requestVars, serverVars
  <2> QED BY <2>1
<1>5. CASE WriteThrows
  <2>1. UNCHANGED <<caller, made, connected, hfd, up, hcall>> /\ userTempFields' = <<>>
    BY <1>5 DEF WriteThrows, CloseAndThrow, Return, Compose, serverVars
  <2> QED BY <2>1
<1>6. CASE AcceptConn
  BY <1>6 DEF AcceptConn, Waiting, clientVars, requestVars
<1>7. CASE ReadCall
  <2>1. hfd \in Conn
    BY <1>7 DEF ReadCall, HandlerInv
  <2>2. up[hfd] \in Seq(Message) /\ up[hfd] # <<>>
    BY <2>1, <1>7 DEF ReadCall
  <2>3. hcall' \in Message /\ Tail(up[hfd]) \in Seq(Message)
    BY <2>2, <1>7 DEF ReadCall
  <2>4. up' \in [Conn -> Seq(Message)]
    BY <2>3, <1>7 DEF ReadCall
  <2> QED BY <1>7, <2>3, <2>4 DEF ReadCall, clientVars, requestVars
<1>8. CASE CloseConn \/ HandlerExits
  BY <1>8 DEF CloseConn, HandlerExits, clientVars, requestVars
<1>9. CASE AcceptSSL \/ AcceptSSLThrows \/ ReadThrows \/ Execute \/ Refuse \/ Reply \/ ReplyThrows
            \/ Recover \/ UNCHANGED vars
  <2>1. UNCHANGED <<caller, made, connected, hfd, userTempFields, up, hcall>>
    BY <1>9 DEF AcceptSSL, AcceptSSLThrows, ReadThrows, Execute, Refuse, Reply, ReplyThrows,
      Recover, vars, clientVars, requestVars, serverVars
  <2> QED BY <2>1
<1> QED BY <1>1, <1>2, <1>3, <1>4, <1>5, <1>6, <1>7, <1>8, <1>9, <1>10
        DEF Next, Requester, Handler, Receive

LEMMA ExecutedStep ==
  FieldsType /\ CheckInv /\ ExecutedInv /\ [Next]_vars => (CheckInv /\ ExecutedInv)'
<1> SUFFICES ASSUME FieldsType, CheckInv, ExecutedInv, [Next]_vars PROVE (CheckInv /\ ExecutedInv)'
    OBVIOUS
<1>1. CASE ReadCall
  <2>1. headerprops' = Insert(NoUser, hcall'.fields) /\ UNCHANGED executed
    BY <1>1 DEF ReadCall, ClearHttpInfo
  <2> QED BY <2>1 DEF CheckInv, ExecutedInv, Insert
<1>2. CASE Execute
  <2> DEFINE new == [call |-> hcall.call, user |-> headerprops, fields |-> hcall.fields]
  <2>1. executed' = executed \cup {new} /\ hpc' # "check"
    BY <1>2 DEF Execute
  <2>2. new.user = Insert(NoUser, new.fields)
    BY <1>2 DEF Execute, CheckInv
  <2>3. new.fields \in Seq(Users) /\ (AuthData # {} => new.user \in AuthData)
    BY <1>2 DEF Execute, checkAuthentication, FieldsType, Message
  <2> QED BY <2>1, <2>2, <2>3 DEF CheckInv, ExecutedInv, Insert
<1>3. CASE ~ReadCall /\ ~Execute
  <2>1. UNCHANGED executed /\ (hpc' = "check" => hpc = "check" /\ UNCHANGED <<headerprops, hcall>>)
    <3>1. CASE Requester \/ ConnectedLate \/ ReceiveTimeout \/ UNCHANGED vars
      <4>1. UNCHANGED serverVars
        BY <3>1 DEF Requester, Receive, CallMethod, Open, OpenThrows, CreateSSL,
        CreateSSLThrows, ConnectedLate, Handshake, HandshakeThrows,
          SendRpcCall, WriteThrows, ReceiveResponse, ReceiveRejection, ReceiveEof, CloseAfterThrow,
          ReceiveTimeout, vars
      <4> QED BY <4>1 DEF serverVars
    <3>2. CASE Handler
      BY <3>2, <1>3 DEF Handler, AcceptConn, AcceptSSL, AcceptSSLThrows, ReadThrows, Refuse, Reply,
        ReplyThrows, Recover, CloseConn, HandlerExits
    <3> QED BY <3>1, <3>2 DEF Next
  <2> QED BY <2>1 DEF CheckInv, ExecutedInv, Insert
<1> QED BY <1>1, <1>2, <1>3

(* The header's fields that checkAuthentication looks at are never those   *)
(* of another message: whatever has been executed came with credentials    *)
(* the server knows.                                                       *)
THEOREM Authorised == Spec => []ExecutedAuthorised
<1> DEFINE Inv == SocketInv /\ HandlerInv /\ FieldsType /\ CheckInv /\ ExecutedInv
<1>1. Init => Inv
  BY SocketInit, HandlerInit, FieldsInit
<1>2. Inv /\ [Next]_vars => Inv'
  BY SocketStep, HandlerStep, TypeStep, ExecutedStep
<1>3. Inv => ExecutedAuthorised
  <2> SUFFICES ASSUME ExecutedInv, NEW e \in executed, AuthData # {}
               PROVE  e.user \in AuthData /\ \E k \in 1 .. Len(e.fields) : e.fields[k] = e.user
    BY DEF ExecutedAuthorised
  <2>1. e.user \in AuthData /\ e.fields \in Seq(Users) /\ e.user = Insert(NoUser, e.fields)
    BY DEF ExecutedInv
  <2>2. e.user # NoUser
    BY <2>1, UsersAssumption
  <2>3. e.fields # <<>> /\ e.user = Head(e.fields)
    BY <2>1, <2>2 DEF Insert
  <2>4. 1 \in 1 .. Len(e.fields) /\ Head(e.fields) = e.fields[1]
    BY <2>1, <2>3
  <2> QED BY <2>1, <2>3, <2>4
<1> QED BY <1>1, <1>2, <1>3, PTL DEF Spec

-----------------------------------------------------------------------------
(* An application that closes after every exception starts each call with  *)
(* no connection, or with one whose descriptor is stale and throws before  *)
(* the SSL object is used.                                                 *)
OpenInv ==
  /\ pc \in {"idle", "open"} => fd = NoConn \/ stale
  /\ pc = "write" => theSSL # "none" \/ stale
  /\ pc # "crashed"

(* OpenInv is inductive for an application that closes.                    *)
LEMMA OpenStep ==
  ASSUME AppCloses, SocketInv, OpenInv, [Next]_vars
  PROVE  OpenInv'
<1> USE DEF OpenInv
<1>1. CASE CallMethod
  BY <1>1 DEF CallMethod, isOpen, socketVars
<1>2. CASE Open \/ OpenThrows \/ CreateSSL \/ CreateSSLThrows \/ Handshake \/ HandshakeThrows
  BY <1>2 DEF Open, OpenThrows, CreateSSL, CreateSSLThrows, Handshake, HandshakeThrows, Return
<1>3. CASE SendRpcCall
  BY <1>3 DEF SendRpcCall
<1>4. CASE WriteThrows \/ ReceiveRejection \/ ReceiveEof \/ ReceiveTimeout
  BY <1>4 DEF WriteThrows, ReceiveRejection, ReceiveEof, ReceiveTimeout, CloseAndThrow, Return
<1>5. CASE ReceiveResponse
  BY <1>5 DEF ReceiveResponse, Return, Closed, CloseThrows
<1>6. CASE CloseAfterThrow
  BY <1>6 DEF CloseAfterThrow, isOpen, Closed, CloseThrows, socketVars
<1>8. CASE ConnectedLate
  BY <1>8 DEF ConnectedLate, socketVars
<1>7. CASE Handler \/ UNCHANGED vars
  <2>1. UNCHANGED clientVars
    BY <1>7 DEF Handler, AcceptConn, AcceptSSL, AcceptSSLThrows, ReadCall, ReadThrows,
      Execute, Refuse, Reply, ReplyThrows, Recover, CloseConn, HandlerExits, vars
  <2> QED BY <2>1 DEF clientVars, socketVars
<1> QED BY <1>1, <1>2, <1>3, <1>4, <1>5, <1>6, <1>7, <1>8 DEF Next, Requester, Receive

(* If the application closes after every call that threw, isOpen() keeps   *)
(* its promise: no call writes to a connection without an SSL object.  The *)
(* hypothesis is needed: a failed open leaves a socket and no theSSL.      *)
THEOREM OpenMeansSSL == AppCloses => (Spec => []OpenHasSSL)
<1> SUFFICES ASSUME AppCloses PROVE Spec => []OpenHasSSL
  OBVIOUS
<1>1. Init => SocketInv /\ OpenInv
  BY SocketInit DEF Init, OpenInv
<1>2. SocketInv /\ OpenInv /\ [Next]_vars => (SocketInv /\ OpenInv)'
  BY SocketStep, OpenStep
<1>3. OpenInv => OpenHasSSL
  BY DEF OpenInv, OpenHasSSL
<1> QED BY <1>1, <1>2, <1>3, PTL DEF Spec

-----------------------------------------------------------------------------
(* Whose credentials are on their way.  The calls before their header is   *)
(* composed, and those that threw there.                                   *)
Composing == {"open", "createSSL", "handshake", "write"}
NeverComposed(i) == result[i] = "threw" /\ i \notin composed

(* The first field of a message is its caller's, or left over from a call  *)
(* before it that was never composed.                                      *)
Explained(call, user) ==
  /\ call \in 1 .. made
  /\ user = caller[call] \/ \E i \in 1 .. call - 1 : caller[i] = user /\ NeverComposed(i)
ExplainedMessage(m) == Explained(m.call, Insert(NoUser, m.fields))

ComposeInv ==
  /\ result \in [Call -> {"none", "threw", "returned"}]
  /\ composed \subseteq 1 .. made
  /\ pc \in Composing => made > 0 /\ made \notin composed
  /\ pc \in Composing /\ caller[made] # NoUser => userTempFields # <<>>
  /\ pc = "response" => made \in composed
  /\ pc \in {"idle", "threw"} /\ made > 0 => made \in composed \/ result[made] = "threw"

(* Every field that waits is that of a call never composed, or of the one  *)
(* that is about to be.                                                    *)
WaitingInv ==
  \A k \in 1 .. Len(userTempFields) : \E i \in 1 .. made :
    /\ i \notin composed
    /\ caller[i] = userTempFields[k]
    /\ result[i] = "threw" \/ (i = made /\ pc \in Composing)

ExplainedMessages == {m \in Message : ExplainedMessage(m)}

UpInv == up \in [Conn -> Seq(ExplainedMessages)]
ReadInv == hpc = "check" => hcall \in ExplainedMessages
DoneInv == \A e \in executed : Explained(e.call, e.user)

Quiet == UNCHANGED <<caller, made, result, userTempFields, composed, pc>>

(* A handler's step changes nothing of the requester.                      *)
LEMMA HandlerQuiet == ASSUME Handler \/ UNCHANGED vars PROVE Quiet /\ UNCHANGED clientVars
<1>1. UNCHANGED clientVars
  BY DEF Handler, AcceptConn, AcceptSSL, AcceptSSLThrows, ReadCall, ReadThrows,
    Execute, Refuse, Reply, ReplyThrows, Recover, CloseConn, HandlerExits, vars
<1> QED BY <1>1 DEF Quiet, clientVars, requestVars

(* How a call ends: only its own result changes.                           *)
LEMMA ReturnResult ==
  ASSUME NEW how \in {"threw", "returned"}, Return(how), ComposeInv, made \in Call
  PROVE  /\ result' \in [Call -> {"none", "threw", "returned"}]
         /\ result'[made] = how
         /\ \A i \in Call \ {made} : result'[i] = result[i]
         /\ UNCHANGED <<caller, made>>
         /\ pc' \in {"idle", "threw"}
BY DEF Return, ComposeInv

(* The ways a call ends, with its header composed before, now or never.    *)
EndsCall ==
  \E how \in {"threw", "returned"} :
    /\ Return(how)
    /\ how = "returned" => pc = "response"
    /\ \/ pc \in {"open", "createSSL", "handshake", "response"} /\ UNCHANGED <<userTempFields, composed>>
       \/ pc = "write" /\ Compose

LEMMA Ends ==
  ASSUME OpenThrows \/ CreateSSLThrows \/ HandshakeThrows \/ WriteThrows \/ Receive \/ ReceiveTimeout
  PROVE  EndsCall
<1>1. CASE OpenThrows \/ CreateSSLThrows \/ HandshakeThrows \/ ReceiveTimeout \/ ReceiveRejection
  BY <1>1 DEF OpenThrows, CreateSSLThrows, HandshakeThrows, ReceiveTimeout, ReceiveRejection, KeepFields, EndsCall
<1>2. CASE WriteThrows
  BY <1>2 DEF WriteThrows, CloseAndThrow, EndsCall
<1>3. CASE ReceiveResponse
  BY <1>3 DEF ReceiveResponse, KeepFields, EndsCall
<1>4. CASE ReceiveEof
  BY <1>4 DEF ReceiveEof, CloseAndThrow, KeepFields, EndsCall
<1> QED BY <1>1, <1>2, <1>3, <1>4 DEF Receive

(* A call is composed once, or ends before it is.                          *)
LEMMA ComposeStep ==
  ASSUME SocketInv, FieldsType, ComposeInv, [Next]_vars
  PROVE  ComposeInv'
<1> USE DEF ComposeInv, Composing
<1>1. CASE CallMethod
  <2>1. made' = made + 1 /\ made' \in Call /\ made' \notin composed
    BY <1>1, NumCallsAssumption DEF CallMethod, Call, FieldsType
  <2>2. UNCHANGED <<result, composed>> /\ pc' \in {"write", "open"}
    BY <1>1 DEF CallMethod
  <2>3. caller'[made'] # NoUser => userTempFields' # <<>>
    <3>1. ASSUME caller[made'] # NoUser
          PROVE  userTempFields' = Append(userTempFields, caller[made'])
      BY <3>1, <1>1 DEF CallMethod
    <3>2. UNCHANGED caller
      BY <1>1 DEF CallMethod
    <3>3. ASSUME caller[made'] # NoUser PROVE caller[made'] \in Users
      BY <3>3, <2>1 DEF FieldsType
    <3> QED BY <3>1, <3>2, <3>3 DEF FieldsType
  <2> QED BY <2>1, <2>2, <2>3, NumCallsAssumption DEF FieldsType
<1>2. CASE Open \/ CreateSSL \/ Handshake \/ ConnectedLate
  BY <1>2 DEF Open, CreateSSL, Handshake, ConnectedLate, requestVars
<1>3. CASE SendRpcCall
  BY <1>3, NumCallsAssumption DEF SendRpcCall, Compose, FieldsType
<1>4. CASE EndsCall
  <2>1. made \in Call
    BY <1>4, NumCallsAssumption DEF EndsCall, FieldsType, Call
  <2>2. PICK how \in {"threw", "returned"} :
          /\ Return(how)
          /\ how = "returned" => pc = "response"
          /\ \/ pc \in {"open", "createSSL", "handshake", "response"} /\ UNCHANGED <<userTempFields, composed>>
             \/ pc = "write" /\ Compose
    BY <1>4 DEF EndsCall
  <2>3. /\ result' \in [Call -> {"none", "threw", "returned"}]
        /\ result'[made] = how
        /\ UNCHANGED <<caller, made>>
        /\ pc' \in {"idle", "threw"}
    BY <2>1, <2>2, ReturnResult
  <2>4. composed' \in {composed, composed \cup {made}}
    BY <2>2 DEF Compose
  <2>5. how = "returned" => made \in composed
    BY <2>2
  <2> QED BY <2>1, <2>3, <2>4, <2>5 DEF FieldsType, Call
<1>5. CASE CloseAfterThrow
  BY <1>5 DEF CloseAfterThrow, requestVars
<1>6. CASE Handler \/ UNCHANGED vars
  BY <1>6, HandlerQuiet DEF Quiet
<1> QED BY <1>1, <1>2, <1>3, <1>4, <1>5, <1>6, Ends DEF Next, Requester

(* What is over and done with stays so: a call that was never composed is  *)
(* not composed later.                                                     *)
LEMMA PastKept ==
  ASSUME FieldsType, ComposeInv, [Next]_vars
  PROVE  /\ caller' = caller
         /\ made' \in {made, made + 1}
         /\ \A i \in 1 .. made - 1 : NeverComposed(i) => NeverComposed(i)'
<1> USE DEF NeverComposed
<1>1. CASE CallMethod
  BY <1>1 DEF CallMethod
<1>2. CASE Open \/ CreateSSL \/ Handshake \/ ConnectedLate \/ CloseAfterThrow
  BY <1>2 DEF Open, CreateSSL, Handshake, ConnectedLate, CloseAfterThrow, requestVars
<1>3. CASE SendRpcCall
  BY <1>3 DEF SendRpcCall, Compose, FieldsType
<1>4. CASE EndsCall
  <2>1. made \in Call
    BY <1>4, NumCallsAssumption DEF EndsCall, FieldsType, Call, ComposeInv, Composing
  <2>2. /\ UNCHANGED <<caller, made>>
        /\ \A i \in Call \ {made} : result'[i] = result[i]
        /\ composed' \in {composed, composed \cup {made}}
    BY <1>4, <2>1, ReturnResult DEF EndsCall, Compose
  <2>3. ASSUME NEW i \in 1 .. made - 1 PROVE i \in Call \ {made}
    BY <2>1, NumCallsAssumption DEF Call
  <2> QED BY <2>2, <2>3
<1>5. CASE Handler \/ UNCHANGED vars
  BY <1>5, HandlerQuiet DEF Quiet
<1> QED BY <1>1, <1>2, <1>3, <1>4, <1>5, Ends DEF Next, Requester

(* An explanation holds for good.                                          *)
LEMMA ExplainedKept ==
  ASSUME FieldsType, ComposeInv, [Next]_vars, NEW c, NEW u, Explained(c, u)
  PROVE  Explained(c, u)'
<1>1. c \in 1 .. made /\ c \in 1 .. made'
  BY PastKept DEF Explained, FieldsType
<1>2. CASE u = caller[c]
  BY <1>1, <1>2, PastKept DEF Explained
<1>3. CASE \E i \in 1 .. c - 1 : caller[i] = u /\ NeverComposed(i)
  <2>1. PICK i \in 1 .. c - 1 : caller[i] = u /\ NeverComposed(i)
    BY <1>3
  <2>2. i \in 1 .. made - 1
    BY <1>1, <2>1 DEF FieldsType
  <2>3. caller'[i] = u /\ NeverComposed(i)'
    BY <2>1, <2>2, PastKept
  <2> QED BY <1>1, <2>3 DEF Explained
<1> QED BY <1>2, <1>3 DEF Explained

(* A field waits only while its call is about to be composed or never was. *)
LEMMA WaitingStep ==
  ASSUME FieldsType, ComposeInv, WaitingInv, [Next]_vars
  PROVE  WaitingInv'
<1> USE DEF Composing
<1>1. CASE CallMethod
  <2>1. made' = made + 1 /\ made' \in Call /\ made' \notin composed
    BY <1>1, NumCallsAssumption DEF CallMethod, Call, FieldsType, ComposeInv
  <2>2. UNCHANGED <<result, composed, caller>> /\ pc' \in Composing /\ pc = "idle"
    BY <1>1 DEF CallMethod
  <2>3. ASSUME NEW k \in 1 .. Len(userTempFields)
        PROVE  \E i \in 1 .. made' : i \notin composed /\ caller[i] = userTempFields[k]
                                    /\ result[i] = "threw"
    BY <2>1, <2>2 DEF WaitingInv, FieldsType
  <2>4. CASE caller[made'] = NoUser
    <3>1. UNCHANGED userTempFields
      BY <1>1, <2>4 DEF CallMethod
    <3> QED BY <2>2, <2>3, <3>1 DEF WaitingInv
  <2>5. CASE caller[made'] # NoUser
    <3>1. userTempFields' = Append(userTempFields, caller[made'])
      BY <1>1, <2>5 DEF CallMethod
    <3>2. caller[made'] \in Users /\ userTempFields \in Seq(Users)
      BY <2>1, <2>5 DEF FieldsType
    <3>3. /\ Len(userTempFields') = Len(userTempFields) + 1
          /\ userTempFields'[Len(userTempFields) + 1] = caller[made']
          /\ \A k \in 1 .. Len(userTempFields) : userTempFields'[k] = userTempFields[k]
      BY <3>1, <3>2
    <3>4. ASSUME NEW k \in 1 .. Len(userTempFields')
          PROVE  \E i \in 1 .. made' :
                   /\ i \notin composed'
                   /\ caller'[i] = userTempFields'[k]
                   /\ result'[i] = "threw" \/ (i = made' /\ pc' \in Composing)
      <4>1. CASE k \in 1 .. Len(userTempFields)
        BY <2>2, <2>3, <3>3, <4>1
      <4>2. CASE k = Len(userTempFields) + 1
        BY <2>1, <2>2, <3>3, <4>2 DEF FieldsType
      <4> QED BY <3>2, <3>3, <4>1, <4>2
    <3> QED BY <3>4 DEF WaitingInv
  <2> QED BY <2>4, <2>5
<1>2. CASE Open \/ CreateSSL \/ Handshake \/ ConnectedLate \/ CloseAfterThrow
  BY <1>2 DEF Open, CreateSSL, Handshake, ConnectedLate, CloseAfterThrow, requestVars, WaitingInv
<1>3. CASE SendRpcCall
  BY <1>3 DEF SendRpcCall, Compose, WaitingInv
<1>4. CASE EndsCall
  <2>1. made \in Call
    BY <1>4, NumCallsAssumption DEF EndsCall, FieldsType, Call, ComposeInv
  <2>2. PICK how \in {"threw", "returned"} :
          /\ Return(how)
          /\ how = "returned" => pc = "response"
          /\ \/ pc \in {"open", "createSSL", "handshake", "response"} /\ UNCHANGED <<userTempFields, composed>>
             \/ pc = "write" /\ Compose
    BY <1>4 DEF EndsCall
  <2>3. CASE Compose
    BY <2>3 DEF Compose, WaitingInv
  <2>4. CASE pc \in {"open", "createSSL", "handshake", "response"} /\ UNCHANGED <<userTempFields, composed>>
    <3>1. /\ UNCHANGED <<caller, made>> /\ result'[made] = how
          /\ \A i \in Call \ {made} : result'[i] = result[i]
      BY <2>1, <2>2, ReturnResult
    <3>2. ASSUME NEW i \in 1 .. made, i \notin composed,
                 result[i] = "threw" \/ (i = made /\ pc \in Composing)
          PROVE  result'[i] = "threw"
      <4>1. CASE i = made
        BY <2>2, <2>4, <3>1, <3>2, <4>1 DEF ComposeInv
      <4>2. CASE i # made
        BY <2>1, <3>1, <3>2, <4>2, NumCallsAssumption DEF Call
      <4> QED BY <4>1, <4>2
    <3> QED BY <2>4, <3>1, <3>2 DEF WaitingInv
  <2> QED BY <2>2, <2>3, <2>4
<1>5. CASE Handler \/ UNCHANGED vars
  BY <1>5, HandlerQuiet DEF Quiet, WaitingInv
<1> QED BY <1>1, <1>2, <1>3, <1>4, <1>5, Ends DEF Next, Requester

(* The header that is composed carries the caller's field, or one that was *)
(* left over.                                                              *)
LEMMA ComposedExplained ==
  ASSUME FieldsType, ComposeInv, WaitingInv, pc = "write"
  PROVE  Explained(made, Insert(NoUser, userTempFields))
<1>1. made \in 1 .. made /\ made \in Nat
  BY DEF ComposeInv, FieldsType, Composing
<1>2. CASE userTempFields = <<>>
  BY <1>1, <1>2 DEF ComposeInv, Composing, Insert, Explained
<1>3. CASE userTempFields # <<>>
  <2>1. 1 \in 1 .. Len(userTempFields)
        /\ Insert(NoUser, userTempFields) = userTempFields[1]
    BY <1>3 DEF FieldsType, Insert
  <2>2. PICK i \in 1 .. made : /\ i \notin composed
                               /\ caller[i] = userTempFields[1]
                               /\ result[i] = "threw" \/ i = made
    BY <2>1 DEF WaitingInv
  <2>3. i = made \/ i \in 1 .. made - 1
    BY <1>1, <2>2
  <2> QED BY <1>1, <2>1, <2>2, <2>3 DEF Explained, NeverComposed
<1> QED BY <1>2, <1>3

(* ... and so it does for the messages on their way.                       *)
LEMMA ExplainedGrow ==
  ASSUME FieldsType, ComposeInv, [Next]_vars
  PROVE  /\ ExplainedMessages \subseteq ExplainedMessages'
         /\ UpInv => up \in [Conn -> Seq(ExplainedMessages')]
<1>1. ASSUME NEW m \in ExplainedMessages PROVE m \in ExplainedMessages'
  <2>1. m \in Message /\ Explained(m.call, Insert(NoUser, m.fields))
    BY DEF ExplainedMessages, ExplainedMessage
  <2>2. PICK c, u : c = m.call /\ u = Insert(NoUser, m.fields)
    OBVIOUS
  <2>3. Explained(c, u)'
    BY <2>1, <2>2, ExplainedKept
  <2>4. ExplainedMessage(m)'
    BY <2>2, <2>3 DEF ExplainedMessage, Insert
  <2> QED BY <2>1, <2>4 DEF ExplainedMessages, Message
<1>2. ASSUME NEW S, NEW T, S \subseteq T, NEW f \in [Conn -> Seq(S)] PROVE f \in [Conn -> Seq(T)]
  <2>1. ASSUME NEW j \in Conn PROVE f[j] \in Seq(T)
    BY <1>2, SeqDef
  <2> QED BY <2>1
<1> QED BY <1>1, <1>2 DEF UpInv

(* Requests are sent, read and executed with an explanation.               *)
LEMMA ExplainedStep ==
  ASSUME HandlerInv, FieldsType, ComposeInv, WaitingInv, UpInv, ReadInv, DoneInv, CheckInv,
         [Next]_vars
  PROVE  UpInv' /\ ReadInv' /\ DoneInv'
<1> DEFINE Fine == ExplainedMessages'
<1>1. ExplainedMessages \subseteq Fine /\ up \in [Conn -> Seq(Fine)]
  BY ExplainedGrow
<1>2. ASSUME NEW e \in executed PROVE Explained(e.call, e.user)'
  BY ExplainedKept DEF DoneInv
<1> SUFFICES up' \in [Conn -> Seq(Fine)] /\ (hpc' = "check" => hcall' \in Fine) /\ DoneInv'
  BY DEF UpInv, ReadInv
<1> HIDE DEF Fine
<1>3. ASSUME UNCHANGED hcall, hpc' = "check" => hpc = "check" PROVE hpc' = "check" => hcall' \in Fine
  BY <1>1, <1>3 DEF ReadInv
<1>4. ASSUME UNCHANGED executed PROVE DoneInv'
  BY <1>2, <1>4 DEF DoneInv
<1>5. CASE SendRpcCall
  <2>1. UNCHANGED <<hcall, hpc, executed>>
    BY <1>5 DEF SendRpcCall, serverVars
  <2>2. PICK m : m = [call |-> made, fields |-> userTempFields]
    OBVIOUS
  <2>3. m \in Fine
    <3>1. ExplainedMessage(m)
      BY <1>5, <2>2, ComposedExplained DEF SendRpcCall, ExplainedMessage
    <3>2. m \in Message
      BY <2>2, NumCallsAssumption DEF Message, FieldsType
    <3> QED BY <1>1, <3>1, <3>2 DEF ExplainedMessages
  <2>4. up' \in [Conn -> Seq(Fine)]
    <3>1. CASE UNCHANGED up
      BY <1>1, <3>1
    <3>2. CASE up' = [up EXCEPT ![fd] = Append(up[fd], m)]
      <4>1. ASSUME fd \in Conn PROVE Append(up[fd], m) \in Seq(Fine)
        <5>1. up[fd] \in Seq(Fine)
          BY <1>1, <4>1
        <5> QED BY <2>3, <5>1
      <4> QED BY <1>1, <3>2, <4>1
    <3> QED BY <1>5, <2>2, <3>1, <3>2 DEF SendRpcCall
  <2> QED BY <1>3, <1>4, <2>1, <2>4
<1>6. CASE ReadCall
  <2>1. hfd \in Conn /\ up[hfd] \in Seq(Fine) /\ up[hfd] # <<>>
    BY <1>1, <1>6 DEF ReadCall, HandlerInv, FieldsType
  <2>2. hcall' = Head(up[hfd]) /\ up' = [up EXCEPT ![hfd] = Tail(up[hfd])] /\ UNCHANGED executed
    BY <1>6 DEF ReadCall
  <2>3. hcall' \in Fine /\ Tail(up[hfd]) \in Seq(Fine)
    BY <2>1, <2>2
  <2> QED BY <1>1, <1>4, <2>2, <2>3
<1>7. CASE Execute
  <2>1. PICK e : e = [call |-> hcall.call, user |-> headerprops, fields |-> hcall.fields]
    OBVIOUS
  <2>2. executed' = executed \cup {e} /\ UNCHANGED <<up, hcall>> /\ hpc = "check"
    BY <1>7, <2>1 DEF Execute
  <2>3. Explained(e.call, e.user)
    BY <2>1, <2>2 DEF ReadInv, CheckInv, ExplainedMessage, ExplainedMessages
  <2>4. PICK c, u : c = e.call /\ u = e.user
    OBVIOUS
  <2>5. Explained(c, u)'
    BY <2>3, <2>4, ExplainedKept
  <2>6. \A x \in executed' : Explained(x.call, x.user)'
    <3>1. ASSUME NEW x \in executed' PROVE Explained(x.call, x.user)'
      BY <1>2, <2>2, <2>4, <2>5
    <3> QED BY <3>1
  <2> QED BY <1>1, <1>3, <2>2, <2>6 DEF DoneInv
<1>8. CASE ~SendRpcCall /\ ~ReadCall /\ ~Execute
  <2>1. UNCHANGED <<up, executed>> /\ (hpc' = "check" => hpc = "check" /\ UNCHANGED hcall)
    <3>1. CASE Requester \/ ConnectedLate \/ ReceiveTimeout \/ UNCHANGED vars
      <4>1. UNCHANGED serverVars /\ UNCHANGED up
        BY <1>8, <3>1 DEF Requester, Receive, CallMethod, Open, OpenThrows, CreateSSL,
        CreateSSLThrows, ConnectedLate, Handshake,
          HandshakeThrows, WriteThrows, ReceiveResponse, ReceiveRejection, ReceiveEof,
          CloseAfterThrow, ReceiveTimeout, vars
      <4> QED BY <4>1 DEF serverVars
    <3>2. CASE Handler
      BY <1>8, <3>2 DEF Handler, AcceptConn, AcceptSSL, AcceptSSLThrows, ReadThrows, Refuse, Reply,
        ReplyThrows, Recover, CloseConn, HandlerExits
    <3> QED BY <3>1, <3>2 DEF Next
  <2> QED BY <1>1, <1>4, <2>1 DEF ReadInv
<1> QED BY <1>5, <1>6, <1>7, <1>8

(* A call is executed for another user than its own only through a field   *)
(* left over from a call that threw before its header was composed: what   *)
(* has been put into a header once is never sent again.                    *)
THEOREM Credentials == Spec => []OthersCredentials
<1> DEFINE Inv == /\ SocketInv /\ HandlerInv /\ FieldsType /\ CheckInv /\ ExecutedInv
                  /\ ComposeInv /\ WaitingInv /\ UpInv /\ ReadInv /\ DoneInv
<1>1. Init => Inv
  <2>1. Init => ComposeInv /\ WaitingInv /\ UpInv /\ ReadInv /\ DoneInv
    BY DEF Init, ComposeInv, WaitingInv, UpInv, ReadInv, DoneInv, Composing
  <2> QED BY <2>1, SocketInit, HandlerInit, FieldsInit
<1>2. Inv /\ [Next]_vars => Inv'
  BY SocketStep, HandlerStep, TypeStep, ExecutedStep, ComposeStep, WaitingStep, ExplainedStep
<1>3. Inv => OthersCredentials
  BY DEF DoneInv, Explained, NeverComposed, OthersCredentials
<1> QED BY <1>1, <1>2, <1>3, PTL DEF Spec

=============================================================================
