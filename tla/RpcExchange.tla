----------------------------- MODULE RpcExchange -----------------------------
(***************************************************************************)
(* One Requester making calls over its one Connection to a pre-forked      *)
(* server (Requester::call, send_call and waitForResponse against          *)
(* MultiProcessRpcServer::startChildLoop), with everything that may happen *)
(* to a call on the way: it waits long in the accept queue, a read or a    *)
(* write times out in the middle of a message, the peer closes or resets   *)
(* the connection, two messages are read as one.                           *)
(*                                                                         *)
(* Every TCP connection the requester opens is served by one handler       *)
(* (AcceptPool), which answers one call and closes.  Messages are whole,   *)
(* or cut off where a timeout cut them off; the framing within a message   *)
(* is HttpFraming's; how a connection comes about, TcpConnect's.           *)
(***************************************************************************)
EXTENDS Naturals, Sequences

CONSTANTS
  NumCalls,    \* how many calls an application makes
  NumClosing   \* how many, if it closes the connection after a call that threw

ASSUME NumCallsAssumption == NumCalls \in Nat \ {0}
ASSUME NumClosingAssumption == NumClosing \in 0 .. NumCalls

Call == 1 .. NumCalls   \* in the order they are made
Conn == 1 .. NumCalls   \* at most one connection is opened per call
NoConn == 0             \* fd_handle = -1

(* What travels: the request or response of a call, a fault that answers   *)
(* no call in particular, or the stump of a message.                       *)
Whole(i) == [kind |-> "whole", call |-> i]
Fault == [kind |-> "fault", call |-> 0]
Stump == [kind |-> "stump", call |-> 0]
Request == {Whole(i) : i \in Call} \cup {Stump}
Message == Request \cup {Fault}

VARIABLES
  appCloses, \* whether the application closes after a call that threw
  made,     \* calls made so far
  waiting,  \* the requester is in waitForResponse
  threw,    \* the last call threw and the application has not reacted yet
  result,   \* what each call has returned or thrown
  fd,       \* the requester's descriptor: a connection or NoConn
  opened,   \* connections opened so far
  gone,     \* connections the requester has closed
  up, down, \* what travels on each connection to the server and back
  phase,    \* where the handler of each connection is
  got,      \* the call each handler has read
  reset,    \* connections the server's side has reset
  executed  \* how often the method of each call has been invoked

clientVars == <<appCloses, made, waiting, threw, result, fd, opened, gone>>
serverVars == <<phase, got, executed>>
netVars == <<up, down, reset>>
vars == <<clientVars, serverVars, netVars>>

Phase == {"unopened", "queued", "reading", "executing", "replying",
          "recover", "closing", "closed"}
Pending == [kind |-> "none", call |-> 0]
Thrown == [kind |-> "thrown", call |-> 0]
Result == {Whole(i) : i \in Call} \cup {Fault, Pending, Thrown}

Init ==
  /\ appCloses \in BOOLEAN
  /\ made = 0
  /\ waiting = FALSE
  /\ threw = FALSE
  /\ result = [i \in Call |-> Pending]
  /\ fd = NoConn
  /\ opened = 0
  /\ gone = {}
  /\ up = [j \in Conn |-> <<>>]
  /\ down = [j \in Conn |-> <<>>]
  /\ phase = [j \in Conn |-> "unopened"]
  /\ got = [j \in Conn |-> 0]
  /\ reset = {}
  /\ executed = [i \in Call |-> 0]

-----------------------------------------------------------------------------
(* The requester.                                                          *)

Planned == IF appCloses THEN NumClosing ELSE NumCalls

CloseHandle_KeepsFd ==   \* mutant: fd_handle is not set to -1
  UNCHANGED <<fd, gone>>

(* Connection::close. *)
CloseHandle == fd' = NoConn /\ gone' = gone \cup {fd}
KeepHandle == UNCHANGED <<fd, gone>>

Finish(i, outcome) ==
  /\ result' = [result EXCEPT ![i] = outcome]
  /\ threw' = (outcome = Thrown)
  /\ waiting' = FALSE

(* send_call: an open connection is used again, else one is opened; then   *)
(* the request is written, completely or until the write times out, which  *)
(* may be before anything went out.                                        *)
SendCall ==
  LET i == made + 1
      j == IF fd = NoConn THEN opened + 1 ELSE fd
  IN /\ ~waiting
     /\ made < Planned
     /\ appCloses => ~threw
     /\ made' = i
     /\ fd' = j
     /\ opened' = IF fd = NoConn THEN j ELSE opened
     /\ phase' = [phase EXCEPT ![j] = IF @ = "unopened" THEN "queued" ELSE @]
     /\ \/ /\ waiting' = TRUE
           /\ threw' = FALSE
           /\ up' = [up EXCEPT ![j] = Append(@, Whole(i))]
           /\ UNCHANGED result
        \/ /\ Finish(i, Thrown)
           /\ up' \in {up, [up EXCEPT ![j] = Append(@, Stump)]}
     (* data sent to a socket that is closed is answered by a reset *)
     /\ reset' = IF phase[j] = "closed" /\ up' # up THEN reset \cup {j} ELSE reset
     /\ UNCHANGED <<appCloses, gone, down, got, executed>>

(* EPIPE: Connection::write closes and throws. *)
SendBroken ==
  /\ ~waiting
  /\ made < Planned
  /\ appCloses => ~threw
  /\ fd \in reset
  /\ made' = made + 1
  /\ Finish(made + 1, Thrown)
  /\ CloseHandle
  /\ UNCHANGED <<appCloses, opened, serverVars, netVars>>

(* The next message on the connection is complete: waitForResponse returns *)
(* it as the response, whichever call it belongs to, and closes.           *)
ReceiveResponse ==
  /\ waiting
  /\ down[fd] # <<>>
  /\ Head(down[fd]) # Stump
  /\ down' = [down EXCEPT ![fd] = Tail(@)]
  /\ Finish(made, Head(down[fd]))
  /\ CloseHandle
  /\ UNCHANGED <<appCloses, made, opened, serverVars, up, reset>>

(* A message follows a stump, in whose header or body it is taken to be.   *)
(* Where this is found out (content length, status, XML) does not matter   *)
(* here: it throws and the connection stays open.                          *)
ReceiveGarbled ==
  /\ waiting
  /\ Len(down[fd]) > 1
  /\ Head(down[fd]) = Stump
  /\ down' = [down EXCEPT ![fd] = Tail(@)]
  /\ Finish(made, Thrown)
  /\ KeepHandle
  /\ UNCHANGED <<appCloses, made, opened, serverVars, up, reset>>

ReceiveTimeout_IsEmpty ==   \* mutant: a timeout is a read of nothing, the loop ends
  /\ waiting
  /\ Finish(made, Fault)
  /\ KeepHandle
  /\ UNCHANGED <<appCloses, made, opened, serverVars, up, down, reset>>

(* Nothing more comes in time: the connection stays open, with what was    *)
(* already read of the response lost.                                      *)
ReceiveTimeout ==
  /\ waiting
  /\ Finish(made, Thrown)
  /\ KeepHandle
  /\ \/ UNCHANGED down
     \/ /\ down[fd] # <<>>
        /\ down' = [down EXCEPT ![fd] = <<Stump>> \o Tail(@)]
  /\ UNCHANGED <<appCloses, made, opened, serverVars, up, reset>>

ReceiveEof_Retry ==   \* mutant: the call is sent again over a new connection
  /\ waiting
  /\ down[fd] \in {<<>>, <<Stump>>}
  /\ phase[fd] = "closed"
  /\ fd \notin reset
  /\ opened < NumCalls
  /\ opened' = opened + 1
  /\ fd' = opened'
  /\ gone' = gone \cup {fd}
  /\ phase' = [phase EXCEPT ![opened'] = "queued"]
  /\ up' = [up EXCEPT ![opened'] = <<Whole(made)>>]
  /\ UNCHANGED <<appCloses, made, waiting, threw, result, got, executed, down, reset>>

(* End of file: Connection::read closes and throws. *)
ReceiveEof ==
  /\ waiting
  /\ down[fd] \in {<<>>, <<Stump>>}
  /\ phase[fd] = "closed"
  /\ fd \notin reset
  /\ Finish(made, Thrown)
  /\ CloseHandle
  /\ UNCHANGED <<appCloses, made, opened, serverVars, netVars>>

ReceiveReset_ReadsOn ==   \* mutant: ECONNRESET is taken for a read of nothing yet
  /\ waiting
  /\ fd \in reset
  /\ UNCHANGED vars

(* ECONNRESET: Connection::read throws and leaves the descriptor open. *)
ReceiveReset ==
  /\ waiting
  /\ down[fd] \in {<<>>, <<Stump>>}
  /\ fd \in reset
  /\ Finish(made, Thrown)
  /\ KeepHandle
  /\ UNCHANGED <<appCloses, made, opened, serverVars, netVars>>

(* The application reacts to an exception: Protocol::closeConnection. *)
CloseAfterThrow ==
  /\ appCloses
  /\ threw
  /\ threw' = FALSE
  /\ IF fd = NoConn THEN KeepHandle ELSE CloseHandle
  /\ UNCHANGED <<appCloses, made, waiting, result, opened, serverVars, netVars>>

-----------------------------------------------------------------------------
(* The handler of connection j: one pass of startChildLoop.                *)

Step(j, from, to) ==
  /\ phase[j] = from
  /\ phase' = [phase EXCEPT ![j] = to]
  /\ UNCHANGED clientVars

Deliver(j, m) == down' = [down EXCEPT ![j] = Append(@, m)]

AcceptConn(j) == Step(j, "queued", "reading") /\ UNCHANGED <<got, executed, netVars>>

(* A whole call is read, and nothing of what follows it. *)
ReadCall(j) ==
  /\ Step(j, "reading", "executing")
  /\ up[j] # <<>>
  /\ Head(up[j]) # Stump
  /\ got' = [got EXCEPT ![j] = Head(up[j]).call]
  /\ up' = [up EXCEPT ![j] = Tail(@)]
  /\ UNCHANGED <<executed, down, reset>>

(* The second of two messages is read into the buffer, or as the rest, of  *)
(* the first: no conforming XML.                                           *)
ReadGarbled(j) ==
  /\ Step(j, "reading", "recover")
  /\ Len(up[j]) > 1
  /\ \E rest \in {Tail(up[j]), Tail(Tail(up[j]))} : up' = [up EXCEPT ![j] = rest]
  /\ UNCHANGED <<got, executed, down, reset>>

ReadTimeout_WaitsOn(j) ==   \* mutant: only the end of the connection ends the wait
  /\ Step(j, "reading", "recover")
  /\ j \in gone
  /\ up' = [up EXCEPT ![j] = <<>>]
  /\ UNCHANGED <<got, executed, down, reset>>

(* Nothing, or nothing more of a message, comes in time. *)
ReadTimeout(j) ==
  /\ Step(j, "reading", "recover")
  /\ \/ UNCHANGED up
     \/ /\ up[j] # <<>>
        /\ up' = [up EXCEPT ![j] = IF Head(@) = Stump THEN Tail(@)
                                   ELSE <<Stump>> \o Tail(@)]
  /\ UNCHANGED <<got, executed, down, reset>>

ReadEof(j) ==
  /\ Step(j, "reading", "closed")
  /\ j \in gone
  /\ up[j] \in {<<>>, <<Stump>>}
  /\ UNCHANGED <<got, executed, netVars>>

(* preProcessCall throws. *)
CallFails(j) == Step(j, "executing", "recover") /\ UNCHANGED <<got, executed, netVars>>

Execute(j) ==
  /\ Step(j, "executing", "replying")
  /\ executed' = [executed EXCEPT ![got[j]] = @ + 1]
  /\ UNCHANGED <<got, netVars>>

(* What is left of a message whose write failed: some of it or nothing. *)
CutOff(j) == Deliver(j, Stump) \/ UNCHANGED down

(* The response is written; or some of it until the write times out, after *)
(* which the catch clause writes a fault behind it; or the requester has   *)
(* gone.                                                                   *)
Reply(j) ==
  /\ UNCHANGED <<got, executed, up, reset>>
  /\ \/ Step(j, "replying", "closing") /\ Deliver(j, Whole(got[j]))
     \/ Step(j, "replying", "recover") /\ CutOff(j)
     \/ Step(j, "replying", "closed") /\ j \in gone /\ UNCHANGED down

Recover(j) ==
  /\ Step(j, "recover", "closing")
  /\ Deliver(j, Fault) \/ CutOff(j)
  /\ UNCHANGED <<got, executed, up, reset>>

CloseConn_KeepAlive(j) ==   \* mutant: the next call is read from the same connection
  /\ Step(j, "closing", "reading")
  /\ UNCHANGED <<got, executed, netVars>>

(* Closing with unread data resets the connection. *)
CloseConn(j) ==
  /\ Step(j, "closing", "closed")
  /\ reset' = IF up[j] # <<>> THEN reset \cup {j} ELSE reset
  /\ UNCHANGED <<got, executed, up, down>>

-----------------------------------------------------------------------------
Receive == ReceiveResponse \/ ReceiveGarbled \/ ReceiveEof \/ ReceiveReset

Client == SendCall \/ SendBroken \/ Receive \/ ReceiveTimeout \/ CloseAfterThrow

Handle(j) ==
  \/ AcceptConn(j) \/ ReadCall(j) \/ ReadGarbled(j) \/ ReadTimeout(j) \/ ReadEof(j)
  \/ CallFails(j) \/ Execute(j) \/ Reply(j) \/ Recover(j) \/ CloseConn(j)

Next == Client \/ \E j \in Conn : Handle(j)

Spec == Init /\ [][Next]_vars

(* The requester reads what has come; the handlers are scheduled, their    *)
(* reads and writes end by their timeout, and a handler is found for every *)
(* connection: see WaitingServed of PoolClients for when that is so.  The  *)
(* requester's own timeout may be as long as it likes.                     *)
FairSpec == Spec /\ WF_vars(Receive) /\ \A j \in Conn : WF_vars(Handle(j))

-----------------------------------------------------------------------------
TypeOK ==
  /\ appCloses \in BOOLEAN
  /\ made \in 0 .. NumCalls
  /\ waiting \in BOOLEAN
  /\ threw \in BOOLEAN
  /\ result \in [Call -> Result]
  /\ fd \in Conn \cup {NoConn}
  /\ opened \in 0 .. NumCalls
  /\ gone \subseteq Conn
  /\ up \in [Conn -> Seq(Request)]
  /\ down \in [Conn -> Seq(Message)]
  /\ phase \in [Conn -> Phase]
  /\ got \in [Conn -> Call \cup {0}]
  /\ reset \subseteq Conn
  /\ executed \in [Call -> Nat]

(* A call that returns the response of another one returns that of an      *)
(* earlier call which had thrown before its response arrived.              *)
WrongAnswerIsLate ==
  \A i \in Call :
    result[i].kind = "whole" /\ result[i].call # i
      => result[i].call < i /\ result[result[i].call] = Thrown

(* The requester never sends a call twice and the server never executes it *)
(* twice; a response that is returned is that of a method that has run,    *)
(* and is not returned by two calls.                                       *)
AtMostOnce ==
  \A i \in Call :
    /\ executed[i] <= 1
    /\ result[i].kind = "whole" => /\ executed[result[i].call] = 1
                                  /\ \A k \in Call : result[k] = result[i] => i = k

(* A handler never executes a call on a connection it has answered: what   *)
(* the requester sends after it timed out is lost, not executed late.      *)
OneCallPerConnection ==
  [][\A j \in Conn : got'[j] # got[j] => got[j] = 0]_vars

(* Every call returns or throws, whatever becomes of its connection, and   *)
(* without the requester's timeout: the two sides never end up waiting for *)
(* each other.                                                             *)
CallsEnd == \A i \in Call : made = i ~> result[i] # Pending

(* An application that closes after a call that threw never gets another   *)
(* call's response.                                                        *)
OwnAnswer ==
  appCloses => \A i \in Call : result[i].kind = "whole" => result[i].call = i

(* Every connection's handler comes to its end. *)
HandlersEnd == \A j \in Conn : phase[j] # "unopened" ~> phase[j] = "closed"

(* ulxr_requester.h, call: "@return the methods response". *)
MethodsResponse == \A i \in Call : result[i].kind = "whole" => result[i].call = i
=============================================================================
