-------------------------- MODULE RpcExchangeProofs --------------------------
(***************************************************************************)
(* Types and safety of the exchange between a requester and its handlers,  *)
(* for any number of calls, with and without an application that closes    *)
(* the connection after a call that threw: where every call is on its way, *)
(* that it is in one place at a time, and which call a response answers.   *)
(***************************************************************************)
EXTENDS RpcExchange, TLAPS

(* Calls are made one after the other, over one connection at a time.      *)
OrderInv ==
  /\ fd <= opened /\ opened <= made
  /\ \A i \in Call : i > made => result[i] = Pending
  /\ waiting => fd # NoConn /\ result[made] = Pending /\ ~threw

(* Nothing is on a connection that is not open yet, and its handler reads  *)
(* one call of it.                                                         *)
PlaceInv ==
  /\ \A j \in Conn : j > opened => phase[j] = "unopened" /\ up[j] = <<>> /\ down[j] = <<>>
  /\ \A j \in Conn : phase[j] \in {"unopened", "queued", "reading"} => got[j] = 0
  /\ \A j \in Conn : phase[j] \in {"executing", "replying"} => got[j] \in Call

-----------------------------------------------------------------------------
LEMMA MessageTypes ==
  /\ Stump \in Request /\ \A i \in Call : Whole(i) \in Request
  /\ Stump \in Message /\ Fault \in Message /\ \A i \in Call : Whole(i) \in Message
  /\ Thrown \in Result /\ Pending \in Result /\ Fault \in Result
  /\ \A m \in Message : m # Stump => m \in Result
  /\ \A m \in Request : m # Stump => m.call \in Call /\ m = Whole(m.call)
  BY DEF Message, Request, Result, Stump, Fault, Thrown, Pending, Whole

LEMMA PlannedBound ==
  ASSUME TypeOK, made < Planned
  PROVE  made < NumCalls
  BY NumCallsAssumption, NumClosingAssumption DEF Planned, TypeOK

(* A client's step that ends the call in progress. *)
LEMMA FinishOrder ==
  ASSUME TypeOK, OrderInv, waiting, NEW r \in Result, Finish(made, r), made' = made,
         opened' = opened, fd' \in {fd, NoConn}
  PROVE  OrderInv'
<1>1. made \in Nat /\ opened \in Nat /\ fd \in Nat /\ result \in [Call -> Result]
  BY NumCallsAssumption DEF TypeOK, Conn, NoConn
<1>2. ~waiting' /\ \A i \in Call : i > made => result'[i] = result[i]
  BY <1>1 DEF Finish
<1>3. QED
  BY <1>1, <1>2 DEF OrderInv, NoConn

LEMMA ClientTypes ==
  ASSUME TypeOK, OrderInv, Client
  PROVE  TypeOK' /\ OrderInv'
<1>1. /\ made \in 0 .. NumCalls /\ opened \in 0 .. NumCalls /\ fd \in 0 .. NumCalls
      /\ result \in [Call -> Result] /\ up \in [Conn -> Seq(Request)]
      /\ down \in [Conn -> Seq(Message)] /\ NumCalls \in Nat
  BY NumCallsAssumption DEF TypeOK, Conn, NoConn
<1>2. waiting => made \in Call /\ fd \in Conn
  BY <1>1 DEF OrderInv, Call, Conn, NoConn
<1>3. CASE SendCall
  <2> DEFINE i == made + 1
             j == IF fd = NoConn THEN opened + 1 ELSE fd
  <2>1. i \in Call /\ j \in Conn
    BY <1>1, <1>3, PlannedBound DEF SendCall, OrderInv, Call, Conn, NoConn
  <2>2. /\ made' = i /\ fd' = j /\ opened' = IF fd = NoConn THEN j ELSE opened
        /\ phase' = [phase EXCEPT ![j] = IF @ = "unopened" THEN "queued" ELSE @]
        /\ reset' \in {reset, reset \cup {j}}
        /\ UNCHANGED <<appCloses, gone, down, got, executed>>
        /\ ~waiting
    BY <1>3 DEF SendCall
  <2>3. up' = up \/ \E m \in {Whole(i), Stump} : up' = [up EXCEPT ![j] = Append(@, m)]
    BY <1>3 DEF SendCall
  <2>4. /\ waiting' \in BOOLEAN /\ threw' \in BOOLEAN
        /\ waiting' => result' = result /\ threw' = FALSE
        /\ result' \in {result, [result EXCEPT ![i] = Thrown]}
    BY <1>3 DEF SendCall, Finish
  <2> HIDE DEF i, j
  <2>5. result' \in [Call -> Result]
    BY <1>1, <2>4, MessageTypes
  <2>6. up' \in [Conn -> Seq(Request)]
    <3>1. ASSUME NEW m \in {Whole(i), Stump} PROVE Append(up[j], m) \in Seq(Request)
      BY <1>1, <2>1, MessageTypes
    <3>2. QED
      BY <1>1, <2>1, <2>3, <3>1
  <2>7. phase' \in [Conn -> Phase]
    BY <2>2 DEF TypeOK, Phase
  <2>8. made' \in 0 .. NumCalls /\ opened' \in 0 .. NumCalls
    BY <1>1, <2>1, <2>2 DEF Call, Conn
  <2>9. TypeOK'
    BY <2>1, <2>2, <2>4, <2>5, <2>6, <2>7, <2>8 DEF TypeOK
  <2>10. fd' <= opened' /\ opened' <= made'
    <3>1. fd <= opened /\ opened <= made
      BY DEF OrderInv
    <3>2. CASE fd = NoConn
      <4>1. fd' = opened + 1 /\ opened' = opened + 1 /\ made' = made + 1
        BY <2>2, <3>2 DEF i, j
      <4>2. QED
        BY <1>1, <3>1, <4>1
    <3>3. CASE fd # NoConn
      <4>1. fd' = fd /\ opened' = opened /\ made' = made + 1
        BY <2>2, <3>3 DEF i, j
      <4>2. QED
        BY <1>1, <3>1, <4>1
    <3>4. QED
      BY <3>2, <3>3
  <2>11. \A k \in Call : k > made' => result'[k] = Pending
    <3> SUFFICES ASSUME NEW k \in Call, k > made' PROVE result'[k] = Pending
      OBVIOUS
    <3>1. k # i /\ k > made
      BY <1>1, <2>2 DEF Call, i
    <3>2. QED
      BY <1>1, <2>1, <2>4, <3>1 DEF OrderInv
  <2>12. waiting' => fd' # NoConn /\ result'[made'] = Pending /\ ~threw'
    BY <1>1, <2>1, <2>2, <2>4 DEF OrderInv, i, Conn, NoConn
  <2>13. QED
    BY <2>9, <2>10, <2>11, <2>12 DEF OrderInv
<1>4. CASE SendBroken
  <2>1. made + 1 \in Call
    BY <1>1, <1>4, PlannedBound DEF SendBroken, Call
  <2>2. /\ made' = made + 1 /\ fd' = NoConn /\ gone' = gone \cup {fd} /\ fd \in reset
        /\ result' = [result EXCEPT ![made + 1] = Thrown] /\ threw' \in BOOLEAN /\ waiting' = FALSE
        /\ UNCHANGED <<appCloses, opened, serverVars, netVars>>
    BY <1>4 DEF SendBroken, Finish, CloseHandle
  <2>3. result' \in [Call -> Result]
    BY <1>1, <2>2, MessageTypes
  <2>4. TypeOK'
    <3>1. made' \in 0 .. NumCalls /\ gone' \subseteq Conn
      BY <1>1, <2>1, <2>2 DEF TypeOK, Call
    <3>2. QED
      BY <2>2, <2>3, <3>1 DEF TypeOK, serverVars, netVars
  <2>5. OrderInv'
    BY <1>1, <2>1, <2>2 DEF OrderInv, NoConn, Call
  <2>6. QED
    BY <2>4, <2>5
<1>5. CASE Receive \/ ReceiveTimeout
  <2>1. /\ waiting /\ fd' \in {fd, NoConn} /\ gone' \in {gone, gone \cup {fd}}
        /\ UNCHANGED <<appCloses, made, opened, phase, got, executed, up, reset>>
    BY <1>5 DEF Receive, ReceiveResponse, ReceiveGarbled, ReceiveEof, ReceiveReset,
       ReceiveTimeout, CloseHandle, KeepHandle, serverVars, netVars
  <2>2. PICK r \in Result : Finish(made, r)
    <3>1. CASE ReceiveResponse
      <4>1. Head(down[fd]) \in Message /\ Head(down[fd]) # Stump /\ Finish(made, Head(down[fd]))
        BY <1>1, <1>2, <3>1 DEF ReceiveResponse
      <4>2. QED
        BY <4>1, MessageTypes
    <3>2. CASE ReceiveGarbled \/ ReceiveEof \/ ReceiveReset \/ ReceiveTimeout
      BY <3>2, MessageTypes DEF ReceiveGarbled, ReceiveEof, ReceiveReset, ReceiveTimeout
    <3>3. QED
      BY <1>5, <3>1, <3>2 DEF Receive
  <2>3. down' \in [Conn -> Seq(Message)]
    <3>0. fd \in Conn /\ down[fd] \in Seq(Message)
      BY <1>1, <1>2, <2>1
    <3>1. CASE \/ down' = down
               \/ down[fd] # <<>> /\ down' = [down EXCEPT ![fd] = Tail(@)]
      <4>1. down[fd] # <<>> => Tail(down[fd]) \in Seq(Message)
        BY <3>0
      <4>2. QED
        BY <1>1, <3>0, <3>1, <4>1
    <3>2. CASE down[fd] # <<>> /\ down' = [down EXCEPT ![fd] = <<Stump>> \o Tail(@)]
      <4>1. <<Stump>> \o Tail(down[fd]) \in Seq(Message)
        BY <1>1, <1>2, <2>1, <3>2, MessageTypes
      <4>2. QED
        BY <1>1, <3>2, <4>1
    <3>3. ReceiveGarbled => down[fd] # <<>>
      BY <1>1, <1>2 DEF ReceiveGarbled
    <3>4. QED
      BY <1>5, <3>1, <3>2, <3>3 DEF Receive, ReceiveResponse, ReceiveGarbled, ReceiveEof,
         ReceiveReset, ReceiveTimeout, netVars
  <2>4. result' \in [Call -> Result] /\ threw' \in BOOLEAN /\ waiting' = FALSE
    BY <1>1, <2>2 DEF Finish
  <2>5. fd' \in Conn \cup {NoConn} /\ gone' \subseteq Conn
    BY <1>2, <2>1 DEF TypeOK
  <2>6. TypeOK'
    BY <2>1, <2>3, <2>4, <2>5 DEF TypeOK
  <2>7. OrderInv'
    BY <2>1, <2>2, FinishOrder
  <2>8. QED
    BY <2>6, <2>7
<1>6. CASE CloseAfterThrow
  <2>1. /\ threw' = FALSE /\ threw
        /\ UNCHANGED <<appCloses, made, waiting, result, opened, serverVars, netVars>>
        /\ \/ fd = NoConn /\ fd' = fd /\ gone' = gone
           \/ fd # NoConn /\ fd' = NoConn /\ gone' = gone \cup {fd}
    BY <1>6 DEF CloseAfterThrow, CloseHandle, KeepHandle
  <2>2. TypeOK'
    BY <2>1 DEF TypeOK, serverVars, netVars
  <2>3. OrderInv'
    BY <1>1, <2>1 DEF OrderInv, NoConn
  <2>4. QED
    BY <2>2, <2>3
<1>7. QED
  BY <1>3, <1>4, <1>5, <1>6 DEF Client

LEMMA DeliverType ==
  ASSUME down \in [Conn -> Seq(Message)], NEW j \in Conn, NEW m \in Message, Deliver(j, m)
  PROVE  down' \in [Conn -> Seq(Message)]
<1>1. Append(down[j], m) \in Seq(Message)
  OBVIOUS
<1>2. QED
  BY <1>1 DEF Deliver

LEMMA HandlerTypes ==
  ASSUME TypeOK, OrderInv, PlaceInv, NEW j \in Conn, Handle(j)
  PROVE  TypeOK' /\ OrderInv' /\ PlaceInv'
<1>1. /\ up \in [Conn -> Seq(Request)] /\ down \in [Conn -> Seq(Message)]
      /\ phase \in [Conn -> Phase] /\ got \in [Conn -> Call \cup {0}]
      /\ executed \in [Call -> Nat] /\ reset \subseteq Conn
  BY DEF TypeOK
<1>2. UNCHANGED clientVars
  BY DEF Handle, AcceptConn, ReadCall, ReadGarbled, ReadTimeout, ReadEof, CallFails,
     Execute, Reply, Recover, CloseConn, Step
<1>3. \E p \in Phase : phase' = [phase EXCEPT ![j] = p]
  BY DEF Handle, AcceptConn, ReadCall, ReadGarbled, ReadTimeout, ReadEof, CallFails,
     Execute, Reply, Recover, CloseConn, Step, Phase
<1>4. phase' \in [Conn -> Phase]
  BY <1>1, <1>3
<1>5. up' \in [Conn -> Seq(Request)]
  <2>1. up[j] \in Seq(Request)
    BY <1>1
  <2>2. up[j] # <<>> => /\ Tail(up[j]) \in Seq(Request)
                        /\ <<Stump>> \o Tail(up[j]) \in Seq(Request)
    BY <2>1, MessageTypes
  <2>3. Len(up[j]) > 1 => Tail(Tail(up[j])) \in Seq(Request)
    <3>1. Len(up[j]) > 1 => Tail(up[j]) \in Seq(Request) /\ Tail(up[j]) # <<>>
      BY <2>1
    <3>2. \A t \in Seq(Request) : t # <<>> => Tail(t) \in Seq(Request)
      OBVIOUS
    <3>3. QED
      BY <3>1, <3>2
  <2>4. Len(up[j]) > 1 => up[j] # <<>>
    BY <2>1
  <2>5. up' = up \/ \E s \in Seq(Request) : up' = [up EXCEPT ![j] = s]
    <3>1. CASE ReadCall(j)
      BY <1>1, <2>2, <3>1 DEF ReadCall
    <3>2. CASE ReadGarbled(j)
      BY <1>1, <2>2, <2>3, <2>4, <3>2 DEF ReadGarbled
    <3>3. CASE ReadTimeout(j)
      BY <1>1, <2>2, <3>3 DEF ReadTimeout
    <3>4. QED
      BY <3>1, <3>2, <3>3 DEF Handle, AcceptConn, ReadEof, CallFails, Execute, Reply,
         Recover, CloseConn, netVars
  <2>6. QED
    BY <1>1, <2>5
<1>6. got' \in [Conn -> Call \cup {0}]
  <2>1. CASE ReadCall(j)
    <3>1. up[j] # <<>> /\ Head(up[j]) # Stump /\ got' = [got EXCEPT ![j] = Head(up[j]).call]
      BY <2>1 DEF ReadCall
    <3>2. Head(up[j]) \in Request
      BY <1>1, <3>1
    <3>3. QED
      BY <1>1, <3>1, <3>2, MessageTypes
  <2>2. CASE ~ReadCall(j)
    BY <1>1, <2>2 DEF Handle, AcceptConn, ReadGarbled, ReadTimeout, ReadEof, CallFails,
       Execute, Reply, Recover, CloseConn
  <2>3. QED
    BY <2>1, <2>2
<1>7. executed' \in [Call -> Nat]
  BY <1>1 DEF Handle, AcceptConn, ReadCall, ReadGarbled, ReadTimeout, ReadEof, CallFails,
     Execute, Reply, Recover, CloseConn
<1>8. down' \in [Conn -> Seq(Message)]
  <2>1. CASE Reply(j)
    <3>1. got[j] \in Call
      BY <2>1 DEF Reply, Step, PlaceInv
    <3>2. down' = down \/ \E m \in {Whole(got[j]), Stump} : Deliver(j, m)
      BY <2>1 DEF Reply, CutOff
    <3>3. QED
      BY <1>1, <3>1, <3>2, MessageTypes, DeliverType
  <2>2. CASE Recover(j)
    <3>1. down' = down \/ \E m \in {Fault, Stump} : Deliver(j, m)
      BY <2>2 DEF Recover, CutOff
    <3>2. QED
      BY <1>1, <3>1, MessageTypes, DeliverType
  <2>3. CASE ~Reply(j) /\ ~Recover(j)
    BY <1>1, <2>3 DEF Handle, AcceptConn, ReadCall, ReadGarbled, ReadTimeout, ReadEof,
       CallFails, Execute, CloseConn, netVars
  <2>4. QED
    BY <2>1, <2>2, <2>3
<1>9. reset' \subseteq Conn
  BY <1>1 DEF Handle, AcceptConn, ReadCall, ReadGarbled, ReadTimeout, ReadEof, CallFails,
     Execute, Reply, Recover, CloseConn, netVars
<1>10. TypeOK'
  <2>1. appCloses' \in BOOLEAN /\ made' \in 0 .. NumCalls /\ waiting' \in BOOLEAN
        /\ threw' \in BOOLEAN /\ result' \in [Call -> Result] /\ fd' \in Conn \cup {NoConn}
        /\ opened' \in 0 .. NumCalls /\ gone' \subseteq Conn
    BY <1>2 DEF TypeOK, clientVars
  <2>2. QED
    BY <1>4, <1>5, <1>6, <1>7, <1>8, <1>9, <2>1 DEF TypeOK
<1>11. OrderInv'
  BY <1>2 DEF OrderInv, clientVars
<1>12. phase[j] # "unopened" /\ ~(j > opened)
  BY DEF Handle, AcceptConn, ReadCall, ReadGarbled, ReadTimeout, ReadEof, CallFails,
     Execute, Reply, Recover, CloseConn, Step, PlaceInv
<1>13. \A k \in Conn : k # j => /\ phase'[k] = phase[k] /\ got'[k] = got[k]
                                /\ up'[k] = up[k] /\ down'[k] = down[k]
  <2>1. \A k \in Conn : k # j => phase'[k] = phase[k] /\ got'[k] = got[k]
    BY <1>1, <1>3 DEF Handle, AcceptConn, ReadCall, ReadGarbled, ReadTimeout, ReadEof,
       CallFails, Execute, Reply, Recover, CloseConn
  <2>2. \A k \in Conn : k # j => up'[k] = up[k]
    BY <1>1 DEF Handle, AcceptConn, ReadCall, ReadGarbled, ReadTimeout, ReadEof,
       CallFails, Execute, Reply, Recover, CloseConn, netVars
  <2>3. \A k \in Conn : k # j => down'[k] = down[k]
    BY <1>1 DEF Handle, AcceptConn, ReadCall, ReadGarbled, ReadTimeout, ReadEof,
       CallFails, Execute, Reply, Recover, CloseConn, CutOff, Deliver, netVars
  <2>4. QED
    BY <2>1, <2>2, <2>3
<1>14. /\ phase'[j] \in {"unopened", "queued", "reading"} => got'[j] = 0
       /\ phase'[j] \in {"executing", "replying"} => got'[j] \in Call
  <2>1. CASE ReadCall(j)
    <3>1. /\ up[j] # <<>> /\ Head(up[j]) # Stump /\ got' = [got EXCEPT ![j] = Head(up[j]).call]
          /\ phase' = [phase EXCEPT ![j] = "executing"]
      BY <2>1 DEF ReadCall, Step
    <3>2. Head(up[j]) \in Request
      BY <1>1, <3>1
    <3>3. QED
      BY <1>1, <3>1, <3>2, MessageTypes
  <2>2. CASE Execute(j)
    BY <1>1, <2>2 DEF Execute, Step, PlaceInv
  <2>3. CASE AcceptConn(j)
    BY <1>1, <2>3 DEF AcceptConn, Step, PlaceInv
  <2>4. CASE \E p \in {"recover", "closing", "closed"} : phase' = [phase EXCEPT ![j] = p]
    BY <1>1, <2>4
  <2>5. QED
    BY <2>1, <2>2, <2>3, <2>4 DEF Handle, ReadGarbled, ReadTimeout, ReadEof, CallFails,
       Reply, Recover, CloseConn, Step
<1>15. PlaceInv'
  BY <1>2, <1>12, <1>13, <1>14 DEF PlaceInv, clientVars
<1>16. QED
  BY <1>10, <1>11, <1>15

LEMMA ClientPlaces ==
  ASSUME TypeOK, OrderInv, PlaceInv, Client
  PROVE  PlaceInv'
<1>1. /\ made \in 0 .. NumCalls /\ opened \in 0 .. NumCalls /\ fd \in 0 .. NumCalls
      /\ up \in [Conn -> Seq(Request)] /\ down \in [Conn -> Seq(Message)]
      /\ phase \in [Conn -> Phase] /\ NumCalls \in Nat /\ fd <= opened
  BY NumCallsAssumption DEF TypeOK, Conn, NoConn, OrderInv
<1>2. CASE SendCall
  <2> DEFINE j == IF fd = NoConn THEN opened + 1 ELSE fd
  <2>1. opened' \in Nat /\ j \in Nat /\ opened' >= opened /\ ~(j > opened')
    BY <1>1, <1>2 DEF SendCall
  <2>2. /\ phase' = [phase EXCEPT ![j] = IF @ = "unopened" THEN "queued" ELSE @]
        /\ UNCHANGED <<down, got>>
        /\ up' = up \/ \E m \in {Whole(made + 1), Stump} : up' = [up EXCEPT ![j] = Append(@, m)]
    BY <1>2 DEF SendCall
  <2> HIDE DEF j
  <2>3. \A k \in Conn : k # j => phase'[k] = phase[k] /\ up'[k] = up[k]
    BY <1>1, <2>2
  <2>4. \A k \in Conn : k > opened' => k > opened /\ k # j
    BY <1>1, <2>1 DEF Conn
  <2>5. \A k \in Conn : \/ phase'[k] = phase[k]
                        \/ phase[k] = "unopened" /\ phase'[k] = "queued"
    BY <1>1, <2>2
  <2>6. QED
    BY <2>2, <2>3, <2>4, <2>5 DEF PlaceInv
<1>3. CASE ~SendCall
  <2>1. UNCHANGED <<opened, phase, got, up>>
    BY <1>3 DEF Client, SendBroken, Receive, ReceiveResponse, ReceiveGarbled, ReceiveEof,
       ReceiveReset, ReceiveTimeout, CloseAfterThrow, serverVars, netVars
  <2>2. \A k \in Conn : k > opened => down'[k] = down[k]
    <3>1. down' = down \/ \E s : down' = [down EXCEPT ![fd] = s]
      BY <1>3 DEF Client, SendBroken, Receive, ReceiveResponse, ReceiveGarbled, ReceiveEof,
         ReceiveReset, ReceiveTimeout, CloseAfterThrow, serverVars, netVars
    <3>2. \A k \in Conn : k > opened => k # fd
      BY <1>1 DEF Conn
    <3>3. QED
      BY <1>1, <3>1, <3>2
  <2>3. QED
    BY <2>1, <2>2 DEF PlaceInv
<1>4. QED
  BY <1>2, <1>3

LEMMA InitTypes == Init => TypeOK /\ OrderInv /\ PlaceInv
<1> SUFFICES ASSUME Init PROVE TypeOK /\ OrderInv /\ PlaceInv
  OBVIOUS
<1>1. appCloses \in BOOLEAN /\ waiting \in BOOLEAN /\ threw \in BOOLEAN
  BY DEF Init
<1>2. /\ made \in 0 .. NumCalls /\ opened \in 0 .. NumCalls /\ fd \in Conn \cup {NoConn}
      /\ gone \subseteq Conn /\ reset \subseteq Conn
  BY NumCallsAssumption DEF Init
<1>3. /\ result \in [Call -> Result] /\ executed \in [Call -> Nat]
      /\ got \in [Conn -> Call \cup {0}] /\ phase \in [Conn -> Phase]
  BY DEF Init, Result, Phase
<1>4. up \in [Conn -> Seq(Request)] /\ down \in [Conn -> Seq(Message)]
  BY DEF Init
<1>5. OrderInv
  BY DEF Init, OrderInv, NoConn
<1>6. PlaceInv
  BY DEF Init, PlaceInv
<1>7. QED
  BY <1>1, <1>2, <1>3, <1>4, <1>5, <1>6 DEF TypeOK

(* Descriptors, connections, messages and handlers stay within their types, *)
(* whatever times out and whoever closes.                                  *)
THEOREM ExchangeType == Spec => []TypeOK
<1> DEFINE TInv == TypeOK /\ OrderInv /\ PlaceInv
<1>1. Init => TInv
  BY InitTypes
<1>2. TInv /\ [Next]_vars => TInv'
  <2> SUFFICES ASSUME TInv, [Next]_vars PROVE TInv'
    OBVIOUS
  <2>1. CASE Client
    BY <2>1, ClientTypes, ClientPlaces
  <2>2. CASE \E j \in Conn : Handle(j)
    BY <2>2, HandlerTypes
  <2>3. CASE UNCHANGED vars
    BY <2>3 DEF TypeOK, OrderInv, PlaceInv, vars, clientVars, serverVars, netVars
  <2>4. QED
    BY <2>1, <2>2, <2>3 DEF Next
<1>3. TInv => TypeOK
  OBVIOUS
<1>4. QED
  BY <1>1, <1>2, <1>3, PTL DEF Spec

-----------------------------------------------------------------------------
(* The calls of a sequence of messages, and that none is in it twice. *)
Calls(s) == {c \in Call : \E n \in DOMAIN s : s[n] = Whole(c)}
Once(s) == \A m, n \in DOMAIN s : \A c \in Call : s[m] = Whole(c) /\ s[n] = Whole(c) => m = n

(* Nothing was added to a sequence of messages but stumps and faults. *)
Less(t, s) == Calls(t) \subseteq Calls(s) /\ (Once(s) => Once(t))

(* The call a handler has read and not answered, and all calls that are on *)
(* their way over a connection.                                            *)
Held(j) == IF phase[j] \in {"executing", "replying"} THEN {got[j]} ELSE {}
OnWay(j) == Calls(up[j]) \cup Held(j) \cup Calls(down[j])

(* On each connection, every call is in one place, with its executions. *)
PlacedOnce(j) ==
  /\ Once(up[j]) /\ Once(down[j])
  /\ \A c \in Calls(up[j]) : c \notin Held(j) \cup Calls(down[j]) /\ executed[c] = 0
  /\ \A c \in Held(j) : c \notin Calls(down[j])
                        /\ executed[c] = IF phase[j] = "executing" THEN 0 ELSE 1
  /\ \A c \in Calls(down[j]) : executed[c] = 1

(* No call is on two connections, or both returned and on its way. *)
ApartInv ==
  /\ \A j, k \in Conn : j # k => OnWay(j) \cap OnWay(k) = {}
  /\ \A j \in Conn : \A c \in OnWay(j) : c <= made /\ \A i \in Call : result[i] # Whole(c)
  /\ \A c \in Call : c > made => executed[c] = 0

(* What is on its way over the connection the requester has are the call   *)
(* it waits for and calls that threw.                                      *)
LateInv ==
  fd # NoConn => \A c \in OnWay(fd) : result[c] = Thrown \/ (waiting /\ c = made)

(* An application that closes after a call that threw has no connection    *)
(* left on which another call is on its way.                               *)
CloseInv ==
  appCloses => /\ waiting => OnWay(fd) \subseteq {made}
               /\ ~waiting /\ ~threw => fd = NoConn

IInv == /\ TypeOK /\ OrderInv /\ PlaceInv
        /\ \A j \in Conn : PlacedOnce(j)
        /\ ApartInv /\ LateInv /\ CloseInv
        /\ AtMostOnce /\ WrongAnswerIsLate /\ OwnAnswer

-----------------------------------------------------------------------------
(* Sequences of messages.                                                  *)

LEMMA WholeCalls ==
  /\ \A c, d \in Call : Whole(c) = Whole(d) => c = d
  /\ \A c \in Call : /\ Whole(c) # Stump /\ Whole(c) # Fault
                     /\ Whole(c) # Thrown /\ Whole(c) # Pending
                     /\ Whole(c).kind = "whole" /\ Whole(c).call = c
  /\ Fault.kind # "whole" /\ Thrown.kind # "whole" /\ Pending.kind # "whole"
  /\ Fault # Thrown /\ Fault # Pending /\ Thrown # Pending
  /\ \A r \in Result : r.kind = "whole" => r.call \in Call /\ r = Whole(r.call)
  BY DEF Whole, Stump, Fault, Thrown, Pending, Result

LEMMA AppendWhole ==
  ASSUME NEW S, NEW s \in Seq(S), NEW c \in Call, Whole(c) \in S
  PROVE  /\ Calls(Append(s, Whole(c))) = Calls(s) \cup {c}
         /\ Once(s) /\ c \notin Calls(s) => Once(Append(s, Whole(c)))
<1> DEFINE t == Append(s, Whole(c))
<1>1. /\ Len(s) \in Nat /\ DOMAIN s = 1 .. Len(s) /\ DOMAIN t = 1 .. Len(s) + 1
      /\ \A n \in 1 .. Len(s) : t[n] = s[n]
      /\ t[Len(s) + 1] = Whole(c)
  OBVIOUS
<1> HIDE DEF t
<1>2. Calls(t) = Calls(s) \cup {c}
  BY <1>1, WholeCalls DEF Calls
<1>3. Once(s) /\ c \notin Calls(s) => Once(t)
  BY <1>1, WholeCalls DEF Once, Calls
<1>4. QED
  BY <1>2, <1>3 DEF t

LEMMA AppendOther ==
  ASSUME NEW S, NEW s \in Seq(S), NEW m \in S, \A c \in Call : m # Whole(c)
  PROVE  Less(Append(s, m), s)
<1> DEFINE t == Append(s, m)
<1>1. /\ Len(s) \in Nat /\ DOMAIN s = 1 .. Len(s) /\ DOMAIN t = 1 .. Len(s) + 1
      /\ \A n \in 1 .. Len(s) : t[n] = s[n]
      /\ t[Len(s) + 1] = m
  OBVIOUS
<1> HIDE DEF t
<1>2. \A n \in DOMAIN t : \A c \in Call : t[n] = Whole(c) => n \in DOMAIN s /\ s[n] = Whole(c)
  BY <1>1
<1>3. Less(t, s)
  BY <1>2 DEF Less, Calls, Once
<1>4. QED
  BY <1>3 DEF t

LEMMA TailLess ==
  ASSUME NEW S, NEW s \in Seq(S), s # <<>>
  PROVE  /\ Less(Tail(s), s)
         /\ \A c \in Call : Head(s) = Whole(c)
              => c \in Calls(s) /\ (Once(s) => c \notin Calls(Tail(s)))
<1> DEFINE t == Tail(s)
<1>1. /\ Len(s) \in Nat \ {0} /\ DOMAIN s = 1 .. Len(s) /\ DOMAIN t = 1 .. Len(s) - 1
      /\ \A n \in DOMAIN t : t[n] = s[n + 1]
      /\ Head(s) = s[1]
  OBVIOUS
<1> HIDE DEF t
<1>2. \A n \in DOMAIN t : n + 1 \in DOMAIN s /\ n + 1 # 1
  BY <1>1
<1>3. Less(t, s)
  <2>1. Calls(t) \subseteq Calls(s)
    BY <1>1, <1>2 DEF Calls
  <2>2. \A m, n \in DOMAIN t : m + 1 = n + 1 => m = n
    BY <1>1
  <2>3. Once(s) => Once(t)
    BY <1>1, <1>2, <2>2 DEF Once
  <2>4. QED
    BY <2>1, <2>3 DEF Less
<1>4. ASSUME NEW c \in Call, Head(s) = Whole(c)
      PROVE  c \in Calls(s) /\ (Once(s) => c \notin Calls(t))
  <2>1. 1 \in DOMAIN s /\ s[1] = Whole(c)
    BY <1>1, <1>4
  <2>2. QED
    BY <1>1, <1>2, <2>1 DEF Calls, Once
<1>5. QED
  BY <1>3, <1>4 DEF t

LEMMA StumpLess ==
  ASSUME NEW S, NEW s \in Seq(S), Stump \in S
  PROVE  Less(<<Stump>> \o s, s)
<1> DEFINE t == <<Stump>> \o s
<1>1. /\ Len(s) \in Nat /\ DOMAIN s = 1 .. Len(s) /\ DOMAIN t = 1 .. Len(s) + 1
      /\ t[1] = Stump /\ \A n \in DOMAIN t : n # 1 => n - 1 \in DOMAIN s /\ t[n] = s[n - 1]
  OBVIOUS
<1> HIDE DEF t
<1>2. \A n \in DOMAIN t : \A c \in Call :
        t[n] = Whole(c) => n - 1 \in DOMAIN s /\ s[n - 1] = Whole(c)
  BY <1>1, WholeCalls
<1>3. \A m, n \in DOMAIN t : m - 1 = n - 1 => m = n
  BY <1>1
<1>4. Calls(t) \subseteq Calls(s)
  BY <1>2 DEF Calls
<1>5. Once(s) => Once(t)
  BY <1>2, <1>3 DEF Once
<1>6. QED
  BY <1>4, <1>5 DEF Less, t

LEMMA LessTransitive ==
  \A r, s, t : Less(r, s) /\ Less(s, t) => Less(r, t)
  BY DEF Less

LEMMA LessReflexive == \A s : Less(s, s)
  BY DEF Less

-----------------------------------------------------------------------------
(* One connection in one step.                                             *)

LEMMA PlacedSame ==
  ASSUME NEW j \in Conn, PlacedOnce(j), up'[j] = up[j], down'[j] = down[j],
         phase'[j] = phase[j], got'[j] = got[j],
         \A c \in OnWay(j) : executed'[c] = executed[c]
  PROVE  PlacedOnce(j)' /\ OnWay(j)' = OnWay(j)
<1>1. Held(j)' = Held(j) /\ OnWay(j)' = OnWay(j)
  BY DEF Held, OnWay, Calls
<1>2. PlacedOnce(j)'
  BY <1>1 DEF PlacedOnce, OnWay, Calls, Once
<1>3. QED
  BY <1>1, <1>2

LEMMA PlacedLess ==
  ASSUME NEW j \in Conn, PlacedOnce(j), Less(up'[j], up[j]), Less(down'[j], down[j]),
         \/ phase'[j] \notin {"executing", "replying"}
         \/ phase'[j] = phase[j] /\ got'[j] = got[j],
         executed' = executed
  PROVE  PlacedOnce(j)' /\ OnWay(j)' \subseteq OnWay(j)
<1>1. Held(j)' = {} \/ (Held(j)' = Held(j) /\ phase'[j] = phase[j])
  BY DEF Held
<1>2. Calls(up[j])' \subseteq Calls(up[j]) /\ Calls(down[j])' \subseteq Calls(down[j])
  BY DEF Less, Calls
<1>3. Once(up[j])' /\ Once(down[j])'
  BY DEF Less, Once, PlacedOnce
<1>4. PlacedOnce(j)'
  BY <1>1, <1>2, <1>3 DEF PlacedOnce
<1>5. OnWay(j)' \subseteq OnWay(j)
  BY <1>1, <1>2 DEF OnWay
<1>6. QED
  BY <1>4, <1>5

LEMMA ReadPlaced ==
  ASSUME TypeOK, PlaceInv, NEW j \in Conn, PlacedOnce(j), ReadCall(j)
  PROVE  PlacedOnce(j)' /\ OnWay(j)' \subseteq OnWay(j)
<1> DEFINE c == Head(up[j]).call
<1>1. /\ up[j] # <<>> /\ Head(up[j]) # Stump /\ phase[j] = "reading" /\ phase'[j] = "executing"
      /\ got'[j] = c /\ up'[j] = Tail(up[j]) /\ UNCHANGED <<executed, down>>
  BY DEF ReadCall, Step, TypeOK
<1>2. up[j] \in Seq(Request)
  BY DEF TypeOK
<1>3. Head(up[j]) \in Request
  BY <1>1, <1>2
<1>4. c \in Call /\ Head(up[j]) = Whole(c)
  BY <1>1, <1>3, MessageTypes
<1> HIDE DEF c
<1>5. Less(Tail(up[j]), up[j]) /\ c \in Calls(up[j])
      /\ (Once(up[j]) => c \notin Calls(Tail(up[j])))
  BY <1>1, <1>2, <1>4, TailLess
<1>6. Held(j) = {} /\ Held(j)' = {c}
  BY <1>1 DEF Held
<1>7. Calls(up[j])' = Calls(Tail(up[j])) /\ Calls(down[j])' = Calls(down[j])
  BY <1>1 DEF Calls
<1>8. Once(up[j])' /\ Once(down[j])'
  BY <1>1, <1>5 DEF Less, Once, PlacedOnce
<1>9. PlacedOnce(j)'
  BY <1>1, <1>5, <1>6, <1>7, <1>8 DEF PlacedOnce, Less
<1>10. OnWay(j)' \subseteq OnWay(j)
  BY <1>5, <1>6, <1>7 DEF OnWay, Less
<1>11. QED
  BY <1>9, <1>10

LEMMA ExecutePlaced ==
  ASSUME TypeOK, PlaceInv, NEW j \in Conn, PlacedOnce(j), Execute(j)
  PROVE  /\ PlacedOnce(j)' /\ OnWay(j)' = OnWay(j)
         /\ got[j] \in Held(j) /\ executed[got[j]] = 0
         /\ executed' = [executed EXCEPT ![got[j]] = 1]
<1>1. /\ phase[j] = "executing" /\ phase'[j] = "replying" /\ got' = got
      /\ executed' = [executed EXCEPT ![got[j]] = @ + 1] /\ UNCHANGED <<up, down>>
      /\ got[j] \in Call /\ executed \in [Call -> Nat]
  BY DEF Execute, Step, TypeOK, PlaceInv, netVars
<1>2. Held(j) = {got[j]} /\ Held(j)' = {got[j]}
  BY <1>1 DEF Held
<1>3. executed[got[j]] = 0
  BY <1>1, <1>2 DEF PlacedOnce
<1>4. Calls(up[j])' = Calls(up[j]) /\ Calls(down[j])' = Calls(down[j])
  BY <1>1 DEF Calls
<1>5. Once(up[j])' /\ Once(down[j])'
  BY <1>1 DEF Once, PlacedOnce
<1>6. /\ executed'[got[j]] = 1
      /\ \A c \in Call : c # got[j] => executed'[c] = executed[c]
  BY <1>1, <1>3
<1>7. \A c \in Calls(up[j]) \cup Calls(down[j]) : c \in Call /\ c # got[j]
  BY <1>2 DEF Calls, PlacedOnce
<1>8. PlacedOnce(j)'
  BY <1>1, <1>2, <1>4, <1>5, <1>6, <1>7 DEF PlacedOnce
<1>9. QED
  BY <1>1, <1>2, <1>3, <1>4, <1>8 DEF OnWay

LEMMA AnswerPlaced ==
  ASSUME TypeOK, PlaceInv, NEW j \in Conn, PlacedOnce(j),
         phase[j] = "replying", phase'[j] = "closing", Deliver(j, Whole(got[j])),
         UNCHANGED <<got, executed, up>>
  PROVE  PlacedOnce(j)' /\ OnWay(j)' \subseteq OnWay(j)
<1>1. got[j] \in Call /\ down[j] \in Seq(Message) /\ down'[j] = Append(down[j], Whole(got[j]))
  BY DEF PlaceInv, TypeOK, Deliver
<1>2. Held(j) = {got[j]} /\ Held(j)' = {}
  BY DEF Held
<1>3. /\ Calls(down'[j]) = Calls(down[j]) \cup {got[j]}
      /\ Once(down[j]) /\ got[j] \notin Calls(down[j]) => Once(down'[j])
  BY <1>1, AppendWhole, MessageTypes
<1>4. Calls(up[j])' = Calls(up[j]) /\ Calls(down[j])' = Calls(down'[j])
  BY DEF Calls
<1>5. Once(up[j])' /\ Once(down[j])'
  BY <1>2, <1>3 DEF Once, PlacedOnce
<1>6. PlacedOnce(j)'
  BY <1>2, <1>3, <1>4, <1>5 DEF PlacedOnce
<1>7. QED
  BY <1>2, <1>3, <1>4, <1>6 DEF OnWay

(* The steps in which a handler neither reads, nor executes, nor answers.  *)
LEMMA QuietPlaced ==
  ASSUME TypeOK, NEW j \in Conn, PlacedOnce(j), Handle(j), ~ReadCall(j), ~Execute(j),
         ~(phase[j] = "replying" /\ phase'[j] = "closing")
  PROVE  /\ PlacedOnce(j)' /\ OnWay(j)' \subseteq OnWay(j)
         /\ executed' = executed
<1>1. /\ up \in [Conn -> Seq(Request)] /\ down \in [Conn -> Seq(Message)]
      /\ phase \in [Conn -> Phase] /\ up[j] \in Seq(Request) /\ down[j] \in Seq(Message)
  BY DEF TypeOK
<1>2. executed' = executed /\ phase'[j] \notin {"executing", "replying"}
  BY <1>1 DEF Handle, AcceptConn, ReadGarbled, ReadTimeout, ReadEof, CallFails, Reply,
     Recover, CloseConn, Step
<1>3. Less(down'[j], down[j])
  <2>1. \A m \in {Stump, Fault} : Less(Append(down[j], m), down[j])
    BY <1>1, AppendOther, WholeCalls, MessageTypes
  <2>2. down' = down \/ \E m \in {Stump, Fault} : Deliver(j, m)
    <3>1. CASE Reply(j)
      BY <1>1, <3>1 DEF Reply, Step, CutOff
    <3>2. CASE ~Reply(j)
      BY <3>2 DEF Handle, AcceptConn, ReadGarbled, ReadTimeout, ReadEof, CallFails,
         Recover, CloseConn, CutOff, netVars
    <3>3. QED
      BY <3>1, <3>2
  <2>3. QED
    BY <1>1, <2>1, <2>2, LessReflexive DEF Deliver
<1>4. Less(up'[j], up[j])
  <2>1. up[j] # <<>> => /\ Tail(up[j]) \in Seq(Request) /\ Less(Tail(up[j]), up[j])
                        /\ Less(<<Stump>> \o Tail(up[j]), up[j])
    <3>1. up[j] # <<>> => Tail(up[j]) \in Seq(Request) /\ Less(Tail(up[j]), up[j])
      BY <1>1, TailLess
    <3>2. \A t \in Seq(Request) : Less(<<Stump>> \o t, t)
      BY StumpLess, MessageTypes
    <3>3. QED
      BY <3>1, <3>2, LessTransitive
  <2>2. CASE ReadGarbled(j)
    <3>1. up[j] # <<>> /\ Tail(up[j]) # <<>>
      <4>1. Len(up[j]) > 1
        BY <2>2 DEF ReadGarbled
      <4>2. \A t \in Seq(Request) : Len(t) > 1 => t # <<>> /\ Tail(t) # <<>>
        OBVIOUS
      <4>3. QED
        BY <1>1, <4>1, <4>2
    <3>2. Less(Tail(Tail(up[j])), up[j])
      <4>1. Less(Tail(Tail(up[j])), Tail(up[j]))
        BY <2>1, <3>1, TailLess
      <4>2. QED
        BY <2>1, <3>1, <4>1 DEF Less
    <3>3. up'[j] \in {Tail(up[j]), Tail(Tail(up[j]))}
      BY <1>1, <2>2 DEF ReadGarbled
    <3>4. QED
      BY <2>1, <3>1, <3>2, <3>3
  <2>3. CASE ReadTimeout(j)
    <3>1. up' = up \/ (up[j] # <<>> /\ up'[j] \in {Tail(up[j]), <<Stump>> \o Tail(up[j])})
      BY <1>1, <2>3 DEF ReadTimeout
    <3>2. QED
      BY <2>1, <3>1, LessReflexive
  <2>4. CASE ~ReadGarbled(j) /\ ~ReadTimeout(j)
    <3>1. up' = up
      BY <2>4 DEF Handle, AcceptConn, ReadEof, CallFails, Reply, Recover, CloseConn, netVars
    <3>2. QED
      BY <3>1, LessReflexive
  <2>5. QED
    BY <2>2, <2>3, <2>4
<1>5. QED
  BY <1>2, <1>3, <1>4, PlacedLess

LEMMA HandlerPlaced ==
  ASSUME TypeOK, PlaceInv, NEW j \in Conn, PlacedOnce(j), Handle(j)
  PROVE  /\ PlacedOnce(j)' /\ OnWay(j)' \subseteq OnWay(j)
         /\ \/ executed' = executed
            \/ /\ got[j] \in OnWay(j) /\ executed[got[j]] = 0
               /\ executed' = [executed EXCEPT ![got[j]] = 1]
<1>1. CASE ReadCall(j)
  BY <1>1, ReadPlaced DEF ReadCall
<1>2. CASE Execute(j)
  BY <1>2, ExecutePlaced DEF OnWay
<1>3. CASE /\ ~ReadCall(j) /\ ~Execute(j)
           /\ phase[j] = "replying" /\ phase'[j] = "closing"
  <2>1. Deliver(j, Whole(got[j])) /\ UNCHANGED <<got, executed, up>>
    BY <1>3 DEF Handle, AcceptConn, ReadGarbled, ReadTimeout, ReadEof, CallFails, Reply,
       Recover, CloseConn, Step, TypeOK
  <2>2. QED
    BY <1>3, <2>1, AnswerPlaced
<1>4. CASE /\ ~ReadCall(j) /\ ~Execute(j)
           /\ ~(phase[j] = "replying" /\ phase'[j] = "closing")
  BY <1>4, QuietPlaced
<1>5. QED
  BY <1>1, <1>2, <1>3, <1>4

(* What one handler does leaves the other connections alone. *)
LEMMA HandlerElsewhere ==
  ASSUME TypeOK, NEW j \in Conn, Handle(j), NEW k \in Conn, k # j
  PROVE  /\ phase'[k] = phase[k] /\ got'[k] = got[k]
         /\ up'[k] = up[k] /\ down'[k] = down[k]
<1>1. /\ up \in [Conn -> Seq(Request)] /\ down \in [Conn -> Seq(Message)]
      /\ phase \in [Conn -> Phase] /\ got \in [Conn -> Call \cup {0}]
  BY DEF TypeOK
<1>2. phase'[k] = phase[k] /\ got'[k] = got[k]
  BY <1>1 DEF Handle, AcceptConn, ReadCall, ReadGarbled, ReadTimeout, ReadEof,
     CallFails, Execute, Reply, Recover, CloseConn, Step
<1>3. up'[k] = up[k]
  BY <1>1 DEF Handle, AcceptConn, ReadCall, ReadGarbled, ReadTimeout, ReadEof,
     CallFails, Execute, Reply, Recover, CloseConn, netVars
<1>4. down'[k] = down[k]
  BY <1>1 DEF Handle, AcceptConn, ReadCall, ReadGarbled, ReadTimeout, ReadEof,
     CallFails, Execute, Reply, Recover, CloseConn, CutOff, Deliver, netVars
<1>5. QED
  BY <1>2, <1>3, <1>4

LEMMA HandlerSafe ==
  ASSUME IInv, NEW j \in Conn, Handle(j)
  PROVE  IInv'
<1>1. TypeOK' /\ OrderInv' /\ PlaceInv'
  BY HandlerTypes DEF IInv
<1>2. UNCHANGED clientVars
  BY DEF Handle, AcceptConn, ReadCall, ReadGarbled, ReadTimeout, ReadEof, CallFails,
     Execute, Reply, Recover, CloseConn, Step
<1>3. /\ PlacedOnce(j)' /\ OnWay(j)' \subseteq OnWay(j)
      /\ \/ executed' = executed
         \/ /\ got[j] \in OnWay(j) /\ executed[got[j]] = 0
            /\ executed' = [executed EXCEPT ![got[j]] = 1]
  BY HandlerPlaced DEF IInv
<1>4. executed \in [Call -> Nat]
  BY DEF IInv, TypeOK
<1>5. \A c \in Call : executed'[c] = executed[c] \/ (c = got[j] /\ c \in OnWay(j)
                                                /\ executed[c] = 0 /\ executed'[c] = 1)
  BY <1>3, <1>4
<1>6. \A k \in Conn : PlacedOnce(k)' /\ OnWay(k)' \subseteq OnWay(k)
  <2> SUFFICES ASSUME NEW k \in Conn, k # j
               PROVE  PlacedOnce(k)' /\ OnWay(k)' \subseteq OnWay(k)
    BY <1>3
  <2>1. phase'[k] = phase[k] /\ got'[k] = got[k] /\ up'[k] = up[k] /\ down'[k] = down[k]
    BY HandlerElsewhere DEF IInv
  <2>2. \A c \in OnWay(k) : c \in Call
    BY DEF OnWay, Held, Calls, IInv, PlaceInv
  <2>3. \A c \in OnWay(k) : c \notin OnWay(j)
    BY DEF IInv, ApartInv
  <2>4. \A c \in OnWay(k) : executed'[c] = executed[c]
    BY <1>5, <2>2, <2>3
  <2>5. QED
    BY <2>1, <2>4, PlacedSame DEF IInv
<1>7. ApartInv'
  <2>1. \A i, k \in Conn : i # k => OnWay(i)' \cap OnWay(k)' = {}
    BY <1>6 DEF IInv, ApartInv
  <2>2. \A k \in Conn : \A c \in OnWay(k)' : c <= made /\ \A i \in Call : result[i] # Whole(c)
    BY <1>6 DEF IInv, ApartInv
  <2>3. \A c \in Call : c > made => executed'[c] = 0
    <3>1. \A c \in OnWay(j) : c <= made
      BY DEF IInv, ApartInv
    <3>2. \A c \in Call : c > made => ~(c <= made)
      BY DEF Call, IInv, TypeOK
    <3>3. QED
      BY <1>5, <3>1, <3>2 DEF IInv, ApartInv
  <2>4. QED
    BY <1>2, <2>1, <2>2, <2>3 DEF ApartInv, clientVars
<1>8. fd # NoConn => fd \in Conn
  BY DEF IInv, TypeOK
<1>9. LateInv'
  BY <1>2, <1>6, <1>8 DEF LateInv, IInv, clientVars
<1>10. CloseInv'
  <2>1. waiting => fd \in Conn
    BY <1>8 DEF IInv, OrderInv
  <2>2. waiting => OnWay(fd)' \subseteq OnWay(fd)
    BY <1>2, <1>6, <2>1 DEF clientVars
  <2>3. QED
    BY <1>2, <2>2 DEF CloseInv, IInv, clientVars
<1>11. AtMostOnce'
  <2>1. \A i \in Call : executed'[i] <= 1
    BY <1>4, <1>5 DEF IInv, AtMostOnce
  <2>2. \A i \in Call : result[i].kind = "whole" => result[i].call \in Call
    BY WholeCalls DEF IInv, TypeOK
  <2>3. \A i \in Call : result[i].kind = "whole" => executed'[result[i].call] = 1
    BY <1>5, <2>2 DEF IInv, AtMostOnce
  <2>4. QED
    BY <1>2, <2>1, <2>3 DEF IInv, AtMostOnce, clientVars
<1>12. WrongAnswerIsLate' /\ OwnAnswer'
  BY <1>2 DEF IInv, WrongAnswerIsLate, OwnAnswer, clientVars
<1>13. QED
  BY <1>1, <1>6, <1>7, <1>9, <1>10, <1>11, <1>12 DEF IInv

-----------------------------------------------------------------------------
(* The requester's steps.                                                  *)

LEMMA ReceivePlaced ==
  ASSUME IInv, UNCHANGED <<phase, got, executed, up>>,
         \/ down' = down
         \/ /\ fd \in Conn /\ down[fd] # <<>>
            /\ \/ down' = [down EXCEPT ![fd] = Tail(@)]
               \/ down' = [down EXCEPT ![fd] = <<Stump>> \o Tail(@)]
  PROVE  \A k \in Conn : /\ PlacedOnce(k)' /\ OnWay(k)' \subseteq OnWay(k)
                         /\ Less(down'[k], down[k])
<1>1. down \in [Conn -> Seq(Message)]
  BY DEF IInv, TypeOK
<1>2. fd \in Conn /\ down[fd] # <<>> => /\ Less(Tail(down[fd]), down[fd])
                                      /\ Less(<<Stump>> \o Tail(down[fd]), down[fd])
  <2>1. fd \in Conn /\ down[fd] # <<>> => /\ Tail(down[fd]) \in Seq(Message)
                                        /\ Less(Tail(down[fd]), down[fd])
    BY <1>1, TailLess
  <2>2. \A t \in Seq(Message) : Less(<<Stump>> \o t, t)
    BY StumpLess, MessageTypes
  <2>3. QED
    BY <2>1, <2>2, LessTransitive
<1>3. \A k \in Conn : Less(down'[k], down[k])
  BY <1>1, <1>2, LessReflexive
<1>4. QED
  BY <1>3, PlacedLess, LessReflexive DEF IInv

(* Every way in which waitForResponse throws. *)
LEMMA ReceiveFailsSafe ==
  ASSUME IInv, ReceiveGarbled \/ ReceiveEof \/ ReceiveReset \/ ReceiveTimeout
  PROVE  IInv'
<1>1. /\ waiting /\ Finish(made, Thrown) /\ fd' \in {fd, NoConn}
      /\ UNCHANGED <<appCloses, made, opened, phase, got, executed, up>>
  BY DEF ReceiveGarbled, ReceiveEof, ReceiveReset, ReceiveTimeout, CloseHandle, KeepHandle,
     serverVars, netVars
<1>2. Client
  BY DEF Client, Receive
<1>3. TypeOK' /\ OrderInv' /\ PlaceInv'
  BY <1>2, ClientTypes, ClientPlaces DEF IInv
<1>4. /\ fd \in Conn /\ made \in Call /\ down[fd] \in Seq(Message)
      /\ result \in [Call -> Result] /\ result[made] = Pending
  BY <1>1 DEF IInv, TypeOK, OrderInv, Call, Conn, NoConn
<1>5. /\ result' = [result EXCEPT ![made] = Thrown] /\ ~waiting' /\ threw'
      /\ result'[made] = Thrown
  BY <1>1, <1>4 DEF Finish
<1>6. \/ down' = down
      \/ /\ fd \in Conn /\ down[fd] # <<>>
         /\ \/ down' = [down EXCEPT ![fd] = Tail(@)]
            \/ down' = [down EXCEPT ![fd] = <<Stump>> \o Tail(@)]
  <2>1. Len(down[fd]) > 1 => down[fd] # <<>>
    BY <1>4
  <2>2. QED
    BY <1>4, <2>1 DEF ReceiveGarbled, ReceiveEof, ReceiveReset, ReceiveTimeout, netVars
<1>7. \A k \in Conn : PlacedOnce(k)' /\ OnWay(k)' \subseteq OnWay(k)
  BY <1>1, <1>6, ReceivePlaced
<1>8. \A i \in Call : i # made => result'[i] = result[i]
  BY <1>4, <1>5
<1>9. \A i \in Call : result'[i].kind = "whole" => i # made /\ result'[i] = result[i]
  BY <1>5, <1>8, WholeCalls
<1>10. ApartInv'
  <2>1. \A c \in Call : Whole(c).kind = "whole"
    BY WholeCalls
  <2>2. \A k \in Conn : \A c \in OnWay(k) : c \in Call
    BY DEF OnWay, Held, Calls, IInv, PlaceInv
  <2>3. \A k \in Conn : \A c \in OnWay(k) : \A i \in Call : result'[i] # Whole(c)
    BY <1>9, <2>1, <2>2 DEF IInv, ApartInv
  <2>4. \A i, k \in Conn : i # k => OnWay(i)' \cap OnWay(k)' = {}
    BY <1>7 DEF IInv, ApartInv
  <2>5. \A k \in Conn : \A c \in OnWay(k)' : c <= made /\ \A i \in Call : result'[i] # Whole(c)
    BY <1>7, <2>3 DEF IInv, ApartInv
  <2>6. \A c \in Call : c > made => executed[c] = 0
    BY DEF IInv, ApartInv
  <2>7. QED
    BY <1>1, <2>4, <2>5, <2>6 DEF ApartInv
<1>11. LateInv'
  <2>1. \A c \in OnWay(fd) : c \in Call /\ (result[c] = Thrown \/ c = made)
    BY <1>4 DEF IInv, LateInv, OnWay, Held, Calls, PlaceInv, Conn, NoConn
  <2>2. \A c \in OnWay(fd) : result'[c] = Thrown
    BY <1>5, <1>8, <2>1
  <2>3. fd' # NoConn => OnWay(fd)' \subseteq OnWay(fd)
    BY <1>1, <1>4, <1>7
  <2>4. QED
    BY <2>2, <2>3 DEF LateInv
<1>12. CloseInv'
  BY <1>5 DEF CloseInv
<1>13. AtMostOnce'
  <2>1. \A i \in Call : executed'[i] <= 1
    BY <1>1 DEF IInv, AtMostOnce
  <2>2. \A i \in Call : result'[i].kind = "whole"
          => /\ executed'[result'[i].call] = 1
             /\ \A k \in Call : result'[k] = result'[i] => i = k
    BY <1>1, <1>9 DEF IInv, AtMostOnce
  <2>3. QED
    BY <2>1, <2>2 DEF AtMostOnce
<1>14. WrongAnswerIsLate'
  <2> SUFFICES ASSUME NEW i \in Call, result'[i].kind = "whole", result'[i].call # i
               PROVE  result'[i].call < i /\ result'[result'[i].call] = Thrown
    BY DEF WrongAnswerIsLate
  <2>1. result'[i] = result[i] /\ result[i].call \in Call
    BY <1>4, <1>9, WholeCalls
  <2>2. result[i].call < i /\ result[result[i].call] = Thrown
    BY <2>1 DEF IInv, WrongAnswerIsLate
  <2>3. QED
    BY <1>5, <1>8, <2>1, <2>2
<1>15. OwnAnswer'
  BY <1>1, <1>9 DEF IInv, OwnAnswer
<1>16. QED
  BY <1>3, <1>7, <1>10, <1>11, <1>12, <1>13, <1>14, <1>15 DEF IInv

(* A response or a fault is returned as the answer to the call in progress. *)
LEMMA ReceiveResponseSafe ==
  ASSUME IInv, ReceiveResponse
  PROVE  IInv'
<1> DEFINE h == Head(down[fd])
<1>1. /\ waiting /\ Finish(made, h) /\ fd' = NoConn /\ down[fd] # <<>> /\ h # Stump
      /\ down' = [down EXCEPT ![fd] = Tail(@)]
      /\ UNCHANGED <<appCloses, made, opened, phase, got, executed, up>>
  BY DEF ReceiveResponse, CloseHandle, serverVars
<1>2. Client
  BY DEF Client, Receive
<1>3. TypeOK' /\ OrderInv' /\ PlaceInv'
  BY <1>2, ClientTypes, ClientPlaces DEF IInv
<1>4. /\ fd \in Conn /\ made \in Call /\ down[fd] \in Seq(Message)
      /\ result \in [Call -> Result] /\ result[made] = Pending /\ executed \in [Call -> Nat]
  BY <1>1 DEF IInv, TypeOK, OrderInv, Call, Conn, NoConn
<1>5. h \in Message
  BY <1>1, <1>4
<1>6. PICK c \in Call \cup {0} : h = IF c = 0 THEN Fault ELSE Whole(c)
  BY <1>1, <1>5 DEF Message, Request, Call
<1>7. c \in Call => /\ c \in Calls(down[fd]) /\ c \in OnWay(fd)
                   /\ c \notin Calls(Tail(down[fd]))
  <2>1. \A d \in Call : h = Whole(d)
          => d \in Calls(down[fd]) /\ (Once(down[fd]) => d \notin Calls(Tail(down[fd])))
    BY <1>1, <1>4, TailLess
  <2>2. Once(down[fd])
    BY <1>4 DEF IInv, PlacedOnce
  <2>3. c \in Call => h = Whole(c)
    BY <1>6 DEF Call
  <2>4. QED
    BY <2>1, <2>2, <2>3 DEF OnWay
<1> HIDE DEF h
<1>8. /\ result' = [result EXCEPT ![made] = h] /\ ~waiting' /\ result'[made] = h
      /\ \A i \in Call : i # made => result'[i] = result[i]
  BY <1>1, <1>4 DEF Finish
<1>9. \A k \in Conn : PlacedOnce(k)' /\ OnWay(k)' \subseteq OnWay(k)
  BY <1>1, <1>4, ReceivePlaced
<1>10. \A k \in Conn : c \in Call => c \notin OnWay(k)'
  <2> SUFFICES ASSUME NEW k \in Conn, c \in Call PROVE c \notin OnWay(k)'
    OBVIOUS
  <2>1. CASE k # fd
    BY <1>4, <1>7, <1>9, <2>1 DEF IInv, ApartInv
  <2>2. CASE k = fd
    <3>1. c \notin Calls(up[fd]) /\ c \notin Held(fd)
      BY <1>4, <1>7 DEF IInv, PlacedOnce
    <3>2. down'[fd] = Tail(down[fd]) /\ up'[fd] = up[fd]
      BY <1>1, <1>4, <1>3 DEF IInv, TypeOK
    <3>3. Held(k)' = Held(fd)
      BY <1>1, <2>2 DEF Held
    <3>4. Calls(up[k])' = Calls(up[fd]) /\ Calls(down[k])' = Calls(Tail(down[fd]))
      BY <2>2, <3>2 DEF Calls
    <3>5. QED
      BY <1>7, <3>1, <3>3, <3>4 DEF OnWay
  <2>3. QED
    BY <2>1, <2>2
<1>11. \A i \in Call : result'[i].kind = "whole" =>
         \/ i # made /\ result'[i] = result[i]
         \/ i = made /\ c \in Call /\ result'[i] = Whole(c) /\ result'[i].call = c
  BY <1>6, <1>8, WholeCalls
<1>12. ApartInv'
  <2>1. \A k \in Conn : \A d \in OnWay(k) : d \in Call
    BY DEF OnWay, Held, Calls, IInv, PlaceInv
  <2>2. ASSUME NEW k \in Conn, NEW d \in OnWay(k)', NEW i \in Call, result'[i] = Whole(d)
        PROVE  FALSE
    <3>1. d \in Call /\ d \in OnWay(k) /\ Whole(d).kind = "whole"
      BY <1>9, <2>1, WholeCalls
    <3>2. result[i] # Whole(d)
      BY <3>1 DEF IInv, ApartInv
    <3>3. c \in Call /\ Whole(c) = Whole(d)
      BY <1>11, <2>2, <3>1, <3>2
    <3>4. QED
      BY <1>10, <3>1, <3>3, WholeCalls
  <2>3. \A i, k \in Conn : i # k => OnWay(i)' \cap OnWay(k)' = {}
    BY <1>9 DEF IInv, ApartInv
  <2>4. \A k \in Conn : \A d \in OnWay(k)' : d <= made
    BY <1>9 DEF IInv, ApartInv
  <2>5. \A d \in Call : d > made => executed[d] = 0
    BY DEF IInv, ApartInv
  <2>6. QED
    BY <1>1, <2>2, <2>3, <2>4, <2>5 DEF ApartInv
<1>13. LateInv'
  BY <1>1 DEF LateInv
<1>14. CloseInv'
  BY <1>1, <1>8 DEF CloseInv
<1>15. AtMostOnce'
  <2>1. \A i \in Call : executed'[i] <= 1
    BY <1>1 DEF IInv, AtMostOnce
  <2>2. c \in Call => executed[c] = 1
    BY <1>4, <1>7 DEF IInv, PlacedOnce
  <2>3. c \in Call => \A i \in Call : result[i] # Whole(c)
    BY <1>4, <1>7 DEF IInv, ApartInv
  <2>4. ASSUME NEW i \in Call, result'[i].kind = "whole"
        PROVE  /\ executed'[result'[i].call] = 1
               /\ \A k \in Call : result'[k] = result'[i] => i = k
    <3>1. CASE i # made /\ result'[i] = result[i]
      <4>1. executed'[result'[i].call] = 1
        BY <1>1, <2>4, <3>1 DEF IInv, AtMostOnce
      <4>2. ASSUME NEW k \in Call, result'[k] = result'[i] PROVE i = k
        <5>1. CASE k = made
          BY <1>11, <2>3, <2>4, <3>1, <4>2, <5>1
        <5>2. CASE k # made
          BY <1>8, <2>4, <3>1, <4>2, <5>2 DEF IInv, AtMostOnce
        <5>3. QED
          BY <5>1, <5>2
      <4>3. QED
        BY <4>1, <4>2
    <3>2. CASE i = made /\ c \in Call /\ result'[i] = Whole(c) /\ result'[i].call = c
      BY <1>1, <1>8, <2>2, <2>3, <3>2
    <3>3. QED
      BY <1>11, <2>4, <3>1, <3>2
  <2>5. QED
    BY <2>1, <2>4 DEF AtMostOnce
<1>16. c \in Call => c <= made /\ (result[c] = Thrown \/ c = made)
  BY <1>4, <1>7 DEF IInv, LateInv, ApartInv, Conn, NoConn
<1>17. WrongAnswerIsLate'
  <2> SUFFICES ASSUME NEW i \in Call, result'[i].kind = "whole", result'[i].call # i
               PROVE  result'[i].call < i /\ result'[result'[i].call] = Thrown
    BY DEF WrongAnswerIsLate
  <2>1. CASE i # made /\ result'[i] = result[i]
    <3>1. result[i].call \in Call
      BY <1>4, <2>1, WholeCalls
    <3>2. result[i].call < i /\ result[result[i].call] = Thrown
      BY <2>1 DEF IInv, WrongAnswerIsLate
    <3>3. result[i].call # made
      BY <1>4, <3>2, WholeCalls
    <3>4. QED
      BY <1>8, <2>1, <3>1, <3>2, <3>3
  <2>2. CASE i = made /\ c \in Call /\ result'[i] = Whole(c) /\ result'[i].call = c
    <3>1. c # made /\ c < made
      BY <1>4, <1>16, <2>2 DEF Call
    <3>2. result'[c] = Thrown
      BY <1>8, <1>16, <2>2, <3>1
    <3>3. QED
      BY <2>2, <3>1, <3>2
  <2>3. QED
    BY <1>11, <2>1, <2>2
<1>18. OwnAnswer'
  <2>1. appCloses /\ c \in Call => c = made
    BY <1>1, <1>7 DEF IInv, CloseInv
  <2>2. QED
    BY <1>1, <1>11, <2>1 DEF IInv, OwnAnswer
<1>19. QED
  BY <1>3, <1>9, <1>12, <1>13, <1>14, <1>15, <1>17, <1>18 DEF IInv

LEMMA CloseAfterThrowSafe ==
  ASSUME IInv, CloseAfterThrow
  PROVE  IInv'
<1>1. /\ appCloses /\ threw /\ fd' = NoConn
      /\ UNCHANGED <<appCloses, made, waiting, result, opened, phase, got, executed,
                     up, down, reset>>
  BY DEF CloseAfterThrow, CloseHandle, KeepHandle, serverVars, netVars
<1>2. ~waiting
  BY <1>1 DEF IInv, OrderInv
<1>3. TypeOK' /\ OrderInv' /\ PlaceInv'
  BY ClientTypes, ClientPlaces DEF IInv, Client
<1>4. \A k \in Conn : PlacedOnce(k)' /\ OnWay(k)' \subseteq OnWay(k)
  BY <1>1, ReceivePlaced
<1>5. ApartInv'
  BY <1>1, <1>4 DEF IInv, ApartInv
<1>6. LateInv' /\ CloseInv'
  BY <1>1, <1>2 DEF LateInv, CloseInv
<1>7. AtMostOnce' /\ WrongAnswerIsLate' /\ OwnAnswer'
  BY <1>1 DEF IInv, AtMostOnce, WrongAnswerIsLate, OwnAnswer
<1>8. QED
  BY <1>3, <1>4, <1>5, <1>6, <1>7 DEF IInv

(* A new call that throws at once, whatever was written of it. *)
LEMMA SendFailsSafe ==
  ASSUME IInv, TypeOK', OrderInv', PlaceInv', ~waiting,
         NEW i \in Call, i = made + 1, made' = i, Finish(i, Thrown),
         \A k \in Conn : PlacedOnce(k)' /\ OnWay(k)' \subseteq OnWay(k),
         UNCHANGED <<appCloses, executed>>,
         fd' # NoConn => fd' \in Conn /\ (fd' = fd \/ OnWay(fd)' = {})
  PROVE  IInv'
<1>1. /\ made \in Nat /\ result \in [Call -> Result] /\ result[i] = Pending
      /\ \A k \in Conn : \A c \in OnWay(k) : c \in Call /\ c <= made /\ c # i
  <2>1. made \in Nat /\ result \in [Call -> Result]
    BY DEF IInv, TypeOK
  <2>2. result[i] = Pending
    BY <2>1 DEF IInv, OrderInv, Call
  <2>3. \A k \in Conn : \A c \in OnWay(k) : c \in Call /\ c <= made
    BY DEF IInv, ApartInv, OnWay, Held, Calls, PlaceInv
  <2>4. QED
    BY <2>1, <2>2, <2>3 DEF Call
<1>2. /\ result' = [result EXCEPT ![i] = Thrown] /\ ~waiting' /\ threw' /\ result'[i] = Thrown
      /\ \A k \in Call : k # i => result'[k] = result[k]
  BY <1>1 DEF Finish
<1>3. \A k \in Call : result'[k].kind = "whole" => k # i /\ result'[k] = result[k]
  BY <1>2, WholeCalls
<1>4. ApartInv'
  <2>1. \A k \in Conn : \A c \in OnWay(k)' : c <= made'
    BY <1>1 DEF Call
  <2>2. ASSUME NEW k \in Conn, NEW c \in OnWay(k)', NEW r \in Call, result'[r] = Whole(c)
        PROVE  FALSE
    <3>1. c \in OnWay(k) /\ Whole(c).kind = "whole"
      BY <1>1, WholeCalls
    <3>2. result[r] = Whole(c)
      BY <1>3, <2>2, <3>1
    <3>3. QED
      BY <3>1, <3>2 DEF IInv, ApartInv
  <2>3. \A k, n \in Conn : k # n => OnWay(k)' \cap OnWay(n)' = {}
    BY DEF IInv, ApartInv
  <2>4. \A c \in Call : c > made' => executed'[c] = 0
    BY <1>1 DEF IInv, ApartInv, Call
  <2>5. QED
    BY <2>1, <2>2, <2>3, <2>4 DEF ApartInv
<1>5. LateInv'
  <2> SUFFICES ASSUME fd' # NoConn, NEW c \in OnWay(fd)' PROVE result'[c] = Thrown
    BY DEF LateInv
  <2>1. fd' = fd /\ fd \in Conn /\ c \in OnWay(fd)
    OBVIOUS
  <2>2. c \in Call /\ c # i /\ result[c] = Thrown
    BY <1>1, <2>1 DEF IInv, LateInv
  <2>3. QED
    BY <1>2, <2>2
<1>6. CloseInv'
  BY <1>2 DEF CloseInv
<1>7. AtMostOnce'
  <2>1. \A k \in Call : executed'[k] <= 1
    BY DEF IInv, AtMostOnce
  <2>2. \A k \in Call : result'[k].kind = "whole"
          => /\ executed'[result'[k].call] = 1
             /\ \A n \in Call : result'[n] = result'[k] => k = n
    BY <1>3 DEF IInv, AtMostOnce
  <2>3. QED
    BY <2>1, <2>2 DEF AtMostOnce
<1>8. WrongAnswerIsLate'
  <2> SUFFICES ASSUME NEW k \in Call, result'[k].kind = "whole", result'[k].call # k
               PROVE  result'[k].call < k /\ result'[result'[k].call] = Thrown
    BY DEF WrongAnswerIsLate
  <2>1. result'[k] = result[k] /\ result[k].call \in Call
    BY <1>1, <1>3, WholeCalls
  <2>2. result[k].call < k /\ result[result[k].call] = Thrown
    BY <2>1 DEF IInv, WrongAnswerIsLate
  <2>3. QED
    BY <1>2, <2>1, <2>2
<1>9. OwnAnswer'
  BY <1>3 DEF IInv, OwnAnswer
<1>10. QED
  BY <1>4, <1>5, <1>6, <1>7, <1>8, <1>9 DEF IInv

LEMMA SendBrokenSafe ==
  ASSUME IInv, SendBroken
  PROVE  IInv'
<1>1. /\ ~waiting /\ made < Planned /\ made' = made + 1 /\ Finish(made + 1, Thrown) /\ fd' = NoConn
      /\ UNCHANGED <<appCloses, phase, got, executed, up, down>>
  BY DEF SendBroken, CloseHandle, serverVars, netVars
<1>2. made + 1 \in Call
  BY <1>1, PlannedBound, NumCallsAssumption DEF IInv, TypeOK, Call
<1>3. TypeOK' /\ OrderInv' /\ PlaceInv'
  BY ClientTypes, ClientPlaces DEF IInv, Client
<1>4. \A k \in Conn : PlacedOnce(k)' /\ OnWay(k)' \subseteq OnWay(k)
  BY <1>1, ReceivePlaced
<1>5. QED
  BY <1>1, <1>2, <1>3, <1>4, SendFailsSafe

(* A request goes out over the connection at hand or over a new one, on    *)
(* which nothing is on its way.                                            *)
LEMMA SendSafe ==
  ASSUME IInv, SendCall
  PROVE  IInv'
<1>1. /\ ~waiting /\ made < Planned /\ (appCloses => ~threw)
      /\ UNCHANGED <<appCloses, down, got, executed>>
  BY DEF SendCall
<1>2. /\ made \in 0 .. NumCalls /\ opened \in 0 .. NumCalls /\ fd \in 0 .. NumCalls
      /\ fd <= opened /\ opened <= made /\ NumCalls \in Nat /\ made < NumCalls
  BY <1>1, PlannedBound, NumCallsAssumption DEF IInv, TypeOK, OrderInv, Conn, NoConn
<1>3. PICK i \in Call : i = made + 1
  BY <1>2 DEF Call
<1>4. PICK j \in Conn : j = IF fd = NoConn THEN opened + 1 ELSE fd
  BY <1>2 DEF Conn, NoConn
<1>5. j # NoConn /\ (fd = NoConn => j > opened) /\ (fd # NoConn => j = fd)
  BY <1>2, <1>4 DEF Conn, NoConn
<1>6. /\ made \in Nat /\ ~(i <= made) /\ i > made
       /\ \A c \in Call : c <= made => c # i /\ c <= i
  BY <1>2, <1>3 DEF Call
<1>7. /\ made' = i /\ fd' = j
       /\ phase' = [phase EXCEPT ![j] = IF @ = "unopened" THEN "queued" ELSE @]
       /\ \/ waiting' /\ up' = [up EXCEPT ![j] = Append(@, Whole(i))] /\ result' = result
          \/ Finish(i, Thrown) /\ up' \in {up, [up EXCEPT ![j] = Append(@, Stump)]}
  BY <1>3, <1>4 DEF SendCall
<1>8. TypeOK' /\ OrderInv' /\ PlaceInv'
  BY ClientTypes, ClientPlaces DEF IInv, Client
<1>9. /\ up \in [Conn -> Seq(Request)] /\ down \in [Conn -> Seq(Message)]
      /\ phase \in [Conn -> Phase] /\ got \in [Conn -> Call \cup {0}]
      /\ result \in [Call -> Result] /\ up[j] \in Seq(Request)
  BY <1>5 DEF IInv, TypeOK
<1>10. fd = NoConn => OnWay(j) = {}
  <2>1. fd = NoConn => phase[j] = "unopened" /\ up[j] = <<>> /\ down[j] = <<>>
    BY <1>5 DEF IInv, PlaceInv
  <2>2. Calls(<<>>) = {}
    BY DEF Calls
  <2>3. QED
    BY <2>1, <2>2 DEF OnWay, Held
<1>11. \A k \in Conn : k # j => PlacedOnce(k)' /\ OnWay(k)' = OnWay(k)
  <2> SUFFICES ASSUME NEW k \in Conn, k # j PROVE PlacedOnce(k)' /\ OnWay(k)' = OnWay(k)
    OBVIOUS
  <2>1. up'[k] = up[k] /\ phase'[k] = phase[k] /\ down'[k] = down[k] /\ got'[k] = got[k]
    BY <1>1, <1>7, <1>9 DEF Finish
  <2>2. QED
    BY <1>1, <1>7, <2>1, PlacedSame DEF IInv
<1>12. Held(j)' = Held(j) /\ (phase'[j] = "executing" <=> phase[j] = "executing")
  BY <1>1, <1>5, <1>7, <1>9 DEF Held
<1>13. \A k \in Conn : \A c \in OnWay(k) : c \in Call /\ c <= made /\ c # i
  <2>1. \A k \in Conn : \A c \in OnWay(k) : c \in Call /\ c <= made
    BY DEF IInv, ApartInv, OnWay, Held, Calls, PlaceInv
  <2>2. QED
    BY <1>6, <2>1
<1>14. CASE Finish(i, Thrown) /\ up' \in {up, [up EXCEPT ![j] = Append(@, Stump)]}
  <2>1. Less(up'[j], up[j])
    <3>1. Less(Append(up[j], Stump), up[j])
      BY <1>9, AppendOther, WholeCalls, MessageTypes
    <3>2. Less(up[j], up[j])
      BY DEF Less
    <3>3. up'[j] \in {up[j], Append(up[j], Stump)}
      BY <1>5, <1>9, <1>14
    <3>4. QED
      BY <3>1, <3>2, <3>3
  <2>2. /\ down'[j] = down[j] /\ Calls(down[j])' = Calls(down[j])
        /\ Calls(up[j])' \subseteq Calls(up[j])
    BY <1>1, <1>7, <2>1 DEF Less, Calls
  <2>3. Once(up[j])' /\ Once(down[j])'
    BY <1>1, <1>5, <1>7, <2>1 DEF Less, Once, IInv, PlacedOnce
  <2>4. PlacedOnce(j)'
    BY <1>1, <1>5, <1>7, <1>12, <2>2, <2>3 DEF PlacedOnce, IInv
  <2>5. OnWay(j)' \subseteq OnWay(j)
    BY <1>12, <2>2 DEF OnWay
  <2>6. \A k \in Conn : PlacedOnce(k)' /\ OnWay(k)' \subseteq OnWay(k)
    BY <1>11, <2>4, <2>5
  <2>7. fd' = fd \/ OnWay(fd)' = {}
    BY <1>1, <1>5, <1>7, <1>10, <2>5
  <2>8. QED
    BY <1>1, <1>3, <1>5, <1>6, <1>7, <1>8, <1>14, <2>6, <2>7, SendFailsSafe
<1>15. CASE /\ waiting' /\ up' = [up EXCEPT ![j] = Append(@, Whole(i))] /\ result' = result
  <2>1. Calls(up'[j]) = Calls(up[j]) \cup {i} /\ Once(up'[j])
    <3>1. i \notin Calls(up[j]) /\ Once(up[j])
      BY <1>5, <1>13 DEF OnWay, IInv, PlacedOnce
    <3>2. up'[j] = Append(up[j], Whole(i))
      BY <1>5, <1>9, <1>15
    <3>3. QED
      BY <1>5, <1>9, <3>1, <3>2, AppendWhole, MessageTypes
  <2>2. Calls(up[j])' = Calls(up[j]) \cup {i} /\ Calls(down[j])' = Calls(down[j])
        /\ Once(up[j])' /\ Once(down[j])'
    <3>1. Calls(up[j])' = Calls(up'[j]) /\ Calls(down[j])' = Calls(down[j])
      BY <1>1, <1>7 DEF Calls
    <3>2. Once(up[j])' /\ Once(down[j])'
      BY <1>1, <1>5, <1>7, <2>1 DEF Once, IInv, PlacedOnce
    <3>3. QED
      BY <2>1, <3>1, <3>2
  <2>3. executed[i] = 0
    BY <1>5, <1>6 DEF IInv, ApartInv
  <2>4. i \notin Held(j) /\ i \notin Calls(down[j])
    BY <1>5, <1>13 DEF OnWay
  <2>5. PlacedOnce(j)'
    BY <1>1, <1>5, <1>7, <1>12, <2>2, <2>3, <2>4 DEF PlacedOnce, IInv
  <2>6. OnWay(j)' = OnWay(j) \cup {i}
    BY <1>12, <2>2 DEF OnWay
  <2>7. \A k \in Conn : OnWay(k)' \subseteq OnWay(k) \cup (IF k = j THEN {i} ELSE {})
    BY <1>11, <2>6
  <2>8. \A r \in Call : result[r] # Whole(i)
    <3> SUFFICES ASSUME NEW r \in Call, result[r] = Whole(i) PROVE FALSE
      OBVIOUS
    <3>1. result[r].kind = "whole" /\ result[r].call = i
      BY <1>5, WholeCalls
    <3>2. QED
      BY <2>3, <3>1 DEF IInv, AtMostOnce
  <2>9. ApartInv'
    <3>1. \A k, n \in Conn : k # n => OnWay(k)' \cap OnWay(n)' = {}
      BY <1>13, <2>7 DEF IInv, ApartInv
    <3>2. \A k \in Conn : \A c \in OnWay(k)' : c <= i
      BY <1>5, <1>6, <1>13, <2>7 DEF Call
    <3>3. \A k \in Conn : \A c \in OnWay(k)' : \A r \in Call : result[r] # Whole(c)
      BY <2>7, <2>8 DEF IInv, ApartInv
    <3>4. ASSUME NEW c \in Call, c > i PROVE executed[c] = 0
      <4>1. c > made
        BY <1>2, <1>3, <3>4 DEF Call
      <4>2. QED
        BY <4>1 DEF IInv, ApartInv
    <3>5. QED
      BY <1>1, <1>7, <1>15, <3>1, <3>2, <3>3, <3>4 DEF ApartInv
  <2>10. LateInv'
    <3> SUFFICES ASSUME NEW c \in OnWay(fd)' PROVE result[c] = Thrown \/ c = i
      BY <1>1, <1>7, <1>15 DEF LateInv
    <3>1. c \in OnWay(j) \/ c = i
      BY <1>1, <1>7, <2>6
    <3>2. c \in OnWay(j) => result[c] = Thrown
      BY <1>1, <1>5, <1>7, <1>10 DEF IInv, LateInv
    <3>3. QED
      BY <3>1, <3>2
  <2>11. CloseInv'
    <3>1. appCloses => fd = NoConn
      BY <1>1, <1>7 DEF IInv, CloseInv
    <3>2. OnWay(fd)' = OnWay(j)'
      BY <1>1, <1>7 DEF OnWay, Held
    <3>3. QED
      BY <1>1, <1>7, <1>10, <1>15, <2>6, <3>1, <3>2 DEF CloseInv
  <2>12. AtMostOnce' /\ WrongAnswerIsLate' /\ OwnAnswer'
    BY <1>1, <1>7, <1>15 DEF IInv, AtMostOnce, WrongAnswerIsLate, OwnAnswer
  <2>13. QED
    BY <1>8, <1>11, <2>5, <2>9, <2>10, <2>11, <2>12 DEF IInv
<1>16. QED
  BY <1>1, <1>7, <1>14, <1>15

-----------------------------------------------------------------------------
LEMMA InitSafe == Init => IInv
<1> SUFFICES ASSUME Init PROVE IInv
  OBVIOUS
<1>1. TypeOK /\ OrderInv /\ PlaceInv
  BY InitTypes
<1>2. \A j \in Conn : /\ Calls(up[j]) = {} /\ Calls(down[j]) = {} /\ Held(j) = {}
                      /\ Once(up[j]) /\ Once(down[j])
  BY DEF Init, Calls, Held, Once
<1>3. \A j \in Conn : PlacedOnce(j) /\ OnWay(j) = {}
  BY <1>2 DEF PlacedOnce, OnWay
<1>4. ApartInv /\ LateInv /\ CloseInv
  BY <1>3 DEF Init, ApartInv, LateInv, CloseInv
<1>5. \A i \in Call : result[i].kind # "whole" /\ executed[i] = 0
  BY WholeCalls DEF Init
<1>6. AtMostOnce /\ WrongAnswerIsLate /\ OwnAnswer
  BY <1>5 DEF AtMostOnce, WrongAnswerIsLate, OwnAnswer
<1>7. QED
  BY <1>1, <1>3, <1>4, <1>6 DEF IInv

LEMMA NextSafe == IInv /\ [Next]_vars => IInv'
<1> SUFFICES ASSUME IInv, [Next]_vars PROVE IInv'
  OBVIOUS
<1>1. CASE Client
  BY <1>1, SendSafe, SendBrokenSafe, ReceiveResponseSafe, ReceiveFailsSafe, CloseAfterThrowSafe
     DEF Client, Receive
<1>2. CASE \E j \in Conn : Handle(j)
  BY <1>2, HandlerSafe
<1>3. CASE UNCHANGED vars
  <2>1. \A j \in Conn : PlacedOnce(j)' /\ OnWay(j)' = OnWay(j)
    BY <1>3, PlacedSame DEF IInv, vars, clientVars, serverVars, netVars
  <2>2. TypeOK' /\ OrderInv' /\ PlaceInv'
    BY <1>3 DEF IInv, TypeOK, OrderInv, PlaceInv, vars, clientVars, serverVars, netVars
  <2>3. OnWay(fd)' = OnWay(fd)
    BY <1>3 DEF OnWay, Held, Calls, vars, clientVars, serverVars, netVars
  <2>4. ApartInv'
    BY <1>3, <2>1 DEF IInv, ApartInv, vars, clientVars, serverVars
  <2>5. LateInv' /\ CloseInv'
    BY <1>3, <2>3 DEF IInv, LateInv, CloseInv, vars, clientVars
  <2>6. AtMostOnce' /\ WrongAnswerIsLate' /\ OwnAnswer'
    BY <1>3 DEF IInv, AtMostOnce, WrongAnswerIsLate, OwnAnswer, vars, clientVars, serverVars
  <2>7. QED
    BY <2>1, <2>2, <2>4, <2>5, <2>6 DEF IInv
<1>4. QED
  BY <1>1, <1>2, <1>3 DEF Next

LEMMA Safe == Spec => []IInv
  BY InitSafe, NextSafe, PTL DEF Spec

(* The requester never sends a call twice, the server never executes one   *)
(* twice, and no response is returned by two calls, however many calls are *)
(* made and whatever times out.                                            *)
THEOREM ExecutedAtMostOnce == Spec => []AtMostOnce
<1>1. IInv => AtMostOnce
  BY DEF IInv
<1>2. QED
  BY <1>1, Safe, PTL

(* A wrong response is that of an earlier call which threw before its      *)
(* response had come.                                                      *)
THEOREM WrongAnswersAreLate == Spec => []WrongAnswerIsLate
<1>1. IInv => WrongAnswerIsLate
  BY DEF IInv
<1>2. QED
  BY <1>1, Safe, PTL

(* An application that calls closeConnection after every exception gets    *)
(* only the responses of its own calls.                                    *)
THEOREM ClosingGetsOwnAnswers == Spec => []OwnAnswer
<1>1. IInv => OwnAnswer
  BY DEF IInv
<1>2. QED
  BY <1>1, Safe, PTL

(* The handler of startChildLoop reads one call of a connection. *)
THEOREM HandlersReadOneCall == Spec => OneCallPerConnection
<1>1. IInv /\ [Next]_vars => [\A j \in Conn : got'[j] # got[j] => got[j] = 0]_vars
  <2> SUFFICES ASSUME IInv, Next, NEW j \in Conn, got'[j] # got[j] PROVE got[j] = 0
    BY DEF vars
  <2>1. got \in [Conn -> Call \cup {0}] /\ PlaceInv
    BY DEF IInv, TypeOK
  <2>2. ~Client
    BY DEF Client, SendCall, SendBroken, Receive, ReceiveResponse, ReceiveGarbled, ReceiveEof,
       ReceiveReset, ReceiveTimeout, CloseAfterThrow, serverVars
  <2>3. PICK k \in Conn : Handle(k)
    BY <2>2 DEF Next
  <2>4. ReadCall(k) /\ k = j
    BY <2>1, <2>3 DEF Handle, AcceptConn, ReadCall, ReadGarbled, ReadTimeout, ReadEof, CallFails,
       Execute, Reply, Recover, CloseConn
  <2>5. QED
    BY <2>1, <2>4 DEF ReadCall, Step, PlaceInv
<1>2. QED
  BY <1>1, Safe, PTL DEF Spec, OneCallPerConnection

=============================================================================
