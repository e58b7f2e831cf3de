----------------------------- MODULE HttpHeader -----------------------------
(***************************************************************************)
(* What HttpProtocol puts into a header, and what the HttpProtocol at the  *)
(* other end takes out of it: credentials, cookies, the content length.    *)
(* Clients call one handler of a server, which serves one connection at a  *)
(* time; both sides keep their HttpProtocol from call to call.  The        *)
(* server's application is that of tests/rpc_server.cpp (cookies) behind   *)
(* the check of tests/secure_server.cpp.                                   *)
(*                                                                         *)
(* A text is a sequence of atoms, among them the blank "ws" and the        *)
(* separators ":", ";" and "=".  How a header is cut up on its way is      *)
(* HttpFraming's; calls that throw, and the one-time fields they leave     *)
(* behind, are SecureCall's.                                               *)
(***************************************************************************)
EXTENDS Naturals, SequencesExt

CONSTANTS
  Clients,        \* each with an HttpProtocol of its own
  Server,         \* the handler's HttpProtocol
  Proxied,        \* clients with setProxyAuthentication
  Credentials,    \* what clients may call with: [user, pass], two texts
  AuthData,       \* addAuthentication: [user, pass], stripped of blanks
  CookieMeaning,  \* a text for setClientCookie -> the cookies it stands for
  AcceptCookies,  \* the protocols with bAcceptcookies
  LineOctets      \* octets in a line of base64 (48)

ASSUME ServerAssumption == Server \notin Clients
ASSUME ProtocolsAssumption == Proxied \subseteq Clients /\ AcceptCookies \subseteq Clients \cup {Server}
ASSUME CookiesAssumption ==
  <<>> \in DOMAIN CookieMeaning /\ DOMAIN CookieMeaning \subseteq Seq(STRING)
ASSUME CredentialsAssumption ==
  Credentials \cup AuthData \subseteq [user : Seq(STRING), pass : Seq(STRING)]
ASSUME LineOctetsAssumption == LineOctets \in Nat \ {0}

NoOne == "no one"
NoCredentials == [user |-> <<>>, pass |-> <<>>]
ASSUME NoOneAssumption == NoOne \notin Clients /\ NoCredentials \notin Credentials \cup AuthData

ClientCookies == DOMAIN CookieMeaning

VARIABLES
  clientCookie,   \* client -> the cookies it will send, a text
  cookies,        \* protocol -> the cookies it has received, a map
  headerprops,    \* protocol -> the fields it has received, a map
  serverCookie,   \* the cookies the server sends, a text
  serving,        \* whose call the server has read, or NoOne
  wire,           \* client -> header on its way to the server, or back
  place,          \* client -> "idle", "called", "answered"
  with            \* history: client -> the credentials and cookie of its last call

vars == <<clientCookie, cookies, headerprops, serverCookie,
          serving, wire, place, with>>

-----------------------------------------------------------------------------
(* Texts.                                                                  *)

Positions(t, a) == {i \in DOMAIN t : t[i] = a}
First(S) == CHOOSE i \in S : \A j \in S : i <= j
Before(t, i) == SubSeq(t, 1, i - 1)
After(t, i) == SubSeq(t, i + 1, Len(t))

stripWS(t) ==
  LET solid == {i \in DOMAIN t : t[i] # "ws"}
  IN IF solid = {} THEN <<>>
     ELSE SubSeq(t, First(solid), CHOOSE i \in solid : \A j \in solid : i >= j)

(* OpenSSL ends a line after every LineOctets octets; toBase64 takes the   *)
(* end of the last one away, and asks for one line only if it is told to.  *)
toBase64(t) ==
  LET n == (Len(t) + LineOctets - 1) \div LineOctets
  IN [k \in 1 .. n |->
        [octets |-> SubSeq(t, (k - 1) * LineOctets + 1,
                           IF k = n THEN Len(t) ELSE k * LineOctets)]]

fromBase64(code) == code.octets

-----------------------------------------------------------------------------
(* Composing a header.                                                     *)

Line(name, value) == [name |-> name, value |-> value]

(* setMessageAuthentication: a line feed in the base64 ends the field, and *)
(* what follows has no name.                                               *)
Authorization(cred) ==
  LET code == toBase64(cred.user \o <<":">> \o cred.pass)
  IN [k \in DOMAIN code |-> IF k = 1 THEN Line("authorization", code[1])
                                     ELSE Line("nameless", code[k])]

(* No line end after the proxy's credentials: they swallow the next field. *)
AfterProxy(c, lines) ==
  IF c \in Proxied
  THEN <<Line("proxy-authorization", <<Head(lines).name, ":">> \o Head(lines).value)>> \o Tail(lines)
  ELSE lines

ConnectionClose == Line("connection", <<"close">>)
ContentLength == Line("content-length", <<"length">>)
Cookie(name, text) == IF text = <<>> THEN <<>> ELSE <<Line(name, stripWS(text))>>

sendRequestHeader_LengthFirst(c, fields) ==   \* mutant: "Connection" moved down
  AfterProxy(c, <<ContentLength, ConnectionClose>> \o fields
                  \o Cookie("cookie", clientCookie[c]))

sendRequestHeader(c, fields) ==
  AfterProxy(c, <<ConnectionClose>> \o fields \o <<ContentLength>>
                  \o Cookie("cookie", clientCookie[c]))

sendResponseHeader(fields, cookie) ==
  <<ConnectionClose>> \o fields \o Cookie("set-cookie", cookie) \o <<ContentLength>>

-----------------------------------------------------------------------------
(* Parsing one.                                                            *)

NoFields == [n \in {} |-> <<>>]

(* parseHeaderLine inserts: of several fields of a name the first counts.  *)
HeaderProps(lines) ==
  [n \in {lines[i].name : i \in DOMAIN lines} |->
     lines[First({i \in DOMAIN lines : lines[i].name = n})].value]

hasHttpProperty(p, name) == name \in DOMAIN headerprops[p]
getHttpProperty(p, name) == headerprops[p][name]

(* The parts between semicolons that have a "=": the last of a name counts. *)
setCookie(old, text) ==
  LET ends == Positions(text, ";") \cup {0, Len(text) + 1}
      next(i) == First({j \in ends : j > i})
      eq(i) == {j \in Positions(text, "=") : i < j /\ j < next(i)}
      pairs == {i \in ends : i <= Len(text) /\ eq(i) # {}}
      key(i) == stripWS(SubSeq(text, i + 1, First(eq(i)) - 1))
      val(i) == stripWS(SubSeq(text, First(eq(i)) + 1, next(i) - 1))
      last(is) == CHOOSE i \in is : \A j \in is : i >= j
  IN [k \in DOMAIN old \cup {key(i) : i \in pairs} |->
        LET is == {i \in pairs : key(i) = k}
        IN IF is = {} THEN old[k] ELSE val(last(is))]

(* The order of the map does not matter here. *)
getCookie_Bare(map) ==   \* mutant: no "; " between cookies
  FoldSet(LAMBDA k, text : text \o k \o <<"=">> \o map[k], <<>>, DOMAIN map)

getCookie(map) ==
  FoldSet(LAMBDA k, text : (IF text = <<>> THEN <<>> ELSE text \o <<";", "ws">>)
                             \o k \o <<"=">> \o map[k],
          <<>>, DOMAIN map)

ClearHttpInfo_KeepsCookies(p) == cookies[p]   \* mutant: the cookies stay
ClearHttpInfo(p) == NoFields

parseHeaderLine(p, map, l) ==
  IF p \in AcceptCookies /\ l.name \in {"cookie", "set-cookie"}
  THEN setCookie(map, l.value) ELSE map

CookiesIn(p, lines) ==
  FoldLeft(LAMBDA map, l : parseHeaderLine(p, map, l), ClearHttpInfo(p), lines)

Received(p, lines) ==
  /\ headerprops' = [headerprops EXCEPT ![p] = HeaderProps(lines)]
  /\ cookies' = [cookies EXCEPT ![p] = CookiesIn(p, lines)]

getUserPass_LastColon ==   \* mutant: rfind instead of find
  IF ~hasHttpProperty(Server, "authorization") THEN NoCredentials
  ELSE LET text == fromBase64(getHttpProperty(Server, "authorization"))
           colons == Positions(text, ":")
           last == CHOOSE i \in colons : \A j \in colons : i >= j
       IN IF colons = {} THEN NoCredentials
          ELSE [user |-> stripWS(Before(text, last)), pass |-> stripWS(After(text, last))]

getUserPass ==
  IF ~hasHttpProperty(Server, "authorization") THEN NoCredentials
  ELSE LET text == fromBase64(getHttpProperty(Server, "authorization"))
           colons == Positions(text, ":")
       IN IF colons = {} THEN NoCredentials
          ELSE [user |-> stripWS(Before(text, First(colons))),
                pass |-> stripWS(After(text, First(colons)))]

checkAuthentication == AuthData = {} \/ getUserPass \in AuthData

-----------------------------------------------------------------------------
Init ==
  /\ clientCookie = [c \in Clients |-> <<>>]
  /\ cookies = [p \in Clients \cup {Server} |-> NoFields]
  /\ headerprops = [p \in Clients \cup {Server} |-> NoFields]
  /\ serverCookie = <<>>
  /\ serving = NoOne
  /\ wire = [c \in Clients |-> <<>>]
  /\ place = [c \in Clients |-> "idle"]
  /\ with = [c \in Clients |-> [credentials |-> NoCredentials, cookie |-> <<>>]]

setClientCookie(c, text) ==
  /\ place[c] = "idle"
  /\ clientCookie[c] # text
  /\ clientCookie' = [clientCookie EXCEPT ![c] = text]
  /\ UNCHANGED <<cookies, headerprops, serverCookie, serving, wire, place, with>>

(* Requester::call: setMessageAuthentication, open, sendRpcCall.           *)
CallMethod(c, cred) ==
  /\ place[c] = "idle"
  /\ Received(c, <<>>)     \* resetConnection
  /\ wire' = [wire EXCEPT ![c] =
       sendRequestHeader(c, IF cred = NoCredentials THEN <<>> ELSE Authorization(cred))]
  /\ with' = [with EXCEPT ![c] = [credentials |-> cred, cookie |-> clientCookie[c]]]
  /\ place' = [place EXCEPT ![c] = "called"]
  /\ UNCHANGED <<clientCookie, serverCookie, serving>>

(* Dispatcher::waitForCall, from accept on.                                *)
WaitForCall(c) ==
  /\ serving = NoOne
  /\ place[c] = "called"
  /\ serving' = c
  /\ Received(Server, wire[c])
  /\ UNCHANGED <<clientCookie, serverCookie, wire, place, with>>

(* The application's cookies, then sendRpcResponse.                        *)
SendResponse ==
  /\ serving # NoOne
  /\ checkAuthentication
  /\ serverCookie' = IF cookies[Server] = NoFields THEN <<"new", "=", "mine">>
                     ELSE getCookie(cookies[Server]) \o <<";", "ws", "received", "=", "true">>
  /\ wire' = [wire EXCEPT ![serving] = sendResponseHeader(<<>>, serverCookie')]
  /\ place' = [place EXCEPT ![serving] = "answered"]
  /\ serving' = NoOne
  /\ UNCHANGED <<clientCookie, cookies, headerprops, with>>

RejectAuthentication ==
  /\ serving # NoOne
  /\ ~checkAuthentication
  /\ wire' = [wire EXCEPT ![serving] =
       sendResponseHeader(<<Line("www-authenticate", <<"basic", "realm">>)>>, serverCookie)]
  /\ place' = [place EXCEPT ![serving] = "answered"]
  /\ serving' = NoOne
  /\ UNCHANGED <<clientCookie, cookies, headerprops, serverCookie, with>>

(* Requester::waitForResponse. *)
WaitForResponse(c) ==
  /\ place[c] = "answered"
  /\ Received(c, wire[c])
  /\ wire' = [wire EXCEPT ![c] = <<>>]
  /\ place' = [place EXCEPT ![c] = "idle"]
  /\ UNCHANGED <<clientCookie, serverCookie, serving, with>>

Next ==
  \/ \E c \in Clients :
       \/ \E text \in ClientCookies : setClientCookie(c, text)
       \/ \E cred \in Credentials \cup {NoCredentials} : CallMethod(c, cred)
       \/ WaitForCall(c)
       \/ WaitForResponse(c)
  \/ SendResponse
  \/ RejectAuthentication

Spec == Init /\ [][Next]_vars

-----------------------------------------------------------------------------
Said(c) == CookieMeaning[with[c].cookie]

(* The cookies a text stands for are those setCookie finds in it. *)
CookiesUnderstood ==
  \A t \in ClientCookies :
    CookieMeaning[t] = IF t = <<>> THEN NoFields ELSE setCookie(NoFields, stripWS(t))

(* What the server finds in its cookies while it serves a call is what     *)
(* this client gave to setClientCookie, nothing of an earlier client's and *)
(* nothing that blanks, attributes or a second "=" make of it              *)
(* (clearHttpInfo at accept, parseHeaderLine, setCookie).                  *)
CookiesOwn ==
  serving # NoOne =>
    cookies[Server] = IF Server \in AcceptCookies THEN Said(serving) ELSE NoFields

(* tests/rpc_client.cpp:127-162: a client that accepts cookies finds those *)
(* it sent with this call and the server's "received=true" beside them, or *)
(* the server's new one if it sent none, whoever else called in between.   *)
CookiesReturned ==
  \A c \in Clients \cap AcceptCookies :
    "content-length" \in DOMAIN headerprops[c] /\ ~hasHttpProperty(c, "www-authenticate") =>
      cookies[c] = IF Server \in AcceptCookies /\ Said(c) # NoFields
                   THEN [k \in DOMAIN Said(c) \cup {<<"received">>} |->
                           IF k = <<"received">> THEN <<"true">> ELSE Said(c)[k]]
                   ELSE [k \in {<<"new">>} |-> <<"mine">>]

(* Credentials that one line of base64 holds, of a user without a colon.   *)
Plain(cred) ==
  /\ Len(cred.user) + 1 + Len(cred.pass) <= LineOctets
  /\ ":" \notin Range(cred.user)

(* checkAuthentication judges this very call: a call with plain            *)
(* credentials is served if and only if they are registered, blanks around *)
(* them aside, and a call without any only if none are                     *)
(* (setMessageAuthentication, parseHeaderLine, getUserPass).  Longer ones   *)
(* are cut by the line feed in toBase64.                                   *)
CredentialsJudged ==
  serving # NoOne /\ AuthData # {} =>
    LET cred == with[serving].credentials
    IN Plain(cred) =>
         (checkAuthentication <=> [user |-> stripWS(cred.user), pass |-> stripWS(cred.pass)] \in AuthData)

(* Of the fields a client sends only "Connection" may be lost, and only    *)
(* behind the proxy's credentials, which end in no line end: the length    *)
(* that frames the body, the cookies and the credentials are always found  *)
(* (sendRequestHeader, connectionMachine).                                 *)
FieldsArrive ==
  serving # NoOne =>
    /\ hasHttpProperty(Server, "content-length")
    /\ with[serving].cookie # <<>> => hasHttpProperty(Server, "cookie")
    /\ with[serving].credentials # NoCredentials => hasHttpProperty(Server, "authorization")
    /\ serving \notin Proxied => hasHttpProperty(Server, "connection")

=============================================================================
