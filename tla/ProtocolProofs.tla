---------------------------- MODULE ProtocolProofs ----------------------------
(***************************************************************************)
(* What a Protocol brings with it when a message is exchanged: a           *)
(* connection (TcpConnect) and a header (HttpHeader).                      *)
(*                                                                         *)
(* For every set of clients, credentials, cookies and every length of a    *)
(* base64 line: the server finds in the header it reads what this client   *)
(* put into it with this call, and judges it by that; and a client gets    *)
(* its own cookies back, because setCookie reads what getCookie writes.    *)
(*                                                                         *)
(* For either or both families and applications that do or do not close    *)
(* after an exception: what a lost socket costs.                           *)
(***************************************************************************)
EXTENDS TcpConnect, HttpHeader, WellFoundedInduction, SequenceTheorems, FunctionTheorems,
        FiniteSetTheorems, TLAPS

Protocols == Clients \cup {Server}

(* The header of a call with these credentials and this cookie. *)
Fields(cred) == IF cred = NoCredentials THEN <<>> ELSE Authorization(cred)
Request(c, cred, cookie) ==
  AfterProxy(c, <<ConnectionClose>> \o Fields(cred) \o <<ContentLength>>
                  \o Cookie("cookie", cookie))

(***************************************************************************)
(* A call on its way is the header composed of what the client called      *)
(* with, and the call being served is one on its way, of which the server  *)
(* holds the fields and the cookies.                                       *)
(***************************************************************************)
TypeInv ==
  /\ clientCookie \in [Clients -> ClientCookies]
  /\ with \in [Clients -> [credentials : Credentials \cup {NoCredentials},
                           cookie : ClientCookies]]
  /\ serving \in Clients \cup {NoOne}
  /\ DOMAIN wire = Clients
  /\ DOMAIN place = Clients
  /\ DOMAIN headerprops = Protocols
  /\ DOMAIN cookies = Protocols

Calls ==
  \A c \in Clients :
    place[c] = "called" => wire[c] = Request(c, with[c].credentials, with[c].cookie)

Served ==
  serving # NoOne =>
    /\ place[serving] = "called"
    /\ headerprops[Server] = HeaderProps(wire[serving])
    /\ cookies[Server] = CookiesIn(Server, wire[serving])

IInv == TypeInv /\ Calls /\ Served

-----------------------------------------------------------------------------
LEMMA InitIInv == Init => IInv
BY CookiesAssumption DEF Init, IInv, TypeInv, Calls, Served, ClientCookies, Protocols

(* Who is no client of the call being served leaves it alone. *)
LEMMA OthersStep ==
    ASSUME IInv, NEW c \in Clients, c # serving, serving' = serving,
           \A d \in Clients \ {c} : wire'[d] = wire[d] /\ place'[d] = place[d] /\ with'[d] = with[d],
           headerprops'[Server] = headerprops[Server],
           cookies'[Server] = cookies[Server],
           place'[c] = "called" => wire'[c] = Request(c, with'[c].credentials, with'[c].cookie)
    PROVE  Calls' /\ Served'
<1>1. Calls'  BY DEF IInv, Calls
<1>2. ASSUME serving # NoOne
      PROVE  serving \in Clients \ {c}
    BY <1>2 DEF IInv, TypeInv
<1>3. Served'  BY <1>2 DEF IInv, Served
<1> QED  BY <1>1, <1>3

LEMMA NextIInv == IInv /\ [Next]_vars => IInv'
<1> SUFFICES ASSUME IInv, [Next]_vars PROVE IInv'  OBVIOUS
<1> USE DEF Protocols
<1>0. NoOne \notin Clients /\ Server \notin Clients  BY NoOneAssumption, ServerAssumption
<1>1. ASSUME NEW c \in Clients, NEW text \in ClientCookies, setClientCookie(c, text)
      PROVE  IInv'
    <2>1. TypeInv'  BY <1>1 DEF setClientCookie, IInv, TypeInv
    <2>2. Calls' /\ Served'  BY <1>1 DEF setClientCookie, IInv, Calls, Served
    <2> QED  BY <2>1, <2>2 DEF IInv
<1>2. ASSUME NEW c \in Clients, NEW cred \in Credentials \cup {NoCredentials},
             CallMethod(c, cred)
      PROVE  IInv'
    <2>1. TypeInv'  BY <1>2 DEF CallMethod, Received, IInv, TypeInv
    <2>2. c # serving  BY <1>0, <1>2 DEF CallMethod, IInv, Served
    <2>3. /\ headerprops'[Server] = headerprops[Server]
          /\ cookies'[Server] = cookies[Server]
        BY <1>0, <1>2 DEF CallMethod, Received, IInv, TypeInv
    <2>4. /\ wire' = [wire EXCEPT ![c] = Request(c, cred, clientCookie[c])]
          /\ with' = [with EXCEPT ![c] = [credentials |-> cred, cookie |-> clientCookie[c]]]
        BY <1>2 DEF CallMethod, sendRequestHeader, Request, Fields
    <2>5. wire'[c] = Request(c, with'[c].credentials, with'[c].cookie)
        BY <2>4 DEF IInv, TypeInv
    <2>6. serving' = serving /\ place' = [place EXCEPT ![c] = "called"]
        BY <1>2 DEF CallMethod
    <2>7. \A d \in Clients \ {c} :
            wire'[d] = wire[d] /\ place'[d] = place[d] /\ with'[d] = with[d]
        BY <2>4, <2>6 DEF IInv, TypeInv
    <2>8. Calls' /\ Served'  BY <2>2, <2>3, <2>5, <2>6, <2>7, OthersStep
    <2> QED  BY <2>1, <2>8 DEF IInv
<1>3. ASSUME NEW c \in Clients, WaitForCall(c)
      PROVE  IInv'
    <2>1. TypeInv'  BY <1>3 DEF WaitForCall, Received, IInv, TypeInv
    <2>2. Calls'  BY <1>3 DEF WaitForCall, IInv, Calls
    <2>3. Served'  BY <1>3 DEF WaitForCall, Received, IInv, TypeInv, Served
    <2> QED  BY <2>1, <2>2, <2>3 DEF IInv
<1>4. ASSUME NEW c \in Clients, WaitForResponse(c)
      PROVE  IInv'
    <2>1. TypeInv'  BY <1>4 DEF WaitForResponse, Received, IInv, TypeInv
    <2>2. c # serving  BY <1>0, <1>4 DEF WaitForResponse, IInv, Served
    <2>3. /\ headerprops'[Server] = headerprops[Server]
          /\ cookies'[Server] = cookies[Server]
        BY <1>0, <1>4 DEF WaitForResponse, Received, IInv, TypeInv
    <2>4. /\ serving' = serving /\ with' = with
          /\ \A d \in Clients \ {c} : wire'[d] = wire[d] /\ place'[d] = place[d]
          /\ place'[c] = "idle"
        BY <1>4 DEF WaitForResponse, IInv, TypeInv
    <2>5. Calls' /\ Served'  BY <2>2, <2>3, <2>4, OthersStep
    <2> QED  BY <2>1, <2>5 DEF IInv
<1>5. ASSUME SendResponse \/ RejectAuthentication
      PROVE  IInv'
    <2>1. serving \in Clients /\ serving' = NoOne  BY <1>5 DEF SendResponse, RejectAuthentication, IInv, TypeInv
    <2>2. TypeInv'  BY <1>5, <2>1 DEF SendResponse, RejectAuthentication, IInv, TypeInv
    <2>3. Calls'
        <3>1. /\ place' = [place EXCEPT ![serving] = "answered"] /\ with' = with
              /\ \A d \in Clients \ {serving} : wire'[d] = wire[d]
            BY <1>5, <2>1 DEF SendResponse, RejectAuthentication, IInv, TypeInv
        <3> QED  BY <2>1, <3>1 DEF IInv, TypeInv, Calls
    <2>4. Served'  BY <2>1 DEF Served
    <2> QED  BY <2>2, <2>3, <2>4 DEF IInv
<1>6. CASE UNCHANGED vars
    BY <1>6 DEF vars, IInv, TypeInv, Calls, Served
<1> QED  BY <1>1, <1>2, <1>3, <1>4, <1>5, <1>6 DEF Next

(* What is served, and what is on its way, is what the client called with. *)
THEOREM Invariance == Spec => []IInv
BY InitIInv, NextIInv, PTL DEF Spec

-----------------------------------------------------------------------------
(***************************************************************************)
(* Base64: at least one line, and one only of a text that fits in it.      *)
(***************************************************************************)
Colon == ":"
Texts == Seq(STRING \cup {Colon})

LEMMA DivBy ==
    ASSUME NEW k \in Nat \ {0}, NEW a \in Nat, a >= k
    PROVE  a \div k \in Nat \ {0} /\ (a < 2 * k => a \div k = 1)
<1>1. PICK q \in Nat : q = a \div k  OBVIOUS
<1>2. k * q <= a /\ a < k * (q + 1)  BY <1>1
<1>3. q # 0  BY <1>2
<1>4. ASSUME a < 2 * k, q >= 2
      PROVE  FALSE
    <2>1. k * q >= k * 2  BY <1>4
    <2> QED  BY <1>2, <1>4, <2>1
<1> QED  BY <1>1, <1>3, <1>4

LEMMA Base64Lines ==
    ASSUME NEW t \in Texts, t # <<>>
    PROVE  \E n \in Nat \ {0} :
             /\ DOMAIN toBase64(t) = 1 .. n
             /\ Len(t) <= LineOctets => n = 1 /\ toBase64(t)[1].octets = t
<1> DEFINE n == (Len(t) + LineOctets - 1) \div LineOctets
<1>1. Len(t) \in Nat \ {0} /\ LineOctets \in Nat \ {0}
    BY EmptySeq, LineOctetsAssumption DEF Texts
<1>2. n \in Nat \ {0} /\ (Len(t) <= LineOctets => n = 1)
    <2>1. Len(t) + LineOctets - 1 \in Nat /\ Len(t) + LineOctets - 1 >= LineOctets  BY <1>1
    <2>2. Len(t) <= LineOctets => Len(t) + LineOctets - 1 < 2 * LineOctets  BY <1>1
    <2> QED  BY <1>1, <2>1, <2>2, DivBy
<1>3. toBase64(t) =
        [k \in 1 .. n |-> [octets |-> SubSeq(t, (k - 1) * LineOctets + 1,
                                             IF k = n THEN Len(t) ELSE k * LineOctets)]]
    BY DEF toBase64
<1> HIDE DEF n
<1>4. ASSUME Len(t) <= LineOctets
      PROVE  toBase64(t)[1].octets = t
    <2>1. n = 1 /\ 1 \in 1 .. n  BY <1>2, <1>4
    <2>2. (1 - 1) * LineOctets + 1 = 1  BY <1>1
    <2>3. toBase64(t)[1].octets = SubSeq(t, 1, Len(t))  BY <1>3, <2>1, <2>2
    <2> QED  BY <2>3 DEF Texts
<1> QED  BY <1>2, <1>3, <1>4

-----------------------------------------------------------------------------
(***************************************************************************)
(* The lines of a request: whatever comes first, then the credentials, the *)
(* length and the cookie.                                                  *)
(***************************************************************************)
LEMMA FunctionSeq ==
    ASSUME NEW F, NEW n \in Nat, F = [i \in 1 .. n |-> F[i]]
    PROVE  \E S : F \in Seq(S) /\ Len(F) = n
<1> DEFINE S == {F[i] : i \in 1 .. n}
<1>1. \A i \in 1 .. n : F[i] \in S  OBVIOUS
<1> HIDE DEF S
<1>2. [i \in 1 .. n |-> F[i]] \in Seq(S)  BY <1>1, IsASeq
<1>3. F \in Seq(S)  BY <1>2
<1>4. DOMAIN F = 1 .. n  OBVIOUS
<1>5. Len(F) = n  BY <1>3, <1>4, LenProperties
<1> QED  BY <1>3, <1>5

(* How the lines r of a request are arranged, with k lines of credentials F. *)
Arranged(r, c, F, k, cookie) ==
  /\ DOMAIN r = 1 .. IF cookie = <<>> THEN k + 2 ELSE k + 3
  /\ r[1].name = IF c \in Proxied THEN "proxy-authorization" ELSE "connection"
  /\ \A i \in 1 .. k : r[i + 1] = F[i]
  /\ r[k + 2] = ContentLength
  /\ cookie # <<>> => r[k + 3] = Line("cookie", stripWS(cookie))

LEMMA FirstReplaced ==
    ASSUME NEW S, NEW s \in Seq(S), s # <<>>, NEW x
    PROVE  /\ DOMAIN (<<x>> \o Tail(s)) = DOMAIN s
           /\ (<<x>> \o Tail(s))[1] = x
           /\ \A i \in 2 .. Len(s) : (<<x>> \o Tail(s))[i] = s[i]
<1> DEFINE T == S \cup {x}
<1>1. Tail(s) \in Seq(S) /\ Len(s) \in Nat \ {0} /\ Len(Tail(s)) = Len(s) - 1
      /\ \A i \in 1 .. Len(s) - 1 : Tail(s)[i] = s[i + 1]
    BY EmptySeq, HeadTailProperties
<1>2. Tail(s) \in Seq(T) /\ <<x>> \in Seq(T) /\ Len(<<x>>) = 1 /\ <<x>>[1] = x
    <2>1. S \subseteq T /\ x \in T  OBVIOUS
    <2>2. Seq(S) \subseteq Seq(T)  BY <2>1, SeqMonotonic
    <2> QED  BY <1>1, <2>1, <2>2
<1> HIDE DEF T
<1> DEFINE r == <<x>> \o Tail(s)
<1>3. /\ r \in Seq(T) /\ Len(r) = 1 + Len(Tail(s))
      /\ \A i \in 1 .. 1 + Len(Tail(s)) : r[i] = IF i <= 1 THEN <<x>>[i] ELSE Tail(s)[i - 1]
    BY <1>2, ConcatProperties
<1> HIDE DEF r
<1>4. Len(r) = Len(s) /\ DOMAIN r = 1 .. Len(s) /\ DOMAIN s = 1 .. Len(s)
    BY <1>1, <1>3
<1>5. r[1] = x  BY <1>1, <1>2, <1>3
<1>6. ASSUME NEW i \in 2 .. Len(s)  PROVE r[i] = s[i]
    <2>1. i - 1 \in 1 .. Len(s) - 1 /\ i - 1 + 1 = i /\ ~(i <= 1) /\ i \in 1 .. 1 + Len(Tail(s))
        BY <1>1
    <2> QED  BY <1>1, <1>3, <2>1
<1> QED  BY <1>4, <1>5, <1>6 DEF r

Composition(S, r, x, F, y, C, k, m) ==
  /\ r \in Seq(S) /\ Len(r) = k + 2 + m
  /\ r[1] = x /\ r[k + 2] = y
  /\ \A i \in 1 .. k : r[i + 1] = F[i]
  /\ \A i \in 1 .. m : r[i + (k + 2)] = C[i]

LEMMA Composed ==
    ASSUME NEW S, NEW x \in S, NEW y \in S, NEW F \in Seq(S), NEW C \in Seq(S),
           NEW k \in Nat, NEW m \in Nat, Len(F) = k, Len(C) = m
    PROVE  Composition(S, <<x>> \o F \o <<y>> \o C, x, F, y, C, k, m)
<1> DEFINE a == <<x>> \o F
           b == a \o <<y>>
           r == b \o C
<1>1. /\ <<x>> \in Seq(S) /\ Len(<<x>>) = 1 /\ <<x>>[1] = x
      /\ <<y>> \in Seq(S) /\ Len(<<y>>) = 1 /\ <<y>>[1] = y
    OBVIOUS
<1>2. /\ a \in Seq(S) /\ Len(a) = 1 + k
      /\ \A i \in 1 .. 1 + k : a[i] = IF i <= 1 THEN <<x>>[i] ELSE F[i - 1]
    BY <1>1, ConcatProperties
<1> HIDE DEF a
<1>3. /\ b \in Seq(S) /\ Len(b) = 1 + k + 1
      /\ \A i \in 1 .. 1 + k + 1 : b[i] = IF i <= 1 + k THEN a[i] ELSE <<y>>[i - (1 + k)]
    BY <1>1, <1>2, ConcatProperties
<1> HIDE DEF b
<1> b \in Seq(S)  BY <1>3
<1>4. /\ r \in Seq(S) /\ Len(r) = Len(b) + Len(C)
      /\ \A i \in 1 .. Len(b) + Len(C) :
            r[i] = IF i <= Len(b) THEN b[i] ELSE C[i - Len(b)]
    BY ConcatProperties
<1>5. /\ Len(r) = k + 2 + m
      /\ \A i \in 1 .. k + 2 + m : r[i] = IF i <= k + 2 THEN b[i] ELSE C[i - (k + 2)]
    <2>1. Len(b) = k + 2 /\ Len(b) + Len(C) = k + 2 + m  BY <1>3
    <2> QED  BY <1>4, <2>1
<1> HIDE DEF r
<1>6. r[1] = x
    <2>1. a[1] = x  BY <1>1, <1>2
    <2>2. b[1] = x  BY <2>1, <1>3
    <2> QED  BY <2>2, <1>5
<1>7. r[k + 2] = y
    <2>1. k + 2 - (1 + k) = 1 /\ ~(k + 2 <= 1 + k) /\ k + 2 \in 1 .. 1 + k + 1
          /\ k + 2 <= k + 2 /\ k + 2 \in 1 .. k + 2 + m
        OBVIOUS
    <2>2. PICK i \in 1 .. 1 + k + 1 : i = k + 2  OBVIOUS
    <2>3. b[i] = <<y>>[i - (1 + k)]  BY <1>3, <2>2
    <2>4. i - (1 + k) = 1  BY <2>2
    <2>5. b[k + 2] = y  BY <1>1, <2>2, <2>3, <2>4
    <2> QED  BY <1>5, <2>1, <2>5
<1>8. ASSUME NEW i \in 1 .. k  PROVE r[i + 1] = F[i]
    <2>1. i + 1 - 1 = i /\ ~(i + 1 <= 1) /\ i + 1 <= 1 + k /\ i + 1 \in 1 .. 1 + k
          /\ i + 1 <= k + 2 /\ i + 1 \in 1 .. k + 2 + m
        OBVIOUS
    <2>2. a[i + 1] = F[i]  BY <1>2, <2>1
    <2>3. b[i + 1] = a[i + 1]  BY <1>3, <2>1
    <2> QED  BY <1>5, <2>1, <2>2, <2>3
<1>9. ASSUME NEW i \in 1 .. m  PROVE r[i + (k + 2)] = C[i]
    <2>1. i + (k + 2) - (k + 2) = i /\ ~(i + (k + 2) <= k + 2) /\ i + (k + 2) \in 1 .. k + 2 + m
        OBVIOUS
    <2> QED  BY <1>5, <2>1
<1>10. Composition(S, r, x, F, y, C, k, m)
    BY <1>4, <1>5, <1>6, <1>7, <1>8, <1>9 DEF Composition
<1> QED  BY <1>10 DEF r, b, a

LEMMA RequestArranged ==
    ASSUME NEW c, NEW R, NEW F \in Seq(R), NEW k \in Nat, Len(F) = k, NEW cookie
    PROVE  LET lines == <<ConnectionClose>> \o F \o <<ContentLength>> \o Cookie("cookie", cookie)
           IN Arranged(AfterProxy(c, lines), c, F, k, cookie)
<1> DEFINE line == Line("cookie", stripWS(cookie))
           C == Cookie("cookie", cookie)
           r == <<ConnectionClose>> \o F \o <<ContentLength>> \o C
<1>1. PICK S : S = R \cup {ConnectionClose, ContentLength, line}  OBVIOUS
<1>2. ConnectionClose \in S /\ ContentLength \in S /\ line \in S /\ R \subseteq S  BY <1>1
<1>3. F \in Seq(S)  BY <1>2, SeqMonotonic
<1>4. PICK m \in Nat : m = IF cookie = <<>> THEN 0 ELSE 1  OBVIOUS
<1>5. C = IF cookie = <<>> THEN <<>> ELSE <<line>>  BY DEF Cookie
<1> HIDE DEF line, C
<1>6. C \in Seq(S) /\ Len(C) = m /\ (cookie # <<>> => C[1] = line)
    <2>1. CASE cookie = <<>>  BY <1>4, <1>5, <2>1, EmptySeq
    <2>2. CASE cookie # <<>>
        <3>1. C = <<line>>  BY <1>5, <2>2
        <3> QED  BY <1>2, <1>4, <2>2, <3>1
    <2> QED  BY <2>1, <2>2
<1>7. /\ r \in Seq(S) /\ Len(r) = k + 2 + m
      /\ r[1] = ConnectionClose /\ r[k + 2] = ContentLength
      /\ \A i \in 1 .. k : r[i + 1] = F[i]
      /\ \A i \in 1 .. m : r[i + (k + 2)] = C[i]
    <2>1. C \in Seq(S) /\ Len(C) = m  BY <1>6
    <2>2. Composition(S, r, ConnectionClose, F, ContentLength, C, k, m)
        BY <1>2, <1>3, <2>1, Composed
    <2> HIDE DEF r
    <2> QED  BY <2>2 DEF Composition
<1> HIDE DEF r
<1>8. cookie # <<>> => k + 3 \in 2 .. Len(r) /\ r[k + 3] = line
    <2> SUFFICES ASSUME cookie # <<>> PROVE k + 3 \in 2 .. Len(r) /\ r[k + 3] = line  OBVIOUS
    <2>1. m = 1 /\ 1 \in 1 .. m /\ 1 + (k + 2) = k + 3  BY <1>4
    <2> QED  BY <1>6, <1>7, <2>1
<1>9. DOMAIN r = 1 .. (IF cookie = <<>> THEN k + 2 ELSE k + 3) /\ r # <<>> /\ Len(r) >= 2
    <2>1. Len(r) = IF cookie = <<>> THEN k + 2 ELSE k + 3  BY <1>4, <1>7
    <2>2. Len(r) \in Nat /\ Len(r) >= 2  BY <1>4, <1>7
    <2> QED  BY <1>7, <2>1, <2>2, EmptySeq, LenProperties
<1>10. (\A i \in 1 .. k : i + 1 \in 2 .. Len(r)) /\ k + 2 \in 2 .. Len(r)
    BY <1>4, <1>7
<1>11. Arranged(AfterProxy(c, r), c, F, k, cookie)
    <2>1. CASE c \notin Proxied
        <3>1. AfterProxy(c, r) = r  BY <2>1 DEF AfterProxy
        <3>2. r[1].name = "connection"  BY <1>7 DEF ConnectionClose, Line
        <3> QED  BY <1>7, <1>8, <1>9, <2>1, <3>1, <3>2 DEF Arranged, line
    <2>2. CASE c \in Proxied
        <3>0. PICK x : x = Line("proxy-authorization", <<Head(r).name, ":">> \o Head(r).value)
            OBVIOUS
        <3>1. PICK q : q = <<x>> \o Tail(r)  OBVIOUS
        <3>2. AfterProxy(c, r) = q  BY <2>2, <3>0, <3>1 DEF AfterProxy
        <3>3. x.name = "proxy-authorization"  BY <3>0 DEF Line
        <3>4. DOMAIN q = DOMAIN r /\ q[1] = x /\ \A i \in 2 .. Len(r) : q[i] = r[i]
            BY <1>7, <1>9, <3>1, FirstReplaced
        <3>5. \A i \in 1 .. k : q[i + 1] = F[i]  BY <1>7, <1>10, <3>4
        <3>6. q[k + 2] = ContentLength  BY <1>7, <1>10, <3>4
        <3>7. cookie # <<>> => q[k + 3] = line  BY <1>8, <3>4
        <3> QED  BY <1>9, <2>2, <3>2, <3>3, <3>4, <3>5, <3>6, <3>7 DEF Arranged, line
    <2> QED  BY <2>1, <2>2
<1> QED  BY <1>11 DEF r, C

-----------------------------------------------------------------------------
(***************************************************************************)
(* The fields of a request.                                                *)
(***************************************************************************)
Text(cred) == cred.user \o <<Colon>> \o cred.pass

(* F is the k lines that carry the credentials. *)
CredentialLines(F, k, cred) ==
  /\ DOMAIN F = 1 .. k
  /\ cred = NoCredentials => k = 0
  /\ cred # NoCredentials =>
       /\ k >= 1
       /\ F[1] = Line("authorization", toBase64(Text(cred))[1])
       /\ \A i \in 2 .. k : F[i].name = "nameless"

JoinedBy(t, user, x, pass) ==
  /\ t # <<>> /\ Len(t) = Len(user) + 1 + Len(pass)
  /\ \A i \in 1 .. Len(user) : t[i] = user[i]
  /\ t[Len(user) + 1] = x
  /\ \A i \in 1 .. Len(pass) : t[Len(user) + 1 + i] = pass[i]

LEMMA Joined ==
    ASSUME NEW S, NEW user \in Seq(S), NEW pass \in Seq(S), NEW x \in S
    PROVE  user \o <<x>> \o pass \in Seq(S) /\ JoinedBy(user \o <<x>> \o pass, user, x, pass)
<1> DEFINE a == user \o <<x>>
           t == a \o pass
<1>1. <<x>> \in Seq(S) /\ Len(<<x>>) = 1 /\ <<x>>[1] = x  OBVIOUS
<1>2. PICK m, n \in Nat : m = Len(user) /\ n = Len(pass)  BY LenProperties
<1>3. /\ a \in Seq(S) /\ Len(a) = Len(user) + Len(<<x>>)
      /\ \A i \in 1 .. Len(user) + Len(<<x>>) :
            a[i] = IF i <= Len(user) THEN user[i] ELSE <<x>>[i - Len(user)]
    BY <1>1, ConcatProperties
<1> HIDE DEF a
<1>4. /\ Len(a) = m + 1
      /\ \A i \in 1 .. m : a[i] = user[i]
      /\ a[m + 1] = x
    <2>1. /\ Len(a) = m + 1
          /\ \A i \in 1 .. m + 1 : a[i] = IF i <= m THEN user[i] ELSE <<x>>[i - m]
        BY <1>1, <1>2, <1>3
    <2>2. a[m + 1] = <<x>>[1]
        <3>1. m + 1 - m = 1 /\ ~(m + 1 <= m) /\ m + 1 \in 1 .. m + 1  OBVIOUS
        <3> QED  BY <2>1, <3>1
    <2> QED  BY <1>1, <2>1, <2>2
<1> a \in Seq(S)  BY <1>3
<1>5. /\ t \in Seq(S) /\ Len(t) = Len(a) + Len(pass)
      /\ \A i \in 1 .. Len(a) + Len(pass) : t[i] = IF i <= Len(a) THEN a[i] ELSE pass[i - Len(a)]
    BY ConcatProperties
<1> HIDE DEF t
<1>6. /\ Len(t) = m + 1 + n
      /\ \A i \in 1 .. m + 1 + n : t[i] = IF i <= m + 1 THEN a[i] ELSE pass[i - (m + 1)]
    BY <1>2, <1>4, <1>5
<1>7. t # <<>>  BY <1>5, <1>6, EmptySeq
<1>8. (\A i \in 1 .. m : t[i] = user[i]) /\ t[m + 1] = x
    BY <1>4, <1>6
<1>9. ASSUME NEW i \in 1 .. n  PROVE t[m + 1 + i] = pass[i]
    <2>1. m + 1 + i - (m + 1) = i /\ ~(m + 1 + i <= m + 1) /\ m + 1 + i \in 1 .. m + 1 + n
        OBVIOUS
    <2> QED  BY <1>6, <2>1
<1>10. JoinedBy(t, user, x, pass)
    BY <1>2, <1>6, <1>7, <1>8, <1>9 DEF JoinedBy
<1> QED  BY <1>5, <1>10 DEF t, a

LEMMA TextOf ==
    ASSUME NEW cred \in Credentials
    PROVE  /\ Text(cred) \in Texts /\ cred.user \in Texts /\ cred.pass \in Texts
           /\ JoinedBy(Text(cred), cred.user, Colon, cred.pass)
<1>1. PICK S : S = STRING \cup {Colon}  OBVIOUS
<1>2. Colon \in S /\ STRING \subseteq S /\ Texts = Seq(S)  BY <1>1 DEF Texts
<1>3. cred.user \in Seq(STRING) /\ cred.pass \in Seq(STRING)  BY CredentialsAssumption
<1>4. cred.user \in Seq(S) /\ cred.pass \in Seq(S)  BY <1>2, <1>3, SeqMonotonic
<1>5. PICK u, p : u = cred.user /\ p = cred.pass  OBVIOUS
<1>6. u \o <<Colon>> \o p \in Seq(S) /\ JoinedBy(u \o <<Colon>> \o p, u, Colon, p)
    BY <1>2, <1>4, <1>5, Joined
<1> QED  BY <1>2, <1>4, <1>5, <1>6 DEF Text

LEMMA FieldsLines ==
    ASSUME NEW cred \in Credentials \cup {NoCredentials}
    PROVE  \E S : \E k \in Nat :
             Fields(cred) \in Seq(S) /\ Len(Fields(cred)) = k /\ CredentialLines(Fields(cred), k, cred)
<1>1. CASE cred = NoCredentials
    <2>1. Fields(cred) = <<>>  BY <1>1 DEF Fields
    <2>2. Fields(cred) \in Seq(STRING) /\ Len(Fields(cred)) = 0 /\ DOMAIN Fields(cred) = 1 .. 0
        BY <2>1, EmptySeq
    <2> QED  BY <1>1, <2>2 DEF CredentialLines
<1>2. CASE cred # NoCredentials
    <2>1. cred \in Credentials  BY <1>2
    <2>2. Text(cred) \in Texts /\ Text(cred) # <<>>
        BY <2>1, TextOf DEF JoinedBy
    <2>3. PICK k \in Nat \ {0} : DOMAIN toBase64(Text(cred)) = 1 .. k
        BY <2>2, Base64Lines
    <2>4. PICK F : F = Fields(cred)  OBVIOUS
    <2>5. F = [i \in 1 .. k |-> IF i = 1 THEN Line("authorization", toBase64(Text(cred))[1])
                                         ELSE Line("nameless", toBase64(Text(cred))[i])]
        <3>1. PICK code : code = toBase64(Text(cred))  OBVIOUS
        <3>2. Authorization(cred) =
                [i \in DOMAIN code |-> IF i = 1 THEN Line("authorization", code[1])
                                                ELSE Line("nameless", code[i])]
            BY <3>1, Zenon DEF Authorization, Text, Colon
        <3> QED  BY <1>2, <2>3, <2>4, <3>1, <3>2 DEF Fields
    <2>6. F = [i \in 1 .. k |-> F[i]]  BY <2>5
    <2>7. \E S : F \in Seq(S) /\ Len(F) = k  BY <2>6, FunctionSeq
    <2>8. CredentialLines(F, k, cred)
        BY <1>2, <2>5 DEF CredentialLines, Line
    <2> QED  BY <2>4, <2>7, <2>8
<1> QED  BY <1>1, <1>2

LEMMA RequestFields ==
    ASSUME NEW c, NEW cred \in Credentials \cup {NoCredentials}, NEW cookie
    PROVE  \E F : \E k \in Nat : /\ Arranged(Request(c, cred, cookie), c, F, k, cookie)
                                 /\ CredentialLines(F, k, cred)
<1>1. PICK S : \E k \in Nat :
        Fields(cred) \in Seq(S) /\ Len(Fields(cred)) = k /\ CredentialLines(Fields(cred), k, cred)
    BY FieldsLines
<1>2. PICK k \in Nat :
        Fields(cred) \in Seq(S) /\ Len(Fields(cred)) = k /\ CredentialLines(Fields(cred), k, cred)
    BY <1>1
<1>3. Arranged(Request(c, cred, cookie), c, Fields(cred), k, cookie)
    BY <1>2, RequestArranged DEF Request
<1> QED  BY <1>2, <1>3

LineOf(r, c, F, k, cookie, i) ==
  \/ i = 1 /\ r[i].name = IF c \in Proxied THEN "proxy-authorization" ELSE "connection"
  \/ i - 1 \in 1 .. k /\ r[i] = F[i - 1]
  \/ i = k + 2 /\ r[i].name = "content-length"
  \/ i = k + 3 /\ cookie # <<>> /\ r[i] = Line("cookie", stripWS(cookie))

LEMMA LinesOf ==
    ASSUME NEW r, NEW c, NEW F, NEW k \in Nat, NEW cookie, NEW i \in DOMAIN r,
           Arranged(r, c, F, k, cookie)
    PROVE  LineOf(r, c, F, k, cookie, i)
<1> USE DEF LineOf
<1>1. i \in 1 .. k + 3 /\ (cookie = <<>> => i <= k + 2)  BY DEF Arranged
<1>2. CASE i = 1  BY <1>2 DEF Arranged
<1>3. CASE i - 1 \in 1 .. k
    <2>1. PICK j \in 1 .. k : j = i - 1  BY <1>3
    <2>2. i = j + 1  BY <1>1, <2>1
    <2>3. r[j + 1] = F[j]  BY DEF Arranged
    <2> QED  BY <2>1, <2>2, <2>3
<1>4. CASE i = k + 2  BY <1>4 DEF Arranged, ContentLength, Line
<1>5. CASE i = k + 3
    <2>1. cookie # <<>>  BY <1>1, <1>5
    <2> QED  BY <1>5, <2>1 DEF Arranged
<1>6. i = 1 \/ i - 1 \in 1 .. k \/ i = k + 2 \/ i = k + 3  BY <1>1
<1> QED  BY <1>2, <1>3, <1>4, <1>5, <1>6

(* The name of the credentials is found once, in the second line. *)
LEMMA AuthorizationAt ==
    ASSUME NEW r, NEW c, NEW F, NEW k \in Nat, NEW cookie, NEW cred,
           Arranged(r, c, F, k, cookie), CredentialLines(F, k, cred)
    PROVE  {i \in DOMAIN r : r[i].name = "authorization"}
             = IF cred = NoCredentials THEN {} ELSE {2}
<1>1. ASSUME NEW i \in DOMAIN r, r[i].name = "authorization"
      PROVE  cred # NoCredentials /\ i = 2
    <2>1. i - 1 \in 1 .. k /\ r[i] = F[i - 1]
        <3>1. LineOf(r, c, F, k, cookie, i)  BY LinesOf
        <3>2. Line("cookie", stripWS(cookie)).name # "authorization"  BY DEF Line
        <3> QED  BY <1>1, <3>1, <3>2 DEF LineOf
    <2>2. cred # NoCredentials  BY <2>1 DEF CredentialLines
    <2>3. i - 1 \notin 2 .. k  BY <1>1, <2>1, <2>2 DEF CredentialLines
    <2>4. i \in Int  BY DEF Arranged
    <2> QED  BY <2>1, <2>2, <2>3, <2>4
<1>2. ASSUME cred # NoCredentials
      PROVE  2 \in DOMAIN r /\ r[2].name = "authorization"
    <2>1. k >= 1 /\ 1 \in 1 .. k /\ F[1].name = "authorization"
        BY <1>2 DEF CredentialLines, Line
    <2>2. r[1 + 1] = F[1]  BY <2>1 DEF Arranged
    <2>3. 2 \in DOMAIN r  BY <2>1 DEF Arranged
    <2> QED  BY <2>1, <2>2, <2>3
<1> QED  BY <1>1, <1>2

(* What a request says is found by the one who parses it. *)
LEMMA Fielded ==
    ASSUME IInv, serving # NoOne
    PROVE  LET cred == with[serving].credentials
               cookie == with[serving].cookie
           IN \E r, F : \E k \in Nat :
                /\ headerprops[Server] = HeaderProps(r)
                /\ cookies[Server] = CookiesIn(Server, r)
                /\ Arranged(r, serving, F, k, cookie)
                /\ CredentialLines(F, k, cred)
<1>1. serving \in Clients  BY DEF IInv, TypeInv
<1>2. with[serving].credentials \in Credentials \cup {NoCredentials}
    BY <1>1 DEF IInv, TypeInv
<1>3. PICK r : r = Request(serving, with[serving].credentials, with[serving].cookie)  OBVIOUS
<1>4. headerprops[Server] = HeaderProps(r) /\ cookies[Server] = CookiesIn(Server, r)
    BY <1>1, <1>3 DEF IInv, Calls, Served
<1> QED  BY <1>2, <1>3, <1>4, RequestFields


(* No field of a request is lost but the first, behind the proxy's         *)
(* credentials.                                                            *)
LEMMA FieldsArriveInv == IInv => FieldsArrive
<1> SUFFICES ASSUME IInv, serving # NoOne
             PROVE  /\ hasHttpProperty(Server, "content-length")
                    /\ with[serving].cookie # <<>> => hasHttpProperty(Server, "cookie")
                    /\ with[serving].credentials # NoCredentials =>
                         hasHttpProperty(Server, "authorization")
                    /\ serving \notin Proxied => hasHttpProperty(Server, "connection")
    BY DEF FieldsArrive
<1>1. PICK cred, cookie : cred = with[serving].credentials /\ cookie = with[serving].cookie
    OBVIOUS
<1>2. PICK r, F : \E k \in Nat :
        headerprops[Server] = HeaderProps(r) /\ Arranged(r, serving, F, k, cookie)
        /\ CredentialLines(F, k, cred)
    BY <1>1, Fielded
<1>3. PICK k \in Nat :
        headerprops[Server] = HeaderProps(r) /\ Arranged(r, serving, F, k, cookie)
        /\ CredentialLines(F, k, cred)
    BY <1>2
<1>4. \A name : hasHttpProperty(Server, name) <=> \E i \in DOMAIN r : r[i].name = name
    BY <1>3 DEF hasHttpProperty, HeaderProps
<1>5. /\ 1 \in DOMAIN r /\ k + 2 \in DOMAIN r
      /\ cookie # <<>> => k + 3 \in DOMAIN r
    BY <1>3 DEF Arranged
<1>6. r[k + 2].name = "content-length"  BY <1>3 DEF Arranged, ContentLength, Line
<1>7. cookie # <<>> => r[k + 3].name = "cookie"  BY <1>3 DEF Arranged, Line
<1>8. serving \notin Proxied => r[1].name = "connection"  BY <1>3 DEF Arranged
<1>9. cred # NoCredentials => \E i \in DOMAIN r : r[i].name = "authorization"
    <2>1. cred # NoCredentials => 2 \in {i \in DOMAIN r : r[i].name = "authorization"}
        BY <1>3, AuthorizationAt
    <2> QED  BY <2>1
<1> QED  BY <1>1, <1>4, <1>5, <1>6, <1>7, <1>8, <1>9

(* For all credentials, cookies and lengths of a base64 line: every field  *)
(* a client put into its request is found by the server that serves it.    *)
THEOREM FieldsFound == Spec => []FieldsArrive
BY Invariance, FieldsArriveInv, PTL

-----------------------------------------------------------------------------
(***************************************************************************)
(* The credentials of a call, taken apart again.                           *)
(***************************************************************************)
LEMMA Cut ==
    ASSUME NEW S, NEW t \in Seq(S), NEW user \in Seq(S), NEW pass \in Seq(S), NEW x,
           JoinedBy(t, user, x, pass), x \notin Range(user)
    PROVE  /\ Positions(t, x) # {}
           /\ Before(t, First(Positions(t, x))) = user
           /\ After(t, First(Positions(t, x))) = pass
<1>1. PICK m, n \in Nat : m = Len(user) /\ n = Len(pass)  BY LenProperties
<1>2. /\ Len(t) = m + 1 + n /\ t[m + 1] = x
      /\ \A i \in 1 .. m : t[i] = user[i]
      /\ \A i \in 1 .. n : t[m + 1 + i] = pass[i]
    BY <1>1 DEF JoinedBy
<1>3. DOMAIN t = 1 .. m + 1 + n /\ DOMAIN user = 1 .. m  BY <1>1, <1>2, LenProperties
<1>4. PICK P : P = Positions(t, x)  OBVIOUS
<1>5. P = {i \in 1 .. m + 1 + n : t[i] = x}  BY <1>3, <1>4 DEF Positions
<1>6. m + 1 \in P  BY <1>2, <1>5
<1>7. \A i \in 1 .. m : i \notin P  BY <1>2, <1>3, <1>5 DEF Range
<1>8. \A i \in P : m + 1 <= i  BY <1>5, <1>7
<1>9. First(P) = m + 1
    <2>1. \A i \in P : (\A j \in P : i <= j) => i = m + 1
        BY <1>5, <1>6, <1>8
    <2> QED  BY <1>6, <1>8, <2>1 DEF First
<1>10. Before(t, m + 1) = user
    <2>1. PICK b : b = SubSeq(t, 1, m)  OBVIOUS
    <2>2. \A i \in 1 .. m : t[i] \in S  BY <1>2, <1>1
    <2>3. b \in Seq(S) /\ Len(b) = (IF 1 <= m THEN m - 1 + 1 ELSE 0)
          /\ \A i \in 1 .. m - 1 + 1 : b[i] = t[1 + i - 1]
        BY <2>1, <2>2, SubSeqProperties
    <2>4. Len(b) = m  BY <2>3
    <2>5. \A i \in 1 .. m : b[i] = t[i]  BY <2>3
    <2>6. \A i \in 1 .. Len(b) : b[i] = user[i]  BY <1>2, <2>4, <2>5
    <2>7. b \in Seq(S) /\ Len(b) = Len(user)  BY <1>1, <2>3, <2>4
    <2>8. b = user  BY <2>6, <2>7, SeqEqual
    <2>9. m + 1 - 1 = m  OBVIOUS
    <2> QED  BY <2>1, <2>8, <2>9 DEF Before
<1>11. After(t, m + 1) = pass
    <2>1. PICK b : b = SubSeq(t, m + 2, m + 1 + n)  OBVIOUS
    <2>2. \A i \in m + 2 .. m + 1 + n : t[i] \in S
        <3>1. \A i \in 1 .. m + 1 + n : t[i] \in S  BY <1>2, LenProperties
        <3> QED  BY <3>1
    <2>3. b \in Seq(S) /\ Len(b) = (IF m + 2 <= m + 1 + n THEN m + 1 + n - (m + 2) + 1 ELSE 0)
          /\ \A i \in 1 .. m + 1 + n - (m + 2) + 1 : b[i] = t[m + 2 + i - 1]
        BY <2>1, <2>2, SubSeqProperties
    <2>4. Len(b) = n  BY <2>3
    <2>5. \A i \in 1 .. n : b[i] = t[m + 1 + i]
        <3> SUFFICES ASSUME NEW i \in 1 .. n PROVE b[i] = t[m + 1 + i]  OBVIOUS
        <3>1. m + 2 + i - 1 = m + 1 + i /\ i \in 1 .. m + 1 + n - (m + 2) + 1  OBVIOUS
        <3> QED  BY <2>3, <3>1
    <2>6. \A i \in 1 .. Len(b) : b[i] = pass[i]  BY <1>2, <2>4, <2>5
    <2>7. b \in Seq(S) /\ Len(b) = Len(pass)  BY <1>1, <2>3, <2>4
    <2>8. b = pass  BY <2>6, <2>7, SeqEqual
    <2>9. m + 1 + 1 = m + 2  OBVIOUS
    <2> QED  BY <1>2, <2>1, <2>8, <2>9 DEF After
<1> QED  BY <1>4, <1>6, <1>9, <1>10, <1>11

LEMMA NothingStripped == stripWS(<<>>) = <<>>
<1>1. DOMAIN (<<>>) = {}  OBVIOUS
<1>2. {i \in DOMAIN (<<>>) : (<<>>)[i] # "ws"} = {}  BY <1>1
<1> QED  BY <1>2 DEF stripWS

(* What the server makes of the credentials a client called with. *)
LEMMA UserPassOf ==
    ASSUME IInv, serving # NoOne, Plain(with[serving].credentials)
    PROVE  getUserPass = [user |-> stripWS(with[serving].credentials.user),
                          pass |-> stripWS(with[serving].credentials.pass)]
<1>1. PICK cred, cookie : cred = with[serving].credentials /\ cookie = with[serving].cookie
    OBVIOUS
<1>2. PICK r, F : \E k \in Nat :
        headerprops[Server] = HeaderProps(r) /\ Arranged(r, serving, F, k, cookie)
        /\ CredentialLines(F, k, cred)
    BY <1>1, Fielded
<1>3. PICK k \in Nat :
        headerprops[Server] = HeaderProps(r) /\ Arranged(r, serving, F, k, cookie)
        /\ CredentialLines(F, k, cred)
    BY <1>2
<1>4. cred \in Credentials \cup {NoCredentials}  BY <1>1 DEF IInv, TypeInv
<1>5. PICK at : at = {i \in DOMAIN r : r[i].name = "authorization"}  OBVIOUS
<1>6. at = IF cred = NoCredentials THEN {} ELSE {2}  BY <1>3, <1>5, AuthorizationAt
<1>7. hasHttpProperty(Server, "authorization") <=> at # {}
    BY <1>3, <1>5 DEF hasHttpProperty, HeaderProps
<1>8. CASE cred = NoCredentials
    <2>1. getUserPass = NoCredentials  BY <1>6, <1>7, <1>8, Zenon DEF getUserPass
    <2> QED  BY <1>1, <1>8, <2>1, NothingStripped DEF NoCredentials
<1>9. CASE cred # NoCredentials
    <2>1. cred \in Credentials  BY <1>4, <1>9
    <2>2. PICK t : t = Text(cred)  OBVIOUS
    <2>3. /\ t \in Texts /\ cred.user \in Texts /\ cred.pass \in Texts
          /\ JoinedBy(t, cred.user, Colon, cred.pass)
        BY <2>1, <2>2, TextOf
    <2>4. Len(t) <= LineOctets /\ Colon \notin Range(cred.user)
        <3>1. Plain(cred)  BY <1>1
        <3>2. Colon \notin Range(cred.user)  BY <3>1, Zenon DEF Plain, Colon
        <3>3. Len(cred.user) + 1 + Len(cred.pass) <= LineOctets  BY <3>1, Zenon DEF Plain
        <3>4. Len(t) = Len(cred.user) + 1 + Len(cred.pass)  BY <2>3 DEF JoinedBy
        <3> QED  BY <3>2, <3>3, <3>4
    <2>5. fromBase64(toBase64(t)[1]) = t
        <3>1. t # <<>>  BY <2>3 DEF JoinedBy
        <3> QED  BY <2>3, <2>4, <3>1, Base64Lines DEF fromBase64
    <2>6. getHttpProperty(Server, "authorization") = toBase64(t)[1]
        <3>1. First({2}) = 2  BY DEF First
        <3>2. headerprops[Server]["authorization"] = r[2].value
            <4>1. 2 \in at /\ at = {2}  BY <1>6, <1>9
            <4>2. PICK names : names = {r[i].name : i \in DOMAIN r}  OBVIOUS
            <4>3. "authorization" \in names  BY <1>5, <4>1, <4>2
            <4>4. HeaderProps(r) = [n \in names |-> r[First({i \in DOMAIN r : r[i].name = n})].value]
                BY <4>2 DEF HeaderProps
            <4>5. HeaderProps(r)["authorization"]
                    = r[First({i \in DOMAIN r : r[i].name = "authorization"})].value
                BY <4>3, <4>4
            <4> QED  BY <1>3, <1>5, <3>1, <4>1, <4>5, Zenon
        <3>3. k >= 1 /\ F[1] = Line("authorization", toBase64(t)[1])
            BY <1>3, <1>9, <2>2 DEF CredentialLines
        <3>4. 1 \in 1 .. k  BY <3>3
        <3>5. r[1 + 1] = F[1]  BY <1>3, <3>4 DEF Arranged
        <3> QED  BY <3>2, <3>3, <3>5 DEF getHttpProperty, Line
    <2>7. PICK S : S = STRING \cup {Colon}  OBVIOUS
    <2>8. /\ Positions(t, Colon) # {}
          /\ Before(t, First(Positions(t, Colon))) = cred.user
          /\ After(t, First(Positions(t, Colon))) = cred.pass
        <3>1. t \in Seq(S) /\ cred.user \in Seq(S) /\ cred.pass \in Seq(S)
            BY <2>3, <2>7 DEF Texts
        <3>2. PICK u, p : u = cred.user /\ p = cred.pass  OBVIOUS
        <3>3. JoinedBy(t, u, Colon, p) /\ Colon \notin Range(u) /\ u \in Seq(S) /\ p \in Seq(S)
            BY <2>3, <2>4, <3>1, <3>2
        <3> QED  BY <3>1, <3>2, <3>3, Cut
    <2>9. hasHttpProperty(Server, "authorization")  BY <1>6, <1>7, <1>9
    <2>10. getUserPass = [user |-> stripWS(Before(t, First(Positions(t, Colon)))),
                          pass |-> stripWS(After(t, First(Positions(t, Colon))))]
        BY <2>5, <2>6, <2>8, <2>9, Zenon DEF getUserPass, Colon
    <2> QED  BY <1>1, <2>8, <2>10
<1> QED  BY <1>8, <1>9

LEMMA CredentialsJudgedInv == IInv => CredentialsJudged
BY UserPassOf DEF CredentialsJudged, checkAuthentication

(* For all credentials and every length of a base64 line: a call whose     *)
(* credentials fit in one line is judged by them, as the client gave them, *)
(* and a call without credentials by none.                                 *)
THEOREM JudgedByItself == Spec => []CredentialsJudged
BY Invariance, CredentialsJudgedInv, PTL

-----------------------------------------------------------------------------
(***************************************************************************)
(* The cookies of a header are folded from its lines.  A request has at    *)
(* most one line of cookies, in line k, and the fold finds this one.       *)
(***************************************************************************)
LEMMA NatMinimum ==
    ASSUME NEW T, T \subseteq Nat, T # {}
    PROVE  \E n \in T : \A m \in T : n <= m
<1> DEFINE R == OpToRel(<, Nat)
<1>1. PICK n \in T : \A m \in T : ~(<<m, n>> \in R)
    BY NatLessThanWellFounded, WFMin
<1>2. \A x, y \in Nat : <<x, y>> \in R <=> x < y
    BY DEF OpToRel
<1> HIDE DEF R
<1>3. ASSUME NEW m \in T PROVE n <= m
    <2>1. n \in Nat /\ m \in Nat /\ ~(m < n)  BY <1>1, <1>2
    <2> QED  BY <2>1
<1> QED  BY <1>3

LEMMA NatInd ==
    ASSUME NEW P, 0 \in P, \A n \in Nat : n \in P => n + 1 \in P
    PROVE  Nat \subseteq P
<1> SUFFICES ASSUME Nat \ P # {} PROVE FALSE  OBVIOUS
<1>1. PICK n \in Nat \ P : \A m \in Nat \ P : n <= m  BY NatMinimum
<1>2. n # 0 /\ n - 1 \in Nat  BY <1>1
<1>3. n - 1 \in P  BY <1>1, <1>2
<1> QED  BY <1>1, <1>2, <1>3

LEMMA MaxOf ==
    ASSUME NEW n \in Nat, NEW T \in SUBSET (1 .. n), T # {}
    PROVE  Max(T) \in T
<1>1. PICK R : R = {n - i : i \in T}  OBVIOUS
<1>2. R \subseteq Nat /\ R # {}
    <2>1. \A i \in T : n - i \in Nat  OBVIOUS
    <2>2. PICK i \in T : TRUE  OBVIOUS
    <2>3. n - i \in R  BY <1>1
    <2> QED  BY <1>1, <2>1, <2>3
<1>3. PICK m \in R : \A k \in R : m <= k  BY <1>2, NatMinimum
<1>4. PICK i \in T : m = n - i  BY <1>1, <1>3
<1>5. ASSUME NEW j \in T PROVE i >= j
    <2>1. n - j \in R  BY <1>1
    <2>2. n - i <= n - j  BY <1>3, <1>4, <2>1
    <2>3. i \in Nat /\ j \in Nat  BY <1>4, <1>5
    <2> QED  BY <2>2, <2>3
<1> QED  BY <1>4, <1>5 DEF Max

Folds(g, p, lines, D) ==
  g = [T \in D |-> IF T = {} THEN ClearHttpInfo(p)
                   ELSE parseHeaderLine(p, g[T \ {Max(T)}], lines[Max(T)])]

LEMMA CookiesFolded ==
    ASSUME NEW p, NEW lines
    PROVE  CookiesIn(p, lines)
             = (CHOOSE g : Folds(g, p, lines, SUBSET DOMAIN lines))[DOMAIN lines]
BY DEF CookiesIn, FoldLeft, MapThenFoldSet, Folds

IsCookie(l) == l.name \in {"cookie", "set-cookie"}

LEMMA CookiesFound ==
    ASSUME NEW p, NEW lines, NEW n \in Nat, DOMAIN lines = 1 .. n, NEW k,
           \A i \in 1 .. n : IsCookie(lines[i]) <=> i = k
    PROVE  CookiesIn(p, lines) = IF p \in AcceptCookies /\ k \in 1 .. n
                                 THEN setCookie(NoFields, lines[k].value) ELSE NoFields
<1> DEFINE D == SUBSET (1 .. n)
           found(T) == IF p \in AcceptCookies /\ k \in T
                       THEN setCookie(NoFields, lines[k].value) ELSE NoFields
           e == [T \in D |-> found(T)]
<1>1. ASSUME NEW T \in D, T # {}
      PROVE  parseHeaderLine(p, found(T \ {Max(T)}), lines[Max(T)]) = found(T)
    <2>1. PICK x \in T : x = Max(T)  BY <1>1, MaxOf
    <2>2. IsCookie(lines[x]) <=> x = k  BY <2>1
    <2>3. CASE x = k
        <3>1. found(T \ {x}) = NoFields  BY <2>3
        <3>2. found(T) = IF p \in AcceptCookies THEN setCookie(NoFields, lines[x].value) ELSE NoFields
            BY <2>1, <2>3
        <3> HIDE DEF found
        <3> QED  BY <2>1, <2>2, <2>3, <3>1, <3>2 DEF parseHeaderLine, IsCookie
    <2>4. CASE x # k
        <3>1. found(T \ {x}) = found(T)  BY <2>4
        <3> HIDE DEF found
        <3> QED  BY <2>1, <2>2, <2>4, <3>1 DEF parseHeaderLine, IsCookie
    <2> QED  BY <2>3, <2>4
<1>2. found({}) = ClearHttpInfo(p)  BY DEF ClearHttpInfo
<1>3. \A x : \A T \in D : T \ {x} \in D  OBVIOUS
<1> HIDE DEF found
<1>4. ASSUME NEW T \in D
      PROVE  e[T] = IF T = {} THEN ClearHttpInfo(p)
                    ELSE parseHeaderLine(p, e[T \ {Max(T)}], lines[Max(T)])
    BY <1>1, <1>2, <1>3
<1>5. Folds(e, p, lines, D)  BY <1>4 DEF Folds
<1>6. PICK g : g = CHOOSE f : Folds(f, p, lines, D)  OBVIOUS
<1>7. Folds(g, p, lines, D)  BY <1>5, <1>6, Zenon
<1>8. ASSUME NEW T \in D
      PROVE  g[T] = IF T = {} THEN ClearHttpInfo(p)
                    ELSE parseHeaderLine(p, g[T \ {Max(T)}], lines[Max(T)])
    <2> HIDE DEF D
    <2> QED  BY <1>7, <1>8 DEF Folds
<1> DEFINE P == {m \in Nat : \A T \in D : Cardinality(T) = m => g[T] = found(T)}
<1>9. \A T \in D : IsFiniteSet(T) /\ Cardinality(T) \in Nat
    <2>1. IsFiniteSet(1 .. n)  BY FS_Interval
    <2> QED  BY <2>1, FS_Subset, FS_CardinalityType
<1>10. 0 \in P
    <2>1. ASSUME NEW T \in D, Cardinality(T) = 0 PROVE g[T] = found(T)
        <3>1. T = {}  BY <1>9, <2>1, FS_EmptySet
        <3> QED  BY <1>2, <1>8, <3>1
    <2> QED  BY <2>1
<1>11. ASSUME NEW m \in Nat, m \in P PROVE m + 1 \in P
    <2>1. ASSUME NEW T \in D, Cardinality(T) = m + 1 PROVE g[T] = found(T)
        <3>1. T # {}  BY <2>1, FS_EmptySet
        <3>2. Max(T) \in T  BY <3>1, MaxOf
        <3>3. PICK U \in D : U = T \ {Max(T)}  BY <1>3
        <3>4. Cardinality(U) = m
            <4>1. Cardinality(U) = Cardinality(T) - 1  BY <1>9, <3>2, <3>3, FS_RemoveElement
            <4> QED  BY <2>1, <4>1
        <3>5. g[U] = found(U)  BY <1>11, <3>4
        <3>6. g[T] = parseHeaderLine(p, g[U], lines[Max(T)])  BY <1>8, <3>1, <3>3
        <3> QED  BY <1>1, <3>1, <3>3, <3>5, <3>6
    <2> QED  BY <2>1
<1> HIDE DEF P
<1>12. Nat \subseteq P  BY <1>10, <1>11, NatInd
<1>13. 1 .. n \in D  OBVIOUS
<1>14. g[1 .. n] = found(1 .. n)  BY <1>9, <1>12, <1>13 DEF P
<1>15. CookiesIn(p, lines) = g[1 .. n]  BY <1>6, CookiesFolded
<1> QED  BY <1>14, <1>15 DEF found

(* The cookies the server finds are those of the client's last text. *)
LEMMA CookiesOwnInv ==
    ASSUME IInv, CookiesUnderstood
    PROVE  CookiesOwn
<1> SUFFICES ASSUME serving # NoOne
             PROVE  cookies[Server] = IF Server \in AcceptCookies THEN Said(serving) ELSE NoFields
    BY DEF CookiesOwn
<1>1. PICK cred, cookie : cred = with[serving].credentials /\ cookie = with[serving].cookie
    OBVIOUS
<1>2. PICK r, F : \E k \in Nat :
        cookies[Server] = CookiesIn(Server, r) /\ Arranged(r, serving, F, k, cookie)
        /\ CredentialLines(F, k, cred)
    BY <1>1, Fielded
<1>3. PICK k \in Nat :
        cookies[Server] = CookiesIn(Server, r) /\ Arranged(r, serving, F, k, cookie)
        /\ CredentialLines(F, k, cred)
    BY <1>2
<1>4. PICK n \in Nat : n = IF cookie = <<>> THEN k + 2 ELSE k + 3  OBVIOUS
<1>5. PICK at \in Nat : at = IF cookie = <<>> THEN 0 ELSE k + 3  OBVIOUS
<1>6. DOMAIN r = 1 .. n  BY <1>3, <1>4 DEF Arranged
<1>7. cookie # <<>> => at \in 1 .. n /\ r[at] = Line("cookie", stripWS(cookie))
    BY <1>3, <1>4, <1>5 DEF Arranged
<1>8. ASSUME NEW i \in 1 .. n
      PROVE  IsCookie(r[i]) <=> i = at
    <2>1. LineOf(r, serving, F, k, cookie, i)  BY <1>3, <1>6, LinesOf
    <2>2. CASE i = 1 /\ r[i].name = IF serving \in Proxied THEN "proxy-authorization" ELSE "connection"
        <3>1. i # at  BY <1>5, <2>2
        <3> QED  BY <2>2, <3>1 DEF IsCookie
    <2>3. CASE i - 1 \in 1 .. k /\ r[i] = F[i - 1]
        <3>1. i # at  BY <1>5, <2>3
        <3>2. PICK j \in 1 .. k : j = i - 1  BY <2>3
        <3>3. cred # NoCredentials /\ (j = 1 \/ j \in 2 .. k)  BY <1>3, <3>2 DEF CredentialLines
        <3>4. F[1].name = "authorization" /\ \A h \in 2 .. k : F[h].name = "nameless"
            BY <1>3, <3>3 DEF CredentialLines, Line
        <3>5. F[j].name \in {"authorization", "nameless"}  BY <3>3, <3>4
        <3> QED  BY <2>3, <3>1, <3>2, <3>5 DEF IsCookie
    <2>4. CASE i = k + 2 /\ r[i].name = "content-length"
        <3>1. i # at  BY <1>5, <2>4
        <3> QED  BY <2>4, <3>1 DEF IsCookie
    <2>5. CASE i = k + 3 /\ cookie # <<>> /\ r[i] = Line("cookie", stripWS(cookie))
        <3>1. i = at  BY <1>5, <2>5
        <3>2. Line("cookie", stripWS(cookie)).name = "cookie"  BY DEF Line
        <3> QED  BY <2>5, <3>1, <3>2 DEF IsCookie
    <2> QED  BY <2>1, <2>2, <2>3, <2>4, <2>5 DEF LineOf
<1>9. CookiesIn(Server, r) = IF Server \in AcceptCookies /\ at \in 1 .. n
                             THEN setCookie(NoFields, r[at].value) ELSE NoFields
    BY <1>6, <1>8, CookiesFound
<1>10. serving \in Clients /\ cookie \in ClientCookies  BY <1>1 DEF IInv, TypeInv
<1>11. Said(serving) = IF cookie = <<>> THEN NoFields ELSE setCookie(NoFields, stripWS(cookie))
    BY <1>1, <1>10 DEF Said, CookiesUnderstood
<1>12. CASE cookie = <<>>
    <2>1. at \notin 1 .. n  BY <1>5, <1>12
    <2> QED  BY <1>3, <1>9, <1>11, <1>12, <2>1
<1>13. CASE cookie # <<>>
    <2>1. Line("cookie", stripWS(cookie)).value = stripWS(cookie)  BY DEF Line
    <2>2. at \in 1 .. n /\ r[at].value = stripWS(cookie)  BY <1>7, <1>13, <2>1
    <2> QED  BY <1>3, <1>9, <1>11, <1>13, <2>2
<1> QED  BY <1>12, <1>13

(* For all cookies a client may send, if they mean what setCookie takes    *)
(* out of them when it starts with none: the server that serves a call     *)
(* finds the cookies of this client's last text and no others.             *)
THEOREM OwnCookies == CookiesUnderstood => (Spec => []CookiesOwn)
<1>1. CookiesUnderstood /\ IInv => CookiesOwn  BY CookiesOwnInv
<1>2. CookiesUnderstood => CookiesUnderstood'  BY DEF CookiesUnderstood
<1> QED  BY <1>1, <1>2, Invariance, PTL

-----------------------------------------------------------------------------
(***************************************************************************)
(* The cookies that come back.  A call is answered with the cookies the    *)
(* server found in it, or refused.                                         *)
(***************************************************************************)
Found(cookie) == IF Server \in AcceptCookies THEN CookieMeaning[cookie] ELSE NoFields
NewText == <<"new", "=", "mine">>
OldText(map) == getCookie(map) \o <<";", "ws", "received", "=", "true">>
ReplyText(map) == IF map = NoFields THEN NewText ELSE OldText(map)
Refusal == Line("www-authenticate", <<"basic", "realm">>)

Returned(map) ==
  IF map = NoFields THEN [k \in {<<"new">>} |-> <<"mine">>]
  ELSE [k \in DOMAIN map \cup {<<"received">>} |->
          IF k = <<"received">> THEN <<"true">> ELSE map[k]]

Answers ==
  \A c \in Clients :
    place[c] = "answered" =>
      \/ wire[c] = sendResponseHeader(<<>>, ReplyText(Found(with[c].cookie)))
      \/ \E text : wire[c] = sendResponseHeader(<<Refusal>>, text)

Gotten(c) ==
  "content-length" \in DOMAIN headerprops[c] /\ ~hasHttpProperty(c, "www-authenticate") =>
    cookies[c] = Returned(Found(with[c].cookie))

AllGotten == \A c \in Clients \cap AcceptCookies : Gotten(c)

(* What comes back is what was sent, and the server's word. *)
CookiesSurvive ==
  \A cookie \in ClientCookies :
    LET text == ReplyText(Found(cookie))
    IN  text # <<>> /\ setCookie(NoFields, stripWS(text)) = Returned(Found(cookie))

LEMMA ThreeLines ==
    ASSUME NEW text, text # <<>>
    PROVE  LET r == sendResponseHeader(<<>>, text)
           IN  /\ DOMAIN r = 1 .. 3
               /\ r[1] = ConnectionClose /\ r[2] = Line("set-cookie", stripWS(text))
               /\ r[3] = ContentLength
<1> DEFINE y == Line("set-cookie", stripWS(text))
           r == <<ConnectionClose>> \o <<>> \o <<y>> \o <<ContentLength>>
<1>1. PICK S : S = {ConnectionClose, ContentLength, y}  OBVIOUS
<1>2. sendResponseHeader(<<>>, text) = r  BY DEF sendResponseHeader, Cookie
<1>3. Composition(S, r, ConnectionClose, <<>>, y, <<ContentLength>>, 0, 1)
    <2>1. ConnectionClose \in S /\ y \in S /\ ContentLength \in S  BY <1>1
    <2>2. PICK C : C = <<ContentLength>>  OBVIOUS
    <2>3. PICK F : F = <<>>  OBVIOUS
    <2>4. C \in Seq(S) /\ Len(C) = 1 /\ F \in Seq(S) /\ Len(F) = 0  BY <2>1, <2>2, <2>3
    <2>5. Composition(S, <<ConnectionClose>> \o F \o <<y>> \o C, ConnectionClose, F, y, C, 0, 1)
        <3> HIDE DEF y, r
        <3>1. PICK k, m \in Nat : k = 0 /\ m = 1  OBVIOUS
        <3>2. Len(F) = k /\ Len(C) = m  BY <2>4, <3>1
        <3>3. Composition(S, <<ConnectionClose>> \o F \o <<y>> \o C, ConnectionClose, F, y, C, k, m)
            BY <2>1, <2>4, <3>2, Composed
        <3> QED  BY <3>1, <3>3
    <2> QED  BY <2>2, <2>3, <2>5
<1> HIDE DEF r, y
<1>4. /\ r \in Seq(S) /\ Len(r) = 3 /\ r[1] = ConnectionClose /\ r[2] = y
      /\ r[3] = ContentLength
    <2>1. 0 + 2 + 1 = 3 /\ 0 + 2 = 2 /\ 1 + (0 + 2) = 3 /\ 1 \in 1 .. 1  OBVIOUS
    <2>2. r \in Seq(S) /\ Len(r) = 3 /\ r[1] = ConnectionClose /\ r[2] = y
        BY <1>3, <2>1 DEF Composition
    <2>3. \A i \in 1 .. 1 : r[i + (0 + 2)] = <<ContentLength>>[i]
        BY <1>3 DEF Composition
    <2>4. r[1 + (0 + 2)] = <<ContentLength>>[1]  BY <2>1, <2>3
    <2> QED  BY <2>1, <2>2, <2>4
<1>5. DOMAIN r = 1 .. 3  BY <1>4, LenProperties
<1> QED  BY <1>2, <1>4, <1>5 DEF y

LEMMA RefusalFound ==
    ASSUME NEW text
    PROVE  "www-authenticate" \in DOMAIN HeaderProps(sendResponseHeader(<<Refusal>>, text))
<1> DEFINE C == Cookie("set-cookie", text)
           y == Line("set-cookie", stripWS(text))
           a == <<ConnectionClose>> \o <<Refusal>>
           b == a \o C
           r == b \o <<ContentLength>>
<1>1. PICK S : S = {ConnectionClose, ContentLength, y, Refusal}  OBVIOUS
<1>2. C \in Seq(S)
    <2>1. C = <<>> \/ C = <<y>>  BY DEF Cookie
    <2> HIDE DEF C, y
    <2>2. PICK u : u = <<y>>  OBVIOUS
    <2>3. u \in Seq(S) /\ <<>> \in Seq(S)  BY <1>1, <2>2, EmptySeq
    <2> QED  BY <2>1, <2>2, <2>3
<1> HIDE DEF C, y
<1>3. <<ConnectionClose>> \in Seq(S) /\ <<Refusal>> \in Seq(S) /\ <<ContentLength>> \in Seq(S)
    BY <1>1
<1>4. a \in Seq(S) /\ Len(a) = 2 /\ a[2] = Refusal
    <2>1. PICK u, v : u = <<ConnectionClose>> /\ v = <<Refusal>>  OBVIOUS
    <2>2. u \in Seq(S) /\ v \in Seq(S) /\ Len(u) = 1 /\ Len(v) = 1 /\ v[1] = Refusal
        BY <1>3, <2>1
    <2>3. u \o v \in Seq(S) /\ Len(u \o v) = Len(u) + Len(v)
          /\ \A i \in 1 .. Len(u) + Len(v) :
                (u \o v)[i] = IF i <= Len(u) THEN u[i] ELSE v[i - Len(u)]
        BY <2>2, ConcatProperties
    <2>4. Len(u) + Len(v) = 2 /\ 2 \in 1 .. 2 /\ ~(2 <= 1) /\ 2 - 1 = 1  BY <2>2
    <2> QED  BY <2>1, <2>2, <2>3, <2>4
<1> HIDE DEF a
<1>5. b \in Seq(S) /\ Len(b) >= 2 /\ b[2] = Refusal
    <2>1. b \in Seq(S) /\ Len(b) = Len(a) + Len(C)
          /\ \A i \in 1 .. Len(a) + Len(C) : b[i] = IF i <= Len(a) THEN a[i] ELSE C[i - Len(a)]
        BY <1>2, <1>4, ConcatProperties
    <2>2. Len(C) \in Nat  BY <1>2, LenProperties
    <2>3. 2 \in 1 .. Len(a) + Len(C) /\ 2 <= Len(a)  BY <1>4, <2>2
    <2> QED  BY <1>4, <2>1, <2>2, <2>3
<1> HIDE DEF b
<1>6. r \in Seq(S) /\ 2 \in DOMAIN r /\ r[2] = Refusal
    <2>0. PICK v : v = <<ContentLength>>  OBVIOUS
    <2>1. b \o v \in Seq(S) /\ Len(b \o v) = Len(b) + Len(v)
          /\ \A i \in 1 .. Len(b) + Len(v) :
               (b \o v)[i] = IF i <= Len(b) THEN b[i] ELSE v[i - Len(b)]
        BY <1>3, <1>5, <2>0, ConcatProperties
    <2>2. Len(v) \in Nat /\ Len(b) \in Nat  BY <1>3, <1>5, <2>0, LenProperties
    <2>3. 2 \in 1 .. Len(b) + Len(v) /\ 2 <= Len(b)  BY <1>5, <2>2
    <2>4. DOMAIN (b \o v) = 1 .. Len(b \o v)  BY <2>1, LenProperties
    <2> QED  BY <1>5, <2>0, <2>1, <2>3, <2>4
<1> HIDE DEF r
<1>7. sendResponseHeader(<<Refusal>>, text) = r  BY DEF sendResponseHeader, r, b, a, C
<1>8. Refusal.name = "www-authenticate"  BY DEF Refusal, Line
<1> QED  BY <1>6, <1>7, <1>8 DEF HeaderProps

(* What a client that waits for a response gets from the one it reads. *)
LEMMA ResponseRead ==
    ASSUME NEW c \in Clients, c \in AcceptCookies, NEW cookie \in ClientCookies, CookiesSurvive
    PROVE  CookiesIn(c, sendResponseHeader(<<>>, ReplyText(Found(cookie)))) = Returned(Found(cookie))
<1>1. PICK text : text = ReplyText(Found(cookie))  OBVIOUS
<1>2. text # <<>> /\ setCookie(NoFields, stripWS(text)) = Returned(Found(cookie))
    BY <1>1 DEF CookiesSurvive
<1>3. PICK r : r = sendResponseHeader(<<>>, text)  OBVIOUS
<1>4. /\ DOMAIN r = 1 .. 3
      /\ r[1] = ConnectionClose /\ r[2] = Line("set-cookie", stripWS(text)) /\ r[3] = ContentLength
    BY <1>2, <1>3, ThreeLines
<1>5. \A i \in 1 .. 3 : IsCookie(r[i]) <=> i = 2
    <2>1. ~IsCookie(r[1])  BY <1>4 DEF IsCookie, ConnectionClose, Line
    <2>2. ~IsCookie(r[3])  BY <1>4 DEF IsCookie, ContentLength, Line
    <2>3. IsCookie(r[2])  BY <1>4 DEF IsCookie, Line
    <2> QED  BY <2>1, <2>2, <2>3
<1>6. CookiesIn(c, r) = IF c \in AcceptCookies /\ 2 \in 1 .. 3
                        THEN setCookie(NoFields, r[2].value) ELSE NoFields
    <2>1. PICK n, k \in Nat : n = 3 /\ k = 2  OBVIOUS
    <2>2. DOMAIN r = 1 .. n /\ \A i \in 1 .. n : IsCookie(r[i]) <=> i = k  BY <1>4, <1>5, <2>1
    <2>3. CookiesIn(c, r) = IF c \in AcceptCookies /\ k \in 1 .. n
                            THEN setCookie(NoFields, r[k].value) ELSE NoFields
        BY <2>2, CookiesFound
    <2> QED  BY <2>1, <2>3
<1>7. r[2].value = stripWS(text)  BY <1>4 DEF Line
<1>8. CookiesIn(c, r) = setCookie(NoFields, stripWS(text))  BY <1>6, <1>7
<1> QED  BY <1>1, <1>2, <1>3, <1>8

RInv == IInv /\ Answers /\ AllGotten

LEMMA ReturnedInit == Init => RInv
<1> SUFFICES ASSUME Init PROVE RInv  OBVIOUS
<1>1. IInv  BY InitIInv
<1>2. Answers  BY DEF Init, Answers
<1>3. AllGotten  BY DEF Init, AllGotten, Gotten, NoFields
<1> QED  BY <1>1, <1>2, <1>3 DEF RInv

LEMMA ReturnedNext == CookiesUnderstood /\ CookiesSurvive /\ RInv /\ [Next]_vars => RInv'
<1> SUFFICES ASSUME CookiesUnderstood, CookiesSurvive, RInv, [Next]_vars PROVE RInv'  OBVIOUS
<1>1. IInv /\ IInv' /\ Answers /\ AllGotten  BY NextIInv DEF RInv
<1>2. NoOne \notin Clients /\ Server \notin Clients  BY NoOneAssumption, ServerAssumption
<1> SUFFICES Answers' /\ AllGotten'  BY <1>1 DEF RInv
<1>3. ASSUME NEW c \in Clients, NEW text \in ClientCookies, setClientCookie(c, text)
      PROVE  Answers' /\ AllGotten'
    BY <1>1, <1>3 DEF setClientCookie, Answers, AllGotten, Gotten, hasHttpProperty
<1>4. ASSUME NEW c \in Clients, NEW cred \in Credentials \cup {NoCredentials},
             CallMethod(c, cred)
      PROVE  Answers' /\ AllGotten'
    <2>1. /\ place' = [place EXCEPT ![c] = "called"]
          /\ \A d \in Clients \ {c} :
               /\ wire'[d] = wire[d] /\ place'[d] = place[d] /\ with'[d] = with[d]
               /\ headerprops'[d] = headerprops[d] /\ cookies'[d] = cookies[d]
          /\ headerprops'[c] = HeaderProps(<<>>)
        BY <1>1, <1>4 DEF CallMethod, Received, IInv, TypeInv, Protocols
    <2>2. "content-length" \notin DOMAIN headerprops'[c]
        <3>1. DOMAIN (<<>>) = {}  OBVIOUS
        <3>2. DOMAIN HeaderProps(<<>>) = {}  BY <3>1 DEF HeaderProps
        <3> QED  BY <2>1, <3>2
    <2>3. Answers'  BY <1>1, <2>1 DEF Answers, IInv, TypeInv
    <2>4. AllGotten'  BY <1>1, <2>1, <2>2 DEF AllGotten, Gotten, hasHttpProperty
    <2> QED  BY <2>3, <2>4
<1>5. ASSUME NEW c \in Clients, WaitForCall(c)
      PROVE  Answers' /\ AllGotten'
    <2>1. /\ wire' = wire /\ place' = place /\ with' = with
          /\ \A d \in Clients : headerprops'[d] = headerprops[d] /\ cookies'[d] = cookies[d]
        BY <1>1, <1>2, <1>5 DEF WaitForCall, Received, IInv, TypeInv, Protocols
    <2> QED  BY <1>1, <2>1 DEF Answers, AllGotten, Gotten, hasHttpProperty
<1>6. ASSUME NEW c \in Clients, WaitForResponse(c)
      PROVE  Answers' /\ AllGotten'
    <2>1. /\ place[c] = "answered" /\ place'[c] = "idle" /\ with' = with
          /\ \A d \in Clients \ {c} :
               /\ wire'[d] = wire[d] /\ place'[d] = place[d]
               /\ headerprops'[d] = headerprops[d] /\ cookies'[d] = cookies[d]
          /\ headerprops'[c] = HeaderProps(wire[c]) /\ cookies'[c] = CookiesIn(c, wire[c])
        BY <1>1, <1>6 DEF WaitForResponse, Received, IInv, TypeInv, Protocols
    <2>2. Answers'  BY <1>1, <2>1 DEF Answers
    <2>3. ASSUME c \in AcceptCookies PROVE Gotten(c)'
        <3>1. CASE wire[c] = sendResponseHeader(<<>>, ReplyText(Found(with[c].cookie)))
            <4>1. with[c].cookie \in ClientCookies  BY <1>1 DEF IInv, TypeInv
            <4>2. cookies'[c] = Returned(Found(with[c].cookie))
                BY <2>1, <2>3, <3>1, <4>1, ResponseRead
            <4> QED  BY <2>1, <4>2 DEF Gotten
        <3>2. CASE \E text : wire[c] = sendResponseHeader(<<Refusal>>, text)
            <4>1. "www-authenticate" \in DOMAIN headerprops'[c]  BY <2>1, <3>2, RefusalFound
            <4> QED  BY <4>1 DEF Gotten, hasHttpProperty
        <3> QED  BY <1>1, <2>1, <3>1, <3>2 DEF Answers
    <2>4. AllGotten'
        <3>1. ASSUME NEW d \in Clients \cap AcceptCookies, d # c PROVE Gotten(d)'
            BY <1>1, <2>1, <3>1 DEF AllGotten, Gotten, hasHttpProperty
        <3> QED  BY <2>3, <3>1 DEF AllGotten
    <2> QED  BY <2>2, <2>4
<1>7. ASSUME SendResponse \/ RejectAuthentication
      PROVE  Answers' /\ AllGotten'
    <2>1. serving \in Clients  BY <1>1, <1>7 DEF SendResponse, RejectAuthentication, IInv, TypeInv
    <2>2. /\ with' = with /\ headerprops' = headerprops /\ cookies' = cookies
          /\ \A d \in Clients \ {serving} : wire'[d] = wire[d] /\ place'[d] = place[d]
        BY <1>1, <1>7, <2>1 DEF SendResponse, RejectAuthentication, IInv, TypeInv
    <2>3. AllGotten'  BY <1>1, <2>2 DEF AllGotten, Gotten, hasHttpProperty
    <2>4. \/ wire'[serving] = sendResponseHeader(<<>>, ReplyText(Found(with[serving].cookie)))
          \/ \E text : wire'[serving] = sendResponseHeader(<<Refusal>>, text)
        <3>1. CASE SendResponse
            <4>1. cookies[Server] = Found(with[serving].cookie)
                <5>1. CookiesOwn  BY <1>1, CookiesOwnInv
                <5> QED  BY <1>2, <2>1, <5>1 DEF CookiesOwn, Found, Said
            <4>2. serverCookie' = ReplyText(cookies[Server])
                BY <3>1 DEF SendResponse, ReplyText, NewText, OldText
            <4>3. wire'[serving] = sendResponseHeader(<<>>, serverCookie')
                BY <1>1, <2>1, <3>1 DEF SendResponse, IInv, TypeInv
            <4> QED  BY <4>1, <4>2, <4>3
        <3>2. CASE RejectAuthentication
            BY <1>1, <2>1, <3>2 DEF RejectAuthentication, Refusal, IInv, TypeInv
        <3> QED  BY <1>7, <3>1, <3>2
    <2>5. Answers'  BY <1>1, <2>2, <2>4 DEF Answers
    <2> QED  BY <2>3, <2>5
<1>8. CASE UNCHANGED vars
    BY <1>1, <1>8 DEF vars, Answers, AllGotten, Gotten, hasHttpProperty
<1> QED  BY <1>3, <1>4, <1>5, <1>6, <1>7, <1>8 DEF Next

-----------------------------------------------------------------------------
(***************************************************************************)
(* What setCookie reads.  A part of a text runs from a semicolon or the    *)
(* beginning, at i, to one or the end, at j; its first "=" is at e.        *)
(***************************************************************************)
Semicolon == ";"
Sign == "="
Blank == "ws"
Atoms == STRING \cup {Semicolon, Sign, Blank, "new", "mine", "received", "true"}
Written == Seq(Atoms)

Ends(t) == Positions(t, Semicolon) \cup {0, Len(t) + 1}
Following(t, i) == First({j \in Ends(t) : j > i})
Equals(t, i) == {j \in Positions(t, Sign) : i < j /\ j < Following(t, i)}
Pairs(t) == {i \in Ends(t) : i <= Len(t) /\ Equals(t, i) # {}}
KeyOf(t, i) == stripWS(SubSeq(t, i + 1, First(Equals(t, i)) - 1))
ValueOf(t, i) == stripWS(SubSeq(t, First(Equals(t, i)) + 1, Following(t, i) - 1))
Latest(T) == CHOOSE i \in T : \A j \in T : i >= j

Part(t, i, e, j) ==
  /\ i \in 0 .. Len(t) /\ j \in 1 .. Len(t) + 1 /\ e \in i + 1 .. j - 1
  /\ i = 0 \/ t[i] = Semicolon
  /\ j = Len(t) + 1 \/ t[j] = Semicolon
  /\ \A x \in i + 1 .. j - 1 : t[x] # Semicolon
  /\ t[e] = Sign /\ \A x \in i + 1 .. e - 1 : t[x] # Sign

LEMMA Separators ==
    /\ Semicolon # Sign /\ Semicolon # Blank /\ Sign # Blank
BY DEF Semicolon, Sign, Blank

LEMMA FirstOf ==
    ASSUME NEW S, S \subseteq Nat, NEW i \in S, \A j \in S : i <= j
    PROVE  First(S) = i
<1>1. \A x \in S : (\A j \in S : x <= j) => x = i  OBVIOUS
<1> QED  BY <1>1 DEF First

LEMMA FirstIn ==
    ASSUME NEW S, S \subseteq Nat, S # {}
    PROVE  First(S) \in S /\ \A j \in S : First(S) <= j
<1>1. PICK n \in S : \A m \in S : n <= m  BY NatMinimum
<1>2. First(S) = n  BY <1>1, FirstOf
<1> QED  BY <1>1, <1>2

LEMMA LatestOf ==
    ASSUME NEW T, T \subseteq Nat, NEW i \in T, \A j \in T : i >= j
    PROVE  Latest(T) = i
<1>1. \A x \in T : (\A j \in T : x >= j) => x = i  OBVIOUS
<1> QED  BY <1>1 DEF Latest

LEMMA LatestIn ==
    ASSUME NEW n \in Nat, NEW T \in SUBSET (0 .. n), T # {}
    PROVE  Latest(T) \in T /\ \A j \in T : Latest(T) >= j
<1>1. PICK R : R = {n - i : i \in T}  OBVIOUS
<1>2. R \subseteq Nat /\ R # {}
    <2>1. \A i \in T : n - i \in Nat  OBVIOUS
    <2>2. PICK i \in T : TRUE  OBVIOUS
    <2>3. n - i \in R  BY <1>1
    <2> QED  BY <1>1, <2>1, <2>3
<1>3. PICK m \in R : \A k \in R : m <= k  BY <1>2, NatMinimum
<1>4. PICK i \in T : m = n - i  BY <1>1, <1>3
<1>5. ASSUME NEW j \in T PROVE i >= j
    <2>1. n - j \in R  BY <1>1
    <2>2. n - i <= n - j  BY <1>3, <1>4, <2>1
    <2>3. i \in Nat /\ j \in Nat  BY <1>4, <1>5
    <2> QED  BY <2>2, <2>3
<1>6. T \subseteq Nat  OBVIOUS
<1>7. Latest(T) = i  BY <1>5, <1>6, LatestOf
<1> QED  BY <1>5, <1>7

LEMMA SetCookieIs ==
    ASSUME NEW t
    PROVE  setCookie(NoFields, t)
             = [k \in {KeyOf(t, i) : i \in Pairs(t)} |->
                  ValueOf(t, Latest({i \in Pairs(t) : KeyOf(t, i) = k}))]
<1> DEFINE D == {KeyOf(t, i) : i \in Pairs(t)}
           is(k) == {i \in Pairs(t) : KeyOf(t, i) = k}
<1>1. setCookie(NoFields, t)
        = [k \in DOMAIN NoFields \cup D |->
             IF is(k) = {} THEN NoFields[k] ELSE ValueOf(t, Latest(is(k)))]
    BY Zenon DEF setCookie, Pairs, KeyOf, ValueOf, Equals, Following, Ends, Latest,
                  Semicolon, Sign
<1>2. DOMAIN NoFields = {}  BY DEF NoFields
<1>3. \A k \in D : is(k) # {}  OBVIOUS
<1> HIDE DEF D, is
<1>4. DOMAIN NoFields \cup D = D  BY <1>2
<1>5. setCookie(NoFields, t) = [k \in D |-> ValueOf(t, Latest(is(k)))]
    BY <1>1, <1>3, <1>4
<1> QED  BY <1>5 DEF D, is

LEMMA EndsOf ==
    ASSUME NEW t \in Written
    PROVE  /\ Len(t) \in Nat
           /\ Ends(t) \subseteq 0 .. Len(t) + 1
           /\ \A j \in 0 .. Len(t) + 1 :
                j \in Ends(t) <=> j = 0 \/ j = Len(t) + 1 \/ (j \in 1 .. Len(t) /\ t[j] = Semicolon)
           /\ \A j : j \in Positions(t, Sign) <=> j \in 1 .. Len(t) /\ t[j] = Sign
<1>1. Len(t) \in Nat /\ DOMAIN t = 1 .. Len(t)  BY LenProperties DEF Written
<1> QED  BY <1>1 DEF Ends, Positions

LEMMA PartIs ==
    ASSUME NEW t \in Written, NEW i, NEW e, NEW j, Part(t, i, e, j)
    PROVE  /\ i \in Pairs(t)
           /\ KeyOf(t, i) = stripWS(SubSeq(t, i + 1, e - 1))
           /\ ValueOf(t, i) = stripWS(SubSeq(t, e + 1, j - 1))
<1>1. PICK n \in Nat : n = Len(t)  BY EndsOf
<1>2. /\ i \in 0 .. n /\ j \in 1 .. n + 1 /\ e \in i + 1 .. j - 1
      /\ i = 0 \/ t[i] = Semicolon
      /\ j = n + 1 \/ t[j] = Semicolon
      /\ \A x \in i + 1 .. j - 1 : t[x] # Semicolon
      /\ t[e] = Sign /\ \A x \in i + 1 .. e - 1 : t[x] # Sign
    BY <1>1 DEF Part
<1>3. i \in Ends(t) /\ j \in Ends(t) /\ j > i  BY <1>1, <1>2, EndsOf
<1>4. Following(t, i) = j
    <2> DEFINE F == {x \in Ends(t) : x > i}
    <2>1. F \subseteq Nat /\ j \in F  BY <1>1, <1>3, EndsOf
    <2>2. ASSUME NEW x \in F PROVE j <= x
        <3>1. x \in Ends(t) /\ x > i /\ x \in 0 .. n + 1  BY <1>1, EndsOf
        <3>2. x = n + 1 \/ t[x] = Semicolon  BY <1>1, <1>2, <3>1, EndsOf
        <3>3. x \notin i + 1 .. j - 1  BY <1>2, <3>2
        <3> QED  BY <1>2, <3>1, <3>3
    <2> HIDE DEF F
    <2>3. First(F) = j  BY <2>1, <2>2, FirstOf
    <2> QED  BY <2>3 DEF Following, F
<1>5. e \in Equals(t, i) /\ First(Equals(t, i)) = e
    <2>1. \A x : x \in Equals(t, i) <=> x \in 1 .. n /\ t[x] = Sign /\ i < x /\ x < j
        BY <1>1, <1>4, EndsOf DEF Equals
    <2>2. e \in Equals(t, i)  BY <1>2, <2>1
    <2>3. Equals(t, i) \subseteq Nat  BY <2>1
    <2>4. ASSUME NEW x \in Equals(t, i) PROVE e <= x
        <3>1. x \in 1 .. n /\ t[x] = Sign /\ i < x  BY <2>1
        <3>2. x \notin i + 1 .. e - 1  BY <1>2, <3>1
        <3> QED  BY <1>2, <3>1, <3>2
    <2> QED  BY <2>2, <2>3, <2>4, FirstOf
<1>6. i \in Pairs(t)  BY <1>1, <1>2, <1>3, <1>5 DEF Pairs
<1> QED  BY <1>4, <1>5, <1>6 DEF KeyOf, ValueOf

LEMMA PairIsPart ==
    ASSUME NEW t \in Written, NEW i \in Pairs(t)
    PROVE  \E e, j : Part(t, i, e, j)
<1>1. PICK n \in Nat : n = Len(t)  BY EndsOf
<1>2. i \in Ends(t) /\ i <= n /\ Equals(t, i) # {} /\ i \in 0 .. n + 1
    BY <1>1, EndsOf DEF Pairs
<1> DEFINE F == {x \in Ends(t) : x > i}
<1>3. PICK j : j = Following(t, i)  OBVIOUS
<1>4. j \in F /\ \A x \in F : j <= x
    <2>1. n + 1 \in Ends(t) /\ n + 1 > i  BY <1>1, <1>2, EndsOf
    <2>2. F \subseteq Nat /\ F # {}  BY <1>1, <2>1, EndsOf
    <2>3. j = First(F)  BY <1>3 DEF Following
    <2> HIDE DEF F
    <2> QED  BY <2>2, <2>3, FirstIn
<1>5. j \in 1 .. n + 1 /\ j > i /\ (j = n + 1 \/ t[j] = Semicolon)
    <2>1. j \in Ends(t) /\ j > i  BY <1>4
    <2>2. j \in 0 .. n + 1  BY <1>1, <2>1, EndsOf
    <2> QED  BY <1>1, <1>2, <2>1, <2>2, EndsOf
<1>6. ASSUME NEW x \in i + 1 .. j - 1 PROVE t[x] # Semicolon
    <2>1. x \in 1 .. n /\ x > i /\ x < j  BY <1>2, <1>5
    <2>2. x \notin F  BY <1>4, <1>5, <2>1
    <2>3. x \notin Ends(t)  BY <2>1, <2>2
    <2> QED  BY <1>1, <2>1, <2>3, EndsOf
<1> HIDE DEF F
<1>7. \A x : x \in Equals(t, i) <=> x \in 1 .. n /\ t[x] = Sign /\ i < x /\ x < j
    BY <1>1, <1>3, EndsOf DEF Equals
<1>8. PICK e : e = First(Equals(t, i))  OBVIOUS
<1>9. e \in Equals(t, i) /\ \A x \in Equals(t, i) : e <= x
    <2>1. Equals(t, i) \subseteq Nat  BY <1>7
    <2> QED  BY <1>2, <1>8, <2>1, FirstIn
<1>10. e \in i + 1 .. j - 1 /\ t[e] = Sign  BY <1>2, <1>5, <1>7, <1>9
<1>11. ASSUME NEW x \in i + 1 .. e - 1 PROVE t[x] # Sign
    <2>1. x \in 1 .. n /\ i < x /\ x < j /\ x < e  BY <1>2, <1>5, <1>10
    <2> QED  BY <1>7, <1>9, <2>1
<1>12. i = 0 \/ t[i] = Semicolon
    <2>1. i # n + 1  BY <1>2
    <2> QED  BY <1>1, <1>2, <2>1, EndsOf
<1>13. i \in 0 .. n  BY <1>2
<1>14. Part(t, i, e, j)  BY <1>1, <1>5, <1>6, <1>10, <1>11, <1>12, <1>13 DEF Part
<1> QED  BY <1>14

LEMMA Piece ==
    ASSUME NEW t \in Written, NEW m \in Nat, NEW n \in Nat, 1 <= m, m <= n + 1, n <= Len(t)
    PROVE  /\ SubSeq(t, m, n) \in Written /\ Len(SubSeq(t, m, n)) = n + 1 - m
           /\ \A i \in 1 .. n + 1 - m : SubSeq(t, m, n)[i] = t[m - 1 + i]
<1>1. \A i \in 1 .. Len(t) : t[i] \in Atoms  BY LenProperties DEF Written
<1>2. Len(t) \in Nat  BY EndsOf
<1>3. \A i \in m .. n : t[i] \in Atoms  BY <1>1, <1>2
<1>4. PICK s : s = SubSeq(t, m, n)  OBVIOUS
<1>5. m \in Int /\ n \in Int  OBVIOUS
<1>6. s \in Seq(Atoms) /\ Len(s) = (IF m <= n THEN n - m + 1 ELSE 0)
      /\ \A i \in 1 .. n - m + 1 : s[i] = t[m + i - 1]
    BY <1>3, <1>4, <1>5, SubSeqProperties
<1>7. Len(s) = n + 1 - m  BY <1>6
<1>8. \A i \in 1 .. n + 1 - m : s[i] = t[m - 1 + i]
    <2> SUFFICES ASSUME NEW i \in 1 .. n + 1 - m PROVE s[i] = t[m - 1 + i]  OBVIOUS
    <2>1. i \in 1 .. n - m + 1 /\ m + i - 1 = m - 1 + i  OBVIOUS
    <2> QED  BY <1>6, <2>1
<1> QED  BY <1>4, <1>6, <1>7, <1>8 DEF Written

LEMMA SameText ==
    ASSUME NEW s \in Written, NEW t \in Written, Len(s) = Len(t),
           \A i \in 1 .. Len(s) : s[i] = t[i]
    PROVE  s = t
BY SeqEqual DEF Written

Solid(t) == {i \in DOMAIN t : t[i] # Blank}

LEMMA StripSolid ==
    ASSUME NEW t
    PROVE  stripWS(t) = IF Solid(t) = {} THEN <<>> ELSE SubSeq(t, First(Solid(t)), Latest(Solid(t)))
BY Zenon DEF stripWS, Solid, Latest, Blank

LEMMA SolidOf ==
    ASSUME NEW t \in Written
    PROVE  /\ Len(t) \in Nat
           /\ \A i : i \in Solid(t) <=> i \in 1 .. Len(t) /\ t[i] # Blank
<1>1. Len(t) \in Nat /\ DOMAIN t = 1 .. Len(t)  BY LenProperties DEF Written
<1> QED  BY <1>1 DEF Solid

LEMMA Empty == <<>> \in Written /\ Len(<<>>) = 0 /\ \A s \in Written : s = <<>> <=> Len(s) = 0
<1>1. <<>> \in Seq(Atoms) /\ Len(<<>>) = 0  OBVIOUS
<1>2. \A s \in Seq(Atoms) : s = <<>> <=> Len(s) = 0  BY EmptySeq
<1> QED  BY <1>1, <1>2 DEF Written

(* A text without blanks around it. *)
Word(w) == w \in Written /\ (w # <<>> => w[1] # Blank /\ w[Len(w)] # Blank)

LEMMA StripIs ==
    ASSUME NEW t \in Written, NEW w, Word(w), NEW p \in Nat, Len(t) = p + Len(w),
           \A i \in 1 .. p : t[i] = Blank,
           \A i \in 1 .. Len(w) : t[p + i] = w[i]
    PROVE  stripWS(t) = w
<1>1. PICK n \in Nat : n = Len(w)  BY EndsOf DEF Word
<1>2. w \in Written /\ (w = <<>> <=> n = 0)  BY <1>1, Empty DEF Word
<1>3. \A i : i \in Solid(t) <=> i \in 1 .. p + n /\ t[i] # Blank  BY <1>1, SolidOf
<1>4. \A i \in Solid(t) : i >= p + 1  BY <1>3
<1>5. CASE n = 0
    <2>1. Solid(t) = {}  BY <1>3, <1>4, <1>5
    <2> QED  BY <1>2, <1>5, <2>1, StripSolid
<1>6. CASE n # 0
    <2>1. w[1] # Blank /\ w[n] # Blank  BY <1>1, <1>2, <1>6 DEF Word
    <2>2. 1 \in 1 .. n /\ n \in 1 .. n  BY <1>6
    <2>3. t[p + 1] = w[1] /\ t[p + n] = w[n]  BY <1>1, <2>2
    <2>4. p + 1 \in Solid(t) /\ p + n \in Solid(t)  BY <1>3, <1>6, <2>1, <2>3
    <2>5. Solid(t) \subseteq Nat /\ \A i \in Solid(t) : p + n >= i  BY <1>3
    <2>6. First(Solid(t)) = p + 1  BY <1>4, <2>4, <2>5, FirstOf
    <2>7. Latest(Solid(t)) = p + n  BY <2>4, <2>5, LatestOf
    <2>8. PICK s : s = SubSeq(t, p + 1, p + n)  OBVIOUS
    <2>9. stripWS(t) = s  BY <2>4, <2>6, <2>7, <2>8, StripSolid
    <2>10. PICK a, b \in Nat : a = p + 1 /\ b = p + n  OBVIOUS
    <2>11. 1 <= a /\ a <= b + 1 /\ b <= Len(t)  BY <1>1, <2>10
    <2>12. s \in Written /\ Len(s) = b + 1 - a /\ \A i \in 1 .. b + 1 - a : s[i] = t[a - 1 + i]
        BY <2>8, <2>10, <2>11, Piece
    <2>13. b + 1 - a = n /\ a - 1 = p  BY <2>10
    <2>14. \A i \in 1 .. n : s[i] = w[i]  BY <1>1, <2>12, <2>13
    <2>15. s = w  BY <1>1, <1>2, <2>12, <2>13, <2>14, SameText
    <2> QED  BY <2>9, <2>15
<1> QED  BY <1>5, <1>6

LEMMA StripWord ==
    ASSUME NEW t \in Written
    PROVE  /\ Word(stripWS(t))
           /\ \A i \in 1 .. Len(stripWS(t)) : \E j \in 1 .. Len(t) : stripWS(t)[i] = t[j]
<1>1. PICK n \in Nat : n = Len(t)  BY SolidOf
<1>2. \A i : i \in Solid(t) <=> i \in 1 .. n /\ t[i] # Blank  BY <1>1, SolidOf
<1>3. CASE Solid(t) = {}
    <2>1. stripWS(t) = <<>>  BY <1>3, StripSolid
    <2> QED  BY <2>1, Empty DEF Word
<1>4. CASE Solid(t) # {}
    <2>1. Solid(t) \subseteq Nat /\ Solid(t) \in SUBSET (0 .. n)  BY <1>2
    <2>2. PICK a : a = First(Solid(t))  OBVIOUS
    <2>3. a \in Solid(t) /\ \A j \in Solid(t) : a <= j  BY <1>4, <2>1, <2>2, FirstIn
    <2>4. PICK b : b = Latest(Solid(t))  OBVIOUS
    <2>5. b \in Solid(t) /\ \A j \in Solid(t) : b >= j  BY <1>4, <2>1, <2>4, LatestIn
    <2>6. a \in 1 .. n /\ b \in 1 .. n /\ a <= b /\ t[a] # Blank /\ t[b] # Blank
        BY <1>2, <2>3, <2>5
    <2>7. PICK s : s = stripWS(t)  OBVIOUS
    <2>8. s = SubSeq(t, a, b)  BY <1>4, <2>2, <2>4, <2>7, StripSolid
    <2>9. 1 <= a /\ a <= b + 1 /\ b <= Len(t) /\ a \in Nat /\ b \in Nat  BY <1>1, <2>6
    <2>10. s \in Written /\ Len(s) = b + 1 - a /\ \A i \in 1 .. b + 1 - a : s[i] = t[a - 1 + i]
        BY <2>8, <2>9, Piece
    <2>11. s[1] = t[a] /\ s[Len(s)] = t[b]
        <3>1. 1 \in 1 .. b + 1 - a /\ b + 1 - a \in 1 .. b + 1 - a
              /\ a - 1 + 1 = a /\ a - 1 + (b + 1 - a) = b
            BY <2>6
        <3> QED  BY <2>10, <3>1
    <2>12. Word(s)  BY <2>6, <2>10, <2>11 DEF Word
    <2>13. \A i \in 1 .. Len(s) : a - 1 + i \in 1 .. n /\ s[i] = t[a - 1 + i]  BY <2>6, <2>10
    <2> QED  BY <1>1, <2>7, <2>12, <2>13
<1> QED  BY <1>3, <1>4

(* What the name and the value of a cookie may be made of. *)
Name(k) == Word(k) /\ \A i \in 1 .. Len(k) : k[i] # Semicolon /\ k[i] # Sign
Content(v) == Word(v) /\ \A i \in 1 .. Len(v) : v[i] # Semicolon

LEMMA PartWords ==
    ASSUME NEW t \in Written, NEW i, NEW e, NEW j, Part(t, i, e, j)
    PROVE  Name(KeyOf(t, i)) /\ Content(ValueOf(t, i))
<1>1. PICK n \in Nat : n = Len(t)  BY EndsOf
<1>2. /\ i \in 0 .. n /\ j \in 1 .. n + 1 /\ e \in i + 1 .. j - 1
      /\ \A x \in i + 1 .. j - 1 : t[x] # Semicolon
      /\ t[e] = Sign /\ \A x \in i + 1 .. e - 1 : t[x] # Sign
    BY <1>1 DEF Part
<1>3. PICK a : a = SubSeq(t, i + 1, e - 1)  OBVIOUS
<1>4. a \in Written /\ Len(a) = e - 1 - i /\ \A x \in 1 .. e - 1 - i : a[x] = t[i + x]
    <2>1. PICK m, l \in Nat : m = i + 1 /\ l = e - 1  BY <1>2
    <2>2. 1 <= m /\ m <= l + 1 /\ l <= Len(t)  BY <1>1, <1>2, <2>1
    <2>3. a \in Written /\ Len(a) = l + 1 - m /\ \A x \in 1 .. l + 1 - m : a[x] = t[m - 1 + x]
        BY <1>3, <2>1, <2>2, Piece
    <2>4. l + 1 - m = e - 1 - i /\ m - 1 = i  BY <1>2, <2>1
    <2> QED  BY <2>3, <2>4
<1>5. PICK b : b = SubSeq(t, e + 1, j - 1)  OBVIOUS
<1>6. b \in Written /\ Len(b) = j - 1 - e /\ \A x \in 1 .. j - 1 - e : b[x] = t[e + x]
    <2>1. PICK m, l \in Nat : m = e + 1 /\ l = j - 1  BY <1>2
    <2>2. 1 <= m /\ m <= l + 1 /\ l <= Len(t)  BY <1>1, <1>2, <2>1
    <2>3. b \in Written /\ Len(b) = l + 1 - m /\ \A x \in 1 .. l + 1 - m : b[x] = t[m - 1 + x]
        BY <1>5, <2>1, <2>2, Piece
    <2>4. l + 1 - m = j - 1 - e /\ m - 1 = e  BY <1>2, <2>1
    <2> QED  BY <2>3, <2>4
<1>7. \A x \in 1 .. Len(a) : a[x] # Semicolon /\ a[x] # Sign
    <2> SUFFICES ASSUME NEW x \in 1 .. Len(a) PROVE a[x] # Semicolon /\ a[x] # Sign  OBVIOUS
    <2>1. i + x \in i + 1 .. e - 1 /\ i + x \in i + 1 .. j - 1  BY <1>2, <1>4
    <2> QED  BY <1>2, <1>4, <2>1
<1>8. \A x \in 1 .. Len(b) : b[x] # Semicolon
    <2> SUFFICES ASSUME NEW x \in 1 .. Len(b) PROVE b[x] # Semicolon  OBVIOUS
    <2>1. e + x \in i + 1 .. j - 1  BY <1>2, <1>6
    <2> QED  BY <1>2, <1>6, <2>1
<1>9. Name(stripWS(a))  BY <1>4, <1>7, StripWord DEF Name
<1>10. Content(stripWS(b))  BY <1>6, <1>8, StripWord DEF Content
<1> QED  BY <1>3, <1>5, <1>9, <1>10, PartIs

(* Finitely many cookies, each with a name and a value. *)
Cookies(m) ==
  /\ IsFiniteSet(DOMAIN m)
  /\ m = [k \in DOMAIN m |-> m[k]]
  /\ \A k \in DOMAIN m : Name(k) /\ Content(m[k])

LEMMA CookiesRead ==
    ASSUME NEW t \in Written
    PROVE  Cookies(setCookie(NoFields, t))
<1>1. PICK n \in Nat : n = Len(t)  BY EndsOf
<1>2. Pairs(t) \subseteq 0 .. n  BY <1>1, EndsOf DEF Pairs
<1>3. PICK D : D = {KeyOf(t, i) : i \in Pairs(t)}  OBVIOUS
<1>4. PICK m : m = setCookie(NoFields, t)  OBVIOUS
<1>5. m = [k \in D |-> ValueOf(t, Latest({i \in Pairs(t) : KeyOf(t, i) = k}))]
    BY <1>3, <1>4, SetCookieIs
<1>6. IsFiniteSet(D)
    <2>1. PICK P : P = Pairs(t)  OBVIOUS
    <2>2. IsFiniteSet(P)
        <3>1. PICK a, b \in Int : a = 0 /\ b = n  OBVIOUS
        <3>2. IsFiniteSet(a .. b)  BY FS_Interval
        <3> QED  BY <1>2, <2>1, <3>1, <3>2, FS_Subset
    <2>3. PICK f : f = [i \in P |-> KeyOf(t, i)]  OBVIOUS
    <2>4. f \in Surjection(P, D)
        <3>1. f \in [P -> D]  BY <1>3, <2>1, <2>3
        <3>2. \A k \in D : \E i \in P : f[i] = k  BY <1>3, <2>1, <2>3
        <3> QED  BY <3>1, <3>2, Fun_IsSurj
    <2> QED  BY <2>2, <2>4, FS_Surjection
<1>7. ASSUME NEW i \in Pairs(t) PROVE Name(KeyOf(t, i)) /\ Content(ValueOf(t, i))
    BY PairIsPart, PartWords
<1>8. ASSUME NEW k \in D PROVE Name(k) /\ Content(m[k])
    <2>1. PICK T : T = {i \in Pairs(t) : KeyOf(t, i) = k}  OBVIOUS
    <2>2. T # {} /\ T \in SUBSET (0 .. n)  BY <1>2, <1>3, <2>1
    <2>3. PICK i : i = Latest(T)  OBVIOUS
    <2>4. i \in T  BY <2>2, <2>3, LatestIn
    <2>5. i \in Pairs(t) /\ KeyOf(t, i) = k  BY <2>1, <2>4
    <2>6. m[k] = ValueOf(t, i)  BY <1>5, <2>1, <2>3
    <2> QED  BY <1>7, <2>5, <2>6
<1> QED  BY <1>4, <1>5, <1>6, <1>8 DEF Cookies

-----------------------------------------------------------------------------
(***************************************************************************)
(* setCookie reads back what getCookie writes: the text u is T with one    *)
(* more cookie, whose name begins behind place b.                          *)
(***************************************************************************)
Appended(u, T, k, v, b) ==
  /\ Len(u) = b + Len(k) + 1 + Len(v)
  /\ IF T = <<>> THEN b = 0
     ELSE b = Len(T) + 2 /\ u[Len(T) + 1] = Semicolon /\ u[Len(T) + 2] = Blank
  /\ \A i \in 1 .. Len(T) : u[i] = T[i]
  /\ \A i \in 1 .. Len(k) : u[b + i] = k[i]
  /\ u[b + Len(k) + 1] = Sign
  /\ \A i \in 1 .. Len(v) : u[b + Len(k) + 1 + i] = v[i]

LEMMA LastPart ==
    ASSUME NEW T \in Written, NEW u \in Written, NEW k, Name(k), NEW v, Content(v),
           NEW b \in Nat, Appended(u, T, k, v, b)
    PROVE  \E i \in Nat : /\ i \in Pairs(u) /\ KeyOf(u, i) = k /\ ValueOf(u, i) = v
                          /\ i = IF T = <<>> THEN 0 ELSE Len(T) + 1
<1>1. PICK a, m, n \in Nat : a = Len(T) /\ m = Len(k) /\ n = Len(v)
    BY EndsOf DEF Name, Content, Word
<1>2. k \in Written /\ v \in Written /\ Word(k) /\ Word(v)
      /\ (\A i \in 1 .. m : k[i] # Semicolon /\ k[i] # Sign) /\ (\A i \in 1 .. n : v[i] # Semicolon)
    BY <1>1 DEF Name, Content, Word
<1>3. /\ Len(u) = b + m + 1 + n
      /\ \A i \in 1 .. m : u[b + i] = k[i]
      /\ u[b + m + 1] = Sign
      /\ \A i \in 1 .. n : u[b + m + 1 + i] = v[i]
      /\ T = <<>> <=> a = 0
    BY <1>1, Empty DEF Appended
<1>4. PICK i \in Nat : i = IF T = <<>> THEN 0 ELSE a + 1  OBVIOUS
<1>5. PICK p \in Nat : p = IF T = <<>> THEN 0 ELSE 1  OBVIOUS
<1>6. b = i + p /\ (\A x \in 1 .. p : u[i + x] = Blank) /\ (i = 0 \/ u[i] = Semicolon)
    <2>1. CASE T = <<>>  BY <1>4, <1>5, <2>1 DEF Appended
    <2>2. CASE T # <<>>
        <3>1. b = a + 2 /\ u[a + 1] = Semicolon /\ u[a + 2] = Blank
            BY <1>1, <2>2 DEF Appended
        <3>2. i = a + 1 /\ p = 1  BY <1>4, <1>5, <2>2
        <3>3. \A x \in 1 .. p : i + x = a + 2  BY <3>2
        <3> QED  BY <3>1, <3>2, <3>3
    <2> QED  BY <2>1, <2>2
<1>7. PICK e, j \in Nat : e = b + m + 1 /\ j = b + m + n + 2  OBVIOUS
<1>8. \A x \in i + 1 .. e - 1 : u[x] # Semicolon /\ u[x] # Sign
    <2> SUFFICES ASSUME NEW x \in i + 1 .. e - 1 PROVE u[x] # Semicolon /\ u[x] # Sign  OBVIOUS
    <2>1. CASE x <= b
        <3>1. x - i \in 1 .. p /\ i + (x - i) = x  BY <1>6, <2>1
        <3>2. u[x] = Blank  BY <1>6, <3>1
        <3> QED  BY <3>2, Separators
    <2>2. CASE x > b
        <3>1. x - b \in 1 .. m /\ b + (x - b) = x  BY <1>6, <1>7, <2>2
        <3>2. u[x] = k[x - b]  BY <1>3, <3>1
        <3> QED  BY <1>2, <3>1, <3>2
    <2> QED  BY <1>6, <1>7, <2>1, <2>2
<1>9. \A x \in i + 1 .. j - 1 : u[x] # Semicolon
    <2> SUFFICES ASSUME NEW x \in i + 1 .. j - 1 PROVE u[x] # Semicolon  OBVIOUS
    <2>1. CASE x < e
        <3>1. x \in i + 1 .. e - 1  BY <1>7, <2>1
        <3> QED  BY <1>8, <3>1
    <2>2. CASE x = e  BY <1>3, <1>7, <2>2, Separators
    <2>3. CASE x > e
        <3>1. x - e \in 1 .. n /\ e + (x - e) = x  BY <1>7, <2>3
        <3>2. u[x] = v[x - e]  BY <1>3, <1>7, <3>1
        <3> QED  BY <1>2, <3>1, <3>2
    <2> QED  BY <1>7, <2>1, <2>2, <2>3
<1>10. Part(u, i, e, j)
    <2>1. i \in 0 .. Len(u) /\ j \in 1 .. Len(u) + 1 /\ e \in i + 1 .. j - 1 /\ j = Len(u) + 1
        BY <1>3, <1>6, <1>7
    <2>2. u[e] = Sign  BY <1>3, <1>7
    <2> QED  BY <1>6, <1>8, <1>9, <2>1, <2>2 DEF Part
<1>11. PICK s : s = SubSeq(u, i + 1, e - 1)  OBVIOUS
<1>12. s \in Written /\ Len(s) = p + m /\ \A x \in 1 .. p + m : s[x] = u[i + x]
    <2>1. PICK f, l \in Nat : f = i + 1 /\ l = e - 1  BY <1>7
    <2>2. 1 <= f /\ f <= l + 1 /\ l <= Len(u)  BY <1>3, <1>6, <1>7, <2>1
    <2>3. s \in Written /\ Len(s) = l + 1 - f /\ \A x \in 1 .. l + 1 - f : s[x] = u[f - 1 + x]
        BY <1>11, <2>1, <2>2, Piece
    <2>4. l + 1 - f = p + m /\ f - 1 = i  BY <1>6, <1>7, <2>1
    <2> QED  BY <2>3, <2>4
<1>13. stripWS(s) = k
    <2>1. \A x \in 1 .. p : s[x] = Blank
        <3>1. \A x \in 1 .. p : x \in 1 .. p + m  OBVIOUS
        <3> QED  BY <1>6, <1>12, <3>1
    <2>2. \A x \in 1 .. Len(k) : s[p + x] = k[x]
        <3> SUFFICES ASSUME NEW x \in 1 .. m PROVE s[p + x] = k[x]  BY <1>1
        <3>1. p + x \in 1 .. p + m /\ i + (p + x) = b + x  BY <1>6
        <3> QED  BY <1>3, <1>12, <3>1
    <2> QED  BY <1>1, <1>2, <1>12, <2>1, <2>2, StripIs
<1>14. PICK r : r = SubSeq(u, e + 1, j - 1)  OBVIOUS
<1>15. r \in Written /\ Len(r) = n /\ \A x \in 1 .. n : r[x] = u[e + x]
    <2>1. PICK f, l \in Nat : f = e + 1 /\ l = j - 1  BY <1>7
    <2>2. 1 <= f /\ f <= l + 1 /\ l <= Len(u)  BY <1>3, <1>7, <2>1
    <2>3. r \in Written /\ Len(r) = l + 1 - f /\ \A x \in 1 .. l + 1 - f : r[x] = u[f - 1 + x]
        BY <1>14, <2>1, <2>2, Piece
    <2>4. l + 1 - f = n /\ f - 1 = e  BY <1>7, <2>1
    <2> QED  BY <2>3, <2>4
<1>16. stripWS(r) = v
    <2>1. PICK o \in Nat : o = 0  OBVIOUS
    <2>2. \A x \in 1 .. o : r[x] = Blank  BY <2>1
    <2>3. \A x \in 1 .. Len(v) : r[o + x] = v[x]
        <3> SUFFICES ASSUME NEW x \in 1 .. n PROVE r[o + x] = v[x]  BY <1>1
        <3>1. o + x = x  BY <2>1
        <3> QED  BY <1>3, <1>7, <1>15, <3>1
    <2>4. Len(r) = o + Len(v)  BY <1>1, <1>15, <2>1
    <2> QED  BY <1>2, <1>15, <2>2, <2>3, <2>4, StripIs
<1>17. i \in Pairs(u) /\ KeyOf(u, i) = k /\ ValueOf(u, i) = v
    BY <1>10, <1>11, <1>13, <1>14, <1>16, PartIs
<1> QED  BY <1>1, <1>4, <1>17

(* The other parts are those of T. *)
LEMMA OtherParts ==
    ASSUME NEW T \in Written, NEW u \in Written, NEW k, Name(k), NEW v, Content(v),
           NEW b \in Nat, Appended(u, T, k, v, b), NEW i, NEW e, NEW j
    PROVE  /\ Part(T, i, e, j) => Part(u, i, e, j)
           /\ Part(u, i, e, j) /\ i # (IF T = <<>> THEN 0 ELSE Len(T) + 1) => Part(T, i, e, j)
<1>1. PICK a, m, n \in Nat : a = Len(T) /\ m = Len(k) /\ n = Len(v)
    BY EndsOf DEF Name, Content, Word
<1>2. (\A x \in 1 .. m : k[x] # Semicolon) /\ (\A x \in 1 .. n : v[x] # Semicolon)
    BY <1>1 DEF Name, Content
<1>3. /\ Len(u) = b + m + 1 + n
      /\ \A x \in 1 .. a : u[x] = T[x]
      /\ \A x \in 1 .. m : u[b + x] = k[x]
      /\ u[b + m + 1] = Sign
      /\ \A x \in 1 .. n : u[b + m + 1 + x] = v[x]
      /\ T = <<>> <=> a = 0
      /\ T = <<>> => b = 0
      /\ T # <<>> => b = a + 2 /\ u[a + 1] = Semicolon /\ u[a + 2] = Blank
    BY <1>1, Empty DEF Appended
<1>4. ASSUME NEW x \in b + 1 .. b + m + 1 + n PROVE u[x] # Semicolon
    <2>1. CASE x <= b + m
        <3>1. x - b \in 1 .. m /\ b + (x - b) = x  BY <2>1
        <3> QED  BY <1>2, <1>3, <3>1
    <2>2. CASE x = b + m + 1  BY <1>3, <2>2, Separators
    <2>3. CASE x > b + m + 1
        <3>1. PICK y \in 1 .. n : y = x - (b + m + 1)  BY <2>3
        <3>2. b + m + 1 + y = x  BY <3>1
        <3>3. u[b + m + 1 + y] = v[y]  BY <1>3
        <3> QED  BY <1>2, <3>2, <3>3
    <2> QED  BY <2>1, <2>2, <2>3
<1>5. ASSUME Part(T, i, e, j) PROVE Part(u, i, e, j)
    <2>1. /\ i \in 0 .. a /\ j \in 1 .. a + 1 /\ e \in i + 1 .. j - 1
          /\ i = 0 \/ T[i] = Semicolon
          /\ j = a + 1 \/ T[j] = Semicolon
          /\ \A x \in i + 1 .. j - 1 : T[x] # Semicolon
          /\ T[e] = Sign /\ \A x \in i + 1 .. e - 1 : T[x] # Sign
        BY <1>1, <1>5 DEF Part
    <2>2. T # <<>> /\ a >= 1  BY <1>3, <2>1
    <2>3. i = 0 \/ u[i] = Semicolon
        <3>1. i # 0 => i \in 1 .. a  BY <2>1
        <3> QED  BY <1>3, <2>1, <3>1
    <2>4. u[j] = Semicolon
        <3>1. j # a + 1 => j \in 1 .. a  BY <2>1
        <3> QED  BY <1>3, <2>1, <2>2, <3>1
    <2>5. \A x \in i + 1 .. j - 1 : x \in 1 .. a  BY <2>1
    <2>6. \A x \in i + 1 .. e - 1 : x \in i + 1 .. j - 1  BY <2>1
    <2>7. i \in 0 .. Len(u) /\ j \in 1 .. Len(u) + 1  BY <1>3, <2>1, <2>2
    <2> QED  BY <1>3, <2>1, <2>3, <2>4, <2>5, <2>6, <2>7 DEF Part
<1>6. ASSUME Part(u, i, e, j), i # IF T = <<>> THEN 0 ELSE a + 1
      PROVE  Part(T, i, e, j)
    <2>1. PICK l \in Nat : l = Len(u)  BY <1>3
    <2>2. /\ i \in 0 .. l /\ j \in 1 .. l + 1 /\ e \in i + 1 .. j - 1
          /\ i = 0 \/ u[i] = Semicolon
          /\ j = l + 1 \/ u[j] = Semicolon
          /\ \A x \in i + 1 .. j - 1 : u[x] # Semicolon
          /\ u[e] = Sign /\ \A x \in i + 1 .. e - 1 : u[x] # Sign
        BY <1>6, <2>1 DEF Part
    <2>3. ASSUME i > b PROVE FALSE
        <3>1. i \in b + 1 .. b + m + 1 + n /\ i # 0  BY <1>3, <2>1, <2>2, <2>3
        <3> QED  BY <1>4, <2>2, <3>1
    <2>4. T # <<>>  BY <1>3, <1>6, <2>2, <2>3
    <2>5. i # a + 2  BY <1>3, <2>2, <2>4, Separators
    <2>6. i \in 0 .. a  BY <1>3, <1>6, <2>2, <2>3, <2>4, <2>5
    <2>7. j \in 1 .. a + 1
        <3>1. a + 1 \notin i + 1 .. j - 1  BY <1>3, <2>2, <2>4
        <3> QED  BY <2>2, <2>6, <3>1
    <2>8. \A x \in i + 1 .. j - 1 : x \in 1 .. a  BY <2>6, <2>7
    <2>9. i = 0 \/ T[i] = Semicolon
        <3>1. i # 0 => i \in 1 .. a  BY <2>6
        <3> QED  BY <1>3, <2>2, <3>1
    <2>10. j = a + 1 \/ T[j] = Semicolon
        <3>1. j # a + 1 => j \in 1 .. a /\ j # l + 1  BY <1>3, <2>1, <2>4, <2>7
        <3> QED  BY <1>3, <2>2, <3>1
    <2>11. \A x \in i + 1 .. e - 1 : x \in i + 1 .. j - 1  BY <2>2
    <2> QED  BY <1>1, <1>3, <2>2, <2>6, <2>7, <2>8, <2>9, <2>10, <2>11 DEF Part
<1> QED  BY <1>1, <1>5, <1>6

Added(m, k, v) == [x \in DOMAIN m \cup {k} |-> IF x = k THEN v ELSE m[x]]

LEMMA CookieAdded ==
    ASSUME NEW T \in Written, NEW u \in Written, NEW k, Name(k), NEW v, Content(v),
           NEW b \in Nat, Appended(u, T, k, v, b)
    PROVE  setCookie(NoFields, u) = Added(setCookie(NoFields, T), k, v)
<1>1. PICK l \in Nat : /\ l \in Pairs(u) /\ KeyOf(u, l) = k /\ ValueOf(u, l) = v
                       /\ l = IF T = <<>> THEN 0 ELSE Len(T) + 1
    BY LastPart
<1>2. PICK a, n \in Nat : a = Len(T) /\ n = Len(u)  BY EndsOf
<1>3. ASSUME NEW i \in Pairs(T)
      PROVE  /\ i \in Pairs(u) /\ i < l
             /\ KeyOf(u, i) = KeyOf(T, i) /\ ValueOf(u, i) = ValueOf(T, i)
    <2>1. PICK e, j : Part(T, i, e, j)  BY PairIsPart
    <2>2. Part(u, i, e, j)  BY <2>1, OtherParts
    <2>3. /\ i \in 0 .. a /\ j \in 1 .. a + 1 /\ e \in i + 1 .. j - 1  BY <1>2, <2>1 DEF Part
    <2>4. i < l
        <3>1. a # 0  BY <2>3
        <3>2. T # <<>>  BY <1>2, <3>1, Empty
        <3> QED  BY <1>1, <1>2, <2>3, <3>2
    <2>5. SubSeq(u, i + 1, e - 1) = SubSeq(T, i + 1, e - 1)
          /\ SubSeq(u, e + 1, j - 1) = SubSeq(T, e + 1, j - 1)
        <3>1. a <= n /\ \A x \in 1 .. a : u[x] = T[x]
            <4>1. T # <<>> => b = a + 2  BY <1>2 DEF Appended
            <4>2. T = <<>> => a = 0  BY <1>2, Empty
            <4>3. n = b + Len(k) + 1 + Len(v)  BY <1>2 DEF Appended
            <4>4. Len(k) \in Nat /\ Len(v) \in Nat  BY EndsOf DEF Name, Content, Word
            <4>5. \A x \in 1 .. a : u[x] = T[x]  BY <1>2 DEF Appended
            <4> QED  BY <4>1, <4>2, <4>3, <4>4, <4>5
        <3>2. ASSUME NEW f \in Nat, NEW g \in Nat, 1 <= f, f <= g + 1, g <= a
              PROVE  SubSeq(u, f, g) = SubSeq(T, f, g)
            <4>1. PICK s, r : s = SubSeq(u, f, g) /\ r = SubSeq(T, f, g)  OBVIOUS
            <4>2. s \in Written /\ Len(s) = g + 1 - f /\ \A x \in 1 .. g + 1 - f : s[x] = u[f - 1 + x]
                BY <1>2, <3>1, <3>2, <4>1, Piece
            <4>3. r \in Written /\ Len(r) = g + 1 - f /\ \A x \in 1 .. g + 1 - f : r[x] = T[f - 1 + x]
                BY <1>2, <3>2, <4>1, Piece
            <4>4. \A x \in 1 .. g + 1 - f : f - 1 + x \in 1 .. a  BY <3>2
            <4>5. \A x \in 1 .. Len(s) : s[x] = r[x]  BY <3>1, <4>2, <4>3, <4>4
            <4> QED  BY <4>1, <4>2, <4>3, <4>5, SameText
        <3>3. i + 1 \in Nat /\ e - 1 \in Nat /\ 1 <= i + 1 /\ i + 1 <= e - 1 + 1 /\ e - 1 <= a
            BY <2>3
        <3>4. e + 1 \in Nat /\ j - 1 \in Nat /\ 1 <= e + 1 /\ e + 1 <= j - 1 + 1 /\ j - 1 <= a
            BY <2>3
        <3> QED  BY <3>2, <3>3, <3>4
    <2>6. /\ i \in Pairs(u)
          /\ KeyOf(u, i) = stripWS(SubSeq(u, i + 1, e - 1))
          /\ ValueOf(u, i) = stripWS(SubSeq(u, e + 1, j - 1))
        BY <2>2, PartIs
    <2>7. /\ KeyOf(T, i) = stripWS(SubSeq(T, i + 1, e - 1))
          /\ ValueOf(T, i) = stripWS(SubSeq(T, e + 1, j - 1))
        BY <2>1, PartIs
    <2> QED  BY <2>4, <2>5, <2>6, <2>7
<1>4. ASSUME NEW i \in Pairs(u), i # l PROVE i \in Pairs(T)
    <2>1. PICK e, j : Part(u, i, e, j)  BY PairIsPart
    <2>2. Part(T, i, e, j)  BY <1>1, <1>4, <2>1, OtherParts
    <2> QED  BY <2>2, PartIs
<1>5. l \notin Pairs(T)  BY <1>3
<1>6. PICK P, Q : P = Pairs(T) /\ Q = Pairs(u)  OBVIOUS
<1>7. Q = P \cup {l}  BY <1>1, <1>3, <1>4, <1>6
<1>8. P \subseteq Nat /\ \A i \in P : i < l
    <2>1. Pairs(T) \subseteq Nat  BY <1>2, EndsOf DEF Pairs
    <2> QED  BY <1>3, <1>6, <2>1
<1>9. PICK M, N : M = setCookie(NoFields, T) /\ N = setCookie(NoFields, u)  OBVIOUS
<1>10. PICK D : D = {KeyOf(T, i) : i \in Pairs(T)}  OBVIOUS
<1>11. M = [x \in D |-> ValueOf(T, Latest({i \in Pairs(T) : KeyOf(T, i) = x}))]
    BY <1>9, <1>10, SetCookieIs
<1>12. N = [x \in D \cup {k} |-> ValueOf(u, Latest({i \in Pairs(u) : KeyOf(u, i) = x}))]
    <2>1. {KeyOf(u, i) : i \in Pairs(u)} = D \cup {k}  BY <1>1, <1>3, <1>6, <1>7, <1>10
    <2>2. PICK E : E = D \cup {k}  OBVIOUS
    <2>3. E = {KeyOf(u, i) : i \in Pairs(u)}  BY <2>1, <2>2
    <2>4. N = [x \in E |-> ValueOf(u, Latest({i \in Pairs(u) : KeyOf(u, i) = x}))]
        BY <1>9, <2>3, SetCookieIs
    <2> QED  BY <2>2, <2>4
<1>13. ASSUME NEW x \in D \cup {k}
       PROVE  N[x] = IF x = k THEN v ELSE M[x]
    <2>1. PICK S : S = {i \in Pairs(u) : KeyOf(u, i) = x}  OBVIOUS
    <2>2. N[x] = ValueOf(u, Latest(S))  BY <1>12, <2>1
    <2>3. CASE x = k
        <3>1. l \in S /\ S \subseteq Nat /\ \A i \in S : l >= i
            <4>1. \A i \in Q : i \in Nat /\ l >= i  BY <1>7, <1>8
            <4>2. S \subseteq Q /\ l \in S  BY <1>1, <1>6, <2>1, <2>3
            <4> QED  BY <4>1, <4>2
        <3>2. Latest(S) = l  BY <3>1, LatestOf
        <3> QED  BY <1>1, <2>2, <2>3, <3>2
    <2>4. CASE x # k
        <3>1. x \in D  BY <2>4
        <3>2. S = {i \in Pairs(T) : KeyOf(T, i) = x}
            BY <1>1, <1>3, <1>6, <1>7, <2>1, <2>4
        <3>3. S # {} /\ S \subseteq P  BY <1>6, <1>10, <3>1, <3>2
        <3>4. S \in SUBSET (0 .. l)  BY <1>8, <3>3
        <3>5. Latest(S) \in S  BY <3>3, <3>4, LatestIn
        <3>6. Latest(S) \in Pairs(T)  BY <1>6, <3>3, <3>5
        <3>7. ValueOf(u, Latest(S)) = ValueOf(T, Latest(S))  BY <1>3, <3>6
        <3>8. M[x] = ValueOf(T, Latest(S))  BY <1>11, <3>1, <3>2
        <3> QED  BY <2>2, <2>4, <3>7, <3>8
    <2> QED  BY <2>3, <2>4
<1>14. DOMAIN M = D  BY <1>11
<1>15. N = [x \in D \cup {k} |-> N[x]]  BY <1>12
<1>16. N = [x \in D \cup {k} |-> IF x = k THEN v ELSE M[x]]  BY <1>13, <1>15
<1> QED  BY <1>9, <1>14, <1>16 DEF Added

LEMMA NothingRead == setCookie(NoFields, <<>>) = NoFields
<1>1. PICK t : t = <<>>  OBVIOUS
<1>2. t \in Written /\ Len(t) = 0  BY <1>1, Empty
<1>3. Pairs(t) = {}
    <2>1. ASSUME NEW i \in Pairs(t) PROVE FALSE
        <3>1. PICK e, j : Part(t, i, e, j)  BY PairIsPart, <1>2
        <3>2. i \in 0 .. 0 /\ j \in 1 .. 0 + 1 /\ e \in i + 1 .. j - 1  BY <1>2, <3>1 DEF Part
        <3> QED  BY <3>2
    <2> QED  BY <2>1
<1>4. PICK D : D = {KeyOf(t, i) : i \in Pairs(t)}  OBVIOUS
<1>5. D = {}  BY <1>3, <1>4
<1>6. setCookie(NoFields, t) = [k \in D |-> ValueOf(t, Latest({i \in Pairs(t) : KeyOf(t, i) = k}))]
    BY <1>4, SetCookieIs
<1> QED  BY <1>1, <1>5, <1>6 DEF NoFields

(* One round of the fold in getCookie. *)
Joining(map, k, text) ==
  (IF text = <<>> THEN <<>> ELSE text \o <<";", "ws">>) \o k \o <<"=">> \o map[k]
AnyOf(S) == CHOOSE x \in S : TRUE
Joined1(map, S, g) == IF S = {} THEN <<>> ELSE Joining(map, AnyOf(S), g[S \ {AnyOf(S)}])
Joins(g, map, D) == g = [S \in D |-> Joined1(map, S, g)]

LEMMA CookiesJoined ==
    ASSUME NEW map
    PROVE  getCookie(map) = (CHOOSE g : Joins(g, map, SUBSET DOMAIN map))[DOMAIN map]
BY DEF getCookie, FoldSet, MapThenFoldSet, Joins, Joined1, Joining, AnyOf

(* There is such a g: on the sets of at most n elements, for every n. *)
LEMMA JoinsExists ==
    ASSUME NEW map, IsFiniteSet(DOMAIN map)
    PROVE  \E g : Joins(g, map, SUBSET DOMAIN map)
<1>1. PICK D : D = SUBSET DOMAIN map  OBVIOUS
<1>2. \A S \in D : IsFiniteSet(S) /\ Cardinality(S) \in Nat
    BY <1>1, FS_Subset, FS_CardinalityType
<1>3. \A S \in D : S # {} => /\ S \ {AnyOf(S)} \in D
                             /\ Cardinality(S \ {AnyOf(S)}) = Cardinality(S) - 1
    <2> SUFFICES ASSUME NEW S \in D, S # {}
                 PROVE  S \ {AnyOf(S)} \in D /\ Cardinality(S \ {AnyOf(S)}) = Cardinality(S) - 1
        OBVIOUS
    <2>1. AnyOf(S) \in S  BY DEF AnyOf
    <2>2. S \ {AnyOf(S)} \in D  BY <1>1
    <2> QED  BY <1>2, <2>1, <2>2, FS_RemoveElement
<1> DEFINE Small(n) == {S \in D : Cardinality(S) <= n}
           P == {n \in Nat : \E g : Joins(g, map, Small(n))}
<1>4. 0 \in P
    <2>1. PICK g : g = [S \in Small(0) |-> <<>>]  OBVIOUS
    <2>2. \A S \in Small(0) : S = {}
        <3>1. \A S \in Small(0) : Cardinality(S) = 0 /\ IsFiniteSet(S)  BY <1>2
        <3> QED  BY <3>1, FS_EmptySet
    <2>3. \A S \in Small(0) : g[S] = Joined1(map, S, g)  BY <2>1, <2>2 DEF Joined1
    <2> HIDE DEF Small
    <2>4. g = [S \in Small(0) |-> Joined1(map, S, g)]  BY <2>1, <2>3
    <2>5. Joins(g, map, Small(0))  BY <2>4 DEF Joins
    <2> QED  BY <2>5
<1>5. ASSUME NEW n \in Nat, n \in P PROVE n + 1 \in P
    <2>1. PICK g : Joins(g, map, Small(n))  BY <1>5
    <2>2. PICK h : h = [S \in Small(n + 1) |-> Joined1(map, S, g)]  OBVIOUS
    <2>3. \A S \in Small(n + 1) : S # {} => S \ {AnyOf(S)} \in Small(n)
        BY <1>2, <1>3
    <2>4. Small(n) \subseteq Small(n + 1)  BY <1>2
    <2> HIDE DEF Small
    <2>5. \A S \in Small(n) : g[S] = Joined1(map, S, g)
        <3>1. g = [S \in Small(n) |-> Joined1(map, S, g)]  BY <2>1 DEF Joins
        <3> QED  BY <3>1
    <2>6. \A S \in Small(n) : h[S] = g[S]  BY <2>2, <2>4, <2>5
    <2>7. \A S \in Small(n + 1) : Joined1(map, S, g) = Joined1(map, S, h)
        BY <2>3, <2>6 DEF Joined1
    <2>8. h = [S \in Small(n + 1) |-> Joined1(map, S, h)]  BY <2>2, <2>7
    <2>9. Joins(h, map, Small(n + 1))  BY <2>8 DEF Joins
    <2> QED  BY <2>9
<1> HIDE DEF P
<1>6. Nat \subseteq P  BY <1>4, <1>5, NatInd
<1>7. PICK n : n = Cardinality(DOMAIN map)  OBVIOUS
<1>8. n \in Nat /\ \A S \in D : Cardinality(S) <= n
    BY <1>1, <1>7, FS_Subset, FS_CardinalityType
<1>9. Small(n) = D  BY <1>8
<1>10. \E g : Joins(g, map, Small(n))  BY <1>6, <1>8 DEF P
<1> QED  BY <1>1, <1>9, <1>10

LEMMA SignWritten ==
    /\ Sign \in Atoms /\ Semicolon \in Atoms /\ Blank \in Atoms
    /\ <<Semicolon, Blank>> \in Written
BY DEF Atoms, Written

LEMMA JoiningAppended ==
    ASSUME NEW T \in Written, NEW map, NEW k \in Written, map[k] \in Written
    PROVE  /\ Joining(map, k, T) \in Written
           /\ \E b \in Nat : Appended(Joining(map, k, T), T, k, map[k], b)
<1>1. PICK v : v = map[k]  OBVIOUS
<1>2. v \in Written  BY <1>1
<1>3. PICK a, m, n \in Nat : a = Len(T) /\ m = Len(k) /\ n = Len(v)  BY <1>2, EndsOf
<1>4. PICK sep : sep = <<Semicolon, Blank>>  OBVIOUS
<1>5. sep \in Written /\ Len(sep) = 2 /\ sep[1] = Semicolon /\ sep[2] = Blank
    BY <1>4, SignWritten
<1>6. PICK pre : pre = IF T = <<>> THEN <<>> ELSE T \o sep  OBVIOUS
<1>7. PICK b \in Nat : b = IF T = <<>> THEN 0 ELSE a + 2  OBVIOUS
<1>8. /\ pre \in Written /\ Len(pre) = b
      /\ T # <<>> => /\ \A i \in 1 .. a : pre[i] = T[i]
                     /\ pre[a + 1] = Semicolon /\ pre[a + 2] = Blank
    <2>1. CASE T = <<>>  BY <1>6, <1>7, <2>1, Empty
    <2>2. CASE T # <<>>
        <3>1. pre = T \o sep /\ b = a + 2  BY <1>6, <1>7, <2>2
        <3>2. /\ pre \in Seq(Atoms) /\ Len(pre) = Len(T) + Len(sep)
              /\ \A i \in 1 .. Len(T) + Len(sep) :
                    pre[i] = IF i <= Len(T) THEN T[i] ELSE sep[i - Len(T)]
            BY <1>5, <3>1, ConcatProperties DEF Written
        <3>3. /\ Len(pre) = a + 2
              /\ \A i \in 1 .. a + 2 : pre[i] = IF i <= a THEN T[i] ELSE sep[i - a]
            BY <1>3, <1>5, <3>2
        <3>4. pre[a + 1] = sep[1]
            <4>1. PICK i \in 1 .. a + 2 : i = a + 1  OBVIOUS
            <4>2. ~(i <= a) /\ i - a = 1  BY <4>1
            <4> QED  BY <3>3, <4>1, <4>2
        <3>5. pre[a + 2] = sep[2]
            <4>1. PICK i \in 1 .. a + 2 : i = a + 2  OBVIOUS
            <4>2. ~(i <= a) /\ i - a = 2  BY <4>1
            <4> QED  BY <3>3, <4>1, <4>2
        <3>6. \A i \in 1 .. a : pre[i] = T[i]  BY <3>3
        <3> QED  BY <1>5, <3>1, <3>2, <3>3, <3>4, <3>5, <3>6 DEF Written
    <2> QED  BY <2>1, <2>2
<1>9. PICK r : r = pre \o k  OBVIOUS
<1>10. /\ r \in Written /\ Len(r) = b + m
       /\ \A i \in 1 .. b : r[i] = pre[i]
       /\ \A i \in 1 .. m : r[b + i] = k[i]
    <2>1. /\ r \in Seq(Atoms) /\ Len(r) = Len(pre) + Len(k)
          /\ \A i \in 1 .. Len(pre) + Len(k) :
                r[i] = IF i <= Len(pre) THEN pre[i] ELSE k[i - Len(pre)]
        BY <1>8, <1>9, ConcatProperties DEF Written
    <2>2. Len(r) = b + m /\ \A i \in 1 .. b + m : r[i] = IF i <= b THEN pre[i] ELSE k[i - b]
        BY <1>3, <1>8, <2>1
    <2>3. ASSUME NEW i \in 1 .. m PROVE r[b + i] = k[i]
        <3>1. b + i \in 1 .. b + m /\ ~(b + i <= b) /\ b + i - b = i  OBVIOUS
        <3> QED  BY <2>2, <3>1
    <2>4. \A i \in 1 .. b : r[i] = pre[i]
        <3>1. \A i \in 1 .. b : i \in 1 .. b + m /\ i <= b  OBVIOUS
        <3> QED  BY <2>2, <3>1
    <2>5. r \in Written  BY <2>1 DEF Written
    <2> QED  BY <2>2, <2>3, <2>4, <2>5
<1>11. PICK u : u = r \o <<Sign>> \o v  OBVIOUS
<1>12. u \in Written /\ JoinedBy(u, r, Sign, v)
    BY <1>2, <1>10, <1>11, SignWritten, Joined DEF Written
<1>13. /\ Len(u) = b + m + 1 + n
       /\ \A i \in 1 .. b + m : u[i] = r[i]
       /\ u[b + m + 1] = Sign
       /\ \A i \in 1 .. n : u[b + m + 1 + i] = v[i]
    BY <1>3, <1>10, <1>12 DEF JoinedBy
<1>14. u = Joining(map, k, T)
    <2>1. sep = <<";", "ws">> /\ <<Sign>> = <<"=">>  BY <1>4 DEF Semicolon, Blank, Sign
    <2>2. Joining(map, k, T) = pre \o k \o <<Sign>> \o v
        BY <1>1, <1>6, <2>1, Zenon DEF Joining
    <2> QED  BY <1>9, <1>11, <2>2
<1>15. Appended(u, T, k, v, b)
    <2>1. \A i \in 1 .. m : u[b + i] = k[i]
        <3>1. \A i \in 1 .. m : b + i \in 1 .. b + m  OBVIOUS
        <3> QED  BY <1>10, <1>13, <3>1
    <2>2. CASE T = <<>>
        <3>1. a = 0 /\ b = 0  BY <1>3, <1>7, <2>2, Empty
        <3> QED  BY <1>3, <1>13, <2>1, <2>2, <3>1 DEF Appended
    <2>3. CASE T # <<>>
        <3>1. b = a + 2  BY <1>7, <2>3
        <3>2. \A i \in 1 .. a + 2 : u[i] = pre[i]
            <4>1. \A i \in 1 .. a + 2 : i \in 1 .. b + m /\ i \in 1 .. b  BY <3>1
            <4> QED  BY <1>10, <1>13, <4>1
        <3>3. u[a + 1] = Semicolon /\ u[a + 2] = Blank /\ \A i \in 1 .. a : u[i] = T[i]
            <4>1. a + 1 \in 1 .. a + 2 /\ a + 2 \in 1 .. a + 2 /\ \A i \in 1 .. a : i \in 1 .. a + 2
                OBVIOUS
            <4> QED  BY <1>8, <2>3, <3>2, <4>1
        <3> QED  BY <1>3, <1>13, <2>1, <2>3, <3>1, <3>3 DEF Appended
    <2> QED  BY <2>2, <2>3
<1> QED  BY <1>1, <1>12, <1>14, <1>15

(* The text of the cookies in S, and what is read from it. *)
TextOfCookies(text, m, S) ==
  /\ text \in Written /\ (text = <<>> <=> S = {})
  /\ text # <<>> => text[1] # Blank
  /\ setCookie(NoFields, text) = [k \in S |-> m[k]]

LEMMA OneMoreCookie ==
    ASSUME NEW m, NEW S, NEW x, x \notin S, Name(x), Content(m[x]),
           NEW T, TextOfCookies(T, m, S)
    PROVE  TextOfCookies(Joining(m, x, T), m, S \cup {x})
<1>1. PICK v, u : v = m[x] /\ u = Joining(m, x, T)  OBVIOUS
<1>2. T \in Written /\ x \in Written /\ v \in Written
    BY <1>1 DEF TextOfCookies, Name, Content, Word
<1>3. u \in Written /\ \E b \in Nat : Appended(u, T, x, v, b)
    BY <1>1, <1>2, JoiningAppended
<1>4. PICK b \in Nat : Appended(u, T, x, v, b)  BY <1>3
<1>5. PICK a, l, n \in Nat : a = Len(T) /\ l = Len(x) /\ n = Len(v)  BY <1>2, EndsOf
<1>6. u # <<>>
    <2>1. Len(u) = b + l + 1 + n  BY <1>4, <1>5 DEF Appended
    <2>2. Len(u) # 0  BY <2>1
    <2> QED  BY <1>3, <2>2, Empty
<1>7. u[1] # Blank
    <2>1. CASE T # <<>>
        <3>1. T[1] # Blank /\ a # 0  BY <1>2, <1>5, <2>1, Empty DEF TextOfCookies
        <3>2. 1 \in 1 .. a  BY <3>1
        <3>3. u[1] = T[1]  BY <1>4, <1>5, <3>2 DEF Appended
        <3> QED  BY <3>1, <3>3
    <2>2. CASE T = <<>>
        <3>1. b = 0  BY <1>4, <2>2 DEF Appended
        <3>2. CASE l = 0
            <4>1. u[b + l + 1] = Sign  BY <1>4, <1>5 DEF Appended
            <4>2. b + l + 1 = 1  BY <3>1, <3>2
            <4> QED  BY <4>1, <4>2, Separators
        <3>3. CASE l # 0
            <4>1. 1 \in 1 .. l /\ b + 1 = 1  BY <3>1, <3>3
            <4>2. u[b + 1] = x[1]  BY <1>4, <1>5, <4>1 DEF Appended
            <4>3. x # <<>>  BY <1>2, <1>5, <3>3, Empty
            <4> QED  BY <4>1, <4>2, <4>3 DEF Name, Word
        <3> QED  BY <3>2, <3>3
    <2> QED  BY <2>1, <2>2
<1>8. PICK M : M = setCookie(NoFields, T)  OBVIOUS
<1>9. setCookie(NoFields, u) = Added(M, x, v)
    BY <1>1, <1>2, <1>3, <1>4, <1>8, CookieAdded
<1>10. M = [k \in S |-> m[k]]  BY <1>8 DEF TextOfCookies
<1>11. Added(M, x, v) = [k \in S \cup {x} |-> m[k]]
    <2>1. DOMAIN M = S  BY <1>10
    <2>2. \A k \in S \cup {x} : (IF k = x THEN v ELSE M[k]) = m[k]  BY <1>1, <1>10
    <2> QED  BY <2>1, <2>2 DEF Added
<1>12. S \cup {x} # {}  OBVIOUS
<1> QED  BY <1>1, <1>3, <1>6, <1>7, <1>9, <1>11, <1>12 DEF TextOfCookies

LEMMA CookiesWritten ==
    ASSUME NEW m, Cookies(m)
    PROVE  TextOfCookies(getCookie(m), m, DOMAIN m)
<1>1. PICK D : D = SUBSET DOMAIN m  OBVIOUS
<1>2. PICK g : g = CHOOSE f : Joins(f, m, D)  OBVIOUS
<1>3. Joins(g, m, D)
    <2>1. \E f : Joins(f, m, D)  BY <1>1, JoinsExists DEF Cookies
    <2> QED  BY <1>2, <2>1, Zenon
<1>4. getCookie(m) = g[DOMAIN m]  BY <1>1, <1>2, CookiesJoined
<1>5. \A S \in D : g[S] = Joined1(m, S, g)
    <2>1. g = [S \in D |-> Joined1(m, S, g)]  BY <1>3 DEF Joins
    <2> QED  BY <2>1
<1>6. \A S \in D : IsFiniteSet(S) /\ Cardinality(S) \in Nat
    BY <1>1, FS_Subset, FS_CardinalityType DEF Cookies
<1> DEFINE P == {n \in Nat : \A S \in D : Cardinality(S) = n => TextOfCookies(g[S], m, S)}
<1>7. 0 \in P
    <2>1. ASSUME NEW S \in D, Cardinality(S) = 0 PROVE TextOfCookies(g[S], m, S)
        <3>1. S = {}  BY <1>6, <2>1, FS_EmptySet
        <3>2. g[S] = <<>>  BY <1>5, <3>1 DEF Joined1
        <3>3. [k \in S |-> m[k]] = NoFields  BY <3>1 DEF NoFields
        <3> QED  BY <3>1, <3>2, <3>3, Empty, NothingRead DEF TextOfCookies
    <2> QED  BY <2>1
<1>8. ASSUME NEW n \in Nat, n \in P PROVE n + 1 \in P
    <2>1. ASSUME NEW S \in D, Cardinality(S) = n + 1 PROVE TextOfCookies(g[S], m, S)
        <3>1. S # {}  BY <2>1, FS_EmptySet
        <3>2. PICK x : x = AnyOf(S)  OBVIOUS
        <3>3. x \in S /\ x \in DOMAIN m  BY <1>1, <3>1, <3>2 DEF AnyOf
        <3>4. PICK U \in D : U = S \ {x}  BY <1>1
        <3>5. Cardinality(U) = n
            <4>1. Cardinality(U) = Cardinality(S) - 1  BY <1>6, <3>3, <3>4, FS_RemoveElement
            <4> QED  BY <2>1, <4>1
        <3>6. TextOfCookies(g[U], m, U)  BY <1>8, <3>5
        <3>7. g[S] = Joining(m, x, g[U])  BY <1>5, <3>1, <3>2, <3>4 DEF Joined1
        <3>8. Name(x) /\ Content(m[x])  BY <3>3 DEF Cookies
        <3>9. x \notin U /\ U \cup {x} = S  BY <3>3, <3>4
        <3>10. TextOfCookies(Joining(m, x, g[U]), m, U \cup {x})
            BY <3>6, <3>8, <3>9, OneMoreCookie
        <3> QED  BY <3>7, <3>9, <3>10
    <2> QED  BY <2>1
<1> HIDE DEF P
<1>9. Nat \subseteq P  BY <1>7, <1>8, NatInd
<1>10. DOMAIN m \in D  BY <1>1
<1>11. TextOfCookies(g[DOMAIN m], m, DOMAIN m)  BY <1>6, <1>9, <1>10 DEF P
<1> QED  BY <1>4, <1>11

Received1 == <<"received">>
True1 == <<"true">>
New1 == <<"new">>
Mine1 == <<"mine">>

LEMMA WordsOf ==
    /\ Name(Received1) /\ Content(True1) /\ Name(New1) /\ Content(Mine1)
    /\ Len(Received1) = 1 /\ Len(True1) = 1 /\ Len(New1) = 1 /\ Len(Mine1) = 1
<1> USE DEF Received1, True1, New1, Mine1
<1>1. /\ Received1 \in Written /\ True1 \in Written /\ New1 \in Written /\ Mine1 \in Written
    BY DEF Written, Atoms
<1>2. \A i \in 1 .. 1 : /\ Received1[i] \notin {Semicolon, Sign, Blank}
                        /\ True1[i] \notin {Semicolon, Sign, Blank}
                        /\ New1[i] \notin {Semicolon, Sign, Blank}
                        /\ Mine1[i] \notin {Semicolon, Sign, Blank}
    <2>1. \A i \in 1 .. 1 : i = 1  OBVIOUS
    <2>2. Received1[1] = "received" /\ True1[1] = "true" /\ New1[1] = "new" /\ Mine1[1] = "mine"
        OBVIOUS
    <2>3. /\ "received" \notin {Semicolon, Sign, Blank} /\ "true" \notin {Semicolon, Sign, Blank}
          /\ "new" \notin {Semicolon, Sign, Blank} /\ "mine" \notin {Semicolon, Sign, Blank}
        BY DEF Semicolon, Sign, Blank
    <2> HIDE DEF Received1, True1, New1, Mine1
    <2> QED  BY <2>1, <2>2, <2>3
<1>3. Len(Received1) = 1 /\ Len(True1) = 1 /\ Len(New1) = 1 /\ Len(Mine1) = 1  OBVIOUS
<1>4. 1 \in 1 .. 1  OBVIOUS
<1> QED  BY <1>1, <1>2, <1>3, <1>4 DEF Name, Content, Word

LEMMA NothingStrippedOff ==
    ASSUME NEW u, Word(u)
    PROVE  stripWS(u) = u
<1>1. u \in Written  BY DEF Word
<1>2. PICK n \in Nat : n = Len(u)  BY <1>1, EndsOf
<1>3. PICK p \in Nat : p = 0  OBVIOUS
<1>4. Len(u) = p + Len(u) /\ (\A i \in 1 .. p : u[i] = Blank)
      /\ \A i \in 1 .. Len(u) : u[p + i] = u[i]
    <2>1. \A i \in 1 .. n : p + i = i  BY <1>3
    <2> QED  BY <1>2, <1>3, <2>1
<1> QED  BY <1>1, <1>4, StripIs

LEMMA NewTextRead ==
    NewText # <<>> /\ setCookie(NoFields, stripWS(NewText)) = Returned(NoFields)
<1>1. PICK u, T : u = NewText /\ T = <<>>  OBVIOUS
<1>2. u \in Written /\ Len(u) = 3 /\ u[1] = "new" /\ u[2] = Sign /\ u[3] = "mine"
    BY <1>1 DEF NewText, Written, Atoms, Sign
<1>3. u # <<>>  BY <1>2, Empty
<1>4. Word(u)
    <2>1. u[1] # Blank /\ u[3] # Blank  BY <1>2 DEF Blank
    <2> QED  BY <1>2, <2>1 DEF Word
<1>5. PICK b \in Nat : b = 0  OBVIOUS
<1>6. T \in Written /\ Len(T) = 0  BY <1>1, Empty
<1>7. Appended(u, T, New1, Mine1, b)
    <2>1. New1[1] = "new" /\ Mine1[1] = "mine"  BY DEF New1, Mine1
    <2>2. b + Len(New1) + 1 = 2 /\ Len(u) = b + Len(New1) + 1 + Len(Mine1)  BY <1>2, <1>5, WordsOf
    <2>3. \A i \in 1 .. Len(New1) : u[b + i] = New1[i]
        <3>1. \A i \in 1 .. Len(New1) : i = 1 /\ b + i = 1  BY <1>5, WordsOf
        <3> QED  BY <1>2, <2>1, <3>1
    <2>4. \A i \in 1 .. Len(Mine1) : u[b + Len(New1) + 1 + i] = Mine1[i]
        <3>1. \A i \in 1 .. Len(Mine1) : i = 1 /\ b + Len(New1) + 1 + i = 3  BY <2>2, WordsOf
        <3> QED  BY <1>2, <2>1, <3>1
    <2>5. \A i \in 1 .. Len(T) : u[i] = T[i]  BY <1>6
    <2> QED  BY <1>1, <1>2, <1>5, <2>2, <2>3, <2>4, <2>5 DEF Appended
<1>8. setCookie(NoFields, u) = Added(setCookie(NoFields, T), New1, Mine1)
    BY <1>2, <1>6, <1>7, WordsOf, CookieAdded
<1>9. setCookie(NoFields, u) = Added(NoFields, New1, Mine1)  BY <1>1, <1>8, NothingRead
<1>10. Added(NoFields, New1, Mine1) = Returned(NoFields)
    <2>1. DOMAIN NoFields = {}  BY DEF NoFields
    <2>2. Added(NoFields, New1, Mine1) = [x \in {New1} |-> Mine1]  BY <2>1 DEF Added
    <2> QED  BY <2>2 DEF Returned, New1, Mine1
<1> QED  BY <1>1, <1>3, <1>4, <1>9, <1>10, NothingStrippedOff

LEMMA OldTextRead ==
    ASSUME NEW m, Cookies(m), m # NoFields
    PROVE  OldText(m) # <<>> /\ setCookie(NoFields, stripWS(OldText(m))) = Returned(m)
<1>1. PICK T, w : T = getCookie(m) /\ w = <<";", "ws", "received", "=", "true">>  OBVIOUS
<1>2. TextOfCookies(T, m, DOMAIN m)  BY <1>1, CookiesWritten
<1>3. m = [k \in DOMAIN m |-> m[k]]  BY DEF Cookies
<1>4. DOMAIN m # {}
    <2>1. SUFFICES ASSUME DOMAIN m = {} PROVE FALSE  OBVIOUS
    <2>2. m = NoFields  BY <1>3, <2>1 DEF NoFields
    <2> QED  BY <2>2
<1>5. T \in Written /\ T # <<>> /\ T[1] # Blank  BY <1>2, <1>4 DEF TextOfCookies
<1>6. PICK a \in Nat : a = Len(T)  BY <1>5, EndsOf
<1>7. a # 0  BY <1>5, <1>6, Empty
<1>8. /\ w \in Written /\ Len(w) = 5 /\ w[1] = Semicolon /\ w[2] = Blank
      /\ w[3] = "received" /\ w[4] = Sign /\ w[5] = "true"
    <2>1. w = <<Semicolon, Blank, "received", Sign, "true">>
        BY <1>1 DEF Semicolon, Blank, Sign
    <2>2. Semicolon \in Atoms /\ Blank \in Atoms /\ Sign \in Atoms
          /\ "received" \in Atoms /\ "true" \in Atoms
        BY DEF Atoms
    <2>3. w \in Seq(Atoms)  BY <2>1, <2>2
    <2>4. Len(w) = 5 /\ w[1] = Semicolon /\ w[2] = Blank /\ w[3] = "received"
        BY <2>1
    <2>5. w[4] = Sign /\ w[5] = "true"  BY <2>1
    <2> QED  BY <2>3, <2>4, <2>5 DEF Written
<1>9. PICK u : u = OldText(m)  OBVIOUS
<1>10. u = T \o w  BY <1>1, <1>9 DEF OldText
<1>11. /\ u \in Written /\ Len(u) = a + 5
       /\ \A i \in 1 .. a : u[i] = T[i]
       /\ \A i \in 1 .. 5 : u[a + i] = w[i]
    <2>1. /\ u \in Seq(Atoms) /\ Len(u) = Len(T) + Len(w)
          /\ \A i \in 1 .. Len(T) + Len(w) : u[i] = IF i <= Len(T) THEN T[i] ELSE w[i - Len(T)]
        BY <1>5, <1>8, <1>10, ConcatProperties DEF Written
    <2>2. Len(u) = a + 5 /\ \A i \in 1 .. a + 5 : u[i] = IF i <= a THEN T[i] ELSE w[i - a]
        BY <1>6, <1>8, <2>1
    <2>3. ASSUME NEW i \in 1 .. 5 PROVE u[a + i] = w[i]
        <3>1. a + i \in 1 .. a + 5 /\ ~(a + i <= a) /\ a + i - a = i  OBVIOUS
        <3> QED  BY <2>2, <3>1
    <2>4. \A i \in 1 .. a : u[i] = T[i]
        <3>1. \A i \in 1 .. a : i \in 1 .. a + 5 /\ i <= a  OBVIOUS
        <3> QED  BY <2>2, <3>1
    <2>5. u \in Written  BY <2>1 DEF Written
    <2> QED  BY <2>2, <2>3, <2>4, <2>5
<1>12. /\ u[a + 1] = Semicolon /\ u[a + 2] = Blank /\ u[a + 3] = "received"
       /\ u[a + 4] = Sign /\ u[a + 5] = "true"
    BY <1>8, <1>11
<1>13. u # <<>>  BY <1>6, <1>11, Empty
<1>14. Word(u)
    <2>1. u[1] # Blank
        <3>1. 1 \in 1 .. a  BY <1>7
        <3> QED  BY <1>5, <1>11, <3>1
    <2>2. u[a + 5] # Blank  BY <1>12 DEF Blank
    <2> QED  BY <1>11, <2>1, <2>2 DEF Word
<1>15. PICK b \in Nat : b = a + 2  OBVIOUS
<1>16. Appended(u, T, Received1, True1, b)
    <2>1. Received1[1] = "received" /\ True1[1] = "true"  BY DEF Received1, True1
    <2>2. b + Len(Received1) + 1 = a + 4 /\ Len(u) = b + Len(Received1) + 1 + Len(True1)
        BY <1>11, <1>15, WordsOf
    <2>3. \A i \in 1 .. Len(Received1) : u[b + i] = Received1[i]
        <3>1. \A i \in 1 .. Len(Received1) : i = 1 /\ b + i = a + 3  BY <1>15, WordsOf
        <3> QED  BY <1>12, <2>1, <3>1
    <2>4. \A i \in 1 .. Len(True1) : u[b + Len(Received1) + 1 + i] = True1[i]
        <3>1. \A i \in 1 .. Len(True1) : i = 1 /\ b + Len(Received1) + 1 + i = a + 5
            BY <2>2, WordsOf
        <3> QED  BY <1>12, <2>1, <3>1
    <2> QED  BY <1>5, <1>6, <1>11, <1>12, <1>15, <2>2, <2>3, <2>4 DEF Appended
<1>17. PICK M : M = setCookie(NoFields, T)  OBVIOUS
<1>18. setCookie(NoFields, u) = Added(M, Received1, True1)
    BY <1>5, <1>11, <1>16, <1>17, WordsOf, CookieAdded
<1>19. M = m  BY <1>2, <1>3, <1>17 DEF TextOfCookies
<1>20. Added(m, Received1, True1) = Returned(m)
    BY DEF Added, Returned, Received1, True1
<1> QED  BY <1>9, <1>13, <1>14, <1>18, <1>19, <1>20, NothingStrippedOff

LEMMA Survival == CookiesUnderstood => CookiesSurvive
<1> SUFFICES ASSUME CookiesUnderstood, NEW cookie \in ClientCookies
             PROVE  /\ ReplyText(Found(cookie)) # <<>>
                    /\ setCookie(NoFields, stripWS(ReplyText(Found(cookie)))) = Returned(Found(cookie))
    BY DEF CookiesSurvive
<1>1. PICK m : m = Found(cookie)  OBVIOUS
<1>2. CASE m = NoFields  BY <1>1, <1>2, NewTextRead DEF ReplyText
<1>3. CASE m # NoFields
    <2>1. m = CookieMeaning[cookie]  BY <1>1, <1>3 DEF Found
    <2>2. m = setCookie(NoFields, stripWS(cookie))  BY <1>3, <2>1 DEF CookiesUnderstood
    <2>3. cookie \in Written
        <3>1. cookie \in Seq(STRING)  BY CookiesAssumption DEF ClientCookies
        <3>2. STRING \subseteq Atoms  BY DEF Atoms
        <3> QED  BY <3>1, <3>2, SeqMonotonic DEF Written
    <2>4. stripWS(cookie) \in Written  BY <2>3, StripWord DEF Word
    <2>5. Cookies(m)  BY <2>2, <2>4, CookiesRead
    <2> QED  BY <1>1, <1>3, <2>5, OldTextRead DEF ReplyText
<1> QED  BY <1>2, <1>3

LEMMA ReturnedInv == AllGotten => CookiesReturned
<1> SUFFICES ASSUME AllGotten, NEW c \in Clients \cap AcceptCookies,
                    "content-length" \in DOMAIN headerprops[c] /\ ~hasHttpProperty(c, "www-authenticate")
             PROVE  cookies[c] = IF Server \in AcceptCookies /\ Said(c) # NoFields
                                 THEN [k \in DOMAIN Said(c) \cup {<<"received">>} |->
                                         IF k = <<"received">> THEN <<"true">> ELSE Said(c)[k]]
                                 ELSE [k \in {<<"new">>} |-> <<"mine">>]
    BY DEF CookiesReturned
<1>1. cookies[c] = Returned(Found(with[c].cookie))  BY DEF AllGotten, Gotten
<1>2. Found(with[c].cookie) = IF Server \in AcceptCookies THEN Said(c) ELSE NoFields
    BY DEF Found, Said
<1> QED  BY <1>1, <1>2 DEF Returned

(* If a text means what setCookie takes out of it: every client that       *)
(* accepts cookies gets its own back with the server's, or the server's    *)
(* new one if it sent none, for setCookie reads what getCookie writes,     *)
(* whatever the cookies are and whoever else calls in between.             *)
THEOREM ComesBack == CookiesUnderstood => (Spec => []CookiesReturned)
<1>1. CookiesUnderstood /\ RInv /\ [Next]_vars => RInv'  BY Survival, ReturnedNext
<1>2. CookiesUnderstood => CookiesUnderstood'  BY DEF CookiesUnderstood
<1>3. RInv => CookiesReturned  BY ReturnedInv DEF RInv
<1> QED  BY <1>1, <1>2, <1>3, ReturnedInit, PTL DEF Spec

-----------------------------------------------------------------------------
(***************************************************************************)
(* TcpConnect.                                                             *)
(***************************************************************************)
LEMMA TypeInit == ConnectInit => TypeOK
  BY FamiliesAssumption DEF ConnectInit, TypeOK, Place, Socket, Outcome

LEMMA NextFamilyUntried ==
  ASSUME Untried # {}
  PROVE  NextFamily \in Untried
  BY FamiliesAssumption DEF NextFamily, Untried

LEMMA TypeNext == TypeOK /\ [ConnectNext]_connectVars => TypeOK'
<1> SUFFICES ASSUME TypeOK, [ConnectNext]_connectVars PROVE TypeOK'
  OBVIOUS
<1> USE DEF TypeOK, Place, Socket, Outcome, worldVars
<1>1. CASE SendCall
  BY <1>1 DEF SendCall, isOpen
<1>2. CASE Attempt
  <2>1. fam' \in Families /\ tried' \subseteq Families
    BY <1>2, NextFamilyUntried DEF Attempt, Untried
  <2>2. QED
    BY <1>2, <2>1 DEF Attempt
<1>3. CASE NoSocket
  BY <1>3 DEF NoSocket, Return
<1>4. CASE OpenThrows
  BY <1>4 DEF OpenThrows, Return
<1>5. CASE SelectWritable
  BY <1>5 DEF SelectWritable
<1>6. CASE SelectGivesUp
  BY <1>6 DEF SelectGivesUp
<1>7. CASE GetPeer
  BY <1>7 DEF GetPeer, Return
<1>8. CASE Write
  BY <1>8 DEF Write, WriteRequest, WriteTimeout, WriteFails, Return
<1>9. CASE ReceiveResponse
  BY <1>9 DEF ReceiveResponse, Return
<1>10. CASE CloseAfterThrow
  BY <1>10 DEF CloseAfterThrow, isOpen
<1>11. CASE Resolve
  BY <1>11 DEF Resolve, requesterVars
<1>12. CASE Reset
  BY <1>12 DEF Reset, requesterVars
<1>13. CASE HostChanges
  BY <1>13 DEF HostChanges, requesterVars
<1>14. CASE UNCHANGED connectVars
  BY <1>14 DEF connectVars, requesterVars
<1>15. QED
  BY <1>1, <1>2, <1>3, <1>4, <1>5, <1>6, <1>7, <1>8, <1>9, <1>10, <1>11,
     <1>12, <1>13, <1>14 DEF ConnectNext, Open

(* Every variable keeps its type, and open() and waitForResponse only look *)
(* at sockets that have started to connect, or have connected.             *)
THEOREM ConnectType == ConnectSpec => []TypeOK
<1>1. QED
  BY TypeInit, TypeNext, PTL DEF ConnectSpec

-----------------------------------------------------------------------------
(* What the calls so far have cost, by the state of the socket they have   *)
(* left: a failed socket has two errors still to give, a dead one has one. *)
Cost ==
  /\ sock \in {"connecting", "established", "failed"} => spoiled = 0
  /\ sock = "dead" => spoiled <= 1
  /\ spoiled <= 2

(* open() begins a new account. *)
Opening == pc \in {"open", "select", "peer"} => spoiled = 0

(* An application that closes starts every call without a socket. *)
Fresh ==
  appCloses =>
    /\ spoiled = 0
    /\ pc \in {"select", "peer", "write"} => tried # {}
    /\ pc = "idle" /\ outcome = "answered" => sock = "none"

SpoiledInv == Cost /\ Opening /\ Fresh

LEMMA SpoiledInit == ConnectInit => SpoiledInv
  BY DEF ConnectInit, SpoiledInv, Cost, Opening, Fresh

LEMMA CostNext == TypeOK /\ SpoiledInv /\ [ConnectNext]_connectVars => Cost' /\ Opening'
<1> SUFFICES ASSUME TypeOK, SpoiledInv, [ConnectNext]_connectVars PROVE Cost' /\ Opening'
  OBVIOUS
<1> USE DEF SpoiledInv, Cost, Opening, worldVars
<1>0. spoiled \in Nat
  BY DEF TypeOK
<1>1. CASE SendCall
  BY <1>0, <1>1 DEF SendCall, isOpen
<1>2. CASE Attempt
  BY <1>0, <1>2 DEF Attempt
<1>3. CASE NoSocket \/ OpenThrows \/ SelectWritable \/ SelectGivesUp \/ GetPeer
  BY <1>0, <1>3
     DEF NoSocket, OpenThrows, SelectWritable, SelectGivesUp, GetPeer, Return
<1>4. CASE WriteRequest \/ WriteTimeout
  BY <1>0, <1>4 DEF WriteRequest, WriteTimeout, Return
<1>5. CASE WriteFails
  BY <1>0, <1>5 DEF WriteFails, Return
<1>6. CASE ReceiveResponse
  BY <1>0, <1>6 DEF ReceiveResponse, Return
<1>7. CASE CloseAfterThrow
  BY <1>0, <1>7 DEF CloseAfterThrow
<1>8. CASE Resolve \/ Reset \/ HostChanges
  BY <1>0, <1>8 DEF Resolve, Reset, HostChanges, requesterVars
<1>9. CASE UNCHANGED connectVars
  BY <1>9 DEF connectVars, requesterVars
<1>10. QED
  BY <1>1, <1>2, <1>3, <1>4, <1>5, <1>6, <1>7, <1>8, <1>9 DEF ConnectNext, Open, Write

LEMMA FreshNext == TypeOK /\ SpoiledInv /\ [ConnectNext]_connectVars => Fresh'
<1> SUFFICES ASSUME TypeOK, SpoiledInv, [ConnectNext]_connectVars PROVE Fresh'
  OBVIOUS
<1> USE DEF SpoiledInv, Fresh, worldVars
<1>1. CASE SendCall
  BY <1>1 DEF SendCall, isOpen
<1>2. CASE Attempt
  BY <1>2 DEF Attempt
<1>3. CASE NoSocket \/ OpenThrows \/ SelectWritable \/ SelectGivesUp
  BY <1>3 DEF NoSocket, OpenThrows, SelectWritable, SelectGivesUp, Return
<1>4. CASE GetPeer
  BY <1>4 DEF GetPeer, Return
<1>5. CASE Write
  BY <1>5 DEF Write, WriteRequest, WriteTimeout, WriteFails, Return
<1>6. CASE ReceiveResponse
  BY <1>6 DEF ReceiveResponse, Return
<1>7. CASE CloseAfterThrow
  BY <1>7 DEF CloseAfterThrow
<1>8. CASE Resolve \/ Reset \/ HostChanges
  BY <1>8 DEF Resolve, Reset, HostChanges, requesterVars
<1>9. CASE UNCHANGED connectVars
  BY <1>9 DEF connectVars, requesterVars
<1>10. QED
  BY <1>1, <1>2, <1>3, <1>4, <1>5, <1>6, <1>7, <1>8, <1>9 DEF ConnectNext, Open

LEMMA SpoiledNext == TypeOK /\ SpoiledInv /\ [ConnectNext]_connectVars => SpoiledInv'
  BY CostNext, FreshNext DEF SpoiledInv

LEMMA SpoiledBound == SpoiledInv => SpoiledAtMostTwo
  BY DEF SpoiledInv, Cost, Fresh, SpoiledAtMostTwo

(* A lost socket makes at most two further calls throw before one opens a  *)
(* connection; none if the application closes after exceptions.            *)
THEOREM ConnectSpoiled == ConnectSpec => []SpoiledAtMostTwo
<1>1. ConnectInit => TypeOK /\ SpoiledInv
  BY TypeInit, SpoiledInit
<1>2. TypeOK /\ SpoiledInv /\ [ConnectNext]_connectVars => TypeOK' /\ SpoiledInv'
  BY TypeNext, SpoiledNext
<1>3. QED
  BY <1>1, <1>2, SpoiledBound, PTL DEF ConnectSpec
=============================================================================
