---------------------------- MODULE MCHttpHeader ----------------------------
EXTENDS HttpHeader

CONSTANTS c1, c2, srv

MCClients == {c1, c2}
MCProxied == {c2}
MCAcceptCookies == {c1, srv}
MCLineOctets == 7

(* Blanks and a colon in the password, exactly one line; wrong; registered, *)
(* but one octet too long.                                                  *)
MCCredentials ==
  {[user |-> <<"ws", "u">>, pass |-> <<"p", ":", "q", "ws">>],
   [user |-> <<"u">>, pass |-> <<"p">>],
   [user |-> <<"l">>, pass |-> <<"o", "n", "g", "e", "s", "t">>]}
MCAuthData ==
  {[user |-> <<"u">>, pass |-> <<"p", ":", "q">>],
   [user |-> <<"l">>, pass |-> <<"o", "n", "g", "e", "s", "t">>]}

One(k, v) == [n \in {<<k>>} |-> v]

(* None; one among blanks; two; an attribute and a second "=". *)
MCCookieMeaning ==
  [t \in {<<>>, <<"ws", "k", "=", "1", "ws">>,
          <<"k", "=", "2", ";", "ws", "l", "=", "3">>,
          <<"secure", ";", "k", "=", "4", "=", "5">>} |->
     CASE t = <<>> -> NoFields
       [] Len(t) = 5 -> One("k", <<"1">>)
       [] Len(t) = 8 -> [n \in {<<"k">>, <<"l">>} |-> IF n = <<"k">> THEN <<"2">> ELSE <<"3">>]
       [] OTHER -> One("k", <<"4", "=", "5">>)]

ASSUME UnderstoodAssumption == CookiesUnderstood
=============================================================================
