--------------------------- MODULE HandlerService ---------------------------
(***************************************************************************)
(* What a pre-forked server promises its clients, without saying how: a    *)
(* client connection waits, is taken by one free handler, which serves it  *)
(* alone and finishes it for good.  A connection may also be turned away   *)
(* without having been taken, when nobody is left to listen.  A handler    *)
(* serves one connection at a time and never hands one over.               *)
(***************************************************************************)
CONSTANTS Handler, Conn, NoConn

VARIABLES
  status,  \* status[k]: what has become of connection k
  holder   \* holder[h]: the connection handler h serves, or NoConn

svars == <<status, holder>>

Init ==
  /\ status = [k \in Conn |-> "idle"]
  /\ holder = [h \in Handler |-> NoConn]

(* Every status in K becomes s. *)
SetStatus(K, s) == status' = [k \in Conn |-> IF k \in K THEN s ELSE status[k]]

Waiting == {k \in Conn : status[k] = "waiting"}

Arrive(k) ==
  /\ status[k] = "idle"
  /\ SetStatus({k}, "waiting")
  /\ UNCHANGED holder

Take(h, k) ==
  /\ holder[h] = NoConn
  /\ k \in Waiting
  /\ holder' = [holder EXCEPT ![h] = k]
  /\ SetStatus({k}, "taken")

TurnAway(K) ==
  /\ K \subseteq Waiting
  /\ SetStatus(K, "done")
  /\ UNCHANGED holder

(* The handler gives up its connection; if it was the last listener, the   *)
(* connections K that still wait are turned away with it.                  *)
Finish(h, K) ==
  /\ holder[h] # NoConn
  /\ K \subseteq Waiting
  /\ holder' = [holder EXCEPT ![h] = NoConn]
  /\ SetStatus({holder[h]} \cup K, "done")

Next ==
  \/ \E k \in Conn : Arrive(k)
  \/ \E h \in Handler, k \in Conn : Take(h, k)
  \/ \E K \in SUBSET Conn : TurnAway(K)
  \/ \E h \in Handler, K \in SUBSET Conn : Finish(h, K)

Spec == Init /\ [][Next]_svars
=============================================================================
