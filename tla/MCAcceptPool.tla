---------------------------- MODULE MCAcceptPool ----------------------------
(* AcceptPool on a small pool: handlers are interchangeable, and so are    *)
(* client connections.                                                     *)
EXTENDS AcceptPool, TLC

Symmetry == Permutations(Child) \cup Permutations(Conn)
=============================================================================
