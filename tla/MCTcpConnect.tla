---------------------------- MODULE MCTcpConnect ----------------------------
(* A host with both families, as "localhost" has on most machines. *)
EXTENDS TcpConnect

=============================================================================
