--------------------------- MODULE MCRpcExchange ---------------------------
(* RpcExchange with a few calls. *)
EXTENDS RpcExchange
=============================================================================
