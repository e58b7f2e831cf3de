---------------------------- MODULE MCSecureCall ----------------------------
(* Two users of whom the server knows one. *)
EXTENDS SecureCall

=============================================================================
