----------------------------- MODULE MCServiceRpc -----------------------------
(* TLC instances of ServiceRpc. *)
EXTENDS ServiceRpc, TLC
=============================================================================
