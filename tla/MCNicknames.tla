----------------------------- MODULE MCNicknames -----------------------------
(* TLC instances of Nicknames. *)
EXTENDS Nicknames, TLC
=============================================================================
