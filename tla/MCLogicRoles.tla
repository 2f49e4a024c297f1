----------------------------- MODULE MCLogicRoles -----------------------------
(* TLC instances of LogicRoles. *)
EXTENDS LogicRoles, TLC

Symmetry == Permutations(Objects) \cup Permutations(Agents) \cup Permutations(Logins)
              \cup Permutations(Logouts)
=============================================================================
