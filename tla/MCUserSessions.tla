---------------------------- MODULE MCUserSessions ----------------------------
(* TLC instances of UserSessions. *)
EXTENDS UserSessions, TLC

Symmetry == Permutations(Agents) \cup Permutations(Logics) \cup Permutations(Users)
              \cup Permutations(Roles)
=============================================================================
