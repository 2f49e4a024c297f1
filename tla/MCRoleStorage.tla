---------------------------- MODULE MCRoleStorage ----------------------------
(* TLC instances of RoleStorage. *)
EXTENDS RoleStorage, TLC

CONSTANTS m1, m2, h1, h2

OneHome == (m1 :> h1)
TwoHomes == (m1 :> h1) @@ (m2 :> h2)
Symmetry == Permutations(Fibers) \cup Permutations(Users)
=============================================================================
