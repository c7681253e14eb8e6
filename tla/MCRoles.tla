------------------------------- MODULE MCRoles -------------------------------
(***************************************************************************)
(* Instances of Roles small enough for TLC.                                *)
(***************************************************************************)
EXTENDS Roles, TLC

\* The administrator has both flags; the other role is any.
CONSTANTS administrator, other

MCRoleSet      == {administrator, other}
MCSystemGrants == [x \in {administrator} |-> {"admin", "superuser"}]

Symmetry == Permutations(Transactions) \cup Permutations(Users)
=============================================================================
