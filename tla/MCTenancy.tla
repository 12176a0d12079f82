----------------------------- MODULE MCTenancy -----------------------------
(* Small instances of Tenancy for TLC.                                     *)
EXTENDS Tenancy, TLC

(* Users and the ids of rows are interchangeable.                          *)
Symmetry == Permutations(Users) \cup Permutations(Workspaces) \cup Permutations(Environments)

=============================================================================
