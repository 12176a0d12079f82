----------------------------- MODULE MCAccounts -----------------------------
(* Small instances of Accounts for TLC.                                    *)
EXTENDS Accounts, TLC

(* Request slots are interchangeable.                                      *)
Symmetry == Permutations(Requests)

=============================================================================
