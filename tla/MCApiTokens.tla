---------------------------- MODULE MCApiTokens ----------------------------
(* Small instances of ApiTokens for TLC.                                   *)
EXTENDS ApiTokens, TLC

(* Request slots are interchangeable; users and tokens are not, because of *)
(* AnyUser and AnyToken.                                                   *)
Symmetry == Permutations(Requests)

=============================================================================
