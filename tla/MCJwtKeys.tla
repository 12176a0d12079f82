----------------------------- MODULE MCJwtKeys -----------------------------
(* Small instances of JwtKeys for TLC.                                     *)
EXTENDS JwtKeys, TLC

(* Backend instances are interchangeable; key pairs are not, one of them   *)
(* is the built-in default.                                                *)
Symmetry == Permutations(Instances)

=============================================================================
