----------------------------- MODULE MCSessions -----------------------------
(* Small instances of Sessions for TLC.                                    *)
EXTENDS Sessions, TLC

(* Token ids and request slots are interchangeable.                        *)
Symmetry == Permutations(Tokens) \cup Permutations(Requests)

=============================================================================
