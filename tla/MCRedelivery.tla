----------------------------- MODULE MCRedelivery -----------------------------
(* Instances of Redelivery for TLC. *)
EXTENDS Redelivery, TLC

CONSTANTS t1, t2, s1, s2, g1, g2, c1, c2

Symmetry ==
    Permutations({t1, t2}) \cup Permutations({s1, s2})
        \cup Permutations({g1, g2}) \cup Permutations({c1, c2})

=============================================================================
