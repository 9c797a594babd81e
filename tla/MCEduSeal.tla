------------------------------ MODULE MCEduSeal -------------------------------
(* Instances of EduSeal for TLC. *)
EXTENDS EduSealInv, TLC

CONSTANTS t1, t2, s1, s2, g1, g2, c1, c2

Symmetry ==
    Permutations({t1, t2}) \cup Permutations({s1, s2})
        \cup Permutations({g1, g2}) \cup Permutations({c1, c2})

=============================================================================
