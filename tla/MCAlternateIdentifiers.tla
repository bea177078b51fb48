----------------------- MODULE MCAlternateIdentifiers -----------------------
(***************************************************************************)
(* Instances of AlternateIdentifiers for TLC.                              *)
(***************************************************************************)
EXTENDS AlternateIdentifiers, TLC

CONSTANTS p1, p2, r1, r2, r3, v1, v2, t1, t2

\* p1 has the versions r1 and r2, p2 has r3.
MCParentOf == [r \in Record |-> IF r = r3 THEN p2 ELSE p1]

Symmetry == Permutations(Task)

=============================================================================
