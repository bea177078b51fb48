--------------------------- MODULE MCPublishPublic ---------------------------
(***************************************************************************)
(* Instances of PublishPublic for TLC.                                     *)
(***************************************************************************)
EXTENDS PublishPublic, TLC

CONSTANTS f1, g1, g2, r1, r2, d1, d2, q1, q2, c1, k1, k2, EP

\* f1 is the internal family; each copy gets a family of its own.
MCFamilyOf == [r \in Recid |-> CASE r = d1 -> g1 [] r = d2 -> g2 [] OTHER -> f1]

MCPrefix == [c \in {c1} |-> EP]

Symmetry == Permutations(Call) \cup Permutations(Request)

=============================================================================
