------------------------ MODULE MCCommitteeApproval ------------------------
(***************************************************************************)
(* Instances of CommitteeApproval for TLC.                                 *)
(***************************************************************************)
EXTENDS CommitteeApproval, TLC

CONSTANTS f1, f2, r1, r2, r3, q1, q2, c1, EP

\* f1 has two versions, f2 one.
MCFamilyOf == [r \in {r1, r2, r3} |-> IF r = r3 THEN f2 ELSE f1]

MCPrefix == [c \in {c1} |-> EP]

\* r1 and r2 differ in nothing, for both may be deleted.
Symmetry == Permutations(Request) \cup Permutations({r1, r2})

=============================================================================
