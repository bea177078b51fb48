------------------------------- MODULE MCClcSync -------------------------------
(* A version of a record, and the record of the catalogue for it. *)
EXTENDS ClcSync, TLC
MCParentOf == [v \in Versions |-> "parent"]
MCDocOf == [v \in Versions |-> "doc"]

\* Linked and synchronised; as the schema has it by default; linked and disabled.
MCGives == {[status |-> "SUCCESS", doc |-> "other", auto |-> TRUE],
            [status |-> "SUCCESS", doc |-> NoDoc, auto |-> TRUE],
            [status |-> "FAILED", doc |-> "other", auto |-> FALSE]}

\* A slot is as good as another.
TaskSymmetry == Permutations(Tasks)
================================================================================
