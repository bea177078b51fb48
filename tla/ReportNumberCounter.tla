------------------------ MODULE ReportNumberCounter ------------------------
(***************************************************************************)
(* What the committee-approval workflow promises about report numbers:     *)
(* each is issued once while it is registered, and every series (prefix    *)
(* and year) is issued in order, without gaps.  A number may be retired    *)
(* when an operator deletes the record that holds it.                      *)
(*                                                                         *)
(* CommitteeApproval implements this specification.  A number is any       *)
(* record with the fields prefix, year and seq; actions quantify over the  *)
(* numbers that appear or disappear, so the set of numbers needs no bound. *)
(***************************************************************************)
EXTENDS Naturals

VARIABLES
    issued,       \* the registered numbers
    retired       \* numbers that were registered once and are not any more

counterVars == <<issued, retired>>

Previous(n) == [n EXCEPT !.seq = @ - 1]

Init ==
    /\ issued = {}
    /\ retired = {}

Issue ==
    /\ \E n \in issued' \ issued :
         /\ n.seq = 1 \/ Previous(n) \in issued \cup retired
         /\ issued' = issued \cup {n}
    /\ UNCHANGED retired

Retire ==
    /\ issued' \subseteq issued
    /\ retired' = retired \cup (issued \ issued')

Next == Issue \/ Retire

Spec == Init /\ [][Next]_counterVars

=============================================================================
