--------------------------- MODULE MCHarvestReader ---------------------------
(***************************************************************************)
(* An instance of HarvestReader for TLC: enough records for two pages and a*)
(* record that slips from one to the other, and a result that changes      *)
(* between any two requests.                                               *)
(***************************************************************************)
EXTENDS HarvestReader, TLC

CONSTANTS a, b, c, d

=============================================================================
