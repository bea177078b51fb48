------------------------------ MODULE MCNamesSync ------------------------------
(* A small instance of NamesSync. *)
EXTENDS NamesSync

MCUsers == {"u1"}
MCOrcids == {"o1"}
================================================================================
