----------------------------- MODULE MCSimpleOPD -----------------------------
(* An instance of SimpleOPD for TLC. *)
EXTENDS SimpleOPD

MCSFTSteps == <<1, 2>>
MCOPDSteps == <<1, 2, 3>>
=============================================================================
