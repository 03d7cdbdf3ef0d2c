------------------------------- MODULE MCKyCom -------------------------------
(* Instances of KyCom for TLC. *)
EXTENDS KyCom
=============================================================================
