------------------------------- MODULE MCRouter -------------------------------
(***************************************************************************)
(* Router with two endpoints.                                              *)
(***************************************************************************)
EXTENDS Router
=============================================================================
