----------------------------- MODULE MCEndpoints -----------------------------
(***************************************************************************)
(* Endpoints on small instances.  With IdRange = 2 every registration of a *)
(* peer uses the same id.                                                  *)
(***************************************************************************)
EXTENDS Endpoints
=============================================================================
