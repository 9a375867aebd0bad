------------------------- MODULE MCIncidentRequests -------------------------
(* IncidentRequests on a small instance: two people and up to two requests  *)
(* that read before either of them acts.                                    *)
EXTENDS IncidentRequests
=============================================================================
