---------------------------- MODULE MCAISession ----------------------------
(* AISession on a small instance: up to two approval requests, two runs and *)
(* two requests in flight.                                                  *)
EXTENDS AISession
=============================================================================
