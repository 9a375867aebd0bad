-------------------------- MODULE MCEscalationChain --------------------------
(* EscalationChain on a small instance: two people who can own the incident, *)
(* and a definition of at most two levels, with or without gaps.           *)
EXTENDS EscalationChain
=============================================================================
