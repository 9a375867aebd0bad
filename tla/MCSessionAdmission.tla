------------------------- MODULE MCSessionAdmission -------------------------
(* Three sessions for two incidents of different priority, which may run   *)
(* on one of two models that each take one session; a request and two      *)
(* drains at a time.                                                       *)
EXTENDS SessionAdmission, TLC

WantsFirst == {{CHOOSE m \in Models : TRUE}}

Sym == Permutations(Drains)

=============================================================================
