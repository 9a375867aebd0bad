------------------------------ MODULE MCIntake ------------------------------
(* Two similar alerts of an urgent and an ordinary service, two deliveries *)
(* and two combines at a time.                                             *)
EXTENDS Intake, TLC

AllSimilar == Alerts \X Alerts
Few == [taken |-> 2, asked |-> 2, time |-> 1, all |-> 4]

Sym == Permutations(Deliveries) \cup Permutations(Combines)

=============================================================================
