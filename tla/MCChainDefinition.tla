-------------------------- MODULE MCChainDefinition --------------------------
(* ChainDefinition on a small instance: two chains that share three levels, *)
(* all of which page the same person: one page may be mistaken for another. *)
EXTENDS ChainDefinition, TLC

Levels3 == {"l1", "l2", "l3"}
Targets1 == [l \in Levels3 |-> {"ann"}]
\* Two deletions under one run while levels are reordered; one under a run
\* whose levels have gaps, whose chain may go, or that starts meanwhile.
Rounds2 == [e \in {{"reorder"}, {"insert"}, {"drop"}, {"overlap"}} |->
              IF e = {"reorder"} THEN 2 ELSE 1]
RoundsInsert == [e \in {{"insert"}} |-> 2]

Chains2 == Permutations(Chains)
=============================================================================
