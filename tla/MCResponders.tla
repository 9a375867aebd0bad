---------------------------- MODULE MCResponders ----------------------------
(* Three people at most, two requests at a time besides the tick.          *)
EXTENDS Responders, TLC

\* One more than may respond to an incident.
Crowded == {{"ask", "answer"}, {"ask", "close"}, {"ask", "add"}}

\* Operations that share rows with a chain that pages, one mix that may fail.
Pairs == {{"ack", "add", "page", "fail"}, {"ack", "handoff", "page"}, {"ack", "demote", "page"},
          {"add", "remove", "page"}, {"ack", "close", "page"}}

\* The steps and the request of one person.
Alone == {{"ask", "add", "page"}}

All == Crowded \cup Pairs \cup Alone

Sizes == [m \in All |-> IF m \in Crowded THEN 3 ELSE IF m \in Pairs THEN 2 ELSE 1]

Sym == Permutations(Users) \cup Permutations(Clients)

=============================================================================
