--------------------------- MODULE Responders_proofs ---------------------------
(***************************************************************************)
(* Responders for any number of people, requests and steps: responders and *)
(* people asked never exceed the limit, every request has one outcome, no  *)
(* steps run beside an owner or for people nobody wants, and what rings    *)
(* transactions that wait for each other can form.                         *)
(***************************************************************************)
EXTENDS Responders, FiniteSetTheorems, TLAPS

Row == [status : {"none", "running", "stopped", "exhausted"}, stage : Int, due : BOOLEAN]

\* Reminder rows of some people.
Writes == UNION {[D -> Row] : D \in SUBSET Users}

Transaction == [op : Ops \cup {"none", "tick"}, user : Users \cup {NoUser}, at : Nat,
                fresh : BOOLEAN, yes : BOOLEAN,
                todo : SUBSET Users, insert : SUBSET Users, update : SUBSET Users,
                paged : SUBSET Users,
                write : Writes, saved : Writes,
                answered : SUBSET Users]

\* How far each operation goes before it commits.
Last == [ack |-> 3, close |-> 4, handoff |-> 4, add |-> 3, remove |-> 3, ask |-> 2,
         answer |-> 2, demote |-> 1, tick |-> 4]

Types ==
    /\ tx \in [Txns -> Transaction]
    /\ \A t \in Txns : tx[t].op # "none" =>
         tx[t].at \in 1 .. Last[tx[t].op] /\ (t = "tick" <=> tx[t].op = "tick")
    /\ \A t \in Txns : tx[t].op \in {"add", "ask", "answer"} => tx[t].user \in Users
    /\ reminder \in [Users -> Row]
    /\ responders \subseteq Users /\ late \subseteq Users /\ able \subseteq Users
    /\ request \in [Users -> {"none", "pending"} \cup Outcomes]

\* The operations that make room for somebody, once they have the incident.
Admits(t) == tx[t].op \in {"add", "ask", "answer"} /\ tx[t].at >= 2

\* They hold it to their end ...
Locked == \A t \in Txns : Admits(t) => incidentLock = t

\* ... so the room they found is still there.
Roomy ==
    \A t \in Txns : Admits(t) /\ tx[t].op # "answer" =>
        Cardinality(responders) + Cardinality(Pending \ {tx[t].user}) < Limit

\* What somebody has settled was pending and is not settled by anybody else.
Settled ==
    \A t \in Txns :
        /\ tx[t].answered \subseteq Pending
        /\ \A s \in Txns \ {t} : tx[s].answered \cap tx[t].answered = {}
        /\ tx[t].op = "answer" =>
             /\ tx[t].todo \cup tx[t].answered \subseteq {tx[t].user}
             /\ tx[t].at = 2 => tx[t].user \in tx[t].todo \cup tx[t].answered

Counted == IsFiniteSet(responders \cup Pending) /\ LimitHolds

\* The inductive invariant.
IInv == Types /\ Locked /\ Roomy /\ Settled /\ Counted

-----------------------------------------------------------------------------
(* The plans.                                                              *)

\* Where each operation is in its plan, by what it does there.
LEMMA PhaseIs ==
    ASSUME NEW op \in Ops \cup {"tick"}, NEW at \in 1 .. Last[op]
    PROVE  /\ Plan[op][at] = "chain" => op \in {"ack", "close", "handoff", "remove"} /\ at = 1
           /\ Plan[op][at] = "incident" =>
                \/ op \in {"add", "ask", "answer"} /\ at = 1
                \/ op \in {"ack", "close", "handoff", "remove"} /\ at = 2
           /\ Plan[op][at] = "stop" =>
                \/ op \in {"ack", "close", "handoff", "remove"} /\ at = 3
                \/ op = "demote" /\ at = 1
           /\ Plan[op][at] = "finish" =>
                \/ op \in {"close", "tick"} /\ at = 4
                \/ op \in {"add", "answer"} /\ at = 2
           /\ Plan[op][at] = "start" =>
                \/ op = "handoff" /\ at = 4
                \/ op \in {"add", "tick"} /\ at = 3
           /\ Plan[op][at] = "claim" => op = "tick" /\ at = 1
           /\ Plan[op][at] = "advance" => op = "tick" /\ at = 2
           /\ Plan[op][at] = "commit" => op = "ask" /\ at = 2
           /\ Plan[op][at] # "none"
           /\ op \in {"add", "ask", "answer"} /\ at = 1 => Plan[op][at] = "incident"
<1>1. CASE op \in {"ack", "close", "handoff"}
  BY <1>1 DEF Plan, AckPlan, Last
<1>2. CASE op \in {"add", "ask", "answer"}
  BY <1>2 DEF Plan, Last
<1>3. CASE op \in {"remove", "demote", "tick"}
  BY <1>3 DEF Plan, Last
<1> QED
  BY <1>1, <1>2, <1>3 DEF Ops

\* What comes after.
LEMMA NextPhaseIs ==
    ASSUME NEW op \in Ops \cup {"tick"}, NEW at \in 1 .. Last[op], op = "ask" => at = 1
    PROVE  /\ Plan[op][at + 1] = "stop" => op \in {"ack", "close", "handoff", "remove"} /\ at = 2
           /\ Plan[op][at + 1] = "finish" =>
                \/ op \in {"close", "tick"} /\ at = 3
                \/ op \in {"add", "answer"} /\ at = 1
           /\ Plan[op][at + 1] = "advance" => op = "tick" /\ at = 1
           /\ Plan[op][at + 1] = "start" =>
                \/ op = "handoff" /\ at = 3
                \/ op = "add" /\ at = 2
                \/ op = "tick" /\ at = 2
           /\ op # "ask" => (Plan[op][at + 1] = "commit" <=> at = Last[op])
           /\ op = "ask" /\ at = 1 => Plan[op][at + 1] = "commit"
           /\ op = "answer" /\ at = 1 => Plan[op][at + 1] = "finish"
<1>1. CASE op \in {"ack", "close", "handoff"}
  BY <1>1 DEF Plan, AckPlan, Last
<1>2. CASE op \in {"add", "ask", "answer"}
  BY <1>2 DEF Plan, Last
<1>3. CASE op \in {"remove", "demote", "tick"}
  BY <1>3 DEF Plan, Last
<1> QED
  BY <1>1, <1>2, <1>3 DEF Ops

\* Names of transactions, and of what they do.
LEMMA Names ==
    /\ "tick" \in Txns /\ Clients \subseteq Txns /\ NoTxn \notin Txns /\ "tick" \notin Clients
    /\ "tick" \notin Ops /\ "none" \notin Ops
    /\ Idle \in Transaction /\ Idle.op = "none" /\ Idle.answered = {} /\ Idle.todo = {}
<1>1. [u \in {} |-> NoReminder] \in Writes
  <2>1. [u \in {} |-> NoReminder] \in [{} -> Row] /\ {} \in SUBSET Users
    OBVIOUS
  <2> QED
    BY <2>1 DEF Writes
<1>2. Idle \in Transaction
  BY <1>1 DEF Idle, Transaction
<1> QED
  BY <1>2, RespondersAssumption DEF Idle, Txns, Ops

-----------------------------------------------------------------------------
(* How transactions move.                                                  *)

Same(t) == \A s \in Txns \ {t} : tx'[s] = tx[s]

\* It begins ...
Begins(t) ==
    /\ tx[t].op = "none" /\ UNCHANGED incidentLock
    /\ tx'[t].op \in Ops \cup {"tick"} /\ (t = "tick" <=> tx'[t].op = "tick")
    /\ tx'[t].at = 1 /\ tx'[t].answered = {}
    /\ tx'[t].op \in {"add", "ask", "answer"} => tx'[t].user \in Users /\ tx'[t].todo = {}

\* ... works on rows of reminders ...
Works(t) ==
    /\ tx[t].op # "none" /\ UNCHANGED incidentLock
    /\ tx'[t].op = tx[t].op /\ tx'[t].user = tx[t].user /\ tx'[t].at = tx[t].at
    /\ tx'[t].answered = tx[t].answered
    /\ tx[t].op = "answer" => tx'[t].todo = tx[t].todo

\* ... settles a request, if it is still pending ...
SettlesOne(t) ==
    /\ tx[t].op # "none" /\ UNCHANGED incidentLock
    /\ tx'[t].op = tx[t].op /\ tx'[t].user = tx[t].user /\ tx'[t].at = tx[t].at
    /\ \E u \in Users :
         /\ u \in tx[t].todo /\ tx'[t].todo = tx[t].todo \ {u} /\ RequestFree(t, u)
         /\ \/ u \in Pending /\ tx'[t].answered = tx[t].answered \cup {u}
            \/ tx[t].op # "answer" /\ tx'[t].answered = tx[t].answered

\* ... and goes on to the next phase, with the incident from there on.
Goes(t) ==
    /\ tx[t].op # "none"
    /\ tx'[t].op = tx[t].op /\ tx'[t].user = tx[t].user /\ tx'[t].answered = tx[t].answered
    /\ tx'[t].at = tx[t].at + 1 /\ tx'[t].at \in 1 .. Last[tx[t].op]
    /\ tx[t].op = "answer" => tx'[t].todo = {tx[t].user}
    /\ \/ UNCHANGED incidentLock
       \/ incidentLock = NoTxn /\ incidentLock' = t
    /\ tx[t].op \in {"add", "ask", "answer"} /\ tx[t].at = 1 =>
         incidentLock = NoTxn /\ incidentLock' = t /\ ~Refused(tx[t])

Moved(t) ==
    /\ tx' \in [Txns -> Transaction] /\ Same(t)
    /\ UNCHANGED <<responders, request, reminder, late, able>>
    /\ Begins(t) \/ Works(t) \/ SettlesOne(t) \/ Goes(t)

\* A transaction in a phase is one of the operations, at a place in its plan.
LEMMA InPhase ==
    ASSUME Types, NEW t \in Txns, NEW phase, Phase(t) = phase, phase # "none"
    PROVE  /\ tx[t] \in Transaction /\ tx[t].op # "none" /\ tx[t].op \in Ops \cup {"tick"}
           /\ tx[t].at \in 1 .. Last[tx[t].op] /\ Plan[tx[t].op][tx[t].at] = phase
BY DEF Types, Phase, Transaction

\* Writing a reminder row.
LEMMA WritesRow ==
    ASSUME Types, NEW t \in Txns, NEW u \in Users, NEW row \in Row
    PROVE  Written(t, u, row) \in Writes
<1>1. tx[t] \in Transaction
  BY DEF Types
<1>2. PICK D \in SUBSET Users : tx[t].write \in [D -> Row]
  BY <1>1 DEF Transaction, Writes
<1>3. Written(t, u, row) \in [D \cup {u} -> Row] /\ D \cup {u} \in SUBSET Users
  BY <1>2 DEF Written
<1> QED
  BY <1>3 DEF Writes

\* What the next phase works on are people.
LEMMA ListsPeople ==
    ASSUME Types, NEW r \in Transaction, r.op # "none", r.at \in 1 .. Last[r.op],
           r.op \in {"add", "ask", "answer"} => r.user \in Users,
           r.op = "ask" => r.at = 1,
           NEW T \in Lists(r)
    PROVE  T \subseteq Users /\ (r.op = "answer" /\ r.at = 1 => T = {r.user})
<1>0. r.op \in Ops \cup {"tick"} /\ DOMAIN r.write \subseteq Users
  BY DEF Transaction, Writes
<1>1. /\ Running \subseteq Users /\ Pending \subseteq Users /\ late \subseteq Users
      /\ able \subseteq Users
  BY DEF Running, Pending, Types
<1>2. CASE Plan[r.op][r.at + 1] = "stop"
  <2>1. T = Stops(r)
    BY <1>2 DEF Lists
  <2>2. Stops(r) \subseteq Users
    BY <1>1 DEF Stops
  <2>3. r.op # "answer"
    BY <1>0, <1>2, NextPhaseIs
  <2> QED
    BY <2>1, <2>2, <2>3
<1>3. CASE Plan[r.op][r.at + 1] = "finish"
  <2>1. T = Settles(r) /\ r.op \in {"close", "tick", "add", "answer"}
    BY <1>0, <1>3, NextPhaseIs DEF Lists
  <2>2. Settles(r) \subseteq Users /\ (r.op = "answer" => Settles(r) = {r.user})
    BY <1>1, <2>1 DEF Settles
  <2> QED
    BY <2>1, <2>2
<1>4. CASE Plan[r.op][r.at + 1] \notin {"stop", "finish"}
  <2>1. ~(r.op = "answer" /\ r.at = 1)
    BY <1>0, <1>4, NextPhaseIs
  <2>2. T \subseteq Users
    BY <1>0, <1>1, <1>4 DEF Lists
  <2> QED
    BY <2>1, <2>2
<1> QED
  BY <1>2, <1>3, <1>4

\* Going on to the next phase.
LEMMA GoesOn ==
    ASSUME Types, NEW t \in Txns, NEW r \in Transaction, r.op # "none",
           r.at \in 1 .. Last[r.op], r.at < Last[r.op],
           r.op \in {"add", "ask", "answer"} => r.user \in Users,
           Onward(t, r)
    PROVE  /\ tx' \in [Txns -> Transaction] /\ Same(t)
           /\ tx'[t].op = r.op /\ tx'[t].user = r.user /\ tx'[t].answered = r.answered
           /\ tx'[t].at = r.at + 1 /\ tx'[t].at \in 1 .. Last[r.op]
           /\ r.op = "answer" => tx'[t].todo = {r.user}
<1>0. /\ r.op \in Ops \cup {"tick"} /\ Last[r.op] \in Nat /\ tx \in [Txns -> Transaction]
      /\ r.op = "ask" => r.at = 1
      /\ r.op = "answer" => r.at = 1
  BY DEF Transaction, Types, Last, Ops
<1>1. PICK T \in Lists(r) : tx' = [tx EXCEPT ![t] = [r EXCEPT !.at = @ + 1, !.todo = T,
               !.paged = IF r.op = "handoff" /\ T # {} THEN T ELSE @]]
  BY DEF Onward
<1>2. T \subseteq Users /\ (r.op = "answer" => T = {r.user})
  BY <1>0, ListsPeople
<1> DEFINE q == [r EXCEPT !.at = @ + 1, !.todo = T,
                          !.paged = IF r.op = "handoff" /\ T # {} THEN T ELSE @]
<1>3. /\ q \in Transaction /\ q.op = r.op /\ q.user = r.user /\ q.answered = r.answered
      /\ q.at = r.at + 1 /\ q.todo = T
  <2> DEFINE P == IF r.op = "handoff" /\ T # {} THEN T ELSE r.paged
  <2>1. P \in SUBSET Users /\ r.at + 1 \in Nat /\ T \in SUBSET Users
    BY <1>2 DEF Transaction
  <2>2. q = [r EXCEPT !.at = @ + 1, !.todo = T, !.paged = P]
    OBVIOUS
  <2> HIDE DEF P, q
  <2> QED
    BY <2>1, <2>2 DEF Transaction
<1> HIDE DEF q
<1>4. tx' = [tx EXCEPT ![t] = q]
  BY <1>1 DEF q
<1>5. tx' \in [Txns -> Transaction] /\ Same(t) /\ tx'[t] = q
  BY <1>0, <1>3, <1>4 DEF Same
<1> QED
  BY <1>0, <1>2, <1>3, <1>5

\* Every step is a commit, the end of a transaction without one, time, or such
\* a move.
LEMMA MovesAre ==
    ASSUME Types, [Next]_vars
    PROVE  \/ \E t \in Txns : Commit(t) \/ Leave(t) \/ Moved(t)
           \/ \E u \in Users : Elapse(u)
           \/ UNCHANGED vars
<1> DEFINE Goal == \/ \E t \in Txns : Commit(t) \/ Leave(t) \/ Moved(t)
                   \/ \E u \in Users : Elapse(u)
                   \/ UNCHANGED vars
<1>0. /\ tx \in [Txns -> Transaction] /\ "tick" \in Txns /\ Clients \subseteq Txns
      /\ "tick" \notin Clients /\ "tick" \notin Ops /\ "none" \notin Ops /\ Idle \in Transaction
      /\ late \subseteq Users /\ able \subseteq Users /\ reminder \in [Users -> Row]
      /\ \A t \in Txns : tx[t].op \in {"add", "ask", "answer"} => tx[t].user \in Users
  BY Names DEF Types
<1>00. \A t \in Txns : tx[t].op # "none" => tx[t].op = "tick" <=> t = "tick"
  BY DEF Types
<1>1. ASSUME NEW c \in Clients, NEW op \in Ops, NEW u \in Users, NEW yes \in BOOLEAN,
             Begin(c, op, u, yes)
      PROVE  Moved(c)
  <2> DEFINE w == IF op \in {"close", "handoff"} THEN NoUser ELSE u
             q == [Idle EXCEPT !.op = op, !.yes = yes, !.user = w, !.fresh = u \notin late,
                               !.todo = IF op = "demote" THEN Running \cap {u} ELSE {}]
  <2>1. /\ q \in Transaction /\ q.op = op /\ q.user = w /\ q.at = 1 /\ q.answered = {}
        /\ q.todo = IF op = "demote" THEN Running \cap {u} ELSE {}
    <3> DEFINE T == IF op = "demote" THEN Running \cap {u} ELSE {}
               f == u \notin late
    <3>1. T \in SUBSET Users /\ f \in BOOLEAN /\ w \in Users \cup {NoUser}
      OBVIOUS
    <3>2. q = [Idle EXCEPT !.op = op, !.yes = yes, !.user = w, !.fresh = f, !.todo = T]
      OBVIOUS
    <3>3. Idle.at = 1 /\ Idle.answered = {}
      BY DEF Idle
    <3> HIDE DEF T, f, q, w
    <3>4. /\ q \in Transaction /\ q.op = op /\ q.user = w /\ q.at = 1 /\ q.answered = {}
          /\ q.todo = T
      BY <1>0, <3>1, <3>2, <3>3 DEF Transaction
    <3> QED
      BY <3>4 DEF T
  <2>2. tx' = [tx EXCEPT ![c] = q] /\ tx[c].op = "none"
    BY <1>1 DEF Begin
  <2> HIDE DEF q
  <2>3. tx' \in [Txns -> Transaction] /\ Same(c) /\ tx'[c] = q
    BY <1>0, <2>1, <2>2 DEF Same
  <2>4. UNCHANGED <<responders, request, reminder, late, able, incidentLock>>
    BY <1>1 DEF Begin, rows, locks
  <2>5. Begins(c)
    BY <1>0, <2>1, <2>2, <2>3, <2>4 DEF Begins
  <2> QED
    BY <2>3, <2>4, <2>5 DEF Moved
<1>2. ASSUME TickBegins PROVE Moved("tick")
  <2>1. [Idle EXCEPT !.op = "tick"] \in Transaction
    BY <1>0 DEF Transaction
  <2>2. /\ [Idle EXCEPT !.op = "tick"].op = "tick" /\ [Idle EXCEPT !.op = "tick"].at = 1
        /\ [Idle EXCEPT !.op = "tick"].answered = {}
    BY DEF Idle
  <2>3. /\ tx' \in [Txns -> Transaction] /\ Same("tick")
        /\ tx'["tick"] = [Idle EXCEPT !.op = "tick"] /\ tx["tick"].op = "none"
    BY <1>0, <1>2, <2>1 DEF TickBegins, Same
  <2>4. UNCHANGED <<responders, request, reminder, late, able, incidentLock>>
    BY <1>2 DEF TickBegins, rows, locks
  <2>5. Begins("tick")
    BY <1>0, <2>2, <2>3, <2>4 DEF Begins
  <2> QED
    BY <2>3, <2>4, <2>5 DEF Moved
<1>3. ASSUME NEW t \in Txns, Proceed(t) PROVE Moved(t)
  <2>1. PICK phase \in {"stop", "finish", "start"} : Phase(t) = phase
    BY <1>3 DEF Proceed, Done
  <2>2. /\ tx[t] \in Transaction /\ tx[t].op # "none" /\ tx[t].op \in Ops \cup {"tick"}
        /\ tx[t].at \in 1 .. Last[tx[t].op] /\ Plan[tx[t].op][tx[t].at] = phase
    BY <2>1, InPhase
  <2>3. tx[t].op # "ask" /\ ~(tx[t].op \in {"add", "ask", "answer"} /\ tx[t].at = 1)
    BY <2>1, <2>2, PhaseIs
  <2>4. Plan[tx[t].op][tx[t].at + 1] # "commit"
    BY <1>3 DEF Proceed
  <2>5. tx[t].at < Last[tx[t].op]
    <3>1. tx[t].at # Last[tx[t].op]
      BY <2>2, <2>3, <2>4, NextPhaseIs
    <3> QED
      BY <2>2, <3>1 DEF Last, Ops
  <2>6. Onward(t, tx[t]) /\ UNCHANGED <<rows, locks>>
    BY <1>3 DEF Proceed
  <2>7. /\ tx' \in [Txns -> Transaction] /\ Same(t)
        /\ tx'[t].op = tx[t].op /\ tx'[t].user = tx[t].user /\ tx'[t].answered = tx[t].answered
        /\ tx'[t].at = tx[t].at + 1 /\ tx'[t].at \in 1 .. Last[tx[t].op]
        /\ tx[t].op = "answer" => tx'[t].todo = {tx[t].user}
    BY <1>0, <2>2, <2>5, <2>6, GoesOn
  <2>8. Goes(t)
    BY <2>2, <2>3, <2>6, <2>7 DEF Goes, locks
  <2> QED
    BY <2>6, <2>7, <2>8 DEF Moved, rows
<1>4. ASSUME NEW t \in Txns, LockChain(t) PROVE Moved(t)
  <2>1. Phase(t) = "chain" /\ Onward(t, tx[t]) /\ UNCHANGED <<rows, incidentLock>>
    BY <1>4 DEF LockChain
  <2>2. /\ tx[t] \in Transaction /\ tx[t].op # "none" /\ tx[t].op \in Ops \cup {"tick"}
        /\ tx[t].at \in 1 .. Last[tx[t].op] /\ Plan[tx[t].op][tx[t].at] = "chain"
    BY <2>1, InPhase
  <2>3. tx[t].op \in {"ack", "close", "handoff", "remove"} /\ tx[t].at = 1
    BY <2>2, PhaseIs
  <2>4. tx[t].at < Last[tx[t].op]
    BY <2>3 DEF Last
  <2>5. /\ tx' \in [Txns -> Transaction] /\ Same(t)
        /\ tx'[t].op = tx[t].op /\ tx'[t].user = tx[t].user /\ tx'[t].answered = tx[t].answered
        /\ tx'[t].at = tx[t].at + 1 /\ tx'[t].at \in 1 .. Last[tx[t].op]
        /\ tx[t].op = "answer" => tx'[t].todo = {tx[t].user}
    BY <1>0, <2>1, <2>2, <2>4, GoesOn
  <2>6. Goes(t)
    BY <2>1, <2>2, <2>3, <2>5 DEF Goes
  <2> QED
    BY <2>1, <2>5, <2>6 DEF Moved, rows
<1>5. ASSUME NEW t \in Txns, LockIncident(t) PROVE Moved(t) \/ Leave(t)
  <2>1. Phase(t) = "incident" /\ incidentLock = NoTxn
    BY <1>5 DEF LockIncident
  <2>2. CASE Refused(tx[t])
    BY <1>5, <2>2 DEF LockIncident
  <2>3. CASE ~Refused(tx[t])
    <3>1. Onward(t, tx[t]) /\ incidentLock' = t /\ UNCHANGED rows
      BY <1>5, <2>3 DEF LockIncident
    <3>2. /\ tx[t] \in Transaction /\ tx[t].op # "none" /\ tx[t].op \in Ops \cup {"tick"}
          /\ tx[t].at \in 1 .. Last[tx[t].op] /\ Plan[tx[t].op][tx[t].at] = "incident"
      BY <2>1, InPhase
    <3>3. \/ tx[t].op \in {"add", "ask", "answer"} /\ tx[t].at = 1
          \/ tx[t].op \in {"ack", "close", "handoff", "remove"} /\ tx[t].at = 2
      BY <3>2, PhaseIs
    <3>4. tx[t].at < Last[tx[t].op]
      BY <3>3 DEF Last
    <3>5. /\ tx' \in [Txns -> Transaction] /\ Same(t)
          /\ tx'[t].op = tx[t].op /\ tx'[t].user = tx[t].user
          /\ tx'[t].answered = tx[t].answered
          /\ tx'[t].at = tx[t].at + 1 /\ tx'[t].at \in 1 .. Last[tx[t].op]
          /\ tx[t].op = "answer" => tx'[t].todo = {tx[t].user}
      BY <1>0, <3>1, <3>2, <3>4, GoesOn
    <3>6. Goes(t)
      BY <2>1, <2>3, <3>1, <3>2, <3>5 DEF Goes
    <3> QED
      BY <3>1, <3>5, <3>6 DEF Moved, rows
  <2> QED
    BY <2>2, <2>3
\* A step that changes fields of one transaction which is not an answer.
<1>6. ASSUME NEW t \in Txns, NEW q \in Transaction, tx' = [tx EXCEPT ![t] = q],
             tx[t].op \notin {"none", "answer"}, q.op = tx[t].op, q.user = tx[t].user,
             q.at = tx[t].at, q.answered = tx[t].answered,
             UNCHANGED <<responders, request, reminder, late, able, incidentLock>>
      PROVE  Moved(t)
  <2>1. tx' \in [Txns -> Transaction] /\ Same(t) /\ tx'[t] = q
    BY <1>0, <1>6 DEF Same
  <2>2. Works(t)
    BY <1>6, <2>1 DEF Works
  <2> QED
    BY <1>6, <2>1, <2>2 DEF Moved
<1>7. ASSUME NEW t \in Txns, NEW u \in Users, Stop(t, u) PROVE Moved(t)
  <2>1. Phase(t) = "stop" /\ UNCHANGED <<responders, request, reminder, late, able, incidentLock>>
    BY <1>7 DEF Stop, rows, locks
  <2>2. tx[t].op \notin {"none", "answer"}
    BY <2>1, InPhase, PhaseIs
  <2> DEFINE row == [reminder[u] EXCEPT !.status = "stopped", !.due = FALSE]
             W == Written(t, u, row)
             q == [tx[t] EXCEPT !.todo = @ \ {u}, !.write = W]
  <2>3. row \in Row
    BY <1>0 DEF Row
  <2>4. W \in Writes
    BY <2>3, WritesRow
  <2>5. tx' = [tx EXCEPT ![t] = q]
    BY <1>0, <1>7 DEF Stop
  <2> HIDE DEF W
  <2>6. /\ q \in Transaction /\ q.op = tx[t].op /\ q.user = tx[t].user /\ q.at = tx[t].at
        /\ q.answered = tx[t].answered
    BY <1>0, <2>4 DEF Transaction
  <2> HIDE DEF q
  <2> QED
    BY <1>6, <2>1, <2>2, <2>5, <2>6
<1>8. ASSUME NEW t \in Txns, NEW u \in Users, StartDecides(t, u) PROVE Moved(t)
  <2>1. Phase(t) = "start" /\ UNCHANGED <<responders, request, reminder, late, able, incidentLock>>
    BY <1>8 DEF StartDecides, rows, locks
  <2>2. tx[t].op \notin {"none", "answer"}
    BY <2>1, InPhase, PhaseIs
  <2>3. PICK I \in SUBSET Users, U \in SUBSET Users :
          tx' = [tx EXCEPT ![t] = [tx[t] EXCEPT !.todo = @ \ {u}, !.insert = I, !.update = U]]
    <3> DEFINE steps == u \in able /\ Sees(t, u).status # "running"
               new == Sees(t, u).status = "none"
               I == IF steps /\ new THEN tx[t].insert \cup {u} ELSE tx[t].insert
               U == IF steps /\ ~new THEN tx[t].update \cup {u} ELSE tx[t].update
    <3>1. I \in SUBSET Users /\ U \in SUBSET Users
      BY <1>0 DEF Transaction
    <3>2. tx' = [tx EXCEPT ![t] = [tx[t] EXCEPT !.todo = @ \ {u}, !.insert = I, !.update = U]]
      BY <1>0, <1>8 DEF StartDecides
    <3> HIDE DEF I, U
    <3> QED
      BY <3>1, <3>2
  <2> DEFINE q == [tx[t] EXCEPT !.todo = @ \ {u}, !.insert = I, !.update = U]
  <2>4. /\ q \in Transaction /\ q.op = tx[t].op /\ q.user = tx[t].user /\ q.at = tx[t].at
        /\ q.answered = tx[t].answered
    BY <1>0 DEF Transaction
  <2>5. tx' = [tx EXCEPT ![t] = q]
    BY <2>3
  <2> HIDE DEF q
  <2> QED
    BY <1>6, <2>1, <2>2, <2>4, <2>5
<1>9. ASSUME NEW t \in Txns, NEW u \in Users, StartWrites(t, u) PROVE Moved(t)
  <2>1. Phase(t) = "start" /\ UNCHANGED <<responders, request, reminder, late, able, incidentLock>>
    BY <1>9 DEF StartWrites, rows, locks
  <2>2. tx[t].op \notin {"none", "answer"}
    BY <2>1, InPhase, PhaseIs
  <2> DEFINE W == Written(t, u, Started(t))
             q == [tx[t] EXCEPT !.insert = @ \ {u}, !.update = @ \ {u}, !.write = W]
  <2>3. Started(t) \in Row
    BY DEF Started, Row
  <2>4. W \in Writes
    BY <2>3, WritesRow
  <2>5. tx' = [tx EXCEPT ![t] = q]
    BY <1>0, <1>9 DEF StartWrites
  <2> HIDE DEF W
  <2>6. /\ q \in Transaction /\ q.op = tx[t].op /\ q.user = tx[t].user /\ q.at = tx[t].at
        /\ q.answered = tx[t].answered
    BY <1>0, <2>4 DEF Transaction
  <2> HIDE DEF q
  <2> QED
    BY <1>6, <2>1, <2>2, <2>5, <2>6
<1>10. ASSUME NEW t \in Txns, NEW u \in Users, StartClashes(t, u) PROVE Moved(t) \/ Leave(t)
  <2>1. CASE t # "tick"
    BY <1>10, <2>1 DEF StartClashes
  <2>2. CASE t = "tick"
    <3>1. Phase(t) = "start" /\ UNCHANGED <<responders, request, reminder, late, able, incidentLock>>
      BY <1>10, <2>2 DEF StartClashes, rows
    <3>2. tx[t].op \notin {"none", "answer"}
      BY <3>1, InPhase, PhaseIs
    <3> DEFINE W == tx[t].saved
               q == [tx[t] EXCEPT !.insert = {}, !.update = {}, !.todo = {}, !.paged = {},
                                  !.write = W]
    <3>3. W \in Writes
      BY <1>0 DEF Transaction
    <3>4. tx' = [tx EXCEPT ![t] = q]
      BY <1>0, <1>10, <2>2 DEF StartClashes
    <3> HIDE DEF W
    <3>5. /\ q \in Transaction /\ q.op = tx[t].op /\ q.user = tx[t].user /\ q.at = tx[t].at
          /\ q.answered = tx[t].answered
      BY <1>0, <3>3 DEF Transaction
    <3> HIDE DEF q
    <3> QED
      BY <1>6, <3>1, <3>2, <3>4, <3>5
  <2> QED
    BY <2>1, <2>2
<1>11. ASSUME NEW t \in Txns, NEW u \in Users, Settle(t, u) PROVE Moved(t) \/ Leave(t)
  <2>1. Phase(t) = "finish" /\ u \in tx[t].todo /\ RequestFree(t, u)
    BY <1>11 DEF Settle
  <2>2. tx[t].op # "none" /\ tx[t] \in Transaction
    BY <2>1, InPhase
  <2>3. CASE u \in Pending
    <3> DEFINE q == [tx[t] EXCEPT !.todo = @ \ {u}, !.answered = @ \cup {u}]
    <3>1. /\ q \in Transaction /\ q.op = tx[t].op /\ q.user = tx[t].user /\ q.at = tx[t].at
          /\ q.todo = tx[t].todo \ {u} /\ q.answered = tx[t].answered \cup {u}
      BY <2>2 DEF Transaction
    <3>2. tx' = [tx EXCEPT ![t] = q] /\ UNCHANGED <<rows, locks>>
      BY <1>0, <1>11, <2>3 DEF Settle
    <3> HIDE DEF q
    <3>3. tx' \in [Txns -> Transaction] /\ Same(t) /\ tx'[t] = q
      BY <1>0, <3>1, <3>2 DEF Same
    <3>4. SettlesOne(t)
      BY <2>1, <2>2, <2>3, <3>1, <3>2, <3>3 DEF SettlesOne, locks
    <3> QED
      BY <3>2, <3>3, <3>4 DEF Moved, rows
  <2>4. CASE u \notin Pending /\ tx[t].op = "answer"
    BY <1>11, <2>4 DEF Settle
  <2>5. CASE u \notin Pending /\ tx[t].op # "answer"
    <3> DEFINE q == [tx[t] EXCEPT !.todo = @ \ {u}]
    <3>1. /\ q \in Transaction /\ q.op = tx[t].op /\ q.user = tx[t].user /\ q.at = tx[t].at
          /\ q.todo = tx[t].todo \ {u} /\ q.answered = tx[t].answered
      BY <2>2 DEF Transaction
    <3>2. tx' = [tx EXCEPT ![t] = q] /\ UNCHANGED <<rows, locks>>
      BY <1>0, <1>11, <2>5 DEF Settle
    <3> HIDE DEF q
    <3>3. tx' \in [Txns -> Transaction] /\ Same(t) /\ tx'[t] = q
      BY <1>0, <3>1, <3>2 DEF Same
    <3>4. SettlesOne(t)
      BY <2>1, <2>2, <2>5, <3>1, <3>2, <3>3 DEF SettlesOne, locks
    <3> QED
      BY <3>2, <3>3, <3>4 DEF Moved, rows
  <2> QED
    BY <2>3, <2>4, <2>5
<1>12. ASSUME Claim PROVE Moved("tick")
  <2> DEFINE due == {u \in Running : reminder[u].due /\ ReminderFree("tick", u)}
             W == [u \in due |-> reminder[u]]
             r == [tx["tick"] EXCEPT !.write = W]
  <2>1. /\ Phase("tick") = "claim" /\ Onward("tick", r) /\ UNCHANGED <<rows, locks>>
    BY <1>12 DEF Claim
  <2>2. /\ tx["tick"] \in Transaction /\ tx["tick"].op = "tick" /\ tx["tick"].at = 1
    BY <1>0, <2>1, InPhase, PhaseIs
  <2>3. W \in Writes
    <3>1. due \in SUBSET Users
      BY DEF Running
    <3>2. W \in [due -> Row]
      BY <1>0, <3>1
    <3> HIDE DEF W, due
    <3> QED
      BY <3>1, <3>2 DEF Writes
  <2> HIDE DEF W
  <2>4. /\ r \in Transaction /\ r.op = "tick" /\ r.at = 1 /\ r.user = tx["tick"].user
        /\ r.answered = tx["tick"].answered
    BY <2>2, <2>3 DEF Transaction
  <2> HIDE DEF r
  <2>5. r.at \in 1 .. Last[r.op] /\ r.at < Last[r.op]
    BY <2>4 DEF Last
  <2>6. /\ tx' \in [Txns -> Transaction] /\ Same("tick")
        /\ tx'["tick"].op = r.op /\ tx'["tick"].user = r.user /\ tx'["tick"].answered = r.answered
        /\ tx'["tick"].at = r.at + 1 /\ tx'["tick"].at \in 1 .. Last[r.op]
    BY <1>0, <2>1, <2>4, <2>5, GoesOn
  <2>7. Goes("tick")
    BY <2>1, <2>2, <2>4, <2>6 DEF Goes, locks
  <2> QED
    BY <2>1, <2>6, <2>7 DEF Moved, rows
<1>13. ASSUME NEW u \in Users, Advance(u) PROVE Moved("tick")
  <2>1. Phase("tick") = "advance" /\ UNCHANGED <<responders, request, reminder, late, able, incidentLock>>
    BY <1>13 DEF Advance, rows, locks
  <2>2. tx["tick"].op \notin {"none", "answer"}
    BY <1>0, <2>1, InPhase, PhaseIs
  <2>3. PICK row \in Row :
          tx' = [tx EXCEPT !["tick"].todo = @ \ {u}, !["tick"].write = Written("tick", u, row)]
    <3> DEFINE next == IF incident = "closed" \/ u \notin able
                   THEN [reminder[u] EXCEPT !.status = "stopped", !.due = FALSE]
                   ELSE [status |-> IF reminder[u].stage + 2 < Stages THEN "running"
                                    ELSE "exhausted",
                         stage |-> reminder[u].stage + 1, due |-> FALSE]
    <3>0. reminder[u] \in Row /\ reminder[u].stage \in Int
      BY <1>0 DEF Row
    <3>1. next \in Row
      <4>1. [reminder[u] EXCEPT !.status = "stopped", !.due = FALSE] \in Row
        BY <3>0 DEF Row
      <4>2. [status |-> IF reminder[u].stage + 2 < Stages THEN "running" ELSE "exhausted",
             stage |-> reminder[u].stage + 1, due |-> FALSE] \in Row
        BY <3>0 DEF Row
      <4> QED
        BY <4>1, <4>2
    <3>2. tx' = [tx EXCEPT !["tick"].todo = @ \ {u}, !["tick"].write = Written("tick", u, next)]
      BY <1>13 DEF Advance
    <3> HIDE DEF next
    <3> QED
      BY <3>1, <3>2
  <2> DEFINE W == Written("tick", u, row)
             q == [tx["tick"] EXCEPT !.todo = @ \ {u}, !.write = W]
  <2>4. W \in Writes
    BY <1>0, WritesRow
  <2>5. tx' = [tx EXCEPT !["tick"] = q]
    BY <1>0, <2>3
  <2> HIDE DEF W
  <2>6. /\ q \in Transaction /\ q.op = tx["tick"].op /\ q.user = tx["tick"].user
        /\ q.at = tx["tick"].at /\ q.answered = tx["tick"].answered
    BY <1>0, <2>4 DEF Transaction
  <2> HIDE DEF q
  <2> QED
    BY <1>0, <1>6, <2>1, <2>2, <2>5, <2>6
<1>14. ASSUME Fire PROVE Moved("tick")
  <2>1. Phase("tick") = "advance" /\ UNCHANGED <<rows, incidentLock>>
    BY <1>14 DEF Fire, Done, locks
  <2>2. tx["tick"] \in Transaction /\ tx["tick"].op = "tick" /\ tx["tick"].at = 2
    BY <1>0, <2>1, InPhase, PhaseIs
  <2>3. tx["tick"].at \in 1 .. Last[tx["tick"].op] /\ tx["tick"].at < Last[tx["tick"].op]
          /\ tx["tick"].at + 1 \in 1 .. Last[tx["tick"].op]
    BY <2>2 DEF Last
  <2>4. /\ tx' \in [Txns -> Transaction] /\ Same("tick")
        /\ tx'["tick"].op = tx["tick"].op /\ tx'["tick"].user = tx["tick"].user
        /\ tx'["tick"].answered = tx["tick"].answered
        /\ tx'["tick"].at = tx["tick"].at + 1
    <3>1. CASE Onward("tick", tx["tick"])
      BY <1>0, <2>2, <2>3, <3>1, GoesOn
    <3>2. CASE ~Onward("tick", tx["tick"])
      <4>1. PICK W \in SUBSET able : tx' = [tx EXCEPT !["tick"].at = @ + 1, !["tick"].todo = W,
                                                  !["tick"].paged = W,
                                                  !["tick"].saved = tx["tick"].write]
        BY <1>14, <3>2 DEF Fire
      <4> DEFINE q == [tx["tick"] EXCEPT !.at = @ + 1, !.todo = W, !.paged = W,
                                         !.saved = tx["tick"].write]
      <4>2. /\ q \in Transaction /\ q.op = tx["tick"].op /\ q.user = tx["tick"].user
            /\ q.at = tx["tick"].at + 1 /\ q.answered = tx["tick"].answered
        <5> DEFINE n == tx["tick"].at + 1
        <5> DEFINE S == tx["tick"].write
        <5>1. n \in Nat /\ W \in SUBSET Users /\ S \in Writes
          BY <1>0, <2>2 DEF Transaction
        <5>2. q = [tx["tick"] EXCEPT !.at = n, !.todo = W, !.paged = W, !.saved = S]
          OBVIOUS
        <5>3. n = tx["tick"].at + 1
          OBVIOUS
        <5> HIDE DEF n, q, S
        <5> QED
          BY <2>2, <5>1, <5>2, <5>3 DEF Transaction
      <4>3. tx' = [tx EXCEPT !["tick"] = q]
        BY <1>0, <4>1
      <4> HIDE DEF q
      <4> QED
        BY <1>0, <4>2, <4>3 DEF Same
    <3> QED
      BY <3>1, <3>2
  <2>5. Goes("tick")
    BY <2>1, <2>2, <2>3, <2>4 DEF Goes
  <2> QED
    BY <2>1, <2>4, <2>5 DEF Moved, rows
<1>15. ASSUME NEW t \in Txns, Work(t) PROVE Goal
  BY <1>3, <1>4, <1>5, <1>7, <1>8, <1>9, <1>10, <1>11, <1>15 DEF Work
<1>16. ASSUME Tick PROVE Goal
  BY <1>0, <1>2, <1>12, <1>13, <1>14, <1>15, <1>16 DEF Tick
<1>17. ASSUME Victim PROVE Goal
  BY <1>17 DEF Victim, Rings
<1>18. ASSUME \E t \in Txns : Abort(t) PROVE Goal
  BY <1>18 DEF Abort
<1> HIDE DEF Goal
<1>19. ASSUME NEW c \in Clients, NEW op \in Ops, NEW u \in Users, NEW yes \in BOOLEAN,
              Begin(c, op, u, yes)
       PROVE  Goal
  BY <1>0, <1>1, <1>19 DEF Goal
<1>20. ASSUME (\E u \in Users : Elapse(u)) \/ UNCHANGED vars PROVE Goal
  BY <1>20 DEF Goal
<1>21. Goal
  BY <1>0, <1>15, <1>16, <1>17, <1>18, <1>19, <1>20 DEF Next
<1> QED
  BY <1>21 DEF Goal

-----------------------------------------------------------------------------
(* How transactions end.                                                   *)

\* With or without a commit, it holds nothing afterwards.
LEMMA Ends ==
    ASSUME Types, NEW t \in Txns, Commit(t) \/ Leave(t)
    PROVE  /\ tx' \in [Txns -> Transaction] /\ Same(t) /\ tx'[t] = Idle
           /\ incidentLock' = Released(t, incidentLock)
<1>1. tx' = [tx EXCEPT ![t] = Idle] /\ incidentLock' = Released(t, incidentLock)
  BY DEF Commit, Leave
<1> QED
  BY <1>1, Names DEF Types, Same

\* Whoever commits has been through its plan.
LEMMA CommitsAtTheEnd ==
    ASSUME Types, NEW t \in Txns, Commit(t)
    PROVE  /\ tx[t] \in Transaction /\ tx[t].op \in Ops \cup {"tick"}
           /\ tx[t].op \in {"add", "ask", "answer"} => Admits(t)
           /\ tx[t].op = "answer" => tx[t].at = 2 /\ tx[t].todo = {}
<1>1. PICK phase \in {"commit", "stop", "finish", "start"} :
        Phase(t) = phase /\ (phase # "commit" => Done(t, phase))
  BY DEF Commit, Done
<1>2. /\ tx[t] \in Transaction /\ tx[t].op # "none" /\ tx[t].op \in Ops \cup {"tick"}
      /\ tx[t].at \in 1 .. Last[tx[t].op] /\ Plan[tx[t].op][tx[t].at] = phase
  BY <1>1, InPhase
<1>3. tx[t].op \in {"add", "ask", "answer"} => tx[t].at # 1
  BY <1>1, <1>2, PhaseIs
<1>4. tx[t].op \in {"add", "ask", "answer"} => Admits(t)
  BY <1>2, <1>3 DEF Admits, Last
<1>5. ASSUME tx[t].op = "answer" PROVE tx[t].at = 2 /\ tx[t].todo = {}
  <2>1. tx[t].at = 2
    BY <1>2, <1>3, <1>5 DEF Last
  <2>2. phase # "commit"
    BY <1>2, <1>5, PhaseIs
  <2> QED
    BY <1>1, <2>1, <2>2 DEF Done
<1> QED
  BY <1>2, <1>4, <1>5

\* What a commit does to responders and requests.
LEMMA CommitWrites ==
    ASSUME Types, NEW t \in Txns, Commit(t)
    PROVE  /\ responders' = IF Joins(tx[t]) THEN responders \cup {tx[t].user}
                            ELSE IF tx[t].op = "remove" THEN responders \ {tx[t].user}
                            ELSE responders
           /\ \A u \in Users :
                request'[u] = IF u \in tx[t].answered THEN Outcome(tx[t])
                              ELSE IF tx[t].op = "ask" /\ u = tx[t].user THEN "pending"
                              ELSE request[u]
           /\ Outcome(tx[t]) \in Outcomes /\ "pending" \notin Outcomes
           /\ Joins(tx[t]) => tx[t].op \in {"add", "answer"} /\ tx[t].user \in Users
           /\ Outcome(tx[t]) = "accepted" => tx[t].op = "answer" /\ Joins(tx[t])
<1>1. Outcome(tx[t]) \in Outcomes /\ "pending" \notin Outcomes
  BY DEF Outcome, Outcomes
<1>2. Joins(tx[t]) => tx[t].op \in {"add", "answer"} /\ tx[t].user \in Users
  BY DEF Joins, Types
<1>3. Outcome(tx[t]) = "accepted" => tx[t].op = "answer" /\ Joins(tx[t])
  BY CommitsAtTheEnd DEF Outcome, Joins, Transaction
<1>4. request' = [u \in Users |->
                    IF u \in tx[t].answered THEN Outcome(tx[t])
                    ELSE IF tx[t].op = "ask" /\ u = tx[t].user THEN "pending"
                    ELSE request[u]]
  BY DEF Commit
<1>5. responders' = IF Joins(tx[t]) THEN responders \cup {tx[t].user}
                    ELSE IF tx[t].op = "remove" THEN responders \ {tx[t].user}
                    ELSE responders
  BY DEF Commit
<1> QED
  BY <1>1, <1>2, <1>3, <1>4, <1>5

-----------------------------------------------------------------------------
(* The invariant is kept.                                                  *)

\* Every step keeps the types.
LEMMA StepTypes ==
    ASSUME Types, [Next]_vars
    PROVE  Types'
<1>1. ASSUME NEW t \in Txns, Moved(t) PROVE Types'
  <2>1. /\ tx' \in [Txns -> Transaction] /\ Same(t)
        /\ UNCHANGED <<responders, request, reminder, late, able>>
    BY <1>1 DEF Moved
  <2>2. ASSUME NEW s \in Txns, tx'[s].op # "none"
        PROVE  tx'[s].at \in 1 .. Last[tx'[s].op] /\ (s = "tick" <=> tx'[s].op = "tick")
    <3>1. CASE s # t
      BY <2>1, <2>2, <3>1 DEF Same, Types
    <3>2. CASE s = t /\ Begins(t)
      BY <3>2 DEF Begins, Last, Ops
    <3>3. CASE s = t /\ (Works(t) \/ SettlesOne(t) \/ Goes(t))
      BY <3>3 DEF Works, SettlesOne, Goes, Types
    <3> QED
      BY <1>1, <3>1, <3>2, <3>3 DEF Moved
  <2>3. ASSUME NEW s \in Txns, tx'[s].op \in {"add", "ask", "answer"}
        PROVE  tx'[s].user \in Users
    <3>1. CASE s # t
      BY <2>1, <2>3, <3>1 DEF Same, Types
    <3>2. CASE s = t
      BY <1>1, <2>3, <3>2 DEF Moved, Begins, Works, SettlesOne, Goes, Types
    <3> QED
      BY <3>1, <3>2
  <2> QED
    BY <2>1, <2>2, <2>3 DEF Types
<1>2. ASSUME NEW t \in Txns, Commit(t) \/ Leave(t)
      PROVE  /\ tx' \in [Txns -> Transaction]
             /\ \A s \in Txns : tx'[s].op # "none" =>
                  tx'[s].at \in 1 .. Last[tx'[s].op] /\ (s = "tick" <=> tx'[s].op = "tick")
             /\ \A s \in Txns : tx'[s].op \in {"add", "ask", "answer"} => tx'[s].user \in Users
  <2>1. tx' \in [Txns -> Transaction] /\ Same(t) /\ tx'[t].op = "none"
    BY <1>2, Ends, Names
  <2> QED
    BY <2>1 DEF Same, Types
<1>3. ASSUME NEW t \in Txns, Leave(t) PROVE Types'
  <2>1. UNCHANGED <<responders, request, reminder, late, able>>
    BY <1>3 DEF Leave, rows
  <2> QED
    BY <1>2, <1>3, <2>1 DEF Types
<1>4. ASSUME NEW t \in Txns, Commit(t) PROVE Types'
  <2>1. responders' \subseteq Users
    BY <1>4, CommitWrites DEF Types
  <2>2. late' \subseteq Users /\ able' \subseteq Users
    BY <1>4 DEF Commit, StillLate, Types
  <2>3. request' \in [Users -> {"none", "pending"} \cup Outcomes]
    <3>1. \A u \in Users : request'[u] \in {"none", "pending"} \cup Outcomes
      BY <1>4, CommitWrites DEF Types
    <3>2. request' = [u \in Users |-> request'[u]]
      BY <1>4 DEF Commit
    <3> QED
      BY <3>1, <3>2
  <2>4. reminder' \in [Users -> Row]
    <3>1. reminder' = [u \in Users |-> Sees(t, u)]
      BY <1>4 DEF Commit
    <3>0. tx[t] \in Transaction
      BY DEF Types
    <3>2. PICK D \in SUBSET Users : tx[t].write \in [D -> Row]
      BY <3>0 DEF Transaction, Writes
    <3>3. ASSUME NEW u \in Users PROVE Sees(t, u) \in Row
      BY <3>2 DEF Sees, Holds, Types
    <3> QED
      BY <3>1, <3>3
  <2> QED
    BY <1>2, <1>4, <2>1, <2>2, <2>3, <2>4 DEF Types
<1>5. ASSUME NEW u \in Users, Elapse(u) PROVE Types'
  <2>1. UNCHANGED <<tx, responders, request, able>>
    BY <1>5 DEF Elapse
  <2>2. reminder' \in [Users -> Row] /\ late' \subseteq Users
    <3>1. CASE reminder' = [reminder EXCEPT ![u].due = TRUE] /\ late' = late
      <4>1. [reminder[u] EXCEPT !.due = TRUE] \in Row
        BY DEF Types, Row
      <4> QED
        BY <3>1, <4>1 DEF Types
    <3>2. CASE late' = late \cup {u} /\ reminder' = reminder
      BY <3>2 DEF Types
    <3> QED
      BY <1>5, <3>1, <3>2 DEF Elapse
  <2> QED
    BY <2>1, <2>2 DEF Types
<1>6. ASSUME UNCHANGED vars PROVE Types'
  BY <1>6 DEF Types, vars, rows
<1> QED
  BY <1>1, <1>3, <1>4, <1>5, <1>6, MovesAre

\* What admits somebody holds the incident until it ends.
LEMMA StepLocked ==
    ASSUME Types, Locked, [Next]_vars
    PROVE  Locked'
<1>1. ASSUME NEW t \in Txns, Moved(t) PROVE Locked'
  <2>1. Same(t) /\ (Begins(t) \/ Works(t) \/ SettlesOne(t) \/ Goes(t))
    BY <1>1 DEF Moved
  <2>2. ASSUME NEW s \in Txns, Admits(s)' PROVE incidentLock' = s
    <3>1. CASE s # t
      <4>1. tx'[s] = tx[s]
        BY <2>1, <3>1 DEF Same
      <4>2. incidentLock = s /\ s # NoTxn
        BY <2>2, <4>1, Names DEF Admits, Locked
      <4> QED
        BY <2>1, <4>2 DEF Begins, Works, SettlesOne, Goes
    <3>2. CASE s = t /\ Begins(t)
      BY <2>2, <3>2 DEF Admits, Begins
    <3>3. CASE s = t /\ (Works(t) \/ SettlesOne(t))
      BY <2>2, <3>3 DEF Admits, Works, SettlesOne, Locked
    <3>4. CASE s = t /\ Goes(t)
      <4>1. tx[t].op \in {"add", "ask", "answer"} /\ tx[t].at \in 1 .. Last[tx[t].op]
        BY <2>2, <3>4 DEF Admits, Goes, Types
      <4>2. CASE tx[t].at = 1
        BY <3>4, <4>1, <4>2 DEF Goes
      <4>3. CASE tx[t].at # 1
        <5>1. Admits(t)
          BY <4>1, <4>3 DEF Admits, Last
        <5>2. incidentLock = t /\ t # NoTxn
          BY <5>1, Names DEF Locked
        <5> QED
          BY <3>4, <5>2 DEF Goes
      <4> QED
        BY <4>2, <4>3
    <3> QED
      BY <2>1, <3>1, <3>2, <3>3, <3>4
  <2> QED
    BY <2>2 DEF Locked
<1>2. ASSUME NEW t \in Txns, Commit(t) \/ Leave(t) PROVE Locked'
  <2>1. Same(t) /\ tx'[t].op = "none" /\ incidentLock' = Released(t, incidentLock)
    BY <1>2, Ends, Names
  <2>2. ASSUME NEW s \in Txns, Admits(s)' PROVE incidentLock' = s
    <3>1. s # t /\ tx'[s] = tx[s]
      BY <2>1, <2>2 DEF Admits, Same
    <3>2. incidentLock = s
      BY <2>2, <3>1 DEF Admits, Locked
    <3> QED
      BY <2>1, <3>1, <3>2 DEF Released
  <2> QED
    BY <2>2 DEF Locked
<1>3. ASSUME (\E u \in Users : Elapse(u)) \/ UNCHANGED vars PROVE Locked'
  <2>1. UNCHANGED <<tx, incidentLock>>
    BY <1>3 DEF Elapse, vars, locks
  <2> QED
    BY <2>1 DEF Locked, Admits
<1> QED
  BY <1>1, <1>2, <1>3, MovesAre

\* The room somebody found stays: whoever commits meanwhile adds nobody.
LEMMA StepRoomy ==
    ASSUME Types, Locked, Roomy, Settled, IsFiniteSet(responders \cup Pending), [Next]_vars
    PROVE  Roomy'
<1>1. ASSUME NEW t \in Txns, Moved(t) PROVE Roomy'
  <2>1. Same(t) /\ (Begins(t) \/ Works(t) \/ SettlesOne(t) \/ Goes(t))
    BY <1>1 DEF Moved
  <2>2. responders' = responders /\ Pending' = Pending
    BY <1>1 DEF Moved, Pending
  <2>3. ASSUME NEW s \in Txns, Admits(s)', tx'[s].op # "answer"
        PROVE  Cardinality(responders) + Cardinality(Pending \ {tx'[s].user}) < Limit
    <3>1. CASE s # t
      <4>1. tx'[s] = tx[s]
        BY <2>1, <3>1 DEF Same
      <4> QED
        BY <2>3, <4>1 DEF Admits, Roomy
    <3>2. CASE s = t /\ Begins(t)
      BY <2>3, <3>2 DEF Admits, Begins
    <3>3. CASE s = t /\ (Works(t) \/ SettlesOne(t))
      BY <2>3, <3>3 DEF Admits, Works, SettlesOne, Roomy
    <3>4. CASE s = t /\ Goes(t)
      <4>1. /\ tx[t].op \in {"add", "ask"} /\ tx[t].at \in 1 .. Last[tx[t].op]
            /\ tx'[t].user = tx[t].user
        BY <2>3, <3>4 DEF Admits, Goes, Types
      <4>2. CASE tx[t].at = 1
        <5>1. ~Refused(tx[t])
          BY <3>4, <4>1, <4>2 DEF Goes
        <5>2. RoomFor(tx[t].user)
          BY <4>1, <5>1 DEF Refused
        <5> QED
          BY <3>4, <4>1, <5>2 DEF RoomFor
      <4>3. CASE tx[t].at # 1
        <5>1. Admits(t)
          BY <4>1, <4>3 DEF Admits, Last
        <5> QED
          BY <3>4, <4>1, <5>1 DEF Roomy
      <4> QED
        BY <4>2, <4>3
    <3> QED
      BY <2>1, <3>1, <3>2, <3>3, <3>4
  <2> QED
    BY <2>2, <2>3 DEF Roomy
<1>2. ASSUME NEW t \in Txns, Commit(t) PROVE Roomy'
  <2>1. Same(t) /\ tx'[t].op = "none"
    BY <1>2, Ends, Names
  <2>2. ASSUME NEW s \in Txns, Admits(s)', tx'[s].op # "answer"
        PROVE  Cardinality(responders') + Cardinality(Pending' \ {tx'[s].user}) < Limit
    <3>1. s # t /\ tx'[s] = tx[s]
      BY <2>1, <2>2 DEF Admits, Same
    <3>2. Admits(s) /\ incidentLock = s
      BY <2>2, <3>1 DEF Admits, Locked
    <3>3. ~Admits(t)
      BY <3>1, <3>2 DEF Locked
    <3>4. tx[t].op \notin {"add", "ask", "answer"}
      BY <1>2, <3>3, CommitsAtTheEnd
    <3>5. responders' \subseteq responders /\ Pending' \subseteq Pending
      BY <1>2, <3>4, CommitWrites DEF Pending
    <3>6. Cardinality(responders) + Cardinality(Pending \ {tx[s].user}) < Limit
      BY <2>2, <3>1, <3>2 DEF Roomy
    <3>7. IsFiniteSet(responders) /\ IsFiniteSet(Pending \ {tx[s].user})
      BY FS_Subset
    <3>8. /\ Cardinality(responders') <= Cardinality(responders)
          /\ Cardinality(Pending' \ {tx[s].user}) <= Cardinality(Pending \ {tx[s].user})
      <4>1. Pending' \ {tx[s].user} \subseteq Pending \ {tx[s].user}
        BY <3>5
      <4> QED
        BY <3>5, <3>7, <4>1, FS_Subset
    <3>9. /\ Cardinality(responders') \in Nat /\ Cardinality(Pending' \ {tx[s].user}) \in Nat
          /\ Cardinality(responders) \in Nat /\ Cardinality(Pending \ {tx[s].user}) \in Nat
      <4>1. IsFiniteSet(responders') /\ IsFiniteSet(Pending' \ {tx[s].user})
        <5>1. Pending' \ {tx[s].user} \subseteq Pending \ {tx[s].user}
          BY <3>5
        <5> QED
          BY <3>5, <3>7, <5>1, FS_Subset
      <4> QED
        BY <3>7, <4>1, FS_CardinalityType
    <3> QED
      BY <3>1, <3>6, <3>8, <3>9, RespondersAssumption
  <2> QED
    BY <2>2 DEF Roomy
<1>3. ASSUME NEW t \in Txns, Leave(t) PROVE Roomy'
  <2>1. Same(t) /\ tx'[t].op = "none"
    BY <1>3, Ends, Names
  <2>2. responders' = responders /\ Pending' = Pending
    BY <1>3 DEF Leave, rows, Pending
  <2>3. ASSUME NEW s \in Txns, Admits(s)', tx'[s].op # "answer"
        PROVE  Cardinality(responders) + Cardinality(Pending \ {tx'[s].user}) < Limit
    <3>1. tx'[s] = tx[s]
      BY <2>1, <2>3 DEF Admits, Same
    <3> QED
      BY <2>3, <3>1 DEF Admits, Roomy
  <2> QED
    BY <2>2, <2>3 DEF Roomy
<1>4. ASSUME (\E u \in Users : Elapse(u)) \/ UNCHANGED vars PROVE Roomy'
  <2>1. UNCHANGED <<tx, responders, request>>
    BY <1>4 DEF Elapse, vars, rows
  <2>2. Pending' = Pending
    BY <2>1 DEF Pending
  <2> QED
    BY <2>1, <2>2 DEF Roomy, Admits
<1> QED
  BY <1>1, <1>2, <1>3, <1>4, MovesAre

\* What somebody has settled stays pending for everybody else until they end.
LEMMA StepSettled ==
    ASSUME Types, Settled, [Next]_vars
    PROVE  Settled'
<1>1. ASSUME NEW t \in Txns, Moved(t) PROVE Settled'
  <2>1. Same(t) /\ (Begins(t) \/ Works(t) \/ SettlesOne(t) \/ Goes(t))
    BY <1>1 DEF Moved
  <2>2. Pending' = Pending
    BY <1>1 DEF Moved, Pending
  <2>3. \/ tx'[t].answered \subseteq tx[t].answered
        \/ \E u \in Pending : RequestFree(t, u) /\ tx'[t].answered = tx[t].answered \cup {u}
    BY <2>1 DEF Begins, Works, SettlesOne, Goes
  <2>4. ASSUME NEW s \in Txns PROVE tx'[s].answered \subseteq Pending
    BY <2>1, <2>3 DEF Same, Settled
  <2>5. ASSUME NEW s \in Txns \ {t} PROVE tx'[s].answered \cap tx'[t].answered = {}
    <3>1. tx'[s] = tx[s] /\ tx[s].answered \cap tx[t].answered = {}
      BY <2>1 DEF Same, Settled
    <3> QED
      BY <2>3, <3>1 DEF RequestFree
  <2>6. ASSUME NEW s \in Txns, NEW v \in Txns \ {s}
        PROVE  tx'[v].answered \cap tx'[s].answered = {}
    <3>1. CASE s = t
      BY <2>5, <3>1
    <3>2. CASE v = t
      BY <2>5, <3>2
    <3>3. CASE s # t /\ v # t
      BY <2>1, <3>3 DEF Same, Settled
    <3> QED
      BY <3>1, <3>2, <3>3
  <2>7. ASSUME NEW s \in Txns, tx'[s].op = "answer"
        PROVE  /\ tx'[s].todo \cup tx'[s].answered \subseteq {tx'[s].user}
               /\ tx'[s].at = 2 => tx'[s].user \in tx'[s].todo \cup tx'[s].answered
    <3>1. CASE s # t
      BY <2>1, <2>7, <3>1 DEF Same, Settled
    <3>2. CASE s = t /\ Begins(t)
      BY <2>7, <3>2 DEF Begins
    <3>3. CASE s = t /\ Works(t)
      BY <2>7, <3>3 DEF Works, Settled
    <3>4. CASE s = t /\ SettlesOne(t)
      BY <2>7, <3>4 DEF SettlesOne, Settled
    <3>5. CASE s = t /\ Goes(t)
      BY <2>7, <3>5 DEF Goes, Settled
    <3> QED
      BY <2>1, <3>1, <3>2, <3>3, <3>4, <3>5
  <2> QED
    BY <2>2, <2>4, <2>6, <2>7 DEF Settled
<1>2. ASSUME NEW t \in Txns, Commit(t) \/ Leave(t) PROVE Settled'
  <2>1. Same(t) /\ tx'[t].op = "none" /\ tx'[t].answered = {} /\ tx'[t].todo = {}
    BY <1>2, Ends, Names
  <2>2. ASSUME NEW s \in Txns, NEW u \in tx'[s].answered PROVE u \in Pending'
    <3>1. s # t /\ u \in tx[s].answered
      BY <2>1, <2>2 DEF Same
    <3>2. u \in Pending /\ u \notin tx[t].answered /\ u \in Users
      BY <3>1 DEF Settled, Pending
    <3>3. CASE Commit(t)
      <4>1. request'[u] = "pending"
        BY <3>2, <3>3, CommitWrites DEF Pending
      <4> QED
        BY <3>2, <4>1 DEF Pending
    <3>4. CASE Leave(t)
      BY <3>2, <3>4 DEF Leave, rows, Pending
    <3> QED
      BY <1>2, <3>3, <3>4
  <2>3. ASSUME NEW s \in Txns, NEW v \in Txns \ {s}
        PROVE  tx'[v].answered \cap tx'[s].answered = {}
    BY <2>1 DEF Same, Settled
  <2>4. ASSUME NEW s \in Txns, tx'[s].op = "answer"
        PROVE  /\ tx'[s].todo \cup tx'[s].answered \subseteq {tx'[s].user}
               /\ tx'[s].at = 2 => tx'[s].user \in tx'[s].todo \cup tx'[s].answered
    BY <2>1, <2>4 DEF Same, Settled
  <2> QED
    BY <2>2, <2>3, <2>4 DEF Settled
<1>3. ASSUME (\E u \in Users : Elapse(u)) \/ UNCHANGED vars PROVE Settled'
  <2>1. UNCHANGED <<tx, request>>
    BY <1>3 DEF Elapse, vars, rows
  <2>2. Pending' = Pending
    BY <2>1 DEF Pending
  <2> QED
    BY <2>1, <2>2 DEF Settled
<1> QED
  BY <1>1, <1>2, <1>3, MovesAre

\* Whoever adds somebody found room for one more; whoever accepts was counted.
LEMMA StepCounted ==
    ASSUME IInv, [Next]_vars
    PROVE  Counted'
<1> USE DEF IInv
<1>1. ASSUME responders' \cup Pending' \subseteq responders \cup Pending
      PROVE  Counted'
  <2>1. /\ IsFiniteSet(responders' \cup Pending')
        /\ Cardinality(responders' \cup Pending') <= Cardinality(responders \cup Pending)
    BY <1>1, FS_Subset DEF Counted
  <2>2. /\ Cardinality(responders' \cup Pending') \in Nat
        /\ Cardinality(responders \cup Pending) \in Nat
    BY <2>1, FS_CardinalityType DEF Counted
  <2> QED
    BY <2>1, <2>2, RespondersAssumption DEF Counted, LimitHolds
<1>2. ASSUME NEW t \in Txns, Commit(t) PROVE Counted'
  <2> DEFINE u == tx[t].user
  <2>1. CASE tx[t].op \in {"add", "ask"}
    <3>1. Cardinality(responders) + Cardinality(Pending \ {u}) < Limit
      BY <1>2, <2>1, CommitsAtTheEnd DEF Roomy
    <3> DEFINE B == responders \cup (Pending \ {u})
    <3>2. IsFiniteSet(responders) /\ IsFiniteSet(Pending \ {u})
      BY FS_Subset DEF Counted
    <3>3. /\ IsFiniteSet(B)
          /\ Cardinality(B) = Cardinality(responders) + Cardinality(Pending \ {u})
                              - Cardinality(responders \cap (Pending \ {u}))
      BY <3>2, FS_Union
    <3>4. /\ Cardinality(responders) \in Nat /\ Cardinality(Pending \ {u}) \in Nat
          /\ Cardinality(responders \cap (Pending \ {u})) \in Nat /\ Cardinality(B) \in Nat
      <4>1. IsFiniteSet(responders \cap (Pending \ {u}))
        BY <3>2, FS_Subset
      <4> QED
        BY <3>2, <3>3, <4>1, FS_CardinalityType
    <3>5. Cardinality(B) + 1 <= Limit
      BY <3>1, <3>3, <3>4, RespondersAssumption
    <3>6. responders' \cup Pending' \subseteq B \cup {u}
      BY <1>2, CommitWrites DEF Pending
    <3> HIDE DEF B, u
    <3>7. IsFiniteSet(B \cup {u}) /\ Cardinality(B \cup {u}) <= Cardinality(B) + 1
      BY <3>3, <3>4, FS_AddElement
    <3>8. /\ IsFiniteSet(responders' \cup Pending')
          /\ Cardinality(responders' \cup Pending') <= Cardinality(B \cup {u})
      BY <3>6, <3>7, FS_Subset
    <3>9. Cardinality(responders' \cup Pending') \in Nat /\ Cardinality(B \cup {u}) \in Nat
      BY <3>7, <3>8, FS_CardinalityType
    <3> QED
      BY <3>4, <3>5, <3>7, <3>8, <3>9, RespondersAssumption DEF Counted, LimitHolds
  <2>2. CASE tx[t].op = "answer"
    <3>1. u \in tx[t].answered
      BY <1>2, <2>2, CommitsAtTheEnd DEF Settled
    <3>2. u \in Pending
      BY <3>1 DEF Settled
    <3> HIDE DEF u
    <3>3. responders' \cup Pending' \subseteq responders \cup Pending
      BY <1>2, <2>2, <3>2, CommitWrites DEF Pending, u
    <3> QED
      BY <1>1, <3>3
  <2>3. CASE tx[t].op \notin {"add", "ask", "answer"}
    <3>1. responders' \cup Pending' \subseteq responders \cup Pending
      BY <1>2, <2>3, CommitWrites DEF Pending
    <3> QED
      BY <1>1, <3>1
  <2> QED
    BY <2>1, <2>2, <2>3
<1>3. ASSUME NEW t \in Txns, Leave(t) \/ Moved(t) PROVE Counted'
  <2>1. responders' = responders /\ Pending' = Pending
    BY <1>3 DEF Leave, Moved, rows, Pending
  <2> QED
    BY <1>1, <2>1
<1>4. ASSUME (\E u \in Users : Elapse(u)) \/ UNCHANGED vars PROVE Counted'
  <2>1. responders' = responders /\ Pending' = Pending
    BY <1>4 DEF Elapse, vars, rows, Pending
  <2> QED
    BY <1>1, <2>1
<1> QED
  BY <1>2, <1>3, <1>4, MovesAre

\* In the beginning nobody helps, nobody is asked and nothing runs.
LEMMA InitIInv == Init => IInv
<1> SUFFICES ASSUME Init PROVE IInv
  OBVIOUS
<1>1. tx = [t \in Txns |-> Idle] /\ \A t \in Txns : tx[t] = Idle
  BY DEF Init
<1>2. responders = {} /\ Pending = {}
  BY DEF Init, Pending
<1>3. reminder \in [Users -> Row]
  <2>1. NoReminder \in Row
    BY DEF NoReminder, Row
  <2> QED
    BY <2>1 DEF Init
<1>4. Types
  BY <1>1, <1>3, Names DEF Types, Init
<1>5. Locked /\ Roomy /\ Settled
  BY <1>1, Names DEF Locked, Roomy, Settled, Admits
<1>6. Counted
  <2>1. responders \cup Pending = {}
    BY <1>2
  <2>2. IsFiniteSet(responders \cup Pending) /\ Cardinality(responders \cup Pending) = 0
    BY <2>1, FS_EmptySet
  <2> QED
    BY <2>2, RespondersAssumption DEF Counted, LimitHolds
<1> QED
  BY <1>4, <1>5, <1>6 DEF IInv

\* The invariant holds in every reachable state.
THEOREM Invariance == Spec => []IInv
<1>1. IInv /\ [Next]_vars => IInv'
  <2> SUFFICES ASSUME IInv, [Next]_vars PROVE IInv'
    OBVIOUS
  <2>1. Types' /\ Locked' /\ Settled'
    BY StepTypes, StepLocked, StepSettled DEF IInv
  <2>2. Roomy'
    BY StepRoomy DEF IInv, Counted
  <2>3. Counted'
    BY StepCounted
  <2> QED
    BY <2>1, <2>2, <2>3 DEF IInv
<1> QED
  BY <1>1, InitIInv, PTL DEF Spec

-----------------------------------------------------------------------------
(* What follows.                                                           *)

\* Responders and people asked never exceed the limit, for any limit and any
\* number of overlapping additions, requests, answers, closes and expiries.
THEOREM LimitKept == Spec => []LimitHolds
<1>1. IInv => LimitHolds
  BY DEF IInv, Counted
<1> QED
  BY <1>1, Invariance, PTL

\* What became of a request stays so unless the person is asked again, and who
\* accepted has joined.
LEMMA StepOutcome ==
    ASSUME IInv, [Next]_vars, NEW u \in Users
    PROVE  /\ request[u] \in Outcomes /\ request'[u] # request[u] => request'[u] = "pending"
           /\ request'[u] = "accepted" /\ request[u] # "accepted" => u \in responders'
<1>1. ASSUME NEW t \in Txns, Commit(t)
      PROVE  /\ request[u] \in Outcomes /\ request'[u] # request[u] => request'[u] = "pending"
             /\ request'[u] = "accepted" /\ request[u] # "accepted" => u \in responders'
  <2>1. CASE u \in tx[t].answered
    <3>1. request[u] = "pending" /\ request'[u] = Outcome(tx[t])
      BY <1>1, <2>1, CommitWrites DEF IInv, Settled, Pending
    <3>2. ASSUME Outcome(tx[t]) = "accepted" PROVE u \in responders'
      <4>1. Joins(tx[t]) /\ tx[t].op = "answer"
        BY <1>1, <3>2, CommitWrites DEF IInv
      <4>2. u = tx[t].user
        BY <2>1, <4>1 DEF IInv, Settled
      <4> QED
        BY <1>1, <4>1, <4>2, CommitWrites DEF IInv
    <3> QED
      BY <3>1, <3>2, <1>1, CommitWrites DEF IInv
  <2>2. CASE u \notin tx[t].answered
    BY <1>1, <2>2, CommitWrites DEF IInv
  <2> QED
    BY <2>1, <2>2
<1>2. ASSUME NEW t \in Txns, Leave(t) \/ Moved(t) PROVE request' = request
  BY <1>2 DEF Leave, Moved, rows
<1>3. ASSUME (\E v \in Users : Elapse(v)) \/ UNCHANGED vars PROVE request' = request
  BY <1>3 DEF Elapse, vars, rows
<1> QED
  BY <1>1, <1>2, <1>3, MovesAre DEF IInv

\* Every request has one outcome, whoever answers, cancels or expires it first.
THEOREM OutcomeIsFinal == Spec => OneOutcome
<1>1. IInv /\ [Next]_vars =>
        [\A u \in Users :
           /\ request[u] \in Outcomes /\ request'[u] # request[u] => request'[u] = "pending"
           /\ request'[u] = "accepted" /\ request[u] # "accepted" => u \in responders']_vars
  BY StepOutcome
<1> QED
  BY <1>1, Invariance, PTL DEF Spec, OneOutcome


-----------------------------------------------------------------------------
(* Whose further steps run.  What an operation lists while it holds the    *)
(* chain and the incident stays complete until it commits, because whoever *)
(* starts steps holds one of the two.                                      *)

\* Operations that stop steps lock the chain first ...
Stoppers == {"ack", "close", "handoff", "remove"}
HasChain(t) == tx[t].op \in Stoppers /\ tx[t].at >= 2

\* ... and then the incident, those that only add people just the incident.
HasIncident(t) ==
    \/ tx[t].op \in Stoppers /\ tx[t].at >= 3
    \/ tx[t].op \in {"add", "ask", "answer"} /\ tx[t].at >= 2

\* Whose steps t may start where it is.
MayStart(t) ==
    IF tx[t].op = "tick" \/ (tx[t].op = "handoff" /\ tx[t].at = 4) THEN tx[t].paged
    ELSE IF tx[t].op = "add" /\ tx[t].at = 3 THEN {tx[t].user} ELSE {}

\* Whose steps run by what somebody has written.
RunBy(write) == {u \in DOMAIN write : write[u].status = "running"}

\* Locks are held to the end, and what was checked under them still holds.
Holding(t) ==
    /\ HasChain(t) => chainLock = t
    /\ HasIncident(t) => incidentLock = t /\ incident = "open"
    /\ tx[t].op = "tick" /\ tx[t].paged # {} =>
         tx[t].at >= 3 /\ chainLock = t /\ chain = "running"

\* Nobody else's steps are started; those a tick sends on run already.
Starting(t) ==
    /\ Phase(t) = "start" => tx[t].todo \cup tx[t].insert \cup tx[t].update \subseteq MayStart(t)
    /\ Phase(t) = "advance" => tx[t].todo \subseteq DOMAIN tx[t].write \cap Running
    /\ RunBy(tx[t].write) \subseteq
         MayStart(t) \cup (IF tx[t].op = "tick" THEN Running ELSE {})
    /\ tx[t].op = "add" /\ RunBy(tx[t].write) # {} => owner = NoUser
    /\ tx[t].op = "tick" /\ tx[t].paged # {} =>
         /\ DOMAIN tx[t].saved \subseteq DOMAIN tx[t].write
         /\ RunBy(tx[t].saved) \subseteq Running

\* What was listed to be stopped is all that runs.
Stopping(t) ==
    /\ tx[t].op \in {"ack", "close", "handoff"} /\ tx[t].at >= 3 =>
         Running \subseteq DOMAIN tx[t].write \cup (IF tx[t].at = 3 THEN tx[t].todo ELSE {})
    /\ tx[t].op = "remove" /\ tx[t].at = 3 /\ tx[t].user \in Running \ chainPaged =>
         tx[t].user \in DOMAIN tx[t].write \cup tx[t].todo

Good(t) == Holding(t) /\ Starting(t) /\ Stopping(t)

\* Reminder rows have one writer at a time.
RowsApart ==
    \A t \in Txns : \A s \in Txns \ {t} : DOMAIN tx[s].write \cap DOMAIN tx[t].write = {}

\* A chain that pages has an open incident nobody owns.
ChainLive ==
    /\ incident \in {"open", "closed"}
    /\ chain = "running" => owner = NoUser /\ incident = "open"

\* The inductive invariant.
RInv == (\A t \in Txns : Good(t)) /\ RowsApart /\ ChainLive /\ StepsStopForOwner /\ StepsAreWanted

-----------------------------------------------------------------------------
(* What a step leaves alone.                                               *)

\* A transaction that did not move keeps what it relies on, if nobody took its
\* locks, changed what they protect, or wrote a row it has written.
LEMMA Framed ==
    ASSUME Types, NEW s \in Txns, Good(s), tx'[s] = tx[s],
           chainLock = s => /\ chainLock' = s /\ chain' = chain
                            /\ chainPaged \subseteq chainPaged',
           incidentLock = s => incidentLock' = s /\ incident' = incident /\ owner' = owner,
           chainLock = s /\ incidentLock = s => Running' \subseteq Running,
           DOMAIN tx[s].write \cap Running \subseteq Running'
    PROVE  Good(s)'
<1>1. /\ HasChain(s)' <=> HasChain(s)
      /\ HasIncident(s)' <=> HasIncident(s)
      /\ MayStart(s)' = MayStart(s) /\ Phase(s)' = Phase(s)
      /\ RunBy(tx'[s].write) = RunBy(tx[s].write)
      /\ RunBy(tx'[s].saved) = RunBy(tx[s].saved)
  BY DEF HasChain, HasIncident, MayStart, Phase
<1>2. RunBy(tx[s].write) \subseteq DOMAIN tx[s].write
      /\ RunBy(tx[s].saved) \subseteq DOMAIN tx[s].saved
  BY DEF RunBy
<1>3. Holding(s)'
  BY <1>1 DEF Good, Holding
<1>4. Starting(s)'
  <2>1. Phase(s)' = "start" => tx'[s].todo \cup tx'[s].insert \cup tx'[s].update \subseteq MayStart(s)'
    BY <1>1 DEF Good, Starting
  <2>2. Phase(s)' = "advance" => tx'[s].todo \subseteq DOMAIN tx'[s].write \cap Running'
    BY <1>1 DEF Good, Starting
  <2>3. RunBy(tx'[s].write) \subseteq MayStart(s)' \cup (IF tx'[s].op = "tick" THEN Running' ELSE {})
    BY <1>1, <1>2 DEF Good, Starting
  <2>4. tx'[s].op = "add" /\ RunBy(tx'[s].write) # {} => owner' = NoUser
    <3>1. SUFFICES ASSUME tx[s].op = "add", RunBy(tx[s].write) # {} PROVE owner' = NoUser
      BY <1>1
    <3>2. MayStart(s) # {}
      BY <3>1 DEF Good, Starting
    <3>3. HasIncident(s)
      BY <3>1, <3>2 DEF MayStart, HasIncident
    <3> QED
      BY <3>1, <3>3 DEF Good, Holding, Starting
  <2>5. tx'[s].op = "tick" /\ tx'[s].paged # {} =>
          /\ DOMAIN tx'[s].saved \subseteq DOMAIN tx'[s].write
          /\ RunBy(tx'[s].saved) \subseteq Running'
    BY <1>1, <1>2 DEF Good, Starting
  <2> QED
    BY <2>1, <2>2, <2>3, <2>4, <2>5 DEF Starting
<1>5. Stopping(s)'
  <2>1. tx[s].op \in Stoppers /\ tx[s].at >= 3 =>
          chainLock = s /\ Running' \subseteq Running /\ chainPaged \subseteq chainPaged'
    <3>0. tx[s].at \in Nat
      BY DEF Types, Transaction
    <3>1. tx[s].op \in Stoppers /\ tx[s].at >= 3 => HasChain(s) /\ HasIncident(s)
      BY <3>0 DEF HasChain, HasIncident
    <3> QED
      BY <3>1 DEF Good, Holding
  <2>2. tx[s].op \in {"ack", "close", "handoff"} /\ tx[s].at >= 3 =>
          Running' \subseteq DOMAIN tx[s].write \cup (IF tx[s].at = 3 THEN tx[s].todo ELSE {})
    BY <2>1 DEF Good, Stopping, Stoppers
  <2>3. tx[s].op = "remove" /\ tx[s].at = 3 /\ tx[s].user \in Running' \ chainPaged' =>
          tx[s].user \in DOMAIN tx[s].write \cup tx[s].todo
    BY <2>1 DEF Good, Stopping, Stoppers
  <2> QED
    BY <2>2, <2>3 DEF Stopping
<1> QED
  BY <1>3, <1>4, <1>5 DEF Good

\* Nothing it protects has changed and nobody's steps stopped or started.
RowsKept == UNCHANGED <<incident, owner, chain, chainPaged, responders>> /\ Running' = Running

\* A transaction takes a lock only when it is free, and returns only its own.
LocksKept(t) ==
    /\ chainLock # t /\ chainLock # NoTxn => chainLock' = chainLock
    /\ incidentLock # t /\ incidentLock # NoTxn => incidentLock' = incidentLock

\* What t itself must show of its step, unless it commits.
LEMMA Local ==
    ASSUME Types, RInv, NEW t \in Txns, Same(t), RowsKept, LocksKept(t), Good(t)',
           \A s \in Txns \ {t} : DOMAIN tx[s].write \cap DOMAIN tx'[t].write = {}
    PROVE  RInv'
<1>1. ASSUME NEW s \in Txns \ {t} PROVE Good(s)'
  <2>1. tx'[s] = tx[s] /\ Good(s) /\ s # NoTxn /\ s # t
    BY Names DEF Same, RInv
  <2> QED
    BY <2>1, Framed DEF RowsKept, LocksKept
<1>2. \A s \in Txns : Good(s)'
  BY <1>1
<1>3. RowsApart'
  <2>1. SUFFICES ASSUME NEW r \in Txns, NEW s \in Txns \ {r}
                 PROVE  DOMAIN tx'[s].write \cap DOMAIN tx'[r].write = {}
    BY DEF RowsApart
  <2>2. CASE r = t
    BY <2>2 DEF Same
  <2>3. CASE s = t
    BY <2>1, <2>3 DEF Same
  <2>4. CASE r # t /\ s # t
    BY <2>1, <2>4 DEF Same, RInv, RowsApart
  <2> QED
    BY <2>2, <2>3, <2>4
<1>4. ChainLive' /\ StepsStopForOwner' /\ StepsAreWanted'
  BY DEF RowsKept, RInv, ChainLive, StepsStopForOwner, StepsAreWanted
<1> QED
  BY <1>2, <1>3, <1>4 DEF RInv

\* Rows that did not change.
LEMMA RowsSame ==
    ASSUME UNCHANGED rows
    PROVE  RowsKept
BY DEF rows, RowsKept, Running

-----------------------------------------------------------------------------
(* What a step changes.                                                    *)

\* A transaction's new value is what the step makes of it.
LEMMA Becomes ==
    ASSUME Types, NEW t \in Txns, NEW q, tx' = [tx EXCEPT ![t] = q]
    PROVE  tx'[t] = q /\ Same(t)
BY DEF Types, Same

\* Going on: only the place in the plan and what is to be done there change.
LEMMA OnwardIs ==
    ASSUME Types, NEW t \in Txns, NEW r \in Transaction, Onward(t, r)
    PROVE  \E T \in Lists(r) :
             /\ Same(t)
             /\ tx'[t].op = r.op /\ tx'[t].user = r.user /\ tx'[t].at = r.at + 1
             /\ tx'[t].todo = T /\ tx'[t].insert = r.insert /\ tx'[t].update = r.update
             /\ tx'[t].write = r.write /\ tx'[t].saved = r.saved
             /\ tx'[t].answered = r.answered
             /\ tx'[t].paged = IF r.op = "handoff" /\ T # {} THEN T ELSE r.paged
<1>1. PICK T \in Lists(r) : tx' = [tx EXCEPT ![t] = [r EXCEPT !.at = @ + 1, !.todo = T,
               !.paged = IF r.op = "handoff" /\ T # {} THEN T ELSE @]]
  BY DEF Onward
<1> DEFINE P == IF r.op = "handoff" /\ T # {} THEN T ELSE r.paged
           q == [r EXCEPT !.at = @ + 1, !.todo = T, !.paged = P]
<1>2. /\ q.op = r.op /\ q.user = r.user /\ q.at = r.at + 1 /\ q.todo = T
      /\ q.insert = r.insert /\ q.update = r.update /\ q.write = r.write /\ q.saved = r.saved
      /\ q.answered = r.answered /\ q.paged = P
  <2> HIDE DEF P
  <2> QED
    BY DEF Transaction
<1>3. tx' = [tx EXCEPT ![t] = q]
  BY <1>1
<1> HIDE DEF q
<1>4. tx'[t] = q /\ Same(t)
  BY <1>3, Becomes
<1> QED
  BY <1>2, <1>4

\* Where a transaction is in its plan.
LEMMA Places ==
    ASSUME Types, NEW t \in Txns, NEW phase, Phase(t) = phase, phase # "none"
    PROVE  /\ tx[t].op \in Ops \cup {"tick"} /\ tx[t].at \in 1 .. Last[tx[t].op]
           /\ phase = "chain" => tx[t].op \in Stoppers /\ tx[t].at = 1
           /\ phase = "incident" => \/ tx[t].op \in {"add", "ask", "answer"} /\ tx[t].at = 1
                                    \/ tx[t].op \in Stoppers /\ tx[t].at = 2
           /\ phase = "stop" => \/ tx[t].op \in Stoppers /\ tx[t].at = 3
                                \/ tx[t].op = "demote" /\ tx[t].at = 1
           /\ phase = "finish" => \/ tx[t].op \in {"close", "tick"} /\ tx[t].at = 4
                                  \/ tx[t].op \in {"add", "answer"} /\ tx[t].at = 2
           /\ phase = "start" => \/ tx[t].op = "handoff" /\ tx[t].at = 4
                                 \/ tx[t].op \in {"add", "tick"} /\ tx[t].at = 3
           /\ phase = "claim" => tx[t].op = "tick" /\ tx[t].at = 1
           /\ phase = "advance" => tx[t].op = "tick" /\ tx[t].at = 2
           /\ phase = "commit" => tx[t].op = "ask" /\ tx[t].at = 2
<1>1. /\ tx[t].op \in Ops \cup {"tick"} /\ tx[t].at \in 1 .. Last[tx[t].op]
      /\ Plan[tx[t].op][tx[t].at] = phase
  BY InPhase
<1> QED
  BY <1>1, PhaseIs DEF Stoppers

\* Where it is, by its plan, after a step.
LEMMA PhaseAfter ==
    ASSUME NEW t \in Txns, tx'[t].op # "none"
    PROVE  Phase(t)' = Plan[tx'[t].op][tx'[t].at]
BY DEF Phase

\* The plan, as the invariant needs it.
LEMMA PlanIs ==
    /\ \A op \in Ops \cup {"tick"} : Plan[op][1] \notin {"start", "advance"}
    /\ \A op \in Stoppers : Plan[op][2] = "incident" /\ Plan[op][3] = "stop"
    /\ \A op \in {"add", "ask", "answer"} : Plan[op][2] \in {"finish", "commit"}
    /\ Plan["close"][4] = "finish" /\ Plan["handoff"][4] = "start" /\ Plan["add"][3] = "start"
    /\ Plan["tick"][2] = "advance" /\ Plan["tick"][3] = "start" /\ Plan["tick"][4] = "finish"
BY DEF Plan, AckPlan, Ops, Stoppers

-----------------------------------------------------------------------------
(* Steps that do not commit.                                               *)

\* Somebody who has written nothing and stands at the start of its plan, or has
\* none, relies on nothing.
LEMMA FreshIsGood ==
    ASSUME NEW t \in Txns, tx'[t].op \in Ops \cup {"none", "tick"}, tx'[t].at = 1,
           tx'[t].write = [u \in {} |-> NoReminder], tx'[t].paged = {}
    PROVE  Good(t)' /\ \A s \in Txns \ {t} : DOMAIN tx[s].write \cap DOMAIN tx'[t].write = {}
<1>1. DOMAIN tx'[t].write = {} /\ RunBy(tx'[t].write) = {}
  BY DEF RunBy
<1>2. Phase(t)' \notin {"start", "advance"}
  <2>1. CASE tx'[t].op = "none"
    BY <2>1 DEF Phase
  <2>2. CASE tx'[t].op # "none"
    BY <2>2, PhaseAfter, PlanIs
  <2> QED
    BY <2>1, <2>2
<1>3. Holding(t)'
  BY DEF Holding, HasChain, HasIncident
<1>4. Starting(t)'
  BY <1>1, <1>2 DEF Starting
<1>5. Stopping(t)'
  BY DEF Stopping
<1> QED
  BY <1>1, <1>3, <1>4, <1>5 DEF Good

\* A request or a tick begins.
LEMMA StepBegin ==
    ASSUME Types, RInv, NEW t \in Txns, NEW op \in Ops \cup {"tick"}, NEW q,
           tx' = [tx EXCEPT ![t] = q], q.op = op, q.at = 1, q.paged = {},
           q.write = [u \in {} |-> NoReminder], UNCHANGED <<rows, locks>>
    PROVE  RInv'
<1>1. tx'[t] = q /\ Same(t)
  BY Becomes
<1>2. Good(t)' /\ \A s \in Txns \ {t} : DOMAIN tx[s].write \cap DOMAIN tx'[t].write = {}
  BY <1>1, FreshIsGood
<1>3. RowsKept /\ LocksKept(t)
  BY RowsSame DEF rows, locks, LocksKept
<1> QED
  BY <1>1, <1>2, <1>3, Local

LEMMA StepBegins ==
    ASSUME Types, RInv,
           \/ \E c \in Clients, op \in Ops, u \in Users, yes \in BOOLEAN : Begin(c, op, u, yes)
           \/ TickBegins
    PROVE  RInv'
<1>0. "tick" \in Txns /\ Clients \subseteq Txns
  BY Names
<1>1. ASSUME NEW c \in Clients, NEW op \in Ops, NEW u \in Users, NEW yes \in BOOLEAN,
             Begin(c, op, u, yes)
      PROVE  RInv'
  <2> DEFINE T == IF op = "demote" THEN Running \cap {u} ELSE {}
             f == u \notin late
             w == IF op \in {"close", "handoff"} THEN NoUser ELSE u
             q == [Idle EXCEPT !.op = op, !.yes = yes, !.user = w, !.fresh = f, !.todo = T]
  <2>1. q.op = op /\ q.at = 1 /\ q.paged = {} /\ q.write = [v \in {} |-> NoReminder]
    <3> HIDE DEF T, f, w
    <3> QED
      BY DEF Idle
  <2>2. tx' = [tx EXCEPT ![c] = q] /\ UNCHANGED <<rows, locks>>
    BY <1>1 DEF Begin
  <2> HIDE DEF q
  <2> QED
    BY <1>0, <2>1, <2>2, StepBegin
<1>2. ASSUME TickBegins PROVE RInv'
  <2> DEFINE q == [Idle EXCEPT !.op = "tick"]
  <2>1. q.op = "tick" /\ q.at = 1 /\ q.paged = {} /\ q.write = [v \in {} |-> NoReminder]
    BY DEF Idle
  <2>2. tx' = [tx EXCEPT !["tick"] = q] /\ UNCHANGED <<rows, locks>>
    BY <1>2 DEF TickBegins
  <2> HIDE DEF q
  <2> QED
    BY <1>0, <2>1, <2>2, StepBegin
<1> QED
  BY <1>1, <1>2

\* It ends without having written anything.
LEMMA StepLeave ==
    ASSUME Types, RInv, NEW t \in Txns, Leave(t)
    PROVE  RInv'
<1>1. tx'[t] = Idle /\ Same(t)
  BY Becomes DEF Leave
<1>2. Idle.op = "none" /\ Idle.at = 1 /\ Idle.paged = {} /\ Idle.write = [v \in {} |-> NoReminder]
  BY DEF Idle
<1>3. Good(t)' /\ \A s \in Txns \ {t} : DOMAIN tx[s].write \cap DOMAIN tx'[t].write = {}
  BY <1>1, <1>2, FreshIsGood
<1>4. UNCHANGED rows /\ LocksKept(t)
  BY DEF Leave, LocksKept, Released
<1> QED
  BY <1>1, <1>3, <1>4, RowsSame, Local

\* The chain is locked.
LEMMA StepLockChain ==
    ASSUME Types, RInv, NEW t \in Txns, LockChain(t)
    PROVE  RInv'
<1>1. /\ Phase(t) = "chain" /\ chainLock = NoTxn /\ chainLock' = t /\ Onward(t, tx[t])
      /\ UNCHANGED <<rows, incidentLock>> /\ tx[t] \in Transaction
  BY DEF LockChain, Types
<1>2. PICK T \in Lists(tx[t]) :
        /\ Same(t)
        /\ tx'[t].op = tx[t].op /\ tx'[t].user = tx[t].user /\ tx'[t].at = tx[t].at + 1
        /\ tx'[t].write = tx[t].write /\ tx'[t].saved = tx[t].saved
  BY <1>1, OnwardIs
<1>3. tx[t].op \in Stoppers /\ tx[t].at = 1
  BY <1>1, Places
<1>4. /\ tx'[t].op \in Stoppers /\ tx'[t].at = 2 /\ "tick" \notin Stoppers
      /\ "none" \notin Stoppers /\ "add" \notin Stoppers
  BY <1>2, <1>3 DEF Stoppers
<1>5. Phase(t)' = "incident"
  BY <1>4, PhaseAfter, PlanIs
<1>6. RunBy(tx'[t].write) = {}
  BY <1>2, <1>3, <1>4 DEF RInv, Good, Starting, MayStart
<1>7. Holding(t)'
  BY <1>1, <1>4 DEF Holding, HasChain, HasIncident, Stoppers
<1>8. Starting(t)'
  BY <1>4, <1>5, <1>6 DEF Starting
<1>9. Stopping(t)'
  BY <1>4 DEF Stopping
<1>10. Good(t)'
  BY <1>7, <1>8, <1>9 DEF Good
<1>11. \A s \in Txns \ {t} : DOMAIN tx[s].write \cap DOMAIN tx'[t].write = {}
  BY <1>2 DEF RInv, RowsApart
<1>12. RowsKept /\ LocksKept(t)
  BY <1>1, RowsSame DEF LocksKept
<1> QED
  BY <1>2, <1>10, <1>11, <1>12, Local

\* The incident is locked and the operation still allowed; those that stop
\* steps now read whose are running.
LEMMA StepLockIncident ==
    ASSUME Types, RInv, NEW t \in Txns, LockIncident(t)
    PROVE  RInv'
<1>1. SUFFICES ASSUME ~Refused(tx[t]) PROVE RInv'
  BY StepLeave DEF LockIncident
<1>2. /\ Phase(t) = "incident" /\ incidentLock = NoTxn /\ incidentLock' = t
      /\ incident \in {"open", "closed"}
      /\ Onward(t, tx[t]) /\ UNCHANGED <<rows, chainLock>> /\ tx[t] \in Transaction
  BY <1>1 DEF LockIncident, Types, RInv, ChainLive
<1>3. PICK T \in Lists(tx[t]) :
        /\ Same(t)
        /\ tx'[t].op = tx[t].op /\ tx'[t].user = tx[t].user /\ tx'[t].at = tx[t].at + 1
        /\ tx'[t].todo = T /\ tx'[t].write = tx[t].write /\ tx'[t].saved = tx[t].saved
  BY <1>2, OnwardIs
<1>4. \/ tx[t].op \in {"add", "ask", "answer"} /\ tx[t].at = 1
      \/ tx[t].op \in Stoppers /\ tx[t].at = 2
  BY <1>2, Places
<1>5. /\ tx'[t].op # "tick" /\ tx'[t].op # "none"
      /\ \/ tx'[t].op \in {"add", "ask", "answer"} /\ tx'[t].at = 2
         \/ tx'[t].op \in Stoppers /\ tx'[t].at = 3
  BY <1>3, <1>4 DEF Stoppers
<1>6. Phase(t)' \in {"finish", "commit", "stop"}
  BY <1>5, PhaseAfter, PlanIs
<1>7. RunBy(tx'[t].write) = {}
  BY <1>3, <1>4 DEF RInv, Good, Starting, MayStart, Stoppers
<1>8. Holding(t)'
  <2>1. incident' = "open"
    BY <1>1, <1>2 DEF Refused, rows
  <2>2. HasChain(t)' => chainLock' = t
    <3>1. HasChain(t)' => HasChain(t)
      BY <1>3, <1>4 DEF HasChain, Stoppers
    <3> QED
      BY <1>2, <3>1 DEF RInv, Good, Holding
  <2> QED
    BY <1>2, <1>5, <2>1, <2>2 DEF Holding
<1>9. Starting(t)'
  BY <1>5, <1>6, <1>7 DEF Starting
<1>10. Stopping(t)'
  <2>1. ASSUME tx[t].op \in Stoppers PROVE T = Stops(tx[t])
    <3>1. Plan[tx[t].op][tx[t].at + 1] = "stop"
      BY <1>4, <2>1, PlanIs DEF Stoppers
    <3> QED
      BY <3>1 DEF Lists
  <2>2. ASSUME tx[t].op \in {"ack", "close", "handoff"} PROVE tx'[t].at = 3 /\ Running' \subseteq T
    BY <1>2, <1>3, <1>4, <2>1, <2>2, RowsSame DEF Stoppers, Stops, RowsKept
  <2>3. ASSUME tx[t].op = "remove", tx[t].user \in Running' \ chainPaged'
        PROVE  tx[t].user \in T
    BY <1>2, <1>3, <1>4, <2>1, <2>3, RowsSame DEF Stoppers, Stops, RowsKept
  <2> QED
    BY <1>3, <2>2, <2>3 DEF Stopping
<1>11. Good(t)'
  BY <1>8, <1>9, <1>10 DEF Good
<1>12. \A s \in Txns \ {t} : DOMAIN tx[s].write \cap DOMAIN tx'[t].write = {}
  BY <1>3 DEF RInv, RowsApart
<1>13. RowsKept /\ LocksKept(t)
  BY <1>2, RowsSame DEF LocksKept
<1> QED
  BY <1>3, <1>11, <1>12, <1>13, Local

\* Where it goes on from stopping, settling or starting.
LEMMA ProceedsFrom ==
    ASSUME Types, NEW t \in Txns, Proceed(t)
    PROVE  /\ tx[t].todo \cup tx[t].insert \cup tx[t].update = {}
           /\ \/ tx[t].op \in {"close", "handoff", "tick"} /\ tx[t].at = 3
              \/ tx[t].op = "add" /\ tx[t].at = 2
<1>1. PICK phase \in {"stop", "finish", "start"} : Done(t, phase)
  BY DEF Proceed
<1>2. Phase(t) = phase /\ tx[t].todo \cup tx[t].insert \cup tx[t].update = {}
  BY <1>1 DEF Done
<1>3. /\ Plan[tx[t].op][tx[t].at + 1] # "commit"
      /\ tx[t].op \in Ops \cup {"tick"} /\ tx[t].at \in 1 .. Last[tx[t].op]
  BY <1>2, Places DEF Proceed
<1>4. tx[t].op # "ask" /\ tx[t].at # Last[tx[t].op]
  <2>1. tx[t].op # "ask"
    BY <1>2, Places DEF Stoppers
  <2> QED
    BY <1>3, <2>1, NextPhaseIs
<1> QED
  BY <1>2, <1>3, <1>4, Places DEF Last, Stoppers

\* It goes on: a close to the requests, a handoff and an addition to the steps
\* they start, and a tick from these to the requests.
LEMMA StepProceed ==
    ASSUME Types, RInv, NEW t \in Txns, Proceed(t)
    PROVE  RInv'
<1>1. /\ Onward(t, tx[t]) /\ UNCHANGED <<rows, locks>> /\ tx[t] \in Transaction /\ Good(t)
      /\ tx[t].todo \cup tx[t].insert \cup tx[t].update = {}
      /\ \/ tx[t].op \in {"close", "handoff", "tick"} /\ tx[t].at = 3
         \/ tx[t].op = "add" /\ tx[t].at = 2
  BY ProceedsFrom DEF Proceed, Types, RInv
<1>2. PICK T \in Lists(tx[t]) :
        /\ Same(t)
        /\ tx'[t].op = tx[t].op /\ tx'[t].user = tx[t].user /\ tx'[t].at = tx[t].at + 1
        /\ tx'[t].todo = T /\ tx'[t].insert = tx[t].insert /\ tx'[t].update = tx[t].update
        /\ tx'[t].write = tx[t].write /\ tx'[t].saved = tx[t].saved
        /\ tx'[t].paged = IF tx[t].op = "handoff" /\ T # {} THEN T ELSE tx[t].paged
  BY <1>1, OnwardIs
<1>3. RowsKept /\ LocksKept(t)
  BY <1>1, RowsSame DEF LocksKept, locks, rows
<1>4. \A s \in Txns \ {t} : DOMAIN tx[s].write \cap DOMAIN tx'[t].write = {}
  BY <1>2 DEF RInv, RowsApart
<1>5. Good(t)'
  <2>1. CASE tx[t].op = "close"
    <3>1. tx'[t].at = 4 /\ Phase(t)' = "finish"
      BY <1>1, <1>2, <2>1, PhaseAfter, PlanIs
    <3>2. HasChain(t) /\ HasIncident(t) /\ RunBy(tx'[t].write) = {}
      BY <1>1, <1>2, <2>1 DEF HasChain, HasIncident, Stoppers, Good, Starting, MayStart
    <3>3. Holding(t)'
      BY <1>1, <1>2, <2>1, <3>2 DEF Good, Holding, rows, locks
    <3>4. Starting(t)'
      BY <1>2, <2>1, <3>1, <3>2 DEF Starting
    <3>5. Stopping(t)'
      BY <1>1, <1>2, <1>3, <2>1, <3>1 DEF Good, Stopping, RowsKept
    <3> QED
      BY <3>3, <3>4, <3>5 DEF Good
  <2>2. CASE tx[t].op = "handoff"
    <3>1. tx'[t].at = 4 /\ Phase(t)' = "start" /\ MayStart(t)' = tx'[t].paged
      BY <1>1, <1>2, <2>2, PhaseAfter, PlanIs DEF MayStart
    <3>2. HasChain(t) /\ HasIncident(t) /\ RunBy(tx'[t].write) = {}
      BY <1>1, <1>2, <2>2 DEF HasChain, HasIncident, Stoppers, Good, Starting, MayStart
    <3>3. Holding(t)'
      BY <1>1, <1>2, <2>2, <3>2 DEF Good, Holding, rows, locks
    <3>4. Starting(t)'
      BY <1>1, <1>2, <2>2, <3>1, <3>2 DEF Starting
    <3>5. Stopping(t)'
      BY <1>1, <1>2, <1>3, <2>2, <3>1 DEF Good, Stopping, RowsKept
    <3> QED
      BY <3>3, <3>4, <3>5 DEF Good
  <2>3. CASE tx[t].op = "add"
    <3>1. /\ tx'[t].at = 3 /\ Phase(t)' = "start" /\ MayStart(t)' = {tx[t].user}
      BY <1>1, <1>2, <2>3, PhaseAfter, PlanIs DEF MayStart
    <3>2. HasIncident(t) /\ RunBy(tx'[t].write) = {}
      BY <1>1, <1>2, <2>3 DEF HasIncident, Stoppers, Good, Starting, MayStart
    <3>3. Holding(t)'
      BY <1>1, <1>2, <2>3, <3>2 DEF Good, Holding, rows, locks, HasChain, Stoppers
    <3>4. T = {tx[t].user}
      BY <1>1, <2>3, PlanIs DEF Lists
    <3>5. Starting(t)'
      BY <1>1, <1>2, <2>3, <3>1, <3>2, <3>4 DEF Starting
    <3>6. Stopping(t)'
      BY <1>2, <2>3 DEF Stopping
    <3> QED
      BY <3>3, <3>5, <3>6 DEF Good
  <2>4. CASE tx[t].op = "tick"
    <3>1. tx'[t].at = 4 /\ Phase(t)' = "finish" /\ MayStart(t)' = MayStart(t)
      BY <1>1, <1>2, <2>4, PhaseAfter, PlanIs DEF MayStart
    <3>2. ~HasChain(t)' /\ ~HasIncident(t)'
      BY <1>2, <2>4 DEF HasChain, HasIncident, Stoppers
    <3>3. Holding(t)'
      BY <1>1, <1>2, <2>4, <3>1, <3>2 DEF Good, Holding, rows, locks
    <3>4. Starting(t)'
      BY <1>1, <1>2, <1>3, <2>4, <3>1 DEF Good, Starting, RowsKept
    <3>5. Stopping(t)'
      BY <1>2, <2>4 DEF Stopping
    <3> QED
      BY <3>3, <3>4, <3>5 DEF Good
  <2> QED
    BY <1>1, <2>1, <2>2, <2>3, <2>4
<1> QED
  BY <1>2, <1>3, <1>4, <1>5, Local

\* The phase is still the same, and so are the locks.
Stays(t) ==
    /\ Same(t) /\ UNCHANGED <<rows, locks>>
    /\ tx'[t].op = tx[t].op /\ tx'[t].user = tx[t].user /\ tx'[t].at = tx[t].at
    /\ tx'[t].paged = tx[t].paged /\ tx'[t].saved = tx[t].saved

\* Work within a phase: rows are written that nobody else writes, of people
\* whose steps t may start, and those it was to stop are stopped or still to be.
LEMMA StepStays ==
    ASSUME Types, RInv, NEW t \in Txns, Stays(t),
           Phase(t) \in {"stop", "start", "advance", "finish"},
           DOMAIN tx[t].write \subseteq DOMAIN tx'[t].write,
           \A u \in DOMAIN tx'[t].write \ DOMAIN tx[t].write : ReminderFree(t, u),
           RunBy(tx'[t].write) \subseteq
             MayStart(t) \cup (IF tx[t].op = "tick" THEN Running ELSE {}),
           tx[t].op = "add" /\ RunBy(tx'[t].write) # {} => owner = NoUser,
           Phase(t) = "start" =>
             tx'[t].todo \cup tx'[t].insert \cup tx'[t].update
               \subseteq tx[t].todo \cup tx[t].insert \cup tx[t].update,
           Phase(t) = "advance" => tx'[t].todo \subseteq tx[t].todo,
           Phase(t) = "stop" => tx[t].todo \subseteq tx'[t].todo \cup DOMAIN tx'[t].write
    PROVE  RInv'
<1>1. RowsKept /\ LocksKept(t) /\ Good(t)
  BY RowsSame DEF LocksKept, locks, Stays, RInv
<1>2. \A s \in Txns \ {t} : DOMAIN tx[s].write \cap DOMAIN tx'[t].write = {}
  BY DEF RInv, RowsApart, ReminderFree, Holds
<1>3. /\ HasChain(t)' <=> HasChain(t)
      /\ HasIncident(t)' <=> HasIncident(t)
      /\ MayStart(t)' = MayStart(t) /\ Phase(t)' = Phase(t)
  BY DEF HasChain, HasIncident, MayStart, Phase, Stays
<1>4. Holding(t)'
  BY <1>1, <1>3 DEF Good, Holding, Stays, rows, locks
<1>5. Starting(t)'
  <2>1. Phase(t)' = "start" =>
          tx'[t].todo \cup tx'[t].insert \cup tx'[t].update \subseteq MayStart(t)'
    BY <1>1, <1>3 DEF Good, Starting
  <2>2. Phase(t)' = "advance" => tx'[t].todo \subseteq DOMAIN tx'[t].write \cap Running'
    BY <1>1, <1>3 DEF Good, Starting, RowsKept
  <2>3. RunBy(tx'[t].write) \subseteq MayStart(t)' \cup (IF tx'[t].op = "tick" THEN Running' ELSE {})
    BY <1>1, <1>3 DEF RowsKept, Stays
  <2>4. tx'[t].op = "add" /\ RunBy(tx'[t].write) # {} => owner' = NoUser
    BY <1>1 DEF RowsKept, Stays
  <2>5. tx'[t].op = "tick" /\ tx'[t].paged # {} =>
          /\ DOMAIN tx'[t].saved \subseteq DOMAIN tx'[t].write
          /\ RunBy(tx'[t].saved) \subseteq Running'
    BY <1>1 DEF Good, Starting, RowsKept, Stays
  <2> QED
    BY <2>1, <2>2, <2>3, <2>4, <2>5 DEF Starting
<1>6. Stopping(t)'
  <2>1. Phase(t) = "stop" \/ ~(tx[t].op \in Stoppers /\ tx[t].at = 3)
    BY Places DEF Stoppers
  <2> QED
    BY <1>1, <2>1 DEF Good, Stopping, RowsKept, Stays, Stoppers
<1>7. Good(t)'
  BY <1>4, <1>5, <1>6 DEF Good
<1> QED
  BY <1>1, <1>2, <1>7, Local DEF Stays

\* A row is written.
LEMMA WrittenIs ==
    ASSUME NEW t, NEW u, NEW row
    PROVE  /\ DOMAIN Written(t, u, row) = DOMAIN tx[t].write \cup {u}
           /\ RunBy(Written(t, u, row)) \subseteq
                RunBy(tx[t].write) \cup (IF row.status = "running" THEN {u} ELSE {})
BY DEF Written, RunBy

\* What is known of a transaction in one of its phases.
LEMMA Known ==
    ASSUME Types, RInv, NEW t \in Txns
    PROVE  /\ tx[t] \in Transaction /\ Good(t)
           /\ RunBy(tx[t].write) \subseteq
                MayStart(t) \cup (IF tx[t].op = "tick" THEN Running ELSE {})
           /\ tx[t].op = "add" /\ RunBy(tx[t].write) # {} => owner = NoUser
BY DEF RInv, Good, Starting, Types

\* Somebody's steps are stopped.
LEMMA StepStop ==
    ASSUME Types, RInv, NEW t \in Txns, NEW u \in Users, Stop(t, u)
    PROVE  RInv'
<1> DEFINE row == [reminder[u] EXCEPT !.status = "stopped", !.due = FALSE]
           W == Written(t, u, row)
           q == [tx[t] EXCEPT !.todo = @ \ {u}, !.write = W]
<1>1. /\ Phase(t) = "stop" /\ ReminderFree(t, u) /\ UNCHANGED <<rows, locks>>
      /\ tx[t] \in Transaction
  BY Known DEF Stop
<1>2. row.status # "running"
  BY DEF Types, Row
<1> HIDE DEF row
<1>3. DOMAIN W = DOMAIN tx[t].write \cup {u} /\ RunBy(W) \subseteq RunBy(tx[t].write)
  BY <1>2, WrittenIs
<1> HIDE DEF W
<1>4. tx' = [tx EXCEPT ![t] = q]
  BY DEF Stop, Types, W, row
<1>5. /\ q.op = tx[t].op /\ q.user = tx[t].user /\ q.at = tx[t].at /\ q.paged = tx[t].paged
      /\ q.saved = tx[t].saved /\ q.write = W /\ q.todo = tx[t].todo \ {u}
  BY <1>1 DEF Transaction
<1> HIDE DEF q
<1>6. Stays(t) /\ tx'[t] = q
  BY <1>1, <1>4, <1>5, Becomes DEF Stays
<1> QED
  BY <1>1, <1>3, <1>5, <1>6, Known, StepStays

\* Whether somebody's steps start is decided.
LEMMA StepStartDecides ==
    ASSUME Types, RInv, NEW t \in Txns, NEW u \in Users, StartDecides(t, u)
    PROVE  RInv'
<1>1. /\ Phase(t) = "start" /\ u \in tx[t].todo /\ UNCHANGED <<rows, locks>>
      /\ tx[t] \in Transaction
  BY Known DEF StartDecides
<1> DEFINE steps == u \in able /\ Sees(t, u).status # "running"
           new == Sees(t, u).status = "none"
           I == IF steps /\ new THEN tx[t].insert \cup {u} ELSE tx[t].insert
           U == IF steps /\ ~new THEN tx[t].update \cup {u} ELSE tx[t].update
           q == [tx[t] EXCEPT !.todo = @ \ {u}, !.insert = I, !.update = U]
<1>2. I \subseteq tx[t].insert \cup {u} /\ U \subseteq tx[t].update \cup {u}
  OBVIOUS
<1>3. tx' = [tx EXCEPT ![t] = q]
  BY DEF StartDecides, Types
<1> HIDE DEF I, U
<1>4. /\ q.op = tx[t].op /\ q.user = tx[t].user /\ q.at = tx[t].at /\ q.paged = tx[t].paged
      /\ q.saved = tx[t].saved /\ q.write = tx[t].write /\ q.todo = tx[t].todo \ {u}
      /\ q.insert = I /\ q.update = U
  BY <1>1 DEF Transaction
<1> HIDE DEF q
<1>5. Stays(t) /\ tx'[t] = q
  BY <1>1, <1>3, <1>4, Becomes DEF Stays
<1>6. tx'[t].todo \cup tx'[t].insert \cup tx'[t].update
        \subseteq tx[t].todo \cup tx[t].insert \cup tx[t].update
  BY <1>1, <1>2, <1>4, <1>5
<1> QED
  BY <1>1, <1>4, <1>5, <1>6, Known, StepStays

\* Somebody's steps start: beside an owner only a handoff starts more than one.
LEMMA StepStartWrites ==
    ASSUME Types, RInv, NEW t \in Txns, NEW u \in Users, StartWrites(t, u)
    PROVE  RInv'
<1> DEFINE W == Written(t, u, Started(t))
           q == [tx[t] EXCEPT !.insert = @ \ {u}, !.update = @ \ {u}, !.write = W]
<1>1. /\ Phase(t) = "start" /\ u \in tx[t].insert \cup tx[t].update /\ ReminderFree(t, u)
      /\ UNCHANGED <<rows, locks>> /\ tx[t] \in Transaction
  BY Known DEF StartWrites
<1>2. u \in MayStart(t)
  BY <1>1 DEF RInv, Good, Starting
<1>3. Started(t).status = "running" => owner = NoUser \/ tx[t].op = "handoff"
  BY DEF Started
<1>4. /\ DOMAIN W = DOMAIN tx[t].write \cup {u}
      /\ RunBy(W) \subseteq
           RunBy(tx[t].write) \cup (IF Started(t).status = "running" THEN {u} ELSE {})
  BY WrittenIs
<1> HIDE DEF W
<1>5. tx' = [tx EXCEPT ![t] = q]
  BY DEF StartWrites, Types, W
<1>6. /\ q.op = tx[t].op /\ q.user = tx[t].user /\ q.at = tx[t].at /\ q.paged = tx[t].paged
      /\ q.saved = tx[t].saved /\ q.write = W /\ q.todo = tx[t].todo
      /\ q.insert = tx[t].insert \ {u} /\ q.update = tx[t].update \ {u}
  BY <1>1 DEF Transaction
<1> HIDE DEF q
<1>7. Stays(t) /\ tx'[t] = q
  BY <1>1, <1>5, <1>6, Becomes DEF Stays
<1>8. RunBy(tx'[t].write) \subseteq MayStart(t) \cup (IF tx[t].op = "tick" THEN Running ELSE {})
  BY <1>2, <1>4, <1>6, <1>7, Known
<1>9. tx[t].op = "add" /\ RunBy(tx'[t].write) # {} => owner = NoUser
  BY <1>3, <1>4, <1>6, <1>7, Known
<1> QED
  BY <1>1, <1>4, <1>6, <1>7, <1>8, <1>9, StepStays

\* A request to join is settled, or was meanwhile.
LEMMA StepSettle ==
    ASSUME Types, RInv, NEW t \in Txns, NEW u \in Users, Settle(t, u)
    PROVE  RInv'
<1>1. SUFFICES ASSUME ~Leave(t) PROVE RInv'
  BY StepLeave
<1>2. Phase(t) = "finish" /\ UNCHANGED <<rows, locks>> /\ tx[t] \in Transaction
  BY <1>1, Known DEF Settle
<1> DEFINE A == IF u \in Pending THEN tx[t].answered \cup {u} ELSE tx[t].answered
           q == [tx[t] EXCEPT !.todo = @ \ {u}, !.answered = A]
<1>3. tx' = [tx EXCEPT ![t] = q]
  <2>1. CASE u \in Pending
    BY <2>1 DEF Settle, Types
  <2>2. CASE u \notin Pending
    <3>1. tx' = [tx EXCEPT ![t].todo = @ \ {u}]
      BY <1>1, <2>2 DEF Settle
    <3>2. [tx[t] EXCEPT !.todo = @ \ {u}] = q
      BY <1>2, <2>2 DEF Transaction
    <3> QED
      BY <3>1, <3>2 DEF Types
  <2> QED
    BY <2>1, <2>2
<1> HIDE DEF A
<1>4. /\ q.op = tx[t].op /\ q.user = tx[t].user /\ q.at = tx[t].at /\ q.paged = tx[t].paged
      /\ q.saved = tx[t].saved /\ q.write = tx[t].write
  BY <1>2 DEF Transaction
<1> HIDE DEF q
<1>5. Stays(t) /\ tx'[t] = q
  BY <1>2, <1>3, <1>4, Becomes DEF Stays
<1> QED
  BY <1>2, <1>4, <1>5, Known, StepStays

\* A tick sends a step of somebody whose steps run.
LEMMA StepAdvance ==
    ASSUME Types, RInv, NEW u \in Users, Advance(u)
    PROVE  RInv'
<1> DEFINE next == IF incident = "closed" \/ u \notin able
                   THEN [reminder[u] EXCEPT !.status = "stopped", !.due = FALSE]
                   ELSE [status |-> IF reminder[u].stage + 2 < Stages THEN "running"
                                    ELSE "exhausted",
                         stage |-> reminder[u].stage + 1, due |-> FALSE]
           W == Written("tick", u, next)
           q == [tx["tick"] EXCEPT !.todo = @ \ {u}, !.write = W]
<1>0. "tick" \in Txns
  BY Names
<1>1. /\ Phase("tick") = "advance" /\ u \in tx["tick"].todo /\ UNCHANGED <<rows, locks>>
      /\ tx["tick"] \in Transaction /\ tx["tick"].op = "tick"
  BY <1>0, Known, Places DEF Advance
<1>2. u \in DOMAIN tx["tick"].write /\ u \in Running
  BY <1>0, <1>1 DEF RInv, Good, Starting
<1>3. DOMAIN W = DOMAIN tx["tick"].write /\ RunBy(W) \subseteq RunBy(tx["tick"].write) \cup {u}
  <2> HIDE DEF next
  <2>1. /\ DOMAIN W = DOMAIN tx["tick"].write \cup {u}
        /\ RunBy(W) \subseteq
             RunBy(tx["tick"].write) \cup (IF next.status = "running" THEN {u} ELSE {})
    BY WrittenIs
  <2> HIDE DEF W
  <2> QED
    BY <1>2, <2>1
<1>4. tx' = [tx EXCEPT !["tick"] = q]
  BY <1>0 DEF Advance, Types
<1> HIDE DEF W
<1>5. /\ q.op = tx["tick"].op /\ q.user = tx["tick"].user /\ q.at = tx["tick"].at
      /\ q.paged = tx["tick"].paged /\ q.saved = tx["tick"].saved /\ q.write = W
      /\ q.todo = tx["tick"].todo \ {u}
  BY <1>1 DEF Transaction
<1> HIDE DEF q
<1>6. Stays("tick") /\ tx'["tick"] = q
  BY <1>0, <1>1, <1>4, <1>5, Becomes DEF Stays
<1>7. RunBy(tx'["tick"].write) \subseteq MayStart("tick") \cup Running
  BY <1>0, <1>1, <1>2, <1>3, <1>5, <1>6, Known
<1> QED
  BY <1>0, <1>1, <1>3, <1>5, <1>6, <1>7, StepStays

\* A tick whose chain could not write goes back to what it had written before.
LEMMA StepStartClashes ==
    ASSUME Types, RInv, NEW t \in Txns, NEW u \in Users, StartClashes(t, u)
    PROVE  RInv'
<1>1. SUFFICES ASSUME t = "tick" PROVE RInv'
  BY StepLeave DEF StartClashes
<1> DEFINE q == [tx[t] EXCEPT !.insert = {}, !.update = {}, !.todo = {}, !.paged = {},
                              !.write = tx[t].saved]
<1>2. /\ Phase(t) = "start" /\ u \in tx[t].insert /\ tx[t] \in Transaction /\ Good(t)
      /\ UNCHANGED <<rows, incidentLock>> /\ chainLock' = Released(t, chainLock)
  BY <1>1, Known DEF StartClashes, rows
<1>3. tx[t].op = "tick" /\ tx[t].at = 3
  <2>1. tx[t].op = "tick"
    BY <1>1, <1>2, Places DEF Types
  <2> QED
    BY <1>2, <2>1, Places
<1>4. /\ DOMAIN tx[t].saved \subseteq DOMAIN tx[t].write
      /\ RunBy(tx[t].saved) \subseteq Running
  <2>1. u \in MayStart(t)
    BY <1>2 DEF Good, Starting
  <2>2. tx[t].paged # {}
    BY <1>3, <2>1 DEF MayStart
  <2> QED
    BY <1>2, <1>3, <2>2 DEF Good, Starting
<1>5. tx' = [tx EXCEPT ![t] = q]
  BY <1>1 DEF StartClashes, Types
<1>6. /\ q.op = "tick" /\ q.at = 3 /\ q.paged = {} /\ q.write = tx[t].saved
      /\ q.todo = {} /\ q.insert = {} /\ q.update = {}
  BY <1>2, <1>3 DEF Transaction
<1> HIDE DEF q
<1>7. tx'[t] = q /\ Same(t)
  BY <1>5, Becomes
<1>8. RowsKept /\ LocksKept(t)
  BY <1>2, RowsSame DEF LocksKept, Released
<1>9. Holding(t)'
  BY <1>6, <1>7 DEF Holding, HasChain, HasIncident, Stoppers
<1>10. Starting(t)'
  <2>1. Phase(t)' # "advance"
    BY <1>6, <1>7, PhaseAfter, PlanIs
  <2> QED
    BY <1>4, <1>6, <1>7, <1>8, <2>1 DEF Starting, RowsKept
<1>11. Stopping(t)'
  BY <1>6, <1>7 DEF Stopping
<1>12. Good(t)'
  BY <1>9, <1>10, <1>11 DEF Good
<1>13. \A s \in Txns \ {t} : DOMAIN tx[s].write \cap DOMAIN tx'[t].write = {}
  BY <1>4, <1>6, <1>7 DEF RInv, RowsApart
<1> QED
  BY <1>7, <1>8, <1>12, <1>13, Local

\* A tick claims the due rows of people whose steps run.
LEMMA StepClaim ==
    ASSUME Types, RInv, Claim
    PROVE  RInv'
<1> DEFINE due == {u \in Running : reminder[u].due /\ ReminderFree("tick", u)}
           W == [u \in due |-> reminder[u]]
           r == [tx["tick"] EXCEPT !.write = W]
<1>0. "tick" \in Txns
  BY Names
<1>1. /\ Phase("tick") = "claim" /\ Onward("tick", r) /\ UNCHANGED <<rows, locks>>
      /\ tx["tick"] \in Transaction /\ Good("tick")
  BY <1>0, Known DEF Claim
<1>2. tx["tick"].op = "tick" /\ tx["tick"].at = 1
  BY <1>0, <1>1, Places
<1>3. DOMAIN W \subseteq Running /\ \A u \in DOMAIN W : ReminderFree("tick", u)
  OBVIOUS
<1>4. W \in Writes
  <2>1. due \in SUBSET Users
    BY DEF Running
  <2>2. W \in [due -> Row]
    BY <2>1 DEF Types
  <2> HIDE DEF W, due
  <2> QED
    BY <2>1, <2>2 DEF Writes
<1> HIDE DEF W
<1>5. /\ r \in Transaction /\ r.op = "tick" /\ r.at = 1 /\ r.write = W
      /\ r.paged = tx["tick"].paged
  BY <1>1, <1>2, <1>4 DEF Transaction
<1>6. tx["tick"].paged = {}
  BY <1>1, <1>2 DEF Good, Holding
<1> HIDE DEF r
<1>7. PICK T \in Lists(r) :
        /\ Same("tick")
        /\ tx'["tick"].op = r.op /\ tx'["tick"].at = r.at + 1
        /\ tx'["tick"].todo = T /\ tx'["tick"].write = r.write
        /\ tx'["tick"].paged = IF r.op = "handoff" /\ T # {} THEN T ELSE r.paged
  BY <1>0, <1>1, <1>5, OnwardIs
<1>8. /\ tx'["tick"].op = "tick" /\ tx'["tick"].at = 2 /\ tx'["tick"].write = W
      /\ tx'["tick"].paged = {} /\ Phase("tick")' = "advance"
  BY <1>0, <1>5, <1>6, <1>7, PhaseAfter, PlanIs
<1>9. T = DOMAIN W
  BY <1>5, PlanIs DEF Lists
<1>10. RowsKept /\ LocksKept("tick")
  BY <1>1, RowsSame DEF LocksKept, locks
<1>11. RunBy(W) \subseteq DOMAIN W
  BY DEF RunBy
<1>12. Holding("tick")'
  BY <1>8 DEF Holding, HasChain, HasIncident, Stoppers
<1>13. Starting("tick")'
  BY <1>3, <1>7, <1>8, <1>9, <1>10, <1>11 DEF Starting, RowsKept
<1>14. Stopping("tick")'
  BY <1>8 DEF Stopping
<1>15. Good("tick")'
  BY <1>12, <1>13, <1>14 DEF Good
<1>16. \A s \in Txns \ {"tick"} : DOMAIN tx[s].write \cap DOMAIN tx'["tick"].write = {}
  BY <1>3, <1>8 DEF ReminderFree, Holds
<1> QED
  BY <1>0, <1>7, <1>10, <1>15, <1>16, Local

\* A running chain that nobody holds may page, whatever the tick then writes.
LEMMA StepFire ==
    ASSUME Types, RInv, Fire
    PROVE  RInv'
<1>0. "tick" \in Txns
  BY Names
<1>1. /\ Phase("tick") = "advance" /\ UNCHANGED <<rows, incidentLock>>
      /\ tx["tick"].todo \cup tx["tick"].insert \cup tx["tick"].update = {}
      /\ tx["tick"] \in Transaction /\ Good("tick")
  BY <1>0, Known DEF Fire, Done
<1>2. tx["tick"].op = "tick" /\ tx["tick"].at = 2
  BY <1>0, <1>1, Places
<1>3. tx["tick"].paged = {}
  BY <1>1, <1>2 DEF Good, Holding
<1>4. RunBy(tx["tick"].write) \subseteq Running
  BY <1>0, <1>2, <1>3, Known DEF MayStart
<1>5. RowsKept
  BY <1>1, RowsSame
\* Either it pages or it goes on, to the same place in its plan.
<1>6. ASSUME Same("tick"), LocksKept("tick"), tx'["tick"].op = "tick", tx'["tick"].at = 3,
             tx'["tick"].todo = tx'["tick"].paged,
             tx'["tick"].insert \cup tx'["tick"].update = {},
             tx'["tick"].write = tx["tick"].write,
             tx'["tick"].paged # {} =>
               /\ chainLock' = "tick" /\ chain = "running"
               /\ tx'["tick"].saved = tx["tick"].write
      PROVE  RInv'
  <2>1. Phase("tick")' = "start" /\ MayStart("tick")' = tx'["tick"].paged
    BY <1>0, <1>6, PhaseAfter, PlanIs DEF MayStart
  <2>2. Holding("tick")'
    BY <1>5, <1>6 DEF Holding, HasChain, HasIncident, Stoppers, RowsKept
  <2>3. Starting("tick")'
    BY <1>4, <1>5, <1>6, <2>1 DEF Starting, RowsKept
  <2>4. Stopping("tick")'
    BY <1>6 DEF Stopping
  <2>5. Good("tick")'
    BY <2>2, <2>3, <2>4 DEF Good
  <2>6. \A s \in Txns \ {"tick"} : DOMAIN tx[s].write \cap DOMAIN tx'["tick"].write = {}
    BY <1>0, <1>6 DEF RInv, RowsApart
  <2> QED
    BY <1>0, <1>5, <1>6, <2>5, <2>6, Local
<1>7. CASE Onward("tick", tx["tick"]) /\ UNCHANGED chainLock
  <2>1. PICK T \in Lists(tx["tick"]) :
          /\ Same("tick")
          /\ tx'["tick"].op = tx["tick"].op /\ tx'["tick"].at = tx["tick"].at + 1
          /\ tx'["tick"].todo = T /\ tx'["tick"].insert = tx["tick"].insert
          /\ tx'["tick"].update = tx["tick"].update /\ tx'["tick"].write = tx["tick"].write
          /\ tx'["tick"].paged = IF tx["tick"].op = "handoff" /\ T # {} THEN T
                                 ELSE tx["tick"].paged
    BY <1>0, <1>1, <1>7, OnwardIs
  <2>2. T = {}
    BY <1>2, PlanIs DEF Lists
  <2>3. LocksKept("tick")
    BY <1>1, <1>7 DEF LocksKept
  <2> QED
    BY <1>1, <1>2, <1>3, <1>6, <2>1, <2>2, <2>3
<1>8. CASE ~(Onward("tick", tx["tick"]) /\ UNCHANGED chainLock)
  <2>1. chainLock = NoTxn /\ chain = "running" /\ chainLock' = "tick"
    BY <1>8 DEF Fire
  <2>2. PICK W \in (SUBSET able) \ {{}} :
          tx' = [tx EXCEPT !["tick"].at = @ + 1, !["tick"].todo = W, !["tick"].paged = W,
                           !["tick"].saved = tx["tick"].write]
    BY <1>8 DEF Fire
  <2> DEFINE q == [tx["tick"] EXCEPT !.at = @ + 1, !.todo = W, !.paged = W,
                                     !.saved = tx["tick"].write]
  <2>3. tx' = [tx EXCEPT !["tick"] = q]
    BY <1>0, <2>2 DEF Types
  <2>4. /\ q.op = tx["tick"].op /\ q.at = tx["tick"].at + 1 /\ q.todo = W /\ q.paged = W
        /\ q.insert = tx["tick"].insert /\ q.update = tx["tick"].update
        /\ q.write = tx["tick"].write /\ q.saved = tx["tick"].write
    BY <1>1 DEF Transaction
  <2> HIDE DEF q
  <2>5. tx'["tick"] = q /\ Same("tick")
    BY <1>0, <2>3, Becomes
  <2>6. LocksKept("tick")
    BY <1>1, <2>1 DEF LocksKept
  <2> QED
    BY <1>1, <1>2, <1>6, <2>1, <2>4, <2>5, <2>6
<1> QED
  BY <1>7, <1>8

\* Time passes.
LEMMA StepElapse ==
    ASSUME Types, RInv, NEW u \in Users, Elapse(u)
    PROVE  RInv'
<1>0. "tick" \in Txns
  BY Names
<1>1. tx' = tx /\ UNCHANGED <<incident, owner, chain, chainPaged, responders, locks>>
  BY DEF Elapse
<1>2. Running' = Running
  <2>1. ASSUME NEW v \in Users PROVE reminder'[v].status = reminder[v].status
    BY DEF Elapse, Types, Row
  <2> QED
    BY <2>1 DEF Running
<1>3. RowsKept /\ LocksKept("tick") /\ Same("tick")
  BY <1>1, <1>2 DEF RowsKept, LocksKept, Same, locks
<1>4. Good("tick")'
  <2>1. Good("tick")
    BY <1>0 DEF RInv
  <2> QED
    BY <1>0, <1>1, <1>2, <2>1, Framed DEF locks
<1>5. \A s \in Txns \ {"tick"} : DOMAIN tx[s].write \cap DOMAIN tx'["tick"].write = {}
  BY <1>0, <1>1 DEF RInv, RowsApart
<1> QED
  BY <1>0, <1>3, <1>4, <1>5, Local

-----------------------------------------------------------------------------
(* Commits.                                                                *)

\* Whoever commits is at the end of its plan with nothing left to do.
LEMMA CommitAtLast ==
    ASSUME Types, NEW t \in Txns, Commit(t)
    PROVE  /\ tx[t] \in Transaction /\ tx[t].op \in Ops \cup {"tick"}
           /\ tx[t].at = Last[tx[t].op]
           /\ tx[t].op # "ask" => tx[t].todo = {}
<1>1. PICK phase \in {"commit", "stop", "finish", "start"} :
        /\ Phase(t) = phase
        /\ phase # "commit" => Done(t, phase) /\ Plan[tx[t].op][tx[t].at + 1] = "commit"
  BY DEF Commit, Done
<1>2. /\ tx[t].op \in Ops \cup {"tick"} /\ tx[t].at \in 1 .. Last[tx[t].op]
      /\ tx[t] \in Transaction
  BY <1>1, Places DEF Types
<1>3. CASE phase = "commit"
  BY <1>1, <1>2, <1>3, Places DEF Last
<1>4. CASE phase # "commit"
  <2>1. tx[t].op # "ask" /\ tx[t].todo = {}
    BY <1>1, <1>2, <1>4, Places DEF Done, Stoppers
  <2> QED
    BY <1>1, <1>2, <1>4, <2>1, NextPhaseIs
<1> QED
  BY <1>3, <1>4

\* What is visible afterwards: what it has written, and the rest as before.
LEMMA CommitReminders ==
    ASSUME Types, RInv, NEW t \in Txns, Commit(t)
    PROVE  /\ RunBy(tx[t].write) \subseteq Running'
           /\ Running' \subseteq RunBy(tx[t].write) \cup (Running \ DOMAIN tx[t].write)
           /\ Running \ DOMAIN tx[t].write \subseteq Running'
           /\ Running' \subseteq Running \cup MayStart(t)
<1>1. PICK D \in SUBSET Users : tx[t].write \in [D -> Row]
  BY Known DEF Transaction, Writes
<1>2. reminder' = [u \in Users |-> Sees(t, u)]
  BY DEF Commit
<1>3. ASSUME NEW u \in Users
      PROVE  reminder'[u] = IF u \in DOMAIN tx[t].write THEN tx[t].write[u] ELSE reminder[u]
  BY <1>2 DEF Sees, Holds
<1>4. /\ RunBy(tx[t].write) \subseteq Running'
      /\ Running' \subseteq RunBy(tx[t].write) \cup (Running \ DOMAIN tx[t].write)
      /\ Running \ DOMAIN tx[t].write \subseteq Running'
  BY <1>1, <1>3 DEF RunBy, Running
<1>5. RunBy(tx[t].write) \subseteq MayStart(t) \cup Running
  BY Known
<1> QED
  BY <1>4, <1>5

\* What a commit does to the incident, its chain and its responders.
LEMMA CommitRows ==
    ASSUME NEW t \in Txns, Commit(t)
    PROVE  /\ incident' = IF tx[t].op = "close" THEN "closed" ELSE incident
           /\ owner' = CASE tx[t].op = "ack" -> tx[t].user
                         [] tx[t].op = "handoff" -> NoUser
                         [] OTHER -> owner
           /\ chain' = CASE tx[t].op = "ack" /\ chain = "running" -> "acked"
                         [] tx[t].op = "close" -> "over"
                         [] tx[t].op = "handoff" ->
                              IF tx[t].paged = {} THEN "over" ELSE "running"
                         [] OTHER -> chain
           /\ chainPaged' = IF tx[t].op = "handoff" THEN tx[t].paged
                            ELSE chainPaged \cup tx[t].paged
           /\ responders' = IF Joins(tx[t]) THEN responders \cup {tx[t].user}
                            ELSE IF tx[t].op = "remove" THEN responders \ {tx[t].user}
                            ELSE responders
           /\ tx' = [tx EXCEPT ![t] = Idle]
           /\ chainLock' = Released(t, chainLock) /\ incidentLock' = Released(t, incidentLock)
BY DEF Commit

\* Whoever commits a change of the incident, its owner or its chain, or steps
\* that did not run, holds the row that protects it.
LEMMA CommitHolds ==
    ASSUME Types, RInv, NEW t \in Txns, Commit(t)
    PROVE  /\ tx[t].op \in Stoppers => chainLock = t /\ incidentLock = t /\ incident = "open"
           /\ tx[t].op = "add" => incidentLock = t /\ incident = "open"
           /\ MayStart(t) # {} =>
                /\ tx[t].op \in {"tick", "handoff", "add"}
                /\ chainLock = t \/ incidentLock = t
                /\ tx[t].op = "tick" => chain = "running"
<1>1. tx[t].at = Last[tx[t].op] /\ tx[t].op \in Ops \cup {"tick"} /\ Holding(t)
  BY CommitAtLast DEF RInv, Good
<1>2. tx[t].op \in Stoppers => HasChain(t) /\ HasIncident(t)
  BY <1>1 DEF Last, Stoppers, HasChain, HasIncident
<1>3. tx[t].op = "add" => HasIncident(t)
  BY <1>1 DEF Last, HasIncident
<1>4. MayStart(t) # {} => \/ tx[t].op = "tick" /\ tx[t].paged # {}
                          \/ tx[t].op \in {"handoff", "add"}
  BY DEF MayStart
<1> QED
  BY <1>1, <1>2, <1>3, <1>4 DEF Holding, Stoppers

\* What is protected by locks of others stays.
LEMMA CommitFrames ==
    ASSUME Types, RInv, NEW t \in Txns, Commit(t), NEW s \in Txns \ {t}
    PROVE  Good(s)'
<1>1. Good(s) /\ s # NoTxn /\ tx'[s] = tx[s]
  <2>1. Same(t)
    BY CommitRows, Becomes
  <2> QED
    BY <2>1, Names DEF RInv, Same
<1>2. chainLock = s => chainLock' = s /\ chain' = chain /\ chainPaged \subseteq chainPaged'
  <2>1. chainLock = s => tx[t].op \notin Stoppers
    BY CommitHolds
  <2> QED
    BY <1>1, <2>1, CommitRows DEF Released, Stoppers
<1>3. incidentLock = s => incidentLock' = s /\ incident' = incident /\ owner' = owner
  <2>1. incidentLock = s => tx[t].op \notin Stoppers
    BY CommitHolds
  <2> QED
    BY <1>1, <2>1, CommitRows DEF Released, Stoppers
<1>4. chainLock = s /\ incidentLock = s => Running' \subseteq Running
  <2>1. chainLock = s /\ incidentLock = s => MayStart(t) = {}
    BY CommitHolds
  <2> QED
    BY <2>1, CommitReminders
<1>5. DOMAIN tx[s].write \cap Running \subseteq Running'
  <2>1. DOMAIN tx[s].write \cap DOMAIN tx[t].write = {}
    BY DEF RInv, RowsApart
  <2> QED
    BY <2>1, CommitReminders
<1> QED
  BY <1>1, <1>2, <1>3, <1>4, <1>5, Framed

\* Nothing that was listed before somebody took the incident, closed it, or
\* handed it over is left running.
LEMMA CommitStops ==
    ASSUME Types, RInv, NEW t \in Txns, Commit(t)
    PROVE  /\ tx[t].op \in {"ack", "close"} => Running' = {}
           /\ tx[t].op = "handoff" => Running' \subseteq tx[t].paged
           /\ tx[t].op = "remove" /\ tx[t].user \in Running' => tx[t].user \in chainPaged
<1>1. /\ tx[t].at = Last[tx[t].op]
      /\ tx[t].op # "ask" => tx[t].todo = {}
      /\ Stopping(t) /\ Starting(t)
  BY CommitAtLast DEF RInv, Good
<1>2. ASSUME tx[t].op \in {"ack", "close"} PROVE Running' = {}
  <2>1. Running \subseteq DOMAIN tx[t].write
    BY <1>1, <1>2 DEF Stopping, Last
  <2>2. RunBy(tx[t].write) = {}
    BY <1>1, <1>2 DEF Starting, MayStart
  <2> QED
    BY <2>1, <2>2, CommitReminders
<1>3. ASSUME tx[t].op = "handoff" PROVE Running' \subseteq tx[t].paged
  <2>1. Running \subseteq DOMAIN tx[t].write
    BY <1>1, <1>3 DEF Stopping, Last
  <2>2. RunBy(tx[t].write) \subseteq tx[t].paged
    BY <1>1, <1>3 DEF Starting, MayStart
  <2> QED
    BY <2>1, <2>2, CommitReminders
<1>4. ASSUME tx[t].op = "remove", tx[t].user \in Running' PROVE tx[t].user \in chainPaged
  <2>1. RunBy(tx[t].write) = {}
    BY <1>1, <1>4 DEF Starting, MayStart
  <2>2. tx[t].user \in Running \ DOMAIN tx[t].write
    BY <1>4, <2>1, CommitReminders
  <2>3. tx[t].at = 3 /\ tx[t].todo = {}
    BY <1>1, <1>4 DEF Last
  <2> QED
    BY <1>1, <1>4, <2>2, <2>3 DEF Stopping
<1> QED
  BY <1>2, <1>3, <1>4

\* A commit keeps the invariant.
LEMMA StepCommit ==
    ASSUME Types, RInv, NEW t \in Txns, Commit(t)
    PROVE  RInv'
<1>0. tx[t].op \in Ops \cup {"tick"} /\ tx[t].op # "none"
  BY CommitAtLast DEF Ops
<1>1. tx'[t] = Idle /\ Same(t)
  BY CommitRows, Becomes
<1>2. Idle.op = "none" /\ Idle.at = 1 /\ Idle.paged = {} /\ Idle.write = [v \in {} |-> NoReminder]
  BY DEF Idle
<1>3. Good(t)' /\ DOMAIN tx'[t].write = {}
  BY <1>1, <1>2, FreshIsGood
<1>4. \A s \in Txns : Good(s)'
  BY <1>3, CommitFrames
<1>5. RowsApart'
  <2>1. SUFFICES ASSUME NEW r \in Txns, NEW s \in Txns \ {r}
                 PROVE  DOMAIN tx'[s].write \cap DOMAIN tx'[r].write = {}
    BY DEF RowsApart
  <2>2. CASE r = t \/ s = t
    BY <1>3, <2>2
  <2>3. CASE r # t /\ s # t
    BY <1>1, <2>1, <2>3 DEF Same, RInv, RowsApart
  <2> QED
    BY <2>2, <2>3
<1>6. ChainLive'
  <2>1. CASE tx[t].op \in Stoppers
    BY <2>1, CommitRows, CommitHolds DEF RInv, ChainLive, Stoppers
  <2>2. CASE tx[t].op \notin Stoppers
    BY <2>2, CommitRows DEF RInv, ChainLive, Stoppers
  <2> QED
    BY <2>1, <2>2
<1>7. StepsStopForOwner'
  <2>1. CASE tx[t].op \in {"ack", "close"}
    BY <2>1, CommitStops DEF StepsStopForOwner
  <2>2. CASE tx[t].op = "handoff"
    BY <2>2, CommitRows, CommitHolds DEF StepsStopForOwner, Stoppers
  <2>3. CASE tx[t].op = "add"
    <3>1. owner' = owner /\ incident' = incident /\ incident = "open"
      BY <2>3, CommitRows, CommitHolds
    <3>2. CASE RunBy(tx[t].write) = {}
      BY <3>1, <3>2, CommitReminders DEF RInv, StepsStopForOwner
    <3>3. CASE RunBy(tx[t].write) # {}
      BY <2>3, <3>1, <3>3, Known DEF StepsStopForOwner
    <3> QED
      BY <3>2, <3>3
  <2>4. CASE tx[t].op \notin {"ack", "close", "handoff", "add"}
    <3>1. owner' = owner /\ incident' = incident
      BY <2>4, CommitRows
    <3>2. MayStart(t) # {} => owner = NoUser /\ incident = "open"
      BY <2>4, CommitHolds DEF RInv, ChainLive
    <3> QED
      BY <3>1, <3>2, CommitReminders DEF RInv, StepsStopForOwner
  <2> QED
    BY <2>1, <2>2, <2>3, <2>4
<1>8. StepsAreWanted'
  <2>1. CASE tx[t].op = "handoff"
    BY <2>1, CommitRows, CommitStops DEF StepsAreWanted
  <2>2. CASE tx[t].op = "remove"
    <3>1. MayStart(t) = {}
      BY <2>2 DEF MayStart
    <3>2. responders \ {tx[t].user} \subseteq responders' /\ chainPaged \subseteq chainPaged'
      BY <2>2, CommitRows DEF Joins
    <3> QED
      BY <2>2, <3>1, <3>2, CommitReminders, CommitStops DEF RInv, StepsAreWanted
  <2>3. CASE tx[t].op \notin {"handoff", "remove"}
    <3>1. responders \subseteq responders' /\ chainPaged \cup tx[t].paged \subseteq chainPaged'
      BY <2>3, CommitRows
    <3>2. MayStart(t) \subseteq responders' \cup chainPaged'
      BY <2>3, <3>1, CommitRows DEF MayStart, Joins
    <3> QED
      BY <3>1, <3>2, CommitReminders DEF RInv, StepsAreWanted
  <2> QED
    BY <2>1, <2>2, <2>3
<1> QED
  BY <1>4, <1>5, <1>6, <1>7, <1>8 DEF RInv

-----------------------------------------------------------------------------
(* Every reachable state.                                                  *)

LEMMA InitRInv == Init => RInv
<1> SUFFICES ASSUME Init PROVE RInv
  OBVIOUS
<1>1. \A t \in Txns : tx[t] = Idle
  BY DEF Init
<1>2. /\ Idle.op = "none" /\ Idle.at = 1 /\ Idle.paged = {} /\ DOMAIN Idle.write = {}
  BY DEF Idle
<1>3. Running = {}
  BY DEF Init, Running, NoReminder
<1>4. ASSUME NEW t \in Txns PROVE Good(t)
  <2>1. /\ tx[t].op = "none" /\ tx[t].at = 1 /\ RunBy(tx[t].write) = {} /\ Phase(t) = "none"
    BY <1>1, <1>2 DEF RunBy, Phase
  <2> QED
    BY <2>1 DEF Good, Holding, HasChain, HasIncident, Stoppers, Starting, Stopping
<1>5. RowsApart
  BY <1>1, <1>2 DEF RowsApart
<1>6. ChainLive /\ StepsStopForOwner /\ StepsAreWanted
  BY <1>3 DEF Init, ChainLive, StepsStopForOwner, StepsAreWanted
<1> QED
  BY <1>4, <1>5, <1>6 DEF RInv

\* Every step keeps the invariant.
LEMMA StepRInv ==
    ASSUME Types, RInv, [Next]_vars
    PROVE  RInv'
<1>0. "tick" \in Txns /\ Clients \subseteq Txns
  BY Names
<1>1. ASSUME NEW t \in Txns, Work(t) PROVE RInv'
  BY <1>1, StepProceed, StepLockChain, StepLockIncident, StepCommit, StepStop, StepSettle,
     StepStartDecides, StepStartWrites, StepStartClashes DEF Work
<1>2. ASSUME Tick PROVE RInv'
  BY <1>0, <1>1, <1>2, StepBegins, StepClaim, StepFire, StepAdvance DEF Tick
<1>3. ASSUME NEW t \in Txns, Abort(t) PROVE RInv'
  BY <1>3, StepLeave DEF Abort
<1>4. ASSUME Victim PROVE RInv'
  <2>1. PICK t \in UNION Rings : Leave(t)
    BY <1>4 DEF Victim
  <2>2. t \in Txns
    BY DEF Rings
  <2> QED
    BY <2>1, <2>2, StepLeave
<1>5. ASSUME UNCHANGED vars PROVE RInv'
  <2>1. UNCHANGED rows /\ LocksKept("tick") /\ Same("tick") /\ tx' = tx
    BY <1>5 DEF vars, locks, LocksKept, Same
  <2>2. RowsKept
    BY <2>1, RowsSame
  <2>3. Good("tick")'
    <3>1. Good("tick")
      BY <1>0 DEF RInv
    <3> QED
      BY <1>0, <1>5, <2>2, <3>1, Framed DEF vars, locks, RowsKept
  <2>4. \A s \in Txns \ {"tick"} : DOMAIN tx[s].write \cap DOMAIN tx'["tick"].write = {}
    BY <1>0, <2>1 DEF RInv, RowsApart
  <2> QED
    BY <1>0, <2>1, <2>2, <2>3, <2>4, Local
<1>6. ASSUME NEW c \in Clients, NEW op \in Ops, NEW u \in Users, NEW yes \in BOOLEAN,
             Begin(c, op, u, yes)
      PROVE  RInv'
  BY <1>6, StepBegins
<1> QED
  BY <1>0, <1>1, <1>2, <1>3, <1>4, <1>5, <1>6, StepElapse DEF Next

\* The invariant holds in every reachable state.
THEOREM StepsInvariance == Spec => []RInv
<1>1. IInv /\ RInv /\ [Next]_vars => RInv'
  BY StepRInv DEF IInv
<1> QED
  BY <1>1, InitRInv, Invariance, PTL DEF Spec

\* Once somebody owns the incident, or it is closed, no further steps run, for
\* any number of people, requests and ticks that overlap.
THEOREM NoStepsBesideOwner == Spec => []StepsStopForOwner
<1>1. RInv => StepsStopForOwner
  BY DEF RInv
<1> QED
  BY <1>1, StepsInvariance, PTL

\* Steps run only for people who help or whom the current run paged.
THEOREM OnlyWantedSteps == Spec => []StepsAreWanted
<1>1. RInv => StepsAreWanted
  BY DEF RInv
<1> QED
  BY <1>1, StepsInvariance, PTL

-----------------------------------------------------------------------------
(* Who can wait for whom.  Locks are taken in the order chain, incident,   *)
(* rows of people; only demotions and ticks come to the rows without the   *)
(* incident.                                                               *)

\* It has not come to the rows of people yet.
Early(t) ==
    \/ tx[t].op = "none" \/ (tx[t].op # "demote" /\ tx[t].at = 1)
    \/ tx[t].op \in Stoppers /\ tx[t].at = 2

\* What somebody has not locked: nothing before its turn, and no more than its
\* plan needs; one that touches a single row holds none while it waits for it.
Unlocked(t) ==
    /\ chainLock = t => HasChain(t) \/ (tx[t].op = "tick" /\ tx[t].paged # {})
    /\ incidentLock = t => HasIncident(t)
    /\ Early(t) => DOMAIN tx[t].write = {}
    /\ Early(t) \/ tx[t].op \notin {"close", "add", "answer", "tick"} => tx[t].answered = {}
    /\ tx[t].op = "close" /\ tx[t].at = 3 => tx[t].answered = {}
    /\ tx[t].op \in {"ask", "answer"} => DOMAIN tx[t].write = {}
    /\ tx[t].op = "answer" /\ tx[t].todo # {} => tx[t].answered = {}
    /\ tx[t].op = "demote" => tx[t].todo \subseteq {tx[t].user}
    /\ tx[t].op = "demote" /\ tx[t].todo # {} => DOMAIN tx[t].write = {}

WInv == \A t \in Txns : Unlocked(t)

\* A step of one transaction leaves the others what they have locked.
LEMMA Elsewhere ==
    ASSUME Types, WInv, NEW t \in Txns, Same(t), Unlocked(t)',
           chainLock' \in {chainLock, t, NoTxn}, incidentLock' \in {incidentLock, t, NoTxn}
    PROVE  WInv'
<1>1. ASSUME NEW s \in Txns \ {t} PROVE Unlocked(s)'
  <2>1. tx'[s] = tx[s] /\ Unlocked(s) /\ s # NoTxn /\ s # t
    BY Names DEF Same, WInv
  <2>2. (chainLock' = s => chainLock = s) /\ (incidentLock' = s => incidentLock = s)
    BY <2>1
  <2>3. /\ HasChain(s)' <=> HasChain(s)
        /\ HasIncident(s)' <=> HasIncident(s)
        /\ Early(s)' <=> Early(s)
    BY <2>1 DEF HasChain, HasIncident, Early
  <2> QED
    BY <2>1, <2>2, <2>3 DEF Unlocked
<1> QED
  BY <1>1 DEF WInv

\* Somebody who begins, or has ended, has locked nothing.
LEMMA LockedNothing ==
    ASSUME Types, WInv, NEW t \in Txns, Same(t), chainLock' # t, incidentLock' # t,
           chainLock' \in {chainLock, NoTxn}, incidentLock' \in {incidentLock, NoTxn},
           DOMAIN tx'[t].write = {}, tx'[t].answered = {},
           tx'[t].op = "demote" => tx'[t].todo \subseteq {tx'[t].user}
    PROVE  WInv'
<1>1. Unlocked(t)'
  BY DEF Unlocked
<1> QED
  BY <1>1, Elsewhere

LEMMA WaitBegins ==
    ASSUME Types, WInv,
           \/ \E c \in Clients, op \in Ops, u \in Users, yes \in BOOLEAN : Begin(c, op, u, yes)
           \/ TickBegins
    PROVE  WInv'
<1>0. "tick" \in Txns /\ Clients \subseteq Txns
  BY Names
<1>1. ASSUME NEW t \in Txns, NEW q, tx[t].op = "none", tx' = [tx EXCEPT ![t] = q],
             q.write = [v \in {} |-> NoReminder], q.answered = {},
             q.op = "demote" => q.todo \subseteq {q.user}, UNCHANGED locks
      PROVE  WInv'
  <2>1. tx'[t] = q /\ Same(t)
    BY <1>1, Becomes
  <2>2. ~HasChain(t) /\ ~HasIncident(t) /\ tx[t].op # "tick"
    BY <1>1 DEF HasChain, HasIncident, Stoppers
  <2>3. chainLock # t /\ incidentLock # t
    BY <2>2 DEF WInv, Unlocked
  <2>4. DOMAIN tx'[t].write = {}
    BY <1>1, <2>1
  <2> QED
    BY <1>1, <2>1, <2>3, <2>4, LockedNothing DEF locks
<1>2. ASSUME NEW c \in Clients, NEW op \in Ops, NEW u \in Users, NEW yes \in BOOLEAN,
             Begin(c, op, u, yes)
      PROVE  WInv'
  <2> DEFINE T == IF op = "demote" THEN Running \cap {u} ELSE {}
             f == u \notin late
             w == IF op \in {"close", "handoff"} THEN NoUser ELSE u
             q == [Idle EXCEPT !.op = op, !.yes = yes, !.user = w, !.fresh = f, !.todo = T]
  <2>1. /\ q.op = op /\ q.write = [v \in {} |-> NoReminder] /\ q.answered = {}
        /\ q.todo = T /\ q.user = w
    <3> HIDE DEF T, f, w
    <3> QED
      BY DEF Idle
  <2>2. op = "demote" => T \subseteq {w}
    OBVIOUS
  <2>3. tx' = [tx EXCEPT ![c] = q] /\ tx[c].op = "none" /\ UNCHANGED locks
    BY <1>2 DEF Begin
  <2> HIDE DEF q, T, w
  <2> QED
    BY <1>0, <1>1, <2>1, <2>2, <2>3
<1>3. ASSUME TickBegins PROVE WInv'
  <2> DEFINE q == [Idle EXCEPT !.op = "tick"]
  <2>1. q.op = "tick" /\ q.write = [v \in {} |-> NoReminder] /\ q.answered = {}
    BY DEF Idle
  <2>2. tx' = [tx EXCEPT !["tick"] = q] /\ tx["tick"].op = "none" /\ UNCHANGED locks
    BY <1>3 DEF TickBegins
  <2> HIDE DEF q
  <2> QED
    BY <1>0, <1>1, <2>1, <2>2
<1> QED
  BY <1>2, <1>3

\* It ends, with or without a commit.
LEMMA WaitEnds ==
    ASSUME Types, WInv, NEW t \in Txns, Leave(t) \/ Commit(t)
    PROVE  WInv'
<1>1. tx' = [tx EXCEPT ![t] = Idle] /\ chainLock' = Released(t, chainLock)
      /\ incidentLock' = Released(t, incidentLock)
  BY DEF Leave, Commit
<1>2. tx'[t] = Idle /\ Same(t)
  BY <1>1, Becomes
<1>3. /\ Idle.op = "none" /\ Idle.answered = {} /\ Idle.write = [v \in {} |-> NoReminder]
      /\ t # NoTxn
  BY Names DEF Idle
<1>4. DOMAIN tx'[t].write = {} /\ tx'[t].answered = {} /\ tx'[t].op # "demote"
  BY <1>2, <1>3
<1> QED
  BY <1>1, <1>2, <1>3, <1>4, LockedNothing DEF Released

\* It locks the chain or the incident, or goes on to the rows of people.
LEMMA WaitGoesOn ==
    ASSUME Types, WInv, NEW t \in Txns, LockChain(t) \/ LockIncident(t) \/ Proceed(t)
    PROVE  WInv'
<1>1. SUFFICES ASSUME ~Leave(t) PROVE WInv'
  BY WaitEnds
<1>2. /\ Onward(t, tx[t]) /\ tx[t] \in Transaction /\ Unlocked(t)
      /\ \/ LockChain(t) /\ chainLock' = t /\ UNCHANGED incidentLock
         \/ LockIncident(t) /\ incidentLock' = t /\ UNCHANGED chainLock
         \/ Proceed(t) /\ UNCHANGED <<chainLock, incidentLock>>
  BY <1>1 DEF LockChain, LockIncident, Proceed, Types, WInv, locks
<1>3. PICK T \in Lists(tx[t]) :
        /\ Same(t)
        /\ tx'[t].op = tx[t].op /\ tx'[t].user = tx[t].user /\ tx'[t].at = tx[t].at + 1
        /\ tx'[t].todo = T /\ tx'[t].write = tx[t].write /\ tx'[t].answered = tx[t].answered
        /\ tx'[t].paged = IF tx[t].op = "handoff" /\ T # {} THEN T ELSE tx[t].paged
  BY <1>2, OnwardIs
<1>4. CASE LockChain(t)
  <2>1. tx[t].op \in Stoppers /\ tx[t].at = 1
    BY <1>4, Places DEF LockChain
  <2> QED
    BY <1>2, <1>3, <1>4, <2>1, Elsewhere
      DEF Unlocked, Early, HasChain, HasIncident, Stoppers, LockChain
<1>5. CASE LockIncident(t)
  <2>1. \/ tx[t].op \in {"add", "ask", "answer"} /\ tx[t].at = 1
        \/ tx[t].op \in Stoppers /\ tx[t].at = 2
    BY <1>5, Places DEF LockIncident
  <2>2. Unlocked(t)'
    BY <1>1, <1>2, <1>3, <1>5, <2>1
      DEF Unlocked, Early, HasChain, HasIncident, Stoppers, LockIncident
  <2> QED
    BY <1>1, <1>3, <1>5, <2>2, Elsewhere DEF LockIncident
<1>6. CASE Proceed(t)
  <2>1. \/ tx[t].op \in {"close", "handoff", "tick"} /\ tx[t].at = 3
        \/ tx[t].op = "add" /\ tx[t].at = 2
    BY <1>6, ProceedsFrom
  <2>2. UNCHANGED <<chainLock, incidentLock>>
    BY <1>6 DEF Proceed, locks
  <2>3. Unlocked(t)'
    BY <1>2, <1>3, <2>1, <2>2 DEF Unlocked, Early, HasChain, HasIncident, Stoppers
  <2> QED
    BY <1>3, <2>2, <2>3, Elsewhere
<1> QED
  BY <1>2, <1>4, <1>5, <1>6

\* Work on the rows of people locks and settles nothing else.
LEMMA WaitWorks ==
    ASSUME Types, WInv, NEW t \in Txns, NEW q, tx' = [tx EXCEPT ![t] = q],
           Phase(t) \in {"stop", "start", "advance"}, UNCHANGED locks,
           q.op = tx[t].op, q.user = tx[t].user, q.at = tx[t].at, q.paged = tx[t].paged,
           q.answered = tx[t].answered, tx[t].op = "demote" => q.todo = {}
    PROVE  WInv'
<1>1. tx'[t] = q /\ Same(t) /\ Unlocked(t)
  BY Becomes DEF WInv
<1>2. \/ tx[t].op \in Stoppers /\ tx[t].at \in {3, 4}
      \/ tx[t].op = "demote"
      \/ tx[t].op = "add" /\ tx[t].at = 3
      \/ tx[t].op = "tick" /\ tx[t].at \in {2, 3}
  BY Places DEF Stoppers
<1>3. ~Early(t) /\ tx[t].op \notin {"ask", "answer"}
  BY <1>2 DEF Early, Stoppers
<1>4. Unlocked(t)'
  BY <1>1, <1>3 DEF Unlocked, Early, HasChain, HasIncident, locks
<1> QED
  BY <1>1, <1>4, Elsewhere DEF locks

\* Somebody's steps are stopped, decided on, started, or one of them is sent.
LEMMA WaitWrites ==
    ASSUME Types, WInv, NEW t \in Txns, NEW u \in Users,
           \/ Stop(t, u) \/ StartDecides(t, u) \/ StartWrites(t, u)
           \/ t = "tick" /\ Advance(u)
    PROVE  WInv'
<1>1. tx[t] \in Transaction /\ Unlocked(t) /\ UNCHANGED locks /\ tx \in [Txns -> Transaction]
  BY DEF Types, WInv, Stop, StartDecides, StartWrites, Advance
<1>2. CASE Stop(t, u)
  <2> DEFINE W == Written(t, u, [reminder[u] EXCEPT !.status = "stopped", !.due = FALSE])
             q == [tx[t] EXCEPT !.todo = @ \ {u}, !.write = W]
  <2>1. tx' = [tx EXCEPT ![t] = q] /\ Phase(t) = "stop" /\ u \in tx[t].todo
    BY <1>1, <1>2 DEF Stop
  <2> HIDE DEF W
  <2>2. /\ q.op = tx[t].op /\ q.user = tx[t].user /\ q.at = tx[t].at /\ q.paged = tx[t].paged
        /\ q.answered = tx[t].answered /\ q.todo = tx[t].todo \ {u}
    BY <1>1 DEF Transaction
  <2>3. tx[t].op = "demote" => q.todo = {}
    BY <1>1, <2>1, <2>2 DEF Unlocked
  <2> HIDE DEF q
  <2> QED
    BY <1>1, <2>1, <2>2, <2>3, WaitWorks
<1>3. CASE StartDecides(t, u)
  <2> DEFINE steps == u \in able /\ Sees(t, u).status # "running"
             new == Sees(t, u).status = "none"
             I == IF steps /\ new THEN tx[t].insert \cup {u} ELSE tx[t].insert
             U == IF steps /\ ~new THEN tx[t].update \cup {u} ELSE tx[t].update
             q == [tx[t] EXCEPT !.todo = @ \ {u}, !.insert = I, !.update = U]
  <2>1. tx' = [tx EXCEPT ![t] = q] /\ Phase(t) = "start"
    BY <1>1, <1>3 DEF StartDecides
  <2> HIDE DEF I, U
  <2>2. /\ q.op = tx[t].op /\ q.user = tx[t].user /\ q.at = tx[t].at /\ q.paged = tx[t].paged
        /\ q.answered = tx[t].answered
    BY <1>1 DEF Transaction
  <2>3. tx[t].op # "demote"
    BY <2>1, Places DEF Stoppers
  <2> HIDE DEF q
  <2> QED
    BY <1>1, <2>1, <2>2, <2>3, WaitWorks
<1>4. CASE StartWrites(t, u)
  <2> DEFINE W == Written(t, u, Started(t))
             q == [tx[t] EXCEPT !.insert = @ \ {u}, !.update = @ \ {u}, !.write = W]
  <2>1. tx' = [tx EXCEPT ![t] = q] /\ Phase(t) = "start"
    BY <1>1, <1>4 DEF StartWrites
  <2> HIDE DEF W
  <2>2. /\ q.op = tx[t].op /\ q.user = tx[t].user /\ q.at = tx[t].at /\ q.paged = tx[t].paged
        /\ q.answered = tx[t].answered
    BY <1>1 DEF Transaction
  <2>3. tx[t].op # "demote"
    BY <2>1, Places DEF Stoppers
  <2> HIDE DEF q
  <2> QED
    BY <1>1, <2>1, <2>2, <2>3, WaitWorks
<1>5. CASE t = "tick" /\ Advance(u)
  <2> DEFINE next == IF incident = "closed" \/ u \notin able
                     THEN [reminder[u] EXCEPT !.status = "stopped", !.due = FALSE]
                     ELSE [status |-> IF reminder[u].stage + 2 < Stages THEN "running"
                                      ELSE "exhausted",
                           stage |-> reminder[u].stage + 1, due |-> FALSE]
             W == Written(t, u, next)
             q == [tx[t] EXCEPT !.todo = @ \ {u}, !.write = W]
  <2>1. tx' = [tx EXCEPT ![t] = q] /\ Phase(t) = "advance"
    BY <1>1, <1>5 DEF Advance
  <2> HIDE DEF W
  <2>2. /\ q.op = tx[t].op /\ q.user = tx[t].user /\ q.at = tx[t].at /\ q.paged = tx[t].paged
        /\ q.answered = tx[t].answered
    BY <1>1 DEF Transaction
  <2>3. tx[t].op # "demote"
    BY <2>1, Places DEF Stoppers
  <2> HIDE DEF q
  <2> QED
    BY <1>1, <2>1, <2>2, <2>3, WaitWorks
<1> QED
  BY <1>2, <1>3, <1>4, <1>5

\* A request is settled: an answer settles only its own.
LEMMA WaitSettles ==
    ASSUME Types, Settled, WInv, NEW t \in Txns, NEW u \in Users, Settle(t, u)
    PROVE  WInv'
<1>1. SUFFICES ASSUME ~Leave(t) PROVE WInv'
  BY WaitEnds
<1>2. /\ Phase(t) = "finish" /\ u \in tx[t].todo /\ UNCHANGED locks
      /\ tx[t] \in Transaction /\ Unlocked(t)
  BY <1>1 DEF Settle, Types, WInv
<1> DEFINE A == IF u \in Pending THEN tx[t].answered \cup {u} ELSE tx[t].answered
           q == [tx[t] EXCEPT !.todo = @ \ {u}, !.answered = A]
<1>3. tx' = [tx EXCEPT ![t] = q]
  <2>1. CASE u \in Pending
    BY <2>1 DEF Settle, Types
  <2>2. CASE u \notin Pending
    <3>1. tx' = [tx EXCEPT ![t].todo = @ \ {u}]
      BY <1>1, <2>2 DEF Settle
    <3>2. [tx[t] EXCEPT !.todo = @ \ {u}] = q
      BY <1>2, <2>2 DEF Transaction
    <3> QED
      BY <3>1, <3>2 DEF Types
  <2> QED
    BY <2>1, <2>2
<1> HIDE DEF A
<1>4. /\ q.op = tx[t].op /\ q.user = tx[t].user /\ q.at = tx[t].at /\ q.paged = tx[t].paged
      /\ q.write = tx[t].write /\ q.todo = tx[t].todo \ {u}
  BY <1>2 DEF Transaction
<1> HIDE DEF q
<1>5. tx'[t] = q /\ Same(t)
  BY <1>3, Becomes
<1>6. \/ tx[t].op \in {"close", "tick"} /\ tx[t].at = 4
      \/ tx[t].op \in {"add", "answer"} /\ tx[t].at = 2
  BY <1>2, Places
<1>7. tx[t].op = "answer" => q.todo = {}
  BY <1>2, <1>4 DEF Settled
<1>8. Unlocked(t)'
  BY <1>2, <1>4, <1>5, <1>6, <1>7 DEF Unlocked, Early, HasChain, HasIncident, Stoppers, locks
<1> QED
  BY <1>2, <1>5, <1>8, Elsewhere DEF locks

\* The tick claims its rows, and goes on to the chain or past it.
LEMMA WaitTicks ==
    ASSUME Types, WInv, Claim \/ Fire
    PROVE  WInv'
<1>0. "tick" \in Txns /\ tx["tick"] \in Transaction /\ Unlocked("tick")
  BY Names DEF Types, WInv
<1>1. /\ tx["tick"].op = "tick" /\ tx["tick"].at \in {1, 2}
      /\ UNCHANGED incidentLock
  BY <1>0, Places DEF Claim, Fire, Done, locks
\* Wherever it goes, it holds the chain only to page.
<1>2. ASSUME Same("tick"), tx'["tick"].op = "tick", tx'["tick"].at \in {2, 3},
             chainLock' \in {chainLock, "tick"},
             chainLock' = "tick" =>
               \/ chainLock = "tick" /\ tx'["tick"].paged = tx["tick"].paged
               \/ tx'["tick"].paged # {}
      PROVE  WInv'
  <2>1. Unlocked("tick")'
    BY <1>0, <1>1, <1>2 DEF Unlocked, Early, HasChain, HasIncident, Stoppers
  <2> QED
    BY <1>0, <1>1, <1>2, <2>1, Elsewhere
<1>3. CASE Claim
  <2> DEFINE due == {u \in Running : reminder[u].due /\ ReminderFree("tick", u)}
             W == [u \in due |-> reminder[u]]
             r == [tx["tick"] EXCEPT !.write = W]
  <2>1. Onward("tick", r) /\ UNCHANGED locks /\ tx["tick"].at = 1
    BY <1>0, <1>3, Places DEF Claim
  <2>2. W \in Writes
    <3>1. due \in SUBSET Users
      BY DEF Running
    <3>2. W \in [due -> Row]
      BY <3>1 DEF Types
    <3> HIDE DEF W, due
    <3> QED
      BY <3>1, <3>2 DEF Writes
  <2> HIDE DEF W
  <2>3. /\ r \in Transaction /\ r.op = "tick" /\ r.at = 1 /\ r.paged = tx["tick"].paged
    BY <1>0, <1>1, <2>1, <2>2 DEF Transaction
  <2> HIDE DEF r
  <2>4. /\ Same("tick") /\ tx'["tick"].op = "tick" /\ tx'["tick"].at = 2
        /\ tx'["tick"].paged = tx["tick"].paged
    BY <1>0, <2>1, <2>3, OnwardIs
  <2> QED
    BY <1>2, <2>1, <2>4 DEF locks
<1>4. CASE Fire
  <2>1. tx["tick"].at = 2
    BY <1>0, <1>4, Places DEF Fire, Done
  <2>2. CASE Onward("tick", tx["tick"]) /\ UNCHANGED chainLock
    <3>1. /\ Same("tick") /\ tx'["tick"].op = "tick" /\ tx'["tick"].at = 3
          /\ tx'["tick"].paged = tx["tick"].paged
      BY <1>0, <1>1, <2>1, <2>2, OnwardIs
    <3> QED
      BY <1>2, <2>2, <3>1
  <2>3. CASE ~(Onward("tick", tx["tick"]) /\ UNCHANGED chainLock)
    <3>1. PICK W \in (SUBSET able) \ {{}} :
            tx' = [tx EXCEPT !["tick"].at = @ + 1, !["tick"].todo = W, !["tick"].paged = W,
                             !["tick"].saved = tx["tick"].write]
      BY <1>4, <2>3 DEF Fire
    <3> DEFINE q == [tx["tick"] EXCEPT !.at = @ + 1, !.todo = W, !.paged = W,
                                       !.saved = tx["tick"].write]
    <3>2. tx' = [tx EXCEPT !["tick"] = q] /\ chainLock' = "tick"
      BY <1>0, <1>4, <2>3, <3>1 DEF Types, Fire
    <3>3. q.op = tx["tick"].op /\ q.at = tx["tick"].at + 1 /\ q.paged = W
      BY <1>0 DEF Transaction
    <3> HIDE DEF q
    <3>4. tx'["tick"] = q /\ Same("tick")
      BY <1>0, <3>2, Becomes
    <3>5. W # {}
      OBVIOUS
    <3>6. tx'["tick"].op = "tick" /\ tx'["tick"].at = 3 /\ tx'["tick"].paged # {}
      BY <1>1, <2>1, <3>3, <3>4, <3>5
    <3> QED
      BY <1>2, <3>2, <3>4, <3>6
  <2> QED
    BY <2>2, <2>3
<1> QED
  BY <1>3, <1>4

\* A tick goes back to before its chain: it no longer holds it.
LEMMA WaitClashes ==
    ASSUME Types, WInv, NEW t \in Txns, NEW u \in Users, StartClashes(t, u)
    PROVE  WInv'
<1>1. SUFFICES ASSUME t = "tick" PROVE WInv'
  BY WaitEnds DEF StartClashes
<1> DEFINE q == [tx[t] EXCEPT !.insert = {}, !.update = {}, !.todo = {}, !.paged = {},
                              !.write = tx[t].saved]
<1>2. /\ Phase(t) = "start" /\ tx[t] \in Transaction /\ Unlocked(t)
      /\ UNCHANGED incidentLock /\ chainLock' = Released(t, chainLock) /\ t # NoTxn
  BY <1>1, Names DEF StartClashes, Types, WInv
<1>3. tx[t].op = "tick" /\ tx[t].at = 3
  <2>1. tx[t].op = "tick"
    BY <1>1, <1>2, Places DEF Types
  <2> QED
    BY <1>2, <2>1, Places
<1>4. tx' = [tx EXCEPT ![t] = q]
  BY <1>1 DEF StartClashes, Types
<1>5. q.op = "tick" /\ q.at = 3
  BY <1>2, <1>3 DEF Transaction
<1> HIDE DEF q
<1>6. tx'[t] = q /\ Same(t)
  BY <1>4, Becomes
<1>7. Unlocked(t)'
  BY <1>2, <1>3, <1>5, <1>6 DEF Unlocked, Early, HasIncident, Stoppers, Released
<1> QED
  BY <1>2, <1>6, <1>7, Elsewhere DEF Released

LEMMA InitWInv == Init => WInv
<1>1. ASSUME Init, NEW t \in Txns PROVE Unlocked(t)
  <2>1. tx[t] = Idle /\ chainLock = NoTxn /\ incidentLock = NoTxn /\ t # NoTxn
    BY <1>1, Names DEF Init
  <2>2. /\ Idle.op = "none" /\ Idle.answered = {} /\ Idle.write = [v \in {} |-> NoReminder]
    BY DEF Idle
  <2>3. DOMAIN tx[t].write = {}
    BY <2>1, <2>2
  <2> QED
    BY <2>1, <2>2, <2>3 DEF Unlocked
<1> QED
  BY <1>1 DEF WInv

LEMMA StepWInv ==
    ASSUME Types, Settled, WInv, [Next]_vars
    PROVE  WInv'
<1>0. "tick" \in Txns /\ Clients \subseteq Txns
  BY Names
<1>1. ASSUME NEW t \in Txns, Work(t) PROVE WInv'
  BY <1>1, WaitGoesOn, WaitEnds, WaitWrites, WaitSettles, WaitClashes DEF Work
<1>2. ASSUME Tick PROVE WInv'
  BY <1>0, <1>1, <1>2, WaitBegins, WaitTicks, WaitWrites DEF Tick
<1>3. ASSUME NEW t \in UNION Rings, Leave(t) PROVE WInv'
  BY <1>3, WaitEnds DEF Rings
<1>4. ASSUME NEW u \in Users, Elapse(u) PROVE WInv'
  <2>1. UNCHANGED <<tx, chainLock, incidentLock>>
    BY <1>4 DEF Elapse, locks
  <2> QED
    BY <2>1 DEF WInv, Unlocked, Early, HasChain, HasIncident
<1>5. CASE UNCHANGED vars
  <2>1. UNCHANGED <<tx, chainLock, incidentLock>>
    BY <1>5 DEF vars, locks
  <2> QED
    BY <2>1 DEF WInv, Unlocked, Early, HasChain, HasIncident
<1>6. CASE Next
  BY <1>0, <1>1, <1>2, <1>3, <1>4, <1>6, WaitBegins, WaitEnds DEF Next, Abort, Victim
<1> QED
  BY <1>5, <1>6

THEOREM WaitInvariance == Spec => []WInv
<1>1. IInv /\ WInv /\ [Next]_vars => WInv'
  BY StepWInv DEF IInv
<1> QED
  BY <1>1, InitWInv, Invariance, PTL DEF Spec

\* Whoever waits for the incident waits for somebody past it, and nobody waits
\* for one who waits for the chain.
LEMMA WaitsUpward ==
    ASSUME Types, WInv, NEW s \in Txns, NEW t \in Txns, WaitsFor(s, t)
    PROVE  /\ Phase(s) \in {"chain", "incident", "stop", "start", "finish"}
           /\ Phase(t) # "chain"
           /\ Phase(s) = "incident" => Phase(t) # "incident"
           /\ Phase(s) \in {"stop", "start", "finish"} => Phase(t) \notin {"chain", "incident"}
<1>1. Unlocked(t) /\ tx[s].todo \cap tx[t].answered \subseteq tx[t].answered
  BY DEF WInv
<1>2. ASSUME Phase(t) \in {"chain", "incident"}
      PROVE  /\ DOMAIN tx[t].write = {} /\ tx[t].answered = {} /\ incidentLock # t
             /\ Phase(t) = "chain" => chainLock # t
  <2>1. /\ Early(t) /\ ~HasIncident(t)
        /\ Phase(t) = "chain" => ~HasChain(t) /\ tx[t].op # "tick"
    BY <1>2, Places DEF Early, HasIncident, HasChain, Stoppers
  <2> QED
    BY <1>1, <1>2, <2>1 DEF Unlocked
<1>3. Phase(s) \in {"chain", "incident", "stop", "start", "finish"}
  BY DEF WaitsFor
<1>4. Phase(s) \in {"stop", "start", "finish"} =>
        DOMAIN tx[t].write # {} \/ tx[t].answered # {}
  BY DEF WaitsFor, Holds
<1>5. Phase(s) = "chain" => chainLock = t
  BY DEF WaitsFor
<1>6. Phase(s) = "incident" => incidentLock = t
  BY DEF WaitsFor
<1> QED
  BY <1>2, <1>3, <1>4, <1>5, <1>6

\* Somebody who waits for a row of a person and is waited for there is the tick
\* or holds the incident.
LEMMA BetweenRows ==
    ASSUME Types, Settled, RInv, WInv, NEW r \in Txns, NEW s \in Txns, NEW t \in Txns,
           WaitsFor(r, s), WaitsFor(s, t),
           Phase(r) \in {"stop", "start", "finish"}
    PROVE  /\ Phase(s) \in {"stop", "start", "finish"}
           /\ s = "tick" \/ (s # "tick" /\ incidentLock = s)
<1>1. Phase(s) \in {"stop", "start", "finish"}
  BY WaitsUpward
<1>2. DOMAIN tx[s].write # {} \/ tx[s].answered # {}
  BY DEF WaitsFor, Holds
<1>3. tx[s].op # "demote"
  <2>1. SUFFICES ASSUME tx[s].op = "demote" PROVE FALSE
    OBVIOUS
  <2>2. Phase(s) = "stop"
    BY <1>1, <2>1, Places
  <2>3. tx[s].todo # {}
    BY <2>2 DEF WaitsFor
  <2> QED
    BY <1>2, <2>1, <2>3 DEF WInv, Unlocked, Early
<1>4. tx[s].op = "tick" \/ HasIncident(s)
  BY <1>1, <1>3, Places DEF HasIncident, Stoppers
<1>5. tx[s].op # "none" /\ (tx[s].op = "tick" <=> s = "tick")
  <2>1. tx[s].op # "none"
    BY <1>1 DEF Phase
  <2> QED
    BY <2>1 DEF Types
<1> QED
  BY <1>1, <1>4, <1>5 DEF RInv, Good, Holding

\* The tick waits for an addition, or for a close that has cancelled requests.
LEMMA TickWaitsFor ==
    ASSUME Types, Settled, RInv, WInv, NEW s \in Txns, NEW t \in Txns,
           WaitsFor("tick", s), WaitsFor(s, t), s # "tick", incidentLock = s,
           Phase(s) \in {"stop", "start", "finish"}
    PROVE  tx[s].op \in {"add", "close"}
<1>0. "tick" \in Txns
  BY Names
<1>1. /\ HasIncident(s) /\ Unlocked(s) /\ ~Early(s)
  BY Places DEF WInv, Unlocked, Early, HasIncident, Stoppers
<1>2. tx["tick"].op = "tick" /\ Phase("tick") \in {"start", "finish"}
  <2>1. Phase("tick") \in {"chain", "incident", "stop", "start", "finish"}
    BY <1>0, WaitsUpward
  <2>2. tx["tick"].op = "tick"
    BY <1>0, <2>1 DEF Phase, Types
  <2> QED
    BY <1>0, <2>1, <2>2, Places DEF Stoppers
<1>3. tx[s].op \in Stoppers \cup {"add", "ask", "answer"}
  BY <1>1 DEF HasIncident
<1>4. CASE Phase("tick") = "start"
  <2>1. PICK u \in tx["tick"].insert \cup tx["tick"].update : u \in DOMAIN tx[s].write
    BY <1>4 DEF WaitsFor, Holds
  <2>2. tx["tick"].paged # {}
    BY <1>0, <1>2, <1>4, <2>1 DEF RInv, Good, Starting, MayStart
  <2>3. chainLock = "tick"
    BY <1>0, <1>2, <2>2 DEF RInv, Good, Holding
  <2>4. ~HasChain(s)
    BY <2>3 DEF RInv, Good, Holding
  <2>5. tx[s].op \notin Stoppers
    BY <1>1, <2>4 DEF HasIncident, HasChain, Stoppers, Types, Transaction
  <2>6. tx[s].op \notin {"ask", "answer"}
    BY <1>1, <2>1 DEF Unlocked
  <2> QED
    BY <1>3, <2>5, <2>6
<1>5. CASE Phase("tick") = "finish"
  <2>1. tx[s].answered # {}
    BY <1>5 DEF WaitsFor
  <2>2. tx[s].op \in {"close", "add", "answer", "tick"}
    BY <1>1, <2>1 DEF Unlocked
  <2>3. tx[s].op # "answer"
    <3>1. SUFFICES ASSUME tx[s].op = "answer" PROVE FALSE
      OBVIOUS
    <3>2. Phase(s) = "finish"
      BY <3>1, Places DEF Stoppers
    <3>3. tx[s].todo # {}
      BY <3>2 DEF WaitsFor
    <3> QED
      BY <1>1, <2>1, <3>1, <3>3 DEF Unlocked
  <2> QED
    BY <1>3, <2>2, <2>3 DEF Stoppers
<1> QED
  BY <1>2, <1>4, <1>5

\* A ring leads to the rows of people, where only the tick and the one who
\* holds the incident can both be.
LEMMA RingsHaveTicks ==
    ASSUME IInv, RInv, WInv
    PROVE  OnlyTicksDeadlock
<1> USE DEF IInv
<1>1. SUFFICES ASSUME NEW S \in Rings
               PROVE  "tick" \in S /\ \E t \in S : tx[t].op \in {"add", "close"}
  BY DEF OnlyTicksDeadlock
<1>2. S # {} /\ S \subseteq Txns /\ \A s \in S : \E t \in S : WaitsFor(s, t)
  BY DEF Rings
<1>3. PICK a \in S : Phase(a) \in {"stop", "start", "finish"}
  <2>1. PICK r \in S, s \in S, t \in S, v \in S :
          WaitsFor(r, s) /\ WaitsFor(s, t) /\ WaitsFor(t, v)
    BY <1>2
  <2>2. /\ Phase(s) \in {"incident", "stop", "start", "finish"}
        /\ Phase(s) = "incident" => Phase(t) \in {"stop", "start", "finish"}
    <3>1. /\ Phase(s) \in {"chain", "incident", "stop", "start", "finish"} /\ Phase(s) # "chain"
      BY <1>2, <2>1, WaitsUpward
    <3>2. /\ Phase(t) \in {"chain", "incident", "stop", "start", "finish"} /\ Phase(t) # "chain"
          /\ Phase(s) = "incident" => Phase(t) # "incident"
      BY <1>2, <2>1, WaitsUpward
    <3> QED
      BY <3>1, <3>2
  <2> QED
    BY <2>2
<1>4. PICK b \in S, c \in S, d \in S, e \in S :
        WaitsFor(a, b) /\ WaitsFor(b, c) /\ WaitsFor(c, d) /\ WaitsFor(d, e)
  BY <1>2
<1>5. b # c /\ c # d
  BY <1>4 DEF WaitsFor
<1>6. /\ Phase(b) \in {"stop", "start", "finish"}
      /\ b = "tick" \/ (b # "tick" /\ incidentLock = b)
  BY <1>2, <1>3, <1>4, BetweenRows
<1>7. /\ Phase(c) \in {"stop", "start", "finish"}
      /\ c = "tick" \/ (c # "tick" /\ incidentLock = c)
  BY <1>2, <1>4, <1>6, BetweenRows
<1>8. /\ Phase(d) \in {"stop", "start", "finish"}
      /\ d = "tick" \/ (d # "tick" /\ incidentLock = d)
  BY <1>2, <1>4, <1>7, BetweenRows
<1>9. CASE b = "tick"
  BY <1>2, <1>4, <1>5, <1>7, <1>9, TickWaitsFor
<1>10. CASE c = "tick"
  BY <1>2, <1>4, <1>5, <1>8, <1>10, TickWaitsFor
<1> QED
  BY <1>5, <1>6, <1>7, <1>9, <1>10

\* For any number of people, requests and ticks, transactions that wait for
\* each other in a ring are the tick and an addition or a close, whatever else
\* waits for them (service, notification_escalation, the responders' routes).
THEOREM OnlyTickRings == Spec => []OnlyTicksDeadlock
BY Invariance, StepsInvariance, WaitInvariance, RingsHaveTicks, PTL

=============================================================================
