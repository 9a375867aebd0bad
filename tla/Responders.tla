------------------------------ MODULE Responders ------------------------------
(***************************************************************************)
(* The people reached about one incident: their staged notification steps  *)
(* (notification_escalations), who helps and who was asked to, and the     *)
(* transactions that change them (backend/paging/notification_escalation,  *)
(* backend/paging/responders).                                             *)
(*                                                                         *)
(* On PostgreSQL each transaction reads what is committed, takes row locks *)
(* one after the other, and gives them all back when it ends.  So a        *)
(* transaction is a record of what it has locked and will write; its plan  *)
(* is the order in which the code gets there.  Nothing it writes is seen   *)
(* before it commits, but what it sent stays sent.                         *)
(***************************************************************************)
EXTENDS Integers, FiniteSets

CONSTANTS
    Users,
    NoUser,        \* nobody owns the incident
    Clients,       \* requests that may run at the same time
    NoTxn,         \* nobody holds the lock
    Limit,         \* RESPONDER_LIMIT
    Stages,        \* how many steps a personal plan has
    Mixes,         \* bound: each member, what is used in one behaviour: operations,
                   \* "page" a chain that runs, "fail" transactions that die
    Crowd          \* bound: by mix, how many may respond at first

Ops == {"ack", "close", "handoff", "add", "remove", "ask", "answer", "demote"}

ASSUME RespondersAssumption ==
    /\ NoUser \notin Users
    /\ "tick" \notin Clients /\ NoTxn \notin Clients \cup {"tick"}
    /\ Limit \in Nat \ {0} /\ Stages \in Nat \ {0}
    /\ Mixes \subseteq SUBSET (Ops \cup {"page", "fail"})
    /\ Crowd \in [Mixes -> Nat]

VARIABLES
    mix,           \* the member of Mixes in this behaviour
    incident,      \* "open" or "closed"
    owner,         \* its active assignment
    chain,         \* its Escalation Chain: "running", "acked" or "over"
    chainPaged,    \* whom the chain's current round paged
    able,          \* active admins and operators
    responders,    \* incident_responders
    request,       \* incident_responder_requests: each person's latest
    late,          \* people whose request is past its 30 minutes
    reminder,      \* notification_escalations, by person
    chainLock, incidentLock,   \* who holds these rows
    tx             \* the transactions

rows == <<incident, owner, chain, chainPaged, able, responders, request, late, reminder>>
locks == <<chainLock, incidentLock>>
vars == <<mix, rows, locks, tx>>

Txns == Clients \cup {"tick"}
Outcomes == {"accepted", "declined", "expired", "cancelled"}
Reminder == [status : {"none", "running", "stopped", "exhausted"},
             stage : -1 .. (Stages - 1), due : BOOLEAN]

NoReminder == [status |-> "none", stage |-> -1, due |-> FALSE]

\* Mistake: the incident is locked before its chain.
AckIncidentFirst == <<"incident", "chain", "stop", "commit">>

\* What an acknowledgement locks and writes, in its order.
AckPlan == <<"chain", "incident", "stop", "commit">>

\* The order in which each transaction locks and writes.
Plan == [ack     |-> AckPlan,
         close   |-> <<"chain", "incident", "stop", "finish", "commit">>,
         handoff |-> <<"chain", "incident", "stop", "start", "commit">>,
         add     |-> <<"incident", "finish", "start", "commit">>,
         remove  |-> <<"chain", "incident", "stop", "commit">>,
         ask     |-> <<"incident", "commit">>,
         answer  |-> <<"incident", "finish", "commit">>,
         demote  |-> <<"stop", "commit">>,
         tick    |-> <<"claim", "advance", "start", "finish", "commit">>]

Idle == [op |-> "none", user |-> NoUser, at |-> 1, fresh |-> TRUE, yes |-> TRUE,
         todo |-> {}, insert |-> {}, update |-> {}, paged |-> {},
         write |-> [u \in {} |-> NoReminder], saved |-> [u \in {} |-> NoReminder],
         answered |-> {}]

Phase(t) == IF tx[t].op = "none" THEN "none" ELSE Plan[tx[t].op][tx[t].at]

\* A reminder row is locked by whoever will write it, a request likewise.
Holds(t, u) == u \in DOMAIN tx[t].write
ReminderFree(t, u) == \A s \in Txns \ {t} : ~Holds(s, u)
RequestFree(t, u) == \A s \in Txns \ {t} : u \notin tx[s].answered

\* What transaction t reads of u's reminders.
Sees(t, u) == IF Holds(t, u) THEN tx[t].write[u] ELSE reminder[u]

Written(t, u, row) == [v \in DOMAIN tx[t].write \cup {u} |->
                         IF v = u THEN row ELSE tx[t].write[v]]

Pending == {u \in Users : request[u] = "pending"}
Running == {u \in Users : reminder[u].status = "running"}

-----------------------------------------------------------------------------
(* A transaction begins, and goes on to the next phase of its plan.        *)

Begin(c, op, u, yes) ==
    /\ tx[c].op = "none"
    /\ op \in mix
    /\ op # "answer" => yes
    /\ op \in {"ack", "add", "ask"} => u \in able
    /\ op = "answer" => request[u] = "pending"
    /\ op = "remove" => u \in responders
    /\ tx' = [tx EXCEPT ![c] = [Idle EXCEPT !.op = op, !.yes = yes,
                                !.user = IF op \in {"close", "handoff"} THEN NoUser ELSE u,
                                !.fresh = u \notin late,
                                !.todo = IF op = "demote" THEN Running \cap {u} ELSE {}]]
    /\ UNCHANGED <<mix, rows, locks>>

TickBegins ==
    /\ tx["tick"].op = "none"
    /\ tx' = [tx EXCEPT !["tick"] = [Idle EXCEPT !.op = "tick"]]
    /\ UNCHANGED <<mix, rows, locks>>

\* Mistake: a handoff leaves the reminders of the people paged before it.
StopsUnlessHandoff(r) ==
    IF r.op = "handoff" THEN {}
    ELSE IF r.op \in {"ack", "close"} THEN Running ELSE Running \cap {r.user}

\* The reminders r will stop: list_running_for_incident, unlocked; after a
\* removal only that person's, and not while the chain still pages them.
Stops(r) ==
    CASE r.op = "demote" -> Running \cap {r.user}
      [] r.op = "remove" -> IF chain # "over" /\ r.user \in chainPaged
                            THEN {} ELSE Running \cap {r.user}
      [] OTHER           -> Running

\* The requests r will settle.
Settles(r) ==
    CASE r.op = "answer" -> {r.user}
      [] r.op = "add"    -> Pending \cap {r.user}
      [] r.op = "close"  -> Pending
      [] r.op = "tick"   -> late

\* What the next phase of r has to do, read as it begins.
Lists(r) ==
    CASE Plan[r.op][r.at + 1] = "stop"    -> {Stops(r)}
      [] Plan[r.op][r.at + 1] = "finish"  -> {Settles(r)}
      [] Plan[r.op][r.at + 1] = "advance" -> {DOMAIN r.write}
      [] Plan[r.op][r.at + 1] = "start" /\ r.op = "add"     -> {{r.user}}
      [] Plan[r.op][r.at + 1] = "start" /\ r.op = "handoff" -> SUBSET able
      [] OTHER -> {{}}

Onward(t, r) ==
    \E T \in Lists(r) :
      tx' = [tx EXCEPT ![t] = [r EXCEPT !.at = @ + 1, !.todo = T,
               !.paged = IF r.op = "handoff" /\ T # {} THEN T ELSE @]]

Done(t, phase) ==
    Phase(t) = phase /\ tx[t].todo \cup tx[t].insert \cup tx[t].update = {}

\* The phase after this one begins by reading.
Proceed(t) ==
    /\ \E phase \in {"stop", "finish", "start"} : Done(t, phase)
    /\ Plan[tx[t].op][tx[t].at + 1] # "commit"
    /\ Onward(t, tx[t])
    /\ UNCHANGED <<mix, rows, locks>>

LockChain(t) ==
    /\ Phase(t) = "chain"
    /\ chainLock = NoTxn
    /\ chainLock' = t
    /\ Onward(t, tx[t])
    /\ UNCHANGED <<mix, rows, incidentLock>>

Released(t, lock) == IF lock = t THEN NoTxn ELSE lock

\* It ends without writing anything.
Leave(t) ==
    /\ tx' = [tx EXCEPT ![t] = Idle]
    /\ chainLock' = Released(t, chainLock)
    /\ incidentLock' = Released(t, incidentLock)
    /\ UNCHANGED <<mix, rows>>

\* Mistake: people asked are not counted against the limit.
RoomAmongResponders(u) == Cardinality(responders) < Limit

\* _check_slots: responders and people asked share the limit.
RoomFor(u) == Cardinality(responders) + Cardinality(Pending \ {u}) < Limit

\* What an operation checks once it holds the incident.
Refused(r) ==
    \/ incident = "closed"
    \/ r.op = "ack" /\ owner \notin {NoUser, r.user}
    \/ r.op \in {"add", "ask"} /\ \/ r.user \in responders \cup {owner}
                                  \/ r.user \notin able
                                  \/ ~RoomFor(r.user)
    \/ r.op = "ask" /\ r.user \in Pending
    \/ r.op = "remove" /\ r.user \notin responders
    \/ r.op = "answer" /\ \/ r.user \notin Pending
                          \/ r.fresh /\ r.yes /\ r.user \notin able

LockIncident(t) ==
    /\ Phase(t) = "incident"
    /\ incidentLock = NoTxn
    /\ IF Refused(tx[t])
       THEN Leave(t)
       ELSE /\ incidentLock' = t
            /\ Onward(t, tx[t])
            /\ UNCHANGED <<mix, rows, chainLock>>

-----------------------------------------------------------------------------
(* Reminders.                                                              *)

\* stop_escalation: its own status over whatever a tick it waited for wrote.
Stop(t, u) ==
    /\ Phase(t) = "stop" /\ u \in tx[t].todo
    /\ ReminderFree(t, u)
    /\ tx' = [tx EXCEPT
                ![t].todo = @ \ {u},
                ![t].write = Written(t, u, [reminder[u] EXCEPT !.status = "stopped",
                                                               !.due = FALSE])]
    /\ UNCHANGED <<mix, rows, locks>>

\* start_escalation decides: nobody who cannot respond, nobody whose steps run.
StartDecides(t, u) ==
    /\ Phase(t) = "start" /\ u \in tx[t].todo
    /\ LET steps == u \in able /\ Sees(t, u).status # "running"
           new   == Sees(t, u).status = "none"
       IN  tx' = [tx EXCEPT ![t].todo = @ \ {u},
                            ![t].insert = IF steps /\ new THEN @ \cup {u} ELSE @,
                            ![t].update = IF steps /\ ~new THEN @ \cup {u} ELSE @]
    /\ UNCHANGED <<mix, rows, locks>>

\* Mistake: an owner does not shorten the plan.
StartedWhole(t) ==
    [status |-> IF Stages = 1 THEN "exhausted" ELSE "running", stage |-> 0, due |-> FALSE]

\* The first step went out; beside an owner it is the only one.
Started(t) ==
    [status |-> IF Stages = 1 \/ (owner # NoUser /\ tx[t].op # "handoff")
                THEN "exhausted" ELSE "running",
     stage |-> 0, due |-> FALSE]

StartWrites(t, u) ==
    /\ Phase(t) = "start" /\ u \in tx[t].insert \cup tx[t].update
    /\ ReminderFree(t, u)
    /\ u \in tx[t].insert => reminder[u].status = "none"
    /\ tx' = [tx EXCEPT ![t].insert = @ \ {u}, ![t].update = @ \ {u},
                        ![t].write = Written(t, u, Started(t))]
    /\ UNCHANGED <<mix, rows, locks>>

\* Somebody else created the row first: a request fails, and a tick goes back
\* to the savepoint before this chain, which undoes its writes and locks.
StartClashes(t, u) ==
    /\ Phase(t) = "start" /\ u \in tx[t].insert
    /\ ReminderFree(t, u)
    /\ reminder[u].status # "none"
    /\ IF t = "tick"
       THEN /\ tx' = [tx EXCEPT ![t].insert = {}, ![t].update = {}, ![t].todo = {},
                        ![t].paged = {}, ![t].write = tx[t].saved]
            /\ chainLock' = Released(t, chainLock)
            /\ UNCHANGED <<mix, rows, incidentLock>>
       ELSE Leave(t)

\* list_due claims every due row nobody holds.
Claim ==
    /\ Phase("tick") = "claim"
    /\ LET due == {u \in Running : reminder[u].due /\ ReminderFree("tick", u)}
       IN  Onward("tick", [tx["tick"] EXCEPT !.write = [u \in due |-> reminder[u]]])
    /\ UNCHANGED <<mix, rows, locks>>

\* _advance sends one step, unless the incident closed or the person may no
\* longer respond.
Advance(u) ==
    /\ Phase("tick") = "advance" /\ u \in tx["tick"].todo
    /\ LET row == reminder[u]
           next == IF incident = "closed" \/ u \notin able
                   THEN [row EXCEPT !.status = "stopped", !.due = FALSE]
                   ELSE [status |-> IF row.stage + 2 < Stages THEN "running" ELSE "exhausted",
                         stage |-> row.stage + 1, due |-> FALSE]
       IN  tx' = [tx EXCEPT !["tick"].todo = @ \ {u},
                            !["tick"].write = Written("tick", u, next)]
    /\ UNCHANGED <<mix, rows, locks>>

\* The chain's own tick, in the same transaction: a running chain that nobody
\* has locked may be due and page a level of people, or end.
Fire ==
    /\ Done("tick", "advance")
    /\ \/ /\ chainLock = NoTxn /\ chain = "running"
          /\ chainLock' = "tick"
          /\ \E W \in (SUBSET able) \ {{}} :
               tx' = [tx EXCEPT !["tick"].at = @ + 1, !["tick"].todo = W, !["tick"].paged = W,
                                !["tick"].saved = tx["tick"].write]
       \/ Onward("tick", tx["tick"]) /\ UNCHANGED chainLock
    /\ UNCHANGED <<mix, rows, incidentLock>>

-----------------------------------------------------------------------------
(* Requests to join.                                                       *)

\* Mistake: the row is written whatever became of it meanwhile.
SettleAnyway(t, u) ==
    /\ Phase(t) = "finish" /\ u \in tx[t].todo
    /\ RequestFree(t, u)
    /\ tx' = [tx EXCEPT ![t].todo = @ \ {u}, ![t].answered = @ \cup {u}]
    /\ UNCHANGED <<mix, rows, locks>>

\* finish, on a request that is still pending once its row is free.
Settle(t, u) ==
    /\ Phase(t) = "finish" /\ u \in tx[t].todo
    /\ RequestFree(t, u)
    /\ IF u \in Pending
       THEN /\ tx' = [tx EXCEPT ![t].todo = @ \ {u}, ![t].answered = @ \cup {u}]
            /\ UNCHANGED <<mix, rows, locks>>
       ELSE IF tx[t].op = "answer"
            THEN Leave(t)
            ELSE /\ tx' = [tx EXCEPT ![t].todo = @ \ {u}]
                 /\ UNCHANGED <<mix, rows, locks>>

\* What becomes of the requests it settled.
Outcome(r) ==
    CASE r.op = "tick"   -> "expired"
      [] r.op = "answer" -> IF ~r.fresh THEN "expired"
                            ELSE IF r.yes THEN "accepted" ELSE "declined"
      [] OTHER           -> "cancelled"

\* Only a pending request can be past its time.
StillLate(r) == late \ r.answered

Joins(r) == r.op = "add" \/ (r.op = "answer" /\ r.fresh /\ r.yes)

-----------------------------------------------------------------------------
(* It commits: everything it wrote is there at once.                       *)

Commit(t) ==
    LET r == tx[t]
    IN  /\ \/ Phase(t) = "commit"
           \/ /\ \E phase \in {"stop", "finish", "start"} : Done(t, phase)
              /\ Plan[r.op][r.at + 1] = "commit"
        /\ incident' = IF r.op = "close" THEN "closed" ELSE incident
        /\ owner' = CASE r.op = "ack" -> r.user
                      [] r.op = "handoff" -> NoUser
                      [] OTHER -> owner
        /\ chain' = CASE r.op = "ack" /\ chain = "running" -> "acked"
                      [] r.op = "close" -> "over"
                      [] r.op = "handoff" -> IF r.paged = {} THEN "over" ELSE "running"
                      [] OTHER -> chain
        /\ chainPaged' = IF r.op = "handoff" THEN r.paged ELSE chainPaged \cup r.paged
        /\ able' = IF r.op = "demote" THEN able \ {r.user} ELSE able
        /\ responders' = IF Joins(r) THEN responders \cup {r.user}
                         ELSE IF r.op = "remove" THEN responders \ {r.user}
                         ELSE responders
        /\ request' = [u \in Users |->
                         IF u \in r.answered THEN Outcome(r)
                         ELSE IF r.op = "ask" /\ u = r.user THEN "pending"
                         ELSE request[u]]
        /\ late' = StillLate(r)
        /\ reminder' = [u \in Users |-> Sees(t, u)]
        /\ tx' = [tx EXCEPT ![t] = Idle]
        /\ chainLock' = Released(t, chainLock)
        /\ incidentLock' = Released(t, incidentLock)
        /\ UNCHANGED mix

-----------------------------------------------------------------------------
(* What it waits for.                                                      *)

WaitsFor(s, t) ==
    /\ s # t
    /\ \/ Phase(s) = "chain" /\ chainLock = t
       \/ Phase(s) = "incident" /\ incidentLock = t
       \/ Phase(s) = "stop" /\ \E u \in tx[s].todo : Holds(t, u)
       \/ Phase(s) = "start" /\ \E u \in tx[s].insert \cup tx[s].update : Holds(t, u)
       \/ Phase(s) = "finish" /\ tx[s].todo \cap tx[t].answered # {}

\* Transactions that wait for each other in a ring.
Rings == {S \in (SUBSET Txns) \ {{}} : \A s \in S : \E t \in S : WaitsFor(s, t)}

\* The process dies or the database is gone.
Abort(t) ==
    /\ tx[t].op # "none"
    /\ "fail" \in mix
    /\ Leave(t)

\* PostgreSQL ends a deadlock by failing one of the ring.
Victim == \E t \in UNION Rings : Leave(t)

\* A step's delay, or a request's 30 minutes, are over.
Elapse(u) ==
    /\ \/ /\ u \in Running /\ ~reminder[u].due
          /\ reminder' = [reminder EXCEPT ![u].due = TRUE]
          /\ UNCHANGED late
       \/ /\ u \in Pending \ late
          /\ late' = late \cup {u}
          /\ UNCHANGED reminder
    /\ UNCHANGED <<mix, incident, owner, chain, chainPaged, able, responders, request,
                   locks, tx>>

-----------------------------------------------------------------------------
Init ==
    /\ mix \in Mixes
    /\ incident = "open" /\ owner = NoUser
    /\ chain = IF "page" \in mix THEN "running" ELSE "over"
    /\ able \in {U \in SUBSET Users : Cardinality(U) = Crowd[mix]}
    /\ chainPaged = {} /\ responders = {}
    /\ request = [u \in Users |-> "none"] /\ late = {}
    /\ reminder = [u \in Users |-> NoReminder]
    /\ chainLock = NoTxn /\ incidentLock = NoTxn
    /\ tx = [t \in Txns |-> Idle]

Work(t) ==
    \/ Proceed(t) \/ LockChain(t) \/ LockIncident(t) \/ Commit(t)
    \/ \E u \in Users : \/ Stop(t, u) \/ Settle(t, u)
                        \/ StartDecides(t, u) \/ StartWrites(t, u) \/ StartClashes(t, u)

Tick == TickBegins \/ Claim \/ Fire \/ (\E u \in Users : Advance(u)) \/ Work("tick")

Next ==
    \/ \E c \in Clients :
         \/ \E op \in Ops, u \in Users, yes \in BOOLEAN : Begin(c, op, u, yes)
         \/ Work(c)
    \/ Tick
    \/ \E t \in Txns : Abort(t)
    \/ Victim
    \/ \E u \in Users : Elapse(u)

Spec == Init /\ [][Next]_vars

-----------------------------------------------------------------------------
(* Properties.                                                             *)

\* Responders and people asked never exceed the limit, however additions,
\* requests, answers and expiries overlap.
LimitHolds == Cardinality(responders \cup Pending) <= Limit

\* Nobody's further steps run once somebody owns the incident or it is closed,
\* although pages, stops and ticks lock different rows.
StepsStopForOwner == Running # {} => owner = NoUser /\ incident = "open"

\* Steps run only for people who help or whom the current run paged: leaving
\* the responders, or a handoff, stops the rest.
StepsAreWanted == Running \subseteq responders \cup chainPaged

\* A request has one outcome: what was accepted, declined, expired or cancelled
\* stays so unless the person is asked again, and who accepted has joined.
OneOutcome ==
    [][\A u \in Users :
         /\ request[u] \in Outcomes /\ request'[u] # request[u] => request'[u] = "pending"
         /\ request'[u] = "accepted" /\ request[u] # "accepted" => u \in responders']_vars

\* Requests never wait for each other in a ring.  A tick may, with a request
\* that adds somebody whom its chain pages and who was asked, or with a close
\* that cancels, in no certain order, the requests the tick expires one by one.
OnlyTicksDeadlock ==
    \A S \in Rings : "tick" \in S /\ \E t \in S : tx[t].op \in {"add", "close"}

=============================================================================
