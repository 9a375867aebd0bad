------------------------------ MODULE AISession ------------------------------
(***************************************************************************)
(* One AI session of an incident: its row, the approval requests it asks,  *)
(* the workflow runs that work on it, and the people and schedulers that   *)
(* queue, start, answer, expire, stop, override and take over the session. *)
(* Sources: backend/services/session_orchestration.py,                     *)
(* backend/api/session_runner.py, backend/api/routes/sessions.py and       *)
(* approvals.py, backend/approvals/, backend/agent/nodes.py (tier gate).   *)
(*                                                                         *)
(* A route reads the session or the request first and writes later; between*)
(* the two, other transactions commit.  Such a request is an element of    *)
(* inFlight.  A commit that admits the session is followed by a dispatch   *)
(* that starts the run: ready counts the dispatches still to come.  Time   *)
(* is the flag due[r], set once the hold of request r has run out.         *)
(***************************************************************************)
EXTENDS Naturals, FiniteSets

CONSTANTS
    MaxRequests,    \* bound: approval requests asked
    MaxRuns,        \* bound: workflow runs started
    MaxInFlight,    \* bound: requests between their read and their write
    MaxExtends,     \* bound: extensions of one hold
    MaxRedirects,   \* MAX_TIER1_REDIRECTS
    MaxRestarts,    \* bound: restarts of the process
    Tiers,          \* the tiers in use
    Monolith        \* FALSE: the runs are tasks of a worker process

ASSUME SessionAssumption ==
    /\ {MaxRequests, MaxRuns, MaxInFlight, MaxExtends, MaxRedirects, MaxRestarts}
         \subseteq Nat
    /\ Tiers \subseteq 0..2
    /\ Monolith \in BOOLEAN

Requests == 1..MaxRequests
Runs == 1..MaxRuns

EndedByAPerson == {"stopped", "cancelled"}
Occupying == {"active", "awaiting_approval"}
Stoppable == Occupying \cup {"queued"}
Statuses == Stoppable \cup EndedByAPerson \cup {"timed_out", "completed", "failed"}
Decisions == {"approved", "rejected", "redirected"}
Answers == Decisions \cup {"expired"}

VARIABLES
    status,      \* of the session row
    tier,        \* of the session row
    request,     \* the status of each approval request
    due,         \* its hold has run out
    extension,   \* its extension_count
    run,         \* the workflow runs
    ready,       \* dispatches to come: here (TRUE) or on a worker
    inFlight,    \* routes and sweeps between their read and their write
    restarts

svars == <<status, tier, request, due, extension, run, ready, inFlight, restarts>>

NoRun == [phase |-> "none", here |-> TRUE, tier |-> 0, waits |-> 0,
          granted |-> {}, redirects |-> 0, out |-> FALSE]

Over == [NoRun EXCEPT !.phase = "over"]

RunRecords ==
    [phase : {"none", "starting", "gate", "waiting", "expiring", "executing", "over"},
     here : BOOLEAN, tier : Tiers \cup {0}, waits : 0..MaxRequests,
     granted : SUBSET Requests, redirects : 0..MaxRedirects, out : BOOLEAN]

Operations ==
    [kind : {"answer", "expire", "extend"}, of : Requests]
      \cup [kind : {"stop", "override", "takeover"}, seen : Stoppable, to : Tiers,
            forced : BOOLEAN, cut : BOOLEAN, asked : SUBSET Requests]
      \cup [kind : {"force"}]

SessionTypeOK ==
    /\ status \in Statuses
    /\ tier \in Tiers
    /\ request \in [Requests -> {"none", "pending"} \cup Answers]
    /\ due \in [Requests -> BOOLEAN]
    /\ extension \in [Requests -> Nat]
    /\ run \in [Runs -> RunRecords]
    /\ ready \in [BOOLEAN -> Nat]
    /\ inFlight \subseteq Operations
    /\ restarts \in 0..MaxRestarts

Live(i) == run[i].phase \notin {"none", "over"}
Pending == {r \in Requests : request[r] = "pending"}

\* The run changes something on the target systems.
Acting(i) == run[i].phase = "executing" /\ (run[i].tier = 0 \/ run[i].granted # {})

-----------------------------------------------------------------------------
(* The rows.                                                               *)

\* Mistake: resolve does not look at the status.
ResolvedAnyway(rs, answer) ==
    [r \in Requests |-> IF r \in rs THEN answer ELSE request[r]]

\* resolve writes only a pending request.
Resolved(rs, answer) ==
    [r \in Requests |-> IF r \in rs /\ request[r] = "pending" THEN answer ELSE request[r]]

\* The approval service's write, refused once a person ended the session.
SetStatusUnlessEnded(s) ==
    status' = IF status \in EndedByAPerson THEN status ELSE s

Scheduled(here) == [ready EXCEPT ![here] = @ + 1]

Dispatching(o) == o.kind \in {"override", "takeover", "force"}

\* The bound on runs, counting those already owed.
RoomForARun ==
    Cardinality({i \in Runs : run[i].phase = "none"})
      > ready[TRUE] + ready[FALSE] + Cardinality({o \in inFlight : Dispatching(o)})

-----------------------------------------------------------------------------
(* The queue.                                                              *)

\* drain_session_queue: the row is locked and read again.
Admit ==
    /\ status = "queued"
    /\ RoomForARun
    /\ status' = "active"
    /\ ready' = Scheduled(Monolith)
    /\ UNCHANGED <<tier, request, due, extension, run, inFlight, restarts>>

\* The wait expired, the incident was handled, or the session was removed.
LeaveQueue ==
    /\ status = "queued"
    /\ status' = "cancelled"
    /\ UNCHANGED <<tier, request, due, extension, run, ready, inFlight, restarts>>

\* dispatch_session_ready, after the commit that made the session active.
Dispatch ==
    \E here \in BOOLEAN, i \in Runs :
        /\ ready[here] > 0
        /\ run[i].phase = "none"
        /\ \A j \in 1..(i - 1) : run[j].phase # "none"
        /\ ready' = [ready EXCEPT ![here] = @ - 1]
        /\ run' = [run EXCEPT ![i].phase = "starting", ![i].here = here]
        /\ UNCHANGED <<status, tier, request, due, extension, inFlight, restarts>>

-----------------------------------------------------------------------------
(* A workflow run.                                                         *)

\* The session is read for its tier; its status is not looked at.
Begin(i) ==
    /\ run[i].phase = "starting"
    /\ run' = [run EXCEPT ![i].phase = "gate", ![i].tier = tier]
    /\ UNCHANGED <<status, tier, request, due, extension, ready, inFlight, restarts>>

\* request_and_wait for the next action.  On a session a person ended the
\* request is rolled back and the gate goes on: that changes nothing here.
Ask(i) ==
    /\ run[i].phase = "gate"
    /\ run[i].tier = 1
    /\ status \notin EndedByAPerson
    /\ \E r \in Requests :
        /\ request[r] = "none"
        /\ \A q \in 1..(r - 1) : request[q] # "none"
        /\ request' = [request EXCEPT ![r] = "pending"]
        /\ run' = [run EXCEPT ![i].phase = "waiting", ![i].waits = r]
    /\ SetStatusUnlessEnded("awaiting_approval")
    /\ UNCHANGED <<tier, due, extension, ready, inFlight, restarts>>

\* Mistake: past the limit a redirected action runs instead of being blocked.
GatedPastLimit(t, answer) ==
    LET back == [t EXCEPT !.phase = "gate", !.waits = 0]
    IN CASE answer = "expired" -> [back EXCEPT !.out = TRUE]
         [] answer = "rejected" -> back
         [] answer = "redirected" /\ t.redirects < MaxRedirects ->
              [back EXCEPT !.granted = {}, !.redirects = @ + 1]
         [] OTHER -> [back EXCEPT !.granted = @ \cup {t.waits}]

\* What the tier gate does with the answer to the action it waits for.
Gated(t, answer) ==
    LET back == [t EXCEPT !.phase = "gate", !.waits = 0]
    IN CASE answer = "approved" -> [back EXCEPT !.granted = @ \cup {t.waits}]
         [] answer = "expired" -> [back EXCEPT !.out = TRUE]
         [] answer = "redirected" /\ t.redirects < MaxRedirects ->
              [back EXCEPT !.granted = {}, !.redirects = @ + 1]
         [] OTHER -> back

\* One poll of the wait: the request was answered ...
PollAnswered(i) ==
    LET r == run[i].waits
    IN /\ run[i].phase = "waiting"
       /\ request[r] \in Answers
       /\ SetStatusUnlessEnded(IF request[r] = "expired" THEN "timed_out" ELSE "active")
       /\ run' = [run EXCEPT ![i] = Gated(run[i], request[r])]
       /\ UNCHANGED <<tier, request, due, extension, ready, inFlight, restarts>>

\* ... or the session was ended ...
PollEnded(i) ==
    /\ run[i].phase = "waiting"
    /\ run[i].waits \in Pending
    /\ status \in EndedByAPerson
    /\ request' = Resolved({run[i].waits}, "expired")
    /\ UNCHANGED <<status, tier, due, extension, run, ready, inFlight, restarts>>

\* ... or the hold has run out.
PollDue(i) ==
    /\ run[i].phase = "waiting"
    /\ run[i].waits \in Pending
    /\ status \notin EndedByAPerson
    /\ due[run[i].waits]
    /\ run' = [run EXCEPT ![i].phase = "expiring"]
    /\ UNCHANGED <<status, tier, request, due, extension, ready, inFlight, restarts>>

\* The loaded request shows "expired" whether or not the row was written.
ExpireOwn(i) ==
    /\ run[i].phase = "expiring"
    /\ request' = Resolved({run[i].waits}, "expired")
    /\ SetStatusUnlessEnded("timed_out")
    /\ run' = [run EXCEPT ![i] = Gated(run[i], "expired")]
    /\ UNCHANGED <<tier, due, extension, ready, inFlight, restarts>>

\* Every action of the plan is gated.
Execute(i) ==
    /\ run[i].phase = "gate"
    /\ run' = [run EXCEPT ![i].phase = "executing"]
    /\ UNCHANGED <<status, tier, request, due, extension, ready, inFlight, restarts>>

\* Mistake: the end of the run is not written.
FinishQuietly(i) ==
    /\ run[i].phase = "executing"
    /\ run' = [run EXCEPT ![i] = Over]
    /\ UNCHANGED <<status, tier, request, due, extension, ready, inFlight, restarts>>

\* _set_session_terminal_state, whatever the status is by then.
Finish(i) ==
    /\ run[i].phase = "executing"
    /\ status' = IF run[i].out THEN "timed_out" ELSE "completed"
    /\ run' = [run EXCEPT ![i] = Over]
    /\ UNCHANGED <<tier, request, due, extension, ready, inFlight, restarts>>

\* The model or a tool source fails, or a Tier 0 session runs out of time.
Fail(i) ==
    /\ run[i].phase \in {"starting", "gate", "executing"}
    /\ \/ status' = "failed"
       \/ run[i].tier = 0 /\ run[i].phase # "starting" /\ status' = "timed_out"
    /\ run' = [run EXCEPT ![i] = Over]
    /\ UNCHANGED <<tier, request, due, extension, ready, inFlight, restarts>>

WorkOn(i) ==
    \/ Begin(i) \/ Ask(i) \/ PollAnswered(i) \/ PollEnded(i) \/ PollDue(i)
    \/ ExpireOwn(i) \/ Execute(i) \/ Finish(i)

-----------------------------------------------------------------------------
(* What routes and sweeps read ...                                         *)

Arrive(o) ==
    /\ Cardinality(inFlight) < MaxInFlight
    /\ Dispatching(o) => RoomForARun
    /\ inFlight' = inFlight \cup {o}
    /\ UNCHANGED <<status, tier, request, due, extension, run, ready, restarts>>

\* decide and extend_request refuse a request that is answered or out of time.
ReadRequest ==
    \E r \in Pending, kind \in {"answer", "extend"} :
        /\ ~due[r]
        /\ kind = "extend" => extension[r] < MaxExtends
        /\ Arrive([kind |-> kind, of |-> r])

\* Mistake: only a hold that a run still waits for is swept.
ReadHoldIfAwaited ==
    \E r \in Pending :
        /\ due[r]
        /\ \E i \in Runs : run[i].waits = r
        /\ Arrive([kind |-> "expire", of |-> r])

\* sweep_approval_holds, and decide when it finds the hold run out.
ReadHold == \E r \in Pending : due[r] /\ Arrive([kind |-> "expire", of |-> r])

Intercepts(kind) ==
    CASE kind = "stop" -> Stoppable
      [] kind = "override" -> Occupying
      [] kind = "takeover" -> Stoppable

\* stop_session, override_session and create_session on a session that is
\* not over.  An override must reduce the autonomy.
ReadSession ==
    \E kind \in {"stop", "override", "takeover"}, to \in Tiers, forced \in BOOLEAN :
        /\ status \in Intercepts(kind)
        /\ kind = "override" => to > tier
        /\ kind = "stop" => to = tier
        /\ forced => kind = "takeover" /\ status = "queued"
        /\ Arrive([kind |-> kind, seen |-> status, to |-> to, forced |-> forced,
                   cut |-> FALSE, asked |-> {}])

\* force_start_queued_session.
ReadForce == status = "queued" /\ Arrive([kind |-> "force"])

-----------------------------------------------------------------------------
(* ... and what they write.                                                *)

Done(o) == inFlight' = inFlight \ {o}

\* decide: the status is written once the request was, whatever it is.
WriteAnswer(o) ==
    /\ o.kind = "answer"
    /\ \E d \in Decisions : request' = Resolved({o.of}, d)
    /\ status' = IF o.of \in Pending THEN "active" ELSE status
    /\ Done(o)
    /\ UNCHANGED <<tier, due, extension, run, ready, restarts>>

\* The result of resolve is not looked at.
WriteExpiry(o) ==
    /\ o.kind = "expire"
    /\ request' = Resolved({o.of}, "expired")
    /\ status' = "timed_out"
    /\ Done(o)
    /\ UNCHANGED <<tier, due, extension, run, ready, restarts>>

WriteExtension(o) ==
    /\ o.kind = "extend"
    /\ IF o.of \in Pending
       THEN /\ due' = [due EXCEPT ![o.of] = FALSE]
            /\ extension' = [extension EXCEPT ![o.of] = @ + 1]
       ELSE UNCHANGED <<due, extension>>
    /\ Done(o)
    /\ UNCHANGED <<status, tier, request, run, ready, restarts>>

\* A takeover leaves a queued session in the queue unless it is forced.
Keeps(o) == o.kind = "takeover" /\ o.seen = "queued" /\ ~o.forced

\* Mistake: the run is cancelled and its question left open.
CutOnly(o) ==
    /\ o.kind \in {"stop", "override", "takeover"}
    /\ ~o.cut
    /\ run' = [i \in Runs |->
                 IF ~Keeps(o) /\ Live(i) /\ run[i].here THEN Over ELSE run[i]]
    /\ inFlight' = (inFlight \ {o}) \cup {[o EXCEPT !.cut = TRUE]}
    /\ UNCHANGED <<status, tier, request, due, extension, ready, restarts>>

\* cancel_session_workflow and the list of what is pending.
Cut(o) ==
    /\ o.kind \in {"stop", "override", "takeover"}
    /\ ~o.cut
    /\ run' = [i \in Runs |->
                 IF ~Keeps(o) /\ Live(i) /\ run[i].here THEN Over ELSE run[i]]
    /\ inFlight' = (inFlight \ {o})
         \cup {[o EXCEPT !.cut = TRUE, !.asked = IF Keeps(o) THEN {} ELSE Pending]}
    /\ UNCHANGED <<status, tier, request, due, extension, ready, restarts>>

WriteStop(o) ==
    /\ o.kind = "stop" /\ o.cut
    /\ request' = Resolved(o.asked, "expired")
    /\ status' = IF o.seen = "queued" THEN "cancelled" ELSE "stopped"
    /\ Done(o)
    /\ UNCHANGED <<tier, due, extension, run, ready, restarts>>

\* The run that goes on under the person is a task of this process.
WriteOverride(o) ==
    /\ o.kind = "override" /\ o.cut
    /\ request' = Resolved(o.asked, "expired")
    /\ status' = "active"
    /\ tier' = o.to
    /\ ready' = Scheduled(TRUE)
    /\ Done(o)
    /\ UNCHANGED <<due, extension, run, restarts>>

\* Mistake: only a forced takeover starts a run.
TakeoverUnstarted(o) ==
    /\ o.kind = "takeover" /\ o.cut
    /\ request' = Resolved(o.asked, "expired")
    /\ tier' = o.to
    /\ status' = IF o.forced THEN "active" ELSE status
    /\ ready' = IF o.forced THEN Scheduled(Monolith) ELSE ready
    /\ Done(o)
    /\ UNCHANGED <<due, extension, run, restarts>>

\* Only a forced takeover writes the status.
WriteTakeover(o) ==
    /\ o.kind = "takeover" /\ o.cut
    /\ request' = Resolved(o.asked, "expired")
    /\ tier' = o.to
    /\ status' = IF o.forced THEN "active" ELSE status
    /\ ready' = IF Keeps(o) THEN ready ELSE Scheduled(Monolith)
    /\ Done(o)
    /\ UNCHANGED <<due, extension, run, restarts>>

WriteForce(o) ==
    /\ o.kind = "force"
    /\ status' = "active"
    /\ ready' = Scheduled(Monolith)
    /\ Done(o)
    /\ UNCHANGED <<tier, request, due, extension, run, restarts>>

Act(o) ==
    \/ WriteAnswer(o) \/ WriteExpiry(o) \/ WriteExtension(o) \/ WriteForce(o)
    \/ Cut(o) \/ WriteStop(o) \/ WriteOverride(o) \/ WriteTakeover(o)

-----------------------------------------------------------------------------
(* Time and restarts.                                                      *)

HoldRunsOut ==
    \E r \in Pending :
        /\ ~due[r]
        /\ due' = [due EXCEPT ![r] = TRUE]
        /\ UNCHANGED <<status, tier, request, extension, run, ready, inFlight, restarts>>

\* The one process of a monolith stops and starts again: every task and every
\* request in flight is lost, then release_interrupted_sessions runs.
Restart ==
    /\ Monolith
    /\ restarts < MaxRestarts
    /\ restarts' = restarts + 1
    /\ run' = [i \in Runs |-> IF Live(i) THEN Over ELSE run[i]]
    /\ ready' = [here \in BOOLEAN |-> 0]
    /\ inFlight' = {}
    /\ status' = IF status = "active" THEN "stopped" ELSE status
    /\ request' = IF status = "active" THEN Resolved(Requests, "expired") ELSE request
    /\ UNCHANGED <<tier, due, extension>>

-----------------------------------------------------------------------------
\* admit_session creates the session queued, or active with a run to dispatch.
SInit ==
    /\ tier \in Tiers
    /\ \/ status = "queued" /\ ready = [here \in BOOLEAN |-> 0]
       \/ status = "active" /\ ready = [here \in BOOLEAN |-> IF here = Monolith THEN 1 ELSE 0]
    /\ request = [r \in Requests |-> "none"]
    /\ due = [r \in Requests |-> FALSE]
    /\ extension = [r \in Requests |-> 0]
    /\ run = [i \in Runs |-> NoRun]
    /\ inFlight = {}
    /\ restarts = 0

SNext ==
    \/ Admit \/ LeaveQueue \/ Dispatch
    \/ \E i \in Runs : WorkOn(i) \/ Fail(i)
    \/ ReadRequest \/ ReadHold \/ ReadSession \/ ReadForce
    \/ \E o \in inFlight : Act(o)
    \/ HoldRunsOut \/ Restart

SSpec == SInit /\ [][SNext]_svars

\* The event loop runs every task, a request that was read is carried out,
\* time passes, and SessionQueueScheduler drains the queue and sweeps holds.
FairSSpec ==
    /\ SSpec
    /\ WF_svars(LeaveQueue \/ Admit)
    /\ WF_svars(Dispatch)
    /\ \A i \in Runs : WF_svars(WorkOn(i))
    /\ WF_svars(ReadHold)
    /\ WF_svars(\E o \in inFlight : Act(o))
    /\ WF_svars(HoldRunsOut)
-----------------------------------------------------------------------------
(* Properties.                                                             *)

\* A session that holds a model slot has somebody who will give the slot
\* back: a run, a dispatch to come, a question whose hold runs out, or an
\* intercept that has not written yet.
SlotIsHeld ==
    status \in Occupying =>
        \/ \E i \in Runs : Live(i)
        \/ ready[TRUE] + ready[FALSE] > 0
        \/ Pending # {}
        \/ \E o \in inFlight : o.kind \in {"stop", "override", "takeover"} /\ o.cut

\* Nobody is left with an approval to give that no run waits for, except
\* while the intercept that cut the run is being written.
AskedIsAwaited ==
    \A r \in Pending :
        \/ \E i \in Runs : run[i].phase \in {"waiting", "expiring"} /\ run[i].waits = r
        \/ \E o \in inFlight : o.kind \in {"stop", "override", "takeover"} /\ r \in o.asked

\* What a run carries out was approved, and is still recorded as approved.
RunsOnlyApproved ==
    \A i \in Runs : \A r \in run[i].granted : request[r] = "approved"

\* The first answer of a request stays, whoever else answers or expires it.
AnswerIsFinal ==
    [][\A r \in Requests : request[r] \in Answers => request'[r] = request[r]]_svars

\* Every approval request is answered or expires, whatever restarts.
AskingEnds == \A r \in Requests : request[r] = "pending" ~> request[r] # "pending"

\* Unless the process restarts, a session gives its model slot back.
SlotIsReleased == status \in Occupying ~> (status \notin Occupying \/ restarts > 0)

\* Stop halts the AI: no run acts for a session a person ended.
StopHalts == \A i \in Runs : Acting(i) => status \notin EndedByAPerson

=============================================================================
