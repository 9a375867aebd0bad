-------------------------- MODULE AISession_proofs --------------------------
(***************************************************************************)
(* AISession for any number of requests, runs, routes in flight, restarts  *)
(* and redirects: answers are final, a run carries out only what was       *)
(* approved, and, until the process restarts, nothing is asked for nobody  *)
(* and no model slot is held for nothing.                                  *)
(***************************************************************************)
EXTENDS AISession, TLAPS

Intercept(o) == o.kind \in {"stop", "override", "takeover"}

\* A run that waits does so for a request.
Waits == \A i \in Runs : run[i].phase \in {"waiting", "expiring"} => run[i].waits \in Requests

\* Only an intercept that cut the runs has requests to expire.
Lists == \A o \in inFlight : Intercept(o) /\ o.asked # {} => o.cut /\ ~Keeps(o)

\* SlotIsHeld, by an intercept that will write the status only.
Held ==
    status \in Occupying =>
        \/ \E i \in Runs : Live(i)
        \/ ready[TRUE] + ready[FALSE] > 0
        \/ Pending # {}
        \/ \E o \in inFlight : Intercept(o) /\ o.cut /\ ~Keeps(o)

Typed == SessionTypeOK /\ Waits

-----------------------------------------------------------------------------
(* The operators.                                                          *)

\* resolve leaves answered requests alone and none of its own pending.
LEMMA ResolvedIsFinal ==
    ASSUME request \in [Requests -> {"none", "pending"} \cup Answers],
           NEW rs, NEW answer \in Answers
    PROVE  /\ Resolved(rs, answer) \in [Requests -> {"none", "pending"} \cup Answers]
           /\ \A r \in Requests : request[r] # "pending" => Resolved(rs, answer)[r] = request[r]
           /\ \A r \in Requests : Resolved(rs, answer)[r] = "pending"
                                    <=> request[r] = "pending" /\ r \notin rs
BY DEF Resolved, Answers, Decisions

\* The gate leaves a run at its gate, and grants what was approved only.
LEMMA GatedGrants ==
    ASSUME NEW t \in RunRecords, t.waits \in Requests, NEW answer
    PROVE  /\ Gated(t, answer) \in RunRecords
           /\ Gated(t, answer).phase = "gate"
           /\ \A r \in Gated(t, answer).granted :
                 r \in t.granted \/ (r = t.waits /\ answer = "approved")
<1>0. /\ MaxRequests \in Nat /\ MaxRedirects \in Nat /\ 0 \in 0..MaxRequests
      /\ t.redirects \in 0..MaxRedirects /\ t.granted \in SUBSET Requests
  BY SessionAssumption DEF RunRecords
<1> DEFINE back == [t EXCEPT !.phase = "gate", !.waits = 0]
<1>1. back \in RunRecords /\ back.phase = "gate" /\ back.granted = t.granted
        /\ back.redirects = t.redirects
  BY <1>0 DEF RunRecords
<1> HIDE DEF back
<1>2. /\ [back EXCEPT !.granted = @ \cup {t.waits}] \in RunRecords
      /\ [back EXCEPT !.granted = @ \cup {t.waits}].phase = "gate"
      /\ [back EXCEPT !.granted = @ \cup {t.waits}].granted = t.granted \cup {t.waits}
  BY <1>0, <1>1 DEF RunRecords
<1>3. /\ [back EXCEPT !.out = TRUE] \in RunRecords
      /\ [back EXCEPT !.out = TRUE].phase = "gate"
      /\ [back EXCEPT !.out = TRUE].granted = t.granted
  BY <1>1 DEF RunRecords
<1>4. t.redirects < MaxRedirects =>
        /\ [back EXCEPT !.granted = {}, !.redirects = @ + 1] \in RunRecords
        /\ [back EXCEPT !.granted = {}, !.redirects = @ + 1].phase = "gate"
        /\ [back EXCEPT !.granted = {}, !.redirects = @ + 1].granted = {}
  <2> DEFINE more == back.redirects + 1
  <2>1. t.redirects < MaxRedirects => more \in 0..MaxRedirects
    BY <1>0, <1>1
  <2> HIDE DEF more
  <2>2. more \in 0..MaxRedirects =>
          /\ [back EXCEPT !.granted = {}, !.redirects = more] \in RunRecords
          /\ [back EXCEPT !.granted = {}, !.redirects = more].phase = "gate"
          /\ [back EXCEPT !.granted = {}, !.redirects = more].granted = {}
    BY <1>1 DEF RunRecords
  <2> QED
    BY <2>1, <2>2 DEF more
<1>5. CASE answer = "approved"
  BY <1>2, <1>5 DEF Gated, back
<1>6. CASE answer = "expired"
  BY <1>3, <1>6 DEF Gated, back
<1>7. CASE answer = "redirected" /\ t.redirects < MaxRedirects
  BY <1>4, <1>7 DEF Gated, back
<1>8. CASE answer \notin {"approved", "expired"}
             /\ ~(answer = "redirected" /\ t.redirects < MaxRedirects)
  BY <1>1, <1>8 DEF Gated, back
<1> QED
  BY <1>5, <1>6, <1>7, <1>8

\* The records of runs that are new or over.
LEMMA PlainRuns ==
    /\ NoRun \in RunRecords /\ Over \in RunRecords
    /\ NoRun.granted = {} /\ Over.granted = {}
    /\ NoRun.phase = "none" /\ Over.phase = "over"
<1>1. 0 \in 0..MaxRequests /\ 0 \in 0..MaxRedirects
  BY SessionAssumption
<1> QED
  BY <1>1 DEF NoRun, Over, RunRecords

\* An intercept's cut is one of the operations.
LEMMA CutIsTyped ==
    ASSUME NEW o \in Operations, Intercept(o), NEW rs \in SUBSET Requests
    PROVE  /\ [o EXCEPT !.cut = TRUE, !.asked = rs] \in Operations
           /\ [o EXCEPT !.cut = TRUE, !.asked = rs].cut
           /\ [o EXCEPT !.cut = TRUE, !.asked = rs].asked = rs
           /\ [o EXCEPT !.cut = TRUE, !.asked = rs].kind = o.kind
           /\ Keeps([o EXCEPT !.cut = TRUE, !.asked = rs]) = Keeps(o)
<1>1. o \in [kind : {"stop", "override", "takeover"}, seen : Stoppable, to : Tiers,
             forced : BOOLEAN, cut : BOOLEAN, asked : SUBSET Requests]
  BY DEF Operations, Intercept
<1> QED
  BY <1>1 DEF Operations, Keeps

\* A dispatch more to come is one that is to come.
LEMMA ScheduledIsReady ==
    ASSUME ready \in [BOOLEAN -> Nat], NEW here \in BOOLEAN
    PROVE  /\ Scheduled(here) \in [BOOLEAN -> Nat]
           /\ Scheduled(here)[TRUE] + Scheduled(here)[FALSE] > 0
<1>1. ready[here] \in Nat /\ ready[here] + 1 \in Nat
  OBVIOUS
<1> DEFINE more == ready[here] + 1
<1>2. more \in Nat /\ more > 0
  BY <1>1
<1> HIDE DEF more
<1>3. [ready EXCEPT ![here] = more] \in [BOOLEAN -> Nat]
  BY <1>2
<1>4. [ready EXCEPT ![here] = more][here] = more
  BY <1>3
<1>5. Scheduled(here) = [ready EXCEPT ![here] = more]
  BY DEF Scheduled, more
<1>6. Scheduled(here)[TRUE] \in Nat /\ Scheduled(here)[FALSE] \in Nat
  BY <1>3, <1>5
<1>7. Scheduled(here)[here] > 0
  BY <1>2, <1>4, <1>5
<1> DEFINE a == Scheduled(here)[TRUE]
           b == Scheduled(here)[FALSE]
<1>8. a > 0 \/ b > 0
  BY <1>7
<1>9. a \in Nat /\ b \in Nat
  BY <1>6
<1> HIDE DEF a, b
<1>10. a + b > 0
  BY <1>8, <1>9
<1> QED
  BY <1>3, <1>5, <1>10 DEF a, b

\* A dispatch done is one that was to come.
LEMMA DispatchedIsReady ==
    ASSUME ready \in [BOOLEAN -> Nat], NEW here \in BOOLEAN, ready[here] > 0
    PROVE  [ready EXCEPT ![here] = @ - 1] \in [BOOLEAN -> Nat]
<1> DEFINE less == ready[here] - 1
<1>1. less \in Nat
  OBVIOUS
<1> HIDE DEF less
<1>2. [ready EXCEPT ![here] = less] \in [BOOLEAN -> Nat]
  BY <1>1
<1> QED
  BY <1>2 DEF less

-----------------------------------------------------------------------------
(* Types, and what the runs were granted.                                  *)

Granted == Typed /\ RunsOnlyApproved

\* A session starts with no request asked and no run.
LEMMA Starts == SInit => Granted
<1> SUFFICES ASSUME SInit PROVE Granted
  OBVIOUS
<1>1. SessionTypeOK
  <2>1. ready \in [BOOLEAN -> Nat]
    BY DEF SInit
  <2>2. run \in [Runs -> RunRecords]
    BY PlainRuns DEF SInit
  <2>3. restarts \in 0..MaxRestarts
    BY SessionAssumption DEF SInit
  <2>4. /\ status \in Statuses /\ tier \in Tiers /\ inFlight \subseteq Operations
        /\ request \in [Requests -> {"none", "pending"} \cup Answers]
        /\ due \in [Requests -> BOOLEAN] /\ extension \in [Requests -> Nat]
    BY DEF SInit, Statuses, Stoppable, Occupying
  <2> QED
    BY <2>1, <2>2, <2>3, <2>4 DEF SessionTypeOK
<1>2. Waits /\ RunsOnlyApproved
  BY PlainRuns DEF SInit, Waits, RunsOnlyApproved
<1> QED
  BY <1>1, <1>2 DEF Granted, Typed

\* The rows without the runs and what is in flight.
LEMMA RowsTyped ==
    ASSUME SessionTypeOK, [SNext]_svars
    PROVE  /\ status' \in Statuses /\ tier' \in Tiers
           /\ extension' \in [Requests -> Nat] /\ due' \in [Requests -> BOOLEAN]
           /\ ready' \in [BOOLEAN -> Nat] /\ restarts' \in 0..MaxRestarts
<1> USE DEF SessionTypeOK, Statuses, Stoppable, Occupying, EndedByAPerson
<1>1. CASE UNCHANGED svars
  BY <1>1 DEF svars
<1>0. Monolith \in BOOLEAN /\ TRUE \in BOOLEAN
  BY SessionAssumption
<1>2. CASE Admit \/ LeaveQueue
  <2>1. Scheduled(Monolith) \in [BOOLEAN -> Nat]
    BY <1>0, ScheduledIsReady
  <2> QED
    BY <1>2, <2>1 DEF Admit, LeaveQueue
<1>11. CASE Dispatch
  <2>1. PICK here \in BOOLEAN, i \in Runs :
          ready[here] > 0 /\ ready' = [ready EXCEPT ![here] = @ - 1]
    BY <1>11 DEF Dispatch
  <2>2. ready' \in [BOOLEAN -> Nat]
    BY <2>1, DispatchedIsReady
  <2> QED
    BY <1>11, <2>2 DEF Dispatch
<1>3. ASSUME NEW i \in Runs, WorkOn(i) \/ Fail(i)
      PROVE  /\ status' \in Statuses
             /\ UNCHANGED <<tier, due, extension, ready, restarts>>
  BY <1>3 DEF WorkOn, Fail, Begin, Ask, PollAnswered, PollEnded, PollDue, ExpireOwn,
              Execute, Finish, SetStatusUnlessEnded
<1>4. CASE ReadRequest \/ ReadHold \/ ReadSession \/ ReadForce
  BY <1>4 DEF ReadRequest, ReadHold, ReadSession, ReadForce, Arrive
<1>5. ASSUME NEW o \in inFlight, WriteAnswer(o) \/ WriteExpiry(o) \/ WriteStop(o) \/ Cut(o)
      PROVE  /\ status' \in Statuses
             /\ UNCHANGED <<tier, due, extension, ready, restarts>>
  BY <1>5 DEF WriteAnswer, WriteExpiry, WriteStop, Cut
<1>6. ASSUME NEW o \in inFlight, WriteExtension(o)
      PROVE  /\ due' \in [Requests -> BOOLEAN] /\ extension' \in [Requests -> Nat]
             /\ UNCHANGED <<status, tier, ready, restarts>>
  <2>1. CASE o.of \in Pending
    <3>1. o.of \in Requests /\ extension[o.of] \in Nat
      BY <2>1 DEF Pending
    <3>2. extension[o.of] + 1 \in Nat
      BY <3>1
    <3> DEFINE more == extension[o.of] + 1
    <3> HIDE DEF more
    <3>3. [extension EXCEPT ![o.of] = more] \in [Requests -> Nat]
      BY <3>1, <3>2 DEF more
    <3>4. extension' = [extension EXCEPT ![o.of] = more]
      BY <1>6, <2>1 DEF WriteExtension, more
    <3> QED
      BY <1>6, <2>1, <3>1, <3>3, <3>4 DEF WriteExtension
  <2>2. CASE o.of \notin Pending
    BY <1>6, <2>2 DEF WriteExtension
  <2> QED
    BY <2>1, <2>2
<1>7. ASSUME NEW o \in inFlight, WriteForce(o) \/ WriteOverride(o) \/ WriteTakeover(o)
      PROVE  /\ status' \in Statuses /\ ready' \in [BOOLEAN -> Nat]
             /\ UNCHANGED <<due, extension, restarts>>
  <2>1. Scheduled(Monolith) \in [BOOLEAN -> Nat] /\ Scheduled(TRUE) \in [BOOLEAN -> Nat]
    BY <1>0, ScheduledIsReady
  <2> QED
    BY <1>7, <2>1 DEF WriteForce, WriteOverride, WriteTakeover
<1>8. ASSUME NEW o \in inFlight, WriteForce(o) \/ WriteOverride(o) \/ WriteTakeover(o)
      PROVE  tier' \in Tiers
  <2>1. o.kind \in {"override", "takeover"} => o.to \in Tiers
    BY DEF Operations
  <2> QED
    BY <1>8, <2>1 DEF WriteForce, WriteOverride, WriteTakeover
<1>9. CASE HoldRunsOut
  BY <1>9 DEF HoldRunsOut
<1>10. CASE Restart
  BY <1>10, SessionAssumption DEF Restart
<1> QED
  BY <1>1, <1>2, <1>3, <1>4, <1>5, <1>6, <1>7, <1>8, <1>9, <1>10, <1>11 DEF SNext, Act

\* The requests: an answer stays.
LEMMA RequestsAreFinal ==
    ASSUME Typed, [SNext]_svars
    PROVE  /\ request' \in [Requests -> {"none", "pending"} \cup Answers]
           /\ \A r \in Requests : request[r] \in Answers => request'[r] = request[r]
<1> USE DEF Typed, SessionTypeOK
<1>0. "expired" \in Answers /\ Decisions \subseteq Answers
        /\ "pending" \notin Answers /\ "none" \notin Answers
  BY DEF Answers, Decisions
<1>1. \A rs : \A answer \in Answers :
        /\ Resolved(rs, answer) \in [Requests -> {"none", "pending"} \cup Answers]
        /\ \A r \in Requests : request[r] \in Answers => Resolved(rs, answer)[r] = request[r]
  BY <1>0, ResolvedIsFinal
<1> SUFFICES ASSUME request' # request,
                    ~\E rs : \E answer \in Answers : request' = Resolved(rs, answer)
             PROVE  /\ request' \in [Requests -> {"none", "pending"} \cup Answers]
                    /\ \A r \in Requests : request[r] \in Answers => request'[r] = request[r]
  BY <1>1
<1>2. \A i \in Runs : ~(Begin(i) \/ PollAnswered(i) \/ PollEnded(i) \/ PollDue(i)
                         \/ ExpireOwn(i) \/ Execute(i) \/ Finish(i) \/ Fail(i))
  BY <1>0 DEF Begin, PollAnswered, PollEnded, PollDue, ExpireOwn, Execute, Finish, Fail
<1>3. \A o \in inFlight : ~Act(o)
  BY <1>0 DEF Act, WriteAnswer, WriteExpiry, WriteExtension, WriteForce, Cut, WriteStop,
              WriteOverride, WriteTakeover
<1>4. ~(Admit \/ LeaveQueue \/ Dispatch \/ ReadRequest \/ ReadHold \/ ReadSession
         \/ ReadForce \/ HoldRunsOut \/ Restart \/ UNCHANGED svars)
  BY <1>0 DEF Admit, LeaveQueue, Dispatch, ReadRequest, ReadHold, ReadSession, ReadForce,
              Arrive, HoldRunsOut, Restart, svars
<1>5. PICK i \in Runs : Ask(i)
  BY <1>2, <1>3, <1>4 DEF SNext, WorkOn
<1>6. PICK r \in Requests : request[r] = "none" /\ request' = [request EXCEPT ![r] = "pending"]
  BY <1>5 DEF Ask
<1> QED
  BY <1>0, <1>6

\* One run that moves as a step of its own says.
Moves(t, u) ==
    /\ u \in RunRecords
    /\ u.phase \in {"waiting", "expiring"} => u.waits \in Requests
    /\ \A r \in u.granted : r \in t.granted \/ (r \in Requests /\ request[r] = "approved")

\* The runs: what waits does so for a request, and what is granted was so
\* before or is approved.
LEMMA RunsMove ==
    ASSUME Typed, [SNext]_svars
    PROVE  run' \in [Runs -> RunRecords] /\ \A i \in Runs : Moves(run[i], run'[i])
<1>0. /\ run \in [Runs -> RunRecords]
      /\ \A i \in Runs : run[i] \in RunRecords /\ Moves(run[i], run[i])
      /\ \A i \in Runs : Moves(run[i], Over)
  BY PlainRuns DEF Typed, SessionTypeOK, Waits, Moves
<1> DEFINE Goal == run' \in [Runs -> RunRecords] /\ \A j \in Runs : Moves(run[j], run'[j])
           Alone(i) == /\ run' \in [Runs -> RunRecords]
                       /\ run'[i].phase \in {"waiting", "expiring"} => run'[i].waits \in Requests
                       /\ \A r \in run'[i].granted :
                            r \in run[i].granted \/ (r \in Requests /\ request[r] = "approved")
                       /\ \A j \in Runs \ {i} : run'[j] = run[j]
<1>1. ASSUME NEW i \in Runs, Alone(i) PROVE Goal
  BY <1>0, <1>1 DEF Moves
<1>2. ASSUME run' = run PROVE Goal
  BY <1>0, <1>2
<1>3. ASSUME NEW i \in Runs, Begin(i) PROVE Alone(i)
  <2>1. tier \in Tiers \cup {0}
    BY DEF Typed, SessionTypeOK
  <2>2. /\ [run[i] EXCEPT !.phase = "gate", !.tier = tier] \in RunRecords
        /\ [run[i] EXCEPT !.phase = "gate", !.tier = tier].granted = run[i].granted
        /\ [run[i] EXCEPT !.phase = "gate", !.tier = tier].phase = "gate"
    BY <1>0, <2>1 DEF RunRecords
  <2>3. /\ run'[i] = [run[i] EXCEPT !.phase = "gate", !.tier = tier]
        /\ \A j \in Runs \ {i} : run'[j] = run[j]
        /\ run' = [j \in Runs |-> run'[j]]
    BY <1>0, <1>3 DEF Begin
  <2> QED
    BY <1>0, <2>2, <2>3
<1>4. ASSUME NEW i \in Runs, Ask(i) PROVE Alone(i)
  <2>1. PICK r \in Requests : run' = [run EXCEPT ![i].phase = "waiting", ![i].waits = r]
    BY <1>4 DEF Ask
  <2>2. r \in 0..MaxRequests
    BY SessionAssumption DEF Requests
  <2>3. /\ [run[i] EXCEPT !.phase = "waiting", !.waits = r] \in RunRecords
        /\ [run[i] EXCEPT !.phase = "waiting", !.waits = r].granted = run[i].granted
        /\ [run[i] EXCEPT !.phase = "waiting", !.waits = r].waits = r
    BY <1>0, <2>2 DEF RunRecords
  <2>4. /\ run'[i] = [run[i] EXCEPT !.phase = "waiting", !.waits = r]
        /\ \A j \in Runs \ {i} : run'[j] = run[j]
        /\ run' = [j \in Runs |-> run'[j]]
    BY <1>0, <2>1
  <2> QED
    BY <1>0, <2>3, <2>4
<1>5. ASSUME NEW i \in Runs, PollAnswered(i) PROVE Alone(i)
  <2>1. run[i].waits \in Requests /\ run' = [run EXCEPT ![i] = Gated(run[i], request[run[i].waits])]
    BY <1>0, <1>5 DEF PollAnswered, Moves
  <2> QED
    BY <1>0, <2>1, GatedGrants
<1>6. ASSUME NEW i \in Runs, PollDue(i) PROVE Alone(i)
  BY <1>0, <1>6 DEF PollDue, Pending, RunRecords
<1>7. ASSUME NEW i \in Runs, ExpireOwn(i) PROVE Alone(i)
  <2>1. run[i].waits \in Requests /\ run' = [run EXCEPT ![i] = Gated(run[i], "expired")]
    BY <1>0, <1>7 DEF ExpireOwn, Moves
  <2> QED
    BY <1>0, <2>1, GatedGrants
<1>8. ASSUME NEW i \in Runs, Execute(i) PROVE Alone(i)
  BY <1>0, <1>8 DEF Execute, RunRecords
<1>9. ASSUME NEW i \in Runs, Finish(i) \/ Fail(i) PROVE Alone(i)
  BY <1>0, <1>9, PlainRuns DEF Finish, Fail
<1>10. ASSUME Dispatch PROVE Goal
  <2>1. PICK here \in BOOLEAN, i \in Runs :
          run' = [run EXCEPT ![i].phase = "starting", ![i].here = here]
    BY <1>10 DEF Dispatch
  <2>2. Alone(i)
    BY <1>0, <2>1 DEF RunRecords
  <2> QED
    BY <1>1, <2>2
<1>11. ASSUME NEW o \in inFlight, Act(o), run' # run PROVE Goal
  <2>1. run' = [i \in Runs |-> IF ~Keeps(o) /\ Live(i) /\ run[i].here THEN Over ELSE run[i]]
    BY <1>11 DEF Act, WriteAnswer, WriteExpiry, WriteExtension, WriteForce, Cut, WriteStop,
                 WriteOverride, WriteTakeover
  <2> QED
    BY <1>0, <2>1, PlainRuns
<1>12. ASSUME Restart PROVE Goal
  BY <1>0, <1>12, PlainRuns DEF Restart
<1>13. ASSUME NEW i \in Runs, PollEnded(i) PROVE run' = run
  BY <1>13 DEF PollEnded
<1>14. ASSUME Admit \/ LeaveQueue \/ ReadRequest \/ ReadHold \/ ReadSession \/ ReadForce
                \/ HoldRunsOut \/ UNCHANGED svars
       PROVE  Goal
  BY <1>2, <1>14 DEF Admit, LeaveQueue, ReadRequest, ReadHold, ReadSession, ReadForce, Arrive,
                     HoldRunsOut, svars
<1> HIDE DEF Goal, Alone
<1>15. ASSUME NEW i \in Runs, WorkOn(i) \/ Fail(i) PROVE Goal
  BY <1>1, <1>2, <1>3, <1>4, <1>5, <1>6, <1>7, <1>8, <1>9, <1>13, <1>15 DEF WorkOn
<1>16. ASSUME NEW o \in inFlight, Act(o) PROVE Goal
  BY <1>2, <1>11, <1>16
<1>17. Goal
  BY <1>10, <1>12, <1>14, <1>15, <1>16 DEF SNext
<1> QED
  BY <1>17 DEF Goal

\* What is in flight: only an intercept that cut lists requests.
LEMMA OperationsMove ==
    ASSUME Typed, Lists, [SNext]_svars
    PROVE  inFlight' \subseteq Operations /\ Lists'
<1> DEFINE Fit(o) == o \in Operations /\ (Intercept(o) /\ o.asked # {} => o.cut /\ ~Keeps(o))
<1>0. /\ \A o \in inFlight : Fit(o)
      /\ Pending \subseteq Requests
  BY DEF Typed, SessionTypeOK, Lists, Pending
<1> SUFFICES \A o \in inFlight' : Fit(o)
  BY DEF Lists, Keeps, Intercept
<1>1. ASSUME NEW o, Fit(o), Arrive(o) PROVE \A p \in inFlight' : Fit(p)
  BY <1>0, <1>1 DEF Arrive
<1>2. ASSUME NEW r \in Requests PROVE /\ Fit([kind |-> "answer", of |-> r])
                                      /\ Fit([kind |-> "extend", of |-> r])
                                      /\ Fit([kind |-> "expire", of |-> r])
                                      /\ Fit([kind |-> "force"])
  BY DEF Operations, Intercept
<1>3. ASSUME ReadRequest PROVE \A o \in inFlight' : Fit(o)
  BY <1>0, <1>1, <1>2, <1>3 DEF ReadRequest
<1>4. ASSUME ReadHold \/ ReadForce PROVE \A o \in inFlight' : Fit(o)
  <2>1. Fit([kind |-> "force"])
    BY DEF Operations, Intercept
  <2> QED
    BY <1>0, <1>1, <1>2, <1>4, <2>1 DEF ReadHold, ReadForce
<1>5. ASSUME ReadSession PROVE \A o \in inFlight' : Fit(o)
  <2>1. PICK kind \in {"stop", "override", "takeover"}, to \in Tiers, forced \in BOOLEAN :
          /\ status \in Intercepts(kind)
          /\ Arrive([kind |-> kind, seen |-> status, to |-> to, forced |-> forced,
                     cut |-> FALSE, asked |-> {}])
    BY <1>5 DEF ReadSession
  <2>2. status \in Stoppable
    BY <2>1 DEF Intercepts, Stoppable
  <2> DEFINE o == [kind |-> kind, seen |-> status, to |-> to, forced |-> forced,
                   cut |-> FALSE, asked |-> {}]
  <2>3. Fit(o)
    BY <2>2 DEF Operations
  <2> QED
    BY <1>1, <2>1, <2>3
<1>6. ASSUME NEW o \in inFlight, Cut(o) PROVE \A p \in inFlight' : Fit(p)
  <2> DEFINE rs == IF Keeps(o) THEN {} ELSE Pending
             p == [o EXCEPT !.cut = TRUE, !.asked = rs]
  <2>1. rs \in SUBSET Requests /\ Intercept(o) /\ o \in Operations
    BY <1>0, <1>6 DEF Cut, Intercept
  <2>2. Keeps(o) => rs = {}
    OBVIOUS
  <2>3. inFlight' = (inFlight \ {o}) \cup {p}
    BY <1>6 DEF Cut
  <2> HIDE DEF rs
  <2>4. Fit(p)
    BY <2>1, <2>2, CutIsTyped
  <2> QED
    BY <1>0, <2>3, <2>4
<1>7. ASSUME NEW o \in inFlight, Act(o), ~Cut(o) PROVE \A p \in inFlight' : Fit(p)
  BY <1>0, <1>7 DEF Act, WriteAnswer, WriteExpiry, WriteExtension, WriteForce, WriteStop,
                    WriteOverride, WriteTakeover, Done
<1>8. ASSUME inFlight' = inFlight \/ inFlight' = {} PROVE \A o \in inFlight' : Fit(o)
  BY <1>0, <1>8
<1>9. ASSUME NEW i \in Runs, WorkOn(i) \/ Fail(i) PROVE inFlight' = inFlight
  BY <1>9 DEF WorkOn, Fail, Begin, Ask, PollAnswered, PollEnded, PollDue, ExpireOwn, Execute,
              Finish
<1>10. ASSUME Admit \/ LeaveQueue \/ Dispatch \/ HoldRunsOut \/ Restart \/ UNCHANGED svars
       PROVE  inFlight' = inFlight \/ inFlight' = {}
  BY <1>10 DEF Admit, LeaveQueue, Dispatch, HoldRunsOut, Restart, svars
<1> QED
  BY <1>3, <1>4, <1>5, <1>6, <1>7, <1>8, <1>9, <1>10 DEF SNext

-----------------------------------------------------------------------------
(* Theorems that hold whatever restarts.                                   *)

Always == Typed /\ Lists /\ RunsOnlyApproved

\* The types hold, what waits does so for a request, and what is in flight was
\* read by a route or a sweep: the inductive invariant under any restarts.
THEOREM SessionIsTyped == SSpec => []Always
<1>1. SInit => Always
  BY Starts DEF Always, Granted, SInit, Lists
<1>2. Always /\ [SNext]_svars => Always'
  <2> SUFFICES ASSUME Always, [SNext]_svars PROVE Always'
    OBVIOUS
  <2>1. Typed /\ Lists /\ RunsOnlyApproved
    BY DEF Always
  <2>2. SessionTypeOK'
    BY <2>1, RowsTyped, RequestsAreFinal, RunsMove, OperationsMove DEF SessionTypeOK, Typed
  <2>3. Waits'
    BY <2>1, RunsMove DEF Waits, Moves
  <2>4. RunsOnlyApproved'
    <3> SUFFICES ASSUME NEW i \in Runs, NEW r \in run'[i].granted
                 PROVE  request'[r] = "approved"
      BY DEF RunsOnlyApproved
    <3>1. r \in Requests /\ run[i] \in RunRecords
      BY <2>1, <2>2 DEF SessionTypeOK, Typed, RunRecords
    <3>2. request[r] = "approved"
      BY <2>1, RunsMove DEF Moves, RunsOnlyApproved
    <3>3. "approved" \in Answers
      BY DEF Answers, Decisions
    <3> QED
      BY <2>1, <3>1, <3>2, <3>3, RequestsAreFinal
  <2> QED
    BY <2>1, <2>2, <2>3, <2>4, OperationsMove DEF Always, Typed
<1> QED
  BY <1>1, <1>2, PTL DEF SSpec

\* What a run carries out was approved and stays so (nodes.py, the tier gate):
\* whoever answers, expires or takes over the session in between.
THEOREM ActsOnApprovals == SSpec => []RunsOnlyApproved
BY SessionIsTyped, PTL DEF Always

\* No second answer, expiry, intercept or restart changes the first answer of
\* a request (approvals/service.py, resolve).
THEOREM AnswersStay == SSpec => AnswerIsFinal
<1>1. Always /\ [SNext]_svars =>
        [\A r \in Requests : request[r] \in Answers => request'[r] = request[r]]_svars
  BY RequestsAreFinal DEF Always
<1> QED
  BY <1>1, SessionIsTyped, PTL DEF SSpec, AnswerIsFinal

-----------------------------------------------------------------------------
(* Until the process restarts.                                             *)

Awaits(i, r) == run[i].phase \in {"waiting", "expiring"} /\ run[i].waits = r

\* The requests that are pending after each kind of step, and who awaits them.
LEMMA AskedStaysAwaited ==
    ASSUME Always, AskedIsAwaited, [SNext]_svars, ~Restart
    PROVE  AskedIsAwaited'
<1> SUFFICES ASSUME NEW r \in Requests, request'[r] = "pending"
             PROVE  \/ \E i \in Runs : Awaits(i, r)'
                    \/ \E o \in inFlight' : Intercept(o) /\ r \in o.asked
  BY DEF AskedIsAwaited, Pending, Awaits, Intercept
<1> DEFINE Done1 == \/ \E i \in Runs : Awaits(i, r)'
                    \/ \E o \in inFlight' : Intercept(o) /\ r \in o.asked
<1>0. /\ request[r] = "pending" =>
           \/ \E i \in Runs : Awaits(i, r)
           \/ \E o \in inFlight : Intercept(o) /\ r \in o.asked
      /\ \A o \in inFlight : Intercept(o) /\ o.asked # {} => o.cut /\ ~Keeps(o)
      /\ run \in [Runs -> RunRecords] /\ inFlight \subseteq Operations
      /\ request \in [Requests -> {"none", "pending"} \cup Answers]
      /\ "expired" \in Answers /\ "pending" \notin Answers /\ Decisions \subseteq Answers
  BY DEF AskedIsAwaited, Pending, Awaits, Intercept, Always, Typed, SessionTypeOK, Lists,
         Answers, Decisions
<1>00. \A rs : \A answer \in Answers :
         request' = Resolved(rs, answer) => request[r] = "pending" /\ r \notin rs
  BY <1>0, ResolvedIsFinal
\* Nothing that awaits a request goes.
<1>1. ASSUME request' = request, run' = run, inFlight \subseteq inFlight' PROVE Done1
  BY <1>0, <1>1 DEF Awaits
<1>2. ASSUME Admit \/ LeaveQueue \/ ReadRequest \/ ReadHold \/ ReadSession \/ ReadForce
               \/ HoldRunsOut \/ UNCHANGED svars
      PROVE  request' = request /\ run' = run /\ inFlight \subseteq inFlight'
  BY <1>2 DEF Admit, LeaveQueue, ReadRequest, ReadHold, ReadSession, ReadForce, Arrive,
              HoldRunsOut, svars
\* One run moves.
<1>3. ASSUME NEW i \in Runs, inFlight' = inFlight, \A j \in Runs \ {i} : run'[j] = run[j],
             request[r] = "pending", Awaits(i, r) => Awaits(i, r)'
      PROVE  Done1
  BY <1>0, <1>3 DEF Awaits
<1>4. CASE Dispatch
  <2>1. PICK here \in BOOLEAN, i \in Runs :
          /\ run[i].phase = "none" /\ inFlight' = inFlight /\ request' = request
          /\ run' = [run EXCEPT ![i].phase = "starting", ![i].here = here]
    BY <1>4 DEF Dispatch
  <2>2. \A j \in Runs \ {i} : run'[j] = run[j]
    BY <1>0, <2>1
  <2>3. ~Awaits(i, r)
    BY <2>1 DEF Awaits
  <2> QED
    BY <1>3, <2>1, <2>2, <2>3
<1>5. ASSUME NEW i \in Runs, Ask(i) PROVE Done1
  <2>1. PICK q \in Requests :
          /\ run[i].phase = "gate" /\ inFlight' = inFlight
          /\ request' = [request EXCEPT ![q] = "pending"]
          /\ run' = [run EXCEPT ![i].phase = "waiting", ![i].waits = q]
    BY <1>5 DEF Ask
  <2>2. \A j \in Runs \ {i} : run'[j] = run[j]
    BY <1>0, <2>1
  <2>3. CASE r = q
    <3>1. run[i] \in RunRecords
      BY <1>0
    <3>2. run'[i].phase = "waiting" /\ run'[i].waits = r
      BY <1>0, <2>1, <2>3, <3>1 DEF RunRecords
    <3> QED
      BY <3>2 DEF Awaits
  <2>4. CASE r # q
    <3>1. request[r] = "pending" /\ ~Awaits(i, r)
      BY <1>0, <2>1, <2>4 DEF Awaits
    <3> QED
      BY <1>3, <2>1, <2>2, <3>1
  <2> QED
    BY <2>3, <2>4
<1>6. ASSUME NEW i \in Runs, Begin(i) \/ Execute(i) \/ Finish(i) \/ Fail(i) PROVE Done1
  <2>1. /\ run[i].phase \in {"starting", "gate", "executing"}
        /\ request' = request /\ inFlight' = inFlight
        /\ \A j \in Runs \ {i} : run'[j] = run[j]
    BY <1>0, <1>6 DEF Begin, Execute, Finish, Fail
  <2>2. ~Awaits(i, r)
    BY <2>1 DEF Awaits
  <2> QED
    BY <1>3, <2>1, <2>2
<1>7. ASSUME NEW i \in Runs, PollAnswered(i) \/ ExpireOwn(i) PROVE Done1
  <2>1. /\ inFlight' = inFlight /\ \A j \in Runs \ {i} : run'[j] = run[j]
        /\ request[r] = "pending" /\ ~Awaits(i, r)
    BY <1>0, <1>00, <1>7 DEF PollAnswered, ExpireOwn, Awaits
  <2> QED
    BY <1>3, <2>1
<1>8. ASSUME NEW i \in Runs, PollEnded(i) PROVE Done1
  <2>1. /\ inFlight' = inFlight /\ run' = run
        /\ request[r] = "pending"
    BY <1>0, <1>00, <1>8 DEF PollEnded
  <2> QED
    BY <1>3, <2>1 DEF Awaits
<1>9. ASSUME NEW i \in Runs, PollDue(i) PROVE Done1
  <2>1. /\ inFlight' = inFlight /\ \A j \in Runs \ {i} : run'[j] = run[j]
        /\ request' = request
        /\ run' = [run EXCEPT ![i].phase = "expiring"]
    BY <1>0, <1>9 DEF PollDue
  <2>2. run'[i].phase = "expiring" /\ run'[i].waits = run[i].waits
    BY <1>0, <2>1 DEF RunRecords
  <2> QED
    BY <1>3, <2>1, <2>2 DEF Awaits
\* A request in flight is carried out.
<1>10. ASSUME NEW o \in inFlight, Cut(o) PROVE Done1
  <2> DEFINE rs == IF Keeps(o) THEN {} ELSE Pending
             p == [o EXCEPT !.cut = TRUE, !.asked = rs]
  <2>1. /\ rs \in SUBSET Requests /\ Intercept(o) /\ o \in Operations /\ ~o.cut
        /\ request' = request
    BY <1>0, <1>10 DEF Cut, Intercept, Pending
  <2>2. inFlight' = (inFlight \ {o}) \cup {p}
    BY <1>10 DEF Cut
  <2>3. o.asked = {}
    BY <1>0, <2>1
  <2>4. CASE Keeps(o)
    <3>1. run' = run
      BY <1>0, <1>10, <2>4 DEF Cut
    <3> QED
      BY <1>0, <2>1, <2>2, <2>3, <3>1 DEF Awaits
  <2>5. CASE ~Keeps(o)
    <3>1. r \in rs
      BY <2>1, <2>5 DEF Pending
    <3> HIDE DEF rs
    <3>2. p.asked = rs /\ Intercept(p)
      BY <2>1, CutIsTyped DEF Intercept
    <3> QED
      BY <2>2, <3>1, <3>2
  <2> QED
    BY <2>4, <2>5
<1>11. ASSUME NEW o \in inFlight, Act(o), ~Cut(o) PROVE Done1
  <2>1. run' = run /\ inFlight' = inFlight \ {o} /\ request[r] = "pending"
    BY <1>0, <1>00, <1>11
    DEF Act, WriteAnswer, WriteExpiry, WriteExtension, WriteForce, WriteStop, WriteOverride,
        WriteTakeover, Done
  <2>2. ~(Intercept(o) /\ r \in o.asked)
    BY <1>0, <1>00, <1>11
    DEF Act, WriteAnswer, WriteExpiry, WriteExtension, WriteForce, WriteStop, WriteOverride,
        WriteTakeover, Intercept
  <2> QED
    BY <1>0, <2>1, <2>2 DEF Awaits
<1>12. ASSUME NEW i \in Runs, WorkOn(i) \/ Fail(i) PROVE Done1
  BY <1>5, <1>6, <1>7, <1>8, <1>9, <1>12 DEF WorkOn
<1>13. ASSUME NEW o \in inFlight, Act(o) PROVE Done1
  BY <1>10, <1>11, <1>13
<1> QED
  BY <1>1, <1>2, <1>4, <1>12, <1>13 DEF SNext

\* A model slot that is occupied has somebody who will give it back.
LEMMA SlotStaysHeld ==
    ASSUME Always, AskedIsAwaited, Held, [SNext]_svars, ~Restart
    PROVE  Held'
<1> DEFINE Vouches(o) == Intercept(o) /\ o.cut /\ ~Keeps(o)
           Goal == \/ \E i \in Runs : Live(i)'
                   \/ ready'[TRUE] + ready'[FALSE] > 0
                   \/ \E r \in Requests : request'[r] = "pending"
                   \/ \E o \in inFlight' : Vouches(o)
<1> SUFFICES ASSUME status' \in Occupying PROVE Goal
  BY DEF Held, Pending, Intercept, Keeps
<1>0. /\ status \in Occupying =>
           \/ \E i \in Runs : Live(i)
           \/ ready[TRUE] + ready[FALSE] > 0
           \/ \E r \in Requests : request[r] = "pending"
           \/ \E o \in inFlight : Vouches(o)
      /\ \A o \in inFlight : Intercept(o) /\ o.asked # {} => Vouches(o)
      /\ run \in [Runs -> RunRecords] /\ inFlight \subseteq Operations
      /\ ready \in [BOOLEAN -> Nat] /\ Monolith \in BOOLEAN
      /\ request \in [Requests -> {"none", "pending"} \cup Answers]
      /\ Occupying \cap EndedByAPerson = {}
      /\ "queued" \notin Occupying /\ "timed_out" \notin Occupying
      /\ "completed" \notin Occupying /\ "failed" \notin Occupying
      /\ "cancelled" \notin Occupying /\ "stopped" \notin Occupying
  BY SessionAssumption DEF Held, Pending, Always, Typed, SessionTypeOK, Lists, Occupying,
     EndedByAPerson
\* A run that is there takes the slot with it.
<1>1. ASSUME NEW i \in Runs, Live(i)' PROVE Goal
  BY <1>1
\* Nothing that vouches goes.
<1>2. ASSUME status' = status, request' = request, run' = run, ready' = ready,
             \A o \in inFlight : Vouches(o) => o \in inFlight'
      PROVE  Goal
  BY <1>0, <1>2 DEF Live
<1>3. CASE Admit \/ LeaveQueue
  <2>1. Admit
    BY <1>0, <1>3 DEF LeaveQueue
  <2>2. Scheduled(Monolith)[TRUE] + Scheduled(Monolith)[FALSE] > 0
    BY <1>0, ScheduledIsReady
  <2> QED
    BY <2>1, <2>2 DEF Admit
<1>4. CASE Dispatch
  <2>1. PICK here \in BOOLEAN, i \in Runs :
          run' = [run EXCEPT ![i].phase = "starting", ![i].here = here]
    BY <1>4 DEF Dispatch
  <2>2. run'[i].phase = "starting"
    BY <1>0, <2>1 DEF RunRecords
  <2> QED
    BY <1>1, <2>2 DEF Live
<1>5. ASSUME NEW i \in Runs, WorkOn(i) PROVE Live(i)' \/ Finish(i)
  <2>1. run[i] \in RunRecords /\ (run[i].phase = "waiting" \/ run[i].phase = "expiring"
                                    => run[i].waits \in Requests)
    BY <1>0 DEF Always, Typed, Waits
  <2>2. CASE Begin(i) \/ Execute(i) \/ PollDue(i)
    <3>1. run'[i].phase \in {"gate", "executing", "expiring"}
      BY <1>0, <2>1, <2>2 DEF Begin, Execute, PollDue, RunRecords
    <3> QED
      BY <3>1 DEF Live
  <2>3. CASE Ask(i)
    <3>1. PICK q \in Requests : run' = [run EXCEPT ![i].phase = "waiting", ![i].waits = q]
      BY <2>3 DEF Ask
    <3>2. run'[i].phase = "waiting"
      BY <1>0, <2>1, <3>1 DEF RunRecords
    <3> QED
      BY <3>2 DEF Live
  <2>4. CASE PollAnswered(i) \/ ExpireOwn(i)
    <3>1. PICK answer : run' = [run EXCEPT ![i] = Gated(run[i], answer)]
      BY <2>4 DEF PollAnswered, ExpireOwn
    <3>2. run'[i] = Gated(run[i], answer) /\ run[i].waits \in Requests
      BY <1>0, <2>1, <2>4, <3>1 DEF PollAnswered, ExpireOwn
    <3>3. run'[i].phase = "gate"
      BY <2>1, <3>2, GatedGrants
    <3> QED
      BY <3>3 DEF Live
  <2>5. CASE PollEnded(i)
    BY <2>5 DEF PollEnded, Live
  <2> QED
    BY <1>5, <2>2, <2>3, <2>4, <2>5 DEF WorkOn
<1>6. ASSUME NEW i \in Runs, Finish(i) \/ Fail(i) PROVE FALSE
  BY <1>0, <1>6 DEF Finish, Fail
<1>7. CASE ReadRequest \/ ReadHold \/ ReadSession \/ ReadForce \/ HoldRunsOut
             \/ UNCHANGED svars
  BY <1>2, <1>7 DEF ReadRequest, ReadHold, ReadSession, ReadForce, Arrive, HoldRunsOut, svars
\* A request in flight is carried out.
<1>8. ASSUME NEW o \in inFlight, WriteAnswer(o) PROVE Goal
  <2>0. inFlight' = inFlight \ {o} /\ ~Intercept(o) /\ run' = run /\ ready' = ready
    BY <1>8 DEF WriteAnswer, Done, Intercept
  <2>1. CASE o.of \in Pending
    <3>1. CASE \E i \in Runs : run[i].phase \in {"waiting", "expiring"}
      BY <2>0, <3>1 DEF Live
    <3>2. CASE \E p \in inFlight : Intercept(p) /\ p.asked # {}
      BY <1>0, <2>0, <3>2
    <3> QED
      BY <2>1, <3>1, <3>2 DEF AskedIsAwaited, Intercept
  <2>2. CASE o.of \notin Pending
    <3>1. \A r \in Requests : request[r] = "pending" => request'[r] = "pending"
      <4>1. PICK d \in Decisions : request' = Resolved({o.of}, d)
        BY <1>8 DEF WriteAnswer
      <4>2. d \in Answers
        BY DEF Answers
      <4> QED
        BY <1>0, <2>2, <4>1, <4>2, ResolvedIsFinal DEF Pending
    <3>2. status' = status
      BY <1>8, <2>2 DEF WriteAnswer
    <3> QED
      BY <1>0, <2>0, <3>1, <3>2 DEF Live
  <2> QED
    BY <2>1, <2>2
<1>9. ASSUME NEW o \in inFlight, WriteExpiry(o) \/ WriteStop(o) PROVE FALSE
  BY <1>0, <1>9 DEF WriteExpiry, WriteStop
<1>10. ASSUME NEW o \in inFlight, WriteExtension(o) PROVE Goal
  BY <1>2, <1>10 DEF WriteExtension, Done, Intercept
<1>11. ASSUME NEW o \in inFlight, WriteForce(o) \/ WriteOverride(o)
                                    \/ (WriteTakeover(o) /\ ~Keeps(o))
       PROVE  Goal
  <2>1. \A here \in BOOLEAN : Scheduled(here)[TRUE] + Scheduled(here)[FALSE] > 0
    BY <1>0, ScheduledIsReady
  <2>2. ready' = Scheduled(Monolith) \/ ready' = Scheduled(TRUE)
    BY <1>11 DEF WriteForce, WriteOverride, WriteTakeover
  <2> QED
    BY <1>0, <2>1, <2>2
<1>12. ASSUME NEW o \in inFlight, WriteTakeover(o), Keeps(o) PROVE Goal
  <2>1. /\ status' = status /\ ready' = ready /\ run' = run
        /\ request' = Resolved(o.asked, "expired") /\ o.asked = {}
        /\ inFlight' = inFlight \ {o}
    BY <1>0, <1>12 DEF WriteTakeover, Keeps, Intercept, Done
  <2>2. \A r \in Requests : request[r] = "pending" => request'[r] = "pending"
    <3>1. "expired" \in Answers
      BY DEF Answers
    <3> QED
      BY <1>0, <2>1, <3>1, ResolvedIsFinal
  <2> QED
    BY <1>0, <1>12, <2>1, <2>2 DEF Live
<1>13. ASSUME NEW o \in inFlight, Cut(o) PROVE Goal
  <2> DEFINE rs == IF Keeps(o) THEN {} ELSE Pending
             p == [o EXCEPT !.cut = TRUE, !.asked = rs]
  <2>1. /\ rs \in SUBSET Requests /\ Intercept(o) /\ o \in Operations /\ ~o.cut
        /\ request' = request /\ status' = status /\ ready' = ready
    BY <1>0, <1>13 DEF Cut, Intercept, Pending
  <2>2. inFlight' = (inFlight \ {o}) \cup {p}
    BY <1>13 DEF Cut
  <2>3. CASE Keeps(o)
    <3>1. run' = run
      BY <1>0, <1>13, <2>3 DEF Cut
    <3> QED
      BY <1>2, <2>1, <2>2, <3>1
  <2>4. CASE ~Keeps(o)
    <3> HIDE DEF rs
    <3>1. p.cut /\ Intercept(p) /\ ~Keeps(p)
      BY <2>1, <2>4, CutIsTyped DEF Intercept
    <3> QED
      BY <2>2, <3>1
  <2> QED
    BY <2>3, <2>4
<1>14. ASSUME NEW i \in Runs, WorkOn(i) \/ Fail(i) PROVE Goal
  BY <1>1, <1>5, <1>6, <1>14
<1>15. ASSUME NEW o \in inFlight, Act(o) PROVE Goal
  BY <1>8, <1>9, <1>10, <1>11, <1>12, <1>13, <1>15 DEF Act
<1> QED
  BY <1>3, <1>4, <1>7, <1>14, <1>15 DEF SNext

Unrestarted == Always /\ (restarts = 0 => AskedIsAwaited /\ Held)

\* The inductive invariant of what restarts break.
THEOREM SessionIsHeld == SSpec => []Unrestarted
<1>1. SInit => Unrestarted
  <2> SUFFICES ASSUME SInit PROVE Unrestarted
    OBVIOUS
  <2>1. Always
    BY Starts DEF Always, Granted, SInit, Lists
  <2>2. AskedIsAwaited
    BY DEF SInit, AskedIsAwaited, Pending
  <2>3. status = "active" => ready[TRUE] + ready[FALSE] > 0
    <3>1. ASSUME Monolith = TRUE, status = "active" PROVE ready[TRUE] = 1 /\ ready[FALSE] = 0
      BY <3>1 DEF SInit
    <3>2. ASSUME Monolith = FALSE, status = "active" PROVE ready[TRUE] = 0 /\ ready[FALSE] = 1
      BY <3>2 DEF SInit
    <3>3. Monolith = TRUE \/ Monolith = FALSE
      BY SessionAssumption
    <3>4. ASSUME status = "active"
          PROVE  (ready[TRUE] = 1 /\ ready[FALSE] = 0) \/ (ready[TRUE] = 0 /\ ready[FALSE] = 1)
      BY <3>1, <3>2, <3>3, <3>4
    <3> DEFINE a == ready[TRUE]
               b == ready[FALSE]
    <3> HIDE DEF a, b
    <3>5. status = "active" => a + b > 0
      <4>1. status = "active" => (a = 1 /\ b = 0) \/ (a = 0 /\ b = 1)
        BY <3>4 DEF a, b
      <4> QED
        BY <4>1
    <3> QED
      BY <3>5 DEF a, b
  <2>4. Held
    BY <2>3 DEF Held, SInit, Occupying
  <2> QED
    BY <2>1, <2>2, <2>4 DEF Unrestarted
<1>2. Always /\ Always' /\ Unrestarted /\ [SNext]_svars => Unrestarted'
  <2> SUFFICES ASSUME Always, Always', Unrestarted, [SNext]_svars, restarts' = 0
               PROVE  AskedIsAwaited' /\ Held'
    BY DEF Unrestarted
  <2>1. ~Restart
    <3>1. restarts \in Nat
      BY SessionAssumption DEF Always, Typed, SessionTypeOK
    <3> QED
      BY <3>1 DEF Restart
  <2>2. restarts = 0
    BY <2>1 DEF SNext, svars, Admit, LeaveQueue, Dispatch, ReadRequest, ReadHold, ReadSession,
       ReadForce, Arrive, HoldRunsOut, WorkOn, Fail, Begin, Ask, PollAnswered, PollEnded,
       PollDue, ExpireOwn, Execute, Finish, Act, WriteAnswer, WriteExpiry, WriteExtension,
       WriteForce, Cut, WriteStop, WriteOverride, WriteTakeover
  <2> QED
    BY <2>1, <2>2, AskedStaysAwaited, SlotStaysHeld DEF Unrestarted
<1> QED
  BY <1>1, <1>2, SessionIsTyped, PTL DEF SSpec

\* Until the process restarts, no approval is left to give that nothing waits
\* for, but while the intercept that cut its run is being written.
THEOREM AskedForSomebody == SSpec => [](restarts = 0 => AskedIsAwaited)
<1>1. Unrestarted => (restarts = 0 => AskedIsAwaited)
  BY DEF Unrestarted
<1> QED
  BY <1>1, SessionIsHeld, PTL

\* Until the process restarts, a session that occupies a model slot has a run,
\* a dispatch, a question or an intercept that will give the slot back.
THEOREM SlotsAreHeld == SSpec => [](restarts = 0 => SlotIsHeld)
<1>1. Unrestarted => (restarts = 0 => SlotIsHeld)
  BY DEF Unrestarted, Held, SlotIsHeld, Intercept
<1> QED
  BY <1>1, SessionIsHeld, PTL

=============================================================================
