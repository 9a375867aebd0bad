-------------------------------- MODULE Intake --------------------------------
(***************************************************************************)
(* How alerts become incidents while people combine, reopen and delete     *)
(* those incidents (backend/ingest, the combine and delete routes).        *)
(*                                                                         *)
(* A delivery takes its alert's turn, looks up the alert's incident,       *)
(* decides, and commits everything at once.  A combine request checks the  *)
(* statuses of all its members, then locks and folds them one by one, and  *)
(* commits at the end.  Every alert has an identifier of its own; grouping *)
(* is on.  Drops by a maintenance window leave no trace and are left out.  *)
(***************************************************************************)
EXTENDS Naturals, Sequences, FiniteSets, SequencesExt

CONSTANTS
    MaxInc,       \* bound: incidents created
    Alerts,       \* external_source:external_id
    Services,     \* through whose token an alert comes in
    First,        \* the one the first incidents are of
    P0,           \* the services of priority P0
    Similar,      \* pairs of alerts with similar titles
    FlapMin,      \* FLAP_MIN_TRANSITIONS
    Deliveries,   \* alerts being taken in
    Combines,     \* combine requests
    Budget,       \* bound: deliveries, people's requests, half hours, all of them
    Nobody        \* holder of a lock that is free

Ids == 1 .. MaxInc
Procs == Deliveries \cup Combines

ASSUME IntakeAssumption ==
    /\ MaxInc \in Nat /\ FlapMin \in Nat \ {0}
    /\ P0 \subseteq Services /\ First \in Services
    /\ Nobody \notin Procs /\ Deliveries \cap Combines = {}
    /\ IsFiniteSet(Alerts) /\ Alerts # {} /\ Cardinality(Alerts) <= MaxInc
    /\ Budget \in [taken : Nat, asked : Nat, time : Nat, all : Nat]

VARIABLES
    made,         \* incidents created so far; an id is its order of creation
    inc,          \* the committed incident rows
    flap,         \* AlertFingerprintState of each service and alert
    notices,      \* collision notices sent, per incident and service
    turn,         \* who holds the advisory lock of an alert
    rowLock,      \* who holds an incident's chain row or incident row
    step, job,    \* where each process is, and what it works on
    left,         \* what is left of Budget
    untidy        \* history: combines overlapped, or a merged incident was opened

rows == <<made, inc, flap, notices>>
vars == <<rows, turn, rowLock, step, job, left, untidy>>

Keys == Services \X Alerts
Spend(what) ==
    /\ left[what] > 0 /\ left.all > 0
    /\ left' = [left EXCEPT ![what] = @ - 1, !.all = @ - 1]

Live == {i \in Ids : inc[i].status = "open"}
Kept == {i \in 1 .. made : inc[i].status # "deleted"}

\* A row that nobody else's transaction has written or locked.
Free(i, p) == rowLock[i] \in {Nobody, p}

\* The primary a fold points at keeps its key until the fold commits.
Referenced(i) == \E c \in Combines : step[c] = "fold" /\ job[c].folded # <<>> /\ job[c].into = i

----------------------------------------------------------------------------
(* The incident an alert belongs to.                                       *)

\* i and what it was merged into, directly or not.
Above(i) ==
    {x \in Kept : \A S \in SUBSET Kept :
        (i \in S /\ \A y \in S : inc[y].into \in Kept => inc[y].into \in S) => x \in S}

\* Merge pointers lead from it back to it.
Returns(i) == \E x \in Above(i) : inc[x].into = i

\* The incident that merge pointers lead to from i; of a ring of them, the one
\* that is reached first.
Follow(i) ==
    CHOOSE e \in Above(i) :
        \/ inc[e].into \notin Kept
        \/ Returns(e) /\ (e = i \/ \E x \in Above(i) \ Above(e) : inc[x].into = e)

\* Its newest incident, followed through merges; 0 when there is none.
Lookup(a) ==
    LET own == {i \in Kept : inc[i].alert = a}
    IN  IF own = {} THEN 0
        ELSE Follow(CHOOSE i \in own : \A j \in own : j <= i)

----------------------------------------------------------------------------
(* Noise: a record f is the state of one service and alert.                *)

NoFlap == [quiet |-> FALSE, recent |-> 0, inc |-> 0]

\* A transition recorded on incident i; enough recent ones suppress pages.
Transition(f, i) ==
    LET n == IF f.recent < FlapMin THEN f.recent + 1 ELSE f.recent
    IN  [quiet |-> f.quiet \/ n = FlapMin, recent |-> n, inc |-> i]

Suppressed(f, i) == [f EXCEPT !.recent = IF f.recent < FlapMin THEN @ + 1 ELSE @, !.inc = i]

----------------------------------------------------------------------------
(* A delivery: job[d] is its alert, service and kind, the incident it      *)
(* found and that incident's status then, the incident it is noted on, and *)
(* (history) the incidents closed since it looked.                         *)

Idle == [into |-> 0, of |-> <<>>, folded |-> <<>>]
NewJob(a, s, k, i) ==
    [alert |-> a, service |-> s, kind |-> k, found |-> i,
     was |-> IF i = 0 THEN "none" ELSE inc[i].status,
     owns |-> i # 0 /\ inc[i].alert = a,
     on |-> 0, noted |-> FALSE, told |-> FALSE, closed |-> {}]

Key(d) == <<job[d].service, job[d].alert>>
Flap(d) == flap[Key(d)]

\* An urgent service's alert that fires while its pages are suppressed.
Refires(d) == job[d].kind = "fired" /\ job[d].service \in P0 /\ Flap(d).quiet

\* Mistake: no turn is taken, so two deliveries of one alert overlap.
TakeAtOnce(d, a, s, k) ==
    /\ step[d] \in {"idle", "failed"} /\ Spend("taken")
    /\ job' = [job EXCEPT ![d] = NewJob(a, s, k, Lookup(a))]
    /\ step' = [step EXCEPT ![d] = "found"]
    /\ UNCHANGED <<rows, turn, rowLock, untidy>>

\* The alert's turn, then the lookup.
Take(d, a, s, k) ==
    /\ step[d] \in {"idle", "failed"} /\ turn[a] = Nobody /\ Spend("taken")
    /\ turn' = [turn EXCEPT ![a] = d]
    /\ job' = [job EXCEPT ![d] = NewJob(a, s, k, Lookup(a))]
    /\ step' = [step EXCEPT ![d] = "found"]
    /\ UNCHANGED <<rows, rowLock, untidy>>

Unlock(p) == rowLock' = [i \in Ids |-> IF rowLock[i] = p THEN Nobody ELSE rowLock[i]]

\* The deliveries under way when the incidents of C close.
Noticing(C) ==
    [p \in Procs |-> IF p \in Deliveries /\ step[p] \notin {"idle", "failed"}
                         THEN [job[p] EXCEPT !.closed = @ \cup C] ELSE job[p]]

\* The end of the transaction: it gives back its turn and its row, and has
\* closed the incidents of C.
Ends(d, how, C) ==
    /\ step' = [step EXCEPT ![d] = how]
    /\ job' = [Noticing(C) EXCEPT ![d] = Idle]
    /\ turn' = [a \in Alerts |-> IF turn[a] = d THEN Nobody ELSE turn[a]]
    /\ Unlock(d)
    /\ UNCHANGED left

\* A recovery with nothing to close, or of an alert combined into another
\* incident, which stays open.
ClearsNothing(d) ==
    /\ step[d] = "found" /\ job[d].kind = "cleared"
    /\ job[d].was # "open" \/ ~job[d].owns
    /\ flap' = IF job[d].was = "open" THEN [flap EXCEPT ![Key(d)] = Transition(@, job[d].found)] ELSE flap
    /\ Ends(d, "idle", {})
    /\ UNCHANGED <<made, inc, notices, untidy>>

\* A recovery resolves the incident of its own alert, whatever it is by now.
Clears(d) ==
    LET i == job[d].found IN
    /\ step[d] = "found" /\ job[d].kind = "cleared" /\ job[d].was = "open" /\ job[d].owns
    /\ Free(i, d)
    /\ IF i \in Kept
         THEN /\ inc' = [inc EXCEPT ![i].status = "resolved"]
              /\ flap' = [flap EXCEPT ![Key(d)] = Transition(@, i)]
              /\ untidy' = (untidy \/ inc[i].status = "merged")
              /\ Ends(d, "idle", {i})
         ELSE Ends(d, "failed", {}) /\ UNCHANGED <<inc, flap, untidy>>
    /\ UNCHANGED <<made, notices>>

\* Mistake: an alert whose incident was merged away is taken for heard.
HoldsMerged(was) == was \in {"open", "merged"}

\* The status of an incident that a firing alert is noted on.
Holds(was) == was = "open"

Goes(d, to, on) ==
    /\ step' = [step EXCEPT ![d] = to]
    /\ job' = [job EXCEPT ![d].on = on, ![d].noted = (to \in {"skip", "hush", "collide"} /\ Holds(job[d].was))]
    /\ UNCHANGED <<rows, turn, rowLock, left, untidy>>

\* A firing alert with an open incident: noted on it, in silence while its
\* pages are suppressed, and told to the other service when it is another's.
WeighsOpen(d) ==
    LET i == job[d].found
        hushed == Flap(d).quiet /\ job[d].service \notin P0
    IN
    /\ step[d] = "found" /\ job[d].kind = "fired"
    /\ Holds(job[d].was) /\ ~Refires(d)
    /\ Goes(d, IF hushed THEN "hush"
               ELSE IF inc[i].service # job[d].service THEN "collide" ELSE "skip", i)

\* The open incidents of the service a new alert is grouped into, when they
\* changed in the last minutes.
Matches(d) ==
    {i \in Live : /\ inc[i].service = job[d].service
                  /\ inc[i].alert = job[d].alert \/ <<inc[i].alert, job[d].alert>> \in Similar}

\* A firing alert with none, or one whose urgent service is suppressed.
WeighsClosed(d) ==
    /\ step[d] = "found" /\ job[d].kind = "fired"
    /\ ~Holds(job[d].was) \/ Refires(d)
    /\ IF Refires(d) THEN Goes(d, "create", 0)
       ELSE IF Flap(d).quiet
         THEN IF Flap(d).inc \in Kept THEN Goes(d, "hush", Flap(d).inc) ELSE Goes(d, "create", 0)
       ELSE \/ \E i \in Matches(d) : Goes(d, "group", i)
            \/ Goes(d, "create", 0)

\* Mistake: the row is read without its lock.
CollideUnlocked(d) ==
    LET i == job[d].on IN
    /\ step[d] = "collide" /\ i \in Kept
    /\ step' = [step EXCEPT ![d] = IF inc[i].status = "resolved" THEN "create" ELSE "skip"]
    /\ job' = [job EXCEPT ![d].told = (inc[i].status = "open" /\ notices[i][job[d].service] = 0)]
    /\ UNCHANGED <<rows, turn, rowLock, left, untidy>>

\* The owner's incident is locked and read again.
Collide(d) ==
    LET i == job[d].on IN
    /\ step[d] = "collide" /\ Free(i, d) /\ ~Referenced(i)
    /\ IF i \in Kept
         THEN /\ rowLock' = [rowLock EXCEPT ![i] = d]
              /\ step' = [step EXCEPT ![d] = IF inc[i].status = "resolved" THEN "create" ELSE "skip"]
              /\ job' = [job EXCEPT ![d].told = (inc[i].status = "open" /\ notices[i][job[d].service] = 0)]
              /\ UNCHANGED <<turn, left>>
         ELSE Ends(d, "failed", {})
    /\ UNCHANGED <<rows, untidy>>

\* Noted on an incident, without a page.  The log row needs the incident.
Answers(d) ==
    LET i == job[d].on IN
    /\ step[d] \in {"skip", "hush", "group"}
    /\ step[d] # "skip" => Free(i, d)
    /\ IF i \in Kept
         THEN /\ flap' = IF step[d] = "hush" THEN [flap EXCEPT ![Key(d)] = Suppressed(@, i)]
                         ELSE IF step[d] = "group" \/ job[d].noted
                           THEN [flap EXCEPT ![Key(d)] = Transition(@, i)] ELSE flap
              /\ notices' = IF job[d].told THEN [notices EXCEPT ![i][job[d].service] = @ + 1] ELSE notices
              /\ Ends(d, "idle", {})
         ELSE Ends(d, "failed", {}) /\ UNCHANGED <<flap, notices>>
    /\ UNCHANGED <<made, inc, untidy>>

\* A new incident, paged.
Create(d) ==
    LET i == made + 1
        before == IF job[d].noted THEN Transition(Flap(d), job[d].on) ELSE Flap(d)
    IN
    /\ step[d] = "create" /\ made < MaxInc
    /\ made' = i
    /\ inc' = [inc EXCEPT ![i] = [status |-> "open", alert |-> job[d].alert, service |-> job[d].service,
                                  into |-> 0, plain |-> ~Holds(job[d].was) \/ job[d].noted]]
    /\ flap' = [flap EXCEPT ![Key(d)] = Transition(before, i)]
    /\ Ends(d, "idle", {})
    /\ UNCHANGED <<notices, untidy>>

\* Half an hour passes: pages are no longer suppressed, transitions grow old.
Lapses(k) ==
    /\ Spend("time")
    /\ flap[k].recent > 0
    /\ \E n \in 0 .. flap[k].recent :
          flap' = [flap EXCEPT ![k].quiet = FALSE, ![k].recent = n]
    /\ UNCHANGED <<made, inc, notices, turn, rowLock, step, job, untidy>>

----------------------------------------------------------------------------
(* What people do to incidents.                                            *)

\* Mistake: an incident that is merged already may be the primary.
ChecksMembers(c, p, of) ==
    /\ Spend("asked")
    /\ p \in Kept
    /\ \A i \in Range(of) : i \in Kept \ {p} /\ inc[i].status # "merged"
    /\ step' = [step EXCEPT ![c] = "fold"]
    /\ job' = [job EXCEPT ![c] = [into |-> p, of |-> of, folded |-> <<>>]]
    /\ untidy' = (untidy \/ \E x \in Combines : step[x] = "fold")
    /\ UNCHANGED <<rows, turn, rowLock>>

\* A combine checks its members, and reads them only this once.
Checks(c, p, of) ==
    /\ Spend("asked")
    /\ p \in Kept /\ inc[p].status # "merged"
    /\ \A i \in Range(of) : i \in Kept \ {p} /\ inc[i].status # "merged"
    /\ step' = [step EXCEPT ![c] = "fold"]
    /\ job' = [job EXCEPT ![c] = [into |-> p, of |-> of, folded |-> <<>>]]
    /\ untidy' = (untidy \/ \E x \in Combines : step[x] = "fold")
    /\ UNCHANGED <<rows, turn, rowLock>>

\* The next member, behind its chain row's lock.
Fold(c) ==
    /\ step[c] = "fold" /\ job[c].of # <<>>
    /\ job[c].into \in Kept
    /\ Free(Head(job[c].of), c)
    /\ rowLock' = [rowLock EXCEPT ![Head(job[c].of)] = c]
    /\ job' = [job EXCEPT ![c].of = Tail(@), ![c].folded = Append(@, Head(job[c].of))]
    /\ UNCHANGED <<rows, turn, step, left, untidy>>

CommitsCombine(c) ==
    LET F == {i \in Range(job[c].folded) : i \in Kept} IN
    /\ step[c] = "fold" /\ job[c].of = <<>>
    /\ inc' = [i \in Ids |-> IF i \in F THEN [inc[i] EXCEPT !.status = "merged", !.into = job[c].into] ELSE inc[i]]
    /\ step' = [step EXCEPT ![c] = "idle"]
    /\ job' = [Noticing(F) EXCEPT ![c] = Idle]
    /\ Unlock(c)
    /\ UNCHANGED <<made, flap, notices, turn, left, untidy>>

\* Two combines that wait for each other's rows, or a primary deleted before
\* its first member: the database fails the request.
Blocks(p, c) == job[c].of # <<>> /\ rowLock[Head(job[c].of)] = p
Fails(c) ==
    /\ step[c] = "fold" /\ job[c].of # <<>>
    /\ job[c].into \notin Kept \/ \E x \in Combines \ {c} : step[x] = "fold" /\ Blocks(x, c) /\ Blocks(c, x)
    /\ step' = [step EXCEPT ![c] = "idle"]
    /\ job' = [job EXCEPT ![c] = Idle]
    /\ Unlock(c)
    /\ UNCHANGED <<rows, turn, left, untidy>>

\* PATCH writes any status over any other, and leaves the merge pointer.
Patch(i, to) ==
    /\ i \in Kept /\ Free(i, Nobody) /\ inc[i].status # to /\ Spend("asked")
    /\ inc' = [inc EXCEPT ![i].status = to, ![i].plain = @ /\ to # "open"]
    /\ job' = Noticing(IF to = "open" THEN {} ELSE {i})
    /\ untidy' = (untidy \/ inc[i].into # 0)
    /\ UNCHANGED <<made, flap, notices, turn, rowLock, step>>

\* i and what was merged into it, directly or not.
Tree(i) == {x \in Kept : i \in Above(x)}

\* An incident is deleted with everything combined into it.
Delete(i) ==
    LET T == Tree(i) IN
    /\ i \in Kept /\ Spend("asked")
    /\ \A t \in T : Free(t, Nobody) /\ ~Referenced(t)
    /\ inc' = [t \in Ids |-> IF t \in T THEN [inc[t] EXCEPT !.status = "deleted", !.into = 0] ELSE inc[t]]
    /\ UNCHANGED <<made, flap, notices, turn, rowLock, step, job, untidy>>

----------------------------------------------------------------------------
NoInc == [status |-> "none", alert |-> CHOOSE a \in Alerts : TRUE, service |-> First,
          into |-> 0, plain |-> TRUE]

\* Every alert has an incident of the service it came through first; some
\* are open.
Init ==
    /\ made = Cardinality(Alerts)
    /\ \E open \in SUBSET Alerts, order \in {SetToSeq(Alerts)} :
         inc = [i \in Ids |-> IF i > made THEN NoInc
                    ELSE [NoInc EXCEPT !.status = IF order[i] \in open THEN "open" ELSE "resolved",
                                       !.alert = order[i]]]
    /\ flap = [k \in Keys |-> NoFlap]
    /\ notices = [i \in Ids |-> [s \in Services |-> 0]]
    /\ turn = [a \in Alerts |-> Nobody]
    /\ rowLock = [i \in Ids |-> Nobody]
    /\ step = [p \in Procs |-> "idle"]
    /\ job = [p \in Procs |-> Idle]
    /\ left = Budget
    /\ untidy = FALSE

Deliver(d) ==
    \/ \E a \in Alerts, s \in Services, k \in {"fired", "cleared"} : Take(d, a, s, k)
    \/ ClearsNothing(d) \/ Clears(d)
    \/ WeighsOpen(d) \/ WeighsClosed(d)
    \/ Collide(d) \/ Answers(d) \/ Create(d)

Members == {<<i>> : i \in Ids} \cup {of \in Ids \X Ids : of[1] # of[2]}

Combine(c) ==
    \/ step[c] = "idle" /\ \E p \in Kept, of \in Members : Checks(c, p, of)
    \/ Fold(c) \/ CommitsCombine(c) \/ Fails(c)

Next ==
    \/ \E d \in Deliveries : Deliver(d)
    \/ \E c \in Combines : Combine(c)
    \/ \E i \in Ids, to \in {"open", "resolved"} : Patch(i, to)
    \/ \E i \in Ids : Delete(i)
    \/ \E k \in Keys : Lapses(k)

Spec == Init /\ [][Next]_vars

----------------------------------------------------------------------------
(* Properties.                                                             *)

\* An alert has one open incident at a time (ingest.service, take_turns):
\* deliveries of it that overlap, through any service, never open two.  Of
\* what is modelled, only a reopened incident, or the second one an urgent
\* service's alert gets while suppressed, breaks the rule for its alert; an
\* incident opened by POST /incidents under the alert's external_id, or by the
\* SLA poller, takes no turn and is outside this module.
OneOpenPerAlert ==
    \A i, j \in Live :
       (/\ i # j /\ inc[i].alert = inc[j].alert
        /\ \A n \in 1 .. made : inc[n].alert = inc[i].alert => inc[n].plain) => FALSE

\* A delivery of a firing alert that is not suppressed leaves the alert with
\* an open incident, its own, the one it is combined into or the one it is
\* grouped into, unless somebody closed that since the lookup
\* (get_by_external_fingerprint), whatever merges, cycles and deletions there
\* were before.
FiringIsAnswered ==
    [][\A d \in Deliveries, a \in Alerts :
          (/\ step[d] \in {"skip", "group", "create"} /\ step'[d] = "idle"
           /\ job[d].alert = a) =>
             \E i \in Ids : /\ i = IF step[d] = "create" THEN Lookup(a)' ELSE job[d].on
                            /\ inc'[i].status = "open" \/ i \in job[d].closed]_vars

\* Incidents point at each other in a ring only after two combines
\* overlapped or a merged incident's status was written over
\* (combine_incidents).
RingsAreUntidy ==
    untidy \/ \A i \in Kept : inc[i].into # 0 => Follow(i) # i

\* People of the service that lost an alert to another's incident are told
\* once (record_collision), also when different alerts are folded into it.
ToldOnce == \A i \in Ids, s \in Services : notices[i][s] <= 1

=============================================================================
