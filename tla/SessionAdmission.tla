--------------------------- MODULE SessionAdmission ---------------------------
(***************************************************************************)
(* Which AI sessions run on which saved model: admission, the queue and    *)
(* its drains (backend/services/session_orchestration,                     *)
(* backend/llm/selection).                                                 *)
(*                                                                         *)
(* An admission and a drain each lock the workspace's model rows, count    *)
(* the sessions on each, and write under that lock.  A drain goes through  *)
(* the list it read at its start, one transaction per session, with the    *)
(* session's row locked.  Forced starts, acknowledgements, the end of a    *)
(* session, its return and its switch to another model take no model lock. *)
(***************************************************************************)
EXTENDS Naturals, FiniteSets

CONSTANTS
    MaxSessions,   \* bound: sessions created
    MaxExtra,      \* bound: sessions forced, switched or come back
    MaxLate,       \* bound: sessions that wait too long
    MaxHandled,    \* bound: incidents acknowledged or closed
    Incidents,
    NoIncident,
    Urgent,        \* the incidents of the higher priority
    Models,
    NoModel,
    Wants,         \* what a request may run on: sets of models, by preferences
    Cap,           \* max_concurrent_sessions of every model
    Clients,       \* requests that start sessions
    Drains,        \* the scheduler's drain and those scheduled by an event
    Nobody         \* holder of a lock that is free

Sessions == 1 .. MaxSessions
Procs == Clients \cup Drains

ASSUME AdmissionAssumption ==
    /\ MaxSessions \in Nat /\ MaxExtra \in Nat /\ MaxLate \in Nat /\ MaxHandled \in Nat
    /\ Cap \in Nat \ {0}
    /\ Urgent \subseteq Incidents /\ Wants \subseteq SUBSET Models
    /\ NoModel \notin Models /\ NoIncident \notin Incidents /\ Nobody \notin Procs
    /\ Clients \cap Drains = {}

VARIABLES
    created,       \* how many sessions there are; a session's id is its turn
    status, incident, wants, on,             \* their rows
    extra,         \* those that took a slot nobody counted: an operator forced
                   \* or switched them onto the model, or they came back
    late,          \* sessions past queue_expires_at
    acked, closed, \* incidents acknowledged by somebody, and closed
    acking,        \* incidents whose first acknowledgement is not committed,
                   \* and has looked for waiting sessions
    found,         \* the sessions these found
    overtaken,     \* those that a drain held at the commit of an
                   \* acknowledgement that had not found them
    modelLock, rowLock,                      \* who holds the model rows, a session's row
    step,          \* where each process is
    pick,          \* the model it chose under the lock
    aim,           \* the session it works on
    request,       \* what a client asked for, and what it read then
    list           \* what a drain has left of what it read: [sessions, late]

sessions == <<created, status, incident, wants, on, extra, late>>
incidents == <<acked, closed, acking, found, overtaken>>
processes == <<step, pick, aim, request, list>>
vars == <<sessions, incidents, modelLock, rowLock, processes>>

Exists == 1 .. created
Queued == {s \in Exists : status[s] = "queued"}
Running == {s \in Exists : status[s] = "active"}
Nonterminal(i) == {s \in Queued \cup Running : incident[s] = i}

\* Running sessions of model m, and those a slot was counted for.
Occupancy(m) == {s \in Running : on[s] = m}
Regular(m) == {s \in Running : on[s] = m /\ s \notin extra}

\* The models of W with a free slot.
Room(W) == {m \in W : Cardinality(Occupancy(m)) < Cap}

NoRequest == [incident |-> NoIncident, wants |-> {}, force |-> FALSE, handled |-> FALSE]
NoList == [sessions |-> {}, late |-> {}]

STypeOK ==
    /\ created \in 0 .. MaxSessions
    /\ status \in [Sessions -> {"none", "queued", "active", "ended"}]
    /\ \A s \in Sessions : status[s] = "none" <=> s > created
    /\ wants \in [Sessions -> SUBSET Models]
    /\ incident \in [Sessions -> Incidents \cup {NoIncident}]
    /\ on \in [Sessions -> Models \cup {NoModel}]
    /\ extra \subseteq Exists
    /\ acked \subseteq Incidents /\ closed \subseteq Incidents
    /\ acking \subseteq Incidents /\ found \subseteq Exists /\ overtaken \subseteq Exists
    /\ modelLock \in Procs \cup {Nobody}
    /\ rowLock \in [Sessions -> Drains \cup {Nobody}]
    /\ step \in [Procs -> {"idle", "count", "write", "force", "next"}]
    /\ pick \in [Procs -> Models \cup {NoModel}]
    /\ aim \in [Procs -> Nat]
    /\ request \in [Clients -> [incident : Incidents \cup {NoIncident}, wants : SUBSET Models,
                                force : BOOLEAN, handled : BOOLEAN]]

-----------------------------------------------------------------------------
(* A request: start a session, or force one that waits.                    *)

\* It reads the incident and its session first, without a lock.
Ask(c, i, W, force) ==
    /\ step[c] = "idle"
    /\ force => Cardinality(extra) < MaxExtra
    /\ request' = [request EXCEPT ![c] = [incident |-> i, wants |-> W, force |-> force,
                                          handled |-> i \in acked \cup closed]]
    /\ \/ /\ Nonterminal(i) = {}
          /\ created + Cardinality({b \in Clients : step[b] \in {"count", "write"}}) < MaxSessions
          /\ step' = [step EXCEPT ![c] = "count"]
          /\ UNCHANGED aim
       \/ /\ force
          /\ \E s \in Nonterminal(i) \cap Queued :
               /\ aim' = [aim EXCEPT ![c] = s]
               /\ step' = [step EXCEPT ![c] = "force"]
    /\ UNCHANGED <<sessions, incidents, modelLock, rowLock, pick, list>>

\* Mistake: the model rows are read without locking them.
CountUnlocked(c) ==
    /\ step[c] = "count"
    /\ \/ /\ Room(request[c].wants) = {}
          /\ pick' = [pick EXCEPT ![c] = NoModel]
       \/ \E m \in Room(request[c].wants) : pick' = [pick EXCEPT ![c] = m]
    /\ step' = [step EXCEPT ![c] = "write"]
    /\ UNCHANGED <<sessions, incidents, modelLock, rowLock, aim, request, list>>

\* choose_model_for_incident_service: locks, counts, and keeps the lock.
Count(c) ==
    /\ step[c] = "count"
    /\ modelLock = Nobody
    /\ modelLock' = c
    /\ \/ /\ Room(request[c].wants) = {}
          /\ pick' = [pick EXCEPT ![c] = NoModel]
       \/ \E m \in Room(request[c].wants) : pick' = [pick EXCEPT ![c] = m]
    /\ step' = [step EXCEPT ![c] = "write"]
    /\ UNCHANGED <<sessions, incidents, rowLock, aim, request, list>>

\* A new session's row.
Insert(c, st, m, isForced) ==
    LET s == created + 1
    IN  /\ s \in Sessions
        /\ created' = s
        /\ status' = [status EXCEPT ![s] = st]
        /\ incident' = [incident EXCEPT ![s] = request[c].incident]
        /\ wants' = [wants EXCEPT ![s] = request[c].wants]
        /\ on' = [on EXCEPT ![s] = m]
        /\ extra' = IF isForced THEN extra \cup {s} ELSE extra
        /\ UNCHANGED late

\* It is admitted, forced, queued, or refused for an incident that is handled.
Write(c) ==
    /\ step[c] = "write"
    /\ \/ pick[c] # NoModel /\ Insert(c, "active", pick[c], FALSE)
       \/ /\ pick[c] = NoModel /\ request[c].force
          /\ \E m \in request[c].wants : Insert(c, "active", m, TRUE)
       \/ /\ pick[c] = NoModel /\ ~request[c].force /\ ~request[c].handled
          /\ Insert(c, "queued", NoModel, FALSE)
       \/ /\ pick[c] = NoModel /\ ~request[c].force /\ request[c].handled
          /\ UNCHANGED sessions
    /\ step' = [step EXCEPT ![c] = "idle"]
    /\ pick' = [pick EXCEPT ![c] = NoModel]
    /\ request' = [request EXCEPT ![c] = NoRequest]
    /\ modelLock' = Nobody
    /\ UNCHANGED <<incidents, rowLock, aim, list>>

\* A waiting session is put on a model, whatever became of it since.
ForceQueued(c) ==
    /\ step[c] = "force"
    /\ rowLock[aim[c]] = Nobody
    /\ \E m \in Models : on' = [on EXCEPT ![aim[c]] = m]
    /\ status' = [status EXCEPT ![aim[c]] = "active"]
    /\ extra' = extra \cup {aim[c]}
    /\ step' = [step EXCEPT ![c] = "idle"]
    /\ aim' = [aim EXCEPT ![c] = 1]
    /\ request' = [request EXCEPT ![c] = NoRequest]
    /\ UNCHANGED <<created, incident, wants, late, incidents, modelLock, rowLock,
                   pick, list>>

-----------------------------------------------------------------------------
(* The drain.                                                              *)

Before(s, t) ==
    \/ incident[s] \in Urgent /\ incident[t] \notin Urgent
    \/ (incident[s] \in Urgent <=> incident[t] \in Urgent) /\ s < t

\* It lists the queue, and takes the time.
DrainLists(d) ==
    /\ step[d] = "idle"
    /\ step' = [step EXCEPT ![d] = "next"]
    /\ list' = [list EXCEPT ![d] = [sessions |-> Queued, late |-> late \cap Queued]]
    /\ UNCHANGED <<sessions, incidents, modelLock, rowLock, pick, aim, request>>

DrainEnds(d) ==
    /\ step[d] = "next" /\ list[d].sessions = {}
    /\ step' = [step EXCEPT ![d] = "idle"]
    /\ list' = [list EXCEPT ![d] = NoList]
    /\ UNCHANGED <<sessions, incidents, modelLock, rowLock, pick, aim, request>>

\* The next session of its list, once the row is free.
Turn(d, s) ==
    /\ step[d] = "next"
    /\ s \in list[d].sessions
    /\ \A t \in list[d].sessions \ {s} : Before(s, t)
    /\ rowLock[s] = Nobody
    /\ list' = [list EXCEPT ![d].sessions = @ \ {s}]

\* Mistake: whether its incident was handled is not looked at again.
DropsLate(d, s) == s \in list[d].late

\* It waited too long, or its incident was handled meanwhile.
Drops(d, s) == s \in list[d].late \/ incident[s] \in acked \cup closed

DrainDrops(d, s) ==
    /\ Turn(d, s)
    /\ s \in Queued /\ Drops(d, s)
    /\ status' = [status EXCEPT ![s] = "ended"]
    /\ UNCHANGED <<created, incident, wants, on, extra, late, incidents,
                   modelLock, rowLock, step, pick, aim, request>>

DrainPasses(d, s) ==
    /\ Turn(d, s)
    /\ s \notin Queued
    /\ UNCHANGED <<sessions, incidents, modelLock, rowLock, step, pick, aim, request>>

DrainTakes(d, s) ==
    /\ Turn(d, s)
    /\ s \in Queued /\ ~Drops(d, s)
    /\ rowLock' = [rowLock EXCEPT ![s] = d]
    /\ aim' = [aim EXCEPT ![d] = s]
    /\ step' = [step EXCEPT ![d] = "count"]
    /\ UNCHANGED <<sessions, incidents, modelLock, pick, request>>

\* No room: it goes on to the next one and gives its locks back.
DrainCounts(d) ==
    /\ step[d] = "count"
    /\ modelLock = Nobody
    /\ \/ /\ Room(wants[aim[d]]) = {}
          /\ step' = [step EXCEPT ![d] = "next"]
          /\ rowLock' = [rowLock EXCEPT ![aim[d]] = Nobody]
          /\ aim' = [aim EXCEPT ![d] = 1]
          /\ UNCHANGED <<modelLock, pick>>
       \/ /\ \E m \in Room(wants[aim[d]]) : pick' = [pick EXCEPT ![d] = m]
          /\ step' = [step EXCEPT ![d] = "write"]
          /\ modelLock' = d
          /\ UNCHANGED <<rowLock, aim>>
    /\ UNCHANGED <<sessions, incidents, request, list>>

DrainAdmits(d) ==
    /\ step[d] = "write"
    /\ status' = [status EXCEPT ![aim[d]] = "active"]
    /\ on' = [on EXCEPT ![aim[d]] = pick[d]]
    /\ step' = [step EXCEPT ![d] = "next"]
    /\ modelLock' = Nobody
    /\ rowLock' = [rowLock EXCEPT ![aim[d]] = Nobody]
    /\ pick' = [pick EXCEPT ![d] = NoModel]
    /\ aim' = [aim EXCEPT ![d] = 1]
    /\ UNCHANGED <<created, incident, wants, extra, late, incidents, request, list>>

-----------------------------------------------------------------------------
(* Around them.                                                            *)

\* Mistake: sessions whose row a drain holds are not waited for.
CancelledUnwaited(S) ==
    status' = [s \in Sessions |-> IF s \in S THEN "ended" ELSE status[s]]

\* Waiting sessions end: the update waits for rows that a drain holds.
Cancelled(S) ==
    /\ \A s \in S : rowLock[s] = Nobody
    /\ status' = [s \in Sessions |-> IF s \in S THEN "ended" ELSE status[s]]

Waiting(i) == {s \in Queued : incident[s] = i}

\* The bound on the incidents handled leaves one for i.
Handling(i) == Cardinality(acked \cup closed \cup acking \cup {i}) <= MaxHandled

\* IncidentAssignmentRepo.assign holds the incident's row and reads which
\* sessions wait for it, without a lock.  A later owner's assignment, of an
\* incident acknowledged already, cancels as CancelQueued does.
AcknowledgeLooks(i) ==
    /\ i \notin acked \cup closed \cup acking
    /\ Handling(i)
    /\ acking' = acking \cup {i}
    /\ found' = found \cup Waiting(i)
    /\ UNCHANGED <<sessions, acked, closed, overtaken, modelLock, rowLock, processes>>

\* If it found any it cancels them, and those that its update sees besides;
\* then it commits.
Acknowledge(i) ==
    /\ i \in acking
    /\ \E S \in SUBSET Waiting(i) :
         /\ Waiting(i) \cap found \subseteq S
         /\ S # {} => \E s \in found : incident[s] = i
         /\ Cancelled(S)
    /\ acking' = acking \ {i} /\ acked' = acked \cup {i}
    /\ found' = {s \in found : incident[s] # i}
    /\ overtaken' = overtaken \cup ({s \in Waiting(i) : rowLock[s] # Nobody} \ found)
    /\ UNCHANGED <<created, incident, wants, on, extra, late, closed,
                   modelLock, rowLock, processes>>

\* A status change closes it, once its row is free, and leaves the queue to
\* the drain.
Close(i) ==
    /\ i \notin closed \cup acking
    /\ Handling(i)
    /\ closed' = closed \cup {i}
    /\ UNCHANGED <<sessions, acked, acking, found, overtaken, modelLock, rowLock, processes>>

\* Somebody cancels one waiting session, or an admin all of them.
CancelQueued ==
    /\ \E S \in {{s} : s \in Queued} \cup {Queued} : S # {} /\ Cancelled(S)
    /\ UNCHANGED <<created, incident, wants, on, extra, late, incidents,
                   modelLock, rowLock, processes>>

\* A running session ends, in any way.
End(s) ==
    /\ s \in Running
    /\ status' = [status EXCEPT ![s] = "ended"]
    /\ UNCHANGED <<created, incident, wants, on, extra, late, incidents,
                   modelLock, rowLock, processes>>

\* One that ran is written back to a status that holds a slot, with no count:
\* timed out, by its run's next request for approval (_set_session_status);
\* with a request still pending, by the answer (decide); and in any case by an
\* override that read it running (override_session).
Returns(s) ==
    /\ status[s] = "ended" /\ on[s] # NoModel
    /\ Cardinality(extra \cup {s}) <= MaxExtra
    /\ status' = [status EXCEPT ![s] = "active"]
    /\ extra' = extra \cup {s}
    /\ UNCHANGED <<created, incident, wants, on, late, incidents,
                   modelLock, rowLock, processes>>

\* switch_session_model: no room is asked for.  (The row's model of a session
\* that does not run tells nothing until it is admitted or returns.)
SwitchModel(s, m) ==
    /\ s \in Running /\ m # on[s]
    /\ Cardinality(extra \cup {s}) <= MaxExtra
    /\ on' = [on EXCEPT ![s] = m]
    /\ extra' = extra \cup {s}
    /\ UNCHANGED <<created, status, incident, wants, late, incidents,
                   modelLock, rowLock, processes>>

Elapse(s) ==
    /\ s \in Queued \ late
    /\ Cardinality(late) < MaxLate
    /\ late' = late \cup {s}
    /\ UNCHANGED <<created, status, incident, wants, on, extra, incidents,
                   modelLock, rowLock, processes>>

Init ==
    /\ created = 0
    /\ status = [s \in Sessions |-> "none"]
    /\ incident = [s \in Sessions |-> NoIncident]
    /\ wants = [s \in Sessions |-> {}]
    /\ on = [s \in Sessions |-> NoModel]
    /\ extra = {} /\ late = {}
    /\ acked = {} /\ closed = {} /\ acking = {} /\ found = {}
    /\ overtaken = {}
    /\ modelLock = Nobody
    /\ rowLock = [s \in Sessions |-> Nobody]
    /\ step = [p \in Procs |-> "idle"]
    /\ pick = [p \in Procs |-> NoModel]
    /\ aim = [p \in Procs |-> 1]
    /\ request = [c \in Clients |-> NoRequest]
    /\ list = [d \in Drains |-> NoList]

Finish(c) == Count(c) \/ Write(c) \/ ForceQueued(c)

Drain(d) ==
    \/ DrainLists(d) \/ DrainEnds(d) \/ DrainCounts(d) \/ DrainAdmits(d)
    \/ \E s \in Sessions : DrainDrops(d, s) \/ DrainPasses(d, s) \/ DrainTakes(d, s)

Next ==
    \/ \E c \in Clients :
         \/ \E i \in Incidents, W \in Wants, force \in BOOLEAN :
              Ask(c, i, W, force)
         \/ Finish(c)
    \/ \E d \in Drains : Drain(d)
    \/ \E i \in Incidents : AcknowledgeLooks(i) \/ Acknowledge(i) \/ Close(i)
    \/ CancelQueued
    \/ \E s \in Sessions : End(s) \/ Returns(s) \/ Elapse(s)
    \/ \E s \in Sessions, m \in Models : SwitchModel(s, m)

Spec == Init /\ [][Next]_vars

-----------------------------------------------------------------------------
(* Properties.                                                             *)

\* However admissions, drains, forced starts, returns and switches overlap, no
\* model carries more of the sessions that took a counted slot than its limit.
\* (docs/wiki/admin-guide.md:91 calls it the concurrent-session capacity, and
\* operator-guide.md:64 a forced start a soft override of it.)
WithinCap == \A m \in Models : Cardinality(Regular(m)) <= Cap

\* A session that ended while it waited never runs, unless an operator forces
\* it who saw it waiting: no drain that listed it before starts it, nor does
\* one that holds it while a cancellation waits.
EndsInQueue ==
    [][\A s \in Sessions :
         status[s] = "ended" /\ on[s] = NoModel /\ status'[s] # "ended"
           => \E c \in Clients : step[c] = "force" /\ aim[c] = s]_vars

\* Nothing starts from the queue for an incident whose acknowledgement has
\* committed, unless it is forced, or a drain held it at the commit and it was
\* queued after the acknowledgement had looked: what it found, it cancels, and
\* what it did not find, the drains drop.
StartsUnacknowledged ==
    [][\A s \in Exists \ overtaken :
         status[s] # "active" /\ status'[s] = "active" /\ s \notin extra'
           => incident[s] \notin acked]_vars

\* The allocators are ModelSlots.
S == INSTANCE ModelSlots
       WITH regular <- [m \in Models |-> Regular(m)],
            extra <- [m \in Models |-> Occupancy(m) \cap extra]
ImplementsModelSlots == S!Spec

=============================================================================
