--------------------------- MODULE IncidentRequests ---------------------------
(***************************************************************************)
(* The routes of backend/api/routes/incidents.py around EscalationChain.   *)
(* A route first reads the incident and its owner without a lock, decides  *)
(* on them who may do what, and only then waits for the chain row; what it *)
(* read may be out of date when it acts.  SQLAlchemy keeps what a session  *)
(* has read: a plain get_by_id after the wait still returns the old status.*)
(*                                                                         *)
(* Operations of EscalationChain that check under the lock keep their one  *)
(* action, or two where they find no chain row.  The definition is not     *)
(* edited, and a chain always matches an incident that is paged again.     *)
(***************************************************************************)
EXTENDS EscalationChain

CONSTANTS
    Traffic,      \* each member: the routes used in a behaviour
    MaxInFlight   \* bound: requests between their read and their write, late or not

ASSUME RequestsAssumption ==
    /\ Traffic \subseteq SUBSET {"release", "assign", "patch", "move", "combine"}
    /\ MaxInFlight \in Nat

VARIABLES
    kinds,      \* the member of Traffic in this behaviour
    inFlight    \* what each request between its read and its write has read

rvars == <<incident, mode, owner, levels, chain, late, kinds, inFlight>>

Requests ==
    [kind : {"release"}, user : Users, admin : BOOLEAN, closed : BOOLEAN]
      \cup [kind : {"assign"}, user : Users, seen : Users \cup {NoUser}]
      \cup [kind : {"patch", "move"}, user : Users, to : {"open", "resolved", "same"},
            seen : {"open", "resolved", "merged"}]
      \cup [kind : {"combine"}, seen : Users \cup {NoUser}]

-----------------------------------------------------------------------------
(* What a route reads and checks before it takes the lock.                 *)

Arrive(r) ==
    /\ r.kind \in kinds
    /\ Cardinality(inFlight) + Cardinality(late) < MaxInFlight
    /\ inFlight' = inFlight \cup {r}
    /\ UNCHANGED <<vars, kinds>>

\* release_incident: "Only the owner or an admin can release this incident."
ReadRelease(u, admin) ==
    /\ admin \/ owner \in {NoUser, u}
    /\ Arrive([kind |-> "release", user |-> u, admin |-> admin, closed |-> Closed])

\* assign_incident, of u by somebody else: expected_owner_id is today's owner.
ReadAssign(u) ==
    /\ incident = "open"
    /\ Arrive([kind |-> "assign", user |-> u, seen |-> owner])

\* update_incident, with a service change (move) or without.
ReadPatch(u, kind, to) ==
    Arrive([kind |-> kind, user |-> u, to |-> to, seen |-> incident])

\* combine_incidents: it also releases the owner before it waits.
ReadCombine ==
    /\ incident # "merged"
    /\ Arrive([kind |-> "combine", seen |-> owner])

-----------------------------------------------------------------------------
(* What it does under the lock.                                            *)

Answer(r) ==
    /\ r \in inFlight
    /\ inFlight' = inFlight \ {r}
    /\ UNCHANGED kinds
Refuse == UNCHANGED vars

\* release_ownership, of whoever owns the incident now.  It asks the incident
\* the route read whether there is anything to resume.
ActRelease(r) ==
    /\ r.kind = "release" /\ Answer(r)
    /\ \/ FindsNoRow(LateRelease)
       \/ /\ chain.status # "none"
          /\ IF owner = NoUser THEN Refuse ELSE ReleaseAs(r.closed) /\ UNCHANGED late

\* acknowledge with replace_owner: the outcomes closed and owner_changed
\* write nothing.
ActAssign(r) ==
    /\ r.kind = "assign" /\ Answer(r)
    /\ \/ FindsNoRow(LateAssign(r.user, {r.seen}))
       \/ /\ chain.status # "none"
          /\ IF Closed \/ owner # r.seen
             THEN Refuse
             ELSE Assign(r.user) /\ UNCHANGED late

\* updated.status, as the route's session still has it.
Updated(r) == IF r.to = "same" THEN r.seen ELSE r.to
SetStatus(r) == incident' = IF r.to = "same" THEN incident ELSE r.to

\* Mistake: whoever owned the incident before still does.
PageOverOwner ==
    /\ IF Pages THEN RestartOn(levels) ELSE UNCHANGED <<levels, chain>>
    /\ UNCHANGED owner

\* page_reopened_incident and the re-routing of a service change.
PageAgain ==
    /\ owner' = NoUser
    /\ IF Pages THEN RestartOn(levels) ELSE UNCHANGED <<levels, chain>>

\* record_assignee_activity by u.
Extended(u) ==
    IF chain.status = "acked" /\ owner = u
    THEN LET s == [chain EXCEPT !.idle = 0] IN [s EXCEPT !.due = LockDue(s)]
    ELSE chain

ActPatch(r) ==
    /\ r.kind \in {"patch", "move"} /\ Answer(r)
    /\ SetStatus(r)
    /\ LET routed == r.kind = "move" \/ r.seen = "resolved"
       IN  IF Updated(r) = "open" /\ routed
           THEN PageAgain
           ELSE /\ chain' = IF r.to = "resolved" THEN Cancelled(chain)
                            ELSE IF r.kind = "patch" THEN Extended(r.user) ELSE chain
                /\ UNCHANGED <<owner, levels>>
    /\ UNCHANGED <<mode, late>>

\* combine_into.  An owner it released holds off anyone who would replace
\* them until it commits, or one of the two is rolled back.
ActCombine(r) ==
    /\ r.kind = "combine" /\ Answer(r)
    /\ IF r.seen \notin {NoUser, owner}
       THEN Refuse
       ELSE /\ incident' = "merged"
            /\ owner' = IF r.seen = owner THEN NoUser ELSE owner
            /\ chain' = Cancelled(chain)
            /\ UNCHANGED <<mode, levels, late>>

-----------------------------------------------------------------------------
RInit ==
    /\ Init
    /\ levels = 0 .. MaxLevel
    /\ kinds \in Traffic
    /\ inFlight = {}

Read ==
    \/ \E u \in Users :
         \/ \E admin \in BOOLEAN : ReadRelease(u, admin)
         \/ ReadAssign(u)
         \/ \E kind \in {"patch", "move"}, to \in {"open", "resolved", "same"} :
              ReadPatch(u, kind, to)
    \/ ReadCombine

Act == \E r \in inFlight : ActRelease(r) \/ ActAssign(r) \/ ActPatch(r) \/ ActCombine(r)

\* The operations that decide under the lock.
Locked ==
    \/ \E u \in Users : Acknowledge(u) \/ ForceTakeover(u) \/ RequestTakeover(u)
    \/ ConfirmExpired \/ ConfirmTakeover \/ RecordActivity
    \/ \E d \in 1 .. MaxSnooze, byOwner \in BOOLEAN : Snooze(d, byOwner)
    \/ EscalateNow
    \/ Resolve

\* What found no chain row goes on, a plain acknowledgement among it.
Waiting ==
    \/ /\ Cardinality(inFlight) + Cardinality(late) < MaxInFlight
       /\ \E u \in Users : FindsNoRow(LateTake(u))
    \/ \E o \in late : ActsLate(o)

RNext ==
    \/ Read \/ Act
    \/ Waiting /\ UNCHANGED <<kinds, inFlight>>
    \/ (Locked \/ Tick \/ Elapse) /\ UNCHANGED <<late, kinds, inFlight>>

RSpec == RInit /\ [][RNext]_rvars

\* Time passes and the scheduler runs; nothing is assumed of requests.
FairRSpec ==
    /\ RSpec
    /\ WF_rvars(Elapse /\ UNCHANGED <<late, kinds, inFlight>>)
    /\ WF_rvars(Tick /\ UNCHANGED <<late, kinds, inFlight>>)

-----------------------------------------------------------------------------
(* What holds however stale the reads are.                                 *)

\* Releases, assignments, status changes and combinations, however stale what
\* they read, start no run on a closed incident and leave none there; only a
\* service move may (ClosedSettles).
ClosedUnlessMoved == "move" \notin kinds => ClosedIsQuiet

\* Two stale reads, and no others, part ownership and the lock of a live chain:
\* an operation that found no chain row, and a release whose route read the
\* incident as closed before it was reopened and acknowledged.  A release or an
\* assignment shown another owner, a status change, a move, a combination
\* never do.
OnlyStaleParts ==
    [][HeldIffOwned =>
         \/ HeldIffOwned'
         \/ \E o \in late : ActsLate(o)
         \/ \E r \in inFlight : ActRelease(r) /\ r.closed]_rvars

\* A run started on an incident that was closed meanwhile does not outlive its
\* next tick: it is cancelled, or the incident is open again.
ClosedSettles == (Closed /\ Live(chain)) ~> ~(Closed /\ Live(chain))

=============================================================================
