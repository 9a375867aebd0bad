--------------------------- MODULE EscalationChain ---------------------------
(***************************************************************************)
(* One incident, the row incident_chain_states that runs its Escalation    *)
(* Chain, and its owner (backend/paging/escalation.py).                    *)
(*                                                                         *)
(* An operation that finds the chain row locks it before it reads what it  *)
(* changes, so it is one action.  An acknowledgement, an assignment or a   *)
(* release that finds no row locks nothing, waits, and changes the owner   *)
(* beside whatever run was begun meanwhile: it is two actions, and in      *)
(* "late" in between.  What a route reads before it looks for the row is   *)
(* the subject of IncidentRequests.  Locks are those of PostgreSQL.        *)
(*                                                                         *)
(* A timestamp is kept as the time left until it (0: it has come), and     *)
(* last_activity_at as the time since it, up to AckLock; NoTime is NULL.   *)
(***************************************************************************)
EXTENDS Integers, FiniteSets

CONSTANTS
    Users,           \* people who can own the incident
    NoUser,          \* nobody: no active assignment, no takeover request
    MaxLevel,        \* bound: the highest step_index a definition may hold
    MaxRound,        \* bound: the highest round a run reaches
    Timeouts,        \* values of timeout_seconds a level may carry
    Ceiling,         \* LEVEL_WAIT_CEILING of the incident's priority
    AckLock,         \* ACK_LOCK_INACTIVITY_SECONDS
    TakeoverWindow,  \* SOFT_TAKEOVER_WINDOW_SECONDS
    MaxSnooze,       \* bound: the longest snooze
    MaxLate          \* bound: operations that found no chain row and wait

ASSUME EscalationAssumption ==
    /\ NoUser \notin Users
    /\ MaxLevel \in Nat /\ MaxRound \in Nat /\ MaxLate \in Nat
    /\ Timeouts \subseteq Nat \ {0}
    /\ {Ceiling, AckLock, TakeoverWindow, MaxSnooze} \subseteq Nat \ {0}

VARIABLES
    incident,   \* status of the incident: "open" also stands for in_progress
    mode,       \* its response_mode, fixed when the incident is created
    owner,      \* who holds its active incident_assignments row, or NoUser
    levels,     \* step_index of every level in the definition the chain runs
    chain,      \* its incident_chain_states row
    late        \* operations between finding no chain row and their write

vars == <<incident, mode, owner, levels, chain, late>>

NoTime == -1
Max2(a, b) == IF a >= b THEN a ELSE b

LiveStatuses == {"running", "paused", "acked"}
Statuses == LiveStatuses \cup {"none", "cancelled", "exhausted"}
Timer == Nat \cup {NoTime}

Rows == [status : Statuses, step : Int, round : Nat,
         due : Timer,                           \* next_step_due_at
         paused : Timer,                        \* paused_until
         hard : Timer,                          \* hard_deadline_at
         idle : Timer,                          \* last_activity_at
         asker : Users \cup {NoUser},           \* pending_takeover_user_id
         askLeft : Timer,                       \* pending_takeover_expires_at
         noticed : BOOLEAN]                     \* exhaustion_notified_at is set

\* A row on which nothing happened yet.
BlankRow(status, round) ==
    [status |-> status, step |-> -1, round |-> round, due |-> NoTime,
     paused |-> NoTime, hard |-> NoTime, idle |-> NoTime,
     asker |-> NoUser, askLeft |-> NoTime, noticed |-> FALSE]
\* The row of a round, before its first level fires.
NewRow(round) == BlankRow("running", round)
\* The incident has no chain row.
NoRow == BlankRow("none", 0)

\* What such an operation will do: make "to" the owner, if one of "over" is.
LateOps == [to : Users \cup {NoUser}, over : SUBSET (Users \cup {NoUser})]

Live(s) == s.status \in LiveStatuses
Closed == incident \in {"resolved", "merged"}

TypeOK ==
    /\ incident \in {"open", "resolved", "merged"}
    /\ mode \in {"page", "escalate_immediate", "notify"}
    /\ owner \in Users \cup {NoUser}
    /\ levels \subseteq Nat
    /\ chain \in Rows
    /\ late \subseteq LateOps

-----------------------------------------------------------------------------
(* Transitions of the row that several operations share.                   *)

\* Mistake: the lock counts from the last write, snoozed or not.
LockDueUnsnoozed(s) == AckLock - s.idle

\* When an acknowledgement lock lapses: AckLock after the owner's last write,
\* or when the snooze ends, whichever is later.
LockDue(s) == Max2(AckLock - s.idle, s.paused)

ClearAsk(s) == [s EXCEPT !.asker = NoUser, !.askLeft = NoTime]

Page(s, l, t) ==
    [s EXCEPT !.status = "running", !.step = l, !.due = t,
              !.hard = Ceiling, !.paused = NoTime]

Exhausted(s) ==
    [s EXCEPT !.status = "exhausted", !.due = NoTime, !.paused = NoTime,
              !.noticed = TRUE]

Last(steps) == {l \in steps : \A m \in steps : m <= l}

\* The run ends with its cursor on the last level it visited.
RunsOut(s, steps) ==
    {[Exhausted(s) EXCEPT !.step = l] : l \in Last(steps \cup {s.step})}

\* Mistake: the level at the cursor may fire again.
FireNextOrSame(s, steps) ==
    {Page(s, l, t) : l \in {k \in steps : k >= s.step}, t \in Timeouts}
      \cup RunsOut(s, steps)

\* The rows _fire_next_level may leave: the first level above the cursor with
\* someone to page is running, or there is none and the run is exhausted.
\* Which levels have someone to page is up to rosters and people, outside this
\* module: any level above the cursor may be the one.
FireNext(s, steps) ==
    {Page(s, l, t) : l \in {k \in steps : k > s.step}, t \in Timeouts}
      \cup RunsOut(s, steps)

\* escalate_immediate fires level after level until the cursor is on the last
\* one; a last level with nobody to page exhausts the run at once.
FireAll(s, steps) ==
    {Page(s, l, t) : l \in Last(steps), t \in Timeouts} \cup RunsOut(s, steps)

Started(s, steps) ==
    IF mode = "escalate_immediate" THEN FireAll(s, steps) ELSE FireNext(s, steps)

\* Mistakes: the run starts over in its round; the notice mark is not cleared.
RestartedInRound(steps) == Started(NewRow(chain.round), steps)
RestartedNoticed(steps) ==
    Started([NewRow(chain.round + 1) EXCEPT !.noticed = chain.noticed], steps)

\* restart_chain_for_handoff: a new round of the row there is, or a first one.
Restarted(steps) ==
    Started(NewRow(IF chain.status = "none" THEN 0 ELSE chain.round + 1), steps)

Pages == mode \in {"page", "escalate_immediate"}
Definitions == SUBSET (0 .. MaxLevel)

\* Mistakes: a pending takeover request outlives the run; a status that no
\* query of the table selects.
CancelledButAsked(s) ==
    [s EXCEPT !.status = IF Live(s) THEN "cancelled" ELSE @,
              !.due = NoTime, !.paused = NoTime]
CancelledAsClosed(s) ==
    [ClearAsk(s) EXCEPT !.status = IF Live(s) THEN "closed" ELSE @,
                        !.due = NoTime, !.paused = NoTime]

\* cancel_live: nothing pending can bring a cancelled chain back.
Cancelled(s) ==
    [ClearAsk(s) EXCEPT !.status = IF Live(s) THEN "cancelled" ELSE @,
                        !.due = NoTime, !.paused = NoTime]

\* Mistakes: acknowledging stops the clock instead of locking; a new owner
\* inherits the request to take over from the last one.
LockedForEver(s, newOwner) ==
    IF Live(s) THEN [s EXCEPT !.status = "acked", !.idle = 0, !.due = NoTime] ELSE s
LockedButAsked(s, newOwner) ==
    LET held == [s EXCEPT !.status = "acked", !.idle = 0, !.hard = NoTime,
                          !.paused = IF newOwner THEN NoTime ELSE @]
    IN  IF Live(s) THEN [held EXCEPT !.due = LockDue(held)] ELSE s

\* The row part of acknowledge: the new owner's lock, on a live chain.
LockedRow(s, newOwner) ==
    LET fresh == IF newOwner \/ s.status # "acked"
                 THEN [ClearAsk(s) EXCEPT !.paused = NoTime]
                 ELSE s
        held == [fresh EXCEPT !.status = "acked", !.idle = 0, !.hard = NoTime]
    IN  IF Live(s) THEN [held EXCEPT !.due = LockDue(held)] ELSE s

-----------------------------------------------------------------------------
(* People's operations.                                                    *)

\* acknowledge with the row there is, once it goes through: u owns the
\* incident and holds its chain.
TakenBy(u) ==
    /\ incident = "open"
    /\ chain.status # "none"
    /\ owner' = u
    /\ chain' = LockedRow(chain, owner # u)
    /\ UNCHANGED <<incident, mode, levels>>

\* Acknowledge or take for oneself: somebody else's ownership stands.
Acknowledge(u) ==
    /\ owner \in {NoUser, u}
    /\ TakenBy(u)

\* acknowledge with replace_owner: an explicit reassignment to u.
Assign(u) == TakenBy(u)

\* What waits after it found no row: an acknowledgement, an assignment over
\* the owner the actor was shown, a release.
LateTake(u) == [to |-> u, over |-> {NoUser, u}]
LateAssign(u, seen) == [to |-> u, over |-> seen]
LateRelease == [to |-> NoUser, over |-> Users]

\* get_for_incident returns None and locks nothing: the operation goes on to
\* wait for the incident's or the assignment's row, without a chain to change.
FindsNoRow(o) ==
    /\ chain.status = "none"
    /\ Cardinality(late) < MaxLate
    /\ late' = late \cup {o}
    /\ UNCHANGED <<incident, mode, owner, levels, chain>>

\* Its turn comes.  It reads the owner and the status anew, never the chain;
\* a closed incident is not re-owned.
ActsLate(o) ==
    /\ o \in late
    /\ late' = late \ {o}
    /\ owner' = IF owner \in o.over /\ (Closed => o.to = NoUser) THEN o.to ELSE owner
    /\ UNCHANGED <<incident, mode, levels, chain>>

\* handle_force_takeover: also drops whatever request was pending.  It locks
\* the owner's assignment before it waits, which a run that is begun
\* meanwhile has to release: without a row, too, it is one action.
ForceTakeover(u) ==
    /\ incident = "open"
    /\ owner \notin {NoUser, u}
    /\ owner' = u
    /\ chain' = ClearAsk(LockedRow(chain, TRUE))
    /\ UNCHANGED <<incident, mode, levels>>

\* handle_takeover_request on an owned incident; on an unowned one it is
\* Acknowledge.  A second person's request replaces the first one's.
RequestTakeover(u) ==
    /\ incident = "open"
    /\ owner \notin {NoUser, u}
    /\ chain.status # "none"
    /\ ~(chain.asker = u /\ chain.askLeft > 0)
    /\ chain' = [chain EXCEPT !.asker = u, !.askLeft = TakeoverWindow]
    /\ UNCHANGED <<incident, mode, owner, levels>>

\* handle_takeover_confirm: too late, so the request is only dropped.
ConfirmExpired ==
    /\ chain.asker # NoUser
    /\ chain.askLeft = 0
    /\ chain' = ClearAsk(chain)
    /\ UNCHANGED <<incident, mode, owner, levels>>

\* handle_takeover_confirm by the owner; the requester may no longer be
\* eligible, and then the request is only dropped.
ConfirmTakeover ==
    /\ incident = "open"
    /\ chain.asker # NoUser
    /\ chain.askLeft # 0
    /\ owner # NoUser
    /\ \/ /\ chain' = ClearAsk(chain)
          /\ UNCHANGED owner
       \/ /\ owner' = chain.asker
          /\ chain' = LockedRow(ClearAsk(chain), owner # chain.asker)
    /\ UNCHANGED <<incident, mode, levels>>

\* The owner's own write extends the lock; anyone else's does nothing.
RecordActivity ==
    /\ chain.status = "acked"
    /\ owner # NoUser
    /\ LET s == [chain EXCEPT !.idle = 0]
       IN  chain' = [s EXCEPT !.due = LockDue(s)]
    /\ UNCHANGED <<incident, mode, owner, levels>>

\* Mistake: the assignment is released and the chain stays held.
ReleaseRow ==
    /\ owner # NoUser
    /\ owner' = NoUser
    /\ UNCHANGED <<incident, mode, levels, chain>>

\* release_ownership; closed is the incident's status as its session has it.
ReleaseAs(closed) ==
    /\ owner # NoUser
    /\ chain.status # "none"
    /\ owner' = NoUser
    /\ IF chain.status = "acked" /\ ~closed
       THEN chain' \in FireNext([chain EXCEPT !.idle = NoTime], levels)
       ELSE UNCHANGED chain
    /\ UNCHANGED <<incident, mode, levels>>

\* A release whose route read the incident's status as it is.
Release == ReleaseAs(Closed)

\* Mistake: the snooze replaces the lock, even one that would last longer.
SnoozeOverLock(d, byOwner) ==
    /\ Live(chain)
    /\ ~Closed
    /\ byOwner => owner # NoUser
    /\ chain' = [chain EXCEPT !.paused = d, !.due = d, !.hard = NoTime,
                              !.status = IF @ = "acked" THEN @ ELSE "paused"]
    /\ UNCHANGED <<incident, mode, owner, levels>>

\* byOwner: the actor owns the incident, so the snooze is also a write.
Snooze(d, byOwner) ==
    /\ Live(chain)
    /\ ~Closed
    /\ byOwner => owner # NoUser
    /\ LET s == [chain EXCEPT !.paused = d, !.hard = NoTime,
                              !.idle = IF byOwner /\ chain.status = "acked"
                                       THEN 0 ELSE @]
       IN  chain' = IF chain.status = "acked"
                    THEN [s EXCEPT !.due = LockDue(s)]
                    ELSE [s EXCEPT !.status = "paused", !.due = d]
    /\ UNCHANGED <<incident, mode, owner, levels>>

\* Pages one level.  An owner keeps the incident, and their lock restarts.
EscalateNow ==
    /\ Live(chain)
    /\ ~Closed
    /\ \E s \in FireNext(chain, levels) :
         LET held == [s EXCEPT !.status = "acked", !.idle = 0]
         IN  chain' = IF chain.status = "acked" /\ s.status = "running"
                      THEN [held EXCEPT !.due = LockDue(held)]
                      ELSE s
    /\ UNCHANGED <<incident, mode, owner, levels>>

-----------------------------------------------------------------------------
(* The incident's lifecycle.                                               *)

\* update_fields or update_status to resolved, then _stop_paging.
Resolve ==
    /\ incident' = "resolved"
    /\ chain' = Cancelled(chain)
    /\ UNCHANGED <<mode, owner, levels>>

\* combine_incidents, for one secondary.
Combine ==
    /\ incident # "merged"
    /\ incident' = "merged"
    /\ owner' = NoUser
    /\ chain' = Cancelled(chain)
    /\ UNCHANGED <<mode, levels>>

\* Page again on definition d in a new round.
RestartOn(d) ==
    /\ chain.round < MaxRound
    /\ levels' = d
    /\ chain' \in Restarted(d)

\* page_reopened_incident: a new round, unless no chain matches.
Reopen ==
    /\ incident = "resolved"
    /\ incident' = "open"
    /\ owner' = NoUser
    /\ \/ Pages /\ \E d \in Definitions : RestartOn(d)
       \/ UNCHANGED <<levels, chain>>
    /\ UNCHANGED mode

\* update_incident refuses no status: a merged incident can be set back to
\* open, which pages nobody.
UnmergeByPatch ==
    /\ incident = "merged"
    /\ incident' = "open"
    /\ UNCHANGED <<mode, owner, levels, chain>>

\* reassign_to_team, and update_incident with a new service (which may also
\* set a closed incident back to open).
Handoff ==
    /\ incident' = "open"
    /\ owner' = NoUser
    /\ IF Pages
       THEN \/ \E d \in Definitions : RestartOn(d)
            \/ chain' = Cancelled(chain) /\ UNCHANGED levels
       ELSE chain' = ClearAsk(chain) /\ UNCHANGED levels
    /\ UNCHANGED mode

-----------------------------------------------------------------------------
(* Edits of the chain's definition while it runs.                          *)

\* EscalationStepRepo.delete: a live run keeps its place and starts a round,
\* unless the deletion looked for the runs of this chain before this one was
\* committed (ChainDefinition).
DeleteLevel(l) ==
    /\ l \in levels
    /\ levels' = 0 .. (Cardinality(levels) - 2)
    /\ \/ /\ Live(chain)
          /\ chain.round < MaxRound
          /\ chain' = [chain EXCEPT !.step = IF @ >= l THEN @ - 1 ELSE @,
                                    !.round = @ + 1]
       \/ UNCHANGED chain
    /\ UNCHANGED <<incident, mode, owner>>

\* EscalationStepRepo.reorder renumbers the levels and leaves the run alone.
ReorderLevels ==
    /\ levels' = 0 .. (Cardinality(levels) - 1)
    /\ UNCHANGED <<incident, mode, owner, chain>>

AddLevel(l) ==
    /\ l \notin levels
    /\ levels' = levels \cup {l}
    /\ UNCHANGED <<incident, mode, owner, chain>>

\* Deleting the whole chain deletes its run (ON DELETE CASCADE).
DeleteChain ==
    /\ chain.status # "none"
    /\ chain' = NoRow
    /\ UNCHANGED <<incident, mode, owner, levels>>

-----------------------------------------------------------------------------
(* The scheduler: _tick_state of a row that list_due selects.               *)

AskExpired == chain.askLeft = 0
\* Mistake: the scheduler selects the chains that page, not those that are held.
DueIfPaging == /\ chain.status \in {"running", "paused"} /\ ~Closed
               /\ chain.due = 0

Due == /\ Live(chain) /\ ~Closed
       /\ chain.due = 0
       /\ chain.status = "paused" => chain.paused # NoTime

\* The row after its expired takeover request, if any, is dropped.
Ticked == IF AskExpired THEN ClearAsk(chain) ELSE chain

\* Mistake: only a merge is remembered to have closed the incident.
TickSettlesMerged ==
    /\ AskExpired \/ (Live(chain) /\ incident = "merged" /\ chain.due = 0)
    /\ ~Due
    /\ chain' = IF Live(chain) /\ incident = "merged" THEN Cancelled(chain) ELSE Ticked
    /\ UNCHANGED <<incident, mode, owner, levels>>

\* No level and no lock is due: the run of a closed incident is cancelled
\* ("every close path cancels the chain; this catches anything older", and
\* what IncidentRequests shows a stale handoff may start), or a takeover
\* request expires.
TickSettles ==
    /\ AskExpired \/ (Live(chain) /\ Closed /\ chain.due = 0)
    /\ ~Due
    /\ chain' = IF Live(chain) /\ Closed THEN Cancelled(chain) ELSE Ticked
    /\ UNCHANGED <<incident, mode, owner, levels>>

\* Mistake: every look at the level grants its people the whole ceiling again.
TickHoldsAnew ==
    /\ Due
    /\ chain.status = "running"
    /\ \E hold \in 1 .. Ceiling : chain' = [Ticked EXCEPT !.due = hold]
    /\ UNCHANGED <<incident, mode, owner, levels>>

\* _level_wait: people the level paged still have their own steps to run, so
\* it is looked at again later, never past its ceiling.
TickHoldsLevel ==
    /\ Due
    /\ chain.status = "running"
    /\ \E hold \in 1 .. chain.hard : chain' = [Ticked EXCEPT !.due = hold]
    /\ UNCHANGED <<incident, mode, owner, levels>>

\* A level's timeout passed, or a snooze ended.
TickFires ==
    /\ Due
    /\ chain.status \in {"running", "paused"}
    /\ chain' \in FireNext(Ticked, levels)
    /\ UNCHANGED <<incident, mode, owner, levels>>

\* The owner was inactive past the lock.  With no level left they keep the
\* incident; otherwise they are released and the next level fires.
TickLapses ==
    /\ Due
    /\ chain.status = "acked"
    /\ IF \E l \in levels : l > chain.step
       THEN /\ owner' = NoUser
            /\ chain' \in FireNext(Ticked, levels)
       ELSE /\ UNCHANGED owner
            /\ chain' = Exhausted(Ticked)
    /\ UNCHANGED <<incident, mode, levels>>

Tick == \/ TickSettles
        \/ TickHoldsLevel
        \/ TickFires
        \/ TickLapses

Down(t) == IF t > 0 THEN t - 1 ELSE t

\* A unit of time passes.
Elapse ==
    /\ chain' = [chain EXCEPT
                   !.due = Down(@), !.paused = Down(@), !.hard = Down(@),
                   !.askLeft = Down(@),
                   !.idle = IF 0 <= @ /\ @ < AckLock THEN @ + 1 ELSE @]
    /\ UNCHANGED <<incident, mode, owner, levels>>

-----------------------------------------------------------------------------
\* page_new_incident ran in the transaction that created the incident.
Init ==
    /\ incident = "open"
    /\ mode \in {"page", "escalate_immediate", "notify"}
    /\ owner = NoUser
    /\ levels \in Definitions
    /\ chain \in {NoRow} \cup (IF Pages THEN Started(NewRow(0), levels) ELSE {})
    /\ late = {}

\* Whoever the owner is when an assignment acts may be the one its actor was
\* shown; an acknowledgement is the case of nobody, or of u.
Late ==
    \/ \E u \in Users : FindsNoRow(LateAssign(u, Users \cup {NoUser}))
    \/ FindsNoRow(LateRelease)
    \/ \E o \in late : ActsLate(o)

People ==
    \/ \E u \in Users : \/ Acknowledge(u) \/ Assign(u)
                        \/ ForceTakeover(u) \/ RequestTakeover(u)
    \/ ConfirmExpired \/ ConfirmTakeover \/ RecordActivity \/ Release
    \/ \E d \in 1 .. MaxSnooze, byOwner \in BOOLEAN : Snooze(d, byOwner)
    \/ EscalateNow

Lifecycle == Resolve \/ Combine \/ Reopen \/ UnmergeByPatch \/ Handoff

Definition ==
    \/ \E l \in levels : DeleteLevel(l)
    \/ \E l \in 0 .. MaxLevel : AddLevel(l)
    \/ ReorderLevels
    \/ DeleteChain

Next ==
    \/ Late
    \/ (People \/ Lifecycle \/ Definition \/ Tick \/ Elapse) /\ UNCHANGED late

Spec == Init /\ [][Next]_vars

\* Time passes, and the scheduler runs every ten seconds for the life of the
\* server; a row it could not lock is selected again by the next run.
FairSpec ==
    Spec /\ WF_vars(Elapse /\ UNCHANGED late) /\ WF_vars(Tick /\ UNCHANGED late)

-----------------------------------------------------------------------------
(* Safety.                                                                 *)

\* While a chain is live, it is held exactly when somebody owns the incident:
\* no owner is paged over, and no lock has nobody to hold it.  It is what
\* OnlyLateParts keeps, and no invariant.
HeldIffOwned ==
    Live(chain) => (chain.status = "acked" <=> owner # NoUser)

\* Once an incident is resolved or merged, its chain is over, nothing is
\* scheduled for it, and no takeover request can be answered.
ClosedIsQuiet ==
    Closed => /\ ~Live(chain)
              /\ chain.due = NoTime /\ chain.paused = NoTime
              /\ chain.asker = NoUser

\* A live chain always has a next time the scheduler will select it for, so
\* none is forgotten; a snooze's time is the end of the snooze.
LiveIsScheduled ==
    Live(chain) =>
        /\ chain.due # NoTime
        /\ chain.status = "paused" => chain.due = chain.paused

\* The lock lapses AckLock after the owner's last write, and not before a
\* snooze is over, whatever was acknowledged, snoozed, escalated or handed
\* over in between.
LockIsExact ==
    chain.status = "acked" => chain.idle # NoTime /\ chain.due = LockDue(chain)

\* The exhaustion notice goes out once per round: it is marked exactly while
\* the run is exhausted, and only a new round clears the mark.
NoticeIffExhausted == chain.noticed <=> chain.status = "exhausted"

-----------------------------------------------------------------------------
(* What a step may never do.                                               *)

\* Ownership and the lock of a live chain part only where an operation acts
\* that found no chain row and waited while this run was begun: no other
\* operation, tick or edit, in any order, leaves an owner being paged over or
\* a lock nobody holds.
OnlyLateParts ==
    [][HeldIffOwned => HeldIffOwned' \/ \E o \in late : ActsLate(o)]_vars

\* Whoever comes to own an incident with a live chain starts without a
\* takeover request: one that was made to an earlier owner, who has since
\* lapsed, released or been replaced, can no longer be confirmed by this one.
NewOwnerUnasked ==
    [][Live(chain) /\ owner' \notin {owner, NoUser} =>
         chain'.asker = NoUser \/ \E o \in late : ActsLate(o)]_vars

\* Within a round a run only moves up its levels, and one that was held or
\* snoozed resumes above the level it stopped at, never at it or at level 1.
ResumesAbove ==
    [][(chain.round = chain'.round /\ chain'.status # "none" /\ Live(chain)) =>
         /\ chain'.step >= chain.step
         /\ chain.status # "running" /\ chain'.status = "running"
              => chain'.step > chain.step]_vars

\* The scheduler takes an incident from its owner only after AckLock without
\* a write of theirs, and never before their snooze is over.
LapsesOnlyWhenIdle ==
    [][Tick /\ owner' # owner =>
         chain.idle = AckLock /\ chain.paused \in {NoTime, 0}]_vars

-----------------------------------------------------------------------------
(* The abstract specification this implements.                             *)

Phase == CASE chain.status \in {"running", "paused"} -> "paging"
           [] chain.status = "acked"                 -> "held"
           [] OTHER                                  -> "idle"

Lock == INSTANCE PagingLock WITH People <- Users, Nobody <- NoUser,
            phase <- Phase, holder <- owner,
            level <- chain.step, round <- chain.round, early <- late

\* Whatever people, routes, the scheduler and edits of the definition do to
\* the row, seen without timers it is one step of PagingLock or none.
ImplementsPagingLock == Lock!Spec

-----------------------------------------------------------------------------
(* Liveness.                                                               *)

\* A running chain does not page for ever: it is acknowledged, snoozed,
\* exhausted or cancelled, however often it holds a level for people's steps.
RunningEnds == (chain.status = "running") ~> (chain.status # "running")

\* Once nobody snoozes and no owner writes any more, a held chain is released
\* or ends.
Extends ==
    \/ RecordActivity \/ ConfirmTakeover \/ EscalateNow
    \/ \E d \in 1 .. MaxSnooze, byOwner \in BOOLEAN : Snooze(d, byOwner)
    \/ \E u \in Users : TakenBy(u) \/ ForceTakeover(u)

LockLapses ==
    <>[][~Extends]_vars => ((chain.status = "acked") ~> (chain.status # "acked"))

=============================================================================
