------------------------ MODULE IncidentRequests_proofs ------------------------
(***************************************************************************)
(* What the routes of IncidentRequests keep of the chain's guarantees, for *)
(* any number of requests between their read and their write.              *)
(***************************************************************************)
EXTENDS IncidentRequests, EscalationChain_proofs

\* IInv without ClosedIsQuiet, which a stale service move breaks.  What is left
\* of it: nobody holds a closed incident's chain, so no activity extends it.
RInv ==
    /\ incident \in {"open", "resolved", "merged"}
    /\ mode \in {"page", "escalate_immediate", "notify"}
    /\ levels \subseteq Nat
    /\ late \subseteq LateOps
    /\ Good(chain, owner)
    /\ NotifyHasNoRow
    /\ Closed => chain.status # "acked"
    /\ ClosedUnlessMoved
    /\ inFlight \subseteq Requests
    /\ \A r \in inFlight : r.kind \in kinds

\* A step that leaves the requests alone keeps RInv if it keeps what RInv says
\* of the incident and its row.
LEMMA KeepsByParts ==
    ASSUME RInv, UNCHANGED <<mode, kinds>>, late' \subseteq LateOps,
           inFlight' \subseteq inFlight,
           incident' \in {"open", "resolved", "merged"}, levels' \subseteq Nat,
           Good(chain', owner'),
           mode = "notify" => chain'.status = "none",
           Closed' => chain'.status # "acked",
           "move" \notin kinds /\ Closed' => Quiet(chain')
    PROVE  RInv'
BY DEF RInv, NotifyHasNoRow, ClosedUnlessMoved, ClosedIsQuiet, Quiet

\* On an incident that is open, or closed and quiet, RInv is IInv.
LEMMA RInvIsIInv == RInv => (IInv <=> (Closed => Quiet(chain)))
BY IInvIsGood DEF RInv

-----------------------------------------------------------------------------
(* The operations that decide under the lock, the scheduler and time.      *)

\* Where the chain's own proof applies, so does its conclusion.
LEMMA QuietKeep ==
    ASSUME RInv, Closed => Quiet(chain), Locked \/ Tick \/ Elapse,
           UNCHANGED <<late, kinds, inFlight>>
    PROVE  RInv'
<1>1. IInv /\ NotifyHasNoRow
  BY RInvIsIInv DEF RInv
<1>2. Next
  BY DEF Locked, Next, People, Lifecycle
<1>3. IInv' /\ NotifyHasNoRow'
  BY <1>1, <1>2, NextKeep, NotifyKeeps
<1>4. /\ incident' \in {"open", "resolved", "merged"}
      /\ mode' \in {"page", "escalate_immediate", "notify"}
      /\ levels' \subseteq Nat /\ ClosedIsQuiet'
      /\ late' \subseteq LateOps
  BY <1>3 DEF IInv, TypeOK
<1>5. Good(chain', owner')
  BY <1>3 DEF IInv, TypeOK, LiveIsScheduled, LockIsExact,
     NoticeIffExhausted, IdleBounded, Good
<1>6. Closed' => chain'.status # "acked"
  BY <1>4 DEF ClosedIsQuiet, Live, LiveStatuses
<1>7. ClosedUnlessMoved'
  BY <1>4 DEF ClosedUnlessMoved
<1> QED
  BY <1>3, <1>4, <1>5, <1>6, <1>7 DEF RInv

\* On a closed incident whose chain runs, only what needs no open incident can
\* happen: the run is cancelled, or its timers and its request move on.
LEMMA UnquietKeep ==
    ASSUME RInv, Closed, ~Quiet(chain), Locked \/ Tick \/ Elapse,
           UNCHANGED <<late, kinds, inFlight>>
    PROVE  RInv'
<1>0. /\ Good(chain, owner) /\ chain \in Rows /\ owner \in Users \cup {NoUser}
      /\ chain.status # "acked" /\ incident # "open" /\ "move" \in kinds
      /\ mode = "notify" => chain.status = "none"
      /\ incident \in {"open", "resolved", "merged"} /\ levels \subseteq Nat
      /\ late' \subseteq LateOps
  BY DEF RInv, Good, Closed, ClosedUnlessMoved, ClosedIsQuiet, Quiet, NotifyHasNoRow
<1>1. ASSUME UNCHANGED <<mode, levels, owner>>,
             incident' \in {"open", "resolved", "merged"}, Good(chain', owner),
             chain'.status \in {chain.status, "cancelled"},
             chain.status = "none" => chain'.status = "none"
      PROVE  RInv'
  BY <1>0, <1>1, KeepsByParts
<1>2. /\ Good(ClearAsk(chain), owner)
      /\ ClearAsk(chain).status = chain.status
  BY <1>0, ClearedIsGood DEF ClearAsk, Rows
<1>3. /\ Good(Cancelled(chain), owner)
      /\ Cancelled(chain).status = IF Live(chain) THEN "cancelled" ELSE chain.status
      /\ Live(chain) => chain.status # "none"
  BY <1>0, CancelledIsQuiet DEF Cancelled, ClearAsk, Rows, Live, LiveStatuses
<1>4. CASE ConfirmExpired
  BY <1>0, <1>1, <1>2, <1>4 DEF ConfirmExpired
<1>5. CASE Resolve
  BY <1>0, <1>1, <1>3, <1>5 DEF Resolve
<1>6. CASE Tick
  <2>1. TickSettles
    BY <1>6 DEF Tick, TickHoldsLevel, TickFires, TickLapses, Due
  <2>2. chain' \in {chain, ClearAsk(chain), Cancelled(chain)}
          /\ UNCHANGED <<incident, mode, owner, levels>>
    BY <2>1 DEF TickSettles, Ticked
  <2> QED
    BY <1>0, <1>1, <1>2, <1>3, <2>2
<1>7. CASE Elapse
  <2>1. /\ chain'.status = chain.status /\ chain'.asker = chain.asker
        /\ chain'.noticed = chain.noticed
        /\ chain'.due = Down(chain.due) /\ chain'.paused = Down(chain.paused)
        /\ chain'.idle = IF 0 <= chain.idle /\ chain.idle < AckLock
                         THEN chain.idle + 1 ELSE chain.idle
    BY <1>0, <1>7 DEF Elapse, Rows
  <2>2. chain' \in Rows
    <3>1. \A t \in Timer : Down(t) \in Timer
      BY DEF Timer, NoTime, Down
    <3>2. \A t \in Timer :
            (IF 0 <= t /\ t < AckLock THEN t + 1 ELSE t) \in Timer
      BY DEF Timer, NoTime
    <3> QED
      BY <1>0, <1>7, <3>1, <3>2 DEF Elapse, Rows
  <2>3. /\ Down(chain.due) = NoTime <=> chain.due = NoTime
        /\ chain'.idle <= AckLock
    BY <1>0, <2>1, EscalationAssumption DEF Good, Rows, Timer, NoTime, Down
  <2>4. Good(chain', owner)
    BY <1>0, <2>1, <2>2, <2>3 DEF Good, Live, LiveStatuses
  <2> QED
    BY <1>0, <1>1, <1>7, <2>1, <2>4 DEF Elapse
<1>8. ~RecordActivity /\ ~EscalateNow /\ ~ConfirmTakeover
  BY <1>0 DEF RecordActivity, EscalateNow, ConfirmTakeover
<1>9. \A u \in Users : ~Acknowledge(u) /\ ~ForceTakeover(u) /\ ~RequestTakeover(u)
  BY <1>0 DEF Acknowledge, TakenBy, ForceTakeover, RequestTakeover
<1>10. \A d \in 1 .. MaxSnooze, byOwner \in BOOLEAN : ~Snooze(d, byOwner)
  BY DEF Snooze
<1> QED
  BY <1>4, <1>5, <1>6, <1>7, <1>8, <1>9, <1>10 DEF Locked

-----------------------------------------------------------------------------
(* The routes.                                                             *)

\* A read changes nothing but the request it leaves in flight.
LEMMA ReadKeep == RInv /\ Read => RInv'
<1> SUFFICES ASSUME RInv, Read PROVE RInv'
  OBVIOUS
<1>1. PICK r \in Requests : Arrive(r)
  <2>1. ASSUME NEW u \in Users, NEW admin \in BOOLEAN, ReadRelease(u, admin)
        PROVE  \E r \in Requests : Arrive(r)
    <3>1. Closed \in BOOLEAN
      BY DEF Closed
    <3>2. [kind |-> "release", user |-> u, admin |-> admin, closed |-> Closed] \in Requests
      BY <3>1 DEF Requests
    <3> QED
      BY <2>1, <3>2 DEF ReadRelease
  <2>2. ASSUME NEW u \in Users, ReadAssign(u)
        PROVE  \E r \in Requests : Arrive(r)
    BY <2>2 DEF ReadAssign, Requests, RInv, Good
  <2>3. ASSUME NEW u \in Users, NEW kind \in {"patch", "move"},
               NEW to \in {"open", "resolved", "same"}, ReadPatch(u, kind, to)
        PROVE  \E r \in Requests : Arrive(r)
    BY <2>3 DEF ReadPatch, Requests, RInv
  <2>4. ASSUME ReadCombine PROVE \E r \in Requests : Arrive(r)
    BY <2>4 DEF ReadCombine, Requests, RInv, Good
  <2> QED
    BY <2>1, <2>2, <2>3, <2>4 DEF Read
<1>2. UNCHANGED <<incident, mode, owner, levels, chain, late, kinds>>
        /\ inFlight' = inFlight \cup {r} /\ r.kind \in kinds
  BY <1>1 DEF Arrive, vars
<1> QED
  BY <1>2 DEF RInv, NotifyHasNoRow, ClosedUnlessMoved, ClosedIsQuiet, Closed, Live, Good,
     LockDue

\* An operation that found no row, at its look and at its write.
LEMMA WaitingKeep ==
    ASSUME RInv, UNCHANGED kinds, inFlight' \subseteq inFlight,
           \/ \E o \in LateOps : FindsNoRow(o)
           \/ \E o \in late : ActsLate(o)
    PROVE  RInv'
<1>1. UNCHANGED <<incident, mode, levels, chain>> /\ late' \subseteq LateOps
  BY DEF RInv, FindsNoRow, ActsLate
<1>2. owner' \in Users \cup {NoUser}
  BY DEF RInv, Good, FindsNoRow, ActsLate, LateOps
<1>3. Good(chain', owner')
  BY <1>1, <1>2 DEF RInv, Good
<1> QED
  BY <1>1, <1>3, KeepsByParts DEF RInv, NotifyHasNoRow, ClosedUnlessMoved,
     ClosedIsQuiet, Quiet, Closed

\* A request that is refused.
LEMMA RefuseKeep ==
    ASSUME RInv, UNCHANGED kinds, inFlight' \subseteq inFlight, Refuse
    PROVE  RInv'
BY KeepsByParts DEF Refuse, vars, RInv, NotifyHasNoRow, ClosedUnlessMoved,
   ClosedIsQuiet, Quiet, Closed

\* A release of whoever owns the incident now.
LEMMA ActReleaseKeep ==
    ASSUME RInv, NEW r \in inFlight, ActRelease(r)
    PROVE  RInv'
<1>0. /\ Good(chain, owner) /\ chain \in Rows /\ levels \in SUBSET Nat
      /\ UNCHANGED kinds /\ inFlight' \subseteq inFlight
  BY DEF RInv, Good, ActRelease, Answer
<1>1. CASE FindsNoRow(LateRelease)
  <2>1. LateRelease \in LateOps
    BY DEF LateRelease, LateOps
  <2> QED
    BY <1>0, <1>1, <2>1, WaitingKeep
<1>2. CASE Refuse
  BY <1>0, <1>2, RefuseKeep
<1>3. CASE ReleaseAs(r.closed) /\ UNCHANGED late
  <2>1. UNCHANGED <<incident, mode, levels, late>>
    BY <1>3 DEF ReleaseAs
  <2>2. Good(chain', owner')
    BY <1>0, <1>3, ReleasedIsGood
  <2>3. \/ chain' = chain
        \/ chain.status = "acked" /\ ~Closed' /\ mode # "notify"
    BY <1>3, <2>1 DEF ReleaseAs, RInv, NotifyHasNoRow, Closed
  <2> QED
    BY <1>0, <2>1, <2>2, <2>3, KeepsByParts
       DEF RInv, NotifyHasNoRow, ClosedUnlessMoved, ClosedIsQuiet, Quiet, Closed
<1> QED
  BY <1>1, <1>2, <1>3 DEF ActRelease

\* An assignment, which a closed incident and another owner refuse.
LEMMA ActAssignKeep ==
    ASSUME RInv, NEW r \in inFlight, ActAssign(r)
    PROVE  RInv'
<1>0. /\ Good(chain, owner) /\ chain \in Rows
      /\ UNCHANGED kinds /\ inFlight' \subseteq inFlight
      /\ r.user \in Users /\ r.seen \in Users \cup {NoUser}
  <2>1. r \in Requests /\ r.kind = "assign"
    BY DEF RInv, ActAssign
  <2>2. r.user \in Users /\ r.seen \in Users \cup {NoUser}
    BY <2>1 DEF Requests
  <2> QED
    BY <2>2 DEF RInv, Good, ActAssign, Answer
<1>1. CASE Refuse
  BY <1>0, <1>1, RefuseKeep
<1>2. CASE FindsNoRow(LateAssign(r.user, {r.seen}))
  <2>1. LateAssign(r.user, {r.seen}) \in LateOps
    BY <1>0 DEF LateAssign, LateOps
  <2> QED
    BY <1>0, <1>2, <2>1, WaitingKeep
<1>3. CASE TakenBy(r.user) /\ UNCHANGED late
  <2>1. UNCHANGED <<incident, mode, levels, late>> /\ incident = "open"
          /\ owner' = r.user /\ chain' = LockedRow(chain, owner # r.user)
    BY <1>3 DEF TakenBy
  <2>2. Good(chain', owner')
    BY <1>0, <2>1, LockedIsGood
  <2>3. chain.status = "none" => chain'.status = "none"
    BY <2>1 DEF LockedRow, Live, LiveStatuses
  <2> QED
    BY <1>0, <2>1, <2>2, <2>3, KeepsByParts DEF RInv, NotifyHasNoRow, Closed
<1> QED
  BY <1>1, <1>2, <1>3 DEF ActAssign, Assign

\* A status change or a service move, which may page again from what it read.
LEMMA ActPatchKeep ==
    ASSUME RInv, NEW r \in inFlight, ActPatch(r)
    PROVE  RInv'
<1>0. /\ Good(chain, owner) /\ chain \in Rows /\ owner \in Users \cup {NoUser}
      /\ levels \in SUBSET Nat
      /\ UNCHANGED <<mode, late, kinds>> /\ inFlight' \subseteq inFlight
      /\ late \subseteq LateOps
      /\ r.kind \in {"patch", "move"} /\ r.kind \in kinds
      /\ incident \in {"open", "resolved", "merged"}
      /\ AckLock \in Nat
  BY EscalationAssumption DEF RInv, Good, ActPatch, Answer
<1>1. /\ r.user \in Users /\ r.to \in {"open", "resolved", "same"}
      /\ r.seen \in {"open", "resolved", "merged"}
  <2>1. r \in Requests
    BY DEF RInv
  <2> QED
    BY <1>0, <2>1 DEF Requests
<1>2. incident' = IF r.to = "same" THEN incident ELSE r.to
  BY DEF ActPatch, SetStatus
<1>3. incident' \in {"open", "resolved", "merged"}
  BY <1>0, <1>1, <1>2
<1> DEFINE routed == r.kind = "move" \/ r.seen = "resolved"
<1>4. CASE Updated(r) = "open" /\ routed
  <2>1. PageAgain /\ owner' = NoUser
    BY <1>4 DEF ActPatch, PageAgain
  <2>2. "move" \notin kinds => ~Closed'
    BY <1>0, <1>2, <1>4 DEF Updated, Closed
  <2>3. CASE Pages
    <3>1. RestartOn(levels) /\ mode # "notify"
      BY <2>1, <2>3 DEF PageAgain, Pages
    <3>2. chain.round + 1 \in Nat
      BY <1>0 DEF Rows
    <3>3. PICK n \in Nat : chain' \in Started(NewRow(n), levels)
      BY <3>1, <3>2 DEF RestartOn, Restarted
    <3>4. Good(chain', NoUser) /\ levels' \subseteq Nat
      BY <1>0, <3>1, <3>3, StartedIsGood DEF RestartOn
    <3>5. chain'.status # "acked"
      BY <1>0, <3>3, BlankRows, StartedFires DEF Fired
    <3> QED
      BY <1>0, <1>3, <2>1, <2>2, <3>1, <3>4, <3>5, KeepsByParts
  <2>4. CASE ~Pages
    <3>1. UNCHANGED <<levels, chain>> /\ chain.status = "none"
      BY <2>1, <2>4 DEF PageAgain, Pages, RInv, NotifyHasNoRow
    <3>2. Good(chain', NoUser)
      BY <1>0, <3>1 DEF Good, Live, LiveStatuses
    <3> QED
      BY <1>0, <1>3, <2>1, <2>2, <3>1, <3>2, KeepsByParts
  <2> QED
    BY <2>3, <2>4
<1>5. CASE ~(Updated(r) = "open" /\ routed)
  <2>1. /\ UNCHANGED <<owner, levels>>
        /\ chain' = IF r.to = "resolved" THEN Cancelled(chain)
                    ELSE IF r.kind = "patch" THEN Extended(r.user) ELSE chain
    BY <1>5 DEF ActPatch
  <2>2. CASE r.to = "resolved"
    <3>1. Good(chain', owner') /\ Quiet(chain')
      BY <1>0, <2>1, <2>2, CancelledIsQuiet
    <3>2. chain'.status # "acked"
      BY <3>1 DEF Quiet, Live, LiveStatuses
    <3>3. chain.status = "none" => chain'.status = "none"
      BY <1>0, <2>1, <2>2 DEF Cancelled, ClearAsk, Rows, Live, LiveStatuses
    <3> QED
      BY <1>0, <1>3, <2>1, <3>1, <3>2, <3>3, KeepsByParts DEF RInv, NotifyHasNoRow
  <2>3. CASE r.to # "resolved"
    <3>1. Closed' => Closed
      BY <1>1, <1>2, <2>3 DEF Closed
    <3>2. CASE chain' = chain
      BY <1>0, <1>3, <2>1, <3>1, <3>2, KeepsByParts DEF RInv, NotifyHasNoRow,
         ClosedUnlessMoved, ClosedIsQuiet, Quiet
    <3>3. CASE chain' # chain
      <4> DEFINE s == [chain EXCEPT !.idle = 0]
      <4>1. chain' = [s EXCEPT !.due = LockDue(s)] /\ chain.status = "acked"
        BY <2>1, <2>3, <3>3 DEF Extended
      <4>2. s \in Rows /\ s.status = "acked" /\ s.asker = chain.asker /\ s.idle = 0
              /\ s.noticed = chain.noticed
        BY <1>0, <4>1 DEF Rows, Timer
      <4>3. chain.noticed = FALSE
        BY <1>0, <4>1 DEF Good, Rows
      <4> HIDE DEF s
      <4>4. Good(chain', owner')
        <5>1. s.idle # NoTime /\ s.idle <= AckLock /\ s.noticed = FALSE
          BY <1>0, <4>2, <4>3 DEF NoTime
        <5>2. Good([s EXCEPT !.due = LockDue(s)], owner)
          BY <1>0, <4>1, <4>2, <5>1, RelockedIsGood
        <5> QED
          BY <2>1, <4>1, <5>2
      <4>5. ~Closed /\ mode # "notify"
        BY <4>1 DEF RInv, NotifyHasNoRow
      <4> QED
        BY <1>0, <1>3, <2>1, <3>1, <4>4, <4>5, KeepsByParts
    <3> QED
      BY <3>2, <3>3
  <2> QED
    BY <2>2, <2>3
<1> QED
  BY <1>4, <1>5

\* A combination: any owner goes with the cancelled chain it leaves.
LEMMA ActCombineKeep ==
    ASSUME RInv, NEW r \in inFlight, ActCombine(r)
    PROVE  RInv'
<1>0. /\ Good(chain, owner) /\ chain \in Rows /\ owner \in Users \cup {NoUser}
      /\ UNCHANGED kinds /\ inFlight' \subseteq inFlight
  BY DEF RInv, Good, ActCombine, Answer
<1>1. CASE Refuse
  BY <1>0, <1>1, RefuseKeep
<1>2. CASE ~Refuse
  <2>1. /\ incident' = "merged" /\ owner' \in {NoUser, owner}
        /\ chain' = Cancelled(chain) /\ UNCHANGED <<mode, levels, late>>
    BY <1>2 DEF ActCombine
  <2>2. Good(chain', owner') /\ Quiet(chain')
    BY <1>0, <2>1, CancelledIsQuiet
  <2>3. chain'.status # "acked"
    BY <2>2 DEF Quiet, Live, LiveStatuses
  <2>4. chain.status = "none" => chain'.status = "none"
    BY <1>0, <2>1 DEF Cancelled, ClearAsk, Rows, Live, LiveStatuses
  <2> QED
    BY <1>0, <2>1, <2>2, <2>3, <2>4, KeepsByParts DEF RInv, NotifyHasNoRow
<1> QED
  BY <1>1, <1>2

-----------------------------------------------------------------------------
(* The theorems.                                                           *)

\* The inductive invariant holds of every behaviour of the routes.
THEOREM StaleReadsKeepRInv == RSpec => []RInv
<1>1. RInit => RInv
  BY InitGood, IInvIsGood DEF RInit, RInv, Init, NotifyHasNoRow, Pages, NoRow, BlankRow,
     ClosedUnlessMoved, ClosedIsQuiet, Closed
<1>2. RInv /\ [RNext]_rvars => RInv'
  <2> SUFFICES ASSUME RInv, [RNext]_rvars PROVE RInv'
    OBVIOUS
  <2>1. CASE Read
    BY <2>1, ReadKeep
  <2>2. CASE Act
    BY <2>2, ActReleaseKeep, ActAssignKeep, ActPatchKeep, ActCombineKeep DEF Act
  <2>3. CASE (Locked \/ Tick \/ Elapse) /\ UNCHANGED <<late, kinds, inFlight>>
    BY <2>3, QuietKeep, UnquietKeep
  <2>5. CASE Waiting /\ UNCHANGED <<kinds, inFlight>>
    <3>1. \A u \in Users : LateTake(u) \in LateOps
      BY DEF LateTake, LateOps
    <3> QED
      BY <2>5, <3>1, WaitingKeep DEF Waiting
  <2>4. CASE UNCHANGED rvars
    BY <2>4, KeepsByParts DEF rvars, RInv, NotifyHasNoRow,
       ClosedUnlessMoved, ClosedIsQuiet, Quiet, Closed
  <2> QED
    BY <2>1, <2>2, <2>3, <2>4, <2>5 DEF RNext
<1> QED
  BY <1>1, <1>2, PTL DEF RSpec

\* Where a closed incident's chain runs, what needs no open incident leaves the
\* run as it is, or cancels it.
LEMMA UnquietStays ==
    ASSUME RInv, Closed, ~Quiet(chain), Locked \/ Tick \/ Elapse
    PROVE  owner' = owner /\ chain'.status \in {chain.status, "cancelled"}
<1>0. chain \in Rows /\ chain.status # "acked" /\ incident # "open"
  BY DEF RInv, Good, Closed
<1>1. ClearAsk(chain).status = chain.status
        /\ Cancelled(chain).status \in {chain.status, "cancelled"}
  BY <1>0 DEF ClearAsk, Cancelled, Rows
<1>2. CASE ConfirmExpired
  BY <1>1, <1>2 DEF ConfirmExpired
<1>3. CASE Resolve
  BY <1>1, <1>3 DEF Resolve
<1>4. CASE Tick
  <2>1. TickSettles
    BY <1>4 DEF Tick, TickHoldsLevel, TickFires, TickLapses, Due
  <2> QED
    BY <1>1, <2>1 DEF TickSettles, Ticked
<1>5. CASE Elapse
  BY <1>0, <1>5 DEF Elapse, Rows
<1>6. ~RecordActivity /\ ~EscalateNow /\ ~ConfirmTakeover
  BY <1>0 DEF RecordActivity, EscalateNow, ConfirmTakeover
<1>7. \A u \in Users : ~Acknowledge(u) /\ ~ForceTakeover(u) /\ ~RequestTakeover(u)
  BY <1>0 DEF Acknowledge, TakenBy, ForceTakeover, RequestTakeover
<1>8. \A d \in 1 .. MaxSnooze, byOwner \in BOOLEAN : ~Snooze(d, byOwner)
  BY DEF Snooze
<1> QED
  BY <1>2, <1>3, <1>4, <1>5, <1>6, <1>7, <1>8 DEF Locked

\* A release that read an open incident resumes the run it leaves without owner.
LEMMA ReleaseHolds ==
    ASSUME RInv, HeldIffOwned, ReleaseAs(FALSE)
    PROVE  HeldIffOwned'
<1>0. chain \in Rows /\ levels \in SUBSET Nat /\ owner' = NoUser
  BY DEF RInv, Good, ReleaseAs
<1>1. CASE chain.status = "acked"
  <2> DEFINE s == [chain EXCEPT !.idle = NoTime]
  <2>1. s \in Rows
    BY <1>0 DEF Rows, Timer
  <2>2. Fired(s, chain')
    BY <1>0, <1>1, <2>1, FireNextFires DEF ReleaseAs
  <2> QED
    BY <1>0, <2>2 DEF Fired, HeldIffOwned
<1>2. CASE chain.status # "acked"
  BY <1>0, <1>2 DEF ReleaseAs, HeldIffOwned
<1> QED
  BY <1>1, <1>2

\* A patch or a move pages again without an owner, cancels the run, or leaves
\* the owner and the run as they are.
LEMMA PatchHolds ==
    ASSUME RInv, HeldIffOwned, NEW r \in inFlight, ActPatch(r)
    PROVE  HeldIffOwned'
<1>0. chain \in Rows /\ levels \in SUBSET Nat
  BY DEF RInv, Good
<1>1. CASE PageAgain
  <2>1. CASE Pages
    <3>1. RestartOn(levels)
      BY <1>1, <2>1 DEF PageAgain
    <3>2. PICK n \in Nat : chain' \in Started(NewRow(n), levels)
      BY <1>0, <3>1 DEF RestartOn, Restarted, Rows
    <3>3. Fired(NewRow(n), chain')
      BY <1>0, <3>2, BlankRows, StartedFires
    <3> QED
      BY <1>1, <3>3 DEF PageAgain, Fired, HeldIffOwned
  <2>2. CASE ~Pages
    BY <1>1, <2>2 DEF PageAgain, Pages, RInv, NotifyHasNoRow, HeldIffOwned, Live,
       LiveStatuses
  <2> QED
    BY <2>1, <2>2
<1>2. CASE ~PageAgain
  <2>1. owner' = owner /\ chain' \in {Cancelled(chain), Extended(r.user), chain}
    BY <1>2 DEF ActPatch
  <2>2. ~Live(Cancelled(chain)) /\ Extended(r.user).status = chain.status
    BY <1>0 DEF Cancelled, ClearAsk, Extended, Live, LiveStatuses, Rows
  <2> QED
    BY <2>1, <2>2 DEF HeldIffOwned, Live
<1> QED
  BY <1>1, <1>2

\* Whatever a release, an assignment, a status change, a service move or a
\* combination read before it waited: only what found no chain row, or a
\* release that read the incident as closed, parts ownership and the lock.
THEOREM OnlyStaleActsPart == RSpec => OnlyStaleParts
<1>1. ASSUME RInv, HeldIffOwned, RNext, ~LateActs,
             ~\E r \in inFlight : ActRelease(r) /\ r.closed
      PROVE  HeldIffOwned'
  <2>0. chain \in Rows /\ NoUser \notin Users
    BY <1>1, EscalationAssumption DEF RInv, Good
  <2>1. CASE UNCHANGED <<chain, owner>>
    BY <1>1, <2>1 DEF HeldIffOwned, Live
  <2>2. ASSUME NEW r \in inFlight, ActRelease(r) PROVE HeldIffOwned'
    <3>1. r \in Requests /\ r.kind = "release"
      BY <1>1, <2>2 DEF RInv, ActRelease
    <3>2. r.closed = FALSE
      BY <1>1, <2>2, <3>1 DEF Requests
    <3>3. CASE ReleaseAs(r.closed)
      BY <1>1, <3>2, <3>3, ReleaseHolds
    <3>4. CASE ~ReleaseAs(r.closed)
      BY <2>1, <2>2, <3>4 DEF ActRelease, FindsNoRow, Refuse, vars
    <3> QED
      BY <3>3, <3>4
  <2>3. ASSUME NEW r \in inFlight, ActAssign(r) PROVE HeldIffOwned'
    <3>1. r \in Requests /\ r.kind = "assign"
      BY <1>1, <2>3 DEF RInv, ActAssign
    <3>2. r.user \in Users
      BY <3>1 DEF Requests
    <3>3. CASE TakenBy(r.user)
      BY <2>0, <3>2, <3>3 DEF TakenBy, LockedRow, ClearAsk, HeldIffOwned, Live,
         LiveStatuses, Rows
    <3>4. CASE ~TakenBy(r.user)
      BY <2>1, <2>3, <3>4 DEF ActAssign, Assign, FindsNoRow, Refuse, vars
    <3> QED
      BY <3>3, <3>4
  <2>4. ASSUME NEW r \in inFlight, ActPatch(r) PROVE HeldIffOwned'
    BY <1>1, <2>4, PatchHolds
  <2>5. ASSUME NEW r \in inFlight, ActCombine(r) PROVE HeldIffOwned'
    <3>1. ~Live(Cancelled(chain))
      BY <2>0 DEF Cancelled, ClearAsk, Live, LiveStatuses, Rows
    <3> QED
      BY <2>1, <2>5, <3>1 DEF ActCombine, Refuse, vars, HeldIffOwned, Live
  <2>6. CASE Read
    BY <2>1, <2>6 DEF Read, ReadRelease, ReadAssign, ReadPatch, ReadCombine, Arrive,
       vars
  <2>7. CASE Waiting
    BY <1>1, <2>1, <2>7 DEF Waiting, FindsNoRow, LateActs
  <2>8. CASE (Locked \/ Tick \/ Elapse) /\ UNCHANGED late
    <3>1. CASE Closed => Quiet(chain)
      <4>1. IInv /\ NotifyHasNoRow
        BY <1>1, <3>1, RInvIsIInv DEF RInv
      <4>2. Next
        BY <2>8 DEF Locked, Next, People, Lifecycle
      <4> QED
        BY <1>1, <4>1, <4>2, HeldKeep
    <3>2. CASE Closed /\ ~Quiet(chain)
      BY <1>1, <2>8, <3>2, UnquietStays DEF HeldIffOwned, Live, LiveStatuses
    <3> QED
      BY <3>1, <3>2
  <2> QED
    BY <1>1, <2>2, <2>3, <2>4, <2>5, <2>6, <2>7, <2>8 DEF RNext, Act
<1>2. RInv /\ [RNext]_rvars =>
        [HeldIffOwned =>
           \/ HeldIffOwned'
           \/ \E o \in late : ActsLate(o)
           \/ \E r \in inFlight : ActRelease(r) /\ r.closed]_rvars
  BY <1>1 DEF LateActs
<1> QED
  BY <1>2, StaleReadsKeepRInv, PTL DEF RSpec, OnlyStaleParts

\* However many requests wait, only a service move can leave a run on a closed
\* incident.
THEOREM OnlyMovesPageClosed == RSpec => []ClosedUnlessMoved
<1>1. RInv => ClosedUnlessMoved
  BY DEF RInv
<1> QED
  BY <1>1, StaleReadsKeepRInv, PTL

\* Even a run a stale move leaves on a closed incident has a next time, so the
\* scheduler comes back to it and cancels it.
THEOREM StaleReadsForgetNoRun == RSpec => []LiveIsScheduled
<1>1. RInv => LiveIsScheduled
  BY DEF RInv, Good, LiveIsScheduled
<1> QED
  BY <1>1, StaleReadsKeepRInv, PTL

\* No stale read moves the deadline of an owner's lock.
THEOREM StaleReadsKeepLock == RSpec => []LockIsExact
<1>1. RInv => LockIsExact
  BY DEF RInv, Good, LockIsExact
<1> QED
  BY <1>1, StaleReadsKeepRInv, PTL

================================================================================
