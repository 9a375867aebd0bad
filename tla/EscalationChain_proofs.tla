------------------------ MODULE EscalationChain_proofs ------------------------
(***************************************************************************)
(* What EscalationChain guarantees for every set of people, every          *)
(* definition, every length of its timers and any number of rounds; at the *)
(* end, that without its timers it implements PagingLock.                  *)
(***************************************************************************)
EXTENDS EscalationChain, TLAPS

\* The time since the owner's last write is kept up to AckLock only.
IdleBounded == chain.idle <= AckLock

\* No invariant below is inductive alone: whether a lock is exact depends on
\* the row's type and on IdleBounded, whether a closed incident stays quiet on the
\* row being well formed, and so on.  Together they are.
IInv ==
    /\ TypeOK
    /\ ClosedIsQuiet
    /\ LiveIsScheduled
    /\ LockIsExact
    /\ NoticeIffExhausted
    /\ IdleBounded

\* An incident that pages nobody never gets a chain row, so handing it over
\* drops its owner without touching a lock.
NotifyHasNoRow == mode = "notify" => chain.status = "none"

\* What IInv says of a row s and the owner o it goes with.
Good(s, o) ==
    /\ s \in Rows /\ o \in Users \cup {NoUser}
    /\ Live(s) => /\ s.due # NoTime
                  /\ s.status = "paused" => s.due = s.paused
    /\ s.status = "acked" => s.idle # NoTime /\ s.due = LockDue(s)
    /\ s.noticed <=> s.status = "exhausted"
    /\ s.idle <= AckLock

Quiet(s) ==
    /\ ~Live(s) /\ s.due = NoTime /\ s.paused = NoTime /\ s.asker = NoUser

\* IInv, as the type of what is fixed and the two predicates on the row.
LEMMA IInvIsGood ==
    IInv <=> /\ incident \in {"open", "resolved", "merged"}
             /\ mode \in {"page", "escalate_immediate", "notify"}
             /\ levels \subseteq Nat
             /\ late \subseteq LateOps
             /\ Good(chain, owner)
             /\ Closed => Quiet(chain)
BY DEF IInv, TypeOK, ClosedIsQuiet, LiveIsScheduled, LockIsExact,
       NoticeIffExhausted, IdleBounded, Good, Quiet

-----------------------------------------------------------------------------
(* What the transitions of a row leave.                                    *)

\* Firing the next level leaves a row that is either running on a level above
\* the cursor, with nothing but that level scheduled, or exhausted.
Fired(s, t) ==
    /\ t \in Rows
    /\ t.idle = s.idle /\ t.round = s.round
    /\ t.asker = s.asker /\ t.askLeft = s.askLeft
    /\ t.step >= s.step
    /\ \/ /\ t.status = "running" /\ t.step > s.step
          /\ t.due # NoTime /\ t.paused = NoTime
          /\ t.noticed = s.noticed
       \/ /\ t.status = "exhausted" /\ t.noticed = TRUE
          /\ t.due = NoTime /\ t.paused = NoTime

\* _fire_next_level, on any row and any definition.
LEMMA FireNextFires ==
    ASSUME NEW s \in Rows, NEW steps \in SUBSET Nat, NEW t \in FireNext(s, steps)
    PROVE  Fired(s, t)
<1>1. CASE t \in {Page(s, l, d) : l \in {k \in steps : k > s.step}, d \in Timeouts}
  <2>1. PICK l \in steps, d \in Timeouts : l > s.step /\ t = Page(s, l, d)
    BY <1>1
  <2>2. l \in Int /\ d \in Nat /\ d # 0 /\ Ceiling \in Nat
    BY EscalationAssumption
  <2>3. t \in Rows
    BY <2>1, <2>2 DEF Page, Rows, Statuses, LiveStatuses, Timer, NoTime
  <2> QED
    BY <2>1, <2>2, <2>3 DEF Fired, Page, Rows, NoTime
<1>2. CASE t \in RunsOut(s, steps)
  <2>1. PICK l \in steps \cup {s.step} :
          l >= s.step /\ t = [Exhausted(s) EXCEPT !.step = l]
    BY <1>2 DEF RunsOut, Last, Rows
  <2>2. l \in Int
    BY DEF Rows
  <2> QED
    BY <2>1, <2>2 DEF Fired, Exhausted, Rows, Statuses, LiveStatuses, Timer, NoTime
<1> QED
  BY <1>1, <1>2 DEF FireNext

\* A first run and a restarted one, whatever the Response Mode.
LEMMA StartedFires ==
    ASSUME NEW s \in Rows, s.step = -1, NEW steps \in SUBSET Nat,
           NEW t \in Started(s, steps)
    PROVE  Fired(s, t)
<1>1. CASE t \in FireNext(s, steps)
  BY <1>1, FireNextFires
<1>2. CASE t \in FireAll(s, steps)
  <2>1. CASE t \in RunsOut(s, steps)
    BY <2>1, FireNextFires DEF FireNext
  <2>2. CASE t \in {Page(s, l, d) : l \in Last(steps), d \in Timeouts}
    <3>1. PICK l \in steps, d \in Timeouts : t = Page(s, l, d)
      BY <2>2 DEF Last
    <3>2. l \in {k \in steps : k > s.step}
      BY <3>1
    <3> QED
      BY <3>1, <3>2, <1>1 DEF FireNext
  <2> QED
    BY <1>2, <2>1, <2>2 DEF FireAll
<1> QED
  BY <1>1, <1>2 DEF Started

\* A fired row is scheduled, or exhausted and noticed.
LEMMA FiredIsGood ==
    ASSUME NEW s \in Rows, s.idle <= AckLock, s.noticed = FALSE,
           NEW t, Fired(s, t),
           NEW o \in Users \cup {NoUser}
    PROVE  Good(t, o)
BY DEF Fired, Good, Live, LiveStatuses, Rows

\* A row whose owner's lock was recomputed from its activity and snooze.
LEMMA RelockedIsGood ==
    ASSUME NEW s, NEW o, Good(s, o), s.status = "acked",
           NEW h \in Rows, h.status = "acked",
           h.noticed = FALSE, h.idle # NoTime, h.idle <= AckLock
    PROVE  Good([h EXCEPT !.due = LockDue(h)], o)
<1> DEFINE t == [h EXCEPT !.due = LockDue(h)]
<1>1. AckLock \in Nat
  BY EscalationAssumption
<1>2. LockDue(h) \in Nat
  BY <1>1 DEF LockDue, Max2, Rows, Timer, NoTime
<1>3. t \in Rows /\ t.due = LockDue(h) /\ LockDue(t) = LockDue(h)
        /\ t.idle = h.idle /\ t.status = "acked" /\ t.noticed = FALSE
  BY <1>2 DEF Rows, Timer, LockDue
<1> HIDE DEF t
<1>4. Good(t, o)
  BY <1>2, <1>3 DEF Good, Live, LiveStatuses, NoTime
<1> QED
  BY <1>4 DEF t

\* acknowledge: the row under u's lock, whoever owned the incident before.
LEMMA LockedIsGood ==
    ASSUME NEW s, NEW o, Good(s, o), NEW u \in Users, NEW n \in BOOLEAN
    PROVE  Good(LockedRow(s, n), u)
<1>1. CASE ~Live(s)
  BY <1>1 DEF LockedRow, Good, Live, LiveStatuses
<1>2. CASE Live(s)
  <2> DEFINE fresh == IF n \/ s.status # "acked"
                      THEN [ClearAsk(s) EXCEPT !.paused = NoTime] ELSE s
             held == [fresh EXCEPT !.status = "acked", !.idle = 0, !.hard = NoTime]
             t == [held EXCEPT !.due = LockDue(held)]
  <2>1. AckLock \in Nat /\ NoUser \notin Users
    BY EscalationAssumption
  <2>2. fresh \in Rows /\ fresh.noticed = s.noticed
    BY <1>2 DEF Good, ClearAsk, Rows, Timer, NoTime
  <2>3. held \in Rows /\ held.idle = 0 /\ held.status = "acked"
          /\ held.noticed = s.noticed
    BY <2>2 DEF Rows, Statuses, LiveStatuses, Timer, NoTime
  <2> HIDE DEF fresh, held
  <2>4. LockDue(held) \in Nat
    BY <2>1, <2>3 DEF LockDue, Max2, Rows, Timer, NoTime
  <2>5. t \in Rows /\ t.due = LockDue(held) /\ LockDue(t) = LockDue(held)
          /\ t.idle = 0 /\ t.status = "acked" /\ t.noticed = s.noticed
    BY <2>3, <2>4 DEF Rows, Timer, LockDue
  <2>6. s.noticed = FALSE
    BY <1>2 DEF Good, Live, LiveStatuses, Rows
  <2>7. Good(t, u)
    BY <2>1, <2>2, <2>4, <2>5, <2>6 DEF Good, Live, NoTime, LiveStatuses
  <2> QED
    BY <1>2, <2>7 DEF LockedRow, fresh, held
<1> QED
  BY <1>1, <1>2

\* release_ownership, whatever status its session has of the incident.
LEMMA ReleasedIsGood ==
    ASSUME Good(chain, owner), levels \in SUBSET Nat,
           NEW closed, ReleaseAs(closed)
    PROVE  Good(chain', owner')
<1>0. chain \in Rows /\ AckLock \in Nat /\ owner' = NoUser
  BY EscalationAssumption DEF Good, ReleaseAs
<1>1. CASE chain.status = "acked" /\ ~closed
  <2> DEFINE s == [chain EXCEPT !.idle = NoTime]
  <2>1. s \in Rows /\ s.noticed = FALSE /\ s.idle = NoTime
    BY <1>0, <1>1 DEF Good, Rows, Timer
  <2>2. Fired(s, chain')
    BY <1>1, <2>1, FireNextFires DEF ReleaseAs
  <2> HIDE DEF s
  <2>3. s.idle <= AckLock
    BY <1>0, <2>1 DEF NoTime
  <2>4. Good(chain', NoUser)
    BY <2>1, <2>2, <2>3, FiredIsGood
  <2> QED
    BY <1>0, <2>4
<1>2. CASE ~(chain.status = "acked" /\ ~closed)
  BY <1>0, <1>2 DEF ReleaseAs, Good
<1> QED
  BY <1>1, <1>2

\* Dropping a takeover request breaks nothing.
LEMMA ClearedIsGood ==
    ASSUME NEW s, NEW o, Good(s, o)
    PROVE  Good(ClearAsk(s), o) /\ (Quiet(s) => Quiet(ClearAsk(s)))
BY DEF Good, ClearAsk, Quiet, Live, LiveStatuses, Rows, Timer, NoTime, LockDue, Max2

\* cancel_live: nothing is left pending, and any owner goes with the row.
LEMMA CancelledIsQuiet ==
    ASSUME NEW s, NEW o, Good(s, o), NEW p \in Users \cup {NoUser}
    PROVE  Good(Cancelled(s), p) /\ Quiet(Cancelled(s))
<1>1. /\ Cancelled(s) \in Rows
      /\ Cancelled(s).status = IF Live(s) THEN "cancelled" ELSE s.status
      /\ Cancelled(s).due = NoTime /\ Cancelled(s).paused = NoTime
      /\ Cancelled(s).asker = NoUser
      /\ Cancelled(s).noticed = s.noticed /\ Cancelled(s).idle = s.idle
  BY DEF Good, Cancelled, ClearAsk, Rows, Timer, NoTime, Statuses, LiveStatuses, Live
<1> QED
  BY <1>1 DEF Good, Quiet, Live, LiveStatuses

\* The row a round starts from, and no row at all.
LEMMA BlankRows ==
    /\ \A r \in Nat : /\ NewRow(r) \in Rows
                     /\ NewRow(r).step = -1 /\ NewRow(r).idle = NoTime
                     /\ NewRow(r).noticed = FALSE /\ NewRow(r).round = r
    /\ \A o \in Users \cup {NoUser} : Good(NoRow, o)
    /\ Quiet(NoRow)
<1>1. AckLock \in Nat
  BY EscalationAssumption
<1>2. /\ NoRow \in Rows /\ NoRow.status = "none" /\ NoRow.noticed = FALSE
      /\ NoRow.idle = NoTime /\ NoRow.due = NoTime /\ NoRow.paused = NoTime
      /\ NoRow.asker = NoUser
  BY DEF NoRow, BlankRow, Rows, Statuses, LiveStatuses, Timer
<1>3. \A r \in Nat : /\ NewRow(r) \in Rows
                     /\ NewRow(r).step = -1 /\ NewRow(r).idle = NoTime
                     /\ NewRow(r).noticed = FALSE /\ NewRow(r).round = r
  BY DEF NewRow, BlankRow, Rows, Statuses, LiveStatuses, Timer
<1> QED
  BY <1>1, <1>2, <1>3 DEF Good, Quiet, Live, LiveStatuses, NoTime

\* The first round of an incident, and any later one: on a level, or exhausted
\* at once.
LEMMA StartedIsGood ==
    ASSUME NEW r \in Nat, NEW steps \in SUBSET Nat, NEW t \in Started(NewRow(r), steps)
    PROVE  Good(t, NoUser) /\ t.round = r
<1>1. /\ NewRow(r) \in Rows /\ NewRow(r).step = -1
      /\ NewRow(r).noticed = FALSE /\ NewRow(r).round = r
  BY BlankRows
<1>2. NewRow(r).idle <= AckLock
  BY BlankRows, EscalationAssumption DEF NoTime
<1>3. Fired(NewRow(r), t)
  BY <1>1, StartedFires
<1>4. Good(t, NoUser)
  BY <1>1, <1>2, <1>3, FiredIsGood
<1> QED
  BY <1>1, <1>3, <1>4 DEF Fired

-----------------------------------------------------------------------------
(* The inductive step, one kind of operation at a time.                    *)

\* The chain an incident starts with.
LEMMA InitGood == Init => IInv
<1> SUFFICES ASSUME Init PROVE IInv
  OBVIOUS
<1>1. levels \in SUBSET Nat /\ AckLock \in Nat
  BY EscalationAssumption DEF Init, Definitions
<1>2. Good(chain, NoUser)
  BY <1>1, BlankRows, StartedIsGood DEF Init
<1> QED
  BY <1>1, <1>2, IInvIsGood DEF Init, Closed

\* People's operations keep IInv.
LEMMA PeopleKeep == IInv /\ People /\ UNCHANGED late => IInv'
<1> SUFFICES ASSUME IInv, People, UNCHANGED late PROVE IInv'
  OBVIOUS
<1> USE DEF Closed
<1>0. /\ incident \in {"open", "resolved", "merged"}
      /\ mode \in {"page", "escalate_immediate", "notify"}
      /\ levels \in SUBSET Nat /\ chain \in Rows /\ owner \in Users \cup {NoUser}
      /\ late \subseteq LateOps /\ late' = late
      /\ Good(chain, owner) /\ (Closed => Quiet(chain))
      /\ AckLock \in Nat /\ TakeoverWindow \in Nat /\ NoUser \notin Users
  BY IInvIsGood, EscalationAssumption DEF Good
<1>1. ASSUME incident' = incident, mode' = mode, levels' \in SUBSET Nat,
             Good(chain', owner'), Closed => Quiet(chain')
      PROVE  IInv'
  BY <1>0, <1>1 DEF IInv, TypeOK, ClosedIsQuiet, LiveIsScheduled,
       LockIsExact, NoticeIffExhausted, IdleBounded, Good, Quiet
<1>2. ASSUME NEW u \in Users, TakenBy(u) PROVE IInv'
  <2>1. Good(chain', owner')
    BY <1>0, <1>2, LockedIsGood DEF TakenBy
  <2> QED
    BY <1>0, <1>1, <1>2, <2>1 DEF TakenBy
<1>3. ASSUME NEW u \in Users, ForceTakeover(u) PROVE IInv'
  <2>1. Good(LockedRow(chain, TRUE), u)
    BY <1>0, LockedIsGood
  <2>2. Good(chain', owner')
    BY <1>3, <2>1, ClearedIsGood DEF ForceTakeover
  <2> QED
    BY <1>0, <1>1, <1>3, <2>2 DEF ForceTakeover
<1>4. ASSUME NEW u \in Users, RequestTakeover(u) PROVE IInv'
  <2>1. Good(chain', owner')
    BY <1>0, <1>4 DEF RequestTakeover, Good, Live, LiveStatuses, Rows, Timer,
                      NoTime, LockDue, Max2
  <2> QED
    BY <1>0, <1>1, <1>4, <2>1 DEF RequestTakeover
<1>5. ASSUME ConfirmExpired PROVE IInv'
  BY <1>0, <1>1, <1>5, ClearedIsGood DEF ConfirmExpired
<1>6. ASSUME ConfirmTakeover PROVE IInv'
  <2>1. Good(ClearAsk(chain), owner)
    BY <1>0, ClearedIsGood
  <2>2. chain.asker \in Users
    BY <1>0, <1>6 DEF ConfirmTakeover, Rows
  <2>3. Good(chain', owner')
    BY <1>0, <1>6, <2>1, <2>2, LockedIsGood DEF ConfirmTakeover
  <2> QED
    BY <1>0, <1>1, <1>6, <2>3 DEF ConfirmTakeover
<1>7. ASSUME RecordActivity PROVE IInv'
  <2>1. Good(chain', owner')
    <3> DEFINE s == [chain EXCEPT !.idle = 0]
    <3>1. s \in Rows /\ s.status = "acked" /\ s.idle = 0 /\ s.idle <= AckLock /\ s.idle # NoTime
            /\ s.asker = chain.asker /\ s.noticed = FALSE
      BY <1>0, <1>7 DEF RecordActivity, Good, Rows, Timer, NoTime
    <3>2. chain' = [s EXCEPT !.due = LockDue(s)] /\ owner' = owner
      BY <1>7 DEF RecordActivity
    <3> HIDE DEF s
    <3>3. chain.status = "acked"
      BY <1>7 DEF RecordActivity
    <3> QED
      BY <1>0, <3>1, <3>2, <3>3, RelockedIsGood
  <2> QED
    BY <1>0, <1>1, <1>7, <2>1 DEF RecordActivity, Good, Quiet, Live, LiveStatuses
<1>8. ASSUME Release PROVE IInv'
  <2>1. Good(chain', owner')
    BY <1>0, <1>8, ReleasedIsGood DEF Release
  <2>2. Closed => chain' = chain
    BY <1>8 DEF Release, ReleaseAs
  <2> QED
    BY <1>0, <1>1, <1>8, <2>1, <2>2 DEF Release, ReleaseAs
<1>9. ASSUME NEW d \in 1 .. MaxSnooze, NEW b \in BOOLEAN, Snooze(d, b) PROVE IInv'
  <2>1. d \in Nat /\ d # 0
    BY EscalationAssumption
  <2>2. CASE chain.status = "acked"
    <3> DEFINE s == [chain EXCEPT !.paused = d, !.hard = NoTime,
                        !.idle = IF b /\ chain.status = "acked" THEN 0 ELSE @]
    <3>5. d \in Timer /\ 0 \in Timer
      BY <2>1 DEF Timer
    <3>6. s \in Rows /\ s.status = "acked" /\ s.asker = chain.asker
            /\ s.noticed = FALSE /\ s.idle \in {0, chain.idle}
      BY <1>0, <2>2, <3>5 DEF Good, Rows, Timer
    <3> HIDE DEF s
    <3>1. s.idle # NoTime /\ s.idle <= AckLock
      BY <1>0, <2>2, <3>6 DEF Good, Rows, NoTime
    <3>2. chain' = [s EXCEPT !.due = LockDue(s)] /\ owner' = owner
      BY <1>9, <2>2 DEF Snooze, s
    <3>4. Good(chain', owner')
      BY <1>0, <2>2, <3>1, <3>2, <3>6, RelockedIsGood
    <3> QED
      BY <1>0, <1>1, <1>9, <3>4 DEF Snooze
  <2>3. CASE chain.status # "acked"
    <3>1. chain' = [chain EXCEPT !.paused = d, !.hard = NoTime,
                                 !.status = "paused", !.due = d]
      BY <1>0, <1>9, <2>3 DEF Snooze, Rows
    <3>3. chain' \in Rows /\ chain'.status = "paused" /\ chain'.due = d
            /\ chain'.paused = d /\ chain'.asker = chain.asker
            /\ chain'.noticed = chain.noticed /\ chain'.idle = chain.idle
      BY <1>0, <2>1, <3>1 DEF Rows, Timer, Statuses, LiveStatuses
    <3>4. owner' = owner /\ Live(chain)
      BY <1>9 DEF Snooze
    <3>2. Good(chain', owner')
      BY <1>0, <2>1, <2>3, <3>3, <3>4 DEF Good, NoTime, Live, LiveStatuses
    <3> QED
      BY <1>0, <1>1, <1>9, <3>2 DEF Snooze
  <2> QED
    BY <2>2, <2>3
<1>10. ASSUME EscalateNow PROVE IInv'
  <2>1. PICK s \in FireNext(chain, levels) :
          chain' = IF chain.status = "acked" /\ s.status = "running"
                   THEN [[s EXCEPT !.status = "acked", !.idle = 0] EXCEPT
                           !.due = LockDue([s EXCEPT !.status = "acked", !.idle = 0])]
                   ELSE s
    BY <1>10 DEF EscalateNow
  <2>2. chain.noticed = FALSE /\ chain.idle <= AckLock /\ Live(chain)
    BY <1>0, <1>10 DEF EscalateNow, Good, Live, LiveStatuses, Rows
  <2>3. Fired(chain, s)
    BY <1>0, <2>1, FireNextFires
  <2>4. CASE chain.status = "acked" /\ s.status = "running"
    <3> DEFINE held == [s EXCEPT !.status = "acked", !.idle = 0]
    <3>3. s \in Rows /\ s.asker = chain.asker /\ s.noticed = FALSE
      BY <2>2, <2>3, <2>4 DEF Fired
    <3>5. held \in Rows /\ held.status = "acked" /\ held.idle = 0
            /\ held.asker = chain.asker /\ held.noticed = FALSE
      BY <3>3 DEF Rows, Statuses, LiveStatuses, Timer
    <3>1. held \in Rows /\ held.status = "acked"
            /\ held.asker = chain.asker /\ held.noticed = FALSE
            /\ held.idle # NoTime /\ held.idle <= AckLock
      BY <1>0, <3>5 DEF NoTime
    <3>2. chain' = [held EXCEPT !.due = LockDue(held)] /\ owner' = owner
      BY <1>10, <2>1, <2>4 DEF EscalateNow
    <3> HIDE DEF held
    <3>4. Good(chain', owner')
      BY <1>0, <2>4, <3>1, <3>2, RelockedIsGood
    <3> QED
      BY <1>0, <1>1, <1>10, <3>4 DEF EscalateNow
  <2>5. CASE ~(chain.status = "acked" /\ s.status = "running")
    <3>1. chain' = s /\ owner' = owner
      BY <1>10, <2>1, <2>5 DEF EscalateNow
    <3>2. Good(chain', owner')
      BY <1>0, <2>2, <2>3, <3>1, FiredIsGood
    <3> QED
      BY <1>0, <1>1, <1>10, <3>2 DEF EscalateNow
  <2> QED
    BY <2>4, <2>5
<1> QED
  BY <1>2, <1>3, <1>4, <1>5, <1>6, <1>7, <1>8, <1>9, <1>10
     DEF People, Acknowledge, Assign

\* The incident's lifecycle keeps IInv: every way to close it cancels its run,
\* and every way to page it again drops its owner.
LEMMA LifecycleKeep ==
    IInv /\ NotifyHasNoRow /\ Lifecycle /\ UNCHANGED late => IInv'
<1> SUFFICES ASSUME IInv, NotifyHasNoRow, Lifecycle, UNCHANGED late PROVE IInv'
  OBVIOUS
<1>0. /\ incident \in {"open", "resolved", "merged"}
      /\ mode \in {"page", "escalate_immediate", "notify"}
      /\ levels \in SUBSET Nat /\ owner \in Users \cup {NoUser}
      /\ late \subseteq LateOps /\ late' = late
      /\ Good(chain, owner) /\ (Closed => Quiet(chain))
  BY IInvIsGood DEF Good
<1>1. ASSUME incident' \in {"open", "resolved", "merged"}, mode' = mode,
             levels' \in SUBSET Nat, Good(chain', owner'),
             incident' = "open" \/ Quiet(chain')
      PROVE  IInv'
  BY <1>0, <1>1 DEF IInv, TypeOK, ClosedIsQuiet, LiveIsScheduled,
       LockIsExact, NoticeIffExhausted, IdleBounded, Good, Quiet,
       Closed
<1>2. CASE Resolve
  BY <1>0, <1>1, <1>2, CancelledIsQuiet DEF Resolve
<1>3. CASE Combine
  BY <1>0, <1>1, <1>3, CancelledIsQuiet DEF Combine
<1>4. ASSUME NEW d \in Definitions, RestartOn(d)
      PROVE  levels' \in SUBSET Nat /\ Good(chain', NoUser)
  <2>1. d \in SUBSET Nat
    BY EscalationAssumption DEF Definitions
  <2>2. chain.round + 1 \in Nat
    BY <1>0 DEF Good, Rows
  <2>3. PICK r \in Nat : chain' \in Started(NewRow(r), d)
    BY <1>4, <2>2 DEF RestartOn, Restarted
  <2> QED
    BY <1>4, <2>1, <2>3, StartedIsGood DEF RestartOn
<1>5. CASE Reopen
  <2>1. Good(chain, NoUser)
    BY <1>0, <1>5 DEF Reopen, Closed, Quiet, Good, Live, LiveStatuses
  <2>2. levels' \in SUBSET Nat /\ Good(chain', owner')
    BY <1>0, <1>4, <1>5, <2>1 DEF Reopen
  <2> QED
    BY <1>1, <1>5, <2>2 DEF Reopen
<1>6. CASE UnmergeByPatch
  BY <1>0, <1>1, <1>6 DEF UnmergeByPatch
<1>7. CASE Handoff
  <2>1. CASE Pages
    BY <1>0, <1>1, <1>4, <1>7, <2>1, CancelledIsQuiet DEF Handoff
  <2>2. CASE ~Pages
    <3>1. Good(chain, NoUser)
      BY <1>0, <2>2 DEF Pages, NotifyHasNoRow, Good, Live, LiveStatuses
    <3> QED
      BY <1>0, <1>1, <1>7, <2>2, <3>1, ClearedIsGood DEF Handoff
  <2> QED
    BY <2>1, <2>2
<1> QED
  BY <1>2, <1>3, <1>5, <1>6, <1>7 DEF Lifecycle

\* An operation on no row leaves no row, unless it pages.
LEMMA NotifyKeeps == IInv /\ NotifyHasNoRow /\ Next => NotifyHasNoRow'
<1> SUFFICES ASSUME chain \in Rows, mode' = "notify", NotifyHasNoRow, Next
             PROVE  chain'.status = "none"
  BY DEF IInv, TypeOK, NotifyHasNoRow
<1>1. mode' = mode
  BY DEF Next, People, Acknowledge, Assign, TakenBy, ForceTakeover, RequestTakeover,
     ConfirmExpired, ConfirmTakeover, RecordActivity, Release, ReleaseAs, Snooze,
     EscalateNow, Late, FindsNoRow, ActsLate, Lifecycle, Resolve, Combine, Reopen, UnmergeByPatch, Handoff,
     Definition, DeleteLevel, AddLevel, ReorderLevels, DeleteChain,
     Tick, TickSettles, TickHoldsLevel, TickFires, TickLapses,
     Elapse
<1>2. chain.status = "none" /\ ~Live(chain) /\ ~Pages
  BY <1>1 DEF NotifyHasNoRow, Live, LiveStatuses, Pages
<1>3. CASE People
  BY <1>2, <1>3 DEF People, Acknowledge, Assign, TakenBy, ForceTakeover,
     RequestTakeover, ConfirmExpired, ConfirmTakeover, RecordActivity, Release,
     ReleaseAs, Snooze, EscalateNow, LockedRow, ClearAsk, Live, LiveStatuses, Rows
<1>4. CASE Lifecycle
  BY <1>2, <1>4 DEF Lifecycle, Resolve, Combine, Reopen, UnmergeByPatch, Handoff,
     Cancelled, ClearAsk, Rows
<1>5. CASE Definition
  BY <1>2, <1>5 DEF Definition, DeleteLevel, AddLevel, ReorderLevels, DeleteChain,
     NoRow, BlankRow
<1>6. CASE Tick
  BY <1>2, <1>6 DEF Tick, TickSettles, TickHoldsLevel, TickFires,
     TickLapses, Due, Ticked, ClearAsk, Rows
<1>7. CASE Elapse
  BY <1>2, <1>7 DEF Elapse, Rows
<1>8. CASE Late
  BY <1>2, <1>8 DEF Late, FindsNoRow, ActsLate
<1> QED
  BY <1>3, <1>4, <1>5, <1>6, <1>7, <1>8 DEF Next

\* Edits of the definition keep IInv: they move a run, they never end its lock.
LEMMA DefinitionKeep == IInv /\ Definition /\ UNCHANGED late => IInv'
<1> SUFFICES ASSUME IInv, Definition, UNCHANGED late PROVE IInv'
  OBVIOUS
<1>0. /\ incident \in {"open", "resolved", "merged"}
      /\ mode \in {"page", "escalate_immediate", "notify"}
      /\ levels \in SUBSET Nat /\ owner \in Users \cup {NoUser}
      /\ late \subseteq LateOps /\ late' = late
      /\ chain \in Rows /\ Good(chain, owner) /\ (Closed => Quiet(chain))
  BY IInvIsGood DEF Good
<1>1. ASSUME UNCHANGED <<incident, mode, owner>>, levels' \in SUBSET Nat,
             Good(chain', owner), Quiet(chain) => Quiet(chain')
      PROVE  IInv'
  BY <1>0, <1>1 DEF IInv, TypeOK, ClosedIsQuiet, LiveIsScheduled,
       LockIsExact, NoticeIffExhausted, IdleBounded, Good, Quiet,
       Closed
<1>2. ASSUME NEW l \in levels, DeleteLevel(l) PROVE IInv'
  <2>1. levels' \in SUBSET Nat
    BY <1>2 DEF DeleteLevel
  <2>2. CASE Live(chain) /\ chain' # chain
    <3> DEFINE c == IF chain.step >= l THEN chain.step - 1 ELSE chain.step
    <3>1. c \in Int /\ chain.round + 1 \in Nat
      BY <1>0 DEF Rows
    <3>2. chain' = [chain EXCEPT !.step = c, !.round = chain.round + 1]
      BY <1>2, <2>2 DEF DeleteLevel
    <3> HIDE DEF c
    <3>3. chain' \in Rows /\ chain'.status = chain.status
            /\ chain'.due = chain.due /\ chain'.paused = chain.paused
            /\ chain'.idle = chain.idle /\ chain'.asker = chain.asker
            /\ chain'.noticed = chain.noticed
      BY <1>0, <3>1, <3>2 DEF Rows
    <3>4. Good(chain', owner)
      BY <1>0, <3>3 DEF Good, Live, LockDue
    <3>5. ~Quiet(chain)
      BY <2>2 DEF Quiet
    <3> QED
      BY <1>1, <1>2, <2>1, <3>4, <3>5 DEF DeleteLevel
  <2>3. CASE chain' = chain
    BY <1>0, <1>1, <1>2, <2>1, <2>3 DEF DeleteLevel
  <2> QED
    BY <1>2, <2>2, <2>3 DEF DeleteLevel
<1>3. ASSUME NEW l \in 0 .. MaxLevel, AddLevel(l) PROVE IInv'
  BY <1>0, <1>1, <1>3 DEF AddLevel
<1>4. CASE ReorderLevels
  <2>1. levels' \in SUBSET Nat
    BY <1>4 DEF ReorderLevels
  <2>2. UNCHANGED <<incident, mode, owner>> /\ chain' = chain
    BY <1>4 DEF ReorderLevels
  <2> QED
    BY <1>0, <1>1, <2>1, <2>2
<1>5. CASE DeleteChain
  BY <1>0, <1>1, <1>5, BlankRows DEF DeleteChain
<1> QED
  BY <1>2, <1>3, <1>4, <1>5 DEF Definition

\* A tick keeps IInv: it takes the owner along with the lock, or neither.
LEMMA TickKeep == IInv /\ Tick /\ UNCHANGED late => IInv'
<1> SUFFICES ASSUME IInv, Tick, UNCHANGED late PROVE IInv'
  OBVIOUS
<1>0. /\ incident \in {"open", "resolved", "merged"}
      /\ mode \in {"page", "escalate_immediate", "notify"}
      /\ levels \in SUBSET Nat /\ owner \in Users \cup {NoUser}
      /\ late \subseteq LateOps /\ late' = late
      /\ Good(chain, owner) /\ (Closed => Quiet(chain))
  BY IInvIsGood DEF Good
<1>1. ASSUME UNCHANGED <<incident, mode, levels>>, Good(chain', owner'),
             Quiet(chain) => Quiet(chain')
      PROVE  IInv'
  BY <1>0, <1>1 DEF IInv, TypeOK, ClosedIsQuiet, LiveIsScheduled,
       LockIsExact, NoticeIffExhausted, IdleBounded, Good, Quiet,
       Closed
<1>2. Good(Ticked, owner) /\ Ticked.status = chain.status
        /\ (Quiet(chain) => Quiet(Ticked))
  <2>1. /\ Good(ClearAsk(chain), owner)
        /\ Quiet(chain) => Quiet(ClearAsk(chain))
    BY <1>0, ClearedIsGood
  <2>2. ClearAsk(chain).status = chain.status
    BY <1>0 DEF ClearAsk, Good, Rows
  <2> QED
    BY <1>0, <2>1, <2>2 DEF Ticked
<1>3. Ticked \in Rows /\ Ticked.idle <= AckLock
        /\ (Live(chain) => Ticked.noticed = FALSE /\ ~Quiet(chain))
  BY <1>2 DEF Good, Live, LiveStatuses, Rows, Quiet
<1>4. CASE TickSettles
  <2>1. chain' = Ticked /\ UNCHANGED <<incident, mode, owner, levels>>
    BY <1>0, <1>4 DEF TickSettles, Quiet
  <2> QED
    BY <1>1, <1>2, <2>1
<1>5. CASE TickHoldsLevel
  <2>1. PICK hold \in 1 .. chain.hard : chain' = [Ticked EXCEPT !.due = hold]
    BY <1>5 DEF TickHoldsLevel
  <2>2. hold \in Nat /\ hold # NoTime
    BY <1>0, <2>1 DEF Good, Rows, Timer, NoTime
  <2>3. Ticked.status = "running" /\ Live(chain) /\ owner' = owner
    BY <1>2, <1>5 DEF TickHoldsLevel, Due
  <2>4. chain' \in Rows /\ chain'.status = "running" /\ chain'.due = hold
          /\ chain'.asker = Ticked.asker /\ chain'.noticed = Ticked.noticed
          /\ chain'.idle = Ticked.idle
    BY <1>3, <2>1, <2>2, <2>3 DEF Rows, Timer
  <2>5. Good(chain', owner')
    BY <1>2, <2>2, <2>3, <2>4 DEF Good, Live, LiveStatuses
  <2> QED
    BY <1>1, <1>3, <1>5, <2>3, <2>5 DEF TickHoldsLevel
<1>6. CASE TickFires
  <2>1. Fired(Ticked, chain')
    BY <1>0, <1>3, <1>6, FireNextFires DEF TickFires
  <2>2. Live(chain) /\ owner' = owner
    BY <1>6 DEF TickFires, Due
  <2>3. Good(chain', owner')
    BY <1>0, <1>3, <2>1, <2>2, FiredIsGood
  <2> QED
    BY <1>1, <1>3, <1>6, <2>2, <2>3 DEF TickFires
<1>7. CASE TickLapses
  <2>1. Live(chain)
    BY <1>7 DEF TickLapses, Due
  <2>2. CASE \E l \in levels : l > chain.step
    <3>1. Fired(Ticked, chain') /\ owner' = NoUser
      BY <1>0, <1>3, <1>7, <2>2, FireNextFires DEF TickLapses
    <3>2. Good(chain', owner')
      BY <1>3, <2>1, <3>1, FiredIsGood
    <3> QED
      BY <1>1, <1>3, <1>7, <2>1, <3>2 DEF TickLapses
  <2>3. CASE ~\E l \in levels : l > chain.step
    <3>1. chain' = Exhausted(Ticked) /\ owner' = owner
      BY <1>7, <2>3 DEF TickLapses
    <3>2. chain' \in Rows /\ chain'.status = "exhausted" /\ chain'.noticed = TRUE
            /\ chain'.idle = Ticked.idle
      BY <1>3, <3>1 DEF Exhausted, Rows, Statuses, Timer
    <3>3. Good(chain', owner')
      BY <1>0, <1>3, <3>1, <3>2 DEF Good, Live, LiveStatuses
    <3> QED
      BY <1>1, <1>3, <1>7, <2>1, <3>3 DEF TickLapses
  <2> QED
    BY <2>2, <2>3
<1> QED
  BY <1>4, <1>5, <1>6, <1>7 DEF Tick

\* Time passing keeps IInv: the lock's time and the owner's inactivity meet,
\* since the one falls as the other rises.
LEMMA ElapseKeep == IInv /\ Elapse /\ UNCHANGED late => IInv'
<1> SUFFICES ASSUME IInv, Elapse, UNCHANGED late PROVE IInv'
  OBVIOUS
<1>0. /\ incident \in {"open", "resolved", "merged"}
      /\ mode \in {"page", "escalate_immediate", "notify"}
      /\ levels \in SUBSET Nat /\ owner \in Users \cup {NoUser}
      /\ late \subseteq LateOps /\ late' = late
      /\ chain \in Rows /\ Good(chain, owner) /\ (Closed => Quiet(chain))
      /\ AckLock \in Nat
  BY IInvIsGood, EscalationAssumption DEF Good
<1>1. /\ chain'.status = chain.status /\ chain'.asker = chain.asker
      /\ chain'.noticed = chain.noticed
      /\ chain'.due = Down(chain.due) /\ chain'.paused = Down(chain.paused)
      /\ chain'.idle = IF 0 <= chain.idle /\ chain.idle < AckLock
                       THEN chain.idle + 1 ELSE chain.idle
  BY <1>0 DEF Elapse, Rows
<1>2. chain' \in Rows
  <2>1. \A t \in Timer : Down(t) \in Timer
    BY DEF Timer, NoTime, Down
  <2>2. \A t \in Timer :
          (IF 0 <= t /\ t < AckLock THEN t + 1 ELSE t) \in Timer
    BY DEF Timer, NoTime
  <2> QED
    BY <1>0, <2>1, <2>2 DEF Elapse, Rows
<1>3. /\ Down(chain.due) = NoTime <=> chain.due = NoTime
      /\ Down(chain.paused) = NoTime <=> chain.paused = NoTime
      /\ chain'.idle <= AckLock
      /\ chain'.idle = NoTime <=> chain.idle = NoTime
  BY <1>0, <1>1 DEF Good, Rows, Timer, NoTime, Down
<1>4. ASSUME chain.status = "acked" PROVE chain'.due = LockDue(chain')
  <2>1. chain.due = LockDue(chain) /\ chain.idle \in Nat /\ chain.idle <= AckLock
    BY <1>0, <1>4 DEF Good, Rows, Timer
  <2>2. chain.paused \in Nat \/ chain.paused = -1
    BY <1>0 DEF Rows, Timer, NoTime
  <2> QED
    BY <1>0, <1>1, <2>1, <2>2 DEF LockDue, Max2, Down
<1>5. Good(chain', owner')
  BY <1>0, <1>1, <1>2, <1>3, <1>4 DEF Good, Live, LiveStatuses, Elapse
<1>6. Closed' => Quiet(chain')
  BY <1>0, <1>1, <1>3 DEF Quiet, Live, Elapse, Closed
<1> QED
  BY <1>0, <1>5, <1>6 DEF IInv, TypeOK, ClosedIsQuiet,
     LiveIsScheduled, LockIsExact, NoticeIffExhausted,
     IdleBounded, Good, Quiet, Closed, Elapse

\* What found no chain row changes the owner and nothing of the row.
LEMMA LateKeep == IInv /\ Late => IInv'
<1> SUFFICES ASSUME IInv, Late PROVE IInv'
  OBVIOUS
<1>0. /\ incident \in {"open", "resolved", "merged"}
      /\ mode \in {"page", "escalate_immediate", "notify"}
      /\ levels \subseteq Nat /\ owner \in Users \cup {NoUser}
      /\ late \subseteq LateOps
      /\ Good(chain, owner) /\ (Closed => Quiet(chain))
  BY IInvIsGood DEF Good
<1>1. ASSUME UNCHANGED <<incident, mode, levels, chain>>,
             owner' \in Users \cup {NoUser}, late' \subseteq LateOps
      PROVE  IInv'
  BY <1>0, <1>1 DEF IInv, TypeOK, ClosedIsQuiet, LiveIsScheduled, LockIsExact,
     NoticeIffExhausted, IdleBounded, Good, Quiet, Closed
<1>2. ASSUME NEW o \in LateOps, FindsNoRow(o) PROVE IInv'
  BY <1>0, <1>1, <1>2 DEF FindsNoRow
<1>3. ASSUME NEW o \in late, ActsLate(o) PROVE IInv'
  <2>1. o.to \in Users \cup {NoUser}
    BY <1>0 DEF LateOps
  <2> QED
    BY <1>0, <1>1, <1>3, <2>1 DEF ActsLate
<1>4. /\ LateRelease \in LateOps
      /\ \A u \in Users : LateAssign(u, Users \cup {NoUser}) \in LateOps
  BY DEF LateRelease, LateAssign, LateOps
<1> QED
  BY <1>2, <1>3, <1>4 DEF Late

-----------------------------------------------------------------------------
(* The theorems.                                                           *)

\* Every step keeps IInv.
LEMMA NextKeep == IInv /\ NotifyHasNoRow /\ [Next]_vars => IInv'
<1>1. IInv /\ UNCHANGED vars => IInv'
  BY DEF vars, IInv, TypeOK, ClosedIsQuiet, LiveIsScheduled, LockIsExact,
     NoticeIffExhausted, IdleBounded, Closed, Live, LockDue
<1> QED
  BY <1>1, PeopleKeep, LifecycleKeep, DefinitionKeep, TickKeep, ElapseKeep, LateKeep
     DEF Next

\* The inductive invariant holds of every behaviour of the chain.
THEOREM Inductive == Spec => [](IInv /\ NotifyHasNoRow)
<1>1. Init => IInv /\ NotifyHasNoRow
  BY InitGood DEF Init, NotifyHasNoRow, Pages, NoRow, BlankRow
<1>2. IInv /\ NotifyHasNoRow /\ [Next]_vars => (IInv /\ NotifyHasNoRow)'
  BY NextKeep, NotifyKeeps DEF vars, NotifyHasNoRow
<1> QED
  BY <1>1, <1>2, PTL DEF Spec

\* Every row the operations write has the type of its columns.
THEOREM TypeCorrect == Spec => []TypeOK
<1>1. IInv => TypeOK
  BY DEF IInv
<1> QED
  BY <1>1, Inductive, PTL

\* Closing an incident, by any route, leaves its chain nothing to do.
THEOREM ClosedStaysQuiet == Spec => []ClosedIsQuiet
<1>1. IInv => ClosedIsQuiet
  BY DEF IInv
<1> QED
  BY <1>1, Inductive, PTL

\* No live chain is ever left without a time to be looked at.
THEOREM NeverForgotten == Spec => []LiveIsScheduled
<1>1. IInv => LiveIsScheduled
  BY DEF IInv
<1> QED
  BY <1>1, Inductive, PTL

\* The lock's deadline is always that of the owner's last write and snooze.
THEOREM LockStaysExact == Spec => []LockIsExact
<1>1. IInv => LockIsExact
  BY DEF IInv
<1> QED
  BY <1>1, Inductive, PTL

\* The exhaustion mark is kept exactly while the run is exhausted.
THEOREM NoticedOnce == Spec => []NoticeIffExhausted
<1>1. IInv => NoticeIffExhausted
  BY DEF IInv
<1> QED
  BY <1>1, Inductive, PTL

-----------------------------------------------------------------------------
(* What no step of EscalationChain does, and that it implements PagingLock. *)

\* What the lemmas below take from the inductive invariant.
LEMMA Facts ==
    IInv => /\ chain \in Rows /\ owner \in Users \cup {NoUser}
            /\ levels \in SUBSET Nat /\ Good(chain, owner)
            /\ Closed => ~Live(chain)
            /\ Ticked \in Rows
            /\ Ticked.status = chain.status /\ Ticked.step = chain.step
            /\ Ticked.round = chain.round
<1> SUFFICES ASSUME IInv PROVE /\ Ticked \in Rows
                               /\ Ticked.status = chain.status
                               /\ Ticked.step = chain.step
                               /\ Ticked.round = chain.round
  BY IInvIsGood DEF Good, Quiet
<1> QED
  BY DEF IInv, TypeOK, Ticked, ClearAsk, Rows, Timer

\* A restart begins a later round, on a row that is running or exhausted.
LEMMA RestartsLater ==
    ASSUME IInv, NEW d \in Definitions, RestartOn(d)
    PROVE  /\ chain'.status \in {"running", "exhausted"} /\ chain'.step \in Int
           /\ chain'.round = IF chain.status = "none" THEN 0 ELSE chain.round + 1
<1> DEFINE r == IF chain.status = "none" THEN 0 ELSE chain.round + 1
<1>1. r \in Nat /\ d \in SUBSET Nat
  BY Facts, EscalationAssumption DEF Rows, Definitions
<1>2. chain' \in Started(NewRow(r), d)
  BY DEF RestartOn, Restarted
<1> HIDE DEF r
<1>3. Fired(NewRow(r), chain')
  BY <1>1, <1>2, BlankRows, StartedFires
<1>4. NewRow(r).round = r
  BY <1>1, BlankRows
<1> QED
  BY <1>3, <1>4 DEF Fired, Rows, r

-----------------------------------------------------------------------------
(* Action properties.                                                      *)

\* The scheduler takes an incident from its owner only after AckLock without a
\* write of theirs and not before their snooze ended: the exact lock makes the
\* moment it comes due the moment both have passed.
THEOREM LapsesOnTime == Spec => LapsesOnlyWhenIdle
<1>1. ASSUME IInv, Tick, owner' # owner
      PROVE  chain.idle = AckLock /\ chain.paused \in {NoTime, 0}
  <2>1. chain.due = 0 /\ chain.status = "acked"
    BY <1>1 DEF Tick, TickSettles, TickHoldsLevel, TickFires, TickLapses, Due
  <2>2. LockDue(chain) = 0 /\ chain.idle # NoTime
    BY <1>1, <2>1 DEF IInv, LockIsExact
  <2>3. chain.idle \in Nat /\ chain.idle <= AckLock /\ AckLock \in Nat
          /\ (chain.paused \in Nat \/ chain.paused = -1)
    BY <1>1, <2>2, Facts, EscalationAssumption DEF Rows, Timer, NoTime, IInv, IdleBounded
  <2> QED
    BY <2>2, <2>3 DEF LockDue, Max2, NoTime
<1>2. IInv => [Tick /\ owner' # owner =>
                 chain.idle = AckLock /\ chain.paused \in {NoTime, 0}]_vars
  BY <1>1
<1> QED
  BY <1>2, Inductive, PTL DEF LapsesOnlyWhenIdle

-----------------------------------------------------------------------------
(* Each step, seen without timers.                                         *)

PhaseOf(s) == IF s.status \in {"running", "paused"} THEN "paging"
              ELSE IF s.status = "acked" THEN "held" ELSE "idle"

\* Rows s and t look the same without timers; a pause is not undone.
Same(s, t) ==
    /\ PhaseOf(t) = PhaseOf(s) /\ t.step = s.step /\ t.round = s.round
    /\ t.status = "running" => s.status = "running"
    /\ t.status = "none" <=> s.status = "none"

\* A step of a live run from row s and owner o to row t and owner p.
LiveStep(s, o, t, p) ==
    /\ Live(s) /\ t.status # "none"
    /\ \/ /\ t.round = s.round
          /\ \/ p \in Users /\ t.status = "acked" /\ t.step = s.step
             \/ p = o /\ PhaseOf(t) = PhaseOf(s) /\ t.step > s.step
             \/ s.status = "acked" /\ t.status = "running" /\ p = NoUser
                  /\ t.step > s.step
             \/ p \in {o, NoUser} /\ ~Live(t) /\ t.step >= s.step
       \/ /\ p = o /\ PhaseOf(t) = PhaseOf(s)
          /\ t.round = s.round + 1 /\ t.step \in {s.step - 1, s.step}

\* A later round begins, or the first one.
Restart(s, t, p) ==
    /\ t.status \in {"running", "exhausted"} /\ t.step \in Int /\ p = NoUser
    /\ t.round = IF s.status = "none" THEN 0 ELSE s.round + 1

Seen(s, o, t, p) ==
    \/ /\ Same(s, t)
       /\ \/ p = o
          \/ p \in Users \cup {NoUser} /\ ~Live(s)
          \/ p = NoUser /\ s.status # "acked"
    \/ LiveStep(s, o, t, p)
    \/ Restart(s, t, p)
    \/ t = NoRow /\ p = o

\* A fired level is a climb or the end of a paging run, and of a held one its
\* resumption or end.
LEMMA FiredIsSeen ==
    ASSUME NEW s \in Rows, NEW r \in Rows, NEW t, Fired(r, t),
           r.step = s.step, r.round = s.round, r.status = s.status,
           NEW o, NEW p, Live(s),
           (p = NoUser /\ s.status = "acked") \/ (p = o /\ s.status # "acked")
    PROVE  Seen(s, o, t, p)
BY DEF Fired, Seen, LiveStep, Same, PhaseOf, Live, LiveStatuses, Rows

\* A row whose timers, request or lock changed, and nothing else.
LEMMA SameIsSeen ==
    ASSUME NEW s, NEW t, NEW o, t.status = s.status, t.step = s.step, t.round = s.round
    PROVE  Seen(s, o, t, o)
<1>1. PhaseOf(t) = PhaseOf(s)
  BY DEF PhaseOf
<1>2. Same(s, t)
  BY <1>1 DEF Same
<1> QED
  BY <1>2 DEF Seen

\* acknowledge: whoever the new owner is, the chain is held by them.
LEMMA LockedIsSeen ==
    ASSUME NEW s \in Rows, NEW o, NEW n \in BOOLEAN, NEW u \in Users,
           NEW t, t.status = LockedRow(s, n).status, t.step = LockedRow(s, n).step,
           t.round = LockedRow(s, n).round
    PROVE  Seen(s, o, t, u)
<1>1. CASE Live(s)
  <2>1. LockedRow(s, n).status = "acked" /\ LockedRow(s, n).step = s.step
          /\ LockedRow(s, n).round = s.round
    BY <1>1 DEF LockedRow, ClearAsk, Rows
  <2> QED
    BY <1>1, <2>1 DEF Seen, LiveStep
<1>2. CASE ~Live(s)
  BY <1>2 DEF LockedRow, Seen, Same, PhaseOf
<1> QED
  BY <1>1, <1>2

\* cancel_live: a live run ends, and any other stays as it is.
LEMMA CancelledIsSeen ==
    ASSUME NEW s \in Rows, NEW o \in Users \cup {NoUser}, NEW p \in {o, NoUser}
    PROVE  Seen(s, o, Cancelled(s), p)
<1>1. Cancelled(s).status = (IF Live(s) THEN "cancelled" ELSE s.status)
        /\ Cancelled(s).step = s.step /\ Cancelled(s).round = s.round
  BY DEF Cancelled, ClearAsk, Live, Rows
<1>2. s.step \in Int
  BY DEF Rows
<1> QED
  BY <1>1, <1>2 DEF Seen, Same, LiveStep, PhaseOf, Live, LiveStatuses

\* release_ownership resumes a held run, and else only drops the owner, whom
\* then nothing was held for.
LEMMA ReleasedIsSeen ==
    ASSUME chain \in Rows, levels \in SUBSET Nat, ReleaseAs(Closed),
           Closed => ~Live(chain)
    PROVE  Seen(chain, owner, chain', owner')
<1>1. CASE chain.status = "acked" /\ ~Closed
  <2> DEFINE s == [chain EXCEPT !.idle = NoTime]
  <2>1. s \in Rows /\ s.step = chain.step /\ s.round = chain.round
          /\ s.status = chain.status
    BY DEF Rows, Timer
  <2>2. Fired(s, chain')
    BY <1>1, <2>1, FireNextFires DEF ReleaseAs
  <2>3. Live(chain) /\ owner' = NoUser
    BY <1>1 DEF ReleaseAs, Live, LiveStatuses
  <2> QED
    BY <1>1, <2>1, <2>2, <2>3, FiredIsSeen
<1>2. CASE ~(chain.status = "acked" /\ ~Closed)
  <2>1. chain' = chain /\ owner' = NoUser /\ chain.status # "acked"
    BY <1>2 DEF ReleaseAs, Live, LiveStatuses
  <2> QED
    BY <2>1 DEF Seen, Same
<1> QED
  BY <1>1, <1>2

\* People's operations, seen without timers.
LEMMA PeopleSeen == IInv /\ People => Seen(chain, owner, chain', owner')
<1> SUFFICES ASSUME IInv, People PROVE Seen(chain, owner, chain', owner')
  OBVIOUS
<1>0. chain \in Rows /\ levels \in SUBSET Nat /\ owner \in Users \cup {NoUser}
        /\ (Closed => ~Live(chain))
  BY Facts
<1>1. ASSUME NEW u \in Users, TakenBy(u) PROVE Seen(chain, owner, chain', owner')
  BY <1>0, <1>1, LockedIsSeen DEF TakenBy
<1>2. ASSUME NEW u \in Users, ForceTakeover(u)
      PROVE  Seen(chain, owner, chain', owner')
  <2>1. LockedRow(chain, TRUE) \in Rows
    BY <1>0, <1>2, Facts, LockedIsGood DEF Good
  <2>2. chain' = ClearAsk(LockedRow(chain, TRUE)) /\ owner' = u
    BY <1>2 DEF ForceTakeover
  <2>3. chain'.status = LockedRow(chain, TRUE).status
          /\ chain'.step = LockedRow(chain, TRUE).step
          /\ chain'.round = LockedRow(chain, TRUE).round
    BY <2>1, <2>2 DEF ClearAsk, Rows
  <2> QED
    BY <1>0, <2>2, <2>3, LockedIsSeen
<1>3. ASSUME NEW u \in Users, RequestTakeover(u)
      PROVE  Seen(chain, owner, chain', owner')
  BY <1>0, <1>3, SameIsSeen DEF RequestTakeover, Rows
<1>4. CASE ConfirmExpired
  BY <1>0, <1>4, SameIsSeen DEF ConfirmExpired, ClearAsk, Rows
<1>5. CASE ConfirmTakeover
  <2>1. ClearAsk(chain) \in Rows /\ ClearAsk(chain).status = chain.status
          /\ ClearAsk(chain).step = chain.step /\ ClearAsk(chain).round = chain.round
    BY <1>0 DEF ClearAsk, Rows, Timer
  <2>2. CASE chain' = ClearAsk(chain) /\ owner' = owner
    BY <2>1, <2>2, SameIsSeen
  <2>3. CASE owner' = chain.asker
               /\ chain' = LockedRow(ClearAsk(chain), owner # chain.asker)
    <3>1. chain.asker \in Users
      BY <1>0, <1>5 DEF ConfirmTakeover, Rows
    <3>2. Seen(ClearAsk(chain), owner, chain', owner')
      BY <2>1, <2>3, <3>1, LockedIsSeen
    <3> QED
      BY <2>1, <3>2 DEF Seen, Same, LiveStep, Restart, PhaseOf, Live
  <2> QED
    BY <1>5, <2>2, <2>3 DEF ConfirmTakeover
<1>6. CASE RecordActivity
  BY <1>0, <1>6, SameIsSeen DEF RecordActivity, Rows
<1>7. CASE Release
  BY <1>0, <1>7, ReleasedIsSeen DEF Release
<1>8. ASSUME NEW d \in 1 .. MaxSnooze, NEW b \in BOOLEAN, Snooze(d, b)
      PROVE  Seen(chain, owner, chain', owner')
  <2>1. /\ chain'.step = chain.step /\ chain'.round = chain.round
        /\ chain'.status = IF chain.status = "acked" THEN "acked" ELSE "paused"
        /\ owner' = owner /\ Live(chain)
    BY <1>0, <1>8 DEF Snooze, Rows
  <2> QED
    <3>1. PhaseOf(chain') = PhaseOf(chain)
      BY <2>1 DEF PhaseOf, Live, LiveStatuses
    <3>2. Same(chain, chain')
      BY <2>1, <3>1 DEF Same, Live, LiveStatuses
    <3> QED
      BY <2>1, <3>2 DEF Seen
<1>9. CASE EscalateNow
  <2>1. PICK s \in FireNext(chain, levels) :
          chain' = IF chain.status = "acked" /\ s.status = "running"
                   THEN [[s EXCEPT !.status = "acked", !.idle = 0] EXCEPT
                           !.due = LockDue([s EXCEPT !.status = "acked", !.idle = 0])]
                   ELSE s
    BY <1>9 DEF EscalateNow
  <2>2. Fired(chain, s) /\ s \in Rows
    BY <1>0, <2>1, FireNextFires DEF Fired
  <2>3. Live(chain) /\ owner' = owner
    BY <1>9 DEF EscalateNow
  <2>4. CASE chain.status = "acked" /\ s.status = "running"
    <3>1. chain'.status = "acked" /\ chain'.step = s.step /\ chain'.round = s.round
      BY <2>1, <2>2, <2>4 DEF Rows
    <3> QED
      BY <2>2, <2>3, <2>4, <3>1 DEF Fired, Seen, LiveStep, PhaseOf
  <2>5. CASE ~(chain.status = "acked" /\ s.status = "running")
    BY <1>0, <2>1, <2>2, <2>3, <2>5
       DEF Fired, Seen, LiveStep, Same, PhaseOf, Live, LiveStatuses, Rows
  <2> QED
    BY <2>4, <2>5
<1> QED
  BY <1>1, <1>2, <1>3, <1>4, <1>5, <1>6, <1>7, <1>8, <1>9
     DEF People, Acknowledge, Assign

\* Closing, reopening and handing over, seen without timers.
LEMMA LifecycleSeen ==
    IInv /\ NotifyHasNoRow /\ Lifecycle => Seen(chain, owner, chain', owner')
<1> SUFFICES ASSUME IInv, NotifyHasNoRow, Lifecycle
             PROVE  Seen(chain, owner, chain', owner')
  OBVIOUS
<1>0. chain \in Rows /\ owner \in Users \cup {NoUser} /\ (Closed => ~Live(chain))
  BY Facts
<1>1. ASSUME NEW d \in Definitions, RestartOn(d), owner' = NoUser
      PROVE  Seen(chain, owner, chain', owner')
  BY <1>1, RestartsLater DEF Seen, Restart
<1>2. CASE Resolve \/ Combine
  BY <1>0, <1>2, CancelledIsSeen DEF Resolve, Combine
<1>3. CASE Reopen
  BY <1>0, <1>1, <1>3 DEF Reopen, Closed, Seen, Same
<1>4. CASE UnmergeByPatch
  BY <1>4, SameIsSeen DEF UnmergeByPatch
<1>5. CASE Handoff
  <2>1. CASE Pages
    BY <1>0, <1>1, <1>5, <2>1, CancelledIsSeen DEF Handoff
  <2>2. CASE ~Pages
    <3>1. ~Live(chain) /\ chain' = ClearAsk(chain) /\ owner' = NoUser
      BY <1>0, <1>5, <2>2 DEF Handoff, Pages, NotifyHasNoRow, Live, LiveStatuses, Good, IInv, TypeOK
    <3>2. chain'.status = chain.status /\ chain'.step = chain.step
            /\ chain'.round = chain.round
      BY <1>0, <3>1 DEF ClearAsk, Rows
    <3> QED
      BY <3>1, <3>2 DEF Seen, Same, PhaseOf
  <2> QED
    BY <2>1, <2>2
<1> QED
  BY <1>2, <1>3, <1>4, <1>5 DEF Lifecycle

\* Edits of the definition renumber a run or forget it.
LEMMA DefinitionSeen == IInv /\ Definition => Seen(chain, owner, chain', owner')
<1> SUFFICES ASSUME IInv, Definition PROVE Seen(chain, owner, chain', owner')
  OBVIOUS
<1>0. chain \in Rows
  BY Facts
<1>1. ASSUME NEW l \in levels, DeleteLevel(l)
      PROVE  Seen(chain, owner, chain', owner')
  <2>1. CASE chain' = chain
    BY <1>1, <2>1, SameIsSeen DEF DeleteLevel
  <2>2. CASE Live(chain) /\ chain' # chain
    <3>1. chain'.status = chain.status /\ chain'.step \in {chain.step - 1, chain.step}
            /\ chain'.round = chain.round + 1 /\ owner' = owner
      BY <1>0, <1>1, <2>2 DEF DeleteLevel, Rows
    <3> QED
      BY <2>2, <3>1 DEF Seen, LiveStep, PhaseOf, Live, LiveStatuses
  <2> QED
    BY <1>1, <2>1, <2>2 DEF DeleteLevel
<1>2. ASSUME NEW l \in 0 .. MaxLevel, AddLevel(l)
      PROVE  Seen(chain, owner, chain', owner')
  BY <1>2, SameIsSeen DEF AddLevel
<1>3. CASE ReorderLevels
  BY <1>3, SameIsSeen DEF ReorderLevels
<1>4. CASE DeleteChain
  BY <1>4 DEF DeleteChain, Seen
<1> QED
  BY <1>1, <1>2, <1>3, <1>4 DEF Definition

\* The scheduler climbs, resumes or ends a run; time itself is not seen.
LEMMA TimeSeen == IInv /\ (Tick \/ Elapse) => Seen(chain, owner, chain', owner')
<1> SUFFICES ASSUME IInv, Tick \/ Elapse PROVE Seen(chain, owner, chain', owner')
  OBVIOUS
<1>0. /\ chain \in Rows /\ levels \in SUBSET Nat /\ Ticked \in Rows
      /\ Ticked.status = chain.status /\ Ticked.step = chain.step
      /\ Ticked.round = chain.round /\ chain.step \in Int
  BY Facts DEF Rows
<1>1. CASE TickSettles
  <2>1. chain' = Ticked /\ owner' = owner
    BY <1>1, Facts DEF TickSettles
  <2> QED
    BY <1>0, <2>1, SameIsSeen
<1>2. CASE TickHoldsLevel
  BY <1>0, <1>2, SameIsSeen DEF TickHoldsLevel, Rows
<1>3. CASE TickFires
  <2>1. Fired(Ticked, chain')
    BY <1>0, <1>3, FireNextFires DEF TickFires
  <2>2. Live(chain) /\ chain.status # "acked" /\ owner' = owner
    BY <1>3 DEF TickFires, Due
  <2> QED
    BY <1>0, <2>1, <2>2, FiredIsSeen
<1>4. CASE TickLapses
  <2>1. Live(chain)
    BY <1>4 DEF TickLapses, Due
  <2>2. CASE \E l \in levels : l > chain.step
    BY <1>0, <1>4, <2>1, <2>2, FireNextFires, FiredIsSeen DEF TickLapses
  <2>3. CASE ~\E l \in levels : l > chain.step
    <3>1. chain'.status = "exhausted" /\ chain'.step = chain.step
            /\ chain'.round = chain.round /\ owner' = owner
      BY <1>0, <1>4, <2>3 DEF TickLapses, Exhausted, Rows
    <3> QED
      BY <1>0, <2>1, <3>1 DEF Seen, LiveStep, Live, LiveStatuses
  <2> QED
    BY <2>2, <2>3
<1>5. CASE Elapse
  BY <1>0, <1>5, SameIsSeen DEF Elapse, Rows
<1> QED
  BY <1>1, <1>2, <1>3, <1>4, <1>5 DEF Tick

LateActs == \E o \in late : ActsLate(o)

\* Every step of the chain, seen without timers, but for what found no row and
\* acts on the owner alone.
LEMMA NextSeen ==
    IInv /\ NotifyHasNoRow /\ [Next]_vars =>
      \/ LateActs /\ UNCHANGED chain
      \/ Seen(chain, owner, chain', owner') /\ UNCHANGED late
      \/ /\ UNCHANGED <<chain, owner>> /\ Seen(chain, owner, chain', owner')
         /\ chain.status = "none" /\ late \subseteq late'
<1>1. UNCHANGED <<chain, owner>> => Seen(chain, owner, chain', owner')
  BY SameIsSeen
<1>2. Late => \/ LateActs /\ UNCHANGED chain
              \/ /\ UNCHANGED <<chain, owner>> /\ chain.status = "none"
                 /\ late \subseteq late'
  BY DEF Late, FindsNoRow, ActsLate, LateActs
<1> QED
  BY <1>1, <1>2, PeopleSeen, LifecycleSeen, DefinitionSeen, TimeSeen DEF Next, vars

-----------------------------------------------------------------------------
(* No level twice, and the refinement of PagingLock.                       *)

\* Within a round a run never pages a level twice: the cursor only rises, and
\* a run that was held or snoozed resumes above it.
THEOREM NeverRepages == Spec => ResumesAbove
<1>1. ASSUME NEW s \in Rows, NEW o, NEW t \in Rows, NEW p, Seen(s, o, t, p),
             s.round = t.round, t.status # "none", Live(s)
      PROVE  /\ t.step >= s.step
             /\ s.status # "running" /\ t.status = "running" => t.step > s.step
  <2>1. s.step \in Int /\ s.round \in Nat /\ t.step \in Int
    BY DEF Rows
  <2>2. CASE Same(s, t)
    BY <2>1, <2>2 DEF Same
  <2>3. CASE LiveStep(s, o, t, p)
    <3>1. t.round # s.round + 1
      BY <1>1, <2>1
    <3>2. \/ t.status = "acked" /\ t.step = s.step
          \/ t.step > s.step
          \/ ~Live(t) /\ t.step >= s.step
      BY <2>3, <3>1 DEF LiveStep
    <3> QED
      BY <2>1, <3>2 DEF Live, LiveStatuses
  <2>4. CASE Restart(s, t, p)
    BY <1>1, <2>1, <2>4 DEF Restart, Live, LiveStatuses
  <2>5. t # NoRow
    BY <1>1 DEF NoRow, BlankRow
  <2> QED
    BY <1>1, <2>2, <2>3, <2>4, <2>5 DEF Seen
<1>2. IInv /\ NotifyHasNoRow /\ [Next]_vars =>
        [(chain.round = chain'.round /\ chain'.status # "none" /\ Live(chain)) =>
           /\ chain'.step >= chain.step
           /\ chain.status # "running" /\ chain'.status = "running"
                => chain'.step > chain.step]_vars
  <2>1. IInv /\ NotifyHasNoRow /\ [Next]_vars => chain \in Rows /\ chain' \in Rows
    BY NextKeep DEF IInv, TypeOK
  <2>2. chain \in Rows /\ UNCHANGED chain =>
          chain'.step >= chain.step /\ chain'.status = chain.status
    BY DEF Rows
  <2> QED
    BY <1>1, <2>1, <2>2, NextSeen
<1> QED
  BY <1>2, Inductive, PTL DEF Spec, ResumesAbove

\* Every step but the write of what found no row keeps ownership and the lock
\* together, if they are.
LEMMA HeldKeep ==
    ASSUME IInv, NotifyHasNoRow, [Next]_vars, HeldIffOwned, ~LateActs
    PROVE  HeldIffOwned'
<1>1. Seen(chain, owner, chain', owner') /\ NoUser \notin Users
  BY NextSeen, EscalationAssumption
<1>2. CASE Same(chain, chain')
  BY <1>1, <1>2, Facts
     DEF HeldIffOwned, Seen, Same, LiveStep, Restart, PhaseOf, Live, LiveStatuses,
         NoRow, BlankRow
<1>3. CASE LiveStep(chain, owner, chain', owner')
  BY <1>1, <1>3 DEF HeldIffOwned, LiveStep, PhaseOf, Live, LiveStatuses
<1>4. CASE Restart(chain, chain', owner') \/ chain' = NoRow
  BY <1>4 DEF HeldIffOwned, Restart, Live, LiveStatuses, NoRow, BlankRow
<1> QED
  BY <1>1, <1>2, <1>3, <1>4 DEF Seen

\* Only what found no chain row, and acts when a run has begun since, parts
\* ownership and the lock of a live chain, whoever does what else in whatever
\* order: seen without timers, every other step keeps the two together.
THEOREM OnlyLateActsPart == Spec => OnlyLateParts
<1>1. IInv /\ NotifyHasNoRow /\ [Next]_vars =>
        [HeldIffOwned => HeldIffOwned' \/ \E o \in late : ActsLate(o)]_vars
  BY HeldKeep DEF LateActs
<1> QED
  BY <1>1, Inductive, PTL DEF Spec, OnlyLateParts

\* A request to take over is never left pending against a new owner of a live
\* chain: every way to become the owner clears it.
THEOREM NewOwnersAreUnasked == Spec => NewOwnerUnasked
<1>1. ASSUME NEW s \in Rows, Live(s) PROVE LockedRow(s, TRUE).asker = NoUser
  BY <1>1 DEF LockedRow, ClearAsk, Rows
<1>2. ASSUME IInv, Next, Live(chain), owner' \notin {owner, NoUser}, ~LateActs
      PROVE  chain'.asker = NoUser
  <2>0. chain \in Rows
    BY <1>2, Facts
  <2>1. \/ \E u \in Users : TakenBy(u) \/ ForceTakeover(u)
        \/ ConfirmTakeover
    BY <1>2 DEF Next, Late, FindsNoRow, LateActs, People, Acknowledge, Assign,
       RequestTakeover, ConfirmExpired, RecordActivity, Release, ReleaseAs, Snooze,
       EscalateNow, Lifecycle, Resolve, Combine, Reopen, UnmergeByPatch, Handoff,
       Definition, DeleteLevel, AddLevel, ReorderLevels, DeleteChain,
       Tick, TickSettles, TickHoldsLevel, TickFires, TickLapses, Elapse
  <2>2. ASSUME NEW u \in Users, TakenBy(u) PROVE chain'.asker = NoUser
    BY <1>1, <1>2, <2>0, <2>2 DEF TakenBy
  <2>3. ASSUME NEW u \in Users, ForceTakeover(u) PROVE chain'.asker = NoUser
    <3>1. LockedRow(chain, TRUE) \in Rows
      BY <1>2, <2>3, Facts, LockedIsGood DEF Good
    <3> QED
      BY <2>3, <3>1 DEF ForceTakeover, ClearAsk, Rows
  <2>4. CASE ConfirmTakeover
    <3>1. ClearAsk(chain) \in Rows /\ Live(ClearAsk(chain))
      BY <1>2, <2>0 DEF ClearAsk, Rows, Timer, Live
    <3>2. chain' = LockedRow(ClearAsk(chain), TRUE)
      BY <1>2, <2>4 DEF ConfirmTakeover
    <3> QED
      BY <1>1, <3>1, <3>2
  <2> QED
    BY <2>1, <2>2, <2>3, <2>4
<1>3. IInv /\ [Next]_vars =>
        [Live(chain) /\ owner' \notin {owner, NoUser} =>
           chain'.asker = NoUser \/ \E o \in late : ActsLate(o)]_vars
  BY <1>2 DEF LateActs
<1> QED
  BY <1>3, Inductive, PTL DEF Spec, NewOwnerUnasked

\* Before its first run and after its chain is deleted, an incident is in
\* round 0, above no level: PagingLock must be able to start it again there.
NoneIsBlank == chain.status = "none" => chain.step = -1 /\ chain.round = 0

\* Only DeleteChain leaves no row where there was one.
LEMMA BlankHolds == Spec => []NoneIsBlank
<1>1. Init => NoneIsBlank
  <2> SUFFICES ASSUME Init PROVE NoneIsBlank
    OBVIOUS
  <2>1. CASE chain = NoRow
    BY <2>1 DEF NoneIsBlank, NoRow, BlankRow
  <2>2. CASE chain \in Started(NewRow(0), levels)
    <3>1. NewRow(0) \in Rows /\ NewRow(0).step = -1
      BY BlankRows
    <3>2. levels \in SUBSET Nat
      BY EscalationAssumption DEF Init, Definitions
    <3>3. Fired(NewRow(0), chain)
      BY <2>2, <3>1, <3>2, StartedFires
    <3> QED
      BY <3>3 DEF Fired, NoneIsBlank
  <2> QED
    BY <2>1, <2>2 DEF Init
<1>2. IInv /\ NotifyHasNoRow /\ NoneIsBlank /\ [Next]_vars => NoneIsBlank'
  <2> SUFFICES ASSUME NoneIsBlank, Seen(chain, owner, chain', owner')
               PROVE  NoneIsBlank'
    BY NextSeen DEF NoneIsBlank
  <2> QED
    BY DEF NoneIsBlank, Seen, Same, LiveStep, Restart, NoRow, BlankRow
<1> QED
  BY <1>1, <1>2, Inductive, PTL DEF Spec

\* Whoever takes, hands over, releases, closes or edits what, and whenever the
\* scheduler runs: paging and ownership exclude each other but for a change of
\* the owner asked for before there was a run, a level is never paged twice in
\* a round, and a round is over before another begins.
THEOREM Implements == Spec => ImplementsPagingLock
<1>1. Init => Lock!Init
  <2> SUFFICES ASSUME Init PROVE Lock!Init
    OBVIOUS
  <2>1. CASE chain = NoRow
    BY <2>1 DEF Init, Lock!Init, Phase, NoRow, BlankRow
  <2>2. CASE chain \in Started(NewRow(0), levels)
    <3>1. Fired(NewRow(0), chain) /\ NewRow(0).round = 0
      BY <2>2, BlankRows, StartedFires, EscalationAssumption DEF Init, Definitions
    <3> QED
      BY <3>1 DEF Init, Lock!Init, Phase, Fired, Rows
  <2> QED
    BY <2>1, <2>2 DEF Init
<1>2. IInv /\ NotifyHasNoRow /\ NoneIsBlank /\ [Next]_vars
        => [Lock!Next]_(Lock!pvars)
  <2> SUFFICES ASSUME IInv, NotifyHasNoRow, NoneIsBlank, [Next]_vars
               PROVE  [Lock!Next]_(Lock!pvars)
    OBVIOUS
  <2>0. IInv'
    BY NextKeep
  <2>a. CASE LateActs /\ UNCHANGED chain
    <3>1. /\ \E o \in late : late' = late \ {o}
          /\ owner' \in Users \cup {NoUser}
          /\ UNCHANGED Phase
      BY <2>a, <2>0, Facts DEF LateActs, ActsLate, IInv, TypeOK, Phase
    <3>2. Lock!ActEarly
      BY <2>a, <3>1 DEF Lock!ActEarly
    <3> QED
      BY <3>2 DEF Lock!Next
  <2>b. CASE UNCHANGED <<chain, owner>> /\ chain.status = "none" /\ late \subseteq late'
    <3>1. Lock!AskEarly
      BY <2>b DEF Lock!AskEarly, Lock!NoRun, Phase, NoneIsBlank
    <3> QED
      BY <3>1 DEF Lock!Next
  <2> SUFFICES ASSUME Seen(chain, owner, chain', owner'), UNCHANGED late
               PROVE  [Lock!Next]_(Lock!pvars)
    BY <2>a, <2>b, NextSeen
  <2>1. chain \in Rows /\ chain.step \in Int /\ owner \in Users \cup {NoUser}
    BY Facts DEF Rows
  <2>2. Phase = PhaseOf(chain) /\ Phase' = PhaseOf(chain')
    BY DEF Phase, PhaseOf
  <2>3. Live(chain) <=> Phase # "idle"
    BY <2>2 DEF PhaseOf, Live, LiveStatuses
  <2>4. CASE Same(chain, chain') /\ owner' = owner
    BY <2>2, <2>4 DEF Same, Lock!pvars
  <2>5. CASE Same(chain, chain') /\ ~Live(chain) /\ owner' \in Users \cup {NoUser}
    <3>1. Lock!Own
      BY <2>2, <2>3, <2>5 DEF Same, Lock!Own
    <3> QED
      BY <3>1 DEF Lock!Next
  <2>9. CASE Same(chain, chain') /\ owner' = NoUser /\ chain.status # "acked"
    <3>1. Lock!Leave \/ Lock!Own
      BY <2>2, <2>9 DEF Same, Lock!Leave, Lock!Own, PhaseOf
    <3> QED
      BY <3>1 DEF Lock!Next
  <2>6. CASE LiveStep(chain, owner, chain', owner')
    <3>1. Phase # "idle"
      BY <2>3, <2>6 DEF LiveStep
    <3>2. CASE /\ chain'.round = chain.round /\ chain'.step = chain.step
               /\ owner' \in Users /\ chain'.status = "acked"
      <4>1. Lock!Hold(owner')
        BY <2>2, <3>1, <3>2 DEF Lock!Hold, PhaseOf
      <4> QED
        BY <3>2, <4>1 DEF Lock!Next
    <3>3. CASE /\ chain'.round = chain.round /\ chain'.step > chain.step
               /\ owner' = owner /\ PhaseOf(chain') = PhaseOf(chain)
      <4>1. Lock!Climb
        BY <2>2, <3>1, <3>3 DEF Lock!Climb
      <4> QED
        BY <4>1 DEF Lock!Next
    <3>4. CASE /\ chain'.round = chain.round /\ chain'.step > chain.step
               /\ chain.status = "acked" /\ chain'.status = "running"
               /\ owner' = NoUser
      <4>1. Lock!Resume
        BY <2>2, <3>4 DEF Lock!Resume, PhaseOf
      <4> QED
        BY <4>1 DEF Lock!Next
    <3>5. CASE /\ chain'.round = chain.round /\ chain'.step >= chain.step
               /\ owner' \in {owner, NoUser} /\ ~Live(chain')
      <4>1. Phase' = "idle"
        BY <2>2, <3>5 DEF PhaseOf, Live, LiveStatuses
      <4>2. Lock!End
        BY <3>1, <3>5, <4>1 DEF Lock!End
      <4> QED
        BY <4>2 DEF Lock!Next
    <3>6. CASE /\ chain'.round = chain.round + 1
               /\ chain'.step \in {chain.step - 1, chain.step}
               /\ owner' = owner /\ PhaseOf(chain') = PhaseOf(chain)
      <4>1. Lock!Renumber
        BY <2>2, <3>1, <3>6 DEF Lock!Renumber
      <4> QED
        BY <4>1 DEF Lock!Next
    <3> QED
      BY <2>6, <3>2, <3>3, <3>4, <3>5, <3>6 DEF LiveStep
  <2>7. CASE Restart(chain, chain', owner')
    <3>1. Phase' \in {"paging", "idle"}
      BY <2>2, <2>7 DEF Restart, PhaseOf
    <3>2. \/ chain'.round = chain.round + 1
          \/ Phase = "idle" /\ chain.step = -1 /\ chain'.round = chain.round
      BY <2>2, <2>7 DEF Restart, NoneIsBlank, PhaseOf
    <3>3. Lock!NewRound
      BY <2>7, <3>1, <3>2 DEF Restart, Lock!NewRound
    <3> QED
      BY <3>3 DEF Lock!Next
  <2>8. CASE chain' = NoRow /\ owner' = owner
    <3>1. Phase' = "idle"
      BY <2>2, <2>8 DEF PhaseOf, NoRow, BlankRow
    <3>2. Lock!Forget
      BY <2>8, <3>1 DEF Lock!Forget, NoRow, BlankRow
    <3> QED
      BY <3>2 DEF Lock!Next
  <2> QED
    BY <2>4, <2>5, <2>6, <2>7, <2>8, <2>9 DEF Seen
<1> QED
  BY <1>1, <1>2, Inductive, BlankHolds, PTL DEF Spec, ImplementsPagingLock, Lock!Spec
=============================================================================
