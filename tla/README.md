# A TLA+ model of OpsMender

OpsMender takes in alerts, opens incidents, pages people along Escalation
Chains until somebody takes the incident, and lets an AI agent work on it in
sessions that people approve, stop and override. This directory models the
parts in which several people, routes and schedulers write the same rows at the
same time: the intake of alerts, the paging of an incident and the people it
reaches, and the AI sessions of an incident; and two calculations over time, who
is on call and the rollups of uptime samples.
Every definition is translated from `src/backend`; `PROJECT.json` ("map") names
the lines each one stands for.

## 1. The system

A FastAPI backend with asynchronous SQLAlchemy over SQLite or PostgreSQL. It
runs as a monolith (one process; with PostgreSQL, several behind a balancer) or
as the roles api, worker, scheduler and dispatcher, which talk through the
database and PostgreSQL LISTEN/NOTIFY. State lives in rows. Background loops
(paging every 10 s, the session queue every 30 s by default, and others) select
rows that are due. An AI session's workflow is an asyncio task of one process.
The frontend, the CLI, chat bots and link buttons are clients of the same
routes.

| Component (backend/) | State | Operations | What is hard | What makes it correct |
|---|---|---|---|---|
| paging/escalation, service, reassign, scheduler | `incident_chain_states` (status, cursor, round, four times, takeover request, notice mark), the active assignment | start, fire, hold, exhaust, acknowledge, snooze, escalate, release, takeover request and confirmation, force take, assign, activity, hand off, close, tick | people and ticks interleave; five timers; rows edited by many routes | owner and chain agree but where an operation found no chain; a live run is always scheduled; lapses happen when promised; no level is paged twice |
| db/repos (chains, steps, pages) | definitions, `incident_pages` | add, delete, reorder levels, delete chains while runs climb them | cursor and round refer to a list that moves | the cursor still separates visited and unvisited levels; pages are sent once per round |
| api/routes/incidents | `incidents.status`, assignment | release, assign, PATCH status, service move, combine | a route reads, waits for a lock, then writes | what was checked still holds when it is written |
| services/session_orchestration, api/routes/sessions, approvals/, api/session_runner, agent/ | `sessions`, `approval_requests`, asyncio tasks | admit, queue, drain, dispatch, ask, answer, extend, expire, stop, override, take over, force start, restart | commit before dispatch; tasks lost in restarts; several writers of one status; other processes | slots come back; nobody is asked in vain; a Stop holds; only approved actions run |
| paging/notification_escalation | reminder states per person | start, advance stages, stop | tick against stop | no reminder after the stop |
| paging/responders | responders and requests to help | ask, answer, expire, remove | shared limit; answer against expiry | at most the limit; each request one outcome |
| paging/on_call | rotation places, overrides | leave, return, cover, save the roster, who is on call | handoffs across midnight; places of people who left; a save of several requests | nobody hands over within a shift; nobody else's shifts move |
| paging/routing, maintenance, priority | read only | select a chain, a window, a priority | precedence of rules | equals its reference definition |
| paging/dispatch, channels | delivery receipts | send, retry | outside services | out of scope |
| ingest/, combine and delete routes | incidents, fingerprints, collision notices | look up, note, group, create, combine, reopen, delete | deliveries of one alert overlap; merges under a delivery | one open incident per alert; a firing alert is on an open incident |
| bots/, action links | user links, posted cards | map clicks to operations | repeated callbacks | the operations above are safe to repeat |
| notifications, pg_bus, incident_events | queued messages | publish, listen | loss at reconnect | carries no decision |
| sla/ | samples, rollups, incidents of targets | probe, roll up, prune | buckets that are not over | rollups are exact |
| reports/, retention/, audit/ | schedules, logs | claim rows, write, prune | claims, partial batches | each job once |
| tiers/, skills/, workflow/ | read only | classify tools, resolve tiers, roll back | pure | equals its reference definition |
| mcp/, integrations/, llm/, memory/, chat/, auth/, people/ | configuration, tokens | clients and accounts | outside services | out of scope |

How they meet: routes, bots and links call the paging operations, each of which
locks the chain row (`get_for_incident(..., for_update=True)`) before it reads
what it changes; the scheduler does the same for every row it selects. Where the
incident has no chain row yet, that call returns None and locks nothing.
Resolving an incident cancels its chain, its reminders and its AI sessions.
An acknowledgement cancels queued sessions. An approval given by the owner is
activity on the owner's lock; an Override acknowledges an unowned incident.

The row locks of the modules are PostgreSQL's. SQLite, meant for evaluation,
ignores `FOR UPDATE` and admits one writer at a time; what it does between the
first read of a transaction and its first write is not modelled.

## 2. Modules

| Module | Models |
|---|---|
| `PagingLock` | Abstract: levels are paged one after the other, or one person holds the incident, or the run is over; no level twice in a round. Who asked for the incident when there was no run may get it beside one (`ActEarly`). |
| `EscalationChain` | One incident, its chain row and its owner, with time. Implements `PagingLock`. |
| `ChainDefinition` | Definitions edited under one incident's run, and its pages. |
| `IncidentRequests` | `EscalationChain` plus routes between their read and their write. |
| `Responders` | The people reached about one incident: reminders, responders, requests to join; transactions with their row locks. |
| `AISession` | One AI session: row, approval requests, workflow runs, routes and sweeps. |
| `ModelSlots` | Abstract: a saved model carries at most its number of sessions, besides those that came onto it uncounted. |
| `SessionAdmission` | Several sessions: admission, the queue, its drains. Implements `ModelSlots`. |
| `Intake` | Alerts becoming incidents, combined, reopened and deleted meanwhile. |
| `Rotation` | Who a Roster puts on call while its people and the order change. |
| `Downsampler` | The 5-minute and 1-hour rollups of uptime samples. |
| `EscalationChain_proofs`, `ChainDefinition_proofs`, `IncidentRequests_proofs`, `Responders_proofs`, `AISession_proofs`, `SessionAdmission_proofs`, `Intake_proofs`, `Rotation_proofs` | The theorems of section 5. |
| `MC...` | Symmetry sets and small constants for TLC. |

**EscalationChain.** `chain` is the row: `status`, `step` =
`current_step_index`, `round`, `due` = `next_step_due_at`, `paused` =
`paused_until`, `hard` = `hard_deadline_at`, `idle` = time since
`last_activity_at`, `asker`/`askLeft` the takeover request, `noticed` =
`exhaustion_notified_at`. Timestamps are time left, and `Elapse` counts every
one of them down together. An operation that finds the chain row is one action,
because it holds the row's lock from its first read to its commit. An
acknowledgement, an assignment or a release that finds none (`FindsNoRow`) locks
nothing, waits for the incident's or the assignment's row, and changes the owner
beside whatever run was begun meanwhile (`ActsLate`): escalation.py:1013-1081
and 1142-1178. `late` are the operations in between. The other operations need
no such step: a handoff, a reopening, a close and the requests to take over read
the row again under the incident's lock or hold an assignment that a new run
must release, and snoozes, escalations and activity do nothing without a row.
`Tick` is one row's turn in `tick_all_due`: it cancels the run of a closed
incident or expires a takeover request (`TickSettles`), holds a level whose
people still have steps of their own to run, fires the next level, or lets the
lock lapse. Who is on a level, and whether anybody there can be paged, is a free
choice (`FireNext`): rosters change at any time. `levels` is the definition the
run climbs, edited by `DeleteLevel`, `ReorderLevels`, `AddLevel` and
`DeleteChain`.

**ChainDefinition.** Levels have an identity here, so that the model can say
which levels a run visited (`visited`) while indexes shift. `paged` are the
people it paged since it started. Both are history variables the code does not
keep; the one guard that reads them gives added levels new identities. `edits`
chooses what else happens besides deleting and appending levels. A deletion locks
and moves the runs it finds on its chain (`DeleteLevel`); where it finds none it
holds nothing, and a run that is started on the chain before it commits, or whose
start is not committed when it looks, is not moved (`LookForRun`, `DeleteUnseen`;
repos.py:7124-7139). `overlapped` says that this took a level from behind the
run's cursor.

**IncidentRequests.** A request is put into `inFlight` with what it read
(`Arrive`), and acts later (`Act`) on that reading. SQLAlchemy returns the
loaded object for a plain second read, so waiting for the lock does not refresh
the status: a release asks the status its route read whether there is a run to
resume (`r.closed`). A route that finds no chain row waits as above. Operations
that decide under the lock stay one action (`Locked`).

**Responders.** A transaction is a record of the rows it has locked and what it
will write; `Plan` is the order in which each operation gets to them, read off
the code's calls. `Commit` writes everything at once and gives the locks back;
`Leave` gives them back without (a refusal, a deadlock, or a process that died).
`reminder` is `notification_escalations` by person, `request` a person's latest
`incident_responder_requests` row. The tick is one transaction that claims the
due rows with SKIP LOCKED, pages, and expires requests, as `scheduler.py` runs
it. When two transactions insert a person's first reminder row, the second waits
and then fails; a tick returns to the savepoint before its chain and goes on
(`StartClashes`). The key-share lock a tick takes on the incident never waits and
never meets the `FOR NO KEY UPDATE` the requests hold (`repos.py:702`), so
`Advance` reads the committed incident. `Rings` are the sets of transactions that
wait for each other.

**AISession.** `status` and `tier` are the session row; `request`, `due` and
`extension` the approval rows; `run` the workflow tasks (`phase`, `tier` as
read at their start, the request a task `waits` for, the actions it was
`granted`, and `out` when an approval of it expired); `ready` the dispatches
that follow a commit. Routes are read first and written later; stop, override
and takeover have a step between (`Cut`: tasks cancelled, pending requests
listed). A request stands for the action it asks about. `Monolith = FALSE` puts
queue-started runs on a worker, where `cancel_session_workflow` of another
process finds no task.

**SessionAdmission.** A session's id is its order of creation, and the queue
goes by priority and then by it. `modelLock` is the lock on all saved models'
rows (`choose_model_for_incident_service` takes it, counts, and keeps it to the
commit), `rowLock` the lock on one session's row. `Ask` is the plain read of an
incident and its session before either lock. `extra` are the sessions that hold
a slot nobody counted: forced (`Write`, `ForceQueued`), switched to another
model while they run (`SwitchModel`, sessions.py:582-627), or written back to a
running status after their end (`Returns`): a session that timed out asks again
(approvals/service.py:267-292), an approval of it is answered (decisions.py:99),
or an override read it while it ran (sessions.py:774). An acknowledgement looks
for queued sessions without a lock (`AcknowledgeLooks`), and cancels what it
found when it commits (`Acknowledge`; repos.py:1472-1503, 6753-6788). A drain
(`DrainLists`, `DrainTakes`, `DrainCounts`, `DrainAdmits`, `DrainDrops`,
`DrainPasses`) works through the list it read once. `AISession` has one session
in more detail: `Write` and `DrainAdmits` here are its admission, `End` any end
it has.

**Intake.** A delivery takes the alert's turn (`pg_advisory_xact_lock`), looks
up the alert's newest incident through merges (`Follow`), decides to skip,
note, group, collide or create, and commits. A combine checks all its members
and folds them one at a time (`rowLock`). `PATCH`, deletion and time come
between. `inc` are the committed rows, with what each process would write kept
in `job`. `untidy` and `plain` are history variables.

**Rotation.** A time is an hour since midnight of day 0 in the roster's zone.
`place` and `removed` are `on_call_shift_members`; `form` is what one save of
the editor still has to send, since the frontend sends additions, removals and
the order as separate requests. `OnCall` is `on_call_at`: the override that
started first, else the person whose turn it is or the first after them who can
be paged (`Steps`).

**Downsampler.** A rollup row stands for the set of samples it was computed
from, so that exactness is an equation between sets.

## 3. Runs

Each passing run's properties each have a mutant in `PROJECT.json`: a mistake
in one modelled definition that breaks the property in that run. The mistakes
are operators whose comment begins with "Mistake".

| Run | Shows | Bounds |
|---|---|---|
| EscalationChain | All safety properties of the chain row (`OnlyLateParts`, `NewOwnerUnasked`, ...), the refinement of `PagingLock`, and `RunningEnds`, `LockLapses` | 2 people, levels 0..1, 2 rounds, 2 operations that found no row at a time; two timeouts on each side of the ceiling 2; every window 2, snooze up to 3 (past the window) |
| ChainDefinition | `CursorIsExact`, `FiringPages`, `TakersWerePaged` while levels are deleted, appended and reordered, inserted into gaps, their chain deleted, or runs started during a deletion | 3 levels, 2 chains, 3 rounds with reordering, else 2 |
| IncidentRequests | `OnlyStaleParts` and `ClosedUnlessMoved` with stale releases, assignments, status changes and combinations; `ClosedSettles` with stale moves and combines | 2 people, 2 levels, 2 rounds, 2 routes in flight or waiting without a chain row, three mixes of routes (`Traffic`) |
| AISession | Slots, questions and answers with every pair of routes racing | 2 requests, 2 runs, 2 in flight, 1 redirect, Tiers 0 and 1, no restart |
| AISessionLiveness | `AskingEnds` with a restart, `SlotIsReleased` unless one happens | 2 requests, 2 runs, 1 in flight, 1 extension, 1 restart |
| Responders | `LimitHolds`, `StepsStopForOwner`, `StepsAreWanted`, `OneOutcome`, `OnlyTicksDeadlock` | 2 requests at a time and the tick, limit 2, plans of 2 steps; 9 mixes of operations that share rows: 3 people where people are asked, 2 where a chain pages, 1 who is both asked and paged |
| SessionAdmission | `WithinCap`, `EndsInQueue`, `StartsUnacknowledged`, the refinement of `ModelSlots` | 3 sessions, 2 incidents of different priority, 2 models of cap 1, a client and 2 drains; one session that is forced, switched or returns, one that waits too long, one incident handled |
| Intake | `OneOpenPerAlert`, `FiringIsAnswered`, `RingsAreUntidy`, `ToldOnce` | 4 incidents, 2 alerts, 2 services (one of P0), 2 deliveries and 2 combines at a time, 4 requests in all |
| Rotation | `ShiftsAreWhole`, `NobodyElseMoves` | 3 people, 5 days of 3 hours, 3 settings of coverage and shift length, two spans of overrides that overlap, 4 edits |

The properties of the AISession run also hold with `Monolith = FALSE` (3.5
million states). `CursorIsExact` starts anew when the levels are reordered:
`ReorderLevels` counts whatever then lies behind the cursor as visited.

Why these bounds are enough to be worth running: two people are an owner and
somebody who asks, forces or was there before, and what a third could do to
another's request is proved (section 5); two levels are one at and one above the
cursor, three in `ChainDefinition` one below, at and above it; two operations
without a chain row are an acknowledgement and a release or two that contend;
one session with a slot nobody counted is enough to fill a model past its limit,
and two models to switch between; two rounds are an old and a current one; two
routes in flight give every pair a race; two runs are the one that was cancelled
and the one that replaced it; two requests are one already answered and one
pending; a limit of one with two people, and a cap of one with three sessions,
are full after one step; two drains and a client are every pair of writers of a
slot; two combines of two incidents are the smallest ring; three hours a day
have a handoff that is not midnight. Each counter bound (`MaxRound`, `MaxIndex`,
`MaxRequests`, `MaxRuns`, `MaxExtends`, `MaxRestarts`, `MaxInFlight`, `MaxLate`,
`MaxSessions`, `MaxExtra`, `MaxHandled`, `MaxInc`, `Budget`, `MaxPlace`,
`MaxEdits`, `Horizon`) stands in a guard and is named as a bound in its module.
`MaxRedirects` is the code's own limit of 15, `Limit` its 3 responders, and the
time constants are the code's 900 s, 120 s and ceilings, in small units. What is
proved (section 5) holds without any bound.

Three runs each violate one statement the repository makes; `findings` quotes it
and names the line.

| Run | What the code does |
|---|---|
| ChainDefinitionSkip | With a gap between indexes, deleting a level renumbers an unvisited one below the cursor, and it is never paged. |
| AISessionStop | A Stop between admission and dispatch does not halt the run. |
| Downsampler | The cutoff is the present less a bucket's width, not the start of the current bucket (downsampler.py:133, 201), so a pass in the middle of a bucket writes the row of the one before from its early samples, and no later pass completes it. In hourly passes every 1-hour row is such a row. |

### What the models reach that a reader may not expect

No property forbids the following, and the properties above are stated so that
they allow it.

*Paging.*
- An acknowledgement or an assignment that found no chain row, while a handoff, a
  reopening or a restart begins a run, records an owner beside a chain that pages
  on; a release that found none leaves a chain held by nobody until its lock
  lapses (escalation.py:1013-1081, 1142-1178). `OnlyLateParts` says that nothing
  else in `EscalationChain` does either.
- A release whose route read the incident closed, and which acts after it was
  reopened and acknowledged, releases the owner and leaves the chain held until
  its lock lapses (incidents.py:2405-2446). `OnlyStaleParts` adds this case.
- A level deleted while a run on its chain is being started shifts a level that
  nobody visited behind the run's cursor: it is skipped (repos.py:7124-7139),
  against paging-guide.md:205-207. `CursorIsExact` excepts these runs
  (`overlapped`), and still says that no level is repeated.
- A takeover request on a run that is over stays when somebody else comes to own
  the incident, and the new owner may confirm it: `NewOwnerUnasked` is about live
  chains.
- A lapse whose remaining levels are all empty releases the owner and exhausts
  the chain (escalation.py:763), where paging-guide.md:236 has the owner keep the
  incident whose chain ends.
- Deleting any level of a live run's definition starts a new round, after which
  people paged in the round before no longer count as paged.
- Once the chain of a run is deleted, a handoff starts again in round 0, and
  pages of the earlier round 0 stop the new ones: `FiringPages` says so.
- A release checked before somebody else took the incident releases the new
  owner (incidents.py:2421), against "Only the owner or an admin can release an
  incident" (paging-guide.md:294).
- A second request to reopen releases an owner who acknowledged after the
  first; a status change read before a resolve opens the incident without
  paging again; a service move read before a resolve pages about a resolved
  incident until the next tick (`ClosedSettles`); an incident acknowledged while
  combine waits is merged with its owner.
- Deactivating somebody (auth.py:700) leaves the incidents they own locked to
  them until the lock lapses.

*People.*
- An addition that cancels the person's request and then writes their reminder
  (responders.py:172), and a tick that has paged them and now expires requests,
  wait for each other; so do a close, whose one UPDATE cancels requests in no
  stated order (repos.py:6969), and a tick that expires the same ones one by one.
  PostgreSQL fails one of the two. `OnlyTicksDeadlock` says that there are no other
  rings. A tick that fails is rolled back after its pages left.
- Two transactions that start the same person's steps again both read them as
  stopped (notification_escalation.py:271): the first step goes out twice.

*Sessions.*
- A takeover read before the first run was dispatched leaves two runs of one
  session.
- After an approval expired, the run asks about its next action and the session
  takes its slot again. A sweep that listed a request as run out times the
  session out although the request was approved meanwhile.
- An approval answered after a restart makes the session active with no run, and
  a monolith that restarts leaves pending requests that no run waits for;
  `AskedIsAwaited` and `SlotIsHeld` are proved up to the first restart. An
  approval answered while a stop is being written makes the stopped session
  active.
- On a worker, a run started from the queue is not cancelled by Stop or
  Override on another process (sessions.py:769).
- Two requests to start a session for one incident each find none
  (session_orchestration.py:148) and create one each.
- A forced start of a queued session (sessions.py:510) that read it before it
  was cancelled starts it again after its end.
- A session that timed out and returns, and one that is switched to another model,
  take a slot without a count: a model then runs more sessions than its capacity
  (admin-guide.md:91) though nobody forced one. An override that read a session
  while it ran revives even a stopped one. `WithinCap` counts the others.
- A session queued after an acknowledgement has looked, which a drain holds when
  the acknowledgement commits, starts for an owned incident, against "cancels any
  session that was queued before the acknowledgment" (operator-guide.md:70).
  `StartsUnacknowledged` excepts these (`overtaken`) and no others.
- With two drains, the second may pass over a session the first is working on
  and admit one behind it in the queue.

*Intake.*
- An alert of a P0 service that fires again while suppressed opens a second
  incident; a later recovery closes only the newest.
- Combine accepts a resolved primary. A recovery closes an incident although
  alerts grouped into it still fire. A firing alert may be grouped into an
  incident that is being closed (`job.closed`).
- `update_incident` writes any status over any other (incidents.py:1107), and a
  recovery may race a combine: the "terminal `merged` state" of
  incidents.py:2779 does not last, and pointers may then form a ring, as they
  may after two overlapping combines; `RingsAreUntidy` says there is no other
  way.
- Two combines over the same incidents in opposite orders wait for each other
  (incidents.py:2841); the database fails one of them (`Fails`).
- The SLA poller (poller.py:280) and `POST /incidents` with an `external_id`
  (incidents.py:570) open an incident without taking the turn, possibly beside an
  open one of the alert. They are not modelled, and `OneOpenPerAlert` is about
  deliveries.

*On call.*
- An override of a roster from which everybody has left pages nobody, against
  on_call.py:10 ("override wins"). One by somebody who was later made a viewer
  leaves the level empty, since `load_on_call_context` looks at `is_active` only.
- The editor always sends the order, so any save after somebody left drops their
  place, and the shifts of the others move, against paging-guide.md:166-169.
- The first phase of `reorder` (repos.py:6452) starts at the number of members
  plus one, which may be a position that a removed member still holds: the
  constraint it means to avoid (repos.py:6436) is hit and the save fails.

## 4. Fairness

`FairSpec` of the chain: time passes (`Elapse`) and the scheduler's tick runs
(`EscalationScheduler._loop` selects every due row each 10 s and goes on after
an exception). Nothing is assumed of people; `LockLapses` says what happens once
the owner stops writing. `FairRSpec` assumes the same beside routes in flight,
and nothing of these. `FairSSpec` of sessions: a task that can take a step does
(the event loop), routes that read go on to write, committed dispatches happen,
holds run out, and `SessionQueueScheduler` drains the queue (a queued session at
least reaches its time limit) and sweeps holds that have run out. No fairness is
assumed of answers, stops or other acts of people. The other modules state
safety only.

`CHECK_DEADLOCK FALSE` stands where the system may stop: a finished session
with its bounded runs used up, a definition whose chains are all deleted,
transactions that wait for each other (`OnlyTicksDeadlock` says which), and
spent budgets of sessions, incidents, edits or ticks.

## 5. Proofs

All theorems hold for every value of the constants that the modules' ASSUMEs
allow: identities that mean "nobody" are not somebody, limits are positive.

`EscalationChain_proofs` proves for all people, levels, timeouts and windows
that the chain row keeps `TypeOK`, `ClosedIsQuiet`, `LiveIsScheduled`,
`LockIsExact` and `NoticeIffExhausted`. They are proved together as `IInv`,
because they need each other: `LockIsExact` after `Elapse` needs `IdleBounded`
(idle time stops counting at the window), and whether a closed incident stays
quiet rests on its row being well formed. That owner and lock agree
(`HeldIffOwned`) is no invariant of the code; `OnlyLateParts` says which steps
end it, and `HeldKeep` proves that every other one keeps it. `NotifyHasNoRow`
(an incident in notify mode has no chain row) is kept beside it, since reopening
looks at the mode. The step is proved per group of operations (`PeopleKeep`,
`LifecycleKeep`, `DefinitionKeep`, `TickKeep`, `ElapseKeep`, `LateKeep`), over
lemmas on the shared row functions: what `FireNext` and `Started` may leave
(`FireNextFires`, `StartedFires`), and that locked, cleared and cancelled rows
are good.

The same module proves `OnlyLateParts`, `NewOwnerUnasked`, `LapsesOnlyWhenIdle`,
`ResumesAbove` and `ImplementsPagingLock`. A relation `Seen` between two rows
and owners says what a step may look like without timers; every group of
operations is shown to be `Seen`, and `Seen` implies a step of `PagingLock` or a
stutter. `NoneIsBlank` (without a row, step -1 and round 0) is a second
invariant for the steps that create a row.

`ChainDefinition_proofs` proves `CursorIsExact`, `TakersWerePaged` and
`FiringPages` for any chains, levels, people, indexes and rounds, with every
combination of edits. The inductive invariant says of the cursor that levels
above it were not visited and, without insertions and deletions that overlapped
the run's start, those at or below it were (`Exact`); that needs each level in
one place only (`Distinct`) and no gaps (`Contiguous`), so that the cursor never
runs past the last level (`Within`); of the pages, that those of the current
round are at or below the cursor and are this run's people's (`Recorded`). What
`EscalationStepRepo.delete` does to a definition and to a cursor is two lemmas
about ranks in a finite set of numbers: `Compacts` (renumbering is in order and
loses nothing) and `MovesCursor` (what was at or below the cursor still is, and
without gaps nothing else comes to be).

`SessionAdmission_proofs` proves `WithinCap`, `EndsInQueue`,
`StartsUnacknowledged` and `ImplementsModelSlots` for any number of sessions,
models, clients and drains. The inductive invariant adds four facts to the types
and the limit: whoever writes holds the model rows (`Locked`), so the slot it
counted is still free (`Roomy`); a drain's session stays queued and locked until
the drain is done with it, and its incident is not acknowledged meanwhile unless
past an acknowledgement that did not find it (`Rows`), which needs that whoever
else would change it waits for that row; and what came onto a model uncounted
never waits again (`Forcing`), or a drain would turn it into a counted one. A
step either leaves locks and counts alone (`ApartShrinks`), or is one of the
four that count or write. `OneMoves` shows that moving one session's row is a
move of `ModelSlots`, and `CapStays` reads the limit off the abstract step.

`AISession_proofs` proves, for any number of requests, runs, tiers and routes in
flight, that only approved actions are carried out (`RunsOnlyApproved`, with
the types), that an answer is final (`AnswerIsFinal`), and, up to the first
restart, that a pending request is awaited (`AskedIsAwaited`) and an occupied
slot is held (`SlotIsHeld`). `RunsOnlyApproved` is inductive only with what a
waiting run and a request in flight may look like (`Always`); the last two need
how a request, the run that asked and the route that cuts it are tied together
(`Unrestarted`). A restart drops the runs and breaks that tie in the code, so
the theorems say `restarts = 0`.

`Responders_proofs` proves `LimitHolds` and `OneOutcome` for any number of
people, requests in flight, limits and plans. `LimitHolds` is inductive with
four facts: whoever adds, asks or answers holds the incident's row from its
check on (`Locked`), so the room it found is still there when it commits
(`Roomy`), although closes, expiries and removals commit in between; and what a
transaction has settled was pending and is settled by nobody else (`Settled`),
so an acceptance turns a person who was counted into one who still is.
`MovesAre` first reduces the 17 actions to a commit, an end without one, time,
or one of four kinds of move, whose lemmas need not look at reminders at all.

Its second part proves `StepsStopForOwner` and `StepsAreWanted`. A stop reads
which steps run without locking them, so the question is why nothing it did not
read runs when it commits. The invariant `RInv` answers it: a stop holds the
chain and the incident when it reads (`Holding`), whoever starts steps that did
not run holds one of the two (`Starting`), and a row a tick sends on was running
when it was claimed. So what was read stays all that runs (`Stopping`), each row
has one writer at a time (`RowsApart`), and the writes of a commit are the last
word on it. `Framed` and `Local` say once what a step must show for the
transaction that takes it; the lemmas of the steps follow.

Its third part proves `OnlyTicksDeadlock`. The invariant `WInv` says what each
transaction has not locked yet (`Unlocked`): the chain's row, the incident's and
the rows of people come in that order. So nobody in a ring waits for the chain, and
two who wait in a row cannot both wait for the incident (`WaitsUpward`); at the
rows of people, whoever waits and is waited for is the tick or the one who holds
the incident (`BetweenRows`), so the ring is these two, and the tick waits only
for what an addition or a close has written (`TickWaitsFor`).

`IncidentRequests_proofs` proves `LiveIsScheduled` and `LockIsExact` of the
routes for any number of requests in flight, that only a service move leaves a
run on a closed incident (`ClosedUnlessMoved`), and that only two stale reads
part the owner and the lock (`OnlyStaleParts`). `IInv` is not inductive there,
since a stale move breaks `ClosedIsQuiet`; what replaces it in `RInv` is that a
closed incident's chain is never held. Where the closed incident is quiet, the
chain's own lemmas apply (`QuietKeep`); where it is not, only a cancellation, a
request or time can move the row (`UnquietKeep`).

`Intake_proofs` proves `OneOpenPerAlert`, `RingsAreUntidy`, `ToldOnce` and
`FiringIsAnswered` for any number of incidents, alerts, services, deliveries and
combines. The inductive invariant `IInv` says why the alert's turn is enough. A
delivery that works has its alert's turn to itself (`Delivering`). So what it
found stays so until it commits: the alert's open incident, if it has one
(`FoundOpen`), or that there is none (`NoneOpen`), since only a delivery of the
alert opens another; and every creation keeps that only the newest incident of
an alert can be open (`NewestOpen`). All three are said of alerts whose
incidents are `plain`: a refire of a P0 service and a `PATCH` to open an
incident do open one beside another, and what is open after them is not claimed
to be alone. What a delivery answers on is open or was closed since it looked
(`Answering`). Whoever sends a notice still holds the row on which it found none
sent (`Telling`). Merge pointers never lead to a deleted incident
(`NoDangling`), and as long as the state is tidy no set of incidents is closed
under them (`NoRings`): the one combine folds incidents into a primary that is
none of its members and itself points nowhere. `Follow` is a `CHOOSE`;
`Above(i)`, the least set that holds `i` and follows its pointers, shows that
what it chooses exists.

`Rotation_proofs` proves `ShiftsAreWhole` and `NobodyElseMoves` for any people,
day length, windows, shift lengths and Start Date. The first rests on arithmetic:
the shift date of a covered hour is the day on which its shift started
(`ShiftDates`), so that `Turn` and the clock divide the same shifts
(`DaysOfShifts`, over `Quotient`). The second rests on what people are at: places
differ, so every rank has exactly one person (`Ranks`, `LastPlace`), the turn
moves round the places, removed ones included, and the first who can be paged
from there changes only if somebody before them comes back or they leave
themselves (`StepsFirst`, `MovesNobodyElse`). That places differ is the invariant
(`RInv`), which must survive every request of a save: a new member's place is
free or refused, an order numbers whom the form listed below whom it did not
(`FormFits`), and the people put back get the place they had.

Only model-checked: liveness (`RunningEnds`, `LockLapses`, `ClosedSettles`,
`SlotIsReleased`, `AskingEnds`), which the prover does not treat, and what the
three violated runs refute.

## 6. What is left out

- Rows that only older versions wrote (an acknowledged row with `finished_at`,
  a paused row without `paused_until`), and, for the chain, the permanent
  deletion of incidents (it is in `Intake`).
- SQLite, and what a transaction there reads before its first write.
- Edits of one definition by several people at once, which take turns here.
- Who is eligible or reachable: free choices. `Rotation` says who is on call but
  is not composed with the chain.
- Delivery of pages, cards, notifications; text of any kind.
- Failures of the database itself, and of a run while it waits for an
  approval; failures of the model or a tool are `Fail`.
- Restarts of a distributed deployment, which release nothing.
- In `AISession`, the incident: an Override's acknowledgement and the owner's
  activity are in `EscalationChain`. Resolving an incident stops its sessions
  as `stop` does. In `SessionAdmission`, manual queue ranks, the order in which
  several free models are preferred, and briefings.
- In `Intake`, authentication, the providers' parsers, learned paths, automatic
  session starts, drops by maintenance windows, the SLA poller's incidents, and
  those of `POST /incidents` with an `external_id`.
- In `Rotation`, saves by two administrators at once, daylight saving, several
  rosters, teams and calendars, and somebody who is demoted between being
  checked and being added.
- Maintenance windows, routing rules and priority rules: read-only functions of
  configuration and an alert, without state of their own.
- Dispatch, bots, ticket sync, MCP, models, chat: their steps are calls to
  outside services, and what they change here goes through operations already
  modelled. Accounts, the CLI and the frontend are clients of the same routes.
- Tiers and skills, rollback, reports, retention and audit: not modelled yet.

## 7. What could follow

1. `Downsampler` with the cutoff at the start of the bucket, and the proof that
   rollups are then exact.
2. `TierRules` and `Rollback`: the classification of a tool and the reverse
   replay of recorded calls, as operators against a reference definition.
3. The audit archiver and the report schedules: claims and partial batches.
4. `Rotation` composed with `EscalationChain`, so that `FireNext` pages who is on
   call instead of a free choice.
