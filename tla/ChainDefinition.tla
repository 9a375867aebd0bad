--------------------------- MODULE ChainDefinition ---------------------------
(***************************************************************************)
(* The definitions of Escalation Chains, edited while one incident's run   *)
(* climbs them: what the row's cursor and round still mean afterwards, and *)
(* which pages the run records (backend/paging/escalation.py,              *)
(* EscalationStepRepo and IncidentPageRepo in backend/db/repos.py).        *)
(*                                                                         *)
(* Why a run advances or is held, and when, is EscalationChain's business; *)
(* here it may advance whenever it is live.                                *)
(***************************************************************************)
EXTENDS Integers, FiniteSets

CONSTANTS
    Chains,         \* escalation_chains
    NoChain,        \* NULL in a column that references one
    Levels,         \* escalation_steps, by identity
    Targets,        \* the people each level pages when they are available
    MaxIndex,       \* bound: the highest step_index
    Rounds          \* bound: the highest round, under each set of edits that
                    \* happen besides deleting levels and adding them after
                    \* the last one, as the console does: "insert", an API
                    \* client adds one at any free step_index; "reorder";
                    \* "drop", whole chains are deleted; "overlap", runs
                    \* start while a deletion is under way

Users == UNION {Targets[l] : l \in Levels}

ASSUME DefinitionAssumption ==
    /\ NoChain \notin Chains
    /\ MaxIndex \in Nat
    /\ DOMAIN Rounds \subseteq SUBSET {"insert", "reorder", "drop", "overlap"}
    /\ \A e \in DOMAIN Rounds : Rounds[e] \in Nat

VARIABLES
    edits,    \* the edits of this behaviour
    defs,     \* the levels of each chain there is, by step_index
    run,      \* the incident's row: is it live, on which chain, where
    pages,    \* its incident_pages rows with channel "recorded"
    deleting, \* the levels whose deletion began when the incident's row was
              \* not yet on their chain: it has no row to lock or to move
    visited,  \* the levels visited since the run was started or restarted,
              \* or put behind it by a reordering
    paged,    \* the people paged since then
    overlapped \* has such a deletion taken a level from behind it since then?

vars == <<edits, defs, run, pages, deleting, visited, paged, overlapped>>
history == <<visited, paged>>

MaxRound == Rounds[edits]
Definitions == UNION {[I -> Levels] : I \in SUBSET (0 .. MaxIndex)}
NoRun == [status |-> "none", chain |-> NoChain, cursor |-> -1, round |-> 0]

TypeOK ==
    /\ edits \in DOMAIN Rounds
    /\ \E alive \in SUBSET Chains : defs \in [alive -> Definitions]
    /\ run \in [status : {"none", "live", "over"}, chain : Chains \cup {NoChain},
                cursor : -1 .. MaxIndex, round : 0 .. MaxRound]
    /\ pages \subseteq [user : Users, chain : Chains \cup {NoChain},
                        index : 0 .. MaxIndex, round : 0 .. MaxRound]
    /\ deleting \subseteq Levels
    /\ visited \subseteq Levels
    /\ paged \subseteq Users
    /\ overlapped \in BOOLEAN

-----------------------------------------------------------------------------
(* Firing levels.                                                          *)

\* Mistake: whoever the level paged in any round is not paged again.
PagedInAnyRound(u, i, round) == \E p \in pages : p.user = u /\ p.index = i

AlreadyPaged(u, i, round) ==
    \E p \in pages : p.user = u /\ p.index = i /\ p.round = round

Above(r) == {i \in DOMAIN defs[r.chain] : i > r.cursor}
Highest(I) == {i \in I : \A j \in I : j <= i}

\* Row r visits the levels I above its cursor; those at E have somebody to
\* page, the others are skipped.  before: what its run visited and paged.
Visit(r, I, E, status, before) ==
    LET sent == UNION {{[user |-> u, chain |-> r.chain, index |-> i, round |-> r.round] :
                          u \in {v \in Targets[defs[r.chain][i]] :
                                   ~AlreadyPaged(v, i, r.round)}} : i \in E}
    IN  /\ E \subseteq I
        /\ \E top \in Highest(I \cup {r.cursor}) :
             run' = [r EXCEPT !.status = status, !.cursor = top]
        /\ pages' = pages \cup sent
        /\ visited' = before[1] \cup {defs[r.chain][i] : i \in I}
        /\ paged' = before[2] \cup {p.user : p \in sent}

\* _fire_next_level: up to the first level with somebody to page, or out of
\* levels.
FireNext(r, before) ==
    \/ \E i \in Above(r) :
         Visit(r, {j \in Above(r) : j <= i}, {i}, "live", before)
    \/ Visit(r, Above(r), {}, "over", before)

\* escalate_immediate: every level at once.
FireAll(r, before) ==
    \E E \in SUBSET Above(r) :
      Visit(r, Above(r), E,
            IF E \cap Highest(Above(r)) # {} THEN "live" ELSE "over", before)

\* start_chain and restart_chain_for_handoff, where they read the levels.
\* Until they commit, a deletion on the new chain does not see the run.
Start(c) ==
    /\ c \in DOMAIN defs
    /\ run.round < MaxRound
    /\ LET r == [status |-> "live", chain |-> c, cursor |-> -1,
                 round |-> IF run.status = "none" THEN 0 ELSE run.round + 1]
       IN  FireNext(r, <<{}, {}>>) \/ FireAll(r, <<{}, {}>>)
    /\ overlapped' = FALSE
    /\ UNCHANGED <<defs, deleting>>

\* A tick, a release, a lapse or Escalate now.
Advance ==
    /\ run.status = "live"
    /\ FireNext(run, history)
    /\ UNCHANGED <<defs, deleting, overlapped>>

\* The incident is closed, or handed where no chain matches.
Stop ==
    /\ run.status = "live"
    /\ run' = [run EXCEPT !.status = "over"]
    /\ UNCHANGED <<defs, pages, deleting, visited, paged, overlapped>>

-----------------------------------------------------------------------------
(* Edits.                                                                  *)

\* What is left of definition f without index gone, renumbered from 0.
Compact(f, gone) ==
    LET left == DOMAIN f \ {gone}
        At(k) == CHOOSE i \in left : Cardinality({j \in left : j < i}) = k
    IN  [k \in 0 .. (Cardinality(left) - 1) |-> f[At(k)]]

\* Mistake: the cursor stays where it is.
MovedNever(cursor, gone) == cursor

\* The row's cursor once a level of its chain is removed.
Moved(cursor, gone) == IF cursor >= gone THEN cursor - 1 ELSE cursor

\* Level i of chain c goes, and any other deletion of it finds nothing.
Remove(c, i) ==
    /\ i \in DOMAIN defs[c]
    /\ defs' = [defs EXCEPT ![c] = Compact(@, i)]
    /\ deleting' = deleting \ {defs[c][i]}
    /\ UNCHANGED <<pages, visited, paged>>

\* EscalationStepRepo.delete: it locks the rows on the chain where it looks
\* for runs and holds them until it commits.
DeleteLevel(c, i) ==
    /\ Remove(c, i)
    /\ IF run.status = "live" /\ run.chain = c
       THEN /\ run.round < MaxRound
            /\ run' = [run EXCEPT !.cursor = Moved(@, i), !.round = @ + 1]
       ELSE UNCHANGED run
    /\ UNCHANGED overlapped

\* With no row there it holds nothing, and a run may start before it commits.
LookForRun(c, i) ==
    /\ "overlap" \in edits
    /\ run.chain # c /\ i \in DOMAIN defs[c]
    /\ deleting' = deleting \cup {defs[c][i]}
    /\ UNCHANGED <<defs, run, pages, visited, paged, overlapped>>

\* A run that did is left where it is.
DeleteUnseen(c, i) ==
    /\ i \in DOMAIN defs[c] /\ defs[c][i] \in deleting
    /\ Remove(c, i)
    /\ overlapped' = (overlapped \/ (run.chain = c /\ i <= run.cursor))
    /\ UNCHANGED run

\* add_escalation_step: the index must be free.
AddLevel(c, i, l) ==
    /\ i \notin DOMAIN defs[c]
    /\ "insert" \in edits \/ DOMAIN defs[c] = 0 .. (i - 1)
    /\ run.status = "live" => l \notin visited
    /\ \A d \in DOMAIN defs : \A j \in DOMAIN defs[d] : defs[d][j] # l
    /\ defs' = [defs EXCEPT ![c] = [j \in DOMAIN @ \cup {i} |->
                                      IF j = i THEN l ELSE @[j]]]
    /\ UNCHANGED <<run, pages, deleting, visited, paged, overlapped>>

\* EscalationStepRepo.reorder renumbers from 0 and leaves every run alone:
\* the levels that come to lie behind a run's cursor count as visited by it.
ReorderLevels(c) ==
    /\ "reorder" \in edits
    /\ LET N == 0 .. (Cardinality(DOMAIN defs[c]) - 1)
       IN  \E f \in [N -> {defs[c][i] : i \in DOMAIN defs[c]}] :
             /\ \A j, k \in N : f[j] = f[k] => j = k
             /\ defs' = [defs EXCEPT ![c] = f]
             /\ visited' = IF run.chain = c
                            THEN {f[i] : i \in {j \in N : j <= run.cursor}}
                            ELSE visited
    /\ UNCHANGED <<run, pages, deleting, paged, overlapped>>

\* EscalationChainRepo.delete: the row on it goes too, its pages lose it.
DeleteChain(c) ==
    /\ "drop" \in edits
    /\ defs' = [d \in DOMAIN defs \ {c} |-> defs[d]]
    /\ run' = IF run.chain = c THEN NoRun ELSE run
    /\ pages' = {IF p.chain = c THEN [p EXCEPT !.chain = NoChain] ELSE p : p \in pages}
    /\ deleting' = deleting \ {defs[c][i] : i \in DOMAIN defs[c]}
    /\ UNCHANGED <<visited, paged, overlapped>>

-----------------------------------------------------------------------------
\* Two definitions as the console leaves them, and an incident yet to page.
Init ==
    /\ edits \in DOMAIN Rounds
    /\ defs \in [Chains -> Definitions]
    /\ \A c \in Chains : DOMAIN defs[c] = 0 .. (Cardinality(DOMAIN defs[c]) - 1)
    /\ \A c, d \in Chains : \A i \in DOMAIN defs[c], j \in DOMAIN defs[d] :
         defs[c][i] = defs[d][j] => c = d /\ i = j
    /\ run = NoRun
    /\ pages = {}
    /\ deleting = {}
    /\ visited = {} /\ paged = {} /\ overlapped = FALSE

Fires == Advance \/ \E c \in Chains : Start(c)

Edit(c) ==
    \/ \E i \in DOMAIN defs[c] :
         DeleteLevel(c, i) \/ LookForRun(c, i) \/ DeleteUnseen(c, i)
    \/ \E i \in 0 .. MaxIndex, l \in Levels : AddLevel(c, i, l)
    \/ ReorderLevels(c)
    \/ DeleteChain(c)

Next == (Fires \/ Stop \/ \E c \in DOMAIN defs : Edit(c)) /\ UNCHANGED edits

Spec == Init /\ [][Next]_vars

-----------------------------------------------------------------------------
(* The definition and the run on it.                                       *)

LevelsAt(I) == {defs[run.chain][i] : i \in I}
ToCome == IF run.status = "live" THEN LevelsAt(Above(run)) ELSE {}

\* A run has no level ahead of it that it visited already, at whatever indexes
\* levels are added and whichever are deleted.  While they are added after the
\* last one only, the levels at or below its cursor are exactly those it
\* visited, so none is left out either, unless a deletion that had looked for
\* runs before this one was there took a level from behind it: that shifts a
\* level nobody visited to where the run has been.
CursorIsExact ==
    run.status = "live" =>
        LET I == DOMAIN defs[run.chain]
        IN  /\ LevelsAt(Above(run)) \cap visited = {}
            /\ "insert" \notin edits /\ ~overlapped =>
                   LevelsAt(I \ Above(run)) = LevelsAt(I) \cap visited

\* Deleting a level, when the deletion sees the run, leaves it the same levels
\* to climb less that one: docs/wiki/paging-guide.md:205, "Removing a level compacts the
\* remaining list without repeating or skipping levels in an active chain".
DeleteKeepsPlace ==
    [][\A c \in DOMAIN defs : \A i \in DOMAIN defs[c] :
         DeleteLevel(c, i) /\ run.chain = c => ToCome' = ToCome \ {defs[c][i]}]_vars

-----------------------------------------------------------------------------
(* Pages.                                                                  *)

\* Mistake: a page of an earlier round on the same chain counts.
PagedOnChain(u) ==
    /\ run.status # "none"
    /\ \E p \in pages : p.user = u /\ p.chain = run.chain

\* paged_in_current_run, on which acknowledging depends.
PagedInCurrentRun(u) ==
    /\ run.status # "none"
    /\ \E p \in pages : p.user = u /\ p.chain = run.chain /\ p.round = run.round

\* A run that stops at a level pages everyone it targets: no page of an
\* earlier run is mistaken for its own.  docs/wiki/paging-guide.md:207,
\* "Service handoffs begin a new page round, so a responder can be paged again
\* on the new chain".
FiringPages ==
    [][Fires /\ run'.status = "live" /\ "drop" \notin edits =>
         \A u \in Targets[defs[run'.chain][run'.cursor]] :
           [user |-> u, chain |-> run'.chain, index |-> run'.cursor,
            round |-> run'.round] \in pages' \ pages]_vars

\* Nobody may acknowledge on the strength of an earlier run's page, unless the
\* chain of that run was deleted.
TakersWerePaged ==
    "drop" \notin edits => \A u \in Users : PagedInCurrentRun(u) => u \in paged

=============================================================================
