------------------------------ MODULE Rotation ------------------------------
(***************************************************************************)
(* Who a Roster puts on call (backend/paging/on_call.py), while people are *)
(* taken off it, come back, are covered, and the roster editor saves it.   *)
(*                                                                         *)
(* A time counts the hours of the roster's own zone from midnight of day   *)
(* 0, Hours to a day.  A save of the editor is several requests, one after *)
(* the other, and other requests come between them.  A user who is deleted *)
(* was deactivated before and never returns.                               *)
(***************************************************************************)
EXTENDS Integers, Sequences, FiniteSets, FiniteSetsExt, Functions

CONSTANTS
    Users,
    Nobody,       \* nobody is on call
    Hours,        \* hours of a day
    Days,         \* bound: days looked at
    Anchor,       \* the Start Date
    Settings,     \* coverage and shift length a roster may have
    Spans,        \* from and until when an override may be
    MaxPlace,     \* bound: position_index
    MaxEdits      \* bound: saves and changes of people and overrides

Times == 0 .. (Hours * Days - 1)

ASSUME RotationAssumption ==
    /\ IsFiniteSet(Users) /\ Nobody \notin Users
    /\ Hours \in Nat \ {0} /\ Days \in Nat /\ Anchor \in Nat
    /\ MaxPlace \in Nat /\ MaxEdits \in Nat
    /\ Settings \subseteq [start : 0 .. (Hours - 1), end : 0 .. (Hours - 1), length : Nat \ {0}]
    /\ Spans \subseteq {span \in Times \X Times : span[1] < span[2]}

VARIABLES
    setting,      \* the roster's coverage window and shift length
    place,        \* position_index of everybody with a place in the rotation
    removed,      \* those of them with removed_at set
    standing,     \* "operator" (or admin), "viewer" or "inactive"
    overrides,    \* overrides of the roster
    form,         \* what a save of the editor has left to send
    edits

vars == <<setting, place, removed, standing, overrides, form, edits>>

Members == DOMAIN place \ removed
Active(u) == standing[u] # "inactive"

\* Those of the rotation who can be paged.
Available == {u \in Members : Active(u)}

-----------------------------------------------------------------------------
(* on_call_at.                                                             *)

\* The k-th of the people U in the order of their places, from 0.
At(U, k) == CHOOSE u \in U : Cardinality({v \in U : place[v] < place[u]}) = k

Covering(t) == {o \in overrides : o.from <= t /\ t < o.until /\ Active(o.by)}

\* Overrides that start together come in no certain order.
Tied(t) == \E o, x \in Covering(t) : o # x /\ o.from = x.from

Covered(t) ==
    LET h == t % Hours
    IN  \/ setting.start = setting.end
        \/ setting.start < setting.end /\ setting.start <= h /\ h < setting.end
        \/ setting.start > setting.end /\ (setting.start <= h \/ h < setting.end)

\* Mistake: a shift belongs to the calendar day.
ShiftDateByCalendar(t) == t \div Hours

\* Before the day's handoff it is still the shift of the day before.
ShiftDate(t) == IF t % Hours < setting.start THEN t \div Hours - 1 ELSE t \div Hours

\* Whose turn it is among n places.
Turn(t, n) ==
    IF ShiftDate(t) < Anchor THEN 0 ELSE ((ShiftDate(t) - Anchor) \div setting.length) % n

\* Mistake: the turns go round among those who can be paged.
OnShiftOfAvailable(t) == At(Available, Turn(t, Cardinality(Available)))

\* The k-th place after place i, round the rotation.
After(i, k) == At(DOMAIN place, (i + k) % Cardinality(DOMAIN place))

\* After place i, the first that can be paged.
Steps(i) ==
    CHOOSE k \in 0 .. (Cardinality(DOMAIN place) - 1) :
        /\ After(i, k) \in Available
        /\ \A j \in 0 .. (k - 1) : After(i, j) \notin Available

\* The person whose turn it is, or the next one who can be paged.
OnShift(t) ==
    LET i == Turn(t, Cardinality(DOMAIN place)) IN After(i, Steps(i))

OnCall(t) ==
    IF Available = {} THEN Nobody
    ELSE IF Covering(t) # {}
      THEN (CHOOSE o \in Covering(t) : \A x \in Covering(t) : o.from <= x.from).by
    ELSE IF Covered(t) THEN OnShift(t) ELSE Nobody

-----------------------------------------------------------------------------
(* People and overrides.                                                   *)

Edit == edits < MaxEdits /\ edits' = edits + 1

\* Deactivation and demotion take the user off every roster.
Leave(u, to) ==
    /\ Edit
    /\ to \in {"viewer", "inactive"} /\ standing[u] # to
    /\ standing' = [standing EXCEPT ![u] = to]
    /\ removed' = removed \cup ({u} \cap DOMAIN place)
    /\ UNCHANGED <<setting, place, overrides, form>>

\* Promotion or reactivation does not put the user back.
Return(u) ==
    /\ Edit
    /\ standing[u] # "operator"
    /\ standing' = [standing EXCEPT ![u] = "operator"]
    /\ UNCHANGED <<setting, place, removed, overrides, form>>

Cover(u, span) ==
    /\ Edit
    /\ standing[u] = "operator"
    /\ overrides' = overrides \cup {[by |-> u, from |-> span[1], until |-> span[2]]}
    /\ UNCHANGED <<setting, place, removed, standing, form>>

Uncover(o) ==
    /\ Edit
    /\ overrides' = overrides \ {o}
    /\ UNCHANGED <<setting, place, removed, standing, form>>

-----------------------------------------------------------------------------
(* The roster editor: it adds, removes, and always sends the order.        *)

Closed == [adds |-> {}, drops |-> {}, order |-> <<>>]

\* What a save sends to make the members, as the form read them, those of
\* desired, in that order: the places to add, the people to remove, the order.
Save(desired) ==
    /\ form = Closed /\ Edit
    /\ form' = [adds |-> {k \in DOMAIN desired : desired[k] \notin Members},
                drops |-> Members \ Range(desired),
                order |-> desired]
    /\ UNCHANGED <<setting, place, removed, standing, overrides>>

\* The place a new member asking for position p gets.
NewPlace(p) ==
    IF \E v \in removed : place[v] = p THEN Max(Range(place)) + 1 ELSE p

\* A refusal (400, 404, 409) ends the save where it is.
SendAdd ==
    /\ form.adds # {}
    /\ LET k == Min(form.adds)
           u == form.order[k]
           p == NewPlace(k - 1)
           refused == \/ standing[u] # "operator" \/ u \in Members
                      \/ u \notin DOMAIN place /\ p \in Range(place)
       IN  /\ p <= MaxPlace
           /\ form' = IF refused THEN Closed ELSE [form EXCEPT !.adds = @ \ {k}]
           /\ removed' = IF refused THEN removed ELSE removed \ {u}
           /\ place' = IF refused \/ u \in DOMAIN place THEN place
                       ELSE [v \in DOMAIN place \cup {u} |-> IF v = u THEN p ELSE place[v]]
    /\ UNCHANGED <<setting, standing, overrides, edits>>

\* Whom the form showed first goes first.
SendDrop ==
    /\ form.adds = {} /\ form.drops # {}
    /\ LET u == CHOOSE v \in form.drops : \A w \in form.drops : place[v] <= place[w]
       IN  /\ form' = IF u \in Members THEN [form EXCEPT !.drops = @ \ {u}] ELSE Closed
           /\ removed' = removed \cup ({u} \cap Members)
    /\ UNCHANGED <<setting, place, standing, overrides, edits>>

\* The position u gets by an order.
Index(order, u) == (CHOOSE k \in DOMAIN order : order[k] = u) - 1

\* The order in which a flush writes the members' rows.
Flushes == {rows \in [1 .. Cardinality(Members) -> Members] : IsInjective(rows)}

\* Where reorder_members moves a member first.
Aside(u) == Cardinality(Members) + 1 + Cardinality({v \in Members : place[v] < place[u]})

\* A row is moved to a position that a row written later still has.
Clashes(rows) == \E i, j \in DOMAIN rows : i < j /\ Aside(rows[i]) = place[rows[j]]

\* A new order drops the places of those who were removed, and fails whole
\* when two rows clash.
SendOrder ==
    /\ form # Closed /\ form.adds = {} /\ form.drops = {}
    /\ form' = Closed
    /\ \E rows \in Flushes :
          IF Clashes(rows) THEN UNCHANGED <<place, removed>>
          ELSE /\ removed' = {}
               /\ place' = [u \in Members |->
                              IF u \in Range(form.order) THEN Index(form.order, u) ELSE Aside(u)]
    /\ UNCHANGED <<setting, standing, overrides, edits>>

-----------------------------------------------------------------------------
Orders == UNION {{o \in [1 .. Cardinality(U) -> U] : IsInjective(o)} : U \in (SUBSET Users) \ {{}}}

\* A roster of some people, in some order.
Init ==
    /\ setting \in Settings
    /\ \E o \in Orders : place = [u \in Range(o) |-> Index(o, u)]
    /\ removed = {}
    /\ standing = [u \in Users |-> "operator"]
    /\ overrides = {}
    /\ form = Closed
    /\ edits = 0

People ==
    \/ \E u \in Users, to \in {"viewer", "inactive"} : Leave(u, to)
    \/ \E u \in Users : Return(u)
    \/ \E u \in Users, span \in Spans : Cover(u, span)
    \/ \E o \in overrides : Uncover(o)

Editor ==
    \/ \E desired \in Orders : Save(desired)
    \/ SendAdd \/ SendDrop \/ SendOrder

Next == People \/ Editor

Spec == Init /\ [][Next]_vars

-----------------------------------------------------------------------------
(* Properties.                                                             *)

\* Taking people off the rotation, or putting them back in their places,
\* changes who is on call only where they were, or will be: everybody else
\* keeps their shifts (on_call_at, O-03), while anybody is left to page.  Of
\* overrides that start together the database may return either first.
NobodyElseMoves ==
    [][place' = place /\ overrides' = overrides /\ Available # {} /\ Available' # {}
       => \A t \in Times :
             OnCall(t)' # OnCall(t) /\ ~Tied(t) /\ ~Tied(t)' =>
                 OnCall(t) \notin Available' \/ OnCall(t)' \notin Available]_vars

\* The shifts since the Start Date, told apart by the clock alone: each starts
\* at a handoff and lasts the shift length.
ShiftAt(t) == (t - (Anchor * Hours + setting.start)) \div (setting.length * Hours)

\* Nobody hands over within a shift, across midnight or not (on_call_at): all
\* the covered hours of one shift that nobody covers for are the same person's.
ShiftsAreWhole ==
    LET own == {t \in Times : /\ t >= Anchor * Hours + setting.start
                              /\ Covered(t) /\ Covering(t) = {}}
        person == [t \in own |-> OnCall(t)]
    IN  \A t, u \in own : ShiftAt(t) = ShiftAt(u) => person[t] = person[u]

=============================================================================
