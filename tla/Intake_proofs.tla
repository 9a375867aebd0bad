---------------------------- MODULE Intake_proofs ----------------------------
(***************************************************************************)
(* Intake for any alerts, services, deliveries and combine requests, and   *)
(* any number of incidents: one open incident per alert, no rings of       *)
(* merges, one notice per service, and no alert left unanswered.           *)
(***************************************************************************)
EXTENDS Intake, FiniteSetTheorems, TLAPS

-----------------------------------------------------------------------------
(* What the rows and the processes may be.                                 *)

Incidents ==
    [status : {"none", "open", "resolved", "merged", "deleted"}, alert : Alerts,
     service : Services, into : 0 .. MaxInc, plain : BOOLEAN]

DeliveryJobs ==
    [alert : Alerts, service : Services, kind : {"fired", "cleared"}, found : 0 .. MaxInc,
     was : {"none", "open", "resolved", "merged"}, owns : BOOLEAN, on : 0 .. MaxInc,
     noted : BOOLEAN, told : BOOLEAN, closed : SUBSET Ids]

CombineJobs == [into : Ids, of : Seq(Ids), folded : Seq(Ids)]

Busy(d) == step[d] \notin {"idle", "failed"}

TypeRows ==
    /\ made \in 0 .. MaxInc
    /\ inc \in [Ids -> Incidents]
    /\ \A i \in Ids : inc[i].status = "none" <=> i > made
    /\ notices \in [Ids -> [Services -> Nat]]

TypeProcs ==
    /\ turn \in [Alerts -> Deliveries \cup {Nobody}]
    /\ rowLock \in [Ids -> Procs \cup {Nobody}]
    /\ DOMAIN step = Procs /\ DOMAIN job = Procs
    /\ \A d \in Deliveries :
          step[d] \in {"idle", "failed", "found", "skip", "hush", "collide", "group", "create"}
    /\ \A c \in Combines : step[c] \in {"idle", "fold"}
    /\ untidy \in BOOLEAN

-----------------------------------------------------------------------------
(* The parts of the invariant.                                             *)

\* No incident of the alert was opened beside another.
AllPlain(a) == \A n \in 1 .. made : inc[n].alert = a => inc[n].plain

\* Only the newest incident of such an alert can be open, and was never merged.
NewestOpen ==
    \A i \in Live :
        /\ inc[i].plain => inc[i].into = 0
        /\ AllPlain(inc[i].alert) => \A n \in 1 .. made : inc[n].alert = inc[i].alert => n <= i

\* The delivery found the alert's open incident if there is one.
FoundOpen(d) ==
    AllPlain(job[d].alert) =>
        \A i \in Live : inc[i].alert = job[d].alert => job[d].was = "open" /\ job[d].found = i

NoneOpen(d) == AllPlain(job[d].alert) => \A i \in Live : inc[i].alert # job[d].alert

LookedUp(d) ==
    /\ step[d] \in {"found", "collide"} => FoundOpen(d)
    /\ step[d] = "collide" => job[d].on = job[d].found /\ job[d].was = "open"
    /\ step[d] = "create" /\ (job[d].was # "open" \/ job[d].noted) => NoneOpen(d)

\* It is open, or was closed or deleted since the lookup.
OpenTill(d, i) ==
    i \in 1 .. made /\ (inc[i].status = "open" \/ i \in job[d].closed \/ i \notin Kept)

Answering(d) ==
    /\ step[d] = "found" /\ job[d].was = "open" => OpenTill(d, job[d].found)
    /\ step[d] \in {"collide", "skip", "group"} => OpenTill(d, job[d].on)

\* Whoever sends a notice holds the row, and is the first to.
Telling(d) ==
    job[d].told =>
        /\ step[d] = "skip" /\ job[d].on \in Ids /\ rowLock[job[d].on] = d
        /\ notices[job[d].on][job[d].service] = 0

\* A delivery has its alert's turn to itself.
Delivering(d) ==
    Busy(d) => /\ job[d] \in DeliveryJobs /\ turn[job[d].alert] = d
               /\ LookedUp(d) /\ Answering(d) /\ Telling(d)

\* Merge pointers lead from incidents to incidents.
NoDangling == \A i \in Ids : inc[i].into # 0 => i \in Kept /\ inc[i].into \in Kept

Folding(c) == step[c] = "fold"

\* A combine has members, holds those it folded, and keeps its primary from
\* the first of them.
Combining(c) ==
    Folding(c) =>
        /\ job[c] \in CombineJobs
        /\ IF job[c].folded = <<>> THEN job[c].of # <<>> ELSE job[c].into \in Kept

\* No merge pointers go round.
NoRings == \A S \in SUBSET Kept : S # {} => \E i \in S : inc[i].into \notin S

Tidy ==
    /\ \A i \in Ids : inc[i].into # 0 => inc[i].status = "merged"
    /\ \A c, x \in Combines : Folding(c) /\ Folding(x) => c = x
    /\ \A c \in Combines : Folding(c) =>
          /\ inc[job[c].into].into = 0
          /\ job[c].into \notin Range(job[c].of) \cup Range(job[c].folded)
    /\ NoRings

\* The inductive invariant.
IInv ==
    /\ TypeRows /\ TypeProcs
    /\ NewestOpen /\ NoDangling /\ ToldOnce
    /\ \A d \in Deliveries : Delivering(d)
    /\ \A c \in Combines : Combining(c)
    /\ untidy \/ Tidy

-----------------------------------------------------------------------------
(* Numbers.                                                                *)

\* Numbers have a least one.
LEMMA LeastOfNat ==
    ASSUME NEW S \in SUBSET Nat, S # {}
    PROVE  \E x \in S : \A y \in S : x <= y
<1> DEFINE R == OpToRel(<, Nat)
<1>1. IsWellFoundedOn(R, Nat)
  BY NatLessThanWellFounded, Zenon
<1> HIDE DEF R
<1>2. PICK x \in S : \A y \in S : ~(<<y, x>> \in R)
  BY <1>1, WFMin
<1>3. \A y \in S : ~(y < x)
  BY <1>2 DEF R, OpToRel
<1> QED
  BY <1>3

-----------------------------------------------------------------------------
(* Following merge pointers.                                               *)

Upward(S) == \A y \in S : inc[y].into \in Kept => inc[y].into \in S

\* Above is the least set that holds the incident and follows its pointers.
LEMMA AboveLeast ==
    ASSUME NEW i \in Kept
    PROVE  /\ i \in Above(i) /\ Above(i) \subseteq Kept /\ Upward(Above(i))
           /\ \A S \in SUBSET Kept : i \in S /\ Upward(S) => Above(i) \subseteq S
<1>1. i \in Above(i) /\ Above(i) \subseteq Kept
  BY DEF Above
<1>2. ASSUME NEW y \in Above(i), inc[y].into \in Kept
      PROVE  inc[y].into \in Above(i)
  BY <1>2 DEF Above
<1>3. \A S \in SUBSET Kept : i \in S /\ Upward(S) => Above(i) \subseteq S
  BY DEF Above, Upward
<1> QED
  BY <1>1, <1>2, <1>3 DEF Upward

\* What is above something above an incident is above the incident.
LEMMA AboveWithin ==
    ASSUME NEW i \in Kept, NEW x \in Above(i)
    PROVE  x \in Kept /\ Above(x) \subseteq Above(i)
<1>1. x \in Kept
  BY AboveLeast
<1> QED
  BY <1>1, AboveLeast

\* Above an incident are itself and what is above its primary.
LEMMA AboveNext ==
    ASSUME NEW i \in Kept, inc[i].into \in Kept
    PROVE  Above(i) \subseteq {i} \cup Above(inc[i].into)
<1> DEFINE p == inc[i].into
           S == {i} \cup Above(p)
<1>1. p \in Above(p) /\ Above(p) \subseteq Kept /\ Upward(Above(p))
  BY AboveLeast
<1>2. S \in SUBSET Kept /\ i \in S /\ Upward(S)
  BY <1>1 DEF Upward
<1> QED
  BY <1>2, AboveLeast

\* An incident that was not merged is its own.
LEMMA FollowStays ==
    ASSUME NEW i \in Kept, inc[i].into \notin Kept
    PROVE  Follow(i) = i
<1>1. {i} \in SUBSET Kept /\ Upward({i})
  BY DEF Upward
<1>2. Above(i) = {i}
  BY <1>1, AboveLeast
<1> QED
  BY <1>2 DEF Follow

\* Pointers lead somewhere: to an end, or to a ring, into it or round it.
LEMMA FollowEnds ==
    ASSUME NEW i \in Kept, IsFiniteSet(Kept)
    PROVE  /\ Follow(i) \in Above(i)
           /\ inc[Follow(i)].into \notin Kept \/ Returns(Follow(i))
<1> DEFINE Stops(e) ==
             \/ inc[e].into \notin Kept
             \/ Returns(e) /\ (e = i \/ \E x \in Above(i) \ Above(e) : inc[x].into = e)
<1> SUFFICES \E e \in Above(i) : Stops(e)
  BY DEF Follow
<1> SUFFICES ASSUME \A e \in Above(i) : ~Stops(e)
             PROVE  FALSE
  OBVIOUS
<1>1. /\ i \in Above(i) /\ Above(i) \subseteq Kept /\ Upward(Above(i))
      /\ \A S \in SUBSET Kept : i \in S /\ Upward(S) => Above(i) \subseteq S
  BY AboveLeast
<1> DEFINE N == {Cardinality(Above(e)) : e \in Above(i)}
<1>2. \A e \in Above(i) : IsFiniteSet(Above(e)) /\ Cardinality(Above(e)) \in Nat
  BY <1>1, AboveLeast, FS_Subset, FS_CardinalityType
<1>3. N \in SUBSET Nat /\ N # {}
  BY <1>1, <1>2
<1>4. PICK n \in N : \A k \in N : n <= k
  <2> HIDE DEF N
  <2> QED
    BY <1>3, LeastOfNat
<1>5. PICK b \in Above(i) : Cardinality(Above(b)) = n
  BY <1>4
<1> DEFINE B == Above(b)
<1>6. B \subseteq Above(i) /\ B \subseteq Kept /\ b \in B /\ b \in Kept
  BY <1>1, AboveWithin, AboveLeast
\* Nothing in B leads out of it, and everything in it leads back.
<1>7. ASSUME NEW y \in B
      PROVE  Above(y) = B
  <2>1. y \in Kept /\ Above(y) \subseteq B
    BY <1>6, AboveWithin
  <2>2. Cardinality(B) <= Cardinality(Above(y))
    BY <1>4, <1>5, <1>6
  <2>3. IsFiniteSet(B) /\ Cardinality(B) \in Nat /\ Cardinality(Above(y)) \in Nat
    BY <1>2, <1>6
  <2> HIDE DEF B
  <2> QED
    BY <2>1, <2>2, <2>3, FS_Subset
<1>8. ASSUME NEW y \in B
      PROVE  inc[y].into \in B
  BY <1>6, <1>7, AboveLeast DEF Upward
<1>9. ASSUME NEW y \in B
      PROVE  Returns(y)
  <2> DEFINE S == {inc[x].into : x \in B}
  <2>1. S \in SUBSET Kept /\ Upward(S) /\ S # {}
    BY <1>6, <1>8 DEF Upward
  <2>2. PICK z \in S : z \in B
    BY <1>8, <2>1
  <2>3. z \in Kept /\ Above(z) \subseteq S
    BY <1>6, <2>1, <2>2, AboveLeast
  <2>4. y \in S
    BY <1>7, <2>2, <2>3
  <2> QED
    BY <1>7, <2>4 DEF Returns
<1>10. i \notin B
  BY <1>1, <1>9
<1> DEFINE T == Above(i) \ B
<1>11. PICK x \in T : inc[x].into \in B
  <2>1. T \in SUBSET Kept /\ i \in T
    BY <1>1, <1>10
  <2>2. ~Upward(T)
    BY <1>1, <1>6, <2>1
  <2> QED
    BY <1>1, <2>2 DEF Upward
<1>12. inc[x].into \in Above(i) /\ Stops(inc[x].into)
  BY <1>6, <1>7, <1>9, <1>11
<1> QED
  BY <1>12

\* The incidents that are there are some of those created.
LEMMA KeptFinite ==
    ASSUME TypeRows
    PROVE  IsFiniteSet(Kept) /\ Kept \subseteq 1 .. made /\ Kept \subseteq Ids /\ made \in Nat
<1>1. made \in Nat /\ made <= MaxInc /\ MaxInc \in Nat
  BY IntakeAssumption DEF TypeRows
<1>2. Kept \subseteq 1 .. made
  BY DEF Kept
<1>3. IsFiniteSet(1 .. made)
  BY <1>1, FS_Interval
<1>4. IsFiniteSet(Kept)
  BY <1>2, <1>3, FS_Subset
<1>5. 1 .. made \subseteq Ids
  BY <1>1 DEF Ids
<1> QED
  BY <1>1, <1>2, <1>4, <1>5

\* While no pointers go round, nothing that was merged is its own.
LEMMA MergedElsewhere ==
    ASSUME TypeRows, NoDangling, NoRings, NEW i \in Kept, inc[i].into # 0
    PROVE  Follow(i) # i
<1>1. inc[i].into \in Kept
  BY KeptFinite DEF NoDangling
<1>2. SUFFICES ASSUME Returns(i) PROVE FALSE
  BY <1>1, FollowEnds, KeptFinite
<1>3. PICK y \in Above(i) : inc[y].into = i
  BY <1>2 DEF Returns
\* What is above i and leads back to it.
<1> DEFINE R == {x \in Above(i) : i \in Above(x)}
<1>4. R \in SUBSET Kept /\ i \in R
  BY AboveLeast
<1>5. ASSUME NEW x \in R
      PROVE  inc[x].into \in R
  <2>1. x \in Kept /\ Above(x) \subseteq Above(i)
    BY AboveWithin
  <2>2. CASE x = i
    <3>1. i \in Above(inc[i].into)
      <4>1. CASE y = i
        BY <1>1, <1>3, <4>1, AboveLeast
      <4>2. CASE y # i
        <5>1. y \in Above(inc[i].into)
          BY <1>1, <1>3, <4>2, AboveNext
        <5> QED
          BY <1>1, <1>3, <5>1, AboveLeast DEF Upward
      <4> QED
        BY <4>1, <4>2
    <3> QED
      BY <1>1, <2>2, <3>1, AboveLeast DEF Upward
  <2>3. CASE x # i
    <3>1. i \in Above(x)
      OBVIOUS
    <3>2. inc[x].into \in Kept
      <4> SUFFICES ASSUME inc[x].into \notin Kept PROVE FALSE
        OBVIOUS
      <4>1. {x} \in SUBSET Kept /\ Upward({x})
        BY <2>1 DEF Upward
      <4> QED
        BY <2>1, <2>3, <3>1, <4>1, AboveLeast
    <3>3. i \in Above(inc[x].into)
      BY <2>1, <2>3, <3>1, <3>2, AboveNext
    <3>4. inc[x].into \in Above(i)
      BY <3>2, AboveLeast DEF Upward
    <3> QED
      BY <3>3, <3>4
  <2> QED
    BY <2>2, <2>3
<1> HIDE DEF R
<1> QED
  BY <1>4, <1>5 DEF NoRings

\* The lookup finds an incident that is there, and the alert's newest when that
\* was not merged.
LooksUp ==
    TypeRows => \A a \in Alerts :
        /\ Lookup(a) \in Kept \cup {0}
        /\ \A i \in Kept : /\ inc[i].alert = a /\ inc[i].into = 0
                           /\ \A n \in Kept : inc[n].alert = a => n <= i
                           => Lookup(a) = i

LEMMA LookupFinds == LooksUp
<1> SUFFICES ASSUME TypeRows, NEW a \in Alerts
             PROVE  /\ Lookup(a) \in Kept \cup {0}
                    /\ \A i \in Kept : /\ inc[i].alert = a /\ inc[i].into = 0
                                       /\ \A n \in Kept : inc[n].alert = a => n <= i
                                       => Lookup(a) = i
  BY DEF LooksUp
<1> DEFINE own == {i \in Kept : inc[i].alert = a}
           newest == CHOOSE i \in own : \A j \in own : j <= i
<1>1. own \subseteq Nat /\ 0 \notin Kept /\ \A j \in own : j <= made
  BY KeptFinite
<1>2. ASSUME own # {}
      PROVE  newest \in own /\ \A j \in own : j <= newest
  <2> DEFINE S == {made - j : j \in own}
  <2>1. S \in SUBSET Nat /\ S # {}
    BY <1>1, <1>2, KeptFinite
  <2>2. PICK m \in S : \A k \in S : m <= k
    <3> HIDE DEF S
    <3> QED
      BY <2>1, LeastOfNat
  <2>3. PICK j \in own : m = made - j
    BY <2>2
  <2>4. \A k \in own : k <= j
    <3>1. \A k \in own : made - j <= made - k
      BY <2>2, <2>3
    <3> QED
      BY <1>1, <3>1, KeptFinite
  <2> HIDE DEF own
  <2> QED
    BY <2>3, <2>4
<1>3. Lookup(a) = IF own = {} THEN 0 ELSE Follow(newest)
  BY DEF Lookup
<1>4. Lookup(a) \in Kept \cup {0}
  <2>1. ASSUME own # {} PROVE Follow(newest) \in Kept
    BY <1>2, <2>1, FollowEnds, AboveLeast, KeptFinite
  <2> HIDE DEF own, newest
  <2> QED
    BY <1>3, <2>1
<1>5. ASSUME NEW i \in Kept, inc[i].alert = a, inc[i].into = 0,
             \A n \in Kept : inc[n].alert = a => n <= i
      PROVE  Lookup(a) = i
  <2>1. i \in own /\ \A j \in own : j <= i
    BY <1>5
  <2>2. newest = i
    <3>1. newest \in own /\ i <= newest /\ newest <= i
      BY <1>2, <2>1
    <3>2. newest \in Nat /\ i \in Nat
      BY <1>1, <2>1, <3>1
    <3> HIDE DEF newest
    <3> QED
      BY <3>1, <3>2
  <2>3. Follow(i) = i
    BY <1>1, <1>5, FollowStays
  <2> HIDE DEF newest
  <2> QED
    BY <1>3, <2>1, <2>2, <2>3
<1> QED
  BY <1>4, <1>5

-----------------------------------------------------------------------------
(* The start, and those a step does not concern.                           *)

\* At first every alert has one incident, and nobody is at work.
LEMMA IInitial ==
    ASSUME Init
    PROVE  IInv
<1> DEFINE order == SetToSeq(Alerts)
<1>1. made \in Nat /\ made = Cardinality(Alerts) /\ made <= MaxInc /\ MaxInc \in Nat
  BY IntakeAssumption, FS_CardinalityType DEF Init
<1>2. order \in [1 .. made -> Alerts] /\ \A i, j \in 1 .. made : order[i] = order[j] => i = j
  <2>1. PICK f : f \in Bijection(1 .. Cardinality(Alerts), Alerts)
    BY IntakeAssumption, FS_CardinalityType DEF ExistsBijection
  <2>2. f \in [1 .. Cardinality(Alerts) -> Alerts] /\ IsInjective(f)
    BY <2>1 DEF Bijection, Injection
  <2>3. order \in [1 .. Cardinality(Alerts) -> Alerts] /\ IsInjective(order)
    BY <2>2 DEF SetToSeq
  <2> HIDE DEF order
  <2> QED
    BY <1>1, <2>3 DEF IsInjective
<1> HIDE DEF order
<1>3. PICK open \in SUBSET Alerts :
        inc = [i \in Ids |-> IF i > made THEN NoInc
                 ELSE [NoInc EXCEPT !.status = IF order[i] \in open THEN "open" ELSE "resolved",
                                    !.alert = order[i]]]
  BY DEF Init, order
<1>4. PICK a \in Alerts : NoInc = [status |-> "none", alert |-> a, service |-> First,
                                   into |-> 0, plain |-> TRUE]
  BY IntakeAssumption DEF NoInc
<1>5. ASSUME NEW i \in Ids
      PROVE  /\ inc[i] \in Incidents /\ inc[i].into = 0 /\ inc[i].plain
             /\ inc[i].status \notin {"merged", "deleted"}
             /\ IF i > made THEN inc[i].status = "none"
                ELSE i \in 1 .. made /\ inc[i].status # "none" /\ inc[i].alert = order[i]
  <2>1. CASE i > made
    <3>1. inc[i] = NoInc
      BY <1>3, <2>1
    <3> QED
      BY <1>1, <1>4, <2>1, <3>1, IntakeAssumption DEF Incidents
  <2>2. CASE ~(i > made)
    <3>1. i \in 1 .. made
      BY <1>1, <2>2 DEF Ids
    <3>2. PICK s \in {"open", "resolved"} :
            inc[i] = [status |-> s, alert |-> order[i], service |-> First,
                      into |-> 0, plain |-> TRUE]
      <4>1. inc[i] = [NoInc EXCEPT !.status = IF order[i] \in open THEN "open" ELSE "resolved",
                                   !.alert = order[i]]
        BY <1>3, <2>2
      <4> QED
        BY <1>4, <4>1
    <3>3. order[i] \in Alerts
      BY <1>2, <3>1
    <3> QED
      BY <1>1, <2>2, <3>1, <3>2, <3>3, IntakeAssumption DEF Incidents
  <2> QED
    BY <2>1, <2>2
<1>6. \A i \in Ids : inc[i].into = 0
  BY <1>5
<1>7. TypeRows
  <2>1. notices \in [Ids -> [Services -> Nat]]
    BY DEF Init
  <2>2. inc \in [Ids -> Incidents]
    BY <1>3, <1>5
  <2>3. \A i \in Ids : inc[i].status = "none" <=> i > made
    BY <1>5
  <2>4. made \in 0 .. MaxInc
    BY <1>1
  <2> QED
    BY <2>1, <2>2, <2>3, <2>4 DEF TypeRows
<1>9. NewestOpen
  <2>1. Live \subseteq Ids /\ \A i \in Live : i \in 1 .. made
    BY <1>5 DEF Live
  <2>2. \A i \in 1 .. made : inc[i].alert = order[i]
    BY <1>1, <1>5 DEF Ids
  <2>3. \A i, n \in 1 .. made : inc[n].alert = inc[i].alert => n = i
    BY <1>2, <2>2
  <2>4. \A n \in 1 .. made : n <= n
    BY <1>1
  <2> QED
    BY <1>6, <2>1, <2>3, <2>4 DEF NewestOpen
<1>10. TypeProcs
  BY DEF TypeProcs, Init, Procs
<1>11. Tidy
  <2>1. Kept \subseteq Ids /\ 0 \notin Kept
    BY <1>7, KeptFinite
  <2>2. NoRings
    BY <1>6, <2>1 DEF NoRings
  <2>3. \A c \in Combines : ~Folding(c)
    BY DEF Init, Procs, Folding
  <2> QED
    BY <1>6, <2>2, <2>3 DEF Tidy
<1>12. ToldOnce /\ NoDangling
  <2>1. \A i \in Ids, s \in Services : notices[i][s] = 0
    BY DEF Init
  <2> QED
    BY <1>6, <2>1 DEF ToldOnce, NoDangling
<1>13. /\ \A d \in Deliveries : ~Busy(d)
       /\ \A c \in Combines : ~Folding(c)
  BY DEF Init, Busy, Folding, Procs
<1> QED
  BY <1>7, <1>9, <1>10, <1>11, <1>12, <1>13 DEF IInv, Delivering, Combining

\* What a step that closes the incidents of C leaves to another delivery.
Spares(e, C) ==
    /\ step'[e] = step[e]
    /\ \/ job'[e] = [job[e] EXCEPT !.closed = @ \cup C]
       \/ C = {} /\ job'[e] = job[e]
    /\ turn'[job[e].alert] = turn[job[e].alert]
    /\ \A i \in Ids : rowLock[i] = e => rowLock'[i] = e /\ notices'[i] = notices[i]

\* What such a step may do to the rows, as far as the alerts of A do not see.
Turning(A, C) ==
    /\ made' \in Nat /\ made <= made'
    /\ \A i \in 1 .. made :
          /\ inc'[i].alert = inc[i].alert /\ (inc'[i].plain => inc[i].plain)
          /\ inc[i].status = "open" => i \in C \/ inc'[i].status \in {"open", "deleted"}
          /\ inc[i].status = "deleted" => inc'[i].status = "deleted"
    /\ \A i \in Ids : inc'[i].status = "open" =>
          \/ inc[i].status = "open"
          \/ i \in 1 .. made' /\ ~inc'[i].plain
          \/ inc'[i].alert \notin A

\* Such a step keeps what is said of a delivery that it does not make.
LEMMA Bystander ==
    ASSUME TypeRows, NEW C \in SUBSET Ids, NEW A, Turning(A, C),
           NEW e \in Deliveries, Delivering(e), Busy(e) => Spares(e, C) /\ job[e].alert \in A,
           step'[e] = step[e]
    PROVE  Delivering(e)'
<1> SUFFICES ASSUME Busy(e)
             PROVE  /\ job'[e] \in DeliveryJobs /\ turn'[job'[e].alert] = e
                    /\ LookedUp(e)' /\ Answering(e)' /\ Telling(e)'
  BY DEF Delivering, Busy
<1>1. job[e] \in DeliveryJobs /\ turn[job[e].alert] = e /\ LookedUp(e) /\ Answering(e) /\ Telling(e)
  BY DEF Delivering
<1>2. /\ job'[e] \in DeliveryJobs
      /\ job'[e].closed = job[e].closed \cup C
      /\ job'[e].alert = job[e].alert /\ job'[e].was = job[e].was /\ job'[e].found = job[e].found
      /\ job'[e].on = job[e].on /\ job'[e].noted = job[e].noted /\ job'[e].told = job[e].told
      /\ job'[e].service = job[e].service
  BY <1>1 DEF Spares, DeliveryJobs
<1>3. made \in Nat /\ made' \in Nat /\ made <= made' /\ made <= MaxInc /\ MaxInc \in Nat
  BY IntakeAssumption DEF Turning, TypeRows
<1>4. AllPlain(job[e].alert)' => AllPlain(job[e].alert)
  BY <1>2, <1>3 DEF AllPlain, Turning
<1>5. \A i \in Live' : /\ inc'[i].alert = job[e].alert /\ AllPlain(job[e].alert)'
                       => i \in Live /\ inc[i].alert = job[e].alert
  <2> SUFFICES ASSUME NEW i \in Live', inc'[i].alert = job[e].alert, AllPlain(job[e].alert)'
               PROVE  i \in Live /\ inc[i].alert = job[e].alert
    OBVIOUS
  <2>1. i \in Ids /\ inc'[i].status = "open"
    BY DEF Live
  <2>2. ~(i \in 1 .. made' /\ ~inc'[i].plain)
    BY <1>2 DEF AllPlain
  <2>3. inc[i].status = "open"
    BY <2>1, <2>2 DEF Turning
  <2>4. i \in 1 .. made
    BY <1>3, <2>1, <2>3 DEF TypeRows, Ids
  <2> QED
    BY <2>1, <2>3, <2>4 DEF Live, Turning
<1>6. LookedUp(e)'
  BY <1>1, <1>2, <1>4, <1>5 DEF LookedUp, FoundOpen, NoneOpen, Spares
<1>7. \A i \in Ids : OpenTill(e, i) => OpenTill(e, i)'
  BY <1>2, <1>3 DEF OpenTill, Turning, Kept
<1>8. Answering(e)'
  <2>1. \A i \in 1 .. made : i \in Ids
    BY <1>3 DEF Ids
  <2> QED
    BY <1>1, <1>2, <1>7, <2>1 DEF Answering, Spares, OpenTill
<1>9. Telling(e)'
  BY <1>1, <1>2 DEF Telling, Spares
<1> QED
  BY <1>1, <1>2, <1>6, <1>8, <1>9 DEF Spares

\* Rows that stay keep what is said of them.
LEMMA RowsStay ==
    ASSUME made' = made, inc' = inc
    PROVE  /\ Kept' = Kept /\ Live' = Live
           /\ NewestOpen => NewestOpen'
           /\ NoDangling => NoDangling'
           /\ NoRings => NoRings'
<1>1. Kept' = Kept /\ Live' = Live
  BY DEF Kept, Live
<1> QED
  BY <1>1 DEF NewestOpen, AllPlain, NoDangling, NoRings

\* So do combines that neither they nor their rows are touched.
LEMMA CombinesStay ==
    ASSUME made' = made, inc' = inc, untidy' = untidy, untidy \/ Tidy,
           \A c \in Combines : Combining(c) /\ step'[c] = step[c] /\ job'[c] = job[c]
    PROVE  (\A c \in Combines : Combining(c)') /\ (untidy \/ Tidy)'
<1>1. Kept' = Kept /\ (NoRings => NoRings')
  BY RowsStay
<1>2. \A c \in Combines : Folding(c)' = Folding(c)
  BY DEF Folding
<1>3. \A c \in Combines : Combining(c)'
  BY <1>1, <1>2 DEF Combining
<1>4. Tidy => Tidy'
  BY <1>1, <1>2 DEF Tidy
<1> QED
  BY <1>3, <1>4

\* A delivery that changes no incident concerns only itself.
LEMMA Delivers ==
    ASSUME IInv, NEW d \in Deliveries, made' = made, inc' = inc, untidy' = untidy,
           \A c \in Combines : step'[c] = step[c] /\ job'[c] = job[c],
           \A e \in Deliveries \ {d} : step'[e] = step[e] /\ (Busy(e) => Spares(e, {})),
           TypeProcs', notices' \in [Ids -> [Services -> Nat]], ToldOnce', Delivering(d)'
    PROVE  IInv'
<1>1. TypeRows /\ NewestOpen /\ NoDangling /\ (untidy \/ Tidy)
      /\ (\A e \in Deliveries : Delivering(e)) /\ (\A c \in Combines : Combining(c))
  BY DEF IInv
<1>2. TypeRows'
  BY <1>1 DEF TypeRows
<1>3. Turning(Alerts, {})
  <2>1. made \in Nat /\ \A i \in Ids : inc[i].status = "open" \/ inc[i].status # "open"
    BY <1>1, KeptFinite
  <2> QED
    BY <2>1 DEF Turning
<1>4. ASSUME NEW e \in Deliveries, e # d
      PROVE  Delivering(e)'
  <2>1. Busy(e) => Spares(e, {}) /\ job[e].alert \in Alerts
    BY <1>1, <1>4 DEF Delivering, DeliveryJobs
  <2> QED
    BY <1>1, <1>3, <1>4, <2>1, Bystander
<1>5. \A e \in Deliveries : Delivering(e)'
  BY <1>4
<1>6. NewestOpen' /\ NoDangling'
  BY <1>1, RowsStay
<1>7. (\A c \in Combines : Combining(c)') /\ (untidy \/ Tidy)'
  BY <1>1, CombinesStay
<1> QED
  BY <1>2, <1>5, <1>6, <1>7 DEF IInv

\* The end of a delivery gives back only what was its own.
LEMMA Ending ==
    ASSUME IInv, NEW d \in Deliveries, NEW how \in {"idle", "failed"}, NEW C \in SUBSET Ids,
           Ends(d, how, C), untidy' \in BOOLEAN
    PROVE  /\ TypeProcs' /\ Delivering(d)'
           /\ \A c \in Combines : step'[c] = step[c] /\ job'[c] = job[c]
           /\ \A e \in Deliveries \ {d} :
                /\ step'[e] = step[e]
                /\ Busy(e) /\ (\A i \in Ids : rowLock[i] = e => notices'[i] = notices[i])
                     => Spares(e, C)
<1>1. TypeProcs /\ d \in Procs /\ Combines \subseteq Procs /\ d \notin Combines
      /\ Deliveries \subseteq Procs
  BY IntakeAssumption DEF IInv, Procs
<1>2. /\ step' = [step EXCEPT ![d] = how]
      /\ job' = [Noticing(C) EXCEPT ![d] = Idle]
      /\ turn' = [a \in Alerts |-> IF turn[a] = d THEN Nobody ELSE turn[a]]
      /\ rowLock' = [i \in Ids |-> IF rowLock[i] = d THEN Nobody ELSE rowLock[i]]
  BY DEF Ends, Unlock
<1>3. step'[d] = how /\ \A p \in Procs \ {d} : step'[p] = step[p]
  BY <1>1, <1>2 DEF TypeProcs
<1>4. TypeProcs'
  BY <1>1, <1>2, <1>3 DEF TypeProcs, Noticing
<1>5. Delivering(d)'
  BY <1>3 DEF Delivering, Busy
<1>6. ASSUME NEW c \in Combines
      PROVE  step'[c] = step[c] /\ job'[c] = job[c]
  BY <1>1, <1>2, <1>3, <1>6, IntakeAssumption DEF Noticing
<1>7. ASSUME NEW e \in Deliveries \ {d}, Busy(e),
             \A i \in Ids : rowLock[i] = e => notices'[i] = notices[i]
      PROVE  Spares(e, C)
  <2>1. job'[e] = [job[e] EXCEPT !.closed = @ \cup C]
    BY <1>1, <1>2, <1>7 DEF Noticing, Busy
  <2>2. turn[job[e].alert] = e /\ job[e].alert \in Alerts
    BY <1>7 DEF IInv, Delivering, DeliveryJobs
  <2>3. turn'[job[e].alert] = turn[job[e].alert]
    BY <1>2, <2>2
  <2>4. \A i \in Ids : rowLock[i] = e => rowLock'[i] = e
    BY <1>2
  <2> QED
    BY <1>1, <1>3, <1>7, <2>1, <2>3, <2>4 DEF Spares
<1> QED
  BY <1>1, <1>3, <1>4, <1>5, <1>6, <1>7

\* What a delivery of an alert finds.
LEMMA TakeKeeps ==
    ASSUME IInv, NEW d \in Deliveries, NEW a \in Alerts, NEW s \in Services,
           NEW k \in {"fired", "cleared"}, Take(d, a, s, k)
    PROVE  IInv'
<1>0. PICK f : f = Lookup(a)
  OBVIOUS
<1>1. /\ turn[a] = Nobody /\ turn' = [turn EXCEPT ![a] = d]
      /\ job' = [job EXCEPT ![d] = NewJob(a, s, k, f)]
      /\ step' = [step EXCEPT ![d] = "found"]
      /\ made' = made /\ inc' = inc /\ notices' = notices
      /\ rowLock' = rowLock /\ untidy' = untidy
  BY <1>0 DEF Take, rows
<1>2. TypeProcs /\ TypeRows /\ ToldOnce /\ NewestOpen /\ d \in Procs /\ d \notin Combines
      /\ Deliveries \subseteq Procs /\ Combines \subseteq Procs /\ Nobody \notin Procs
  BY IntakeAssumption DEF IInv, Procs
<1>3. /\ step'[d] = "found" /\ job'[d] = NewJob(a, s, k, f) /\ turn'[a] = d
      /\ \A p \in Procs \ {d} : step'[p] = step[p] /\ job'[p] = job[p]
  BY <1>1, <1>2 DEF TypeProcs
<1>4. TypeProcs'
  BY <1>1, <1>2, <1>3 DEF TypeProcs
<1>5. ASSUME NEW e \in Deliveries \ {d}, Busy(e)
      PROVE  Spares(e, {})
  <2>1. turn[job[e].alert] = e /\ job[e].alert \in Alerts
    BY <1>5 DEF IInv, Delivering, DeliveryJobs
  <2>2. turn'[job[e].alert] = turn[job[e].alert]
    BY <1>1, <1>2, <2>1
  <2> QED
    BY <1>1, <1>2, <1>3, <1>5, <2>2 DEF Spares
<1>6. /\ f \in Kept \cup {0}
      /\ \A i \in Kept : /\ inc[i].alert = a /\ inc[i].into = 0
                         /\ \A n \in Kept : inc[n].alert = a => n <= i
                         => f = i
  BY <1>0, <1>2, LookupFinds DEF LooksUp
<1>7. Kept \subseteq Ids /\ 0 \notin Kept /\ Kept \subseteq 1 .. made
  BY <1>2, KeptFinite
<1>8. f # 0 => inc[f].status \in {"open", "resolved", "merged"}
  <2>1. \A i \in Kept : inc[i] \in Incidents /\ inc[i].status \notin {"none", "deleted"}
    BY <1>2, <1>7, KeptFinite DEF Kept, TypeRows
  <2> QED
    BY <1>6, <2>1 DEF Incidents
<1>9. NewJob(a, s, k, f) \in DeliveryJobs
  <2>1. f \in 0 .. MaxInc /\ 0 \in 0 .. MaxInc
    <3>1. \A i \in Ids : i \in 0 .. MaxInc
      BY IntakeAssumption DEF Ids
    <3>2. 0 \in 0 .. MaxInc
      BY IntakeAssumption
    <3> QED
      BY <1>6, <1>7, <3>1, <3>2
  <2>2. (f # 0 /\ inc[f].alert = a) \in BOOLEAN
    OBVIOUS
  <2>3. (IF f = 0 THEN "none" ELSE inc[f].status) \in {"none", "open", "resolved", "merged"}
    BY <1>8
  <2> QED
    BY <2>1, <2>2, <2>3 DEF NewJob, DeliveryJobs
<1>10. /\ job'[d].alert = a /\ job'[d].found = f /\ job'[d].told = FALSE
       /\ job'[d].was = IF f = 0 THEN "none" ELSE inc[f].status
  BY <1>3 DEF NewJob
<1>11. FoundOpen(d)'
  <2> SUFFICES ASSUME AllPlain(a), NEW i \in Live, inc[i].alert = a
               PROVE  f = i /\ inc[f].status = "open" /\ f # 0
    BY <1>1, <1>10 DEF FoundOpen, AllPlain, Live
  <2>1. inc[i].status = "open" /\ i \in Ids /\ i \in Kept
    BY <1>2, KeptFinite DEF Live, Kept, TypeRows, Ids
  <2>2. inc[i].plain
    BY <1>7, <2>1 DEF AllPlain
  <2>3. inc[i].into = 0 /\ \A n \in Kept : inc[n].alert = a => n <= i
    BY <1>2, <1>7, <2>2 DEF NewestOpen
  <2> QED
    BY <1>6, <1>7, <2>1, <2>3
<1>12. job'[d].was = "open" => OpenTill(d, f)'
  <2> SUFFICES ASSUME f # 0, inc[f].status = "open"
               PROVE  f \in 1 .. made /\ inc[f].status = "open"
    BY <1>1, <1>10 DEF OpenTill
  <2> QED
    BY <1>6, <1>7
<1>13. Delivering(d)'
  <2>1. job'[d] \in DeliveryJobs
    BY <1>3, <1>9
  <2>2. turn'[job'[d].alert] = d
    BY <1>3, <1>10
  <2>3. LookedUp(d)'
    BY <1>3, <1>11 DEF LookedUp
  <2>4. Answering(d)'
    BY <1>3, <1>10, <1>12 DEF Answering
  <2>5. Telling(d)'
    BY <1>10 DEF Telling
  <2> QED
    BY <2>1, <2>2, <2>3, <2>4, <2>5 DEF Delivering
<1> QED
  BY <1>1, <1>2, <1>3, <1>4, <1>5, <1>13, Delivers DEF TypeRows, ToldOnce

\* A delivery that goes on to note the alert, or to create an incident.
LEMMA Going ==
    ASSUME IInv, NEW d \in Deliveries, step[d] = "found",
           NEW to \in {"skip", "hush", "collide", "group", "create"}, NEW on \in 0 .. MaxInc,
           Goes(d, to, on),
           to = "collide" => on = job[d].found /\ job[d].was = "open",
           to \in {"collide", "skip", "group"} =>
               on \in 1 .. made /\ (inc[on].status = "open" \/ on \in job[d].closed \/ on \notin Kept)
    PROVE  IInv'
<1> DEFINE noted == to \in {"skip", "hush", "collide"} /\ Holds(job[d].was)
<1>1. /\ step' = [step EXCEPT ![d] = to]
      /\ job' = [job EXCEPT ![d].on = on, ![d].noted = noted]
      /\ made' = made /\ inc' = inc /\ notices' = notices /\ turn' = turn
      /\ rowLock' = rowLock /\ untidy' = untidy
  BY DEF Goes, rows
<1>2. TypeProcs /\ TypeRows /\ ToldOnce /\ d \in Procs /\ d \notin Combines
      /\ Deliveries \subseteq Procs /\ Combines \subseteq Procs
  BY IntakeAssumption DEF IInv, Procs
<1>3. /\ step'[d] = to /\ job'[d] = [job[d] EXCEPT !.on = on, !.noted = noted]
      /\ \A p \in Procs \ {d} : step'[p] = step[p] /\ job'[p] = job[p]
  BY <1>1, <1>2 DEF TypeProcs
<1>4. TypeProcs'
  BY <1>1, <1>2, <1>3 DEF TypeProcs
<1>5. \A e \in Deliveries \ {d} : Spares(e, {})
  BY <1>1, <1>2, <1>3 DEF Spares
<1>6. Busy(d) /\ Delivering(d)
  BY DEF Busy, IInv
<1>7. job[d] \in DeliveryJobs /\ turn[job[d].alert] = d /\ LookedUp(d) /\ ~job[d].told
  BY <1>6 DEF Delivering, Telling
<1>8. noted \in BOOLEAN /\ (to = "create" => ~noted)
  OBVIOUS
<1> HIDE DEF noted
<1>9. /\ job'[d] \in DeliveryJobs
      /\ job'[d].alert = job[d].alert /\ job'[d].was = job[d].was /\ job'[d].found = job[d].found
      /\ job'[d].on = on /\ job'[d].noted = noted /\ job'[d].told = job[d].told
      /\ job'[d].closed = job[d].closed
  BY <1>3, <1>7, <1>8 DEF DeliveryJobs
<1>10. LookedUp(d)'
  <2>1. FoundOpen(d)
    BY <1>7 DEF LookedUp
  <2>2. FoundOpen(d)'
    BY <1>1, <1>9, <2>1 DEF FoundOpen, AllPlain, Live
  <2>3. job[d].was # "open" => NoneOpen(d)'
    BY <1>9, <2>2 DEF FoundOpen, NoneOpen
  <2> QED
    BY <1>3, <1>8, <1>9, <2>2, <2>3 DEF LookedUp
<1>11. Answering(d)'
  <2>1. to \in {"collide", "skip", "group"} => OpenTill(d, on)'
    BY <1>1, <1>9 DEF OpenTill, Kept
  <2> QED
    BY <1>3, <1>9, <2>1 DEF Answering
<1>12. Delivering(d)'
  <2>1. Telling(d)'
    BY <1>7, <1>9 DEF Telling
  <2>2. turn'[job'[d].alert] = d
    BY <1>1, <1>7, <1>9
  <2> QED
    BY <1>9, <1>10, <1>11, <2>1, <2>2 DEF Delivering
<1> QED
  BY <1>1, <1>2, <1>3, <1>4, <1>5, <1>12, Delivers DEF TypeRows, ToldOnce

\* What was found open is open, or was closed or deleted since: that much is
\* known of the incident a delivery decides to note its alert on.
LEMMA WeighsKeeps ==
    ASSUME IInv, NEW d \in Deliveries, WeighsOpen(d) \/ WeighsClosed(d)
    PROVE  IInv'
<1>1. TypeRows /\ step[d] = "found" /\ job[d] \in DeliveryJobs /\ Answering(d)
  BY DEF IInv, WeighsOpen, WeighsClosed, Delivering, Busy
<1>2. 0 \in 0 .. MaxInc /\ Ids \subseteq 0 .. MaxInc
  BY IntakeAssumption DEF Ids
<1>3. Kept \subseteq Ids
  BY <1>1, KeptFinite
<1>4. CASE WeighsOpen(d)
  <2>1. PICK to \in {"hush", "collide", "skip"} :
          Goes(d, to, job[d].found) /\ job[d].was = "open"
    BY <1>4 DEF WeighsOpen, Holds
  <2>2. OpenTill(d, job[d].found) /\ job[d].found \in 0 .. MaxInc
    BY <1>1, <2>1 DEF Answering, DeliveryJobs
  <2> QED
    BY <1>1, <2>1, <2>2, Going DEF OpenTill
<1>5. CASE WeighsClosed(d)
  <2>1. \/ Goes(d, "create", 0)
        \/ Flap(d).inc \in Kept /\ Goes(d, "hush", Flap(d).inc)
        \/ \E i \in Matches(d) : Goes(d, "group", i)
    BY <1>5 DEF WeighsClosed
  <2>2. CASE Goes(d, "create", 0)
    BY <1>1, <1>2, <2>2, Going
  <2>3. CASE Flap(d).inc \in Kept /\ Goes(d, "hush", Flap(d).inc)
    BY <1>1, <1>2, <1>3, <2>3, Going
  <2>4. ASSUME NEW i \in Matches(d), Goes(d, "group", i)
        PROVE  IInv'
    <3>1. i \in Ids /\ inc[i].status = "open"
      BY DEF Matches, Live
    <3>2. i \in 1 .. made
      BY <1>1, <3>1, KeptFinite DEF TypeRows, Ids
    <3> QED
      BY <1>1, <1>2, <2>4, <3>1, <3>2, Going
  <2> QED
    BY <2>1, <2>2, <2>3, <2>4
<1> QED
  BY <1>4, <1>5

\* Recoveries that close nothing.
LEMMA ClearsNothingKeeps ==
    ASSUME IInv, NEW d \in Deliveries, ClearsNothing(d)
    PROVE  IInv'
<1>1. /\ Ends(d, "idle", {}) /\ made' = made /\ inc' = inc /\ notices' = notices
      /\ untidy' = untidy
  BY DEF ClearsNothing
<1>2. untidy' \in BOOLEAN /\ TypeRows /\ ToldOnce
  BY <1>1 DEF IInv, TypeProcs
<1>3. /\ TypeProcs' /\ Delivering(d)'
      /\ \A c \in Combines : step'[c] = step[c] /\ job'[c] = job[c]
      /\ \A e \in Deliveries \ {d} : step'[e] = step[e] /\ (Busy(e) => Spares(e, {}))
  BY <1>1, <1>2, Ending
<1> QED
  BY <1>1, <1>2, <1>3, Delivers DEF TypeRows, ToldOnce

\* The row is locked before its notices are read, so that nobody else can find
\* none; a found incident that has closed leaves its alert with no open one.
LEMMA CollideKeeps ==
    ASSUME IInv, NEW d \in Deliveries, Collide(d)
    PROVE  IInv'
<1> DEFINE i == job[d].on
           to == IF inc[i].status = "resolved" THEN "create" ELSE "skip"
           told == inc[i].status = "open" /\ notices[i][job[d].service] = 0
<1>1. /\ step[d] = "collide" /\ Free(i, d) /\ made' = made /\ inc' = inc
      /\ notices' = notices /\ untidy' = untidy
  BY DEF Collide, rows
<1>2. TypeProcs /\ TypeRows /\ ToldOnce /\ d \in Procs /\ d \notin Combines
      /\ Deliveries \subseteq Procs /\ Combines \subseteq Procs /\ Nobody \notin Procs
      /\ untidy' \in BOOLEAN
  BY <1>1, IntakeAssumption DEF IInv, Procs, TypeProcs
<1>3. /\ job[d] \in DeliveryJobs /\ turn[job[d].alert] = d
      /\ LookedUp(d) /\ Answering(d) /\ Telling(d)
  BY <1>1 DEF IInv, Delivering, Busy
<1>4. CASE i \notin Kept
  <2>1. Ends(d, "failed", {})
    BY <1>4 DEF Collide
  <2>2. /\ TypeProcs' /\ Delivering(d)'
        /\ \A c \in Combines : step'[c] = step[c] /\ job'[c] = job[c]
        /\ \A e \in Deliveries \ {d} : step'[e] = step[e] /\ (Busy(e) => Spares(e, {}))
    BY <1>1, <1>2, <2>1, Ending
  <2> QED
    BY <1>1, <1>2, <2>2, Delivers DEF TypeRows, ToldOnce
<1>5. CASE i \in Kept
  <2>1. /\ rowLock' = [rowLock EXCEPT ![i] = d] /\ step' = [step EXCEPT ![d] = to]
        /\ job' = [job EXCEPT ![d].told = told] /\ turn' = turn
    BY <1>5 DEF Collide
  <2>2. i \in Ids /\ i \in 1 .. made
    BY <1>2, <1>5, KeptFinite
  <2>3. to \in {"create", "skip"} /\ told \in BOOLEAN /\ (told => to = "skip")
        /\ (to = "create" => inc[i].status = "resolved")
        /\ (told => notices[i][job[d].service] = 0)
        /\ i = job[d].on
    OBVIOUS
  <2> HIDE DEF to, told
  <2>4. /\ step'[d] = to /\ job'[d] = [job[d] EXCEPT !.told = told]
        /\ rowLock'[i] = d
        /\ \A p \in Procs \ {d} : step'[p] = step[p] /\ job'[p] = job[p]
    BY <1>2, <2>1, <2>2 DEF TypeProcs
  <2>5. TypeProcs'
    BY <1>2, <2>1, <2>3, <2>4 DEF TypeProcs
  <2>6. \A e \in Deliveries \ {d} : Spares(e, {})
    BY <1>1, <1>2, <2>1, <2>4 DEF Spares, Free, TypeProcs
  <2>7. /\ job'[d] \in DeliveryJobs
        /\ job'[d].alert = job[d].alert /\ job'[d].was = job[d].was
        /\ job'[d].found = job[d].found
        /\ job'[d].on = i /\ job'[d].noted = job[d].noted /\ job'[d].told = told
        /\ job'[d].closed = job[d].closed /\ job'[d].service = job[d].service
    BY <1>3, <2>3, <2>4 DEF DeliveryJobs
  <2> HIDE DEF i
  <2>8. LookedUp(d)'
    <3>1. FoundOpen(d) /\ job[d].found = i
      BY <1>1, <1>3, <2>3 DEF LookedUp
    <3>2. to = "create" => NoneOpen(d)
      BY <2>3, <3>1 DEF FoundOpen, NoneOpen, Live
    <3>3. to = "create" => NoneOpen(d)'
      BY <1>1, <2>7, <3>2 DEF NoneOpen, AllPlain, Live
    <3> QED
      BY <2>3, <2>4, <3>3 DEF LookedUp
  <2>9. Answering(d)'
    <3>1. OpenTill(d, i)
      BY <1>1, <1>3, <2>3 DEF Answering
    <3>2. i \in 1 .. made /\ (inc[i].status = "open" \/ i \in job[d].closed \/ i \notin Kept)
      BY <3>1 DEF OpenTill
    <3> QED
      BY <1>1, <2>3, <2>4, <2>7, <3>2 DEF Answering, OpenTill, Kept
  <2>10. Telling(d)'
    BY <1>1, <2>2, <2>3, <2>4, <2>7 DEF Telling
  <2>11. Delivering(d)'
    <3>1. turn'[job'[d].alert] = d
      BY <1>3, <2>1, <2>7
    <3> QED
      BY <2>7, <2>8, <2>9, <2>10, <3>1 DEF Delivering
  <2> QED
    BY <1>1, <1>2, <2>4, <2>5, <2>6, <2>11, Delivers DEF TypeRows, ToldOnce
<1> QED
  BY <1>4, <1>5

\* A status written over another, by a recovery or by hand.
LEMMA Rewriting ==
    ASSUME IInv, NEW i \in Kept, NEW to \in {"open", "resolved"},
           made' = made, notices' \in [Ids -> [Services -> Nat]],
           inc' = [inc EXCEPT ![i].status = to, ![i].plain = @ /\ to # "open"],
           untidy => untidy', inc[i].into # 0 /\ Tidy => untidy',
           \A c \in Combines : step'[c] = step[c] /\ job'[c] = job[c]
    PROVE  /\ TypeRows' /\ NewestOpen' /\ NoDangling'
           /\ \A c \in Combines : Combining(c)'
           /\ untidy' \/ Tidy'
           /\ Turning(Alerts, IF to = "open" THEN {} ELSE {i})
<1>1. TypeRows /\ NewestOpen /\ NoDangling /\ (untidy \/ Tidy)
      /\ (\A c \in Combines : Combining(c))
  BY DEF IInv
<1>2. i \in Ids /\ i \in 1 .. made /\ made \in Nat /\ made <= MaxInc /\ MaxInc \in Nat
  BY <1>1, KeptFinite, IntakeAssumption DEF TypeRows
<1>3. inc[i] \in Incidents /\ inc[i].status \notin {"none", "deleted"}
  BY <1>1, <1>2 DEF TypeRows, Kept
<1>4. /\ inc'[i] \in Incidents /\ inc'[i].status = to /\ inc'[i].alert = inc[i].alert
      /\ inc'[i].into = inc[i].into /\ inc'[i].plain = (inc[i].plain /\ to # "open")
      /\ \A n \in Ids \ {i} : inc'[n] = inc[n]
  BY <1>1, <1>2, <1>3 DEF TypeRows, Incidents
<1>5. /\ \A n \in Ids : /\ inc'[n].alert = inc[n].alert /\ inc'[n].into = inc[n].into
                        /\ inc'[n].plain => inc[n].plain
      /\ inc' \in [Ids -> Incidents]
  BY <1>1, <1>4 DEF TypeRows
<1>6. TypeRows'
  BY <1>1, <1>2, <1>3, <1>4, <1>5 DEF TypeRows
<1>7. Kept' = Kept /\ 1 .. made \subseteq Ids
  <2>1. 1 .. made \subseteq Ids
    BY <1>2 DEF Ids
  <2>2. \A n \in 1 .. made : inc'[n].status = "deleted" <=> inc[n].status = "deleted"
    BY <1>3, <1>4, <2>1
  <2> QED
    BY <2>1, <2>2 DEF Kept
<1>8. Live' \subseteq Live \cup {i} /\ Live \subseteq Ids
  BY <1>4 DEF Live
<1>9. NewestOpen'
  <2> SUFFICES ASSUME NEW n \in Live'
               PROVE  /\ inc'[n].plain => inc'[n].into = 0
                      /\ (\A x \in 1 .. made : inc'[x].alert = inc'[n].alert => inc'[x].plain) =>
                           \A x \in 1 .. made : inc'[x].alert = inc'[n].alert => x <= n
    BY DEF NewestOpen, AllPlain
  <2>1. n \in Ids
    BY <1>2, <1>8
  <2>2. CASE n \in Live /\ (n # i \/ to # "open")
    <3>1. (\A x \in 1 .. made : inc'[x].alert = inc'[n].alert => inc'[x].plain) =>
            AllPlain(inc[n].alert)
      BY <1>5, <1>7, <2>1 DEF AllPlain
    <3> QED
      BY <1>1, <1>5, <1>7, <2>1, <2>2, <3>1 DEF NewestOpen
  <2>3. CASE n = i /\ to = "open"
    BY <1>2, <1>4, <2>3
  <2>4. n = i /\ to # "open" => n \notin Live'
    BY <1>4 DEF Live
  <2> QED
    BY <1>8, <2>2, <2>3, <2>4
<1>10. NoDangling'
  BY <1>1, <1>5, <1>7 DEF NoDangling
<1>11. \A c \in Combines : Folding(c)' = Folding(c) /\ Combining(c)'
  BY <1>1, <1>7 DEF Combining, Folding
<1>12. Tidy /\ inc[i].into = 0 => Tidy'
  <2> SUFFICES ASSUME Tidy, inc[i].into = 0 PROVE Tidy'
    OBVIOUS
  <2>1. \A n \in Ids : inc'[n].into # 0 => inc'[n].status = "merged"
    BY <1>4 DEF Tidy
  <2>2. \A c \in Combines : Folding(c) => job[c].into \in Ids
    BY <1>1 DEF Combining, CombineJobs
  <2>3. NoRings'
    BY <1>5, <1>7, KeptFinite, <1>1 DEF Tidy, NoRings
  <2> QED
    BY <1>5, <1>11, <2>1, <2>2, <2>3 DEF Tidy
<1>13. Turning(Alerts, IF to = "open" THEN {} ELSE {i})
  <2>1. \A n \in 1 .. made :
          /\ inc[n].status = "open" =>
               n \in (IF to = "open" THEN {} ELSE {i}) \/ inc'[n].status \in {"open", "deleted"}
          /\ inc[n].status = "deleted" => inc'[n].status = "deleted"
    BY <1>3, <1>4, <1>7
  <2>2. \A n \in Ids : inc'[n].status = "open" =>
          inc[n].status = "open" \/ (n \in 1 .. made' /\ ~inc'[n].plain)
    BY <1>2, <1>4
  <2> QED
    BY <1>2, <1>5, <1>7, <2>1, <2>2 DEF Turning
<1> QED
  BY <1>1, <1>6, <1>9, <1>10, <1>11, <1>12, <1>13

\* Recoveries that resolve an incident: each delivery under way is noticed.
LEMMA ClearsKeeps ==
    ASSUME IInv, NEW d \in Deliveries, Clears(d)
    PROVE  IInv'
<1> DEFINE i == job[d].found
<1>1. made' = made /\ notices' = notices
  BY DEF Clears
<1>2. TypeRows /\ ToldOnce /\ TypeProcs /\ (untidy \/ Tidy)
  BY DEF IInv
<1>3. CASE i \notin Kept
  <2>1. Ends(d, "failed", {}) /\ inc' = inc /\ untidy' = untidy
    BY <1>3 DEF Clears
  <2>2. /\ TypeProcs' /\ Delivering(d)'
        /\ \A c \in Combines : step'[c] = step[c] /\ job'[c] = job[c]
        /\ \A e \in Deliveries \ {d} : step'[e] = step[e] /\ (Busy(e) => Spares(e, {}))
    BY <1>1, <1>2, <2>1, Ending DEF TypeProcs
  <2> QED
    BY <1>1, <1>2, <2>1, <2>2, Delivers DEF TypeRows, ToldOnce
<1>4. CASE i \in Kept
  <2>1. /\ inc' = [inc EXCEPT ![i].status = "resolved"] /\ Ends(d, "idle", {i})
        /\ untidy' = (untidy \/ inc[i].status = "merged")
    BY <1>4 DEF Clears
  <2> HIDE DEF i
  <2>2. i \in Ids
    BY <1>2, <1>4, KeptFinite
  <2>3. inc' = [inc EXCEPT ![i].status = "resolved", ![i].plain = @ /\ "resolved" # "open"]
    <3>1. inc[i] \in Incidents
      BY <1>2, <2>2 DEF TypeRows
    <3>2. [inc[i] EXCEPT !.status = "resolved"] =
          [inc[i] EXCEPT !.status = "resolved", !.plain = @ /\ "resolved" # "open"]
      BY <3>1 DEF Incidents
    <3> QED
      BY <1>2, <2>1, <2>2, <3>2 DEF TypeRows
  <2>4. untidy' \in BOOLEAN
    BY <2>1
  <2>5. /\ TypeProcs' /\ Delivering(d)'
        /\ \A c \in Combines : step'[c] = step[c] /\ job'[c] = job[c]
        /\ \A e \in Deliveries \ {d} : step'[e] = step[e] /\ (Busy(e) => Spares(e, {i}))
    BY <1>1, <2>1, <2>2, <2>4, Ending
  <2>6. inc[i].into # 0 /\ Tidy => untidy'
    BY <2>1, <2>2 DEF Tidy
  <2>7. /\ TypeRows' /\ NewestOpen' /\ NoDangling'
        /\ \A c \in Combines : Combining(c)'
        /\ untidy' \/ Tidy'
        /\ Turning(Alerts, {i})
    <3>1. notices' \in [Ids -> [Services -> Nat]]
      BY <1>1, <1>2 DEF TypeRows
    <3> QED
      BY <1>1, <1>4, <2>1, <2>3, <2>5, <2>6, <3>1, Rewriting
  <2>8. ASSUME NEW e \in Deliveries, e # d PROVE Delivering(e)'
    <3>1. Delivering(e) /\ (Busy(e) => Spares(e, {i}) /\ job[e].alert \in Alerts)
      BY <2>5, <2>8 DEF IInv, Delivering, DeliveryJobs
    <3> QED
      BY <1>2, <2>2, <2>5, <2>7, <2>8, <3>1, Bystander
  <2> QED
    BY <1>1, <1>2, <2>5, <2>7, <2>8 DEF IInv, ToldOnce
<1> QED
  BY <1>3, <1>4

\* An incident that a person opens is beside another for all its alert knows;
\* one that was merged is untidy.
LEMMA PatchKeeps ==
    ASSUME IInv, NEW i \in Ids, NEW to \in {"open", "resolved"}, Patch(i, to)
    PROVE  IInv'
<1> DEFINE C == IF to = "open" THEN {} ELSE {i}
<1>1. /\ i \in Kept /\ made' = made /\ notices' = notices
      /\ inc' = [inc EXCEPT ![i].status = to, ![i].plain = @ /\ to # "open"]
      /\ job' = Noticing(C) /\ untidy' = (untidy \/ inc[i].into # 0)
      /\ turn' = turn /\ rowLock' = rowLock /\ step' = step
  BY DEF Patch
<1>2. TypeRows /\ ToldOnce /\ TypeProcs /\ Deliveries \subseteq Procs /\ Combines \subseteq Procs
      /\ C \in SUBSET Ids
  BY DEF IInv, Procs
<1>3. \A c \in Combines : step'[c] = step[c] /\ job'[c] = job[c]
  BY <1>1, <1>2, IntakeAssumption DEF Noticing
<1>4. /\ TypeRows' /\ NewestOpen' /\ NoDangling'
      /\ \A c \in Combines : Combining(c)'
      /\ untidy' \/ Tidy'
      /\ Turning(Alerts, C)
  <2>1. notices' \in [Ids -> [Services -> Nat]]
    BY <1>1, <1>2 DEF TypeRows
  <2> QED
    BY <1>1, <1>3, <2>1, Rewriting
<1>5. ASSUME NEW e \in Deliveries PROVE Delivering(e)'
  <2>1. Delivering(e) /\ (Busy(e) => Spares(e, C) /\ job[e].alert \in Alerts)
    BY <1>1, <1>2 DEF IInv, Delivering, DeliveryJobs, Spares, Noticing, Busy
  <2> QED
    BY <1>1, <1>2, <1>4, <2>1, Bystander
<1>6. TypeProcs'
  BY <1>1, <1>2 DEF TypeProcs, Noticing
<1> QED
  BY <1>1, <1>2, <1>4, <1>5, <1>6 DEF IInv, ToldOnce

\* The notice is counted by whoever holds the row.
LEMMA AnswersKeeps ==
    ASSUME IInv, NEW d \in Deliveries, Answers(d)
    PROVE  IInv'
<1> DEFINE i == job[d].on
           s == job[d].service
<1>1. made' = made /\ inc' = inc /\ untidy' = untidy
  BY DEF Answers
<1>2. TypeRows /\ ToldOnce /\ TypeProcs /\ untidy' \in BOOLEAN
  BY <1>1 DEF IInv, TypeProcs
<1>3. job[d] \in DeliveryJobs /\ Telling(d) /\ s \in Services
  BY DEF IInv, Delivering, Answers, Busy, DeliveryJobs
<1>4. PICK how \in {"idle", "failed"} : Ends(d, how, {})
  BY DEF Answers
<1>5. \/ notices' = notices
      \/ job[d].told /\ notices' = [notices EXCEPT ![i][s] = @ + 1]
  BY DEF Answers
<1>6. /\ notices' \in [Ids -> [Services -> Nat]] /\ ToldOnce'
      /\ \A n \in Ids : rowLock[n] # d => notices'[n] = notices[n]
  <2>1. CASE notices' = notices
    BY <1>2, <2>1 DEF TypeRows, ToldOnce
  <2>2. CASE job[d].told /\ notices' = [notices EXCEPT ![i][s] = @ + 1]
    <3>1. i \in Ids /\ rowLock[i] = d /\ notices[i][s] = 0
      BY <1>3, <2>2 DEF Telling
    <3> HIDE DEF i, s
    <3>2. notices' = [notices EXCEPT ![i] = [notices[i] EXCEPT ![s] = 1]]
      BY <1>2, <2>2, <3>1 DEF TypeRows
    <3>3. notices \in [Ids -> [Services -> Nat]] /\ notices[i] \in [Services -> Nat]
      BY <1>2, <3>1 DEF TypeRows
    <3>4. notices'[i] = [notices[i] EXCEPT ![s] = 1]
          /\ \A n \in Ids : n # i => notices'[n] = notices[n]
      BY <3>1, <3>2, <3>3
    <3>5. notices' \in [Ids -> [Services -> Nat]]
      BY <3>2, <3>3
    <3>6. ASSUME NEW n \in Ids, NEW x \in Services PROVE notices'[n][x] <= 1
      <4>1. CASE n = i /\ x = s
        <5>1. notices'[i][s] = 1
          BY <1>3, <3>3, <3>4
        <5> QED
          BY <4>1, <5>1
      <4>2. CASE n = i /\ x # s
        BY <1>2, <3>3, <3>4, <4>2 DEF ToldOnce
      <4>3. CASE n # i
        BY <1>2, <3>4, <4>3 DEF ToldOnce
      <4> QED
        BY <4>1, <4>2, <4>3
    <3> QED
      BY <3>1, <3>4, <3>5, <3>6 DEF ToldOnce
  <2> QED
    BY <1>5, <2>1, <2>2
<1>7. /\ TypeProcs' /\ Delivering(d)'
      /\ \A c \in Combines : step'[c] = step[c] /\ job'[c] = job[c]
      /\ \A e \in Deliveries \ {d} : step'[e] = step[e] /\ (Busy(e) => Spares(e, {}))
  BY <1>2, <1>4, <1>6, Ending
<1> QED
  BY <1>1, <1>6, <1>7, Delivers

\* A new incident is its alert's newest, and, unless it is put beside another,
\* its only open one.
LEMMA CreateKeeps ==
    ASSUME IInv, NEW d \in Deliveries, Create(d)
    PROVE  IInv'
<1>0. PICK i, a, s, pl : i = made + 1 /\ a = job[d].alert /\ s = job[d].service
                         /\ pl = (~Holds(job[d].was) \/ job[d].noted)
  OBVIOUS
<1>1. /\ step[d] = "create" /\ made < MaxInc /\ made' = i /\ notices' = notices
      /\ inc' = [inc EXCEPT ![i] = [status |-> "open", alert |-> a, service |-> s,
                                    into |-> 0, plain |-> pl]]
      /\ Ends(d, "idle", {}) /\ untidy' = untidy
  BY <1>0 DEF Create
<1>2. /\ TypeRows /\ ToldOnce /\ TypeProcs /\ NewestOpen /\ NoDangling /\ (untidy \/ Tidy)
      /\ \A c \in Combines : Combining(c)
      /\ untidy' \in BOOLEAN
  BY <1>1 DEF IInv, TypeProcs
<1>3. job[d] \in DeliveryJobs /\ turn[a] = d /\ LookedUp(d) /\ a \in Alerts /\ s \in Services
      /\ pl \in BOOLEAN
  BY <1>0, <1>1 DEF IInv, Delivering, Busy, DeliveryJobs, Holds
<1>4. made \in Nat /\ MaxInc \in Nat /\ i \in Ids /\ i \notin 1 .. made
      /\ 1 .. i = (1 .. made) \cup {i} /\ 1 .. made \subseteq Ids
  BY <1>0, <1>1, <1>2, KeptFinite, IntakeAssumption DEF Ids
<1>5. /\ inc'[i] = [status |-> "open", alert |-> a, service |-> s, into |-> 0, plain |-> pl]
      /\ \A n \in Ids \ {i} : inc'[n] = inc[n]
  BY <1>1, <1>2, <1>4 DEF TypeRows
<1>6. TypeRows'
  <2>1. inc'[i] \in Incidents
    BY <1>3, <1>4, <1>5 DEF Incidents
  <2>2. inc' \in [Ids -> Incidents]
    BY <1>1, <1>2, <2>1, <1>5 DEF TypeRows
  <2>3. \A n \in Ids : inc'[n].status = "none" <=> n > made'
    BY <1>0, <1>1, <1>2, <1>4, <1>5 DEF TypeRows, Ids
  <2>4. made' \in 0 .. MaxInc /\ notices' \in [Ids -> [Services -> Nat]]
    BY <1>0, <1>1, <1>2, <1>4 DEF TypeRows
  <2> QED
    BY <2>2, <2>3, <2>4 DEF TypeRows
<1>7. Kept' = Kept \cup {i} /\ Live' \subseteq Live \cup {i} /\ Live \subseteq Ids \ {i}
      /\ i \notin Kept
  <2>1. Kept' = Kept \cup {i} /\ i \notin Kept
    BY <1>1, <1>4, <1>5 DEF Kept
  <2>2. Live' \subseteq Live \cup {i}
    BY <1>5 DEF Live
  <2>3. inc[i].status = "none"
    BY <1>0, <1>2, <1>4 DEF TypeRows
  <2> QED
    BY <2>1, <2>2, <2>3 DEF Live
<1>8. NewestOpen'
  <2> SUFFICES ASSUME NEW n \in Live',
                      \A x \in 1 .. i : inc'[x].alert = inc'[n].alert => inc'[x].plain,
                      NEW x \in 1 .. i, inc'[x].alert = inc'[n].alert
               PROVE  x <= n
    <3>1. \A n \in Live' : inc'[n].plain => inc'[n].into = 0
      BY <1>2, <1>5, <1>7 DEF NewestOpen
    <3> QED
      BY <1>1, <3>1 DEF NewestOpen, AllPlain
  <2>1. CASE n = i
    BY <1>0, <1>4, <2>1
  <2>2. CASE n \in Live
    <3>1. n \in Ids \ {i} /\ inc'[n] = inc[n]
      BY <1>5, <1>7, <2>2
    <3>2. AllPlain(inc[n].alert)
      BY <1>4, <1>5, <3>1 DEF AllPlain
    <3>3. CASE x = i
      <4>1. inc[n].alert = a /\ pl
        BY <1>5, <3>1, <3>3
      <4>2. NoneOpen(d)
        BY <1>0, <1>1, <1>3, <4>1 DEF LookedUp, Holds
      <4> QED
        BY <1>0, <2>2, <3>2, <4>1, <4>2 DEF NoneOpen
    <3>4. CASE x # i
      BY <1>2, <1>4, <1>5, <2>2, <3>1, <3>2, <3>4 DEF NewestOpen
    <3> QED
      BY <3>3, <3>4
  <2> QED
    BY <1>7, <2>1, <2>2
<1>9. NoDangling'
  BY <1>2, <1>4, <1>5, <1>7 DEF NoDangling
<1>10. /\ TypeProcs' /\ Delivering(d)'
       /\ \A c \in Combines : step'[c] = step[c] /\ job'[c] = job[c]
       /\ \A e \in Deliveries \ {d} : step'[e] = step[e] /\ (Busy(e) => Spares(e, {}))
  BY <1>1, <1>2, Ending
<1>11. \A c \in Combines : Folding(c)' = Folding(c) /\ Combining(c)'
  BY <1>2, <1>7, <1>10 DEF Combining, Folding
<1>12. Tidy => Tidy'
  <2> SUFFICES ASSUME Tidy PROVE Tidy'
    OBVIOUS
  <2>1. \A n \in Ids : /\ inc'[n].into # 0 => inc'[n].status = "merged"
                       /\ inc[n].into = 0 => inc'[n].into = 0
    BY <1>5 DEF Tidy
  <2>2. \A c \in Combines : Folding(c) => job[c].into \in Ids
    BY <1>2 DEF Combining, CombineJobs
  <2>3. NoRings'
    <3> SUFFICES ASSUME NEW S \in SUBSET (Kept \cup {i}), S # {}
                 PROVE  \E n \in S : inc'[n].into \notin S
      BY <1>7 DEF NoRings
    <3>1. CASE i \in S
      <4>1. 0 \notin S
        BY <1>2, <1>4, KeptFinite DEF Ids
      <4> QED
        BY <1>5, <3>1, <4>1
    <3>2. CASE i \notin S
      <4>1. S \in SUBSET Kept /\ Kept \subseteq Ids
        BY <1>2, <3>2, KeptFinite
      <4> QED
        BY <1>5, <3>2, <4>1 DEF Tidy, NoRings
    <3> QED
      BY <3>1, <3>2
  <2> QED
    BY <1>10, <1>11, <2>1, <2>2, <2>3 DEF Tidy
<1>13. ASSUME NEW e \in Deliveries, e # d PROVE Delivering(e)'
  <2>1. Delivering(e) /\ (Busy(e) => Spares(e, {}) /\ job[e].alert # a)
    BY <1>3, <1>10, <1>13 DEF IInv, Delivering
  <2> DEFINE A == Alerts \ {a}
  <2>2. Busy(e) => job[e].alert \in A
    BY <2>1 DEF Delivering, DeliveryJobs
  <2>3. Turning(A, {})
    <3>1. \A n \in 1 .. made : inc'[n] = inc[n]
      BY <1>4, <1>5
    <3>2. \A n \in Ids : inc'[n].status = "open" => inc[n].status = "open" \/ inc'[n].alert \notin A
      BY <1>5
    <3>3. made' \in Nat /\ made <= made'
      BY <1>0, <1>1, <1>4
    <3> QED
      BY <3>1, <3>2, <3>3 DEF Turning
  <2> HIDE DEF A
  <2> QED
    BY <1>2, <1>10, <1>13, <2>1, <2>2, <2>3, Bystander
<1> QED
  BY <1>1, <1>2, <1>6, <1>8, <1>9, <1>10, <1>11, <1>12, <1>13 DEF IInv, ToldOnce

-----------------------------------------------------------------------------
(* Combines.                                                               *)

\* The members left and folded, as a member is locked.
LEMMA SeqRanges ==
    ASSUME NEW S, NEW f \in Seq(S), NEW g \in Seq(S), f # <<>>
    PROVE  /\ Head(f) \in S /\ Head(f) \in Range(f)
           /\ Tail(f) \in Seq(S) /\ Range(Tail(f)) \subseteq Range(f)
           /\ Append(g, Head(f)) \in Seq(S) /\ Append(g, Head(f)) # <<>>
           /\ Range(Append(g, Head(f))) \subseteq Range(g) \cup Range(f)
<1>1. Head(f) \in S /\ Head(f) = f[1] /\ 1 \in DOMAIN f
  OBVIOUS
<1>2. Head(f) \in Range(f)
  BY <1>1 DEF Range
<1>3. Tail(f) \in Seq(S) /\ \A k \in DOMAIN Tail(f) : k + 1 \in DOMAIN f /\ Tail(f)[k] = f[k + 1]
  OBVIOUS
<1>4. Range(Tail(f)) \subseteq Range(f)
  BY <1>3 DEF Range
<1>5. /\ Append(g, Head(f)) \in Seq(S) /\ Append(g, Head(f)) # <<>>
      /\ \A k \in DOMAIN Append(g, Head(f)) :
            \/ k \in DOMAIN g /\ Append(g, Head(f))[k] = g[k]
            \/ Append(g, Head(f))[k] = Head(f)
  BY <1>1
<1>6. Range(Append(g, Head(f))) \subseteq Range(g) \cup Range(f)
  BY <1>2, <1>5 DEF Range
<1> QED
  BY <1>1, <1>2, <1>3, <1>4, <1>5, <1>6

\* A combine that changes no incident leaves the deliveries alone.
LEMMA Combines1 ==
    ASSUME IInv, made' = made, inc' = inc, notices' = notices, turn' = turn,
           \A e \in Deliveries : /\ step'[e] = step[e] /\ job'[e] = job[e]
                                 /\ \A i \in Ids : rowLock[i] = e => rowLock'[i] = e,
           TypeProcs', \A c \in Combines : Combining(c)', untidy' \/ Tidy'
    PROVE  IInv'
<1>1. TypeRows /\ NewestOpen /\ NoDangling /\ ToldOnce /\ (\A e \in Deliveries : Delivering(e))
  BY DEF IInv
<1>2. TypeRows' /\ NewestOpen' /\ NoDangling' /\ ToldOnce'
  BY <1>1, RowsStay DEF TypeRows, ToldOnce
<1>3. Turning(Alerts, {})
  <2>1. made \in Nat
    BY <1>1, KeptFinite
  <2> QED
    BY <2>1 DEF Turning
<1>4. ASSUME NEW e \in Deliveries PROVE Delivering(e)'
  <2>1. Spares(e, {}) /\ (Busy(e) => job[e].alert \in Alerts)
    BY <1>1 DEF Spares, Delivering, DeliveryJobs
  <2> QED
    BY <1>1, <1>3, <2>1, Bystander
<1> QED
  BY <1>2, <1>4 DEF IInv

\* A combine that finds no other at work chooses a primary that was not merged.
LEMMA ChecksKeeps ==
    ASSUME IInv, NEW c \in Combines, NEW p \in Kept, NEW of \in Members,
           step[c] = "idle", Checks(c, p, of)
    PROVE  IInv'
<1>1. /\ inc[p].status # "merged" /\ \A i \in Range(of) : i # p
      /\ step' = [step EXCEPT ![c] = "fold"]
      /\ job' = [job EXCEPT ![c] = [into |-> p, of |-> of, folded |-> <<>>]]
      /\ untidy' = (untidy \/ \E x \in Combines : step[x] = "fold")
      /\ made' = made /\ inc' = inc /\ notices' = notices /\ turn' = turn /\ rowLock' = rowLock
  BY DEF Checks, rows
<1>2. TypeRows /\ TypeProcs /\ (untidy \/ Tidy) /\ (\A x \in Combines : Combining(x))
      /\ c \in Procs /\ c \notin Deliveries /\ Deliveries \subseteq Procs /\ Combines \subseteq Procs
  BY IntakeAssumption DEF IInv, Procs
<1>3. p \in Ids
  BY <1>2, KeptFinite
<1>4. of \in Seq(Ids) /\ of # <<>>
  <2>1. ASSUME NEW i \in Ids, of = <<i>>
        PROVE  of \in Seq(Ids) /\ of # <<>>
    BY <2>1
  <2>2. ASSUME NEW i \in Ids, NEW j \in Ids, of = <<i, j>>
        PROVE  of \in Seq(Ids) /\ of # <<>>
    BY <2>2
  <2> QED
    BY <2>1, <2>2 DEF Members
<1>5. /\ step'[c] = "fold" /\ job'[c] = [into |-> p, of |-> of, folded |-> <<>>]
      /\ \A x \in Procs \ {c} : step'[x] = step[x] /\ job'[x] = job[x]
  BY <1>1, <1>2 DEF TypeProcs
<1>6. TypeProcs'
  BY <1>1, <1>2, <1>5 DEF TypeProcs
<1>7. Kept' = Kept /\ (NoRings => NoRings')
  BY <1>1, RowsStay
<1>8. job'[c] \in CombineJobs /\ job'[c].folded = <<>> /\ job'[c].of = of /\ job'[c].into = p
  BY <1>3, <1>4, <1>5 DEF CombineJobs
<1>9. \A x \in Combines : Combining(x)'
  BY <1>2, <1>4, <1>5, <1>7, <1>8 DEF Combining, Folding
<1>10. untidy' \/ Tidy'
  <2> SUFFICES ASSUME ~untidy' PROVE Tidy'
    OBVIOUS
  <2>1. Tidy /\ \A x \in Combines : ~Folding(x)
    BY <1>1, <1>2 DEF Folding
  <2>2. \A x \in Combines : Folding(x)' => x = c
    BY <1>2, <1>5, <2>1 DEF Folding
  <2>3. inc[p].into = 0
    BY <1>1, <1>3, <2>1 DEF Tidy
  <2>4. Range(<<>>) = {}
    BY DEF Range
  <2>5. p \notin Range(of) \cup Range(<<>>)
    BY <1>1, <2>4
  <2> QED
    BY <1>1, <1>7, <1>8, <2>1, <2>2, <2>3, <2>5 DEF Tidy
<1> QED
  BY <1>1, <1>2, <1>5, <1>6, <1>9, <1>10, Combines1

\* From its first member on, a combine's primary cannot be deleted.
LEMMA FoldKeeps ==
    ASSUME IInv, NEW c \in Combines, Fold(c)
    PROVE  IInv'
<1>0. PICK h, t, g : h = Head(job[c].of) /\ t = Tail(job[c].of) /\ g = Append(job[c].folded, h)
  OBVIOUS
<1>1. /\ step[c] = "fold" /\ job[c].of # <<>> /\ job[c].into \in Kept /\ Free(h, c)
      /\ rowLock' = [rowLock EXCEPT ![h] = c]
      /\ job' = [job EXCEPT ![c].of = t, ![c].folded = g]
      /\ step' = step /\ untidy' = untidy
      /\ made' = made /\ inc' = inc /\ notices' = notices /\ turn' = turn
  BY <1>0 DEF Fold, rows
<1>2. TypeRows /\ TypeProcs /\ (untidy \/ Tidy) /\ (\A x \in Combines : Combining(x))
      /\ c \in Procs /\ c \notin Deliveries /\ Deliveries \subseteq Procs /\ Combines \subseteq Procs
      /\ Nobody \notin Procs
  BY IntakeAssumption DEF IInv, Procs
<1>3. job[c] \in CombineJobs
  BY <1>1, <1>2 DEF Combining, Folding
<1>4. /\ h \in Ids /\ t \in Seq(Ids) /\ Range(t) \subseteq Range(job[c].of)
      /\ g \in Seq(Ids) /\ g # <<>> /\ Range(g) \subseteq Range(job[c].folded) \cup Range(job[c].of)
  BY <1>0, <1>1, <1>3, SeqRanges DEF CombineJobs
<1>5. /\ job'[c] = [job[c] EXCEPT !.of = t, !.folded = g]
      /\ \A x \in Procs \ {c} : job'[x] = job[x]
  BY <1>1, <1>2 DEF TypeProcs
<1>6. job'[c] \in CombineJobs /\ job'[c].of = t /\ job'[c].folded = g /\ job'[c].into = job[c].into
  BY <1>3, <1>4, <1>5 DEF CombineJobs
<1>7. TypeProcs'
  BY <1>1, <1>2, <1>4 DEF TypeProcs
<1>8. Kept' = Kept /\ (NoRings => NoRings') /\ \A x \in Combines : Folding(x)' = Folding(x)
  BY <1>1, RowsStay DEF Folding
<1>9. ASSUME NEW x \in Combines PROVE Combining(x)'
  <2>1. CASE x = c
    BY <1>1, <1>4, <1>6, <1>8, <2>1 DEF Combining
  <2>2. CASE x # c
    <3>1. job'[x] = job[x]
      BY <1>2, <1>5, <2>2
    <3> QED
      BY <1>2, <1>8, <3>1 DEF Combining
  <2> QED
    BY <2>1, <2>2
<1>10. Tidy => Tidy'
  <2> SUFFICES ASSUME Tidy PROVE Tidy'
    OBVIOUS
  <2>1. /\ \A i \in Ids : inc'[i].into # 0 => inc'[i].status = "merged"
        /\ \A x, y \in Combines : Folding(x)' /\ Folding(y)' => x = y
        /\ NoRings'
    BY <1>1, <1>8 DEF Tidy
  <2>2. \A x \in Combines : Folding(x)' =>
          /\ inc'[job'[x].into].into = 0
          /\ job'[x].into \notin Range(job'[x].of) \cup Range(job'[x].folded)
    <3> SUFFICES ASSUME NEW x \in Combines, Folding(x)
                 PROVE  /\ inc'[job'[x].into].into = 0
                        /\ job'[x].into \notin Range(job'[x].of) \cup Range(job'[x].folded)
      BY <1>8
    <3>1. x = c
      BY <1>1 DEF Tidy, Folding
    <3>2. /\ inc[job[c].into].into = 0
          /\ job[c].into \notin Range(job[c].of) \cup Range(job[c].folded)
      BY <3>1 DEF Tidy
    <3> QED
      BY <1>1, <1>4, <1>6, <3>1, <3>2
  <2> QED
    BY <2>1, <2>2 DEF Tidy
<1>11. \A e \in Deliveries, i \in Ids : rowLock[i] = e => rowLock'[i] = e
  BY <1>1, <1>2, <1>4 DEF Free, TypeProcs
<1> QED
  BY <1>1, <1>2, <1>5, <1>7, <1>9, <1>10, <1>11, Combines1

\* A combine that fails gives back its rows and leaves nothing.
LEMMA FailsKeeps ==
    ASSUME IInv, NEW c \in Combines, Fails(c)
    PROVE  IInv'
<1>1. /\ step' = [step EXCEPT ![c] = "idle"] /\ job' = [job EXCEPT ![c] = Idle]
      /\ rowLock' = [i \in Ids |-> IF rowLock[i] = c THEN Nobody ELSE rowLock[i]]
      /\ untidy' = untidy
      /\ made' = made /\ inc' = inc /\ notices' = notices /\ turn' = turn
  BY DEF Fails, rows, Unlock
<1>2. TypeProcs /\ (untidy \/ Tidy) /\ (\A x \in Combines : Combining(x))
      /\ c \in Procs /\ c \notin Deliveries /\ Deliveries \subseteq Procs /\ Combines \subseteq Procs
  BY IntakeAssumption DEF IInv, Procs
<1>3. /\ step'[c] = "idle"
      /\ \A x \in Procs \ {c} : step'[x] = step[x] /\ job'[x] = job[x]
  BY <1>1, <1>2 DEF TypeProcs
<1>4. TypeProcs'
  BY <1>1, <1>2, <1>3 DEF TypeProcs
<1>5. Kept' = Kept /\ (NoRings => NoRings')
  BY <1>1, RowsStay
<1>6. \A x \in Combines : Folding(x)' => x # c /\ Folding(x) /\ job'[x] = job[x]
  BY <1>2, <1>3 DEF Folding
<1>7. \A x \in Combines : Combining(x)'
  BY <1>2, <1>5, <1>6 DEF Combining
<1>8. Tidy => Tidy'
  BY <1>1, <1>5, <1>6 DEF Tidy
<1>9. \A e \in Deliveries, i \in Ids : rowLock[i] = e => rowLock'[i] = e
  BY <1>1, <1>2
<1> QED
  BY <1>1, <1>2, <1>3, <1>4, <1>7, <1>8, <1>9, Combines1

\* Members that close are noticed, and point at a primary that is there.
LEMMA CommitsKeeps ==
    ASSUME IInv, NEW c \in Combines, CommitsCombine(c)
    PROVE  IInv'
<1> DEFINE F == {i \in Range(job[c].folded) : i \in Kept}
<1>0. PICK p : p = job[c].into
  OBVIOUS
<1>1. /\ step[c] = "fold" /\ job[c].of = <<>>
      /\ inc' = [i \in Ids |-> IF i \in F THEN [inc[i] EXCEPT !.status = "merged", !.into = p]
                               ELSE inc[i]]
      /\ step' = [step EXCEPT ![c] = "idle"]
      /\ job' = [Noticing(F) EXCEPT ![c] = Idle]
      /\ rowLock' = [i \in Ids |-> IF rowLock[i] = c THEN Nobody ELSE rowLock[i]]
      /\ made' = made /\ notices' = notices /\ turn' = turn /\ untidy' = untidy
  BY <1>0 DEF CommitsCombine, Unlock
<1>2. /\ TypeRows /\ TypeProcs /\ NewestOpen /\ NoDangling /\ ToldOnce /\ (untidy \/ Tidy)
      /\ \A x \in Combines : Combining(x)
      /\ c \in Procs /\ c \notin Deliveries /\ Deliveries \subseteq Procs /\ Combines \subseteq Procs
      /\ Deliveries \cap Combines = {}
  BY IntakeAssumption DEF IInv, Procs
<1>3. /\ Kept \subseteq Ids /\ Kept \subseteq 1 .. made /\ 0 \notin Kept /\ made \in Nat
      /\ 1 .. made \subseteq Ids
  BY <1>2, KeptFinite, IntakeAssumption DEF TypeRows, Ids
<1>4. p \in Kept /\ F \subseteq Kept
  BY <1>0, <1>1, <1>2 DEF Combining, Folding
<1>5. Tidy => p \notin F /\ inc[p].into = 0
  BY <1>0, <1>1 DEF Tidy, Folding
<1> HIDE DEF F
<1>6. /\ step'[c] = "idle" /\ \A x \in Procs \ {c} : step'[x] = step[x]
      /\ \A x \in Combines \ {c} : job'[x] = job[x]
      /\ \A e \in Deliveries : Busy(e) => job'[e] = [job[e] EXCEPT !.closed = @ \cup F]
  BY <1>1, <1>2 DEF TypeProcs, Noticing, Busy
<1>7. TypeProcs'
  BY <1>1, <1>2, <1>6 DEF TypeProcs, Noticing
<1>8. \A i \in Ids : inc[i] \in Incidents
  BY <1>2 DEF TypeRows
<1>9. /\ \A i \in F : inc'[i] = [inc[i] EXCEPT !.status = "merged", !.into = p]
      /\ \A i \in Ids \ F : inc'[i] = inc[i]
  BY <1>1, <1>3, <1>4
<1>10. \A i \in F : /\ inc'[i].status = "merged" /\ inc'[i].into = p
                    /\ inc'[i].alert = inc[i].alert /\ inc'[i].plain = inc[i].plain
                    /\ inc'[i] \in Incidents
  <2> SUFFICES ASSUME NEW i \in F
               PROVE  /\ inc'[i].status = "merged" /\ inc'[i].into = p
                      /\ inc'[i].alert = inc[i].alert /\ inc'[i].plain = inc[i].plain
                      /\ inc'[i] \in Incidents
    OBVIOUS
  <2>1. inc[i] \in Incidents /\ p \in 0 .. MaxInc
    BY <1>3, <1>4, <1>8, IntakeAssumption DEF Ids
  <2> QED
    BY <1>9, <2>1 DEF Incidents
<1>11. \A i \in F : inc[i].status \notin {"none", "deleted"} /\ i <= made
  BY <1>2, <1>3, <1>4 DEF Kept, TypeRows
<1>12. TypeRows'
  <2>1. inc' \in [Ids -> Incidents]
    BY <1>1, <1>8, <1>9, <1>10
  <2>2. \A i \in Ids : inc'[i].status = "none" <=> i > made
    BY <1>2, <1>3, <1>4, <1>9, <1>10, <1>11 DEF TypeRows
  <2> QED
    BY <1>1, <1>2, <2>1, <2>2 DEF TypeRows
<1>13. Kept' = Kept
  <2>1. \A i \in 1 .. made : inc'[i].status = "deleted" <=> inc[i].status = "deleted"
    BY <1>3, <1>9, <1>10, <1>11
  <2> QED
    BY <1>1, <2>1 DEF Kept
<1>14. \A i \in Ids : inc'[i].status = "open" => i \notin F /\ inc'[i] = inc[i]
  BY <1>9, <1>10
<1>15. \A i \in 1 .. made : inc'[i].alert = inc[i].alert /\ inc'[i].plain = inc[i].plain
  BY <1>3, <1>9, <1>10
<1>16. NewestOpen'
  <2> SUFFICES ASSUME NEW n \in Live'
               PROVE  /\ inc'[n].plain => inc'[n].into = 0
                      /\ (\A x \in 1 .. made : inc'[x].alert = inc'[n].alert => inc'[x].plain) =>
                           \A x \in 1 .. made : inc'[x].alert = inc'[n].alert => x <= n
    BY <1>1 DEF NewestOpen, AllPlain
  <2>1. n \in Live /\ inc'[n] = inc[n]
    BY <1>14 DEF Live
  <2> QED
    BY <1>2, <1>15, <2>1 DEF NewestOpen, AllPlain
<1>17. NoDangling'
  BY <1>2, <1>4, <1>9, <1>10, <1>13 DEF NoDangling
<1>18. \A x \in Combines : Folding(x)' => x # c /\ Folding(x) /\ job'[x] = job[x]
  BY <1>2, <1>6 DEF Folding
<1>19. \A x \in Combines : Combining(x)'
  BY <1>2, <1>13, <1>18 DEF Combining
<1>20. Tidy => Tidy'
  <2> SUFFICES ASSUME Tidy PROVE Tidy'
    OBVIOUS
  <2>1. \A x \in Combines : ~Folding(x)'
    BY <1>1, <1>18 DEF Tidy, Folding
  <2>2. \A i \in Ids : inc'[i].into # 0 => inc'[i].status = "merged"
    BY <1>9, <1>10 DEF Tidy
  <2>3. NoRings'
    <3> SUFFICES ASSUME NEW S \in SUBSET Kept, S # {}
                 PROVE  \E i \in S : inc'[i].into \notin S
      BY <1>13 DEF NoRings
    <3>1. CASE p \in S
      <4>1. inc'[p].into = 0 /\ 0 \notin S
        BY <1>3, <1>4, <1>5, <1>9
      <4> QED
        BY <3>1, <4>1
    <3>2. CASE p \notin S /\ S \cap F # {}
      BY <1>10, <3>2
    <3>3. CASE S \cap F = {}
      <4>1. \A i \in S : inc'[i] = inc[i]
        BY <1>3, <1>9, <3>3
      <4> QED
        BY <4>1 DEF Tidy, NoRings
    <3> QED
      BY <3>1, <3>2, <3>3
  <2> QED
    BY <2>1, <2>2, <2>3 DEF Tidy
<1>21. Turning(Alerts, F)
  <2>1. \A i \in 1 .. made :
          /\ inc[i].status = "open" => i \in F \/ inc'[i].status \in {"open", "deleted"}
          /\ inc[i].status = "deleted" => inc'[i].status = "deleted"
    BY <1>3, <1>9, <1>11
  <2>2. \A i \in Ids : inc'[i].status = "open" => inc[i].status = "open"
    BY <1>14
  <2>3. made' \in Nat /\ made <= made'
    <3>1. made' = made
      BY <1>1
    <3>2. made \in Nat
      BY <1>3
    <3> QED
      BY <3>1, <3>2
  <2> QED
    BY <1>15, <2>1, <2>2, <2>3 DEF Turning
<1>22. ASSUME NEW e \in Deliveries PROVE Delivering(e)'
  <2>1. Delivering(e) /\ step'[e] = step[e]
    BY <1>2, <1>6 DEF IInv
  <2>2. Busy(e) => Spares(e, F) /\ job[e].alert \in Alerts
    BY <1>1, <1>2, <1>6, <2>1 DEF Spares, Delivering, DeliveryJobs
  <2>3. F \in SUBSET Ids
    BY <1>3, <1>4
  <2> QED
    BY <1>2, <1>21, <2>1, <2>2, <2>3, Bystander
<1> QED
  BY <1>1, <1>2, <1>7, <1>12, <1>16, <1>17, <1>19, <1>20, <1>22 DEF IInv, ToldOnce

\* What is deleted takes along all that points at it.
LEMMA DeleteKeeps ==
    ASSUME IInv, NEW i \in Ids, Delete(i)
    PROVE  IInv'
<1>0. PICK T : T = Tree(i)
  OBVIOUS
<1>1. /\ i \in Kept /\ \A t \in T : ~Referenced(t)
      /\ inc' = [t \in Ids |-> IF t \in T THEN [inc[t] EXCEPT !.status = "deleted", !.into = 0]
                               ELSE inc[t]]
      /\ made' = made /\ notices' = notices /\ turn' = turn /\ rowLock' = rowLock
      /\ step' = step /\ job' = job /\ untidy' = untidy
  BY <1>0 DEF Delete
<1>2. /\ TypeRows /\ TypeProcs /\ NewestOpen /\ NoDangling /\ ToldOnce /\ (untidy \/ Tidy)
      /\ \A x \in Combines : Combining(x)
  BY DEF IInv
<1>3. /\ Kept \subseteq Ids /\ Kept \subseteq 1 .. made /\ 0 \notin Kept /\ made \in Nat
      /\ 1 .. made \subseteq Ids
  BY <1>2, KeptFinite, IntakeAssumption DEF TypeRows, Ids
<1>4. T \subseteq Kept /\ \A x \in Kept : inc[x].into \in T => x \in T
  <2>1. T \subseteq Kept
    BY <1>0 DEF Tree
  <2>2. ASSUME NEW x \in Kept, inc[x].into \in T PROVE x \in T
    <3>1. inc[x].into \in Kept /\ i \in Above(inc[x].into)
      BY <1>0, <2>1, <2>2 DEF Tree
    <3>2. inc[x].into \in Above(x)
      BY <3>1, AboveLeast DEF Upward
    <3>3. i \in Above(x)
      BY <3>1, <3>2, AboveWithin
    <3> QED
      BY <1>0, <3>3 DEF Tree
  <2> QED
    BY <2>1, <2>2
<1>5. /\ \A t \in T : inc'[t] = [inc[t] EXCEPT !.status = "deleted", !.into = 0]
      /\ \A t \in Ids \ T : inc'[t] = inc[t]
  BY <1>1, <1>3, <1>4
<1>6. \A t \in Ids : inc[t] \in Incidents
  BY <1>2 DEF TypeRows
<1>7. \A t \in T : /\ inc'[t].status = "deleted" /\ inc'[t].into = 0
                   /\ inc'[t].alert = inc[t].alert /\ inc'[t].plain = inc[t].plain
                   /\ inc'[t] \in Incidents
  <2> SUFFICES ASSUME NEW t \in T
               PROVE  /\ inc'[t].status = "deleted" /\ inc'[t].into = 0
                      /\ inc'[t].alert = inc[t].alert /\ inc'[t].plain = inc[t].plain
                      /\ inc'[t] \in Incidents
    OBVIOUS
  <2>1. inc[t] \in Incidents
    BY <1>3, <1>4, <1>6
  <2>2. 0 \in 0 .. MaxInc
    BY IntakeAssumption
  <2> QED
    BY <1>5, <2>1, <2>2 DEF Incidents
<1>8. \A t \in T : inc[t].status # "none" /\ t <= made
  BY <1>2, <1>3, <1>4 DEF TypeRows
<1>9. TypeRows'
  <2>1. inc' \in [Ids -> Incidents]
    BY <1>1, <1>5, <1>6, <1>7
  <2>2. \A t \in Ids : inc'[t].status = "none" <=> t > made
    <3> SUFFICES ASSUME NEW t \in Ids PROVE inc'[t].status = "none" <=> t > made
      OBVIOUS
    <3>1. CASE t \in T
      <4>1. inc'[t].status # "none" /\ t <= made /\ t \in Nat
        <5>1. t \in 1 .. made
          BY <1>3, <1>4, <3>1
        <5>2. inc'[t].status = "deleted"
          BY <1>7, <3>1
        <5>3. t \in Nat /\ t <= made
          BY <5>1
        <5> QED
          BY <5>2, <5>3
      <4> QED
        BY <1>3, <4>1
    <3>2. CASE t \notin T
      BY <1>2, <1>5, <3>2 DEF TypeRows
    <3> QED
      BY <3>1, <3>2
  <2> QED
    BY <1>1, <1>2, <2>1, <2>2 DEF TypeRows
<1>10. Kept' = Kept \ T
  <2>1. \A t \in 1 .. made : inc'[t].status = "deleted" <=> inc[t].status = "deleted" \/ t \in T
    BY <1>3, <1>5, <1>7
  <2> QED
    BY <1>1, <2>1 DEF Kept
<1>11. \A t \in Ids : inc'[t].status = "open" => t \notin T /\ inc'[t] = inc[t]
  BY <1>5, <1>7
<1>12. \A t \in 1 .. made : inc'[t].alert = inc[t].alert /\ inc'[t].plain = inc[t].plain
  BY <1>3, <1>5, <1>7
<1>13. NewestOpen'
  <2> SUFFICES ASSUME NEW n \in Live'
               PROVE  /\ inc'[n].plain => inc'[n].into = 0
                      /\ (\A x \in 1 .. made : inc'[x].alert = inc'[n].alert => inc'[x].plain) =>
                           \A x \in 1 .. made : inc'[x].alert = inc'[n].alert => x <= n
    BY <1>1 DEF NewestOpen, AllPlain
  <2>1. n \in Live /\ inc'[n] = inc[n]
    BY <1>11 DEF Live
  <2> QED
    BY <1>2, <1>12, <2>1 DEF NewestOpen, AllPlain
<1>14. NoDangling'
  <2> SUFFICES ASSUME NEW n \in Ids, inc'[n].into # 0
               PROVE  n \in Kept \ T /\ inc'[n].into \in Kept \ T
    BY <1>10 DEF NoDangling
  <2>1. n \notin T
    BY <1>7
  <2>2. inc'[n] = inc[n]
    BY <1>5, <2>1
  <2>3. n \in Kept /\ inc[n].into \in Kept
    BY <1>2, <2>2 DEF NoDangling
  <2> QED
    BY <1>4, <2>1, <2>2, <2>3
<1>15. \A x \in Combines : Combining(x)'
  <2> SUFFICES ASSUME NEW x \in Combines, Folding(x)
               PROVE  /\ job[x] \in CombineJobs
                      /\ IF job[x].folded = <<>> THEN job[x].of # <<>> ELSE job[x].into \in Kept'
    BY <1>1 DEF Combining, Folding
  <2>1. job[x].folded # <<>> => job[x].into \notin T
    BY <1>1 DEF Referenced, Folding
  <2> QED
    BY <1>2, <1>10, <2>1 DEF Combining
<1>16. Tidy => Tidy'
  <2> SUFFICES ASSUME Tidy PROVE Tidy'
    OBVIOUS
  <2>1. /\ \A t \in Ids : inc'[t].into # 0 => inc'[t].status = "merged"
        /\ \A t \in Ids : inc[t].into = 0 => inc'[t].into = 0
    BY <1>5, <1>7 DEF Tidy
  <2>2. \A x \in Combines : Folding(x) => job[x].into \in Ids
    BY <1>2 DEF Combining, CombineJobs
  <2>3. NoRings'
    <3> SUFFICES ASSUME NEW S \in SUBSET (Kept \ T), S # {}
                 PROVE  \E t \in S : inc'[t].into \notin S
      BY <1>10 DEF NoRings
    <3>1. \A t \in S : inc'[t] = inc[t]
      BY <1>3, <1>5
    <3> QED
      BY <3>1 DEF Tidy, NoRings
  <2> QED
    BY <1>1, <2>1, <2>2, <2>3 DEF Tidy, Folding
<1>17. Turning(Alerts, {})
  <2>1. \A t \in 1 .. made :
          /\ inc[t].status = "open" => inc'[t].status \in {"open", "deleted"}
          /\ inc[t].status = "deleted" => inc'[t].status = "deleted"
    BY <1>3, <1>5, <1>7
  <2>2. \A t \in Ids : inc'[t].status = "open" => inc[t].status = "open"
    BY <1>11
  <2>3. made' \in Nat /\ made <= made'
    <3>1. made' = made
      BY <1>1
    <3>2. made \in Nat
      BY <1>3
    <3> QED
      BY <3>1, <3>2
  <2> QED
    BY <1>12, <2>1, <2>2, <2>3 DEF Turning
<1>18. ASSUME NEW e \in Deliveries PROVE Delivering(e)'
  <2>1. Delivering(e) /\ Spares(e, {}) /\ (Busy(e) => job[e].alert \in Alerts)
    BY <1>1 DEF IInv, Spares, Delivering, DeliveryJobs
  <2> QED
    BY <1>1, <1>2, <1>17, <2>1, Bystander
<1>19. TypeProcs'
  BY <1>1, <1>2 DEF TypeProcs
<1> QED
  BY <1>1, <1>2, <1>9, <1>13, <1>14, <1>15, <1>16, <1>18, <1>19 DEF IInv, ToldOnce

-----------------------------------------------------------------------------
(* The theorems.                                                           *)

\* No step breaks the invariant.
LEMMA IStep ==
    ASSUME IInv, [Next]_vars
    PROVE  IInv'
<1>1. ASSUME UNCHANGED <<made, inc, notices, turn, rowLock, step, job, untidy>>
      PROVE  IInv'
  <2>1. TypeRows' /\ TypeProcs' /\ ToldOnce'
    BY <1>1 DEF IInv, TypeRows, TypeProcs, ToldOnce
  <2>2. NewestOpen' /\ NoDangling' /\ Kept' = Kept /\ Live' = Live /\ (NoRings => NoRings')
    BY <1>1, RowsStay DEF IInv
  <2>3. \A d \in Deliveries : Delivering(d)'
    BY <1>1, <2>2 DEF IInv, Delivering, Busy, LookedUp, Answering, Telling, FoundOpen, NoneOpen,
                      AllPlain, OpenTill
  <2>4. (\A c \in Combines : Combining(c)') /\ (untidy \/ Tidy)'
    BY <1>1, CombinesStay DEF IInv
  <2> QED
    BY <2>1, <2>2, <2>3, <2>4 DEF IInv
<1>2. CASE UNCHANGED vars
  BY <1>1, <1>2 DEF vars, rows
<1>3. ASSUME NEW d \in Deliveries, Deliver(d)
      PROVE  IInv'
  BY <1>3, TakeKeeps, ClearsNothingKeeps, ClearsKeeps, WeighsKeeps, CollideKeeps, AnswersKeeps,
     CreateKeeps DEF Deliver
<1>4. ASSUME NEW c \in Combines, Combine(c)
      PROVE  IInv'
  BY <1>4, ChecksKeeps, FoldKeeps, CommitsKeeps, FailsKeeps DEF Combine
<1>5. ASSUME NEW i \in Ids, NEW to \in {"open", "resolved"}, Patch(i, to)
      PROVE  IInv'
  BY <1>5, PatchKeeps
<1>6. ASSUME NEW i \in Ids, Delete(i)
      PROVE  IInv'
  BY <1>6, DeleteKeeps
<1>7. ASSUME NEW k \in Keys, Lapses(k)
      PROVE  IInv'
  BY <1>1, <1>7 DEF Lapses
<1> QED
  BY <1>2, <1>3, <1>4, <1>5, <1>6, <1>7 DEF Next

\* The invariant holds whatever is taken in, combined, patched and deleted.
THEOREM IntakeInvariant == Spec => []IInv
<1>1. IInv /\ [Next]_vars => IInv'
  BY IStep
<1> QED
  BY <1>1, IInitial, PTL DEF Spec

\* Deliveries that overlap never open two incidents for one alert, however many
\* there are (take_turns): while nobody opened one beside another, only the
\* alert's newest incident is ever open.
THEOREM OneOpen == Spec => []OneOpenPerAlert
<1>1. IInv => OneOpenPerAlert
  <2> SUFFICES ASSUME IInv, NEW i \in Live, NEW j \in Live, i # j, inc[i].alert = inc[j].alert,
                      \A n \in 1 .. made : inc[n].alert = inc[i].alert => inc[n].plain
               PROVE  FALSE
    BY DEF OneOpenPerAlert
  <2>1. TypeRows /\ NewestOpen
    BY DEF IInv
  <2>2. i \in Ids /\ j \in Ids /\ inc[i].status = "open" /\ inc[j].status = "open"
    BY DEF Live
  <2>3. i \in 1 .. made /\ j \in 1 .. made
    BY <2>1, <2>2, KeptFinite DEF TypeRows, Ids
  <2>4. AllPlain(inc[i].alert) /\ AllPlain(inc[j].alert)
    BY DEF AllPlain
  <2>5. j <= i /\ i <= j
    BY <2>1, <2>3, <2>4 DEF NewestOpen
  <2> QED
    BY <2>3, <2>5
<1> QED
  BY <1>1, IntakeInvariant, PTL

\* Merge pointers lead out of every merged incident and never round
\* (combine_incidents), unless combines overlapped or a merged incident's
\* status was written over.
THEOREM Rings == Spec => []RingsAreUntidy
<1>1. IInv => RingsAreUntidy
  BY MergedElsewhere DEF IInv, Tidy, RingsAreUntidy
<1> QED
  BY <1>1, IntakeInvariant, PTL

\* The people of a service are told once of an incident that took their alert
\* (record_collision): whoever tells them holds its row, and read that nobody
\* had.
THEOREM Told == Spec => []ToldOnce
<1>1. IInv => ToldOnce
  BY DEF IInv
<1> QED
  BY <1>1, IntakeInvariant, PTL

\* Who ends a delivery that answers its alert.
LEMMA Answer ==
    ASSUME IInv, [Next]_vars, NEW d \in Deliveries,
           step[d] \in {"skip", "group", "create"}, step'[d] = "idle"
    PROVE  Answers(d) \/ Create(d)
<1>1. TypeProcs /\ d \in Procs /\ d \notin Combines /\ Deliveries \subseteq Procs
  BY IntakeAssumption DEF IInv, Procs
<1>2. ASSUME NEW p \in Procs, p # d, NEW to, step' = [step EXCEPT ![p] = to]
      PROVE  FALSE
  BY <1>1, <1>2 DEF TypeProcs
<1>3. step' # step
  OBVIOUS
<1>4. ASSUME NEW e \in Deliveries, e # d, Deliver(e)
      PROVE  FALSE
  <2>1. \E to : step' = [step EXCEPT ![e] = to]
    BY <1>4 DEF Deliver, Take, ClearsNothing, Clears, WeighsOpen, WeighsClosed, Collide, Answers,
                Create, Goes, Ends
  <2> QED
    BY <1>1, <1>2, <1>4, <2>1
<1>5. ASSUME NEW c \in Combines, Combine(c)
      PROVE  FALSE
  <2>1. step' = step \/ \E to : step' = [step EXCEPT ![c] = to]
    BY <1>5 DEF Combine, Checks, Fold, CommitsCombine, Fails
  <2> QED
    BY <1>1, <1>2, <1>3, <2>1 DEF Procs
<1>6. ~UNCHANGED vars
  BY <1>3 DEF vars
<1>7. \/ \E e \in Deliveries : Deliver(e)
      \/ \E c \in Combines : Combine(c)
  BY <1>3, <1>6 DEF Next, Patch, Delete, Lapses
<1>8. Deliver(d)
  BY <1>4, <1>5, <1>7
<1> QED
  BY <1>8 DEF Deliver, Take, ClearsNothing, Clears, WeighsOpen, WeighsClosed, Collide

\* Once an alert that fires is answered, it has an open incident, or somebody
\* closed that since the lookup, along whatever merge pointers it was found
\* (get_by_external_fingerprint).
THEOREM Answered == Spec => FiringIsAnswered
<1>1. IInv /\ IInv' /\ [Next]_vars =>
        [\A d \in Deliveries, a \in Alerts :
            (/\ step[d] \in {"skip", "group", "create"} /\ step'[d] = "idle"
             /\ job[d].alert = a) =>
               \E i \in Ids : /\ i = IF step[d] = "create" THEN Lookup(a)' ELSE job[d].on
                              /\ inc'[i].status = "open" \/ i \in job[d].closed]_vars
  <2> SUFFICES ASSUME IInv, IInv', [Next]_vars, NEW d \in Deliveries, NEW a \in Alerts,
                      step[d] \in {"skip", "group", "create"}, step'[d] = "idle",
                      job[d].alert = a
               PROVE  \E i \in Ids : /\ i = IF step[d] = "create" THEN Lookup(a)' ELSE job[d].on
                                     /\ inc'[i].status = "open" \/ i \in job[d].closed
    OBVIOUS
  <2>1. TypeRows /\ TypeProcs /\ d \in Procs /\ made \in Nat
    BY KeptFinite DEF IInv, Procs
  <2>2. CASE Answers(d)
    <3>1. step[d] # "create" /\ inc' = inc
      BY <2>2 DEF Answers
    <3>2. job[d].on \in Kept
      <4> SUFFICES ASSUME job[d].on \notin Kept PROVE FALSE
        OBVIOUS
      <4>1. step' = [step EXCEPT ![d] = "failed"]
        BY <2>2 DEF Answers, Ends
      <4> QED
        BY <2>1, <4>1 DEF TypeProcs
    <3>3. OpenTill(d, job[d].on)
      BY <3>1 DEF IInv, Delivering, Answering, Busy
    <3>4. job[d].on \in Ids
      BY <2>1, <3>2, KeptFinite
    <3> QED
      BY <3>1, <3>2, <3>3, <3>4 DEF OpenTill
  <2>3. CASE Create(d)
    <3> DEFINE i == made + 1
    <3>1. step[d] = "create" /\ made' = i /\ made < MaxInc
      BY <2>3 DEF Create
    <3>2. i \in Ids
      BY <2>1, <3>1, IntakeAssumption DEF Ids
    <3>3. inc'[i].status = "open" /\ inc'[i].alert = a /\ inc'[i].into = 0
      BY <2>1, <2>3, <3>2 DEF Create, TypeRows
    <3>4. i \in Kept' /\ \A n \in Kept' : n <= i
      BY <2>1, <3>1, <3>3 DEF Kept
    <3>5. LooksUp' /\ TypeRows'
      BY LookupFinds, PTL DEF IInv
    <3>6. Lookup(a)' = i
      BY <3>3, <3>4, <3>5 DEF LooksUp
    <3> QED
      BY <3>1, <3>2, <3>3, <3>6
  <2> QED
    BY <2>2, <2>3, Answer
<1> QED
  BY <1>1, IntakeInvariant, PTL DEF Spec, FiringIsAnswered

=============================================================================
