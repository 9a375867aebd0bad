----------------------- MODULE SessionAdmission_proofs -----------------------
(***************************************************************************)
(* SessionAdmission for any number of sessions, models, clients and drains:*)
(* no model carries more of the sessions a slot was counted for than its   *)
(* limit, no drain starts what ended in the queue, nor what an             *)
(* acknowledgement found or came before, and together they are ModelSlots. *)
(***************************************************************************)
EXTENDS SessionAdmission, FiniteSetTheorems, TLAPS

\* Whoever writes holds the model rows ...
Locked == \A p \in Procs : step[p] = "write" => modelLock = p

\* ... and finds the slot it chose still free.
Roomy ==
    \A p \in Procs : step[p] = "write" /\ pick[p] # NoModel =>
        pick[p] \in Models /\ Cardinality(Regular(pick[p])) < Cap

\* A drain keeps the session it works on queued by the lock on its row; its
\* incident is acknowledged only past an acknowledgement that did not find it.
Rows ==
    \A d \in Drains : step[d] \in {"count", "write"} =>
        /\ aim[d] \in Queued /\ rowLock[aim[d]] = d
        /\ incident[aim[d]] \in acked => aim[d] \in overtaken
        /\ step[d] = "write" => pick[d] # NoModel

\* What is forced was created, and what took a slot uncounted does not wait.
Forcing ==
    /\ \A c \in Clients : step[c] = "force" => aim[c] \in Exists
    /\ extra \cap Queued = {}

\* The inductive invariant.
IInv == STypeOK /\ Locked /\ Roomy /\ Rows /\ Forcing /\ WithinCap

-----------------------------------------------------------------------------
(* Counting.                                                               *)

\* The sessions of a model are finitely many.
LEMMA RegularIsFinite ==
    ASSUME STypeOK, NEW m
    PROVE  IsFiniteSet(Regular(m)) /\ Cardinality(Regular(m)) \in Nat
<1>1. created \in Nat
  BY AdmissionAssumption DEF STypeOK
<1>2. IsFiniteSet(Exists)
  BY <1>1, FS_Interval DEF Exists
<1>3. Regular(m) \subseteq Exists
  BY DEF Regular, Running
<1> QED
  BY <1>2, <1>3, FS_Subset, FS_CardinalityType

\* Losing sessions keeps the count below what it was; one more adds one.
LEMMA CountsMove ==
    ASSUME NEW A, NEW B, IsFiniteSet(A)
    PROVE  /\ B \subseteq A => IsFiniteSet(B) /\ Cardinality(B) <= Cardinality(A)
           /\ \A s : B \subseteq A \cup {s} =>
                IsFiniteSet(B) /\ Cardinality(B) <= Cardinality(A) + 1
<1>1. ASSUME B \subseteq A PROVE IsFiniteSet(B) /\ Cardinality(B) <= Cardinality(A)
  BY <1>1, FS_Subset
<1>2. ASSUME NEW s, B \subseteq A \cup {s}
      PROVE  IsFiniteSet(B) /\ Cardinality(B) <= Cardinality(A) + 1
  <2>1. /\ IsFiniteSet(A \cup {s}) /\ Cardinality(A) \in Nat
        /\ Cardinality(A \cup {s}) \in {Cardinality(A), Cardinality(A) + 1}
    BY FS_AddElement, FS_CardinalityType
  <2>2. IsFiniteSet(B) /\ Cardinality(B) <= Cardinality(A \cup {s}) /\ Cardinality(B) \in Nat
    BY <1>2, <2>1, FS_Subset, FS_CardinalityType
  <2> QED
    BY <2>1, <2>2
<1> QED
  BY <1>1, <1>2

\* A model with room for a session has room for one that is counted.
LEMMA RoomIsRegular ==
    ASSUME STypeOK, NEW W \in SUBSET Models, NEW m \in Room(W)
    PROVE  m \in Models /\ Cardinality(Regular(m)) < Cap
<1>1. created \in Nat /\ Cap \in Nat
  BY AdmissionAssumption DEF STypeOK
<1>2. IsFiniteSet(Exists)
  BY <1>1, FS_Interval DEF Exists
<1>3. Regular(m) \subseteq Occupancy(m) /\ Occupancy(m) \subseteq Exists
  BY DEF Regular, Occupancy, Running
<1>4. /\ IsFiniteSet(Occupancy(m))
      /\ Cardinality(Occupancy(m)) \in Nat /\ Cardinality(Regular(m)) \in Nat
      /\ Cardinality(Regular(m)) <= Cardinality(Occupancy(m))
  BY <1>2, <1>3, FS_Subset, FS_CardinalityType
<1>5. Cardinality(Occupancy(m)) < Cap /\ m \in Models
  BY DEF Room
<1> QED
  BY <1>1, <1>4, <1>5

-----------------------------------------------------------------------------
(* Types.                                                                  *)

\* Nothing runs and nobody holds a lock at the start.
LEMMA StartsEmpty == Init => IInv
<1> SUFFICES ASSUME Init PROVE IInv
  OBVIOUS
<1>1. 0 \in 0 .. MaxSessions /\ 1 \in Nat
  BY AdmissionAssumption
<1>2. NoRequest \in [incident : Incidents \cup {NoIncident}, wants : SUBSET Models,
                     force : BOOLEAN, handled : BOOLEAN]
  BY DEF NoRequest
<1>3. \A s \in Sessions : s > 0
  BY AdmissionAssumption DEF Sessions
<1>4. STypeOK
  BY <1>1, <1>2, <1>3 DEF Init, STypeOK
<1>5. \A m : Regular(m) = {} /\ Queued = {}
  BY AdmissionAssumption DEF Init, Regular, Running, Queued, Exists, Sessions
<1>6. WithinCap
  <2>1. Cardinality({}) = 0 /\ 0 <= Cap
    BY FS_EmptySet, AdmissionAssumption
  <2> QED
    BY <1>5, <2>1 DEF WithinCap
<1>7. Locked /\ Roomy /\ Rows /\ Forcing
  BY <1>5 DEF Init, Locked, Roomy, Rows, Forcing, Procs
<1> QED
  BY <1>4, <1>6, <1>7 DEF IInv

\* What a new session's row changes.
LEMMA InsertIsNew ==
    ASSUME STypeOK, NEW c \in Clients, NEW st \in {"queued", "active"},
           NEW m \in Models \cup {NoModel}, NEW f \in BOOLEAN, Insert(c, st, m, f)
    PROVE  \E s \in Sessions :
             /\ s = created + 1 /\ created' = s /\ created \in Nat /\ s \notin Exists
             /\ status[s] = "none" /\ s \notin extra
             /\ Exists' = Exists \cup {s}
             /\ status' = [status EXCEPT ![s] = st] /\ on' = [on EXCEPT ![s] = m]
             /\ incident' = [incident EXCEPT ![s] = request[c].incident]
             /\ wants' = [wants EXCEPT ![s] = request[c].wants]
             /\ extra' = IF f THEN extra \cup {s} ELSE extra
<1>1. created \in Nat /\ MaxSessions \in Nat
  BY AdmissionAssumption DEF STypeOK
<1>2. created + 1 \in Sessions
  BY DEF Insert
<1>3. created + 1 \notin Exists /\ created + 1 > created
  BY <1>1 DEF Exists
<1>4. 1 .. (created + 1) = (1 .. created) \cup {created + 1}
  BY <1>1
<1>5. Exists' = Exists \cup {created + 1} /\ created' = created + 1
  BY <1>4 DEF Exists, Insert
<1>6. status[created + 1] = "none" /\ created + 1 \notin extra
  BY <1>2, <1>3 DEF STypeOK
<1> QED
  BY <1>1, <1>2, <1>3, <1>5, <1>6 DEF Insert

\* The sessions' rows.
RowTypes ==
    /\ created \in 0 .. MaxSessions
    /\ status \in [Sessions -> {"none", "queued", "active", "ended"}]
    /\ \A s \in Sessions : status[s] = "none" <=> s > created
    /\ wants \in [Sessions -> SUBSET Models]
    /\ incident \in [Sessions -> Incidents \cup {NoIncident}]
    /\ on \in [Sessions -> Models \cup {NoModel}]
    /\ extra \subseteq Exists

\* Writing a row that exists, to anything but "none", keeps the types.
LEMMA RowWritten ==
    ASSUME STypeOK, NEW G \in SUBSET Exists, NEW st \in {"queued", "active", "ended"},
           created' = created, wants' = wants, incident' = incident, extra' = extra,
           on' \in [Sessions -> Models \cup {NoModel}],
           status' = [s \in Sessions |-> IF s \in G THEN st ELSE status[s]]
    PROVE  RowTypes'
<1>1. created \in Nat /\ MaxSessions \in Nat /\ \A s \in G : s <= created /\ s \in Nat
  BY AdmissionAssumption DEF STypeOK, Exists
<1>2. \A s \in Sessions : s \in Nat
  BY AdmissionAssumption DEF Sessions
<1>3. \A s \in Sessions : status'[s] = "none" <=> s > created
  BY <1>1, <1>2 DEF STypeOK
<1> QED
  BY <1>3 DEF STypeOK, RowTypes, Exists

\* A new row keeps the types.
LEMMA RowInserted ==
    ASSUME STypeOK, NEW c \in Clients, NEW st \in {"queued", "active"},
           NEW m \in Models \cup {NoModel}, NEW f \in BOOLEAN, Insert(c, st, m, f)
    PROVE  RowTypes'
<1>1. PICK s \in Sessions :
             /\ s = created + 1 /\ created' = s /\ created \in Nat /\ s \notin Exists
             /\ Exists' = Exists \cup {s}
             /\ status' = [status EXCEPT ![s] = st] /\ on' = [on EXCEPT ![s] = m]
             /\ incident' = [incident EXCEPT ![s] = request[c].incident]
             /\ wants' = [wants EXCEPT ![s] = request[c].wants]
             /\ extra' = IF f THEN extra \cup {s} ELSE extra
  BY InsertIsNew
<1>2. request[c].incident \in Incidents \cup {NoIncident} /\ request[c].wants \in SUBSET Models
  BY DEF STypeOK
<1>3. \A t \in Sessions : t \in Nat
  BY AdmissionAssumption DEF Sessions
<1>4. s \in 0 .. MaxSessions
  BY AdmissionAssumption DEF Sessions
<1>5. \A t \in Sessions : status'[t] = "none" <=> t > s
  BY <1>1, <1>3 DEF STypeOK
<1>6. extra' \subseteq Exists'
  BY <1>1 DEF STypeOK
<1> QED
  BY <1>1, <1>2, <1>4, <1>5, <1>6 DEF STypeOK, RowTypes

\* A step creates a session or none.
LEMMA NoneIsLost ==
    ASSUME STypeOK, [Next]_vars
    PROVE  created' = created \/ created' = created + 1
<1>1. ASSUME NEW c \in Clients, Write(c) PROVE created' = created \/ created' = created + 1
  BY <1>1 DEF Write, Insert, sessions
<1>2. CASE ~ \E c \in Clients : Write(c)
  BY <1>2 DEF Next, Finish, Drain, Ask, Count, ForceQueued, DrainLists, DrainEnds, DrainCounts,
     DrainAdmits, DrainDrops, DrainPasses, DrainTakes, AcknowledgeLooks, Acknowledge, Close,
     CancelQueued, End, Returns, SwitchModel, Elapse, vars, sessions
<1> QED
  BY <1>1, <1>2

\* The types of the rows, of the locks and of the processes.
LEMMA TypesStay ==
    ASSUME IInv, [Next]_vars
    PROVE  STypeOK'
<1> DEFINE ProcessTypes ==
             /\ modelLock \in Procs \cup {Nobody}
             /\ rowLock \in [Sessions -> Drains \cup {Nobody}]
             /\ step \in [Procs -> {"idle", "count", "write", "force", "next"}]
             /\ pick \in [Procs -> Models \cup {NoModel}]
             /\ aim \in [Procs -> Nat]
             /\ request \in [Clients -> [incident : Incidents \cup {NoIncident},
                                         wants : SUBSET Models,
                                         force : BOOLEAN, handled : BOOLEAN]]
<1>0. STypeOK /\ RowTypes /\ ProcessTypes /\ Clients \subseteq Procs /\ Drains \subseteq Procs
  BY DEF IInv, STypeOK, RowTypes, Procs
<1>1. NoRequest \in [incident : Incidents \cup {NoIncident}, wants : SUBSET Models,
                     force : BOOLEAN, handled : BOOLEAN]
  BY DEF NoRequest
<1>2. \A s \in Sessions : s \in Nat
  BY AdmissionAssumption DEF Sessions
<1>3. ASSUME UNCHANGED sessions PROVE RowTypes'
  BY <1>0, <1>3 DEF RowTypes, sessions, Exists
<1>4. ASSUME NEW c \in Clients, NEW i \in Incidents, NEW W \in SUBSET Models, NEW force \in BOOLEAN,
             Ask(c, i, W, force)
      PROVE  RowTypes' /\ ProcessTypes' /\ UNCHANGED incidents
  <2>1. [incident |-> i, wants |-> W, force |-> force, handled |-> i \in acked \cup closed]
          \in [incident : Incidents \cup {NoIncident}, wants : SUBSET Models,
               force : BOOLEAN, handled : BOOLEAN]
    OBVIOUS
  <2>2. request' \in [Clients -> [incident : Incidents \cup {NoIncident}, wants : SUBSET Models,
                                  force : BOOLEAN, handled : BOOLEAN]]
    BY <1>0, <1>4, <2>1 DEF Ask
  <2>3. step' \in [Procs -> {"idle", "count", "write", "force", "next"}]
    BY <1>0, <1>4 DEF Ask
  <2>4. aim' \in [Procs -> Nat]
    <3>1. \A s \in Exists : s \in Nat
      BY <1>0, AdmissionAssumption DEF Exists, STypeOK
    <3> QED
      BY <1>0, <1>4, <3>1 DEF Ask, Nonterminal, Queued
  <2> QED
    BY <1>0, <1>3, <1>4, <2>2, <2>3, <2>4 DEF Ask
<1>5. ASSUME NEW c \in Clients, Count(c)
      PROVE  RowTypes' /\ ProcessTypes' /\ UNCHANGED incidents
  <2>1. pick' \in [Procs -> Models \cup {NoModel}]
    BY <1>0, <1>5 DEF Count, Room
  <2> QED
    BY <1>0, <1>3, <1>5, <2>1 DEF Count
<1>6. ASSUME NEW c \in Clients, Write(c)
      PROVE  RowTypes' /\ ProcessTypes' /\ UNCHANGED incidents
  <2>1. RowTypes'
    <3>1. pick[c] \in Models \cup {NoModel} /\ request[c].wants \subseteq Models
      BY <1>0
    <3>2. CASE Insert(c, "active", pick[c], FALSE)
      BY <1>0, <3>1, <3>2, RowInserted
    <3>3. CASE \E m \in request[c].wants : Insert(c, "active", m, TRUE)
      BY <1>0, <3>1, <3>3, RowInserted
    <3>4. CASE Insert(c, "queued", NoModel, FALSE)
      BY <1>0, <3>4, RowInserted
    <3> QED
      BY <1>3, <1>6, <3>2, <3>3, <3>4 DEF Write
  <2> QED
    BY <1>0, <1>1, <1>6, <2>1 DEF Write
<1>7. ASSUME NEW c \in Clients, ForceQueued(c)
      PROVE  RowTypes' /\ ProcessTypes' /\ UNCHANGED incidents
  <2>1. aim[c] \in Exists /\ aim[c] \in Sessions /\ aim[c] \in Nat /\ aim[c] <= created
    BY <1>0, <1>7, AdmissionAssumption DEF IInv, Forcing, ForceQueued, Exists, STypeOK, Sessions
  <2>2. PICK m \in Models : on' = [on EXCEPT ![aim[c]] = m]
    BY <1>7 DEF ForceQueued
  <2>3. on' \in [Sessions -> Models \cup {NoModel}]
    BY <1>0, <2>2 DEF RowTypes
  <2>4. /\ status' \in [Sessions -> {"none", "queued", "active", "ended"}]
        /\ \A s \in Sessions : status'[s] = "none" <=> s > created
    BY <1>0, <1>2, <1>7, <2>1 DEF ForceQueued, RowTypes
  <2>5. extra' \subseteq Exists' /\ created' = created
    BY <1>0, <1>7, <2>1 DEF ForceQueued, RowTypes, Exists
  <2>6. RowTypes'
    BY <1>0, <1>7, <2>3, <2>4, <2>5 DEF RowTypes, ForceQueued
  <2> QED
    BY <1>0, <1>1, <1>7, <2>6 DEF ForceQueued
<1>8. ASSUME NEW d \in Drains, DrainLists(d) \/ DrainEnds(d)
      PROVE  RowTypes' /\ ProcessTypes' /\ UNCHANGED incidents
  BY <1>0, <1>3, <1>8 DEF DrainLists, DrainEnds
<1>9. ASSUME NEW d \in Drains, DrainCounts(d)
      PROVE  RowTypes' /\ ProcessTypes' /\ UNCHANGED incidents
  <2>1. aim[d] \in Sessions
    BY <1>0, <1>9, AdmissionAssumption
    DEF IInv, Rows, DrainCounts, Queued, Exists, STypeOK, Sessions
  <2>2. wants[aim[d]] \subseteq Models
    BY <1>0, <2>1 DEF RowTypes
  <2>3. pick' \in [Procs -> Models \cup {NoModel}]
    <3>1. \A m \in Room(wants[aim[d]]) : [pick EXCEPT ![d] = m] \in [Procs -> Models \cup {NoModel}]
      BY <1>0, <2>2 DEF Room
    <3>2. pick' = pick \/ \E m \in Room(wants[aim[d]]) : pick' = [pick EXCEPT ![d] = m]
      BY <1>9 DEF DrainCounts
    <3> QED
      BY <1>0, <3>1, <3>2
  <2>4. /\ step' \in [Procs -> {"idle", "count", "write", "force", "next"}]
        /\ aim' \in [Procs -> Nat] /\ modelLock' \in Procs \cup {Nobody}
        /\ rowLock' \in [Sessions -> Drains \cup {Nobody}]
    BY <1>0, <1>9 DEF DrainCounts
  <2> QED
    BY <1>0, <1>3, <1>9, <2>3, <2>4 DEF DrainCounts
<1>10. ASSUME NEW d \in Drains, DrainAdmits(d)
       PROVE  RowTypes' /\ ProcessTypes' /\ UNCHANGED incidents
  <2>1. aim[d] \in Exists /\ aim[d] \in Sessions
    BY <1>0, <1>10, AdmissionAssumption
    DEF IInv, Rows, DrainAdmits, Queued, Exists, STypeOK, Sessions
  <2>2. on' \in [Sessions -> Models \cup {NoModel}]
    BY <1>0, <1>10 DEF DrainAdmits, RowTypes
  <2>3. status' = [s \in Sessions |-> IF s \in {aim[d]} THEN "active" ELSE status[s]]
    BY <1>0, <1>10 DEF DrainAdmits, RowTypes
  <2>4. RowTypes'
    <3>1. {aim[d]} \in SUBSET Exists /\ "active" \in {"queued", "active", "ended"}
      BY <2>1
    <3>2. created' = created /\ wants' = wants /\ incident' = incident /\ extra' = extra
      BY <1>10 DEF DrainAdmits
    <3> QED
      BY <1>0, <2>2, <2>3, <3>1, <3>2, RowWritten
  <2> QED
    BY <1>0, <1>10, <2>4 DEF DrainAdmits
<1>11. ASSUME NEW d \in Drains, NEW s \in Sessions,
              DrainDrops(d, s) \/ DrainPasses(d, s) \/ DrainTakes(d, s)
       PROVE  RowTypes' /\ ProcessTypes' /\ UNCHANGED incidents
  <2>1. CASE DrainDrops(d, s)
    <3>1. status' = [t \in Sessions |-> IF t \in {s} THEN "ended" ELSE status[t]]
      BY <1>0, <2>1 DEF DrainDrops, RowTypes
    <3>2. RowTypes'
      <4>1. {s} \in SUBSET Exists /\ "ended" \in {"queued", "active", "ended"}
        BY <2>1 DEF DrainDrops, Queued
      <4>2. created' = created /\ wants' = wants /\ incident' = incident /\ extra' = extra
              /\ on' \in [Sessions -> Models \cup {NoModel}]
        BY <1>0, <2>1 DEF DrainDrops, RowTypes
      <4> QED
        BY <1>0, <3>1, <4>1, <4>2, RowWritten
    <3> QED
      BY <1>0, <2>1, <3>2 DEF DrainDrops
  <2>2. CASE DrainPasses(d, s)
    BY <1>0, <1>3, <2>2 DEF DrainPasses
  <2>3. CASE DrainTakes(d, s)
    BY <1>0, <1>2, <1>3, <2>3 DEF DrainTakes
  <2> QED
    BY <1>11, <2>1, <2>2, <2>3
<1>12. ASSUME NEW G, Cancelled(G), G \subseteq Queued,
              UNCHANGED <<created, incident, wants, on, extra, processes, modelLock, rowLock>>
       PROVE  RowTypes' /\ ProcessTypes'
  <2>1. G \in SUBSET Exists
    BY <1>12 DEF Queued
  <2>2. RowTypes'
    BY <1>0, <1>12, <2>1, RowWritten DEF Cancelled, RowTypes
  <2> QED
    BY <1>0, <1>12, <2>2 DEF processes
<1>13. ASSUME NEW i \in Incidents, AcknowledgeLooks(i) \/ Acknowledge(i) \/ Close(i)
       PROVE  /\ RowTypes' /\ ProcessTypes'
              /\ acked' \subseteq Incidents /\ closed' \subseteq Incidents
              /\ acking' \subseteq Incidents /\ found' \subseteq Exists /\ overtaken' \subseteq Exists
  <2>0. Waiting(i) \subseteq Queued /\ Queued \subseteq Exists
    BY DEF Waiting, Queued
  <2>1. CASE AcknowledgeLooks(i)
    BY <1>0, <1>3, <2>0, <2>1 DEF AcknowledgeLooks, STypeOK, processes
  <2>2. CASE Acknowledge(i)
    <3>1. PICK G \in SUBSET Waiting(i) : Cancelled(G)
      BY <2>2 DEF Acknowledge
    <3>2. RowTypes' /\ ProcessTypes'
      BY <1>12, <2>0, <2>2, <3>1 DEF Acknowledge
    <3> QED
      BY <1>0, <2>0, <2>2, <3>2 DEF Acknowledge, STypeOK
  <2>3. CASE Close(i)
    BY <1>0, <1>3, <2>3 DEF Close, STypeOK, processes
  <2> QED
    BY <1>13, <2>1, <2>2, <2>3
<1>14. ASSUME CancelQueued
       PROVE  RowTypes' /\ ProcessTypes' /\ UNCHANGED incidents
  <2>1. PICK G : G \subseteq Queued /\ Cancelled(G)
    BY <1>14 DEF CancelQueued
  <2> QED
    BY <1>12, <1>14, <2>1 DEF CancelQueued
<1>15. ASSUME NEW s \in Sessions,
              End(s) \/ Returns(s) \/ Elapse(s) \/ \E m \in Models : SwitchModel(s, m)
       PROVE  RowTypes' /\ ProcessTypes' /\ UNCHANGED incidents
  <2>1. CASE End(s)
    <3>1. status' = [t \in Sessions |-> IF t \in {s} THEN "ended" ELSE status[t]]
      BY <1>0, <2>1 DEF End, RowTypes
    <3>2. RowTypes'
      <4>1. {s} \in SUBSET Exists /\ "ended" \in {"queued", "active", "ended"}
        BY <2>1 DEF End, Running
      <4>2. created' = created /\ wants' = wants /\ incident' = incident /\ extra' = extra
              /\ on' \in [Sessions -> Models \cup {NoModel}]
        BY <1>0, <2>1 DEF End, RowTypes
      <4> QED
        BY <1>0, <3>1, <4>1, <4>2, RowWritten
    <3> QED
      BY <1>0, <2>1, <3>2 DEF End, processes
  <2>2. CASE Elapse(s)
    BY <1>0, <2>2 DEF Elapse, RowTypes, processes, Exists
  <2>3. CASE Returns(s)
    <3>1. s \in Exists /\ Exists' = Exists
      BY <1>0, <1>2, <2>3, AdmissionAssumption DEF Returns, RowTypes, Exists, Sessions
    <3>2. \A t \in Sessions : status'[t] = "none" <=> t > created
      BY <1>0, <2>3 DEF Returns, RowTypes
    <3> QED
      BY <1>0, <2>3, <3>1, <3>2 DEF Returns, RowTypes, processes
  <2>4. ASSUME NEW m \in Models, SwitchModel(s, m) PROVE RowTypes' /\ ProcessTypes'
    BY <1>0, <2>4 DEF SwitchModel, RowTypes, processes, Exists, Running
  <2>5. UNCHANGED incidents
    BY <1>15 DEF End, Returns, Elapse, SwitchModel
  <2> QED
    BY <1>15, <2>1, <2>2, <2>3, <2>4, <2>5
<1>16. ASSUME UNCHANGED vars
       PROVE  RowTypes' /\ ProcessTypes' /\ UNCHANGED incidents
  BY <1>0, <1>3, <1>16 DEF vars, processes
<1> DEFINE IncidentTypes ==
             /\ acked' \subseteq Incidents /\ closed' \subseteq Incidents
             /\ acking' \subseteq Incidents /\ found' \subseteq Exists /\ overtaken' \subseteq Exists
<1>17. UNCHANGED incidents => IncidentTypes
  BY <1>0 DEF STypeOK, incidents
<1> HIDE DEF ProcessTypes, IncidentTypes
<1>18. RowTypes' /\ ProcessTypes' /\ IncidentTypes
  <2>1. ASSUME NEW i \in Incidents, AcknowledgeLooks(i) \/ Acknowledge(i) \/ Close(i)
        PROVE  RowTypes' /\ ProcessTypes' /\ IncidentTypes
    BY <1>13, <2>1 DEF IncidentTypes
  <2> QED
    BY <1>4, <1>5, <1>6, <1>7, <1>8, <1>9, <1>10, <1>11, <1>14, <1>15, <1>16, <1>17, <2>1,
       AdmissionAssumption DEF Next, Finish, Drain
<1>19. Exists \subseteq Exists'
  BY <1>0, <1>18, NoneIsLost, AdmissionAssumption DEF IInv, RowTypes, Exists
<1> QED
  BY <1>18, <1>19 DEF STypeOK, RowTypes, ProcessTypes, IncidentTypes

-----------------------------------------------------------------------------
(* The model rows and the free slot.                                       *)

\* The steps that neither choose a model nor use one.
Apart ==
    \/ \E c \in Clients : ForceQueued(c) \/ \E i \in Incidents, W \in Wants,
                                              force \in BOOLEAN : Ask(c, i, W, force)
    \/ \E d \in Drains :
         \/ DrainLists(d) \/ DrainEnds(d)
         \/ \E s \in Sessions : DrainDrops(d, s) \/ DrainPasses(d, s) \/ DrainTakes(d, s)
    \/ \E i \in Incidents : AcknowledgeLooks(i) \/ Acknowledge(i) \/ Close(i)
    \/ CancelQueued
    \/ \E s \in Sessions : End(s) \/ Returns(s) \/ Elapse(s)
    \/ \E s \in Sessions, m \in Models : SwitchModel(s, m)
    \/ UNCHANGED vars

\* The others choose one, or write under the lock.
LEMMA StepsAre ==
    ASSUME [Next]_vars
    PROVE  \/ Apart
           \/ \E c \in Clients : Count(c) \/ Write(c)
           \/ \E d \in Drains : DrainCounts(d) \/ DrainAdmits(d)
BY DEF Next, Apart, Finish, Drain

\* A step apart takes no model lock, starts no write, and fills no counted slot.
LEMMA ApartShrinks ==
    ASSUME IInv, Apart
    PROVE  /\ modelLock' = modelLock
           /\ \A p \in Procs : step'[p] = "write" => step[p] = "write" /\ pick'[p] = pick[p]
           /\ \A m : Regular(m)' \subseteq Regular(m)
<1> DEFINE Goal == /\ modelLock' = modelLock
                   /\ \A p \in Procs :
                        step'[p] = "write" => step[p] = "write" /\ pick'[p] = pick[p]
                   /\ \A m : Regular(m)' \subseteq Regular(m)
<1>0. STypeOK /\ Clients \subseteq Procs /\ Drains \subseteq Procs
  BY DEF IInv, Procs
<1>00. step \in [Procs -> {"idle", "count", "write", "force", "next"}]
  BY <1>0 DEF STypeOK
<1>1. ASSUME UNCHANGED <<created, status, on, extra>> PROVE \A m : Regular(m)' \subseteq Regular(m)
  BY <1>1 DEF Regular, Running, Exists
<1>2. ASSUME NEW c \in Clients, ForceQueued(c) PROVE Goal
  <2>1. aim[c] \in Exists /\ aim[c] \in Sessions
    BY <1>0, <1>2, AdmissionAssumption DEF IInv, Forcing, ForceQueued, Exists, STypeOK, Sessions
  <2>2. /\ aim[c] \in extra' /\ extra \subseteq extra' /\ Exists' = Exists
        /\ \A s \in Sessions : s # aim[c] => status'[s] = status[s] /\ on'[s] = on[s]
    BY <1>0, <1>2, <2>1 DEF ForceQueued, STypeOK, Exists
  <2>3. Exists \subseteq Sessions
    BY <1>0, AdmissionAssumption DEF Exists, STypeOK, Sessions
  <2>4. \A m : Regular(m)' \subseteq Regular(m)
    BY <2>2, <2>3 DEF Regular, Running
  <2> QED
    BY <1>0, <1>00, <1>2, <2>4 DEF ForceQueued
<1>3. ASSUME NEW c \in Clients, NEW i, NEW W, NEW force, Ask(c, i, W, force) PROVE Goal
  BY <1>0, <1>00, <1>1, <1>3 DEF Ask, sessions
<1>4. ASSUME NEW d \in Drains, DrainLists(d) \/ DrainEnds(d) PROVE Goal
  BY <1>0, <1>00, <1>1, <1>4 DEF DrainLists, DrainEnds, sessions
<1>5. ASSUME NEW G, Cancelled(G), G \subseteq Queued,
             UNCHANGED <<created, on, extra, modelLock, step, pick>>
      PROVE  Goal
  <2>1. Exists \subseteq Sessions
    BY <1>0, AdmissionAssumption DEF Exists, STypeOK, Sessions
  <2>2. \A m : Regular(m)' \subseteq Regular(m)
    BY <1>5, <2>1 DEF Regular, Running, Exists, Cancelled
  <2> QED
    BY <1>5, <2>2
<1>6. ASSUME NEW s \in Sessions, status' = [status EXCEPT ![s] = "ended"],
             UNCHANGED <<created, on, extra>>
      PROVE  \A m : Regular(m)' \subseteq Regular(m)
  <2>1. Exists \subseteq Sessions
    BY <1>0, AdmissionAssumption DEF Exists, STypeOK, Sessions
  <2>2. \A t \in Sessions : status'[t] = "active" => status[t] = "active"
    BY <1>0, <1>6 DEF STypeOK
  <2> QED
    BY <1>6, <2>1, <2>2 DEF Regular, Running, Exists
<1>7. ASSUME NEW d \in Drains, NEW s \in Sessions,
             DrainDrops(d, s) \/ DrainPasses(d, s) \/ DrainTakes(d, s)
      PROVE  Goal
  <2>1. \A m : Regular(m)' \subseteq Regular(m)
    BY <1>1, <1>6, <1>7 DEF DrainDrops, DrainPasses, DrainTakes, sessions
  <2> QED
    BY <1>0, <1>00, <1>7, <2>1 DEF DrainDrops, DrainPasses, DrainTakes
<1>8. ASSUME NEW i \in Incidents, AcknowledgeLooks(i) \/ Acknowledge(i) \/ Close(i) PROVE Goal
  <2>1. CASE Acknowledge(i)
    <3>1. PICK G \in SUBSET Waiting(i) : Cancelled(G)
      BY <2>1 DEF Acknowledge
    <3> QED
      BY <1>5, <2>1, <3>1 DEF Acknowledge, Waiting, processes
  <2>2. CASE AcknowledgeLooks(i) \/ Close(i)
    BY <1>1, <2>2 DEF AcknowledgeLooks, Close, processes, sessions
  <2> QED
    BY <1>8, <2>1, <2>2
<1>9. ASSUME CancelQueued PROVE Goal
  <2>1. PICK G : G \subseteq Queued /\ Cancelled(G)
    BY <1>9 DEF CancelQueued
  <2> QED
    BY <1>5, <1>9, <2>1 DEF CancelQueued, processes
<1>10. ASSUME NEW s \in Sessions, End(s) \/ Elapse(s) PROVE Goal
  <2>1. \A m : Regular(m)' \subseteq Regular(m)
    BY <1>1, <1>6, <1>10 DEF End, Elapse
  <2> QED
    BY <1>10, <2>1 DEF End, Elapse, processes
\* What returns or is switched is in no count.
<1>13. ASSUME NEW s \in Sessions, Returns(s) \/ \E m \in Models : SwitchModel(s, m) PROVE Goal
  <2>1. Exists \subseteq Sessions
    BY <1>0, AdmissionAssumption DEF Exists, STypeOK, Sessions
  <2>2. /\ s \in extra' /\ extra \subseteq extra' /\ Exists' = Exists
        /\ \A t \in Sessions : t # s => status'[t] = status[t] /\ on'[t] = on[t]
    BY <1>0, <1>13 DEF Returns, SwitchModel, STypeOK, Exists
  <2>3. \A m : Regular(m)' \subseteq Regular(m)
    BY <2>1, <2>2 DEF Regular, Running
  <2> QED
    BY <1>13, <2>3 DEF Returns, SwitchModel, processes
<1>11. ASSUME UNCHANGED vars PROVE Goal
  BY <1>1, <1>11 DEF vars, processes, sessions
<1> HIDE DEF Goal
<1>12. Goal
  BY <1>2, <1>3, <1>4, <1>7, <1>8, <1>9, <1>10, <1>11, <1>13 DEF Apart
<1> QED
  BY <1>12 DEF Goal

\* Whoever writes holds the model rows, and the slot it chose stays free.
LEMMA SlotStaysFree ==
    ASSUME IInv, [Next]_vars
    PROVE  Locked' /\ Roomy'
<1>0. STypeOK /\ Locked /\ Roomy /\ Clients \subseteq Procs /\ Drains \subseteq Procs
        /\ Nobody \notin Procs
  BY AdmissionAssumption DEF IInv, Procs
<1>00. /\ step \in [Procs -> {"idle", "count", "write", "force", "next"}]
       /\ pick \in [Procs -> Models \cup {NoModel}]
  BY <1>0 DEF STypeOK
<1>1. CASE Apart
  <2>1. Locked'
    BY <1>0, <1>1, ApartShrinks DEF Locked
  <2>2. ASSUME NEW p \in Procs, NEW m, step'[p] = "write", pick'[p] = m, m # NoModel
        PROVE  m \in Models /\ Cardinality(Regular(m)') < Cap
    <3>1. pick[p] = m /\ m \in Models /\ Cardinality(Regular(m)) < Cap
      BY <1>0, <1>1, <2>2, ApartShrinks DEF Roomy
    <3>2. IsFiniteSet(Regular(m)) /\ Cardinality(Regular(m)) \in Nat
      BY <1>0, RegularIsFinite
    <3>3. Regular(m)' \subseteq Regular(m)
      BY <1>1, ApartShrinks
    <3>4. IsFiniteSet(Regular(m)') /\ Cardinality(Regular(m)') <= Cardinality(Regular(m))
      BY <3>2, <3>3, CountsMove
    <3>5. Cardinality(Regular(m)') \in Nat /\ Cap \in Nat
      BY <3>4, FS_CardinalityType, AdmissionAssumption
    <3> QED
      BY <3>1, <3>2, <3>4, <3>5
  <2> QED
    BY <2>1, <2>2 DEF Roomy, Regular, Running, Exists
\* The lock was free, so nobody else writes.
<1>2. ASSUME NEW p \in Procs, modelLock = Nobody, modelLock' = p, UNCHANGED sessions,
             \A q \in Procs \ {p} : step'[q] = step[q],
             pick'[p] # NoModel => \E W \in SUBSET Models : pick'[p] \in Room(W)
      PROVE  Locked' /\ Roomy'
  <2>1. \A q \in Procs : step'[q] = "write" => q = p
    BY <1>0, <1>2 DEF Locked
  <2>2. \A m : Regular(m)' = Regular(m)
    BY <1>2 DEF Regular, Running, Exists, sessions
  <2>3. pick'[p] # NoModel => pick'[p] \in Models /\ Cardinality(Regular(pick'[p])) < Cap
    BY <1>0, <1>2, RoomIsRegular
  <2> QED
    BY <1>2, <2>1, <2>2, <2>3 DEF Locked, Roomy
<1>3. ASSUME NEW c \in Clients, Count(c) PROVE Locked' /\ Roomy'
  <2>1. request[c].wants \in SUBSET Models
    BY <1>0 DEF STypeOK
  <2>2. pick'[c] # NoModel => \E W \in SUBSET Models : pick'[c] \in Room(W)
    BY <1>0, <1>00, <1>3, <2>1 DEF Count
  <2> QED
    BY <1>0, <1>00, <1>2, <1>3, <2>2 DEF Count
\* Writing gives the lock back.
<1>4. ASSUME NEW p \in Procs, step[p] = "write", step'[p] # "write",
             \A q \in Procs \ {p} : step'[q] = step[q]
      PROVE  Locked' /\ Roomy'
  BY <1>0, <1>4 DEF Locked, Roomy
<1>5. ASSUME NEW c \in Clients, Write(c) PROVE Locked' /\ Roomy'
  BY <1>0, <1>00, <1>4, <1>5 DEF Write
<1>6. ASSUME NEW d \in Drains, DrainCounts(d) PROVE Locked' /\ Roomy'
  <2>1. aim[d] \in Sessions
    BY <1>0, <1>6, AdmissionAssumption DEF IInv, Rows, DrainCounts, Queued, Exists, STypeOK, Sessions
  <2>2. wants[aim[d]] \in SUBSET Models
    BY <1>0, <2>1 DEF STypeOK
  <2>3. CASE modelLock' = d
    <3>1. \E m \in Room(wants[aim[d]]) : pick' = [pick EXCEPT ![d] = m]
      BY <1>0, <1>6, <2>3 DEF DrainCounts
    <3>2. \E W \in SUBSET Models : pick'[d] \in Room(W)
      BY <1>0, <1>00, <2>2, <3>1
    <3> QED
      BY <1>0, <1>00, <1>2, <1>6, <2>3, <3>2 DEF DrainCounts
  <2>4. CASE modelLock' # d
    <3>1. /\ modelLock' = modelLock /\ pick' = pick /\ step' = [step EXCEPT ![d] = "next"]
          /\ UNCHANGED sessions /\ modelLock = Nobody
      BY <1>6, <2>4 DEF DrainCounts
    <3>2. \A q \in Procs : step'[q] # "write"
      BY <1>0, <1>00, <3>1 DEF Locked
    <3> QED
      BY <3>2 DEF Locked, Roomy
  <2> QED
    BY <2>3, <2>4
<1>7. ASSUME NEW d \in Drains, DrainAdmits(d) PROVE Locked' /\ Roomy'
  BY <1>0, <1>00, <1>4, <1>7 DEF DrainAdmits
<1> QED
  BY <1>1, <1>3, <1>5, <1>6, <1>7, StepsAre

-----------------------------------------------------------------------------
(* The session a drain works on, and what is forced.                       *)

\* Where sessions, clients and drains are.
LEMMA Places ==
    ASSUME STypeOK
    PROVE  /\ Clients \subseteq Procs /\ Drains \subseteq Procs /\ Nobody \notin Procs
           /\ Clients \cap Drains = {}
           /\ Exists \subseteq Sessions /\ Queued \subseteq Sessions /\ Running \subseteq Sessions
           /\ created \in Nat /\ NoModel \notin Models
BY AdmissionAssumption DEF STypeOK, Exists, Queued, Running, Sessions, Procs

\* No step loses a session.
LEMMA CreatedStays ==
    ASSUME IInv, [Next]_vars
    PROVE  Exists \subseteq Exists' /\ incident' \in [Sessions -> Incidents \cup {NoIncident}]
<1>0. STypeOK /\ STypeOK' /\ created \in Nat /\ created' \in Nat
  BY TypesStay, AdmissionAssumption DEF IInv, STypeOK
<1>1. created' = created \/ created' = created + 1
  BY <1>0, NoneIsLost
<1> QED
  BY <1>0, <1>1 DEF Exists, STypeOK

\* What Rows says of one drain.
Held(d) ==
    step[d] \in {"count", "write"} =>
        /\ aim[d] \in Queued /\ rowLock[aim[d]] = d
        /\ incident[aim[d]] \in acked => aim[d] \in overtaken
        /\ step[d] = "write" => pick[d] # NoModel

\* The session a drain works on stays queued, locked and unclaimed.
LEMMA RowsStay ==
    ASSUME IInv, [Next]_vars
    PROVE  Rows'
<1>0. /\ STypeOK /\ Rows /\ Clients \subseteq Procs /\ Drains \subseteq Procs
      /\ Nobody \notin Drains /\ Clients \cap Drains = {} /\ Exists \subseteq Sessions
      /\ created \in Nat /\ NoModel \notin Models
  BY Places DEF IInv, Procs
<1>00. /\ step \in [Procs -> {"idle", "count", "write", "force", "next"}]
       /\ pick \in [Procs -> Models \cup {NoModel}] /\ aim \in [Procs -> Nat]
       /\ status \in [Sessions -> {"none", "queued", "active", "ended"}]
       /\ incident \in [Sessions -> Incidents \cup {NoIncident}]
       /\ rowLock \in [Sessions -> Drains \cup {Nobody}]
  BY <1>0 DEF STypeOK
<1> SUFFICES ASSUME NEW d \in Drains PROVE Held(d)'
  BY DEF Rows, Held
<1>1. Held(d) /\ (step[d] \in {"count", "write"} => aim[d] \in Sessions /\ status[aim[d]] = "queued")
  BY <1>0 DEF Rows, Held, Queued
\* It does nothing itself, and its session's row is left alone.
<1>2. ASSUME step'[d] = step[d], aim'[d] = aim[d], pick'[d] = pick[d],
             step[d] \in {"count", "write"} =>
               /\ aim[d] \in Queued' /\ rowLock'[aim[d]] = d
               /\ (incident'[aim[d]] \in acked' => aim[d] \in overtaken')
      PROVE  Held(d)'
  BY <1>1, <1>2 DEF Held, Queued
<1>3. ASSUME step'[d] \notin {"count", "write"} PROVE Held(d)'
  BY <1>3 DEF Held
<1>4. ASSUME UNCHANGED <<created, status, incident, rowLock, acked, overtaken>>
      PROVE  step[d] \in {"count", "write"} =>
               /\ aim[d] \in Queued' /\ rowLock'[aim[d]] = d
               /\ (incident'[aim[d]] \in acked' => aim[d] \in overtaken')
  BY <1>1, <1>4 DEF Held, Queued, Exists
<1>5. ASSUME NEW c \in Clients, NEW i, NEW W, NEW force, Ask(c, i, W, force) PROVE Held(d)'
  <2>1. step'[d] = step[d] /\ aim'[d] = aim[d] /\ pick'[d] = pick[d]
    BY <1>0, <1>00, <1>5 DEF Ask
  <2> QED
    BY <1>2, <1>4, <1>5, <2>1 DEF Ask, sessions, incidents
<1>6. ASSUME NEW c \in Clients, Count(c) PROVE Held(d)'
  <2>1. step'[d] = step[d] /\ aim'[d] = aim[d] /\ pick'[d] = pick[d]
    BY <1>0, <1>00, <1>6 DEF Count
  <2> QED
    BY <1>2, <1>4, <1>6, <2>1 DEF Count, sessions, incidents
<1>7. ASSUME NEW c \in Clients, Write(c) PROVE Held(d)'
  <2>1. step'[d] = step[d] /\ aim'[d] = aim[d] /\ pick'[d] = pick[d]
    BY <1>0, <1>00, <1>7 DEF Write
  <2>2. ASSUME NEW st \in {"queued", "active"}, NEW m \in Models \cup {NoModel}, NEW f \in BOOLEAN,
               Insert(c, st, m, f), step[d] \in {"count", "write"}
        PROVE  aim[d] \in Queued' /\ incident'[aim[d]] = incident[aim[d]]
    <3>1. PICK s \in Sessions :
             /\ s \notin Exists /\ Exists' = Exists \cup {s}
             /\ status' = [status EXCEPT ![s] = st]
             /\ incident' = [incident EXCEPT ![s] = request[c].incident]
      BY <1>0, <2>2, InsertIsNew
    <3>2. aim[d] \in Exists /\ aim[d] # s /\ aim[d] \in Sessions
      BY <1>1, <2>2, <3>1 DEF Held, Queued
    <3> QED
      BY <1>00, <1>1, <2>2, <3>1, <3>2 DEF Queued
  <2>3. request[c].wants \subseteq Models /\ pick[c] \in Models \cup {NoModel}
    BY <1>0, <1>00 DEF STypeOK
  <2>4. ASSUME step[d] \in {"count", "write"}
        PROVE  aim[d] \in Queued' /\ incident'[aim[d]] = incident[aim[d]]
    <3>1. CASE UNCHANGED sessions
      BY <1>1, <2>4, <3>1 DEF Held, Queued, Exists, sessions
    <3>2. CASE ~ UNCHANGED sessions
      BY <1>7, <2>2, <2>3, <2>4, <3>2 DEF Write
    <3> QED
      BY <3>1, <3>2
  <2> QED
    BY <1>1, <1>2, <1>7, <2>1, <2>4 DEF Write, Held, incidents
<1>8. ASSUME NEW c \in Clients, ForceQueued(c) PROVE Held(d)'
  <2>1. step'[d] = step[d] /\ aim'[d] = aim[d] /\ pick'[d] = pick[d]
    BY <1>0, <1>00, <1>8 DEF ForceQueued
  <2>2. ASSUME step[d] \in {"count", "write"} PROVE aim[d] # aim[c]
    BY <1>0, <1>1, <1>8, <2>2 DEF Held, ForceQueued, incidents
  <2>3. step[d] \in {"count", "write"} => aim[d] \in Queued'
    BY <1>00, <1>1, <1>8, <2>2 DEF Held, ForceQueued, Queued, Exists, incidents
  <2> QED
    BY <1>1, <1>2, <1>8, <2>1, <2>3 DEF ForceQueued, Held, incidents
<1>9. ASSUME NEW e \in Drains, DrainLists(e) \/ DrainEnds(e) PROVE Held(d)'
  <2>1. CASE d = e
    BY <1>0, <1>00, <1>3, <1>9, <2>1 DEF DrainLists, DrainEnds
  <2>2. CASE d # e
    <3>1. step'[d] = step[d] /\ aim'[d] = aim[d] /\ pick'[d] = pick[d]
      BY <1>0, <1>00, <1>9, <2>2 DEF DrainLists, DrainEnds
    <3>2. UNCHANGED <<created, status, incident, rowLock, acked, overtaken>>
      BY <1>9 DEF DrainLists, DrainEnds, sessions, incidents
    <3> QED
      BY <1>2, <1>4, <3>1, <3>2
  <2> QED
    BY <2>1, <2>2
<1>10. ASSUME NEW e \in Drains, NEW s \in Sessions, DrainDrops(e, s) PROVE Held(d)'
  <2>1. step'[d] = step[d] /\ aim'[d] = aim[d] /\ pick'[d] = pick[d]
    BY <1>10 DEF DrainDrops
  <2>2. step[d] \in {"count", "write"} => aim[d] # s
    BY <1>0, <1>1, <1>10 DEF Held, DrainDrops, Turn, incidents
  <2>3. step[d] \in {"count", "write"} => aim[d] \in Queued'
    BY <1>00, <1>1, <1>10, <2>2 DEF Held, DrainDrops, Queued, Exists, incidents
  <2> QED
    BY <1>1, <1>2, <1>10, <2>1, <2>3 DEF DrainDrops, Held, incidents
<1>11. ASSUME NEW e \in Drains, NEW s \in Sessions, DrainPasses(e, s) PROVE Held(d)'
  BY <1>2, <1>4, <1>11 DEF DrainPasses, sessions, incidents
<1>12. ASSUME NEW e \in Drains, NEW s \in Sessions, DrainTakes(e, s) PROVE Held(d)'
  <2>1. CASE d = e
    <3>1. step'[d] = "count" /\ aim'[d] = s /\ rowLock'[s] = d
      BY <1>0, <1>00, <1>12, <2>1 DEF DrainTakes
    <3>2. s \in Queued' /\ incident'[s] \notin acked'
      BY <1>12 DEF DrainTakes, Drops, Queued, Exists, sessions, incidents
    <3> QED
      BY <3>1, <3>2 DEF Held, Queued
  <2>2. CASE d # e
    <3>1. step'[d] = step[d] /\ aim'[d] = aim[d] /\ pick'[d] = pick[d]
      BY <1>0, <1>00, <1>12, <2>2 DEF DrainTakes
    <3>2. step[d] \in {"count", "write"} => aim[d] # s
      BY <1>0, <1>1, <1>12 DEF Held, DrainTakes, Turn, incidents
    <3>3. step[d] \in {"count", "write"} =>
            /\ aim[d] \in Queued' /\ rowLock'[aim[d]] = d
            /\ (incident'[aim[d]] \in acked' => aim[d] \in overtaken')
      BY <1>00, <1>1, <1>12, <3>2 DEF Held, DrainTakes, Queued, Exists, sessions, incidents
    <3> QED
      BY <1>2, <3>1, <3>3
  <2> QED
    BY <2>1, <2>2
<1>13. ASSUME NEW e \in Drains, DrainCounts(e) PROVE Held(d)'
  <2>1. UNCHANGED <<created, status, incident, acked, overtaken>>
    BY <1>13 DEF DrainCounts, sessions, incidents
  <2>2. CASE d = e
    <3>1. CASE step'[d] \notin {"count", "write"}
      BY <1>3, <3>1
    <3>2. CASE step'[d] \in {"count", "write"}
      <4>1. /\ step[d] = "count" /\ UNCHANGED <<rowLock, aim>>
            /\ \E m \in Room(wants[aim[d]]) : pick' = [pick EXCEPT ![d] = m]
        BY <1>0, <1>00, <1>13, <2>2, <3>2 DEF DrainCounts
      <4>2. aim[d] \in Sessions /\ wants[aim[d]] \subseteq Models
        BY <1>0, <1>1, <4>1 DEF STypeOK
      <4>3. pick'[d] # NoModel
        BY <1>0, <1>00, <4>1, <4>2 DEF Room
      <4> QED
        BY <1>1, <2>1, <4>1, <4>3 DEF Held, Queued, Exists
    <3> QED
      BY <3>1, <3>2
  <2>3. CASE d # e
    <3>1. step'[d] = step[d] /\ aim'[d] = aim[d] /\ pick'[d] = pick[d]
      BY <1>0, <1>00, <1>13, <2>3 DEF DrainCounts
    <3>2. rowLock[aim[e]] = e /\ aim[e] \in Sessions
      BY <1>0, <1>13 DEF DrainCounts, Rows, Queued
    <3>3. step[d] \in {"count", "write"} => rowLock'[aim[d]] = d
      BY <1>00, <1>1, <1>13, <2>3, <3>2 DEF DrainCounts, Held, incidents
    <3>4. step[d] \in {"count", "write"} => 
            /\ aim[d] \in Queued'
            /\ (incident'[aim[d]] \in acked' => aim[d] \in overtaken')
      BY <1>1, <2>1 DEF Held, Queued, Exists
    <3> QED
      BY <1>2, <3>1, <3>3, <3>4
  <2> QED
    BY <2>2, <2>3
<1>14. ASSUME NEW e \in Drains, DrainAdmits(e) PROVE Held(d)'
  <2>1. CASE d = e
    BY <1>0, <1>00, <1>3, <1>14, <2>1 DEF DrainAdmits
  <2>2. CASE d # e
    <3>1. step'[d] = step[d] /\ aim'[d] = aim[d] /\ pick'[d] = pick[d]
      BY <1>0, <1>00, <1>14, <2>2 DEF DrainAdmits
    <3>2. rowLock[aim[e]] = e /\ aim[e] \in Sessions
      BY <1>0, <1>14 DEF DrainAdmits, Rows, Queued
    <3>3. step[d] \in {"count", "write"} => rowLock'[aim[d]] = d /\ aim[d] # aim[e]
      BY <1>00, <1>1, <1>14, <2>2, <3>2 DEF DrainAdmits, Held, incidents
    <3>4. step[d] \in {"count", "write"} => 
            /\ aim[d] \in Queued'
            /\ (incident'[aim[d]] \in acked' => aim[d] \in overtaken')
      BY <1>00, <1>1, <1>14, <3>3 DEF DrainAdmits, Held, Queued, Exists, incidents
    <3> QED
      BY <1>2, <3>1, <3>3, <3>4
  <2> QED
    BY <2>1, <2>2
\* Cancelling waits for the row of what a drain works on.
<1>15. ASSUME NEW G, Cancelled(G), UNCHANGED <<created, rowLock>>, step[d] \in {"count", "write"}
       PROVE  aim[d] \notin G /\ aim[d] \in Queued'
  <2>1. aim[d] \notin G
    BY <1>0, <1>1, <1>15 DEF Cancelled, Held
  <2> QED
    BY <1>1, <1>15, <2>1 DEF Cancelled, Held, Queued, Exists
<1>16. ASSUME NEW i \in Incidents, Acknowledge(i) PROVE Held(d)'
  <2>1. PICK G \in SUBSET Waiting(i) : Waiting(i) \cap found \subseteq G /\ Cancelled(G)
    BY <1>16 DEF Acknowledge
  <2>2. ASSUME step[d] \in {"count", "write"}
        PROVE  aim[d] \in Queued' /\ (incident'[aim[d]] \in acked' => aim[d] \in overtaken')
    <3>1. aim[d] \notin G /\ aim[d] \in Queued'
      BY <1>15, <1>16, <2>1, <2>2 DEF Acknowledge
    <3>2. aim[d] \in Queued /\ rowLock[aim[d]] # Nobody
            /\ (incident[aim[d]] \in acked => aim[d] \in overtaken)
      BY <1>0, <1>1, <2>2 DEF Held
    <3>3. incident[aim[d]] = i => aim[d] \in overtaken'
      BY <1>16, <2>1, <3>1, <3>2 DEF Acknowledge, Waiting
    <3> QED
      BY <1>16, <3>1, <3>2, <3>3 DEF Acknowledge
  <2> QED
    BY <1>1, <1>2, <1>16, <2>2 DEF Acknowledge, Held, processes
<1>22. ASSUME NEW i \in Incidents, AcknowledgeLooks(i) PROVE Held(d)'
  BY <1>2, <1>4, <1>22 DEF AcknowledgeLooks, sessions, processes
<1>17. ASSUME NEW i \in Incidents, Close(i) PROVE Held(d)'
  BY <1>2, <1>4, <1>17 DEF Close, sessions, processes
<1>18. ASSUME CancelQueued PROVE Held(d)'
  <2>1. PICK G : Cancelled(G)
    BY <1>18 DEF CancelQueued
  <2>2. step[d] \in {"count", "write"} => aim[d] \in Queued'
    BY <1>15, <1>18, <2>1 DEF CancelQueued
  <2> QED
    BY <1>1, <1>2, <1>18, <2>2 DEF CancelQueued, Held, processes, incidents
<1>19. ASSUME NEW s \in Sessions, End(s) PROVE Held(d)'
  <2>1. step[d] \in {"count", "write"} => aim[d] # s /\ aim[d] \in Queued'
    BY <1>00, <1>1, <1>19 DEF End, Running, Held, Queued, Exists, incidents
  <2> QED
    BY <1>1, <1>2, <1>19, <2>1 DEF End, Held, processes, incidents
<1>20. ASSUME NEW s \in Sessions, Elapse(s) PROVE Held(d)'
  BY <1>2, <1>4, <1>20 DEF Elapse, processes, incidents
<1>23. ASSUME NEW s \in Sessions, Returns(s) \/ \E m \in Models : SwitchModel(s, m) PROVE Held(d)'
  <2>1. step[d] \in {"count", "write"} => aim[d] \in Queued'
    BY <1>00, <1>1, <1>23 DEF Returns, SwitchModel, Held, Queued, Exists, incidents
  <2> QED
    BY <1>1, <1>2, <1>23, <2>1 DEF Returns, SwitchModel, Held, processes, incidents
<1>21. ASSUME UNCHANGED vars PROVE Held(d)'
  BY <1>2, <1>4, <1>21 DEF vars, sessions, processes, incidents
<1> QED
  BY <1>5, <1>6, <1>7, <1>8, <1>9, <1>10, <1>11, <1>12, <1>13, <1>14, <1>16, <1>17, <1>18, <1>19,
     <1>20, <1>21, <1>22, <1>23, AdmissionAssumption DEF Next, Finish, Drain

\* A client forces this session.
Aimed(s) == \E c \in Clients : step[c] = "force" /\ aim[c] = s

\* How a session's row may change: it is inserted, ends, is forced, comes back
\* from a model, or is taken from the queue by a drain; what took a slot
\* uncounted is never queued again.
LEMMA RowsMove ==
    ASSUME IInv, [Next]_vars, NEW s \in Sessions
    PROVE  /\ \/ status'[s] = status[s]
              \/ status'[s] = "ended"
              \/ s \in extra' /\ status'[s] = "active" /\ (Aimed(s) \/ on[s] # NoModel)
              \/ status[s] = "none" /\ s \notin Exists
              \/ /\ status[s] = "queued" /\ status'[s] = "active"
                 /\ incident[s] \in acked => s \in overtaken
           /\ \/ s \in extra' <=> s \in extra
              \/ s \in extra' /\ status'[s] = "active"
           /\ status'[s] = "queued" => status[s] = "queued" \/ s \notin extra'
<1> DEFINE Goal == /\ \/ status'[s] = status[s]
                      \/ status'[s] = "ended"
                      \/ s \in extra' /\ status'[s] = "active" /\ (Aimed(s) \/ on[s] # NoModel)
                      \/ status[s] = "none" /\ s \notin Exists
                      \/ /\ status[s] = "queued" /\ status'[s] = "active"
                         /\ incident[s] \in acked => s \in overtaken
                   /\ \/ s \in extra' <=> s \in extra
                      \/ s \in extra' /\ status'[s] = "active"
                   /\ status'[s] = "queued" => status[s] = "queued" \/ s \notin extra'
<1>0. /\ STypeOK /\ Rows /\ Forcing /\ Exists \subseteq Sessions
      /\ status \in [Sessions -> {"none", "queued", "active", "ended"}]
  BY Places DEF IInv, STypeOK
<1>1. ASSUME UNCHANGED <<status, extra>> PROVE Goal
  BY <1>1
<1>2. ASSUME NEW c \in Clients, Write(c) PROVE Goal
  <2>1. ASSUME NEW st \in {"queued", "active"}, NEW m \in Models \cup {NoModel}, NEW f \in BOOLEAN,
               Insert(c, st, m, f), f => st = "active"
        PROVE  Goal
    <3>1. PICK t \in Sessions :
             /\ t \notin Exists /\ status[t] = "none" /\ t \notin extra
             /\ status' = [status EXCEPT ![t] = st]
             /\ extra' = IF f THEN extra \cup {t} ELSE extra
      BY <1>0, <2>1, InsertIsNew
    <3> QED
      BY <1>0, <2>1, <3>1
  <2>2. request[c].wants \subseteq Models /\ pick[c] \in Models \cup {NoModel}
    BY <1>0 DEF STypeOK, Procs
  <2>3. CASE UNCHANGED sessions
    BY <1>1, <2>3 DEF sessions
  <2>4. CASE ~ UNCHANGED sessions
    <3> HIDE DEF Goal
    <3> QED
      BY <1>2, <2>1, <2>2, <2>4 DEF Write
  <2> QED
    BY <2>3, <2>4
<1>3. ASSUME NEW c \in Clients, ForceQueued(c) PROVE Goal
  <2>1. aim[c] \in Sessions
    BY <1>0, <1>3 DEF Forcing, ForceQueued
  <2> QED
    BY <1>0, <1>3, <2>1 DEF ForceQueued, Aimed
<1>4. ASSUME NEW d \in Drains, DrainAdmits(d) PROVE Goal
  <2>1. /\ aim[d] \in Sessions /\ status[aim[d]] = "queued"
        /\ incident[aim[d]] \in acked => aim[d] \in overtaken
    BY <1>0, <1>4 DEF Rows, DrainAdmits, Queued
  <2> QED
    BY <1>0, <1>4, <2>1 DEF DrainAdmits
<1>5. ASSUME NEW t \in Sessions, status' = [status EXCEPT ![t] = "ended"], UNCHANGED extra
      PROVE  Goal
  BY <1>0, <1>5
<1>6. ASSUME NEW G, Cancelled(G), UNCHANGED extra PROVE Goal
  BY <1>0, <1>6 DEF Cancelled
<1>7. ASSUME CancelQueued \/ \E i \in Incidents : Acknowledge(i) PROVE Goal
  <2>1. PICK G : Cancelled(G) /\ UNCHANGED extra
    BY <1>7 DEF CancelQueued, Acknowledge
  <2> QED
    BY <1>6, <2>1
<1>8. ASSUME \/ \E d \in Drains, t \in Sessions : DrainDrops(d, t)
             \/ \E t \in Sessions : End(t)
      PROVE  Goal
  BY <1>5, <1>8 DEF DrainDrops, End
<1>11. ASSUME NEW t \in Sessions, Returns(t) PROVE Goal
  BY <1>0, <1>11 DEF Returns
<1>12. ASSUME NEW t \in Sessions, NEW m \in Models, SwitchModel(t, m) PROVE Goal
  BY <1>0, <1>12 DEF SwitchModel, Running
<1>9. ASSUME \/ \E c \in Clients, i \in Incidents, W \in Wants, force \in BOOLEAN :
                  Ask(c, i, W, force)
             \/ \E c \in Clients : Count(c)
             \/ \E d \in Drains : DrainLists(d) \/ DrainEnds(d) \/ DrainCounts(d)
             \/ \E d \in Drains, t \in Sessions : DrainPasses(d, t) \/ DrainTakes(d, t)
             \/ \E i \in Incidents : AcknowledgeLooks(i) \/ Close(i)
             \/ \E t \in Sessions : Elapse(t)
             \/ UNCHANGED vars
      PROVE  Goal
  BY <1>1, <1>9 DEF Ask, Count, DrainLists, DrainEnds, DrainCounts, DrainPasses, DrainTakes, Close,
     AcknowledgeLooks, Elapse, vars, sessions
<1> HIDE DEF Goal
<1>10. Goal
  BY <1>2, <1>3, <1>4, <1>7, <1>8, <1>9, <1>11, <1>12 DEF Next, Finish, Drain
<1> QED
  BY <1>10 DEF Goal

\* What a client forces was created, and what took a slot uncounted waits no more.
LEMMA ForcingStays ==
    ASSUME IInv, [Next]_vars
    PROVE  Forcing'
<1>0. /\ STypeOK /\ STypeOK' /\ Forcing /\ Exists \subseteq Exists' /\ Exists' \subseteq Sessions
      /\ Clients \subseteq Procs /\ Drains \subseteq Procs /\ Clients \cap Drains = {}
  <2>1. STypeOK /\ STypeOK' /\ Forcing
    BY TypesStay DEF IInv
  <2>2. created' \in 0 .. MaxSessions /\ MaxSessions \in Nat
    BY <2>1, AdmissionAssumption DEF STypeOK
  <2>3. Exists' \subseteq Sessions
    BY <2>2 DEF Exists, Sessions
  <2> QED
    BY <2>1, <2>3, Places, CreatedStays
<1>00. /\ step \in [Procs -> {"idle", "count", "write", "force", "next"}]
       /\ aim \in [Procs -> Nat] /\ extra \subseteq Exists
  BY <1>0 DEF STypeOK
<1>1. extra' \cap Queued' = {}
  <2>1. ASSUME NEW s \in extra', status'[s] = "queued" PROVE FALSE
    <3>1. s \in Sessions
      BY <1>0, <2>1 DEF STypeOK
    <3>2. status[s] = "queued" /\ s \in extra
      BY <2>1, <3>1, RowsMove
    <3> QED
      BY <1>0, <1>00, <3>2 DEF Forcing, Queued
  <2> QED
    BY <2>1 DEF Queued
<1>2. ASSUME NEW c \in Clients, step'[c] = "force"
      PROVE  (step[c] = "force" /\ aim'[c] = aim[c]) \/ aim'[c] \in Exists
  <2>1. ASSUME NEW i \in Incidents, NEW W, NEW force, Ask(c, i, W, force)
        PROVE  aim'[c] \in Exists
    BY <1>0, <1>00, <1>2, <2>1 DEF Ask, Nonterminal, Queued
  <2>2. CASE \/ Finish(c) \/ (\E b \in Clients \ {c} : Finish(b))
             \/ \E b \in Clients \ {c}, i \in Incidents, W \in Wants, force \in BOOLEAN :
                  Ask(b, i, W, force)
    BY <1>0, <1>00, <1>2, <2>2 DEF Finish, Ask, Count, Write, ForceQueued
  <2>3. CASE \E d \in Drains : Drain(d)
    BY <1>0, <1>00, <1>2, <2>3 DEF Drain, DrainLists, DrainEnds, DrainCounts, DrainAdmits,
       DrainDrops, DrainPasses, DrainTakes
  <2>4. CASE \/ \E i \in Incidents : AcknowledgeLooks(i) \/ Acknowledge(i) \/ Close(i)
             \/ CancelQueued
             \/ \E s \in Sessions : End(s) \/ Returns(s) \/ Elapse(s)
             \/ \E s \in Sessions, m \in Models : SwitchModel(s, m)
             \/ UNCHANGED vars
    BY <1>2, <2>4 DEF AcknowledgeLooks, Acknowledge, Close, CancelQueued, End, Returns, Elapse,
       SwitchModel, vars, processes
  <2> QED
    BY <2>1, <2>2, <2>3, <2>4 DEF Next
<1>3. \A c \in Clients : step'[c] = "force" => aim'[c] \in Exists'
  BY <1>0, <1>2 DEF Forcing
<1> QED
  BY <1>1, <1>3 DEF Forcing

-----------------------------------------------------------------------------
(* The slots.                                                              *)

\* ModelSlots counts as this module does.
LEMMA SameCount == \A X : S!Cardinality(X) = Cardinality(X)
BY DEF S!Cardinality, Cardinality

\* One session's row moves, and that is a move of ModelSlots.
LEMMA OneMoves ==
    ASSUME STypeOK, STypeOK', NEW s \in Sessions,
           \A t \in Sessions \ {s} : /\ t \in Running' <=> t \in Running
                                     /\ on'[t] = on[t] /\ (t \in extra' <=> t \in extra)
    PROVE  /\ s \notin Running' => S!Free(s)
           /\ \A m \in Models : s \in Running' /\ on'[s] = m /\ s \in extra' => S!Put(s, m)
           /\ \A m \in Models :
                s \in Running' /\ on'[s] = m /\ s \notin extra' /\ s \notin Running
                  /\ Cardinality(Regular(m)) < Cap => S!Take(s, m)
<1>0. Running \subseteq Sessions /\ Running' \subseteq Sessions
  BY AdmissionAssumption DEF STypeOK, Running, Exists, Sessions
<1>1. \A m \in Models : Regular(m)' \ {s} = Regular(m) \ {s}
  BY <1>0 DEF Regular
<1>2. \A m \in Models : (Occupancy(m) \cap extra)' \ {s} = (Occupancy(m) \cap extra) \ {s}
  BY <1>0 DEF Occupancy
<1>3. ASSUME s \notin Running' PROVE S!Free(s)
  <2>1. \A m \in Models : s \notin Regular(m)' /\ s \notin (Occupancy(m) \cap extra)'
    BY <1>3 DEF Regular, Occupancy
  <2>2. \A m \in Models : /\ Regular(m)' = Regular(m) \ {s}
                          /\ (Occupancy(m) \cap extra)' = (Occupancy(m) \cap extra) \ {s}
    BY <1>1, <1>2, <2>1
  <2> QED
    BY <2>2 DEF S!Free, S!Without
<1>4. ASSUME NEW m \in Models, s \in Running', on'[s] = m, s \in extra' PROVE S!Put(s, m)
  <2>1. \A n \in Models : s \notin Regular(n)'
    BY <1>4 DEF Regular
  <2>2. \A n \in Models : Regular(n)' = Regular(n) \ {s}
    BY <1>1, <2>1
  <2>3. \A n \in Models : s \in (Occupancy(n) \cap extra)' <=> n = m
    BY <1>4 DEF Occupancy
  <2>4. \A n \in Models : (Occupancy(n) \cap extra)' =
          IF n = m THEN ((Occupancy(n) \cap extra) \ {s}) \cup {s}
                   ELSE (Occupancy(n) \cap extra) \ {s}
    BY <1>2, <2>3
  <2> QED
    BY <2>2, <2>4 DEF S!Put, S!Without, S!With
<1>5. ASSUME NEW m \in Models, s \in Running', on'[s] = m, s \notin extra', s \notin Running,
             Cardinality(Regular(m)) < Cap
      PROVE  S!Take(s, m)
  <2>1. \A n \in Models : s \notin Regular(n) /\ s \notin Occupancy(n) \cap extra
    BY <1>5 DEF Regular, Occupancy
  <2>2. \A n \in Models : s \notin (Occupancy(n) \cap extra)'
    BY <1>5 DEF Occupancy
  <2>3. \A n \in Models : (Occupancy(n) \cap extra)' = Occupancy(n) \cap extra
    BY <1>2, <2>1, <2>2
  <2>4. \A n \in Models : s \in Regular(n)' <=> n = m
    BY <1>5 DEF Regular
  <2>5. \A n \in Models : Regular(n)' = IF n = m THEN Regular(n) \cup {s} ELSE Regular(n)
    <3>1. \A A, B : A \ {s} = B \ {s} /\ s \notin B =>
                      A = IF s \in A THEN B \cup {s} ELSE B
      OBVIOUS
    <3>2. ASSUME NEW n \in Models
          PROVE  Regular(n)' = IF s \in Regular(n)' THEN Regular(n) \cup {s} ELSE Regular(n)
      BY <1>1, <2>1, <3>1
    <3> QED
      BY <2>4, <3>2
  <2> QED
    <3>1. \A n \in Models : s \notin [k \in Models |-> Regular(k)][n]
                                      \cup [k \in Models |-> Occupancy(k) \cap extra][n]
      BY <2>1
    <3>2. S!Cardinality([k \in Models |-> Regular(k)][m]) < Cap
      BY <1>5, SameCount
    <3>3. [k \in Models |-> Regular(k)]' = S!With(s, m, [k \in Models |-> Regular(k)])
      BY <2>5 DEF S!With
    <3>4. UNCHANGED [k \in Models |-> Occupancy(k) \cap extra]
      BY <2>3
    <3> QED
      BY <3>1, <3>2, <3>3, <3>4 DEF S!Take
<1> QED
  BY <1>3, <1>4, <1>5

\* A step that runs and ends no session leaves the slots as they are.
LEMMA NoneMoves ==
    ASSUME STypeOK, STypeOK', Running' = Running, on' = on, extra' = extra
    PROVE  UNCHANGED S!slots
<1>1. \A m \in Models : /\ Regular(m)' = Regular(m)
                        /\ (Occupancy(m) \cap extra)' = Occupancy(m) \cap extra
  BY DEF Regular, Occupancy
<1> QED
  BY <1>1 DEF S!slots

\* Every step is one of ModelSlots, or none.
LEMMA StepsAreSlots ==
    ASSUME IInv, [Next]_vars
    PROVE  [S!Next]_(S!slots)
<1> DEFINE Goal == S!Next \/ UNCHANGED S!slots
<1>0. /\ STypeOK /\ STypeOK' /\ Rows /\ Forcing /\ Roomy
      /\ Clients \subseteq Procs /\ Drains \subseteq Procs
      /\ Exists \subseteq Sessions /\ Running \subseteq Exists /\ Running' \subseteq Exists'
      /\ Exists' \subseteq Sessions
  BY TypesStay, AdmissionAssumption DEF IInv, STypeOK, Procs, Exists, Running, Sessions
<1>00. /\ status \in [Sessions -> {"none", "queued", "active", "ended"}]
       /\ on \in [Sessions -> Models \cup {NoModel}]
       /\ pick \in [Procs -> Models \cup {NoModel}]
  BY <1>0 DEF STypeOK
<1>1. ASSUME UNCHANGED <<created, status, on, extra>> PROVE Goal
  <2>1. Running' = Running
    BY <1>1 DEF Running, Exists
  <2> QED
    BY <1>0, <1>1, <2>1, NoneMoves
<1>2. ASSUME NEW s \in Sessions,
             \/ S!Free(s)
             \/ \E m \in Models : S!Put(s, m) \/ S!Take(s, m)
      PROVE  Goal
  BY <1>2 DEF S!Next
<1>3. ASSUME NEW c \in Clients, NEW st \in {"queued", "active"}, NEW m \in Models \cup {NoModel},
             NEW f \in BOOLEAN, Insert(c, st, m, f),
             \/ st = "queued"
             \/ m \in Models /\ (f \/ Cardinality(Regular(m)) < Cap)
      PROVE  Goal
  <2>1. PICK s \in Sessions :
             /\ s \notin Exists /\ status[s] = "none" /\ s \notin extra
             /\ Exists' = Exists \cup {s}
             /\ status' = [status EXCEPT ![s] = st] /\ on' = [on EXCEPT ![s] = m]
             /\ extra' = IF f THEN extra \cup {s} ELSE extra
    BY <1>0, <1>3, InsertIsNew
  <2>2. \A t \in Sessions \ {s} : /\ t \in Running' <=> t \in Running
                                  /\ on'[t] = on[t] /\ (t \in extra' <=> t \in extra)
    BY <1>00, <2>1 DEF Running
  <2>3. s \notin Running /\ on'[s] = m /\ (s \in extra' <=> f) /\ (s \in Running' <=> st = "active")
    BY <1>00, <2>1 DEF Running
  <2>4. S!Free(s) \/ \E n \in Models : S!Put(s, n) \/ S!Take(s, n)
    BY <1>0, <1>3, <2>2, <2>3, OneMoves
  <2> QED
    BY <1>2, <2>4
<1>4. ASSUME NEW c \in Clients, Write(c) PROVE Goal
  <2>1. request[c].wants \subseteq Models /\ pick[c] \in Models \cup {NoModel}
    BY <1>0, <1>00 DEF STypeOK
  <2>2. pick[c] # NoModel => pick[c] \in Models /\ Cardinality(Regular(pick[c])) < Cap
    BY <1>0, <1>4 DEF Write, Roomy
  <2> HIDE DEF Goal
  <2>3. ASSUME UNCHANGED sessions PROVE Goal
    BY <1>1, <2>3 DEF sessions
  <2> QED
    BY <1>3, <1>4, <2>1, <2>2, <2>3 DEF Write
<1>5. ASSUME NEW c \in Clients, ForceQueued(c) PROVE Goal
  <2>1. aim[c] \in Exists /\ aim[c] \in Sessions
    BY <1>0, <1>5 DEF Forcing, ForceQueued
  <2>2. PICK m \in Models : on' = [on EXCEPT ![aim[c]] = m]
    BY <1>5 DEF ForceQueued
  <2>3. \A t \in Sessions \ {aim[c]} : /\ t \in Running' <=> t \in Running
                                       /\ on'[t] = on[t] /\ (t \in extra' <=> t \in extra)
    BY <1>00, <1>5, <2>1, <2>2 DEF ForceQueued, Running, Exists
  <2>4. aim[c] \in Running' /\ on'[aim[c]] = m /\ aim[c] \in extra'
    BY <1>00, <1>5, <2>1, <2>2 DEF ForceQueued, Running, Exists
  <2>5. S!Put(aim[c], m)
    BY <1>0, <2>1, <2>3, <2>4, OneMoves
  <2> QED
    BY <1>2, <2>1, <2>5
<1>6. ASSUME NEW d \in Drains, DrainAdmits(d) PROVE Goal
  <2>1. /\ aim[d] \in Exists /\ aim[d] \in Sessions /\ status[aim[d]] = "queued"
        /\ aim[d] \notin extra /\ pick[d] # NoModel
    BY <1>0, <1>6 DEF Rows, Forcing, DrainAdmits, Queued
  <2>2. pick[d] \in Models /\ Cardinality(Regular(pick[d])) < Cap
    BY <1>0, <1>6, <2>1 DEF Roomy, DrainAdmits
  <2>3. \A t \in Sessions \ {aim[d]} : /\ t \in Running' <=> t \in Running
                                       /\ on'[t] = on[t] /\ (t \in extra' <=> t \in extra)
    BY <1>00, <1>6, <2>1 DEF DrainAdmits, Running, Exists
  <2>4. /\ aim[d] \in Running' /\ on'[aim[d]] = pick[d] /\ aim[d] \notin extra'
        /\ aim[d] \notin Running
    BY <1>00, <1>6, <2>1 DEF DrainAdmits, Running, Exists
  <2>5. S!Take(aim[d], pick[d])
    BY <1>0, <2>1, <2>2, <2>3, <2>4, OneMoves
  <2> QED
    BY <1>2, <2>1, <2>2, <2>5
\* What ends frees its slot, if it had one.
<1>7. ASSUME NEW s \in Sessions, status' = [status EXCEPT ![s] = "ended"],
             UNCHANGED <<created, on, extra>>
      PROVE  Goal
  <2>1. /\ s \notin Running'
        /\ \A t \in Sessions \ {s} : /\ t \in Running' <=> t \in Running
                                     /\ on'[t] = on[t] /\ (t \in extra' <=> t \in extra)
    BY <1>00, <1>7 DEF Running, Exists
  <2>2. S!Free(s)
    BY <1>0, <2>1, OneMoves
  <2> QED
    BY <1>2, <2>2
<1>8. ASSUME \/ \E d \in Drains, t \in Sessions : DrainDrops(d, t)
             \/ \E t \in Sessions : End(t)
      PROVE  Goal
  <2> HIDE DEF Goal
  <2> QED
    BY <1>7, <1>8 DEF DrainDrops, End
<1>9. ASSUME NEW G, Cancelled(G), G \subseteq Queued, UNCHANGED <<created, on, extra>>
      PROVE  Goal
  <2>1. \A t \in Sessions : status'[t] = "active" <=> status[t] = "active"
    BY <1>00, <1>9 DEF Cancelled, Queued
  <2>2. Running' = Running
    BY <1>0, <1>9, <2>1 DEF Running, Exists
  <2> QED
    BY <1>0, <1>9, <2>2, NoneMoves
<1>10. ASSUME NEW i \in Incidents, Acknowledge(i) PROVE Goal
  <2>1. PICK G \in SUBSET Waiting(i) : Cancelled(G)
    BY <1>10 DEF Acknowledge
  <2> HIDE DEF Goal
  <2> QED
    BY <1>9, <1>10, <2>1 DEF Acknowledge, Waiting
\* What comes back, or is switched, is put on its model.
<1>14. ASSUME NEW s \in Sessions, Returns(s) \/ \E m \in Models : SwitchModel(s, m) PROVE Goal
  <2>1. /\ s \in Exists /\ s \in extra'
        /\ \A t \in Sessions \ {s} : /\ t \in Running' <=> t \in Running
                                     /\ on'[t] = on[t] /\ (t \in extra' <=> t \in extra)
    BY <1>0, <1>00, <1>14, AdmissionAssumption
    DEF Returns, SwitchModel, Running, Exists, STypeOK, Sessions
  <2>2. s \in Running' /\ on'[s] \in Models
    BY <1>0, <1>00, <1>14, <2>1 DEF Returns, SwitchModel, Running, Exists
  <2>3. S!Put(s, on'[s])
    BY <1>0, <2>1, <2>2, OneMoves
  <2> QED
    BY <1>2, <2>2, <2>3
<1>11. ASSUME CancelQueued PROVE Goal
  <2>1. PICK G : G \subseteq Queued /\ Cancelled(G)
    BY <1>11 DEF CancelQueued
  <2> HIDE DEF Goal
  <2> QED
    BY <1>9, <1>11, <2>1 DEF CancelQueued
<1>12. ASSUME \/ \E c \in Clients, i \in Incidents, W \in Wants, force \in BOOLEAN :
                   Ask(c, i, W, force)
              \/ \E c \in Clients : Count(c)
              \/ \E d \in Drains : DrainLists(d) \/ DrainEnds(d) \/ DrainCounts(d)
              \/ \E d \in Drains, t \in Sessions : DrainPasses(d, t) \/ DrainTakes(d, t)
              \/ \E i \in Incidents : AcknowledgeLooks(i) \/ Close(i)
              \/ \E t \in Sessions : Elapse(t)
              \/ UNCHANGED vars
       PROVE  Goal
  <2>1. UNCHANGED <<created, status, on, extra>>
    BY <1>12 DEF Ask, Count, DrainLists, DrainEnds, DrainCounts, DrainPasses, DrainTakes, Close,
       AcknowledgeLooks, Elapse, vars, sessions
  <2> HIDE DEF Goal
  <2> QED
    BY <1>1, <2>1
<1> HIDE DEF Goal
<1>13. Goal
  BY <1>4, <1>5, <1>6, <1>8, <1>10, <1>11, <1>12, <1>14 DEF Next, Finish, Drain
<1> QED
  BY <1>13 DEF Goal

\* A step of ModelSlots fills no model over its limit.
LEMMA CapStays ==
    ASSUME IInv, [Next]_vars
    PROVE  WithinCap'
<1>0. STypeOK /\ WithinCap /\ Cap \in Nat /\ [S!Next]_(S!slots)
  BY StepsAreSlots, AdmissionAssumption DEF IInv
<1> SUFFICES ASSUME NEW m \in Models PROVE Cardinality(Regular(m)') <= Cap
  BY DEF WithinCap
<1>1. IsFiniteSet(Regular(m)) /\ Cardinality(Regular(m)) \in Nat
        /\ Cardinality(Regular(m)) <= Cap
  BY <1>0, RegularIsFinite DEF WithinCap
<1>2. \/ Regular(m)' \subseteq Regular(m)
      \/ Cardinality(Regular(m)) < Cap /\ \E s : Regular(m)' \subseteq Regular(m) \cup {s}
  <2> DEFINE R == [n \in Models |-> Regular(n)]
  <2>1. R' = [n \in Models |-> Regular(n)']
    OBVIOUS
  <2>2. CASE UNCHANGED S!slots
    BY <2>2 DEF S!slots
  <2>3. ASSUME NEW s \in Sessions, S!Free(s) \/ \E n \in Models : S!Put(s, n)
        PROVE  Regular(m)' \subseteq Regular(m)
    <3>1. R' = [n \in Models |-> R[n] \ {s}]
      BY <2>3 DEF S!Free, S!Put, S!Without
    <3>2. R'[m] = Regular(m) \ {s}
      BY <3>1
    <3> QED
      BY <2>1, <3>2
  <2>4. ASSUME NEW s \in Sessions, NEW n \in Models, S!Take(s, n)
        PROVE  \/ Regular(m)' \subseteq Regular(m)
               \/ Cardinality(Regular(m)) < Cap /\ Regular(m)' \subseteq Regular(m) \cup {s}
    <3>1. R' = [R EXCEPT ![n] = @ \cup {s}] /\ Cardinality(R[n]) < Cap
      BY <2>4, SameCount DEF S!Take, S!With
    <3>2. R'[m] = IF m = n THEN Regular(m) \cup {s} ELSE Regular(m)
      BY <3>1
    <3> QED
      BY <2>1, <3>1, <3>2
  <2> QED
    BY <1>0, <2>2, <2>3, <2>4 DEF S!Next
<1>3. Cardinality(Regular(m)') \in Nat \/ ~ IsFiniteSet(Regular(m)')
  BY FS_CardinalityType
<1>4. CASE Regular(m)' \subseteq Regular(m)
  BY <1>0, <1>1, <1>3, <1>4, CountsMove
<1>5. CASE Cardinality(Regular(m)) < Cap /\ \E s : Regular(m)' \subseteq Regular(m) \cup {s}
  BY <1>0, <1>1, <1>3, <1>5, CountsMove
<1> QED
  BY <1>2, <1>4, <1>5

-----------------------------------------------------------------------------
(* The theorems.                                                           *)

\* The invariant holds in every reachable state.
LEMMA Holds == Spec => []IInv
<1>1. IInv /\ [Next]_vars => IInv'
  BY TypesStay, SlotStaysFree, RowsStay, ForcingStays, CapStays DEF IInv
<1> QED
  BY StartsEmpty, <1>1, PTL DEF Spec

\* However many admissions, drains, forced starts, returns and switches overlap,
\* on whatever set of models, no model carries more of the sessions that took a
\* counted slot than its limit.
THEOREM LimitIsKept == Spec => []WithinCap
<1>1. IInv => WithinCap
  BY DEF IInv
<1> QED
  BY Holds, <1>1, PTL

\* A session that ended while it waited runs only if an operator forces it who
\* saw it waiting: no drain starts it.
THEOREM EndedInQueueStays == Spec => EndsInQueue
<1>1. ASSUME IInv, [Next]_vars, NEW s \in Sessions,
             status[s] = "ended", on[s] = NoModel, status'[s] # "ended"
      PROVE  \E c \in Clients : step[c] = "force" /\ aim[c] = s
  BY <1>1, RowsMove DEF Aimed
<1>2. IInv /\ [Next]_vars =>
        [\A s \in Sessions :
           status[s] = "ended" /\ on[s] = NoModel /\ status'[s] # "ended"
             => \E c \in Clients : step[c] = "force" /\ aim[c] = s]_vars
  BY <1>1
<1> QED
  BY Holds, <1>2, PTL DEF Spec, EndsInQueue

\* Once an acknowledgement has committed nothing starts from the queue for its
\* incident, unless it is forced or a drain held it then that the acknowledgement
\* had not found.
THEOREM AcknowledgedStaysIdle == Spec => StartsUnacknowledged
<1>1. ASSUME IInv, [Next]_vars, NEW s \in Exists \ overtaken,
             status[s] # "active", status'[s] = "active", s \notin extra'
      PROVE  incident[s] \notin acked
  <2>1. s \in Sessions
    BY <1>1, Places DEF IInv
  <2> QED
    BY <1>1, <2>1, RowsMove
<1>2. IInv /\ [Next]_vars =>
        [\A s \in Exists \ overtaken :
           status[s] # "active" /\ status'[s] = "active" /\ s \notin extra'
             => incident[s] \notin acked]_vars
  BY <1>1
<1> QED
  BY Holds, <1>2, PTL DEF Spec, StartsUnacknowledged

\* Admission, drains, forced starts, returns and switches together allocate slots
\* as ModelSlots does.
THEOREM AllocatesSlots == Spec => ImplementsModelSlots
<1>1. Init => [m \in Models |-> Regular(m)] = S!Empty
              /\ [m \in Models |-> Occupancy(m) \cap extra] = S!Empty
  BY AdmissionAssumption DEF Init, S!Empty, Regular, Occupancy, Running, Exists
<1>2. IInv /\ [Next]_vars => [S!Next]_(S!slots)
  BY StepsAreSlots
<1> QED
  BY Holds, <1>1, <1>2, PTL DEF Spec, ImplementsModelSlots, S!Spec

=============================================================================
