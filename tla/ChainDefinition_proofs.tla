------------------------ MODULE ChainDefinition_proofs ------------------------
(***************************************************************************)
(* ChainDefinition for any chains, levels, people, indexes and rounds: the *)
(* cursor of a run under edits, and the pages it records.                  *)
(***************************************************************************)
EXTENDS ChainDefinition, FiniteSetTheorems, TLAPS

-----------------------------------------------------------------------------
(* Renumbering.                                                            *)

\* The number an index gets when those of L are renumbered from 0.
Rank(L, i) == Cardinality({j \in L : j < i})

\* Numbers are in the order of the indexes, and none is above its index.
LEMMA Ranks ==
    ASSUME NEW L \in SUBSET Nat, IsFiniteSet(L)
    PROVE  /\ Cardinality(L) \in Nat
           /\ \A i \in L : Rank(L, i) \in 0 .. (Cardinality(L) - 1)
           /\ \A i, j \in L : i < j => Rank(L, i) < Rank(L, j)
           /\ \A i \in L : Rank(L, i) <= i
           /\ \A i \in L, g \in Nat \ L : g < i => Rank(L, i) <= i - 1
<1> DEFINE B(i) == {j \in L : j < i}
<1>0. \A i \in L : i \in Nat
  OBVIOUS
<1>1. Cardinality(L) \in Nat
  BY FS_CardinalityType
<1>2. ASSUME NEW i \in L PROVE IsFiniteSet(B(i)) /\ Cardinality(B(i)) \in Nat
  <2>1. IsFiniteSet(B(i))
    BY FS_Subset
  <2> QED
    BY <2>1, FS_CardinalityType
<1>3. ASSUME NEW i \in L PROVE Cardinality(B(i)) \in 0 .. (Cardinality(L) - 1)
  <2>1. B(i) \in SUBSET L /\ B(i) # L
    OBVIOUS
  <2>2. Cardinality(B(i)) <= Cardinality(L) /\ Cardinality(B(i)) # Cardinality(L)
    BY <2>1, FS_Subset
  <2> HIDE DEF B
  <2> QED
    BY <1>1, <1>2, <2>2
<1>4. ASSUME NEW i \in L, NEW j \in L, i < j PROVE Cardinality(B(i)) < Cardinality(B(j))
  <2>1. B(i) \in SUBSET B(j) /\ B(i) # B(j)
    <3>1. \A k \in B(i) : k \in B(j)
      BY <1>0, <1>4
    <3>2. i \in B(j) /\ i \notin B(i)
      BY <1>0, <1>4
    <3> HIDE DEF B
    <3> QED
      BY <3>1, <3>2
  <2>2. /\ Cardinality(B(i)) <= Cardinality(B(j))
        /\ Cardinality(B(i)) # Cardinality(B(j))
    BY <1>2, <2>1, FS_Subset
  <2> HIDE DEF B
  <2> QED
    BY <1>2, <2>2
<1>5. ASSUME NEW i \in L PROVE IsFiniteSet(0 .. (i - 1)) /\ Cardinality(0 .. (i - 1)) = i
  <2>1. i \in Nat /\ 0 \in Int /\ i - 1 \in Int
    OBVIOUS
  <2>2. /\ IsFiniteSet(0 .. (i - 1))
        /\ Cardinality(0 .. (i - 1)) = IF 0 > i - 1 THEN 0 ELSE (i - 1) - 0 + 1
    BY <2>1, FS_Interval
  <2> QED
    BY <2>1, <2>2
<1>6. ASSUME NEW i \in L PROVE Cardinality(B(i)) <= i
  <2>1. B(i) \in SUBSET (0 .. (i - 1))
    <3>1. \A k \in B(i) : k \in 0 .. (i - 1)
      BY <1>0
    <3> HIDE DEF B
    <3> QED
      BY <3>1
  <2> HIDE DEF B
  <2> QED
    BY <1>5, <2>1, FS_Subset
<1>7. ASSUME NEW i \in L, NEW g \in Nat \ L, g < i PROVE Cardinality(B(i)) <= i - 1
  <2> DEFINE D == 0 .. (i - 1)
  <2>1. B(i) \in SUBSET (D \ {g}) /\ g \in D
    <3>1. \A k \in B(i) : k \in D /\ k # g
      BY <1>0, <1>7
    <3>2. g \in D
      BY <1>0, <1>7
    <3> HIDE DEF B, D
    <3> QED
      BY <3>1, <3>2
  <2>2. IsFiniteSet(D \ {g}) /\ Cardinality(D \ {g}) = i - 1
    <3>1. IsFiniteSet(D) /\ Cardinality(D) = i
      BY <1>5
    <3> HIDE DEF D
    <3> QED
      BY <2>1, <3>1, FS_RemoveElement
  <2> HIDE DEF D
  <2> HIDE DEF B
  <2> QED
    BY <2>1, <2>2, FS_Subset
<1> QED
  BY <1>1, <1>3, <1>4, <1>6, <1>7 DEF Rank

\* Every number up to the last is given.
LEMMA RanksAll ==
    ASSUME NEW L \in SUBSET Nat, IsFiniteSet(L)
    PROVE  \A k \in 0 .. (Cardinality(L) - 1) : \E i \in L : Rank(L, i) = k
<1> DEFINE n == Cardinality(L)
           f == [i \in L |-> Rank(L, i)]
<1>1. n \in Nat
  BY FS_CardinalityType
<1>2. IsFiniteSet(0 .. (n - 1)) /\ Cardinality(0 .. (n - 1)) = n
  <2>1. /\ IsFiniteSet(0 .. (n - 1))
        /\ Cardinality(0 .. (n - 1)) = IF 0 > n - 1 THEN 0 ELSE (n - 1) - 0 + 1
    <3> HIDE DEF n
    <3>1. 0 \in Int /\ n - 1 \in Int
      BY <1>1
    <3> QED
      BY <3>1, FS_Interval
  <2> QED
    BY <1>1, <2>1
<1>3. f \in [L -> 0 .. (n - 1)]
  BY Ranks
<1>4. ASSUME NEW i \in L, NEW j \in L, f[i] = f[j] PROVE i = j
  <2>1. i \in Nat /\ j \in Nat /\ Rank(L, i) = Rank(L, j) /\ Rank(L, i) \in Int
    BY <1>3, <1>4
  <2>2. ~(i < j) /\ ~(j < i)
    BY <2>1, Ranks
  <2> QED
    BY <2>1, <2>2
<1> HIDE DEF f, n
<1>5. f \in Injection(L, 0 .. (n - 1))
  BY <1>3, <1>4 DEF Injection, IsInjective
<1>6. f \in Surjection(L, 0 .. (n - 1))
  BY <1>2, <1>5, FS_Injection DEF n
<1>7. \A k \in 0 .. (n - 1) : \E i \in L : f[i] = k
  BY <1>6 DEF Surjection
<1> QED
  BY <1>7 DEF f, n

\* Compacting a definition renumbers what is left of it.
LEMMA Compacts ==
    ASSUME NEW f, NEW g, DOMAIN f \in SUBSET Nat, IsFiniteSet(DOMAIN f)
    PROVE  LET left == DOMAIN f \ {g}
           IN  /\ IsFiniteSet(left) /\ Cardinality(left) \in Nat
               /\ \E at \in [0 .. (Cardinality(left) - 1) -> left] :
                    /\ Compact(f, g) = [k \in 0 .. (Cardinality(left) - 1) |-> f[at[k]]]
                    /\ \A k \in 0 .. (Cardinality(left) - 1) : Rank(left, at[k]) = k
                    /\ \A i \in left : at[Rank(left, i)] = i
<1> DEFINE left == DOMAIN f \ {g}
           N == 0 .. (Cardinality(left) - 1)
           A(k) == CHOOSE i \in left : Rank(left, i) = k
           at == [k \in N |-> A(k)]
<1>1. left \in SUBSET Nat /\ IsFiniteSet(left)
  BY FS_Subset
<1>2. Cardinality(left) \in Nat
  BY <1>1, FS_CardinalityType
<1>3. ASSUME NEW k \in N PROVE A(k) \in left /\ Rank(left, A(k)) = k
  BY <1>1, RanksAll
<1>4. Compact(f, g) = [k \in N |-> f[A(k)]]
  BY DEF Compact, Rank
<1> HIDE DEF left, A
<1>5. at \in [N -> left] /\ \A k \in N : at[k] = A(k)
  BY <1>3
<1>6. Compact(f, g) = [k \in N |-> f[at[k]]]
  BY <1>4, <1>5
<1>7. ASSUME NEW i \in left PROVE at[Rank(left, i)] = i
  <2>1. Rank(left, i) \in N
    BY <1>1, Ranks
  <2> DEFINE j == at[Rank(left, i)]
  <2>2. j \in left /\ Rank(left, j) = Rank(left, i)
    BY <1>3, <1>5, <2>1
  <2> HIDE DEF j, at
  <2>3. ~(i < j) /\ ~(j < i)
    BY <1>1, <2>1, <2>2, Ranks
  <2>4. i \in Nat /\ j \in Nat
    BY <1>1, <2>2
  <2> QED
    BY <2>3, <2>4 DEF j
<1> HIDE DEF at
<1> QED
  BY <1>1, <1>2, <1>3, <1>5, <1>6, <1>7 DEF left

-----------------------------------------------------------------------------
(* The inductive invariant.                                                *)

Live == run.status = "live"

Run == [status : {"none", "live", "over"}, chain : Chains \cup {NoChain},
        cursor : -1 .. MaxIndex, round : 0 .. MaxRound]

Page == [user : Users, chain : Chains \cup {NoChain}, index : 0 .. MaxIndex,
         round : 0 .. MaxRound]

\* A live run is on a chain there is.
Placed == Live => run.chain \in DOMAIN defs

\* A level is at one place.
Distinct ==
    \A c, d \in DOMAIN defs : \A i \in DOMAIN defs[c], j \in DOMAIN defs[d] :
        defs[c][i] = defs[d][j] => c = d /\ i = j

\* Only an insertion leaves gaps ...
Contiguous ==
    "insert" \notin edits =>
        \A c \in DOMAIN defs : DOMAIN defs[c] = 0 .. (Cardinality(DOMAIN defs[c]) - 1)

\* ... so a run's cursor is the index of a level, or before all of them, if no
\* deletion passed it by.
Sure == "insert" \notin edits /\ ~overlapped
IsWithin(f, cursor, sure) == sure => cursor < Cardinality(DOMAIN f)
Within == Live => IsWithin(defs[run.chain], run.cursor, Sure)

\* Levels of definition f above the cursor are not among V, the others are.
IsExact(f, cursor, V, sure) ==
    /\ \A i \in DOMAIN f : i > cursor => f[i] \notin V
    /\ sure => \A i \in DOMAIN f : i <= cursor => f[i] \in V
Exact == Live => IsExact(defs[run.chain], run.cursor, visited, Sure)

\* Pages of the current round, which no earlier run had, are at or below the
\* cursor, and are P's.
IsRecorded(cursor, round, P) ==
    \A p \in pages : p.round <= round /\ (p.round = round => p.index <= cursor /\ p.user \in P)
Recorded ==
    "drop" \notin edits =>
        /\ run.status = "none" => pages = {}
        /\ IsRecorded(run.cursor, run.round, paged)

IInv == TypeOK /\ Placed /\ Distinct /\ Contiguous /\ Within /\ Exact /\ Recorded

-----------------------------------------------------------------------------
(* Types of definitions.                                                   *)

\* What a definition is.
LEMMA DefinitionIs ==
    ASSUME NEW f \in Definitions
    PROVE  /\ DOMAIN f \in SUBSET (0 .. MaxIndex) /\ f \in [DOMAIN f -> Levels]
           /\ DOMAIN f \in SUBSET Nat /\ IsFiniteSet(DOMAIN f)
           /\ Cardinality(DOMAIN f) \in Nat
<1>1. PICK I \in SUBSET (0 .. MaxIndex) : f \in [I -> Levels]
  BY DEF Definitions
<1>2. IsFiniteSet(0 .. MaxIndex)
  <2>1. 0 \in Int /\ MaxIndex \in Int
    BY DefinitionAssumption
  <2> QED
    BY <2>1, FS_Interval
<1>3. IsFiniteSet(I) /\ Cardinality(I) \in Nat
  <2>1. IsFiniteSet(I)
    BY <1>2, FS_Subset
  <2> QED
    BY <2>1, FS_CardinalityType
<1>4. I \in SUBSET Nat
  BY DefinitionAssumption
<1> QED
  BY <1>1, <1>3, <1>4

\* The definitions there are.
LEMMA DefsAre ==
    ASSUME TypeOK, NEW c \in DOMAIN defs
    PROVE  /\ c \in Chains /\ defs[c] \in Definitions
           /\ defs = [d \in DOMAIN defs |-> defs[d]]
BY DEF TypeOK

\* A function from indexes to levels is a definition.
LEMMA IsDefinition ==
    ASSUME NEW I \in SUBSET (0 .. MaxIndex), NEW f \in [I -> Levels]
    PROVE  f \in Definitions
BY DEF Definitions

-----------------------------------------------------------------------------
(* Visiting levels.                                                        *)

\* Row r, on a chain there is, whose run visited V and paged P before.
Rises(r, V, P) ==
    /\ r \in Run /\ r.status = "live" /\ r.chain \in DOMAIN defs
    /\ V \in SUBSET Levels /\ P \in SUBSET Users
    /\ overlapped' \in BOOLEAN
    /\ IsWithin(defs[r.chain], r.cursor, Sure')
    /\ IsExact(defs[r.chain], r.cursor, V, Sure')
    /\ "drop" \notin edits => IsRecorded(r.cursor, r.round, P)
    /\ FireNext(r, <<V, P>>) \/ FireAll(r, <<V, P>>)
    /\ UNCHANGED <<defs, edits, deleting>>

\* It visits all the levels I up to one, which it pages unless it is over.
Climbs(r, I, E, status, before) ==
    /\ I \in SUBSET Above(r) /\ E \in SUBSET I /\ status \in {"live", "over"}
    /\ Visit(r, I, E, status, before)
    /\ \A i \in I, j \in Above(r) : j <= i => j \in I
    /\ status = "live" => Highest(I \cup {r.cursor}) \subseteq E

\* Firing a level, or all of them, climbs.
LEMMA FiringVisits ==
    ASSUME TypeOK, NEW r \in Run, r.chain \in DOMAIN defs, NEW before,
           FireNext(r, before) \/ FireAll(r, before)
    PROVE  \E I, E, status : Climbs(r, I, E, status, before)
<1> DEFINE Goal == \E I, E, status : Climbs(r, I, E, status, before)
<1>1. /\ r.cursor \in Int /\ \A i \in Above(r) : i \in Int /\ i > r.cursor
  <2>1. \A i \in DOMAIN defs[r.chain] : i \in Nat
    BY DefsAre, DefinitionIs
  <2> QED
    BY <2>1, DefinitionAssumption DEF Above, Run
<1>2. ASSUME NEW i \in Above(r), Visit(r, {j \in Above(r) : j <= i}, {i}, "live", before)
      PROVE  Goal
  <2> DEFINE I == {j \in Above(r) : j <= i}
  <2>1. I \in SUBSET Above(r) /\ i \in I /\ {i} \in SUBSET I
    BY <1>1
  <2>2. \A k \in I, j \in Above(r) : j <= k => j \in I
    BY <1>1
  <2>3. Highest(I \cup {r.cursor}) \subseteq {i}
    BY <1>1 DEF Highest
  <2>4. Visit(r, I, {i}, "live", before)
    BY <1>2
  <2> HIDE DEF I
  <2>5. Climbs(r, I, {i}, "live", before)
    BY <2>1, <2>2, <2>3, <2>4 DEF Climbs
  <2> QED
    BY <2>5
<1>3. ASSUME Visit(r, Above(r), {}, "over", before) PROVE Goal
  <2>1. Climbs(r, Above(r), {}, "over", before)
    BY <1>3 DEF Climbs
  <2> QED
    BY <2>1
<1>4. ASSUME NEW E \in SUBSET Above(r),
             Visit(r, Above(r), E,
                   IF E \cap Highest(Above(r)) # {} THEN "live" ELSE "over", before)
      PROVE  Goal
  <2>1. CASE E \cap Highest(Above(r)) # {}
    <3>1. PICK m \in E : m \in Highest(Above(r))
      BY <2>1
    <3>2. Highest(Above(r) \cup {r.cursor}) \subseteq {m}
      BY <1>1, <3>1 DEF Highest
    <3>3. Visit(r, Above(r), E, "live", before)
      BY <1>4, <2>1
    <3>4. Highest(Above(r) \cup {r.cursor}) \subseteq E /\ E \in SUBSET Above(r)
      BY <3>1, <3>2
    <3>5. Climbs(r, Above(r), E, "live", before)
      BY <3>3, <3>4 DEF Climbs
    <3> QED
      BY <3>5
  <2>2. CASE E \cap Highest(Above(r)) = {}
    <3>1. Visit(r, Above(r), E, "over", before)
      BY <1>4, <2>2
    <3>2. Climbs(r, Above(r), E, "over", before)
      BY <1>4, <3>1 DEF Climbs
    <3> QED
      BY <3>2
  <2> QED
    BY <2>1, <2>2
<1> HIDE DEF Goal
<1>5. Goal
  BY <1>2, <1>3, <1>4 DEF FireNext, FireAll
<1> QED
  BY <1>5 DEF Goal

\* A row that visits levels keeps the invariant; where it stops, it pages all.
LEMMA Keeps ==
    ASSUME TypeOK, Distinct, Contiguous, NEW r, NEW V, NEW P, Rises(r, V, P)
    PROVE  /\ IInv'
           /\ run'.status = "live" /\ "drop" \notin edits =>
                \A u \in Targets[defs[run'.chain][run'.cursor]] :
                  [user |-> u, chain |-> run'.chain, index |-> run'.cursor,
                   round |-> run'.round] \in pages' \ pages
<1> DEFINE f == defs[r.chain]
           I0 == DOMAIN f
<1>1. /\ r \in Run /\ r.chain \in DOMAIN defs /\ r.chain \in Chains /\ f \in Definitions
      /\ V \in SUBSET Levels /\ P \in SUBSET Users /\ defs' = defs /\ edits' = edits
      /\ MaxRound' = MaxRound /\ deleting' = deleting /\ overlapped' \in BOOLEAN
  BY DefsAre DEF Rises, MaxRound
<1>2. /\ I0 \in SUBSET (0 .. MaxIndex) /\ I0 \in SUBSET Nat /\ f \in [I0 -> Levels]
      /\ \A i \in I0 : i \in Nat /\ i <= MaxIndex /\ f[i] \in Levels
      /\ r.cursor \in -1 .. MaxIndex /\ r.cursor \in Int /\ MaxIndex \in Nat
      /\ r.round \in 0 .. MaxRound /\ r.round \in Nat
      /\ Cardinality(I0) \in Nat
  <2>1. /\ I0 \in SUBSET (0 .. MaxIndex) /\ I0 \in SUBSET Nat /\ f \in [I0 -> Levels]
        /\ Cardinality(I0) \in Nat
    BY <1>1, DefinitionIs
  <2>2. r.cursor \in -1 .. MaxIndex /\ r.round \in 0 .. MaxRound /\ MaxIndex \in Nat
    BY <1>1, DefinitionAssumption DEF Run
  <2>3. MaxRound \in Nat
    BY DefinitionAssumption DEF TypeOK, MaxRound
  <2> HIDE DEF f
  <2> QED
    BY <2>1, <2>2, <2>3
<1>3. PICK I, E, status : Climbs(r, I, E, status, <<V, P>>)
  <2> DEFINE before == <<V, P>>
  <2>1. FireNext(r, before) \/ FireAll(r, before)
    BY DEF Rises
  <2> HIDE DEF before
  <2>2. \E I, E, status : Climbs(r, I, E, status, before)
    BY <1>1, <2>1, FiringVisits
  <2> QED
    BY <2>2 DEF before
<1>4. /\ I \in SUBSET Above(r) /\ E \in SUBSET I /\ status \in {"live", "over"}
      /\ Visit(r, I, E, status, <<V, P>>)
      /\ \A i \in I, j \in Above(r) : j <= i => j \in I
      /\ status = "live" => Highest(I \cup {r.cursor}) \subseteq E
  BY <1>3 DEF Climbs
<1> DEFINE sent == UNION {{[user |-> u, chain |-> r.chain, index |-> i, round |-> r.round] :
                             u \in {v \in Targets[f[i]] : ~AlreadyPaged(v, i, r.round)}} :
                          i \in E}
<1>5. PICK top \in Highest(I \cup {r.cursor}) :
        run' = [r EXCEPT !.status = status, !.cursor = top]
  BY <1>4 DEF Visit
<1>6. /\ pages' = pages \cup sent
      /\ visited' = V \cup {f[i] : i \in I}
      /\ paged' = P \cup {p.user : p \in sent}
  BY <1>4 DEF Visit
<1>7. ASSUME NEW i \in Above(r) PROVE i \in I0 /\ i > r.cursor
  BY <1>7 DEF Above
<1>8. ASSUME NEW i \in I0, i > r.cursor PROVE i \in Above(r)
  BY <1>8 DEF Above
<1>9. ASSUME NEW p \in sent
      PROVE  \E i \in E : /\ i \in I /\ i \in I0 /\ i > r.cursor /\ i <= top
                          /\ \E u \in Targets[f[i]] : /\ ~AlreadyPaged(u, i, r.round)
                               /\ u \in Users /\ p = [user |-> u, chain |-> r.chain,
                                                      index |-> i, round |-> r.round]
  <2>1. PICK i \in E : p \in {[user |-> u, chain |-> r.chain, index |-> i, round |-> r.round] :
                                u \in {v \in Targets[f[i]] : ~AlreadyPaged(v, i, r.round)}}
    OBVIOUS
  <2>2. PICK u \in Targets[f[i]] :
          /\ ~AlreadyPaged(u, i, r.round)
          /\ p = [user |-> u, chain |-> r.chain, index |-> i, round |-> r.round]
    BY <2>1
  <2>3. i \in I /\ i \in I0 /\ i > r.cursor /\ i <= top
    BY <1>4, <1>7 DEF Highest
  <2>4. u \in Users
    BY <1>2, <2>3 DEF Users
  <2> QED
    BY <2>2, <2>3, <2>4
<1>10. ASSUME NEW i \in E, NEW u \in Targets[f[i]], ~AlreadyPaged(u, i, r.round)
       PROVE  [user |-> u, chain |-> r.chain, index |-> i, round |-> r.round] \in sent
  BY <1>10
<1> HIDE DEF sent, f
<1>11. /\ run' \in Run /\ run'.status = status /\ run'.chain = r.chain
       /\ run'.cursor = top /\ run'.round = r.round
       /\ top \in Int /\ top >= r.cursor /\ \A i \in I : i <= top
       /\ top \in I \/ top = r.cursor
  <2>1. top \in I \cup {r.cursor} /\ \A i \in I \cup {r.cursor} : i <= top
    BY DEF Highest
  <2>2. top \in -1 .. MaxIndex
    BY <1>2, <1>4, <1>7, <2>1
  <2>3. run' \in Run /\ run'.status = status /\ run'.chain = r.chain
        /\ run'.cursor = top /\ run'.round = r.round
    BY <1>1, <1>4, <1>5, <2>2 DEF Run
  <2> QED
    BY <1>2, <2>1, <2>2, <2>3
<1>12. sent \subseteq Page
  BY <1>1, <1>2, <1>9 DEF Page
<1>13. TypeOK'
  <2>1. visited' \subseteq Levels
    BY <1>1, <1>2, <1>4, <1>6, <1>7
  <2>2. paged' \subseteq Users
    BY <1>1, <1>6, <1>12 DEF Page
  <2>3. run' \in Run /\ pages' \subseteq Page
    BY <1>6, <1>11, <1>12 DEF TypeOK, Page
  <2> QED
    BY <1>1, <2>1, <2>2, <2>3 DEF TypeOK, Run, Page
<1>14. Placed' /\ Distinct' /\ Contiguous'
  BY <1>1, <1>11 DEF Placed, Distinct, Contiguous
<1>15. Within'
  <2>1. ASSUME Sure' PROVE top < Cardinality(I0)
    <3>1. I0 = 0 .. (Cardinality(I0) - 1)
      BY <1>1, <2>1 DEF Contiguous, f, Sure
    <3>2. CASE top \in I
      <4>1. top \in I0
        BY <1>4, <1>7, <3>2
      <4> QED
        BY <1>2, <3>1, <4>1
    <3>3. CASE top = r.cursor
      BY <2>1, <3>3 DEF Rises, IsWithin, f
    <3> QED
      BY <1>11, <3>2, <3>3
  <2> QED
    BY <1>1, <1>11, <2>1 DEF Within, IsWithin, f
<1>16. Exact'
  <2>1. ASSUME NEW i \in I0, i > top PROVE f[i] \notin visited'
    <3>1. i > r.cursor /\ i \notin I
      BY <1>2, <1>11, <2>1
    <3>2. f[i] \notin V
      BY <3>1 DEF Rises, IsExact, f
    <3>3. ASSUME NEW j \in I PROVE f[j] # f[i]
      <4>1. j \in I0 /\ j # i
        BY <1>4, <1>7, <3>1
      <4> QED
        BY <1>1, <4>1 DEF Distinct, f
    <3> QED
      BY <1>6, <3>2, <3>3
  <2>2. ASSUME Sure', NEW i \in I0, i <= top PROVE f[i] \in visited'
    <3>1. CASE i <= r.cursor
      BY <1>6, <2>2, <3>1 DEF Rises, IsExact, f
    <3>2. CASE i > r.cursor
      <4>1. i \in Above(r) /\ top # r.cursor
        BY <1>2, <1>8, <2>2, <3>2
      <4>2. i \in I
        BY <1>4, <1>11, <2>2, <4>1
      <4> QED
        BY <1>6, <4>2
    <3> QED
      BY <1>2, <3>1, <3>2
  <2> QED
    BY <1>1, <1>11, <2>1, <2>2 DEF Exact, IsExact, f
<1>17. Recorded'
  <2>1. ASSUME "drop" \notin edits, NEW p \in pages'
        PROVE  p.round <= r.round /\ (p.round = r.round => p.index <= top /\ p.user \in paged')
    <3>1. CASE p \in pages
      <4>1. p.round <= r.round /\ (p.round = r.round => p.index <= r.cursor /\ p.user \in P)
        BY <2>1, <3>1 DEF Rises, IsRecorded
      <4>2. p.index \in Int
        BY <3>1 DEF TypeOK
      <4> QED
        BY <1>2, <1>6, <1>11, <4>1, <4>2
    <3>2. CASE p \in sent
      BY <1>2, <1>6, <1>9, <3>2
    <3> QED
      BY <1>6, <2>1, <3>1, <3>2
  <2>2. run'.status # "none"
    BY <1>4, <1>11
  <2> QED
    BY <1>1, <1>11, <2>1, <2>2 DEF Recorded, IsRecorded
<1>18. ASSUME run'.status = "live", "drop" \notin edits,
              NEW u \in Targets[defs[run'.chain][run'.cursor]]
       PROVE  [user |-> u, chain |-> run'.chain, index |-> run'.cursor,
               round |-> run'.round] \in pages' \ pages
  <2>1. top \in E /\ u \in Targets[f[top]] /\ top > r.cursor
    BY <1>4, <1>7, <1>11, <1>18 DEF f
  <2>2. ASSUME NEW p \in pages PROVE ~(p.index = top /\ p.round = r.round)
    BY <1>2, <1>11, <1>18, <2>1, <2>2 DEF Rises, IsRecorded
  <2>3. ~AlreadyPaged(u, top, r.round)
    BY <2>2 DEF AlreadyPaged
  <2> DEFINE page == [user |-> u, chain |-> r.chain, index |-> top, round |-> r.round]
  <2>4. page \in sent /\ page.index = top /\ page.round = r.round
    BY <1>10, <2>1, <2>3
  <2> HIDE DEF page
  <2>5. page \in pages' /\ page \notin pages
    BY <1>6, <2>2, <2>4
  <2> QED
    BY <1>11, <2>5 DEF page
<1> QED
  BY <1>13, <1>14, <1>15, <1>16, <1>17, <1>18 DEF IInv

-----------------------------------------------------------------------------
(* Each operation.                                                         *)

\* Starting, restarting and advancing are such visits.
LEMMA FiresRise ==
    ASSUME IInv, Fires, UNCHANGED edits
    PROVE  \E r, V, P : Rises(r, V, P)
<1>0. MaxRound \in Nat /\ MaxIndex \in Nat /\ run.round \in 0 .. MaxRound /\ run \in Run
  BY DefinitionAssumption DEF IInv, TypeOK, MaxRound, Run
<1>1. ASSUME NEW c \in Chains, Start(c) PROVE \E r, V, P : Rises(r, V, P)
  <2> DEFINE n == IF run.status = "none" THEN 0 ELSE run.round + 1
             r == [status |-> "live", chain |-> c, cursor |-> -1, round |-> n]
  <2>1. n \in 0 .. MaxRound
    BY <1>0, <1>1 DEF Start
  <2>2. r \in Run
    <3> HIDE DEF n
    <3>1. -1 \in -1 .. MaxIndex
      BY <1>0
    <3> QED
      BY <2>1, <3>1 DEF Run
  <2>3. /\ c \in DOMAIN defs /\ UNCHANGED <<defs, deleting>> /\ overlapped' = FALSE
        /\ FireNext(r, <<{}, {}>>) \/ FireAll(r, <<{}, {}>>)
    BY <1>1 DEF Start
  <2>4. /\ Cardinality(DOMAIN defs[c]) \in Nat
        /\ \A i \in DOMAIN defs[c] : i \in Nat
    BY <2>3, DefsAre, DefinitionIs DEF IInv
  <2>5. IsWithin(defs[c], -1, Sure') /\ IsExact(defs[c], -1, {}, Sure')
    BY <2>4 DEF IsWithin, IsExact
  <2>6. ASSUME "drop" \notin edits, NEW p \in pages PROVE p.round <= n /\ p.round # n
    <3>1. run.status # "none" /\ p.round <= run.round /\ p.round \in Int
      BY <2>6 DEF IInv, Recorded, IsRecorded, TypeOK
    <3> QED
      BY <1>0, <3>1
  <2>7. "drop" \notin edits => IsRecorded(-1, n, {})
    BY <2>6 DEF IsRecorded
  <2>8. r.status = "live" /\ r.chain = c /\ r.cursor = -1 /\ r.round = n
    OBVIOUS
  <2> HIDE DEF r, n
  <2>9. Rises(r, {}, {})
    BY <2>2, <2>3, <2>5, <2>7, <2>8 DEF Rises
  <2> QED
    BY <2>9
<1>2. ASSUME Advance PROVE \E r, V, P : Rises(r, V, P)
  <2>1. Live /\ FireNext(run, <<visited, paged>>) /\ UNCHANGED <<defs, deleting, overlapped>>
    BY <1>2 DEF Advance, Live, history
  <2>2. Sure' = Sure /\ overlapped' \in BOOLEAN
    BY <2>1 DEF Sure, IInv, TypeOK
  <2>3. Rises(run, visited, paged)
    BY <1>0, <2>1, <2>2
       DEF Rises, Live, IInv, Placed, Within, Exact, Recorded, TypeOK
  <2> QED
    BY <2>3
<1> QED
  BY <1>1, <1>2 DEF Fires

\* A closed run is bound by nothing.
LEMMA StopKeeps ==
    ASSUME IInv, Stop, UNCHANGED edits
    PROVE  IInv'
<1>1. /\ run' = [run EXCEPT !.status = "over"]
      /\ UNCHANGED <<defs, pages, deleting, visited, paged, overlapped, edits>> /\ run \in Run
      /\ run.status # "none"
  BY DEF Stop, IInv, TypeOK, Run
<1>2. /\ run' \in Run /\ run'.status = "over" /\ run'.cursor = run.cursor
      /\ run'.round = run.round
  BY <1>1 DEF Run
<1>3. TypeOK'
  BY <1>1, <1>2 DEF IInv, TypeOK, Run, MaxRound
<1>4. Placed' /\ Within' /\ Exact'
  BY <1>2 DEF Placed, Within, Exact, Live
<1>5. Distinct' /\ Contiguous'
  BY <1>1 DEF IInv, Distinct, Contiguous
<1>6. Recorded'
  BY <1>1, <1>2 DEF IInv, Recorded, IsRecorded
<1> QED
  BY <1>3, <1>4, <1>5, <1>6 DEF IInv

\* Changing one definition keeps definitions what they are, if no level comes
\* twice and no gap appears.
LEMMA Redefines ==
    ASSUME TypeOK, Distinct, Contiguous, NEW c \in DOMAIN defs, NEW g \in Definitions,
           defs' = [defs EXCEPT ![c] = g], UNCHANGED edits,
           \A i, j \in DOMAIN g : g[i] = g[j] => i = j,
           \A i \in DOMAIN g : \A d \in DOMAIN defs \ {c} : \A j \in DOMAIN defs[d] :
               g[i] # defs[d][j],
           "insert" \notin edits => DOMAIN g = 0 .. (Cardinality(DOMAIN g) - 1)
    PROVE  /\ \E alive \in SUBSET Chains : defs' \in [alive -> Definitions]
           /\ Distinct' /\ Contiguous'
           /\ DOMAIN defs' = DOMAIN defs /\ defs'[c] = g
           /\ \A d \in DOMAIN defs : d # c => defs'[d] = defs[d]
<1>1. PICK alive \in SUBSET Chains : defs \in [alive -> Definitions]
  BY DEF TypeOK
<1>2. /\ defs' \in [alive -> Definitions] /\ DOMAIN defs' = alive /\ DOMAIN defs = alive
      /\ defs'[c] = g /\ \A d \in alive : d # c => defs'[d] = defs[d]
  BY <1>1
<1>3. ASSUME NEW a \in alive, NEW b \in alive, NEW i \in DOMAIN defs'[a],
             NEW j \in DOMAIN defs'[b], defs'[a][i] = defs'[b][j]
      PROVE  a = b /\ i = j
  <2>1. CASE a = c /\ b = c
    BY <1>2, <1>3, <2>1
  <2>2. CASE a = c /\ b # c
    BY <1>2, <1>3, <2>2
  <2>3. CASE a # c /\ b = c
    BY <1>2, <1>3, <2>3
  <2>4. CASE a # c /\ b # c
    BY <1>2, <1>3, <2>4 DEF Distinct
  <2> QED
    BY <2>1, <2>2, <2>3, <2>4
<1>4. Contiguous'
  BY <1>2 DEF Contiguous
<1> QED
  BY <1>2, <1>3, <1>4 DEF Distinct

\* As many numbers as there are below n.
LEMMA Below ==
    ASSUME NEW n \in Nat
    PROVE  IsFiniteSet(0 .. (n - 1)) /\ Cardinality(0 .. (n - 1)) = n
<1>1. 0 \in Int /\ n - 1 \in Int
  OBVIOUS
<1>2. /\ IsFiniteSet(0 .. (n - 1))
      /\ Cardinality(0 .. (n - 1)) = IF 0 > n - 1 THEN 0 ELSE (n - 1) - 0 + 1
  BY <1>1, FS_Interval
<1> QED
  BY <1>2

\* The cursor moves so that what was at or below it, less the level removed,
\* still is, and without gaps nothing else comes to be.
LEMMA MovesCursor ==
    ASSUME NEW D \in SUBSET Nat, IsFiniteSet(D), NEW g \in D, NEW cursor \in Int, cursor >= -1
    PROVE  LET left == D \ {g}
           IN  /\ \A i \in left : i <= cursor => Rank(left, i) <= Moved(cursor, g)
               /\ D = 0 .. (Cardinality(D) - 1) =>
                    /\ \A i \in left : i > cursor => Rank(left, i) > Moved(cursor, g)
                    /\ cursor < Cardinality(D) => Moved(cursor, g) < Cardinality(left)
<1> DEFINE left == D \ {g}
<1>1. /\ left \in SUBSET Nat /\ IsFiniteSet(left) /\ g \in Nat /\ g \in Nat \ left
      /\ \A i \in left : i \in Nat /\ i # g
  BY FS_Subset
<1>2. Moved(cursor, g) = IF cursor >= g THEN cursor - 1 ELSE cursor
  BY DEF Moved
<1>3. ASSUME NEW i \in left, i <= cursor PROVE Rank(left, i) <= Moved(cursor, g)
  <2>1. Rank(left, i) <= i /\ (g < i => Rank(left, i) <= i - 1) /\ Rank(left, i) \in Int
    BY <1>1, Ranks
  <2> HIDE DEF left
  <2> QED
    BY <1>1, <1>2, <1>3, <2>1
<1>4. ASSUME D = 0 .. (Cardinality(D) - 1), NEW i \in left, i > cursor
      PROVE  Rank(left, i) > Moved(cursor, g)
  <2>1. IsFiniteSet(0 .. (i - 1)) /\ Cardinality(0 .. (i - 1)) = i
    BY <1>1, Below
  <2>2. \A j \in Nat : j < i => j \in D
    <3> DEFINE n == Cardinality(D)
    <3>1. n \in Nat
      BY FS_CardinalityType
    <3>2. D = 0 .. (n - 1) /\ i \in D /\ i \in Nat
      BY <1>1, <1>4
    <3> HIDE DEF n
    <3> QED
      BY <3>1, <3>2
  <2>3. CASE i < g
    <3>1. {j \in left : j < i} = 0 .. (i - 1)
      <4>1. \A j : j \in left /\ j < i => j \in 0 .. (i - 1)
        BY <1>1
      <4>2. \A j \in 0 .. (i - 1) : j \in left /\ j < i
        BY <1>1, <2>2, <2>3
      <4> HIDE DEF left
      <4> QED
        BY <4>1, <4>2
    <3>2. Rank(left, i) = i
      BY <2>1, <3>1 DEF Rank
    <3> HIDE DEF left
    <3> QED
      BY <1>1, <1>2, <1>4, <2>3, <3>2
  <2>4. CASE i > g
    <3>1. {j \in left : j < i} = (0 .. (i - 1)) \ {g} /\ g \in 0 .. (i - 1)
      <4>1. \A j : j \in left /\ j < i => j \in 0 .. (i - 1) /\ j # g
        BY <1>1
      <4>2. \A j \in 0 .. (i - 1) : j # g => j \in left /\ j < i
        BY <1>1, <2>2
      <4>3. g \in 0 .. (i - 1)
        BY <1>1, <2>4
      <4> HIDE DEF left
      <4> QED
        BY <4>1, <4>2, <4>3
    <3> DEFINE B == 0 .. (i - 1)
    <3>2. IsFiniteSet(B) /\ Cardinality(B) = i /\ g \in B
      BY <2>1, <3>1
    <3> HIDE DEF B
    <3>3. Cardinality(B \ {g}) = i - 1
      BY <3>2, FS_RemoveElement
    <3>4. Rank(left, i) = i - 1
      BY <3>1, <3>3 DEF Rank, B
    <3> HIDE DEF left
    <3> QED
      BY <1>1, <1>2, <1>4, <2>4, <3>4
  <2> QED
    BY <1>1, <2>3, <2>4
<1>5. ASSUME D = 0 .. (Cardinality(D) - 1), cursor < Cardinality(D)
      PROVE  Moved(cursor, g) < Cardinality(left)
  <2>1. Cardinality(left) = Cardinality(D) - 1 /\ Cardinality(D) \in Nat
    BY FS_RemoveElement, FS_CardinalityType
  <2>2. g <= Cardinality(D) - 1
    BY <1>1, <1>5, <2>1
  <2> HIDE DEF left
  <2> QED
    BY <1>1, <1>2, <1>5, <2>1, <2>2
<1> QED
  BY <1>3, <1>4, <1>5

\* Removing a level: the run moves with it, or was not seen, or is elsewhere.
LEMMA RemoveKeeps ==
    ASSUME IInv, NEW c \in DOMAIN defs, NEW g \in DOMAIN defs[c],
           DeleteLevel(c, g) \/ DeleteUnseen(c, g), UNCHANGED edits
    PROVE  IInv'
<1> DEFINE f == defs[c]
           left == DOMAIN f \ {g}
           N == 0 .. (Cardinality(left) - 1)
           h == Compact(f, g)
<1>0. /\ f \in Definitions /\ DOMAIN f \in SUBSET (0 .. MaxIndex) /\ f \in [DOMAIN f -> Levels]
      /\ DOMAIN f \in SUBSET Nat /\ IsFiniteSet(DOMAIN f)
      /\ left \in SUBSET Nat /\ IsFiniteSet(left) /\ Cardinality(left) \in Nat
      /\ run.cursor \in Int /\ run.cursor >= -1 /\ run.cursor <= MaxIndex /\ MaxIndex \in Nat
      /\ run \in Run /\ run.round \in 0 .. MaxRound
  <2>1. f \in Definitions /\ DOMAIN f \in SUBSET Nat /\ IsFiniteSet(DOMAIN f)
        /\ DOMAIN f \in SUBSET (0 .. MaxIndex) /\ f \in [DOMAIN f -> Levels]
    BY DefsAre, DefinitionIs DEF IInv
  <2>2. left \in SUBSET Nat /\ IsFiniteSet(left)
    BY <2>1, FS_Subset
  <2>3. Cardinality(left) \in Nat
    BY <2>2, FS_CardinalityType
  <2>4. run \in Run /\ run.cursor \in -1 .. MaxIndex /\ run.round \in 0 .. MaxRound
        /\ MaxIndex \in Nat
    BY DefinitionAssumption DEF IInv, TypeOK, Run
  <2> QED
    BY <2>1, <2>2, <2>3, <2>4
<1>1. PICK at \in [N -> left] :
        /\ h = [k \in N |-> f[at[k]]]
        /\ \A k \in N : Rank(left, at[k]) = k
        /\ \A i \in left : at[Rank(left, i)] = i
  BY <1>0, Compacts
<1>2. /\ \A i \in left : i \in DOMAIN f /\ i # g /\ i \in Nat /\ i <= MaxIndex /\ f[i] \in Levels
      /\ \A i \in left : Rank(left, i) \in Int /\ Rank(left, i) <= i
  <2>1. \A i \in left : Rank(left, i) \in Int /\ Rank(left, i) <= i
    BY <1>0, Ranks
  <2>2. ASSUME NEW i \in left
        PROVE  i \in DOMAIN f /\ i # g /\ i \in Nat /\ i <= MaxIndex /\ f[i] \in Levels
    <3>1. i \in DOMAIN f /\ i # g
      OBVIOUS
    <3>2. i \in 0 .. MaxIndex /\ f[i] \in Levels
      <4> HIDE DEF f
      <4> QED
        BY <1>0, <3>1
    <3> QED
      BY <1>0, <3>1, <3>2
  <2> HIDE DEF f, left
  <2> QED
    BY <2>1, <2>2
<1> HIDE DEF h, f, left
<1>3. DOMAIN h = N /\ \A k \in N : at[k] \in left /\ h[k] = f[at[k]] /\ k \in Int
  BY <1>0, <1>1
<1>4. h \in Definitions
  <2>1. \A k \in N : k \in 0 .. MaxIndex /\ f[at[k]] \in Levels
    BY <1>0, <1>1, <1>2, <1>3
  <2>2. N \in SUBSET (0 .. MaxIndex)
    BY <2>1
  <2> HIDE DEF N
  <2>3. h \in [N -> Levels]
    BY <1>1, <2>1
  <2> QED
    BY <2>2, <2>3, IsDefinition
<1>5. \A k, l \in DOMAIN h : h[k] = h[l] => k = l
  <2>1. ASSUME NEW k \in N, NEW l \in N, h[k] = h[l] PROVE k = l
    <3>1. at[k] = at[l]
      <4>1. /\ at[k] \in DOMAIN defs[c] /\ at[l] \in DOMAIN defs[c]
            /\ defs[c][at[k]] = defs[c][at[l]]
        BY <1>2, <1>3, <2>1 DEF f
      <4> QED
        BY <4>1 DEF IInv, Distinct
    <3> QED
      BY <1>1, <3>1
  <2> QED
    BY <1>3, <2>1
<1>6. \A k \in DOMAIN h : \A d \in DOMAIN defs \ {c} : \A j \in DOMAIN defs[d] :
        h[k] # defs[d][j]
  <2>1. ASSUME NEW k \in N, NEW d \in DOMAIN defs \ {c}, NEW j \in DOMAIN defs[d]
        PROVE  h[k] # defs[d][j]
    <3>1. at[k] \in DOMAIN defs[c] /\ h[k] = defs[c][at[k]]
      BY <1>2, <1>3 DEF f
    <3> QED
      BY <3>1 DEF IInv, Distinct
  <2> QED
    BY <1>3, <2>1
<1>7. DOMAIN h = 0 .. (Cardinality(DOMAIN h) - 1) /\ Cardinality(DOMAIN h) = Cardinality(left)
  BY <1>0, <1>3, Below
<1>8. /\ defs' = [defs EXCEPT ![c] = h] /\ UNCHANGED <<pages, visited, paged, edits>>
      /\ deleting' \subseteq Levels /\ overlapped' \in BOOLEAN
  <2>1. defs' = [defs EXCEPT ![c] = h] /\ UNCHANGED <<pages, visited, paged, edits>>
    BY DEF DeleteLevel, DeleteUnseen, Remove, h, f
  <2>2. deleting' \subseteq deleting /\ overlapped' \in BOOLEAN
    BY DEF DeleteLevel, DeleteUnseen, Remove, IInv, TypeOK
  <2>3. deleting \subseteq Levels
    BY DEF IInv, TypeOK
  <2> QED
    BY <2>1, <2>2, <2>3
<1>9. /\ \E alive \in SUBSET Chains : defs' \in [alive -> Definitions]
      /\ Distinct' /\ Contiguous'
      /\ DOMAIN defs' = DOMAIN defs /\ defs'[c] = h
      /\ \A d \in DOMAIN defs : d # c => defs'[d] = defs[d]
  BY <1>4, <1>5, <1>6, <1>7, <1>8, Redefines DEF IInv
<1>10. CASE DeleteLevel(c, g) /\ Live /\ run.chain = c
  <2> DEFINE to == Moved(run.cursor, g)
             r == [run EXCEPT !.cursor = to, !.round = @ + 1]
  <2>1. run' = r /\ run.round < MaxRound /\ Sure' = Sure
    BY <1>10 DEF DeleteLevel, Live, Sure
  <2>2. to \in Int /\ to >= -1 /\ to <= MaxIndex /\ to <= run.cursor
    BY <1>0 DEF Moved, f
  <2>3. /\ run' \in Run /\ run'.cursor = to /\ run'.round = run.round + 1
        /\ run'.status = run.status /\ run'.chain = run.chain
    <3>1. run.round + 1 \in 0 .. MaxRound /\ run.round \in Int
      <4>1. MaxRound \in Nat
        BY DefinitionAssumption DEF IInv, TypeOK, MaxRound
      <4> QED
        BY <1>0, <2>1, <4>1
    <3>2. to \in -1 .. MaxIndex
      BY <1>0, <2>2
    <3> HIDE DEF to
    <3> QED
      BY <1>0, <2>1, <3>1, <3>2 DEF Run
  <2> HIDE DEF to, r
  <2>4. TypeOK'
    BY <1>8, <1>9, <2>3 DEF IInv, TypeOK, Run, MaxRound
  <2>5. Placed'
    BY <1>9, <1>10, <2>3 DEF Placed
  <2>6. /\ \A i \in left : i <= run.cursor => Rank(left, i) <= to
        /\ DOMAIN f = 0 .. (Cardinality(DOMAIN f) - 1) =>
             /\ \A i \in left : i > run.cursor => Rank(left, i) > to
             /\ run.cursor < Cardinality(DOMAIN f) => to < Cardinality(left)
    <3>1. g \in DOMAIN f
      BY DEF f
    <3> QED
      BY <1>0, <3>1, MovesCursor DEF left, to
  <2>7. "insert" \notin edits => DOMAIN f = 0 .. (Cardinality(DOMAIN f) - 1)
    BY DEF IInv, Contiguous, f
  <2>8. Within'
    <3>1. ASSUME Sure PROVE to < Cardinality(DOMAIN h)
      <4>1. run.cursor < Cardinality(DOMAIN f)
        BY <1>10, <3>1 DEF IInv, Within, IsWithin, f
      <4> QED
        BY <1>7, <2>6, <2>7, <3>1, <4>1 DEF Sure
    <3> QED
      BY <1>8, <1>9, <1>10, <2>1, <2>3, <3>1 DEF Within, IsWithin
  <2>9. ASSUME NEW k \in DOMAIN h, k > to PROVE h[k] \notin visited
    <3>1. k \in N /\ at[k] \in left /\ Rank(left, at[k]) = k
      BY <1>1, <1>3
    <3>2. at[k] > run.cursor
      <4>1. at[k] \in Int
        BY <1>2, <3>1
      <4>2. ~(at[k] <= run.cursor)
        <5>1. Rank(left, at[k]) > to
          BY <2>9, <3>1
        <5> QED
          BY <1>2, <2>2, <2>6, <3>1, <5>1
      <4> QED
        BY <1>0, <4>1, <4>2
    <3> QED
      BY <1>2, <1>3, <1>10, <3>1, <3>2 DEF IInv, Exact, IsExact, f
  <2>10. ASSUME Sure, NEW k \in DOMAIN h, k <= to PROVE h[k] \in visited
    <3>1. k \in N /\ at[k] \in left /\ Rank(left, at[k]) = k
      BY <1>1, <1>3
    <3>2. at[k] <= run.cursor
      <4>1. at[k] \in Int
        BY <1>2, <3>1
      <4>2. ~(at[k] > run.cursor)
        <5>1. Rank(left, at[k]) <= to
          BY <2>10, <3>1
        <5> QED
          BY <1>2, <2>2, <2>6, <2>7, <2>10, <3>1, <5>1 DEF Sure
      <4> QED
        BY <1>0, <4>1, <4>2
    <3> QED
      BY <1>2, <1>3, <1>10, <2>10, <3>1, <3>2 DEF IInv, Exact, IsExact, f
  <2>11. Exact'
    BY <1>8, <1>9, <1>10, <2>1, <2>3, <2>9, <2>10 DEF Exact, IsExact
  <2>12. Recorded'
    <3>1. ASSUME "drop" \notin edits, NEW p \in pages
          PROVE  p.round <= run.round + 1 /\ p.round # run.round + 1
      <4>1. p.round <= run.round /\ p.round \in Int
        BY <3>1 DEF IInv, Recorded, IsRecorded, TypeOK
      <4> QED
        BY <1>0, <4>1
    <3>2. run'.status # "none"
      BY <1>10, <2>3 DEF Live
    <3> QED
      BY <1>8, <2>3, <3>1, <3>2 DEF Recorded, IsRecorded
  <2> QED
    BY <1>9, <2>4, <2>5, <2>8, <2>11, <2>12 DEF IInv
<1>11. ASSUME run' = run PROVE TypeOK' /\ Recorded' /\ Placed'
  BY <1>8, <1>9, <1>11
     DEF IInv, TypeOK, Placed, Live, Recorded, IsRecorded, MaxRound
<1>12. CASE ~(Live /\ run.chain = c)
  <2>1. run' = run
    BY <1>12 DEF DeleteLevel, DeleteUnseen, Live
  <2>2. run.chain # c => Sure' = Sure
    BY <1>8 DEF DeleteLevel, DeleteUnseen, Sure, IInv, TypeOK
  <2>3. Within' /\ Exact'
    BY <1>8, <1>9, <1>12, <2>1, <2>2
       DEF IInv, Placed, Within, IsWithin, Exact, IsExact, Live
  <2> QED
    BY <1>9, <1>11, <2>1, <2>3 DEF IInv
<1>13. CASE DeleteUnseen(c, g) /\ Live /\ run.chain = c
  <2>1. run' = run /\ overlapped' = (overlapped \/ g <= run.cursor)
    BY <1>13 DEF DeleteUnseen
  <2>2. g \in DOMAIN f /\ g \in Nat
    BY <1>0 DEF f
  <2>3. ASSUME Sure' PROVE Sure /\ g > run.cursor
    <3>1. "insert" \notin edits' /\ ~overlapped' /\ edits' = edits
      BY <1>8, <2>3 DEF Sure
    <3>2. ~overlapped /\ ~(g <= run.cursor)
      BY <2>1, <3>1, Zenon
    <3>3. g > run.cursor
      BY <1>0, <2>2, <3>2
    <3> QED
      BY <3>1, <3>2, <3>3, Zenon DEF Sure
  <2>4. ASSUME NEW k \in DOMAIN h, k > run.cursor PROVE h[k] \notin visited
    <3>1. k \in N /\ at[k] \in left /\ Rank(left, at[k]) = k
      BY <1>1, <1>3
    <3>2. at[k] > run.cursor
      BY <1>0, <1>2, <2>4, <3>1
    <3> QED
      BY <1>2, <1>3, <1>13, <3>1, <3>2 DEF IInv, Exact, IsExact, f
  <2>5. ASSUME Sure'
        PROVE  /\ \A i \in left : i > run.cursor => Rank(left, i) > run.cursor
               /\ run.cursor < Cardinality(DOMAIN h)
    <3>1. DOMAIN f = 0 .. (Cardinality(DOMAIN f) - 1)
      BY <2>3, <2>5 DEF IInv, Contiguous, Sure, f
    <3>2. /\ \A i \in left : i > run.cursor => Rank(left, i) > Moved(run.cursor, g)
          /\ run.cursor < Cardinality(DOMAIN f) => Moved(run.cursor, g) < Cardinality(left)
      BY <1>0, <2>2, <3>1, MovesCursor DEF left
    <3>3. Moved(run.cursor, g) = run.cursor
      BY <1>0, <2>2, <2>3, <2>5 DEF Moved
    <3>4. run.cursor < Cardinality(DOMAIN f)
      BY <1>13, <2>3, <2>5 DEF IInv, Within, IsWithin, f
    <3> QED
      BY <1>7, <3>2, <3>3, <3>4
  <2>6. ASSUME Sure', NEW k \in DOMAIN h, k <= run.cursor PROVE h[k] \in visited
    <3>1. k \in N /\ at[k] \in left /\ Rank(left, at[k]) = k
      BY <1>1, <1>3
    <3>2. at[k] <= run.cursor
      BY <1>0, <1>2, <2>5, <2>6, <3>1
    <3> QED
      BY <1>2, <1>3, <1>13, <2>3, <2>6, <3>1, <3>2 DEF IInv, Exact, IsExact, f
  <2>7. Within' /\ Exact'
    BY <1>8, <1>9, <1>13, <2>1, <2>4, <2>5, <2>6 DEF Within, IsWithin, Exact, IsExact
  <2> QED
    BY <1>9, <1>11, <2>1, <2>7 DEF IInv
<1> QED
  BY <1>10, <1>12, <1>13

\* Looking for runs changes none.
LEMMA LookKeeps ==
    ASSUME IInv, NEW c \in DOMAIN defs, NEW i \in DOMAIN defs[c], LookForRun(c, i),
           UNCHANGED edits
    PROVE  IInv'
<1>1. UNCHANGED <<defs, run, pages, visited, paged, overlapped, edits>>
  BY DEF LookForRun
<1>2. deleting' \subseteq Levels
  <2>1. defs[c][i] \in Levels
    BY DefsAre, DefinitionIs DEF IInv
  <2> QED
    BY <2>1 DEF LookForRun, IInv, TypeOK
<1> QED
  BY <1>1, <1>2
     DEF IInv, TypeOK, Placed, Distinct, Contiguous, Within, IsWithin, Exact, IsExact,
         Recorded, IsRecorded, Live, MaxRound, Sure

\* Adding a level.
LEMMA AddLevelKeeps ==
    ASSUME IInv, NEW c \in DOMAIN defs, NEW n \in 0 .. MaxIndex, NEW l \in Levels,
           AddLevel(c, n, l), UNCHANGED edits
    PROVE  IInv'
<1> DEFINE f == defs[c]
           g == [j \in DOMAIN f \cup {n} |-> IF j = n THEN l ELSE f[j]]
<1>0. /\ n \notin DOMAIN f /\ DOMAIN f \in SUBSET (0 .. MaxIndex) /\ f \in [DOMAIN f -> Levels]
      /\ n \in Nat /\ run.cursor \in Int
      /\ \A j \in DOMAIN f : j \in Nat
      /\ "insert" \in edits \/ DOMAIN f = 0 .. (n - 1)
      /\ \A d \in DOMAIN defs : \A j \in DOMAIN defs[d] : defs[d][j] # l
      /\ Live => l \notin visited
  <2>1. /\ DOMAIN f \in SUBSET (0 .. MaxIndex) /\ f \in [DOMAIN f -> Levels]
        /\ DOMAIN f \in SUBSET Nat
    BY DefsAre, DefinitionIs DEF IInv
  <2>2. run.cursor \in Int /\ n \in Nat
    BY DefinitionAssumption DEF IInv, TypeOK
  <2> QED
    BY <2>1, <2>2 DEF AddLevel, Live
<1>1. /\ defs' = [defs EXCEPT ![c] = g]
      /\ UNCHANGED <<run, pages, deleting, visited, paged, overlapped, edits>>
      /\ Sure' = Sure
  BY DEF AddLevel, Sure
<1> HIDE DEF f
<1>2. DOMAIN g = DOMAIN f \cup {n} /\ g[n] = l /\ \A j \in DOMAIN f : g[j] = f[j]
  BY <1>0
<1>3. g \in Definitions
  <2>1. DOMAIN f \cup {n} \in SUBSET (0 .. MaxIndex) /\ g \in [DOMAIN f \cup {n} -> Levels]
    BY <1>0
  <2> HIDE DEF g
  <2> QED
    BY <2>1, IsDefinition
<1> HIDE DEF g
<1>4. \A j \in DOMAIN f : f[j] # l
  BY <1>0 DEF f
<1>5. \A i, j \in DOMAIN g : g[i] = g[j] => i = j
  <2>1. \A i, j \in DOMAIN f : f[i] = f[j] => i = j
    BY DEF IInv, Distinct, f
  <2> QED
    BY <1>2, <1>4, <2>1
<1>6. \A i \in DOMAIN g : \A d \in DOMAIN defs \ {c} : \A j \in DOMAIN defs[d] :
        g[i] # defs[d][j]
  <2>1. \A i \in DOMAIN f : \A d \in DOMAIN defs \ {c} : \A j \in DOMAIN defs[d] :
          f[i] # defs[d][j]
    BY DEF IInv, Distinct, f
  <2> QED
    BY <1>0, <1>2, <2>1
<1>7. ASSUME "insert" \notin edits
      PROVE  /\ DOMAIN f = 0 .. (n - 1) /\ Cardinality(DOMAIN f) = n
             /\ DOMAIN g = 0 .. n /\ Cardinality(DOMAIN g) = n + 1
  <2>1. DOMAIN f = 0 .. (n - 1) /\ Cardinality(DOMAIN f) = n
    BY <1>0, <1>7, Below
  <2>2. DOMAIN g = 0 .. n
    BY <1>0, <1>2, <2>1
  <2>3. n + 1 \in Nat /\ (n + 1) - 1 = n
    BY <1>0
  <2>4. Cardinality(0 .. ((n + 1) - 1)) = n + 1
    BY <2>3, Below
  <2> QED
    BY <2>1, <2>2, <2>3, <2>4
<1>8. "insert" \notin edits => DOMAIN g = 0 .. (Cardinality(DOMAIN g) - 1)
  BY <1>0, <1>7
<1>9. /\ \E alive \in SUBSET Chains : defs' \in [alive -> Definitions]
      /\ Distinct' /\ Contiguous'
      /\ DOMAIN defs' = DOMAIN defs /\ defs'[c] = g
      /\ \A d \in DOMAIN defs : d # c => defs'[d] = defs[d]
  BY <1>1, <1>3, <1>5, <1>6, <1>8, Redefines DEF IInv
<1>10. TypeOK' /\ Placed' /\ Recorded'
  BY <1>1, <1>9 DEF IInv, TypeOK, Placed, Live, Recorded, IsRecorded, MaxRound
<1>11. CASE Live /\ run.chain = c
  <2>1. IsWithin(f, run.cursor, Sure) /\ IsExact(f, run.cursor, visited, Sure)
    BY <1>11 DEF IInv, Within, Exact, f
  <2>2. Sure => run.cursor < Cardinality(DOMAIN g) /\ run.cursor < n
    BY <1>0, <1>7, <2>1 DEF IsWithin, Sure
  <2>3. \A i \in DOMAIN g : i > run.cursor => g[i] \notin visited
    BY <1>0, <1>2, <1>11, <2>1 DEF IsExact
  <2>4. Sure => \A i \in DOMAIN g : i <= run.cursor => g[i] \in visited
    BY <1>0, <1>2, <2>1, <2>2 DEF IsExact
  <2>5. Within' /\ Exact'
    BY <1>1, <1>9, <1>11, <2>2, <2>3, <2>4 DEF Within, IsWithin, Exact, IsExact
  <2> QED
    BY <1>9, <1>10, <2>5 DEF IInv
<1>12. CASE ~(Live /\ run.chain = c)
  <2>1. Within' /\ Exact'
    BY <1>1, <1>9, <1>12 DEF IInv, Placed, Within, IsWithin, Exact, IsExact, Live
  <2> QED
    BY <1>9, <1>10, <2>1 DEF IInv
<1> QED
  BY <1>11, <1>12

\* A new order.
LEMMA ReorderKeeps ==
    ASSUME IInv, NEW c \in DOMAIN defs, ReorderLevels(c), UNCHANGED edits
    PROVE  IInv'
<1> DEFINE f == defs[c]
           n == Cardinality(DOMAIN f)
           N == 0 .. (n - 1)
<1>0. /\ n \in Nat /\ run.cursor \in Int /\ MaxIndex \in Nat
      /\ DOMAIN f \in SUBSET (0 .. MaxIndex) /\ f \in [DOMAIN f -> Levels]
      /\ IsFiniteSet(N) /\ Cardinality(N) = n
  <2>1. n \in Nat /\ DOMAIN f \in SUBSET (0 .. MaxIndex) /\ f \in [DOMAIN f -> Levels]
    BY DefsAre, DefinitionIs DEF IInv
  <2>2. run.cursor \in Int /\ MaxIndex \in Nat
    BY DefinitionAssumption DEF IInv, TypeOK
  <2> HIDE DEF f, n
  <2> QED
    BY <2>1, <2>2, Below
<1>1. N \in SUBSET (0 .. MaxIndex)
  <2>1. IsFiniteSet(0 .. MaxIndex) /\ Cardinality(0 .. MaxIndex) = MaxIndex + 1
    <3>1. MaxIndex + 1 \in Nat /\ (MaxIndex + 1) - 1 = MaxIndex
      BY <1>0
    <3>2. /\ IsFiniteSet(0 .. ((MaxIndex + 1) - 1))
          /\ Cardinality(0 .. ((MaxIndex + 1) - 1)) = MaxIndex + 1
      BY <3>1, Below
    <3> QED
      BY <3>1, <3>2
  <2>2. n <= MaxIndex + 1
    BY <1>0, <2>1, FS_Subset
  <2> HIDE DEF f, n
  <2> QED
    BY <1>0, <2>2
<1>2. PICK h \in [N -> {f[i] : i \in DOMAIN f}] :
        /\ \A j, k \in N : h[j] = h[k] => j = k
        /\ defs' = [defs EXCEPT ![c] = h]
        /\ visited' = IF run.chain = c THEN {h[i] : i \in {j \in N : j <= run.cursor}}
                      ELSE visited
  BY DEF ReorderLevels
<1>3. UNCHANGED <<run, pages, deleting, paged, overlapped, edits>> /\ Sure' = Sure
  BY DEF ReorderLevels, Sure
<1>4. DOMAIN h = N /\ \A k \in N : k \in Int /\ \E i \in DOMAIN f : h[k] = f[i]
  BY <1>0, <1>2
<1>5. h \in Definitions /\ \A k \in N : h[k] \in Levels
  <2>1. \A k \in N : h[k] \in Levels
    <3> HIDE DEF f, N
    <3> QED
      BY <1>0, <1>4
  <2>2. h \in [N -> Levels]
    <3> HIDE DEF N
    <3> QED
      BY <1>2, <2>1
  <2> HIDE DEF N
  <2> QED
    BY <1>1, <2>1, <2>2, IsDefinition
<1>6. \A k \in DOMAIN h : \A d \in DOMAIN defs \ {c} : \A j \in DOMAIN defs[d] :
        h[k] # defs[d][j]
  BY <1>4 DEF IInv, Distinct
<1>7. DOMAIN h = 0 .. (Cardinality(DOMAIN h) - 1) /\ Cardinality(DOMAIN h) = n
  BY <1>0, <1>4
<1>8. /\ \E alive \in SUBSET Chains : defs' \in [alive -> Definitions]
      /\ Distinct' /\ Contiguous'
      /\ DOMAIN defs' = DOMAIN defs /\ defs'[c] = h
      /\ \A d \in DOMAIN defs : d # c => defs'[d] = defs[d]
  <2>1. \A j, k \in DOMAIN h : h[j] = h[k] => j = k
    BY <1>2, <1>4
  <2> QED
    BY <1>2, <1>3, <1>5, <1>6, <1>7, <2>1, Redefines DEF IInv
<1>9. visited' \subseteq Levels
  <2>1. visited \subseteq Levels
    BY DEF IInv, TypeOK
  <2> QED
    BY <1>2, <1>5, <2>1
<1>10. TypeOK' /\ Placed' /\ Recorded'
  BY <1>3, <1>8, <1>9 DEF IInv, TypeOK, Placed, Live, Recorded, IsRecorded, MaxRound
<1>11. CASE Live /\ run.chain = c
  <2>1. visited' = {h[i] : i \in {j \in N : j <= run.cursor}}
    BY <1>2, <1>11
  <2>2. ASSUME NEW i \in DOMAIN h, i > run.cursor PROVE h[i] \notin visited'
    <3>1. ASSUME NEW j \in N, j <= run.cursor PROVE h[i] # h[j]
      BY <1>0, <1>2, <1>4, <2>2, <3>1
    <3> QED
      BY <2>1, <3>1
  <2>3. ASSUME NEW i \in DOMAIN h, i <= run.cursor PROVE h[i] \in visited'
    BY <1>4, <2>1, <2>3
  <2>4. Sure => run.cursor < Cardinality(DOMAIN h)
    BY <1>7, <1>11 DEF IInv, Within, IsWithin
  <2>5. Within' /\ Exact'
    BY <1>3, <1>8, <1>11, <2>2, <2>3, <2>4 DEF Within, IsWithin, Exact, IsExact
  <2> QED
    BY <1>8, <1>10, <2>5 DEF IInv
<1>12. CASE ~(Live /\ run.chain = c)
  <2>1. Live => visited' = visited
    BY <1>2, <1>12
  <2>2. Within' /\ Exact'
    BY <1>3, <1>8, <1>12, <2>1 DEF IInv, Placed, Within, IsWithin, Exact, IsExact, Live
  <2> QED
    BY <1>8, <1>10, <2>2 DEF IInv
<1> QED
  BY <1>11, <1>12

\* Removing a chain, and the run on it.
LEMMA DeleteChainKeeps ==
    ASSUME IInv, NEW c \in DOMAIN defs, DeleteChain(c), UNCHANGED edits
    PROVE  IInv'
<1>1. /\ "drop" \in edits /\ UNCHANGED <<visited, paged, overlapped, edits>>
      /\ deleting' \subseteq deleting /\ Sure' = Sure
      /\ defs' = [d \in DOMAIN defs \ {c} |-> defs[d]]
      /\ run' = IF run.chain = c THEN NoRun ELSE run
      /\ pages' = {IF p.chain = c THEN [p EXCEPT !.chain = NoChain] ELSE p : p \in pages}
  BY DEF DeleteChain, Sure
<1>2. PICK alive \in SUBSET Chains : defs \in [alive -> Definitions]
  BY DEF IInv, TypeOK
<1>3. /\ defs' \in [alive \ {c} -> Definitions] /\ DOMAIN defs' = alive \ {c}
      /\ DOMAIN defs = alive /\ \A d \in alive \ {c} : defs'[d] = defs[d]
  BY <1>1, <1>2
<1>4. run' \in Run /\ run \in Run
  <2>1. MaxRound \in Nat /\ MaxIndex \in Nat
    BY DefinitionAssumption DEF IInv, TypeOK, MaxRound
  <2>2. NoRun \in Run
    <3>1. -1 \in -1 .. MaxIndex /\ 0 \in 0 .. MaxRound
      BY <2>1
    <3> QED
      BY <3>1 DEF NoRun, Run
  <2> QED
    BY <1>1, <2>2 DEF IInv, TypeOK, Run
<1>5. pages' \subseteq Page
  <2>1. ASSUME NEW p \in pages
        PROVE  (IF p.chain = c THEN [p EXCEPT !.chain = NoChain] ELSE p) \in Page
    <3>1. p \in Page
      BY DEF IInv, TypeOK, Page
    <3>2. [p EXCEPT !.chain = NoChain] \in Page
      BY <3>1 DEF Page
    <3> QED
      BY <3>1, <3>2
  <2> QED
    BY <1>1, <2>1
<1>6. TypeOK'
  <2>1. MaxRound' = MaxRound
    BY <1>1 DEF MaxRound
  <2>2. alive \ {c} \in SUBSET Chains
    OBVIOUS
  <2> QED
    BY <1>1, <1>3, <1>4, <1>5, <2>1, <2>2 DEF IInv, TypeOK, Run, Page
<1>7. Distinct' /\ Contiguous' /\ Recorded'
  BY <1>1, <1>3 DEF IInv, Distinct, Contiguous, Recorded
<1>8. ASSUME Live'
      PROVE  Live /\ run' = run /\ run.chain \in alive \ {c}
  BY <1>1, <1>3, <1>8 DEF IInv, Live, NoRun, Placed
<1>9. Placed' /\ Within' /\ Exact'
  BY <1>1, <1>3, <1>8 DEF IInv, Placed, Within, IsWithin, Exact, IsExact
<1> QED
  BY <1>6, <1>7, <1>9 DEF IInv

-----------------------------------------------------------------------------
(* Theorems.                                                               *)

\* Two definitions as the console leaves them, and no run yet.
LEMMA InitIInv == Init => IInv
<1> SUFFICES ASSUME Init PROVE IInv
  OBVIOUS
<1>1. /\ edits \in DOMAIN Rounds /\ defs \in [Chains -> Definitions]
      /\ run = NoRun /\ pages = {} /\ visited = {} /\ paged = {}
      /\ deleting = {} /\ overlapped = FALSE
  BY DEF Init
<1>2. run \in Run
  <2>1. MaxRound \in Nat /\ MaxIndex \in Nat
    BY <1>1, DefinitionAssumption DEF MaxRound
  <2>2. -1 \in -1 .. MaxIndex /\ 0 \in 0 .. MaxRound
    BY <2>1
  <2> QED
    BY <1>1, <2>2 DEF NoRun, Run
<1>3. TypeOK
  BY <1>1, <1>2 DEF TypeOK, Run
<1>4. Placed /\ Within /\ Exact /\ Recorded
  BY <1>1 DEF NoRun, Live, Placed, Within, Exact, Recorded, IsRecorded
<1>5. Distinct /\ Contiguous
  BY DEF Init, Distinct, Contiguous
<1> QED
  BY <1>3, <1>4, <1>5 DEF IInv

\* Every step keeps the invariant.
LEMMA StepIInv == IInv /\ [Next]_vars => IInv'
<1> SUFFICES ASSUME IInv, [Next]_vars PROVE IInv'
  OBVIOUS
<1>1. CASE Fires /\ UNCHANGED edits
  <2>1. PICK r, V, P : Rises(r, V, P)
    BY <1>1, FiresRise
  <2> QED
    BY <2>1, Keeps DEF IInv
<1>2. CASE Stop /\ UNCHANGED edits
  BY <1>2, StopKeeps
<1>3. ASSUME NEW c \in DOMAIN defs, Edit(c), UNCHANGED edits PROVE IInv'
  <2>1. ASSUME NEW i \in DOMAIN defs[c], DeleteLevel(c, i) \/ DeleteUnseen(c, i)
        PROVE  IInv'
    BY <1>3, <2>1, RemoveKeeps
  <2>2. ASSUME NEW i \in 0 .. MaxIndex, NEW l \in Levels, AddLevel(c, i, l) PROVE IInv'
    BY <1>3, <2>2, AddLevelKeeps
  <2>3. CASE ReorderLevels(c)
    BY <1>3, <2>3, ReorderKeeps
  <2>4. CASE DeleteChain(c)
    BY <1>3, <2>4, DeleteChainKeeps
  <2>5. ASSUME NEW i \in DOMAIN defs[c], LookForRun(c, i) PROVE IInv'
    BY <1>3, <2>5, LookKeeps
  <2> QED
    BY <1>3, <2>1, <2>2, <2>3, <2>4, <2>5 DEF Edit
<1>4. CASE UNCHANGED vars
  BY <1>4
     DEF vars, IInv, TypeOK, Placed, Distinct, Contiguous, Within, IsWithin, Exact, IsExact,
         Recorded, IsRecorded, Live, MaxRound, Sure
<1> QED
  BY <1>1, <1>2, <1>3, <1>4 DEF Next

\* The invariant holds in every reachable state.
THEOREM Invariance == Spec => []IInv
BY InitIInv, StepIInv, PTL DEF Spec

\* The levels ahead of a live run were not visited, and unless levels are
\* inserted or a deletion passed the run by, those behind it are exactly the
\* visited ones, for any definitions and any sequence of edits, restarts and
\* handoffs.
THEOREM CursorStaysExact == Spec => []CursorIsExact
<1>1. IInv => CursorIsExact
  <2> SUFFICES ASSUME IInv, Live PROVE CursorIsExact
    BY DEF CursorIsExact, Live
  <2> DEFINE f == defs[run.chain]
  <2>1. run.cursor \in Int /\ \A i \in DOMAIN f : i \in Nat
    <3>1. run.chain \in DOMAIN defs
      BY DEF IInv, Placed
    <3> QED
      BY <3>1, DefsAre, DefinitionIs, DefinitionAssumption DEF IInv, TypeOK
  <2>2. IsExact(f, run.cursor, visited, Sure)
    BY DEF IInv, Exact
  <2>3. Above(run) = {i \in DOMAIN f : i > run.cursor}
    BY DEF Above
  <2>4. \A I : LevelsAt(I) = {f[i] : i \in I}
    BY DEF LevelsAt
  <2> HIDE DEF f
  <2>5. LevelsAt(Above(run)) \cap visited = {}
    BY <2>2, <2>3, <2>4 DEF IsExact
  <2>6. ASSUME Sure
        PROVE  LevelsAt(DOMAIN f \ Above(run)) = LevelsAt(DOMAIN f) \cap visited
    <3>1. \A i \in DOMAIN f \ Above(run) : i <= run.cursor
      BY <2>1, <2>3
    <3>2. \A i \in DOMAIN f \ Above(run) : f[i] \in visited
      BY <2>2, <2>6, <3>1 DEF IsExact
    <3>3. \A i \in DOMAIN f : f[i] \in visited => i \in DOMAIN f \ Above(run)
      BY <2>2, <2>3 DEF IsExact
    <3> QED
      BY <2>4, <3>2, <3>3
  <2> QED
    BY <2>5, <2>6 DEF CursorIsExact, Sure, f
<1> QED
  BY <1>1, Invariance, PTL

\* Whoever may acknowledge as paged in the current run was paged by it.
THEOREM TakersArePaged == Spec => []TakersWerePaged
<1>1. IInv => TakersWerePaged
  BY DEF IInv, Recorded, IsRecorded, TakersWerePaged, PagedInCurrentRun
<1> QED
  BY <1>1, Invariance, PTL

\* A run that stops at a level has recorded new pages to everyone it targets.
THEOREM StopsHavePaged == Spec => FiringPages
<1>1. ASSUME IInv, UNCHANGED edits, Fires, run'.status = "live", "drop" \notin edits,
             NEW u \in Targets[defs[run'.chain][run'.cursor]]
      PROVE  [user |-> u, chain |-> run'.chain, index |-> run'.cursor,
              round |-> run'.round] \in pages' \ pages
  <2>1. PICK r, V, P : Rises(r, V, P)
    BY <1>1, FiresRise
  <2> QED
    BY <1>1, <2>1, Keeps DEF IInv
<1>2. [Next]_vars => UNCHANGED edits
  BY DEF Next, vars
<1>3. IInv /\ [Next]_vars =>
        [Fires /\ run'.status = "live" /\ "drop" \notin edits =>
           \A u \in Targets[defs[run'.chain][run'.cursor]] :
             [user |-> u, chain |-> run'.chain, index |-> run'.cursor,
              round |-> run'.round] \in pages' \ pages]_vars
  BY <1>1, <1>2
<1> QED
  BY <1>3, Invariance, PTL DEF Spec, FiringPages

=============================================================================
