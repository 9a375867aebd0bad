---------------------------- MODULE Rotation_proofs ----------------------------
(***************************************************************************)
(* Rotation for any number of people, lengths of day and shift, overrides  *)
(* and saves: shifts are whole, and people who come and go move nobody     *)
(* else's.                                                                 *)
(***************************************************************************)
EXTENDS Rotation, FiniteSetTheorems, TLAPS

-----------------------------------------------------------------------------
(* Ranks: a place is found by how many come before it.                     *)

Before(f, u) == {v \in DOMAIN f : f[v] < f[u]}

\* Different places have different numbers of places before them, all below
\* the number of places.
LEMMA Ranks ==
    ASSUME NEW f, f \in [DOMAIN f -> Nat], IsFiniteSet(DOMAIN f), IsInjective(f)
    PROVE  /\ Cardinality(DOMAIN f) \in Nat
           /\ \A u \in DOMAIN f : Cardinality(Before(f, u)) \in 0 .. (Cardinality(DOMAIN f) - 1)
           /\ \A u, v \in DOMAIN f :
                Cardinality(Before(f, u)) = Cardinality(Before(f, v)) => u = v
<1> DEFINE D == DOMAIN f
<1>1. Cardinality(D) \in Nat
  BY FS_CardinalityType
<1>2. ASSUME NEW u \in D
      PROVE  IsFiniteSet(Before(f, u)) /\ Cardinality(Before(f, u)) \in 0 .. (Cardinality(D) - 1)
  <2>1. Before(f, u) \in SUBSET D /\ Before(f, u) # D
    BY DEF Before
  <2>2. /\ IsFiniteSet(Before(f, u))
        /\ Cardinality(Before(f, u)) <= Cardinality(D)
        /\ Cardinality(Before(f, u)) # Cardinality(D)
    BY <2>1, FS_Subset
  <2>3. Cardinality(Before(f, u)) \in Nat
    BY <2>2, FS_CardinalityType
  <2> QED
    BY <1>1, <2>2, <2>3
<1>3. ASSUME NEW u \in D, NEW v \in D, f[u] < f[v]
      PROVE  Cardinality(Before(f, u)) # Cardinality(Before(f, v))
  <2>1. Before(f, u) \in SUBSET Before(f, v) /\ u \in Before(f, v) /\ u \notin Before(f, u)
    BY <1>3 DEF Before
  <2> QED
    BY <1>2, <2>1, FS_Subset
<1>4. ASSUME NEW u \in D, NEW v \in D, Cardinality(Before(f, u)) = Cardinality(Before(f, v))
      PROVE  u = v
  <2>1. ~(f[u] < f[v]) /\ ~(f[v] < f[u])
    BY <1>3, <1>4
  <2>2. f[u] = f[v]
    BY <2>1
  <2> QED
    BY <2>2 DEF IsInjective
<1> QED
  BY <1>1, <1>2, <1>4

\* Every number below the number of places is reached.
LEMMA RanksAll ==
    ASSUME NEW f, f \in [DOMAIN f -> Nat], IsFiniteSet(DOMAIN f), IsInjective(f),
           NEW k \in 0 .. (Cardinality(DOMAIN f) - 1)
    PROVE  \E u \in DOMAIN f : Cardinality(Before(f, u)) = k
<1> DEFINE D == DOMAIN f
           n == Cardinality(D)
           g == [u \in D |-> Cardinality(Before(f, u))]
<1>1. n \in Nat
  BY FS_CardinalityType
<1>2. IsFiniteSet(0 .. (n - 1)) /\ Cardinality(0 .. (n - 1)) = n
  <2> HIDE DEF n
  <2>1. 0 \in Int /\ n - 1 \in Int
    BY <1>1
  <2>2. /\ IsFiniteSet(0 .. (n - 1))
        /\ Cardinality(0 .. (n - 1)) = IF 0 > n - 1 THEN 0 ELSE (n - 1) - 0 + 1
    BY <2>1, FS_Interval
  <2> QED
    BY <1>1, <2>2
<1>3. g \in [D -> 0 .. (n - 1)] /\ \A u, v \in D : g[u] = g[v] => u = v
  BY Ranks
<1> HIDE DEF g, n
<1>4. g \in Injection(D, 0 .. (n - 1))
  BY <1>3 DEF Injection, IsInjective
<1>5. g \in Surjection(D, 0 .. (n - 1))
  BY <1>2, <1>4, FS_Injection DEF n
<1>6. \E u \in D : g[u] = k
  BY <1>5 DEF Surjection, n
<1> QED
  BY <1>6 DEF g

\* A finite set of numbers has a least and a greatest one.
LEMMA Extremes ==
    ASSUME NEW S \in SUBSET Nat, IsFiniteSet(S), S # {}
    PROVE  /\ \E x \in S : \A y \in S : x <= y
           /\ \E x \in S : \A y \in S : x >= y
<1> DEFINE f == [x \in S |-> x]
           n == Cardinality(S)
<1>1. f \in [DOMAIN f -> Nat] /\ DOMAIN f = S /\ IsInjective(f)
  BY DEF IsInjective
<1>2. \A u \in S : Before(f, u) = {v \in S : v < u}
  BY DEF Before
<1> HIDE DEF f
<1>3. n \in Nat /\ n # 0
  BY FS_CardinalityType, FS_EmptySet
<1>4. \A k \in 0 .. (n - 1) : \E u \in S : Cardinality({v \in S : v < u}) = k
  <2>1. \A k \in 0 .. (Cardinality(DOMAIN f) - 1) :
          \E u \in DOMAIN f : Cardinality(Before(f, u)) = k
    BY <1>1, RanksAll
  <2>2. \A k \in 0 .. (n - 1) : \E u \in S : Cardinality(Before(f, u)) = k
    BY <1>1, <2>1
  <2> HIDE DEF n
  <2> QED
    BY <1>2, <2>2
<1> HIDE DEF n
<1>5. PICK x \in S : Cardinality({v \in S : v < x}) = 0
  <2>1. 0 \in 0 .. (n - 1)
    BY <1>3
  <2> QED
    BY <1>4, <2>1
<1>6. {v \in S : v < x} = {}
  <2>1. IsFiniteSet({v \in S : v < x})
    BY FS_Subset
  <2> QED
    BY <1>5, <2>1, FS_EmptySet
<1>7. PICK z \in S : Cardinality({v \in S : v < z}) = n - 1
  <2>1. n - 1 \in 0 .. (n - 1)
    BY <1>3
  <2> QED
    BY <1>4, <2>1
<1>8. {v \in S : v < z} = S \ {z}
  <2>1. IsFiniteSet(S \ {z}) /\ Cardinality(S \ {z}) = n - 1
    BY FS_RemoveElement DEF n
  <2>2. {v \in S : v < z} \in SUBSET (S \ {z})
    OBVIOUS
  <2> QED
    BY <1>7, <2>1, <2>2, FS_Subset
<1>9. \A y \in S : x <= y
  BY <1>6
<1>10. \A y \in S : z >= y
  BY <1>8
<1> QED
  BY <1>9, <1>10

\* Numbers up to a bound have a least one.
LEMMA Least ==
    ASSUME NEW m \in Int, NEW S \in SUBSET (0 .. m), S # {}
    PROVE  \E x \in S : \A y \in S : x <= y
<1>1. IsFiniteSet(0 .. m)
  BY FS_Interval
<1>2. IsFiniteSet(S)
  <2> DEFINE I == 0 .. m
  <2>1. IsFiniteSet(I) /\ S \in SUBSET I
    BY <1>1
  <2> HIDE DEF I
  <2> QED
    BY <2>1, FS_Subset
<1>3. S \in SUBSET Nat
  OBVIOUS
<1> QED
  BY <1>2, <1>3, Extremes

\* Numbers have a least one.
LEMMA LeastOfNat ==
    ASSUME NEW S \in SUBSET Nat, S # {}
    PROVE  \E x \in S : \A y \in S : x <= y
<1>1. PICK m \in S : TRUE
  OBVIOUS
<1> DEFINE T == {y \in S : y <= m}
<1>2. T \in SUBSET (0 .. m) /\ T # {} /\ m \in Int
  <2>1. m \in Nat /\ m \in T
    BY <1>1
  <2>2. \A y \in T : y \in Nat /\ y <= m
    OBVIOUS
  <2> HIDE DEF T
  <2> QED
    BY <2>1, <2>2
<1>3. PICK x \in T : \A y \in T : x <= y
  <2> HIDE DEF T
  <2> QED
    BY <1>2, Least
<1> QED
  BY <1>3

-----------------------------------------------------------------------------
(* Shifts.                                                                 *)

\* What the quotient and the remainder are.
LEMMA Quotient ==
    ASSUME NEW x \in Int, NEW d \in Nat \ {0}, NEW q \in Int, NEW r \in 0 .. (d - 1),
           x = d * q + r
    PROVE  x \div d = q /\ x % d = r
<1>1. x \div d \in Int /\ x % d \in 0 .. (d - 1) /\ x = d * (x \div d) + (x % d)
  OBVIOUS
<1>2. d * (q - (x \div d)) = (x % d) - r
  BY <1>1
<1>3. ASSUME NEW e \in Int, d * e \in (1 - d) .. (d - 1) PROVE e = 0
  BY <1>3
<1>4. q - (x \div d) = 0
  BY <1>1, <1>2, <1>3
<1>5. x \div d = q
  BY <1>1, <1>4
<1> QED
  BY <1>1, <1>5

\* Round n places, every place is some steps after every other.
LEMMA Round ==
    ASSUME NEW n \in Nat \ {0}, NEW i \in Int, NEW r \in 0 .. (n - 1)
    PROVE  (r - i) % n \in 0 .. (n - 1) /\ (i + ((r - i) % n)) % n = r
<1> DEFINE d == r - i
           q == d \div n
           k == d % n
           m == 0 - q
           x == i + k
<1>1. d \in Int /\ q \in Int /\ k \in 0 .. (n - 1) /\ d = n * q + k
  OBVIOUS
<1>2. x \in Int /\ m \in Int
  BY <1>1
<1>3. x = n * m + r
  <2>1. n * m = 0 - n * q /\ n * q \in Int
    BY <1>1
  <2>2. i = r - d
    OBVIOUS
  <2> HIDE DEF d, q, k, m
  <2> QED
    BY <1>1, <2>1, <2>2
<1> HIDE DEF x, m
<1>4. x % n = r
  BY <1>2, <1>3, Quotient
<1> QED
  BY <1>1, <1>4 DEF x

\* Shifts of several days, counted in days or in hours.
LEMMA DaysOfShifts ==
    ASSUME NEW x \in Nat, NEW h \in Nat \ {0}, NEW l \in Nat \ {0}
    PROVE  (x \div h) \div l = x \div (l * h)
<1> DEFINE d == x \div h
           q == d \div l
<1>1. d \in Int /\ x % h \in 0 .. (h - 1) /\ x = h * d + (x % h)
  OBVIOUS
<1>2. q \in Int /\ d % l \in 0 .. (l - 1) /\ d = l * q + (d % l)
  BY <1>1
<1> DEFINE r == h * (d % l) + (x % h)
<1>3. x = (l * h) * q + r
  <2>1. \A a, b \in Int : h * (l * a + b) = (l * h) * a + h * b
    OBVIOUS
  <2>2. h * d = (l * h) * q + h * (d % l)
    <3> DEFINE m == d % l
    <3>1. q \in Int /\ m \in Int /\ d = l * q + m
      BY <1>2
    <3> HIDE DEF m, q, d
    <3>2. h * d = (l * h) * q + h * m
      BY <2>1, <3>1
    <3> QED
      BY <3>2 DEF m
  <2>3. x % h \in Int /\ h * (d % l) \in Int /\ (l * h) * q \in Int
    BY <1>1, <1>2
  <2> QED
    BY <1>1, <2>2, <2>3
<1>4. l * h \in Nat \ {0}
  OBVIOUS
<1>5. r \in 0 .. (l * h - 1)
  <2>1. h * (d % l) <= h * (l - 1) /\ h * (d % l) \in Nat
    BY <1>2
  <2>2. h * (l - 1) = l * h - h
    OBVIOUS
  <2> QED
    BY <1>1, <1>4, <2>1, <2>2
<1> HIDE DEF r, q, d
<1>6. x \in Int /\ q \in Int
  BY <1>2
<1>7. x \div (l * h) = q
  BY <1>3, <1>4, <1>5, <1>6, Quotient
<1> QED
  BY <1>7 DEF q, d

\* Since the Start Date, the shifts told apart by on_call_at are those told
\* apart by the clock.
LEMMA ShiftDates ==
    ASSUME setting \in Settings, NEW t \in Times, t >= Anchor * Hours + setting.start
    PROVE  /\ ShiftDate(t) \in Int /\ ShiftDate(t) >= Anchor
           /\ (ShiftDate(t) - Anchor) \div setting.length = ShiftAt(t)
<1> DEFINE h == Hours
           a == Anchor
           s == setting.start
           d == t \div h
           m == t % h
           x == t - (a * h + s)
           date == IF m < s THEN d - 1 ELSE d
           r == IF m < s THEN h + m - s ELSE m - s
<1>1. h \in Nat \ {0} /\ a \in Nat /\ s \in 0 .. (h - 1) /\ t \in Nat /\ setting.length \in Nat \ {0}
  BY RotationAssumption DEF Times
<1>2. d \in Int /\ m \in 0 .. (h - 1) /\ t = h * d + m
  BY <1>1
<1>3. x \in Nat
  <2>1. a * h \in Nat /\ t >= a * h + s
    BY <1>1
  <2> HIDE DEF h, a
  <2> QED
    BY <1>1, <2>1
<1>4. date \in Int /\ r \in 0 .. (h - 1)
  <2> HIDE DEF d, m, h, s
  <2> QED
    BY <1>1, <1>2
<1>5. x = h * (date - a) + r
  <2>1. \A i, j \in Int : h * (i - j) = h * i - j * h
    BY <1>1
  <2>2. h * (date - a) = h * date - a * h
    BY <1>1, <1>4, <2>1
  <2>3. h * date + r = h * d + m - s
    <3>1. h * (d - 1) = h * d - h
      BY <1>1, <1>2
    <3>2. h * d \in Int
      BY <1>1, <1>2
    <3> HIDE DEF d, m, h, s
    <3> QED
      BY <1>1, <1>2, <3>1, <3>2
  <2>4. h * date \in Int /\ a * h \in Int
    BY <1>1, <1>4
  <2> HIDE DEF d, m, h, s, a, date, r
  <2> QED
    BY <1>1, <1>2, <1>4, <2>2, <2>3, <2>4 DEF x
<1> HIDE DEF d, m, x, date, r, h, a, s
<1>6. x \div h = date - a
  <2> DEFINE q == date - a
  <2>1. q \in Int
    BY <1>1, <1>4
  <2>2. x = h * q + r
    BY <1>5
  <2> HIDE DEF q
  <2>3. x \div h = q
    BY <1>1, <1>3, <1>4, <2>1, <2>2, Quotient
  <2> QED
    BY <2>3 DEF q
<1>7. date - a >= 0
  <2>1. \A i \in Int : i < 0 => h * i <= 0 - h
    BY <1>1
  <2> QED
    BY <1>1, <1>3, <1>4, <1>5, <2>1
<1>8. (x \div h) \div setting.length = x \div (setting.length * h)
  BY <1>1, <1>3, DaysOfShifts
<1>9. ShiftDate(t) = date
  BY DEF ShiftDate, date, m, d, h, s
<1>10. ShiftAt(t) = x \div (setting.length * h)
  BY DEF ShiftAt, x, a, h, s
<1>11. (ShiftDate(t) - Anchor) \div setting.length = ShiftAt(t)
  BY <1>6, <1>8, <1>9, <1>10 DEF a
<1> QED
  BY <1>1, <1>4, <1>7, <1>9, <1>11 DEF a

\* The turns of a shift are one person's.
LEMMA WholeShifts ==
    ASSUME setting \in Settings
    PROVE  ShiftsAreWhole
<1> SUFFICES ASSUME NEW t \in Times, t >= Anchor * Hours + setting.start, Covered(t),
                    Covering(t) = {},
                    NEW u \in Times, u >= Anchor * Hours + setting.start, Covered(u),
                    Covering(u) = {}, ShiftAt(t) = ShiftAt(u)
             PROVE  OnCall(t) = OnCall(u)
  BY DEF ShiftsAreWhole
<1>1. Turn(t, Cardinality(DOMAIN place)) = Turn(u, Cardinality(DOMAIN place))
  BY ShiftDates, RotationAssumption DEF Turn
<1>2. OnShift(t) = OnShift(u)
  BY <1>1 DEF OnShift
<1> QED
  BY <1>2 DEF OnCall

\* Nobody hands over within a shift (on_call_at), whatever the day, the window
\* and the shift length: ShiftDate and Turn give one place to a whole shift.
THEOREM WholeShiftsAlways == Spec => []ShiftsAreWhole
<1>1. Init => setting \in Settings
  BY DEF Init
<1>2. setting \in Settings /\ [Next]_vars => (setting \in Settings)'
  BY DEF Next, People, Editor, Leave, Return, Cover, Uncover, Save, SendAdd, SendDrop,
         SendOrder, vars
<1>3. setting \in Settings => ShiftsAreWhole
  BY WholeShifts
<1> QED
  BY <1>1, <1>2, <1>3, PTL DEF Spec

-----------------------------------------------------------------------------
(* The rotation and the editor's form, whatever came between.              *)

\* The form has to add people of its order, and each member it does not show
\* is one it has to remove.
FormFits ==
    /\ form \in [adds : SUBSET Nat, drops : SUBSET Users, order : Orders \cup {<<>>}]
    /\ form.adds \subseteq DOMAIN form.order
    /\ form # Closed => Members \subseteq (Range(form.order) \cup form.drops)

\* No two people have one place.
PlacesDiffer ==
    /\ DOMAIN place \subseteq Users /\ removed \subseteq DOMAIN place
    /\ place \in [DOMAIN place -> Nat] /\ IsInjective(place)

RInv ==
    /\ setting \in Settings
    /\ PlacesDiffer
    /\ overrides \subseteq [by : Users, from : Times, until : Times]
    /\ FormFits

\* An order numbers some of the users from 1.
LEMMA OrderType ==
    ASSUME NEW o \in Orders \cup {<<>>}
    PROVE  DOMAIN o \subseteq Nat \ {0} /\ o \in [DOMAIN o -> Users]
<1>1. CASE o = <<>>
  BY <1>1
<1>2. CASE o \in Orders
  <2>1. PICK U \in (SUBSET Users) \ {{}} : o \in [1 .. Cardinality(U) -> U]
    BY <1>2 DEF Orders
  <2>2. Cardinality(U) \in Nat
    BY <2>1, RotationAssumption, FS_Subset, FS_CardinalityType
  <2> QED
    BY <2>1, <2>2
<1> QED
  BY <1>1, <1>2

\* Positions by an order are numbers, different for different people.
LEMMA IndexType ==
    ASSUME NEW o \in Orders \cup {<<>>}
    PROVE  /\ \A u \in Range(o) : Index(o, u) \in Nat
           /\ \A u, v \in Range(o) : Index(o, u) = Index(o, v) => u = v
<1>1. ASSUME NEW u \in Range(o)
      PROVE  /\ Index(o, u) \in Nat
             /\ Index(o, u) + 1 \in DOMAIN o /\ o[Index(o, u) + 1] = u
  <2> DEFINE k == CHOOSE i \in DOMAIN o : o[i] = u
  <2>1. k \in DOMAIN o /\ o[k] = u
    BY DEF Range
  <2>2. k \in Nat \ {0}
    BY <2>1, OrderType
  <2>3. Index(o, u) = k - 1
    BY DEF Index
  <2> HIDE DEF k
  <2> QED
    BY <2>1, <2>2, <2>3
<1> QED
  BY <1>1

\* A roster begins with a place for each of its people, in order.
LEMMA RInitial ==
    ASSUME Init
    PROVE  RInv
<1>1. PICK o \in Orders : place = [u \in Range(o) |-> Index(o, u)]
  BY DEF Init
<1>2. PlacesDiffer
  <2>1. Range(o) \subseteq Users
    BY OrderType DEF Range
  <2> QED
    BY <1>1, <2>1, IndexType DEF Init, PlacesDiffer, IsInjective
<1>3. FormFits
  BY DEF Init, FormFits, Closed
<1> QED
  BY <1>2, <1>3 DEF Init, RInv

\* The places taken have a greatest one.
LEMMA LastPlace ==
    ASSUME PlacesDiffer, DOMAIN place # {}
    PROVE  Max(Range(place)) \in Nat
<1> DEFINE S == Range(place)
<1>1. S \in SUBSET Nat /\ S # {}
  BY DEF PlacesDiffer, Range
<1>2. IsFiniteSet(DOMAIN place)
  BY RotationAssumption, FS_Subset DEF PlacesDiffer
<1>3. place \in Surjection(DOMAIN place, S)
  BY DEF Surjection, Range, PlacesDiffer
<1>4. IsFiniteSet(S)
  BY <1>2, <1>3, FS_Surjection
<1> HIDE DEF S
<1>5. \E x \in S : \A y \in S : x >= y
  BY <1>1, <1>4, Extremes
<1>6. Max(S) \in S
  BY <1>5 DEF Max
<1> QED
  BY <1>1, <1>6 DEF S

\* No action gives two people one place, or shows the form a member it neither
\* keeps nor removes.
LEMMA RSteps ==
    ASSUME RInv, [Next]_vars
    PROVE  RInv'
<1> USE DEF RInv
<1>1. CASE UNCHANGED vars
  BY <1>1 DEF vars, PlacesDiffer, FormFits, Members
<1>2. ASSUME NEW u \in Users, NEW to \in {"viewer", "inactive"}, Leave(u, to)
      PROVE  RInv'
  <2>1. Members' \subseteq Members
    BY <1>2 DEF Leave, Members
  <2> QED
    BY <1>2, <2>1 DEF Leave, PlacesDiffer, FormFits
<1>3. ASSUME NEW u \in Users, Return(u)
      PROVE  RInv'
  BY <1>3 DEF Return, PlacesDiffer, FormFits, Members
<1>4. ASSUME NEW u \in Users, NEW span \in Spans, Cover(u, span)
      PROVE  RInv'
  <2>1. span[1] \in Times /\ span[2] \in Times
    BY RotationAssumption
  <2> QED
    BY <1>4, <2>1 DEF Cover, PlacesDiffer, FormFits, Members
<1>5. ASSUME NEW o \in overrides, Uncover(o)
      PROVE  RInv'
  BY <1>5 DEF Uncover, PlacesDiffer, FormFits, Members
<1>6. ASSUME NEW desired \in Orders, Save(desired)
      PROVE  RInv'
  <2>1. DOMAIN desired \subseteq Nat
    BY OrderType
  <2>2. Members \ Range(desired) \subseteq Users
    BY DEF Members, PlacesDiffer
  <2> QED
    BY <1>6, <2>1, <2>2 DEF Save, PlacesDiffer, FormFits, Members
<1>7. CASE SendAdd
  <2> DEFINE k == Min(form.adds)
             u == form.order[k]
             p == NewPlace(k - 1)
             refused == \/ standing[u] # "operator" \/ u \in Members
                        \/ u \notin DOMAIN place /\ p \in Range(place)
  <2>1. k \in form.adds /\ k \in Nat \ {0} /\ k \in DOMAIN form.order
    <3>1. form.adds \subseteq Nat \ {0}
      BY OrderType DEF FormFits
    <3>2. form.adds # {}
      BY <1>7 DEF SendAdd
    <3>3. \E x \in form.adds : \A y \in form.adds : x <= y
      BY <3>1, <3>2, LeastOfNat
    <3>4. k \in form.adds
      BY <3>3 DEF Min
    <3> QED
      BY <3>1, <3>4 DEF FormFits
  <2>2. u \in Range(form.order) /\ u \in Users
    BY <2>1, OrderType DEF FormFits, Range
  <2>3. p \in Nat
    <3>1. CASE \E v \in removed : place[v] = k - 1
      BY <3>1, <2>1, LastPlace DEF NewPlace, PlacesDiffer
    <3>2. CASE ~ \E v \in removed : place[v] = k - 1
      <4>1. p = k - 1
        BY <3>2 DEF NewPlace
      <4> HIDE DEF k, p
      <4> QED
        BY <4>1, <2>1
    <3> QED
      BY <3>1, <3>2
  <2>4. /\ form' = IF refused THEN Closed ELSE [form EXCEPT !.adds = @ \ {k}]
        /\ removed' = IF refused THEN removed ELSE removed \ {u}
        /\ place' = IF refused \/ u \in DOMAIN place THEN place
                    ELSE [v \in DOMAIN place \cup {u} |-> IF v = u THEN p ELSE place[v]]
        /\ UNCHANGED <<setting, overrides>>
    BY <1>7 DEF SendAdd
  <2> HIDE DEF k, u, p
  <2>5. CASE refused
    BY <2>4, <2>5 DEF PlacesDiffer, FormFits, Closed
  <2>6. CASE ~refused
    <3>1. PlacesDiffer'
      <4>1. CASE u \in DOMAIN place
        BY <2>4, <2>6, <4>1 DEF PlacesDiffer
      <4>2. CASE u \notin DOMAIN place
        <5>1. p \notin Range(place)
          BY <2>6, <4>2
        <5>2. \A v \in DOMAIN place : place[v] # p
          BY <5>1 DEF Range
        <5>3. place' = [v \in DOMAIN place \cup {u} |-> IF v = u THEN p ELSE place[v]]
          BY <2>4, <2>6, <4>2
        <5> QED
          BY <2>2, <2>3, <2>4, <2>6, <4>2, <5>2, <5>3 DEF PlacesDiffer, IsInjective
      <4> QED
        BY <4>1, <4>2
    <3>2. form' = [form EXCEPT !.adds = @ \ {k}]
      BY <2>4, <2>6
    <3>3. Members' \subseteq Members \cup {u}
      BY <2>4, <2>6 DEF Members
    <3>4. form # Closed
      BY <2>1 DEF Closed
    <3>5. FormFits'
      BY <2>2, <3>2, <3>3, <3>4 DEF FormFits
    <3> QED
      BY <2>4, <3>1, <3>5
  <2> QED
    BY <2>5, <2>6
<1>8. CASE SendDrop
  <2> DEFINE u == CHOOSE v \in form.drops : \A w \in form.drops : place[v] <= place[w]
  <2>1. /\ form # Closed
        /\ form' = IF u \in Members THEN [form EXCEPT !.drops = @ \ {u}] ELSE Closed
        /\ removed' = removed \cup ({u} \cap Members)
        /\ UNCHANGED <<setting, place, overrides>>
    BY <1>8 DEF SendDrop, Closed
  <2> HIDE DEF u
  <2>2. PlacesDiffer'
    BY <2>1 DEF PlacesDiffer, Members
  <2>3. Members' = Members \ {u}
    BY <2>1 DEF Members
  <2>4. FormFits'
    BY <2>1, <2>3 DEF FormFits, Closed
  <2> QED
    BY <2>1, <2>2, <2>4
<1>9. CASE SendOrder
  <2>1. /\ form # Closed /\ form.drops = {} /\ form' = Closed
        /\ UNCHANGED <<setting, overrides>>
    BY <1>9 DEF SendOrder
  <2>2. FormFits'
    BY <2>1 DEF FormFits, Closed
  <2>3. Members \subseteq Range(form.order) /\ form.order \in Orders \cup {<<>>}
    BY <2>1 DEF FormFits
  <2>4. CASE UNCHANGED <<place, removed>>
    BY <2>1, <2>2, <2>4 DEF PlacesDiffer
  <2>5. CASE /\ removed' = {}
             /\ place' = [u \in Members |->
                            IF u \in Range(form.order) THEN Index(form.order, u) ELSE Aside(u)]
    <3>1. place' = [u \in Members |-> Index(form.order, u)]
      BY <2>3, <2>5
    <3>2. PlacesDiffer'
      BY <2>3, <2>5, <3>1, IndexType DEF PlacesDiffer, Members, IsInjective
    <3> QED
      BY <2>1, <2>2, <3>2
  <2> QED
    BY <1>9, <2>4, <2>5 DEF SendOrder
<1> QED
  BY <1>1, <1>2, <1>3, <1>4, <1>5, <1>6, <1>7, <1>8, <1>9 DEF Next, People, Editor

-----------------------------------------------------------------------------
(* Who is on call, before a step and after it.                             *)

\* Round the rotation from any place, somebody who can be paged comes, and
\* Steps counts to the first.
StepsCount ==
    PlacesDiffer /\ Available # {} =>
        \A i \in Int : /\ Steps(i) \in Nat
                      /\ After(i, Steps(i)) \in Available
                      /\ \A j \in 0 .. (Steps(i) - 1) : After(i, j) \notin Available

LEMMA StepsFirst ==
    StepsCount
<1> SUFFICES ASSUME PlacesDiffer, Available # {}, NEW i \in Int
             PROVE  /\ Steps(i) \in Nat
                    /\ After(i, Steps(i)) \in Available
                    /\ \A j \in 0 .. (Steps(i) - 1) : After(i, j) \notin Available
  BY DEF StepsCount
<1> DEFINE D == DOMAIN place
           n == Cardinality(D)
           S == {k \in 0 .. (n - 1) : After(i, k) \in Available}
<1>1. IsFiniteSet(D) /\ place \in [D -> Nat] /\ IsInjective(place)
  BY RotationAssumption, FS_Subset DEF PlacesDiffer
<1>2. PICK u \in Available : TRUE
  OBVIOUS
<1>3. u \in D
  BY <1>2 DEF Available, Members
<1> DEFINE r == Cardinality(Before(place, u))
<1>4. /\ n \in Nat /\ r \in 0 .. (n - 1)
      /\ \A v \in D : Cardinality(Before(place, v)) = r => v = u
  BY <1>1, <1>3, Ranks
<1>5. At(D, r) = u
  <2>1. \A v \in D : {w \in D : place[w] < place[v]} = Before(place, v)
    BY DEF Before
  <2>2. At(D, r) = CHOOSE v \in D : Cardinality(Before(place, v)) = r
    BY <2>1 DEF At
  <2>3. \A v \in D : Cardinality(Before(place, v)) = r <=> v = u
    BY <1>3, <1>4
  <2> HIDE DEF r, D
  <2> QED
    BY <1>3, <2>2, <2>3
<1> HIDE DEF r, n, D
<1> DEFINE k == (r - i) % n
<1>6. k \in 0 .. (n - 1) /\ (i + k) % n = r
  <2>1. n \in Nat \ {0}
    BY <1>4
  <2> QED
    BY <1>4, <2>1, Round
<1>7. k \in S
  <2>1. After(i, k) = At(D, (i + k) % n)
    BY DEF After, n, D
  <2> QED
    BY <1>2, <1>5, <1>6, <2>1
<1>8. S \in SUBSET (0 .. (n - 1)) /\ S # {} /\ n - 1 \in Int
  BY <1>4, <1>7
<1> HIDE DEF k
<1>9. PICK x \in S : \A y \in S : x <= y
  <2> HIDE DEF S
  <2> QED
    BY <1>8, Least
<1>10. /\ x \in 0 .. (n - 1) /\ After(i, x) \in Available
       /\ \A j \in 0 .. (x - 1) : After(i, j) \notin Available
  BY <1>4, <1>9
<1>11. /\ Steps(i) \in 0 .. (n - 1) /\ After(i, Steps(i)) \in Available
       /\ \A j \in 0 .. (Steps(i) - 1) : After(i, j) \notin Available
  BY <1>10 DEF Steps, n, D
<1> QED
  BY <1>4, <1>11

\* While an override covers a time, one that starts first does.
CoverStarts ==
    overrides \subseteq [by : Users, from : Times, until : Times] =>
        \A t \in Times : Covering(t) # {} =>
            \E o \in Covering(t) : \A x \in Covering(t) : o.from <= x.from

LEMMA FirstCover ==
    CoverStarts
<1> SUFFICES ASSUME overrides \subseteq [by : Users, from : Times, until : Times],
                    NEW t \in Times, Covering(t) # {}
             PROVE  \E o \in Covering(t) : \A x \in Covering(t) : o.from <= x.from
  BY DEF CoverStarts
<1> DEFINE S == {o.from : o \in Covering(t)}
<1>1. S \in SUBSET Nat /\ S # {}
  BY DEF Covering, Times
<1>2. PICK f \in S : \A g \in S : f <= g
  <2> HIDE DEF S
  <2> QED
    BY <1>1, LeastOfNat
<1> QED
  BY <1>2

\* The turn is a number.
LEMMA TurnType ==
    ASSUME setting \in Settings, NEW t \in Times, NEW n \in Nat \ {0}
    PROVE  Turn(t, n) \in Int
<1>1. Hours \in Nat \ {0} /\ setting.length \in Nat \ {0} /\ Anchor \in Nat /\ t \in Int
  BY RotationAssumption DEF Times
<1>2. ShiftDate(t) \in Int
  BY <1>1 DEF ShiftDate
<1>3. (ShiftDate(t) - Anchor) \div setting.length \in Int
  BY <1>1, <1>2
<1> QED
  BY <1>3 DEF Turn

\* A step that leaves the places, the overrides and the setting moves nobody
\* who can be paged before it and after it.
LEMMA MovesNobodyElse ==
    ASSUME RInv, RInv', setting' = setting, place' = place, overrides' = overrides,
           Available # {}, Available' # {},
           NEW t \in Times, ~Tied(t), OnCall(t) \in Available', OnCall(t)' \in Available
    PROVE  OnCall(t)' = OnCall(t)
<1>0. StepsCount /\ StepsCount' /\ CoverStarts /\ CoverStarts'
  <2>1. StepsCount /\ CoverStarts
    BY StepsFirst, FirstCover
  <2>2. StepsCount' /\ CoverStarts'
    BY StepsFirst, FirstCover, PTL
  <2> QED
    BY <2>1, <2>2
<1>1. /\ \A o \in Covering(t) : o.by \in Available' => o \in Covering(t)'
      /\ \A o \in Covering(t)' : o.by \in Available => o \in Covering(t)
  BY DEF Covering, Available
<1>2. CASE Covering(t) # {}
  <2> DEFINE o == CHOOSE c \in Covering(t) : \A x \in Covering(t) : c.from <= x.from
             z == CHOOSE c \in Covering(t)' : \A x \in Covering(t)' : c.from <= x.from
  <2>1. o \in Covering(t) /\ \A x \in Covering(t) : o.from <= x.from
    BY <1>0, <1>2 DEF RInv, CoverStarts
  <2>2. OnCall(t) = o.by
    BY <1>2 DEF OnCall
  <2>3. o \in Covering(t)'
    BY <1>1, <2>1, <2>2
  <2>4. z \in Covering(t)' /\ \A x \in Covering(t)' : z.from <= x.from
    BY <1>0, <2>3 DEF RInv, CoverStarts
  <2>5. OnCall(t)' = z.by
    BY <2>3 DEF OnCall
  <2> HIDE DEF o, z
  <2>6. z \in Covering(t)
    BY <1>1, <2>4, <2>5
  <2>7. o.from = z.from
    <3>1. o.from \in Nat /\ z.from \in Nat
      BY <2>1, <2>6 DEF RInv, Covering, Times
    <3>2. o.from <= z.from /\ z.from <= o.from
      BY <2>1, <2>3, <2>4, <2>6
    <3> QED
      BY <3>1, <3>2
  <2> QED
    BY <2>1, <2>2, <2>5, <2>6, <2>7 DEF Tied
<1>3. CASE Covering(t) = {} /\ Covering(t)' # {}
  <2> DEFINE z == CHOOSE c \in Covering(t)' : \A x \in Covering(t)' : c.from <= x.from
  <2>1. z \in Covering(t)'
    BY <1>0, <1>3 DEF RInv, CoverStarts
  <2>2. OnCall(t)' = z.by
    BY <1>3 DEF OnCall
  <2> HIDE DEF z
  <2> QED
    BY <1>1, <1>3, <2>1, <2>2
<1>4. CASE Covering(t) = {} /\ Covering(t)' = {} /\ ~Covered(t)
  <2>1. ~Covered(t)'
    BY <1>4 DEF Covered
  <2> QED
    BY <1>4, <2>1 DEF OnCall
<1>5. CASE Covering(t) = {} /\ Covering(t)' = {} /\ Covered(t)
  <2>1. PICK i : i = Turn(t, Cardinality(DOMAIN place))
    OBVIOUS
  <2>2. i = Turn(t, Cardinality(DOMAIN place))'
    BY <2>1 DEF Turn, ShiftDate
  <2>3. i \in Int
    <3>1. Cardinality(DOMAIN place) \in Nat \ {0}
      BY RotationAssumption, FS_Subset, FS_CardinalityType, FS_EmptySet
         DEF RInv, PlacesDiffer, Available, Members
    <3> QED
      BY <2>1, <3>1, TurnType DEF RInv
  <2> DEFINE k == Steps(i)
             l == Steps(i)'
  <2>4. \A j : After(i, j)' = After(i, j)
    BY DEF After, At
  <2>5. /\ k \in Nat /\ After(i, k) \in Available
        /\ \A j \in 0 .. (k - 1) : After(i, j) \notin Available
    BY <1>0, <2>3 DEF RInv, StepsCount
  <2>6. PlacesDiffer' /\ StepsCount'
    BY <1>0 DEF RInv
  <2>7. /\ l \in Nat /\ After(i, l) \in Available'
        /\ \A j \in 0 .. (l - 1) : After(i, j) \notin Available'
    BY <2>3, <2>4, <2>6 DEF StepsCount
  <2>8. OnCall(t) = After(i, k)
    BY <1>5, <2>1 DEF OnCall, OnShift
  <2>9. OnCall(t)' = After(i, l)
    <3>1. Covered(t)'
      BY <1>5 DEF Covered
    <3> QED
      BY <1>5, <2>2, <2>4, <3>1 DEF OnCall, OnShift
  <2> HIDE DEF k, l
  <2>10. k = l
    BY <2>5, <2>7, <2>8, <2>9
  <2> QED
    BY <2>8, <2>9, <2>10
<1> QED
  BY <1>2, <1>3, <1>4, <1>5

\* Whoever comes or goes, and whatever requests come between, everybody who can
\* be paged before and after keeps their shifts (NobodyElseMoves).
THEOREM NobodyElse == Spec => NobodyElseMoves
<1>1. Init => RInv
  BY RInitial
<1>2. RInv /\ [Next]_vars => RInv'
  BY RSteps
<1>3. RInv /\ RInv' /\ [Next]_vars =>
        [place' = place /\ overrides' = overrides /\ Available # {} /\ Available' # {}
         => \A t \in Times :
               OnCall(t)' # OnCall(t) /\ ~Tied(t) /\ ~Tied(t)' =>
                   OnCall(t) \notin Available' \/ OnCall(t)' \notin Available]_vars
  <2> SUFFICES ASSUME RInv, RInv', [Next]_vars,
                      place' = place, overrides' = overrides,
                      Available # {}, Available' # {},
                      NEW t \in Times, OnCall(t)' # OnCall(t), ~Tied(t)
               PROVE  OnCall(t) \notin Available' \/ OnCall(t)' \notin Available
    OBVIOUS
  <2>1. setting' = setting
    BY DEF Next, People, Editor, Leave, Return, Cover, Uncover, Save, SendAdd, SendDrop,
           SendOrder, vars
  <2> QED
    BY <2>1, MovesNobodyElse
<1> QED
  BY <1>1, <1>2, <1>3, PTL DEF Spec, NobodyElseMoves

================================================================================
