--------------------------- MODULE QuarantineProofs ---------------------------
(* Why the held counters count the holds, and decisions add up: for any number *)
(* of holds, places and units.                                                 *)
EXTENDS Quarantine, Integers, FiniteSetTheorems, WellFoundedInduction, TLAPS

-----------------------------------------------------------------------------
(* Sums over finite sets *)

\* A set of numbers with 0 and every successor of its members has them all.
LEMMA SetInduction ==
  ASSUME NEW S, 0 \in S, \A i \in Nat : i \in S => i + 1 \in S
  PROVE  Nat \subseteq S
<1>. SUFFICES ASSUME Nat \ S # {}
     PROVE  FALSE
  OBVIOUS
<1>. DEFINE T == Nat \ S
<1>1. PICK m \in T : \A k \in T : <<k, m>> \notin OpToRel(<, Nat)
  BY WFMin, NatLessThanWellFounded
<1>2. m - 1 \in Nat /\ (m - 1) + 1 = m
  OBVIOUS
<1>3. m - 1 \in T /\ <<m - 1, m>> \in OpToRel(<, Nat)
  BY <1>2 DEF OpToRel
<1>. QED BY <1>1, <1>3

\* A property of the subsets of a finite set, given as the set of those that have it: it
\* is enough that a set has it when all it has with one member less do.
LEMMA SubsetInduction ==
  ASSUME NEW S, IsFiniteSet(S), NEW B,
         \A T \in SUBSET S : (\A x \in T : T \ {x} \in B) => T \in B
  PROVE  SUBSET S \subseteq B
<1>. DEFINE K == {k \in Nat : \A T \in SUBSET S : Cardinality(T) <= k => T \in B}
<1>1. \A T \in SUBSET S : IsFiniteSet(T) /\ Cardinality(T) \in Nat
  BY FS_Subset, FS_CardinalityType
<1>2. \A T \in SUBSET S : \A x \in T : Cardinality(T \ {x}) = Cardinality(T) - 1
  BY <1>1, FS_RemoveElement
<1>3. 0 \in K
  <2>1. \A T \in SUBSET S : Cardinality(T) <= 0 => T = {}
    BY <1>1, FS_EmptySet
  <2>. QED BY <2>1
<1>4. ASSUME NEW k \in Nat, k \in K
      PROVE  k + 1 \in K
  <2>1. ASSUME NEW T \in SUBSET S, Cardinality(T) <= k + 1
        PROVE  T \in B
    <3>1. \A x \in T : Cardinality(T \ {x}) <= k /\ T \ {x} \in SUBSET S
      BY <1>1, <1>2, <2>1
    <3>2. \A x \in T : T \ {x} \in B
      BY <1>4, <3>1
    <3>. QED BY <3>2
  <2>. QED BY <2>1
<1>5. Nat \subseteq K
  <2>. HIDE DEF K
  <2>. QED BY <1>3, <1>4, SetInduction
<1>. QED BY <1>1, <1>5

\* The function by which MapThenSumSet adds up f over the subsets of S.
OneOf(s) == CHOOSE x \in s : TRUE
SumsUp(f, S, h) ==
  h = [s \in SUBSET S |-> IF s = {} THEN 0 ELSE f[OneOf(s)] + h[s \ {OneOf(s)}]]

\* One member of a set is in it.
LEMMA OneOfIn == \A s : s # {} => OneOf(s) \in s
BY DEF OneOf

\* Such a function exists: for the small subsets first, then for the next larger ones.
LEMMA SumsExist ==
  ASSUME NEW f, NEW S, IsFiniteSet(S)
  PROVE  \E h : SumsUp(f, S, h)
<1>. DEFINE rule(h, s) == IF s = {} THEN 0 ELSE f[OneOf(s)] + h[s \ {OneOf(s)}]
            Up(k, h) == \A s \in SUBSET S : Cardinality(s) <= k => h[s] = rule(h, s)
            K == {k \in Nat : \E h : Up(k, h)}
<1>1. \A s \in SUBSET S : /\ IsFiniteSet(s) /\ Cardinality(s) \in Nat
                          /\ \A x \in s : Cardinality(s \ {x}) = Cardinality(s) - 1
                          /\ Cardinality(s) = 0 => s = {}
  BY FS_Subset, FS_CardinalityType, FS_RemoveElement, FS_EmptySet
<1>2. 0 \in K
  <2>1. Up(0, [s \in SUBSET S |-> 0])
    BY <1>1
  <2>. HIDE DEF Up
  <2>. QED BY <2>1
<1>3. ASSUME NEW k \in Nat, k \in K
      PROVE  k + 1 \in K
  <2>1. PICK h : Up(k, h)
    BY <1>3
  <2>. DEFINE g == [s \in SUBSET S |-> rule(h, s)]
  <2>2. ASSUME NEW s \in SUBSET S, Cardinality(s) <= k + 1
        PROVE  g[s] = rule(g, s)
    <3>1. CASE s = {}
      BY <3>1
    <3>2. CASE s # {}
      <4>. DEFINE t == s \ {OneOf(s)}
      <4>1. t \in SUBSET S /\ Cardinality(t) <= k
        BY <1>1, <2>2, <3>2, OneOfIn
      <4>2. h[t] = rule(h, t) /\ g[t] = rule(h, t)
        BY <2>1, <4>1
      <4>3. g[s] = f[OneOf(s)] + h[t]
        BY <3>2
      <4>. QED BY <3>2, <4>2, <4>3
    <3>. QED BY <3>1, <3>2
  <2>. HIDE DEF g, rule
  <2>3. Up(k + 1, g)
    BY <2>2
  <2>. HIDE DEF Up
  <2>. QED BY <2>3
<1>4. Nat \subseteq K
  <2>. HIDE DEF K
  <2>. QED BY <1>2, <1>3, SetInduction
<1>5. Cardinality(S) \in K /\ \A s \in SUBSET S : Cardinality(s) <= Cardinality(S)
  BY <1>1, <1>4, FS_Subset
<1>6. PICK h : Up(Cardinality(S), h)
  BY <1>5
<1>. DEFINE g == [s \in SUBSET S |-> h[s]]
<1>7. \A s \in SUBSET S : h[s] = rule(h, s)
  BY <1>5, <1>6
<1>8. \A s \in SUBSET S : rule(g, s) = rule(h, s)
  BY OneOfIn
<1>9. SumsUp(f, S, g)
  <2>1. g = [s \in SUBSET S |-> rule(g, s)]
    <3>. HIDE DEF rule
    <3>. QED BY <1>7, <1>8
  <2>. QED BY <2>1 DEF SumsUp
<1>. QED BY <1>9

\* Total adds up by such a function.
LEMMA TotalSums ==
  ASSUME NEW f, NEW S, IsFiniteSet(S)
  PROVE  \E h : SumsUp(f, S, h) /\ Total(f, S) = h[S]
<1>. DEFINE h == CHOOSE h : SumsUp(f, S, h)
<1>1. SumsUp(f, S, h)
  BY SumsExist
<1>2. Total(f, S) = h[S]
  BY DEF Total, MapThenSumSet, MapThenFoldSet, SumsUp, OneOf
<1>. QED BY <1>1, <1>2

\* The sum over a set, whichever larger set it is a part of.
LEMMA SumsAgree ==
  ASSUME NEW f, NEW g, NEW S, NEW T, IsFiniteSet(S), T \subseteq S, NEW h, NEW k,
         SumsUp(f, S, h), SumsUp(g, T, k), \A x \in T : f[x] = g[x]
  PROVE  h[T] = k[T]
<1>. DEFINE B == {s \in SUBSET T : h[s] = k[s]}
<1>1. IsFiniteSet(T)
  BY FS_Subset
<1>2. ASSUME NEW s \in SUBSET T, \A x \in s : s \ {x} \in B
      PROVE  s \in B
  <2>1. CASE s = {}
    BY <2>1 DEF SumsUp
  <2>2. CASE s # {}
    <3>1. OneOf(s) \in s /\ OneOf(s) \in T
      BY <2>2, OneOfIn
    <3>2. h[s] = f[OneOf(s)] + h[s \ {OneOf(s)}] /\ k[s] = g[OneOf(s)] + k[s \ {OneOf(s)}]
      BY <2>2 DEF SumsUp
    <3>3. h[s \ {OneOf(s)}] = k[s \ {OneOf(s)}]
      BY <1>2, <3>1
    <3>. QED BY <3>1, <3>2, <3>3
  <2>. QED BY <2>1, <2>2
<1>3. SUBSET T \subseteq B
  <2>. HIDE DEF B
  <2>. QED BY <1>1, <1>2, SubsetInduction
<1>. QED BY <1>3

\* Natural numbers add up to one.
LEMMA SumsNat ==
  ASSUME NEW f, NEW S, IsFiniteSet(S), NEW h, SumsUp(f, S, h), \A x \in S : f[x] \in Nat
  PROVE  \A s \in SUBSET S : h[s] \in Nat
<1>. DEFINE B == {s \in SUBSET S : h[s] \in Nat}
<1>1. ASSUME NEW s \in SUBSET S, \A x \in s : s \ {x} \in B
      PROVE  s \in B
  <2>1. CASE s = {}
    BY <2>1 DEF SumsUp
  <2>2. CASE s # {}
    <3>1. OneOf(s) \in s /\ h[s] = f[OneOf(s)] + h[s \ {OneOf(s)}]
      BY <2>2, OneOfIn DEF SumsUp
    <3>. QED BY <1>1, <3>1
  <2>. QED BY <2>1, <2>2
<1>2. SUBSET S \subseteq B
  <2>. HIDE DEF B
  <2>. QED BY <1>1, SubsetInduction
<1>. QED BY <1>2

\* Whichever member is taken out of a sum, it was added to the rest.
LEMMA SumsRemove ==
  ASSUME NEW f, NEW S, IsFiniteSet(S), NEW h, SumsUp(f, S, h), \A x \in S : f[x] \in Nat
  PROVE  \A s \in SUBSET S : \A a \in s : h[s] = f[a] + h[s \ {a}]
<1>. DEFINE good(s) == \A a \in s : h[s] = f[a] + h[s \ {a}]
            B == {s \in SUBSET S : good(s)}
<1>0. \A s \in SUBSET S : h[s] \in Nat
  BY SumsNat
<1>1. ASSUME NEW s \in SUBSET S, \A x \in s : s \ {x} \in B
      PROVE  s \in B
  <2>1. CASE s = {}
    BY <2>1
  <2>2. CASE s # {}
    <3>. DEFINE x == OneOf(s)
                t == s \ {x}
    <3>1. x \in s /\ x \in S /\ h[s] = f[x] + h[t]
      BY <2>2, OneOfIn DEF SumsUp
    <3>. HIDE DEF x
    <3>2. good(t)
      BY <1>1, <3>1
    <3>4. ASSUME NEW a \in s, a # x
          PROVE  h[s] = f[a] + h[s \ {a}]
      <4>1. a \in t /\ h[t] = f[a] + h[t \ {a}]
        BY <3>2, <3>4
      <4>2. good(s \ {a}) /\ x \in s \ {a}
        BY <1>1, <3>1, <3>4
      <4>3. h[s \ {a}] = f[x] + h[(s \ {a}) \ {x}]
        BY <4>2
      <4>4. (s \ {a}) \ {x} = t \ {a}
        OBVIOUS
      <4>5. h[t \ {a}] \in Nat /\ f[a] \in Nat /\ f[x] \in Nat
        BY <1>0, <3>1
      <4>6. h[s \ {a}] = f[x] + h[t \ {a}]
        BY <4>3, <4>4
      <4>. HIDE DEF t
      <4>. QED BY <3>1, <4>1, <4>5, <4>6
    <3>. QED BY <3>1, <3>4
  <2>. QED BY <2>1, <2>2
<1>2. SUBSET S \subseteq B
  <2>. HIDE DEF B
  <2>. QED BY <1>1, SubsetInduction
<1>. QED BY <1>2

\* The members of a set carry natural numbers.
Counts(f, S) == IsFiniteSet(S) /\ \A x \in S : f[x] \in Nat

\* The sum of natural numbers is one.
LEMMA TotalNat ==
  ASSUME NEW f, NEW S, Counts(f, S)
  PROVE  Total(f, S) \in Nat
BY TotalSums, SumsNat DEF Counts

\* The sum over no members.
LEMMA TotalNone ==
  ASSUME NEW f
  PROVE  Total(f, {}) = 0
<1>1. PICK h : SumsUp(f, {}, h) /\ Total(f, {}) = h[{}]
  BY TotalSums, FS_EmptySet
<1>. QED BY <1>1 DEF SumsUp

\* A sum depends on what its members carry only.
LEMMA TotalSame ==
  ASSUME NEW f, NEW g, NEW S, IsFiniteSet(S), \A x \in S : f[x] = g[x]
  PROVE  Total(f, S) = Total(g, S)
<1>1. PICK h : SumsUp(f, S, h) /\ Total(f, S) = h[S]
  BY TotalSums
<1>2. PICK k : SumsUp(g, S, k) /\ Total(g, S) = k[S]
  BY TotalSums
<1>. QED BY <1>1, <1>2, SumsAgree

\* A member that is taken out takes away what it carries.
LEMMA TotalRemove ==
  ASSUME NEW f, NEW S, Counts(f, S), NEW a \in S
  PROVE  /\ Total(f, S) = f[a] + Total(f, S \ {a})
         /\ Counts(f, S \ {a})
<1>1. PICK h : SumsUp(f, S, h) /\ Total(f, S) = h[S]
  BY TotalSums DEF Counts
<1>2. IsFiniteSet(S \ {a})
  BY FS_Subset DEF Counts
<1>3. PICK k : SumsUp(f, S \ {a}, k) /\ Total(f, S \ {a}) = k[S \ {a}]
  BY <1>2, TotalSums
<1>4. h[S \ {a}] = k[S \ {a}]
  BY <1>1, <1>3, SumsAgree DEF Counts
<1>5. h[S] = f[a] + h[S \ {a}]
  BY <1>1, SumsRemove DEF Counts
<1>. QED BY <1>1, <1>2, <1>3, <1>4, <1>5 DEF Counts

\* Adding up member by member.
LEMMA TotalPlus ==
  ASSUME NEW f, NEW g, NEW k, NEW S, Counts(f, S), Counts(g, S), \A x \in S : k[x] = f[x] + g[x]
  PROVE  Total(k, S) = Total(f, S) + Total(g, S) /\ Counts(k, S)
<1>. DEFINE B == {s \in SUBSET S : Total(k, s) = Total(f, s) + Total(g, s)}
<1>1. \A s \in SUBSET S : Counts(f, s) /\ Counts(g, s) /\ Counts(k, s)
  BY FS_Subset DEF Counts
<1>2. ASSUME NEW s \in SUBSET S, \A x \in s : s \ {x} \in B
      PROVE  s \in B
  <2>1. CASE s = {}
    BY <2>1, TotalNone
  <2>2. CASE s # {}
    <3>1. PICK x : x \in s
      BY <2>2
    <3>. DEFINE t == s \ {x}
    <3>2. Total(k, s) = k[x] + Total(k, t) /\ Total(f, s) = f[x] + Total(f, t) /\ Total(g, s) = g[x] + Total(g, t)
      BY <1>1, <3>1, TotalRemove
    <3>3. Total(k, t) = Total(f, t) + Total(g, t)
      BY <1>2, <3>1
    <3>4. Total(f, t) \in Nat /\ Total(g, t) \in Nat /\ f[x] \in Nat /\ g[x] \in Nat /\ k[x] = f[x] + g[x]
      BY <1>1, <3>1, TotalNat DEF Counts
    <3>. HIDE DEF t
    <3>. QED BY <3>2, <3>3, <3>4
  <2>. QED BY <2>1, <2>2
<1>3. SUBSET S \subseteq B
  <2>. HIDE DEF B
  <2>. QED BY <1>2, SubsetInduction DEF Counts
<1>. QED BY <1>1, <1>3

\* Members that carry nothing can be left out.
LEMMA TotalPart ==
  ASSUME NEW f, NEW S, NEW T, Counts(f, S), T \subseteq S, \A x \in S \ T : f[x] = 0
  PROVE  Total(f, S) = Total(f, T)
<1>. DEFINE B == {s \in SUBSET S : Total(f, s) = Total(f, s \cap T)}
<1>1. \A s \in SUBSET S : Counts(f, s) /\ Counts(f, s \cap T)
  <2>1. \A s \in SUBSET S : IsFiniteSet(s)
    BY FS_Subset DEF Counts
  <2>2. \A s \in SUBSET S : IsFiniteSet(s \cap T)
    BY <2>1, FS_Intersection
  <2>. QED BY <2>1, <2>2 DEF Counts
<1>2. ASSUME NEW s \in SUBSET S, \A x \in s : s \ {x} \in B
      PROVE  s \in B
  <2>1. CASE s \subseteq T
    BY <2>1
  <2>2. CASE ~(s \subseteq T)
    <3>1. PICK x \in s : x \notin T
      BY <2>2
    <3>2. Total(f, s) = f[x] + Total(f, s \ {x}) /\ f[x] = 0
      <4>1. Counts(f, s) /\ x \in S \ T
        BY <1>1, <3>1
      <4>2. Total(f, s) = f[x] + Total(f, s \ {x})
        BY <4>1, TotalRemove
      <4>. QED BY <4>1, <4>2
    <3>3. Total(f, s \ {x}) = Total(f, s \cap T)
      <4>1. (s \ {x}) \cap T = s \cap T
        BY <3>1
      <4>. QED BY <1>2, <4>1
    <3>4. Total(f, s \cap T) \in Nat
      BY <1>1, TotalNat
    <3>. QED BY <3>2, <3>3, <3>4
  <2>. QED BY <2>1, <2>2
<1>3. SUBSET S \subseteq B
  <2>. HIDE DEF B
  <2>. QED BY <1>2, SubsetInduction DEF Counts
<1>4. S \cap T = T
  OBVIOUS
<1>. QED BY <1>3, <1>4

\* A member that is put in adds what it carries.
LEMMA TotalAdd ==
  ASSUME NEW f, NEW S, NEW a, a \notin S, Counts(f, S \cup {a})
  PROVE  Total(f, S \cup {a}) = f[a] + Total(f, S)
<1>1. (S \cup {a}) \ {a} = S
  OBVIOUS
<1>. QED BY <1>1, TotalRemove

\* One member alone.
LEMMA TotalOne ==
  ASSUME NEW f, NEW S, Counts(f, S), NEW a \in S, \A x \in S \ {a} : f[x] = 0
  PROVE  Total(f, S) = f[a]
<1>1. Total(f, S) = f[a] + Total(f, S \ {a}) /\ Counts(f, S \ {a})
  BY TotalRemove
<1>2. Total(f, S \ {a}) = Total(f, {})
  BY <1>1, TotalPart
<1>. QED BY <1>1, <1>2, TotalNone DEF Counts

-----------------------------------------------------------------------------
(* Types *)

Decided == [release : Nat, destroy : Nat]

\* The ids and the quantities are numbers.
LEMMA Numbers == /\ 1 \in Ids /\ Ids \subseteq Nat /\ IsFiniteSet(Ids)
                 /\ Units \subseteq Nat \ {0} /\ IsFiniteSet(Places)
                 /\ MaxRecords \in Nat /\ MaxUnits \in Nat
BY BoundsAssumption, PlacesAssumption, FS_Interval DEF Ids, Units

\* Less is subtraction where there is enough to subtract from.
LEMMA LessNat ==
  ASSUME NEW a \in Nat, NEW b \in Nat
  PROVE  /\ Less(a, b) \in Nat /\ Less(a, b) <= a /\ (b <= a => Less(a, b) = a - b) /\ (b = 0 => Less(a, b) = a)
         /\ Least(a, b) \in Nat /\ Least(a, b) <= a /\ Least(a, b) <= b
BY DEF Less, Least

\* The request that has read nothing, and the record that is not there, are well-formed.
LEMMA IdleType == Idle \in ReqState
<1>1. NoUnits \in [Ids -> Nat] /\ Empty \in [Places -> Nat] /\ NoInv \in Inventory
  BY DEF NoUnits, Empty, NoInv, Inventory
<1>. QED BY <1>1 DEF Idle, ReqState, Ops

LEMMA NoRecordType == NoRecord \in Record
BY DEF NoRecord, Record

\* What the inventory side computes of counters are counters.
LEMMA CountersType ==
  ASSUME NEW v \in Inventory, NEW n \in Nat, NEW m \in Nat, NEW kind
  PROVE  /\ Placed(v, n, kind) \in Inventory /\ Lifted(v, n, m) \in Inventory
         /\ Taken(v, n, m) \in Inventory /\ \A op : Moved(op, v, n) \in Inventory
<1>1. /\ v.onHand \in Nat /\ v.held \in Nat /\ v.lot \in Nat /\ v.lotHeld \in Nat
      /\ v.onHand + n \in Nat /\ v.held + n \in Nat /\ v.lot + n \in Nat /\ v.lotHeld + n \in Nat
  BY DEF Inventory
<1>2. ASSUME NEW a \in Nat, NEW b \in Nat
      PROVE  Less(a, b) \in Nat
  BY LessNat
<1>3. ASSUME NEW a \in Nat, NEW b \in Nat
      PROVE  /\ [v EXCEPT !.held = a, !.lotHeld = b] \in Inventory
             /\ [v EXCEPT !.onHand = a, !.lot = b] \in Inventory
             /\ [v EXCEPT !.onHand = a] \in Inventory
  BY DEF Inventory
<1>4. Placed(v, n, kind) \in Inventory
  BY <1>1, <1>3 DEF Placed
<1>5. Lifted(v, n, m) \in Inventory
  BY <1>1, <1>2, <1>3 DEF Lifted
<1>6. ASSUME NEW k \in Nat
      PROVE  Taken(v, n, k) \in Inventory
  BY <1>1, <1>2, <1>3 DEF Taken
<1>7. ASSUME NEW op
      PROVE  Moved(op, v, n) \in Inventory
  BY <1>1, <1>3, <1>6 DEF Moved
<1>. QED BY <1>4, <1>5, <1>6, <1>7

\* The columns that are written, and those that are not.
LEMMA WritesWhat ==
  ASSUME inv \in Inventory, NEW v \in Inventory, NEW cols, Writes(v, cols)
  PROVE  /\ inv' \in Inventory
         /\ inv'.onHand = IF "onHand" \in cols THEN v.onHand ELSE inv.onHand
         /\ inv'.held = IF "held" \in cols THEN v.held ELSE inv.held
         /\ inv'.lot = IF "lot" \in cols THEN v.lot ELSE inv.lot
         /\ inv'.lotHeld = IF "lotHeld" \in cols THEN v.lotHeld ELSE inv.lotHeld
<1>1. DOMAIN inv = {"onHand", "held", "lot", "lotHeld"}
  BY DEF Inventory
<1>2. inv' = [c \in {"onHand", "held", "lot", "lotHeld"} |-> IF c \in cols THEN v[c] ELSE inv[c]]
  BY <1>1 DEF Writes
<1>. QED BY <1>2 DEF Inventory

\* A request that reads on stays well-formed.
LEMMA GoesType ==
  ASSUME req \in [Requests -> ReqState], NEW r, NEW q \in ReqState, Goes(r, q)
  PROVE  req' \in [Requests -> ReqState]
BY DEF Goes

\* The parts of a sum over some of the ids are numbers.
LEMMA TotalsNat ==
  ASSUME NEW f \in [Ids -> Nat], NEW S, S \subseteq Ids
  PROVE  /\ Counts(f, S) /\ Total(f, S) \in Nat
         /\ Enforced(S) \subseteq S /\ OfLot(S) \subseteq Enforced(S)
         /\ Total(f, Enforced(S)) \in Nat /\ Total(f, OfLot(S)) \in Nat
<1>1. Enforced(S) \subseteq S /\ OfLot(S) \subseteq Enforced(S)
  BY DEF Enforced, OfLot
<1>2. \A T \in SUBSET S : Counts(f, T)
  BY Numbers, FS_Subset DEF Counts
<1>. QED BY <1>1, <1>2, TotalNat

\* The steps of a request that only reads.
ReadStep(r) ==
  \/ \E op \in {"receive", "receiveLot", "take", "takeLot", "adjustUp", "adjustDown"},
        n \in Units : ReadForMovement(r, op, n)
  \/ \E op \in {"create", "addItem"}, kind \in {"lot", "item", "other"}, n \in Units,
        ncr \in Ncrs \cup {NoNcr} : ReadForCreate(r, op, kind, n, ncr)
  \/ \E i \in Ids : ReadForChange(r, "annotate", i, NoNcr)
  \/ \E i \in Ids, ncr \in Ncrs \cup {NoNcr} : ReadForChange(r, "link", i, ncr)
  \/ \E i \in Ids, from, to \in Places, n \in Units : ReadForRelocate(r, i, from, to, n)
  \/ \E n \in Ncrs, onHold \in BOOLEAN : ReadForDisposition(r, n, onHold)
  \/ \E op \in {"release", "destroy"}, i \in Ids, n \in Units : ReadForDecision(r, op, i, n)
  \/ \E op \in {"release", "destroy"}, n \in Ncrs : ReadForCompletion(r, op, n)
  \/ \E i \in Ids : ReadForDelete(r, i)
  \/ ReadCounters(r)
  \/ Abort(r)

\* The steps that write.
WriteStep(r) ==
  Move(r) \/ Create(r) \/ Annotate(r) \/ Link(r) \/ Relocate(r) \/ SetDisposition(r) \/ Decide(r) \/ Delete(r)

\* Every step of a request reads or writes.
LEMMA StepsAre == Next => \E r \in Requests : ReadStep(r) \/ WriteStep(r)
BY Zenon DEF Next, ReadStep, WriteStep

\* A step that reads keeps the types.
LEMMA ReadStepType ==
  ASSUME TypeOK, NEW r \in Requests, ReadStep(r)
  PROVE  TypeOK'
<1>. USE Numbers
<1>1. /\ records \in [Ids -> Record] /\ rows \in [Ids -> [Places -> Nat]] /\ inv \in Inventory
      /\ req \in [Requests -> ReqState] /\ req[r] \in ReqState
  BY DEF TypeOK
<1>2. ASSUME NEW q \in ReqState, Goes(r, q), Reads
      PROVE  TypeOK'
  BY <1>1, <1>2, GoesType DEF TypeOK, Reads
<1>3. ASSUME NEW op \in {"receive", "receiveLot", "take", "takeLot", "adjustUp", "adjustDown"},
             NEW n \in Units, ReadForMovement(r, op, n)
      PROVE  TypeOK'
  <2>1. Moved(op, inv, n) \in Inventory
    BY <1>1, CountersType
  <2>2. [Idle EXCEPT !.pc = "write", !.op = op, !.inv = Moved(op, inv, n)] \in ReqState
    BY <2>1, IdleType DEF ReqState, Ops
  <2>. QED BY <1>2, <1>3, <2>2 DEF ReadForMovement
<1>4. ASSUME NEW op \in {"create", "addItem"}, NEW kind \in {"lot", "item", "other"}, NEW n \in Units,
             NEW ncr \in Ncrs \cup {NoNcr}, ReadForCreate(r, op, kind, n, ncr)
      PROVE  TypeOK'
  <2>1. Placed(inv, n, kind) \in Inventory
    BY <1>1, CountersType
  <2>2. [Idle EXCEPT !.pc = "write", !.op = op, !.kind = kind, !.ncr = ncr, !.units[1] = n,
                     !.inv = Placed(inv, n, kind)] \in ReqState
    BY <2>1, IdleType DEF ReqState, Ops
  <2>. QED BY <1>2, <1>4, <2>2 DEF ReadForCreate
<1>5. ASSUME NEW op \in {"annotate", "link"}, NEW i \in Ids, NEW ncr \in Ncrs \cup {NoNcr},
             ReadForChange(r, op, i, ncr)
      PROVE  TypeOK'
  <2>1. [Idle EXCEPT !.pc = "write", !.op = op, !.ids = {i}, !.ncr = ncr] \in ReqState
    BY IdleType DEF ReqState, Ops
  <2>. QED BY <1>2, <1>5, <2>1 DEF ReadForChange
<1>6. ASSUME NEW i \in Ids, NEW from \in Places, NEW to \in Places, NEW n \in Units,
             ReadForRelocate(r, i, from, to, n)
      PROVE  TypeOK'
  <2>1. PICK u \in [Ids -> Nat], p \in [Places -> Nat] : u = [Idle.units EXCEPT ![i] = n] /\ p = rows[i]
    BY <1>1, IdleType DEF ReqState
  <2>2. [Idle EXCEPT !.pc = "write", !.op = "relocate", !.ids = {i}, !.from = from,
                     !.to = to, !.units = u, !.rows = p] \in ReqState
    BY IdleType DEF ReqState, Ops
  <2>. QED BY <1>2, <1>6, <2>1, <2>2 DEF ReadForRelocate
<1>7. ASSUME NEW n \in Ncrs, NEW onHold \in BOOLEAN, ReadForDisposition(r, n, onHold)
      PROVE  TypeOK'
  <2>1. HeldFor(n) \subseteq Ids
    BY DEF HeldFor, Held
  <2>2. [Idle EXCEPT !.pc = "write", !.op = "setDisposition", !.ids = HeldFor(n), !.onHold = onHold] \in ReqState
    BY <2>1, IdleType DEF ReqState, Ops
  <2>. QED BY <1>2, <1>7, <2>2 DEF ReadForDisposition
<1>8. ASSUME NEW op \in {"release", "destroy"}, NEW i \in Ids, NEW n \in Units, ReadForDecision(r, op, i, n)
      PROVE  TypeOK'
  <2>1. records[i].quantity \in Nat
    BY <1>1 DEF Record
  <2>2. [Idle EXCEPT !.pc = "count", !.op = op, !.ids = {i}, !.units[i] = n,
                     !.seen[i] = records[i].quantity] \in ReqState
    BY <2>1, IdleType DEF ReqState, Ops
  <2>. QED BY <1>2, <1>8, <2>2 DEF ReadForDecision
<1>9. ASSUME NEW op \in {"release", "destroy"}, NEW n \in Ncrs, ReadForCompletion(r, op, n)
      PROVE  TypeOK'
  <2>. DEFINE seen == [i \in Ids |-> IF i \in HeldFor(n) THEN records[i].quantity ELSE 0]
  <2>1. seen \in [Ids -> Nat] /\ HeldFor(n) \subseteq Ids
    BY <1>1 DEF Record, HeldFor, Held
  <2>2. Goes(r, [Idle EXCEPT !.pc = "count", !.op = op, !.ids = HeldFor(n), !.units = seen, !.seen = seen]) /\ Reads
    BY <1>9 DEF ReadForCompletion
  <2>. HIDE DEF seen
  <2>3. [Idle EXCEPT !.pc = "count", !.op = op, !.ids = HeldFor(n), !.units = seen, !.seen = seen] \in ReqState
    BY <2>1, IdleType DEF ReqState, Ops
  <2>. QED BY <1>2, <2>2, <2>3
<1>10. ASSUME NEW i \in Ids, ReadForDelete(r, i)
       PROVE  TypeOK'
  <2>1. (IF i \in Held THEN records[i].quantity ELSE 0) \in Nat
    BY <1>1 DEF Record
  <2>2. [Idle EXCEPT !.pc = "count", !.op = "delete", !.ids = {i},
                     !.units[i] = IF i \in Held THEN records[i].quantity ELSE 0] \in ReqState
    BY <2>1, IdleType DEF ReqState, Ops
  <2>. QED BY <1>2, <1>10, <2>2 DEF ReadForDelete
<1>11. CASE ReadCounters(r)
  <2>. DEFINE n == Total(req[r].units, Enforced(req[r].ids))
              m == Total(req[r].units, OfLot(req[r].ids))
              lifted == Lifted(inv, n, m)
  <2>1. n \in Nat /\ m \in Nat
    BY <1>1, TotalsNat DEF ReqState
  <2>2. lifted \in Inventory /\ Taken(lifted, n, m) \in Inventory
    BY <1>1, <2>1, CountersType
  <2>3. \A v \in Inventory : [req[r] EXCEPT !.pc = "write", !.inv = v] \in ReqState
    BY <1>1 DEF ReqState
  <2>4. \E v \in Inventory : Goes(r, [req[r] EXCEPT !.pc = "write", !.inv = v]) /\ Reads
    BY <1>11, <2>2 DEF ReadCounters
  <2>. QED BY <1>2, <2>3, <2>4
<1>12. CASE Abort(r)
  BY <1>2, <1>12, IdleType DEF Abort, Done
<1>. QED BY <1>3, <1>4, <1>5, <1>6, <1>7, <1>8, <1>9, <1>10, <1>11, <1>12 DEF ReadStep

\* A record that is put on hold, or linked to another report, is a record.
LEMMA RecordsType ==
  ASSUME NEW row \in Record, NEW ncr \in Ncrs \cup {NoNcr}, NEW onHold \in BOOLEAN
  PROVE  [row EXCEPT !.onHold = onHold] \in Record /\ [row EXCEPT !.ncr = ncr] \in Record
BY DEF Record

\* So is one of which some units were decided on.
LEMMA ClosedType ==
  ASSUME NEW row \in Record, NEW n \in Nat, NEW d, NEW op
  PROVE  [row EXCEPT !.quantity = n, !.status = Closes(n, d, op)] \in Record
<1>1. Closes(n, d, op) \in {"quarantined", "released", "destroyed"}
  BY DEF Closes
<1>2. \A st \in {"quarantined", "released", "destroyed"} :
        [row EXCEPT !.quantity = n, !.status = st] \in Record
  BY DEF Record
<1>. QED BY <1>1, <1>2

\* The update of some rows of the table.
LEMMA UpdateType ==
  ASSUME records \in [Ids -> Record], NEW ids, NEW new, Update(ids, new), \A i \in Ids : new[i] \in Record
  PROVE  records' \in [Ids -> Record]
BY DEF Update

\* The decisions on a hold once n more units of it are decided on.
LEMMA DecidedType ==
  ASSUME NEW d \in Decided, NEW op \in {"release", "destroy"}, NEW n \in Nat
  PROVE  LET e == [d EXCEPT ![op] = @ + n]
         IN /\ e \in Decided
            /\ e.release = d.release + (IF op = "release" THEN n ELSE 0)
            /\ e.destroy = d.destroy + (IF op = "destroy" THEN n ELSE 0)
<1>1. d.release \in Nat /\ d.destroy \in Nat
  BY DEF Decided
<1>2. CASE op = "release"
  <2>1. [d EXCEPT ![op] = @ + n] = [d EXCEPT !.release = d.release + n]
    BY <1>2
  <2>2. \A k \in Nat : [d EXCEPT !.release = k] \in Decided
    BY DEF Decided
  <2>. QED BY <1>1, <1>2, <2>1, <2>2 DEF Decided
<1>3. CASE op = "destroy"
  <2>1. [d EXCEPT ![op] = @ + n] = [d EXCEPT !.destroy = d.destroy + n]
    BY <1>3
  <2>2. \A k \in Nat : [d EXCEPT !.destroy = k] \in Decided
    BY DEF Decided
  <2>. QED BY <1>1, <1>3, <2>1, <2>2 DEF Decided
<1>. QED BY <1>2, <1>3

\* What a relocation makes of the places of a hold.
LEMMA RelocatedType ==
  ASSUME NEW now \in [Places -> Nat], NEW read \in [Places -> Nat], NEW from \in Places, NEW to \in Places,
         NEW n \in Nat, n <= read[from]
  PROVE  Relocated(now, read, from, to, n) \in [Places -> Nat]
<1>1. read[from] - n \in Nat
  OBVIOUS
<1>2. \A a, b \in Nat : [now EXCEPT ![from] = a, ![to] = b] \in [Places -> Nat]
  OBVIOUS
<1>. QED BY <1>1, <1>2 DEF Relocated

\* A request that relocates read enough to relocate.
MayRelocate ==
  \A r \in Requests :
    req[r].pc = "write" /\ req[r].op = "relocate" =>
      /\ req[r].from \in Places /\ req[r].to \in Places /\ req[r].from # req[r].to
      /\ \A i \in req[r].ids : req[r].units[i] <= req[r].rows[req[r].from]

\* A request that counts decides on holds or deletes one.
MayCount ==
  \A r \in Requests : req[r].pc = "count" => req[r].op \in {"release", "destroy", "delete"}

TypeInv == TypeOK /\ MayRelocate /\ MayCount

\* A step that writes keeps the types.
LEMMA WriteStepType ==
  ASSUME TypeInv, NEW r \in Requests, WriteStep(r)
  PROVE  TypeOK'
<1>. DEFINE q == req[r]
<1>1. /\ records \in [Ids -> Record] /\ rows \in [Ids -> [Places -> Nat]] /\ inv \in Inventory
      /\ nextId \in 1 .. (MaxRecords + 1) /\ decided \in [Ids -> Decided]
      /\ req \in [Requests -> ReqState] /\ q \in ReqState
  BY DEF TypeInv, TypeOK, Decided
<1>2. /\ q.units \in [Ids -> Nat] /\ q.seen \in [Ids -> Nat] /\ q.inv \in Inventory /\ q.ids \subseteq Ids
      /\ q.kind \in {"lot", "item", "other"} /\ q.ncr \in Ncrs \cup {NoNcr} /\ q.onHold \in BOOLEAN
      /\ q.rows \in [Places -> Nat]
  BY <1>1 DEF ReqState
<1>3. \A cols : Writes(q.inv, cols) => inv' \in Inventory
  BY <1>1, <1>2, WritesWhat
<1>4. Done(r) => req' \in [Requests -> ReqState]
  BY <1>1, IdleType, GoesType DEF Done
<1>5. CASE Move(r)
  BY <1>1, <1>3, <1>4, <1>5 DEF Move, TypeOK, Decided
<1>6. CASE Create(r)
  <2>. DEFINE n == q.units[1]
              row == [status |-> "quarantined", kind |-> q.kind, quantity |-> n, original |-> n,
                      ncr |-> q.ncr, onHold |-> q.op = "addItem" /\ NcrOnHold(q.ncr)]
  <2>1. n \in Nat
    BY <1>2, Numbers
  <2>2. row \in Record
    <3>1. \A b \in BOOLEAN : [status |-> "quarantined", kind |-> q.kind, quantity |-> n, original |-> n,
                              ncr |-> q.ncr, onHold |-> b] \in Record
      BY <1>2, <2>1 DEF Record
    <3>. QED BY <3>1
  <2>3. /\ records' = [records EXCEPT ![nextId] = row] /\ nextId <= MaxRecords /\ nextId' = nextId + 1
        /\ Done(r) /\ UNCHANGED decided
    BY <1>6 DEF Create
  <2>4. inv' \in Inventory
    BY <1>3, <1>6 DEF Create
  <2>5. rows' \in [Ids -> [Places -> Nat]]
    <3>1. PICK p \in Places : rows' = [rows EXCEPT ![nextId] = [rows[nextId] EXCEPT ![p] = n]]
      BY <1>1, <1>6 DEF Create
    <3>2. nextId \in Ids
      BY <1>1, <2>3 DEF Ids
    <3>3. [rows[nextId] EXCEPT ![p] = n] \in [Places -> Nat]
      BY <1>1, <2>1, <3>2
    <3>. QED BY <1>1, <3>1, <3>3
  <2>. HIDE DEF row
  <2>6. records' \in [Ids -> Record]
    BY <1>1, <2>2, <2>3
  <2>7. nextId' \in 1 .. (MaxRecords + 1)
    BY <1>1, <2>3, Numbers
  <2>. QED BY <1>1, <1>4, <2>3, <2>4, <2>5, <2>6, <2>7 DEF TypeOK, Decided
<1>7. CASE Annotate(r) \/ Link(r) \/ SetDisposition(r)
  <2>1. \A i \in Ids : /\ [records[i] EXCEPT !.onHold = FALSE] \in Record
                       /\ [records[i] EXCEPT !.onHold = q.onHold] \in Record
                       /\ [records[i] EXCEPT !.ncr = q.ncr] \in Record
    BY <1>1, <1>2, RecordsType, Numbers
  <2>2. \E new : (\A i \in Ids : new[i] \in Record) /\ Update(q.ids, new)
    BY <1>7, <2>1 DEF Annotate, Link, SetDisposition
  <2>3. records' \in [Ids -> Record]
    BY <1>1, <2>2, UpdateType
  <2>. QED BY <1>1, <1>4, <1>7, <2>3 DEF Annotate, Link, SetDisposition, TypeOK, Decided
<1>8. CASE Relocate(r)
  <2>1. /\ q.from \in Places /\ q.to \in Places
        /\ \A i \in q.ids : q.units[i] <= q.rows[q.from]
    BY <1>8 DEF Relocate, Writing, At, TypeInv, MayRelocate
  <2>2. \A i \in q.ids : Relocated(rows[i], q.rows, q.from, q.to, q.units[i]) \in [Places -> Nat]
    BY <1>1, <1>2, <2>1, RelocatedType
  <2>3. rows' \in [Ids -> [Places -> Nat]]
    BY <1>1, <1>8, <2>2 DEF Relocate
  <2>. QED BY <1>1, <1>4, <1>8, <2>3 DEF Relocate, TypeOK, Decided
<1>9. CASE Decide(r)
  <2>. DEFINE taken == [i \in Ids |-> [decided[i] EXCEPT ![q.op] = @ + q.units[i]]]
              left(i) == Less(q.seen[i], q.units[i])
              new == [i \in Ids |-> [records[i] EXCEPT !.quantity = left(i), !.status = Closes(left(i), taken[i], q.op)]]
  <2>1. /\ q.op \in {"release", "destroy"} /\ Done(r) /\ UNCHANGED nextId
        /\ decided' = [i \in Ids |-> IF i \in q.ids THEN taken[i] ELSE decided[i]]
        /\ Update(q.ids, new)
    BY <1>9 DEF Decide, Writing
  <2>2. inv' \in Inventory
    BY <1>3, <1>9 DEF Decide
  <2>3. \A i \in Ids : left(i) \in Nat
    BY <1>2, LessNat
  <2>4. \A i \in Ids : taken[i] \in Decided
    BY <1>1, <1>2, <2>1, DecidedType
  <2>5. \A i \in Ids : new[i] \in Record
    <3>1. \A n \in Nat : \A i \in Ids : \A d, op :
            [records[i] EXCEPT !.quantity = n, !.status = Closes(n, d, op)] \in Record
      BY <1>1, ClosedType
    <3>2. ASSUME NEW i \in Ids
          PROVE  new[i] \in Record
      <4>1. PICK n \in Nat : n = left(i)
        BY <2>3
      <4>2. new[i] = [records[i] EXCEPT !.quantity = n, !.status = Closes(n, taken[i], q.op)]
        BY <4>1
      <4>. HIDE DEF left, taken, new
      <4>3. [records[i] EXCEPT !.quantity = n, !.status = Closes(n, taken[i], q.op)] \in Record
        BY <3>1
      <4>. QED BY <4>2, <4>3
    <3>. QED BY <3>2
  <2>6. \E f \in [q.ids -> [Places -> 0 .. MaxUnits]] : rows' = [i \in Ids |-> IF i \in q.ids THEN f[i] ELSE rows[i]]
    BY <1>9 DEF Decide
  <2>7. 0 .. MaxUnits \subseteq Nat
    BY Numbers
  <2>8. rows' \in [Ids -> [Places -> Nat]]
    BY <1>1, <2>6, <2>7
  <2>. HIDE DEF taken, new
  <2>9. decided' \in [Ids -> Decided] /\ records' \in [Ids -> Record]
    BY <1>1, <2>1, <2>4, <2>5, UpdateType
  <2>. QED BY <1>1, <1>4, <2>1, <2>2, <2>8, <2>9 DEF TypeOK, Decided
<1>10. CASE Delete(r)
  <2>1. inv' \in Inventory
    BY <1>3, <1>10 DEF Delete
  <2>2. \A i \in Ids : [j \in Ids |-> NoRecord][i] \in Record
    BY NoRecordType
  <2>3. Update(q.ids, [j \in Ids |-> NoRecord])
    BY <1>10 DEF Delete
  <2>4. records' \in [Ids -> Record]
    BY <1>1, <2>2, <2>3, UpdateType
  <2>5. rows' \in [Ids -> [Places -> Nat]]
    BY <1>1, <1>10 DEF Delete, Empty
  <2>. QED BY <1>1, <1>4, <1>10, <2>1, <2>4, <2>5 DEF Delete, TypeOK, Decided
<1>. QED BY <1>5, <1>6, <1>7, <1>8, <1>9, <1>10 DEF WriteStep

\* What a request that relocates or counts read of the records.
LEMMA ReadsStay ==
  ASSUME TypeInv, NEW r \in Requests, ReadStep(r) \/ WriteStep(r)
  PROVE  MayRelocate' /\ MayCount'
<1>. USE Numbers
<1>1. req \in [Requests -> ReqState] /\ req[r] \in ReqState
  BY DEF TypeInv, TypeOK
<1>2. ASSUME NEW q, Goes(r, q), q.pc = "count" => q.op \in {"release", "destroy", "delete"},
             q.pc = "write" /\ q.op = "relocate" =>
               /\ q.from \in Places /\ q.to \in Places /\ q.from # q.to
               /\ \A i \in q.ids : q.units[i] <= q.rows[q.from]
      PROVE  MayRelocate' /\ MayCount'
  <2>1. \A s \in Requests : req'[s] = IF s = r THEN q ELSE req[s]
    BY <1>1, <1>2 DEF Goes
  <2>. QED BY <1>2, <2>1 DEF TypeInv, MayRelocate, MayCount
<1>3. ASSUME Done(r)
      PROVE  MayRelocate' /\ MayCount'
  <2>1. Idle.pc = "idle"
    BY DEF Idle
  <2>. QED BY <1>2, <1>3, <2>1 DEF Done
<1>4. CASE WriteStep(r) \/ Abort(r)
  BY <1>3, <1>4 DEF WriteStep, Abort, Move, Create, Annotate, Link, Relocate, SetDisposition, Decide, Delete
<1>5. ASSUME NEW op, NEW v, op # "relocate", Goes(r, [Idle EXCEPT !.pc = "write", !.op = op, !.inv = v])
      PROVE  MayRelocate' /\ MayCount'
  <2>. DEFINE q == [Idle EXCEPT !.pc = "write", !.op = op, !.inv = v]
  <2>1. q.pc = "write" /\ q.op = op
    BY DEF Idle
  <2>. HIDE DEF q
  <2>. QED BY <1>2, <1>5, <2>1 DEF q
<1>6. ASSUME NEW op \in {"receive", "receiveLot", "take", "takeLot", "adjustUp", "adjustDown"},
             NEW n \in Units, ReadForMovement(r, op, n)
      PROVE  MayRelocate' /\ MayCount'
  BY <1>5, <1>6 DEF ReadForMovement
<1>7. ASSUME NEW op \in {"create", "addItem"}, NEW kind \in {"lot", "item", "other"}, NEW n \in Units,
             NEW ncr \in Ncrs \cup {NoNcr}, ReadForCreate(r, op, kind, n, ncr)
      PROVE  MayRelocate' /\ MayCount'
  <2>. DEFINE q == [Idle EXCEPT !.pc = "write", !.op = op, !.kind = kind, !.ncr = ncr, !.units[1] = n,
                                !.inv = Placed(inv, n, kind)]
  <2>1. q.pc = "write" /\ q.op = op /\ Goes(r, q)
    BY <1>7 DEF Idle, ReadForCreate
  <2>. HIDE DEF q
  <2>. QED BY <1>2, <2>1
<1>8. ASSUME NEW op \in {"annotate", "link"}, NEW i, NEW ncr, ReadForChange(r, op, i, ncr)
      PROVE  MayRelocate' /\ MayCount'
  <2>. DEFINE q == [Idle EXCEPT !.pc = "write", !.op = op, !.ids = {i}, !.ncr = ncr]
  <2>1. q.pc = "write" /\ q.op = op /\ Goes(r, q)
    BY <1>8 DEF Idle, ReadForChange
  <2>. HIDE DEF q
  <2>. QED BY <1>2, <2>1
<1>9. ASSUME NEW i \in Ids, NEW from \in Places, NEW to \in Places, NEW n \in Units,
             ReadForRelocate(r, i, from, to, n)
      PROVE  MayRelocate' /\ MayCount'
  <2>. DEFINE q == [Idle EXCEPT !.pc = "write", !.op = "relocate", !.ids = {i}, !.from = from,
                                !.to = to, !.units[i] = n, !.rows = rows[i]]
  <2>1. q.pc = "write" /\ q.from = from /\ q.to = to /\ q.ids = {i} /\ q.rows = rows[i] /\ q.units[i] = n
    BY DEF Idle, NoUnits
  <2>2. Goes(r, q) /\ from # to /\ n <= rows[i][from]
    BY <1>9 DEF ReadForRelocate
  <2>. HIDE DEF q
  <2>. QED BY <1>2, <2>1, <2>2
<1>10. ASSUME NEW n \in Ncrs, NEW onHold \in BOOLEAN, ReadForDisposition(r, n, onHold)
       PROVE  MayRelocate' /\ MayCount'
  <2>. DEFINE q == [Idle EXCEPT !.pc = "write", !.op = "setDisposition", !.ids = HeldFor(n), !.onHold = onHold]
  <2>1. q.pc = "write" /\ q.op = "setDisposition" /\ Goes(r, q)
    BY <1>10 DEF Idle, ReadForDisposition
  <2>. HIDE DEF q
  <2>. QED BY <1>2, <2>1
<1>11. ASSUME NEW q, Goes(r, q), q.pc = "count", q.op \in {"release", "destroy", "delete"}
       PROVE  MayRelocate' /\ MayCount'
  BY <1>2, <1>11
<1>12. ASSUME NEW op \in {"release", "destroy"}, NEW i, NEW n, ReadForDecision(r, op, i, n)
       PROVE  MayRelocate' /\ MayCount'
  <2>. DEFINE q == [Idle EXCEPT !.pc = "count", !.op = op, !.ids = {i}, !.units[i] = n,
                                !.seen[i] = records[i].quantity]
  <2>1. q.pc = "count" /\ q.op = op /\ Goes(r, q)
    BY <1>12 DEF Idle, ReadForDecision
  <2>. HIDE DEF q
  <2>. QED BY <1>11, <2>1
<1>13. ASSUME NEW op \in {"release", "destroy"}, NEW n, ReadForCompletion(r, op, n)
       PROVE  MayRelocate' /\ MayCount'
  <2>. DEFINE seen == [i \in Ids |-> IF i \in HeldFor(n) THEN records[i].quantity ELSE 0]
              q == [Idle EXCEPT !.pc = "count", !.op = op, !.ids = HeldFor(n), !.units = seen, !.seen = seen]
  <2>1. Goes(r, q)
    BY <1>13 DEF ReadForCompletion
  <2>. HIDE DEF seen
  <2>2. q.pc = "count" /\ q.op = op
    BY DEF Idle
  <2>. HIDE DEF q
  <2>. QED BY <1>11, <2>1, <2>2
<1>14. ASSUME NEW i, ReadForDelete(r, i)
       PROVE  MayRelocate' /\ MayCount'
  <2>. DEFINE q == [Idle EXCEPT !.pc = "count", !.op = "delete", !.ids = {i},
                                !.units[i] = IF i \in Held THEN records[i].quantity ELSE 0]
  <2>1. q.pc = "count" /\ q.op = "delete" /\ Goes(r, q)
    BY <1>14 DEF Idle, ReadForDelete
  <2>. HIDE DEF q
  <2>. QED BY <1>11, <2>1
<1>15. CASE ReadCounters(r)
  <2>1. PICK v : Goes(r, [req[r] EXCEPT !.pc = "write", !.inv = v]) /\ req[r].pc = "count"
    BY <1>15 DEF ReadCounters, At
  <2>. DEFINE q == [req[r] EXCEPT !.pc = "write", !.inv = v]
  <2>2. q.pc = "write" /\ q.op = req[r].op
    BY <1>1 DEF ReqState
  <2>3. q.op # "relocate" /\ Goes(r, q)
    BY <2>1, <2>2 DEF TypeInv, MayCount
  <2>. HIDE DEF q
  <2>. QED BY <1>2, <2>2, <2>3
<1>. QED BY <1>4, <1>6, <1>7, <1>8, <1>9, <1>10, <1>12, <1>13, <1>14, <1>15 DEF ReadStep

\* The type invariant holds at first, and every step keeps it.
LEMMA InitType == Init => TypeInv
<1>1. ASSUME Init
      PROVE  TypeOK
  <2>1. PICK n \in 0 .. MaxUnits : inv = [onHand |-> n, held |-> 0, lot |-> n, lotHeld |-> 0]
    BY <1>1 DEF Init
  <2>2. inv \in Inventory
    BY <2>1, Numbers DEF Inventory
  <2>3. /\ records = [i \in Ids |-> NoRecord] /\ nextId = 1 /\ rows = [i \in Ids |-> Empty]
        /\ decided = [i \in Ids |-> Undecided] /\ req = [r \in Requests |-> Idle]
    BY <1>1 DEF Init
  <2>. QED BY <2>2, <2>3, NoRecordType, IdleType, Numbers DEF TypeOK, Empty, Undecided
<1>2. ASSUME Init
      PROVE  MayRelocate /\ MayCount
  BY <1>2 DEF Init, Idle, MayRelocate, MayCount
<1>. QED BY <1>1, <1>2 DEF TypeInv

\* No step, of however many overlapping requests, leaves the types.
LEMMA NextType == TypeInv /\ [Next]_vars => TypeInv'
<1>1. ASSUME TypeInv, Next
      PROVE  TypeInv'
  BY <1>1, StepsAre, ReadStepType, WriteStepType, ReadsStay DEF TypeInv
<1>2. ASSUME TypeInv, UNCHANGED vars
      PROVE  TypeInv'
  BY <1>2 DEF TypeInv, TypeOK, MayRelocate, MayCount, vars
<1>. QED BY <1>1, <1>2

\* Whatever requests overlap, and whatever they read before others wrote, every quantity
\* stays a number of units: no counter, hold or place falls below zero, which the
\* subtractions of liftHold, reduceInventoryRows and relocate could do.
THEOREM TypeCorrect == Spec => []TypeOK
<1>1. TypeInv => TypeOK
  BY DEF TypeInv
<1>. QED BY <1>1, InitType, NextType, PTL DEF Spec

-----------------------------------------------------------------------------
(* One request at a time *)

\* The schedule the transactions are written for: no two requests in flight.
OneAtATime == \A r, s \in Requests : r = s

\* The quantities of all records, and the open holds on the item and on the lot.
Quantities == [i \in Ids |-> records[i].quantity]
OnItem == Enforced(Held)
OnLot == OfLot(Held)

\* A record that is not there has no trace; one that is there keeps its sums.
Kept(i) ==
  /\ i >= nextId => records[i].status = "absent"
  /\ records[i].status = "absent" => rows[i] = Empty /\ decided[i] = Undecided
  /\ records[i].status # "absent" =>
       /\ records[i].original > 0
       /\ records[i].original = records[i].quantity + decided[i].release + decided[i].destroy
       /\ Total(rows[i], Places) = records[i].quantity
       /\ records[i].status = "quarantined" <=> records[i].quantity > 0
       /\ records[i].status = "released" => decided[i].release > 0
       /\ records[i].status = "destroyed" => decided[i].release = 0

Books == (\A i \in Ids : Kept(i)) /\ HeldCountsHolds /\ LotCoversHeld

Lifting == {"release", "destroy", "delete"}

\* What a request read of the holds it decides on or deletes is what they are.
Reviewed(q) ==
  /\ q.ids \subseteq Held
  /\ \A i \in q.ids : 0 < q.units[i] /\ q.units[i] <= records[i].quantity
  /\ q.op \in {"release", "destroy"} => \A i \in q.ids : q.seen[i] = records[i].quantity
  /\ q.op = "delete" => \A i \in q.ids : q.units[i] = records[i].quantity

\* What a request computed of the counters is computed of those there are.
Counted(q) ==
  LET n == Total(q.units, Enforced(q.ids))
      m == Total(q.units, OfLot(q.ids))
  IN /\ q.inv.held = Less(inv.held, n)
     /\ q.inv.lotHeld = Less(inv.lotHeld, m)
     /\ q.op = "destroy" => q.inv.lot = Less(inv.lot, m)

Placing(q) ==
  /\ q.units[1] > 0
  /\ q.kind # "other" => q.inv.held = inv.held + q.units[1]
  /\ q.kind = "lot" => /\ q.inv.lotHeld = inv.lotHeld + q.units[1]
                       /\ q.inv.lotHeld <= inv.lot

Relocating(q) ==
  \A i \in q.ids : i \in Held /\ q.rows = rows[i] /\ q.units[i] > 0

\* What a request has read still fits what is stored.
Fits(q) ==
  /\ q.pc \in {"count", "write"} /\ q.op \in Lifting => Reviewed(q)
  /\ q.pc = "write" =>
       /\ q.op \in Lifting => Counted(q)
       /\ q.op \in {"create", "addItem"} => Placing(q)
       /\ q.op = "relocate" => Relocating(q)
       /\ q.op \in {"receiveLot", "takeLot"} => inv.lotHeld <= q.inv.lot

SerialInv == TypeInv /\ Books /\ \A r \in Requests : Fits(req[r])

\* A sum over some of the ids, as one over all of them.
LEMMA Widened ==
  ASSUME NEW f \in [Ids -> Nat], NEW S, S \subseteq Ids
  PROVE  LET F == [i \in Ids |-> IF i \in S THEN f[i] ELSE 0]
         IN Counts(F, Ids) /\ Total(F, Ids) = Total(f, S)
<1>. DEFINE F == [i \in Ids |-> IF i \in S THEN f[i] ELSE 0]
<1>1. IsFiniteSet(S) /\ IsFiniteSet(Ids)
  BY Numbers, FS_Subset
<1>2. Counts(F, Ids) /\ (\A i \in Ids \ S : F[i] = 0) /\ (\A i \in S : F[i] = f[i])
  BY <1>1 DEF Counts
<1>. HIDE DEF F
<1>3. Total(F, Ids) = Total(F, S)
  BY <1>2, TotalPart
<1>4. Total(F, S) = Total(f, S)
  BY <1>1, <1>2, TotalSame
<1>. QED BY <1>2, <1>3, <1>4 DEF F

\* A sum that splits, id by id, into two others.
LEMMA TotalSplits ==
  ASSUME NEW f \in [Ids -> Nat], NEW g \in [Ids -> Nat], NEW u \in [Ids -> Nat],
         NEW S, NEW T, NEW U, S \subseteq Ids, T \subseteq Ids, U \subseteq Ids,
         \A i \in Ids : (IF i \in S THEN f[i] ELSE 0)
                          = (IF i \in T THEN g[i] ELSE 0) + (IF i \in U THEN u[i] ELSE 0)
  PROVE  /\ Total(f, S) = Total(g, T) + Total(u, U)
         /\ Total(g, T) \in Nat /\ Total(u, U) \in Nat
<1>. DEFINE F == [i \in Ids |-> IF i \in S THEN f[i] ELSE 0]
            G == [i \in Ids |-> IF i \in T THEN g[i] ELSE 0]
            W == [i \in Ids |-> IF i \in U THEN u[i] ELSE 0]
<1>1. /\ Counts(F, Ids) /\ Total(F, Ids) = Total(f, S)
      /\ Counts(G, Ids) /\ Total(G, Ids) = Total(g, T)
      /\ Counts(W, Ids) /\ Total(W, Ids) = Total(u, U)
  BY Widened
<1>2. \A i \in Ids : F[i] = G[i] + W[i]
  OBVIOUS
<1>. HIDE DEF F, G, W
<1>3. Total(F, Ids) = Total(G, Ids) + Total(W, Ids)
  BY <1>1, <1>2, TotalPlus
<1>. QED BY <1>1, <1>3, TotalNat

\* The counters, as sums over the open holds.
LEMMA CountersAre ==
  /\ HeldCountsHolds <=> inv.held = Total(Quantities, OnItem) /\ inv.lotHeld = Total(Quantities, OnLot)
  /\ HeldCountsHolds' <=> inv'.held = Total(Quantities', OnItem') /\ inv'.lotHeld = Total(Quantities', OnLot')
BY DEF HeldCountsHolds, HeldUnits, Quantities, OnItem, OnLot

\* Nothing is counted anew when a step leaves the holds as they are.
LEMMA HoldsStay ==
  ASSUME \A i \in Ids : /\ records'[i].status = records[i].status /\ records'[i].quantity = records[i].quantity
                        /\ records'[i].original = records[i].original /\ records'[i].kind = records[i].kind
  PROVE  /\ Quantities' = Quantities /\ OnItem' = OnItem /\ OnLot' = OnLot
         /\ Held' = Held /\ Present' = Present
BY DEF Quantities, OnItem, OnLot, Enforced, OfLot, Held, Present

\* A movement keeps the counters of holds, and the units of the lot that are held.
LEMMA MoveKeeps ==
  ASSUME SerialInv, NEW r \in Requests, Move(r)
  PROVE  Books'
<1>1. inv \in Inventory /\ req[r].inv \in Inventory
  BY DEF SerialInv, TypeInv, TypeOK, ReqState
<1>2. UNCHANGED <<records, nextId, rows, decided>>
  BY DEF Move
<1>3. inv'.held = inv.held /\ inv'.lotHeld = inv.lotHeld
  BY <1>1, WritesWhat DEF Move
<1>4. inv'.lot = inv.lot \/ inv.lotHeld <= inv'.lot
  BY <1>1, WritesWhat DEF Move, SerialInv, Fits, Writing, At
<1>5. \A i \in Ids : Kept(i)'
  BY <1>2 DEF SerialInv, Books, Kept
<1>6. HeldCountsHolds'
  BY <1>2, <1>3, CountersAre, HoldsStay DEF SerialInv, Books
<1>7. LotCoversHeld'
  BY <1>3, <1>4 DEF SerialInv, Books, LotCoversHeld
<1>. QED BY <1>5, <1>6, <1>7 DEF Books

\* Neither does a patch, a link to another report or a saved disposition.
LEMMA ChangeKeeps ==
  ASSUME SerialInv, NEW r \in Requests, Annotate(r) \/ Link(r) \/ SetDisposition(r)
  PROVE  /\ Books'
         /\ \A i \in Ids : records'[i].status = records[i].status /\ records'[i].quantity = records[i].quantity
<1>1. records \in [Ids -> Record]
  BY DEF SerialInv, TypeInv, TypeOK
<1>2. UNCHANGED <<nextId, rows, decided, inv>>
  BY DEF Annotate, Link, SetDisposition
<1>3. ASSUME NEW row \in Record, NEW a, NEW b
      PROVE  /\ [row EXCEPT !.onHold = a].status = row.status /\ [row EXCEPT !.onHold = a].quantity = row.quantity
             /\ [row EXCEPT !.onHold = a].original = row.original /\ [row EXCEPT !.onHold = a].kind = row.kind
             /\ [row EXCEPT !.ncr = b].status = row.status /\ [row EXCEPT !.ncr = b].quantity = row.quantity
             /\ [row EXCEPT !.ncr = b].original = row.original /\ [row EXCEPT !.ncr = b].kind = row.kind
  BY DEF Record
<1>4. ASSUME NEW i \in Ids
      PROVE  \/ records'[i] = records[i]
             \/ \E a : records'[i] = [records[i] EXCEPT !.onHold = a]
             \/ \E b : records'[i] = [records[i] EXCEPT !.ncr = b]
  BY DEF Annotate, Link, SetDisposition, Update
<1>5. \A i \in Ids : /\ records'[i].status = records[i].status /\ records'[i].quantity = records[i].quantity
                     /\ records'[i].original = records[i].original /\ records'[i].kind = records[i].kind
  <2>. SUFFICES ASSUME NEW i \in Ids
       PROVE  /\ records'[i].status = records[i].status /\ records'[i].quantity = records[i].quantity
              /\ records'[i].original = records[i].original /\ records'[i].kind = records[i].kind
    OBVIOUS
  <2>1. records[i] \in Record
    BY <1>1
  <2>2. CASE records'[i] = records[i]
    BY <2>2
  <2>3. ASSUME NEW a, records'[i] = [records[i] EXCEPT !.onHold = a]
        PROVE  /\ records'[i].status = records[i].status /\ records'[i].quantity = records[i].quantity
               /\ records'[i].original = records[i].original /\ records'[i].kind = records[i].kind
    BY <1>3, <2>1, <2>3
  <2>4. ASSUME NEW b, records'[i] = [records[i] EXCEPT !.ncr = b]
        PROVE  /\ records'[i].status = records[i].status /\ records'[i].quantity = records[i].quantity
               /\ records'[i].original = records[i].original /\ records'[i].kind = records[i].kind
    BY <1>3, <2>1, <2>4
  <2>. QED BY <1>4, <2>2, <2>3, <2>4
<1>6. \A i \in Ids : Kept(i)'
  BY <1>2, <1>5 DEF SerialInv, Books, Kept
<1>7. HeldCountsHolds' /\ LotCoversHeld'
  BY <1>2, <1>5, CountersAre, HoldsStay DEF SerialInv, Books, LotCoversHeld
<1>. QED BY <1>5, <1>6, <1>7 DEF Books

\* A hold of n units counts n units more, of the item and of the lot it names.
LEMMA CreateKeeps ==
  ASSUME SerialInv, NEW r \in Requests, Create(r)
  PROVE  /\ Books'
         /\ \A i \in Present : records'[i] = records[i] /\ rows'[i] = rows[i] /\ decided'[i] = decided[i]
<1>. DEFINE q == req[r]
            n == q.units[1]
<1>1. TypeOK /\ TypeOK'
  BY WriteStepType DEF WriteStep, SerialInv, TypeInv
<1>2. /\ records \in [Ids -> Record] /\ rows \in [Ids -> [Places -> Nat]] /\ inv \in Inventory
      /\ nextId \in Nat /\ decided \in [Ids -> Decided]
      /\ q.inv \in Inventory /\ q.units \in [Ids -> Nat] /\ q.kind \in {"lot", "item", "other"}
  BY <1>1, Numbers DEF TypeOK, Decided, ReqState
<1>3. /\ nextId \in Ids /\ nextId' = nextId + 1 /\ decided' = decided
      /\ Writes(q.inv, HoldColumns(q.kind))
      /\ q.pc = "write" /\ q.op \in {"create", "addItem"}
  BY <1>1, Numbers DEF Create, TypeOK, Ids, Writing, At
<1>4. n \in Nat /\ n > 0 /\ Placing(q)
  BY <1>2, <1>3, Numbers DEF SerialInv, Fits, Placing
<1>5. PICK row : /\ records' = [records EXCEPT ![nextId] = row]
                 /\ row.status = "quarantined" /\ row.kind = q.kind /\ row.quantity = n /\ row.original = n
  <2>. DEFINE new == [status |-> "quarantined", kind |-> q.kind, quantity |-> n, original |-> n,
                      ncr |-> q.ncr, onHold |-> q.op = "addItem" /\ NcrOnHold(q.ncr)]
  <2>1. records' = [records EXCEPT ![nextId] = new]
    BY DEF Create
  <2>2. new.status = "quarantined" /\ new.kind = q.kind /\ new.quantity = n /\ new.original = n
    OBVIOUS
  <2>. HIDE DEF new
  <2>. QED BY <2>1, <2>2
<1>6. PICK p \in Places : rows' = [rows EXCEPT ![nextId] = [rows[nextId] EXCEPT ![p] = n]]
  BY <1>2 DEF Create
<1>7. /\ records[nextId].status = "absent" /\ rows[nextId] = Empty /\ decided[nextId] = Undecided
      /\ nextId \notin Held
  BY <1>2, <1>3 DEF SerialInv, Books, Kept, Held
<1>8. \A i \in Ids : /\ i # nextId => records'[i] = records[i] /\ rows'[i] = rows[i]
                     /\ decided'[i] = decided[i]
  BY <1>2, <1>3, <1>5, <1>6
<1>9. /\ records'[nextId].status = "quarantined" /\ records'[nextId].kind = q.kind
      /\ records'[nextId].quantity = n /\ records'[nextId].original = n
  BY <1>2, <1>3, <1>5
<1>10. Total(rows'[nextId], Places) = n
  <2>. DEFINE f == [Empty EXCEPT ![p] = n]
  <2>1. rows'[nextId] = f
    BY <1>2, <1>3, <1>6, <1>7
  <2>2. Counts(f, Places) /\ f[p] = n /\ \A x \in Places \ {p} : f[x] = 0
    BY <1>4, Numbers DEF Empty, Counts
  <2>. HIDE DEF f
  <2>. QED BY <2>1, <2>2, TotalOne
<1>11. ASSUME NEW i \in Ids
       PROVE  Kept(i)'
  <2>1. CASE i = nextId
    BY <1>2, <1>3, <1>4, <1>7, <1>8, <1>9, <1>10, <2>1 DEF Kept, Undecided
  <2>2. CASE i # nextId
    <3>1. Kept(i) /\ i \in Nat
      BY Numbers DEF SerialInv, Books
    <3>2. i >= nextId' => i >= nextId
      BY <1>2, <1>3, <3>1
    <3>. QED BY <1>8, <2>2, <3>1, <3>2 DEF Kept
  <2>. QED BY <2>1, <2>2
\* The held units after are those before and those of the new hold.
<1>12. ASSUME NEW S, NEW T, S \subseteq Ids, T \subseteq Ids, nextId \notin S,
              T = S \/ T = S \cup {nextId}
       PROVE  Total(Quantities', T) = Total(Quantities, S) + (IF nextId \in T THEN n ELSE 0)
  <2>. DEFINE u == [i \in Ids |-> n]
              U == {nextId} \cap T
  <2>1. Quantities \in [Ids -> Nat] /\ Quantities' \in [Ids -> Nat]
    BY <1>1, <1>2 DEF Quantities, TypeOK, Record
  <2>2. u \in [Ids -> Nat] /\ U \subseteq Ids
    BY <1>3, <1>4
  <2>3. \A i \in Ids : (IF i \in T THEN Quantities'[i] ELSE 0)
                         = (IF i \in S THEN Quantities[i] ELSE 0) + (IF i \in U THEN u[i] ELSE 0)
    <3>1. \A i \in Ids : /\ Quantities'[i] = records'[i].quantity /\ Quantities[i] = records[i].quantity
                         /\ Quantities[i] \in Nat
      BY <2>1 DEF Quantities
    <3>2. \A i \in Ids : i # nextId => Quantities'[i] = Quantities[i] /\ (i \in T <=> i \in S)
      BY <1>8, <1>12, <3>1
    <3>3. Quantities'[nextId] = n /\ u[nextId] = n
      BY <1>3, <1>9, <3>1
    <3>4. \A i \in U : i = nextId
      OBVIOUS
    <3>5. nextId \in U <=> nextId \in T
      OBVIOUS
    <3>. HIDE DEF u, U
    <3>. QED BY <1>4, <1>12, <3>1, <3>2, <3>3, <3>4, <3>5
  <2>4. CASE nextId \in T
    <3>1. Counts(u, U) /\ U = {nextId}
      <4>1. U = {nextId} /\ \A x \in U : u[x] \in Nat
        BY <1>3, <1>4, <2>4
      <4>. HIDE DEF u, U
      <4>. QED BY <4>1, FS_Singleton DEF Counts
    <3>2. Total(u, U) = n
      <4>1. u[nextId] = n
        BY <1>3
      <4>. HIDE DEF u, U
      <4>. QED BY <3>1, <4>1, TotalOne
    <3>. HIDE DEF u, U
    <3>. QED BY <1>12, <2>1, <2>2, <2>3, <2>4, <3>2, TotalSplits
  <2>5. CASE nextId \notin T
    <3>1. U = {}
      BY <2>5
    <3>2. Total(u, U) = 0
      BY <3>1, TotalNone
    <3>. HIDE DEF u, U
    <3>. QED BY <1>12, <2>1, <2>2, <2>3, <2>5, <3>2, TotalSplits
  <2>. QED BY <2>4, <2>5
<1>13. /\ OnItem \subseteq Ids /\ OnItem' \subseteq Ids /\ nextId \notin OnItem
       /\ OnLot \subseteq Ids /\ OnLot' \subseteq Ids /\ nextId \notin OnLot
  BY <1>7 DEF OnItem, OnLot, Enforced, OfLot, Held
<1>14. /\ OnItem' = IF q.kind # "other" THEN OnItem \cup {nextId} ELSE OnItem
       /\ OnLot' = IF q.kind = "lot" THEN OnLot \cup {nextId} ELSE OnLot
  BY <1>3, <1>7, <1>8, <1>9 DEF OnItem, OnLot, Enforced, OfLot, Held
<1>15. /\ inv'.lot = inv.lot
       /\ inv'.held = inv.held + (IF q.kind # "other" THEN n ELSE 0)
       /\ inv'.lotHeld = inv.lotHeld + (IF q.kind = "lot" THEN n ELSE 0)
       /\ inv'.lotHeld <= inv.lot
  <2>1. /\ inv'.lot = inv.lot
        /\ inv'.held = IF q.kind # "other" THEN q.inv.held ELSE inv.held
        /\ inv'.lotHeld = IF q.kind = "lot" THEN q.inv.lotHeld ELSE inv.lotHeld
    BY <1>2, <1>3, WritesWhat DEF HoldColumns
  <2>2. inv.held \in Nat /\ inv.lotHeld \in Nat /\ inv.lotHeld <= inv.lot
    BY <1>2 DEF Inventory, SerialInv, Books, LotCoversHeld
  <2>. QED BY <1>4, <2>1, <2>2 DEF Placing
<1>16. HeldCountsHolds'
  <2>1. Total(Quantities', OnItem') = Total(Quantities, OnItem) + (IF q.kind # "other" THEN n ELSE 0)
    BY <1>12, <1>13, <1>14
  <2>2. Total(Quantities', OnLot') = Total(Quantities, OnLot) + (IF q.kind = "lot" THEN n ELSE 0)
    BY <1>12, <1>13, <1>14
  <2>. QED BY <1>15, <2>1, <2>2, CountersAre DEF SerialInv, Books
<1>17. LotCoversHeld'
  BY <1>15 DEF LotCoversHeld
<1>18. \A i \in Present : i \in Ids /\ i # nextId
  BY <1>7 DEF Present
<1>. QED BY <1>8, <1>11, <1>16, <1>17, <1>18 DEF Books

\* A relocation moves units from one place to another.
LEMMA RelocateKeeps ==
  ASSUME SerialInv, NEW r \in Requests, Relocate(r)
  PROVE  /\ Books'
         /\ \A i \in Ids : i \notin Held => rows'[i] = rows[i]
<1>. DEFINE q == req[r]
<1>1. /\ rows \in [Ids -> [Places -> Nat]] /\ q.units \in [Ids -> Nat] /\ q.ids \subseteq Ids
  BY DEF SerialInv, TypeInv, TypeOK, ReqState
<1>2. /\ UNCHANGED <<records, nextId, decided, inv>>
      /\ q.pc = "write" /\ q.op = "relocate"
      /\ rows' = [i \in Ids |-> IF i \in q.ids \cap Present
                                  THEN Relocated(rows[i], q.rows, q.from, q.to, q.units[i])
                                  ELSE rows[i]]
  BY DEF Relocate, Writing, At
<1>3. /\ q.from \in Places /\ q.to \in Places /\ q.from # q.to
      /\ \A i \in q.ids : /\ i \in Held /\ q.rows = rows[i]
                          /\ q.units[i] \in Nat /\ q.units[i] > 0 /\ q.units[i] <= rows[i][q.from]
  BY <1>1, <1>2 DEF SerialInv, TypeInv, MayRelocate, Fits, Relocating
<1>4. ASSUME NEW f \in [Places -> Nat], NEW a \in Places, NEW b \in Places, a # b,
             NEW n \in Nat, n > 0, n <= f[a]
      PROVE  Total(Relocated(f, f, a, b, n), Places) = Total(f, Places)
  <2>. DEFINE g == Relocated(f, f, a, b, n)
  <2>1. /\ g[a] = f[a] - n /\ g[b] = f[b] + n
        /\ \A x \in Places : x # a /\ x # b => g[x] = f[x]
        /\ \A x \in Places : f[x] \in Nat
    BY <1>4 DEF Relocated
  <2>. HIDE DEF g
  <2>2. Counts(f, Places) /\ Counts(g, Places)
    BY <1>4, <2>1, Numbers DEF Counts
  <2>. DEFINE P == Places \ {a}
              Q == P \ {b}
  <2>3. /\ Total(f, Places) = f[a] + Total(f, P) /\ Counts(f, P)
        /\ Total(g, Places) = g[a] + Total(g, P) /\ Counts(g, P)
    BY <2>2, TotalRemove
  <2>4. /\ Total(f, P) = f[b] + Total(f, Q) /\ Counts(f, Q)
        /\ Total(g, P) = g[b] + Total(g, Q) /\ Counts(g, Q)
    BY <1>4, <2>3, TotalRemove
  <2>5. Total(g, Q) = Total(f, Q) /\ Total(f, Q) \in Nat
    <3>1. IsFiniteSet(Q) /\ \A x \in Q : g[x] = f[x]
      BY <2>1, <2>4 DEF Counts
    <3>. HIDE DEF Q
    <3>. QED BY <2>4, <3>1, TotalSame, TotalNat
  <2>. HIDE DEF Q, P
  <2>6. PICK k \in Nat, l \in Nat, t \in Nat : k = f[a] /\ l = f[b] /\ t = Total(f, Q)
    BY <2>5
  <2>7. Total(f, Places) = k + (l + t)
    BY <2>3, <2>4, <2>6
  <2>8. Total(g, Places) = (k - n) + ((l + n) + t)
    BY <2>1, <2>3, <2>4, <2>5, <2>6
  <2>. QED BY <2>7, <2>8 DEF g
<1>5. ASSUME NEW i \in Ids
      PROVE  Total(rows'[i], Places) = Total(rows[i], Places) /\ (i \notin Held => rows'[i] = rows[i])
  <2>1. CASE i \in q.ids \cap Present
    <3>1. rows'[i] = Relocated(rows[i], rows[i], q.from, q.to, q.units[i])
      BY <1>2, <1>3, <2>1
    <3>2. rows[i] \in [Places -> Nat] /\ i \in Held
      BY <1>1, <1>3, <2>1
    <3>. QED BY <1>3, <1>4, <2>1, <3>1, <3>2
  <2>2. CASE i \notin q.ids \cap Present
    BY <1>2, <2>2
  <2>. QED BY <2>1, <2>2
<1>6. \A i \in Ids : Kept(i)'
  BY <1>2, <1>5 DEF SerialInv, Books, Kept, Held
<1>7. HeldCountsHolds' /\ LotCoversHeld'
  BY <1>2, CountersAre, HoldsStay DEF SerialInv, Books, LotCoversHeld
<1>. QED BY <1>5, <1>6, <1>7 DEF Books

\* What a decision or a deletion takes off the counters is what the holds lose, and no
\* more of the lot leaves than was held of it.
LEMMA LiftKeeps ==
  ASSUME SerialInv, NEW r \in Requests, req[r].pc = "write", req[r].op \in Lifting, TypeOK',
         Writes(req[r].inv, DecisionColumns(req[r])),
         \A i \in Ids : i \notin req[r].ids => records'[i] = records[i],
         \A i \in req[r].ids :
           \/ /\ records'[i].status = "quarantined" /\ records'[i].kind = records[i].kind
              /\ records'[i].quantity = records[i].quantity - req[r].units[i]
           \/ /\ records'[i].status # "quarantined"
              /\ req[r].units[i] = records[i].quantity
  PROVE  HeldCountsHolds' /\ LotCoversHeld'
<1>. DEFINE q == req[r]
            n == Total(q.units, Enforced(q.ids))
            m == Total(q.units, OfLot(q.ids))
<1>1. TypeOK /\ Reviewed(q) /\ Counted(q) /\ HeldCountsHolds /\ LotCoversHeld
  BY DEF SerialInv, TypeInv, Books, Fits
<1>2. /\ inv \in Inventory /\ q.inv \in Inventory /\ q.units \in [Ids -> Nat] /\ q.ids \subseteq Ids
      /\ Quantities \in [Ids -> Nat] /\ Quantities' \in [Ids -> Nat]
  BY <1>1 DEF TypeOK, ReqState, Quantities, Record
<1>3. /\ OnItem \subseteq Ids /\ OnItem' \subseteq Ids /\ Enforced(q.ids) \subseteq Ids
      /\ OnLot \subseteq Ids /\ OnLot' \subseteq Ids /\ OfLot(q.ids) \subseteq Ids
  BY <1>2 DEF OnItem, OnLot, Enforced, OfLot, Held
<1>4. ASSUME NEW i \in Ids
      PROVE  /\ Quantities[i] = records[i].quantity /\ Quantities'[i] = records'[i].quantity
             /\ records[i].quantity \in Nat /\ q.units[i] \in Nat
             /\ i \in OnItem <=> records[i].status = "quarantined" /\ records[i].kind # "other"
             /\ i \in OnItem' <=> records'[i].status = "quarantined" /\ records'[i].kind # "other"
             /\ i \in OnLot <=> records[i].status = "quarantined" /\ records[i].kind = "lot"
             /\ i \in OnLot' <=> records'[i].status = "quarantined" /\ records'[i].kind = "lot"
             /\ i \in Enforced(q.ids) <=> i \in q.ids /\ records[i].kind # "other"
             /\ i \in OfLot(q.ids) <=> i \in q.ids /\ records[i].kind = "lot"
             /\ i \in q.ids => records[i].status = "quarantined"
  BY <1>1, <1>2 DEF Quantities, OnItem, OnLot, Enforced, OfLot, Held, Reviewed, TypeOK, Record
<1>5. Total(Quantities, OnItem) = Total(Quantities', OnItem') + n /\ Total(Quantities', OnItem') \in Nat /\ n \in Nat
  <2>1. \A i \in Ids : (IF i \in OnItem THEN Quantities[i] ELSE 0)
          = (IF i \in OnItem' THEN Quantities'[i] ELSE 0) + (IF i \in Enforced(q.ids) THEN q.units[i] ELSE 0)
    <3>1. ASSUME NEW i \in Ids, i \in q.ids
          PROVE  (IF i \in OnItem THEN Quantities[i] ELSE 0)
            = (IF i \in OnItem' THEN Quantities'[i] ELSE 0) + (IF i \in Enforced(q.ids) THEN q.units[i] ELSE 0)
      BY <1>4, <3>1
    <3>2. ASSUME NEW i \in Ids, i \notin q.ids
          PROVE  (IF i \in OnItem THEN Quantities[i] ELSE 0)
            = (IF i \in OnItem' THEN Quantities'[i] ELSE 0) + (IF i \in Enforced(q.ids) THEN q.units[i] ELSE 0)
      BY <1>4, <3>2
    <3>. QED BY <3>1, <3>2
  <2>2. PICK g \in [Ids -> Nat], T \in SUBSET Ids, U \in SUBSET Ids :
          g = Quantities' /\ T = OnItem' /\ U = Enforced(q.ids)
    BY <1>2, <1>3
  <2>3. Total(Quantities, OnItem) = Total(g, T) + Total(q.units, U) /\ Total(g, T) \in Nat /\ Total(q.units, U) \in Nat
    <3>1. PICK f \in [Ids -> Nat], S \in SUBSET Ids, u \in [Ids -> Nat] :
            f = Quantities /\ S = OnItem /\ u = q.units
      BY <1>2, <1>3
    <3>2. \A i \in Ids : (IF i \in S THEN f[i] ELSE 0)
            = (IF i \in T THEN g[i] ELSE 0) + (IF i \in U THEN u[i] ELSE 0)
      BY <2>1, <2>2, <3>1
    <3>3. Total(f, S) = Total(g, T) + Total(u, U) /\ Total(g, T) \in Nat /\ Total(u, U) \in Nat
      BY <3>2, TotalSplits
    <3>. QED BY <3>1, <3>3
  <2>. QED BY <2>2, <2>3
<1>6. Total(Quantities, OnLot) = Total(Quantities', OnLot') + m /\ Total(Quantities', OnLot') \in Nat /\ m \in Nat
  <2>1. \A i \in Ids : (IF i \in OnLot THEN Quantities[i] ELSE 0)
          = (IF i \in OnLot' THEN Quantities'[i] ELSE 0) + (IF i \in OfLot(q.ids) THEN q.units[i] ELSE 0)
    <3>1. ASSUME NEW i \in Ids, i \in q.ids
          PROVE  (IF i \in OnLot THEN Quantities[i] ELSE 0)
            = (IF i \in OnLot' THEN Quantities'[i] ELSE 0) + (IF i \in OfLot(q.ids) THEN q.units[i] ELSE 0)
      BY <1>4, <3>1
    <3>2. ASSUME NEW i \in Ids, i \notin q.ids
          PROVE  (IF i \in OnLot THEN Quantities[i] ELSE 0)
            = (IF i \in OnLot' THEN Quantities'[i] ELSE 0) + (IF i \in OfLot(q.ids) THEN q.units[i] ELSE 0)
      BY <1>4, <3>2
    <3>. QED BY <3>1, <3>2
  <2>2. PICK g \in [Ids -> Nat], T \in SUBSET Ids, U \in SUBSET Ids :
          g = Quantities' /\ T = OnLot' /\ U = OfLot(q.ids)
    BY <1>2, <1>3
  <2>3. Total(Quantities, OnLot) = Total(g, T) + Total(q.units, U) /\ Total(g, T) \in Nat /\ Total(q.units, U) \in Nat
    <3>1. PICK f \in [Ids -> Nat], S \in SUBSET Ids, u \in [Ids -> Nat] :
            f = Quantities /\ S = OnLot /\ u = q.units
      BY <1>2, <1>3
    <3>2. \A i \in Ids : (IF i \in S THEN f[i] ELSE 0)
            = (IF i \in T THEN g[i] ELSE 0) + (IF i \in U THEN u[i] ELSE 0)
      BY <2>1, <2>2, <3>1
    <3>3. Total(f, S) = Total(g, T) + Total(u, U) /\ Total(g, T) \in Nat /\ Total(u, U) \in Nat
      BY <3>2, TotalSplits
    <3>. QED BY <3>1, <3>3
  <2>. QED BY <2>2, <2>3
<1>7. (Enforced(q.ids) = {} => n = 0) /\ (OfLot(q.ids) = {} => m = 0)
  BY TotalNone
<1>8. /\ inv'.held = IF Enforced(q.ids) # {} THEN q.inv.held ELSE inv.held
      /\ inv'.lotHeld = IF OfLot(q.ids) # {} THEN q.inv.lotHeld ELSE inv.lotHeld
      /\ inv'.lot = IF OfLot(q.ids) # {} /\ q.op = "destroy" THEN q.inv.lot ELSE inv.lot
  BY <1>2, WritesWhat DEF DecisionColumns
<1>9. /\ q.inv.held = Less(inv.held, n) /\ q.inv.lotHeld = Less(inv.lotHeld, m)
      /\ q.op = "destroy" => q.inv.lot = Less(inv.lot, m)
  BY <1>1 DEF Counted
<1>. HIDE DEF n, m, q
<1>10. /\ inv.held \in Nat /\ inv.lotHeld \in Nat /\ inv.lot \in Nat
       /\ n <= inv.held /\ m <= inv.lotHeld /\ inv.lotHeld <= inv.lot
       /\ inv.held = Total(Quantities', OnItem') + n
       /\ inv.lotHeld = Total(Quantities', OnLot') + m
  BY <1>1, <1>2, <1>5, <1>6, CountersAre DEF Inventory, LotCoversHeld
<1>11. inv'.held = inv.held - n /\ inv'.lotHeld = inv.lotHeld - m
  BY <1>5, <1>6, <1>7, <1>8, <1>9, <1>10, LessNat
<1>12. inv'.lot = inv.lot \/ inv'.lot = inv.lot - m
  BY <1>6, <1>8, <1>9, <1>10 DEF Less
<1>13. HeldCountsHolds'
  BY <1>5, <1>6, <1>10, <1>11, CountersAre
<1>14. LotCoversHeld'
  BY <1>6, <1>10, <1>11, <1>12 DEF LotCoversHeld
<1>. QED BY <1>13, <1>14

\* A deletion takes an open hold off, with its places, and leaves no decision behind.
LEMMA DeleteKeeps ==
  ASSUME SerialInv, NEW r \in Requests, Delete(r)
  PROVE  /\ Books'
         /\ \A i \in Ids : i \notin Held => records'[i] = records[i] /\ rows'[i] = rows[i] /\ decided'[i] = decided[i]
<1>. DEFINE q == req[r]
<1>1. TypeOK /\ TypeOK'
  BY WriteStepType DEF WriteStep, SerialInv, TypeInv
<1>2. /\ UNCHANGED <<nextId, decided>> /\ q.pc = "write" /\ q.op = "delete"
      /\ Writes(q.inv, DecisionColumns(q))
      /\ \A i \in q.ids : decided[i] = Undecided
      /\ Update(q.ids, [i \in Ids |-> NoRecord])
      /\ rows' = [i \in Ids |-> IF i \in q.ids THEN Empty ELSE rows[i]]
  BY DEF Delete, Writing, At, LiftColumns, NoDecision
<1>3. Reviewed(q) /\ q.ids \subseteq Ids
  BY <1>1, <1>2 DEF SerialInv, Fits, Lifting, TypeOK, ReqState
<1>4. \A i \in Ids : /\ records'[i] = IF i \in q.ids THEN NoRecord ELSE records[i]
                     /\ rows'[i] = IF i \in q.ids THEN Empty ELSE rows[i]
  BY <1>1, <1>2, <1>3 DEF Update, Reviewed, Held, Present
<1>5. NoRecord.status = "absent"
  BY DEF NoRecord
<1>6. HeldCountsHolds' /\ LotCoversHeld'
  <2>1. /\ \A i \in Ids : i \notin q.ids => records'[i] = records[i]
        /\ \A i \in q.ids : records'[i].status # "quarantined" /\ q.units[i] = records[i].quantity
    BY <1>2, <1>3, <1>4, <1>5 DEF Reviewed
  <2>. QED BY <1>1, <1>2, <2>1, LiftKeeps DEF Lifting
<1>7. ASSUME NEW i \in Ids
      PROVE  Kept(i)'
  <2>1. CASE i \in q.ids
    BY <1>2, <1>4, <1>5, <2>1 DEF Kept
  <2>2. CASE i \notin q.ids
    BY <1>2, <1>4, <2>2 DEF SerialInv, Books, Kept
  <2>. QED BY <2>1, <2>2
<1>. QED BY <1>2, <1>3, <1>4, <1>6, <1>7 DEF Books, Reviewed

\* A decision moves units from a hold, its places and the counters to what was decided.
LEMMA DecideKeeps ==
  ASSUME SerialInv, NEW r \in Requests, Decide(r)
  PROVE  /\ Books'
         /\ \A i \in Ids : i \notin Held => records'[i] = records[i] /\ rows'[i] = rows[i] /\ decided'[i] = decided[i]
<1>. DEFINE q == req[r]
            taken == [i \in Ids |-> [decided[i] EXCEPT ![q.op] = @ + q.units[i]]]
            left(i) == Less(q.seen[i], q.units[i])
            new == [i \in Ids |-> [records[i] EXCEPT !.quantity = left(i), !.status = Closes(left(i), taken[i], q.op)]]
<1>1. TypeOK /\ TypeOK'
  BY WriteStepType DEF WriteStep, SerialInv, TypeInv
<1>2. /\ nextId' = nextId /\ q.pc = "write" /\ q.op \in {"release", "destroy"}
      /\ Writes(q.inv, DecisionColumns(q))
      /\ decided' = [i \in Ids |-> IF i \in q.ids THEN taken[i] ELSE decided[i]]
      /\ Update(q.ids, new)
  BY DEF Decide, Writing, At
<1>3. PICK f : /\ \A i \in q.ids : f[i] \in Reduced(rows[i], q.units[i])
               /\ rows' = [i \in Ids |-> IF i \in q.ids THEN f[i] ELSE rows[i]]
  BY DEF Decide
<1>4. Reviewed(q) /\ q.ids \subseteq Ids /\ q.ids \subseteq Present
  <2>1. Reviewed(q) /\ q.ids \subseteq Ids
    BY <1>1, <1>2 DEF SerialInv, Fits, Lifting, TypeOK, ReqState
  <2>. QED BY <2>1 DEF Reviewed, Held, Present
<1>5. ASSUME NEW i \in Ids, i \notin q.ids
      PROVE  records'[i] = records[i] /\ rows'[i] = rows[i] /\ decided'[i] = decided[i]
  BY <1>2, <1>3, <1>5 DEF Update
<1>6. ASSUME NEW i \in q.ids
      PROVE  /\ records'[i].kind = records[i].kind /\ records'[i].original = records[i].original
             /\ records'[i].quantity = records[i].quantity - q.units[i]
             /\ records'[i].status = Closes(records'[i].quantity, decided'[i], q.op)
             /\ decided'[i].release = decided[i].release + (IF q.op = "release" THEN q.units[i] ELSE 0)
             /\ decided'[i].destroy = decided[i].destroy + (IF q.op = "destroy" THEN q.units[i] ELSE 0)
             /\ Total(rows'[i], Places) = Less(Total(rows[i], Places), q.units[i])
             /\ q.units[i] \in Nat /\ q.units[i] > 0 /\ q.units[i] <= records[i].quantity
             /\ records[i] \in Record /\ decided[i] \in Decided /\ records[i].status = "quarantined"
             /\ i \in Ids
  <2>1. /\ q.units[i] \in Nat /\ q.units[i] > 0 /\ q.units[i] <= records[i].quantity
        /\ records[i] \in Record /\ decided[i] \in Decided /\ records[i].status = "quarantined"
        /\ q.seen[i] = records[i].quantity /\ records[i].quantity \in Nat /\ i \in Ids
    <3>1. q \in ReqState /\ records \in [Ids -> Record] /\ decided \in [Ids -> Decided] /\ i \in Ids
      BY <1>1, <1>4 DEF TypeOK, Decided
    <3>2. q.units[i] \in Nat /\ records[i] \in Record /\ decided[i] \in Decided
      BY <3>1 DEF ReqState
    <3>3. records[i].quantity \in Nat
      BY <3>2 DEF Record
    <3>4. /\ q.units[i] > 0 /\ q.units[i] <= records[i].quantity /\ records[i].status = "quarantined"
          /\ q.seen[i] = records[i].quantity
      BY <1>2, <1>4 DEF Reviewed, Held
    <3>. QED BY <3>1, <3>2, <3>3, <3>4
  <2>2. PICK k : k = records[i].quantity - q.units[i] /\ left(i) = k
    <3>1. PICK a \in Nat, b \in Nat : a = records[i].quantity /\ b = q.units[i] /\ b <= a
      BY <2>1
    <3>2. left(i) = Less(a, b)
      BY <2>1, <3>1
    <3>. HIDE DEF left
    <3>. QED BY <3>1, <3>2, LessNat
  <2>3. decided'[i] = taken[i] /\ taken[i] = [decided[i] EXCEPT ![q.op] = @ + q.units[i]]
    BY <1>2, <2>1
  <2>4. /\ decided'[i].release = decided[i].release + (IF q.op = "release" THEN q.units[i] ELSE 0)
        /\ decided'[i].destroy = decided[i].destroy + (IF q.op = "destroy" THEN q.units[i] ELSE 0)
    <3>1. PICK d \in Decided, op \in {"release", "destroy"}, u \in Nat :
            d = decided[i] /\ op = q.op /\ u = q.units[i]
      BY <1>2, <2>1
    <3>2. decided'[i] = [d EXCEPT ![op] = @ + u]
      BY <2>3, <3>1
    <3>3. /\ decided'[i].release = d.release + (IF op = "release" THEN u ELSE 0)
          /\ decided'[i].destroy = d.destroy + (IF op = "destroy" THEN u ELSE 0)
      BY <3>2, DecidedType
    <3>. QED BY <3>1, <3>3
  <2>5. records'[i] = [records[i] EXCEPT !.quantity = k, !.status = Closes(k, decided'[i], q.op)]
    BY <1>2, <1>4, <2>1, <2>2, <2>3 DEF Update
  <2>6. /\ records'[i].kind = records[i].kind /\ records'[i].original = records[i].original
        /\ records'[i].quantity = k /\ records'[i].status = Closes(k, decided'[i], q.op)
    <3>1. \A st : LET row == [records[i] EXCEPT !.quantity = k, !.status = st]
                  IN row.kind = records[i].kind /\ row.original = records[i].original
                     /\ row.quantity = k /\ row.status = st
      BY <2>1 DEF Record
    <3>. QED BY <2>5, <3>1
  <2>7. Total(rows'[i], Places) = Less(Total(rows[i], Places), q.units[i])
    BY <1>3, <2>1 DEF Reduced
  <2>. QED BY <2>1, <2>2, <2>4, <2>6, <2>7
<1>. HIDE DEF taken, left, new
<1>7. ASSUME NEW i \in q.ids
      PROVE  /\ records'[i].quantity \in Nat
             /\ records'[i].quantity > 0 => records'[i].status = "quarantined"
             /\ records'[i].quantity = 0 =>
                  records'[i].status = IF decided'[i].release > 0 THEN "released" ELSE "destroyed"
  BY <1>6 DEF Closes, Record
<1>8. HeldCountsHolds' /\ LotCoversHeld'
  <2>1. \A i \in q.ids :
           \/ /\ records'[i].status = "quarantined" /\ records'[i].kind = records[i].kind
              /\ records'[i].quantity = records[i].quantity - q.units[i]
           \/ /\ records'[i].status # "quarantined"
              /\ q.units[i] = records[i].quantity
    <3>1. ASSUME NEW i \in q.ids
          PROVE \/ /\ records'[i].status = "quarantined" /\ records'[i].kind = records[i].kind
                   /\ records'[i].quantity = records[i].quantity - q.units[i]
                \/ /\ records'[i].status # "quarantined"
                   /\ q.units[i] = records[i].quantity
      <4>1. records[i].quantity \in Nat
        BY <1>6 DEF Record
      <4>. QED BY <1>6, <1>7, <4>1
    <3>. QED BY <3>1
  <2>. QED BY <1>1, <1>2, <1>5, <2>1, LiftKeeps DEF Lifting
<1>9. ASSUME NEW i \in Ids
      PROVE  Kept(i)'
  <2>1. CASE i \in q.ids
    <3>1. /\ records[i].status # "absent" /\ ~(i >= nextId) /\ Kept(i)
          /\ records[i].quantity \in Nat /\ decided[i].release \in Nat /\ decided[i].destroy \in Nat
      BY <1>6, <2>1 DEF SerialInv, Books, Kept, Record, Decided
    <3>2. /\ records[i].original > 0
          /\ records[i].original = records[i].quantity + decided[i].release + decided[i].destroy
          /\ Total(rows[i], Places) = records[i].quantity
      BY <3>1 DEF Kept
    <3>3. records'[i].original = records'[i].quantity + decided'[i].release + decided'[i].destroy
      BY <1>2, <1>6, <2>1, <3>1, <3>2
    <3>4. Total(rows'[i], Places) = records'[i].quantity
      <4>1. PICK u \in Nat, k \in Nat : u = q.units[i] /\ k = records[i].quantity /\ u <= k
        BY <1>6, <2>1, <3>1
      <4>2. Total(rows'[i], Places) = Less(k, u) /\ records'[i].quantity = k - u
        BY <1>6, <2>1, <3>2, <4>1
      <4>. QED BY <4>1, <4>2, LessNat
    <3>5. records'[i].status \in {"quarantined", "released", "destroyed"}
      BY <1>7, <2>1
    <3>6. /\ records'[i].status = "quarantined" <=> records'[i].quantity > 0
          /\ records'[i].status = "released" => decided'[i].release > 0
      BY <1>7, <2>1
    <3>7. decided'[i].release \in Nat
      BY <1>6, <2>1, <3>1
    <3>8. records'[i].status = "destroyed" => decided'[i].release = 0
      BY <1>7, <2>1, <3>7
    <3>9. records'[i].original > 0
      BY <1>6, <2>1, <3>2
    <3>. QED BY <1>2, <3>1, <3>3, <3>4, <3>5, <3>6, <3>8, <3>9 DEF Kept
  <2>2. CASE i \notin q.ids
    BY <1>2, <1>5, <2>2 DEF SerialInv, Books, Kept
  <2>. QED BY <2>1, <2>2
<1>. QED BY <1>4, <1>5, <1>8, <1>9 DEF Books, Reviewed

\* A step that only reads leaves the books, and what is read fits them until it is used.
LEMMA ReadKeeps ==
  ASSUME OneAtATime, SerialInv, NEW r \in Requests, NEW q, req' = [req EXCEPT ![r] = q], Reads, Fits(q)
  PROVE  Books' /\ (\A s \in Requests : Fits(req[s]))'
<1>1. req \in [Requests -> ReqState]
  BY DEF SerialInv, TypeInv, TypeOK
<1>2. \A s \in Requests : req'[s] = q
  BY <1>1 DEF OneAtATime
<1>3. Held' = Held /\ UNCHANGED <<records, nextId, rows, decided, inv>>
  BY DEF Reads, Held
<1>4. Fits(q)'
  <2>1. Reviewed(q) => Reviewed(q)'
    BY <1>3 DEF Reviewed
  <2>2. Counted(q) => Counted(q)'
    BY <1>3 DEF Counted, Enforced, OfLot
  <2>3. (Placing(q) => Placing(q)') /\ (Relocating(q) => Relocating(q)')
    BY <1>3 DEF Placing, Relocating
  <2>. QED BY <1>3, <2>1, <2>2, <2>3 DEF Fits
<1>5. (\A s \in Requests : Fits(req[s]))'
  <2>. SUFFICES ASSUME NEW s \in Requests
       PROVE  Fits(req[s])'
    OBVIOUS
  <2>1. req'[s] = q
    BY <1>2
  <2>. QED BY <1>4, <2>1 DEF Fits, Reviewed, Counted, Placing, Relocating
<1>6. Books'
  BY <1>3 DEF SerialInv, Books, Kept, HeldCountsHolds, HeldUnits, LotCoversHeld, Enforced, OfLot
<1>. QED BY <1>5, <1>6

\* A request reads nothing that does not fit what is stored.
LEMMA ReadFits ==
  ASSUME SerialInv, NEW r \in Requests, ReadStep(r)
  PROVE  Reads /\ \E q : Goes(r, q) /\ Fits(q)
<1>. USE Numbers
<1>1. /\ records \in [Ids -> Record] /\ rows \in [Ids -> [Places -> Nat]] /\ inv \in Inventory
      /\ req \in [Requests -> ReqState] /\ req[r] \in ReqState
  BY DEF SerialInv, TypeInv, TypeOK
<1>2. /\ inv.onHand \in Nat /\ inv.held \in Nat /\ inv.lot \in Nat /\ inv.lotHeld \in Nat
      /\ inv.lotHeld <= inv.lot
  BY <1>1 DEF Inventory, SerialInv, Books, LotCoversHeld
<1>3. \A i \in Held : /\ i \in Ids /\ records[i].quantity \in Nat /\ records[i].quantity > 0
  BY <1>1 DEF Held, Record, SerialInv, Books, Kept
<1>4. ASSUME NEW op \in {"receive", "receiveLot", "take", "takeLot", "adjustUp", "adjustDown"},
             NEW n \in Units, ReadForMovement(r, op, n)
      PROVE  Reads /\ \E q : Goes(r, q) /\ Fits(q)
  <2>1. PICK q : q = [Idle EXCEPT !.pc = "write", !.op = op, !.inv = Moved(op, inv, n)]
    OBVIOUS
  <2>2. q.op = op /\ q.inv = Moved(op, inv, n)
    BY <2>1 DEF Idle
  <2>3. op \in {"receiveLot", "takeLot"} => inv.lotHeld <= Moved(op, inv, n).lot
    <3>1. n \in Nat /\ n > 0
      OBVIOUS
    <3>2. CASE op = "receiveLot"
      <4>1. Moved(op, inv, n).lot = inv.lot + n
        BY <1>1, <3>2 DEF Moved, Inventory
      <4>. QED BY <1>2, <3>1, <4>1
    <3>3. CASE op = "takeLot"
      <4>1. Spares(inv, n, n)
        BY <1>4, <3>3 DEF ReadForMovement, MayMove
      <4>2. Moved(op, inv, n).lot = Less(inv.lot, n)
        BY <1>1, <3>3 DEF Moved, Taken, Inventory
      <4>. QED BY <1>2, <3>1, <4>1, <4>2 DEF Spares, Less
    <3>. QED BY <3>2, <3>3
  <2>4. Fits(q)
    BY <2>2, <2>3 DEF Fits, Lifting
  <2>. QED BY <1>4, <2>1, <2>4 DEF ReadForMovement
<1>5. ASSUME NEW op \in {"create", "addItem"}, NEW kind \in {"lot", "item", "other"}, NEW n \in Units,
             NEW ncr \in Ncrs \cup {NoNcr}, ReadForCreate(r, op, kind, n, ncr)
      PROVE  Reads /\ \E q : Goes(r, q) /\ Fits(q)
  <2>1. PICK q : q = [Idle EXCEPT !.pc = "write", !.op = op, !.kind = kind, !.ncr = ncr,
                                  !.units[1] = n, !.inv = Placed(inv, n, kind)]
    OBVIOUS
  <2>2. q.op = op /\ q.kind = kind /\ q.units[1] = n /\ q.inv = Placed(inv, n, kind)
    BY <2>1 DEF Idle, NoUnits
  <2>3. /\ Placed(inv, n, kind).held = inv.held + n
        /\ kind = "lot" => Placed(inv, n, kind).lotHeld = inv.lotHeld + n
    BY <1>1 DEF Placed, Inventory
  <2>4. kind = "lot" => n <= Holdable(inv, "lot")
    BY <1>5 DEF ReadForCreate
  <2>5. kind = "lot" => inv.lotHeld + n <= inv.lot
    BY <1>2, <2>4 DEF Holdable, Least, Less
  <2>6. Placing(q)
    BY <2>2, <2>3, <2>5 DEF Placing
  <2>7. Fits(q)
    BY <2>2, <2>6 DEF Fits, Lifting
  <2>. QED BY <1>5, <2>1, <2>7 DEF ReadForCreate
<1>6. ASSUME NEW op \in {"annotate", "link"}, NEW i, NEW ncr, ReadForChange(r, op, i, ncr)
      PROVE  Reads /\ \E q : Goes(r, q) /\ Fits(q)
  <2>1. PICK q : q = [Idle EXCEPT !.pc = "write", !.op = op, !.ids = {i}, !.ncr = ncr]
    OBVIOUS
  <2>2. q.op = op
    BY <2>1 DEF Idle
  <2>3. Fits(q)
    BY <2>2 DEF Fits, Lifting
  <2>. QED BY <1>6, <2>1, <2>3 DEF ReadForChange
<1>7. ASSUME NEW i \in Ids, NEW from \in Places, NEW to \in Places, NEW n \in Units,
             ReadForRelocate(r, i, from, to, n)
      PROVE  Reads /\ \E q : Goes(r, q) /\ Fits(q)
  <2>1. PICK q : q = [Idle EXCEPT !.pc = "write", !.op = "relocate", !.ids = {i}, !.from = from,
                                  !.to = to, !.units[i] = n, !.rows = rows[i]]
    OBVIOUS
  <2>2. q.op = "relocate" /\ q.ids = {i} /\ q.rows = rows[i] /\ q.units[i] = n
    BY <2>1 DEF Idle, NoUnits
  <2>3. Relocating(q)
    BY <1>7, <2>2 DEF Relocating, ReadForRelocate, MayChange
  <2>4. Fits(q)
    BY <2>2, <2>3 DEF Fits, Lifting
  <2>. QED BY <1>7, <2>1, <2>4 DEF ReadForRelocate
<1>8. ASSUME NEW n \in Ncrs, NEW onHold \in BOOLEAN, ReadForDisposition(r, n, onHold)
      PROVE  Reads /\ \E q : Goes(r, q) /\ Fits(q)
  <2>1. PICK q : q = [Idle EXCEPT !.pc = "write", !.op = "setDisposition", !.ids = HeldFor(n), !.onHold = onHold]
    OBVIOUS
  <2>2. q.op = "setDisposition"
    BY <2>1 DEF Idle
  <2>3. Fits(q)
    BY <2>2 DEF Fits, Lifting
  <2>. QED BY <1>8, <2>1, <2>3 DEF ReadForDisposition
<1>9. ASSUME NEW op \in {"release", "destroy"}, NEW i \in Ids, NEW n \in Units, ReadForDecision(r, op, i, n)
      PROVE  Reads /\ \E q : Goes(r, q) /\ Fits(q)
  <2>1. PICK q : q = [Idle EXCEPT !.pc = "count", !.op = op, !.ids = {i}, !.units[i] = n,
                                  !.seen[i] = records[i].quantity]
    OBVIOUS
  <2>2. q.pc = "count" /\ q.op = op /\ q.ids = {i} /\ q.units[i] = n /\ q.seen[i] = records[i].quantity
    BY <2>1 DEF Idle, NoUnits
  <2>3. Fits(q)
    BY <1>9, <2>2 DEF Fits, Reviewed, ReadForDecision
  <2>. QED BY <1>9, <2>1, <2>3 DEF ReadForDecision
<1>10. ASSUME NEW op \in {"release", "destroy"}, NEW n \in Ncrs, ReadForCompletion(r, op, n)
       PROVE  Reads /\ \E q : Goes(r, q) /\ Fits(q)
  <2>. DEFINE seen == [i \in Ids |-> IF i \in HeldFor(n) THEN records[i].quantity ELSE 0]
  <2>1. PICK q : q = [Idle EXCEPT !.pc = "count", !.op = op, !.ids = HeldFor(n), !.units = seen, !.seen = seen]
    OBVIOUS
  <2>2. Goes(r, q) /\ Reads
    BY <1>10, <2>1 DEF ReadForCompletion
  <2>3. HeldFor(n) \subseteq Held /\ \A i \in HeldFor(n) : seen[i] = records[i].quantity
    BY <1>3 DEF HeldFor
  <2>. HIDE DEF seen
  <2>4. q.pc = "count" /\ q.op = op /\ q.ids = HeldFor(n) /\ q.units = seen /\ q.seen = seen
    BY <2>1 DEF Idle
  <2>5. Fits(q)
    BY <1>3, <2>3, <2>4 DEF Fits, Reviewed
  <2>. QED BY <2>2, <2>5
<1>11. ASSUME NEW i \in Ids, ReadForDelete(r, i)
       PROVE  Reads /\ \E q : Goes(r, q) /\ Fits(q)
  <2>1. PICK q : q = [Idle EXCEPT !.pc = "count", !.op = "delete", !.ids = {i},
                                  !.units[i] = IF i \in Held THEN records[i].quantity ELSE 0]
    OBVIOUS
  <2>2. i \in Held
    <3>1. Kept(i) /\ records[i].status # "absent" /\ decided[i].release = 0 /\ decided[i].destroy = 0
      BY <1>11 DEF ReadForDelete, NoDecision, Undecided, Present, SerialInv, Books
    <3>2. records[i].quantity \in Nat
      BY <1>1 DEF Record
    <3>. QED BY <3>1, <3>2 DEF Kept, Held
  <2>3. q.pc = "count" /\ q.op = "delete" /\ q.ids = {i} /\ q.units[i] = records[i].quantity
    BY <2>1, <2>2 DEF Idle, NoUnits
  <2>4. Fits(q)
    BY <1>3, <2>2, <2>3 DEF Fits, Reviewed
  <2>. QED BY <1>11, <2>1, <2>4 DEF ReadForDelete
<1>12. CASE ReadCounters(r)
  <2>. DEFINE n == Total(req[r].units, Enforced(req[r].ids))
              m == Total(req[r].units, OfLot(req[r].ids))
              v == IF req[r].op = "destroy" THEN Taken(Lifted(inv, n, m), n, m) ELSE Lifted(inv, n, m)
  <2>1. n \in Nat /\ m \in Nat
    BY <1>1, TotalsNat DEF ReqState
  <2>2. PICK q : q = [req[r] EXCEPT !.pc = "write", !.inv = v]
    OBVIOUS
  <2>3. Goes(r, q) /\ Reads /\ req[r].pc = "count"
    BY <1>12, <2>2 DEF ReadCounters, At
  <2>4. /\ v.held = Less(inv.held, n) /\ v.lotHeld = Less(inv.lotHeld, m)
        /\ req[r].op = "destroy" => v.lot = Less(inv.lot, m)
    <3>1. Lifted(inv, n, m) \in Inventory
      BY <1>1, <2>1, CountersType
    <3>. HIDE DEF n, m
    <3>2. /\ Lifted(inv, n, m).held = Less(inv.held, n) /\ Lifted(inv, n, m).lotHeld = Less(inv.lotHeld, m)
          /\ Lifted(inv, n, m).lot = inv.lot
      BY <1>1 DEF Lifted, Inventory
    <3>3. \A w \in Inventory : /\ Taken(w, n, m).held = w.held /\ Taken(w, n, m).lotHeld = w.lotHeld
                               /\ Taken(w, n, m).lot = Less(w.lot, m)
      BY DEF Taken, Inventory
    <3>. QED BY <3>1, <3>2, <3>3
  <2>. HIDE DEF v
  <2>5. /\ q.pc = "write" /\ q.op = req[r].op /\ q.ids = req[r].ids /\ q.units = req[r].units
        /\ q.seen = req[r].seen /\ q.inv = v
    BY <1>1, <2>2 DEF ReqState
  <2>6. req[r].op \in Lifting
    BY <2>3 DEF SerialInv, TypeInv, MayCount, Lifting
  <2>7. Reviewed(req[r])
    BY <2>3, <2>6 DEF SerialInv, Fits
  <2>8. Reviewed(q) /\ Counted(q)
    BY <2>4, <2>5, <2>7 DEF Reviewed, Counted
  <2>9. Fits(q)
    BY <2>5, <2>6, <2>8 DEF Fits, Lifting
  <2>. QED BY <2>3, <2>9
<1>13. CASE Abort(r)
  <2>1. Fits(Idle)
    BY DEF Fits, Idle
  <2>. QED BY <1>13, <2>1 DEF Abort, Done
<1>. QED BY <1>4, <1>5, <1>6, <1>7, <1>8, <1>9, <1>10, <1>11, <1>12, <1>13 DEF ReadStep

\* A step leaves what is closed as it is.
ClosedStays ==
  \A i \in Present \ Held :
       /\ records'[i].status = records[i].status
       /\ records'[i].quantity = records[i].quantity
       /\ decided'[i] = decided[i]
       /\ rows'[i] = rows[i]

\* A step that writes keeps the books, and what is closed.
LEMMA WriteKeeps ==
  ASSUME SerialInv, NEW r \in Requests, WriteStep(r)
  PROVE  Books' /\ Done(r) /\ ClosedStays
<1>1. \A i \in Present \ Held : i \in Ids /\ i \in Present /\ i \notin Held
  BY DEF Present
<1>2. CASE Move(r)
  BY <1>2, MoveKeeps DEF Move, ClosedStays
<1>3. CASE Create(r)
  BY <1>3, CreateKeeps DEF Create, ClosedStays
<1>4. CASE Annotate(r) \/ Link(r) \/ SetDisposition(r)
  BY <1>1, <1>4, ChangeKeeps DEF Annotate, Link, SetDisposition, ClosedStays
<1>5. CASE Relocate(r)
  BY <1>1, <1>5, RelocateKeeps DEF Relocate, ClosedStays
<1>6. CASE Decide(r)
  BY <1>1, <1>6, DecideKeeps DEF Decide, ClosedStays
<1>7. CASE Delete(r)
  BY <1>1, <1>7, DeleteKeeps DEF Delete, ClosedStays
<1>. QED BY <1>2, <1>3, <1>4, <1>5, <1>6, <1>7 DEF WriteStep

\* The books are right at first, and every step of one request at a time keeps them.
LEMMA InitSerial == Init => SerialInv
<1>. SUFFICES ASSUME Init
     PROVE  SerialInv
  OBVIOUS
<1>1. PICK n \in 0 .. MaxUnits : inv = [onHand |-> n, held |-> 0, lot |-> n, lotHeld |-> 0]
  BY DEF Init
<1>2. /\ records = [i \in Ids |-> NoRecord] /\ nextId = 1 /\ rows = [i \in Ids |-> Empty]
      /\ decided = [i \in Ids |-> Undecided] /\ req = [r \in Requests |-> Idle]
  BY DEF Init
<1>3. \A i \in Ids : Kept(i)
  BY <1>2 DEF Kept, NoRecord
<1>4. HeldCountsHolds /\ LotCoversHeld
  <2>1. OnItem = {} /\ OnLot = {}
    BY <1>2 DEF OnItem, OnLot, Enforced, OfLot, Held, NoRecord
  <2>2. inv.held = 0 /\ inv.lotHeld = 0 /\ inv.lot \in Nat
    BY <1>1, Numbers
  <2>3. HeldCountsHolds
    BY <2>1, <2>2, TotalNone, CountersAre
  <2>. QED BY <2>2, <2>3 DEF LotCoversHeld
<1>5. Fits(Idle)
  BY DEF Fits, Idle
<1>. QED BY <1>2, <1>3, <1>4, <1>5, InitType DEF SerialInv, Books

\* No step of a request breaks the books.
LEMMA NextSerial ==
  ASSUME OneAtATime
  PROVE  SerialInv /\ [Next]_vars => SerialInv'
<1>1. ASSUME SerialInv, NEW r \in Requests, ReadStep(r)
      PROVE  Books' /\ (\A s \in Requests : Fits(req[s]))'
  <2>1. PICK q : Goes(r, q) /\ Fits(q)
    BY <1>1, ReadFits
  <2>2. Reads
    BY <1>1, ReadFits
  <2>. QED BY <1>1, <2>1, <2>2, ReadKeeps DEF Goes
<1>2. ASSUME SerialInv, NEW r \in Requests, WriteStep(r)
      PROVE  Books' /\ (\A s \in Requests : Fits(req[s]))'
  <2>1. Books' /\ Done(r)
    BY <1>2, WriteKeeps
  <2>2. \A s \in Requests : req'[s] = Idle
    BY <1>2, <2>1 DEF Done, Goes, SerialInv, TypeInv, TypeOK, OneAtATime
  <2>3. (\A s \in Requests : Fits(req[s]))'
    BY <2>2 DEF Fits, Idle
  <2>. QED BY <2>1, <2>3
<1>3. ASSUME SerialInv, UNCHANGED vars
      PROVE  Books' /\ (\A s \in Requests : Fits(req[s]))'
  <2>1. Books'
    BY <1>3 DEF SerialInv, vars, Books, Kept, HeldCountsHolds, HeldUnits, LotCoversHeld, Enforced, OfLot, Held
  <2>2. \A q : /\ Reviewed(q) => Reviewed(q)'
               /\ Counted(q) => Counted(q)'
               /\ Placing(q) => Placing(q)'
               /\ Relocating(q) => Relocating(q)'
    BY <1>3 DEF vars, Held, Reviewed, Counted, Enforced, OfLot, Placing, Relocating
  <2>3. (\A s \in Requests : Fits(req[s]))'
    <3>. SUFFICES ASSUME NEW s \in Requests
         PROVE  Fits(req[s])'
      OBVIOUS
    <3>1. PICK q : q = req[s] /\ q = req'[s]
      BY <1>3 DEF vars
    <3>2. Fits(q)
      BY <1>3, <3>1 DEF SerialInv
    <3>3. Fits(q)'
      BY <1>3, <2>2, <3>2 DEF Fits, vars
    <3>. QED BY <3>1, <3>3 DEF Fits, Reviewed, Counted, Placing, Relocating
  <2>. QED BY <2>1, <2>3
<1>4. ASSUME SerialInv, [Next]_vars
      PROVE  Books' /\ (\A s \in Requests : Fits(req[s]))'
  BY <1>1, <1>2, <1>3, <1>4, StepsAre
<1>. QED BY <1>4, NextType DEF SerialInv

\* The books balance in every state of every behaviour.
LEMMA SerialInvHolds ==
  ASSUME OneAtATime
  PROVE  Spec => []SerialInv
BY InitSerial, NextSerial, PTL DEF Spec

\* Of requests that do not overlap, every hold placed, decided on, completed or deleted
\* moves the item's and the lot's held counters by exactly its units, whichever handler
\* did it: the two counters are the open holds, for any number of them.
THEOREM CountersCountHolds ==
  ASSUME OneAtATime
  PROVE  Spec => []HeldCountsHolds
<1>1. SerialInv => HeldCountsHolds
  BY DEF SerialInv, Books
<1>. QED BY <1>1, SerialInvHolds, PTL

\* A lot keeps the units held of it: holds are placed within what is free, consumption
\* spares them, and what is destroyed leaves together with its hold.
THEOREM HeldUnitsStayInLot ==
  ASSUME OneAtATime
  PROVE  Spec => []LotCoversHeld
<1>1. SerialInv => LotCoversHeld
  BY DEF SerialInv, Books
<1>. QED BY <1>1, SerialInvHolds, PTL

\* The places of a record add up to its quantity, over any number of places and however
\* often it was relocated or decided on in part.
THEOREM PlacesAddUp ==
  ASSUME OneAtATime
  PROVE  Spec => []RowsAddUp
<1>1. SerialInv => RowsAddUp
  BY DEF SerialInv, Books, Kept, RowsAddUp, Present
<1>. QED BY <1>1, SerialInvHolds, PTL

\* Every unit ever put on hold is still held or was released or destroyed, once, and the
\* status of a record says which.
THEOREM EveryUnitDecidedOnce ==
  ASSUME OneAtATime
  PROVE  Spec => []DecisionsAddUp
<1>1. SerialInv => DecisionsAddUp
  BY DEF SerialInv, Books, Kept, DecisionsAddUp, Present
<1>. QED BY <1>1, SerialInvHolds, PTL

\* A closed record stays in the history as it is: no handler reopens it, decides on it
\* again, moves its units or deletes it.
THEOREM HistoryIsKept ==
  ASSUME OneAtATime
  PROVE  Spec => ClosedIsFinal
<1>1. ASSUME SerialInv, Next
      PROVE  ClosedStays
  <2>1. PICK r \in Requests : ReadStep(r) \/ WriteStep(r)
    BY <1>1, StepsAre
  <2>2. ASSUME ReadStep(r)
        PROVE  ClosedStays
    BY <1>1, <2>2, ReadFits DEF Reads, ClosedStays
  <2>. QED BY <1>1, <2>1, <2>2, WriteKeeps
<1>2. SerialInv /\ [Next]_vars => [ClosedStays]_vars
  BY <1>1
<1>. QED BY <1>2, SerialInvHolds, PTL DEF Spec, ClosedIsFinal, ClosedStays
===============================================================================
