------------------------- MODULE WorkflowEngineProofs -------------------------
(* Why a run visits a step once, owes none when it completes, and runs a join *)
(* behind its sources: for every graph, any number of nodes, and whatever     *)
(* order transitions are pushed in.                                           *)
EXTENDS WorkflowEngine, FunctionTheorems, FiniteSetTheorems, SequenceTheorems, NaturalsInduction,
        WellFoundedInduction, TLAPS

-----------------------------------------------------------------------------
(* Recursion on the natural numbers, with sets in place of predicates.      *)

\* A set of numbers with 0 and every successor of its members has them all.
LEMMA SetInduction ==
  ASSUME NEW S, 0 \in S, \A i \in Nat : i \in S => i + 1 \in S
  PROVE  Nat \subseteq S
<1>. SUFFICES ASSUME Nat \ S # {}
     PROVE  FALSE
  OBVIOUS
<1>. DEFINE T == Nat \ S
<1>1. PICK m \in T : \A k \in T : <<k, m>> \notin OpToRel(<, Nat)
  BY WFMin, NatLessThanWellFounded
<1>2. m \in Nat /\ m \notin S
  OBVIOUS
<1>3. m # 0
  BY <1>2
<1>4. m - 1 \in Nat /\ m - 1 < m /\ (m - 1) + 1 = m
  BY <1>2, <1>3
<1>5. m - 1 \in T
  BY <1>2, <1>4
<1>6. <<m - 1, m>> \in OpToRel(<, Nat)
  BY <1>2, <1>4 DEF OpToRel
<1>. QED BY <1>1, <1>5, <1>6

\* The same up to a bound.
LEMMA BoundedInduction ==
  ASSUME NEW n \in Nat, NEW S, 0 \in S, \A i \in 1..n : i - 1 \in S => i \in S
  PROVE  0..n \subseteq S
<1>. DEFINE T == {i \in Nat : i <= n => i \in S}
<1>1. 0 \in T
  OBVIOUS
<1>2. ASSUME NEW i \in Nat, i \in T
      PROVE  i + 1 \in T
  <2>1. CASE i + 1 <= n
    <3>1. i + 1 \in 1..n /\ (i + 1) - 1 = i /\ i <= n
      BY <2>1
    <3>2. i \in S
      BY <1>2, <3>1
    <3>3. i + 1 \in S
      BY <3>1, <3>2
    <3>. QED BY <3>3
  <2>2. CASE ~(i + 1 <= n)
    BY <2>2
  <2>. QED BY <2>1, <2>2
<1>3. Nat \subseteq T
  <2>. HIDE DEF T
  <2>. QED BY <1>1, <1>2, SetInduction
<1>. QED BY <1>3

\* A value and a way to go on at each index have their function.
Ways(X, n) == [1..n -> [X -> X]]
Iterates(f, X, n, g, b) == f \in [0..n -> X] /\ f[0] = b /\ \A i \in 1..n : f[i] = g[i][f[i - 1]]

\* A function defined by recursion along 1..n exists: the finite stages extend one another.
LEMMA RecursionExists ==
  ASSUME NEW X, NEW n \in Nat, NEW g \in Ways(X, n), NEW b \in X
  PROVE  \E f : Iterates(f, X, n, g, b)
<1>. USE DEF Ways
<1>. DEFINE Rec(f, k) == f \in [0..k -> X] /\ f[0] = b /\ \A i \in 1..k : f[i] = g[i][f[i - 1]]
            S == {k \in Nat : \E f : Rec(f, k)}
<1>1. 0 \in S
  <2>. Rec([i \in 0..0 |-> b], 0)
    OBVIOUS
  <2>. QED OBVIOUS
<1>2. ASSUME NEW k \in 1..n, k - 1 \in S
      PROVE  k \in S
  <2>1. PICK f : Rec(f, k - 1)
    BY <1>2
  <2>. DEFINE h == [i \in 0..k |-> IF i = k THEN g[k][f[k - 1]] ELSE f[i]]
  <2>2. g[k][f[k - 1]] \in X
    BY <1>2, <2>1
  <2>3. h \in [0..k -> X] /\ h[0] = b
    BY <2>1, <2>2
  <2>4. ASSUME NEW i \in 1..k
        PROVE  h[i] = g[i][h[i - 1]]
    <3>1. CASE i = k
      <4>1. h[i] = g[k][f[k - 1]] /\ h[i - 1] = f[k - 1]
        BY <3>1
      <4>. QED BY <3>1, <4>1
    <3>2. CASE i \in 1..(k - 1)
      <4>1. h[i] = f[i] /\ h[i - 1] = f[i - 1]
        BY <3>2
      <4>. QED BY <2>1, <3>2, <4>1
    <3>. QED BY <3>1, <3>2
  <2>5. Rec(h, k)
    BY <2>3, <2>4
  <2>. HIDE DEF h, Rec
  <2>. QED BY <2>5
<1>3. n \in S
  <2>. HIDE DEF S
  <2>1. 0..n \subseteq S
    BY <1>1, <1>2, BoundedInduction
  <2>. QED BY <2>1
<1>4. PICK f : Rec(f, n)
  BY <1>3
<1>. QED BY <1>4 DEF Iterates

-----------------------------------------------------------------------------
(* Sequences of nodes *)

\* The orders in which a set of nodes can be pushed hold all of it.
LEMMA OrdersOf ==
  ASSUME NEW S, S \subseteq Nodes, NEW s \in SetToSeqs(S)
  PROVE  s \in Seq(Nodes) /\ ToSet(s) = S
<1>. DEFINE D == 1..Cardinality(S)
<1>1. IsFiniteSet(S) /\ Cardinality(S) \in Nat
  BY NodesAssumption, FS_Subset, FS_CardinalityType
<1>2. s \in [D -> S] /\ s \in Injection(D, S)
  BY DEF SetToSeqs, Injection, IsInjective
<1>3. IsFiniteSet(D) /\ Cardinality(D) = Cardinality(S)
  BY <1>1, FS_Interval
<1>4. s \in Surjection(D, S)
  BY <1>1, <1>2, <1>3, FS_Injection
<1>5. s \in Seq(Nodes)
  BY <1>1, <1>2, SeqDef
<1>. QED BY <1>2, <1>4, <1>5 DEF Surjection, ToSet

\* What is in the sequences drive builds.
LEMMA AppendedSet ==
  ASSUME NEW s \in Seq(Nodes), NEW n \in Nodes
  PROVE  Append(s, n) \in Seq(Nodes) /\ ToSet(Append(s, n)) = ToSet(s) \cup {n}
<1>1. /\ Append(s, n) \in Seq(Nodes) /\ Len(Append(s, n)) = Len(s) + 1
      /\ \A i \in 1..Len(s) : Append(s, n)[i] = s[i]
      /\ Append(s, n)[Len(s) + 1] = n
  BY AppendProperties
<1>2. DOMAIN Append(s, n) = 1..(Len(s) + 1) /\ DOMAIN s = 1..Len(s) /\ Len(s) \in Nat
  BY <1>1, LenProperties
<1>. QED BY <1>1, <1>2 DEF ToSet

\* What two sequences hold together.
LEMMA JoinedSet ==
  ASSUME NEW s \in Seq(Nodes), NEW t \in Seq(Nodes)
  PROVE  s \o t \in Seq(Nodes) /\ ToSet(s \o t) = ToSet(s) \cup ToSet(t)
<1>1. s \o t \in Seq(Nodes)
  OBVIOUS
<1>2. ToSet(s \o t) \subseteq ToSet(s) \cup ToSet(t)
  BY ConcatProperties DEF ToSet
<1>3. ToSet(s) \subseteq ToSet(s \o t)
  BY ConcatProperties DEF ToSet
<1>4. ASSUME NEW i \in 1..Len(t)
      PROVE  t[i] \in ToSet(s \o t)
  <2>1. (s \o t)[Len(s) + i] = t[i] /\ Len(s) + i \in DOMAIN (s \o t)
    BY ConcatProperties
  <2>. QED BY <2>1 DEF ToSet
<1>. QED BY <1>1, <1>2, <1>3, <1>4 DEF ToSet

\* The stack is what is left of it and its top.
LEMMA PoppedSet ==
  ASSUME NEW s \in Seq(Nodes), s # <<>>
  PROVE  Front(s) \in Seq(Nodes) /\ Last(s) \in Nodes /\ ToSet(s) = ToSet(Front(s)) \cup {Last(s)}
<1>1. Len(s) \in Nat /\ Len(s) >= 1 /\ DOMAIN s = 1..Len(s)
  OBVIOUS
<1>2. /\ Front(s) \in Seq(Nodes) /\ Len(Front(s)) = Len(s) - 1
      /\ \A i \in 1..(Len(s) - 1) : Front(s)[i] = s[i]
  BY <1>1, SubSeqProperties DEF Front
<1>. QED BY <1>1, <1>2 DEF ToSet, Last

\* The first occurrence of n is the one left out.
LEMMA DeletedAt ==
  ASSUME NEW s \in Seq(Nodes), NEW n \in ToSet(s)
  PROVE  \E j \in 1 .. Len(s) :
           /\ s[j] = n /\ RemoveFirst(s, n) \in Seq(Nodes) /\ Len(RemoveFirst(s, n)) = Len(s) - 1
           /\ \A i \in 1 .. (Len(s) - 1) : RemoveFirst(s, n)[i] = IF i < j THEN s[i] ELSE s[i + 1]
<1>. DEFINE I == {i \in 1..Len(s) : s[i] = n}
<1>1. Len(s) \in Nat /\ I \subseteq Nat /\ I # {} /\ \E i \in 1..Len(s) : s[i] = n
  BY DEF ToSet
<1>2. PICK j \in I : \A i \in I : <<i, j>> \notin OpToRel(<, Nat)
  BY <1>1, WFMin, NatLessThanWellFounded
<1>3. \A i \in I : j <= i
  <2>1. ASSUME NEW i \in I, i < j
        PROVE  FALSE
    BY <1>1, <1>2, <2>1 DEF OpToRel
  <2>. QED BY <1>1, <2>1
<1>4. Min(I) \in I
  BY <1>3 DEF Min
<1>. DEFINE m == Min(I)
            a == SubSeq(s, 1, m - 1)
            b == SubSeq(s, m + 1, Len(s))
<1>5. RemoveFirst(s, n) = a \o b
  BY <1>1 DEF RemoveFirst, RemoveAt, SelectInSeq
<1>. HIDE DEF m
<1>6. m \in 1..Len(s) /\ s[m] = n
  BY <1>4 DEF m
<1>7. /\ a \in Seq(Nodes) /\ Len(a) = m - 1 /\ \A i \in 1..(m - 1) : a[i] = s[i]
      /\ b \in Seq(Nodes) /\ Len(b) = Len(s) - m /\ \A i \in 1..(Len(s) - m) : b[i] = s[m + i]
  <2>1. \A i \in 1..Len(s) : s[i] \in Nodes
    OBVIOUS
  <2>. QED BY <1>6, <2>1, SubSeqProperties
<1>. HIDE DEF a, b
<1>8. /\ a \o b \in Seq(Nodes) /\ Len(a \o b) = Len(s) - 1
      /\ \A i \in 1 .. (Len(s) - 1) : (a \o b)[i] = IF i <= m - 1 THEN a[i] ELSE b[i - (m - 1)]
  <2>1. /\ a \o b \in Seq(Nodes) /\ Len(a \o b) = Len(a) + Len(b)
        /\ \A i \in 1 .. Len(a) + Len(b) : (a \o b)[i] = IF i <= Len(a) THEN a[i] ELSE b[i - Len(a)]
    BY <1>7, ConcatProperties
  <2>2. Len(a) + Len(b) = Len(s) - 1
    BY <1>1, <1>6, <1>7
  <2>. QED BY <1>7, <2>1, <2>2
<1>9. ASSUME NEW i \in 1 .. (Len(s) - 1)
      PROVE  (a \o b)[i] = IF i < m THEN s[i] ELSE s[i + 1]
  <2>1. CASE i < m
    BY <1>1, <1>6, <1>7, <1>8, <2>1
  <2>2. CASE ~(i < m)
    <3>1. i - (m - 1) \in 1 .. (Len(s) - m) /\ m + (i - (m - 1)) = i + 1
      BY <1>1, <1>6, <2>2
    <3>2. ~(i <= m - 1)
      BY <1>1, <1>6, <2>2
    <3>3. (a \o b)[i] = b[i - (m - 1)]
      BY <1>8, <3>2
    <3>. QED BY <1>7, <2>2, <3>1, <3>3
  <2>. QED BY <2>1, <2>2
<1>. QED BY <1>5, <1>6, <1>8, <1>9

\* Deleting an element loses no other and adds none.
LEMMA DeletedSet ==
  ASSUME NEW s \in Seq(Nodes), NEW n
  PROVE  /\ RemoveFirst(s, n) \in Seq(Nodes) /\ ToSet(RemoveFirst(s, n)) \subseteq ToSet(s)
         /\ ToSet(s) \subseteq ToSet(RemoveFirst(s, n)) \cup {n}
<1>1. CASE n \in ToSet(s)
  <2>. DEFINE r == RemoveFirst(s, n)
  <2>1. PICK j \in 1 .. Len(s) :
          /\ s[j] = n /\ r \in Seq(Nodes) /\ Len(r) = Len(s) - 1
          /\ \A i \in 1 .. (Len(s) - 1) : r[i] = IF i < j THEN s[i] ELSE s[i + 1]
    BY <1>1, DeletedAt
  <2>. HIDE DEF r
  <2>2. Len(s) \in Nat /\ DOMAIN s = 1 .. Len(s) /\ DOMAIN r = 1 .. (Len(s) - 1)
    BY <2>1
  <2>3. ASSUME NEW i \in 1 .. (Len(s) - 1)
        PROVE  r[i] \in ToSet(s)
    BY <2>1, <2>2 DEF ToSet
  <2>4. ASSUME NEW i \in 1 .. Len(s), i # j
        PROVE  s[i] \in ToSet(r)
    <3>1. CASE i < j
      <4>1. i \in 1 .. (Len(s) - 1) /\ r[i] = s[i]
        BY <2>1, <2>2, <3>1
      <4>. QED BY <2>2, <4>1 DEF ToSet
    <3>2. CASE ~(i < j)
      <4>1. i - 1 \in 1 .. (Len(s) - 1) /\ ~(i - 1 < j) /\ (i - 1) + 1 = i
        BY <2>2, <2>4, <3>2
      <4>2. r[i - 1] = s[i]
        BY <2>1, <4>1
      <4>. QED BY <2>2, <4>1, <4>2 DEF ToSet
    <3>. QED BY <3>1, <3>2
  <2>. QED BY <2>1, <2>2, <2>3, <2>4 DEF r, ToSet
<1>2. CASE n \notin ToSet(s)
  <2>1. ~ \E i \in 1..Len(s) : s[i] = n
    BY <1>2 DEF ToSet
  <2>. QED BY <2>1 DEF RemoveFirst
<1>. QED BY <1>1, <1>2

-----------------------------------------------------------------------------
(* What the steps of a walk keep *)

\* The nodes a walk still has to visit.
Pending(w) == ToSet(w.stack) \cup ToSet(w.deferred)

\* a and b agree on all but the nodes pending.
Agree(a, b) ==
  /\ a.status = b.status /\ a.visited = b.visited /\ a.join = b.join
  /\ a.waiting = b.waiting /\ a.ready = b.ready

\* And on what they know of the joins.
SameCounts(a, b) == a.forced = b.forced /\ a.deferCount = b.deferCount

\* Looking at a join moves it at most.
LEMMA TriedKeeps ==
  ASSUME NEW w \in Walk, NEW n \in Nodes
  PROVE  /\ Tried(w, n) \in Walk /\ Agree(Tried(w, n), w) /\ SameCounts(Tried(w, n), w)
         /\ Pending(w) \subseteq Pending(Tried(w, n)) /\ Pending(Tried(w, n)) \subseteq Pending(w) \cup {n}
<1>1. CASE WaitsOnOthers(w, n)
  BY <1>1 DEF Tried, Agree, SameCounts
<1>2. CASE ~WaitsOnOthers(w, n)
  <2>. DEFINE d == RemoveFirst(w.deferred, n)
              p == Append(w.stack, n)
  <2>1. Tried(w, n) = [w EXCEPT !.deferred = d, !.stack = p]
    BY <1>2 DEF Tried
  <2>2. w.deferred \in Seq(Nodes) /\ w.stack \in Seq(Nodes)
    BY DEF Walk
  <2>3. /\ d \in Seq(Nodes) /\ ToSet(w.deferred) \subseteq ToSet(d) \cup {n} /\ ToSet(d) \subseteq ToSet(w.deferred)
        /\ p \in Seq(Nodes) /\ ToSet(p) = ToSet(w.stack) \cup {n}
    BY <2>2, DeletedSet, AppendedSet
  <2>. HIDE DEF d, p
  <2>4. Tried(w, n) \in Walk /\ Agree(Tried(w, n), w) /\ SameCounts(Tried(w, n), w)
    BY <2>1, <2>3 DEF Walk, Agree, SameCounts
  <2>5. Tried(w, n).deferred = d /\ Tried(w, n).stack = p
    BY <2>1 DEF Walk
  <2>. QED BY <2>3, <2>4, <2>5 DEF Pending
<1>. QED BY <1>1, <1>2

\* The stages of releaseReady: one join after the other is looked at.
LEMMA ReleaseStages ==
  ASSUME NEW w \in Walk
  PROVE  \E f : /\ f \in [0 .. Len(w.deferred) -> Walk] /\ f[0] = w /\ Released(w) = f[Len(w.deferred)]
                /\ \A i \in 1 .. Len(w.deferred) : f[i] = Tried(f[i - 1], w.deferred[i])
<1>. DEFINE s == w.deferred
            n == Len(s)
            rec(f) == f = [i \in 0..n |-> IF i = 0 THEN w ELSE Tried(f[i - 1], s[i])]
            after == CHOOSE f : rec(f)
<1>1. n \in Nat /\ \A i \in 1..n : s[i] \in Nodes
  BY DEF Walk
<1>2. \E f : rec(f) /\ f \in [0..n -> Walk]
  <2>. DEFINE g == [i \in 1..n |-> [v \in Walk |-> Tried(v, s[i])]]
  <2>1. g \in Ways(Walk, n)
    BY <1>1, TriedKeeps DEF Ways
  <2>2. \A i \in 1..n : \A v \in Walk : g[i][v] = Tried(v, s[i])
    OBVIOUS
  <2>. HIDE DEF g, s, n
  <2>3. PICK f : Iterates(f, Walk, n, g, w)
    BY <1>1, <2>1, RecursionExists
  <2>4. ASSUME NEW i \in 0..n
        PROVE  f[i] = IF i = 0 THEN w ELSE Tried(f[i - 1], s[i])
    <3>1. CASE i = 0
      BY <2>3, <3>1 DEF Iterates
    <3>2. CASE i # 0
      <4>1. i \in 1..n /\ i - 1 \in 0..n
        BY <1>1, <3>2
      <4>2. f[i] = g[i][f[i - 1]] /\ f[i - 1] \in Walk
        BY <2>3, <3>2, <4>1 DEF Iterates
      <4>. QED BY <2>2, <3>2, <4>1, <4>2
    <3>. QED BY <3>1, <3>2
  <2>5. rec(f)
    BY <2>3, <2>4 DEF Iterates
  <2>. QED BY <2>3, <2>5 DEF Iterates
<1>3. rec(after)
  BY <1>2
<1>4. Released(w) = after[n]
  BY DEF Released
<1>. HIDE DEF after, s, n
<1>5. after[0] = w /\ \A i \in 1..n : after[i] = Tried(after[i - 1], s[i])
  BY <1>1, <1>3
<1>. DEFINE S == {i \in 0..n : after[i] \in Walk}
<1>6. 0 \in S
  BY <1>1, <1>5
<1>7. ASSUME NEW i \in 1..n, i - 1 \in S
      PROVE  i \in S
  BY <1>1, <1>5, <1>7, TriedKeeps
<1>8. 0..n \subseteq S
  <2>. HIDE DEF S
  <2>. QED BY <1>1, <1>6, <1>7, BoundedInduction
<1>9. after \in [0..n -> Walk]
  BY <1>3, <1>8
<1>. QED BY <1>4, <1>5, <1>9 DEF s, n

\* releaseReady loses no join and adds none.
LEMMA ReleasedKeeps ==
  ASSUME NEW w \in Walk
  PROVE  /\ Released(w) \in Walk /\ Agree(Released(w), w) /\ SameCounts(Released(w), w)
         /\ Pending(Released(w)) = Pending(w)
<1>. DEFINE s == w.deferred
            n == Len(s)
<1>1. n \in Nat /\ \A i \in 1..n : s[i] \in Nodes /\ s[i] \in Pending(w)
  BY DEF Walk, Pending, ToSet
<1>2. PICK after : /\ after \in [0..n -> Walk] /\ after[0] = w /\ Released(w) = after[n]
                   /\ \A i \in 1..n : after[i] = Tried(after[i - 1], s[i])
  BY ReleaseStages
<1>. DEFINE ok(v) == Agree(v, w) /\ SameCounts(v, w) /\ Pending(v) = Pending(w)
            S == {i \in 0..n : ok(after[i])}
<1>. HIDE DEF s, n
<1>3. 0 \in S
  BY <1>1, <1>2 DEF Agree, SameCounts
<1>4. ASSUME NEW i \in 1..n, i - 1 \in S
      PROVE  i \in S
  <2>1. /\ ok(after[i - 1]) /\ i \in 0..n /\ after[i - 1] \in Walk
        /\ after[i] = Tried(after[i - 1], s[i]) /\ s[i] \in Nodes /\ s[i] \in Pending(w)
    BY <1>1, <1>2, <1>4
  <2>2. /\ Agree(after[i], after[i - 1]) /\ SameCounts(after[i], after[i - 1])
        /\ Pending(after[i - 1]) \subseteq Pending(after[i])
        /\ Pending(after[i]) \subseteq Pending(after[i - 1]) \cup {s[i]}
    BY <2>1, TriedKeeps
  <2>. QED BY <2>1, <2>2 DEF Agree, SameCounts
<1>5. 0..n \subseteq S
  <2>. HIDE DEF S
  <2>. QED BY <1>1, <1>3, <1>4, BoundedInduction
<1>6. ok(after[n])
  BY <1>1, <1>5
<1>. QED BY <1>1, <1>2, <1>6

\* A walk at the start of an iteration owes what it owed, and its top node is one of them.
LEMMA LoadedKeeps ==
  ASSUME TypeOK
  PROVE  Loaded \in Walk /\ Agree(Loaded, walk) /\ Pending(Loaded) = Pending(walk)
<1>1. walk \in Walk
  BY DEF TypeOK
<1>2. CASE walk.stack = <<>>
  <2>1. Loaded = [walk EXCEPT !.stack = walk.deferred, !.deferred = <<>>,
                              !.forced = @ \cup ToSet(walk.deferred)]
    BY <1>2 DEF Loaded
  <2>2. walk.deferred \in Seq(Nodes) /\ <<>> \in Seq(Nodes)
    BY <1>1 DEF Walk
  <2>3. ToSet(walk.deferred) \subseteq Nodes /\ ToSet(<<>>) = {}
    BY <2>2 DEF ToSet
  <2>4. Loaded \in Walk /\ Agree(Loaded, walk) /\ Loaded.stack = walk.deferred /\ Loaded.deferred = <<>>
    BY <1>1, <2>1, <2>2, <2>3 DEF Walk, Agree
  <2>. QED BY <1>2, <2>3, <2>4 DEF Pending
<1>3. CASE walk.stack # <<>>
  BY <1>1, <1>3 DEF Loaded, Agree
<1>. QED BY <1>2, <1>3

\* Popping the stack keeps the walk in its type.
LEMMA PoppedKeeps ==
  ASSUME TypeOK, Running
  PROVE  /\ Popped \in Walk /\ Agree(Popped, walk) /\ Top \in Nodes
         /\ Pending(walk) = Pending(Popped) \cup {Top}
<1>1. Loaded \in Walk /\ Agree(Loaded, walk) /\ Pending(Loaded) = Pending(walk) /\ Loaded.stack # <<>>
  BY LoadedKeeps DEF Running
<1>2. /\ Front(Loaded.stack) \in Seq(Nodes) /\ Top \in Nodes
      /\ ToSet(Loaded.stack) = ToSet(Front(Loaded.stack)) \cup {Top}
  BY <1>1, PoppedSet DEF Walk, Top
<1>3. /\ Popped \in Walk /\ Agree(Popped, Loaded) /\ Popped.stack = Front(Loaded.stack)
      /\ Popped.deferred = Loaded.deferred
  BY <1>1, <1>2 DEF Popped, Walk, Agree
<1>. QED BY <1>1, <1>2, <1>3 DEF Pending, Agree

\* Entering a node, everything else stays pending.
LEMMA EnteredKeeps ==
  ASSUME NEW w \in Walk, NEW n \in Nodes
  PROVE  LET e == Entered(w, n)
         IN /\ e \in Walk /\ e.visited = w.visited \cup {n} /\ e.status = w.status /\ e.join = w.join
            /\ e.waiting = w.waiting /\ e.ready = w.ready /\ e.remaining = w.remaining
            /\ Pending(w) \subseteq Pending(e) \cup {n} /\ Pending(e) \subseteq Pending(w)
            /\ e.stack = w.stack /\ e.deferred = RemoveFirst(w.deferred, n)
            /\ e.forced = w.forced \ {n} /\ e.deferCount = w.deferCount
<1>. DEFINE e == Entered(w, n)
            d == RemoveFirst(w.deferred, n)
<1>1. d \in Seq(Nodes) /\ ToSet(w.deferred) \subseteq ToSet(d) \cup {n} /\ ToSet(d) \subseteq ToSet(w.deferred)
  BY DeletedSet DEF Walk
<1>2. e = [w EXCEPT !.forced = @ \ {n}, !.deferred = d, !.visited = @ \cup {n}]
  BY DEF Entered
<1>. HIDE DEF d, e
<1>3. /\ e \in Walk /\ e.visited = w.visited \cup {n} /\ e.status = w.status /\ e.join = w.join
      /\ e.waiting = w.waiting /\ e.ready = w.ready /\ e.remaining = w.remaining
      /\ e.stack = w.stack /\ e.deferred = d /\ e.forced = w.forced \ {n} /\ e.deferCount = w.deferCount
  BY <1>1, <1>2 DEF Walk
<1>4. Pending(w) \subseteq Pending(e) \cup {n} /\ Pending(e) \subseteq Pending(w)
  BY <1>1, <1>3 DEF Pending
<1>. QED BY <1>3, <1>4 DEF e, d

\* Pushing the targets of taken transitions keeps the walk in its type.
LEMMA PushKeeps ==
  ASSUME NEW w \in Walk, NEW s \in Seq(Nodes)
  PROVE  /\ Push(w, s) \in Walk /\ Agree(Push(w, s), w) /\ SameCounts(Push(w, s), w)
         /\ Pending(Push(w, s)) = Pending(w) \cup ToSet(s)
         /\ Push(w, s).stack = w.stack \o s /\ Push(w, s).deferred = w.deferred
<1>1. w.stack \o s \in Seq(Nodes) /\ ToSet(w.stack \o s) = ToSet(w.stack) \cup ToSet(s)
  BY JoinedSet DEF Walk
<1>2. /\ Push(w, s) \in Walk /\ Agree(Push(w, s), w) /\ SameCounts(Push(w, s), w)
      /\ Push(w, s).stack = w.stack \o s /\ Push(w, s).deferred = w.deferred
  BY <1>1 DEF Push, Walk, Agree, SameCounts
<1>. QED BY <1>1, <1>2 DEF Pending

\* Reopening a node for a revisit keeps the walk in its type.
LEMMA OpenedKeeps ==
  ASSUME NEW w \in Walk, NEW n \in Nodes
  PROVE  LET o == Opened(w, n)
         IN /\ o \in Walk /\ o.visited = w.visited \ {n} /\ o.status = w.status /\ o.join = w.join
            /\ Pending(w) \subseteq Pending(o)
<1>. DEFINE v == [w EXCEPT !.visited = @ \ {n}]
<1>1. /\ v \in Walk /\ v.visited = w.visited \ {n} /\ v.status = w.status /\ v.join = w.join
      /\ v.stack = w.stack /\ v.deferred = w.deferred
  BY DEF Walk
<1>2. Opened(w, n) = Push(v, <<n>>)
  BY DEF Opened
<1>. HIDE DEF v
<1>3. Opened(w, n) \in Walk /\ Agree(Opened(w, n), v) /\ Pending(v) \subseteq Pending(Opened(w, n))
  <2>1. <<n>> \in Seq(Nodes)
    OBVIOUS
  <2>. QED BY <1>1, <1>2, <2>1, PushKeeps
<1>. QED BY <1>1, <1>3 DEF Agree, Pending

\* Going on, a walk owes all it owed and the nodes it was led to.
LEMMA GoesOnKeeps ==
  ASSUME NEW w \in Walk, NEW next, next \subseteq Nodes, GoesOn(w, next)
  PROVE  /\ walk' \in Walk /\ Agree(walk', w) /\ SameCounts(walk', w)
         /\ Pending(walk') = Pending(w) \cup next
         /\ reached' = reached \cup next /\ late' = late \cup (next \cap w.visited)
<1>1. PICK s \in SetToSeqs(next) : walk' = Released(Push(w, s))
  BY DEF GoesOn
<1>2. s \in Seq(Nodes) /\ ToSet(s) = next
  BY <1>1, OrdersOf
<1>3. /\ Push(w, s) \in Walk /\ Agree(Push(w, s), w) /\ SameCounts(Push(w, s), w)
      /\ Pending(Push(w, s)) = Pending(w) \cup next
  BY <1>2, PushKeeps
<1>4. /\ walk' \in Walk /\ Agree(walk', Push(w, s)) /\ SameCounts(walk', Push(w, s))
      /\ Pending(walk') = Pending(Push(w, s))
  BY <1>1, <1>3, ReleasedKeeps
<1>. QED BY <1>3, <1>4 DEF Agree, SameCounts, GoesOn

-----------------------------------------------------------------------------
(* The graph *)

\* A graph has finitely many transitions.
LEMMA EdgesFinite == IsFiniteSet(Edge)
<1>. DEFINE P == (Nodes \X Nodes) \X (Branches \X BOOLEAN)
            f == [p \in P |-> [from |-> p[1][1], to |-> p[1][2], branch |-> p[2][1], revisit |-> p[2][2]]]
<1>1. IsFiniteSet(Branches)
  <2>1. Branches = (({""} \cup {"true"}) \cup ({"false"} \cup {"approved"})) \cup ({"rejected"} \cup {"join"})
    BY DEF Branches
  <2>. HIDE DEF Branches
  <2>2. IsFiniteSet({""} \cup {"true"}) /\ IsFiniteSet({"false"} \cup {"approved"})
        /\ IsFiniteSet({"rejected"} \cup {"join"})
    BY FS_Singleton, FS_Union
  <2>. QED BY <2>1, <2>2, FS_Union
<1>2. IsFiniteSet(BOOLEAN)
  <2>1. BOOLEAN = {TRUE} \cup {FALSE}
    OBVIOUS
  <2>2. IsFiniteSet({TRUE}) /\ IsFiniteSet({FALSE})
    BY FS_Singleton, Zenon
  <2>3. IsFiniteSet({TRUE} \cup {FALSE})
    BY <2>2, FS_Union, Zenon
  <2>. QED BY <2>1, <2>3, Zenon
<1>3. IsFiniteSet(P)
  BY <1>1, <1>2, NodesAssumption, FS_Product
<1>4. f \in Surjection(P, Edge)
  <2>1. f \in [P -> Edge]
    BY DEF Edge
  <2>2. ASSUME NEW e \in Edge
        PROVE  \E p \in P : f[p] = e
    <3>. DEFINE p == <<<<e.from, e.to>>, <<e.branch, e.revisit>>>>
    <3>1. p \in P /\ f[p] = e
      BY DEF Edge
    <3>. QED BY <3>1
  <2>. QED BY <2>1, <2>2 DEF Surjection
<1>. QED BY <1>3, <1>4, FS_Surjection

\* Nothing leads anywhere from no node.
LEMMA NothingReachable ==
  ASSUME NEW edges
  PROVE  ReachableBy({}, edges) = {}
<1>. DEFINE n == Cardinality(Nodes)
            rec(f) == f = [k \in 0 .. n |->
                             IF k = 0 THEN {}
                             ELSE UNION {{m} \cup Targets({e \in edges : e.from = m}) : m \in f[k - 1]}]
            within == CHOOSE f : rec(f)
            S == {k \in 0..n : within[k] = {}}
<1>1. n \in Nat
  BY NodesAssumption, FS_CardinalityType
<1>2. rec([k \in 0..n |-> {}])
  <2>1. \A k \in 0..n : k = 0 \/ k - 1 \in 0..n
    BY <1>1
  <2>. HIDE DEF n
  <2>. QED BY <2>1
<1>3. rec(within)
  BY <1>2
<1>4. ReachableBy({}, edges) = within[n]
  BY DEF ReachableBy
<1>. HIDE DEF within, n
<1>5. 0 \in S
  BY <1>1, <1>3
<1>6. ASSUME NEW k \in 1..n, k - 1 \in S
      PROVE  k \in S
  <2>1. k \in 0..n /\ k # 0 /\ within[k - 1] = {}
    BY <1>1, <1>6
  <2>2. within[k] = UNION {{m} \cup Targets({e \in edges : e.from = m}) : m \in within[k - 1]}
    BY <1>3, <2>1
  <2>. QED BY <2>1, <2>2
<1>7. 0..n \subseteq S
  <2>. HIDE DEF S
  <2>. QED BY <1>1, <1>5, <1>6, BoundedInduction
<1>. QED BY <1>1, <1>4, <1>7

\* Transitions lead to nodes.
LEMMA TargetsAreNodes ==
  ASSUME TypeOK, NEW edges, edges \subseteq graph.edges
  PROVE  Targets(edges) \subseteq Nodes /\ Cardinality(edges) \in Nat
<1>1. edges \subseteq Edge
  BY DEF TypeOK
<1>2. Targets(edges) \subseteq Nodes
  BY <1>1 DEF Targets, Edge
<1>. QED BY <1>1, <1>2, EdgesFinite, FS_Subset, FS_CardinalityType

-----------------------------------------------------------------------------
(* One iteration of the loop of drive, and one decision *)

\* What visiting n does to the walk.
Walked(n) ==
  /\ walk' \in Walk /\ walk'.visited \subseteq walk.visited \cup {n}
  /\ walk'.status # "completed" /\ (walk'.status = "waiting_approval" => walk'.waiting \in Nodes)
  /\ reached \subseteq reached' /\ reached' \subseteq Nodes /\ late' \subseteq Nodes
  /\ graph.type[n] # "pause" => Pending(walk) \cup (reached' \ reached) \subseteq Pending(walk') \cup {n}
  /\ ~Repeats /\ walk.join = NoNode => walk'.visited = walk.visited \cup {n} /\ walk'.join = NoNode

VisitsOne(n) ==
  Condition(n) \/ Act(n) \/ End(n) \/ Pause(n) \/ Approval(n) \/ Signal(n) \/ FanOut(n) \/ Fail(n)

\* Whatever its type, a node is entered first.
LEMMA EntersTop ==
  ASSUME TypeOK, NEW n, NEW types, Visits(n, types)
  PROVE  LET w == Entered(Popped, n)
         IN /\ n \in Nodes /\ n \notin walk.visited /\ w \in Walk /\ w.visited = walk.visited \cup {n}
            /\ w.status = "running" /\ w.join = walk.join /\ w.ready = walk.ready
            /\ Pending(walk) \subseteq Pending(w) \cup {n}
<1>. DEFINE w == Entered(Popped, n)
<1>1. n = Top /\ Running /\ n \notin Popped.visited /\ walk.status = "running"
  BY DEF Visits, Running
<1>2. /\ Popped \in Walk /\ Agree(Popped, walk) /\ n \in Nodes
      /\ Pending(walk) \subseteq Pending(Popped) \cup {n}
  BY <1>1, PoppedKeeps
<1>3. /\ w \in Walk /\ w.visited = Popped.visited \cup {n} /\ w.status = Popped.status
      /\ w.join = Popped.join /\ w.ready = Popped.ready /\ Pending(Popped) \subseteq Pending(w) \cup {n}
  BY <1>2, EnteredKeeps
<1>. QED BY <1>1, <1>2, <1>3 DEF Agree

\* Every node type keeps the types, and the promises above.
LEMMA VisitWalks ==
  ASSUME TypeOK, NEW n, VisitsOne(n)
  PROVE  Walked(n)
<1>. DEFINE w == Entered(Popped, n)
<1>0. PICK types : Visits(n, types)
  BY DEF VisitsOne, Condition, Act, End, Pause, Approval, Signal, FanOut, Fail
<1>1. /\ n \in Nodes /\ w \in Walk /\ w.visited = walk.visited \cup {n}
      /\ w.status = "running" /\ w.join = walk.join /\ Pending(walk) \subseteq Pending(w) \cup {n}
      /\ walk \in Walk /\ reached \subseteq Nodes /\ late \subseteq Nodes
  BY <1>0, EntersTop DEF TypeOK
<1>2. ASSUME NEW v \in Walk, v.visited \subseteq w.visited, v.status = "running", Pending(w) \subseteq Pending(v),
             ~Repeats /\ walk.join = NoNode => v.visited = w.visited /\ v.join = NoNode,
             NEW next, next \subseteq Nodes, GoesOn(v, next)
      PROVE  Walked(n)
  <2>1. /\ walk' \in Walk /\ Agree(walk', v) /\ Pending(v) \cup next \subseteq Pending(walk')
        /\ reached' = reached \cup next /\ late' \subseteq late \cup next
    BY <1>2, GoesOnKeeps
  <2>2. walk'.status = "running" /\ walk'.visited = v.visited /\ walk'.join = v.join
    BY <1>2, <2>1 DEF Agree
  <2>3. Pending(walk) \cup (reached' \ reached) \subseteq Pending(walk') \cup {n}
    BY <1>1, <1>2, <2>1
  <2>4. walk'.visited \subseteq walk.visited \cup {n}
    BY <1>1, <1>2, <2>2
  <2>. HIDE DEF w
  <2>. QED BY <1>1, <1>2, <2>1, <2>2, <2>3, <2>4 DEF Walked
<1>3. ASSUME NEW next, next \subseteq Nodes, GoesOn(w, next)
      PROVE  Walked(n)
  <2>. HIDE DEF w
  <2>. QED BY <1>1, <1>2, <1>3
<1>4. \A outcome : Followable(n, outcome) \subseteq Nodes
  <2>1. ASSUME NEW outcome
        PROVE  Followable(n, outcome) \subseteq Nodes
    <3>1. {e \in Out(n) : Matches(e.branch, outcome)} \subseteq graph.edges
      BY DEF Out
    <3>. QED BY <3>1, TargetsAreNodes DEF Followable
  <2>. QED BY <2>1
<1>5. ASSUME NEW v \in Walk, walk' = v, UNCHANGED <<reached, late>>, v.visited = w.visited, v.join = w.join,
             v.status \in {"failed", "waiting_approval"}, v.status = "waiting_approval" => v.waiting \in Nodes,
             graph.type[n] # "pause" => Pending(w) \subseteq Pending(v)
      PROVE  Walked(n)
  <2>. HIDE DEF w
  <2>. QED BY <1>1, <1>5 DEF Walked
<1>6. ASSUME NEW stack \in Seq(Nodes), Stops(n, stack), graph.type[n] # "pause" => Pending(w) \subseteq ToSet(stack)
      PROVE  Walked(n)
  <2>. DEFINE v == [w EXCEPT !.status = "waiting_approval", !.waiting = n, !.stack = stack, !.deferred = <<>>,
                             !.forced = {}, !.deferCount = [m \in Nodes |-> 0]]
  <2>1. walk' = v /\ UNCHANGED <<reached, late>>
    BY <1>6 DEF Stops
  <2>. HIDE DEF w
  <2>2. /\ v \in Walk /\ v.visited = w.visited /\ v.join = w.join /\ v.status = "waiting_approval"
        /\ v.waiting = n /\ v.stack = stack /\ v.deferred = <<>>
    <3>1. <<>> \in Seq(Nodes) /\ [m \in Nodes |-> 0] \in [Nodes -> Nat]
      OBVIOUS
    <3>. QED BY <1>1, <1>6, <3>1 DEF Walk
  <2>3. graph.type[n] # "pause" => Pending(w) \subseteq Pending(v)
    BY <1>6, <2>2 DEF Pending
  <2>. HIDE DEF v
  <2>. QED BY <1>1, <1>5, <2>1, <2>2, <2>3
<1>7. CASE Condition(n) \/ Act(n) \/ End(n)
  <2>1. \E next : next \subseteq Nodes /\ GoesOn(w, next)
    BY <1>4, <1>7 DEF Condition, Act, End, Taken
  <2>. QED BY <1>3, <2>1
<1>8. CASE Pause(n)
  <2>1. CASE GoesOn(w, Followable(n, "default"))
    BY <1>3, <1>4, <2>1
  <2>2. CASE Stops(n, Popped.stack)
    <3>1. graph.type[n] = "pause"
      BY <1>8 DEF Pause, Visits
    <3>2. Popped.stack \in Seq(Nodes)
      BY <1>0, PoppedKeeps DEF Visits, Walk
    <3>. QED BY <1>6, <2>2, <3>1, <3>2
  <2>. QED BY <1>8, <2>1, <2>2 DEF Pause
<1>9. CASE Approval(n)
  <2>1. CASE GoesOn(w, Followable(n, simulated))
    BY <1>3, <1>4, <2>1
  <2>2. CASE Stops(n, Saved(w))
    <3>1. Saved(w) \in Seq(Nodes) /\ ToSet(Saved(w)) = Pending(w)
      <4>. HIDE DEF w
      <4>. QED BY <1>1, JoinedSet DEF Saved, Walk, Pending
    <3>. QED BY <1>6, <2>2, <3>1
  <2>. QED BY <1>9, <2>1, <2>2 DEF Approval
<1>10. CASE Signal(n)
  <2>. DEFINE told == [w EXCEPT !.remaining = w.remaining - 1]
  <2>1. \/ w.join = NoNode /\ GoesOn(w, Followable(n, "default"))
        \/ w.join # NoNode /\ GoesOn(Opened(told, w.join), Followable(n, "default"))
        \/ w.join # NoNode /\ GoesOn(told, Followable(n, "default"))
    BY <1>10 DEF Signal
  <2>. HIDE DEF w
  <2>2. /\ told \in Walk /\ told.visited = w.visited /\ told.status = w.status /\ told.join = w.join
        /\ Pending(told) = Pending(w)
    <3>1. w.remaining - 1 \in Int
      BY <1>1 DEF Walk
    <3>2. /\ told.visited = w.visited /\ told.status = w.status /\ told.join = w.join
          /\ told.stack = w.stack /\ told.deferred = w.deferred
      BY <1>1 DEF Walk
    <3>3. told \in Walk
      BY <1>1, <3>1 DEF Walk
    <3>. QED BY <3>2, <3>3 DEF Pending
  <2>. HIDE DEF told
  <2>3. CASE w.join = NoNode /\ GoesOn(w, Followable(n, "default"))
    BY <1>3, <1>4, <2>3 DEF w
  <2>4. CASE w.join # NoNode /\ GoesOn(told, Followable(n, "default"))
    BY <1>1, <1>2, <1>4, <2>2, <2>4
  <2>5. CASE w.join # NoNode /\ GoesOn(Opened(told, w.join), Followable(n, "default"))
    <3>1. w.join \in Nodes
      BY <1>1, <2>5 DEF Walk
    <3>2. /\ Opened(told, w.join) \in Walk /\ Opened(told, w.join).visited = w.visited \ {w.join}
          /\ Opened(told, w.join).status = "running" /\ Pending(w) \subseteq Pending(Opened(told, w.join))
      BY <1>1, <2>2, <3>1, OpenedKeeps
    <3>3. walk.join # NoNode
      BY <1>1, <2>5
    <3>. QED BY <1>2, <1>4, <2>5, <3>2, <3>3
  <2>. QED BY <2>1, <2>3, <2>4, <2>5
<1>11. CASE FanOut(n)
  <2>. DEFINE held == {e \in Out(n) : e.branch = "join"}
              told(e, live) == [w EXCEPT !.join = e.to, !.remaining = Cardinality(live)]
  <2>1. PICK live \in SUBSET (Out(n) \ held) :
          \/ GoesOn(w, Targets(live))
          \/ \E e \in held : GoesOn(IF live = {} THEN Opened(told(e, live), e.to) ELSE told(e, live), Targets(live))
    BY <1>11 DEF FanOut
  <2>2. Repeats
    BY <1>1, <1>11 DEF FanOut, Visits, Repeats
  <2>3. Targets(live) \subseteq Nodes /\ Cardinality(live) \in Nat
    <3>1. live \subseteq graph.edges
      BY <2>1 DEF Out
    <3>. QED BY <3>1, TargetsAreNodes
  <2>. HIDE DEF w
  <2>4. CASE GoesOn(w, Targets(live))
    BY <1>3, <2>3, <2>4 DEF w
  <2>5. ASSUME NEW e \in held,
               GoesOn(IF live = {} THEN Opened(told(e, live), e.to) ELSE told(e, live), Targets(live))
        PROVE  Walked(n)
    <3>1. e.to \in Nodes
      BY DEF Out, TypeOK, Edge
    <3>. DEFINE v == told(e, live)
    <3>2. /\ v \in Walk /\ v.visited = w.visited /\ v.status = w.status
          /\ Pending(v) = Pending(w)
      <4>1. v.visited = w.visited /\ v.status = w.status /\ v.stack = w.stack /\ v.deferred = w.deferred
        BY <1>1 DEF Walk
      <4>2. v \in Walk
        <5>1. Cardinality(live) \in Int /\ e.to \in Nodes \cup {NoNode}
          BY <2>3, <3>1
        <5>2. w \in Walk
          BY <1>1
        <5>. QED BY <5>1, <5>2 DEF Walk
      <4>. QED BY <4>1, <4>2 DEF Pending
    <3>. HIDE DEF v
    <3>3. CASE live = {}
      <4>1. /\ Opened(v, e.to) \in Walk /\ Opened(v, e.to).visited = w.visited \ {e.to}
            /\ Opened(v, e.to).status = "running" /\ Pending(w) \subseteq Pending(Opened(v, e.to))
        BY <1>1, <3>1, <3>2, OpenedKeeps
      <4>2. GoesOn(Opened(v, e.to), Targets(live))
        BY <2>5, <3>3 DEF v
      <4>. QED BY <1>2, <2>2, <2>3, <4>1, <4>2
    <3>4. CASE live # {}
      <4>1. GoesOn(v, Targets(live))
        BY <2>5, <3>4 DEF v
      <4>. QED BY <1>1, <1>2, <2>2, <2>3, <3>2, <4>1
    <3>. QED BY <3>3, <3>4
  <2>. QED BY <2>1, <2>4, <2>5
<1>12. CASE Fail(n)
  <2>. DEFINE v == [w EXCEPT !.status = "failed"]
  <2>1. walk' = v /\ UNCHANGED <<reached, late>>
    BY <1>12 DEF Fail
  <2>. HIDE DEF w
  <2>2. /\ v \in Walk /\ v.visited = w.visited /\ v.join = w.join /\ v.status = "failed"
        /\ Pending(v) = Pending(w)
    BY <1>1 DEF Walk, Pending
  <2>. HIDE DEF v
  <2>. QED BY <1>5, <2>1, <2>2
<1>. QED BY <1>7, <1>8, <1>9, <1>10, <1>11, <1>12 DEF VisitsOne

\* A decision puts the run back to work; a step is forgotten only on purpose.
Resumed ==
  /\ walk' \in Walk /\ walk'.status = "running" /\ walk'.visited \subseteq walk.visited
  /\ reached \subseteq reached' /\ reached' \subseteq Nodes /\ late' \subseteq Nodes
  /\ Pending(walk) \cup (reached' \ reached) \subseteq Pending(walk')
  /\ ~Repeats => walk'.visited = walk.visited /\ walk'.join = walk.join

\* resumeWorkflow: what Decide does to the walk, piece by piece.
LEMMA DecisionResumes ==
  ASSUME TypeOK, walk.waiting \in Nodes, NEW d, NEW input, Resume(d, input)
  PROVE  Resumed
<1>. DEFINE n == walk.waiting
            edges == {e \in Out(n) : Matches(e.branch, d)}
            back == {e \in edges : e.revisit}
            again == ReachableBy(Targets(back), graph.edges)
            w == [walk EXCEPT !.status = "running", !.waiting = NoNode]
            v == [w EXCEPT !.ready = @ \cup {n}, !.visited = @ \ {n}]
            u == [w EXCEPT !.visited = @ \ again]
<1>1. walk \in Walk /\ reached \subseteq Nodes /\ late \subseteq Nodes
  BY DEF TypeOK
<1>2. /\ w \in Walk /\ w.status = "running" /\ w.visited = walk.visited /\ w.join = walk.join
      /\ w.stack = walk.stack /\ w.deferred = walk.deferred
  BY <1>1 DEF Walk
<1>3. \/ graph.type[n] = "pause" /\ walk' = Push(v, <<n>>) /\ UNCHANGED <<reached, late>>
      \/ /\ \E s \in SetToSeqs(Targets(edges)) : walk' = Push(u, s)
         /\ reached' = reached \cup Targets(edges) /\ late' \subseteq late \cup Targets(edges)
  BY DEF Resume
<1>4. edges \subseteq graph.edges /\ Targets(edges) \subseteq Nodes
  <2>1. edges \subseteq graph.edges
    BY DEF Out
  <2>. QED BY <2>1, TargetsAreNodes
<1>5. ~Repeats => back = {}
  BY <1>4 DEF Repeats
<1>6. ~Repeats => again = {}
  <2>1. Targets({}) = {}
    BY DEF Targets
  <2>. HIDE DEF back
  <2>. QED BY <1>5, <2>1, NothingReachable
<1>. HIDE DEF w, again, edges, back
<1>7. CASE graph.type[n] = "pause" /\ walk' = Push(v, <<n>>) /\ UNCHANGED <<reached, late>>
  <2>1. /\ v \in Walk /\ v.status = w.status /\ v.visited = w.visited \ {n} /\ v.join = w.join
        /\ v.stack = w.stack /\ v.deferred = w.deferred
    BY <1>2 DEF Walk
  <2>. HIDE DEF v
  <2>2. <<n>> \in Seq(Nodes)
    OBVIOUS
  <2>3. walk' \in Walk /\ Agree(walk', v) /\ Pending(v) \subseteq Pending(walk')
    BY <1>7, <2>1, <2>2, PushKeeps
  <2>4. Repeats
    BY <1>7 DEF Repeats
  <2>. QED BY <1>1, <1>2, <1>7, <2>1, <2>3, <2>4 DEF Resumed, Agree, Pending
<1>8. ASSUME NEW s \in SetToSeqs(Targets(edges)), walk' = Push(u, s), reached' = reached \cup Targets(edges),
             late' \subseteq late \cup Targets(edges)
      PROVE  Resumed
  <2>1. /\ u \in Walk /\ u.status = w.status /\ u.visited = w.visited \ again /\ u.join = w.join
        /\ u.stack = w.stack /\ u.deferred = w.deferred
    BY <1>2 DEF Walk
  <2>. HIDE DEF u
  <2>2. s \in Seq(Nodes) /\ ToSet(s) = Targets(edges)
    BY <1>4, OrdersOf
  <2>3. walk' \in Walk /\ Agree(walk', u) /\ Pending(walk') = Pending(u) \cup Targets(edges)
    BY <1>8, <2>1, <2>2, PushKeeps
  <2>4. Pending(u) = Pending(walk)
    BY <1>2, <2>1 DEF Pending
  <2>. QED BY <1>1, <1>2, <1>4, <1>6, <1>8, <2>1, <2>3, <2>4 DEF Resumed, Agree
<1>. QED BY <1>3, <1>7, <1>8

\* A node that was visited already is dropped.
LEMMA SkipDrops ==
  ASSUME TypeOK, Skip
  PROVE  /\ walk' \in Walk /\ Agree(walk', walk) /\ Top \in walk.visited
         /\ Pending(walk) \subseteq Pending(walk') \cup {Top} /\ Pending(walk') \subseteq Pending(walk)
BY PoppedKeeps DEF Skip, Agree

\* A join is put off, and stays owed.
LEMMA DeferKeeps ==
  ASSUME TypeOK, Defer
  PROVE  walk' \in Walk /\ Agree(walk', walk) /\ Pending(walk) = Pending(walk')
<1>. DEFINE p == Popped
            d == IF Contains(p.deferred, Top) THEN p.deferred ELSE Append(p.deferred, Top)
<1>1. /\ p \in Walk /\ Agree(p, walk) /\ Top \in Nodes
      /\ Pending(walk) = Pending(p) \cup {Top}
  BY PoppedKeeps DEF Defer
<1>2. walk' = [p EXCEPT !.deferred = d, !.deferCount[Top] = @ + 1]
  BY DEF Defer
<1>. HIDE DEF p
<1>3. d \in Seq(Nodes) /\ ToSet(d) = ToSet(p.deferred) \cup {Top}
  <2>1. p.deferred \in Seq(Nodes)
    BY <1>1 DEF Walk
  <2>2. CASE Contains(p.deferred, Top)
    BY <2>1, <2>2 DEF Contains, ToSet
  <2>3. CASE ~Contains(p.deferred, Top)
    BY <1>1, <2>1, <2>3, AppendedSet
  <2>. QED BY <2>2, <2>3
<1>. HIDE DEF d
<1>4. /\ walk'.status = p.status /\ walk'.visited = p.visited /\ walk'.join = p.join /\ walk'.waiting = p.waiting
      /\ walk'.ready = p.ready /\ walk'.stack = p.stack /\ walk'.deferred = d
  BY <1>1, <1>2 DEF Walk
<1>5. walk' \in Walk
  <2>1. [p.deferCount EXCEPT ![Top] = @ + 1] \in [Nodes -> Nat]
    BY <1>1 DEF Walk
  <2>2. walk' = [p EXCEPT !.deferred = d, !.deferCount = [p.deferCount EXCEPT ![Top] = @ + 1]]
    BY <1>1, <1>2 DEF Walk
  <2>. DEFINE c == [p.deferCount EXCEPT ![Top] = @ + 1]
  <2>. HIDE DEF c
  <2>3. walk' = [p EXCEPT !.deferred = d, !.deferCount = c] /\ c \in [Nodes -> Nat]
    BY <2>1, <2>2 DEF c
  <2>4. p \in Walk /\ d \in Seq(Nodes)
    BY <1>1, <1>3
  <2>. QED BY <2>3, <2>4 DEF Walk
<1>6. Agree(walk', walk)
  BY <1>1, <1>4 DEF Agree
<1>. QED BY <1>1, <1>3, <1>4, <1>5, <1>6 DEF Pending

-----------------------------------------------------------------------------
(* The invariant *)

\* A run that waits, waits at a node; and the two counts of a visit agree: the engine's
\* mark, and how often the node ran.
WaitsSomewhere == walk.status = "waiting_approval" => walk.waiting \in Nodes
VisitedRan == \A n \in walk.visited : ran[n] > 0

\* The mark is never taken off, and no join is opened: only pauses and held fan-outs do.
MarkedOnce ==
  ~Repeats => /\ walk.join = NoNode
              /\ \A n \in Nodes : ran[n] <= 1 /\ (ran[n] > 0 => n \in walk.visited)

\* Every node a transition led to ran, or is still to be visited.
NoPauses == \A n \in Nodes : graph.type[n] # "pause"
Owed == NoPauses => \A n \in reached : ran[n] > 0 \/ n \in Pending(walk)
NothingOwed == walk.status = "completed" => Pending(walk) = {}

EngineInv == TypeOK /\ WaitsSomewhere /\ VisitedRan /\ MarkedOnce /\ Owed /\ NothingOwed

\* The walk of a run whose triggers lead to the nodes s.
Starts(s) ==
  /\ walk = [status |-> "running", stack |-> s, visited |-> {}, deferred |-> <<>>,
             forced |-> {}, deferCount |-> [n \in Nodes |-> 0], waiting |-> NoNode,
             ready |-> {}, join |-> NoNode, remaining |-> 0]
  /\ reached = ToSet(s)

\* A run starts with nothing visited, and owes what its triggers lead to.
LEMMA EngineInit == Init => EngineInv
<1>. SUFFICES ASSUME Init
     PROVE  EngineInv
  OBVIOUS
<1>1. graph.type \in [Nodes -> Types] /\ graph.edges \subseteq Edge
  BY GraphsAssumption DEF Init
<1>0. PICK fired : \E s \in SetToSeqs(Targets({e \in graph.edges : e.from \in fired})) : Starts(s)
  BY DEF Init, Starts
<1>2. PICK s \in SetToSeqs(Targets({e \in graph.edges : e.from \in fired})) :
        /\ walk = [status |-> "running", stack |-> s, visited |-> {}, deferred |-> <<>>,
                   forced |-> {}, deferCount |-> [n \in Nodes |-> 0], waiting |-> NoNode,
                   ready |-> {}, join |-> NoNode, remaining |-> 0]
        /\ reached = ToSet(s)
  BY <1>0 DEF Starts
<1>3. Targets({e \in graph.edges : e.from \in fired}) \subseteq Nodes
  BY <1>1 DEF Targets, Edge
<1>4. s \in Seq(Nodes) /\ reached \subseteq Nodes
  BY <1>2, <1>3, OrdersOf
<1>5. walk \in Walk
  <2>1. <<>> \in Seq(Nodes) /\ [n \in Nodes |-> 0] \in [Nodes -> Nat]
    OBVIOUS
  <2>. QED BY <1>2, <1>4, <2>1 DEF Walk
<1>6. /\ walk.status = "running" /\ walk.stack = s /\ walk.visited = {} /\ walk.join = NoNode
  BY <1>2
<1>7. ran = [n \in Nodes |-> 0] /\ decisions = 0 /\ late = {} /\ simulated \in {"no", "approved", "rejected"}
  BY DEF Init
<1>8. TypeOK
  BY <1>1, <1>4, <1>5, <1>7, DecisionsAssumption DEF TypeOK, Often
<1>9. Owed /\ NothingOwed /\ WaitsSomewhere
  BY <1>2, <1>6 DEF Owed, NothingOwed, WaitsSomewhere, Pending
<1>10. VisitedRan /\ MarkedOnce
  BY <1>6, <1>7 DEF VisitedRan, MarkedOnce
<1>. QED BY <1>8, <1>9, <1>10 DEF EngineInv

\* A visit counts, whatever the node does.
LEMMA VisitCounts ==
  ASSUME TypeOK, NEW n, VisitsOne(n)
  PROVE  /\ n \in Nodes /\ n \notin walk.visited /\ walk.status = "running"
         /\ ran' = [ran EXCEPT ![n] = IF @ = Often THEN @ ELSE @ + 1]
         /\ UNCHANGED <<graph, simulated, decisions>>
<1>1. PICK types : Visits(n, types)
  BY DEF VisitsOne, Condition, Act, End, Pause, Approval, Signal, FanOut, Fail
<1>2. n \in Nodes /\ n \notin walk.visited
  BY <1>1, EntersTop
<1>. QED BY <1>1, <1>2 DEF Visits, Running

\* Running a node keeps the invariant.
LEMMA VisitKeepsInv ==
  ASSUME EngineInv, NEW n, VisitsOne(n)
  PROVE  EngineInv'
<1>1. TypeOK
  BY DEF EngineInv
<1>2. Walked(n)
  BY <1>1, VisitWalks
<1>3. /\ n \in Nodes /\ n \notin walk.visited /\ walk.status = "running"
      /\ ran' = [ran EXCEPT ![n] = IF @ = Often THEN @ ELSE @ + 1]
      /\ UNCHANGED <<graph, simulated, decisions>>
  BY <1>1, VisitCounts
<1>4. ran \in [Nodes -> 0 .. 2]
  BY <1>1 DEF TypeOK, Often
<1>5. /\ ran' \in [Nodes -> 0 .. 2] /\ ran'[n] > 0 /\ \A m \in Nodes \ {n} : ran'[m] = ran[m]
      /\ ran[n] = 0 => ran'[n] = 1
  BY <1>3, <1>4 DEF Often
<1>6. TypeOK'
  BY <1>1, <1>2, <1>3, <1>5 DEF TypeOK, Walked, Often
<1>7. WaitsSomewhere' /\ NothingOwed'
  BY <1>2 DEF Walked, WaitsSomewhere, NothingOwed
<1>8. VisitedRan'
  <2>1. walk.visited \subseteq Nodes
    BY <1>1 DEF TypeOK, Walk
  <2>2. \A m \in walk.visited : ran[m] > 0
    BY DEF EngineInv, VisitedRan
  <2>3. walk'.visited \subseteq walk.visited \cup {n}
    BY <1>2 DEF Walked
  <2>. QED BY <1>5, <2>1, <2>2, <2>3 DEF VisitedRan
<1>9. MarkedOnce'
  <2>1. Repeats' = Repeats
    BY <1>3 DEF Repeats
  <2>2. CASE ~Repeats
    <3>1. walk.join = NoNode /\ \A m \in Nodes : ran[m] <= 1 /\ (ran[m] > 0 => m \in walk.visited)
      BY <2>2 DEF EngineInv, MarkedOnce
    <3>2. walk'.visited = walk.visited \cup {n} /\ walk'.join = NoNode
      BY <1>2, <2>2, <3>1 DEF Walked
    <3>3. ran[n] = 0
      BY <1>3, <1>4, <3>1
    <3>4. \A m \in Nodes : ran'[m] <= 1 /\ (ran'[m] > 0 => m \in walk'.visited)
      BY <1>5, <3>1, <3>2, <3>3
    <3>. QED BY <3>2, <3>4 DEF MarkedOnce
  <2>. QED BY <2>1, <2>2 DEF MarkedOnce
<1>10. Owed'
  <2>1. NoPauses' = NoPauses
    BY <1>3 DEF NoPauses
  <2>2. CASE NoPauses
    <3>1. \A m \in reached : ran[m] > 0 \/ m \in Pending(walk)
      BY <2>2 DEF EngineInv, Owed
    <3>2. Pending(walk) \cup (reached' \ reached) \subseteq Pending(walk') \cup {n}
      BY <1>2, <1>3, <2>2 DEF Walked, NoPauses
    <3>3. reached' \subseteq Nodes
      BY <1>2 DEF Walked
    <3>4. \A m \in reached' : ran'[m] > 0 \/ m \in Pending(walk')
      BY <1>5, <3>1, <3>2, <3>3
    <3>5. Pending(walk)' = Pending(walk')
      BY DEF Pending
    <3>. QED BY <3>4, <3>5 DEF Owed
  <2>. QED BY <2>1, <2>2 DEF Owed
<1>. QED BY <1>6, <1>7, <1>8, <1>9, <1>10 DEF EngineInv

\* The steps that visit nothing: what was visited and joined stays, what is owed stays owed
\* unless it ran.
Idle ==
  /\ walk' \in Walk /\ walk'.visited = walk.visited /\ walk'.join = walk.join
  /\ \A m \in Pending(walk) : m \in Pending(walk') \/ m \in walk.visited
  /\ UNCHANGED <<graph, simulated, decisions, ran, reached, late>>

\* Skipping a node, deferring it and ending the loop keep the invariant.
LEMMA IdleKeepsInv ==
  ASSUME EngineInv, Idle, WaitsSomewhere', NothingOwed'
  PROVE  EngineInv'
<1>1. TypeOK'
  BY DEF EngineInv, Idle, TypeOK
<1>2. VisitedRan' /\ MarkedOnce'
  BY DEF EngineInv, Idle, VisitedRan, MarkedOnce, Repeats
<1>3. Owed'
  <2>1. Pending(walk)' = Pending(walk') /\ NoPauses' = NoPauses
    BY DEF Pending, NoPauses, Idle
  <2>2. ASSUME NoPauses, NEW m \in reached
        PROVE  ran[m] > 0 \/ m \in Pending(walk')
    BY <2>2 DEF EngineInv, Owed, Idle, VisitedRan
  <2>. QED BY <2>1, <2>2 DEF Owed, Idle
<1>. QED BY <1>1, <1>2, <1>3 DEF EngineInv

\* A decision keeps the invariant.
LEMMA ResumeKeepsInv ==
  ASSUME EngineInv, NEW d, NEW input, Resume(d, input)
  PROVE  EngineInv'
<1>1. TypeOK /\ walk.waiting \in Nodes
  BY DEF EngineInv, WaitsSomewhere, Resume
<1>2. Resumed
  BY <1>1, DecisionResumes
<1>3. decisions < MaxDecisions /\ decisions' = decisions + 1 /\ UNCHANGED <<graph, simulated, ran>>
  BY DEF Resume
<1>4. decisions' \in 0 .. MaxDecisions
  BY <1>1, <1>3, DecisionsAssumption DEF TypeOK
<1>5. TypeOK'
  BY <1>1, <1>2, <1>3, <1>4 DEF TypeOK, Resumed
<1>6. WaitsSomewhere' /\ NothingOwed'
  BY <1>2 DEF Resumed, WaitsSomewhere, NothingOwed
<1>7. VisitedRan' /\ MarkedOnce'
  BY <1>2, <1>3 DEF EngineInv, Resumed, VisitedRan, MarkedOnce, Repeats
<1>8. Owed'
  <2>1. Pending(walk)' = Pending(walk') /\ NoPauses' = NoPauses
    BY <1>3 DEF Pending, NoPauses
  <2>2. ASSUME NoPauses, NEW m \in reached'
        PROVE  ran[m] > 0 \/ m \in Pending(walk')
    BY <1>2, <2>2 DEF EngineInv, Owed, Resumed
  <2>. QED BY <1>3, <2>1, <2>2 DEF Owed
<1>. QED BY <1>5, <1>6, <1>7, <1>8 DEF EngineInv

\* A run completes when nothing is left to visit.
LEMMA FinishOwesNothing ==
  ASSUME TypeOK, Finish
  PROVE  /\ walk' \in Walk /\ walk'.visited = walk.visited /\ walk'.join = walk.join
         /\ Pending(walk) = {} /\ Pending(walk') = {} /\ walk'.status = "completed"
<1>1. walk \in Walk /\ walk' = [walk EXCEPT !.status = "completed"] /\ Loaded.stack = <<>>
  BY DEF TypeOK, Finish
<1>2. /\ walk' \in Walk /\ walk'.visited = walk.visited /\ walk'.join = walk.join
      /\ walk'.status = "completed" /\ walk'.stack = walk.stack /\ walk'.deferred = walk.deferred
  BY <1>1 DEF Walk
<1>3. walk.stack = <<>>
  BY <1>1 DEF Loaded
<1>4. walk.deferred = <<>>
  <2>1. Loaded = [walk EXCEPT !.stack = walk.deferred, !.deferred = <<>>,
                              !.forced = @ \cup ToSet(walk.deferred)]
    BY <1>3 DEF Loaded
  <2>2. Loaded.stack = walk.deferred
    BY <1>1, <2>1 DEF Walk
  <2>. QED BY <1>1, <2>2
<1>5. ToSet(<<>>) = {}
  BY DEF ToSet
<1>. QED BY <1>2, <1>3, <1>4, <1>5 DEF Pending

\* Every step keeps the invariant.
LEMMA EngineStep == EngineInv /\ [Next]_vars => EngineInv'
<1>. SUFFICES ASSUME EngineInv, [Next]_vars
     PROVE  EngineInv'
  OBVIOUS
<1>1. TypeOK
  BY DEF EngineInv
<1>2. CASE Skip
  <2>1. /\ walk' \in Walk /\ Agree(walk', walk) /\ Top \in walk.visited
        /\ Pending(walk) \subseteq Pending(walk') \cup {Top}
    BY <1>1, <1>2, SkipDrops
  <2>2. walk.status = "running" /\ UNCHANGED <<graph, simulated, decisions, ran, reached, late>>
    BY <1>2 DEF Skip, Running
  <2>3. Idle /\ WaitsSomewhere' /\ NothingOwed'
    BY <2>1, <2>2 DEF Idle, Agree, WaitsSomewhere, NothingOwed
  <2>. QED BY <2>3, IdleKeepsInv
<1>3. CASE Defer
  <2>1. walk' \in Walk /\ Agree(walk', walk) /\ Pending(walk) \subseteq Pending(walk')
    BY <1>1, <1>3, DeferKeeps
  <2>2. walk.status = "running" /\ UNCHANGED <<graph, simulated, decisions, ran, reached, late>>
    BY <1>3 DEF Defer, Running
  <2>3. Idle /\ WaitsSomewhere' /\ NothingOwed'
    BY <2>1, <2>2 DEF Idle, Agree, WaitsSomewhere, NothingOwed
  <2>. QED BY <2>3, IdleKeepsInv
<1>4. ASSUME NEW n, VisitsOne(n)
      PROVE  EngineInv'
  BY <1>4, VisitKeepsInv
<1>5. CASE Finish
  <2>1. /\ walk' \in Walk /\ walk'.visited = walk.visited /\ walk'.join = walk.join
        /\ Pending(walk) = {} /\ Pending(walk') = {} /\ walk'.status = "completed"
    BY <1>1, <1>5, FinishOwesNothing
  <2>2. UNCHANGED <<graph, simulated, decisions, ran, reached, late>>
    BY <1>5 DEF Finish
  <2>3. Idle
    BY <2>1, <2>2 DEF Idle
  <2>4. Pending(walk)' = Pending(walk')
    BY DEF Pending
  <2>5. WaitsSomewhere' /\ NothingOwed'
    BY <2>1, <2>4 DEF WaitsSomewhere, NothingOwed
  <2>. QED BY <2>3, <2>5, IdleKeepsInv
<1>6. CASE Decide
  BY <1>6, ResumeKeepsInv DEF Decide
<1>7. CASE UNCHANGED vars
  BY <1>7 DEF vars, EngineInv, TypeOK, WaitsSomewhere, VisitedRan, MarkedOnce, Repeats, Owed, NoPauses,
              NothingOwed, Pending
<1>. QED BY <1>2, <1>3, <1>4, <1>5, <1>6, <1>7 DEF Next, Drive, VisitsOne

\* The invariant holds in every state of every run.
LEMMA EngineInvariant == Spec => []EngineInv
<1>. QED BY EngineInit, EngineStep, PTL DEF Spec

-----------------------------------------------------------------------------
(* Reachability: the nodes reached are the least set with the first ones    *)
(* that no transition leaves.                                               *)

\* One step along the transitions E.
Spread(S, E) == S \cup Targets({e \in E : e.from \in S})

\* No transition of E leads out of S.
Closed(S, E) == \A e \in E : e.from \in S => e.to \in S

\* The stages of ReachableBy: each spreads the one before.
StagesOf(f, X, E) ==
  /\ f \in [0 .. Cardinality(Nodes) -> SUBSET Nodes]
  /\ f[0] = X /\ \A k \in 1 .. Cardinality(Nodes) : f[k] = Spread(f[k - 1], E)

\* ReachableBy is the last of its stages.
LEMMA ReachStages ==
  ASSUME NEW X \in SUBSET Nodes, NEW E \in SUBSET Edge
  PROVE  \E f : StagesOf(f, X, E) /\ ReachableBy(X, E) = f[Cardinality(Nodes)]
<1>. DEFINE n == Cardinality(Nodes)
            next(S) == UNION {{m} \cup Targets({e \in E : e.from = m}) : m \in S}
            rec(f) == f = [k \in 0 .. n |-> IF k = 0 THEN X ELSE next(f[k - 1])]
            within == CHOOSE f : rec(f)
<1>1. n \in Nat
  BY NodesAssumption, FS_CardinalityType
<1>2. \A S : next(S) = Spread(S, E)
  BY DEF Spread, Targets
<1>3. \A S \in SUBSET Nodes : Spread(S, E) \in SUBSET Nodes
  BY DEF Spread, Targets, Edge
<1>4. ReachableBy(X, E) = within[n]
  BY DEF ReachableBy
<1>. HIDE DEF n, next
<1>5. \E f : rec(f) /\ f \in [0..n -> SUBSET Nodes]
  <2>. DEFINE g == [k \in 1..n |-> [S \in SUBSET Nodes |-> Spread(S, E)]]
  <2>1. g \in Ways(SUBSET Nodes, n)
    BY <1>3 DEF Ways
  <2>2. \A k \in 1..n : \A S \in SUBSET Nodes : g[k][S] = Spread(S, E)
    OBVIOUS
  <2>. HIDE DEF g
  <2>3. PICK f : Iterates(f, SUBSET Nodes, n, g, X)
    BY <1>1, <2>1, RecursionExists
  <2>4. ASSUME NEW k \in 0..n
        PROVE  f[k] = IF k = 0 THEN X ELSE next(f[k - 1])
    <3>1. CASE k = 0
      BY <2>3, <3>1 DEF Iterates
    <3>2. CASE k # 0
      <4>1. k \in 1..n /\ k - 1 \in 0..n
        BY <1>1, <3>2
      <4>2. f[k] = g[k][f[k - 1]] /\ f[k - 1] \in SUBSET Nodes
        BY <2>3, <4>1 DEF Iterates
      <4>. QED BY <1>2, <2>2, <3>2, <4>1, <4>2
    <3>. QED BY <3>1, <3>2
  <2>. QED BY <2>3, <2>4 DEF Iterates
<1>6. rec(within)
  BY <1>5
<1>. HIDE DEF within
<1>7. \A f : rec(f) => f = within
  <2>. SUFFICES ASSUME NEW f, rec(f)
       PROVE  f = within
    OBVIOUS
  <2>. DEFINE S == {k \in 0..n : f[k] = within[k]}
  <2>1. 0 \in S
    BY <1>1, <1>6
  <2>2. ASSUME NEW k \in 1..n, k - 1 \in S
        PROVE  k \in S
    BY <1>1, <1>6, <2>2
  <2>3. 0..n \subseteq S
    <3>. HIDE DEF S
    <3>. QED BY <1>1, <2>1, <2>2, BoundedInduction
  <2>. QED BY <1>6, <2>3
<1>8. within \in [0..n -> SUBSET Nodes]
  BY <1>5, <1>7
<1>9. within[0] = X /\ \A k \in 1..n : within[k] = Spread(within[k - 1], E)
  BY <1>1, <1>2, <1>6
<1>. QED BY <1>4, <1>8, <1>9 DEF StagesOf, n

\* What is reached holds the first nodes, and nothing that is closed and holds them lacks it.
LEMMA ReachLeast ==
  ASSUME NEW X \in SUBSET Nodes, NEW E \in SUBSET Edge
  PROVE  /\ ReachableBy(X, E) \subseteq Nodes /\ X \subseteq ReachableBy(X, E)
         /\ \A Z : X \subseteq Z /\ Closed(Z, E) => ReachableBy(X, E) \subseteq Z
<1>. DEFINE n == Cardinality(Nodes)
<1>1. n \in Nat
  BY NodesAssumption, FS_CardinalityType
<1>2. PICK f : StagesOf(f, X, E) /\ ReachableBy(X, E) = f[n]
  BY ReachStages
<1>. HIDE DEF n
<1>3. /\ f \in [0..n -> SUBSET Nodes] /\ f[0] = X
      /\ \A k \in 1..n : f[k] = Spread(f[k - 1], E)
  BY <1>2 DEF StagesOf, n
<1>4. X \subseteq f[n]
  <2>. DEFINE S == {k \in 0..n : X \subseteq f[k]}
  <2>1. 0 \in S
    BY <1>1, <1>3
  <2>2. ASSUME NEW k \in 1..n, k - 1 \in S
        PROVE  k \in S
    <3>1. k \in 0..n /\ X \subseteq f[k - 1] /\ f[k] = Spread(f[k - 1], E)
      BY <1>1, <1>3, <2>2
    <3>. QED BY <3>1 DEF Spread
  <2>3. 0..n \subseteq S
    <3>. HIDE DEF S
    <3>. QED BY <1>1, <2>1, <2>2, BoundedInduction
  <2>. QED BY <1>1, <2>3
<1>5. ASSUME NEW Z, X \subseteq Z, Closed(Z, E)
      PROVE  f[n] \subseteq Z
  <2>. DEFINE S == {k \in 0..n : f[k] \subseteq Z}
  <2>1. 0 \in S
    BY <1>1, <1>3, <1>5
  <2>2. ASSUME NEW k \in 1..n, k - 1 \in S
        PROVE  k \in S
    BY <1>1, <1>3, <1>5, <2>2 DEF Spread, Closed, Targets
  <2>3. 0..n \subseteq S
    <3>. HIDE DEF S
    <3>. QED BY <1>1, <2>1, <2>2, BoundedInduction
  <2>. QED BY <1>1, <2>3
<1>. QED BY <1>1, <1>2, <1>3, <1>4, <1>5

\* As many stages as there are nodes are enough: each one adds a node or nothing is left to add.
LEMMA ReachClosed ==
  ASSUME NEW X \in SUBSET Nodes, NEW E \in SUBSET Edge
  PROVE  Closed(ReachableBy(X, E), E)
<1>. DEFINE n == Cardinality(Nodes)
<1>1. n \in Nat
  BY NodesAssumption, FS_CardinalityType
<1>2. PICK f : StagesOf(f, X, E) /\ ReachableBy(X, E) = f[n]
  BY ReachStages
<1>. HIDE DEF n
<1>3. /\ f \in [0..n -> SUBSET Nodes] /\ f[0] = X
      /\ \A k \in 1..n : f[k] = Spread(f[k - 1], E)
  BY <1>2 DEF StagesOf, n
<1>. DEFINE S == {k \in 0..n : Closed(f[k], E) \/ Cardinality(f[k]) >= k}
<1>4. ASSUME NEW k \in 0..n
      PROVE  IsFiniteSet(f[k]) /\ Cardinality(f[k]) \in Nat /\ Cardinality(f[k]) <= n
  <2>1. f[k] \subseteq Nodes
    BY <1>3
  <2>. QED BY <2>1, NodesAssumption, FS_Subset, FS_CardinalityType DEF n
<1>5. 0 \in S
  BY <1>1, <1>4
<1>6. ASSUME NEW k \in 1..n, k - 1 \in S
      PROVE  k \in S
  <2>1. k - 1 \in 0..n /\ k \in 0..n /\ f[k] = Spread(f[k - 1], E)
    BY <1>1, <1>3
  <2>2. CASE Closed(f[k - 1], E)
    <3>1. f[k] = f[k - 1]
      BY <2>1, <2>2 DEF Spread, Closed, Targets
    <3>. QED BY <2>1, <2>2, <3>1
  <2>3. CASE ~Closed(f[k - 1], E) /\ Cardinality(f[k - 1]) >= k - 1
    <3>1. PICK x \in f[k] : x \notin f[k - 1]
      BY <2>1, <2>3 DEF Spread, Closed, Targets
    <3>2. f[k - 1] \subseteq f[k]
      BY <2>1 DEF Spread
    <3>3. f[k - 1] # f[k]
      BY <3>1
    <3>4. Cardinality(f[k - 1]) < Cardinality(f[k])
      BY <1>4, <2>1, <3>2, <3>3, FS_Subset
    <3>. QED BY <1>4, <2>1, <2>3, <3>4
  <2>. QED BY <1>6, <2>2, <2>3
<1>7. 0..n \subseteq S
  <2>. HIDE DEF S
  <2>. QED BY <1>1, <1>5, <1>6, BoundedInduction
<1>8. Closed(f[n], E) \/ Cardinality(f[n]) >= n
  BY <1>1, <1>7
<1>9. ASSUME Cardinality(f[n]) >= n
      PROVE  Closed(f[n], E)
  <2>1. n \in 0..n /\ f[n] \subseteq Nodes
    BY <1>1, <1>3
  <2>2. Cardinality(f[n]) = n
    BY <1>1, <1>4, <1>9, <2>1
  <2>3. f[n] = Nodes
    BY <2>1, <2>2, NodesAssumption, FS_Subset DEF n
  <2>. QED BY <2>3 DEF Closed, Edge
<1>. QED BY <1>2, <1>8, <1>9

\* What transitions of the graph lead to from X.
Reach(X) == ReachableBy(X, graph.edges)

\* The same of the graph.
LEMMA ReachFacts ==
  ASSUME graph.edges \subseteq Edge, NEW X \in SUBSET Nodes
  PROVE  /\ Reach(X) \subseteq Nodes /\ X \subseteq Reach(X)
         /\ \A e \in graph.edges : e.from \in Reach(X) => e.to \in Reach(X)
         /\ \A Z : X \subseteq Z /\ Closed(Z, graph.edges) => Reach(X) \subseteq Z
BY ReachLeast, ReachClosed DEF Reach, Closed

\* From what can be reached, nothing more can.
LEMMA ReachGrows ==
  ASSUME graph.edges \subseteq Edge, NEW X \in SUBSET Nodes, NEW Y \in SUBSET Nodes, X \subseteq Reach(Y)
  PROVE  Reach(X) \subseteq Reach(Y)
<1>1. Closed(Reach(Y), graph.edges)
  BY ReachFacts DEF Closed
<1>. HIDE DEF Reach
<1>. QED BY <1>1, ReachFacts

\* What two sets reach, one of them does.
LEMMA ReachOfBoth ==
  ASSUME graph.edges \subseteq Edge, NEW X \in SUBSET Nodes, NEW Y \in SUBSET Nodes
  PROVE  Reach(X \cup Y) \subseteq Reach(X) \cup Reach(Y)
<1>1. Closed(Reach(X) \cup Reach(Y), graph.edges)
  BY ReachFacts DEF Closed
<1>2. X \cup Y \subseteq Reach(X) \cup Reach(Y) /\ X \cup Y \in SUBSET Nodes
  BY ReachFacts
<1>. HIDE DEF Reach
<1>. QED BY <1>1, <1>2, ReachFacts

\* An acyclic graph has no way back along a transition.
LEMMA NoWayBack ==
  ASSUME graph.edges \subseteq Edge, Acyclic, NEW e \in graph.edges
  PROVE  e.from \in Nodes /\ e.to \in Nodes /\ e.from # e.to /\ e.from \notin Reach({e.to})
<1>1. e.from \in Nodes /\ e.to \in Nodes
  BY DEF Edge
<1>2. Targets(Out(e.from)) \in SUBSET Nodes /\ e.to \in Targets(Out(e.from))
  BY DEF Targets, Out, Edge
<1>3. e.from \notin Reach(Targets(Out(e.from)))
  BY <1>1 DEF Acyclic, Reach
<1>4. Reach({e.to}) \subseteq Reach(Targets(Out(e.from)))
  <2>1. {e.to} \subseteq Reach(Targets(Out(e.from)))
    BY <1>2, ReachFacts
  <2>. QED BY <1>1, <1>2, <2>1, ReachGrows
<1>5. e.to \in Reach({e.to})
  BY <1>1, ReachFacts
<1>. QED BY <1>1, <1>3, <1>4, <1>5

\* Nor a way back from anything it leads to.
LEMMA OneWay ==
  ASSUME graph.edges \subseteq Edge, Acyclic, NEW k \in Nodes, NEW m \in Reach({k}), m # k
  PROVE  m \in Nodes /\ k \notin Reach({m})
<1>. DEFINE T == Targets(Out(k))
<1>1. T \in SUBSET Nodes
  BY DEF Targets, Out, Edge
<1>2. k \notin Reach(T)
  BY DEF Acyclic, Reach
<1>3. Reach({k}) \subseteq {k} \cup Reach(T) /\ m \in Nodes
  <2>1. Closed({k} \cup Reach(T), graph.edges)
    <3>1. \A e \in graph.edges : e.from = k => e.to \in T
      BY DEF Targets, Out
    <3>. HIDE DEF T
    <3>. QED BY <1>1, <3>1, ReachFacts DEF Closed
  <2>2. {k} \in SUBSET Nodes /\ {k} \subseteq {k} \cup Reach(T)
    OBVIOUS
  <2>. HIDE DEF T
  <2>. QED BY <2>1, <2>2, ReachFacts
<1>. HIDE DEF T
<1>4. Reach({m}) \subseteq Reach(T)
  BY <1>1, <1>3, ReachGrows
<1>. QED BY <1>2, <1>3, <1>4

\* Some member of a set of nodes cannot be reached from the others.
LEMMA FirstOfSome ==
  ASSUME graph.edges \subseteq Edge, Acyclic, NEW D \in SUBSET Nodes, D # {}
  PROVE  \E m \in D : \A k \in D \ {m} : m \notin Reach({k})
<1>. DEFINE N == Cardinality(Nodes)
            size == [m \in Nodes |-> Cardinality(Reach({m}))]
            L == {N - size[m] : m \in D}
<1>0. \A m \in Nodes : size[m] = Cardinality(Reach({m}))
  OBVIOUS
<1>1. ASSUME NEW m \in Nodes
      PROVE  /\ Reach({m}) \subseteq Nodes /\ m \in Reach({m}) /\ IsFiniteSet(Reach({m}))
             /\ size[m] \in Nat /\ N \in Nat /\ size[m] <= N
  <2>1. Reach({m}) \subseteq Nodes /\ m \in Reach({m})
    BY ReachFacts
  <2>2. /\ IsFiniteSet(Reach({m})) /\ Cardinality(Reach({m})) \in Nat /\ N \in Nat
        /\ Cardinality(Reach({m})) <= N
    BY <2>1, NodesAssumption, FS_Subset, FS_CardinalityType
  <2>. HIDE DEF size, N
  <2>. QED BY <1>0, <2>1, <2>2
<1>. HIDE DEF size, N
<1>2. L \subseteq Nat /\ L # {}
  <2>1. ASSUME NEW m \in D
        PROVE  N - size[m] \in Nat
    <3>1. m \in Nodes
      OBVIOUS
    <3>2. size[m] \in Nat /\ N \in Nat /\ size[m] <= N
      BY <1>1, <3>1
    <3>. QED BY <3>2
  <2>. QED BY <2>1
<1>3. PICK l \in L : \A i \in L : <<i, l>> \notin OpToRel(<, Nat)
  BY <1>2, WFMin, NatLessThanWellFounded
<1>4. PICK m \in D : l = N - size[m]
  OBVIOUS
<1>5. ASSUME NEW k \in D \ {m}, m \in Reach({k})
      PROVE  FALSE
  <2>1. k \notin Reach({m}) /\ Reach({m}) \subseteq Reach({k})
    <3>1. {m} \in SUBSET Nodes /\ {k} \in SUBSET Nodes /\ {m} \subseteq Reach({k})
      BY <1>5
    <3>. QED BY <1>5, <3>1, OneWay, ReachGrows
  <2>2. k \in Nodes /\ m \in Nodes
    OBVIOUS
  <2>3. size[k] \in Nat /\ size[m] \in Nat /\ N \in Nat /\ size[k] <= N /\ size[m] <= N
    BY <1>1, <2>2
  <2>4. size[m] < size[k]
    <3>1. Reach({m}) # Reach({k})
      BY <1>1, <2>1
    <3>2. Cardinality(Reach({m})) <= Cardinality(Reach({k})) /\ Cardinality(Reach({m})) # Cardinality(Reach({k}))
      BY <1>1, <2>1, <3>1, FS_Subset
    <3>3. size[m] <= size[k] /\ size[m] # size[k]
      BY <1>0, <2>2, <3>2
    <3>. QED BY <2>3, <3>3
  <2>5. N - size[k] < N - size[m] /\ N - size[k] \in L /\ N - size[k] \in Nat /\ N - size[m] \in Nat
    <3>1. N - size[k] \in L
      OBVIOUS
    <3>. HIDE DEF L
    <3>. QED BY <2>3, <2>4, <3>1
  <2>. HIDE DEF L
  <2>6. <<N - size[k], l>> \in OpToRel(<, Nat)
    BY <1>4, <2>5 DEF OpToRel
  <2>. QED BY <1>3, <2>5, <2>6
<1>. QED BY <1>5

\* A join whose source is reached at all is not passed on the way to it.
LEMMA ComesWithoutJoin ==
  ASSUME graph.edges \subseteq Edge, Acyclic, NEW e \in graph.edges, NEW X \in SUBSET Nodes
  PROVE  e.from \in ReachableBy(X, {f \in graph.edges : f.from # e.to /\ f.to # e.to}) <=> e.from \in Reach(X)
<1>. DEFINE E == {f \in graph.edges : f.from # e.to /\ f.to # e.to}
            R == ReachableBy(X, E)
<1>1. E \in SUBSET Edge
  OBVIOUS
<1>2. X \subseteq R /\ Closed(R, E) /\ \A Z : X \subseteq Z /\ Closed(Z, E) => R \subseteq Z
  <2>. HIDE DEF E
  <2>. QED BY <1>1, ReachLeast, ReachClosed
<1>3. R \subseteq Reach(X)
  <2>1. Closed(Reach(X), E) /\ X \subseteq Reach(X)
    BY ReachFacts DEF Closed
  <2>. HIDE DEF R, E
  <2>. QED BY <1>2, <2>1
<1>4. Reach(X) \subseteq R \cup Reach({e.to})
  <2>1. e.to \in Nodes /\ {e.to} \in SUBSET Nodes
    BY NoWayBack
  <2>2. Closed(R \cup Reach({e.to}), graph.edges)
    <3>1. e.to \in Reach({e.to}) /\ \A f \in graph.edges : f.from \in Reach({e.to}) => f.to \in Reach({e.to})
      BY <2>1, ReachFacts
    <3>2. \A f \in graph.edges : f \in E \/ f.from = e.to \/ f.to = e.to
      OBVIOUS
    <3>. HIDE DEF R, E
    <3>. QED BY <1>2, <3>1, <3>2 DEF Closed
  <2>. HIDE DEF R
  <2>. QED BY <1>2, <2>2, ReachFacts
<1>5. e.from \notin Reach({e.to})
  BY NoWayBack
<1>. HIDE DEF R
<1>. QED BY <1>3, <1>4, <1>5 DEF R

-----------------------------------------------------------------------------
(* How often a node is in a sequence *)

\* Where m is in s, and how often.
Places(s, m) == {i \in 1 .. Len(s) : s[i] = m}
Occurs(s, m) == Cardinality(Places(s, m))

\* A node is in a sequence when it occurs in it.
LEMMA OccursType ==
  ASSUME NEW s \in Seq(Nodes), NEW m
  PROVE  /\ IsFiniteSet(Places(s, m)) /\ Occurs(s, m) \in Nat
         /\ (m \in ToSet(s)) <=> (Occurs(s, m) >= 1)
<1>1. Len(s) \in Nat /\ DOMAIN s = 1 .. Len(s)
  OBVIOUS
<1>2. IsFiniteSet(1 .. Len(s)) /\ Places(s, m) \in SUBSET (1 .. Len(s))
  BY <1>1, FS_Interval DEF Places
<1>3. IsFiniteSet(Places(s, m)) /\ Occurs(s, m) \in Nat /\ (Occurs(s, m) = 0 <=> Places(s, m) = {})
  BY <1>2, FS_Subset, FS_CardinalityType, FS_EmptySet DEF Occurs
<1>4. m \in ToSet(s) <=> Places(s, m) # {}
  BY <1>1 DEF Places, ToSet
<1>. QED BY <1>3, <1>4

\* The node popped occurs once less.
LEMMA OccursPopped ==
  ASSUME NEW s \in Seq(Nodes), s # <<>>, NEW m
  PROVE  /\ Front(s) \in Seq(Nodes) /\ Occurs(Front(s), m) \in Nat
         /\ Occurs(Front(s), m) = Occurs(s, m) - (IF m = Last(s) THEN 1 ELSE 0)
<1>1. Len(s) \in Nat /\ Len(s) >= 1
  OBVIOUS
<1>2. /\ Front(s) \in Seq(Nodes) /\ Len(Front(s)) = Len(s) - 1
      /\ \A i \in 1 .. (Len(s) - 1) : Front(s)[i] = s[i]
  <2>1. \A i \in 1 .. Len(s) - 1 : s[i] \in Nodes
    BY <1>1
  <2>2. /\ SubSeq(s, 1, Len(s) - 1) \in Seq(Nodes)
        /\ Len(SubSeq(s, 1, Len(s) - 1)) = Len(s) - 1
        /\ \A i \in 1 .. Len(s) - 1 : SubSeq(s, 1, Len(s) - 1)[i] = s[i]
    <3>. DEFINE n == Len(s) - 1
    <3>1. n \in Int /\ 1 \in Int /\ n >= 0 /\ n - 1 + 1 = n
      BY <1>1
    <3>. HIDE DEF n
    <3>2. /\ SubSeq(s, 1, n) \in Seq(Nodes)
          /\ Len(SubSeq(s, 1, n)) = IF 1 <= n THEN n - 1 + 1 ELSE 0
          /\ \A i \in 1 .. n - 1 + 1 : SubSeq(s, 1, n)[i] = s[1 + i - 1]
      BY <2>1, <3>1, SubSeqProperties DEF n
    <3>3. \A i \in 1 .. n : 1 + i - 1 = i
      BY <3>1
    <3>4. Len(SubSeq(s, 1, n)) = n /\ \A i \in 1 .. n : SubSeq(s, 1, n)[i] = s[i]
      BY <3>1, <3>2, <3>3
    <3>. QED BY <3>2, <3>4 DEF n
  <2>. QED BY <2>2 DEF Front
<1>3. IsFiniteSet(Places(Front(s), m)) /\ Occurs(Front(s), m) \in Nat
  BY <1>2, OccursType
<1>4. CASE m = Last(s)
  <2>1. Places(s, m) = Places(Front(s), m) \cup {Len(s)} /\ Len(s) \notin Places(Front(s), m)
    BY <1>1, <1>2, <1>4 DEF Places, Last
  <2>2. Occurs(s, m) = Occurs(Front(s), m) + 1
    BY <1>3, <2>1, FS_AddElement DEF Occurs
  <2>. QED BY <1>2, <1>3, <1>4, <2>2
<1>5. CASE m # Last(s)
  <2>1. Places(s, m) = Places(Front(s), m)
    BY <1>1, <1>2, <1>5 DEF Places, Last
  <2>. QED BY <1>2, <1>3, <1>5, <2>1 DEF Occurs
<1>. QED BY <1>4, <1>5

\* Another node appended changes nothing.
LEMMA OccursAppended ==
  ASSUME NEW s \in Seq(Nodes), NEW n \in Nodes, NEW m, m # n
  PROVE  Occurs(Append(s, n), m) = Occurs(s, m)
<1>1. /\ Len(Append(s, n)) = Len(s) + 1 /\ Len(s) \in Nat /\ Append(s, n)[Len(s) + 1] = n
      /\ \A i \in 1 .. Len(s) : Append(s, n)[i] = s[i]
  BY AppendProperties, LenProperties
<1>2. Places(Append(s, n), m) = Places(s, m)
  BY <1>1 DEF Places
<1>. QED BY <1>2 DEF Occurs

\* In two sequences it occurs as often as in one and the other.
LEMMA OccursJoined ==
  ASSUME NEW s \in Seq(Nodes), NEW t \in Seq(Nodes), NEW m
  PROVE  Occurs(s \o t, m) <= Occurs(s, m) + Occurs(t, m)
<1>1. /\ Len(s) \in Nat /\ Len(t) \in Nat /\ Len(s \o t) = Len(s) + Len(t)
      /\ \A i \in 1 .. (Len(s) + Len(t)) : (s \o t)[i] = IF i <= Len(s) THEN s[i] ELSE t[i - Len(s)]
  BY LenProperties, ConcatProperties
<1>. DEFINE later == [i \in Places(t, m) |-> i + Len(s)]
            L == {i + Len(s) : i \in Places(t, m)}
<1>2. IsFiniteSet(Places(s, m)) /\ IsFiniteSet(Places(t, m)) /\ Occurs(s, m) \in Nat /\ Occurs(t, m) \in Nat
  BY OccursType
<1>3. later \in Surjection(Places(t, m), L)
  BY DEF Surjection
<1>4. IsFiniteSet(L) /\ Cardinality(L) <= Occurs(t, m) /\ Cardinality(L) \in Nat
  <2>. HIDE DEF later, L
  <2>. QED BY <1>2, <1>3, FS_Surjection, FS_CardinalityType DEF Occurs
<1>5. Places(s \o t, m) \subseteq Places(s, m) \cup L
  <2>1. ASSUME NEW i \in Places(s \o t, m), i > Len(s)
        PROVE  i \in L
    <3>1. i - Len(s) \in Places(t, m) /\ (i - Len(s)) + Len(s) = i
      BY <1>1, <2>1 DEF Places
    <3>. QED BY <3>1
  <2>2. ASSUME NEW i \in Places(s \o t, m), ~(i > Len(s))
        PROVE  i \in Places(s, m)
    BY <1>1, <2>2 DEF Places
  <2>. QED BY <2>1, <2>2
<1>6. /\ IsFiniteSet(Places(s, m) \cup L) /\ Cardinality(Places(s, m) \cup L) \in Nat
      /\ Cardinality(Places(s, m) \cup L) <= Occurs(s, m) + Cardinality(L)
  <2>. HIDE DEF L
  <2>1. Cardinality(Places(s, m) \cap L) \in Nat
    BY <1>2, <1>4, FS_Intersection, FS_CardinalityType
  <2>2. /\ IsFiniteSet(Places(s, m) \cup L)
        /\ Cardinality(Places(s, m) \cup L)
             = Cardinality(Places(s, m)) + Cardinality(L) - Cardinality(Places(s, m) \cap L)
    BY <1>2, <1>4, FS_Union
  <2>3. Cardinality(Places(s, m) \cup L) <= Occurs(s, m) + Cardinality(L)
    BY <1>2, <1>4, <2>1, <2>2 DEF Occurs
  <2>. QED BY <2>2, <2>3, FS_CardinalityType
<1>7. Occurs(s \o t, m) <= Cardinality(Places(s, m) \cup L) /\ Occurs(s \o t, m) \in Nat
  <2>1. s \o t \in Seq(Nodes)
    OBVIOUS
  <2>2. Occurs(s \o t, m) \in Nat
    BY <2>1, OccursType
  <2>. HIDE DEF L
  <2>. QED BY <1>5, <1>6, <2>2, FS_Subset DEF Occurs
<1>. HIDE DEF L
<1>. QED BY <1>2, <1>4, <1>6, <1>7

\* In a sequence without repetitions, at most once.
LEMMA OccursOnce ==
  ASSUME NEW s \in Seq(Nodes), IsInjective(s), NEW m
  PROVE  Occurs(s, m) <= 1
<1>1. IsFiniteSet(Places(s, m)) /\ Occurs(s, m) \in Nat
  BY OccursType
<1>2. \A i, j \in Places(s, m) : i = j
  BY DEF Places, IsInjective
<1>3. CASE Places(s, m) = {}
  BY <1>3, FS_EmptySet DEF Occurs
<1>4. CASE Places(s, m) # {}
  <2>1. PICK i : i \in Places(s, m)
    BY <1>4
  <2>2. Places(s, m) = {i}
    BY <1>2, <2>1
  <2>3. Cardinality({i}) = 1
    BY FS_Singleton
  <2>. QED BY <2>2, <2>3 DEF Occurs
<1>. QED BY <1>3, <1>4

\* Of a sequence without repetitions, deleting n leaves the others.
LEMMA DeletedOnce ==
  ASSUME NEW s \in Seq(Nodes), IsInjective(s), NEW n
  PROVE  /\ RemoveFirst(s, n) \in Seq(Nodes) /\ IsInjective(RemoveFirst(s, n))
         /\ ToSet(RemoveFirst(s, n)) = ToSet(s) \ {n}
<1>1. CASE n \in ToSet(s)
  <2>. DEFINE r == RemoveFirst(s, n)
  <2>1. PICK j \in 1 .. Len(s) :
          /\ s[j] = n /\ r \in Seq(Nodes) /\ Len(r) = Len(s) - 1
          /\ \A i \in 1 .. (Len(s) - 1) : r[i] = IF i < j THEN s[i] ELSE s[i + 1]
    BY <1>1, DeletedAt
  <2>. HIDE DEF r
  <2>2. Len(s) \in Nat /\ DOMAIN s = 1 .. Len(s) /\ DOMAIN r = 1 .. (Len(s) - 1)
    BY <2>1
  <2>. DEFINE at(i) == IF i < j THEN i ELSE i + 1
  <2>3. ASSUME NEW i \in 1 .. (Len(s) - 1)
        PROVE  at(i) \in 1 .. Len(s) /\ at(i) # j /\ r[i] = s[at(i)]
    BY <2>1, <2>2
  <2>4. IsInjective(r)
    <3>1. ASSUME NEW i \in 1 .. (Len(s) - 1), NEW k \in 1 .. (Len(s) - 1), r[i] = r[k]
          PROVE  i = k
      <4>1. at(i) = at(k)
        <5>. HIDE DEF at
        <5>. QED BY <2>2, <2>3, <3>1 DEF IsInjective
      <4>. QED BY <2>1, <2>2, <4>1
    <3>. QED BY <2>2, <3>1 DEF IsInjective
  <2>5. ToSet(r) \subseteq ToSet(s) \ {n}
    <3>1. ASSUME NEW i \in 1 .. (Len(s) - 1)
          PROVE  r[i] \in ToSet(s) \ {n}
      <4>. HIDE DEF at
      <4>. QED BY <2>1, <2>2, <2>3 DEF IsInjective, ToSet
    <3>. QED BY <2>2, <3>1 DEF ToSet
  <2>6. ToSet(s) \subseteq ToSet(r) \cup {n}
    BY DeletedSet DEF r
  <2>. QED BY <2>1, <2>4, <2>5, <2>6 DEF r
<1>2. CASE n \notin ToSet(s)
  <2>1. ~ \E i \in 1..Len(s) : s[i] = n
    BY <1>2 DEF ToSet
  <2>2. RemoveFirst(s, n) = s
    BY <2>1 DEF RemoveFirst
  <2>. QED BY <1>2, <2>2
<1>. QED BY <1>1, <1>2

\* Pushed in some order, each node of a set occurs once.
LEMMA OccursInOrder ==
  ASSUME NEW S, S \subseteq Nodes, NEW s \in SetToSeqs(S), NEW m
  PROVE  /\ s \in Seq(Nodes) /\ ToSet(s) = S /\ Occurs(s, m) \in Nat
         /\ Occurs(s, m) <= IF m \in S THEN 1 ELSE 0
<1>1. s \in Seq(Nodes) /\ ToSet(s) = S
  BY OrdersOf
<1>2. IsInjective(s)
  BY DEF SetToSeqs, IsInjective
<1>3. Occurs(s, m) \in Nat /\ (m \in ToSet(s) <=> Occurs(s, m) >= 1) /\ Occurs(s, m) <= 1
  BY <1>1, <1>2, OccursType, OccursOnce
<1>. QED BY <1>1, <1>3

-----------------------------------------------------------------------------
(* Joins that wait *)

\* Join m has a source outside V that X leads to.
Blocked(V, X, m) ==
  /\ Cardinality(In(m)) > 1
  /\ \E e \in In(m) : e.from \notin V /\ e.from \in Reach(X)

\* waitingOnOthers, in an acyclic graph: a source is still coming.
LEMMA WaitsForSource ==
  ASSUME graph.edges \subseteq Edge, Acyclic, NEW w, Pending(w) \in SUBSET Nodes, NEW m
  PROVE  WaitsOnOthers(w, m) <=> Blocked(w.visited, Pending(w), m)
<1>1. ASSUME NEW e \in In(m)
      PROVE  StillComing(w, e.from, m) <=> (e.from \notin w.visited /\ e.from \in Reach(Pending(w)))
  <2>1. e \in graph.edges /\ e.to = m
    BY DEF In
  <2>. QED BY <2>1, ComesWithoutJoin DEF StillComing, Pending
<1>. QED BY <1>1 DEF WaitsOnOthers, Blocked

\* A walk holds nodes only.
LEMMA PendingAreNodes ==
  ASSUME NEW w \in Walk
  PROVE  Pending(w) \in SUBSET Nodes /\ w.stack \in Seq(Nodes) /\ w.deferred \in Seq(Nodes)
<1>1. w.stack \in Seq(Nodes) /\ w.deferred \in Seq(Nodes)
  BY DEF Walk
<1>. QED BY <1>1 DEF Pending, ToSet

\* A deferred join that is looked at goes on the stack unless a source is still coming.
LEMMA TriedJoins ==
  ASSUME graph.edges \subseteq Edge, Acyclic, NEW w \in Walk, IsInjective(w.deferred), NEW n \in Nodes
  PROVE  LET t == Tried(w, n)
         IN /\ Blocked(w.visited, Pending(w), n) => t = w
            /\ ~Blocked(w.visited, Pending(w), n) =>
                 /\ IsInjective(t.deferred) /\ ToSet(t.deferred) = ToSet(w.deferred) \ {n}
                 /\ t.stack = Append(w.stack, n)
<1>0. Pending(w) \in SUBSET Nodes /\ w.stack \in Seq(Nodes) /\ w.deferred \in Seq(Nodes)
  BY PendingAreNodes
<1>1. WaitsOnOthers(w, n) <=> Blocked(w.visited, Pending(w), n)
  BY <1>0, WaitsForSource
<1>2. CASE WaitsOnOthers(w, n)
  BY <1>1, <1>2 DEF Tried
<1>3. CASE ~WaitsOnOthers(w, n)
  <2>. DEFINE d == RemoveFirst(w.deferred, n)
              p == Append(w.stack, n)
  <2>1. Tried(w, n) = [w EXCEPT !.deferred = d, !.stack = p]
    BY <1>3 DEF Tried
  <2>2. d \in Seq(Nodes) /\ IsInjective(d) /\ ToSet(d) = ToSet(w.deferred) \ {n}
    BY <1>0, DeletedOnce
  <2>. HIDE DEF d, p
  <2>3. Tried(w, n).deferred = d /\ Tried(w, n).stack = p
    BY <2>1 DEF Walk
  <2>. QED BY <1>1, <1>3, <2>2, <2>3 DEF p
<1>. QED BY <1>2, <1>3

\* releaseReady keeps the joins with a source still coming, and pushes none of those.
LEMMA ReleasedJoins ==
  ASSUME graph.edges \subseteq Edge, Acyclic, NEW w \in Walk, IsInjective(w.deferred)
  PROVE  LET r == Released(w)
         IN /\ IsInjective(r.deferred) /\ ToSet(r.deferred) \subseteq ToSet(w.deferred)
            /\ \A m \in ToSet(r.deferred) : Blocked(w.visited, Pending(w), m)
            /\ \A m : Blocked(w.visited, Pending(w), m) => Occurs(r.stack, m) = Occurs(w.stack, m)
<1>. DEFINE s == w.deferred
            n == Len(s)
            V == w.visited
            X == Pending(w)
<1>1. /\ n \in Nat /\ \A i \in 1..n : s[i] \in Nodes /\ s[i] \in X
      /\ \A m \in ToSet(s) : \E i \in 1..n : m = s[i]
  BY DEF Walk, Pending, ToSet
<1>2. PICK after : /\ after \in [0..n -> Walk] /\ after[0] = w /\ Released(w) = after[n]
                   /\ \A i \in 1..n : after[i] = Tried(after[i - 1], s[i])
  BY ReleaseStages
<1>. DEFINE same(v) == v.visited = V /\ Pending(v) = X
            left(v, i) == /\ IsInjective(v.deferred) /\ ToSet(v.deferred) \subseteq ToSet(s)
                          /\ \A j \in 1..i : s[j] \in ToSet(v.deferred) => Blocked(V, X, s[j])
            pushed(v) == \A m : Blocked(V, X, m) => Occurs(v.stack, m) = Occurs(w.stack, m)
            ok(i) == same(after[i]) /\ left(after[i], i) /\ pushed(after[i])
            S == {i \in 0..n : ok(i)}
<1>3. IsInjective(s)
  OBVIOUS
<1>. HIDE DEF s, n
<1>4. 0 \in S
  BY <1>1, <1>2, <1>3 DEF s
<1>5. ASSUME NEW i \in 1..n, i - 1 \in S
      PROVE  i \in S
  <2>. DEFINE v == after[i - 1]
              t == after[i]
  <2>1. /\ ok(i - 1) /\ i \in 0..n /\ v \in Walk /\ t = Tried(v, s[i]) /\ s[i] \in Nodes /\ s[i] \in X
        /\ i - 1 \in 0..n /\ \A j \in 1..i : j = i \/ j \in 1..(i - 1)
    BY <1>1, <1>2, <1>5
  <2>2. same(v) /\ left(v, i - 1) /\ pushed(v)
    BY <2>1
  <2>. HIDE DEF v, t
  <2>3. same(t)
    <3>1. /\ Agree(t, v) /\ Pending(v) \subseteq Pending(t) /\ Pending(t) \subseteq Pending(v) \cup {s[i]}
      BY <2>1, TriedKeeps
    <3>. HIDE DEF V, X
    <3>. QED BY <2>1, <2>2, <3>1 DEF Agree
  <2>4. /\ Blocked(V, X, s[i]) => t = v
        /\ ~Blocked(V, X, s[i]) =>
             /\ IsInjective(t.deferred) /\ ToSet(t.deferred) = ToSet(v.deferred) \ {s[i]}
             /\ t.stack = Append(v.stack, s[i])
    <3>. HIDE DEF V, X
    <3>. QED BY <2>1, <2>2, TriedJoins
  <2>. HIDE DEF V, X
  <2>5. left(t, i)
    BY <2>1, <2>2, <2>4
  <2>6. pushed(t)
    <3>1. ASSUME NEW m, Blocked(V, X, m)
          PROVE  Occurs(t.stack, m) = Occurs(v.stack, m)
      <4>1. CASE Blocked(V, X, s[i])
        BY <2>4, <4>1
      <4>2. CASE ~Blocked(V, X, s[i])
        <5>1. m # s[i] /\ t.stack = Append(v.stack, s[i])
          BY <2>4, <3>1, <4>2
        <5>2. v.stack \in Seq(Nodes)
          BY <2>1, PendingAreNodes
        <5>. QED BY <2>1, <5>1, <5>2, OccursAppended
      <4>. QED BY <4>1, <4>2
    <3>. QED BY <2>2, <3>1
  <2>. QED BY <2>1, <2>3, <2>5, <2>6 DEF t
<1>6. 0..n \subseteq S
  <2>. HIDE DEF S
  <2>. QED BY <1>1, <1>4, <1>5, BoundedInduction
<1>7. ok(n)
  BY <1>1, <1>6
<1>8. \A m \in ToSet(after[n].deferred) : Blocked(V, X, m)
  <2>1. left(after[n], n)
    BY <1>7
  <2>. HIDE DEF V, X
  <2>. QED BY <1>1, <2>1
<1>. QED BY <1>2, <1>7, <1>8 DEF s

-----------------------------------------------------------------------------
(* Why joins wait: the invariant.  As long as no transition out of a node   *)
(* that ran was left untaken, a node runs after all its sources that are to *)
(* run at all.                                                              *)

\* Where the run goes from here: what is pending, and what a decision may lead to.
Ahead(w) == Pending(w) \cup Targets(Out(w.waiting))
Coming(w) == Reach(Ahead(w))

\* A transition out of a node that ran was not taken, and its target will not be reached.
CutOff(w, done) ==
  \E e \in graph.edges :
    /\ e.from \in w.visited /\ e.from # w.waiting
    /\ e.to \notin done /\ e.to \notin Coming(w)

\* A visited node is behind all its sources that are still to come.
SourcesFirst(w) ==
  \A e \in graph.edges : e.to \in w.visited => e.from \in w.visited \/ e.from \notin Coming(w)

\* A deferred join has a source that did not run, though the run leads or led to it.
Held(w) ==
  \A m \in ToSet(w.deferred) :
    \E e \in In(m) : e.from \notin w.visited /\ e.from \in Reach(Pending(w) \cup w.visited)

\* The sources of m that pushed it.
Pushers(w, m) == {s \in w.visited \ {w.waiting} : \E e \in In(m) : e.from = s}

\* A join whose sources are coming was not released, so each time it was deferred, and
\* each time it is on the stack, a source pushed it, or the start of the run.
Counted(w) ==
  \A m \in Nodes :
    Blocked(w.visited, Ahead(w), m) =>
      w.deferCount[m] + Occurs(w.stack, m) <= Cardinality(Pushers(w, m)) + 1

\* A join is deferred at most once at a time, and was counted when it was.
DeferredOnce(w) ==
  IsInjective(w.deferred) /\ \A m \in ToSet(w.deferred) : w.deferCount[m] >= 1

\* Whatever is pending, a visited node or a trigger led to it.
Led(w) ==
  \A n \in Pending(w) :
    \E e \in In(n) : e.from \in w.visited \/ graph.type[e.from] = "trigger"

\* A run that waits has entered the node, saved its joins, and run nothing behind it.
Position(w) ==
  /\ w.status = "running" => w.waiting = NoNode
  /\ w.status = "waiting_approval" =>
       /\ w.waiting \in w.visited /\ w.deferred = <<>>
       /\ Targets(Out(w.waiting)) \cap w.visited = {}

\* What holds of a walk with nothing cut off.
OnTrack(w) ==
  /\ SourcesFirst(w) /\ Held(w) /\ Counted(w) /\ DeferredOnce(w) /\ Led(w) /\ Position(w)
  /\ w.forced = {}

\* Unless something is cut off, no step that ran was led to again.
JoinsInOrder(w, done, again) ==
  \/ CutOff(w, done)
  \/ again = {} /\ (w.status \in {"running", "waiting_approval"} => OnTrack(w))

\* The client's editor draws no transition into a trigger.
NoneIntoTriggers == \A e \in graph.edges : graph.type[e.to] # "trigger"

\* The invariant of a run of an acyclic graph in which no step repeats.
Straight == EngineInv /\ NoneIntoTriggers /\ Acyclic /\ ~Repeats

-----------------------------------------------------------------------------
(* What the steps of a walk leave of what is still coming                   *)

\* What is ahead of a walk are nodes, and it comes.
LEMMA AheadComes ==
  ASSUME graph.edges \subseteq Edge, NEW w \in Walk
  PROVE  /\ Ahead(w) \in SUBSET Nodes /\ Pending(w) \in SUBSET Nodes /\ Ahead(w) \subseteq Coming(w)
         /\ w.visited \subseteq Nodes /\ w.deferCount \in [Nodes -> Nat]
         /\ w.waiting = NoNode => Ahead(w) = Pending(w)
         /\ \A e \in graph.edges : e.from \in Coming(w) => e.to \in Coming(w)
<1>1. Pending(w) \in SUBSET Nodes /\ Targets(Out(w.waiting)) \in SUBSET Nodes
  BY PendingAreNodes DEF Targets, Out, Edge
<1>2. w.waiting = NoNode => Targets(Out(w.waiting)) = {}
  BY NodesAssumption DEF Targets, Out, Edge
<1>3. Ahead(w) \in SUBSET Nodes
  BY <1>1 DEF Ahead
<1>. QED BY <1>1, <1>2, <1>3, ReachFacts DEF Ahead, Coming, Walk

\* A walk that goes on in what was coming finds nothing more there.
LEMMA ComingShrinks ==
  ASSUME graph.edges \subseteq Edge, NEW w \in Walk, NEW v \in Walk, Ahead(v) \subseteq Coming(w)
  PROVE  Coming(v) \subseteq Coming(w)
BY AheadComes, ReachGrows DEF Coming

\* Nor is a join blocked that was not.
LEMMA BlockedFades ==
  ASSUME graph.edges \subseteq Edge, NEW w \in Walk, NEW v \in Walk, Ahead(v) \subseteq Coming(w),
         w.visited \subseteq v.visited, NEW m, Blocked(v.visited, Ahead(v), m)
  PROVE  Blocked(w.visited, Ahead(w), m)
BY ComingShrinks DEF Blocked, Coming

\* One step of a walk, whatever it is, goes on in what was coming.
Onward ==
  /\ walk' \in Walk /\ Ahead(walk') \subseteq Coming(walk) /\ walk.visited \subseteq walk'.visited
  /\ reached' \subseteq reached \cup Coming(walk)
  /\ walk'.waiting = walk.waiting \/ walk'.waiting \notin walk.visited

\* What is cut off stays so.
LEMMA CutStays ==
  ASSUME graph.edges \subseteq Edge, walk \in Walk, Onward, CutOff(walk, reached)
  PROVE  CutOff(walk', reached')
<1>1. PICK e \in graph.edges : /\ e.from \in walk.visited /\ e.from # walk.waiting
                               /\ e.to \notin reached /\ e.to \notin Coming(walk)
  BY DEF CutOff
<1>2. Coming(walk') \subseteq Coming(walk)
  BY ComingShrinks DEF Onward
<1>3. e.from \in walk'.visited /\ e.from # walk'.waiting /\ e.to \notin reached' /\ e.to \notin Coming(walk')
  BY <1>1, <1>2 DEF Onward
<1>. QED BY <1>3 DEF CutOff

\* Without pauses, a taken transition led to a node that was visited or is pending.
LEMMA ReachedOrPending ==
  ASSUME Straight
  PROVE  /\ graph.edges \subseteq Edge /\ walk \in Walk /\ TypeOK /\ walk.join = NoNode
         /\ reached \subseteq walk.visited \cup Pending(walk)
<1>1. NoPauses /\ TypeOK
  BY DEF Straight, EngineInv, Repeats, NoPauses
<1>2. \A n \in Nodes : ran[n] > 0 => n \in walk.visited
  BY DEF Straight, EngineInv, MarkedOnce
<1>3. reached \subseteq Nodes
  BY <1>1 DEF TypeOK
<1>4. reached \subseteq walk.visited \cup Pending(walk)
  BY <1>1, <1>2, <1>3 DEF Straight, EngineInv, Owed
<1>. QED BY <1>1, <1>4 DEF TypeOK, Straight, EngineInv, MarkedOnce

\* Nobody comes to a trigger.
LEMMA NobodyToTriggers ==
  ASSUME Straight, Led(walk)
  PROVE  \A n \in Coming(walk) : graph.type[n] # "trigger"
<1>1. graph.edges \subseteq Edge /\ walk \in Walk
  BY ReachedOrPending
<1>2. Ahead(walk) \subseteq Targets(graph.edges)
  BY DEF Led, Ahead, Targets, In, Out
<1>3. Closed(Targets(graph.edges), graph.edges)
  BY DEF Closed, Targets
<1>4. Coming(walk) \subseteq Targets(graph.edges)
  BY <1>1, <1>2, <1>3, AheadComes, ReachFacts DEF Coming
<1>. QED BY <1>4 DEF Straight, NoneIntoTriggers, Targets

\* When only deferred joins are left, some transition was not taken: of the joins, take one
\* that the others do not lead to.  Its source cannot come any more, so the way to it is cut.
LEMMA RunsDry ==
  ASSUME Straight, OnTrack(walk), walk.status = "running", walk.stack = <<>>, walk.deferred # <<>>
  PROVE  CutOff(walk, reached)
<1>. DEFINE D == ToSet(walk.deferred)
            V == walk.visited
<1>1. graph.edges \subseteq Edge /\ walk \in Walk /\ Acyclic /\ reached \subseteq V \cup Pending(walk)
  BY ReachedOrPending DEF Straight
<1>2. walk.waiting = NoNode /\ Ahead(walk) = Pending(walk)
  BY <1>1, AheadComes DEF OnTrack, Position
<1>3. Pending(walk) = D /\ D \in SUBSET Nodes /\ D # {} /\ V \in SUBSET Nodes
  <2>1. ToSet(<<>>) = {}
    BY DEF ToSet
  <2>2. walk.deferred \in Seq(Nodes)
    BY <1>1 DEF Walk
  <2>3. D # {}
    <3>1. Len(walk.deferred) \in Nat /\ Len(walk.deferred) # 0
      BY <2>2
    <3>2. 1 \in DOMAIN walk.deferred
      BY <2>2, <3>1
    <3>. QED BY <3>2 DEF ToSet
  <2>. QED BY <1>1, <2>1, <2>3, AheadComes DEF Pending
<1>. HIDE DEF D
<1>4. PICK m \in D : \A k \in D \ {m} : m \notin Reach({k})
  BY <1>1, <1>3, FirstOfSome
<1>5. PICK e \in In(m) : e.from \notin V /\ e.from \in Reach(D \cup V)
  BY <1>3 DEF OnTrack, Held, D
<1>6. e \in graph.edges /\ e.to = m /\ e.from \in Nodes
  BY <1>1, <1>5 DEF In, Edge
<1>7. e.from \notin Reach(D)
  <2>1. ASSUME NEW k \in D, e.from \in Reach({k})
        PROVE  FALSE
    <3>1. m \in Reach({k})
      BY <1>1, <1>3, <1>6, <2>1, ReachFacts
    <3>2. k = m
      BY <1>4, <3>1
    <3>. QED BY <1>1, <1>6, <2>1, <3>2, NoWayBack
  <2>. DEFINE Z == UNION {Reach({k}) : k \in D}
  <2>2. D \subseteq Z /\ Closed(Z, graph.edges)
    <3>1. \A k \in D : {k} \in SUBSET Nodes
      BY <1>3
    <3>2. \A k \in D : k \in Reach({k})
      BY <1>1, <3>1, ReachFacts
    <3>3. \A k \in D, f \in graph.edges : f.from \in Reach({k}) => f.to \in Reach({k})
      BY <1>1, <3>1, ReachFacts
    <3>. QED BY <3>2, <3>3 DEF Closed
  <2>3. Reach(D) \subseteq Z
    <3>. HIDE DEF Z
    <3>. QED BY <1>1, <1>3, <2>2, ReachFacts
  <2>. QED BY <2>1, <2>3
<1>8. \E f \in graph.edges : f.from \in V /\ f.to \notin V /\ f.to \notin Reach(D)
  <2>. SUFFICES ASSUME \A f \in graph.edges : f.from \in V => f.to \in V \/ f.to \in Reach(D)
       PROVE  FALSE
    OBVIOUS
  <2>1. Closed(V \cup Reach(D), graph.edges)
    BY <1>1, <1>3, ReachFacts DEF Closed
  <2>2. D \cup V \subseteq V \cup Reach(D)
    BY <1>1, <1>3, ReachFacts
  <2>3. Reach(D \cup V) \subseteq V \cup Reach(D)
    <3>1. D \cup V \in SUBSET Nodes
      BY <1>3
    <3>. HIDE DEF V
    <3>. QED BY <1>1, <2>1, <2>2, <3>1, ReachFacts
  <2>. QED BY <1>5, <1>7, <2>3
<1>9. PICK f \in graph.edges : f.from \in V /\ f.to \notin V /\ f.to \notin Reach(D)
  BY <1>8
<1>10. f.to \notin D
  BY <1>1, <1>3, <1>9, ReachFacts
<1>11. f.from # NoNode
  BY <1>3, <1>9, NodesAssumption
<1>. QED BY <1>1, <1>2, <1>3, <1>9, <1>10, <1>11 DEF CutOff, Coming

-----------------------------------------------------------------------------
(* Every step keeps the joins in order *)

\* On track, an iteration pops the stack: joins were not forced.
LEMMA PopsStack ==
  ASSUME Straight, OnTrack(walk), ~CutOff(walk, reached), Running
  PROVE  /\ walk.status = "running" /\ walk.stack # <<>> /\ Top = Last(walk.stack)
         /\ Popped \in Walk /\ Popped.stack = Front(walk.stack) /\ Popped.deferred = walk.deferred
         /\ Popped.visited = walk.visited /\ Popped.forced = {} /\ Popped.deferCount = walk.deferCount
         /\ Popped.waiting = NoNode /\ Popped.status = "running"
         /\ Top \in Nodes /\ Pending(walk) = Pending(Popped) \cup {Top} /\ Ahead(walk) = Pending(walk)
<1>1. TypeOK /\ walk \in Walk /\ graph.edges \subseteq Edge
  BY ReachedOrPending
<1>2. walk.status = "running" /\ walk.waiting = NoNode /\ walk.forced = {}
  BY DEF Running, OnTrack, Position
<1>3. walk.stack # <<>>
  <2>. SUFFICES ASSUME walk.stack = <<>>
       PROVE  FALSE
    OBVIOUS
  <2>1. Loaded = [walk EXCEPT !.stack = walk.deferred, !.deferred = <<>>,
                              !.forced = @ \cup ToSet(walk.deferred)]
    BY DEF Loaded
  <2>2. walk.deferred # <<>>
    BY <1>1, <2>1 DEF Running, Walk
  <2>. QED BY <1>2, <2>2, RunsDry
<1>4. Loaded = walk
  BY <1>3 DEF Loaded
<1>5. Popped \in Walk /\ Agree(Popped, walk) /\ Top \in Nodes /\ Pending(walk) = Pending(Popped) \cup {Top}
  BY <1>1, PoppedKeeps
<1>6. /\ Popped.stack = Front(walk.stack) /\ Popped.deferred = walk.deferred
      /\ Popped.forced = walk.forced /\ Popped.deferCount = walk.deferCount
  BY <1>1, <1>4 DEF Popped, Walk
<1>7. Top = Last(walk.stack)
  BY <1>4 DEF Top
<1>8. Ahead(walk) = Pending(walk)
  BY <1>1, <1>2, AheadComes
<1>. QED BY <1>2, <1>3, <1>5, <1>6, <1>7, <1>8 DEF Agree

\* A node that was visited already is dropped: nothing changes for the joins.
LEMMA SkipInOrder ==
  ASSUME Straight, JoinsInOrder(walk, reached, late), Skip
  PROVE  JoinsInOrder(walk', reached', late')
<1>1. graph.edges \subseteq Edge /\ walk \in Walk /\ TypeOK
  BY ReachedOrPending
<1>2. walk' = Popped /\ Running /\ Top \in Popped.visited /\ reached' = reached /\ late' = late
  BY DEF Skip
<1>3. /\ walk' \in Walk /\ Agree(walk', walk) /\ Top \in walk.visited
      /\ Pending(walk) = Pending(walk') \cup {Top}
  BY <1>1, <1>2, PoppedKeeps DEF Agree
<1>4. Ahead(walk') \subseteq Ahead(walk)
  BY <1>3 DEF Ahead, Agree
<1>5. Onward
  BY <1>1, <1>2, <1>3, <1>4, AheadComes DEF Onward, Agree
<1>6. CASE CutOff(walk, reached)
  BY <1>1, <1>5, <1>6, CutStays DEF JoinsInOrder
<1>7. CASE ~CutOff(walk, reached)
  <2>1. late = {} /\ OnTrack(walk) /\ walk.status = "running"
    BY <1>2, <1>7 DEF JoinsInOrder, Running
  <2>2. /\ walk.stack # <<>> /\ walk'.stack = Front(walk.stack) /\ walk'.deferred = walk.deferred
        /\ walk'.visited = walk.visited /\ walk'.forced = {} /\ walk'.deferCount = walk.deferCount
        /\ walk'.waiting = NoNode /\ walk'.status = "running" /\ walk.waiting = NoNode
    BY <1>2, <1>7, <2>1, PopsStack DEF OnTrack, Position
  <2>3. Coming(walk') \subseteq Coming(walk)
    BY <1>1, <1>5, ComingShrinks DEF Onward
  <2>4. SourcesFirst(walk')
    BY <2>1, <2>2, <2>3 DEF OnTrack, SourcesFirst
  <2>5. Held(walk')
    <3>1. Pending(walk') \cup walk'.visited = Pending(walk) \cup walk.visited
      BY <1>3, <2>2
    <3>. QED BY <2>1, <2>2, <3>1 DEF OnTrack, Held
  <2>6. Counted(walk')
    <3>. SUFFICES ASSUME NEW m \in Nodes, Blocked(walk'.visited, Ahead(walk'), m)
         PROVE  walk'.deferCount[m] + Occurs(walk'.stack, m) <= Cardinality(Pushers(walk', m)) + 1
      BY DEF Counted
    <3>1. Blocked(walk.visited, Ahead(walk), m)
      BY <1>1, <1>5, BlockedFades DEF Onward
    <3>2. walk.deferCount[m] + Occurs(walk.stack, m) <= Cardinality(Pushers(walk, m)) + 1
      BY <2>1, <3>1 DEF OnTrack, Counted
    <3>3. Pushers(walk', m) = Pushers(walk, m)
      BY <2>2 DEF Pushers
    <3>4. /\ Occurs(walk'.stack, m) \in Nat /\ Occurs(walk.stack, m) \in Nat /\ walk.deferCount[m] \in Nat
          /\ Occurs(walk'.stack, m) <= Occurs(walk.stack, m)
      <4>1. walk.stack \in Seq(Nodes) /\ walk.deferCount[m] \in Nat
        BY <1>1 DEF Walk
      <4>. QED BY <2>2, <4>1, OccursPopped, OccursType
    <3>5. Cardinality(Pushers(walk, m)) \in Nat
      BY <1>1, AheadComes, NodesAssumption, FS_Subset, FS_CardinalityType DEF Pushers
    <3>. QED BY <2>2, <3>2, <3>3, <3>4, <3>5
  <2>7. DeferredOnce(walk') /\ Position(walk')
    BY <2>1, <2>2 DEF OnTrack, DeferredOnce, Position
  <2>8. Led(walk')
    BY <1>3, <2>1, <2>2 DEF OnTrack, Led
  <2>. QED BY <1>2, <2>1, <2>2, <2>4, <2>5, <2>6, <2>7, <2>8 DEF JoinsInOrder, OnTrack
<1>. QED BY <1>6, <1>7

\* A join that is put off goes from the stack to the deferred joins, and is counted.
LEMMA DeferInOrder ==
  ASSUME Straight, JoinsInOrder(walk, reached, late), Defer
  PROVE  JoinsInOrder(walk', reached', late')
<1>1. graph.edges \subseteq Edge /\ walk \in Walk /\ TypeOK /\ Acyclic
  BY ReachedOrPending DEF Straight
<1>2. Running /\ Top \notin Popped.visited /\ MayDefer(Top) /\ reached' = reached /\ late' = late
  BY DEF Defer
<1>3. walk' \in Walk /\ Agree(walk', walk) /\ Pending(walk') = Pending(walk)
  BY <1>1, DeferKeeps
<1>4. Ahead(walk') = Ahead(walk)
  BY <1>3 DEF Ahead, Agree
<1>5. Onward
  BY <1>1, <1>2, <1>3, <1>4, AheadComes DEF Onward, Agree
<1>6. CASE CutOff(walk, reached)
  BY <1>1, <1>5, <1>6, CutStays DEF JoinsInOrder
<1>7. CASE ~CutOff(walk, reached)
  <2>1. late = {} /\ OnTrack(walk) /\ walk.status = "running"
    BY <1>2, <1>7 DEF JoinsInOrder, Running
  <2>2. /\ walk.stack # <<>> /\ Top = Last(walk.stack) /\ Top \in Nodes
        /\ Popped \in Walk /\ Popped.stack = Front(walk.stack) /\ Popped.deferred = walk.deferred
        /\ Popped.visited = walk.visited /\ Popped.forced = {} /\ Popped.deferCount = walk.deferCount
        /\ walk.waiting = NoNode /\ Pending(walk) = Pending(Popped) \cup {Top}
    BY <1>2, <1>7, <2>1, PopsStack DEF OnTrack, Position
  <2>. DEFINE d == IF Contains(walk.deferred, Top) THEN walk.deferred ELSE Append(walk.deferred, Top)
              c == [walk.deferCount EXCEPT ![Top] = @ + 1]
  <2>3. walk' = [Popped EXCEPT !.deferred = d, !.deferCount = c]
    BY <2>2 DEF Defer, Walk
  <2>4. walk.deferCount \in [Nodes -> Nat] /\ walk.stack \in Seq(Nodes) /\ walk.deferred \in Seq(Nodes)
    BY <1>1 DEF Walk
  <2>5. c[Top] = walk.deferCount[Top] + 1 /\ \A m \in Nodes \ {Top} : c[m] = walk.deferCount[m]
    BY <2>2, <2>4
  <2>6. IsInjective(d) /\ ToSet(d) = ToSet(walk.deferred) \cup {Top}
    <3>0. IsInjective(walk.deferred)
      BY <2>1 DEF OnTrack, DeferredOnce
    <3>1. CASE Contains(walk.deferred, Top)
      BY <2>4, <3>0, <3>1 DEF Contains, ToSet
    <3>2. CASE ~Contains(walk.deferred, Top)
      <4>1. d = Append(walk.deferred, Top) /\ ToSet(d) = ToSet(walk.deferred) \cup {Top}
        BY <2>2, <2>4, <3>2, AppendedSet
      <4>. DEFINE s == walk.deferred
      <4>2. /\ Len(s) \in Nat /\ DOMAIN d = 1 .. (Len(s) + 1) /\ d[Len(s) + 1] = Top
            /\ \A i \in 1 .. Len(s) : d[i] = s[i] /\ s[i] # Top
        <5>1. \A i \in 1 .. Len(s) : s[i] # Top
          BY <2>4, <3>2 DEF Contains
        <5>2. /\ Append(s, Top) \in Seq(Nodes) /\ Len(Append(s, Top)) = Len(s) + 1
              /\ \A i \in 1..Len(s) : Append(s, Top)[i] = s[i]
              /\ Append(s, Top)[Len(s) + 1] = Top
          BY <2>2, <2>4, AppendProperties
        <5>. QED BY <2>4, <4>1, <5>1, <5>2
      <4>3. \A i, j \in 1 .. Len(s) : s[i] = s[j] => i = j
        BY <2>4, <3>0 DEF IsInjective
      <4>4. IsInjective(d)
        <5>. HIDE DEF d, s
        <5>1. ASSUME NEW i \in 1 .. (Len(s) + 1), NEW j \in 1 .. (Len(s) + 1), d[i] = d[j]
              PROVE  i = j
          <6>1. i \in 1 .. Len(s) \/ i = Len(s) + 1
            BY <4>2
          <6>2. j \in 1 .. Len(s) \/ j = Len(s) + 1
            BY <4>2
          <6>. QED BY <4>2, <4>3, <5>1, <6>1, <6>2
        <5>. QED BY <4>2, <5>1 DEF IsInjective
      <4>. QED BY <4>1, <4>4
    <3>. QED BY <3>1, <3>2
  <2>. HIDE DEF d, c
  <2>7. /\ walk'.stack = Front(walk.stack) /\ walk'.deferred = d /\ walk'.visited = walk.visited
        /\ walk'.forced = {} /\ walk'.deferCount = c /\ walk'.waiting = NoNode /\ walk'.status = "running"
    BY <1>3, <2>1, <2>2, <2>3 DEF Walk, Agree
  <2>8. SourcesFirst(walk')
    BY <1>4, <2>1, <2>7 DEF OnTrack, SourcesFirst, Coming
  <2>9. Held(walk')
    <3>1. ASSUME NEW m \in ToSet(walk.deferred)
          PROVE  \E e \in In(m) : e.from \notin walk'.visited /\ e.from \in Reach(Pending(walk') \cup walk'.visited)
      BY <1>3, <2>1, <2>7 DEF OnTrack, Held
    <3>2. \E e \in In(Top) : e.from \notin walk'.visited /\ e.from \in Reach(Pending(walk') \cup walk'.visited)
      <4>1. Pending(Popped) \in SUBSET Nodes
        BY <2>2, PendingAreNodes
      <4>2. Blocked(walk.visited, Pending(Popped), Top)
        BY <1>1, <1>2, <2>2, <4>1, WaitsForSource DEF MayDefer
      <4>3. Pending(walk') \cup walk.visited \in SUBSET Nodes
        BY <1>1, <1>3, AheadComes
      <4>4. Reach(Pending(Popped)) \subseteq Reach(Pending(walk') \cup walk.visited)
        <5>1. Pending(Popped) \subseteq Reach(Pending(walk') \cup walk.visited)
          BY <1>1, <1>3, <2>2, <4>3, ReachFacts
        <5>. QED BY <1>1, <4>1, <4>3, <5>1, ReachGrows
      <4>. QED BY <2>7, <4>2, <4>4 DEF Blocked
    <3>. QED BY <2>6, <2>7, <3>1, <3>2 DEF Held
  <2>10. Counted(walk')
    <3>. SUFFICES ASSUME NEW m \in Nodes, Blocked(walk'.visited, Ahead(walk'), m)
         PROVE  walk'.deferCount[m] + Occurs(walk'.stack, m) <= Cardinality(Pushers(walk', m)) + 1
      BY DEF Counted
    <3>1. walk.deferCount[m] + Occurs(walk.stack, m) <= Cardinality(Pushers(walk, m)) + 1
      BY <1>4, <2>1, <2>7 DEF OnTrack, Counted
    <3>2. Pushers(walk', m) = Pushers(walk, m)
      BY <2>2, <2>7 DEF Pushers
    <3>3. /\ Occurs(walk'.stack, m) \in Nat /\ Occurs(walk.stack, m) \in Nat /\ walk.deferCount[m] \in Nat
          /\ Occurs(walk'.stack, m) = Occurs(walk.stack, m) - (IF m = Top THEN 1 ELSE 0)
      BY <2>2, <2>4, <2>7, OccursPopped, OccursType
    <3>4. walk'.deferCount[m] = walk.deferCount[m] + (IF m = Top THEN 1 ELSE 0)
      BY <2>4, <2>5, <2>7
    <3>5. walk'.deferCount[m] + Occurs(walk'.stack, m) = walk.deferCount[m] + Occurs(walk.stack, m)
      BY <3>3, <3>4
    <3>. QED BY <3>1, <3>2, <3>5
  <2>11. DeferredOnce(walk')
    <3>1. ASSUME NEW m \in ToSet(d)
          PROVE  c[m] >= 1
      <4>1. CASE m = Top
        BY <2>2, <2>4, <2>5, <4>1
      <4>2. CASE m # Top
        <5>0. ToSet(walk.deferred) \subseteq Nodes
          BY <2>4 DEF ToSet
        <5>1. m \in ToSet(walk.deferred) /\ m \in Nodes
          BY <2>6, <3>1, <4>2, <5>0
        <5>. QED BY <2>1, <2>5, <4>2, <5>1 DEF OnTrack, DeferredOnce
      <4>. QED BY <4>1, <4>2
    <3>. QED BY <2>6, <2>7, <3>1 DEF DeferredOnce
  <2>12. Led(walk') /\ Position(walk')
    BY <1>3, <2>1, <2>7 DEF OnTrack, Led, Position
  <2>. QED BY <1>2, <2>1, <2>7, <2>8, <2>9, <2>10, <2>11, <2>12 DEF JoinsInOrder, OnTrack
<1>. QED BY <1>6, <1>7

\* What a visit of n does, when nothing repeats: it goes on, stops for a person, or fails.
Moves(n, w) ==
  \/ \E next \in SUBSET Targets(Out(n)) : GoesOn(w, next)
  \/ Stops(n, Saved(w))
  \/ walk' = [w EXCEPT !.status = "failed"] /\ UNCHANGED <<reached, late>>

\* Pauses and held fan-outs aside, and with no join to open, the node types come to that.
LEMMA VisitForms ==
  ASSUME Straight, NEW n, VisitsOne(n)
  PROVE  (\E types : Visits(n, types)) /\ Moves(n, Entered(Popped, n))
<1>. DEFINE w == Entered(Popped, n)
<1>1. PICK types : Visits(n, types)
  BY DEF VisitsOne, Condition, Act, End, Pause, Approval, Signal, FanOut, Fail
<1>2. w.join = NoNode /\ n \in Nodes /\ graph.type[n] \notin {"pause", "hold"}
  <2>1. w.join = walk.join /\ n \in Nodes /\ walk.join = NoNode
    BY <1>1, ReachedOrPending, EntersTop
  <2>. QED BY <2>1 DEF Straight, Repeats
<1>3. \A outcome : Followable(n, outcome) \in SUBSET Targets(Out(n))
  BY DEF Followable, Targets
<1>. HIDE DEF w
<1>4. CASE Condition(n) \/ Act(n) \/ End(n)
  <2>1. \E next \in SUBSET Targets(Out(n)) : GoesOn(w, next)
    BY <1>3, <1>4 DEF Condition, Act, End, Taken, w
  <2>. QED BY <1>1, <2>1 DEF Moves, w
<1>5. CASE Approval(n)
  BY <1>1, <1>3, <1>5 DEF Approval, Moves, w
<1>6. CASE Signal(n)
  <2>1. GoesOn(w, Followable(n, "default"))
    BY <1>2, <1>6 DEF Signal, w
  <2>. QED BY <1>1, <1>3, <2>1 DEF Moves, w
<1>7. CASE Fail(n)
  BY <1>1, <1>7 DEF Fail, Moves, w
<1>8. ~Pause(n) /\ ~FanOut(n)
  BY <1>2 DEF Pause, FanOut, Visits
<1>. QED BY <1>4, <1>5, <1>6, <1>7, <1>8 DEF VisitsOne

\* What the walk is once n is entered.
LEMMA EnteredWalk ==
  ASSUME Straight, NEW n, NEW types, Visits(n, types)
  PROVE  LET w == Entered(Popped, n)
         IN /\ n = Top /\ n \in Nodes /\ n \notin walk.visited /\ Running /\ ~MayDefer(n)
            /\ w \in Walk /\ w.visited = walk.visited \cup {n} /\ w.status = "running" /\ w.waiting = walk.waiting
            /\ Pending(w) \subseteq Pending(walk) /\ Pending(walk) \subseteq Pending(w) \cup {n} /\ n \in Pending(walk)
<1>1. TypeOK /\ Running /\ n = Top /\ ~MayDefer(n) /\ walk.status = "running"
  BY ReachedOrPending DEF Visits, Running
<1>2. Popped \in Walk /\ Agree(Popped, walk) /\ n \in Nodes /\ Pending(walk) = Pending(Popped) \cup {n}
  BY <1>1, PoppedKeeps
<1>3. /\ Entered(Popped, n).waiting = Popped.waiting /\ Pending(Entered(Popped, n)) \subseteq Pending(Popped)
  BY <1>2, EnteredKeeps
<1>. QED BY <1>1, <1>2, <1>3, EntersTop DEF Agree

\* A visit goes on in what was coming.
LEMMA VisitOnward ==
  ASSUME Straight, NEW n, VisitsOne(n)
  PROVE  Onward
<1>. DEFINE w == Entered(Popped, n)
<1>1. PICK types : Visits(n, types)
  BY VisitForms
<1>2. Moves(n, w) /\ graph.edges \subseteq Edge /\ walk \in Walk
  BY VisitForms, ReachedOrPending
<1>3. /\ n \in Nodes /\ n \notin walk.visited /\ n \in Pending(walk)
      /\ w \in Walk /\ w.visited = walk.visited \cup {n} /\ w.status = "running" /\ w.waiting = walk.waiting
      /\ Pending(w) \subseteq Pending(walk)
  BY <1>1, EnteredWalk
<1>. HIDE DEF w
<1>4. Targets(Out(n)) \subseteq Coming(walk) /\ Ahead(w) \subseteq Coming(walk) /\ Targets(Out(n)) \subseteq Nodes
  BY <1>2, <1>3, AheadComes DEF Ahead, Targets, Out, Edge
<1>5. ASSUME NEW next \in SUBSET Targets(Out(n)), GoesOn(w, next)
      PROVE  Onward
  <2>1. next \subseteq Nodes
    BY <1>4
  <2>2. /\ walk' \in Walk /\ Agree(walk', w) /\ Pending(walk') = Pending(w) \cup next /\ reached' = reached \cup next
    BY <1>3, <1>5, <2>1, GoesOnKeeps
  <2>3. Ahead(walk') = Ahead(w) \cup next
    BY <2>2 DEF Ahead, Agree
  <2>. QED BY <1>3, <1>4, <2>2, <2>3 DEF Onward, Agree
<1>6. CASE Stops(n, Saved(w))
  <2>1. Saved(w) \in Seq(Nodes) /\ ToSet(Saved(w)) = Pending(w)
    BY <1>3, JoinedSet DEF Saved, Walk, Pending
  <2>. DEFINE z == [m \in Nodes |-> 0]
              s == Saved(w)
  <2>2. walk' = [w EXCEPT !.status = "waiting_approval", !.waiting = n, !.stack = s, !.deferred = <<>>,
                          !.forced = {}, !.deferCount = z] /\ reached' = reached
    BY <1>6 DEF Stops, w
  <2>3. z \in [Nodes -> Nat] /\ <<>> \in Seq(Nodes) /\ s \in Seq(Nodes) /\ ToSet(s) = Pending(w)
    BY <2>1
  <2>. HIDE DEF z, s
  <2>4. walk' \in Walk /\ walk'.visited = w.visited /\ walk'.waiting = n /\ walk'.stack = s /\ walk'.deferred = <<>>
    BY <1>3, <2>2, <2>3 DEF Walk
  <2>5. Pending(walk') = Pending(w)
    <3>1. ToSet(<<>>) = {}
      BY DEF ToSet
    <3>2. ToSet(walk'.stack) \cup ToSet(walk'.deferred) = Pending(w)
      BY <2>3, <2>4, <3>1
    <3>. QED BY <3>2 DEF Pending
  <2>6. Ahead(walk') \subseteq Coming(walk)
    BY <1>4, <2>4, <2>5 DEF Ahead
  <2>. QED BY <1>3, <2>2, <2>4, <2>6 DEF Onward
<1>7. CASE walk' = [w EXCEPT !.status = "failed"] /\ UNCHANGED <<reached, late>>
  <2>1. /\ walk' \in Walk /\ walk'.visited = w.visited /\ walk'.waiting = w.waiting
        /\ walk'.stack = w.stack /\ walk'.deferred = w.deferred /\ reached' = reached
    BY <1>3, <1>7 DEF Walk
  <2>2. Ahead(walk') = Ahead(w)
    BY <2>1 DEF Ahead, Pending
  <2>. QED BY <1>3, <1>4, <2>1, <2>2 DEF Onward
<1>. QED BY <1>2, <1>5, <1>6, <1>7 DEF Moves

\* A node that has been left joins the pushers of the nodes behind it.
LEMMA PushersGrow ==
  ASSUME NEW w \in Walk, NEW v \in Walk, NEW n, n \notin w.visited \ {w.waiting}, n \in v.visited \ {v.waiting},
         w.visited \ {w.waiting} \subseteq v.visited \ {v.waiting}, NEW m
  PROVE  /\ Cardinality(Pushers(w, m)) \in Nat /\ Cardinality(Pushers(v, m)) \in Nat
         /\ Cardinality(Pushers(w, m)) <= Cardinality(Nodes) /\ Cardinality(Nodes) \in Nat
         /\ Cardinality(Pushers(v, m)) >= Cardinality(Pushers(w, m)) + (IF m \in Targets(Out(n)) THEN 1 ELSE 0)
<1>. DEFINE W == Pushers(w, m)
            V == Pushers(v, m)
<1>1. W \subseteq Nodes /\ V \subseteq Nodes /\ W \subseteq V /\ n \notin W
  BY DEF Pushers, Walk
<1>2. m \in Targets(Out(n)) => n \in V
  BY DEF Pushers, Targets, Out, In
<1>. HIDE DEF W, V
<1>3. /\ IsFiniteSet(W) /\ IsFiniteSet(V) /\ Cardinality(W) \in Nat /\ Cardinality(V) \in Nat
      /\ Cardinality(W) <= Cardinality(Nodes) /\ Cardinality(Nodes) \in Nat /\ Cardinality(W) <= Cardinality(V)
  BY <1>1, NodesAssumption, FS_Subset, FS_CardinalityType
<1>4. CASE m \in Targets(Out(n))
  <2>1. W \cup {n} \subseteq V
    BY <1>1, <1>2, <1>4
  <2>2. Cardinality(W \cup {n}) = Cardinality(W) + 1
    BY <1>1, <1>3, FS_AddElement
  <2>3. Cardinality(W \cup {n}) <= Cardinality(V)
    BY <1>3, <2>1, FS_Subset
  <2>. QED BY <1>3, <1>4, <2>2, <2>3 DEF W, V
<1>5. CASE m \notin Targets(Out(n))
  BY <1>3, <1>5 DEF W, V
<1>. QED BY <1>4, <1>5

\* A node is visited behind all its sources that are still to come.
LEMMA VisitInTurn ==
  ASSUME Straight, OnTrack(walk), ~CutOff(walk, reached), NEW n, NEW types, Visits(n, types)
  PROVE  \A e \in In(n) : e.from \in walk.visited \/ e.from \notin Coming(walk)
<1>. SUFFICES ASSUME NEW e \in In(n), e.from \notin walk.visited, e.from \in Coming(walk)
     PROVE  FALSE
  OBVIOUS
<1>1. /\ graph.edges \subseteq Edge /\ walk \in Walk /\ Acyclic /\ e \in graph.edges /\ e.to = n
  BY ReachedOrPending DEF Straight, In
<1>2. n = Top /\ n \in Nodes /\ Running /\ ~MayDefer(n) /\ n \in Pending(walk)
  BY EnteredWalk
<1>3. /\ Popped \in Walk /\ Popped.visited = walk.visited /\ Popped.forced = {}
      /\ Popped.deferCount = walk.deferCount /\ Pending(walk) = Pending(Popped) \cup {n} /\ Ahead(walk) = Pending(walk)
  BY <1>2, PopsStack
<1>4. Pending(Popped) \in SUBSET Nodes /\ Pending(walk) \in SUBSET Nodes /\ {n} \in SUBSET Nodes
  BY <1>1, <1>2, <1>3, PendingAreNodes
<1>5. e.from \in Reach(Pending(Popped))
  <2>1. Reach(Pending(walk)) \subseteq Reach(Pending(Popped)) \cup Reach({n})
    BY <1>1, <1>3, <1>4, ReachOfBoth
  <2>2. e.from \notin Reach({n})
    BY <1>1, NoWayBack
  <2>. QED BY <1>3, <2>1, <2>2 DEF Coming
<1>6. CASE Cardinality(In(n)) > 1
  <2>1. Blocked(walk.visited, Pending(Popped), n) /\ Blocked(walk.visited, Ahead(walk), n)
    BY <1>5, <1>6 DEF Blocked, Coming
  <2>2. WaitsOnOthers(Popped, n)
    BY <1>1, <1>3, <1>4, <2>1, WaitsForSource
  <2>3. ~(walk.deferCount[n] < MaxDefer)
    BY <1>2, <1>3, <2>2 DEF MayDefer
  <2>4. walk.deferCount[n] + Occurs(walk.stack, n) <= Cardinality(Pushers(walk, n)) + 1
    BY <1>2, <2>1 DEF OnTrack, Counted
  <2>5. walk.deferCount[n] \in Nat /\ Occurs(walk.stack, n) \in Nat
    BY <1>1, <1>2, OccursType DEF Walk
  <2>6. /\ Cardinality(Pushers(walk, n)) \in Nat /\ Cardinality(Nodes) \in Nat
        /\ Cardinality(Pushers(walk, n)) <= Cardinality(Nodes)
    <3>1. Pushers(walk, n) \subseteq Nodes
      BY <1>1 DEF Pushers, Walk
    <3>. QED BY <3>1, NodesAssumption, FS_Subset, FS_CardinalityType
  <2>. QED BY <2>3, <2>4, <2>5, <2>6 DEF MaxDefer
<1>7. CASE ~(Cardinality(In(n)) > 1)
  <2>1. PICK f \in In(n) : f.from \in walk.visited \/ graph.type[f.from] = "trigger"
    BY <1>2 DEF OnTrack, Led
  <2>2. IsFiniteSet(In(n)) /\ Cardinality(In(n)) \in Nat
    BY <1>1, EdgesFinite, FS_Subset, FS_CardinalityType DEF In
  <2>3. e = f
    <3>. SUFFICES ASSUME e # f
         PROVE  FALSE
      OBVIOUS
    <3>1. Cardinality({e, f}) = 2 /\ {e, f} \subseteq In(n)
      <4>1. Cardinality({e}) = 1 /\ IsFiniteSet({e}) /\ f \notin {e} /\ {e} \cup {f} = {e, f}
        BY FS_Singleton
      <4>. QED BY <4>1, FS_AddElement
    <3>2. Cardinality({e, f}) <= Cardinality(In(n))
      BY <2>2, <3>1, FS_Subset
    <3>. QED BY <1>7, <2>2, <3>1, <3>2
  <2>. QED BY <2>1, <2>3, NobodyToTriggers DEF OnTrack
<1>. QED BY <1>6, <1>7

\* On track, the walk as it enters n: the others of what it knows are as they were.
LEMMA EnteredOnTrack ==
  ASSUME Straight, OnTrack(walk), ~CutOff(walk, reached), NEW n, NEW types, Visits(n, types)
  PROVE  LET w == Entered(Popped, n)
         IN /\ n \in Nodes /\ n \notin walk.visited /\ n \in Pending(walk) /\ Ahead(walk) = Pending(walk)
            /\ w \in Walk /\ w.visited = walk.visited \cup {n} /\ w.status = "running"
            /\ w.waiting = NoNode /\ walk.waiting = NoNode /\ w.forced = {} /\ w.deferCount = walk.deferCount
            /\ Pending(w) \subseteq Pending(walk) /\ Pending(walk) \subseteq Pending(w) \cup {n}
            /\ IsInjective(w.deferred) /\ ToSet(w.deferred) \subseteq ToSet(walk.deferred)
            /\ \A m : Occurs(w.stack, m) <= Occurs(walk.stack, m)
            /\ w.stack \in Seq(Nodes) /\ w.deferred \in Seq(Nodes)
<1>. DEFINE w == Entered(Popped, n)
<1>1. /\ n \in Nodes /\ n \notin walk.visited /\ n \in Pending(walk) /\ Running
      /\ w \in Walk /\ w.visited = walk.visited \cup {n} /\ w.status = "running" /\ w.waiting = walk.waiting
      /\ Pending(w) \subseteq Pending(walk) /\ Pending(walk) \subseteq Pending(w) \cup {n}
  BY EnteredWalk
<1>2. /\ Popped \in Walk /\ Popped.stack = Front(walk.stack) /\ Popped.deferred = walk.deferred
      /\ Popped.forced = {} /\ Popped.deferCount = walk.deferCount /\ walk.stack # <<>>
      /\ walk.waiting = NoNode /\ Ahead(walk) = Pending(walk)
  BY <1>1, PopsStack DEF OnTrack, Position
<1>3. /\ w.stack = Front(walk.stack) /\ w.deferred = RemoveFirst(walk.deferred, n)
      /\ w.forced = {} /\ w.deferCount = walk.deferCount
  BY <1>1, <1>2, EnteredKeeps
<1>4. walk.deferred \in Seq(Nodes) /\ walk.stack \in Seq(Nodes) /\ IsInjective(walk.deferred)
  BY ReachedOrPending DEF Walk, OnTrack, DeferredOnce
<1>5. IsInjective(w.deferred) /\ ToSet(w.deferred) \subseteq ToSet(walk.deferred) /\ w.deferred \in Seq(Nodes)
  <2>. HIDE DEF w
  <2>. QED BY <1>3, <1>4, DeletedOnce
<1>6. w.stack \in Seq(Nodes) /\ \A m : Occurs(w.stack, m) <= Occurs(walk.stack, m)
  <2>. HIDE DEF w
  <2>1. ASSUME NEW m
        PROVE  w.stack \in Seq(Nodes) /\ Occurs(w.stack, m) <= Occurs(walk.stack, m)
    <3>1. /\ Front(walk.stack) \in Seq(Nodes) /\ Occurs(Front(walk.stack), m) \in Nat
          /\ Occurs(Front(walk.stack), m) = Occurs(walk.stack, m) - (IF m = Last(walk.stack) THEN 1 ELSE 0)
      BY <1>2, <1>4, OccursPopped
    <3>2. Occurs(walk.stack, m) \in Nat
      BY <1>4, OccursType
    <3>. QED BY <1>3, <3>1, <3>2
  <2>. QED BY <2>1
<1>. QED BY <1>1, <1>2, <1>3, <1>5, <1>6

\* Going on: a step that was visited is not led to, and what is pushed is counted.
LEMMA GoesOnInOrder ==
  ASSUME Straight, OnTrack(walk), late = {}, ~CutOff(walk, reached), NEW n, NEW types, Visits(n, types),
         NEW next \in SUBSET Targets(Out(n)), GoesOn(Entered(Popped, n), next), Onward
  PROVE  OnTrack(walk') /\ late' = {}
<1>. DEFINE w == Entered(Popped, n)
<1>1. /\ n \in Nodes /\ n \notin walk.visited /\ n \in Pending(walk) /\ Ahead(walk) = Pending(walk)
      /\ w \in Walk /\ w.visited = walk.visited \cup {n} /\ w.status = "running"
      /\ w.waiting = NoNode /\ walk.waiting = NoNode /\ w.forced = {} /\ w.deferCount = walk.deferCount
      /\ Pending(w) \subseteq Pending(walk) /\ Pending(walk) \subseteq Pending(w) \cup {n}
      /\ IsInjective(w.deferred) /\ ToSet(w.deferred) \subseteq ToSet(walk.deferred)
      /\ \A m : Occurs(w.stack, m) <= Occurs(walk.stack, m)
      /\ w.stack \in Seq(Nodes) /\ w.deferred \in Seq(Nodes)
  BY EnteredOnTrack
<1>2. graph.edges \subseteq Edge /\ walk \in Walk /\ Acyclic
  BY ReachedOrPending DEF Straight
<1>3. \A e \in In(n) : e.from \in walk.visited \/ e.from \notin Coming(walk)
  BY VisitInTurn
<1>4. GoesOn(w, next) /\ next \subseteq Nodes
  BY <1>2 DEF Targets, Out, Edge
<1>. HIDE DEF w
<1>5. PICK s \in SetToSeqs(next) : walk' = Released(Push(w, s))
  BY <1>4 DEF GoesOn
<1>6. /\ walk' \in Walk /\ Agree(walk', w) /\ SameCounts(walk', w) /\ Pending(walk') = Pending(w) \cup next
      /\ reached' = reached \cup next /\ late' = late \cup (next \cap w.visited)
  BY <1>1, <1>4, GoesOnKeeps
<1>7. /\ walk'.visited = walk.visited \cup {n} /\ walk'.waiting = NoNode /\ walk'.status = "running"
      /\ walk'.forced = {} /\ walk'.deferCount = walk.deferCount
  BY <1>1, <1>6 DEF Agree, SameCounts
<1>8. Ahead(walk') = Pending(walk') /\ Coming(walk') \subseteq Coming(walk)
  BY <1>2, <1>6, <1>7, AheadComes, ComingShrinks DEF Onward
<1>9. s \in Seq(Nodes) /\ ToSet(s) = next /\ \A m : Occurs(s, m) \in Nat /\ Occurs(s, m) <= IF m \in next THEN 1 ELSE 0
  BY <1>4, <1>5, OccursInOrder
<1>. DEFINE u == Push(w, s)
<1>10. /\ u \in Walk /\ u.visited = walk.visited \cup {n} /\ Pending(u) = Pending(walk')
       /\ u.stack = w.stack \o s /\ u.deferred = w.deferred /\ walk' = Released(u)
  BY <1>1, <1>5, <1>6, <1>9, PushKeeps DEF Agree
<1>. HIDE DEF u
<1>11. /\ IsInjective(walk'.deferred) /\ ToSet(walk'.deferred) \subseteq ToSet(w.deferred)
       /\ \A m \in ToSet(walk'.deferred) : Blocked(walk'.visited, Ahead(walk'), m)
       /\ \A m : Blocked(walk'.visited, Ahead(walk'), m) => Occurs(walk'.stack, m) = Occurs(u.stack, m)
  <2>1. IsInjective(u.deferred) /\ u.visited = walk'.visited /\ Pending(u) = Ahead(walk')
    BY <1>1, <1>7, <1>8, <1>10
  <2>2. /\ IsInjective(Released(u).deferred) /\ ToSet(Released(u).deferred) \subseteq ToSet(u.deferred)
        /\ \A m \in ToSet(Released(u).deferred) : Blocked(u.visited, Pending(u), m)
        /\ \A m : Blocked(u.visited, Pending(u), m) => Occurs(Released(u).stack, m) = Occurs(u.stack, m)
    BY <1>2, <1>10, <2>1, ReleasedJoins
  <2>3. u.deferred = w.deferred /\ walk' = Released(u)
    BY <1>10
  <2>. QED BY <2>1, <2>2, <2>3
<1>12. late' = {}
  <2>. SUFFICES ASSUME NEW m \in next \cap w.visited
       PROVE  FALSE
    BY <1>6
  <2>1. PICK e \in graph.edges : e.from = n /\ e.to = m
    BY DEF Targets, Out
  <2>2. m \in walk.visited
    BY <1>1, <1>2, <2>1, NoWayBack
  <2>3. n \in Coming(walk)
    BY <1>1, <1>2, AheadComes
  <2>. QED BY <1>1, <2>1, <2>2, <2>3 DEF OnTrack, SourcesFirst
<1>13. SourcesFirst(walk')
  <2>. SUFFICES ASSUME NEW e \in graph.edges, e.to \in walk'.visited
       PROVE  e.from \in walk'.visited \/ e.from \notin Coming(walk')
    BY DEF SourcesFirst
  <2>1. e.from \in walk.visited \/ e.from \notin Coming(walk)
    BY <1>3, <1>7 DEF OnTrack, SourcesFirst, In
  <2>. QED BY <1>7, <1>8, <2>1
<1>14. Held(walk')
  <2>. SUFFICES ASSUME NEW m \in ToSet(walk'.deferred)
       PROVE  \E e \in In(m) : e.from \notin walk'.visited /\ e.from \in Reach(Pending(walk') \cup walk'.visited)
    BY DEF Held
  <2>. DEFINE X == Pending(walk')
              Y == X \cup walk'.visited
  <2>1. X \in SUBSET Nodes /\ Y \in SUBSET Nodes /\ X \subseteq Y
    BY <1>2, <1>6, AheadComes
  <2>2. PICK e \in In(m) : e.from \notin walk'.visited /\ e.from \in Reach(X)
    BY <1>8, <1>11 DEF Blocked
  <2>. HIDE DEF X, Y
  <2>3. X \subseteq Reach(Y)
    BY <1>2, <2>1, ReachFacts
  <2>4. Reach(X) \subseteq Reach(Y)
    BY <1>2, <2>1, <2>3, ReachGrows
  <2>. QED BY <2>2, <2>4 DEF X, Y
<1>15. Counted(walk')
  <2>. SUFFICES ASSUME NEW m \in Nodes, Blocked(walk'.visited, Ahead(walk'), m)
       PROVE  walk'.deferCount[m] + Occurs(walk'.stack, m) <= Cardinality(Pushers(walk', m)) + 1
    BY DEF Counted
  <2>1. Blocked(walk.visited, Ahead(walk), m)
    BY <1>2, BlockedFades DEF Onward
  <2>2. walk.deferCount[m] + Occurs(walk.stack, m) <= Cardinality(Pushers(walk, m)) + 1
    BY <2>1 DEF OnTrack, Counted
  <2>3. /\ Cardinality(Pushers(walk, m)) \in Nat /\ Cardinality(Pushers(walk', m)) \in Nat
        /\ Cardinality(Pushers(walk', m)) >= Cardinality(Pushers(walk, m)) + (IF m \in Targets(Out(n)) THEN 1 ELSE 0)
    <3>1. /\ n \notin walk.visited \ {walk.waiting} /\ n \in walk'.visited \ {walk'.waiting}
          /\ walk.visited \ {walk.waiting} \subseteq walk'.visited \ {walk'.waiting}
      BY <1>1, <1>2, <1>7, NodesAssumption DEF Walk
    <3>. QED BY <1>2, <1>6, <3>1, PushersGrow
  <2>4. Occurs(s, m) \in Nat /\ Occurs(s, m) <= IF m \in Targets(Out(n)) THEN 1 ELSE 0
    BY <1>9
  <2>5. /\ Occurs(w.stack, m) \in Nat /\ Occurs(walk.stack, m) \in Nat /\ walk.deferCount[m] \in Nat
        /\ Occurs(w.stack, m) <= Occurs(walk.stack, m)
    BY <1>1, <1>2, OccursType DEF Walk
  <2>6. Occurs(u.stack, m) <= Occurs(w.stack, m) + Occurs(s, m) /\ Occurs(u.stack, m) \in Nat
    <3>1. u.stack \in Seq(Nodes)
      BY <1>10 DEF Walk
    <3>. QED BY <1>1, <1>9, <1>10, <3>1, OccursJoined, OccursType
  <2>7. Occurs(walk'.stack, m) = Occurs(u.stack, m) /\ walk'.deferCount[m] = walk.deferCount[m]
    BY <1>7, <1>11
  <2>. QED BY <2>2, <2>3, <2>4, <2>5, <2>6, <2>7
<1>16. DeferredOnce(walk')
  <2>1. ToSet(walk'.deferred) \subseteq ToSet(walk.deferred)
    BY <1>1, <1>11
  <2>. QED BY <1>7, <1>11, <2>1 DEF OnTrack, DeferredOnce
<1>17. Led(walk')
  <2>. SUFFICES ASSUME NEW k \in Pending(walk')
       PROVE  \E e \in In(k) : e.from \in walk'.visited \/ graph.type[e.from] = "trigger"
    BY DEF Led
  <2>1. CASE k \in Pending(walk)
    BY <1>7, <2>1 DEF OnTrack, Led
  <2>2. CASE k \in next
    BY <1>7, <2>2 DEF Targets, Out, In
  <2>. QED BY <1>1, <1>6, <2>1, <2>2
<1>18. Position(walk')
  BY <1>7 DEF Position
<1>. QED BY <1>7, <1>12, <1>13, <1>14, <1>15, <1>16, <1>17, <1>18 DEF OnTrack

\* Stopping for a person, the run saves its joins below the stack, as often as they wait.
LEMMA StopsInOrder ==
  ASSUME Straight, OnTrack(walk), ~CutOff(walk, reached), NEW n, NEW types, Visits(n, types),
         Stops(n, Saved(Entered(Popped, n))), Onward
  PROVE  OnTrack(walk')
<1>. DEFINE w == Entered(Popped, n)
<1>1. /\ n \in Nodes /\ n \notin walk.visited /\ n \in Pending(walk) /\ Ahead(walk) = Pending(walk)
      /\ w \in Walk /\ w.visited = walk.visited \cup {n}
      /\ w.waiting = NoNode /\ walk.waiting = NoNode /\ w.deferCount = walk.deferCount
      /\ Pending(w) \subseteq Pending(walk)
      /\ IsInjective(w.deferred) /\ ToSet(w.deferred) \subseteq ToSet(walk.deferred)
      /\ \A m : Occurs(w.stack, m) <= Occurs(walk.stack, m)
      /\ w.stack \in Seq(Nodes) /\ w.deferred \in Seq(Nodes)
  BY EnteredOnTrack
<1>2. graph.edges \subseteq Edge /\ walk \in Walk /\ Acyclic
  BY ReachedOrPending DEF Straight
<1>3. \A e \in In(n) : e.from \in walk.visited \/ e.from \notin Coming(walk)
  BY VisitInTurn
<1>. DEFINE s == Saved(w)
            z == [m \in Nodes |-> 0]
<1>4. walk' = [w EXCEPT !.status = "waiting_approval", !.waiting = n, !.stack = s, !.deferred = <<>>,
                        !.forced = {}, !.deferCount = z]
  BY DEF Stops
<1>. HIDE DEF w
<1>5. s \in Seq(Nodes) /\ ToSet(s) = Pending(w) /\ s = w.deferred \o w.stack
  BY <1>1, JoinedSet DEF Saved, Pending
<1>. HIDE DEF s, z
<1>6. /\ walk'.visited = walk.visited \cup {n} /\ walk'.waiting = n /\ walk'.status = "waiting_approval"
      /\ walk'.stack = s /\ walk'.deferred = <<>> /\ walk'.forced = {} /\ walk'.deferCount = z
  BY <1>1, <1>4 DEF Walk
<1>7. Pending(walk') = Pending(w)
  <2>1. ToSet(<<>>) = {}
    BY DEF ToSet
  <2>2. ToSet(walk'.stack) \cup ToSet(walk'.deferred) = Pending(w)
    BY <1>5, <1>6, <2>1
  <2>. QED BY <2>2 DEF Pending
<1>8. walk' \in Walk /\ Coming(walk') \subseteq Coming(walk)
  BY <1>2, ComingShrinks DEF Onward
<1>9. SourcesFirst(walk')
  <2>. SUFFICES ASSUME NEW e \in graph.edges, e.to \in walk'.visited
       PROVE  e.from \in walk'.visited \/ e.from \notin Coming(walk')
    BY DEF SourcesFirst
  <2>1. e.from \in walk.visited \/ e.from \notin Coming(walk)
    BY <1>3, <1>6 DEF OnTrack, SourcesFirst, In
  <2>. QED BY <1>6, <1>8, <2>1
<1>10. Held(walk') /\ DeferredOnce(walk')
  <2>1. ToSet(<<>>) = {} /\ IsInjective(<<>>)
    BY DEF ToSet, IsInjective
  <2>. QED BY <1>6, <2>1 DEF Held, DeferredOnce
<1>11. Counted(walk')
  <2>. SUFFICES ASSUME NEW m \in Nodes, Blocked(walk'.visited, Ahead(walk'), m)
       PROVE  walk'.deferCount[m] + Occurs(walk'.stack, m) <= Cardinality(Pushers(walk', m)) + 1
    BY DEF Counted
  <2>1. Blocked(walk.visited, Ahead(walk), m)
    BY <1>2, BlockedFades DEF Onward
  <2>2. walk.deferCount[m] + Occurs(walk.stack, m) <= Cardinality(Pushers(walk, m)) + 1
    BY <2>1 DEF OnTrack, Counted
  <2>3. Pushers(walk', m) = Pushers(walk, m) /\ Cardinality(Pushers(walk, m)) \in Nat
    <3>1. Pushers(walk', m) = Pushers(walk, m)
      BY <1>1, <1>2, <1>6, NodesAssumption DEF Pushers, Walk
    <3>2. Pushers(walk, m) \subseteq Nodes
      BY <1>2 DEF Pushers, Walk
    <3>. QED BY <3>1, <3>2, NodesAssumption, FS_Subset, FS_CardinalityType
  <2>4. Occurs(w.deferred, m) <= walk.deferCount[m] /\ Occurs(w.deferred, m) \in Nat /\ walk.deferCount[m] \in Nat
    <3>1. walk.deferCount[m] \in Nat
      BY <1>2 DEF Walk
    <3>2. /\ Occurs(w.deferred, m) \in Nat /\ Occurs(w.deferred, m) <= 1
          /\ m \in ToSet(w.deferred) <=> Occurs(w.deferred, m) >= 1
      BY <1>1, OccursType, OccursOnce
    <3>3. m \in ToSet(w.deferred) => walk.deferCount[m] >= 1
      BY <1>1 DEF OnTrack, DeferredOnce
    <3>. QED BY <3>1, <3>2, <3>3
  <2>5. /\ Occurs(w.stack, m) \in Nat /\ Occurs(walk.stack, m) \in Nat
        /\ Occurs(w.stack, m) <= Occurs(walk.stack, m)
    BY <1>1, <1>2, OccursType DEF Walk
  <2>6. Occurs(s, m) <= Occurs(w.deferred, m) + Occurs(w.stack, m) /\ Occurs(s, m) \in Nat
    BY <1>1, <1>5, OccursJoined, OccursType
  <2>7. walk'.deferCount[m] = 0 /\ Occurs(walk'.stack, m) = Occurs(s, m)
    BY <1>6 DEF z
  <2>. QED BY <2>2, <2>3, <2>4, <2>5, <2>6, <2>7
<1>12. Led(walk')
  BY <1>1, <1>6, <1>7 DEF OnTrack, Led
<1>13. Position(walk')
  <2>. SUFFICES ASSUME NEW e \in Out(n), e.to \in walk'.visited
       PROVE  FALSE
    BY <1>6 DEF Position, Targets
  <2>1. e \in graph.edges /\ e.from = n /\ e.to # n
    BY <1>2, NoWayBack DEF Out
  <2>2. n \in Coming(walk)
    BY <1>1, <1>2, AheadComes
  <2>. QED BY <1>1, <1>6, <2>1, <2>2 DEF OnTrack, SourcesFirst
<1>. QED BY <1>6, <1>9, <1>10, <1>11, <1>12, <1>13 DEF OnTrack

\* Whatever a visit does, joins stay in order.
LEMMA VisitInOrder ==
  ASSUME Straight, JoinsInOrder(walk, reached, late), NEW n, VisitsOne(n)
  PROVE  JoinsInOrder(walk', reached', late')
<1>. DEFINE w == Entered(Popped, n)
<1>1. PICK types : Visits(n, types)
  BY VisitForms
<1>2. Onward /\ Moves(n, w) /\ graph.edges \subseteq Edge /\ walk \in Walk
  BY VisitOnward, VisitForms, ReachedOrPending
<1>3. CASE CutOff(walk, reached)
  BY <1>2, <1>3, CutStays DEF JoinsInOrder
<1>4. CASE ~CutOff(walk, reached)
  <2>1. walk.status = "running"
    BY <1>1 DEF Visits, Running
  <2>2. late = {} /\ OnTrack(walk)
    BY <1>4, <2>1 DEF JoinsInOrder
  <2>3. ASSUME NEW next \in SUBSET Targets(Out(n)), GoesOn(w, next)
        PROVE  OnTrack(walk') /\ late' = {}
    BY <1>1, <1>2, <1>4, <2>2, <2>3, GoesOnInOrder
  <2>4. CASE Stops(n, Saved(w))
    <3>1. OnTrack(walk')
      BY <1>1, <1>2, <1>4, <2>2, <2>4, StopsInOrder
    <3>2. late' = {}
      BY <2>2, <2>4 DEF Stops
    <3>. QED BY <3>1, <3>2 DEF JoinsInOrder
  <2>5. CASE walk' = [w EXCEPT !.status = "failed"] /\ UNCHANGED <<reached, late>>
    <3>1. w \in Walk
      BY <1>1, EnteredWalk
    <3>. HIDE DEF w
    <3>2. walk'.status = "failed" /\ late' = {}
      BY <2>2, <2>5, <3>1 DEF Walk
    <3>. QED BY <3>2 DEF JoinsInOrder
  <2>. QED BY <1>2, <2>3, <2>4, <2>5 DEF Moves, JoinsInOrder
<1>. QED BY <1>3, <1>4

\* A decision, when nothing repeats: transitions out of the node are taken.
LEMMA DecisionForms ==
  ASSUME Straight, NEW d, NEW input, Resume(d, input)
  PROVE  \E next \in SUBSET Targets(Out(walk.waiting)) :
           /\ \E s \in SetToSeqs(next) : walk' = Push([walk EXCEPT !.status = "running", !.waiting = NoNode], s)
           /\ reached' = reached \cup next /\ late' = late \cup (next \cap walk.visited)
<1>. DEFINE k == walk.waiting
            edges == {e \in Out(k) : Matches(e.branch, d)}
            back == {e \in edges : e.revisit}
            again == ReachableBy(Targets(back), graph.edges)
            w == [walk EXCEPT !.status = "running", !.waiting = NoNode]
            u == [w EXCEPT !.visited = @ \ again]
<1>1. walk \in Walk
  BY ReachedOrPending
<1>2. graph.type[k] # "pause"
  BY DEF Straight, EngineInv, WaitsSomewhere, Resume, Repeats
<1>3. /\ \E s \in SetToSeqs(Targets(edges)) : walk' = Push(u, s)
      /\ reached' = reached \cup Targets(edges)
      /\ late' = late \cup ((Targets(edges) \cap w.visited) \ again)
  BY <1>2 DEF Resume
<1>4. again = {}
  <2>1. back = {} /\ Targets({}) = {}
    BY DEF Straight, Repeats, Out, Targets
  <2>. HIDE DEF back
  <2>. QED BY <2>1, NothingReachable
<1>5. Targets(edges) \in SUBSET Targets(Out(k))
  BY DEF Targets
<1>. HIDE DEF again, edges
<1>6. w.visited = walk.visited /\ w \in Walk
  BY <1>1 DEF Walk
<1>7. u = w
  <2>. HIDE DEF w
  <2>1. w.visited \ again = w.visited
    BY <1>4
  <2>2. w = [w EXCEPT !.visited = w.visited]
    BY <1>6 DEF Walk
  <2>. QED BY <1>6, <2>1, <2>2
<1>. HIDE DEF u
<1>8. late' = late \cup (Targets(edges) \cap walk.visited)
  BY <1>3, <1>4, <1>6
<1>. QED BY <1>3, <1>5, <1>7, <1>8

\* A decision keeps the joins in order.
LEMMA DecisionInOrder ==
  ASSUME Straight, JoinsInOrder(walk, reached, late), NEW d, NEW input, Resume(d, input)
  PROVE  JoinsInOrder(walk', reached', late')
<1>. DEFINE k == walk.waiting
            w == [walk EXCEPT !.status = "running", !.waiting = NoNode]
<1>0. PICK next \in SUBSET Targets(Out(k)) :
        /\ \E s \in SetToSeqs(next) : walk' = Push(w, s)
        /\ reached' = reached \cup next /\ late' = late \cup (next \cap walk.visited)
  BY DecisionForms
<1>1. PICK s \in SetToSeqs(next) :
        /\ walk' = Push(w, s)
        /\ reached' = reached \cup next /\ late' = late \cup (next \cap walk.visited)
  BY <1>0
<1>2. graph.edges \subseteq Edge /\ walk \in Walk
  BY ReachedOrPending
<1>3. walk.status = "waiting_approval"
  BY DEF Resume
<1>4. /\ w \in Walk /\ w.status = "running" /\ w.waiting = NoNode /\ w.stack = walk.stack
      /\ w.deferred = walk.deferred /\ w.visited = walk.visited /\ w.forced = walk.forced
      /\ w.deferCount = walk.deferCount
  BY <1>2 DEF Walk
<1>. HIDE DEF w
<1>5. next \subseteq Nodes /\ walk.stack \in Seq(Nodes)
  BY <1>2 DEF Targets, Out, Edge, Walk
<1>6. s \in Seq(Nodes) /\ ToSet(s) = next /\ \A m : Occurs(s, m) \in Nat /\ Occurs(s, m) <= IF m \in next THEN 1 ELSE 0
  BY <1>1, <1>5, OccursInOrder
<1>7. /\ walk' \in Walk /\ walk'.status = "running" /\ walk'.waiting = NoNode /\ walk'.visited = walk.visited
      /\ walk'.stack = walk.stack \o s /\ walk'.deferred = walk.deferred /\ walk'.forced = walk.forced
      /\ walk'.deferCount = walk.deferCount /\ Pending(walk') = Pending(w) \cup next
  BY <1>1, <1>4, <1>6, PushKeeps DEF Agree, SameCounts
<1>8. Pending(walk') = Pending(walk) \cup next
  BY <1>4, <1>7 DEF Pending
<1>9. Onward
  <2>1. Ahead(walk') = Pending(walk')
    BY <1>2, <1>7, AheadComes
  <2>2. Ahead(walk') \subseteq Ahead(walk) /\ next \subseteq Ahead(walk)
    BY <1>8, <2>1 DEF Ahead
  <2>3. NoNode \notin walk.visited
    BY <1>2, NodesAssumption DEF Walk
  <2>. QED BY <1>1, <1>2, <1>7, <2>2, <2>3, AheadComes DEF Onward
<1>10. CASE CutOff(walk, reached)
  BY <1>2, <1>9, <1>10, CutStays DEF JoinsInOrder
<1>11. CASE ~CutOff(walk, reached)
  <2>1. late = {} /\ OnTrack(walk)
    BY <1>3, <1>11 DEF JoinsInOrder
  <2>2. k \in walk.visited /\ walk.deferred = <<>> /\ Targets(Out(k)) \cap walk.visited = {}
    BY <1>3, <2>1 DEF OnTrack, Position
  <2>3. late' = {}
    BY <1>1, <2>1, <2>2
  <2>4. Coming(walk') \subseteq Coming(walk)
    BY <1>2, <1>9, ComingShrinks DEF Onward
  <2>5. SourcesFirst(walk')
    BY <1>7, <2>1, <2>4 DEF OnTrack, SourcesFirst
  <2>6. Held(walk') /\ DeferredOnce(walk')
    <3>1. ToSet(<<>>) = {} /\ IsInjective(<<>>)
      BY DEF ToSet, IsInjective
    <3>. QED BY <1>7, <2>2, <3>1 DEF Held, DeferredOnce
  <2>7. Counted(walk')
    <3>. SUFFICES ASSUME NEW m \in Nodes, Blocked(walk'.visited, Ahead(walk'), m)
         PROVE  walk'.deferCount[m] + Occurs(walk'.stack, m) <= Cardinality(Pushers(walk', m)) + 1
      BY DEF Counted
    <3>1. Blocked(walk.visited, Ahead(walk), m)
      BY <1>2, <1>9, BlockedFades DEF Onward
    <3>2. walk.deferCount[m] + Occurs(walk.stack, m) <= Cardinality(Pushers(walk, m)) + 1
      BY <2>1, <3>1 DEF OnTrack, Counted
    <3>3. /\ Cardinality(Pushers(walk, m)) \in Nat /\ Cardinality(Pushers(walk', m)) \in Nat
          /\ Cardinality(Pushers(walk', m)) >= Cardinality(Pushers(walk, m)) + (IF m \in Targets(Out(k)) THEN 1 ELSE 0)
      <4>1. NoNode \notin walk.visited
        BY <1>2, NodesAssumption DEF Walk
      <4>2. /\ k \notin walk.visited \ {walk.waiting} /\ k \in walk'.visited \ {walk'.waiting}
            /\ walk.visited \ {walk.waiting} \subseteq walk'.visited \ {walk'.waiting}
        BY <1>7, <2>2, <4>1
      <4>. HIDE DEF k
      <4>. QED BY <1>2, <1>7, <4>2, PushersGrow
    <3>4. Occurs(s, m) \in Nat /\ Occurs(s, m) <= IF m \in Targets(Out(k)) THEN 1 ELSE 0
      BY <1>6
    <3>5. Occurs(walk.stack, m) \in Nat /\ walk.deferCount[m] \in Nat
      BY <1>2, <1>5, OccursType DEF Walk
    <3>6. Occurs(walk'.stack, m) <= Occurs(walk.stack, m) + Occurs(s, m) /\ Occurs(walk'.stack, m) \in Nat
      <4>1. walk'.stack \in Seq(Nodes)
        BY <1>7 DEF Walk
      <4>. QED BY <1>5, <1>6, <1>7, <4>1, OccursJoined, OccursType
    <3>7. walk'.deferCount[m] = walk.deferCount[m]
      BY <1>7
    <3>. QED BY <3>2, <3>3, <3>4, <3>5, <3>6, <3>7
  <2>8. Led(walk')
    <3>. SUFFICES ASSUME NEW m \in Pending(walk')
         PROVE  \E e \in In(m) : e.from \in walk'.visited \/ graph.type[e.from] = "trigger"
      BY DEF Led
    <3>1. CASE m \in Pending(walk)
      BY <1>7, <2>1, <3>1 DEF OnTrack, Led
    <3>2. CASE m \in next
      BY <1>7, <2>2, <3>2 DEF Targets, Out, In
    <3>. QED BY <1>8, <3>1, <3>2
  <2>9. Position(walk') /\ walk'.forced = {}
    BY <1>7, <2>1 DEF OnTrack, Position
  <2>. QED BY <2>3, <2>5, <2>6, <2>7, <2>8, <2>9 DEF JoinsInOrder, OnTrack
<1>. QED BY <1>10, <1>11

\* A run that completes stays where it was.
LEMMA FinishInOrder ==
  ASSUME Straight, JoinsInOrder(walk, reached, late), Finish
  PROVE  JoinsInOrder(walk', reached', late')
<1>1. graph.edges \subseteq Edge /\ walk \in Walk
  BY ReachedOrPending
<1>2. walk' = [walk EXCEPT !.status = "completed"] /\ reached' = reached /\ late' = late /\ walk.status = "running"
  BY DEF Finish
<1>3. /\ walk' \in Walk /\ walk'.status = "completed" /\ walk'.visited = walk.visited /\ walk'.waiting = walk.waiting
      /\ walk'.stack = walk.stack /\ walk'.deferred = walk.deferred
  BY <1>1, <1>2 DEF Walk
<1>4. Ahead(walk') = Ahead(walk)
  BY <1>3 DEF Ahead, Pending
<1>5. Onward
  BY <1>1, <1>2, <1>3, <1>4, AheadComes DEF Onward
<1>6. CASE CutOff(walk, reached)
  BY <1>1, <1>5, <1>6, CutStays DEF JoinsInOrder
<1>7. CASE ~CutOff(walk, reached)
  BY <1>2, <1>3, <1>7 DEF JoinsInOrder
<1>. QED BY <1>6, <1>7

-----------------------------------------------------------------------------
(* The invariant, with the order of the joins *)

\* Any graph keeps EngineInv, an orderly one the joins in order.
Orderly == NoneIntoTriggers /\ Acyclic /\ ~Repeats
JoinInv == EngineInv /\ (Orderly => JoinsInOrder(walk, reached, late))

\* A step leaves the graph alone, so what is said of it after the step is said of this graph.
LEMMA GraphStays ==
  ASSUME graph' = graph
  PROVE  /\ Orderly' <=> Orderly
         /\ JoinsInOrder(walk, reached, late)' <=> JoinsInOrder(walk', reached', late')
<1>1. NoneIntoTriggers' <=> NoneIntoTriggers
  BY DEF NoneIntoTriggers
<1>2. Repeats' <=> Repeats
  BY DEF Repeats
<1>3. Acyclic' <=> Acyclic
  BY DEF Acyclic, ReachableBy, Targets, Out
<1>4. Coming(walk)' = Coming(walk')
  BY DEF Coming, Ahead, Reach, ReachableBy, Targets, Out, Pending
<1>5. CutOff(walk, reached)' <=> CutOff(walk', reached')
  BY <1>4 DEF CutOff
<1>6. SourcesFirst(walk)' <=> SourcesFirst(walk')
  BY <1>4 DEF SourcesFirst
<1>7. Held(walk)' <=> Held(walk')
  BY DEF Held, In, Reach, ReachableBy, Targets, Pending
<1>8. Counted(walk)' <=> Counted(walk')
  BY DEF Counted, Blocked, In, Ahead, Out, Targets, Pending, Reach, ReachableBy, Pushers, Occurs, Places
<1>9. Led(walk)' <=> Led(walk')
  BY DEF Led, In, Pending
<1>10. DeferredOnce(walk)' <=> DeferredOnce(walk')
  BY DEF DeferredOnce
<1>11. Position(walk)' <=> Position(walk')
  BY DEF Position, Targets, Out
<1>12. OnTrack(walk)' <=> OnTrack(walk')
  BY <1>6, <1>7, <1>8, <1>9, <1>10, <1>11 DEF OnTrack
<1>. QED BY <1>1, <1>2, <1>3, <1>5, <1>12 DEF Orderly, JoinsInOrder

\* At the start no join was deferred, and each is on the stack once at most.
LEMMA JoinInit == Init => JoinInv
<1>. SUFFICES ASSUME Init
     PROVE  JoinInv
  OBVIOUS
<1>1. EngineInv
  BY EngineInit
<1>2. graph.edges \subseteq Edge /\ walk \in Walk
  BY <1>1 DEF EngineInv, TypeOK
<1>3. PICK fired \in SUBSET {n \in Nodes : graph.type[n] = "trigger"} :
        \E s \in SetToSeqs(Targets({e \in graph.edges : e.from \in fired})) : Starts(s)
  BY DEF Init, Starts
<1>. DEFINE first == Targets({e \in graph.edges : e.from \in fired})
<1>4. PICK s \in SetToSeqs(first) : Starts(s)
  BY <1>3
<1>5. first \subseteq Nodes
  BY <1>2 DEF Targets, Edge
<1>6. /\ walk.status = "running" /\ walk.stack = s /\ walk.visited = {} /\ walk.deferred = <<>>
      /\ walk.forced = {} /\ walk.deferCount = [n \in Nodes |-> 0] /\ walk.waiting = NoNode /\ late = {}
  BY <1>4 DEF Starts, Init
<1>7. \A n \in first : \E e \in In(n) : graph.type[e.from] = "trigger"
  BY <1>3 DEF Targets, In
<1>. HIDE DEF first
<1>8. /\ s \in Seq(Nodes) /\ ToSet(s) = first
      /\ \A m : Occurs(s, m) \in Nat /\ Occurs(s, m) <= IF m \in first THEN 1 ELSE 0
  BY <1>4, <1>5, OccursInOrder
<1>9. ToSet(<<>>) = {} /\ IsInjective(<<>>)
  BY DEF ToSet, IsInjective
<1>10. Pending(walk) = first
  <2>1. ToSet(walk.stack) \cup ToSet(walk.deferred) = first
    BY <1>6, <1>8, <1>9
  <2>. QED BY <2>1 DEF Pending
<1>11. SourcesFirst(walk) /\ Held(walk) /\ DeferredOnce(walk) /\ Position(walk)
  BY <1>6, <1>9 DEF SourcesFirst, Held, DeferredOnce, Position
<1>12. Led(walk)
  BY <1>7, <1>10 DEF Led
<1>13. Counted(walk)
  <2>. SUFFICES ASSUME NEW m \in Nodes
       PROVE  walk.deferCount[m] + Occurs(walk.stack, m) <= Cardinality(Pushers(walk, m)) + 1
    BY DEF Counted
  <2>1. Cardinality(Pushers(walk, m)) = 0
    <3>1. Pushers(walk, m) = {}
      BY <1>6 DEF Pushers
    <3>. QED BY <3>1, FS_EmptySet
  <2>2. walk.deferCount[m] = 0 /\ Occurs(walk.stack, m) \in Nat /\ Occurs(walk.stack, m) <= 1
    BY <1>6, <1>8
  <2>. QED BY <2>1, <2>2
<1>14. JoinsInOrder(walk, reached, late)
  BY <1>6, <1>11, <1>12, <1>13 DEF JoinsInOrder, OnTrack
<1>. QED BY <1>1, <1>14 DEF JoinInv

\* Every step keeps the joins in order.
LEMMA JoinStep == JoinInv /\ [Next]_vars => JoinInv'
<1>. SUFFICES ASSUME JoinInv, [Next]_vars
     PROVE  JoinInv'
  OBVIOUS
<1>1. EngineInv /\ EngineInv' /\ TypeOK
  BY EngineStep DEF JoinInv, EngineInv
<1>2. graph' = graph
  <2>1. ASSUME NEW n, VisitsOne(n)
        PROVE  graph' = graph
    BY <1>1, <2>1, VisitCounts
  <2>2. CASE Skip \/ Defer \/ Finish \/ Decide
    BY <2>2 DEF Skip, Defer, Finish, Decide, Resume
  <2>. QED BY <2>1, <2>2 DEF Next, Drive, VisitsOne, vars
<1>3. CASE ~Orderly
  BY <1>1, <1>2, <1>3, GraphStays DEF JoinInv
<1>4. CASE Orderly
  <2>1. Straight /\ JoinsInOrder(walk, reached, late)
    BY <1>1, <1>4 DEF JoinInv, Orderly, Straight
  <2>2. ASSUME Skip
        PROVE  JoinsInOrder(walk', reached', late')
    BY <2>1, <2>2, SkipInOrder
  <2>3. ASSUME Defer
        PROVE  JoinsInOrder(walk', reached', late')
    BY <2>1, <2>3, DeferInOrder
  <2>4. ASSUME NEW n, VisitsOne(n)
          PROVE  JoinsInOrder(walk', reached', late')
    BY <2>1, <2>4, VisitInOrder
  <2>5. ASSUME Finish
        PROVE  JoinsInOrder(walk', reached', late')
    BY <2>1, <2>5, FinishInOrder
  <2>6. ASSUME Decide
        PROVE  JoinsInOrder(walk', reached', late')
    BY <2>1, <2>6, DecisionInOrder DEF Decide
  <2>7. ASSUME UNCHANGED vars
        PROVE  JoinsInOrder(walk', reached', late')
    <3>1. walk' = walk /\ reached' = reached /\ late' = late
      BY <2>7 DEF vars
    <3>. QED BY <2>1, <3>1
  <2>8. JoinsInOrder(walk', reached', late')
    BY <2>2, <2>3, <2>4, <2>5, <2>6, <2>7 DEF Next, Drive, VisitsOne
  <2>. QED BY <1>1, <1>2, <2>8, GraphStays DEF JoinInv
<1>. QED BY <1>3, <1>4

\* When every transition out of what ran is taken, nothing is cut off.
LEMMA JoinsSafe == JoinInv /\ NoneIntoTriggers => JoinsWaitForAll
<1>. SUFFICES ASSUME JoinInv, NoneIntoTriggers, Acyclic, ~Repeats, AllTaken
     PROVE  late = {}
  BY DEF JoinsWaitForAll
<1>1. JoinsInOrder(walk, reached, late)
  BY DEF JoinInv, Orderly
<1>2. ~CutOff(walk, reached)
  <2>1. \A n \in walk.visited : ran[n] > 0
    BY DEF JoinInv, EngineInv, VisitedRan
  <2>. QED BY <2>1 DEF CutOff, AllTaken
<1>. QED BY <1>1, <1>2 DEF JoinsInOrder

\* The graph a run walks is one of those it may be started on.
Given == graph \in Graphs

\* The graph stays as it was given.
LEMMA GraphIsGiven == Spec => []Given
<1>1. Init => Given
  BY DEF Init, Given
<1>2. EngineInv /\ Given /\ [Next]_vars => Given'
  <2>. SUFFICES ASSUME EngineInv, Given, [Next]_vars
       PROVE  graph' = graph
    BY DEF Given
  <2>1. ASSUME NEW n, VisitsOne(n)
        PROVE  graph' = graph
    BY <2>1, VisitCounts DEF EngineInv
  <2>2. CASE Skip \/ Defer \/ Finish \/ Decide
    BY <2>2 DEF Skip, Defer, Finish, Decide, Resume
  <2>. QED BY <2>1, <2>2 DEF Next, Drive, VisitsOne, vars
<1>. QED BY <1>1, <1>2, EngineInvariant, PTL DEF Spec

-----------------------------------------------------------------------------
(* The theorems *)

\* Every variable of a run stays in its type: the walk's stack and its deferred joins hold
\* nodes of the graph only, however drive and resumeWorkflow interleave pushing, deferring,
\* releasing and reopening them.
THEOREM TypeCorrect == Spec => []TypeOK
<1>1. EngineInv => TypeOK
  BY DEF EngineInv
<1>. QED BY <1>1, EngineInvariant, PTL

\* "Every node runs at most once per run": of any graph without revisited transitions,
\* pauses and held fan-outs, drive runs each node at most once, whatever the joins.
THEOREM NodesRunOnce == Spec => []OncePerRun
<1>1. EngineInv => OncePerRun
  BY DEF EngineInv, MarkedOnce, OncePerRun
<1>. QED BY <1>1, EngineInvariant, PTL

\* A run that completes owes no step a taken transition led to, however often it stopped at
\* approvals and whichever joins were put off: deferred joins run in the end.
THEOREM NoStepIsLost == Spec => []ApprovalsLoseNothing
<1>1. EngineInv => ApprovalsLoseNothing
  BY DEF EngineInv, Owed, NoPauses, NothingOwed, ApprovalsLoseNothing, NothingLost
<1>. QED BY <1>1, EngineInvariant, PTL

\* A join "waits until every branch that is still going to run has arrived": in an acyclic
\* graph without steps that repeat, whose triggers no transition enters, and with every
\* transition taken, no transition is taken to a step that has run already.
THEOREM JoinsWait ==
  ASSUME \A g \in Graphs : \A e \in g.edges : g.type[e.to] # "trigger"
  PROVE  Spec => []JoinsWaitForAll
<1>1. Given => NoneIntoTriggers
  BY DEF Given, NoneIntoTriggers
<1>2. Spec => []JoinInv
  BY JoinInit, JoinStep, PTL DEF Spec
<1>3. JoinInv /\ Given => JoinsWaitForAll
  BY <1>1, JoinsSafe
<1>. QED BY <1>2, <1>3, GraphIsGiven, PTL
=============================================================================
