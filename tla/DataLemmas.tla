------------------------------ MODULE DataLemmas ------------------------------
(***************************************************************************)
(* Facts about naturals, sequences and finite sets that the proofs of      *)
(* several components cite.  An induction is over a set of naturals in     *)
(* place of a predicate, so that the provers can instantiate it.           *)
(***************************************************************************)
EXTENDS Selection, FiniteSetTheorems, WellFoundedInduction, TLAPS

(* A set of naturals has a least element: the sets 0..x of its elements are   *)
(* finite, and the strict subset order on finite sets is well-founded.        *)
LEMMA Smallest ==
  ASSUME NEW S \in SUBSET Nat, S # {}
  PROVE  \E x \in S : \A y \in S : x <= y
  <1> DEFINE Below == {0..x : x \in S}
             Order == StrictSubsetOrdering(Nat)
  <1>1. Below \subseteq FiniteSubsetsOf(Nat) /\ Below # {}
    <2>1. \A x \in S : IsFiniteSet(0..x) /\ 0..x \subseteq Nat
      BY FS_Interval
    <2> QED
      BY <2>1 DEF FiniteSubsetsOf
  <1>2. PICK x \in S : \A y \in S : <<0..y, 0..x>> \notin Order
    <2>1. IsWellFoundedOn(Order, FiniteSubsetsOf(Nat))
      BY FS_StrictSubsetOrderingWellFounded
    <2>2. PICK T \in Below : \A U \in Below : <<U, T>> \notin Order
      <3> HIDE DEF Below, Order
      <3> QED
        BY <1>1, <2>1, WFMin
    <2> QED
      BY <2>2
  <1>3. ASSUME NEW y \in S, y < x PROVE FALSE
    <2>1. 0..y \subseteq 0..x /\ 0..y # 0..x
      <3>1. x \in Nat /\ y \in Nat
        OBVIOUS
      <3>2. x \in 0..x /\ x \notin 0..y
        BY <1>3, <3>1
      <3> QED
        BY <1>3, <3>1, <3>2
    <2>2. 0..x \in SUBSET Nat /\ 0..y \in SUBSET Nat
      OBVIOUS
    <2> QED
      BY <1>2, <2>1, <2>2 DEF StrictSubsetOrdering
  <1> QED
    BY <1>3

(* Induction over the naturals. *)
LEMMA Inductive ==
  ASSUME NEW S, 0 \in S, \A k \in Nat : k \in S => k + 1 \in S
  PROVE  \A k \in Nat : k \in S
  <1> SUFFICES ASSUME Nat \ S # {} PROVE FALSE
    OBVIOUS
  <1>1. PICK x \in Nat \ S : \A y \in Nat \ S : x <= y
    BY Smallest
  <1>2. x - 1 \in Nat /\ x - 1 \in S
    BY <1>1
  <1> QED
    BY <1>1, <1>2

-----------------------------------------------------------------------------
(* Concatenation: the result has one place for each cell of the parts.       *)

CellsTo(seqs, k) == {c \in (1..k) \X Nat : c[2] \in DOMAIN seqs[c[1]]}

ListsTo(r, seqs, k, at) ==
  /\ at \in [DOMAIN r -> CellsTo(seqs, k)]
  /\ \A l, m \in DOMAIN r : at[l] = at[m] => l = m
  /\ \A c \in CellsTo(seqs, k) : \E m \in DOMAIN r : at[m] = c
  /\ \A m \in DOMAIN r : r[m] = seqs[at[m][1]][at[m][2]]

LEMMA ListsOneMore ==
  ASSUME NEW T, NEW n \in Nat, NEW seqs \in [1..n -> Seq(T)], NEW k \in Nat, k + 1 \in 1..n,
         NEW q \in Seq(T), NEW at, ListsTo(q, seqs, k, at)
  PROVE  /\ q \o seqs[k + 1] \in Seq(T)
         /\ \E on : ListsTo(q \o seqs[k + 1], seqs, k + 1, on)
  <1> DEFINE s == seqs[k + 1]
             r == q \o s
             on == [m \in DOMAIN r |-> IF m <= Len(q) THEN at[m] ELSE <<k + 1, m - Len(q)>>]
  <1>1. s \in Seq(T) /\ Len(s) \in Nat /\ DOMAIN s = 1..Len(s) /\ Len(q) \in Nat /\ DOMAIN q = 1..Len(q)
    OBVIOUS
  <1>2. r \in Seq(T) /\ Len(r) = Len(q) + Len(s) /\ DOMAIN r = 1..(Len(q) + Len(s))
    BY <1>1
  <1>3. \A m \in 1..Len(q) : r[m] = q[m]
    BY <1>1
  <1>4. \A m \in 1..Len(s) : r[Len(q) + m] = s[m]
    BY <1>1
  <1>5. ASSUME NEW m \in DOMAIN r, m > Len(q)
        PROVE  m - Len(q) \in 1..Len(s) /\ r[m] = s[m - Len(q)] /\ on[m] = <<k + 1, m - Len(q)>>
    <2>1. m \in Nat /\ m - Len(q) \in 1..Len(s) /\ m = Len(q) + (m - Len(q))
      BY <1>1, <1>2, <1>5
    <2>2. r[m] = s[m - Len(q)]
      BY <1>4, <2>1
    <2>3. on[m] = <<k + 1, m - Len(q)>>
      BY <1>1, <1>5, <2>1
    <2> QED
      BY <2>1, <2>2, <2>3
  <1>6. ASSUME NEW m \in DOMAIN r, m <= Len(q)
        PROVE  m \in DOMAIN q /\ r[m] = q[m] /\ on[m] = at[m] /\ at[m] \in CellsTo(seqs, k)
    <2>1. m \in DOMAIN q
      BY <1>1, <1>2, <1>6
    <2> QED
      BY <1>1, <1>3, <1>6, <2>1 DEF ListsTo
  <1>7. \A m \in DOMAIN r : m \in Nat /\ (m <= Len(q) \/ m > Len(q))
    BY <1>1, <1>2
  <1>8. \A c \in CellsTo(seqs, k) : c \in CellsTo(seqs, k + 1) /\ c[1] # k + 1
    BY DEF CellsTo
  <1>9. \A i \in 1..Len(s) : <<k + 1, i>> \in CellsTo(seqs, k + 1)
    BY <1>1 DEF CellsTo
  <1>10. ASSUME NEW c \in CellsTo(seqs, k + 1)
         PROVE  c \in CellsTo(seqs, k) \/ \E i \in 1..Len(s) : c = <<k + 1, i>>
    <2>1. c \in (1..(k + 1)) \X Nat /\ c[2] \in DOMAIN seqs[c[1]]
      BY DEF CellsTo
    <2>2. CASE c[1] = k + 1
      <3>1. c[2] \in 1..Len(s)
        BY <1>1, <2>1, <2>2
      <3> QED
        BY <2>1, <2>2, <3>1
    <2>3. CASE c[1] # k + 1
      <3>1. c[1] \in 1..k
        BY <2>1, <2>3
      <3> QED
        BY <2>1, <3>1 DEF CellsTo
    <2> QED
      BY <2>2, <2>3
  <1> HIDE DEF on, r, s
  <1>11. on \in [DOMAIN r -> CellsTo(seqs, k + 1)]
    <2>1. ASSUME NEW m \in DOMAIN r PROVE on[m] \in CellsTo(seqs, k + 1)
      BY <1>5, <1>6, <1>7, <1>8, <1>9
    <2> QED
      BY <2>1 DEF on
  <1>12. ASSUME NEW l \in DOMAIN r, NEW m \in DOMAIN r, on[l] = on[m] PROVE l = m
    <2>1. CASE l <= Len(q) /\ m <= Len(q)
      BY <1>6, <1>12, <2>1 DEF ListsTo
    <2>2. CASE l > Len(q) /\ m > Len(q)
      <3>1. l - Len(q) = m - Len(q)
        BY <1>5, <1>12, <2>2
      <3> QED
        BY <1>1, <1>7, <3>1
    <2>3. CASE l <= Len(q) /\ m > Len(q)
      <3>1. on[m][1] = k + 1 /\ on[l][1] # k + 1
        BY <1>5, <1>6, <1>8, <2>3
      <3> QED
        BY <1>12, <3>1
    <2>4. CASE l > Len(q) /\ m <= Len(q)
      <3>1. on[l][1] = k + 1 /\ on[m][1] # k + 1
        BY <1>5, <1>6, <1>8, <2>4
      <3> QED
        BY <1>12, <3>1
    <2> QED
      BY <1>7, <2>1, <2>2, <2>3, <2>4
  <1>13. ASSUME NEW c \in CellsTo(seqs, k + 1) PROVE \E m \in DOMAIN r : on[m] = c
    <2>1. CASE c \in CellsTo(seqs, k)
      <3>1. PICK m \in DOMAIN q : at[m] = c
        BY <2>1 DEF ListsTo
      <3>2. m \in DOMAIN r /\ m <= Len(q)
        BY <1>1, <1>2
      <3> QED
        BY <1>6, <3>1, <3>2
    <2>2. ASSUME NEW i \in 1..Len(s), c = <<k + 1, i>> PROVE \E m \in DOMAIN r : on[m] = c
      <3>1. Len(q) + i \in DOMAIN r /\ Len(q) + i > Len(q) /\ Len(q) + i - Len(q) = i
        BY <1>1, <1>2
      <3> QED
        BY <1>5, <2>2, <3>1
    <2> QED
      BY <1>10, <2>1, <2>2
  <1>14. ASSUME NEW m \in DOMAIN r PROVE r[m] = seqs[on[m][1]][on[m][2]]
    <2>1. CASE m <= Len(q)
      BY <1>6, <2>1 DEF ListsTo
    <2>2. CASE m > Len(q)
      BY <1>5, <2>2 DEF s
    <2> QED
      BY <1>7, <2>1, <2>2
  <1>15. ListsTo(r, seqs, k + 1, on)
    BY <1>11, <1>12, <1>13, <1>14 DEF ListsTo
  <1> QED
    BY <1>2, <1>15 DEF r, s

Loops(f, seqs, k) == f = [i \in 1..k |-> IF i = 1 THEN seqs[i] ELSE f[i - 1] \o seqs[i]]

LEMMA LoopExists ==
  ASSUME NEW T, NEW n \in Nat, NEW seqs \in [1..n -> Seq(T)]
  PROVE  \A k \in Nat : k \in 1..n => \E f : Loops(f, seqs, k)
  <1> DEFINE S == {k \in Nat : k \in 1..n => \E f : Loops(f, seqs, k)}
  <1>1. 0 \in S
    OBVIOUS
  <1>2. ASSUME NEW k \in Nat, k \in S, k + 1 \in 1..n PROVE \E f : Loops(f, seqs, k + 1)
    <2>1. CASE k = 0
      <3> DEFINE f == [i \in 1..1 |-> seqs[i]]
      <3>1. \A i \in 1..1 : i = 1
        OBVIOUS
      <3>2. f = [i \in 1..1 |-> IF i = 1 THEN seqs[i] ELSE f[i - 1] \o seqs[i]]
        BY <3>1
      <3> HIDE DEF f
      <3>3. Loops(f, seqs, 0 + 1)
        BY <3>2 DEF Loops
      <3> QED
        BY <2>1, <3>3
    <2>2. CASE k # 0
      <3>1. PICK f : Loops(f, seqs, k)
        BY <1>2, <2>2
      <3> DEFINE g == [i \in 1..(k + 1) |-> IF i <= k THEN f[i] ELSE f[k] \o seqs[i]]
      <3>2. ASSUME NEW i \in 1..(k + 1)
            PROVE  g[i] = IF i = 1 THEN seqs[i] ELSE g[i - 1] \o seqs[i]
        <4>1. CASE i <= k
          <5>1. i \in 1..k /\ (i = 1 \/ i - 1 \in 1..k)
            BY <4>1
          <5>2. f[i] = IF i = 1 THEN seqs[i] ELSE f[i - 1] \o seqs[i]
            BY <3>1, <5>1 DEF Loops
          <5> QED
            BY <4>1, <5>1, <5>2
        <4>2. CASE i = k + 1
          BY <2>2, <4>2
        <4> QED
          BY <4>1, <4>2
      <3>3. g = [i \in 1..(k + 1) |-> IF i = 1 THEN seqs[i] ELSE g[i - 1] \o seqs[i]]
        BY <3>2
      <3> HIDE DEF g
      <3> QED
        BY <3>3 DEF Loops
    <2> QED
      BY <2>1, <2>2
  <1>3. ASSUME NEW k \in Nat, k \in S PROVE k + 1 \in S
    <2>1. k + 1 \in 1..n => \E f : Loops(f, seqs, k + 1)
      <3> HIDE DEF S
      <3> QED
        BY <1>2, <1>3
    <2> QED
      BY <2>1
  <1>4. \A k \in Nat : k \in S
    <2> HIDE DEF S
    <2> QED
      BY <1>1, <1>3, Inductive
  <1> QED
    BY <1>4

(* FlattenSeq is what the loop over its parts leaves. *)
LEMMA Flattened ==
  ASSUME NEW T, NEW n \in Nat, NEW seqs \in [1..n -> Seq(T)]
  PROVE  /\ FlattenSeq(seqs) \in Seq(T)
         /\ \E at : ListsTo(FlattenSeq(seqs), seqs, n, at)
  <1> DEFINE Done(r, k) == r \in Seq(T) /\ \E at : ListsTo(r, seqs, k, at)
  <1>1. seqs \in Seq(Seq(T)) /\ Len(seqs) = n
    OBVIOUS
  <1>2. Done(<<>>, 0)
    <2>1. CellsTo(seqs, 0) = {}
      BY DEF CellsTo
    <2>2. ListsTo(<<>>, seqs, 0, [m \in {} |-> m])
      BY <2>1 DEF ListsTo
    <2> QED
      BY <2>2
  <1>3. ASSUME NEW k \in Nat, k + 1 \in 1..n, NEW r, Done(r, k)
        PROVE  Done(r \o seqs[k + 1], k + 1)
    BY <1>3, ListsOneMore
  <1> HIDE DEF Done
  <1>4. CASE n = 0
    <2>1. FlattenSeq(seqs) = <<>>
      BY <1>1, <1>4 DEF FlattenSeq
    <2>2. Done(FlattenSeq(seqs), n)
      BY <1>2, <1>4, <2>1
    <2> QED
      BY <2>2 DEF Done
  <1>5. CASE n # 0
    <2> DEFINE loop == CHOOSE f : Loops(f, seqs, n)
    <2>1. Loops(loop, seqs, n)
      BY <1>5, LoopExists
    <2>2. FlattenSeq(seqs) = loop[n]
      BY <1>1, <1>5 DEF FlattenSeq, Loops
    <2> HIDE DEF loop
    <2>3. \A i \in 1..n : loop[i] = IF i = 1 THEN seqs[i] ELSE loop[i - 1] \o seqs[i]
      BY <2>1 DEF Loops
    <2> DEFINE S == {k \in Nat : k \in 1..n => Done(loop[k], k)}
    <2>4. 0 \in S
      OBVIOUS
    <2>5. ASSUME NEW k \in Nat, k \in S, k + 1 \in 1..n PROVE Done(loop[k + 1], k + 1)
      <3>1. CASE k = 0
        <4>1. 0 + 1 \in 1..n /\ Done(<<>> \o seqs[0 + 1], 0 + 1)
          BY <1>2, <1>3, <2>5, <3>1
        <4>2. loop[1] = seqs[1] /\ <<>> \o seqs[1] = seqs[1]
          BY <2>3, <4>1
        <4> QED
          BY <3>1, <4>1, <4>2
      <3>2. CASE k # 0
        <4>1. k \in 1..n /\ Done(loop[k], k)
          BY <2>5, <3>2
        <4>2. loop[k + 1] = loop[k] \o seqs[k + 1]
          <5>1. k + 1 # 1 /\ (k + 1) - 1 = k
            BY <3>2
          <5> QED
            BY <2>3, <2>5, <5>1
        <4> QED
          BY <1>3, <2>5, <4>1, <4>2
      <3> QED
        BY <3>1, <3>2
    <2>6. ASSUME NEW k \in Nat, k \in S PROVE k + 1 \in S
      <3>1. k + 1 \in 1..n => Done(loop[k + 1], k + 1)
        <4> HIDE DEF S
        <4> QED
          BY <2>5, <2>6
      <3> QED
        BY <3>1
    <2>7. \A k \in Nat : k \in S
      <3> HIDE DEF S
      <3> QED
        BY <2>4, <2>6, Inductive
    <2>8. Done(loop[n], n)
      BY <1>5, <2>7
    <2> QED
      BY <2>2, <2>8 DEF Done
  <1> QED
    BY <1>4, <1>5

(* What a loop keeps of a sequence are the elements at the positions, once each. *)
LEMMA KeptLists ==
  ASSUME NEW T, NEW s \in Seq(T), NEW positions
  PROVE  /\ Kept(s, positions) \in Seq(T)
         /\ \E at \in [DOMAIN Kept(s, positions) -> (DOMAIN s) \cap positions] :
              /\ \A l, m \in DOMAIN Kept(s, positions) : at[l] = at[m] => l = m
              /\ \A i \in (DOMAIN s) \cap positions : \E m \in DOMAIN Kept(s, positions) : at[m] = i
              /\ \A m \in DOMAIN Kept(s, positions) : Kept(s, positions)[m] = s[at[m]]
  <1> DEFINE seqs == [i \in 1..Len(s) |-> IF i \in positions THEN <<s[i]>> ELSE <<>>]
             r == Kept(s, positions)
  <1>1. DOMAIN s = 1..Len(s) /\ Len(s) \in Nat /\ seqs \in [1..Len(s) -> Seq(T)]
    OBVIOUS
  <1>2. r = FlattenSeq(seqs)
    BY <1>1 DEF Kept
  <1>3. r \in Seq(T) /\ \E on : ListsTo(r, seqs, Len(s), on)
    <2> HIDE DEF r, seqs
    <2> QED
      BY <1>1, <1>2, Flattened
  <1>4. PICK on : ListsTo(r, seqs, Len(s), on)
    BY <1>3
  <1>5. \A c : c \in CellsTo(seqs, Len(s)) <=> \E i \in (DOMAIN s) \cap positions : c = <<i, 1>>
    <2>1. \A i \in DOMAIN s : DOMAIN seqs[i] = IF i \in positions THEN {1} ELSE {}
      BY <1>1
    <2> HIDE DEF seqs
    <2> QED
      BY <1>1, <2>1 DEF CellsTo
  <1> DEFINE at == [m \in DOMAIN r |-> on[m][1]]
  <1> HIDE DEF r, seqs
  <1>6. \A m \in DOMAIN r : on[m] = <<at[m], 1>> /\ at[m] \in (DOMAIN s) \cap positions
    BY <1>4, <1>5 DEF ListsTo
  <1>7. at \in [DOMAIN r -> (DOMAIN s) \cap positions]
    BY <1>6
  <1>8. \A l, m \in DOMAIN r : at[l] = at[m] => l = m
    BY <1>4, <1>6 DEF ListsTo
  <1>9. ASSUME NEW i \in (DOMAIN s) \cap positions PROVE \E m \in DOMAIN r : at[m] = i
    <2>1. PICK m \in DOMAIN r : on[m] = <<i, 1>>
      BY <1>4, <1>5 DEF ListsTo
    <2> QED
      BY <1>6, <2>1
  <1>10. ASSUME NEW m \in DOMAIN r PROVE r[m] = s[at[m]]
    <2>1. r[m] = seqs[at[m]][1] /\ at[m] \in (DOMAIN s) \cap positions
      BY <1>4, <1>6 DEF ListsTo
    <2> QED
      BY <1>1, <2>1 DEF seqs
  <1> QED
    BY <1>3, <1>7, <1>8, <1>9, <1>10 DEF r

-----------------------------------------------------------------------------
(* How often a sequence holds a value. *)

PlacesOf(s, w) == {i \in DOMAIN s : s[i] = w}

LEMMA PlacesFinite ==
  ASSUME NEW T, NEW s \in Seq(T), NEW w
  PROVE  IsFiniteSet(PlacesOf(s, w)) /\ Cardinality(PlacesOf(s, w)) \in Nat
  <1>1. IsFiniteSet(1..Len(s)) /\ PlacesOf(s, w) \in SUBSET (1..Len(s))
    BY FS_Interval DEF PlacesOf
  <1> QED
    BY <1>1, FS_Subset, FS_CardinalityType

LEMMA PlacesAdd ==
  ASSUME NEW T, NEW s \in Seq(T), NEW t \in Seq(T), NEW w
  PROVE  Cardinality(PlacesOf(s \o t, w)) = Cardinality(PlacesOf(s, w)) + Cardinality(PlacesOf(t, w))
  <1> DEFINE r == s \o t
             tail == {i \in PlacesOf(r, w) : i > Len(s)}
             shift == [i \in PlacesOf(t, w) |-> Len(s) + i]
  <1>1. r \in Seq(T) /\ Len(s) \in Nat /\ Len(t) \in Nat
        /\ DOMAIN s = 1..Len(s) /\ DOMAIN t = 1..Len(t) /\ DOMAIN r = 1..(Len(s) + Len(t))
    OBVIOUS
  <1>2. \A i \in 1..Len(s) : r[i] = s[i]
    BY <1>1
  <1>3. \A i \in 1..Len(t) : r[Len(s) + i] = t[i]
    BY <1>1
  <1> HIDE DEF r
  <1>4. PlacesOf(r, w) = PlacesOf(s, w) \cup tail /\ PlacesOf(s, w) \cap tail = {}
    BY <1>1, <1>2 DEF PlacesOf
  <1>5. shift \in Bijection(PlacesOf(t, w), tail)
    <2>1. ASSUME NEW i \in PlacesOf(t, w) PROVE shift[i] \in tail
      BY <1>1, <1>3 DEF PlacesOf
    <2>2. ASSUME NEW i \in PlacesOf(t, w), NEW j \in PlacesOf(t, w), shift[i] = shift[j] PROVE i = j
      BY <1>1, <2>2 DEF PlacesOf
    <2>3. ASSUME NEW m \in tail PROVE \E i \in PlacesOf(t, w) : shift[i] = m
      <3>1. m \in Nat /\ m - Len(s) \in 1..Len(t) /\ Len(s) + (m - Len(s)) = m /\ r[m] = w
        BY <1>1 DEF PlacesOf
      <3>2. t[m - Len(s)] = w
        BY <1>3, <3>1
      <3> QED
        BY <1>1, <3>1, <3>2 DEF PlacesOf
    <2>4. shift \in [PlacesOf(t, w) -> tail]
      BY <2>1
    <2> HIDE DEF shift, tail
    <2> QED
      BY <2>2, <2>3, <2>4 DEF Bijection, Injection, Surjection, IsInjective
  <1> HIDE DEF shift, tail
  <1>6. /\ IsFiniteSet(PlacesOf(s, w)) /\ Cardinality(PlacesOf(s, w)) \in Nat
        /\ IsFiniteSet(PlacesOf(t, w)) /\ Cardinality(PlacesOf(t, w)) \in Nat
    BY PlacesFinite
  <1>7. IsFiniteSet(tail) /\ Cardinality(tail) = Cardinality(PlacesOf(t, w))
    BY <1>5, <1>6, FS_Bijection DEF ExistsBijection
  <1>8. Cardinality(PlacesOf(s, w) \cup tail) =
          Cardinality(PlacesOf(s, w)) + Cardinality(tail) - Cardinality(PlacesOf(s, w) \cap tail)
    BY <1>6, <1>7, FS_Union
  <1>9. Cardinality(PlacesOf(s, w) \cap tail) = 0
    BY <1>4, FS_EmptySet
  <1>10. Cardinality(PlacesOf(r, w)) = Cardinality(PlacesOf(s, w)) + Cardinality(PlacesOf(t, w))
    BY <1>4, <1>6, <1>7, <1>8, <1>9
  <1> QED
    BY <1>10 DEF r

(* A loop that keeps every place of a value keeps it as often. *)
LEMMA PlacesKept ==
  ASSUME NEW T, NEW s \in Seq(T), NEW positions, NEW w, PlacesOf(s, w) \subseteq positions
  PROVE  Cardinality(PlacesOf(Kept(s, positions), w)) = Cardinality(PlacesOf(s, w))
  <1> DEFINE r == Kept(s, positions)
  <1>1. PICK at \in [DOMAIN r -> (DOMAIN s) \cap positions] :
          /\ \A l, m \in DOMAIN r : at[l] = at[m] => l = m
          /\ \A i \in (DOMAIN s) \cap positions : \E m \in DOMAIN r : at[m] = i
          /\ \A m \in DOMAIN r : r[m] = s[at[m]]
    BY KeptLists
  <1>2. r \in Seq(T)
    BY KeptLists
  <1> DEFINE on == [m \in PlacesOf(r, w) |-> at[m]]
  <1> HIDE DEF r
  <1>3. on \in Bijection(PlacesOf(r, w), PlacesOf(s, w))
    <2>1. ASSUME NEW m \in PlacesOf(r, w) PROVE on[m] \in PlacesOf(s, w)
      BY <1>1 DEF PlacesOf
    <2>2. ASSUME NEW l \in PlacesOf(r, w), NEW m \in PlacesOf(r, w), on[l] = on[m] PROVE l = m
      BY <1>1, <2>2 DEF PlacesOf
    <2>3. ASSUME NEW i \in PlacesOf(s, w) PROVE \E m \in PlacesOf(r, w) : on[m] = i
      <3>1. i \in (DOMAIN s) \cap positions /\ s[i] = w
        BY DEF PlacesOf
      <3>2. PICK m \in DOMAIN r : at[m] = i
        BY <1>1, <3>1
      <3>3. m \in PlacesOf(r, w)
        BY <1>1, <3>1, <3>2 DEF PlacesOf
      <3> QED
        BY <3>2, <3>3
    <2>4. on \in [PlacesOf(r, w) -> PlacesOf(s, w)]
      BY <2>1
    <2> HIDE DEF on
    <2> QED
      BY <2>2, <2>3, <2>4 DEF Bijection, Injection, Surjection, IsInjective
  <1>4. IsFiniteSet(PlacesOf(r, w))
    BY <1>2, PlacesFinite
  <1> QED
    BY <1>3, <1>4, FS_Bijection DEF ExistsBijection, r

-----------------------------------------------------------------------------
(* Sorting: when E[i] is what comes before i in a total order of 1..n, there *)
(* is one element for each rank, and the rank grows along the order.         *)
LEMMA Ranked ==
  ASSUME NEW n \in Nat, NEW E \in [1..n -> SUBSET (1..n)],
         \A i \in 1..n : i \notin E[i],
         \A i, j \in 1..n : i # j => i \in E[j] \/ j \in E[i],
         \A i, j \in 1..n : j \in E[i] => E[j] \subseteq E[i]
  PROVE  /\ \A i \in 1..n : Cardinality(E[i]) \in 0..(n - 1)
         /\ \A i, j \in 1..n : j \in E[i] => Cardinality(E[j]) < Cardinality(E[i])
         /\ \A k \in 1..n : \E i \in 1..n : Cardinality(E[i]) = k - 1
  <1>1. IsFiniteSet(1..n) /\ Cardinality(1..n) = n
    BY FS_Interval
  <1>2. \A i \in 1..n : IsFiniteSet(E[i]) /\ Cardinality(E[i]) \in Nat
    BY <1>1, FS_Subset, FS_CardinalityType
  <1>3. ASSUME NEW i \in 1..n, NEW j \in 1..n, j \in E[i]
        PROVE  Cardinality(E[j]) < Cardinality(E[i])
    <2>1. E[j] \in SUBSET E[i] /\ E[j] # E[i]
      BY <1>3
    <2>2. Cardinality(E[j]) <= Cardinality(E[i]) /\ Cardinality(E[j]) # Cardinality(E[i])
      BY <1>2, <2>1, FS_Subset
    <2> QED
      BY <1>2, <2>2
  <1>4. ASSUME NEW i \in 1..n PROVE Cardinality(E[i]) \in 0..(n - 1)
    <2>1. E[i] \in SUBSET (1..n) /\ E[i] # 1..n
      OBVIOUS
    <2>2. Cardinality(E[i]) <= n /\ Cardinality(E[i]) # n
      BY <1>1, <2>1, FS_Subset
    <2> QED
      BY <1>2, <2>2
  <1> DEFINE rank == [i \in 1..n |-> Cardinality(E[i]) + 1]
  <1>5. rank \in [1..n -> 1..n]
    BY <1>4
  <1>6. ASSUME NEW i \in 1..n, NEW j \in 1..n, i # j PROVE Cardinality(E[i]) # Cardinality(E[j])
    <2>1. CASE i \in E[j]
      BY <1>2, <1>3, <2>1
    <2>2. CASE j \in E[i]
      BY <1>2, <1>3, <2>2
    <2> QED
      BY <1>6, <2>1, <2>2
  <1>7. rank \in Injection(1..n, 1..n)
    <2>1. \A i, j \in 1..n : rank[i] = rank[j] => i = j
      BY <1>2, <1>6
    <2> HIDE DEF rank
    <2> QED
      BY <1>5, <2>1 DEF Injection, IsInjective
  <1>8. rank \in Surjection(1..n, 1..n)
    <2> HIDE DEF rank
    <2> QED
      BY <1>1, <1>7, FS_Injection
  <1>9. \A k \in 1..n : \E i \in 1..n : Cardinality(E[i]) = k - 1
    <2> TAKE k \in 1..n
    <2>1. PICK i \in 1..n : rank[i] = k
      BY <1>8 DEF Surjection
    <2> QED
      BY <1>2, <2>1
  <1> QED
    BY <1>3, <1>4, <1>9
=============================================================================
