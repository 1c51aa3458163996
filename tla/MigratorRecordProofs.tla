------------------------- MODULE MigratorRecordProofs -------------------------
(***************************************************************************)
(* What the state table says of the schema, for any number of processes,   *)
(* connections, versions and files: theorems about Migrator that rest on   *)
(* the mutual exclusion of MigratorProofs.                                 *)
(***************************************************************************)
EXTENDS MigratorProofs

-----------------------------------------------------------------------------
(* The rows and the schema as sets with an order. *)

UniqueRows == \A i, j \in DOMAIN table : table[i].ver = table[j].ver => i = j
UniqueSchema == \A p, q \in DOMAIN schema : schema[p] = schema[q] => p = q

(* v and w are both successful, and v was recorded first. *)
Precedes(v, w) ==
  \E i, j \in DOMAIN table :
    i < j /\ table[i].ver = v /\ table[i].ok /\ table[j].ver = w /\ table[j].ok

(* v and w are both in effect, and v was applied first. *)
Under(v, w) == \E p, q \in DOMAIN schema : p < q /\ schema[p] = v /\ schema[q] = w

TableInv == DbInv /\ UniqueRows /\ UniqueSchema

(* What removing one element does to a sequence. *)
LEMMA RemoveAtIs ==
  ASSUME NEW S, NEW s \in Seq(S), NEW n \in DOMAIN s
  PROVE  /\ RemoveAt(s, n) \in Seq(S)
         /\ Len(RemoveAt(s, n)) = Len(s) - 1
         /\ \A j \in 1..(Len(s) - 1) : RemoveAt(s, n)[j] = IF j < n THEN s[j] ELSE s[j + 1]
  <1> DEFINE a == SubSeq(s, 1, n - 1)
             b == SubSeq(s, n + 1, Len(s))
  <1>1. n \in 1..Len(s) /\ Len(s) \in Nat
    OBVIOUS
  <1>2. a \in Seq(S) /\ Len(a) = n - 1 /\ \A j \in 1..(n - 1) : a[j] = s[j]
    BY <1>1, SubSeqProperties
  <1>3. b \in Seq(S) /\ Len(b) = Len(s) - n /\ \A j \in 1..(Len(s) - n) : b[j] = s[n + j]
    BY <1>1, SubSeqProperties
  <1>4. RemoveAt(s, n) = a \o b
    BY DEF RemoveAt
  <1> HIDE DEF a, b
  <1>5. a \o b \in Seq(S) /\ Len(a \o b) = Len(s) - 1
    BY <1>1, <1>2, <1>3
  <1>6. ASSUME NEW j \in 1..(Len(s) - 1)
        PROVE  (a \o b)[j] = IF j < n THEN s[j] ELSE s[j + 1]
    <2>1. CASE j < n
      BY <1>1, <1>2, <1>3, <1>6, <2>1
    <2>2. CASE j >= n
      <3>1. (a \o b)[j] = b[j - (n - 1)]
        BY <1>1, <1>2, <1>3, <1>6, <2>2
      <3>2. b[j - (n - 1)] = s[n + (j - (n - 1))]
        BY <1>1, <1>3, <1>6, <2>2
      <3>3. n + (j - (n - 1)) = j + 1
        BY <1>1, <1>6
      <3>4. ~(j < n)
        BY <1>1, <1>6, <2>2
      <3> QED
        BY <3>1, <3>2, <3>3, <3>4
    <2>3. j < n \/ j >= n
      BY <1>1, <1>6
    <2> QED
      BY <2>1, <2>2, <2>3
  <1> QED
    BY <1>4, <1>5, <1>6

(* The elements left are the others, in the order they had. *)
LEMMA RemoveAtKeeps ==
  ASSUME NEW S, NEW s \in Seq(S), NEW n \in DOMAIN s
  PROVE  \E f \in [DOMAIN RemoveAt(s, n) -> DOMAIN s] :
           /\ \A j \in DOMAIN RemoveAt(s, n) : RemoveAt(s, n)[j] = s[f[j]] /\ f[j] # n
           /\ \A j, l \in DOMAIN RemoveAt(s, n) : j < l => f[j] < f[l]
           /\ \A i \in DOMAIN s : i # n => \E j \in DOMAIN RemoveAt(s, n) : f[j] = i
  <1> DEFINE w == RemoveAt(s, n)
             f == [j \in DOMAIN w |-> IF j < n THEN j ELSE j + 1]
  <1>1. /\ w \in Seq(S) /\ Len(w) = Len(s) - 1
        /\ \A j \in 1..(Len(s) - 1) : w[j] = IF j < n THEN s[j] ELSE s[j + 1]
    BY RemoveAtIs
  <1> HIDE DEF w
  <1>2. DOMAIN w = 1..(Len(s) - 1) /\ DOMAIN s = 1..Len(s) /\ Len(s) \in Nat
    BY <1>1
  <1>3. f \in [DOMAIN w -> DOMAIN s] /\ \A j \in DOMAIN w : f[j] = IF j < n THEN j ELSE j + 1
    BY <1>2
  <1> HIDE DEF f
  <1>4. \A j \in DOMAIN w : w[j] = s[f[j]] /\ f[j] # n
    BY <1>1, <1>2, <1>3
  <1>5. \A j, l \in DOMAIN w : j < l => f[j] < f[l]
    BY <1>2, <1>3
  <1>6. ASSUME NEW i \in DOMAIN s, i # n
        PROVE  \E j \in DOMAIN w : f[j] = i
    <2>1. CASE i < n
      BY <1>2, <1>3, <2>1
    <2>2. CASE i > n
      <3>1. i - 1 \in DOMAIN w /\ ~(i - 1 < n) /\ (i - 1) + 1 = i
        BY <1>2, <2>2
      <3> QED
        BY <1>3, <3>1
    <2> QED
      BY <1>2, <1>6, <2>1, <2>2
  <1> QED
    BY <1>3, <1>4, <1>5, <1>6 DEF w

(* Every row of another version stays, in the order it had. *)
LEMMA RowsLeft ==
  ASSUME TableInv, NEW v \in Versions
  PROVE  /\ RowsWithout(v) \in Seq(Rows)
         /\ \E f \in [DOMAIN RowsWithout(v) -> DOMAIN table] :
              /\ \A j \in DOMAIN RowsWithout(v) :
                   RowsWithout(v)[j] = table[f[j]] /\ table[f[j]].ver # v
              /\ \A j, l \in DOMAIN RowsWithout(v) : j < l => f[j] < f[l]
              /\ \A i \in DOMAIN table :
                   table[i].ver # v => \E j \in DOMAIN RowsWithout(v) : f[j] = i
  <1>1. table \in Seq(Rows)
    BY DEF TableInv, DbInv
  <1>2. CASE ~HasRow(v)
    <2>1. RowsWithout(v) = table
      BY <1>2 DEF RowsWithout
    <2> DEFINE f == [j \in DOMAIN table |-> j]
    <2>2. f \in [DOMAIN table -> DOMAIN table] /\ \A j \in DOMAIN table : f[j] = j
      OBVIOUS
    <2> HIDE DEF f
    <2> QED
      BY <1>1, <1>2, <2>1, <2>2 DEF HasRow
  <1>3. CASE HasRow(v)
    <2>1. RowIndex(v) \in DOMAIN table /\ table[RowIndex(v)].ver = v
      BY <1>3 DEF HasRow, RowIndex
    <2>2. RowsWithout(v) = RemoveAt(table, RowIndex(v))
      BY <1>3 DEF RowsWithout
    <2>3. \A i \in DOMAIN table : i # RowIndex(v) <=> table[i].ver # v
      BY <2>1 DEF TableInv, UniqueRows
    <2>4. RowsWithout(v) \in Seq(Rows)
      BY <1>1, <2>1, <2>2, RemoveAtIs
    <2>5. PICK f \in [DOMAIN RowsWithout(v) -> DOMAIN table] :
           /\ \A j \in DOMAIN RowsWithout(v) : RowsWithout(v)[j] = table[f[j]] /\ f[j] # RowIndex(v)
           /\ \A j, l \in DOMAIN RowsWithout(v) : j < l => f[j] < f[l]
           /\ \A i \in DOMAIN table :
                i # RowIndex(v) => \E j \in DOMAIN RowsWithout(v) : f[j] = i
      BY <1>1, <2>1, <2>2, RemoveAtKeeps
    <2> QED
      BY <2>3, <2>4, <2>5
  <1> QED
    BY <1>2, <1>3

LEMMA SchemaLeft ==
  ASSUME TableInv, NEW v \in Versions
  PROVE  /\ SchemaWithout(v) \in Seq(Versions)
         /\ \E f \in [DOMAIN SchemaWithout(v) -> DOMAIN schema] :
              /\ \A j \in DOMAIN SchemaWithout(v) :
                   SchemaWithout(v)[j] = schema[f[j]] /\ schema[f[j]] # v
              /\ \A j, l \in DOMAIN SchemaWithout(v) : j < l => f[j] < f[l]
              /\ \A i \in DOMAIN schema :
                   schema[i] # v => \E j \in DOMAIN SchemaWithout(v) : f[j] = i
  <1>1. schema \in Seq(Versions)
    BY DEF TableInv, DbInv
  <1>2. CASE ~InSchema(v)
    <2>1. SchemaWithout(v) = schema
      BY <1>2 DEF SchemaWithout
    <2> DEFINE f == [j \in DOMAIN schema |-> j]
    <2>2. f \in [DOMAIN schema -> DOMAIN schema] /\ \A j \in DOMAIN schema : f[j] = j
      OBVIOUS
    <2> HIDE DEF f
    <2> QED
      BY <1>1, <1>2, <2>1, <2>2 DEF InSchema
  <1>3. CASE InSchema(v)
    <2> DEFINE n == CHOOSE i \in DOMAIN schema : schema[i] = v
    <2>1. n \in DOMAIN schema /\ schema[n] = v
      BY <1>3 DEF InSchema
    <2>2. SchemaWithout(v) = RemoveAt(schema, n)
      BY <1>3 DEF SchemaWithout
    <2> HIDE DEF n
    <2>3. \A i \in DOMAIN schema : i # n <=> schema[i] # v
      BY <2>1 DEF TableInv, UniqueSchema
    <2>4. SchemaWithout(v) \in Seq(Versions)
      BY <1>1, <2>1, <2>2, RemoveAtIs
    <2>5. PICK f \in [DOMAIN SchemaWithout(v) -> DOMAIN schema] :
           /\ \A j \in DOMAIN SchemaWithout(v) : SchemaWithout(v)[j] = schema[f[j]] /\ f[j] # n
           /\ \A j, l \in DOMAIN SchemaWithout(v) : j < l => f[j] < f[l]
           /\ \A i \in DOMAIN schema : i # n => \E j \in DOMAIN SchemaWithout(v) : f[j] = i
      BY <1>1, <2>1, <2>2, RemoveAtKeeps
    <2> QED
      BY <2>3, <2>4, <2>5
  <1> QED
    BY <1>2, <1>3

-----------------------------------------------------------------------------
(* The three ways a step changes the database. *)

(* A DELETE of v's row takes v off the record and nothing else. *)
LEMMA RowDeleted ==
  ASSUME TableInv, NEW v \in Versions, table' = RowsWithout(v)
  PROVE  /\ table' \in Seq(Rows) /\ UniqueRows'
         /\ \A u : Succeeded(u)' <=> Succeeded(u) /\ u # v
         /\ \A u, w : Precedes(u, w)' <=> Precedes(u, w) /\ u # v /\ w # v
         /\ \A i \in DOMAIN table :
              table[i].ver # v => \E j \in DOMAIN table' : table'[j] = table[i]
  <1>1. table' \in Seq(Rows)
    BY RowsLeft
  <1>2. PICK f \in [DOMAIN table' -> DOMAIN table] :
           /\ \A j \in DOMAIN table' : table'[j] = table[f[j]] /\ table[f[j]].ver # v
           /\ \A j, l \in DOMAIN table' : j < l => f[j] < f[l]
           /\ \A i \in DOMAIN table : table[i].ver # v => \E j \in DOMAIN table' : f[j] = i
    BY RowsLeft
  <1>3. DOMAIN table \subseteq Nat /\ DOMAIN table' \subseteq Nat
    BY <1>1 DEF TableInv, DbInv
  <1>4. \A i \in DOMAIN table : table[i].ver # v => \E j \in DOMAIN table' : table'[j] = table[i]
    BY <1>2
  <1>5. UniqueRows'
    <2> SUFFICES ASSUME NEW j \in DOMAIN table', NEW l \in DOMAIN table', table'[j].ver = table'[l].ver
                 PROVE  j = l
      BY DEF UniqueRows
    <2>1. f[j] = f[l]
      BY <1>2 DEF TableInv, UniqueRows
    <2> QED
      BY <1>2, <1>3, <2>1
  <1>6. ASSUME NEW u PROVE Succeeded(u)' <=> Succeeded(u) /\ u # v
    BY <1>2 DEF Succeeded
  <1>7. ASSUME NEW u, NEW w PROVE Precedes(u, w)' <=> Precedes(u, w) /\ u # v /\ w # v
    <2>1. Precedes(u, w)' => Precedes(u, w) /\ u # v /\ w # v
      BY <1>2 DEF Precedes
    <2>2. ASSUME Precedes(u, w), u # v, w # v PROVE Precedes(u, w)'
      <3>1. PICK i, k \in DOMAIN table :
              i < k /\ table[i].ver = u /\ table[i].ok /\ table[k].ver = w /\ table[k].ok
        BY <2>2 DEF Precedes
      <3>2. PICK j, l \in DOMAIN table' : f[j] = i /\ f[l] = k
        BY <1>2, <2>2, <3>1
      <3>3. j < l
        BY <1>2, <1>3, <3>1, <3>2
      <3> QED
        BY <1>2, <3>1, <3>2, <3>3 DEF Precedes
    <2> QED
      BY <2>1, <2>2
  <1> QED
    BY <1>1, <1>4, <1>5, <1>6, <1>7

(* An upsert of v's row makes it the last one, and leaves the others. *)
LEMMA RowUpserted ==
  ASSUME TableInv, NEW v \in Versions, NEW row \in Rows, row.ver = v,
         table' = Append(RowsWithout(v), row)
  PROVE  /\ table' \in Seq(Rows) /\ UniqueRows'
         /\ \A u : u # v => (Succeeded(u)' <=> Succeeded(u))
         /\ Succeeded(v)' <=> row.ok
         /\ \A u, w : u # v /\ w # v => (Precedes(u, w)' <=> Precedes(u, w))
         /\ \A u : ~Precedes(v, u)'
         /\ row.ok => \A u : u # v /\ Succeeded(u) => Precedes(u, v)'
         /\ \A i \in DOMAIN table :
              table[i].ver # v => \E j \in DOMAIN table' : table'[j] = table[i]
  <1> DEFINE W == RowsWithout(v)
             n == Len(W) + 1
  <1>1. W \in Seq(Rows)
    BY RowsLeft
  <1>2. PICK f \in [DOMAIN W -> DOMAIN table] :
           /\ \A j \in DOMAIN W : W[j] = table[f[j]] /\ table[f[j]].ver # v
           /\ \A j, l \in DOMAIN W : j < l => f[j] < f[l]
           /\ \A i \in DOMAIN table : table[i].ver # v => \E j \in DOMAIN W : f[j] = i
    BY RowsLeft
  <1>3. table' = Append(W, row)
    OBVIOUS
  <1> HIDE DEF W
  <1>4. /\ n \in Nat /\ DOMAIN W = 1..(n - 1) /\ DOMAIN table' = 1..n
        /\ table' \in Seq(Rows)
        /\ table'[n] = row /\ \A j \in DOMAIN W : table'[j] = W[j]
        /\ DOMAIN table \subseteq Nat
    BY <1>1, <1>3 DEF TableInv, DbInv
  <1> HIDE DEF n
  <1>5. /\ n \in DOMAIN table'
        /\ \A j \in DOMAIN table' : j # n => j \in DOMAIN W /\ j < n
        /\ \A j \in DOMAIN W : j \in DOMAIN table' /\ j < n
    BY <1>4
  <1>6. \A j \in DOMAIN W : table'[j] = table[f[j]] /\ table'[j].ver # v
    BY <1>2, <1>4
  <1>7. \A j \in DOMAIN table' : table'[j].ver = v <=> j = n
    BY <1>4, <1>5, <1>6
  <1>8. \A i \in DOMAIN table : table[i].ver # v => \E j \in DOMAIN table' : table'[j] = table[i]
    BY <1>2, <1>5, <1>6
  <1>9. UniqueRows'
    <2> SUFFICES ASSUME NEW j \in DOMAIN table', NEW l \in DOMAIN table', table'[j].ver = table'[l].ver
                 PROVE  j = l
      BY DEF UniqueRows
    <2>1. CASE j = n \/ l = n
      BY <1>4, <1>7, <2>1
    <2>2. CASE j # n /\ l # n
      <3>1. j \in DOMAIN W /\ l \in DOMAIN W
        BY <1>5, <2>2
      <3>2. f[j] = f[l]
        BY <1>2, <1>6, <3>1 DEF TableInv, UniqueRows
      <3>3. j \in Nat /\ l \in Nat /\ f[j] \in Nat
        BY <1>2, <1>4, <3>1
      <3> QED
        BY <1>2, <3>1, <3>2, <3>3
    <2> QED
      BY <2>1, <2>2
  <1>10. ASSUME NEW u, u # v PROVE Succeeded(u)' <=> Succeeded(u)
    <2>1. Succeeded(u)' => Succeeded(u)
      BY <1>2, <1>5, <1>6, <1>7, <1>10 DEF Succeeded
    <2>2. Succeeded(u) => Succeeded(u)'
      BY <1>8, <1>10 DEF Succeeded
    <2> QED
      BY <2>1, <2>2
  <1>11. Succeeded(v)' <=> row.ok
    BY <1>4, <1>5, <1>7 DEF Succeeded
  <1>12. ASSUME NEW u, NEW w, u # v, w # v PROVE Precedes(u, w)' <=> Precedes(u, w)
    <2>1. ASSUME Precedes(u, w)' PROVE Precedes(u, w)
      <3>1. PICK j, l \in DOMAIN table' :
              j < l /\ table'[j].ver = u /\ table'[j].ok /\ table'[l].ver = w /\ table'[l].ok
        BY <2>1 DEF Precedes
      <3>2. j \in DOMAIN W /\ l \in DOMAIN W
        BY <1>4, <1>5, <1>7, <1>12, <3>1
      <3> QED
        BY <1>2, <1>6, <3>1, <3>2 DEF Precedes
    <2>2. ASSUME Precedes(u, w) PROVE Precedes(u, w)'
      <3>1. PICK i, k \in DOMAIN table :
              i < k /\ table[i].ver = u /\ table[i].ok /\ table[k].ver = w /\ table[k].ok
        BY <2>2 DEF Precedes
      <3>2. PICK j, l \in DOMAIN W : f[j] = i /\ f[l] = k
        BY <1>2, <1>12, <3>1
      <3>3. j < l
        <4>1. j \in Nat /\ l \in Nat /\ i \in Nat /\ k \in Nat
          BY <1>4
        <4> QED
          BY <1>2, <3>1, <3>2, <4>1
      <3> QED
        BY <1>5, <1>6, <3>1, <3>2, <3>3 DEF Precedes
    <2> QED
      BY <2>1, <2>2
  <1>13. ASSUME NEW u PROVE ~Precedes(v, u)'
    BY <1>4, <1>5, <1>7 DEF Precedes
  <1>14. ASSUME row.ok, NEW u, u # v, Succeeded(u) PROVE Precedes(u, v)'
    <2>1. PICK i \in DOMAIN table : table[i].ver = u /\ table[i].ok
      BY <1>14 DEF Succeeded
    <2>2. PICK j \in DOMAIN W : f[j] = i
      BY <1>2, <1>14, <2>1
    <2> QED
      BY <1>4, <1>5, <1>6, <1>7, <1>14, <2>1, <2>2 DEF Precedes
  <1> QED
    BY <1>4, <1>8, <1>9, <1>10, <1>11, <1>12, <1>13, <1>14

(* A version that is applied goes on top, unless it is already in effect. *)
LEMMA VersionApplied ==
  ASSUME TableInv, NEW v \in Versions, ApplyCommits(v)
  PROVE  /\ schema' \in Seq(Versions) /\ UniqueSchema'
         /\ \A u : InSchema(u)' <=> InSchema(u) \/ u = v
         /\ \A u, w : Under(u, w) => Under(u, w)'
         /\ ~InSchema(v) => /\ schema' = Append(schema, v)
                            /\ \A u : InSchema(u) => Under(u, v)'
                            /\ schema' # <<>> /\ schema'[Len(schema')] = v
  <1>1. schema \in Seq(Versions) /\ UniqueSchema
    BY DEF TableInv, DbInv
  <1>2. CASE InSchema(v)
    <2>1. schema' = schema
      BY <1>2 DEF ApplyCommits
    <2> QED
      BY <1>1, <1>2, <2>1 DEF UniqueSchema, InSchema, Under
  <1>3. CASE ~InSchema(v)
    <2> DEFINE n == Len(schema) + 1
    <2>1. schema' = Append(schema, v)
      BY <1>3 DEF ApplyCommits
    <2>2. /\ n \in Nat /\ DOMAIN schema = 1..(n - 1) /\ DOMAIN schema' = 1..n /\ Len(schema') = n
          /\ schema' \in Seq(Versions) /\ schema' # <<>>
          /\ schema'[n] = v /\ \A p \in DOMAIN schema : schema'[p] = schema[p]
      BY <1>1, <2>1
    <2> HIDE DEF n
    <2>3. /\ n \in DOMAIN schema'
          /\ \A p \in DOMAIN schema' : p # n => p \in DOMAIN schema /\ p < n
          /\ \A p \in DOMAIN schema : p \in DOMAIN schema' /\ p < n
      BY <2>2
    <2>4. \A p \in DOMAIN schema' : schema'[p] = v <=> p = n
      BY <1>3, <2>2, <2>3 DEF InSchema
    <2>5. UniqueSchema'
      BY <1>1, <2>2, <2>3, <2>4 DEF UniqueSchema
    <2>6. \A u : InSchema(u)' <=> InSchema(u) \/ u = v
      BY <2>2, <2>3 DEF InSchema
    <2>7. \A u, w : Under(u, w) => Under(u, w)'
      BY <2>2, <2>3 DEF Under
    <2>8. \A u : InSchema(u) => Under(u, v)'
      BY <2>2, <2>3 DEF InSchema, Under
    <2> QED
      BY <2>1, <2>2, <2>5, <2>6, <2>7, <2>8
  <1> QED
    BY <1>2, <1>3

(* A version that is reverted leaves the others in their order; the one on *)
(* top is popped.                                                          *)
LEMMA VersionReverted ==
  ASSUME TableInv, NEW v \in Versions, schema' = SchemaWithout(v)
  PROVE  /\ schema' \in Seq(Versions) /\ UniqueSchema'
         /\ \A u : InSchema(u)' <=> InSchema(u) /\ u # v
         /\ \A u, w : Under(u, w) /\ u # v /\ w # v => Under(u, w)'
         /\ schema # <<>> /\ schema[Len(schema)] = v => schema' = Front(schema)
  <1>1. schema \in Seq(Versions) /\ UniqueSchema /\ schema' \in Seq(Versions)
    BY SchemaLeft DEF TableInv, DbInv
  <1>2. PICK f \in [DOMAIN schema' -> DOMAIN schema] :
           /\ \A j \in DOMAIN schema' : schema'[j] = schema[f[j]] /\ schema[f[j]] # v
           /\ \A j, l \in DOMAIN schema' : j < l => f[j] < f[l]
           /\ \A i \in DOMAIN schema : schema[i] # v => \E j \in DOMAIN schema' : f[j] = i
    BY SchemaLeft
  <1>3. DOMAIN schema \subseteq Nat /\ DOMAIN schema' \subseteq Nat
    BY <1>1
  <1>4. UniqueSchema'
    <2> SUFFICES ASSUME NEW j \in DOMAIN schema', NEW l \in DOMAIN schema', schema'[j] = schema'[l]
                 PROVE  j = l
      BY DEF UniqueSchema
    <2>1. f[j] = f[l]
      BY <1>1, <1>2 DEF UniqueSchema
    <2>2. j \in Nat /\ l \in Nat /\ f[j] \in Nat
      BY <1>2, <1>3
    <2> QED
      BY <1>2, <2>1, <2>2
  <1>5. ASSUME NEW u PROVE InSchema(u)' <=> InSchema(u) /\ u # v
    BY <1>2 DEF InSchema
  <1>6. ASSUME NEW u, NEW w, Under(u, w), u # v, w # v PROVE Under(u, w)'
    <2>1. PICK i, k \in DOMAIN schema : i < k /\ schema[i] = u /\ schema[k] = w
      BY <1>6 DEF Under
    <2>2. PICK j, l \in DOMAIN schema' : f[j] = i /\ f[l] = k
      BY <1>2, <1>6, <2>1
    <2>3. j < l
      <3>1. j \in Nat /\ l \in Nat /\ i \in Nat /\ k \in Nat
        BY <1>3
      <3> QED
        BY <1>2, <2>1, <2>2, <3>1
    <2> QED
      BY <1>2, <2>1, <2>2, <2>3 DEF Under
  <1>7. ASSUME schema # <<>>, schema[Len(schema)] = v PROVE schema' = Front(schema)
    <2> DEFINE n == CHOOSE i \in DOMAIN schema : schema[i] = v
    <2>1. Len(schema) \in DOMAIN schema /\ Len(schema) \in Nat
      BY <1>1, <1>7
    <2>2. InSchema(v) /\ n = Len(schema)
      BY <1>1, <1>7, <2>1 DEF InSchema, UniqueSchema
    <2>3. schema' = RemoveAt(schema, n)
      BY <2>2 DEF SchemaWithout
    <2> HIDE DEF n
    <2>4. SubSeq(schema, Len(schema) + 1, Len(schema)) = <<>>
      BY <1>1, <2>1
    <2>5. SubSeq(schema, 1, Len(schema) - 1) \in Seq(Versions)
      BY <1>1, <2>1, SubSeqProperties
    <2>6. RemoveAt(schema, n) = SubSeq(schema, 1, Len(schema) - 1)
      BY <2>2, <2>4, <2>5 DEF RemoveAt
    <2> QED
      BY <2>3, <2>6 DEF Front
  <1> QED
    BY <1>1, <1>4, <1>5, <1>6, <1>7

-----------------------------------------------------------------------------
(* What the steps of a call do to its work and to the database. *)

OthersStay(c) ==
  \A d \in Calls \ {c} : pc'[d] = pc[d] /\ op'[d] = op[d] /\ todo'[d] = todo[d]

Rests(c) == pc'[c] \notin AtWork
SameWork(c) == op'[c] = op[c] /\ todo'[c] = todo[c]

Upserts(c, ok) ==
  table' = Append(RowsWithout(Target(c)), NewRow(c, ok)) /\ UNCHANGED schema

Quiet(c) ==
  /\ UNCHANGED dbVars
  /\ \/ Rests(c)
     \/ SameWork(c) /\ pc'[c] = pc[c]
     \/ SameWork(c) /\ pc[c] \in {"exec", "commit"} /\ pc'[c] \in {"commit", "recordFail"}
Applies(c) ==
  /\ pc[c] = "commit" /\ op[c] = "up" /\ ApplyCommits(Target(c))
  /\ Rests(c) \/ (SameWork(c) /\ pc'[c] \in {"recordOk", "recordFail"})
Reverts(c) ==
  pc[c] = "commit" /\ op[c] = "down" /\ RevertCommits(Target(c)) /\ Rests(c)
Records(c) ==
  /\ pc[c] \in {"recordOk", "recordFail"} /\ Upserts(c, pc[c] = "recordOk")
  /\ Rests(c) \/ (RecordOk(c) /\ pc'[c] = "exec")

CallKind(c) ==
  Quiet(c) \/ QueryUp(c) \/ QueryDown(c) \/ Applies(c) \/ Reverts(c) \/ Records(c)

LEMMA GotoOthers ==
  ASSUME CallInv, NEW c \in Calls, NEW l, Goto(c, l)
  PROVE  pc'[c] = l /\ \A d \in Calls \ {c} : pc'[d] = pc[d]
  BY DEF CallInv, Goto

LEMMA LeaveRests ==
  ASSUME CallInv, NEW c \in Calls, Leave(c) \/ Return(c)
  PROVE  Rests(c) /\ OthersStay(c)
  <1>1. pc' = [pc EXCEPT ![c] = "idle"] \/ pc' = [pc EXCEPT ![c] = "unlock"]
    BY DEF Leave, Return, Goto
  <1>2. op' = [op EXCEPT ![c] = "none"] \/ op' = op
    BY DEF Leave, Return
  <1>3. todo' = [todo EXCEPT ![c] = NoVersions]
    BY DEF Leave, Return
  <1> QED
    BY <1>1, <1>2, <1>3 DEF CallInv, Rests, OthersStay, AtWork

LEMMA UnknownKinds ==
  ASSUME CallInv, NEW c \in Calls, UnknownEffect(c), Rests(c)
  PROVE  Quiet(c) \/ Applies(c) \/ Reverts(c) \/ Records(c)
  BY DEF UnknownEffect, Quiet, Applies, Reverts, Records, Upserts, ApplyCommits

LEMMA AnswerKinds ==
  ASSUME CallInv, NEW c \in Calls, Answer(c)
  PROVE  OthersStay(c) /\ CallKind(c)
  <1>1. CASE EnsureTable(c)
    BY <1>1, GotoOthers DEF EnsureTable, OthersStay, CallKind, Quiet, Rests, AtWork
  <1>2. CASE CheckLoaded(c)
    <2>1. PICK l \in {"query", "read"} : Goto(c, l)
      BY <1>2 DEF CheckLoaded
    <2> QED
      BY <1>2, <2>1, GotoOthers DEF CheckLoaded, OthersStay, CallKind, Quiet, Rests, AtWork
  <1>3. CASE ReadFiles(c)
    BY <1>3, GotoOthers DEF ReadFiles, OthersStay, CallKind, Quiet, Rests, AtWork
  <1>4. CASE ReadFilesFails(c)
    BY <1>4, LeaveRests DEF ReadFilesFails, CallKind, Quiet
  <1>5. CASE QueryUp(c)
    <2>1. PICK l : Goto(c, l)
      BY <1>5 DEF QueryUp
    <2>2. \A d \in Calls \ {c} : todo'[d] = todo[d]
      <3>1. PICK t : todo' = [todo EXCEPT ![c] = t]
        BY <1>5 DEF QueryUp
      <3> QED
        BY <3>1 DEF CallInv
    <2> QED
      BY <1>5, <2>1, <2>2, GotoOthers DEF QueryUp, OthersStay, CallKind
  <1>6. CASE QueryPanics(c)
    BY <1>6, LeaveRests DEF QueryPanics, CallKind, Quiet
  <1>7. CASE QueryStatus(c)
    BY <1>7, LeaveRests DEF QueryStatus, CallKind, Quiet
  <1>8. CASE QueryDown(c)
    <2>1. PICK l : Goto(c, l)
      BY <1>8 DEF QueryDown
    <2>2. \A d \in Calls \ {c} : todo'[d] = todo[d]
      <3>1. todo' = todo \/ \E t : todo' = [todo EXCEPT ![c] = t]
        BY <1>8 DEF QueryDown
      <3> QED
        BY <3>1 DEF CallInv
    <2> QED
      BY <1>8, <2>1, <2>2, GotoOthers DEF QueryDown, OthersStay, CallKind
  <1>9. CASE Exec(c)
    BY <1>9, GotoOthers DEF Exec, OthersStay, CallKind, Quiet, SameWork
  <1>10. CASE NothingDeleted(c)
    BY <1>10, LeaveRests DEF NothingDeleted, CallKind, Quiet
  <1>11. CASE CommitUp(c)
    BY <1>11, GotoOthers DEF CommitUp, OthersStay, CallKind, Applies, SameWork
  <1>12. CASE CommitDown(c)
    BY <1>12, LeaveRests DEF CommitDown, CallKind, Reverts
  <1>13. CASE RecordOk(c)
    <2>1. PICK l \in {"unlock", "exec"} : Goto(c, l)
      BY <1>13 DEF RecordOk
    <2>2. \A d \in Calls \ {c} : todo'[d] = todo[d]
      <3>1. PICK t : todo' = [todo EXCEPT ![c] = t]
        BY <1>13 DEF RecordOk
      <3> QED
        BY <3>1 DEF CallInv
    <2>3. pc[c] = "recordOk" /\ Upserts(c, TRUE) /\ UNCHANGED op
      BY <1>13 DEF RecordOk, Upserts
    <2>4. pc'[c] = l /\ \A d \in Calls \ {c} : pc'[d] = pc[d]
      BY <2>1, GotoOthers
    <2> QED
      BY <1>13, <2>2, <2>3, <2>4 DEF OthersStay, CallKind, Records, Rests, AtWork
  <1>14. CASE RecordFail(c)
    <2>1. pc[c] = "recordFail" /\ Upserts(c, FALSE)
      BY <1>14 DEF RecordFail, Upserts
    <2> QED
      BY <1>14, <2>1, LeaveRests DEF RecordFail, CallKind, Records
  <1>15. CASE Unlock(c)
    BY <1>15, LeaveRests DEF Unlock, CallKind, Quiet
  <1> QED
    BY <1>1, <1>2, <1>3, <1>4, <1>5, <1>6, <1>7, <1>8, <1>9, <1>10, <1>11, <1>12,
       <1>13, <1>14, <1>15 DEF Answer

LEMMA CallKinds ==
  ASSUME CallInv, NEW c \in Calls, CallStep(c)
  PROVE  OthersStay(c) /\ CallKind(c)
  <1>1. ASSUME NEW o \in Ops, Start(c, o) PROVE OthersStay(c) /\ CallKind(c)
    <2>1. FirstStatement(o) \notin AtWork /\ pc'[c] = FirstStatement(o)
          /\ \A d \in Calls \ {c} : pc'[d] = pc[d]
      BY <1>1, GotoOthers DEF Start, FirstStatement, AtWork
    <2>2. \A d \in Calls \ {c} : op'[d] = op[d] /\ todo'[d] = todo[d]
      BY <1>1 DEF Start, CallInv
    <2> QED
      BY <1>1, <2>1, <2>2 DEF Start, OthersStay, CallKind, Quiet, Rests
  <1>2. CASE Take(c)
    <2>1. UNCHANGED <<pc, op, todo, dbVars>>
      BY <1>2 DEF Take, callVars
    <2> QED
      BY <2>1 DEF OthersStay, CallKind, Quiet, SameWork
  <1>3. CASE AcquireLock(c)
    BY <1>3, GotoOthers DEF AcquireLock, OthersStay, CallKind, Quiet, Rests, AtWork
  <1>4. CASE Failure(c)
    <2>1. CASE MigrationFails(c)
      <3>1. CASE Leave(c)
        BY <2>1, <3>1, LeaveRests DEF MigrationFails, CallKind, Quiet
      <3>2. CASE Goto(c, RecordAfterFailure) /\ UNCHANGED <<op, todo>>
        BY <2>1, <3>2, GotoOthers
        DEF MigrationFails, RecordAfterFailure, OthersStay, CallKind, Quiet, SameWork
      <3> QED
        BY <2>1, <3>1, <3>2 DEF MigrationFails
    <2>2. CASE StatementFails(c) \/ UnlockFails(c)
      BY <2>2, LeaveRests DEF StatementFails, UnlockFails, CallKind, Quiet
    <2>3. CASE Timeout(c)
      BY <2>3, LeaveRests, UnknownKinds DEF Timeout, CallKind, Quiet
    <2>4. CASE BusyDropped(c)
      <3>1. UnknownEffect(c)
        BY <2>4 DEF BusyDropped
      <3>2. CASE Leave(c) \/ Return(c)
        BY <3>1, <3>2, LeaveRests, UnknownKinds DEF CallKind
      <3>3. CASE Goto(c, "recordFail") /\ op[c] = "up" /\ pc[c] \in {"exec", "commit"}
                 /\ UNCHANGED <<op, todo>>
        <4>1. pc'[c] = "recordFail" /\ OthersStay(c) /\ SameWork(c)
          BY <3>3, GotoOthers DEF OthersStay, SameWork
        <4>2. Quiet(c) \/ Applies(c)
          BY <3>1, <3>3, <4>1 DEF UnknownEffect, Quiet, Applies
        <4> QED
          BY <4>1, <4>2 DEF CallKind
      <3> QED
        BY <2>4, <3>2, <3>3 DEF BusyDropped
    <2> QED
      BY <1>4, <2>1, <2>2, <2>3, <2>4 DEF Failure
  <1> QED
    BY <1>1, <1>2, <1>3, <1>4, AnswerKinds DEF CallStep

LEMMA SameTarget ==
  ASSUME NEW c \in Calls, todo'[c] = todo[c]
  PROVE  Target(c)' = Target(c)
  BY DEF Target, Left

(* The lock suffices if it lasts, or if a process is the only one to         *)
(* migrate and does not need it.                                             *)
OneProcess == \A c, d \in Calls : c = d
LockSuffices == OneProcess \/ IdleConnectionsLast
Exclusive == OneProcess \/ LockInv

(* The calls at work exclude each other: there is only one. *)
LEMMA OneAtWork ==
  ASSUME OneCallPerRunner, TypeInv, Exclusive,
         NEW c \in Calls, NEW d \in Calls, pc[c] \in AtWork, pc[d] \in AtWork
  PROVE  c = d
  <1>1. InLockedRegion(c) /\ InLockedRegion(d)
    BY DEF TypeInv, CallInv, WorkOK, AtWork, InLockedRegion
  <1> QED
    BY <1>1, LockInvExcludes DEF MutualExclusion, OneCallPerRunner, Exclusive, OneProcess

(* Whatever a process does as a whole, it leaves the database alone and the *)
(* calls of the others.                                                     *)
LEMMA RunnerKinds ==
  ASSUME TypeInv, NEW r \in Runners, RunnerStep(r)
  PROVE  /\ UNCHANGED dbVars
         /\ \A c \in Calls :
              \/ Rests(c) /\ RunnerOf[c] = r
              \/ pc'[c] = pc[c] /\ SameWork(c)
  <1>1. CASE Restart(r)
    BY <1>1 DEF Restart, Rests, SameWork, AtWork
  <1>2. CASE IdleDropped(r)
    BY <1>2 DEF IdleDropped, callVars, SameWork
  <1> QED
    BY <1>1, <1>2 DEF RunnerStep, Crash, Close

-----------------------------------------------------------------------------
(* A version marked successful is in effect. *)

Recorded == \A c \in Calls : pc[c] = "recordOk" => InSchema(Target(c))

RecordInv == TypeInv /\ Exclusive /\ UniqueRows /\ UniqueSchema /\ RecordSound /\ Recorded

LEMMA RecordInvInit == Init => RecordInv
  BY InitTyped, LockInvInit
  DEF Init, RecordInv, Exclusive, UniqueRows, UniqueSchema, RecordSound, Succeeded, Recorded

(* What a step that leaves the database alone keeps. *)
LEMMA DbVarsSame ==
  ASSUME UNCHANGED dbVars
  PROVE  /\ table' = table /\ schema' = schema
         /\ \A u : (Succeeded(u)' <=> Succeeded(u)) /\ (InSchema(u)' <=> InSchema(u))
         /\ \A u, w : (Precedes(u, w)' <=> Precedes(u, w)) /\ (Under(u, w)' <=> Under(u, w))
         /\ UniqueRows' <=> UniqueRows
         /\ UniqueSchema' <=> UniqueSchema
  BY DEF dbVars, Succeeded, InSchema, Precedes, Under, UniqueRows, UniqueSchema

LEMMA UniqueStep ==
  ASSUME TypeInv, UniqueRows, UniqueSchema, NEW c \in Calls, CallKind(c)
  PROVE  UniqueRows' /\ UniqueSchema'
  <1>1. TableInv
    BY DEF TypeInv, TableInv
  <1>2. CASE Quiet(c) \/ QueryUp(c) \/ QueryDown(c)
    <2>1. UNCHANGED dbVars
      BY <1>2 DEF Quiet, QueryUp, QueryDown
    <2> QED
      BY <2>1, DbVarsSame
  <1>3. CASE Applies(c)
    <2>1. Target(c) \in Versions
      BY <1>3, TargetLeft DEF TypeInv, Applies, AtWork
    <2>2. table' = table
      BY <1>3 DEF Applies, ApplyCommits
    <2> QED
      BY <1>1, <1>3, <2>1, <2>2, VersionApplied DEF Applies, UniqueRows
  <1>4. CASE Reverts(c)
    <2>1. Target(c) \in Versions
      BY <1>4, TargetLeft DEF TypeInv, Reverts, AtWork
    <2> QED
      BY <1>1, <1>4, <2>1, VersionReverted, RowDeleted DEF Reverts, RevertCommits
  <1>5. CASE Records(c)
    <2>1. Target(c) \in Versions /\ NewRow(c, pc[c] = "recordOk") \in Rows
      BY <1>5, TargetLeft, NewRowType DEF TypeInv, Records, AtWork
    <2>2. NewRow(c, pc[c] = "recordOk").ver = Target(c)
      BY DEF NewRow
    <2>3. UniqueRows'
      BY <1>1, <1>5, <2>1, <2>2, RowUpserted DEF Records, Upserts
    <2> QED
      BY <1>5, <2>3 DEF Records, Upserts, UniqueSchema
  <1> QED
    BY <1>2, <1>3, <1>4, <1>5 DEF CallKind

LEMMA CallRecords ==
  ASSUME OneCallPerRunner, RecordInv, NEW c \in Calls, CallStep(c)
  PROVE  RecordSound' /\ Recorded'
  <1>1. OthersStay(c) /\ CallKind(c) /\ TableInv
    BY CallKinds DEF RecordInv, TypeInv, TableInv
  <1>2. ASSUME NEW e \in Calls \ {c}
        PROVE  pc'[e] = pc[e] /\ Target(e)' = Target(e)
    BY <1>1, SameTarget DEF OthersStay
  <1>3. CASE Quiet(c) \/ QueryUp(c) \/ QueryDown(c)
    <2>1. UNCHANGED dbVars
      BY <1>3 DEF Quiet, QueryUp, QueryDown
    <2>2. pc'[c] = "recordOk" => pc[c] = "recordOk" /\ Target(c)' = Target(c)
      <3>1. CASE Quiet(c)
        BY <3>1, SameTarget DEF Quiet, Rests, SameWork, AtWork
      <3>2. CASE QueryUp(c) \/ QueryDown(c)
        <4>1. PICK l \in {"unlock", "exec"} : Goto(c, l)
          BY <3>2 DEF QueryUp, QueryDown
        <4> QED
          BY <4>1, GotoOthers DEF RecordInv, TypeInv
      <3> QED
        BY <1>3, <3>1, <3>2
    <2> QED
      BY <1>2, <2>1, <2>2, DbVarsSame DEF RecordInv, RecordSound, Recorded
  <1>4. CASE Applies(c)
    <2>1. Target(c) \in Versions /\ ApplyCommits(Target(c))
      BY <1>4, TargetLeft DEF RecordInv, TypeInv, Applies, AtWork
    <2>2. \A u : Succeeded(u)' <=> Succeeded(u)
      BY <1>4 DEF Applies, ApplyCommits, Succeeded
    <2>3. \A u : InSchema(u)' <=> InSchema(u) \/ u = Target(c)
      BY <1>1, <2>1, VersionApplied
    <2>4. pc'[c] = "recordOk" => Target(c)' = Target(c)
      BY <1>4, SameTarget DEF Applies, Rests, SameWork, AtWork
    <2> QED
      BY <1>2, <2>2, <2>3, <2>4 DEF RecordInv, RecordSound, Recorded
  <1>5. CASE Reverts(c)
    <2>1. Target(c) \in Versions
      BY <1>5, TargetLeft DEF RecordInv, TypeInv, Reverts, AtWork
    <2>2. /\ \A u : Succeeded(u)' <=> Succeeded(u) /\ u # Target(c)
          /\ \A u : InSchema(u)' <=> InSchema(u) /\ u # Target(c)
      BY <1>1, <1>5, <2>1, VersionReverted, RowDeleted DEF Reverts, RevertCommits
    <2>3. \A e \in Calls : pc'[e] # "recordOk"
      BY <1>2, <1>5, OneAtWork DEF RecordInv, Reverts, Rests, AtWork
    <2> QED
      BY <2>2, <2>3 DEF RecordInv, RecordSound, Recorded
  <1>6. CASE Records(c)
    <2> DEFINE ok == pc[c] = "recordOk"
    <2>1. Target(c) \in Versions /\ NewRow(c, ok) \in Rows
      BY <1>6, TargetLeft, NewRowType DEF RecordInv, TypeInv, Records, AtWork
    <2>2. NewRow(c, ok).ver = Target(c) /\ NewRow(c, ok).ok = ok
      BY DEF NewRow
    <2>3. table' = Append(RowsWithout(Target(c)), NewRow(c, ok)) /\ schema' = schema
      BY <1>6 DEF Records, Upserts
    <2>4. /\ \A u : u # Target(c) => (Succeeded(u)' <=> Succeeded(u))
          /\ \A u : u = Target(c) => (Succeeded(u)' <=> NewRow(c, ok).ok)
      <3> HIDE DEF ok
      <3> QED
        BY <1>1, <2>1, <2>2, <2>3, RowUpserted
    <2>5. \A u : InSchema(u)' <=> InSchema(u)
      BY <2>3 DEF InSchema
    <2>6. pc'[c] # "recordOk"
      BY <1>6 DEF Records, Rests, AtWork
    <2>7. RecordSound'
      BY <2>2, <2>4, <2>5 DEF RecordInv, RecordSound, Recorded
    <2> QED
      BY <1>2, <2>5, <2>6, <2>7 DEF RecordInv, Recorded
  <1> QED
    BY <1>1, <1>3, <1>4, <1>5, <1>6 DEF CallKind

LEMMA RecordInvStep ==
  OneCallPerRunner /\ LockSuffices /\ RecordInv /\ [Next]_vars => RecordInv'
  <1> SUFFICES ASSUME OneCallPerRunner, LockSuffices, RecordInv, [Next]_vars
               PROVE  RecordInv'
    OBVIOUS
  <1>1. TypeInv' /\ Exclusive'
    BY StepTyped, LockInvStep DEF RecordInv, Exclusive, LockSuffices, OneProcess
  <1>2. ASSUME NEW c \in Calls, CallStep(c) PROVE RecordInv'
    BY <1>1, <1>2, CallKinds, UniqueStep, CallRecords DEF RecordInv, TypeInv
  <1>3. ASSUME NEW r \in Runners, RunnerStep(r) PROVE RecordInv'
    <2>1. UNCHANGED dbVars
      BY <1>3, RunnerKinds DEF RecordInv
    <2>2. \A c \in Calls : pc'[c] = "recordOk" => pc[c] = "recordOk" /\ Target(c)' = Target(c)
      BY <1>3, RunnerKinds, SameTarget DEF RecordInv, Rests, SameWork, AtWork
    <2> QED
      BY <1>1, <2>1, <2>2, DbVarsSame DEF RecordInv, RecordSound, Recorded
  <1>4. CASE UNCHANGED vars
    <2>1. UNCHANGED dbVars /\ UNCHANGED <<pc, todo>>
      BY <1>4 DEF vars, callVars
    <2>2. \A c \in Calls : Target(c)' = Target(c)
      BY <2>1, SameTarget
    <2> QED
      BY <1>1, <2>1, <2>2, DbVarsSame DEF RecordInv, RecordSound, Recorded
  <1> QED
    BY <1>2, <1>3, <1>4 DEF Next

(* Whatever fails or crashes, a version the state table marks successful is *)
(* in effect: success is recorded after the commit, and the row goes in the *)
(* transaction that undoes the schema.                                      *)
THEOREM RecordsAreSound ==
  ASSUME OneCallPerRunner, LockSuffices
  PROVE  Spec => []RecordSound
  <1>1. Init => RecordInv
    BY RecordInvInit
  <1>2. RecordInv /\ [Next]_vars => RecordInv'
    BY RecordInvStep
  <1>3. RecordInv => RecordSound
    BY DEF RecordInv
  <1> QED
    BY <1>1, <1>2, <1>3, PTL DEF Spec

-----------------------------------------------------------------------------
(* A Runner whose files can be read holds one copy of each up file, or none. *)

(* A source that cannot be read leaves the Runner with the files before it,  *)
(* and the next call reads them a second time.                               *)
FilesReadable == "read" \notin Faults

FilesInv ==
  /\ \A r \in Runners : loaded[r] => ~Ambiguous(r)
  /\ \A r \in Runners : ~Ambiguous(r) => \A v \in Versions :
       copies[r][v] = IF loaded[r] /\ HasFile(r, v, "up") THEN 1 ELSE 0
  /\ \A c \in Calls : pc[c] = "read" => ~loaded[RunnerOf[c]]
  /\ \A c \in Calls : pc[c] = "query" => loaded[RunnerOf[c]]

LEMMA FilesInvInit == Init => FilesInv
  BY RunnerAssumption DEF Init, FilesInv, NoVersions

(* Only the three steps of loadMigrations touch the files or lead to them. *)
LEMMA OtherFiles ==
  ASSUME CallInv, NEW c \in Calls, CallStep(c),
         ~CheckLoaded(c), ~ReadFiles(c), ~ReadFilesFails(c)
  PROVE  /\ UNCHANGED runnerVars
         /\ pc'[c] \in {"read", "query"} => pc'[c] = pc[c]
  <1> DEFINE Ends == UNCHANGED runnerVars /\ (pc'[c] \in {"read", "query"} => pc'[c] = pc[c])
  <1>1. ASSUME NEW o \in Ops, Start(c, o) PROVE Ends
    BY <1>1, GotoOthers DEF Start, FirstStatement
  <1>2. CASE Take(c)
    BY <1>2 DEF Take, callVars
  <1>3. CASE AcquireLock(c)
    BY <1>3, GotoOthers DEF AcquireLock
  <1>4. ASSUME UNCHANGED runnerVars, Leave(c) \/ Return(c) PROVE Ends
    BY <1>4, GotoOthers DEF Leave, Return
  <1>5. ASSUME UNCHANGED runnerVars, NEW l \in PCs \ {"read", "query"}, Goto(c, l) PROVE Ends
    BY <1>5, GotoOthers
  <1>6. CASE Answer(c)
    <2>1. CASE EnsureTable(c) \/ Exec(c) \/ CommitUp(c)
      BY <2>1, <1>5 DEF EnsureTable, Exec, CommitUp, PCs, runnerVars, dbVars
    <2>2. CASE QueryPanics(c) \/ QueryStatus(c) \/ NothingDeleted(c) \/ CommitDown(c)
               \/ RecordFail(c) \/ Unlock(c)
      BY <2>2, <1>4 DEF QueryPanics, QueryStatus, NothingDeleted, CommitDown, RecordFail, Unlock
    <2>3. CASE QueryUp(c) \/ QueryDown(c) \/ RecordOk(c)
      <3>1. UNCHANGED runnerVars /\ \E l \in {"unlock", "exec"} : Goto(c, l)
        BY <2>3 DEF QueryUp, QueryDown, RecordOk
      <3> QED
        BY <3>1, <1>5 DEF PCs
    <2> QED
      BY <1>6, <2>1, <2>2, <2>3 DEF Answer
  <1>7. CASE Failure(c)
    <2>1. CASE MigrationFails(c)
      BY <2>1, <1>4, <1>5 DEF MigrationFails, RecordAfterFailure, PCs
    <2>2. CASE StatementFails(c) \/ UnlockFails(c) \/ Timeout(c)
      BY <2>2, <1>4 DEF StatementFails, UnlockFails, Timeout
    <2>3. CASE BusyDropped(c)
      <3>1. UNCHANGED runnerVars
            /\ (Leave(c) \/ Return(c) \/ Goto(c, "recordFail"))
        BY <2>3 DEF BusyDropped
      <3> QED
        BY <3>1, <1>4, <1>5 DEF PCs
    <2> QED
      BY <1>7, <2>1, <2>2, <2>3 DEF Failure
  <1> QED
    BY <1>1, <1>2, <1>3, <1>6, <1>7 DEF CallStep

LEMMA CallFiles ==
  ASSUME OneCallPerRunner, FilesReadable, TypeInv, FilesInv,
         NEW c \in Calls, CallStep(c)
  PROVE  FilesInv'
  <1> DEFINE r == RunnerOf[c]
  <1>1. OthersStay(c) /\ r \in Runners
    BY CallKinds, RunnerAssumption DEF TypeInv
  <1>2. \A e \in Calls \ {c} : pc'[e] = pc[e] /\ RunnerOf[e] # r
    BY <1>1 DEF OthersStay, OneCallPerRunner
  <1>3. \A q \in Runners : Ambiguous(q)' <=> Ambiguous(q)
    BY DEF Ambiguous
  <1>4. \A q \in Runners : \A v \in Versions : HasFile(q, v, "up")' <=> HasFile(q, v, "up")
    BY DEF HasFile
  <1>5. copies \in [Runners -> Todos] /\ loaded \in [Runners -> BOOLEAN]
    BY DEF TypeInv, RunnerInv
  <1>6. CASE CheckLoaded(c)
    <2>1. UNCHANGED runnerVars /\ pc'[c] = (IF loaded[r] THEN "query" ELSE "read")
      BY <1>6, GotoOthers DEF CheckLoaded, TypeInv
    <2> QED
      BY <1>2, <1>3, <1>4, <2>1 DEF FilesInv, runnerVars
  <1>7. CASE ReadFiles(c)
    <2>1. ~loaded[r] /\ ~Ambiguous(r) /\ pc'[c] = "query"
      BY <1>7, GotoOthers DEF ReadFiles, FilesInv, TypeInv
    <2>2. /\ loaded' = [loaded EXCEPT ![r] = TRUE]
          /\ copies' = [copies EXCEPT ![r] =
               [v \in Versions |-> IF HasFile(r, v, "up") THEN OneMore(copies[r][v]) ELSE copies[r][v]]]
      BY <1>7, <2>1 DEF ReadFiles
    <2>3. \A v \in Versions : copies[r][v] = 0
      BY <1>1, <2>1 DEF FilesInv
    <2>4. OneMore(0) = 1
      BY BoundAssumption DEF OneMore
    <2>5. \A v \in Versions : copies'[r][v] = IF HasFile(r, v, "up") THEN 1 ELSE 0
      BY <1>1, <1>5, <2>2, <2>3, <2>4
    <2>6. loaded'[r] /\ \A q \in Runners \ {r} : (loaded'[q] <=> loaded[q]) /\ copies'[q] = copies[q]
      BY <1>1, <1>5, <2>2
    <2> QED
      BY <1>1, <1>2, <1>3, <1>4, <2>1, <2>5, <2>6, RunnerAssumption DEF FilesInv
  <1>8. CASE ReadFilesFails(c)
    <2>1. Ambiguous(r)
      <3>1. PICK stop \in DOMAIN FilesOf[r] : \E j \in 1..(stop - 1) :
              FilesOf[r][stop].ver = FilesOf[r][j].ver /\ FilesOf[r][stop].dir = FilesOf[r][j].dir
        BY <1>8 DEF ReadFilesFails, FilesReadable
      <3>2. FilesOf[r] \in Seq(FileRecords)
        BY <1>1, FilesAssumption
      <3>3. \A j \in 1..(stop - 1) : j \in DOMAIN FilesOf[r] /\ j # stop
        BY <3>2
      <3> QED
        BY <3>1, <3>3 DEF Ambiguous
    <2>2. loaded' = loaded /\ \A q \in Runners \ {r} : copies'[q] = copies[q]
      BY <1>1, <1>5, <1>8 DEF ReadFilesFails
    <2>3. pc'[c] \notin {"read", "query"}
      BY <1>8, GotoOthers DEF ReadFilesFails, Leave, Return, TypeInv
    <2> QED
      BY <1>1, <1>2, <1>3, <1>4, <2>1, <2>2, <2>3 DEF FilesInv
  <1>9. CASE ~CheckLoaded(c) /\ ~ReadFiles(c) /\ ~ReadFilesFails(c)
    <2>1. UNCHANGED runnerVars /\ (pc'[c] \in {"read", "query"} => pc'[c] = pc[c])
      BY <1>9, OtherFiles DEF TypeInv
    <2> QED
      BY <1>2, <1>3, <1>4, <2>1 DEF FilesInv, runnerVars
  <1> QED
    BY <1>6, <1>7, <1>8, <1>9

LEMMA FilesInvStep ==
  OneCallPerRunner /\ FilesReadable /\ TypeInv /\ FilesInv /\ [Next]_vars => FilesInv'
  <1> SUFFICES ASSUME OneCallPerRunner, FilesReadable, TypeInv, FilesInv, [Next]_vars
               PROVE  FilesInv'
    OBVIOUS
  <1>1. \A q \in Runners : Ambiguous(q)' <=> Ambiguous(q)
    BY DEF Ambiguous
  <1>2. \A q \in Runners : \A v \in Versions : HasFile(q, v, "up")' <=> HasFile(q, v, "up")
    BY DEF HasFile
  <1>3. ASSUME NEW r \in Runners, Restart(r) PROVE FilesInv'
    <2>1. /\ \A c \in Calls : RunnerOf[c] = r => pc'[c] = "idle"
          /\ \A c \in Calls : RunnerOf[c] # r => pc'[c] = pc[c]
          /\ copies' = [copies EXCEPT ![r] = NoVersions]
          /\ loaded' = [loaded EXCEPT ![r] = FALSE]
      BY <1>3 DEF Restart
    <2>2. copies \in [Runners -> Todos] /\ loaded \in [Runners -> BOOLEAN]
      BY DEF TypeInv, RunnerInv
    <2>3. /\ ~loaded'[r] /\ \A v \in Versions : copies'[r][v] = 0
          /\ \A q \in Runners \ {r} : (loaded'[q] <=> loaded[q]) /\ copies'[q] = copies[q]
      BY <2>1, <2>2 DEF NoVersions
    <2> QED
      BY <1>1, <1>2, <2>1, <2>3, RunnerAssumption DEF FilesInv
  <1>4. ASSUME UNCHANGED <<callVars, runnerVars>> PROVE FilesInv'
    BY <1>1, <1>2, <1>4 DEF callVars, runnerVars, FilesInv
  <1>5. ASSUME NEW r \in Runners, RunnerStep(r) PROVE FilesInv'
    BY <1>3, <1>4, <1>5 DEF RunnerStep, Crash, Close, IdleDropped
  <1>6. CASE UNCHANGED vars
    BY <1>4, <1>6 DEF vars
  <1> QED
    BY <1>5, <1>6, CallFiles DEF Next

-----------------------------------------------------------------------------
(* What a call at work has left to do, and the order of the record. *)

(* An Up has each pending version to apply once, and every smaller version  *)
(* of its build is pending too or recorded as successful.                   *)
UpWork(c) ==
  \A u \in Left(c) :
    /\ todo[c][u] = 1
    /\ ~Succeeded(u)
    /\ \A v \in Versions : v < u /\ HasFile(RunnerOf[c], v, "up") => Succeeded(v) \/ v \in Left(c)

(* A Down has the version recorded last. *)
DownWork(c) ==
  \A u \in Left(c) : Succeeded(u) /\ \A v \in Versions : ~Precedes(u, v)

WorkOf(c) == (op[c] = "up" => UpWork(c)) /\ (op[c] = "down" => DownWork(c))

WorkInv == \A c \in Calls : pc[c] \in AtWork => WorkOf(c)

Common(v) == \A r \in Runners : HasFile(r, v, "up")

OrderInv ==
  \A v, w \in Versions : v < w /\ Common(v) /\ Succeeded(w) => Precedes(v, w)

HistoryInv == RecordInv /\ FilesInv /\ WorkInv /\ OrderInv

LEMMA HistoryInvInit == Init => HistoryInv
  BY RecordInvInit, FilesInvInit DEF Init, HistoryInv, WorkInv, OrderInv, AtWork, Succeeded

LEMMA PrecedesSucceeded ==
  ASSUME NEW u, NEW w, Precedes(u, w)
  PROVE  Succeeded(u) /\ Succeeded(w)
  BY DEF Precedes, Succeeded

(* Work depends on the call and on the state table only. *)
LEMMA WorkSame ==
  ASSUME NEW c \in Calls, SameWork(c), table' = table, WorkOf(c)
  PROVE  WorkOf(c)'
  <1>1. \A u : (Succeeded(u)' <=> Succeeded(u)) /\ \A w : Precedes(u, w)' <=> Precedes(u, w)
    BY DEF Succeeded, Precedes
  <1>2. Left(c)' = Left(c)
    BY DEF Left, SameWork
  <1>3. \A v \in Versions : HasFile(RunnerOf[c], v, "up")' <=> HasFile(RunnerOf[c], v, "up")
    BY DEF HasFile
  <1>4. UpWork(c) => UpWork(c)'
    BY <1>1, <1>2, <1>3 DEF UpWork, SameWork
  <1>5. DownWork(c) => DownWork(c)'
    BY <1>1, <1>2 DEF DownWork
  <1> QED
    BY <1>4, <1>5 DEF WorkOf, SameWork

(* Up's list: what its Runner holds once and the record does not have. *)
LEMMA QueryUpWork ==
  ASSUME OneCallPerRunner, TypeInv, FilesInv, NEW c \in Calls, QueryUp(c)
  PROVE  WorkOf(c)'
  <1> DEFINE r == RunnerOf[c]
             seen == copies[r]
  <1>1. r \in Runners /\ pc[c] = "query" /\ op' = op /\ op[c] = "up" /\ UNCHANGED dbVars
    BY RunnerAssumption DEF QueryUp
  <1>2. Seen(c) = {seen}
    BY DEF Seen, OneCallPerRunner
  <1>3. todo' = [todo EXCEPT ![c] = [v \in Versions |-> IF v \in Pending(seen) THEN seen[v] ELSE 0]]
    BY <1>2 DEF QueryUp
  <1>4. \A v \in Versions : seen[v] = IF HasFile(r, v, "up") THEN 1 ELSE 0
    BY <1>1 DEF FilesInv
  <1>5. \A v \in Versions : v \in Pending(seen) <=> HasFile(r, v, "up") /\ ~Succeeded(v)
    BY <1>4 DEF Pending
  <1>6. \A v \in Versions : todo'[c][v] = IF v \in Pending(seen) THEN 1 ELSE 0
    <2>1. todo'[c] = [v \in Versions |-> IF v \in Pending(seen) THEN seen[v] ELSE 0]
      BY <1>3 DEF TypeInv, CallInv
    <2> QED
      BY <1>4, <1>5, <2>1
  <1>7. \A v \in Versions : (v \in Left(c))' <=> v \in Pending(seen)
    BY <1>6 DEF Left
  <1>8. (\A u : Succeeded(u)' <=> Succeeded(u))
        /\ \A v \in Versions : HasFile(r, v, "up")' <=> HasFile(r, v, "up")
    BY <1>1 DEF Succeeded, dbVars, HasFile
  <1>9. Left(c)' \subseteq Versions
    BY DEF Left
  <1>10. UpWork(c)'
    BY <1>5, <1>6, <1>7, <1>8, <1>9 DEF UpWork
  <1> QED
    BY <1>1, <1>10 DEF WorkOf

(* Down's version: the one of the last successful row. *)
LEMMA QueryDownWork ==
  ASSUME TypeInv, UniqueRows, NEW c \in Calls, QueryDown(c), pc'[c] = "exec"
  PROVE  WorkOf(c)'
  <1> DEFINE latest == SelectLastInSeq(table, LAMBDA row : row.ok)
             t == table[latest].ver
  <1>1. /\ latest # 0 /\ todo' = [todo EXCEPT ![c] = [NoVersions EXCEPT ![t] = 1]]
    <2>1. ASSUME Goto(c, "unlock") PROVE FALSE
      BY <2>1, GotoOthers DEF TypeInv
    <2> QED
      BY <2>1 DEF QueryDown
  <1>2. op[c] = "down" /\ op' = op /\ UNCHANGED dbVars
    BY DEF QueryDown
  <1>3. /\ latest \in DOMAIN table /\ t \in Versions
        /\ table[latest].ok /\ \A j \in DOMAIN table : j > latest => ~table[j].ok
    BY <1>1, LatestRow DEF TypeInv
  <1> HIDE DEF latest
  <1>4. Succeeded(t)
    BY <1>3 DEF Succeeded
  <1>5. ASSUME NEW v \in Versions, Precedes(t, v) PROVE FALSE
    <2>1. PICK i, j \in DOMAIN table : i < j /\ table[i].ver = t /\ table[j].ok
      BY <1>5 DEF Precedes
    <2>2. i = latest
      BY <1>3, <2>1 DEF UniqueRows
    <2>3. j > latest
      <3>1. i \in Nat /\ j \in Nat
        BY <2>1 DEF TypeInv, DbInv
      <3> QED
        BY <2>1, <2>2, <3>1
    <2> QED
      BY <1>3, <2>1, <2>3
  <1>6. Left(c)' \subseteq {t}
    <2>1. todo'[c] = [NoVersions EXCEPT ![t] = 1]
      BY <1>1 DEF TypeInv, CallInv
    <2>2. \A v \in Versions \ {t} : todo'[c][v] = 0
      BY <1>3, <2>1 DEF NoVersions
    <2> QED
      BY <2>2 DEF Left
  <1>7. DownWork(c)'
    BY <1>2, <1>4, <1>5, <1>6, DbVarsSame DEF DownWork
  <1> QED
    BY <1>2, <1>7 DEF WorkOf

(* A record takes its version off the list, and it was on it once. *)
LEMMA RecordedWork ==
  ASSUME TypeInv, UniqueRows, UniqueSchema, NEW c \in Calls, WorkOf(c), RecordOk(c)
  PROVE  WorkOf(c)'
  <1> DEFINE t == Target(c)
  <1>1. /\ pc[c] = "recordOk" /\ op[c] = "up" /\ op' = op /\ CallInv
        /\ todo' = [todo EXCEPT ![c] = [todo[c] EXCEPT ![t] = @ - 1]]
        /\ table' = Append(RowsWithout(t), NewRow(c, TRUE))
    BY DEF RecordOk, TypeInv, CallInv, WorkOK
  <1>2. t \in Versions /\ t \in Left(c) /\ NewRow(c, TRUE) \in Rows
    BY <1>1, TargetLeft, NewRowType DEF AtWork, Left
  <1>3. NewRow(c, TRUE).ver = t /\ NewRow(c, TRUE).ok
    BY DEF NewRow
  <1>4. \A u : Succeeded(u)' <=> Succeeded(u) \/ u = t
    <2>1. TableInv
      BY DEF TypeInv, TableInv
    <2> HIDE DEF t
    <2>2. /\ \A u : u # t => (Succeeded(u)' <=> Succeeded(u))
          /\ \A u : u = t => Succeeded(u)'
      BY <1>1, <1>2, <1>3, <2>1, RowUpserted
    <2> QED
      BY <2>2
  <1>5. todo[c] \in Todos /\ todo[c][t] = 1
    BY <1>1, <1>2 DEF CallInv, WorkOf, UpWork
  <1>6. \A v \in Versions : todo'[c][v] = IF v = t THEN 0 ELSE todo[c][v]
    <2>1. todo'[c] = [todo[c] EXCEPT ![t] = 0]
      BY <1>1, <1>5 DEF CallInv
    <2> HIDE DEF t
    <2> QED
      BY <1>5, <2>1 DEF Todos
  <1>7. Left(c)' = Left(c) \ {t}
    BY <1>6 DEF Left
  <1>8. \A v \in Versions : HasFile(RunnerOf[c], v, "up")' <=> HasFile(RunnerOf[c], v, "up")
    BY DEF HasFile
  <1>9. UpWork(c)
    BY <1>1 DEF WorkOf
  <1>10. UpWork(c)'
    <2> HIDE DEF t
    <2> SUFFICES ASSUME NEW u \in Left(c) \ {t}
                 PROVE  /\ todo'[c][u] = 1
                        /\ ~Succeeded(u)'
                        /\ \A v \in Versions : v < u /\ HasFile(RunnerOf[c], v, "up") =>
                             Succeeded(v)' \/ v \in Left(c) \ {t}
      BY <1>7, <1>8 DEF UpWork
    <2>1. u \in Versions
      BY DEF Left
    <2> QED
      BY <1>4, <1>6, <1>9, <2>1 DEF UpWork
  <1> QED
    BY <1>1, <1>10 DEF WorkOf

LEMMA CallWork ==
  ASSUME OneCallPerRunner, HistoryInv, TypeInv', NEW c \in Calls, CallStep(c)
  PROVE  WorkInv'
  <1>1. OthersStay(c) /\ CallKind(c) /\ TypeInv /\ Exclusive /\ UniqueRows /\ UniqueSchema /\ FilesInv
    BY CallKinds DEF HistoryInv, RecordInv, TypeInv
  <1>2. ASSUME NEW e \in Calls \ {c}, pc'[e] \in AtWork PROVE WorkOf(e)'
    <2>1. pc[e] \in AtWork /\ SameWork(e)
      BY <1>1, <1>2 DEF OthersStay, SameWork
    <2>2. pc[c] \notin AtWork
      BY <1>1, <2>1, OneAtWork
    <2>3. table' = table
      BY <1>1, <2>2
         DEF CallKind, Quiet, QueryUp, QueryDown, Applies, Reverts, Records, AtWork, dbVars
    <2>4. WorkOf(e)
      BY <2>1 DEF HistoryInv, WorkInv
    <2> QED
      BY <2>1, <2>3, <2>4, WorkSame
  <1>3. ASSUME pc'[c] \in AtWork PROVE WorkOf(c)'
    <2>1. CASE Quiet(c)
      <3>1. SameWork(c) /\ pc[c] \in AtWork /\ table' = table
        BY <1>3, <2>1 DEF Quiet, Rests, AtWork, dbVars
      <3> QED
        BY <3>1, WorkSame DEF HistoryInv, WorkInv
    <2>2. CASE QueryUp(c)
      BY <1>1, <2>2, QueryUpWork
    <2>3. CASE QueryDown(c)
      <3>1. pc'[c] = "exec"
        <4>1. PICK l \in {"unlock", "exec"} : Goto(c, l)
          BY <2>3 DEF QueryDown
        <4> QED
          BY <1>1, <1>3, <4>1, GotoOthers DEF TypeInv, AtWork
      <3> QED
        BY <1>1, <2>3, <3>1, QueryDownWork
    <2>4. CASE Applies(c)
      <3>1. SameWork(c) /\ pc[c] \in AtWork /\ table' = table
        BY <1>3, <2>4 DEF Applies, ApplyCommits, Rests, AtWork
      <3> QED
        BY <3>1, WorkSame DEF HistoryInv, WorkInv
    <2>5. CASE Reverts(c)
      BY <1>3, <2>5 DEF Reverts, Rests
    <2>6. CASE Records(c)
      <3>1. RecordOk(c) /\ WorkOf(c)
        BY <1>3, <2>6 DEF Records, Rests, RecordOk, AtWork, HistoryInv, WorkInv
      <3> QED
        BY <1>1, <3>1, RecordedWork
    <2> QED
      BY <1>1, <2>1, <2>2, <2>3, <2>4, <2>5, <2>6 DEF CallKind
  <1> QED
    BY <1>2, <1>3 DEF WorkInv

(* What a call records or takes off the record was not a success before, or *)
(* was the last one.                                                        *)
LEMMA RecordsNew ==
  ASSUME HistoryInv, NEW c \in Calls, Records(c)
  PROVE  /\ Target(c) \in Versions /\ ~Succeeded(Target(c))
         /\ NewRow(c, pc[c] = "recordOk") \in Rows
         /\ \A v \in Versions : v < Target(c) /\ Common(v) => Succeeded(v)
  <1>1. CallInv /\ pc[c] \in AtWork /\ op[c] = "up" /\ pc[c] \in {"recordOk", "recordFail"}
    BY DEF Records, AtWork, HistoryInv, RecordInv, TypeInv, CallInv, WorkOK
  <1>2. /\ Target(c) \in Versions /\ Target(c) \in Left(c)
        /\ \A w \in Left(c) : Target(c) <= w
        /\ NewRow(c, pc[c] = "recordOk") \in Rows
    BY <1>1, TargetLeft, NewRowType DEF Left
  <1>3. UpWork(c)
    BY <1>1 DEF HistoryInv, WorkInv, WorkOf
  <1>4. ASSUME NEW v \in Versions, v < Target(c), Common(v) PROVE Succeeded(v)
    <2>1. HasFile(RunnerOf[c], v, "up")
      BY <1>4, RunnerAssumption DEF Common
    <2>2. Succeeded(v) \/ v \in Left(c)
      BY <1>2, <1>3, <1>4, <2>1 DEF UpWork
    <2>3. v \in Nat /\ Target(c) \in Nat
      BY <1>2, VersionAssumption
    <2> QED
      BY <1>2, <1>4, <2>2, <2>3
  <1> QED
    BY <1>2, <1>3, <1>4 DEF UpWork

LEMMA RevertsLast ==
  ASSUME HistoryInv, NEW c \in Calls, Reverts(c)
  PROVE  /\ Target(c) \in Versions /\ Succeeded(Target(c))
         /\ \A v \in Versions : ~Precedes(Target(c), v)
  <1>1. CallInv /\ pc[c] \in AtWork /\ op[c] = "down"
    BY DEF Reverts, AtWork, HistoryInv, RecordInv, TypeInv
  <1>2. Target(c) \in Versions /\ Target(c) \in Left(c)
    BY <1>1, TargetLeft DEF Left
  <1> QED
    BY <1>1, <1>2 DEF HistoryInv, WorkInv, WorkOf, DownWork

LEMMA CallOrder ==
  ASSUME HistoryInv, NEW c \in Calls, CallStep(c)
  PROVE  OrderInv'
  <1>1. CallKind(c) /\ TableInv
    BY CallKinds DEF HistoryInv, RecordInv, TypeInv, TableInv
  <1> SUFFICES ASSUME NEW v \in Versions, NEW w \in Versions, v < w, Common(v), Succeeded(w)'
               PROVE  Precedes(v, w)'
    BY DEF OrderInv, Common, HasFile
  <1>2. v # w
    BY VersionAssumption
  <1>3. Succeeded(w) => Precedes(v, w)
    BY DEF HistoryInv, OrderInv
  <1>4. CASE Quiet(c) \/ QueryUp(c) \/ QueryDown(c)
    BY <1>3, <1>4, DbVarsSame DEF Quiet, QueryUp, QueryDown
  <1>5. CASE Applies(c)
    <2>1. table' = table
      BY <1>5 DEF Applies, ApplyCommits
    <2> QED
      BY <1>3, <2>1 DEF Succeeded, Precedes
  <1>6. CASE Reverts(c)
    <2>1. PICK t \in Versions : t = Target(c)
      BY <1>6, RevertsLast
    <2>2. /\ \A u : Succeeded(u)' <=> Succeeded(u) /\ u # t
          /\ \A x, y : Precedes(x, y)' <=> Precedes(x, y) /\ x # t /\ y # t
      BY <1>1, <1>6, <2>1, RowDeleted DEF Reverts, RevertCommits
    <2>3. v # t
      BY <1>3, <1>6, <2>1, <2>2, RevertsLast
    <2> QED
      BY <1>3, <2>2, <2>3
  <1>7. CASE Records(c)
    <2>1. PICK t \in Versions : t = Target(c)
      BY <1>7, RecordsNew
    <2>2. PICK row \in Rows : row = NewRow(c, pc[c] = "recordOk")
      BY <1>7, RecordsNew
    <2>3. row.ver = t /\ table' = Append(RowsWithout(t), row)
      BY <1>7, <2>1, <2>2 DEF Records, Upserts, NewRow
    <2>4. /\ \A u : u # t => (Succeeded(u)' <=> Succeeded(u))
          /\ Succeeded(t)' <=> row.ok
          /\ \A x, y : x # t /\ y # t => (Precedes(x, y)' <=> Precedes(x, y))
          /\ row.ok => \A u : u # t /\ Succeeded(u) => Precedes(u, t)'
      BY <1>1, <2>3, RowUpserted
    <2>5. ~Succeeded(t) /\ (v < t => Succeeded(v))
      BY <1>7, <2>1, RecordsNew
    <2>6. CASE w = t
      BY <1>2, <2>4, <2>5, <2>6
    <2>7. CASE w # t
      <3>1. Precedes(v, w)
        BY <1>3, <2>4, <2>7
      <3>2. v # t
        BY <2>5, <3>1, PrecedesSucceeded
      <3> QED
        BY <2>4, <2>7, <3>1, <3>2
    <2> QED
      BY <2>6, <2>7
  <1> QED
    BY <1>1, <1>4, <1>5, <1>6, <1>7 DEF CallKind

LEMMA HistoryInvStep ==
  OneCallPerRunner /\ LockSuffices /\ FilesReadable /\ HistoryInv /\ [Next]_vars
    => HistoryInv'
  <1> SUFFICES ASSUME OneCallPerRunner, LockSuffices, FilesReadable, HistoryInv, [Next]_vars
               PROVE  HistoryInv'
    OBVIOUS
  <1>1. RecordInv' /\ FilesInv' /\ TypeInv'
    BY RecordInvStep, FilesInvStep DEF HistoryInv, RecordInv
  <1>2. ASSUME NEW c \in Calls, CallStep(c) PROVE HistoryInv'
    BY <1>1, <1>2, CallWork, CallOrder DEF HistoryInv
  <1>3. ASSUME UNCHANGED dbVars,
               \A c \in Calls : Rests(c) \/ (pc'[c] = pc[c] /\ SameWork(c))
        PROVE  HistoryInv'
    <2>1. WorkInv'
      BY <1>3, WorkSame DEF HistoryInv, WorkInv, Rests, dbVars
    <2>2. OrderInv'
      BY <1>3, DbVarsSame DEF HistoryInv, OrderInv, Common, HasFile
    <2> QED
      BY <1>1, <2>1, <2>2 DEF HistoryInv
  <1>4. ASSUME NEW r \in Runners, RunnerStep(r) PROVE HistoryInv'
    BY <1>3, <1>4, RunnerKinds DEF HistoryInv, RecordInv
  <1>5. CASE UNCHANGED vars
    BY <1>3, <1>5 DEF vars, callVars, SameWork
  <1> QED
    BY <1>2, <1>4, <1>5 DEF Next

(* The successful versions that every build ships are an initial segment of *)
(* them, whatever fails or crashes: an Up stops at its first failure, and a *)
(* Down takes the version recorded last.                                    *)
THEOREM RecordHasNoGaps ==
  ASSUME OneCallPerRunner, LockSuffices, FilesReadable
  PROVE  Spec => []NoGaps
  <1>1. Init => HistoryInv
    BY HistoryInvInit
  <1>2. HistoryInv /\ [Next]_vars => HistoryInv'
    BY HistoryInvStep
  <1>3. HistoryInv => NoGaps
    BY PrecedesSucceeded DEF HistoryInv, OrderInv, NoGaps, Common
  <1> QED
    BY <1>1, <1>2, <1>3, PTL DEF Spec

LEMMA SuccessKept ==
  ASSUME HistoryInv, Next,
         NEW i \in DOMAIN table, table[i].ok,
         ~\E j \in DOMAIN table' : table'[j] = table[i]
  PROVE  \E c \in Calls :
           pc[c] = "commit" /\ op[c] = "down" /\ Target(c) = table[i].ver /\ pc'[c] # "commit"
  <1>1. table' # table
    OBVIOUS
  <1>2. PICK c \in Calls : CallStep(c)
    <2>1. ASSUME NEW r \in Runners, RunnerStep(r) PROVE FALSE
      BY <1>1, <2>1, RunnerKinds DEF HistoryInv, RecordInv, dbVars
    <2> QED
      BY <2>1 DEF Next
  <1>3. CallKind(c) /\ TableInv
    BY <1>2, CallKinds DEF HistoryInv, RecordInv, TypeInv, TableInv
  <1>4. Reverts(c) \/ Records(c)
    BY <1>1, <1>3 DEF CallKind, Quiet, QueryUp, QueryDown, Applies, ApplyCommits, dbVars
  <1>5. CASE Reverts(c)
    <2>1. PICK t \in Versions : t = Target(c)
      BY <1>5, RevertsLast
    <2>2. table[i].ver = t
      BY <1>3, <1>5, <2>1, RowDeleted DEF Reverts, RevertCommits
    <2> QED
      BY <1>5, <2>1, <2>2 DEF Reverts, Rests, AtWork
  <1>6. CASE Records(c)
    <2>1. PICK t \in Versions : t = Target(c)
      BY <1>6, RecordsNew
    <2>2. PICK row \in Rows : row = NewRow(c, pc[c] = "recordOk")
      BY <1>6, RecordsNew
    <2>3. row.ver = t /\ table' = Append(RowsWithout(t), row)
      BY <1>6, <2>1, <2>2 DEF Records, Upserts, NewRow
    <2>4. table[i].ver = t
      BY <1>3, <2>3, RowUpserted
    <2> QED
      BY <1>6, <2>1, <2>4, RecordsNew DEF Succeeded
  <1> QED
    BY <1>4, <1>5, <1>6

(* A successful row is never overwritten, by a failure or by a success: it  *)
(* goes only when a Down that reverts it commits.                           *)
THEOREM SuccessesAreKept ==
  ASSUME OneCallPerRunner, LockSuffices, FilesReadable
  PROVE  Spec => SuccessIsKept
  <1>1. Init => HistoryInv
    BY HistoryInvInit
  <1>2. HistoryInv /\ [Next]_vars => HistoryInv'
    BY HistoryInvStep
  <1> DEFINE RowsStay ==
        \A i \in DOMAIN table :
          table[i].ok =>
            \/ \E j \in DOMAIN table' : table'[j] = table[i]
            \/ \E c \in Calls :
                 pc[c] = "commit" /\ op[c] = "down" /\ Target(c) = table[i].ver /\ pc'[c] # "commit"
  <1>3. HistoryInv /\ [Next]_vars => [RowsStay]_vars
    BY SuccessKept
  <1>4. Spec => [][RowsStay]_vars
    BY <1>1, <1>2, <1>3, PTL DEF Spec
  <1> QED
    BY <1>4 DEF SuccessIsKept

-----------------------------------------------------------------------------
(* As long as the server only refuses migrations, the schema is a ledger.  *)

(* Statements and sessions do not break and processes do not crash: a step *)
(* of applyOne can fail only where the SQL or its COMMIT is refused.       *)
OnlyRefusals == Faults \subseteq {"sql", "commit"}

OrderAgrees == \A u, w \in Versions : Precedes(u, w) => Under(u, w)

AppliedIsTop ==
  \A c \in Calls : pc[c] = "recordOk" => schema # <<>> /\ schema[Len(schema)] = Target(c)

LedgerInv == HistoryInv /\ TableTellsSchema /\ OrderAgrees /\ AppliedIsTop

LEMMA LedgerInvInit == Init => LedgerInv
  BY HistoryInvInit
  DEF Init, LedgerInv, TableTellsSchema, InSchema, Succeeded, OrderAgrees, Precedes, AppliedIsTop

LEMMA OnlyRefusalsFaults == OnlyRefusals => LockSuffices /\ FilesReadable
  BY DEF OnlyRefusals, LockSuffices, IdleConnectionsLast, FilesReadable

(* Nothing but the three commits and records of applyOne and revertOne       *)
(* changes the database, and a version that was applied waits for its record. *)
Idles(c) ==
  /\ UNCHANGED dbVars
  /\ pc'[c] = "recordOk" => pc[c] = "recordOk"
  /\ pc[c] = "recordOk" => pc'[c] = "recordOk" /\ SameWork(c)

LEMMA SteadyKinds ==
  ASSUME OnlyRefusals, TypeInv, NEW c \in Calls, CallStep(c)
  PROVE  Idles(c) \/ CommitUp(c) \/ CommitDown(c) \/ RecordOk(c) \/ RecordFail(c)
  <1>1. CallInv
    BY DEF TypeInv
  <1>2. ASSUME UNCHANGED dbVars, pc[c] # "recordOk", Leave(c) \/ Return(c) PROVE Idles(c)
    BY <1>1, <1>2, GotoOthers DEF Leave, Return, Idles
  <1>3. ASSUME UNCHANGED dbVars, pc[c] # "recordOk",
               NEW l \in PCs \ {"recordOk"}, Goto(c, l)
        PROVE  Idles(c)
    BY <1>1, <1>3, GotoOthers DEF Idles
  <1>4. ASSUME NEW o \in Ops, Start(c, o) PROVE Idles(c)
    BY <1>1, <1>4, GotoOthers DEF Start, FirstStatement, Idles
  <1>5. CASE Take(c)
    BY <1>5 DEF Take, callVars, Idles, SameWork
  <1>6. CASE AcquireLock(c)
    BY <1>3, <1>6 DEF AcquireLock, PCs
  <1>7. CASE Answer(c)
    <2>1. CASE EnsureTable(c) \/ ReadFiles(c) \/ Exec(c)
      BY <1>3, <2>1 DEF EnsureTable, ReadFiles, Exec, PCs
    <2>2. CASE CheckLoaded(c)
      <3>1. PICK l \in {"query", "read"} : Goto(c, l)
        BY <2>2 DEF CheckLoaded
      <3> QED
        BY <1>3, <2>2, <3>1 DEF CheckLoaded, PCs
    <2>3. CASE QueryUp(c) \/ QueryDown(c)
      <3>1. PICK l \in {"unlock", "exec"} : Goto(c, l)
        BY <2>3 DEF QueryUp, QueryDown
      <3> QED
        BY <1>3, <2>3, <3>1 DEF QueryUp, QueryDown, PCs
    <2>4. CASE ReadFilesFails(c) \/ QueryPanics(c) \/ QueryStatus(c) \/ NothingDeleted(c) \/ Unlock(c)
      BY <1>2, <2>4 DEF ReadFilesFails, QueryPanics, QueryStatus, NothingDeleted, Unlock
    <2> QED
      BY <1>7, <2>1, <2>2, <2>3, <2>4 DEF Answer
  <1>8. CASE Failure(c)
    <2>1. MigrationFails(c)
      BY <1>8 DEF Failure, StatementFails, UnlockFails, Timeout, BusyDropped, OnlyRefusals
    <2> QED
      BY <1>2, <1>3, <2>1 DEF MigrationFails, RecordAfterFailure, PCs
  <1> QED
    BY <1>4, <1>5, <1>6, <1>7, <1>8 DEF CallStep

(* Two successful versions were recorded one after the other. *)
LEMMA PrecedesTotal ==
  ASSUME DbInv, NEW u, NEW w, u # w, Succeeded(u), Succeeded(w)
  PROVE  Precedes(u, w) \/ Precedes(w, u)
  <1>1. PICK i \in DOMAIN table : table[i].ver = u /\ table[i].ok
    BY DEF Succeeded
  <1>2. PICK j \in DOMAIN table : table[j].ver = w /\ table[j].ok
    BY DEF Succeeded
  <1>3. i # j /\ i \in Nat /\ j \in Nat
    BY <1>1, <1>2 DEF DbInv
  <1> QED
    BY <1>1, <1>2, <1>3 DEF Precedes

LEMMA UnderTop ==
  ASSUME TableInv, schema # <<>>, NEW u, InSchema(u), u # schema[Len(schema)]
  PROVE  Under(u, schema[Len(schema)])
  <1>1. Len(schema) \in Nat /\ DOMAIN schema = 1..Len(schema) /\ Len(schema) \in DOMAIN schema
    BY DEF TableInv, DbInv
  <1>2. PICK p \in DOMAIN schema : schema[p] = u
    BY DEF InSchema
  <1>3. p < Len(schema)
    BY <1>1, <1>2
  <1> QED
    BY <1>1, <1>2, <1>3 DEF Under

LEMMA NothingOverTop ==
  ASSUME TableInv, schema # <<>>, NEW w
  PROVE  ~Under(schema[Len(schema)], w)
  <1>1. Len(schema) \in Nat /\ DOMAIN schema = 1..Len(schema) /\ Len(schema) \in DOMAIN schema
    BY DEF TableInv, DbInv
  <1> QED
    BY <1>1 DEF Under, TableInv, UniqueSchema

(* What an Up commits is not in effect, and the smallest its build misses. *)
LEMMA UpIsMissing ==
  ASSUME OneCallPerRunner, LedgerInv, NEW c \in Calls, pc[c] = "commit", op[c] = "up"
  PROVE  /\ Target(c) \in Versions /\ HasFile(RunnerOf[c], Target(c), "up")
         /\ ~InSchema(Target(c))
         /\ \A w \in Versions : HasFile(RunnerOf[c], w, "up") /\ ~InSchema(w) => Target(c) <= w
  <1>1. CallInv /\ pc[c] \in AtWork /\ TypeInv /\ Exclusive
    BY DEF AtWork, LedgerInv, HistoryInv, RecordInv, TypeInv
  <1>2. /\ Target(c) \in Versions /\ Target(c) \in Left(c)
        /\ HasFile(RunnerOf[c], Target(c), "up")
        /\ \A w \in Left(c) : Target(c) <= w
    BY <1>1, TargetLeft DEF Left
  <1>3. UpWork(c)
    BY <1>1 DEF LedgerInv, HistoryInv, WorkInv, WorkOf
  <1>4. \A e \in Calls : pc[e] # "recordOk"
    BY <1>1, OneAtWork DEF AtWork
  <1>5. ~InSchema(Target(c))
    BY <1>2, <1>3, <1>4 DEF UpWork, LedgerInv, TableTellsSchema
  <1>6. ASSUME NEW w \in Versions, HasFile(RunnerOf[c], w, "up"), ~InSchema(w) PROVE Target(c) <= w
    <2>1. ~Succeeded(w)
      BY <1>6 DEF LedgerInv, TableTellsSchema
    <2>2. w \in Nat /\ Target(c) \in Nat
      BY <1>2, VersionAssumption
    <2>3. w < Target(c) => w \in Left(c)
      BY <1>2, <1>3, <1>6, <2>1 DEF UpWork
    <2> QED
      BY <1>2, <2>2, <2>3
  <1> QED
    BY <1>2, <1>5, <1>6

(* What a Down commits is on top. *)
LEMMA DownIsTop ==
  ASSUME OneCallPerRunner, LedgerInv, NEW c \in Calls, Reverts(c)
  PROVE  Target(c) \in Versions /\ schema # <<>> /\ schema[Len(schema)] = Target(c)
  <1>1. TypeInv /\ Exclusive /\ TableInv /\ DbInv /\ pc[c] \in AtWork
    BY DEF Reverts, AtWork, LedgerInv, HistoryInv, RecordInv, TypeInv, TableInv
  <1>2. /\ Target(c) \in Versions /\ Succeeded(Target(c))
        /\ \A v \in Versions : ~Precedes(Target(c), v)
    BY RevertsLast DEF LedgerInv
  <1>3. \A e \in Calls : pc[e] # "recordOk"
    BY <1>1, OneAtWork DEF AtWork, Reverts
  <1>4. \A v \in Versions : InSchema(v) <=> Succeeded(v)
    BY <1>3 DEF LedgerInv, TableTellsSchema
  <1>5. InSchema(Target(c)) /\ schema # <<>>
    BY <1>2, <1>4 DEF InSchema
  <1> DEFINE top == schema[Len(schema)]
  <1>6. top \in Versions /\ InSchema(top)
    BY <1>1, <1>5 DEF DbInv, InSchema
  <1>7. ASSUME top # Target(c) PROVE FALSE
    <2>1. Precedes(top, Target(c))
      BY <1>1, <1>2, <1>4, <1>6, <1>7, PrecedesTotal
    <2>2. Under(top, Target(c))
      BY <1>2, <1>6, <2>1 DEF LedgerInv, OrderAgrees
    <2> QED
      BY <1>1, <1>5, <2>2, NothingOverTop
  <1> QED
    BY <1>2, <1>5, <1>7

(* The steps of a ledger. *)
LedgerKept == TableTellsSchema' /\ OrderAgrees' /\ AppliedIsTop' /\ [Ledger!Next]_schema

LEMMA IdleKeeps ==
  ASSUME LedgerInv, UNCHANGED dbVars,
         \A c \in Calls : /\ pc'[c] = "recordOk" => pc[c] = "recordOk"
                          /\ pc[c] = "recordOk" => pc'[c] = "recordOk" /\ SameWork(c)
  PROVE  LedgerKept
  <1>1. \A c \in Calls : /\ pc'[c] = "recordOk" <=> pc[c] = "recordOk"
                         /\ pc[c] = "recordOk" => Target(c)' = Target(c)
    BY SameTarget DEF SameWork
  <1>2. TableTellsSchema'
    BY <1>1, DbVarsSame DEF LedgerInv, TableTellsSchema
  <1>3. OrderAgrees' /\ AppliedIsTop'
    BY <1>1, DbVarsSame DEF LedgerInv, OrderAgrees, AppliedIsTop
  <1> QED
    BY <1>2, <1>3, DbVarsSame DEF LedgerKept

LEMMA ApplyKeeps ==
  ASSUME OneCallPerRunner, LedgerInv, NEW c \in Calls, CommitUp(c), OthersStay(c)
  PROVE  LedgerKept
  <1>1. TypeInv /\ Exclusive /\ TableInv /\ DbInv /\ pc[c] = "commit" /\ op[c] = "up"
    BY DEF CommitUp, LedgerInv, HistoryInv, RecordInv, TypeInv, TableInv
  <1>2. PICK t \in Versions : t = Target(c)
    BY <1>1, UpIsMissing
  <1>3. /\ HasFile(RunnerOf[c], t, "up") /\ ~InSchema(t)
        /\ \A w \in Versions : HasFile(RunnerOf[c], w, "up") /\ ~InSchema(w) => t <= w
    BY <1>1, <1>2, UpIsMissing
  <1>4. ApplyCommits(t) /\ table' = table
    BY <1>2 DEF CommitUp, ApplyCommits
  <1>5. /\ \A u : InSchema(u)' <=> InSchema(u) \/ u = t
        /\ \A u, w : Under(u, w) => Under(u, w)'
        /\ schema' = Append(schema, t)
        /\ schema' # <<>> /\ schema'[Len(schema')] = t
    BY <1>1, <1>3, <1>4, VersionApplied
  <1>6. pc'[c] = "recordOk" /\ todo'[c] = todo[c]
    BY <1>1, GotoOthers DEF CommitUp, TypeInv
  <1>7. Target(c)' = t
    BY <1>2, <1>6, SameTarget
  <1>8. \A e \in Calls : pc[e] # "recordOk"
    BY <1>1, OneAtWork DEF AtWork
  <1>9. \A e \in Calls : pc'[e] = "recordOk" <=> e = c
    BY <1>6, <1>8 DEF OthersStay
  <1>10. \A u, w : (Succeeded(u)' <=> Succeeded(u)) /\ (Precedes(u, w)' <=> Precedes(u, w))
    BY <1>4 DEF Succeeded, Precedes
  <1>11. TableTellsSchema'
    <2> SUFFICES ASSUME NEW v \in Versions
                 PROVE  InSchema(v)' <=>
                          Succeeded(v)' \/ \E e \in Calls : pc'[e] = "recordOk" /\ Target(e)' = v
      BY DEF TableTellsSchema
    <2>1. InSchema(v) <=> Succeeded(v)
      BY <1>8 DEF LedgerInv, TableTellsSchema
    <2>2. (\E e \in Calls : pc'[e] = "recordOk" /\ Target(e)' = v) <=> v = t
      BY <1>7, <1>9
    <2> QED
      BY <1>5, <1>10, <2>1, <2>2
  <1>12. OrderAgrees'
    BY <1>5, <1>10 DEF LedgerInv, OrderAgrees
  <1>13. AppliedIsTop'
    BY <1>5, <1>7, <1>9 DEF AppliedIsTop
  <1>14. Ledger!Apply
    <2> DEFINE catalog == {v \in Versions : HasFile(RunnerOf[c], v, "up")}
    <2>1. catalog \in {{v \in Versions : HasFile(r, v, "up")} : r \in Runners}
      BY RunnerAssumption
    <2>2. \A w : w \in ToSet(schema) <=> InSchema(w)
      BY DEF ToSet, InSchema
    <2>3. t \in Ledger!Missing(catalog) /\ \A w \in Ledger!Missing(catalog) : t <= w
      BY <1>3, <2>2 DEF Ledger!Missing, Ledger!ToSet, ToSet
    <2> HIDE DEF catalog
    <2> QED
      BY <1>5, <2>1, <2>3 DEF Ledger!Apply
  <1> QED
    BY <1>11, <1>12, <1>13, <1>14 DEF LedgerKept, Ledger!Next

LEMMA RevertKeeps ==
  ASSUME OneCallPerRunner, LedgerInv, NEW c \in Calls, CommitDown(c), OthersStay(c)
  PROVE  LedgerKept
  <1>1. TypeInv /\ Exclusive /\ TableInv /\ DbInv /\ pc[c] = "commit" /\ op[c] = "down"
    BY DEF CommitDown, LedgerInv, HistoryInv, RecordInv, TypeInv, TableInv
  <1>2. Reverts(c)
    BY <1>1, LeaveRests DEF CommitDown, Reverts, TypeInv
  <1>3. PICK t \in Versions : t = Target(c) /\ schema # <<>> /\ schema[Len(schema)] = t
    BY <1>2, DownIsTop
  <1>4. schema' = SchemaWithout(t) /\ table' = RowsWithout(t)
    BY <1>3 DEF CommitDown, RevertCommits
  <1>5. /\ \A u : InSchema(u)' <=> InSchema(u) /\ u # t
        /\ \A u, w : Under(u, w) /\ u # t /\ w # t => Under(u, w)'
        /\ schema' = Front(schema)
    BY <1>1, <1>3, <1>4, VersionReverted
  <1>6. /\ \A u : Succeeded(u)' <=> Succeeded(u) /\ u # t
        /\ \A u, w : Precedes(u, w)' <=> Precedes(u, w) /\ u # t /\ w # t
    BY <1>1, <1>4, RowDeleted
  <1>7. \A e \in Calls : pc[e] # "recordOk" /\ pc'[e] # "recordOk"
    BY <1>1, <1>2, OneAtWork DEF AtWork, Reverts, Rests, OthersStay
  <1>8. TableTellsSchema' /\ AppliedIsTop'
    BY <1>5, <1>6, <1>7 DEF LedgerInv, TableTellsSchema, AppliedIsTop
  <1>9. OrderAgrees'
    BY <1>5, <1>6 DEF LedgerInv, OrderAgrees
  <1>10. Ledger!Revert
    BY <1>3, <1>5 DEF Ledger!Revert, Ledger!Front, Front
  <1> QED
    BY <1>8, <1>9, <1>10 DEF LedgerKept, Ledger!Next

LEMMA RecordKeeps ==
  ASSUME OneCallPerRunner, LedgerInv, NEW c \in Calls, RecordOk(c) \/ RecordFail(c), OthersStay(c)
  PROVE  LedgerKept
  <1> DEFINE ok == pc[c] = "recordOk"
  <1>1. TypeInv /\ Exclusive /\ TableInv /\ DbInv /\ pc[c] \in {"recordOk", "recordFail"}
    BY DEF RecordOk, RecordFail, LedgerInv, HistoryInv, RecordInv, TypeInv, TableInv
  <1>2. pc'[c] # "recordOk"
    <2>1. CASE RecordOk(c)
      <3>1. PICK l \in {"unlock", "exec"} : Goto(c, l)
        BY <2>1 DEF RecordOk
      <3> QED
        BY <1>1, <3>1, GotoOthers DEF TypeInv
    <2>2. CASE RecordFail(c)
      BY <1>1, <2>2, GotoOthers DEF RecordFail, Leave, Return, TypeInv
    <2> QED
      BY <2>1, <2>2
  <1>3. CallInv /\ pc[c] \in AtWork /\ op[c] = "up"
    BY <1>1 DEF TypeInv, CallInv, WorkOK, AtWork
  <1>4. PICK t \in Versions : t = Target(c) /\ t \in Left(c) /\ ~Succeeded(t)
    BY <1>3, TargetLeft DEF LedgerInv, HistoryInv, WorkInv, WorkOf, UpWork, Left
  <1>5. PICK row \in Rows : row = NewRow(c, ok)
    BY <1>1, <1>3, NewRowType
  <1>6. /\ row.ver = t /\ row.ok = ok
        /\ table' = Append(RowsWithout(t), row) /\ schema' = schema
    <2>1. row.ver = t /\ row.ok = ok
      BY <1>4, <1>5 DEF NewRow
    <2>2. table' = Append(RowsWithout(Target(c)), NewRow(c, ok)) /\ schema' = schema
      BY DEF RecordOk, RecordFail
    <2> QED
      BY <1>4, <1>5, <2>1, <2>2
  <1>7. /\ \A u : u # t => (Succeeded(u)' <=> Succeeded(u))
        /\ Succeeded(t)' <=> row.ok
        /\ \A u, w : u # t /\ w # t => (Precedes(u, w)' <=> Precedes(u, w))
        /\ \A u : ~Precedes(t, u)'
    BY <1>1, <1>6, RowUpserted
  <1>8. \A u, w : (InSchema(u)' <=> InSchema(u)) /\ (Under(u, w)' <=> Under(u, w))
    BY <1>6 DEF InSchema, Under
  <1>9. \A e \in Calls : pc[e] = "recordOk" => e = c
    BY <1>1, <1>3, OneAtWork DEF AtWork
  <1>10. \A e \in Calls : pc'[e] # "recordOk"
    BY <1>2, <1>9 DEF OthersStay
  <1>11. \A v \in Versions : InSchema(v) <=> Succeeded(v) \/ (ok /\ v = t)
    BY <1>4, <1>9 DEF LedgerInv, TableTellsSchema
  <1>12. TableTellsSchema'
    <2> HIDE DEF ok
    <2> SUFFICES ASSUME NEW v \in Versions PROVE InSchema(v)' <=> Succeeded(v)'
      BY <1>10 DEF TableTellsSchema
    <2> QED
      BY <1>4, <1>6, <1>7, <1>8, <1>11
  <1>13. AppliedIsTop'
    BY <1>10 DEF AppliedIsTop
  <1>14. OrderAgrees'
    <2> SUFFICES ASSUME NEW u \in Versions, NEW w \in Versions, Precedes(u, w)'
                 PROVE  Under(u, w)
      BY <1>8 DEF OrderAgrees
    <2>1. u # t
      BY <1>7
    <2>2. CASE w # t
      BY <1>7, <2>1, <2>2 DEF LedgerInv, OrderAgrees
    <2>3. CASE w = t
      <3>1. Succeeded(u)' /\ Succeeded(t)'
        BY <2>3 DEF Precedes, Succeeded
      <3>2. ok /\ InSchema(u)
        BY <1>6, <1>7, <1>11, <2>1, <3>1
      <3>3. schema # <<>> /\ schema[Len(schema)] = t
        BY <1>4, <3>2 DEF LedgerInv, AppliedIsTop
      <3> QED
        BY <1>1, <2>1, <2>3, <3>2, <3>3, UnderTop
    <2> QED
      BY <2>2, <2>3
  <1> QED
    BY <1>6, <1>12, <1>13, <1>14 DEF LedgerKept

LEMMA LedgerStep ==
  ASSUME OneCallPerRunner, OnlyRefusals, LedgerInv, [Next]_vars
  PROVE  LedgerInv' /\ [Ledger!Next]_schema
  <1>1. LockSuffices /\ FilesReadable
    BY OnlyRefusalsFaults
  <1>2. HistoryInv'
    BY <1>1, HistoryInvStep DEF LedgerInv
  <1>3. TypeInv
    BY DEF LedgerInv, HistoryInv, RecordInv
  <1>4. ASSUME NEW c \in Calls, CallStep(c) PROVE LedgerKept
    <2>1. OthersStay(c)
      BY <1>1, <1>3, <1>4, CallKinds DEF TypeInv
    <2>2. CASE Idles(c)
      BY <2>1, <2>2, IdleKeeps DEF Idles, OthersStay, SameWork
    <2> QED
      BY <1>3, <1>4, <2>1, <2>2, SteadyKinds, ApplyKeeps, RevertKeeps, RecordKeeps
  <1>5. ASSUME NEW r \in Runners, RunnerStep(r) PROVE LedgerKept
    <2>1. Close(r)
      BY <1>5 DEF RunnerStep, Crash, IdleDropped, OnlyRefusals
    <2>2. \A c \in Calls : RunnerOf[c] = r => pc[c] # "recordOk"
      BY <2>1 DEF Close
    <2>3. UNCHANGED dbVars
          /\ \A c \in Calls : (Rests(c) /\ RunnerOf[c] = r) \/ (pc'[c] = pc[c] /\ SameWork(c))
      BY <1>1, <1>3, <1>5, RunnerKinds
    <2> QED
      BY <2>2, <2>3, IdleKeeps DEF Rests, AtWork
  <1>6. ASSUME UNCHANGED vars PROVE LedgerKept
    BY <1>6, IdleKeeps DEF vars, callVars, SameWork
  <1>7. LedgerKept
    BY <1>4, <1>5, <1>6 DEF Next
  <1> QED
    BY <1>2, <1>7 DEF LedgerKept, LedgerInv

(* When the server refuses migrations and nothing else goes wrong, the state *)
(* table marks a version successful exactly when it is in effect, but for    *)
(* the one whose record is about to follow its commit.                       *)
THEOREM TableIsExact ==
  ASSUME OneCallPerRunner, OnlyRefusals
  PROVE  Spec => []TableTellsSchema
  <1>1. Init => LedgerInv
    BY LedgerInvInit
  <1>2. LedgerInv /\ [Next]_vars => LedgerInv'
    BY LedgerStep
  <1>3. LedgerInv => TableTellsSchema
    BY DEF LedgerInv
  <1> QED
    BY <1>1, <1>2, <1>3, PTL DEF Spec

(* Up never commits the SQL of a version that is already in effect. *)
THEOREM NothingIsAppliedTwice ==
  ASSUME OneCallPerRunner, OnlyRefusals
  PROVE  Spec => AppliedOnce
  <1> DEFINE Once ==
        \A c \in Calls :
          (pc[c] = "commit" /\ op[c] = "up" /\ pc'[c] = "recordOk") => ~InSchema(Target(c))
  <1>1. Init => LedgerInv
    BY LedgerInvInit
  <1>2. LedgerInv /\ [Next]_vars => LedgerInv'
    BY LedgerStep
  <1>3. LedgerInv => Once
    BY UpIsMissing
  <1>4. Spec => [][Once]_vars
    BY <1>1, <1>2, <1>3, PTL DEF Spec
  <1> QED
    BY <1>4 DEF AppliedOnce

(* All the Runners together implement a ledger of the schema: every step    *)
(* applies the smallest version a build misses, reverts the one on top, or  *)
(* leaves the schema alone.                                                 *)
THEOREM RunnersImplementLedger ==
  ASSUME OneCallPerRunner, OnlyRefusals
  PROVE  Spec => ImplementsLedger
  <1>1. Init => LedgerInv /\ Ledger!Init
    BY LedgerInvInit DEF Init, Ledger!Init
  <1>2. LedgerInv /\ [Next]_vars => LedgerInv' /\ [Ledger!Next]_schema
    BY LedgerStep
  <1>3. Spec => Ledger!Init /\ [][Ledger!Next]_schema
    BY <1>1, <1>2, PTL DEF Spec
  <1> QED
    BY <1>3 DEF ImplementsLedger, Ledger!Spec
=============================================================================
