---------------------------- MODULE OverlayProofs ----------------------------
(***************************************************************************)
(* Proofs about OverlayedChanges: the versions of every key stay aligned   *)
(* with the transactions that wrote it, all changesets stay in lockstep,   *)
(* and the overlay implements a stack of complete views.                   *)
(***************************************************************************)
EXTENDS OverlayedChanges, FiniteSetTheorems, SequenceTheorems, TLAPS

-----------------------------------------------------------------------------
(* Counting the transactions that wrote a key                              *)

\* The transactions above a and up to b whose dirty set has the key.
Dirty(D, k, a, b) == {i \in a + 1 .. b : k \in D[i]}

Count(D, k, a, b) == Cardinality(Dirty(D, k, a, b))

\* A count is a number, and it is 0 where there are no transactions.
LEMMA CountType ==
  ASSUME NEW D, NEW k, NEW a \in Nat, NEW b \in Nat
  PROVE  /\ IsFiniteSet(Dirty(D, k, a, b))
         /\ Count(D, k, a, b) \in Nat
         /\ b <= a => Count(D, k, a, b) = 0
         /\ Count(D, k, a, b) = 0 => \A i \in a + 1 .. b : k \notin D[i]
  <1>1. IsFiniteSet(Dirty(D, k, a, b))
    <2>1. IsFiniteSet(a + 1 .. b)
      BY FS_Interval
    <2> QED  BY <2>1, FS_Subset DEF Dirty
  <1>2. Count(D, k, a, b) \in Nat
    BY <1>1, FS_CardinalityType DEF Count
  <1>3. b <= a => Dirty(D, k, a, b) = {}
    BY DEF Dirty
  <1>4. Count(D, k, a, b) = 0 => Dirty(D, k, a, b) = {}
    BY <1>1, FS_EmptySet DEF Count
  <1> QED  BY <1>1, <1>2, <1>3, <1>4, FS_EmptySet DEF Count, Dirty

\* One more transaction counts if it wrote the key.
LEMMA CountNext ==
  ASSUME NEW D, NEW k, NEW a \in Nat, NEW b \in Nat, a <= b
  PROVE  Count(D, k, a, b + 1) =
           Count(D, k, a, b) + (IF k \in D[b + 1] THEN 1 ELSE 0)
  <1>1. IsFiniteSet(Dirty(D, k, a, b))
    BY CountType
  <1>2. b + 1 \notin Dirty(D, k, a, b)
    BY DEF Dirty
  <1>3. CASE k \in D[b + 1]
    <2>1. Dirty(D, k, a, b + 1) = Dirty(D, k, a, b) \cup {b + 1}
      BY <1>3 DEF Dirty
    <2> QED  BY <2>1, <1>1, <1>2, <1>3, FS_AddElement DEF Count
  <1>4. CASE k \notin D[b + 1]
    <2>1. Dirty(D, k, a, b + 1) = Dirty(D, k, a, b)
      BY <1>4 DEF Dirty
    <2>2. Count(D, k, a, b) \in Nat
      BY CountType
    <2> QED  BY <2>1, <2>2, <1>4 DEF Count
  <1> QED  BY <1>3, <1>4

\* Counts of adjacent transactions add up.
LEMMA CountSplit ==
  ASSUME NEW D, NEW k, NEW a \in Nat, NEW b \in Nat, NEW c \in Nat, a <= b, b <= c
  PROVE  Count(D, k, a, c) = Count(D, k, a, b) + Count(D, k, b, c)
  <1>1. /\ IsFiniteSet(Dirty(D, k, a, b))
        /\ IsFiniteSet(Dirty(D, k, b, c))
    BY CountType
  <1>2. Dirty(D, k, a, c) = Dirty(D, k, a, b) \cup Dirty(D, k, b, c)
    BY DEF Dirty
  <1>3. Dirty(D, k, a, b) \cap Dirty(D, k, b, c) = {}
    BY DEF Dirty
  <1>4. Cardinality({}) = 0
    BY FS_EmptySet
  <1>5. Cardinality(Dirty(D, k, a, c)) =
          Cardinality(Dirty(D, k, a, b)) + Cardinality(Dirty(D, k, b, c)) - 0
    BY <1>1, <1>2, <1>3, <1>4, FS_Union
  <1>6. Count(D, k, a, b) \in Nat /\ Count(D, k, b, c) \in Nat
    BY CountType
  <1> QED  BY <1>5, <1>6 DEF Count

\* A count depends on the transactions it is about only.
LEMMA CountSame ==
  ASSUME NEW D, NEW E, NEW k, NEW a \in Nat, NEW b \in Nat,
         \A i \in a + 1 .. b : k \in D[i] <=> k \in E[i]
  PROVE  Count(D, k, a, b) = Count(E, k, a, b)
  <1>1. Dirty(D, k, a, b) = Dirty(E, k, a, b)
    BY DEF Dirty
  <1> QED  BY <1>1 DEF Count

-----------------------------------------------------------------------------
(* One changeset                                                           *)

MapOK(m) == MapTypeOK(m) /\ Aligned(m)

Value == StorageValue \cup {None}

\* What MapOK says of one key.
LEMMA KeyFacts ==
  ASSUME NEW m, MapOK(m), NEW k \in Key
  PROVE  /\ Versions(m, k) \in Seq(InnerValue)
         /\ m.dirty_keys \in Seq(SUBSET Key)
         /\ transaction_depth(m) \in Nat
         /\ Versions(m, k) = <<>> <=> k \notin DOMAIN m.changes
         /\ Len(Versions(m, k)) - Count(m.dirty_keys, k, 0, transaction_depth(m)) \in {0, 1}
         /\ \A i \in 1 .. transaction_depth(m) :
              k \in m.dirty_keys[i] => k \in DOMAIN m.changes
  <1>1. /\ Versions(m, k) \in Seq(InnerValue)
        /\ m.dirty_keys \in Seq(SUBSET Key)
        /\ transaction_depth(m) \in Nat
    BY EmptySeq DEF MapOK, MapTypeOK, OverlayedMap, Versions, transaction_depth
  <1>2. Versions(m, k) = <<>> <=> k \notin DOMAIN m.changes
    BY DEF MapOK, Aligned, Versions
  <1>3. \A i \in 1 .. transaction_depth(m) :
          k \in m.dirty_keys[i] => k \in DOMAIN m.changes
    BY DEF MapOK, Aligned
  <1>4. Count(m.dirty_keys, k, 0, transaction_depth(m)) = Cardinality(Above(m, k, 0))
    BY DEF Count, Dirty, Above
  <1>5. k \in DOMAIN m.changes =>
          Len(Versions(m, k)) - Count(m.dirty_keys, k, 0, transaction_depth(m)) \in {0, 1}
    BY <1>4 DEF MapOK, Aligned, Versions
  <1>6. CASE k \notin DOMAIN m.changes
    <2>1. Dirty(m.dirty_keys, k, 0, transaction_depth(m)) = {}
      BY <1>3, <1>6, <1>1 DEF Dirty
    <2>2. Count(m.dirty_keys, k, 0, transaction_depth(m)) = 0
      BY <2>1, FS_EmptySet DEF Count
    <2>3. Len(Versions(m, k)) = 0
      BY <1>6, EmptySeq DEF Versions
    <2> QED  BY <2>2, <2>3, <1>1, <1>2, <1>3
  <1> QED  BY <1>1, <1>2, <1>3, <1>5, <1>6

\* The version seen below some transactions exists, unless the key is unknown.
LEMMA VersionAt ==
  ASSUME NEW m, MapOK(m), NEW k \in Key, NEW d \in 0 .. transaction_depth(m)
  PROVE  /\ Count(m.dirty_keys, k, d, transaction_depth(m)) \in 0 .. Len(Versions(m, k))
         /\ ValueAt(m, k, d) =
              LET n == Len(Versions(m, k)) - Count(m.dirty_keys, k, d, transaction_depth(m))
              IN  IF n = 0 THEN Unknown ELSE Versions(m, k)[n].value
  <1> DEFINE D == m.dirty_keys
             n == transaction_depth(m)
  <1>1. n \in Nat /\ Len(Versions(m, k)) - Count(D, k, 0, n) \in {0, 1}
        /\ Versions(m, k) \in Seq(InnerValue)
    BY KeyFacts
  <1>2. Len(Versions(m, k)) \in Nat
    BY <1>1, LenProperties
  <1>0. d \in Nat /\ 0 <= d /\ d <= n
    BY <1>1
  <1>3. Count(D, k, 0, n) = Count(D, k, 0, d) + Count(D, k, d, n)
    BY <1>0, <1>1, CountSplit
  <1>4. Count(D, k, 0, d) \in Nat /\ Count(D, k, d, n) \in Nat
    BY <1>0, <1>1, CountType
  <1>5. Count(D, k, d, n) \in 0 .. Len(Versions(m, k))
    <2> HIDE DEF D, n
    <2> QED  BY <1>1, <1>2, <1>3, <1>4
  <1>6. Count(D, k, d, n) = Cardinality(Above(m, k, d))
    BY DEF Count, Dirty, Above
  <1> QED  BY <1>5, <1>6 DEF ValueAt

\* How MapOK is established: the changes and the dirty sets of each key.
LEMMA MapOKIntro ==
  ASSUME NEW m, NEW C, NEW D \in Seq(SUBSET Key), NEW dom \in SUBSET Key,
         m = [changes                 |-> C,
              dirty_keys              |-> D,
              num_client_transactions |-> m.num_client_transactions,
              execution_mode          |-> m.execution_mode],
         m.num_client_transactions \in Nat,
         m.execution_mode \in {"Client", "Runtime"},
         C \in [dom -> Seq(InnerValue)],
         \A k \in dom : C[k] # <<>> /\ Len(C[k]) - Count(D, k, 0, Len(D)) \in {0, 1},
         \A i \in 1 .. Len(D) : D[i] \subseteq dom
  PROVE  MapOK(m)
  <1>1. m.changes = C /\ m.dirty_keys = D /\ DOMAIN C = dom
    OBVIOUS
  <1>2. m \in OverlayedMap(dom)
    BY DEF OverlayedMap
  <1>3. \A k \in dom : Cardinality(Above(m, k, 0)) = Count(D, k, 0, Len(D))
    BY <1>1 DEF Above, Count, Dirty, transaction_depth
  <1>4. Aligned(m)
    BY <1>1, <1>3 DEF Aligned, transaction_depth
  <1> QED  BY <1>1, <1>2, <1>4 DEF MapOK, MapTypeOK

\* OverlayedEntry::set writes one version: a new one, or the last one.
LEMMA EntrySet ==
  ASSUME NEW m, MapOK(m), NEW k \in Key, NEW v \in Value, NEW e \in Extrinsic \cup {None},
         NEW vs, vs = entry_set(m, k, v, e)
  PROVE  /\ vs \in Seq(InnerValue)
         /\ vs # <<>>
         /\ Len(vs) = Len(Versions(m, k))
                        + (IF first_write_in_tx(m, k) \/ Versions(m, k) = <<>> THEN 1 ELSE 0)
         /\ \A i \in 1 .. Len(vs) - 1 : vs[i] = Versions(m, k)[i]
         /\ vs[Len(vs)].value = v
  <1> DEFINE old   == Versions(m, k)
             known == IF e = None THEN {} ELSE {e}
             new   == first_write_in_tx(m, k) \/ Versions(m, k) = <<>>
  <1>1. old \in Seq(InnerValue) /\ Len(old) \in Nat
    BY KeyFacts, LenProperties
  <1>2. known \in SUBSET Extrinsic
    OBVIOUS
  <1>3. CASE new
    <2> DEFINE x == [value |-> v, extrinsics |-> known]
    <2>1. x \in InnerValue
      BY <1>2 DEF InnerValue, Value
    <2>2. vs = Append(old, x)
      BY <1>3 DEF entry_set
    <2> HIDE DEF x, old, known
    <2>3. /\ vs \in Seq(InnerValue)
          /\ vs # <<>>
          /\ Len(vs) = Len(old) + 1
          /\ \A i \in 1 .. Len(old) : vs[i] = old[i]
          /\ vs[Len(old) + 1] = x
      BY <2>1, <2>2, <1>1, AppendProperties
    <2>4. x.value = v
      BY DEF x
    <2>5. /\ Len(vs) - 1 = Len(old)
          /\ vs[Len(vs)] = x
      BY <2>3, <1>1
    <2> QED  BY <2>3, <2>4, <2>5, <1>1, <1>3 DEF old
  <1>4. CASE ~new
    <2> DEFINE x == [value |-> v, extrinsics |-> old[Len(old)].extrinsics \cup known]
    <2>a. old # <<>>
      BY <1>4
    <2>1. Len(old) \in 1 .. Len(old)
      BY <1>1, <2>a, EmptySeq
    <2>2. old[Len(old)] \in InnerValue
      BY <1>1, <2>1, LenProperties
    <2>3. x \in InnerValue
      BY <1>2, <2>2 DEF InnerValue, Value
    <2>0. vs = [Versions(m, k) EXCEPT
                  ![Len(Versions(m, k))] =
                    [value |-> v, extrinsics |-> @.extrinsics \cup (IF e = None THEN {} ELSE {e})]]
      BY <1>4 DEF entry_set
    <2>4. vs = [old EXCEPT ![Len(old)] = x]
      BY <2>0, <1>1, <2>1, LenProperties
    <2> HIDE DEF x, old, known
    <2>5. /\ vs \in Seq(InnerValue)
          /\ Len(vs) = Len(old)
          /\ \A j \in 1 .. Len(old) : vs[j] = IF j = Len(old) THEN x ELSE old[j]
      BY <2>1, <2>3, <2>4, <1>1, ExceptSeq
    <2>6. vs # <<>>
      BY <2>5, <2>1, EmptySeq
    <2>7. x.value = v
      BY DEF x
    <2>8. \A i \in 1 .. Len(vs) - 1 : vs[i] = old[i]
      BY <2>5, <1>1
    <2>9. Len(vs) = Len(old) + (IF new THEN 1 ELSE 0)
      BY <2>5, <1>1, <1>4
    <2> QED  BY <2>5, <2>6, <2>7, <2>8, <2>9, <2>1 DEF old
  <1> QED  BY <1>3, <1>4

\* The dirty sets after a write to the keys of K.
LEMMA InsertDirty ==
  ASSUME NEW m, MapOK(m), NEW K \in SUBSET Key,
         NEW E, E = insert_dirty(m, K)
  PROVE  /\ E \in Seq(SUBSET Key)
         /\ Len(E) = transaction_depth(m)
         /\ \A i \in 1 .. transaction_depth(m) - 1 : E[i] = m.dirty_keys[i]
         /\ transaction_depth(m) # 0 =>
              E[transaction_depth(m)] = m.dirty_keys[transaction_depth(m)] \cup K
  <1> DEFINE n == transaction_depth(m)
  <1>1. m.dirty_keys \in Seq(SUBSET Key) /\ n \in Nat /\ Len(m.dirty_keys) = n
    BY DEF MapOK, MapTypeOK, OverlayedMap, transaction_depth
  <1>2. CASE n = 0
    BY <1>1, <1>2 DEF insert_dirty
  <1>3. CASE n # 0
    <2>1. n \in 1 .. Len(m.dirty_keys) /\ m.dirty_keys[n] \in SUBSET Key
      BY <1>1, <1>3, LenProperties
    <2>2. E = [m.dirty_keys EXCEPT ![n] = m.dirty_keys[n] \cup K]
      BY <1>1, <1>3, <2>1 DEF insert_dirty
    <2> DEFINE x == m.dirty_keys[n] \cup K
    <2>3. x \in SUBSET Key
      BY <2>1
    <2> HIDE DEF x
    <2>4. /\ E \in Seq(SUBSET Key)
          /\ Len(E) = Len(m.dirty_keys)
          /\ \A j \in 1 .. Len(m.dirty_keys) : E[j] = IF j = n THEN x ELSE m.dirty_keys[j]
      BY <1>1, <2>1, <2>2, <2>3, ExceptSeq DEF x
    <2>5. E[n] = x /\ \A i \in 1 .. n - 1 : E[i] = m.dirty_keys[i]
      BY <1>1, <2>1, <2>4
    <2> QED  BY <1>1, <2>4, <2>5 DEF x
  <1> QED  BY <1>2, <1>3

\* A write changes the counts of the keys it writes for the first time.
LEMMA CountWrite ==
  ASSUME NEW m, MapOK(m), NEW K \in SUBSET Key, NEW k \in Key,
         NEW d \in 0 .. transaction_depth(m),
         NEW E, E = insert_dirty(m, K)
  PROVE  Count(E, k, d, transaction_depth(m)) =
           Count(m.dirty_keys, k, d, transaction_depth(m))
             + (IF k \in K /\ first_write_in_tx(m, k) /\ d < transaction_depth(m) THEN 1 ELSE 0)
  <1> DEFINE D == m.dirty_keys
             n == transaction_depth(m)
  <1>1. n \in Nat /\ d \in Nat /\ d <= n
    <2>1. n \in Nat
      BY KeyFacts
    <2> QED  BY <2>1
  <1>2. /\ \A i \in 1 .. n - 1 : E[i] = D[i]
        /\ n # 0 => E[n] = D[n] \cup K
    BY InsertDirty
  <1>3. CASE d = n
    <2>1. Count(E, k, d, n) = 0 /\ Count(D, k, d, n) = 0
      BY <1>1, <1>3, CountType
    <2> QED  BY <2>1, <1>3
  <1>4. CASE d < n
    <2>1. n - 1 \in Nat /\ d <= n - 1 /\ (n - 1) + 1 = n
      BY <1>1, <1>4
    <2>2. Count(E, k, d, n) = Count(E, k, d, n - 1) + (IF k \in E[n] THEN 1 ELSE 0)
      BY <2>1, <1>1, CountNext
    <2>3. Count(D, k, d, n) = Count(D, k, d, n - 1) + (IF k \in D[n] THEN 1 ELSE 0)
      BY <2>1, <1>1, CountNext
    <2>4. Count(E, k, d, n - 1) = Count(D, k, d, n - 1)
      <3>1. \A i \in d + 1 .. n - 1 : k \in E[i] <=> k \in D[i]
        BY <1>1, <1>2
      <3> QED  BY <3>1, <2>1, <1>1, CountSame
    <2>5. k \in E[n] <=> k \in D[n] \/ k \in K
      BY <1>1, <1>2, <1>4
    <2>6. first_write_in_tx(m, k) <=> k \notin D[n]
      BY <1>1, <1>4 DEF first_write_in_tx
    <2>7. Count(D, k, d, n - 1) \in Nat
      BY <2>1, <1>1, CountType
    <2> QED  BY <2>2, <2>3, <2>4, <2>5, <2>6, <2>7, <1>4
  <1> QED  BY <1>1, <1>3, <1>4

\* What a changeset shows: a lemma for ValueAt in terms of counts, without LET.
LEMMA ValueAtIs ==
  ASSUME NEW m, MapOK(m), NEW k \in Key, NEW d \in 0 .. transaction_depth(m),
         NEW n \in Nat,
         n + Count(m.dirty_keys, k, d, transaction_depth(m)) = Len(Versions(m, k))
  PROVE  ValueAt(m, k, d) = IF n = 0 THEN Unknown ELSE Versions(m, k)[n].value
  <1>1. /\ Versions(m, k) \in Seq(InnerValue)
        /\ transaction_depth(m) \in Nat
    BY KeyFacts
  <1>2. Len(Versions(m, k)) \in Nat
    BY <1>1, LenProperties
  <1>3. Count(m.dirty_keys, k, d, transaction_depth(m)) \in Nat
    <2>1. d \in Nat
      BY <1>1
    <2> QED  BY <2>1, <1>1, CountType
  <1>4. n = Len(Versions(m, k)) - Count(m.dirty_keys, k, d, transaction_depth(m))
    BY <1>2, <1>3
  <1> QED  BY <1>4, VersionAt

\* The fields of a changeset are of their types.
LEMMA MapFields ==
  ASSUME NEW m, MapOK(m)
  PROVE  /\ m = [changes                 |-> m.changes,
                 dirty_keys              |-> m.dirty_keys,
                 num_client_transactions |-> m.num_client_transactions,
                 execution_mode          |-> m.execution_mode]
         /\ DOMAIN m.changes \in SUBSET Key
         /\ m.changes \in [DOMAIN m.changes -> Seq(InnerValue)]
         /\ m.dirty_keys \in Seq(SUBSET Key)
         /\ m.num_client_transactions \in Nat
         /\ m.execution_mode \in {"Client", "Runtime"}
         /\ transaction_depth(m) \in Nat
         /\ transaction_depth(m) = Len(m.dirty_keys)
         /\ \A i \in 1 .. transaction_depth(m) : m.dirty_keys[i] \subseteq DOMAIN m.changes
  <1>1. m \in OverlayedMap(DOMAIN m.changes) /\ DOMAIN m.changes \subseteq Key
    BY DEF MapOK, MapTypeOK
  <1>2. \A i \in 1 .. transaction_depth(m) : m.dirty_keys[i] \subseteq DOMAIN m.changes
    BY DEF MapOK, Aligned
  <1> QED  BY <1>1, <1>2 DEF OverlayedMap, transaction_depth

\* set and clear_where: the written keys show the value in the innermost
\* transaction, and nothing else changes, in no transaction.
LEMMA SetAll ==
  ASSUME NEW m, MapOK(m), NEW K \in SUBSET Key, NEW v \in Value, NEW e \in Extrinsic \cup {None},
         NEW w, w = set_all(m, K, v, e)
  PROVE  /\ MapOK(w)
         /\ transaction_depth(w) = transaction_depth(m)
         /\ w.num_client_transactions = m.num_client_transactions
         /\ w.execution_mode = m.execution_mode
         /\ DOMAIN w.changes = DOMAIN m.changes \cup K
         /\ w.dirty_keys = insert_dirty(m, K)
         /\ \A k \in Key, d \in 0 .. transaction_depth(m) :
              ValueAt(w, k, d) = IF k \in K /\ d = transaction_depth(m)
                                 THEN v ELSE ValueAt(m, k, d)
  <1> DEFINE dom == DOMAIN m.changes \cup K
             C   == [k \in dom |-> IF k \in K THEN entry_set(m, k, v, e) ELSE m.changes[k]]
             E   == insert_dirty(m, K)
             D   == m.dirty_keys
             n   == transaction_depth(m)
             new(k) == first_write_in_tx(m, k) \/ Versions(m, k) = <<>>
  <1>0. /\ m = [changes                 |-> m.changes,
                dirty_keys              |-> m.dirty_keys,
                num_client_transactions |-> m.num_client_transactions,
                execution_mode          |-> m.execution_mode]
        /\ DOMAIN m.changes \in SUBSET Key
        /\ m.changes \in [DOMAIN m.changes -> Seq(InnerValue)]
        /\ D \in Seq(SUBSET Key)
        /\ m.num_client_transactions \in Nat
        /\ m.execution_mode \in {"Client", "Runtime"}
        /\ n \in Nat
        /\ n = Len(D)
        /\ \A i \in 1 .. n : D[i] \subseteq DOMAIN m.changes
    BY MapFields
  <1>1. w = [changes                 |-> C,
             dirty_keys              |-> E,
             num_client_transactions |-> m.num_client_transactions,
             execution_mode          |-> m.execution_mode]
    BY <1>0 DEF set_all
  <1>2. /\ w.changes = C
        /\ w.dirty_keys = E
        /\ w.num_client_transactions = m.num_client_transactions
        /\ w.execution_mode = m.execution_mode
    BY <1>1
  <1>3. /\ E \in Seq(SUBSET Key)
        /\ Len(E) = n
        /\ \A i \in 1 .. n - 1 : E[i] = D[i]
        /\ n # 0 => E[n] = D[n] \cup K
    BY InsertDirty
  <1>4. ASSUME NEW k \in K
        PROVE  /\ C[k] \in Seq(InnerValue)
               /\ C[k] # <<>>
               /\ Len(C[k]) = Len(Versions(m, k)) + (IF new(k) THEN 1 ELSE 0)
               /\ \A i \in 1 .. Len(C[k]) - 1 : C[k][i] = Versions(m, k)[i]
               /\ C[k][Len(C[k])].value = v
    <2>1. C[k] = entry_set(m, k, v, e)
      OBVIOUS
    <2>2. k \in Key
      OBVIOUS
    <2> HIDE DEF C
    <2> QED  BY <2>1, <2>2, EntrySet
  <1>5. ASSUME NEW k \in DOMAIN m.changes \ K
        PROVE  C[k] = Versions(m, k) /\ C[k] # <<>> /\ C[k] \in Seq(InnerValue)
    <2>1. C[k] = Versions(m, k)
      BY DEF Versions
    <2> HIDE DEF C
    <2> QED  BY <2>1, KeyFacts, <1>0
  <1>6. dom \in SUBSET Key /\ DOMAIN C = dom
    BY <1>0
  <1>7. C \in [dom -> Seq(InnerValue)]
    <2>1. \A k \in dom : C[k] \in Seq(InnerValue)
      <3> HIDE DEF C
      <3> QED  BY <1>4, <1>5
    <2>2. C = [k \in dom |-> C[k]]
      OBVIOUS
    <2> HIDE DEF C
    <2> QED  BY <2>1, <2>2
  <1>8. ASSUME NEW k \in Key, NEW d \in 0 .. n
        PROVE  Count(E, k, d, n) =
                 Count(D, k, d, n) + (IF k \in K /\ first_write_in_tx(m, k) /\ d < n THEN 1 ELSE 0)
    <2> HIDE DEF E
    <2>1. E = insert_dirty(m, K)
      BY DEF E
    <2> QED  BY <2>1, CountWrite
  <1>9. ASSUME NEW k \in Key
        PROVE  /\ Len(Versions(m, k)) \in Nat
               /\ Count(D, k, 0, n) \in Nat
               /\ Len(Versions(m, k)) - Count(D, k, 0, n) \in {0, 1}
               /\ first_write_in_tx(m, k) => 0 < n
               /\ Versions(m, k) = <<>> => Len(Versions(m, k)) = 0
    <2>1. Versions(m, k) \in Seq(InnerValue) /\ Len(Versions(m, k)) - Count(D, k, 0, n) \in {0, 1}
      BY KeyFacts
    <2> QED  BY <2>1, <1>0, LenProperties, EmptySeq, CountType DEF first_write_in_tx
  <1> HIDE DEF C, E, D, n, dom
  <1>10. \A k \in dom : C[k] # <<>> /\ Len(C[k]) - Count(E, k, 0, Len(E)) \in {0, 1}
    <2> SUFFICES ASSUME NEW k \in dom
                 PROVE  C[k] # <<>> /\ Len(C[k]) - Count(E, k, 0, n) \in {0, 1}
      BY <1>3
    <2>1. k \in Key /\ 0 \in 0 .. n
      BY <1>6, <1>0 
    <2>2. CASE k \in K
      <3>1. Count(E, k, 0, n) =
                 Count(D, k, 0, n) + (IF first_write_in_tx(m, k) THEN 1 ELSE 0)
        BY <2>1, <2>2, <1>8, <1>9
      <3>2. Len(C[k]) = Len(Versions(m, k)) + (IF new(k) THEN 1 ELSE 0)
        BY <2>2, <1>4
      <3>3. CASE first_write_in_tx(m, k)
        BY <3>1, <3>2, <3>3, <1>9, <2>1, <2>2, <1>4
      <3>4. CASE ~first_write_in_tx(m, k)
        BY <3>1, <3>2, <3>4, <1>9, <2>1, <2>2, <1>4
      <3> QED  BY <3>3, <3>4
    <2>3. CASE k \notin K
      <3>1. k \in DOMAIN m.changes \ K
        BY <2>3 DEF dom
      <3>2. Count(E, k, 0, n) = Count(D, k, 0, n)
        BY <2>1, <2>3, <1>8, <1>9
      <3> QED  BY <3>1, <3>2, <1>5, <1>9, <2>1
    <2> QED  BY <2>2, <2>3
  <1>11. \A i \in 1 .. Len(E) : E[i] \subseteq dom
    <2> SUFFICES ASSUME NEW i \in 1 .. n PROVE E[i] \subseteq dom
      BY <1>3
    <2>1. CASE i = n
      BY <2>1, <1>3, <1>0 DEF dom
    <2>2. CASE i # n
      BY <2>2, <1>3, <1>0 DEF dom
    <2> QED  BY <2>1, <2>2
  <1>12. MapOK(w)
    BY <1>1, <1>2, <1>3, <1>6, <1>7, <1>10, <1>11, <1>0, MapOKIntro
  <1>13. transaction_depth(w) = n
    BY <1>2, <1>3 DEF transaction_depth
  <1>14. ASSUME NEW k \in Key, NEW d \in 0 .. n
         PROVE  ValueAt(w, k, d) = IF k \in K /\ d = n THEN v ELSE ValueAt(m, k, d)
    <2> DEFINE a == Len(Versions(m, k)) - Count(D, k, d, n)
               b == Len(Versions(w, k)) - Count(E, k, d, n)
    <2>1. /\ Count(D, k, d, n) \in 0 .. Len(Versions(m, k))
          /\ ValueAt(m, k, d) = IF a = 0 THEN Unknown ELSE Versions(m, k)[a].value
      BY VersionAt DEF D, n
    <2>2. /\ Count(E, k, d, n) \in 0 .. Len(Versions(w, k))
          /\ ValueAt(w, k, d) = IF b = 0 THEN Unknown ELSE Versions(w, k)[b].value
      BY VersionAt, <1>12, <1>13, <1>2 DEF E
    <2>3. Count(E, k, d, n) =
                 Count(D, k, d, n) + (IF k \in K /\ first_write_in_tx(m, k) /\ d < n THEN 1 ELSE 0)
      BY <1>8
    <2>4. CASE k \in K
      <3>1. Versions(w, k) = C[k]
        BY <2>4, <1>2, <1>6 DEF Versions, dom
      <3>2. /\ Len(C[k]) = Len(Versions(m, k)) + (IF new(k) THEN 1 ELSE 0)
            /\ \A i \in 1 .. Len(C[k]) - 1 : C[k][i] = Versions(m, k)[i]
            /\ C[k][Len(C[k])].value = v
            /\ C[k] \in Seq(InnerValue) /\ C[k] # <<>>
        BY <2>4, <1>4
      <3>3. Len(C[k]) \in Nat /\ Len(C[k]) # 0
        BY <3>2, LenProperties, EmptySeq
      <3>4. CASE d = n
        <4>1. Count(E, k, d, n) = 0
          <5>1. d \in Nat /\ d <= n /\ n <= d
            BY <3>4, <1>0
          <5> QED  BY <5>1, <1>0, CountType
        <4>2. b = Len(C[k])
          BY <4>1, <3>1, <3>3
        <4> QED  BY <4>2, <3>4, <2>2, <2>4, <3>1, <3>2, <3>3
      <3>5. CASE d < n
        <4>1. CASE first_write_in_tx(m, k)
          <5>1. a = b /\ a \in 0 .. Len(C[k]) - 1
            BY <4>1, <3>5, <2>3, <2>4, <3>1, <3>2, <1>9, <2>1
          <5>6. a # 0 => C[k][a] = Versions(m, k)[a]
            BY <5>1, <3>2, <3>3
          <5>7. d # n
            BY <3>5, <1>0
          <5> HIDE DEF a, b
          <5> QED  BY <5>1, <5>6, <5>7, <3>1, <2>1, <2>2
        <4>2. CASE ~first_write_in_tx(m, k)
          <5>1. k \in D[n]
            BY <4>2, <3>5, <1>0 DEF first_write_in_tx, n, D
          <5>2. Versions(m, k) # <<>>
            <6>1. n \in 1 .. n
              BY <1>0, <3>5
            <6> QED  BY <5>1, <6>1, <1>0, KeyFacts
          <5>3. Count(D, k, d, n) # 0
            <6>1. n \in d + 1 .. n
              BY <1>0, <3>5
            <6>2. d \in Nat
              BY <1>0
            <6> QED  BY <5>1, <6>1, <6>2, <1>0, CountType
          <5>5. Len(C[k]) = Len(Versions(m, k)) /\ Count(E, k, d, n) = Count(D, k, d, n)
            <6>1. Count(D, k, d, n) \in Nat
              BY <2>1, <1>9
            <6> QED  BY <4>2, <5>2, <2>3, <3>2, <1>9, <6>1
          <5>4. a = b /\ a \in 0 .. Len(C[k]) - 1
            BY <5>3, <5>5, <3>1, <1>9, <2>1
          <5>6. a # 0 => C[k][a] = Versions(m, k)[a]
            BY <5>4, <3>2, <3>3
          <5>7. d # n
            BY <3>5, <1>0
          <5> HIDE DEF a, b
          <5> QED  BY <5>4, <5>6, <5>7, <3>1, <2>1, <2>2
        <4> QED  BY <4>1, <4>2
      <3> QED  BY <3>4, <3>5, <1>0
    <2>5. CASE k \notin K
      <3>1. Versions(w, k) = Versions(m, k)
        BY <2>5, <1>2, <1>5, <1>6 DEF Versions, dom
      <3>2. a = b
        BY <3>1, <2>3, <2>5, <2>1, <1>9
      <3> QED  BY <3>1, <3>2, <2>1, <2>2, <2>5
    <2> QED  BY <2>4, <2>5
  <1>15. DOMAIN w.changes = DOMAIN m.changes \cup K
    BY <1>2, <1>6 DEF dom
  <1> QED  BY <1>2, <1>12, <1>13, <1>14, <1>15 DEF n, E

\* A prefix of a sequence.
LEMMA Prefix ==
  ASSUME NEW S, NEW s \in Seq(S), NEW n \in 0 .. Len(s)
  PROVE  /\ SubSeq(s, 1, n) \in Seq(S)
         /\ Len(SubSeq(s, 1, n)) = n
         /\ \A i \in 1 .. n : SubSeq(s, 1, n)[i] = s[i]
  <1>1. Len(s) \in Nat /\ \A i \in 1 .. Len(s) : s[i] \in S
    BY LenProperties
  <1>2. n \in Nat /\ n \in Int /\ 1 \in Int /\ \A i \in 1 .. n : s[i] \in S
    BY <1>1
  <1>3. /\ SubSeq(s, 1, n) \in Seq(S)
        /\ Len(SubSeq(s, 1, n)) = IF 1 <= n THEN n - 1 + 1 ELSE 0
        /\ \A i \in 1 .. n - 1 + 1 : SubSeq(s, 1, n)[i] = s[1 + i - 1]
    BY <1>2, SubSeqProperties
  <1> QED  BY <1>2, <1>3

\* A new map has no transaction and shows nothing.
LEMMA DefaultMapOK ==
  /\ MapOK(DefaultMap)
  /\ transaction_depth(DefaultMap) = 0
  /\ DefaultMap.num_client_transactions = 0
  /\ DefaultMap.execution_mode = "Client"
  /\ \A k \in Key : ValueAt(DefaultMap, k, 0) = Unknown
  <1> DEFINE C == [k \in {} |-> <<>>]
             D == <<>>
  <1>1. /\ DefaultMap = [changes                 |-> C,
                         dirty_keys              |-> D,
                         num_client_transactions |-> DefaultMap.num_client_transactions,
                         execution_mode          |-> DefaultMap.execution_mode]
        /\ DefaultMap.num_client_transactions = 0
        /\ DefaultMap.execution_mode = "Client"
        /\ DefaultMap.changes = C
        /\ DefaultMap.dirty_keys = D
    BY DEF DefaultMap
  <1>2. D \in Seq(SUBSET Key) /\ Len(D) = 0
    BY EmptySeq
  <1>3. C \in [{} -> Seq(InnerValue)] /\ DOMAIN C = {}
    OBVIOUS
  <1>4. {} \in SUBSET Key
    OBVIOUS
  <1> HIDE DEF C, D
  <1>5. \A i \in 1 .. Len(D) : D[i] \subseteq {}
    BY <1>2
  <1>6. MapOK(DefaultMap)
    <2>1. DefaultMap.num_client_transactions \in Nat
      BY <1>1
    <2>2. DefaultMap.execution_mode \in {"Client", "Runtime"}
      BY <1>1
    <2> QED  BY <1>1, <1>2, <1>3, <1>4, <1>5, <2>1, <2>2, MapOKIntro
  <1>7. transaction_depth(DefaultMap) = 0
    BY <1>1, <1>2 DEF transaction_depth
  <1>8. ASSUME NEW k \in Key PROVE ValueAt(DefaultMap, k, 0) = Unknown
    <2>1. Versions(DefaultMap, k) = <<>> /\ Len(Versions(DefaultMap, k)) = 0
      BY <1>1, <1>3, EmptySeq DEF Versions
    <2>2. 0 \in 0 .. transaction_depth(DefaultMap)
      BY <1>7
    <2>3. Count(DefaultMap.dirty_keys, k, 0, transaction_depth(DefaultMap)) = 0
      BY <1>6, <2>1, <2>2, VersionAt
    <2> QED  BY <1>6, <2>1, <2>2, <2>3, ValueAtIs
  <1> QED  BY <1>1, <1>6, <1>7, <1>8

\* A new transaction shows what the one around it shows.
LEMMA Start ==
  ASSUME NEW m, MapOK(m), NEW w, w = start_transaction(m)
  PROVE  /\ MapOK(w)
         /\ transaction_depth(w) = transaction_depth(m) + 1
         /\ w.num_client_transactions = m.num_client_transactions
         /\ w.execution_mode = m.execution_mode
         /\ \A k \in Key : \A d \in 0 .. transaction_depth(m) : ValueAt(w, k, d) = ValueAt(m, k, d)
         /\ \A k \in Key :
              ValueAt(w, k, transaction_depth(m) + 1) = ValueAt(m, k, transaction_depth(m))
  <1> DEFINE C == m.changes
             D == m.dirty_keys
             E == Append(D, {})
             n == transaction_depth(m)
             dom == DOMAIN m.changes
  <1>0. /\ m = [changes                 |-> C,
                dirty_keys              |-> D,
                num_client_transactions |-> m.num_client_transactions,
                execution_mode          |-> m.execution_mode]
        /\ dom \in SUBSET Key
        /\ C \in [dom -> Seq(InnerValue)]
        /\ D \in Seq(SUBSET Key)
        /\ m.num_client_transactions \in Nat
        /\ m.execution_mode \in {"Client", "Runtime"}
        /\ n \in Nat
        /\ n = Len(D)
        /\ \A i \in 1 .. n : D[i] \subseteq dom
    BY MapFields
  <1>1. /\ w = [changes                 |-> C,
                dirty_keys              |-> E,
                num_client_transactions |-> m.num_client_transactions,
                execution_mode          |-> m.execution_mode]
        /\ w.changes = C
        /\ w.dirty_keys = E
        /\ w.num_client_transactions = m.num_client_transactions
        /\ w.execution_mode = m.execution_mode
    BY <1>0 DEF start_transaction
  <1>2. /\ E \in Seq(SUBSET Key)
        /\ Len(E) = n + 1
        /\ \A i \in 1 .. n : E[i] = D[i]
        /\ E[n + 1] = {}
    <2> HIDE DEF D
    <2>1. {} \in SUBSET Key
      OBVIOUS
    <2> QED  BY <1>0, <2>1, AppendProperties
  <1>3. ASSUME NEW k \in Key, NEW d \in 0 .. n
        PROVE  Count(E, k, d, n + 1) = Count(D, k, d, n) /\ Count(D, k, d, n) \in Nat
    <2>0. d \in Nat /\ d <= n
      BY <1>0
    <2> HIDE DEF D, E, n
    <2>1. Count(E, k, d, n + 1) = Count(E, k, d, n) + (IF k \in E[n + 1] THEN 1 ELSE 0)
      BY <2>0, <1>0, CountNext
    <2>2. \A i \in d + 1 .. n : k \in E[i] <=> k \in D[i]
      BY <2>0, <1>0, <1>2
    <2>3. Count(E, k, d, n) = Count(D, k, d, n)
      BY <2>2, <2>0, <1>0, CountSame
    <2>4. Count(D, k, d, n) \in Nat
      BY <2>0, <1>0, CountType
    <2> QED  BY <2>1, <2>3, <2>4, <1>2
  <1>4. ASSUME NEW k \in Key
        PROVE  Versions(w, k) = Versions(m, k) /\ Versions(m, k) \in Seq(InnerValue)
               /\ Len(Versions(m, k)) \in Nat
               /\ (k \in dom => Versions(m, k) = C[k] /\ C[k] # <<>>)
               /\ Len(Versions(m, k)) - Count(D, k, 0, n) \in {0, 1}
    BY <1>1, KeyFacts, LenProperties DEF Versions
  <1> HIDE DEF C, D, E, n, dom
  <1>5. transaction_depth(w) = n + 1
    BY <1>1, <1>2 DEF transaction_depth
  <1>6. \A k \in dom : C[k] # <<>> /\ Len(C[k]) - Count(E, k, 0, Len(E)) \in {0, 1}
    <2>1. 0 \in 0 .. n
      BY <1>0
    <2> QED  BY <1>0, <2>1, <1>2, <1>3, <1>4
  <1>7. \A i \in 1 .. Len(E) : E[i] \subseteq dom
    BY <1>0, <1>2
  <1>8. MapOK(w)
    BY <1>0, <1>1, <1>2, <1>6, <1>7, MapOKIntro
  <1>9. ASSUME NEW k \in Key, NEW d \in 0 .. n PROVE ValueAt(w, k, d) = ValueAt(m, k, d)
    <2> DEFINE a == Len(Versions(m, k)) - Count(D, k, d, n)
    <2>1. /\ Count(D, k, d, n) \in 0 .. Len(Versions(m, k))
          /\ ValueAt(m, k, d) = IF a = 0 THEN Unknown ELSE Versions(m, k)[a].value
      BY VersionAt DEF D, n
    <2>2. a \in Nat /\ a + Count(E, k, d, n + 1) = Len(Versions(w, k))
      BY <2>1, <1>3, <1>4
    <2>3. d \in 0 .. n + 1
      BY <1>0
    <2> HIDE DEF a
    <2>4. ValueAt(w, k, d) = IF a = 0 THEN Unknown ELSE Versions(w, k)[a].value
      BY <2>2, <2>3, <1>8, <1>5, <1>1, ValueAtIs
    <2> QED  BY <2>1, <2>4, <1>4
  <1>10. ASSUME NEW k \in Key PROVE ValueAt(w, k, n + 1) = ValueAt(m, k, n)
    <2> DEFINE a == Len(Versions(m, k))
    <2>1. n + 1 \in Nat /\ n + 1 \in 0 .. n + 1 /\ n \in 0 .. n /\ n <= n /\ n + 1 <= n + 1
      BY <1>0
    <2>2. Count(D, k, n, n) = 0 /\ Count(E, k, n + 1, n + 1) = 0
      BY <1>0, <2>1, CountType
    <2>3. a \in Nat /\ a + 0 = a
      BY <1>4
    <2> HIDE DEF a
    <2>4. ValueAt(w, k, n + 1) = IF a = 0 THEN Unknown ELSE Versions(w, k)[a].value
      <3>1. a + Count(E, k, n + 1, n + 1) = Len(Versions(w, k))
        BY <2>2, <2>3, <1>4 DEF a
      <3> QED  BY <3>1, <2>1, <2>3, <1>8, <1>5, <1>1, ValueAtIs
    <2>5. ValueAt(m, k, n) = IF a = 0 THEN Unknown ELSE Versions(m, k)[a].value
      <3>1. a + Count(D, k, n, n) = Len(Versions(m, k))
        BY <2>2, <2>3 DEF a
      <3> QED  BY <3>1, <2>1, <2>3, ValueAtIs DEF D, n
    <2> QED  BY <2>4, <2>5, <1>4
  <1> QED  BY <1>1, <1>5, <1>8, <1>9, <1>10 DEF n

\* Rolling back to the outermost d transactions leaves what they show, at
\* every level of them.
LEMMA RollbackTo ==
  ASSUME NEW m, MapOK(m), NEW d \in 0 .. transaction_depth(m), NEW w, w = rollback_to(m, d)
  PROVE  /\ MapOK(w)
         /\ transaction_depth(w) = d
         /\ w.num_client_transactions = m.num_client_transactions
         /\ w.execution_mode = m.execution_mode
         /\ \A k \in Key : \A j \in 0 .. d : ValueAt(w, k, j) = ValueAt(m, k, j)
         /\ DOMAIN w.changes = {} => \A k \in Key : \A j \in 0 .. d : ValueAt(m, k, j) = Unknown
  <1> DEFINE V(k) == Versions(m, k)
             D    == m.dirty_keys
             E    == SubSeq(D, 1, d)
             n    == transaction_depth(m)
             left(k) == Len(m.changes[k]) - Cardinality(Above(m, k, d))
             kept == {k \in DOMAIN m.changes : Above(m, k, d) = {} \/ left(k) > 0}
             C    == [k \in kept |-> SubSeq(m.changes[k], 1, left(k))]
  <1>0. /\ m = [changes                 |-> m.changes,
                dirty_keys              |-> m.dirty_keys,
                num_client_transactions |-> m.num_client_transactions,
                execution_mode          |-> m.execution_mode]
        /\ DOMAIN m.changes \in SUBSET Key
        /\ m.changes \in [DOMAIN m.changes -> Seq(InnerValue)]
        /\ D \in Seq(SUBSET Key)
        /\ m.num_client_transactions \in Nat
        /\ m.execution_mode \in {"Client", "Runtime"}
        /\ n \in Nat
        /\ n = Len(D)
        /\ \A i \in 1 .. n : D[i] \subseteq DOMAIN m.changes
    BY MapFields
  <1>d. d \in Nat /\ d <= n /\ 0 <= d
    BY <1>0
  <1>1. /\ w = [changes                 |-> C,
                dirty_keys              |-> E,
                num_client_transactions |-> m.num_client_transactions,
                execution_mode          |-> m.execution_mode]
        /\ w.changes = C
        /\ w.dirty_keys = E
        /\ w.num_client_transactions = m.num_client_transactions
        /\ w.execution_mode = m.execution_mode
    BY <1>0 DEF rollback_to
  <1>2. /\ E \in Seq(SUBSET Key)
        /\ Len(E) = d
        /\ \A i \in 1 .. d : E[i] = D[i]
    <2> HIDE DEF D
    <2> QED  BY <1>0, Prefix
  <1>3. ASSUME NEW k \in Key
        PROVE  /\ Cardinality(Above(m, k, d)) = Count(D, k, d, n)
               /\ Above(m, k, d) = {} <=> Count(D, k, d, n) = 0
    <2>1. Above(m, k, d) = Dirty(D, k, d, n)
      BY DEF Above, Dirty
    <2>2. IsFiniteSet(Dirty(D, k, d, n))
      BY <1>0, <1>d, CountType
    <2> QED  BY <2>1, <2>2, FS_EmptySet DEF Count
  <1>4. ASSUME NEW k \in Key, NEW j \in 0 .. d
        PROVE  /\ Count(E, k, j, d) = Count(D, k, j, d)
               /\ Count(D, k, j, n) = Count(D, k, j, d) + Count(D, k, d, n)
               /\ Count(D, k, j, d) \in Nat
               /\ Count(D, k, d, n) \in Nat
               /\ Count(D, k, j, n) \in 0 .. Len(V(k))
               /\ Len(V(k)) \in Nat
               /\ Len(V(k)) - Count(D, k, 0, n) \in {0, 1}
    <2>0. j \in Nat /\ j <= d /\ j \in 0 .. n
      BY <1>0, <1>d
    <2>1. \A i \in j + 1 .. d : k \in E[i] <=> k \in D[i]
      BY <2>0, <1>d, <1>2
    <2>2. /\ Len(V(k)) \in Nat
          /\ Len(V(k)) - Count(D, k, 0, n) \in {0, 1}
      BY KeyFacts, LenProperties
    <2>3. Count(D, k, j, n) \in 0 .. Len(V(k))
      BY <2>0, VersionAt
    <2> HIDE DEF D, E, n, V
    <2>4. Count(E, k, j, d) = Count(D, k, j, d)
      BY <2>0, <2>1, <1>d, CountSame
    <2>5. Count(D, k, j, n) = Count(D, k, j, d) + Count(D, k, d, n)
      BY <2>0, <1>0, <1>d, CountSplit
    <2>6. Count(D, k, j, d) \in Nat /\ Count(D, k, d, n) \in Nat
      BY <2>0, <1>0, <1>d, CountType
    <2> QED  BY <2>2, <2>3, <2>4, <2>5, <2>6
  <1>5. ASSUME NEW k \in DOMAIN m.changes
        PROVE  /\ k \in Key
               /\ m.changes[k] = V(k)
               /\ V(k) # <<>>
               /\ V(k) \in Seq(InnerValue)
               /\ left(k) = Len(V(k)) - Count(D, k, d, n)
               /\ left(k) \in 0 .. Len(V(k))
               /\ k \in kept <=> left(k) # 0
               /\ k \in kept => C[k] = SubSeq(V(k), 1, left(k))
    <2>1. k \in Key
      BY <1>0
    <2>2. m.changes[k] = V(k) /\ V(k) # <<>> /\ V(k) \in Seq(InnerValue) /\ Len(V(k)) \in Nat
          /\ Len(V(k)) # 0
      BY <2>1, KeyFacts, LenProperties, EmptySeq DEF Versions
    <2>3. left(k) = Len(V(k)) - Count(D, k, d, n)
      BY <2>1, <2>2, <1>3
    <2>4. Count(D, k, d, n) \in Nat /\ Count(D, k, d, n) \in 0 .. Len(V(k))
      BY <2>1, <1>4, <1>d
    <2>5. left(k) \in 0 .. Len(V(k))
      <3> HIDE DEF left, V, D, n
      <3> QED  BY <2>2, <2>3, <2>4
    <2>6. k \in kept <=> left(k) # 0
      <3>1. k \in kept <=> Count(D, k, d, n) = 0 \/ left(k) > 0
        BY <1>3, <2>1
      <3> HIDE DEF left, V, D, n, kept
      <3> QED  BY <3>1, <2>2, <2>3, <2>4, <2>5
    <2>7. k \in kept => C[k] = SubSeq(V(k), 1, left(k))
      <3>1. k \in kept => C[k] = SubSeq(m.changes[k], 1, left(k))
        OBVIOUS
      <3> QED  BY <3>1, <2>2
    <2> QED  BY <2>1, <2>2, <2>3, <2>5, <2>6, <2>7
  <1>6. kept \subseteq DOMAIN m.changes /\ DOMAIN C = kept /\ C = [k \in kept |-> C[k]]
        /\ kept \in SUBSET Key
    BY <1>0
  <1>7. \A k \in Key : k \notin DOMAIN m.changes => V(k) = <<>>
    BY DEF Versions
  <1>v. \A k \in Key : Versions(w, k) = IF k \in kept THEN C[k] ELSE <<>>
    BY <1>1, <1>6 DEF Versions
  <1> HIDE DEF V, D, E, n, left, kept, C
  <1>8. ASSUME NEW k \in kept
        PROVE  /\ C[k] \in Seq(InnerValue)
               /\ Len(C[k]) = left(k)
               /\ left(k) \in Nat \ {0}
               /\ \A i \in 1 .. left(k) : C[k][i] = V(k)[i]
    <2>1. /\ V(k) \in Seq(InnerValue)
          /\ left(k) \in 0 .. Len(V(k)) /\ left(k) # 0
          /\ C[k] = SubSeq(V(k), 1, left(k))
          /\ Len(V(k)) \in Nat
      BY <1>5, <1>6, LenProperties
    <2>2. left(k) \in Nat \ {0}
      BY <2>1
    <2> QED  BY <2>1, <2>2, Prefix
  <1>9. \A k \in kept : C[k] # <<>> /\ Len(C[k]) - Count(E, k, 0, Len(E)) \in {0, 1}
    <2> SUFFICES ASSUME NEW k \in kept
                 PROVE  C[k] # <<>> /\ Len(C[k]) - Count(E, k, 0, d) \in {0, 1}
      BY <1>2
    <2>1. k \in Key /\ k \in DOMAIN m.changes /\ 0 \in 0 .. d
      BY <1>6, <1>0, <1>d
    <2>2. C[k] # <<>>
      BY <1>8, EmptySeq
    <2>3. Len(C[k]) = Len(V(k)) - Count(D, k, d, n)
      BY <1>8, <1>5, <2>1
    <2>4. /\ Count(E, k, 0, d) = Count(D, k, 0, d)
          /\ Count(D, k, 0, n) = Count(D, k, 0, d) + Count(D, k, d, n)
          /\ Count(D, k, 0, d) \in Nat
          /\ Count(D, k, d, n) \in Nat
          /\ Len(V(k)) \in Nat
          /\ Len(V(k)) - Count(D, k, 0, n) \in {0, 1}
      BY <2>1, <1>4
    <2> QED  BY <2>2, <2>3, <2>4
  <1>10. \A i \in 1 .. Len(E) : E[i] \subseteq kept
    <2> SUFFICES ASSUME NEW i \in 1 .. d, NEW k \in D[i] PROVE k \in kept
      BY <1>2
    <2>1. k \in DOMAIN m.changes /\ k \in Key /\ 0 \in 0 .. d
      BY <1>0, <1>d
    <2>2. Count(D, k, 0, d) # 0
      <3>1. i \in 0 + 1 .. d /\ 0 \in Nat
        BY <1>d
      <3> QED  BY <3>1, <1>d, CountType
    <2>3. left(k) # 0
      BY <2>1, <2>2, <1>4, <1>5
    <2> QED  BY <2>1, <2>3, <1>5
  <1>11. C \in [kept -> Seq(InnerValue)]
    BY <1>6, <1>8
  <1>12. MapOK(w)
    BY <1>0, <1>1, <1>2, <1>6, <1>9, <1>10, <1>11, MapOKIntro
  <1>13. transaction_depth(w) = d
    BY <1>1, <1>2 DEF transaction_depth
  <1>14. ASSUME NEW k \in Key, NEW j \in 0 .. d
         PROVE  /\ ValueAt(w, k, j) = ValueAt(m, k, j)
                /\ k \notin kept => ValueAt(m, k, j) = Unknown
    <2> DEFINE a == Len(V(k)) - Count(D, k, j, n)
    <2>0. j \in 0 .. n
      BY <1>0, <1>d
    <2>f. /\ Count(E, k, j, d) = Count(D, k, j, d)
          /\ Count(D, k, j, n) = Count(D, k, j, d) + Count(D, k, d, n)
          /\ Count(D, k, j, d) \in Nat
          /\ Count(D, k, d, n) \in Nat
          /\ Count(D, k, j, n) \in 0 .. Len(V(k))
          /\ Len(V(k)) \in Nat
      BY <1>4
    <2>g. Count(D, k, j, n) \in Nat /\ Count(D, k, j, n) <= Len(V(k))
      BY <2>f
    <2>1. a \in Nat /\ a + Count(D, k, j, n) = Len(V(k))
      <3>1. Len(V(k)) \in Nat
        BY <2>f
      <3> QED  BY <3>1, <2>g
    <2> HIDE DEF a
    <2>2. ValueAt(m, k, j) = IF a = 0 THEN Unknown ELSE V(k)[a].value
      BY <2>0, <2>1, ValueAtIs DEF D, n, V
    <2>3. CASE k \in kept
      <3>1. k \in DOMAIN m.changes
        BY <2>3, <1>6
      <3>2. Versions(w, k) = C[k]
        BY <2>3, <1>v
      <3>3. a + Count(E, k, j, d) = Len(C[k]) /\ a <= left(k)
        <4>1. Len(C[k]) = Len(V(k)) - Count(D, k, d, n) /\ Len(C[k]) = left(k)
          BY <1>5, <1>8, <2>3, <3>1
        <4>2. left(k) = Len(V(k)) - Count(D, k, d, n)
          BY <4>1
        <4> HIDE DEF left
        <4> QED  BY <4>1, <4>2, <2>f, <2>1
      <3>4. ValueAt(w, k, j) = IF a = 0 THEN Unknown ELSE C[k][a].value
        BY <3>2, <3>3, <2>1, <1>12, <1>13, <1>1, ValueAtIs
      <3>5. a # 0 => C[k][a] = V(k)[a]
        BY <2>1, <2>3, <3>3, <1>8
      <3> QED  BY <2>2, <2>3, <3>4, <3>5
    <2>4. CASE k \notin kept
      <3>1. Len(V(k)) = Count(D, k, d, n)
        <4>1. CASE k \in DOMAIN m.changes
          BY <4>1, <2>4, <1>5, <1>4
        <4>2. CASE k \notin DOMAIN m.changes
          <5>1. Len(V(k)) = 0
            BY <4>2, <1>7, EmptySeq
          <5> QED  BY <5>1, <1>4
        <4> QED  BY <4>1, <4>2
      <3>2. a = 0 /\ Count(D, k, j, d) = 0
        BY <3>1, <2>1, <2>f
      <3>3. Versions(w, k) = <<>> /\ Len(Versions(w, k)) = 0
        BY <2>4, <1>v, EmptySeq
      <3>4. ValueAt(w, k, j) = Unknown
        <4>1. 0 \in Nat /\ 0 + Count(E, k, j, d) = Len(Versions(w, k))
          BY <3>2, <3>3, <1>4
        <4> QED  BY <4>1, <1>12, <1>13, <1>1, ValueAtIs
      <3> QED  BY <3>2, <3>4, <2>2, <2>4
    <2> QED  BY <2>3, <2>4
  <1>15. DOMAIN w.changes = kept
    BY <1>1, <1>6
  <1> QED  BY <1>1, <1>12, <1>13, <1>14, <1>15

\* The committed version takes the place of the one before it.
LEMMA Merged ==
  ASSUME NEW vs \in Seq(InnerValue), Len(vs) > 1
  PROVE  /\ merged(vs) \in Seq(InnerValue)
         /\ Len(merged(vs)) = Len(vs) - 1
         /\ \A i \in 1 .. Len(vs) - 2 : merged(vs)[i] = vs[i]
         /\ merged(vs)[Len(vs) - 1].value = vs[Len(vs)].value
  <1> DEFINE n == Len(vs)
             x == [value |-> vs[n].value, extrinsics |-> vs[n - 1].extrinsics \cup vs[n].extrinsics]
             p == SubSeq(vs, 1, n - 2)
  <1>1. n \in Nat /\ n - 2 \in 0 .. n /\ vs[n] \in InnerValue /\ vs[n - 1] \in InnerValue
    <2>1. n \in Nat /\ n \in 1 .. n /\ n - 1 \in 1 .. n /\ n - 2 \in 0 .. n
      BY LenProperties
    <2> QED  BY <2>1, LenProperties
  <1>2. x \in InnerValue /\ x.value = vs[n].value
    BY <1>1 DEF InnerValue
  <1>3. merged(vs) = Append(p, x)
    BY DEF merged
  <1> HIDE DEF x, p, n
  <1>4. /\ p \in Seq(InnerValue)
        /\ Len(p) = n - 2
        /\ \A i \in 1 .. n - 2 : p[i] = vs[i]
    BY <1>1, Prefix DEF p, n
  <1>5. /\ Append(p, x) \in Seq(InnerValue)
        /\ Len(Append(p, x)) = n - 2 + 1
        /\ \A i \in 1 .. n - 2 : Append(p, x)[i] = p[i]
        /\ Append(p, x)[n - 2 + 1] = x
    BY <1>2, <1>4, AppendProperties
  <1>6. n - 2 + 1 = n - 1
    BY <1>1
  <1> QED  BY <1>2, <1>3, <1>4, <1>5, <1>6 DEF n

\* The dirty sets and the counts after a commit: the innermost two
\* transactions have become one.
LEMMA CommitDirty ==
  ASSUME NEW m, MapOK(m), transaction_depth(m) > 0,
         NEW n, n = transaction_depth(m),
         NEW D, D = m.dirty_keys,
         NEW E, E = [i \in 1 .. n - 1 |-> IF i = n - 1 THEN D[i] \cup D[n] ELSE D[i]]
  PROVE  /\ E \in Seq(SUBSET Key)
         /\ Len(E) = n - 1
         /\ \A i \in 1 .. n - 1 : E[i] \subseteq DOMAIN m.changes
         /\ \A k \in Key : \A j \in 0 .. n - 1 :
              j < n - 1 =>
                Count(D, k, j, n) =
                  Count(E, k, j, n - 1) + (IF k \in D[n] /\ k \in D[n - 1] THEN 1 ELSE 0)
         /\ \A k \in Key : Count(D, k, n - 1, n) = IF k \in D[n] THEN 1 ELSE 0
         /\ \A k \in Key : Count(E, k, n - 1, n - 1) = 0
  <1>0. /\ n \in Nat /\ n > 0 /\ n - 1 \in Nat
        /\ D \in Seq(SUBSET Key)
        /\ Len(D) = n
        /\ \A i \in 1 .. n : D[i] \subseteq DOMAIN m.changes
        /\ DOMAIN m.changes \subseteq Key
    BY MapFields
  <1>1. \A i \in 1 .. n - 1 : E[i] \in SUBSET Key /\ E[i] \subseteq DOMAIN m.changes
    <2> SUFFICES ASSUME NEW i \in 1 .. n - 1
                 PROVE  E[i] \subseteq DOMAIN m.changes
      BY <1>0
    <2>1. i \in 1 .. n /\ n \in 1 .. n
      BY <1>0
    <2>2. CASE i = n - 1
      BY <2>1, <2>2, <1>0
    <2>3. CASE i # n - 1
      BY <2>1, <2>3, <1>0
    <2> QED  BY <2>2, <2>3
  <1>2. E \in [1 .. n - 1 -> SUBSET Key]
    BY <1>1
  <1>3. E \in Seq(SUBSET Key)
    BY <1>0, <1>2
  <1>4. Len(E) = n - 1
    <2>1. DOMAIN E = 1 .. n - 1
      OBVIOUS
    <2>2. DOMAIN E = 1 .. Len(E) /\ Len(E) \in Nat
      BY <1>3, LenProperties
    <2> HIDE <1>0
    <2> QED  BY <2>1, <2>2, <1>0
  <1>5. \A i \in 1 .. n - 1 : E[i] = IF i = n - 1 THEN D[i] \cup D[n] ELSE D[i]
    OBVIOUS
  <1>6. ASSUME NEW k \in Key, NEW j \in 0 .. n - 1, j < n - 1
        PROVE  Count(D, k, j, n) =
                 Count(E, k, j, n - 1) + (IF k \in D[n] /\ k \in D[n - 1] THEN 1 ELSE 0)
    <2>0. j \in Nat /\ n - 2 \in Nat /\ j <= n - 2 /\ j <= n - 1
          /\ (n - 2) + 1 = n - 1 /\ (n - 1) + 1 = n
      BY <1>0, <1>6
    <2>1. Count(D, k, j, n) = Count(D, k, j, n - 1) + (IF k \in D[n] THEN 1 ELSE 0)
      <3>1. n - 1 \in Nat
        BY <1>0
      <3>2. \A F : Count(F, k, j, (n - 1) + 1) =
                     Count(F, k, j, n - 1) + (IF k \in F[(n - 1) + 1] THEN 1 ELSE 0)
        BY <2>0, <3>1, CountNext
      <3> QED  BY <3>2, <2>0
    <2>2. Count(D, k, j, n - 1) = Count(D, k, j, n - 2) + (IF k \in D[n - 1] THEN 1 ELSE 0)
      BY <2>0, <1>0, CountNext
    <2>3. Count(E, k, j, n - 1) = Count(E, k, j, n - 2) + (IF k \in E[n - 1] THEN 1 ELSE 0)
      <3>1. \A F : Count(F, k, j, (n - 2) + 1) =
                     Count(F, k, j, n - 2) + (IF k \in F[(n - 2) + 1] THEN 1 ELSE 0)
        BY <2>0, CountNext
      <3> QED  BY <3>1, <2>0
    <2>4. \A i \in j + 1 .. n - 2 : k \in E[i] <=> k \in D[i]
      BY <1>5, <1>0, <2>0
    <2>5. Count(E, k, j, n - 2) = Count(D, k, j, n - 2)
      BY <2>0, <2>4, CountSame
    <2>6. k \in E[n - 1] <=> k \in D[n - 1] \/ k \in D[n]
      <3>1. n - 1 \in 1 .. n - 1
        BY <1>0, <2>0
      <3> QED  BY <3>1, <1>5
    <2>7. Count(D, k, j, n - 2) \in Nat
      BY <2>0, CountType
    <2> QED  BY <2>1, <2>2, <2>3, <2>5, <2>6, <2>7
  <1>7. ASSUME NEW k \in Key
        PROVE  /\ Count(D, k, n - 1, n) = IF k \in D[n] THEN 1 ELSE 0
               /\ Count(E, k, n - 1, n - 1) = 0
    <2>0. (n - 1) + 1 = n /\ n - 1 <= n - 1
      BY <1>0
    <2>1. Count(D, k, n - 1, n) = Count(D, k, n - 1, n - 1) + (IF k \in D[n] THEN 1 ELSE 0)
      BY <2>0, <1>0, CountNext
    <2>2. Count(D, k, n - 1, n - 1) = 0 /\ Count(E, k, n - 1, n - 1) = 0
      BY <2>0, <1>0, CountType
    <2> QED  BY <2>1, <2>2
  <1> QED  BY <1>1, <1>3, <1>4, <1>6, <1>7

\* A commit hands what the innermost transaction shows to the one around it.
LEMMA CommitTx ==
  ASSUME NEW m, MapOK(m), transaction_depth(m) > 0, NEW w, w = commit_transaction(m)
  PROVE  /\ MapOK(w)
         /\ transaction_depth(w) = transaction_depth(m) - 1
         /\ w.num_client_transactions = m.num_client_transactions
         /\ w.execution_mode = m.execution_mode
         /\ \A k \in Key : \A j \in 0 .. transaction_depth(m) - 1 :
              ValueAt(w, k, j) =
                ValueAt(m, k, IF j = transaction_depth(m) - 1 THEN transaction_depth(m) ELSE j)
  <1> DEFINE n    == transaction_depth(m)
             D    == m.dirty_keys
             dom  == DOMAIN m.changes
             V(k) == Versions(m, k)
             gone(k) == k \in D[n] /\ has_predecessor(m, k)
             C    == [k \in dom |-> IF gone(k) THEN merged(m.changes[k]) ELSE m.changes[k]]
             E    == [i \in 1 .. n - 1 |-> IF i = n - 1 THEN D[i] \cup D[n] ELSE D[i]]
  <1>0. /\ m = [changes                 |-> m.changes,
                dirty_keys              |-> m.dirty_keys,
                num_client_transactions |-> m.num_client_transactions,
                execution_mode          |-> m.execution_mode]
        /\ dom \in SUBSET Key
        /\ m.num_client_transactions \in Nat
        /\ m.execution_mode \in {"Client", "Runtime"}
        /\ n \in Nat /\ n > 0 /\ n - 1 \in Nat
    BY MapFields
  <1>1. /\ w = [changes                 |-> C,
                dirty_keys              |-> E,
                num_client_transactions |-> m.num_client_transactions,
                execution_mode          |-> m.execution_mode]
        /\ w.changes = C
        /\ w.dirty_keys = E
        /\ w.num_client_transactions = m.num_client_transactions
        /\ w.execution_mode = m.execution_mode
    BY <1>0 DEF commit_transaction
  <1>2. /\ E \in Seq(SUBSET Key)
        /\ Len(E) = n - 1
        /\ \A i \in 1 .. n - 1 : E[i] \subseteq dom
        /\ \A k \in Key : \A j \in 0 .. n - 1 :
              j < n - 1 =>
                Count(D, k, j, n) =
                  Count(E, k, j, n - 1) + (IF k \in D[n] /\ k \in D[n - 1] THEN 1 ELSE 0)
        /\ \A k \in Key : Count(D, k, n - 1, n) = IF k \in D[n] THEN 1 ELSE 0
        /\ \A k \in Key : Count(E, k, n - 1, n - 1) = 0
    BY CommitDirty
  <1>3. ASSUME NEW k \in dom
        PROVE  /\ k \in Key
               /\ m.changes[k] = V(k)
               /\ V(k) \in Seq(InnerValue)
               /\ Len(V(k)) \in Nat \ {0}
               /\ Len(V(k)) - Count(D, k, 0, n) \in {0, 1}
               /\ n > 1 => (gone(k) <=> k \in D[n] /\ k \in D[n - 1])
               /\ n = 1 => (gone(k) <=> k \in D[n] /\ Len(V(k)) > 1)
               /\ C[k] = IF gone(k) THEN merged(V(k)) ELSE V(k)
    <2>1. k \in Key
      BY <1>0
    <2>2. m.changes[k] = V(k) /\ V(k) \in Seq(InnerValue) /\ Len(V(k)) \in Nat \ {0}
          /\ Len(V(k)) - Count(D, k, 0, n) \in {0, 1}
      BY <2>1, KeyFacts, EmptySeq DEF Versions
    <2>3. n > 1 => (has_predecessor(m, k) <=> k \in D[n - 1])
      BY DEF has_predecessor
    <2>4. n = 1 => (has_predecessor(m, k) <=> Len(V(k)) > 1)
      BY <2>2 DEF has_predecessor
    <2>5. C[k] = IF gone(k) THEN merged(V(k)) ELSE V(k)
      BY <2>2
    <2> QED  BY <2>1, <2>2, <2>3, <2>4, <2>5
  <1>4. /\ DOMAIN C = dom
        /\ C = [k \in dom |-> C[k]]
        /\ \A k \in Key : k \notin dom => V(k) = <<>> /\ k \notin D[n]
    <2>1. n \in 1 .. n
      BY <1>0
    <2> QED  BY <2>1, KeyFacts DEF Versions
  <1>v. \A k \in Key : Versions(w, k) = IF k \in dom THEN C[k] ELSE <<>>
    BY <1>1, <1>4 DEF Versions
  <1> HIDE DEF n, D, dom, V, gone, C, E
  \* A key that is written in the innermost two transactions has two versions at least.
  <1>5. ASSUME NEW k \in Key, k \in D[n], NEW j \in Nat, j < n - 1, k \in D[n - 1]
        PROVE  Count(D, k, j, n) > 1
    <2>0. j \in 0 .. n - 1 /\ j <= n - 1 /\ n - 1 \in 0 .. n - 1 /\ j <= n /\ n - 1 <= n
      BY <1>0, <1>5
    <2>1. Count(D, k, j, n) = Count(D, k, j, n - 1) + Count(D, k, n - 1, n)
      BY <2>0, <1>0, CountSplit
    <2>2. Count(D, k, n - 1, n) = 1
      BY <1>5, <1>2
    <2>3. Count(D, k, j, n - 1) \in Nat /\ Count(D, k, j, n - 1) # 0
      <3>1. n - 1 \in j + 1 .. n - 1
        BY <1>0, <2>0, <1>5
      <3> QED  BY <3>1, <2>0, <1>0, <1>5, CountType
    <2> QED  BY <2>1, <2>2, <2>3
  <1>6. ASSUME NEW k \in dom, NEW j \in 0 .. n
        PROVE  Count(D, k, j, n) \in Nat /\ Count(D, k, j, n) <= Len(V(k))
    <2>1. Count(D, k, j, n) \in 0 .. Len(V(k))
      BY <1>3, VersionAt DEF D, n, V
    <2> QED  BY <2>1, <1>3
  <1>7. ASSUME NEW k \in dom, gone(k) PROVE Len(V(k)) > 1
    <2>1. CASE n = 1
      BY <2>1, <1>3, <1>7
    <2>2. CASE n > 1
      <3>1. 0 \in Nat /\ 0 < n - 1 /\ 0 \in 0 .. n
        BY <2>2, <1>0
      <3>2. Count(D, k, 0, n) > 1
        BY <1>3, <1>5, <1>7, <2>2, <3>1
      <3>3. Count(D, k, 0, n) \in Nat /\ Count(D, k, 0, n) <= Len(V(k))
        BY <1>6, <3>1
      <3> QED  BY <1>3, <3>2, <3>3
    <2> QED  BY <1>0, <2>1, <2>2
  <1>8. ASSUME NEW k \in dom
        PROVE  /\ C[k] \in Seq(InnerValue)
               /\ C[k] # <<>>
               /\ Len(C[k]) \in Nat \ {0}
               /\ Len(C[k]) = Len(V(k)) - (IF gone(k) THEN 1 ELSE 0)
               /\ \A i \in 1 .. Len(C[k]) - 1 : C[k][i] = V(k)[i]
               /\ C[k][Len(C[k])].value = V(k)[Len(V(k))].value
    <2>0. V(k) \in Seq(InnerValue) /\ Len(V(k)) \in Nat \ {0}
          /\ C[k] = IF gone(k) THEN merged(V(k)) ELSE V(k)
      BY <1>3
    <2>1. CASE gone(k)
      <3>1. C[k] = merged(V(k)) /\ Len(V(k)) > 1
        BY <2>0, <2>1, <1>7
      <3>2. /\ C[k] \in Seq(InnerValue)
            /\ Len(C[k]) = Len(V(k)) - 1
            /\ \A i \in 1 .. Len(V(k)) - 2 : C[k][i] = V(k)[i]
            /\ C[k][Len(V(k)) - 1].value = V(k)[Len(V(k))].value
        BY <2>0, <3>1, Merged
      <3>3. Len(C[k]) \in Nat \ {0} /\ Len(C[k]) - 1 = Len(V(k)) - 2
        BY <2>0, <3>1, <3>2
      <3>4. C[k] # <<>>
        BY <3>3, EmptySeq
      <3> QED  BY <2>1, <3>2, <3>3, <3>4
    <2>2. CASE ~gone(k)
      <3>1. C[k] = V(k)
        BY <2>0, <2>2
      <3>2. V(k) # <<>>
        BY <2>0, EmptySeq
      <3> QED  BY <2>0, <2>2, <3>1, <3>2
    <2> QED  BY <2>1, <2>2
  \* Below the innermost two transactions, as many versions are left as before.
  <1>9. ASSUME NEW k \in dom, NEW j \in 0 .. n - 1, j < n - 1
        PROVE  /\ Len(C[k]) - Count(E, k, j, n - 1) = Len(V(k)) - Count(D, k, j, n)
               /\ Count(E, k, j, n - 1) \in Nat
    <2>1. k \in Key /\ n > 1 /\ j \in Nat /\ j \in 0 .. n
      BY <1>0, <1>3, <1>9
    <2>2. gone(k) <=> k \in D[n] /\ k \in D[n - 1]
      BY <2>1, <1>3
    <2>3. Count(D, k, j, n) =
            Count(E, k, j, n - 1) + (IF k \in D[n] /\ k \in D[n - 1] THEN 1 ELSE 0)
      BY <2>1, <1>2, <1>9
    <2>4. Count(E, k, j, n - 1) \in Nat
      BY <2>1, <1>0, CountType
    <2>5. Len(C[k]) = Len(V(k)) - (IF gone(k) THEN 1 ELSE 0) /\ Len(V(k)) \in Nat
      BY <1>8, <1>3
    <2> QED  BY <2>2, <2>3, <2>4, <2>5
  <1>10. \A k \in dom : C[k] # <<>> /\ Len(C[k]) - Count(E, k, 0, Len(E)) \in {0, 1}
    <2> SUFFICES ASSUME NEW k \in dom
                 PROVE  Len(C[k]) - Count(E, k, 0, n - 1) \in {0, 1}
      BY <1>2, <1>8
    <2>0. k \in Key /\ Len(V(k)) - Count(D, k, 0, n) \in {0, 1} /\ Len(V(k)) \in Nat \ {0}
      BY <1>3
    <2>1. CASE n = 1
      <3>1. Count(E, k, 0, n - 1) = 0
        <4>1. n - 1 = 0
          BY <2>1
        <4>2. Count(E, k, n - 1, n - 1) = 0
          BY <2>0, <1>2
        <4> QED  BY <4>1, <4>2
      <3>2. Count(D, k, 0, n) = IF k \in D[n] THEN 1 ELSE 0
        <4>1. n - 1 = 0
          BY <2>1
        <4>2. Count(D, k, n - 1, n) = IF k \in D[n] THEN 1 ELSE 0
          BY <2>0, <1>2
        <4> QED  BY <4>1, <4>2
      <3>3. Len(C[k]) = Len(V(k)) - (IF gone(k) THEN 1 ELSE 0)
            /\ (gone(k) <=> k \in D[n] /\ Len(V(k)) > 1)
        BY <2>1, <1>8, <1>3
      <3> QED  BY <3>1, <3>2, <3>3, <2>0
    <2>2. CASE n > 1
      <3>1. 0 \in 0 .. n - 1 /\ 0 < n - 1
        BY <2>2, <1>0
      <3> QED  BY <3>1, <2>0, <1>9
    <2> QED  BY <2>1, <2>2, <1>0
  <1>11. C \in [dom -> Seq(InnerValue)]
    BY <1>4, <1>8
  <1>12. MapOK(w)
    BY <1>0, <1>1, <1>2, <1>4, <1>10, <1>11, MapOKIntro
  <1>13. transaction_depth(w) = n - 1
    BY <1>1, <1>2 DEF transaction_depth
  <1>14. ASSUME NEW k \in Key, NEW j \in 0 .. n - 1
         PROVE  ValueAt(w, k, j) = ValueAt(m, k, IF j = n - 1 THEN n ELSE j)
    <2>0. j \in Nat /\ j \in 0 .. n /\ n \in 0 .. n /\ n <= n
      BY <1>0
    <2>1. CASE k \notin dom
      <3>1. V(k) = <<>> /\ Versions(w, k) = <<>> /\ Len(V(k)) = 0 /\ Len(Versions(w, k)) = 0
        BY <2>1, <1>4, <1>v, EmptySeq
      <3>2. Count(E, k, j, n - 1) \in 0 .. 0
        BY <3>1, <1>12, <1>13, <1>1, VersionAt
      <3>3. ASSUME NEW i \in 0 .. n PROVE ValueAt(m, k, i) = Unknown
        <4>1. Count(D, k, i, n) \in 0 .. 0
          BY <3>1, VersionAt DEF V, D, n
        <4>2. 0 \in Nat /\ 0 + Count(D, k, i, n) = Len(V(k))
          BY <4>1, <3>1
        <4> QED  BY <4>2, ValueAtIs DEF V, D, n
      <3>4. ValueAt(w, k, j) = Unknown
        <4>1. 0 \in Nat /\ 0 + Count(E, k, j, n - 1) = Len(Versions(w, k))
          BY <3>1, <3>2
        <4> QED  BY <4>1, <1>12, <1>13, <1>1, ValueAtIs
      <3> QED  BY <2>0, <3>3, <3>4
    <2>2. CASE k \in dom /\ j = n - 1
      <3>1. Versions(w, k) = C[k] /\ Len(C[k]) \in Nat \ {0} /\ Len(V(k)) \in Nat \ {0}
            /\ C[k][Len(C[k])].value = V(k)[Len(V(k))].value
        BY <2>2, <1>v, <1>8, <1>3
      <3>2. Count(E, k, j, n - 1) = 0 /\ Count(D, k, n, n) = 0
        BY <2>0, <2>2, <1>2, CountType
      <3>3. Len(C[k]) + Count(E, k, j, n - 1) = Len(C[k]) /\ Len(V(k)) + Count(D, k, n, n) = Len(V(k))
        BY <3>1, <3>2
      <3>4. ValueAt(w, k, j) = C[k][Len(C[k])].value
        <4> DEFINE l == Len(C[k])
        <4>1. l \in Nat /\ l # 0 /\ l + Count(w.dirty_keys, k, j, transaction_depth(w)) = Len(Versions(w, k))
          BY <3>1, <3>3, <1>1, <1>13
        <4> HIDE DEF l
        <4>2. ValueAt(w, k, j) = IF l = 0 THEN Unknown ELSE Versions(w, k)[l].value
          BY <4>1, <1>12, <1>13, ValueAtIs
        <4> QED  BY <4>1, <4>2, <3>1 DEF l
      <3>5. ValueAt(m, k, n) = V(k)[Len(V(k))].value
        <4> DEFINE l == Len(V(k))
        <4>1. l \in Nat /\ l # 0 /\ l + Count(D, k, n, n) = Len(V(k))
          BY <3>1, <3>3
        <4> HIDE DEF l
        <4>2. ValueAt(m, k, n) = IF l = 0 THEN Unknown ELSE V(k)[l].value
          BY <4>1, <2>0, ValueAtIs DEF D, n, V
        <4> QED  BY <4>1, <4>2 DEF l
      <3> QED  BY <2>2, <3>1, <3>4, <3>5
    <2>3. CASE k \in dom /\ j # n - 1
      <3> DEFINE a == Len(V(k)) - Count(D, k, j, n)
      <3>1. j < n - 1
        BY <2>0, <2>3, <1>0
      <3>2. Count(D, k, j, n) \in Nat /\ Count(D, k, j, n) <= Len(V(k)) /\ Len(V(k)) \in Nat
        BY <2>0, <2>3, <1>6, <1>3
      <3>3. a \in Nat /\ a + Count(D, k, j, n) = Len(V(k))
        BY <3>2
      <3>4. Len(C[k]) - Count(E, k, j, n - 1) = a /\ Count(E, k, j, n - 1) \in Nat
        BY <3>1, <2>3, <1>9
      <3>5. /\ Len(C[k]) \in Nat
            /\ Len(C[k]) = Len(V(k)) - (IF gone(k) THEN 1 ELSE 0)
            /\ \A i \in 1 .. Len(C[k]) - 1 : C[k][i] = V(k)[i]
            /\ Versions(w, k) = C[k]
        BY <2>3, <1>8, <1>v
      <3> HIDE DEF a
      <3>6. a + Count(E, k, j, n - 1) = Len(C[k])
        BY <3>3, <3>4, <3>5
      <3>7. ValueAt(m, k, j) = IF a = 0 THEN Unknown ELSE V(k)[a].value
        BY <3>3, <2>0, ValueAtIs DEF D, n, V
      <3>8. ValueAt(w, k, j) = IF a = 0 THEN Unknown ELSE C[k][a].value
        <4>1. /\ a \in Nat
              /\ a + Count(w.dirty_keys, k, j, transaction_depth(w)) = Len(Versions(w, k))
              /\ j \in 0 .. transaction_depth(w)
          BY <3>3, <3>5, <3>6, <1>1, <1>13
        <4>2. ValueAt(w, k, j) = IF a = 0 THEN Unknown ELSE Versions(w, k)[a].value
          BY <4>1, <1>12, ValueAtIs
        <4> QED  BY <4>2, <3>5
      <3>9. a # 0 => C[k][a] = V(k)[a]
        <4>1. CASE Count(E, k, j, n - 1) # 0
          <5>1. a # 0 => a \in 1 .. Len(C[k]) - 1
            BY <4>1, <3>3, <3>4, <3>5, <3>6
          <5> QED  BY <5>1, <3>5
        <4>2. CASE Count(E, k, j, n - 1) = 0
          <5>1. ~gone(k)
            <6>1. ASSUME gone(k) PROVE FALSE
              <7>0. n > 1 /\ k \in Key
                BY <3>1, <2>0, <1>0
              <7>1. k \in D[n] /\ k \in D[n - 1]
                BY <6>1, <7>0, <2>3, <1>3
              <7>2. Count(D, k, j, n) > 1
                BY <7>0, <7>1, <3>1, <2>0, <1>5
              <7>3. Count(D, k, j, n) = Count(E, k, j, n - 1) + 1
                BY <7>1, <7>0, <3>1, <1>2
              <7> QED  BY <7>2, <7>3, <4>2
            <6> QED  BY <6>1
          <5>2. C[k] = V(k)
            BY <5>1, <2>3, <1>3
          <5> QED  BY <5>2
        <4> QED  BY <4>1, <4>2
      <3> QED  BY <2>3, <3>7, <3>8, <3>9
    <2> QED  BY <2>1, <2>2, <2>3
  <1> QED  BY <1>1, <1>12, <1>13, <1>14 DEF n

\* What is read is what the innermost transaction shows.
LEMMA GetIs ==
  ASSUME NEW m, MapOK(m), NEW k \in Key
  PROVE  /\ get(m, k) = ValueAt(m, k, transaction_depth(m))
         /\ get(m, k) \in Value \cup {Unknown}
         /\ get(m, k) = Unknown <=> Versions(m, k) = <<>>
  <1> DEFINE n == transaction_depth(m)
             l == Len(Versions(m, k))
  <1>1. /\ Versions(m, k) \in Seq(InnerValue) /\ n \in Nat
        /\ Versions(m, k) = <<>> <=> k \notin DOMAIN m.changes
    BY KeyFacts
  <1>2. l \in Nat /\ (l = 0 <=> Versions(m, k) = <<>>)
    BY <1>1, LenProperties, EmptySeq
  <1>3. n \in 0 .. n /\ n <= n
    BY <1>1
  <1>4. Count(m.dirty_keys, k, n, n) = 0
    BY <1>1, <1>3, CountType
  <1>5. get(m, k) = IF l = 0 THEN Unknown ELSE Versions(m, k)[l].value
    BY <1>1, <1>2 DEF get, Versions
  <1>6. l # 0 => Versions(m, k)[l].value \in Value
    <2>1. l # 0 => Versions(m, k)[l] \in InnerValue
      <3>1. l # 0 => l \in 1 .. l
        BY <1>2
      <3> QED  BY <1>1, <3>1, LenProperties
    <2> QED  BY <2>1 DEF InnerValue, Value
  <1>7. l + Count(m.dirty_keys, k, n, n) = l
    BY <1>2, <1>4
  <1>8. ValueAt(m, k, n) = IF l = 0 THEN Unknown ELSE Versions(m, k)[l].value
    BY <1>2, <1>3, <1>7, ValueAtIs
  <1>9. Unknown \notin Value
    BY OptionAssumption DEF Value
  <1> HIDE DEF l, n
  <1>10. get(m, k) = ValueAt(m, k, n)
    BY <1>5, <1>8
  <1>11. get(m, k) \in Value \cup {Unknown}
    BY <1>5, <1>6
  <1>12. get(m, k) = Unknown <=> Versions(m, k) = <<>>
    BY <1>2, <1>5, <1>6, <1>9
  <1> QED  BY <1>10, <1>11, <1>12 DEF n

\* The mode and the protected transactions do not matter to what is shown.
LEMMA SameVersions ==
  ASSUME NEW m, MapOK(m), NEW w,
         w = [changes                 |-> m.changes,
              dirty_keys              |-> m.dirty_keys,
              num_client_transactions |-> w.num_client_transactions,
              execution_mode          |-> w.execution_mode],
         w.num_client_transactions \in Nat,
         w.execution_mode \in {"Client", "Runtime"}
  PROVE  /\ MapOK(w)
         /\ transaction_depth(w) = transaction_depth(m)
         /\ \A k \in Key, j \in 0 .. transaction_depth(m) : ValueAt(w, k, j) = ValueAt(m, k, j)
  <1>1. /\ m = [changes                 |-> m.changes,
                dirty_keys              |-> m.dirty_keys,
                num_client_transactions |-> m.num_client_transactions,
                execution_mode          |-> m.execution_mode]
        /\ m.changes \in [DOMAIN m.changes -> Seq(InnerValue)]
        /\ m.dirty_keys \in Seq(SUBSET Key)
        /\ DOMAIN m.changes \in SUBSET Key
    BY MapFields
  <1>3. w.changes = m.changes /\ w.dirty_keys = m.dirty_keys
    OBVIOUS
  <1>4. transaction_depth(w) = transaction_depth(m)
    BY <1>3 DEF transaction_depth
  <1>5. \A k, j : Above(w, k, j) = Above(m, k, j) /\ Versions(w, k) = Versions(m, k)
    BY <1>3 DEF Above, Versions, transaction_depth
  <1>6. \A k, j : ValueAt(w, k, j) = ValueAt(m, k, j)
    BY <1>5 DEF ValueAt
  <1>7. Aligned(w)
    <2>1. Aligned(m)
      BY DEF MapOK
    <2> QED  BY <2>1, <1>3, <1>4, <1>5 DEF Aligned
  <1>8. MapTypeOK(w)
    BY <1>1, <1>3 DEF MapTypeOK, OverlayedMap
  <1> QED  BY <1>4, <1>6, <1>7, <1>8 DEF MapOK

\* The map of a new child is at the depth and in the mode of the top one, and
\* shows nothing.
LEMMA Spawn ==
  ASSUME NEW m, MapOK(m), NEW w, w = spawn_child(m)
  PROVE  /\ MapOK(w)
         /\ transaction_depth(w) = transaction_depth(m)
         /\ w.num_client_transactions = m.num_client_transactions
         /\ w.execution_mode = m.execution_mode
         /\ \A k \in Key : \A j \in 0 .. transaction_depth(m) : ValueAt(w, k, j) = Unknown
  <1> DEFINE n == transaction_depth(m)
             C == [k \in {} |-> <<>>]
             E == [i \in 1 .. Len(m.dirty_keys) |-> {}]
  <1>0. /\ m = [changes                 |-> m.changes,
                dirty_keys              |-> m.dirty_keys,
                num_client_transactions |-> m.num_client_transactions,
                execution_mode          |-> m.execution_mode]
        /\ m.num_client_transactions \in Nat
        /\ m.execution_mode \in {"Client", "Runtime"}
        /\ n \in Nat
        /\ n = Len(m.dirty_keys)
    BY MapFields
  <1>1. /\ w = [changes                 |-> C,
                dirty_keys              |-> E,
                num_client_transactions |-> m.num_client_transactions,
                execution_mode          |-> m.execution_mode]
        /\ w.changes = C
        /\ w.dirty_keys = E
        /\ w.num_client_transactions = m.num_client_transactions
        /\ w.execution_mode = m.execution_mode
    BY <1>0 DEF spawn_child
  <1>2. E \in Seq(SUBSET Key)
    <2>1. E \in [1 .. n -> SUBSET Key]
      BY <1>0
    <2> QED  BY <2>1, <1>0
  <1>3. Len(E) = n /\ \A i \in 1 .. n : E[i] = {}
    <2>1. DOMAIN E = 1 .. n /\ DOMAIN E = 1 .. Len(E) /\ Len(E) \in Nat
      BY <1>0, <1>2, LenProperties
    <2> QED  BY <2>1, <1>0
  <1>4. C \in [{} -> Seq(InnerValue)] /\ DOMAIN C = {} /\ {} \in SUBSET Key
    OBVIOUS
  <1> HIDE DEF C, E, n
  <1>5. \A i \in 1 .. Len(E) : E[i] \subseteq {}
    BY <1>3
  <1>6. MapOK(w)
    BY <1>0, <1>1, <1>2, <1>4, <1>5, MapOKIntro
  <1>7. transaction_depth(w) = n
    BY <1>1, <1>3 DEF transaction_depth
  <1>8. ASSUME NEW k \in Key, NEW j \in 0 .. n PROVE ValueAt(w, k, j) = Unknown
    <2>1. Versions(w, k) = <<>> /\ Len(Versions(w, k)) = 0
      BY <1>1, <1>4, EmptySeq DEF Versions
    <2>2. Count(w.dirty_keys, k, j, transaction_depth(w)) \in 0 .. 0
      BY <1>6, <1>7, <2>1, VersionAt
    <2>3. 0 \in Nat /\ 0 + Count(w.dirty_keys, k, j, transaction_depth(w)) = Len(Versions(w, k))
      BY <2>1, <2>2
    <2> QED  BY <2>3, <1>6, <1>7, ValueAtIs
  <1> QED  BY <1>1, <1>6, <1>7, <1>8 DEF n

\* Entering the runtime protects the open transactions, and shows the same.
LEMMA EnterMap ==
  ASSUME NEW m, MapOK(m), NEW w, w = enter_runtime(m)
  PROVE  /\ MapOK(w)
         /\ transaction_depth(w) = transaction_depth(m)
         /\ w.num_client_transactions = transaction_depth(m)
         /\ w.execution_mode = "Runtime"
         /\ \A k \in Key, j \in 0 .. transaction_depth(m) : ValueAt(w, k, j) = ValueAt(m, k, j)
  <1>1. /\ transaction_depth(m) \in Nat
        /\ m = [changes                 |-> m.changes,
                dirty_keys              |-> m.dirty_keys,
                num_client_transactions |-> m.num_client_transactions,
                execution_mode          |-> m.execution_mode]
    BY MapFields
  <1>2. /\ w = [changes                 |-> m.changes,
                dirty_keys              |-> m.dirty_keys,
                num_client_transactions |-> w.num_client_transactions,
                execution_mode          |-> w.execution_mode]
        /\ w.num_client_transactions = transaction_depth(m)
        /\ w.execution_mode = "Runtime"
    BY <1>1 DEF enter_runtime
  <1> QED  BY <1>1, <1>2, SameVersions

\* Leaving the runtime gives back what the protected transactions show.
LEMMA ExitMap ==
  ASSUME NEW m, MapOK(m), NEW w, w = exit_runtime(m),
         m.num_client_transactions <= transaction_depth(m)
  PROVE  /\ MapOK(w)
         /\ transaction_depth(w) = m.num_client_transactions
         /\ w.num_client_transactions = m.num_client_transactions
         /\ w.execution_mode = "Client"
         /\ \A k \in Key : \A j \in 0 .. m.num_client_transactions :
              ValueAt(w, k, j) = ValueAt(m, k, j)
  <1> DEFINE c == m.num_client_transactions
             o == [m EXCEPT !.execution_mode = "Client"]
  <1>1. /\ m = [changes                 |-> m.changes,
                dirty_keys              |-> m.dirty_keys,
                num_client_transactions |-> m.num_client_transactions,
                execution_mode          |-> m.execution_mode]
        /\ c \in Nat
        /\ transaction_depth(m) \in Nat
    BY MapFields
  <1>2. /\ o = [changes                 |-> m.changes,
                dirty_keys              |-> m.dirty_keys,
                num_client_transactions |-> o.num_client_transactions,
                execution_mode          |-> o.execution_mode]
        /\ o.num_client_transactions = c
        /\ o.execution_mode = "Client"
    BY <1>1
  <1>3. w = IF transaction_depth(m) > c THEN rollback_to(o, c) ELSE o
    BY DEF exit_runtime, has_open_runtime_transactions
  <1> HIDE DEF o, c
  <1>4. /\ MapOK(o)
        /\ transaction_depth(o) = transaction_depth(m)
        /\ o.num_client_transactions = c
        /\ o.execution_mode = "Client"
        /\ \A k \in Key, j \in 0 .. transaction_depth(m) : ValueAt(o, k, j) = ValueAt(m, k, j)
    BY <1>1, <1>2, SameVersions
  <1>5. c \in 0 .. transaction_depth(m)
    BY <1>1 DEF c
  <1>6. \A j \in 0 .. c : j \in 0 .. transaction_depth(m)
    BY <1>1, <1>5
  <1>7. CASE transaction_depth(m) > c
    <2>1. w = rollback_to(o, c)
      BY <1>3, <1>7
    <2>2. /\ MapOK(w)
          /\ transaction_depth(w) = c
          /\ w.num_client_transactions = o.num_client_transactions
          /\ w.execution_mode = o.execution_mode
          /\ \A k \in Key : \A j \in 0 .. c : ValueAt(w, k, j) = ValueAt(o, k, j)
      BY <2>1, <1>4, <1>5, RollbackTo
    <2> QED  BY <2>2, <1>4, <1>6 DEF c
  <1>8. CASE ~(transaction_depth(m) > c)
    <2>1. w = o /\ transaction_depth(m) = c
      BY <1>1, <1>3, <1>5, <1>8
    <2> QED  BY <2>1, <1>4, <1>6 DEF c
  <1> QED  BY <1>7, <1>8

\* The same for one key.
LEMMA SetOne ==
  ASSUME NEW m, MapOK(m), NEW k \in Key, NEW v \in Value, NEW e \in Extrinsic \cup {None}
  PROVE  /\ MapOK(set(m, k, v, e))
         /\ transaction_depth(set(m, k, v, e)) = transaction_depth(m)
         /\ set(m, k, v, e).num_client_transactions = m.num_client_transactions
         /\ set(m, k, v, e).execution_mode = m.execution_mode
         /\ k \in DOMAIN set(m, k, v, e).changes
         /\ ~first_write_in_tx(set(m, k, v, e), k)
         /\ get(set(m, k, v, e), k) = v
         /\ \A x \in Key, d \in 0 .. transaction_depth(m) :
              ValueAt(set(m, k, v, e), x, d) = IF x = k /\ d = transaction_depth(m)
                                               THEN v ELSE ValueAt(m, x, d)
  <1> DEFINE w == set(m, k, v, e)
             K == {k}
  <1>0. w = set_all(m, K, v, e) /\ K \in SUBSET Key /\ \A x : x \in K <=> x = k
    BY DEF set
  <1>n. transaction_depth(m) \in Nat /\ transaction_depth(m) \in 0 .. transaction_depth(m)
    BY MapFields
  <1> HIDE DEF K, w
  <1>1. /\ MapOK(w)
        /\ transaction_depth(w) = transaction_depth(m)
        /\ w.num_client_transactions = m.num_client_transactions
        /\ w.execution_mode = m.execution_mode
        /\ DOMAIN w.changes = DOMAIN m.changes \cup K
        /\ w.dirty_keys = insert_dirty(m, K)
        /\ \A x \in Key, d \in 0 .. transaction_depth(m) :
             ValueAt(w, x, d) = IF x \in K /\ d = transaction_depth(m)
                                THEN v ELSE ValueAt(m, x, d)
    BY <1>0, SetAll
  <1>2. get(w, k) = v
    <2>1. get(w, k) = ValueAt(w, k, transaction_depth(w))
      BY <1>1, GetIs
    <2> QED  BY <2>1, <1>0, <1>1, <1>n
  <1>3. ~first_write_in_tx(w, k)
    <2>1. transaction_depth(m) # 0 =>
            w.dirty_keys[transaction_depth(m)] = m.dirty_keys[transaction_depth(m)] \cup K
      BY <1>0, <1>1, InsertDirty
    <2> QED  BY <2>1, <1>0, <1>1, <1>n DEF first_write_in_tx
  <1>4. k \in DOMAIN w.changes
    BY <1>0, <1>1
  <1>5. \A x \in Key, d \in 0 .. transaction_depth(m) :
          ValueAt(w, x, d) = IF x = k /\ d = transaction_depth(m) THEN v ELSE ValueAt(m, x, d)
    BY <1>0, <1>1
  <1> QED  BY <1>1, <1>2, <1>3, <1>4, <1>5 DEF w

\* `modify` gives the innermost transaction a version of its own, which holds
\* what was read before, and leaves every other transaction alone.
LEMMA Modify ==
  ASSUME NEW m, MapOK(m), NEW k \in Key, NEW init \in Value, NEW e \in Extrinsic \cup {None},
         NEW w, w = modify(m, k, init, e)
  PROVE  /\ MapOK(w)
         /\ transaction_depth(w) = transaction_depth(m)
         /\ w.num_client_transactions = m.num_client_transactions
         /\ w.execution_mode = m.execution_mode
         /\ k \in DOMAIN w.changes
         /\ ~first_write_in_tx(w, k)
         /\ get(w, k) = IF get(m, k) = Unknown THEN init ELSE get(m, k)
         /\ \A x \in Key, d \in 0 .. transaction_depth(m) :
              x # k \/ d # transaction_depth(m) => ValueAt(w, x, d) = ValueAt(m, x, d)
  <1>0. transaction_depth(m) \in Nat /\ transaction_depth(m) \in 0 .. transaction_depth(m)
    BY MapFields
  <1>1. /\ get(m, k) \in Value \cup {Unknown}
        /\ get(m, k) = Unknown <=> Versions(m, k) = <<>>
    BY GetIs
  \* Both writes of `modify` are calls of `set`.
  <1>2. ASSUME NEW v \in Value, w = set(m, k, v, e),
               v = IF get(m, k) = Unknown THEN init ELSE get(m, k)
        PROVE  /\ MapOK(w)
               /\ transaction_depth(w) = transaction_depth(m)
               /\ w.num_client_transactions = m.num_client_transactions
               /\ w.execution_mode = m.execution_mode
               /\ k \in DOMAIN w.changes
               /\ ~first_write_in_tx(w, k)
               /\ get(w, k) = IF get(m, k) = Unknown THEN init ELSE get(m, k)
               /\ \A x \in Key, d \in 0 .. transaction_depth(m) :
                    x # k \/ d # transaction_depth(m) => ValueAt(w, x, d) = ValueAt(m, x, d)
    <2>1. /\ MapOK(set(m, k, v, e))
          /\ transaction_depth(set(m, k, v, e)) = transaction_depth(m)
          /\ set(m, k, v, e).num_client_transactions = m.num_client_transactions
          /\ set(m, k, v, e).execution_mode = m.execution_mode
          /\ k \in DOMAIN set(m, k, v, e).changes
          /\ ~first_write_in_tx(set(m, k, v, e), k)
          /\ get(set(m, k, v, e), k) = v
          /\ \A x \in Key, d \in 0 .. transaction_depth(m) :
               ValueAt(set(m, k, v, e), x, d) = IF x = k /\ d = transaction_depth(m)
                                                THEN v ELSE ValueAt(m, x, d)
      BY SetOne
    <2> QED  BY <2>1, <1>2
  <1>3. CASE Versions(m, k) = <<>>
    <2>1. w = set(m, k, init, e)
      BY <1>3 DEF modify
    <2>2. init = IF get(m, k) = Unknown THEN init ELSE get(m, k)
      BY <1>1, <1>3
    <2> QED  BY <1>2, <2>1, <2>2
  <1>4. CASE Versions(m, k) # <<>> /\ first_write_in_tx(m, k)
    <2>1. w = set(m, k, get(m, k), e)
      BY <1>4 DEF modify
    <2>2. get(m, k) = IF get(m, k) = Unknown THEN init ELSE get(m, k)
      BY <1>1, <1>4
    <2>3. get(m, k) \in Value
      BY <1>1, <1>4
    <2> QED  BY <1>2, <2>1, <2>2, <2>3
  <1>5. CASE Versions(m, k) # <<>> /\ ~first_write_in_tx(m, k)
    <2>1. w = m
      BY <1>5 DEF modify
    <2>2. k \in DOMAIN m.changes
      BY <1>5, KeyFacts
    <2> QED  BY <2>1, <2>2, <1>1, <1>5
  <1> QED  BY <1>3, <1>4, <1>5

\* A write through the reference reaches the innermost transaction only,
\* provided that this one has a version of its own.
LEMMA Overwrite ==
  ASSUME NEW m, MapOK(m), NEW k \in Key, NEW v \in Value, NEW w, w = overwrite(m, k, v),
         k \in DOMAIN m.changes, ~first_write_in_tx(m, k)
  PROVE  /\ MapOK(w)
         /\ transaction_depth(w) = transaction_depth(m)
         /\ w.num_client_transactions = m.num_client_transactions
         /\ w.execution_mode = m.execution_mode
         /\ \A x \in Key, d \in 0 .. transaction_depth(m) :
              ValueAt(w, x, d) = IF x = k /\ d = transaction_depth(m)
                                 THEN v ELSE ValueAt(m, x, d)
  <1> DEFINE n   == transaction_depth(m)
             D   == m.dirty_keys
             dom == DOMAIN m.changes
             old == m.changes[k]
             l   == Len(old)
             y   == [old[l] EXCEPT !.value = v]
             vs  == [old EXCEPT ![l] = y]
             C   == [m.changes EXCEPT ![k] = vs]
  <1>0. /\ m = [changes                 |-> m.changes,
                dirty_keys              |-> D,
                num_client_transactions |-> m.num_client_transactions,
                execution_mode          |-> m.execution_mode]
        /\ dom \in SUBSET Key
        /\ m.changes \in [dom -> Seq(InnerValue)]
        /\ D \in Seq(SUBSET Key)
        /\ m.num_client_transactions \in Nat
        /\ m.execution_mode \in {"Client", "Runtime"}
        /\ n \in Nat
        /\ n = Len(D)
        /\ \A i \in 1 .. n : D[i] \subseteq dom
    BY MapFields
  <1>1. w = [m EXCEPT !.changes = C]
    BY <1>0 DEF overwrite
  <1>2. /\ w = [changes                 |-> C,
                dirty_keys              |-> D,
                num_client_transactions |-> m.num_client_transactions,
                execution_mode          |-> m.execution_mode]
        /\ w.changes = C
        /\ w.dirty_keys = D
        /\ w.num_client_transactions = m.num_client_transactions
        /\ w.execution_mode = m.execution_mode
    <2> HIDE DEF C
    <2> QED  BY <1>0, <1>1
  <1>3. old = Versions(m, k) /\ old \in Seq(InnerValue) /\ l \in Nat \ {0}
    BY KeyFacts, EmptySeq DEF Versions
  <1>4. l \in 1 .. l /\ old[l] \in InnerValue
    <2> HIDE DEF old
    <2>1. l \in 1 .. l
      BY <1>3
    <2> QED  BY <2>1, <1>3, LenProperties
  <1>5. y \in InnerValue /\ y.value = v
    BY <1>4 DEF InnerValue, Value
  <1>6. /\ vs \in Seq(InnerValue)
        /\ Len(vs) = l
        /\ \A i \in 1 .. l : vs[i] = IF i = l THEN y ELSE old[i]
    <2> HIDE DEF y, old
    <2> QED  BY <1>3, <1>4, <1>5, ExceptSeq
  <1>7. /\ DOMAIN C = dom
        /\ C = [x \in dom |-> C[x]]
        /\ C[k] = vs
        /\ \A x \in dom : x # k => C[x] = m.changes[x]
    BY <1>0
  <1>v. \A x \in Key : Versions(w, x) = IF x = k THEN vs ELSE Versions(m, x)
    BY <1>2, <1>7 DEF Versions
  <1>8. ASSUME NEW x \in Key
        PROVE  /\ Len(Versions(m, x)) \in Nat
               /\ Len(Versions(m, x)) - Count(D, x, 0, n) \in {0, 1}
               /\ x \in dom => Versions(m, x) = m.changes[x] /\ m.changes[x] # <<>>
    BY KeyFacts, LenProperties DEF Versions
  <1> HIDE DEF n, D, dom, old, l, y, vs, C
  <1>9. vs # <<>>
    BY <1>3, <1>6, EmptySeq
  <1>10. \A x \in dom : C[x] # <<>> /\ Len(C[x]) - Count(D, x, 0, Len(D)) \in {0, 1}
    <2> SUFFICES ASSUME NEW x \in dom
                 PROVE  C[x] # <<>> /\ Len(C[x]) - Count(D, x, 0, n) \in {0, 1}
      BY <1>0
    <2>0. x \in Key
      BY <1>0
    <2>1. CASE x = k
      <3>1. C[x] = vs /\ Len(vs) = Len(Versions(m, k))
        BY <2>1, <1>3, <1>6, <1>7 DEF l
      <3> QED  BY <3>1, <2>0, <2>1, <1>8, <1>9
    <2>2. CASE x # k
      BY <2>0, <2>2, <1>7, <1>8
    <2> QED  BY <2>1, <2>2
  <1>11. C \in [dom -> Seq(InnerValue)]
    <2>1. \A x \in dom : C[x] \in Seq(InnerValue)
      BY <1>0, <1>6, <1>7
    <2> QED  BY <2>1, <1>7
  <1>12. MapOK(w)
    <2>1. \A i \in 1 .. Len(D) : D[i] \subseteq dom
      BY <1>0
    <2>2. w = [changes                 |-> C,
               dirty_keys              |-> D,
               num_client_transactions |-> w.num_client_transactions,
               execution_mode          |-> w.execution_mode]
      BY <1>2
    <2>3. /\ w.num_client_transactions \in Nat
          /\ w.execution_mode \in {"Client", "Runtime"}
          /\ D \in Seq(SUBSET Key)
          /\ dom \in SUBSET Key
      BY <1>0, <1>2
    <2> QED  BY <2>1, <2>2, <2>3, <1>10, <1>11, MapOKIntro
  <1>13. transaction_depth(w) = n
    BY <1>2, <1>0 DEF transaction_depth
  <1>14. ASSUME NEW x \in Key, NEW d \in 0 .. n
         PROVE  ValueAt(w, x, d) = IF x = k /\ d = n THEN v ELSE ValueAt(m, x, d)
    <2> DEFINE a == Len(Versions(m, x)) - Count(D, x, d, n)
    <2>0. d \in Nat /\ d <= n
      BY <1>0
    <2>1. Count(D, x, d, n) \in 0 .. Len(Versions(m, x))
      BY VersionAt DEF n, D
    <2>2. Count(D, x, d, n) \in Nat /\ Count(D, x, d, n) <= Len(Versions(m, x))
          /\ Len(Versions(m, x)) \in Nat
      BY <2>1, <1>8
    <2>3. a \in Nat /\ a + Count(D, x, d, n) = Len(Versions(m, x))
      BY <2>2
    <2>4. Len(Versions(w, x)) = Len(Versions(m, x))
      BY <1>v, <1>3, <1>6 DEF l
    <2>x. a <= Len(Versions(m, x)) /\ (Count(D, x, d, n) # 0 => a < Len(Versions(m, x)))
      BY <2>2
    <2> HIDE DEF a
    <2>5. ValueAt(m, x, d) = IF a = 0 THEN Unknown ELSE Versions(m, x)[a].value
      BY <2>3, ValueAtIs DEF n, D
    <2>6. ValueAt(w, x, d) = IF a = 0 THEN Unknown ELSE Versions(w, x)[a].value
      <3>1. /\ a + Count(w.dirty_keys, x, d, transaction_depth(w)) = Len(Versions(w, x))
            /\ d \in 0 .. transaction_depth(w)
        BY <2>3, <2>4, <1>2, <1>13
      <3> QED  BY <3>1, <2>3, <1>12, ValueAtIs
    <2>7. CASE x # k
      BY <2>5, <2>6, <2>7, <1>v
    <2>8. CASE x = k /\ d = n
      <3>1. Count(D, x, d, n) = 0
        BY <2>8, <2>0, <1>0, CountType
      <3>2. a = l /\ Versions(w, x) = vs
        BY <3>1, <2>2, <2>3, <2>8, <1>3, <1>v DEF l
      <3>3. vs[l] = y /\ l # 0
        BY <1>3, <1>4, <1>6
      <3> QED  BY <3>2, <3>3, <2>6, <2>8, <1>5
    <2>9. CASE x = k /\ d # n
      <3>1. n > 0 /\ d < n /\ n \in d + 1 .. n
        BY <2>0, <2>9, <1>0
      <3>2. k \in D[n]
        BY <3>1 DEF first_write_in_tx, n, D
      <3>3. Count(D, x, d, n) # 0
        BY <3>1, <3>2, <2>0, <2>9, <1>0, CountType
      <3>4. a < l
        BY <3>3, <2>x, <2>9, <1>3 DEF l
      <3>5. a # 0 => vs[a] = old[a]
        BY <3>4, <2>3, <1>3, <1>6
      <3> QED  BY <3>5, <2>5, <2>6, <2>9, <1>3, <1>v
    <2> QED  BY <2>7, <2>8, <2>9
  <1> QED  BY <1>2, <1>12, <1>13, <1>14 DEF n

-----------------------------------------------------------------------------
(* All changesets of an overlay                                            *)

\* A changeset at the depth and in the mode of another one.
InStep(m, t) ==
  /\ MapOK(m)
  /\ transaction_depth(m) = transaction_depth(t)
  /\ m.execution_mode = t.execution_mode
  /\ m.num_client_transactions = t.num_client_transactions

\* The runtime never closes a transaction of the client.
Protected(o) ==
  o.top.execution_mode = "Runtime" => o.top.num_client_transactions <= depth(o)

\* The inductive invariant, of an overlay.
OverlayOK(o) ==
  /\ o = [top                |-> o.top,
          children           |-> [c \in DOMAIN o.children |-> o.children[c]],
          offchain           |-> o.offchain,
          collect_extrinsics |-> CollectExtrinsics]
  /\ DOMAIN o.children \subseteq Child
  /\ InStep(o.top, o.top)
  /\ InStep(o.offchain, o.top)
  /\ \A c \in DOMAIN o.children : InStep(o.children[c], o.top)
  /\ Protected(o)

\* The inductive invariant is what the runs check, and that the transactions
\* of the client stay open.
LEMMA OverlayOKIs ==
  OverlayOK(overlay) <=> TypeOK /\ VersionsAligned /\ Lockstep /\ Protected(overlay)
  <1>1. \A m \in Maps : m = overlay.top \/ m = overlay.offchain
                        \/ \E c \in DOMAIN overlay.children : m = overlay.children[c]
    BY DEF Maps
  <1>2. /\ overlay.top \in Maps /\ overlay.offchain \in Maps
        /\ \A c \in DOMAIN overlay.children : overlay.children[c] \in Maps
    BY DEF Maps
  <1>3. ASSUME OverlayOK(overlay)
        PROVE  TypeOK /\ VersionsAligned /\ Lockstep /\ Protected(overlay)
    <2>1. \A m \in Maps : InStep(m, overlay.top)
      BY <1>1, <1>3 DEF OverlayOK
    <2>2. TypeOK
      BY <2>1, <1>3 DEF TypeOK, OverlayOK, InStep, MapOK
    <2>3. VersionsAligned
      BY <2>1 DEF VersionsAligned, InStep, MapOK
    <2>4. Lockstep
      BY <2>1 DEF Lockstep, InStep, depth
    <2> QED  BY <2>2, <2>3, <2>4, <1>3 DEF OverlayOK
  <1>4. ASSUME TypeOK, VersionsAligned, Lockstep, Protected(overlay)
        PROVE  OverlayOK(overlay)
    <2>1. \A m \in Maps : InStep(m, overlay.top)
      BY <1>4 DEF TypeOK, VersionsAligned, Lockstep, InStep, MapOK, depth
    <2> QED  BY <2>1, <1>2, <1>4 DEF OverlayOK, TypeOK
  <1> QED  BY <1>3, <1>4

\* How OverlayOK is established.
LEMMA OverlayIntro ==
  ASSUME NEW p, NEW dom, dom \subseteq Child,
         p = [top                |-> p.top,
              children           |-> p.children,
              offchain           |-> p.offchain,
              collect_extrinsics |-> CollectExtrinsics],
         p.children = [c \in dom |-> p.children[c]],
         MapOK(p.top),
         InStep(p.offchain, p.top),
         \A c \in dom : InStep(p.children[c], p.top),
         Protected(p)
  PROVE  OverlayOK(p)
  <1>1. DOMAIN p.children = dom
    OBVIOUS
  <1>2. p.children = [c \in DOMAIN p.children |-> p.children[c]]
    BY <1>1
  <1>3. InStep(p.top, p.top)
    BY DEF InStep
  <1> QED  BY <1>1, <1>2, <1>3 DEF OverlayOK

\* The locations of the top, child and offchain changesets.
LEMMA LocationIs ==
  ASSUME NEW l \in Locations
  PROVE  /\ l[2] \in Key
         /\ l[1] \in {"top", "offchain"} \cup Child
  <1>1. Keys \subseteq Key
    BY DEF Keys
  <1> QED  BY <1>1, KeyAssumption DEF Locations

\* What is seen of a location is what its changeset shows.
LEMMA SeenIs ==
  ASSUME NEW o, NEW l \in Locations, NEW d
  PROVE  /\ l[1] = "top" => Seen(o, l, d) = ValueAt(o.top, l[2], d)
         /\ l[1] = "offchain" => Seen(o, l, d) = ValueAt(o.offchain, l[2], d)
         /\ l[1] \in Child /\ l[1] \in DOMAIN o.children =>
              Seen(o, l, d) = ValueAt(o.children[l[1]], l[2], d)
         /\ l[1] \in Child /\ l[1] \notin DOMAIN o.children => Seen(o, l, d) = Unknown
  <1>1. CASE l[1] = "top"
    <2>1. l[1] \notin Child /\ l[1] # "offchain"
      BY <1>1, ChildAssumption
    <2> QED  BY <1>1, <2>1 DEF Seen
  <1>2. CASE l[1] = "offchain"
    <2>1. l[1] \notin Child /\ l[1] # "top"
      BY <1>2, ChildAssumption
    <2> QED  BY <1>2, <2>1 DEF Seen
  <1>3. CASE l[1] \in Child
    <2>1. l[1] # "top" /\ l[1] # "offchain"
      BY <1>3, ChildAssumption
    <2> QED  BY <2>1 DEF Seen
  <1> QED  BY <1>1, <1>2, <1>3

\* A write to one changeset: one value, in the innermost transaction.
MapWrite(m, w, v) ==
  /\ InStep(w, m)
  /\ \A k \in Key, d \in 0 .. transaction_depth(m) :
       \/ ValueAt(w, k, d) = ValueAt(m, k, d)
       \/ d = transaction_depth(m) /\ ValueAt(w, k, d) = v

\* A write to an overlay.
Wrote(o, p, v) ==
  /\ OverlayOK(p)
  /\ depth(p) = depth(o)
  /\ p.top.execution_mode = o.top.execution_mode
  /\ p.top.num_client_transactions = o.top.num_client_transactions
  /\ \A l \in Locations, d \in 0 .. depth(o) :
       \/ Seen(p, l, d) = Seen(o, l, d)
       \/ d = depth(o) /\ Seen(p, l, d) = v

\* A write to the top trie.
LEMMA WriteTop ==
  ASSUME NEW o, OverlayOK(o), NEW v, NEW t, MapWrite(o.top, t, v),
         NEW p,
         p = [top                |-> p.top,
              children           |-> p.children,
              offchain           |-> p.offchain,
              collect_extrinsics |-> CollectExtrinsics],
         p.top = t, p.children = o.children, p.offchain = o.offchain
  PROVE  Wrote(o, p, v)
  <1>1. /\ o = [top                |-> o.top,
                children           |-> [c \in DOMAIN o.children |-> o.children[c]],
                offchain           |-> o.offchain,
                collect_extrinsics |-> CollectExtrinsics]
        /\ DOMAIN o.children \subseteq Child
    BY DEF OverlayOK
  <1>f. p.top = t /\ p.children = o.children /\ p.offchain = o.offchain
    OBVIOUS
  <1>3. InStep(t, o.top)
    BY DEF MapWrite
  <1>4. OverlayOK(p)
    <2> DEFINE dom == DOMAIN o.children
    <2>1. MapOK(t) /\ InStep(o.offchain, t) /\ \A c \in dom : InStep(o.children[c], t)
      BY <1>3 DEF OverlayOK, InStep
    <2>2. Protected(p)
      BY <1>f, <1>3 DEF OverlayOK, Protected, InStep, depth
    <2>3. o.children = [c \in dom |-> o.children[c]]
      BY <1>1
    <2> HIDE DEF dom
    <2> QED  BY <1>1, <1>f, <2>1, <2>2, <2>3, OverlayIntro DEF dom
  <1>5. depth(p) = depth(o)
    BY <1>f, <1>3 DEF InStep, depth
  <1>6. ASSUME NEW l \in Locations, NEW d \in 0 .. depth(o)
        PROVE  \/ Seen(p, l, d) = Seen(o, l, d)
               \/ d = depth(o) /\ Seen(p, l, d) = v
    <2>0. l[2] \in Key /\ l[1] \in {"top", "offchain"} \cup Child /\ depth(o) = transaction_depth(o.top)
      BY LocationIs DEF depth
    <2>1. CASE l[1] = "top"
      <3>1. Seen(p, l, d) = ValueAt(t, l[2], d) /\ Seen(o, l, d) = ValueAt(o.top, l[2], d)
        BY <2>1, <1>f, SeenIs
      <3> QED  BY <3>1, <2>0 DEF MapWrite
    <2>2. CASE l[1] # "top"
      <3>1. Seen(p, l, d) = Seen(o, l, d)
        <4>1. CASE l[1] = "offchain"
          BY <4>1, <1>f, SeenIs
        <4>2. CASE l[1] \in Child
          BY <4>2, <1>f, SeenIs
        <4> QED  BY <4>1, <4>2, <2>0, <2>2
      <3> QED  BY <3>1
    <2> QED  BY <2>1, <2>2
  <1> QED  BY <1>f, <1>3, <1>4, <1>5, <1>6 DEF Wrote, InStep

\* A write to the offchain index.
LEMMA WriteOffchain ==
  ASSUME NEW o, OverlayOK(o), NEW v, NEW t, MapWrite(o.offchain, t, v),
         NEW p,
         p = [top                |-> p.top,
              children           |-> p.children,
              offchain           |-> p.offchain,
              collect_extrinsics |-> CollectExtrinsics],
         p.top = o.top, p.children = o.children, p.offchain = t
  PROVE  Wrote(o, p, v)
  <1>1. /\ o = [top                |-> o.top,
                children           |-> [c \in DOMAIN o.children |-> o.children[c]],
                offchain           |-> o.offchain,
                collect_extrinsics |-> CollectExtrinsics]
        /\ DOMAIN o.children \subseteq Child
    BY DEF OverlayOK
  <1>f. p.top = o.top /\ p.children = o.children /\ p.offchain = t
    OBVIOUS
  <1>3. InStep(t, o.top) /\ transaction_depth(o.offchain) = depth(o)
    BY DEF MapWrite, OverlayOK, InStep, depth
  <1>4. OverlayOK(p)
    <2> DEFINE dom == DOMAIN o.children
    <2>1. MapOK(o.top) /\ InStep(t, o.top) /\ \A c \in dom : InStep(o.children[c], o.top)
      BY <1>3 DEF OverlayOK, InStep
    <2>2. Protected(p)
      BY <1>f DEF OverlayOK, Protected, depth
    <2>3. o.children = [c \in dom |-> o.children[c]]
      BY <1>1
    <2> HIDE DEF dom
    <2> QED  BY <1>1, <1>f, <2>1, <2>2, <2>3, OverlayIntro DEF dom
  <1>5. depth(p) = depth(o)
    BY <1>f DEF depth
  <1>6. ASSUME NEW l \in Locations, NEW d \in 0 .. depth(o)
        PROVE  \/ Seen(p, l, d) = Seen(o, l, d)
               \/ d = depth(o) /\ Seen(p, l, d) = v
    <2>0. l[2] \in Key /\ l[1] \in {"top", "offchain"} \cup Child
      BY LocationIs
    <2>1. CASE l[1] = "offchain"
      <3>1. Seen(p, l, d) = ValueAt(t, l[2], d) /\ Seen(o, l, d) = ValueAt(o.offchain, l[2], d)
        BY <2>1, <1>f, SeenIs
      <3> QED  BY <3>1, <2>0, <1>3 DEF MapWrite
    <2>2. CASE l[1] # "offchain"
      <3>1. Seen(p, l, d) = Seen(o, l, d)
        <4>1. CASE l[1] = "top"
          BY <4>1, <1>f, SeenIs
        <4>2. CASE l[1] \in Child
          BY <4>2, <1>f, SeenIs
        <4> QED  BY <4>1, <4>2, <2>0, <2>2
      <3> QED  BY <3>1
    <2> QED  BY <2>1, <2>2
  <1> QED  BY <1>f, <1>4, <1>5, <1>6 DEF Wrote

\* A write to a child trie, which may be new.
LEMMA WriteChild ==
  ASSUME NEW o, OverlayOK(o), NEW v, NEW c \in Child, NEW t,
         MapWrite(child_or_spawn(o, c), t, v),
         NEW p, p = with_child(o, c, t)
  PROVE  Wrote(o, p, v)
  <1> DEFINE dom == DOMAIN o.children \cup {c}
             ch  == [x \in dom |-> IF x = c THEN t ELSE o.children[x]]
             b   == child_or_spawn(o, c)
  <1>1. /\ o = [top                |-> o.top,
                children           |-> [x \in DOMAIN o.children |-> o.children[x]],
                offchain           |-> o.offchain,
                collect_extrinsics |-> CollectExtrinsics]
        /\ DOMAIN o.children \subseteq Child
    BY DEF OverlayOK
  <1>2. /\ p = [top                |-> o.top,
                children           |-> ch,
                offchain           |-> o.offchain,
                collect_extrinsics |-> CollectExtrinsics]
        /\ p.top = o.top /\ p.children = ch /\ p.offchain = o.offchain
    BY <1>1 DEF with_child
  <1>3. ch = [x \in dom |-> ch[x]] /\ DOMAIN ch = dom /\ dom \subseteq Child
        /\ \A x \in dom : ch[x] = IF x = c THEN t ELSE o.children[x]
    BY <1>1
  <1>4. /\ InStep(b, o.top)
        /\ c \in DOMAIN o.children => b = o.children[c]
        /\ c \notin DOMAIN o.children =>
             \A k \in Key : \A d \in 0 .. depth(o) : ValueAt(b, k, d) = Unknown
    <2>1. CASE c \in DOMAIN o.children
      BY <2>1 DEF child_or_spawn, OverlayOK
    <2>2. CASE c \notin DOMAIN o.children
      <3>1. b = spawn_child(o.top)
        BY <2>2 DEF child_or_spawn
      <3>2. MapOK(o.top)
        BY DEF OverlayOK, InStep
      <3> HIDE DEF b
      <3>3. /\ MapOK(b)
            /\ transaction_depth(b) = transaction_depth(o.top)
            /\ b.num_client_transactions = o.top.num_client_transactions
            /\ b.execution_mode = o.top.execution_mode
            /\ \A k \in Key : \A d \in 0 .. transaction_depth(o.top) : ValueAt(b, k, d) = Unknown
        BY <3>1, <3>2, Spawn
      <3> QED  BY <3>3, <2>2 DEF InStep, depth
    <2> QED  BY <2>1, <2>2
  <1> HIDE DEF ch, b, dom
  <1>5. InStep(t, o.top) /\ MapWrite(b, t, v) /\ transaction_depth(b) = depth(o)
    BY <1>4 DEF MapWrite, InStep, depth, b
  <1>6. OverlayOK(p)
    <2>1. MapOK(o.top) /\ InStep(o.offchain, o.top)
      BY DEF OverlayOK, InStep
    <2>2. \A x \in dom : InStep(ch[x], o.top)
      BY <1>3, <1>5 DEF OverlayOK, dom
    <2>3. Protected(p)
      BY <1>2 DEF OverlayOK, Protected, depth
    <2> QED  BY <1>2, <1>3, <2>1, <2>2, <2>3, OverlayIntro
  <1>7. depth(p) = depth(o)
    BY <1>2 DEF depth
  <1>8. ASSUME NEW l \in Locations, NEW d \in 0 .. depth(o)
        PROVE  \/ Seen(p, l, d) = Seen(o, l, d)
               \/ d = depth(o) /\ Seen(p, l, d) = v
    <2>0. l[2] \in Key /\ l[1] \in {"top", "offchain"} \cup Child
      BY LocationIs
    <2>1. CASE l[1] = c
      <3>1. Seen(p, l, d) = ValueAt(t, l[2], d)
        <4>1. l[1] \in Child /\ l[1] \in DOMAIN p.children /\ p.children[l[1]] = t
          BY <2>1, <1>2, <1>3 DEF dom
        <4> QED  BY <4>1, SeenIs
      <3>2. Seen(o, l, d) = ValueAt(b, l[2], d)
        <4>1. CASE c \in DOMAIN o.children
          BY <4>1, <2>1, <1>4, SeenIs
        <4>2. CASE c \notin DOMAIN o.children
          BY <4>2, <2>0, <2>1, <1>4, SeenIs
        <4> QED  BY <4>1, <4>2
      <3> QED  BY <3>1, <3>2, <2>0, <1>5 DEF MapWrite
    <2>2. CASE l[1] # c
      <3>1. l[1] \in DOMAIN p.children <=> l[1] \in DOMAIN o.children
        BY <2>2, <1>2, <1>3 DEF dom
      <3>2. l[1] \in DOMAIN o.children => p.children[l[1]] = o.children[l[1]]
        BY <2>2, <1>2, <1>3 DEF dom
      <3>3. Seen(p, l, d) = Seen(o, l, d)
        BY <2>0, <3>1, <3>2, <1>2, SeenIs
      <3> QED  BY <3>3
    <2> QED  BY <2>1, <2>2
  <1> QED  BY <1>2, <1>6, <1>7, <1>8 DEF Wrote

\* A step of the transactions of one changeset: level x of m becomes the
\* innermost one of w, which is in step with t, and those around it stay.
MapStep(m, w, t, x) ==
  /\ InStep(w, t)
  /\ \A k \in Key : \A j \in 0 .. transaction_depth(t) :
       ValueAt(w, k, j) = ValueAt(m, k, IF j = transaction_depth(t) THEN x ELSE j)

\* The same for an overlay.
OverlayStep(o, p, x) ==
  /\ OverlayOK(p)
  /\ \A l \in Locations : \A j \in 0 .. depth(p) :
       Seen(p, l, j) = Seen(o, l, IF j = depth(p) THEN x ELSE j)

\* All changesets step together; a child that is dropped showed nothing.
LEMMA AllStep ==
  ASSUME NEW o, OverlayOK(o), NEW x, NEW p, NEW dom,
         p = [top                |-> p.top,
              children           |-> p.children,
              offchain           |-> p.offchain,
              collect_extrinsics |-> CollectExtrinsics],
         p.children = [c \in dom |-> p.children[c]],
         dom \subseteq DOMAIN o.children,
         MapStep(o.top, p.top, p.top, x),
         MapStep(o.offchain, p.offchain, p.top, x),
         \A c \in dom : MapStep(o.children[c], p.children[c], p.top, x),
         \A c \in DOMAIN o.children \ dom : \A k \in Key : \A j \in 0 .. depth(p) :
           ValueAt(o.children[c], k, IF j = depth(p) THEN x ELSE j) = Unknown,
         Protected(p)
  PROVE  OverlayStep(o, p, x)
  <1>1. DOMAIN p.children = dom
    OBVIOUS
  <1>2. dom \subseteq Child /\ DOMAIN o.children \subseteq Child
    BY DEF OverlayOK
  <1>3. OverlayOK(p)
    <2>1. MapOK(p.top) /\ InStep(p.offchain, p.top) /\ \A c \in dom : InStep(p.children[c], p.top)
      BY DEF MapStep, InStep
    <2> QED  BY <1>2, <2>1, OverlayIntro
  <1>4. ASSUME NEW l \in Locations, NEW j \in 0 .. depth(p)
        PROVE  Seen(p, l, j) = Seen(o, l, IF j = depth(p) THEN x ELSE j)
    <2> DEFINE i == IF j = depth(p) THEN x ELSE j
    <2>0. l[2] \in Key /\ l[1] \in {"top", "offchain"} \cup Child
      BY LocationIs
    <2>m. \A m, w : MapStep(m, w, p.top, x) => ValueAt(w, l[2], j) = ValueAt(m, l[2], i)
      BY <2>0 DEF MapStep, depth
    <2>u. \A c \in DOMAIN o.children \ dom : ValueAt(o.children[c], l[2], i) = Unknown
      BY <2>0
    <2>g. \A q, d : /\ l[1] = "top" => Seen(q, l, d) = ValueAt(q.top, l[2], d)
                    /\ l[1] = "offchain" => Seen(q, l, d) = ValueAt(q.offchain, l[2], d)
                    /\ l[1] \in Child /\ l[1] \in DOMAIN q.children =>
                         Seen(q, l, d) = ValueAt(q.children[l[1]], l[2], d)
                    /\ l[1] \in Child /\ l[1] \notin DOMAIN q.children => Seen(q, l, d) = Unknown
      BY SeenIs
    <2> HIDE DEF i
    <2>1. CASE l[1] = "top"
      BY <2>1, <2>m, <2>g DEF i
    <2>2. CASE l[1] = "offchain"
      BY <2>2, <2>m, <2>g DEF i
    <2>3. CASE l[1] \in Child
      <3>1. CASE l[1] \in dom
        <4>1. Seen(p, l, j) = ValueAt(p.children[l[1]], l[2], j)
          BY <2>3, <3>1, <1>1, <2>g
        <4>2. Seen(o, l, i) = ValueAt(o.children[l[1]], l[2], i)
          BY <2>3, <3>1, <2>g
        <4>3. ValueAt(p.children[l[1]], l[2], j) = ValueAt(o.children[l[1]], l[2], i)
          BY <3>1, <2>m
        <4> QED  BY <4>1, <4>2, <4>3 DEF i
      <3>2. CASE l[1] \in DOMAIN o.children \ dom
        <4>1. Seen(p, l, j) = Unknown
          BY <2>3, <3>2, <1>1, <2>g
        <4>2. Seen(o, l, i) = ValueAt(o.children[l[1]], l[2], i)
          BY <2>3, <3>2, <2>g
        <4> QED  BY <4>1, <4>2, <3>2, <2>u DEF i
      <3>3. CASE l[1] \notin DOMAIN o.children
        <4>1. Seen(p, l, j) = Unknown
          BY <2>3, <3>3, <1>1, <2>g
        <4>2. Seen(o, l, i) = Unknown
          BY <2>3, <3>3, <2>g
        <4> QED  BY <4>1, <4>2 DEF i
      <3> QED  BY <3>1, <3>2, <3>3
    <2> QED  BY <2>0, <2>1, <2>2, <2>3
  <1> QED  BY <1>3, <1>4 DEF OverlayStep

\* What OverlayOK says of the fields.
LEMMA OverlayFields ==
  ASSUME NEW o, OverlayOK(o)
  PROVE  /\ o = [top                |-> o.top,
                 children           |-> o.children,
                 offchain           |-> o.offchain,
                 collect_extrinsics |-> o.collect_extrinsics]
         /\ o.children = [c \in DOMAIN o.children |-> o.children[c]]
         /\ DOMAIN o.children \subseteq Child
         /\ MapOK(o.top)
         /\ InStep(o.offchain, o.top)
         /\ \A c \in DOMAIN o.children : InStep(o.children[c], o.top)
         /\ depth(o) \in Nat /\ depth(o) = transaction_depth(o.top)
         /\ o.top.num_client_transactions \in Nat
         /\ o.top.execution_mode \in {"Client", "Runtime"}
         /\ o.collect_extrinsics = CollectExtrinsics
  <1>1. /\ o = [top                |-> o.top,
                children           |-> [c \in DOMAIN o.children |-> o.children[c]],
                offchain           |-> o.offchain,
                collect_extrinsics |-> CollectExtrinsics]
        /\ DOMAIN o.children \subseteq Child
        /\ InStep(o.offchain, o.top)
        /\ \A c \in DOMAIN o.children : InStep(o.children[c], o.top)
    BY DEF OverlayOK
  <1>2. MapOK(o.top)
    BY DEF OverlayOK, InStep
  <1>3. /\ transaction_depth(o.top) \in Nat
        /\ o.top.num_client_transactions \in Nat
        /\ o.top.execution_mode \in {"Client", "Runtime"}
    BY <1>2, MapFields
  <1>4. o.children = [c \in DOMAIN o.children |-> o.children[c]]
    BY <1>1
  <1>5. o.collect_extrinsics = CollectExtrinsics
    BY <1>1
  <1>6. o = [top                |-> o.top,
             children           |-> o.children,
             offchain           |-> o.offchain,
             collect_extrinsics |-> o.collect_extrinsics]
    BY <1>1, <1>4, <1>5
  <1> QED  BY <1>1, <1>2, <1>3, <1>4, <1>5, <1>6 DEF depth

\* start_transaction: the new level shows what the innermost one shows.
LEMMA StartAll ==
  ASSUME NEW o, OverlayOK(o), NEW p, p = overlay_start(o)
  PROVE  /\ OverlayStep(o, p, depth(o))
         /\ depth(p) = depth(o) + 1
         /\ p.top.num_client_transactions = o.top.num_client_transactions
         /\ p.top.execution_mode = o.top.execution_mode
  <1> DEFINE n   == depth(o)
             dom == DOMAIN o.children
             ch  == [c \in dom |-> start_transaction(o.children[c])]
  <1>0. /\ o = [top                |-> o.top,
                children           |-> o.children,
                offchain           |-> o.offchain,
                collect_extrinsics |-> o.collect_extrinsics]
        /\ o.collect_extrinsics = CollectExtrinsics
        /\ MapOK(o.top)
        /\ InStep(o.offchain, o.top)
        /\ \A c \in dom : InStep(o.children[c], o.top)
        /\ n \in Nat /\ n = transaction_depth(o.top)
        /\ o.top.num_client_transactions \in Nat
        /\ Protected(o)
    BY OverlayFields DEF OverlayOK
  <1>1. p = [top                |-> start_transaction(o.top),
             children           |-> ch,
             offchain           |-> start_transaction(o.offchain),
             collect_extrinsics |-> o.collect_extrinsics]
    <2>1. p = [o EXCEPT !.top      = start_transaction(o.top),
                        !.children = ch,
                        !.offchain = start_transaction(o.offchain)]
      BY DEF overlay_start
    <2> HIDE DEF ch
    <2> QED  BY <1>0, <2>1
  <1>2. /\ p = [top                |-> p.top,
                children           |-> p.children,
                offchain           |-> p.offchain,
                collect_extrinsics |-> CollectExtrinsics]
        /\ p.top = start_transaction(o.top)
        /\ p.offchain = start_transaction(o.offchain)
        /\ p.children = [c \in dom |-> p.children[c]]
        /\ \A c \in dom : p.children[c] = start_transaction(o.children[c])
    BY <1>0, <1>1
  <1> HIDE DEF n, dom, ch
  <1>3. /\ MapOK(p.top)
        /\ transaction_depth(p.top) = n + 1
        /\ p.top.num_client_transactions = o.top.num_client_transactions
        /\ p.top.execution_mode = o.top.execution_mode
    BY <1>0, <1>2, Start
  <1>4. ASSUME NEW m, InStep(m, o.top), NEW w, w = start_transaction(m)
        PROVE  MapStep(m, w, p.top, n)
    <2>1. MapOK(m) /\ transaction_depth(m) = n
      BY <1>0, <1>4 DEF InStep
    <2>2. /\ MapOK(w)
          /\ transaction_depth(w) = n + 1
          /\ w.num_client_transactions = m.num_client_transactions
          /\ w.execution_mode = m.execution_mode
          /\ \A k \in Key : \A d \in 0 .. n : ValueAt(w, k, d) = ValueAt(m, k, d)
          /\ \A k \in Key : ValueAt(w, k, n + 1) = ValueAt(m, k, n)
      BY <1>4, <2>1, Start
    <2>3. InStep(w, p.top)
      BY <1>3, <1>4, <2>2 DEF InStep
    <2>4. ASSUME NEW k \in Key, NEW j \in 0 .. n + 1
          PROVE  ValueAt(w, k, j) = ValueAt(m, k, IF j = n + 1 THEN n ELSE j)
      <3>1. CASE j = n + 1
        BY <2>2, <3>1
      <3>2. CASE j # n + 1
        <4>1. j \in 0 .. n
          BY <1>0, <3>2
        <4> QED  BY <2>2, <3>2, <4>1
      <3> QED  BY <3>1, <3>2
    <2> QED  BY <2>3, <2>4, <1>3 DEF MapStep
  <1>5. /\ MapStep(o.top, p.top, p.top, n)
        /\ MapStep(o.offchain, p.offchain, p.top, n)
        /\ \A c \in dom : MapStep(o.children[c], p.children[c], p.top, n)
    <2>1. InStep(o.top, o.top)
      BY DEF OverlayOK
    <2> QED  BY <2>1, <1>0, <1>2, <1>4
  <1>6. Protected(p)
    BY <1>0, <1>3 DEF Protected, depth, n
  <1>7. OverlayStep(o, p, n)
    BY <1>2, <1>5, <1>6, AllStep DEF dom
  <1> QED  BY <1>3, <1>7 DEF n, depth

\* commit_transaction: the innermost level takes the place of the one around it.
LEMMA CommitAll ==
  ASSUME NEW o, OverlayOK(o), can_close(o.top), NEW p, p = overlay_commit(o)
  PROVE  /\ OverlayStep(o, p, depth(o))
         /\ depth(p) = depth(o) - 1
         /\ p.top.num_client_transactions = o.top.num_client_transactions
         /\ p.top.execution_mode = o.top.execution_mode
  <1> DEFINE n   == depth(o)
             dom == DOMAIN o.children
             ch  == [c \in dom |-> commit_transaction(o.children[c])]
             e   == depth(o) - 1
             x   == depth(o)
  <1>0. /\ o = [top                |-> o.top,
                children           |-> o.children,
                offchain           |-> o.offchain,
                collect_extrinsics |-> o.collect_extrinsics]
        /\ o.collect_extrinsics = CollectExtrinsics
        /\ MapOK(o.top)
        /\ InStep(o.offchain, o.top)
        /\ \A c \in dom : InStep(o.children[c], o.top)
        /\ n \in Nat /\ n = transaction_depth(o.top)
        /\ o.top.num_client_transactions \in Nat
        /\ Protected(o)
    BY OverlayFields DEF OverlayOK
  <1>1. p = [top                |-> commit_transaction(o.top),
             children           |-> ch,
             offchain           |-> commit_transaction(o.offchain),
             collect_extrinsics |-> o.collect_extrinsics]
    <2>1. p = [o EXCEPT !.top      = commit_transaction(o.top),
                        !.children = ch,
                        !.offchain = commit_transaction(o.offchain)]
      BY DEF overlay_commit
    <2> HIDE DEF ch
    <2> QED  BY <1>0, <2>1
  <1>2. /\ p = [top                |-> p.top,
                children           |-> p.children,
                offchain           |-> p.offchain,
                collect_extrinsics |-> CollectExtrinsics]
        /\ p.top = commit_transaction(o.top)
        /\ p.offchain = commit_transaction(o.offchain)
        /\ p.children = [c \in dom |-> p.children[c]]
        /\ \A c \in dom : p.children[c] = commit_transaction(o.children[c])
    BY <1>0, <1>1
  <1>c. n > 0 /\ (o.top.execution_mode = "Runtime" => n > o.top.num_client_transactions)
    BY DEF can_close, has_open_runtime_transactions, depth
  <1> HIDE DEF n, dom, ch, e, x
  <1>3. /\ MapOK(p.top)
        /\ transaction_depth(p.top) = e
        /\ p.top.num_client_transactions = o.top.num_client_transactions
        /\ p.top.execution_mode = o.top.execution_mode
    BY <1>0, <1>2, <1>c, CommitTx DEF n, e
  <1>4. ASSUME NEW m, InStep(m, o.top), NEW w, w = commit_transaction(m)
        PROVE  MapStep(m, w, p.top, x)
    <2>1. MapOK(m) /\ transaction_depth(m) = n
          /\ m.num_client_transactions = o.top.num_client_transactions
          /\ m.execution_mode = o.top.execution_mode
      BY <1>0, <1>4 DEF InStep
    <2>2. /\ MapOK(w)
          /\ transaction_depth(w) = e
          /\ w.num_client_transactions = o.top.num_client_transactions
          /\ w.execution_mode = o.top.execution_mode
          /\ \A k \in Key : \A j \in 0 .. e : ValueAt(w, k, j) = ValueAt(m, k, IF j = n - 1 THEN n ELSE j)
      BY <1>4, <2>1, <1>0, <1>c, CommitTx DEF n, e
    <2>3. InStep(w, p.top)
      BY <1>3, <2>2 DEF InStep
    <2>4. \A k \in Key : \A j \in 0 .. e : ValueAt(w, k, j) = ValueAt(m, k, IF j = e THEN x ELSE j)
      BY <2>2 DEF e, x, n
    <2> QED  BY <2>3, <2>4, <1>3 DEF MapStep
  <1>5. /\ MapStep(o.top, p.top, p.top, x)
        /\ MapStep(o.offchain, p.offchain, p.top, x)
        /\ \A c \in dom : MapStep(o.children[c], p.children[c], p.top, x)
    <2>1. InStep(o.top, o.top)
      BY DEF OverlayOK
    <2> QED  BY <2>1, <1>0, <1>2, <1>4
  <1>6. Protected(p)
    BY <1>0, <1>3, <1>c DEF Protected, depth, n, e
  <1>7. OverlayStep(o, p, x)
    BY <1>2, <1>5, <1>6, AllStep DEF dom
  <1> QED  BY <1>3, <1>7 DEF n, depth, e, x

\* enter_runtime: every level stays, and is protected.
LEMMA EnterAll ==
  ASSUME NEW o, OverlayOK(o), NEW p, p = overlay_enter(o)
  PROVE  /\ OverlayStep(o, p, depth(o))
         /\ depth(p) = depth(o)
         /\ p.top.num_client_transactions = depth(o)
         /\ p.top.execution_mode = "Runtime"
  <1> DEFINE n   == depth(o)
             dom == DOMAIN o.children
             ch  == [c \in dom |-> enter_runtime(o.children[c])]
             e   == depth(o)
             x   == depth(o)
  <1>0. /\ o = [top                |-> o.top,
                children           |-> o.children,
                offchain           |-> o.offchain,
                collect_extrinsics |-> o.collect_extrinsics]
        /\ o.collect_extrinsics = CollectExtrinsics
        /\ MapOK(o.top)
        /\ InStep(o.offchain, o.top)
        /\ \A c \in dom : InStep(o.children[c], o.top)
        /\ n \in Nat /\ n = transaction_depth(o.top)
        /\ o.top.num_client_transactions \in Nat
        /\ Protected(o)
    BY OverlayFields DEF OverlayOK
  <1>1. p = [top                |-> enter_runtime(o.top),
             children           |-> ch,
             offchain           |-> enter_runtime(o.offchain),
             collect_extrinsics |-> o.collect_extrinsics]
    <2>1. p = [o EXCEPT !.top      = enter_runtime(o.top),
                        !.children = ch,
                        !.offchain = enter_runtime(o.offchain)]
      BY DEF overlay_enter
    <2> HIDE DEF ch
    <2> QED  BY <1>0, <2>1
  <1>2. /\ p = [top                |-> p.top,
                children           |-> p.children,
                offchain           |-> p.offchain,
                collect_extrinsics |-> CollectExtrinsics]
        /\ p.top = enter_runtime(o.top)
        /\ p.offchain = enter_runtime(o.offchain)
        /\ p.children = [c \in dom |-> p.children[c]]
        /\ \A c \in dom : p.children[c] = enter_runtime(o.children[c])
    BY <1>0, <1>1
  <1> HIDE DEF n, dom, ch, e, x
  <1>3. /\ MapOK(p.top)
        /\ transaction_depth(p.top) = e
        /\ p.top.num_client_transactions = depth(o)
        /\ p.top.execution_mode = "Runtime"
    BY <1>0, <1>2, EnterMap DEF n, e
  <1>4. ASSUME NEW m, InStep(m, o.top), NEW w, w = enter_runtime(m)
        PROVE  MapStep(m, w, p.top, x)
    <2>1. MapOK(m) /\ transaction_depth(m) = n
          /\ m.num_client_transactions = o.top.num_client_transactions
          /\ m.execution_mode = o.top.execution_mode
      BY <1>0, <1>4 DEF InStep
    <2>2. /\ MapOK(w)
          /\ transaction_depth(w) = e
          /\ w.num_client_transactions = depth(o)
          /\ w.execution_mode = "Runtime"
          /\ \A k \in Key : \A j \in 0 .. e : ValueAt(w, k, j) = ValueAt(m, k, j)
      BY <1>4, <2>1, <1>0, EnterMap DEF n, e
    <2>3. InStep(w, p.top)
      BY <1>3, <2>2 DEF InStep
    <2>4. \A k \in Key : \A j \in 0 .. e : ValueAt(w, k, j) = ValueAt(m, k, IF j = e THEN x ELSE j)
      BY <2>2 DEF e, x, n
    <2> QED  BY <2>3, <2>4, <1>3 DEF MapStep
  <1>5. /\ MapStep(o.top, p.top, p.top, x)
        /\ MapStep(o.offchain, p.offchain, p.top, x)
        /\ \A c \in dom : MapStep(o.children[c], p.children[c], p.top, x)
    <2>1. InStep(o.top, o.top)
      BY DEF OverlayOK
    <2> QED  BY <2>1, <1>0, <1>2, <1>4
  <1>6. Protected(p)
    BY <1>0, <1>3 DEF Protected, depth, n, e
  <1>7. OverlayStep(o, p, x)
    BY <1>2, <1>5, <1>6, AllStep DEF dom
  <1> QED  BY <1>3, <1>7 DEF n, depth, e, x

\* exit_runtime: the levels that were protected are left.
LEMMA ExitAll ==
  ASSUME NEW o, OverlayOK(o), o.top.execution_mode = "Runtime", NEW p, p = overlay_exit(o)
  PROVE  /\ OverlayStep(o, p, o.top.num_client_transactions)
         /\ depth(p) = o.top.num_client_transactions
         /\ p.top.num_client_transactions = o.top.num_client_transactions
         /\ p.top.execution_mode = "Client"
  <1> DEFINE n   == depth(o)
             dom == DOMAIN o.children
             ch  == [c \in dom |-> exit_runtime(o.children[c])]
             e   == o.top.num_client_transactions
             x   == o.top.num_client_transactions
  <1>0. /\ o = [top                |-> o.top,
                children           |-> o.children,
                offchain           |-> o.offchain,
                collect_extrinsics |-> o.collect_extrinsics]
        /\ o.collect_extrinsics = CollectExtrinsics
        /\ MapOK(o.top)
        /\ InStep(o.offchain, o.top)
        /\ \A c \in dom : InStep(o.children[c], o.top)
        /\ n \in Nat /\ n = transaction_depth(o.top)
        /\ o.top.num_client_transactions \in Nat
        /\ Protected(o)
    BY OverlayFields DEF OverlayOK
  <1>1. p = [top                |-> exit_runtime(o.top),
             children           |-> ch,
             offchain           |-> exit_runtime(o.offchain),
             collect_extrinsics |-> o.collect_extrinsics]
    <2>1. p = [o EXCEPT !.top      = exit_runtime(o.top),
                        !.children = ch,
                        !.offchain = exit_runtime(o.offchain)]
      BY DEF overlay_exit
    <2> HIDE DEF ch
    <2> QED  BY <1>0, <2>1
  <1>2. /\ p = [top                |-> p.top,
                children           |-> p.children,
                offchain           |-> p.offchain,
                collect_extrinsics |-> CollectExtrinsics]
        /\ p.top = exit_runtime(o.top)
        /\ p.offchain = exit_runtime(o.offchain)
        /\ p.children = [c \in dom |-> p.children[c]]
        /\ \A c \in dom : p.children[c] = exit_runtime(o.children[c])
    BY <1>0, <1>1
  <1>c. o.top.num_client_transactions <= n
    BY <1>0 DEF Protected
  <1> HIDE DEF n, dom, ch, e, x
  <1>3. /\ MapOK(p.top)
        /\ transaction_depth(p.top) = e
        /\ p.top.num_client_transactions = o.top.num_client_transactions
        /\ p.top.execution_mode = "Client"
    BY <1>0, <1>2, <1>c, ExitMap DEF n, e
  <1>4. ASSUME NEW m, InStep(m, o.top), NEW w, w = exit_runtime(m)
        PROVE  MapStep(m, w, p.top, x)
    <2>1. MapOK(m) /\ transaction_depth(m) = n
          /\ m.num_client_transactions = o.top.num_client_transactions
          /\ m.execution_mode = o.top.execution_mode
      BY <1>0, <1>4 DEF InStep
    <2>2. /\ MapOK(w)
          /\ transaction_depth(w) = e
          /\ w.num_client_transactions = o.top.num_client_transactions
          /\ w.execution_mode = "Client"
          /\ \A k \in Key : \A j \in 0 .. e : ValueAt(w, k, j) = ValueAt(m, k, j)
      BY <1>4, <2>1, <1>0, <1>c, ExitMap DEF n, e
    <2>3. InStep(w, p.top)
      BY <1>3, <2>2 DEF InStep
    <2>4. \A k \in Key : \A j \in 0 .. e : ValueAt(w, k, j) = ValueAt(m, k, IF j = e THEN x ELSE j)
      BY <2>2 DEF e, x, n
    <2> QED  BY <2>3, <2>4, <1>3 DEF MapStep
  <1>5. /\ MapStep(o.top, p.top, p.top, x)
        /\ MapStep(o.offchain, p.offchain, p.top, x)
        /\ \A c \in dom : MapStep(o.children[c], p.children[c], p.top, x)
    <2>1. InStep(o.top, o.top)
      BY DEF OverlayOK
    <2> QED  BY <2>1, <1>0, <1>2, <1>4
  <1>6. Protected(p)
    BY <1>0, <1>3 DEF Protected, depth, n, e
  <1>7. OverlayStep(o, p, x)
    BY <1>2, <1>5, <1>6, AllStep DEF dom
  <1> QED  BY <1>3, <1>7 DEF n, depth, e, x

\* rollback_transaction: the innermost level is gone; so are the children
\* that are left without changes, which show nothing in what remains.
LEMMA RollbackAll ==
  ASSUME NEW o, OverlayOK(o), can_close(o.top), NEW p, p = overlay_rollback(o)
  PROVE  /\ OverlayStep(o, p, depth(o) - 1)
         /\ depth(p) = depth(o) - 1
         /\ p.top.num_client_transactions = o.top.num_client_transactions
         /\ p.top.execution_mode = o.top.execution_mode
  <1> DEFINE n    == depth(o)
             all  == DOMAIN o.children
             back(c) == rollback_transaction(o.children[c])
             kept == {c \in all : DOMAIN back(c).changes # {}}
             ch   == [c \in kept |-> back(c)]
  <1>0. /\ o = [top                |-> o.top,
                children           |-> o.children,
                offchain           |-> o.offchain,
                collect_extrinsics |-> o.collect_extrinsics]
        /\ o.collect_extrinsics = CollectExtrinsics
        /\ MapOK(o.top)
        /\ InStep(o.offchain, o.top)
        /\ \A c \in all : InStep(o.children[c], o.top)
        /\ n \in Nat /\ n = transaction_depth(o.top)
        /\ o.top.num_client_transactions \in Nat
        /\ Protected(o)
    BY OverlayFields DEF OverlayOK
  <1>c. n > 0 /\ (o.top.execution_mode = "Runtime" => n > o.top.num_client_transactions)
    BY DEF can_close, has_open_runtime_transactions, depth
  <1>1. p = [top                |-> rollback_transaction(o.top),
             children           |-> ch,
             offchain           |-> rollback_transaction(o.offchain),
             collect_extrinsics |-> o.collect_extrinsics]
    <2>1. p = [o EXCEPT !.top      = rollback_transaction(o.top),
                        !.children = ch,
                        !.offchain = rollback_transaction(o.offchain)]
      BY DEF overlay_rollback
    <2> HIDE DEF ch
    <2> QED  BY <1>0, <2>1
  <1>2. /\ p = [top                |-> p.top,
                children           |-> p.children,
                offchain           |-> p.offchain,
                collect_extrinsics |-> CollectExtrinsics]
        /\ p.top = rollback_transaction(o.top)
        /\ p.offchain = rollback_transaction(o.offchain)
        /\ p.children = ch
    <2> HIDE DEF ch
    <2> QED  BY <1>0, <1>1
  <1>k. /\ kept \subseteq all
        /\ p.children = [c \in kept |-> p.children[c]]
        /\ \A c \in kept : p.children[c] = rollback_transaction(o.children[c])
        /\ \A c \in all \ kept : DOMAIN rollback_transaction(o.children[c]).changes = {}
    BY <1>2
  <1> HIDE DEF n, all, kept, ch
  <1>m. ASSUME NEW m, InStep(m, o.top), NEW w, w = rollback_transaction(m)
        PROVE  /\ MapOK(w)
               /\ transaction_depth(w) = n - 1
               /\ w.num_client_transactions = o.top.num_client_transactions
               /\ w.execution_mode = o.top.execution_mode
               /\ \A k \in Key : \A j \in 0 .. n - 1 : ValueAt(w, k, j) = ValueAt(m, k, j)
               /\ DOMAIN w.changes = {} =>
                    \A k \in Key : \A j \in 0 .. n - 1 : ValueAt(m, k, j) = Unknown
    <2>1. MapOK(m) /\ transaction_depth(m) = n
          /\ m.num_client_transactions = o.top.num_client_transactions
          /\ m.execution_mode = o.top.execution_mode
      BY <1>0, <1>m DEF InStep
    <2>2. w = rollback_to(m, n - 1) /\ n - 1 \in 0 .. transaction_depth(m)
      BY <1>0, <1>c, <1>m, <2>1 DEF rollback_transaction
    <2> QED  BY <2>1, <2>2, RollbackTo
  <1>t. InStep(o.top, o.top)
    BY DEF OverlayOK
  <1>3. /\ MapOK(p.top)
        /\ transaction_depth(p.top) = n - 1
        /\ p.top.num_client_transactions = o.top.num_client_transactions
        /\ p.top.execution_mode = o.top.execution_mode
    BY <1>2, <1>m, <1>t
  <1>4. ASSUME NEW m, InStep(m, o.top), NEW w, w = rollback_transaction(m)
        PROVE  MapStep(m, w, p.top, n - 1)
    <2>1. /\ MapOK(w)
          /\ transaction_depth(w) = n - 1
          /\ w.num_client_transactions = o.top.num_client_transactions
          /\ w.execution_mode = o.top.execution_mode
          /\ \A k \in Key : \A j \in 0 .. n - 1 : ValueAt(w, k, j) = ValueAt(m, k, j)
      BY <1>m, <1>4
    <2>2. InStep(w, p.top)
      BY <1>3, <2>1 DEF InStep
    <2> QED  BY <2>1, <2>2, <1>3 DEF MapStep
  <1>5. /\ MapStep(o.top, p.top, p.top, n - 1)
        /\ MapStep(o.offchain, p.offchain, p.top, n - 1)
        /\ \A c \in kept : MapStep(o.children[c], p.children[c], p.top, n - 1)
    BY <1>t, <1>0, <1>2, <1>k, <1>4
  <1>d. depth(p) = n - 1
    BY <1>3 DEF depth
  <1>6. \A c \in all \ kept : \A k \in Key : \A j \in 0 .. depth(p) :
          ValueAt(o.children[c], k, IF j = depth(p) THEN n - 1 ELSE j) = Unknown
    <2> SUFFICES ASSUME NEW c \in all \ kept, NEW k \in Key, NEW j \in 0 .. n - 1
                 PROVE  ValueAt(o.children[c], k, j) = Unknown
      BY <1>d
    <2>1. InStep(o.children[c], o.top)
      BY <1>0
    <2>2. DOMAIN rollback_transaction(o.children[c]).changes = {}
      BY <1>k
    <2> QED  BY <2>1, <2>2, <1>m
  <1>7. Protected(p)
    BY <1>0, <1>c, <1>3, <1>d DEF Protected
  <1>8. OverlayStep(o, p, n - 1)
    BY <1>2, <1>k, <1>5, <1>6, <1>7, AllStep DEF all
  <1> QED  BY <1>3, <1>8, <1>d DEF n

\* A new overlay shows nothing, and no transaction is open.
LEMMA DefaultAll ==
  ASSUME NEW p, p = DefaultOverlay(CollectExtrinsics)
  PROVE  /\ OverlayOK(p)
         /\ depth(p) = 0
         /\ p.top.num_client_transactions = 0
         /\ p.top.execution_mode = "Client"
         /\ \A l \in Locations : Seen(p, l, 0) = Unknown
  <1> DEFINE ch == [c \in {} |-> DefaultMap]
  <1>1. p = [top                |-> DefaultMap,
             children           |-> ch,
             offchain           |-> DefaultMap,
             collect_extrinsics |-> CollectExtrinsics]
    BY DEF DefaultOverlay
  <1>2. DOMAIN ch = {} /\ ch = [c \in {} |-> ch[c]]
    OBVIOUS
  <1> HIDE DEF ch
  <1>3. /\ p = [top                |-> p.top,
                children           |-> p.children,
                offchain           |-> p.offchain,
                collect_extrinsics |-> CollectExtrinsics]
        /\ p.top = DefaultMap /\ p.offchain = DefaultMap /\ p.children = ch
    BY <1>1
  <1>4. InStep(DefaultMap, DefaultMap)
    BY DefaultMapOK DEF InStep
  <1>5. Protected(p)
    BY <1>3, DefaultMapOK DEF Protected
  <1>6. OverlayOK(p)
    <2>1. MapOK(p.top) /\ InStep(p.offchain, p.top) /\ \A c \in {} : InStep(p.children[c], p.top)
      BY <1>3, <1>4 DEF InStep
    <2>2. p.children = [c \in {} |-> p.children[c]]
      BY <1>2, <1>3
    <2>3. {} \subseteq Child
      OBVIOUS
    <2> QED  BY <1>3, <1>5, <2>1, <2>2, <2>3, OverlayIntro
  <1>7. depth(p) = 0
    BY <1>3, DefaultMapOK DEF depth
  <1>8. ASSUME NEW l \in Locations PROVE Seen(p, l, 0) = Unknown
    <2>0. l[2] \in Key /\ l[1] \in {"top", "offchain"} \cup Child
      BY LocationIs
    <2>g. \A d : /\ l[1] = "top" => Seen(p, l, d) = ValueAt(p.top, l[2], d)
                 /\ l[1] = "offchain" => Seen(p, l, d) = ValueAt(p.offchain, l[2], d)
                 /\ l[1] \in Child /\ l[1] \notin DOMAIN p.children => Seen(p, l, d) = Unknown
      BY SeenIs
    <2>1. ValueAt(DefaultMap, l[2], 0) = Unknown
      BY <2>0, DefaultMapOK
    <2>2. l[1] \notin DOMAIN p.children
      BY <1>2, <1>3
    <2>3. p.top = DefaultMap /\ p.offchain = DefaultMap
      BY <1>3
    <2> QED  BY <2>0, <2>1, <2>2, <2>3, <2>g
  <1> QED  BY <1>3, <1>6, <1>7, <1>8, DefaultMapOK

-----------------------------------------------------------------------------
(* The writes                                                              *)

\* A change is recorded under an index, or under none.
LEMMA IndexType ==
  ASSUME NEW o, OverlayOK(o)
  PROVE  extrinsic_index(o) \in Extrinsic \cup {None}
  <1>1. o.collect_extrinsics \in BOOLEAN
    BY OverlayFields, DepthAssumption
  <1>2. CASE ~o.collect_extrinsics
    BY <1>2 DEF extrinsic_index
  <1>3. CASE o.collect_extrinsics /\ storage(o, EXTRINSIC_INDEX) \in Index
    BY <1>3 DEF extrinsic_index, Extrinsic
  <1>4. CASE o.collect_extrinsics /\ storage(o, EXTRINSIC_INDEX) \notin Index
    BY <1>4 DEF extrinsic_index, Extrinsic
  <1> QED  BY <1>1, <1>2, <1>3, <1>4

\* The values that are written, and what appending an item makes of them.
LEMMA ValueTypes ==
  /\ Values \cup {<<>>} \subseteq StorageValue
  /\ \A k \in Key : ValuesOf(k) \cup {None} \subseteq Value
  /\ \A v \in StorageValue, x \in Item :
       (v \notin Index => Len(v) < MaxItems) => storage_append_value(v, x) \in StorageValue
  <1>0. MaxItems \in Nat /\ MaxItems >= 1
    BY ItemsAssumption
  <1>1. \A x \in Item : <<x>> \in StorageValue
    <2> SUFFICES ASSUME NEW x \in Item PROVE <<x>> \in StorageValue
      OBVIOUS
    <2>1. 1 \in 0 .. MaxItems
      BY <1>0
    <2>2. <<x>> \in [1 .. 1 -> Item]
      OBVIOUS
    <2> QED  BY <2>1, <2>2 DEF StorageValue
  <1>2. <<>> \in StorageValue
    <2>1. 0 \in 0 .. MaxItems
      BY <1>0
    <2>2. <<>> \in [1 .. 0 -> Item]
      OBVIOUS
    <2> QED  BY <2>1, <2>2 DEF StorageValue
  <1>3. ASSUME NEW v \in StorageValue, NEW x \in Item, v \notin Index => Len(v) < MaxItems
        PROVE  storage_append_value(v, x) \in StorageValue
    <2>1. CASE v \in Index
      BY <2>1, <1>1 DEF storage_append_value
    <2>2. CASE v \notin Index
      <3>1. PICK n \in 0 .. MaxItems : v \in [1 .. n -> Item]
        <4> DEFINE vectors == UNION {[1 .. n -> Item] : n \in 0 .. MaxItems}
        <4>1. v \in vectors
          <5>1. StorageValue = vectors \cup Index
            BY DEF StorageValue
          <5> HIDE DEF vectors
          <5> QED  BY <2>2, <5>1
        <4> QED  BY <4>1, Zenon
      <3>2. n \in Nat
        BY <1>0
      <3>3. v \in Seq(Item) /\ Len(v) = n
        <4>1. v \in Seq(Item)
          BY <3>1, <3>2
        <4>2. DOMAIN v = 1 .. n /\ DOMAIN v = 1 .. Len(v) /\ Len(v) \in Nat
          BY <3>1, <4>1, LenProperties
        <4> QED  BY <4>1, <4>2, <3>2
      <3>4. /\ Append(v, x) \in Seq(Item)
            /\ Len(Append(v, x)) = n + 1
        BY <3>3, AppendProperties
      <3>5. Append(v, x) \in [1 .. n + 1 -> Item]
        BY <3>4, LenProperties
      <3>6. n + 1 \in 0 .. MaxItems
        BY <1>0, <1>3, <2>2, <3>2, <3>3
      <3>7. Append(v, x) \in StorageValue
        BY <3>5, <3>6 DEF StorageValue
      <3> QED  BY <3>7, <2>2 DEF storage_append_value
    <2> QED  BY <2>1, <2>2
  <1>4. Values \subseteq StorageValue
    BY <1>1 DEF Values
  <1>5. Index \subseteq StorageValue
    BY Zenon DEF StorageValue
  <1>6. \A k \in Key : ValuesOf(k) \cup {None} \subseteq Value
    BY <1>4, <1>5 DEF ValuesOf, Value
  <1> QED  BY <1>2, <1>3, <1>4, <1>6

\* `set` and `clear_where` are writes of one value.
LEMMA SetWrites ==
  ASSUME NEW m, MapOK(m), NEW e \in Extrinsic \cup {None}
  PROVE  /\ \A k \in Key, v \in Value : MapWrite(m, set(m, k, v, e), v)
         /\ \A K \in SUBSET Key : MapWrite(m, clear_where(m, K, e), None)
         /\ \A K \in SUBSET Key, v \in Value : MapWrite(m, set_all(m, K, v, e), v)
  <1>1. ASSUME NEW K \in SUBSET Key, NEW v \in Value
        PROVE  MapWrite(m, set_all(m, K, v, e), v)
    <2> DEFINE w == set_all(m, K, v, e)
    <2>0. w = set_all(m, K, v, e)
      OBVIOUS
    <2> HIDE DEF w
    <2>1. /\ MapOK(w)
          /\ transaction_depth(w) = transaction_depth(m)
          /\ w.num_client_transactions = m.num_client_transactions
          /\ w.execution_mode = m.execution_mode
          /\ \A k \in Key, d \in 0 .. transaction_depth(m) :
               ValueAt(w, k, d) = IF k \in K /\ d = transaction_depth(m)
                                  THEN v ELSE ValueAt(m, k, d)
      BY <2>0, SetAll
    <2>2. MapWrite(m, w, v)
      BY <2>1 DEF MapWrite, InStep
    <2> QED  BY <2>2 DEF w
  <1>2. ASSUME NEW k \in Key, NEW v \in Value PROVE MapWrite(m, set(m, k, v, e), v)
    <2> DEFINE K == {k}
    <2>1. K \in SUBSET Key /\ set(m, k, v, e) = set_all(m, K, v, e)
      BY DEF set
    <2> HIDE DEF K
    <2> QED  BY <2>1, <1>1
  <1>3. ASSUME NEW K \in SUBSET Key PROVE MapWrite(m, clear_where(m, K, e), None)
    <2> DEFINE L == K \cap DOMAIN m.changes
    <2>1. L \in SUBSET Key /\ clear_where(m, K, e) = set_all(m, L, None, e)
      BY DEF clear_where
    <2>2. None \in Value
      BY DEF Value
    <2> HIDE DEF L
    <2> QED  BY <2>1, <2>2, <1>1
  <1> QED  BY <1>1, <1>2, <1>3

\* An append is a write of one value, too.
LEMMA AppendWrites ==
  ASSUME NEW m, MapOK(m), NEW e \in Extrinsic \cup {None}, NEW k \in Key,
         NEW init \in StorageValue, NEW v \in Value, NEW w,
         w = overwrite(modify(m, k, init, e), k, v)
  PROVE  MapWrite(m, w, v)
  <1> DEFINE q == modify(m, k, init, e)
  <1>0. q = modify(m, k, init, e) /\ w = overwrite(q, k, v) /\ init \in Value
    BY DEF Value
  <1> HIDE DEF q
  <1>1. /\ MapOK(q)
        /\ transaction_depth(q) = transaction_depth(m)
        /\ q.num_client_transactions = m.num_client_transactions
        /\ q.execution_mode = m.execution_mode
        /\ k \in DOMAIN q.changes
        /\ ~first_write_in_tx(q, k)
        /\ \A x \in Key, d \in 0 .. transaction_depth(m) :
             x # k \/ d # transaction_depth(m) => ValueAt(q, x, d) = ValueAt(m, x, d)
    BY <1>0, Modify
  <1>2. /\ MapOK(w)
        /\ transaction_depth(w) = transaction_depth(q)
        /\ w.num_client_transactions = q.num_client_transactions
        /\ w.execution_mode = q.execution_mode
        /\ \A x \in Key, d \in 0 .. transaction_depth(q) :
             ValueAt(w, x, d) = IF x = k /\ d = transaction_depth(q)
                                THEN v ELSE ValueAt(q, x, d)
    BY <1>0, <1>1, Overwrite
  <1>3. InStep(w, m)
    BY <1>1, <1>2 DEF InStep
  <1>4. ASSUME NEW x \in Key, NEW d \in 0 .. transaction_depth(m)
        PROVE  \/ ValueAt(w, x, d) = ValueAt(m, x, d)
               \/ d = transaction_depth(m) /\ ValueAt(w, x, d) = v
    <2>1. CASE x = k /\ d = transaction_depth(m)
      BY <2>1, <1>1, <1>2
    <2>2. CASE ~(x = k /\ d = transaction_depth(m))
      BY <2>2, <1>1, <1>2
    <2> QED  BY <2>1, <2>2
  <1> QED  BY <1>3, <1>4 DEF MapWrite

-----------------------------------------------------------------------------
(* The stack of views                                                      *)

View == [Locations -> Value \cup {Unknown}]

\* A location holds a value, or was never written.
LEMMA SeenType ==
  ASSUME NEW o, OverlayOK(o), NEW l \in Locations, NEW d \in 0 .. depth(o)
  PROVE  Seen(o, l, d) \in Value \cup {Unknown}
  <1>0. l[2] \in Key /\ l[1] \in {"top", "offchain"} \cup Child
    BY LocationIs
  <1>1. ASSUME NEW m, InStep(m, o.top) PROVE ValueAt(m, l[2], d) \in Value \cup {Unknown}
    <2> DEFINE V == Versions(m, l[2])
               a == Len(V) - Count(m.dirty_keys, l[2], d, transaction_depth(m))
    <2>1. MapOK(m) /\ d \in 0 .. transaction_depth(m)
      BY <1>1 DEF InStep, depth
    <2>2. /\ Count(m.dirty_keys, l[2], d, transaction_depth(m)) \in 0 .. Len(V)
          /\ ValueAt(m, l[2], d) = IF a = 0 THEN Unknown ELSE V[a].value
      BY <2>1, <1>0, VersionAt
    <2>3. V \in Seq(InnerValue) /\ Len(V) \in Nat
      BY <2>1, <1>0, KeyFacts, LenProperties
    <2>4. a # 0 => a \in 1 .. Len(V)
      <3> HIDE DEF V
      <3> QED  BY <2>2, <2>3
    <2> HIDE DEF a, V
    <2>5. a # 0 => V[a] \in InnerValue
      BY <2>3, <2>4, LenProperties
    <2>6. a # 0 => V[a].value \in Value
      BY <2>5 DEF InnerValue, Value
    <2> QED  BY <2>2, <2>6
  <1>2. /\ InStep(o.top, o.top) /\ InStep(o.offchain, o.top)
        /\ \A c \in DOMAIN o.children : InStep(o.children[c], o.top)
    BY DEF OverlayOK
  <1>g. /\ l[1] = "top" => Seen(o, l, d) = ValueAt(o.top, l[2], d)
        /\ l[1] = "offchain" => Seen(o, l, d) = ValueAt(o.offchain, l[2], d)
        /\ l[1] \in Child /\ l[1] \in DOMAIN o.children =>
             Seen(o, l, d) = ValueAt(o.children[l[1]], l[2], d)
        /\ l[1] \in Child /\ l[1] \notin DOMAIN o.children => Seen(o, l, d) = Unknown
    BY SeenIs
  <1> QED  BY <1>0, <1>1, <1>2, <1>g

\* One view for what is committed, and one for each open transaction.
LEMMA LevelsSeq ==
  ASSUME NEW o, OverlayOK(o)
  PROVE  /\ Levels(o) \in Seq(View)
         /\ Len(Levels(o)) = depth(o) + 1
         /\ \A i \in 1 .. depth(o) + 1 :
              /\ Levels(o)[i] = [l \in Locations |-> Seen(o, l, i - 1)]
              /\ Levels(o)[i] \in View
  <1>0. depth(o) \in Nat /\ depth(o) + 1 \in Nat
    <2>1. depth(o) \in Nat
      BY OverlayFields
    <2> QED  BY <2>1
  <1>1. \A i \in 1 .. depth(o) + 1 : Levels(o)[i] = [l \in Locations |-> Seen(o, l, i - 1)]
    BY DEF Levels
  <1>2. ASSUME NEW i \in 1 .. depth(o) + 1 PROVE Levels(o)[i] \in View
    <2>1. i - 1 \in 0 .. depth(o)
      BY <1>0
    <2>2. \A l \in Locations : Seen(o, l, i - 1) \in Value \cup {Unknown}
      BY <2>1, SeenType
    <2> QED  BY <2>2, <1>1 DEF View
  <1>3. Levels(o) \in [1 .. depth(o) + 1 -> View]
    <2>1. DOMAIN Levels(o) = 1 .. depth(o) + 1
          /\ Levels(o) = [i \in 1 .. depth(o) + 1 |-> Levels(o)[i]]
      BY DEF Levels
    <2> QED  BY <2>1, <1>2
  <1>4. Levels(o) \in Seq(View)
    BY <1>0, <1>3
  <1>5. Len(Levels(o)) = depth(o) + 1
    <2>1. DOMAIN Levels(o) = 1 .. depth(o) + 1 /\ DOMAIN Levels(o) = 1 .. Len(Levels(o))
          /\ Len(Levels(o)) \in Nat
      BY <1>3, <1>4, LenProperties
    <2> QED  BY <2>1, <1>0
  <1> QED  BY <1>1, <1>2, <1>4, <1>5

\* A step of the transactions takes the views along.
LEMMA StepLevels ==
  ASSUME NEW o, OverlayOK(o), NEW p, NEW x \in 0 .. depth(o), OverlayStep(o, p, x),
         depth(p) <= depth(o) + 1
  PROVE  /\ \A i \in 1 .. depth(p) : Levels(p)[i] = Levels(o)[i]
         /\ Levels(p)[depth(p) + 1] = Levels(o)[x + 1]
  <1>0. OverlayOK(p)
    BY DEF OverlayStep
  <1>1. depth(o) \in Nat /\ depth(p) \in Nat /\ x \in Nat
    <2>1. depth(o) \in Nat
      BY OverlayFields
    <2>2. depth(p) \in Nat
      BY <1>0, OverlayFields
    <2> QED  BY <2>1, <2>2
  <1>2. /\ \A i \in 1 .. depth(o) + 1 : Levels(o)[i] = [l \in Locations |-> Seen(o, l, i - 1)]
        /\ \A i \in 1 .. depth(p) + 1 : Levels(p)[i] = [l \in Locations |-> Seen(p, l, i - 1)]
    BY <1>0, LevelsSeq
  <1>3. ASSUME NEW i \in 1 .. depth(p) PROVE Levels(p)[i] = Levels(o)[i]
    <2>1. i \in 1 .. depth(o) + 1 /\ i \in 1 .. depth(p) + 1 /\ i - 1 \in 0 .. depth(p)
          /\ i - 1 # depth(p)
      BY <1>1
    <2>2. \A l \in Locations : Seen(p, l, i - 1) = Seen(o, l, i - 1)
      BY <2>1 DEF OverlayStep
    <2> QED  BY <2>1, <2>2, <1>2
  <1>4. Levels(p)[depth(p) + 1] = Levels(o)[x + 1]
    <2>1. x + 1 \in 1 .. depth(o) + 1 /\ depth(p) + 1 \in 1 .. depth(p) + 1
          /\ depth(p) \in 0 .. depth(p) /\ (x + 1) - 1 = x /\ (depth(p) + 1) - 1 = depth(p)
      BY <1>1
    <2>2. \A l \in Locations : Seen(p, l, depth(p)) = Seen(o, l, x)
      BY <2>1 DEF OverlayStep
    <2>3. Levels(o)[x + 1] = [l \in Locations |-> Seen(o, l, x)]
      BY <2>1, <1>2
    <2>4. Levels(p)[depth(p) + 1] = [l \in Locations |-> Seen(p, l, depth(p))]
      BY <2>1, <1>2
    <2> QED  BY <2>2, <2>3, <2>4
  <1> QED  BY <1>3, <1>4

\* A write reaches the innermost view only.
LEMMA WriteLevels ==
  ASSUME NEW o, OverlayOK(o), NEW p, NEW v, Wrote(o, p, v)
  PROVE  /\ Levels(p) = [Levels(o) EXCEPT ![Len(Levels(o))] = Levels(p)[Len(Levels(o))]]
         /\ \A l \in Locations :
              Levels(p)[Len(Levels(o))][l] \in {Levels(o)[Len(Levels(o))][l], v}
  <1>0. OverlayOK(p) /\ depth(p) = depth(o)
    BY DEF Wrote
  <1>1. depth(o) \in Nat
    BY OverlayFields
  <1> DEFINE n == depth(o)
  <1>2. /\ Levels(o) \in Seq(View) /\ Len(Levels(o)) = n + 1
        /\ \A i \in 1 .. n + 1 : Levels(o)[i] = [l \in Locations |-> Seen(o, l, i - 1)]
    BY LevelsSeq
  <1>3. /\ Levels(p) \in Seq(View) /\ Len(Levels(p)) = n + 1
        /\ \A i \in 1 .. n + 1 : Levels(p)[i] = [l \in Locations |-> Seen(p, l, i - 1)]
                                 /\ Levels(p)[i] \in View
    BY <1>0, LevelsSeq
  <1>4. ASSUME NEW i \in 1 .. n + 1, i # n + 1 PROVE Levels(p)[i] = Levels(o)[i]
    <2>1. i - 1 \in 0 .. n /\ i - 1 # n
      BY <1>1, <1>4
    <2>2. \A l \in Locations : Seen(p, l, i - 1) = Seen(o, l, i - 1)
      BY <2>1 DEF Wrote
    <2> QED  BY <2>2, <1>2, <1>3
  <1>5. \A l \in Locations : Levels(p)[n + 1][l] \in {Levels(o)[n + 1][l], v}
    <2>1. n + 1 \in 1 .. n + 1 /\ n \in 0 .. n /\ (n + 1) - 1 = n
      BY <1>1
    <2>2. \A l \in Locations : Seen(p, l, n) \in {Seen(o, l, n), v}
      BY <2>1 DEF Wrote
    <2>3. /\ Levels(o)[n + 1] = [l \in Locations |-> Seen(o, l, n)]
          /\ Levels(p)[n + 1] = [l \in Locations |-> Seen(p, l, n)]
      BY <2>1, <1>2, <1>3
    <2> QED  BY <2>2, <2>3
  <1> DEFINE x == Levels(p)[n + 1]
             w == [Levels(o) EXCEPT ![n + 1] = x]
  <1>6. /\ w \in Seq(View) /\ Len(w) = n + 1
        /\ \A i \in 1 .. n + 1 : w[i] = IF i = n + 1 THEN x ELSE Levels(o)[i]
    <2>1. n + 1 \in 1 .. Len(Levels(o)) /\ x \in View
      BY <1>1, <1>2, <1>3
    <2> HIDE DEF x, n
    <2> QED  BY <2>1, <1>2, ExceptSeq
  <1>7. \A i \in 1 .. n + 1 : Levels(p)[i] = w[i]
    <2> HIDE DEF w, n
    <2> QED  BY <1>4, <1>6
  <1>8. Levels(p) = w
    <2> HIDE DEF w
    <2> QED  BY <1>3, <1>6, <1>7, SeqEqual
  <1> QED  BY <1>2, <1>5, <1>8

\* The views after start_transaction, commit_transaction and the rollbacks.
LEMMA BeginLevels ==
  ASSUME NEW o, OverlayOK(o), NEW p, OverlayStep(o, p, depth(o)), depth(p) = depth(o) + 1
  PROVE  Levels(p) = Append(Levels(o), Levels(o)[Len(Levels(o))])
  <1> DEFINE n == depth(o)
             L == Levels(o)
             w == Append(L, L[Len(L)])
  <1>0. n \in Nat
    BY OverlayFields
  <1>1. OverlayOK(p) /\ n \in 0 .. n /\ n + 1 \in 1 .. n + 1 /\ depth(p) <= n + 1
    BY <1>0 DEF OverlayStep
  <1>2. L \in Seq(View) /\ Len(L) = n + 1 /\ L[n + 1] \in View
    BY <1>1, LevelsSeq
  <1>3. Levels(p) \in Seq(View) /\ Len(Levels(p)) = n + 2
    <2>1. Levels(p) \in Seq(View) /\ Len(Levels(p)) = depth(p) + 1
      BY <1>1, LevelsSeq
    <2> QED  BY <2>1, <1>0
  <1>4. /\ \A i \in 1 .. n + 1 : Levels(p)[i] = L[i]
        /\ Levels(p)[n + 1 + 1] = L[n + 1]
    <2>1. /\ \A i \in 1 .. depth(p) : Levels(p)[i] = L[i]
          /\ Levels(p)[depth(p) + 1] = L[n + 1]
      BY <1>1, StepLevels
    <2> QED  BY <2>1
  <1> HIDE DEF L, n
  <1>5. /\ w \in Seq(View)
        /\ Len(w) = n + 1 + 1
        /\ \A i \in 1 .. n + 1 : w[i] = L[i]
        /\ w[n + 1 + 1] = L[n + 1]
    BY <1>2, AppendProperties
  <1>6. \A i \in 1 .. n + 2 : Levels(p)[i] = w[i]
    <2> HIDE DEF w
    <2>1. \A i \in 1 .. n + 2 : i \in 1 .. n + 1 \/ i = n + 1 + 1
      BY <1>0
    <2> QED  BY <2>1, <1>4, <1>5
  <1>7. Levels(p) = w
    <2> HIDE DEF w
    <2>1. Len(w) = n + 2
      BY <1>0, <1>5
    <2> QED  BY <2>1, <1>3, <1>5, <1>6, SeqEqual
  <1> QED  BY <1>7 DEF L

\* What stays of the views is a prefix.
LEMMA BackLevels ==
  ASSUME NEW o, OverlayOK(o), NEW p, NEW d \in 0 .. depth(o), OverlayStep(o, p, d), depth(p) = d
  PROVE  Levels(p) = SubSeq(Levels(o), 1, d + 1)
  <1> DEFINE n == depth(o)
             L == Levels(o)
             w == SubSeq(L, 1, d + 1)
  <1>0. n \in Nat
    BY OverlayFields
  <1>d. d \in Nat /\ d + 1 \in 0 .. n + 1 /\ depth(p) <= n + 1
    BY <1>0
  <1>1. OverlayOK(p)
    BY DEF OverlayStep
  <1>2. L \in Seq(View) /\ Len(L) = n + 1
    BY LevelsSeq
  <1>3. Levels(p) \in Seq(View) /\ Len(Levels(p)) = d + 1
    BY <1>1, LevelsSeq
  <1>4. /\ \A i \in 1 .. d : Levels(p)[i] = L[i]
        /\ Levels(p)[d + 1] = L[d + 1]
    BY <1>d, StepLevels
  <1> HIDE DEF L, n
  <1>5. /\ w \in Seq(View)
        /\ Len(w) = d + 1
        /\ \A i \in 1 .. d + 1 : w[i] = L[i]
    BY <1>2, <1>d, Prefix
  <1>6. \A i \in 1 .. d + 1 : Levels(p)[i] = w[i]
    <2>1. \A i \in 1 .. d + 1 : i \in 1 .. d \/ i = d + 1
      BY <1>d
    <2> HIDE DEF w
    <2> QED  BY <2>1, <1>4, <1>5
  <1>7. Levels(p) = w
    <2> HIDE DEF w
    <2> QED  BY <1>3, <1>5, <1>6, SeqEqual
  <1> QED  BY <1>7 DEF L

\* The innermost view replaces the one below it.
LEMMA CommitLevels ==
  ASSUME NEW o, OverlayOK(o), NEW p, depth(o) > 0,
         OverlayStep(o, p, depth(o)), depth(p) = depth(o) - 1
  PROVE  Levels(p) = Append(SubSeq(Levels(o), 1, Len(Levels(o)) - 2), Levels(o)[Len(Levels(o))])
  <1> DEFINE n == depth(o)
             L == Levels(o)
             s == SubSeq(L, 1, n - 1)
             w == Append(s, L[n + 1])
  <1>0. n \in Nat
    BY OverlayFields
  <1>d. n > 0 /\ n - 1 \in Nat /\ n - 1 \in 0 .. n + 1 /\ n + 1 \in 1 .. n + 1 /\ n \in 0 .. n
        /\ (n + 1) - 2 = n - 1 /\ (n - 1) + 1 = n
    BY <1>0
  <1>1. OverlayOK(p)
    BY DEF OverlayStep
  <1>2. L \in Seq(View) /\ Len(L) = n + 1 /\ L[n + 1] \in View
    BY <1>d, LevelsSeq
  <1>3. Levels(p) \in Seq(View) /\ Len(Levels(p)) = n
    <2>1. Levels(p) \in Seq(View) /\ Len(Levels(p)) = depth(p) + 1
      BY <1>1, LevelsSeq
    <2> QED  BY <2>1, <1>0
  <1>4. /\ \A i \in 1 .. n - 1 : Levels(p)[i] = L[i]
        /\ Levels(p)[n] = L[n + 1]
    <2>0. depth(p) <= n + 1
      BY <1>0
    <2>1. /\ \A i \in 1 .. depth(p) : Levels(p)[i] = L[i]
          /\ Levels(p)[depth(p) + 1] = L[n + 1]
      BY <1>d, <2>0, StepLevels
    <2>2. depth(p) + 1 = n
      BY <1>0
    <2> QED  BY <2>1, <2>2
  <1> HIDE DEF L, n
  <1>5. /\ s \in Seq(View)
        /\ Len(s) = n - 1
        /\ \A i \in 1 .. n - 1 : s[i] = L[i]
    BY <1>2, <1>d, Prefix
  <1> HIDE DEF s
  <1>6. /\ w \in Seq(View)
        /\ Len(w) = (n - 1) + 1
        /\ \A i \in 1 .. n - 1 : w[i] = s[i]
        /\ w[(n - 1) + 1] = L[n + 1]
    BY <1>2, <1>5, AppendProperties
  <1>7. \A i \in 1 .. n : Levels(p)[i] = w[i]
    <2> HIDE DEF w
    <2>1. \A i \in 1 .. n : i \in 1 .. n - 1 \/ i = n
      BY <1>0
    <2> QED  BY <2>1, <1>d, <1>4, <1>5, <1>6
  <1>8. Levels(p) = w
    <2> HIDE DEF w
    <2> QED  BY <1>d, <1>3, <1>6, <1>7, SeqEqual
  <1> QED  BY <1>2, <1>8, <1>d DEF L, s

-----------------------------------------------------------------------------
(* The steps of the overlay                                                *)

\* Whatever is written, by whichever call, is one value of the innermost
\* transaction.
WriteStep == \E v \in Value : Wrote(overlay, overlay', v)

\* The overlay after one of its changesets was replaced.
LEMMA Replaced ==
  ASSUME NEW o, OverlayOK(o), NEW p, NEW v, NEW t
  PROVE  /\ p = [o EXCEPT !.top = t] /\ MapWrite(o.top, t, v) => Wrote(o, p, v)
         /\ p = [o EXCEPT !.offchain = t] /\ MapWrite(o.offchain, t, v) => Wrote(o, p, v)
  <1>0. /\ o = [top                |-> o.top,
                children           |-> o.children,
                offchain           |-> o.offchain,
                collect_extrinsics |-> o.collect_extrinsics]
        /\ o.collect_extrinsics = CollectExtrinsics
    BY OverlayFields
  <1>1. ASSUME p = [o EXCEPT !.top = t], MapWrite(o.top, t, v) PROVE Wrote(o, p, v)
    <2>1. /\ p = [top                |-> p.top,
                  children           |-> p.children,
                  offchain           |-> p.offchain,
                  collect_extrinsics |-> CollectExtrinsics]
          /\ p.top = t /\ p.children = o.children /\ p.offchain = o.offchain
      BY <1>0, <1>1
    <2> QED  BY <1>1, <2>1, WriteTop
  <1>2. ASSUME p = [o EXCEPT !.offchain = t], MapWrite(o.offchain, t, v) PROVE Wrote(o, p, v)
    <2>1. /\ p = [top                |-> p.top,
                  children           |-> p.children,
                  offchain           |-> p.offchain,
                  collect_extrinsics |-> CollectExtrinsics]
          /\ p.top = o.top /\ p.children = o.children /\ p.offchain = t
      BY <1>0, <1>2
    <2> QED  BY <1>2, <2>1, WriteOffchain
  <1> QED  BY <1>1, <1>2

\* set_storage writes one value to the top trie.
LEMMA SetStorageWrites ==
  ASSUME OverlayOK(overlay), NEW k \in Key, NEW v \in ValuesOf(k) \cup {None}, SetStorage(k, v)
  PROVE  WriteStep
  <1> DEFINE e == extrinsic_index(overlay)
             t == set(overlay.top, k, v, e)
  <1>1. v \in Value /\ e \in Extrinsic \cup {None} /\ MapOK(overlay.top)
    BY ValueTypes, IndexType, OverlayFields
  <1>2. overlay' = [overlay EXCEPT !.top = t]
    BY DEF SetStorage, set_storage
  <1> HIDE DEF e
  <1>3. MapWrite(overlay.top, t, v)
    BY <1>1, SetWrites
  <1> HIDE DEF t
  <1> QED  BY <1>1, <1>2, <1>3, Replaced DEF WriteStep

\* clear_prefix writes None to keys of the top trie.
LEMMA ClearPrefixWrites ==
  ASSUME OverlayOK(overlay), NEW K \in SUBSET Keys, ClearPrefix(K)
  PROVE  WriteStep
  <1> DEFINE e == extrinsic_index(overlay)
             t == clear_where(overlay.top, K, e)
  <1>1. e \in Extrinsic \cup {None} /\ MapOK(overlay.top)
    BY IndexType, OverlayFields
  <1>2. overlay' = [overlay EXCEPT !.top = t]
    BY DEF ClearPrefix, clear_prefix
  <1>k. K \in SUBSET Key /\ None \in Value
    BY DEF Keys, Value
  <1> HIDE DEF e
  <1>3. MapWrite(overlay.top, t, None)
    BY <1>1, <1>k, SetWrites
  <1> HIDE DEF t
  <1> QED  BY <1>k, <1>2, <1>3, Replaced DEF WriteStep

\* set_offchain_storage writes one value to the offchain index.
LEMMA SetOffchainWrites ==
  ASSUME OverlayOK(overlay), NEW k \in Keys, NEW v \in Values \cup {None}, SetOffchainStorage(k, v)
  PROVE  WriteStep
  <1> DEFINE t == set(overlay.offchain, k, v, None)
  <1>1. v \in Value /\ MapOK(overlay.offchain) /\ k \in Key
    BY ValueTypes DEF Value, OverlayOK, InStep, Keys
  <1>2. overlay' = [overlay EXCEPT !.offchain = t]
    BY DEF SetOffchainStorage, set_offchain_storage
  <1>3. MapWrite(overlay.offchain, t, v)
    <2>1. None \in Extrinsic \cup {None}
      OBVIOUS
    <2> QED  BY <1>1, <2>1, SetWrites
  <1> HIDE DEF t
  <1> QED  BY <1>1, <1>2, <1>3, Replaced DEF WriteStep

\* The map that a child's write starts from is well formed, new or not.
LEMMA ChildMap ==
  ASSUME NEW o, OverlayOK(o), NEW c
  PROVE  MapOK(child_or_spawn(o, c))
  <1>1. CASE c \in DOMAIN o.children
    BY <1>1 DEF child_or_spawn, OverlayOK, InStep
  <1>2. CASE c \notin DOMAIN o.children
    <2>1. MapOK(o.top)
      BY OverlayFields
    <2> QED  BY <1>2, <2>1, Spawn DEF child_or_spawn
  <1> QED  BY <1>1, <1>2

\* set_child_storage writes one value to a child trie.
LEMMA SetChildWrites ==
  ASSUME OverlayOK(overlay), NEW c \in Child, NEW k \in Keys, NEW v \in Values \cup {None},
         SetChildStorage(c, k, v)
  PROVE  WriteStep
  <1> DEFINE e == extrinsic_index(overlay)
             b == child_or_spawn(overlay, c)
             t == set(b, k, v, e)
  <1>1. v \in Value /\ k \in Key
    BY ValueTypes DEF Value, Keys
  <1>2. e \in Extrinsic \cup {None} /\ MapOK(b)
    BY IndexType, ChildMap
  <1>3. overlay' = with_child(overlay, c, t)
    BY DEF SetChildStorage, set_child_storage
  <1> HIDE DEF e
  <1>4. MapWrite(b, t, v)
    <2> HIDE DEF b
    <2> QED  BY <1>1, <1>2, SetWrites
  <1> HIDE DEF t
  <1> QED  BY <1>1, <1>3, <1>4, WriteChild DEF WriteStep

\* Clearing a child trie, or a prefix of it, writes None to some of its keys.
LEMMA ClearChildWrites ==
  ASSUME OverlayOK(overlay), NEW c \in Child, NEW K \in SUBSET Keys, ClearChild(c, K)
  PROVE  WriteStep
  <1> DEFINE e == extrinsic_index(overlay)
             b == child_or_spawn(overlay, c)
             t == clear_where(b, K, e)
  <1>1. K \in SUBSET Key /\ None \in Value
    BY DEF Keys, Value
  <1>2. e \in Extrinsic \cup {None} /\ MapOK(b)
    BY IndexType, ChildMap
  <1>3. overlay' = with_child(overlay, c, t)
    BY DEF ClearChild, clear_child_where
  <1> HIDE DEF e
  <1>4. MapWrite(b, t, None)
    <2> HIDE DEF b
    <2> QED  BY <1>1, <1>2, SetWrites
  <1> HIDE DEF t
  <1> QED  BY <1>1, <1>3, <1>4, WriteChild DEF WriteStep

\* append_storage writes the longer vector, and no outer version of the key.
LEMMA AppendStorageWrites ==
  ASSUME OverlayOK(overlay), NEW k \in Key, NEW init \in StorageValue, NEW x \in Item,
         AppendStorage(k, init, x)
  PROVE  WriteStep
  <1> DEFINE e   == extrinsic_index(overlay)
             q   == modify(overlay.top, k, init, e)
             old == IF get(q, k) = None THEN <<>> ELSE get(q, k)
             v   == storage_append_value(old, x)
             t   == overwrite(q, k, v)
  <1>1. <<>> \in StorageValue /\ init \in Value
    BY ValueTypes DEF Value
  <1>2. e \in Extrinsic \cup {None} /\ MapOK(overlay.top)
    BY IndexType, OverlayFields
  <1>3. overlay' = [overlay EXCEPT !.top = t]
    BY DEF AppendStorage, append_storage
  <1>g. LET u == IF storage(overlay, k) = Unknown THEN init ELSE storage(overlay, k)
        IN  u \notin Index \cup {None} => Len(u) < MaxItems
    BY DEF AppendStorage
  <1>4. /\ get(q, k) = IF get(overlay.top, k) = Unknown THEN init ELSE get(overlay.top, k)
        /\ get(overlay.top, k) \in Value \cup {Unknown}
    <2>0. q = modify(overlay.top, k, init, e)
      OBVIOUS
    <2> HIDE DEF e, q
    <2>1. get(q, k) = IF get(overlay.top, k) = Unknown THEN init ELSE get(overlay.top, k)
      BY <1>1, <1>2, <2>0, Modify
    <2> QED  BY <1>1, <1>2, <2>1, GetIs
  <1>5. get(q, k) \in Value /\ (get(q, k) \notin Index \cup {None} => Len(get(q, k)) < MaxItems)
    <2> HIDE DEF q
    <2> QED  BY <1>1, <1>4, <1>g DEF storage
  <1>6. v \in StorageValue
    <2>1. old \in StorageValue
      BY <1>1, <1>5 DEF Value
    <2>2. old \notin Index => Len(old) < MaxItems
      <3>1. CASE get(q, k) = None
        <4>1. old = <<>> /\ Len(<<>>) = 0
          BY <3>1, EmptySeq
        <4> HIDE DEF old, q
        <4> QED  BY <4>1, ItemsAssumption
      <3>2. CASE get(q, k) # None
        <4>1. old = get(q, k)
          BY <3>2
        <4> HIDE DEF old, q
        <4> QED  BY <4>1, <3>2, <1>5
      <3> QED  BY <3>1, <3>2
    <2> HIDE DEF old
    <2> QED  BY <2>1, <2>2, ValueTypes
  <1>7. v \in Value
    BY <1>6 DEF Value
  <1>8. MapWrite(overlay.top, t, v)
    <2> HIDE DEF e, v
    <2> QED  BY <1>1, <1>2, <1>7, AppendWrites
  <1> HIDE DEF t, v
  <1> QED  BY <1>3, <1>7, <1>8, Replaced DEF WriteStep

\* Every step is a write, or one of the steps of the transactions.
LEMMA NextCases ==
  ASSUME OverlayOK(overlay), Next
  PROVE  \/ WriteStep
         \/ StartTransaction
         \/ RollbackTransaction
         \/ CommitTransaction
         \/ EnterRuntime
         \/ ExitRuntime
         \/ DrainStorageChanges
  <1>1. ASSUME NEW k \in Key, NEW v \in ValuesOf(k) \cup {None}, SetStorage(k, v)
        PROVE  WriteStep
    BY <1>1, SetStorageWrites
  <1>2. ASSUME NEW k \in Keys, NEW v \in Values \cup {None}, SetOffchainStorage(k, v)
        PROVE  WriteStep
    BY <1>2, SetOffchainWrites
  <1>3. ASSUME NEW k \in Keys, NEW v \in Values \cup {None}, NEW c \in Child, SetChildStorage(c, k, v)
        PROVE  WriteStep
    BY <1>3, SetChildWrites
  <1>4. ASSUME NEW k \in Keys, NEW init \in Values \cup {<<>>}, NEW x \in Item,
               AppendStorage(k, init, x)
        PROVE  WriteStep
    BY <1>4, ValueTypes, AppendStorageWrites DEF Keys
  <1>5. ASSUME NEW K \in SUBSET Keys, ClearPrefix(K) PROVE WriteStep
    BY <1>5, ClearPrefixWrites
  <1>6. ASSUME NEW K \in SUBSET Keys, NEW c \in Child, ClearChild(c, K) PROVE WriteStep
    BY <1>6, ClearChildWrites
  <1> QED  BY <1>1, <1>2, <1>3, <1>4, <1>5, <1>6 DEF Next

\* The invariant holds of a new overlay.
LEMMA InvInit ==
  Init => OverlayOK(overlay)
  <1>1. ASSUME Init PROVE OverlayOK(overlay)
    <2>1. overlay = DefaultOverlay(CollectExtrinsics)
      BY <1>1 DEF Init
    <2> QED  BY <2>1, DefaultAll
  <1> QED  BY <1>1

\* Every call keeps the invariant.
LEMMA InvNext ==
  ASSUME OverlayOK(overlay), [Next]_overlay
  PROVE  OverlayOK(overlay')
  <1>1. CASE WriteStep
    BY <1>1 DEF WriteStep, Wrote
  <1>2. CASE StartTransaction
    BY <1>2, StartAll DEF StartTransaction, OverlayStep
  <1>3. CASE RollbackTransaction
    BY <1>3, RollbackAll DEF RollbackTransaction, OverlayStep
  <1>4. CASE CommitTransaction
    BY <1>4, CommitAll DEF CommitTransaction, OverlayStep
  <1>5. CASE EnterRuntime
    BY <1>5, EnterAll DEF EnterRuntime, OverlayStep
  <1>6. CASE ExitRuntime
    BY <1>6, ExitAll DEF ExitRuntime, OverlayStep
  <1>7. CASE DrainStorageChanges
    <2>1. overlay' = DefaultOverlay(CollectExtrinsics)
      BY <1>7, OverlayFields DEF DrainStorageChanges, overlay_drain
    <2> QED  BY <2>1, DefaultAll
  <1>8. CASE UNCHANGED overlay
    BY <1>8
  <1> QED  BY <1>1, <1>2, <1>3, <1>4, <1>5, <1>6, <1>7, <1>8, NextCases

\* In every reachable state the overlay is well formed: the versions of every
\* key are those of the transactions that wrote it, all changesets are in
\* step, and the runtime has closed no transaction of the client.
THEOREM OverlayCorrect ==
  Spec => []OverlayOK(overlay)
  <1>1. Init => OverlayOK(overlay)
    BY InvInit
  <1>2. OverlayOK(overlay) /\ [Next]_overlay => OverlayOK(overlay)'
    BY InvNext
  <1> QED  BY <1>1, <1>2, PTL DEF Spec

\* The overlay and its changesets are of their types.
THEOREM TypeCorrect ==
  Spec => []TypeOK
  <1>1. OverlayOK(overlay) => TypeOK
    BY OverlayOKIs
  <1> QED  BY <1>1, OverlayCorrect, PTL

\* In every reachable state each key has a version for each open transaction
\* that wrote it and at most one more, and every key of a dirty set has a
\* version: no close_transaction meets a key without the version it has to
\* pop, the expects on PROOF_OVERLAY_NON_EMPTY of changeset.rs.
THEOREM VersionsAlignedCorrect ==
  Spec => []VersionsAligned
  <1>1. OverlayOK(overlay) => VersionsAligned
    BY OverlayOKIs
  <1> QED  BY <1>1, OverlayCorrect, PTL

\* In every reachable state the top, child and offchain changesets have the
\* same number of open transactions, are in the same mode and protect the
\* same transactions, however deep a child was created: the expects "started
\* in lockstep" of overlayed_changes/mod.rs.
THEOREM LockstepCorrect ==
  Spec => []Lockstep
  <1>1. OverlayOK(overlay) => Lockstep
    BY OverlayOKIs
  <1> QED  BY <1>1, OverlayCorrect, PTL

-----------------------------------------------------------------------------
(* The overlay implements the stack of views                               *)

\* A new overlay is a stack of one blank view.
LEMMA StackInitial ==
  ASSUME NEW p, p = DefaultOverlay(CollectExtrinsics)
  PROVE  /\ Levels(p) = <<[l \in Locations |-> Unknown]>>
         /\ p.top.num_client_transactions = 0
         /\ p.top.execution_mode = "Client"
  <1>1. /\ OverlayOK(p) /\ depth(p) = 0
        /\ p.top.num_client_transactions = 0
        /\ p.top.execution_mode = "Client"
        /\ \A l \in Locations : Seen(p, l, 0) = Unknown
    BY DefaultAll
  <1> DEFINE blank == [l \in Locations |-> Unknown]
             w     == <<blank>>
  <1>2. blank \in View
    BY DEF View
  <1>3. w \in Seq(View) /\ Len(w) = 1 /\ w[1] = blank
    <2> HIDE DEF blank
    <2> QED  BY <1>2
  <1>4. /\ Levels(p) \in Seq(View)
        /\ Len(Levels(p)) = 0 + 1
        /\ \A i \in 1 .. 0 + 1 : Levels(p)[i] = [l \in Locations |-> Seen(p, l, i - 1)]
    <2>1. /\ Levels(p) \in Seq(View)
          /\ Len(Levels(p)) = depth(p) + 1
          /\ \A i \in 1 .. depth(p) + 1 : Levels(p)[i] = [l \in Locations |-> Seen(p, l, i - 1)]
      <3>1. OverlayOK(p)
        BY <1>1
      <3> QED  BY <3>1, LevelsSeq
    <2> HIDE DEF w, blank
    <2> QED  BY <1>1, <2>1
  <1>5. Levels(p)[1] = blank
    <2>1. 1 \in 1 .. 0 + 1 /\ 1 - 1 = 0
      OBVIOUS
    <2>2. Levels(p)[1] = [l \in Locations |-> Seen(p, l, 0)]
      BY <1>4, <2>1
    <2> QED  BY <2>2, <1>1
  <1>6. Levels(p) = w
    <2> HIDE DEF w, blank
    <2>1. Len(Levels(p)) = Len(w) /\ \A i \in 1 .. Len(Levels(p)) : Levels(p)[i] = w[i]
      BY <1>3, <1>4, <1>5
    <2> QED  BY <2>1, <1>3, <1>4, SeqEqual
  <1> QED  BY <1>1, <1>6

\* Every step of the overlay is a step of the stack, or leaves it alone.
LEMMA StackStep ==
  ASSUME OverlayOK(overlay), [Next]_overlay
  PROVE  [Stack!StackNext]_(Stack!stack)
  <1> DEFINE n == depth(overlay)
             L == Levels(overlay)
  <1>0. n \in Nat /\ overlay.top.num_client_transactions \in Nat
        /\ overlay.top.execution_mode \in {"Client", "Runtime"}
    BY OverlayFields
  <1>l. Len(L) = n + 1
    BY LevelsSeq
  <1>d. Stack!Depth = n
    BY <1>0, <1>l DEF Stack!Depth
  <1>c. can_close(overlay.top) => n > 0 /\ Stack!MayClose
    BY <1>0, <1>d DEF can_close, has_open_runtime_transactions, depth, Stack!MayClose
  <1>1. CASE WriteStep
    <2>1. PICK v \in Value : Wrote(overlay, overlay', v)
      BY <1>1 DEF WriteStep
    <2>2. /\ Levels(overlay') = [L EXCEPT ![Len(L)] = Levels(overlay')[Len(L)]]
          /\ \A l \in Locations : Levels(overlay')[Len(L)][l] \in {L[Len(L)][l], v}
      BY <2>1, WriteLevels
    <2>3. /\ overlay'.top.execution_mode = overlay.top.execution_mode
          /\ overlay'.top.num_client_transactions = overlay.top.num_client_transactions
      BY <2>1 DEF Wrote
    <2>4. Stack!Assign
      BY <2>2, <2>3 DEF Stack!Assign, Value
    <2> QED  BY <2>4 DEF Stack!StackNext
  <1>2. CASE StartTransaction
    <2>1. /\ OverlayStep(overlay, overlay', n)
          /\ depth(overlay') = n + 1
          /\ overlay'.top.num_client_transactions = overlay.top.num_client_transactions
          /\ overlay'.top.execution_mode = overlay.top.execution_mode
      BY <1>2, StartAll DEF StartTransaction
    <2>2. Levels(overlay') = Append(L, L[Len(L)])
      BY <2>1, BeginLevels
    <2>3. Stack!Begin
      BY <2>1, <2>2 DEF Stack!Begin
    <2> QED  BY <2>3 DEF Stack!StackNext
  <1>3. CASE RollbackTransaction
    <2>0. can_close(overlay.top)
      BY <1>3 DEF RollbackTransaction
    <2>1. /\ OverlayStep(overlay, overlay', n - 1)
          /\ depth(overlay') = n - 1
          /\ overlay'.top.num_client_transactions = overlay.top.num_client_transactions
          /\ overlay'.top.execution_mode = overlay.top.execution_mode
      BY <1>3, RollbackAll DEF RollbackTransaction
    <2>2. n - 1 \in 0 .. n /\ (n - 1) + 1 = Len(L) - 1
      BY <1>0, <1>c, <1>l, <2>0
    <2>3. Levels(overlay') = SubSeq(L, 1, (n - 1) + 1)
      BY <2>1, <2>2, BackLevels
    <2>4. Stack!Rollback
      BY <1>c, <2>0, <2>1, <2>2, <2>3 DEF Stack!Rollback
    <2> QED  BY <2>4 DEF Stack!StackNext
  <1>4. CASE CommitTransaction
    <2>0. can_close(overlay.top)
      BY <1>4 DEF CommitTransaction
    <2>1. /\ OverlayStep(overlay, overlay', n)
          /\ depth(overlay') = n - 1
          /\ overlay'.top.num_client_transactions = overlay.top.num_client_transactions
          /\ overlay'.top.execution_mode = overlay.top.execution_mode
      BY <1>4, CommitAll DEF CommitTransaction
    <2>2. Levels(overlay') = Append(SubSeq(L, 1, Len(L) - 2), L[Len(L)])
      BY <1>c, <2>0, <2>1, CommitLevels
    <2>3. Stack!Commit
      BY <1>c, <2>0, <2>1, <2>2 DEF Stack!Commit
    <2> QED  BY <2>3 DEF Stack!StackNext
  <1>5. CASE EnterRuntime
    <2>0. overlay.top.execution_mode # "Runtime"
      BY <1>5 DEF EnterRuntime
    <2>1. /\ OverlayStep(overlay, overlay', n)
          /\ depth(overlay') = n
          /\ overlay'.top.num_client_transactions = n
          /\ overlay'.top.execution_mode = "Runtime"
      BY <1>5, EnterAll DEF EnterRuntime
    <2>2. Levels(overlay') = L
      <3>0. n \in 0 .. n
        BY <1>0
      <3>1. Levels(overlay') = SubSeq(L, 1, n + 1)
        BY <2>1, <3>0, BackLevels
      <3>2. L \in Seq(View)
        BY LevelsSeq
      <3> QED  BY <3>1, <3>2, <1>l, SubSeqFull
    <2>3. Stack!Enter
      BY <1>d, <2>0, <2>1, <2>2 DEF Stack!Enter
    <2> QED  BY <2>3 DEF Stack!StackNext
  <1>6. CASE ExitRuntime
    <2> DEFINE c == overlay.top.num_client_transactions
    <2>0. overlay.top.execution_mode = "Runtime" /\ c <= n
      BY <1>6 DEF ExitRuntime, OverlayOK, Protected
    <2>1. /\ OverlayStep(overlay, overlay', c)
          /\ depth(overlay') = c
          /\ overlay'.top.num_client_transactions = c
          /\ overlay'.top.execution_mode = "Client"
      BY <1>6, ExitAll DEF ExitRuntime
    <2>2. c \in 0 .. n
      BY <1>0, <2>0
    <2>3. Levels(overlay') = SubSeq(L, 1, c + 1)
      BY <2>1, <2>2, BackLevels
    <2>4. Stack!Exit
      BY <2>0, <2>1, <2>3 DEF Stack!Exit
    <2> QED  BY <2>4 DEF Stack!StackNext
  <1>7. CASE DrainStorageChanges
    <2>1. overlay' = DefaultOverlay(CollectExtrinsics) /\ n = 0
      BY <1>7, OverlayFields DEF DrainStorageChanges, overlay_drain
    <2>2. /\ Levels(overlay') = <<[l \in Locations |-> Unknown]>>
          /\ overlay'.top.num_client_transactions = 0
          /\ overlay'.top.execution_mode = "Client"
      BY <2>1, StackInitial
    <2>3. Stack!Drain
      BY <1>d, <2>1, <2>2 DEF Stack!Drain, Stack!Blank
    <2> QED  BY <2>3 DEF Stack!StackNext
  <1>8. CASE UNCHANGED overlay
    BY <1>8 DEF Stack!stack
  <1> QED  BY <1>1, <1>2, <1>3, <1>4, <1>5, <1>6, <1>7, <1>8, NextCases

\* The overlay implements a stack of complete views: a rollback gives back
\* exactly what was seen when the transaction began, in the top trie, in every
\* child and in the offchain index, a commit hands all of it to the
\* transaction around it, the runtime closes no transaction of the client,
\* and what it leaves open is rolled back.
THEOREM StackImplemented ==
  Spec => ImplementsStack
  <1>1. Init => Stack!StackInit
    <2> SUFFICES ASSUME Init PROVE Stack!StackInit
      OBVIOUS
    <2>1. /\ Levels(overlay) = <<[l \in Locations |-> Unknown]>>
          /\ overlay.top.num_client_transactions = 0
          /\ overlay.top.execution_mode = "Client"
      BY StackInitial DEF Init
    <2> QED  BY <2>1 DEF Stack!StackInit, Stack!Blank
  <1>2. OverlayOK(overlay) /\ [Next]_overlay => [Stack!StackNext]_(Stack!stack)
    BY StackStep
  <1> QED  BY <1>1, <1>2, OverlayCorrect, PTL DEF Spec, ImplementsStack, Stack!StackSpec
=============================================================================
