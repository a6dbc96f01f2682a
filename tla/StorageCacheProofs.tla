-------------------------- MODULE StorageCacheProofs --------------------------
(***************************************************************************)
(* Proofs about StorageCache: what a state may take from the shared cache    *)
(* is what its database holds, for every tree of blocks, every set of keys   *)
(* and of states and every number of remembered blocks.                      *)
(***************************************************************************)
EXTENDS StorageCache, FiniteSetTheorems, WellFoundedInduction, TLAPS

(* The tree *)

\* What holds of the genesis block, and of every block whose parent has it,
\* holds of all blocks.
LEMMA TreeInduction ==
  ASSUME NEW S, Genesis \in S, \A b \in Block \ {Genesis} : Parent[b] \in S => b \in S
  PROVE  Block \subseteq S
<1> SUFFICES ASSUME Block \ S # {} PROVE FALSE
  OBVIOUS
<1>1. Block \ S \in SUBSET (Block \ {Genesis})
  OBVIOUS
<1>2. PICK b \in Block \ S : Parent[b] \notin Block \ S
  BY <1>1, TreeAssumption
<1>3. Parent[b] \in S
  BY <1>1, <1>2, TreeAssumption
<1> QED BY <1>2, <1>3

\* The equation of Chain, of a function f.
IsChain(f) ==
  f = [b \in Block |-> {b} \cup (IF b = Genesis THEN {} ELSE f[Parent[b]])]

\* The equation has a solution: the least sets that are closed under Parent.
LEMMA ChainExists == \E f : IsChain(f)
<1> DEFINE Closed(S) == \A y \in S \ {Genesis} : Parent[y] \in S
           Up(b) == {x \in Block : \A S \in SUBSET Block : b \in S /\ Closed(S) => x \in S}
           f == [b \in Block |-> Up(b)]
<1>1. ASSUME NEW b \in Block PROVE b \in Up(b) /\ Closed(Up(b)) /\ Up(b) \in SUBSET Block
  BY TreeAssumption
<1>2. ASSUME NEW b \in Block, NEW S \in SUBSET Block, b \in S, Closed(S) PROVE Up(b) \subseteq S
  BY <1>2
<1>3. ASSUME NEW b \in Block \ {Genesis} PROVE Up(b) = {b} \cup Up(Parent[b])
  <2>1. Parent[b] \in Block
    BY TreeAssumption
  <2>2. Parent[b] \in Up(b) /\ Closed(Up(b)) /\ b \in Up(b) /\ Up(b) \in SUBSET Block
    BY <1>1
  <2>3. Up(Parent[b]) \subseteq Up(b)
    <3> HIDE DEF Up, Closed
    <3> QED BY <2>1, <2>2, <1>2
  <2>4. /\ {b} \cup Up(Parent[b]) \in SUBSET Block /\ Closed({b} \cup Up(Parent[b]))
        /\ b \in {b} \cup Up(Parent[b])
    <3> HIDE DEF Up
    <3> QED BY <2>1, <1>1
  <2>5. Up(b) \subseteq {b} \cup Up(Parent[b])
    <3> HIDE DEF Up, Closed
    <3> QED BY <2>4, <1>2
  <2> HIDE DEF Up, Closed
  <2> QED BY <2>2, <2>3, <2>5
<1>4. Up(Genesis) = {Genesis}
  <2>1. {Genesis} \in SUBSET Block /\ Closed({Genesis})
    BY TreeAssumption
  <2>2. Up(Genesis) \subseteq {Genesis} /\ Genesis \in Up(Genesis)
    <3> HIDE DEF Up, Closed
    <3> QED BY <2>1, <1>1, <1>2, TreeAssumption
  <2> QED BY <2>2
<1> HIDE DEF Up, Closed
<1>5. \A b \in Block \ {Genesis} : Parent[b] \in Block
  BY TreeAssumption
<1>6. \A b \in Block : f[b] = {b} \cup (IF b = Genesis THEN {} ELSE f[Parent[b]])
  BY <1>3, <1>4, <1>5
<1>7. f = [b \in Block |-> {b} \cup (IF b = Genesis THEN {} ELSE f[Parent[b]])]
  BY <1>6
<1> QED BY <1>7 DEF IsChain

\* Chain solves its equation.
LEMMA ChainEquation == IsChain(Chain)
<1>1. Chain = CHOOSE f : IsChain(f)
  BY DEF Chain, IsChain
<1> QED BY <1>1, ChainExists

\* The chain of a block: the block and the chain of its parent.
LEMMA ChainIs ==
  ASSUME NEW b \in Block
  PROVE  /\ b = Genesis => Chain[b] = {b}
         /\ b # Genesis => Parent[b] \in Block /\ Chain[b] = {b} \cup Chain[Parent[b]]
<1>1. Chain[b] = {b} \cup (IF b = Genesis THEN {} ELSE Chain[Parent[b]])
  BY ChainEquation DEF IsChain
<1> QED BY <1>1, TreeAssumption

\* A chain is a finite set of blocks, the block among them.
LEMMA ChainBlocks ==
  ASSUME NEW b \in Block
  PROVE  b \in Chain[b] /\ Chain[b] \in SUBSET Block /\ IsFiniteSet(Chain[b])
<1> DEFINE S == {x \in Block : Chain[x] \in SUBSET Block /\ IsFiniteSet(Chain[x])}
<1>1. Genesis \in S
  <2>1. Chain[Genesis] = {} \cup {Genesis} /\ Genesis \in Block
    BY TreeAssumption, ChainIs
  <2>2. IsFiniteSet({} \cup {Genesis})
    BY FS_EmptySet, FS_AddElement
  <2> QED BY <2>1, <2>2
<1>2. ASSUME NEW x \in Block \ {Genesis}, Parent[x] \in S PROVE x \in S
  <2>1. Chain[x] = Chain[Parent[x]] \cup {x}
    BY ChainIs
  <2> QED BY <1>2, <2>1, FS_AddElement
<1>3. Block \subseteq S
  <2> HIDE DEF S
  <2> QED BY <1>1, <1>2, TreeInduction
<1> QED BY <1>3, ChainIs

\* The chain of an ancestor is a part of the chain.
LEMMA ChainNested ==
  ASSUME NEW b \in Block, NEW x \in Chain[b]
  PROVE  x \in Block /\ Chain[x] \subseteq Chain[b]
<1> DEFINE S == {y \in Block : \A z \in Chain[y] : Chain[z] \subseteq Chain[y]}
<1>1. Genesis \in S
  BY TreeAssumption, ChainIs
<1>2. ASSUME NEW y \in Block \ {Genesis}, Parent[y] \in S PROVE y \in S
  BY <1>2, ChainIs
<1>3. Block \subseteq S
  <2> HIDE DEF S
  <2> QED BY <1>1, <1>2, TreeInduction
<1> QED BY <1>3, ChainBlocks

\* Two blocks are not ancestors of each other.
LEMMA ChainAntisymmetric ==
  ASSUME NEW b \in Block, NEW x \in Chain[b], b \in Chain[x]
  PROVE  x = b
<1> DEFINE S == {y \in Block : \A z \in Chain[y] : y \in Chain[z] => z = y}
<1>1. Genesis \in S
  BY TreeAssumption, ChainIs
<1>2. ASSUME NEW y \in Block \ {Genesis}, Parent[y] \in S PROVE y \in S
  <2> SUFFICES ASSUME NEW z \in Chain[y], y \in Chain[z], z # y PROVE FALSE
    OBVIOUS
  <2>1. Parent[y] \in Block /\ z \in Chain[Parent[y]] /\ z \in Block
    BY ChainIs, ChainNested
  <2>2. Parent[y] \in Chain[y] /\ Parent[y] \in Chain[Parent[y]]
    BY <2>1, ChainIs, ChainBlocks
  <2>3. Parent[y] \in Chain[z] /\ y \in Chain[Parent[y]]
    BY <2>1, <2>2, ChainNested
  <2>4. y = Parent[y]
    BY <1>2, <2>2, <2>3
  <2>5. {y} \in SUBSET (Block \ {Genesis}) /\ {y} # {}
    OBVIOUS
  <2>6. \E v \in {y} : Parent[v] \notin {y}
    BY <2>5, TreeAssumption
  <2> QED BY <2>4, <2>6
<1>3. Block \subseteq S
  <2> HIDE DEF S
  <2> QED BY <1>1, <1>2, TreeInduction
<1> QED BY <1>3

\* A block is not among the ancestors of its parent.
LEMMA NotBelowParent ==
  ASSUME NEW b \in Block \ {Genesis}
  PROVE  b \notin Chain[Parent[b]]
<1> SUFFICES ASSUME b \in Chain[Parent[b]] PROVE FALSE
  OBVIOUS
<1>1. Parent[b] \in Block /\ Parent[b] \in Chain[b]
  BY ChainIs, ChainBlocks
<1>2. b = Parent[b]
  BY <1>1, ChainAntisymmetric
<1>3. {b} \in SUBSET (Block \ {Genesis}) /\ {b} # {}
  OBVIOUS
<1>4. \E v \in {b} : Parent[v] \notin {b}
  BY <1>3, TreeAssumption
<1> QED BY <1>2, <1>4

\* Of two blocks of a chain one is an ancestor of the other.
LEMMA ChainTotal ==
  ASSUME NEW b \in Block, NEW x \in Chain[b], NEW y \in Chain[b]
  PROVE  x \in Chain[y] \/ y \in Chain[x]
<1> DEFINE S == {v \in Block : \A p, q \in Chain[v] : p \in Chain[q] \/ q \in Chain[p]}
<1>1. Genesis \in S
  BY TreeAssumption, ChainIs
<1>2. ASSUME NEW v \in Block \ {Genesis}, Parent[v] \in S PROVE v \in S
  BY <1>2, ChainIs
<1>3. Block \subseteq S
  <2> HIDE DEF S
  <2> QED BY <1>1, <1>2, TreeInduction
<1> QED BY <1>3

\* Numbers grow along a chain.
LEMMA NumberGrows ==
  ASSUME NEW b \in Block, NEW x \in Chain[b], x # b
  PROVE  Number(x) \in Nat /\ Number(b) \in Nat /\ Number(x) < Number(b)
<1>1. x \in Block /\ Chain[x] \in SUBSET Chain[b] /\ b \notin Chain[x] /\ b \in Chain[b] /\ x \in Chain[x]
  BY ChainNested, ChainAntisymmetric, ChainBlocks
<1>2. IsFiniteSet(Chain[b]) /\ IsFiniteSet(Chain[x])
  BY <1>1, ChainBlocks
<1>3. Cardinality(Chain[x]) <= Cardinality(Chain[b]) /\ Cardinality(Chain[x]) # Cardinality(Chain[b])
  BY <1>1, <1>2, FS_Subset
<1>4. Cardinality(Chain[x]) \in Nat /\ Cardinality(Chain[b]) \in Nat
  BY <1>2, FS_CardinalityType
<1>5. Cardinality(Chain[x]) # 0
  BY <1>1, <1>2, FS_EmptySet
<1> QED BY <1>3, <1>4, <1>5 DEF Number

\* A number is a natural number.
LEMMA NumberType ==
  ASSUME NEW b \in Block
  PROVE  Number(b) \in Nat
<1>1. IsFiniteSet(Chain[b]) /\ Chain[b] # {}
  BY ChainBlocks
<1>2. Cardinality(Chain[b]) \in Nat /\ Cardinality(Chain[b]) # 0
  BY <1>1, FS_CardinalityType, FS_EmptySet
<1> QED BY <1>2 DEF Number
-----------------------------------------------------------------------------
(* Values *)

\* The blocks of the chain of b that wrote the key.
Writers(b, key) == {w \in Chain[b] : key \in writes[w]}

\* Blocks with the same writers of a key have the same value of it.
LEMMA SameValue ==
  ASSUME NEW b, NEW c, NEW key, Writers(b, key) = Writers(c, key)
  PROVE  ValueAt(b, key) = ValueAt(c, key)
BY DEF ValueAt, Writers

\* The value that a block writes is its value.
LEMMA OwnValue ==
  ASSUME NEW b \in Block, NEW key \in writes[b]
  PROVE  ValueAt(b, key) = b
<1> DEFINE W == Writers(b, key)
<1>1. b \in W /\ W \subseteq Chain[b]
  BY ChainBlocks DEF Writers
<1>2. \A w \in W : W \subseteq Chain[w] => w = b
  BY <1>1, ChainAntisymmetric
<1>3. ValueAt(b, key) = CHOOSE w \in W : W \subseteq Chain[w]
  BY DEF ValueAt, Writers
<1> HIDE DEF W
<1> QED BY <1>1, <1>2, <1>3

\* The value of a key that no block of one chain wrote that is not on the other.
LEMMA ValueAcross ==
  ASSUME NEW b, NEW c, NEW key,
         \A x \in Chain[b] \ Chain[c] : key \notin writes[x],
         \A x \in Chain[c] \ Chain[b] : key \notin writes[x]
  PROVE  ValueAt(b, key) = ValueAt(c, key)
<1>1. Writers(b, key) = Writers(c, key)
  BY DEF Writers
<1> QED BY <1>1, SameValue

-----------------------------------------------------------------------------
(* Induction over numbers *)

\* A nonempty set of natural numbers has a least element.
LEMMA LeastNumber ==
  ASSUME NEW T \in SUBSET Nat, T # {}
  PROVE  \E x \in T : \A y \in T : x <= y
<1> DEFINE upto(n) == {i \in Nat : i <= n}
           U == {upto(n) : n \in T}
           R == StrictSubsetOrdering(Nat)
<1>1. U \subseteq FiniteSubsetsOf(Nat)
  <2> SUFFICES ASSUME NEW n \in T PROVE upto(n) \in FiniteSubsetsOf(Nat)
    OBVIOUS
  <2>1. IsFiniteSet(upto(n))
    BY FS_BoundedSetOfNaturals
  <2> QED BY <2>1 DEF FiniteSubsetsOf
<1>2. U # {}
  OBVIOUS
<1>3. PICK u \in U : \A w \in U : ~(<<w, u>> \in R)
  <2> HIDE DEF U
  <2> QED BY <1>1, <1>2, WFMin, FS_StrictSubsetOrderingWellFounded
<1>4. PICK x \in T : u = upto(x)
  OBVIOUS
<1>5. ASSUME NEW y \in T, y < x PROVE FALSE
  <2>1. upto(y) \in U
    OBVIOUS
  <2>2. upto(y) \subseteq upto(x) /\ upto(y) # upto(x)
    <3>1. x \in upto(x) /\ x \notin upto(y)
      BY <1>5
    <3> QED BY <3>1, <1>5
  <2>3. <<upto(y), upto(x)>> \in R
    BY <2>2 DEF StrictSubsetOrdering
  <2> QED BY <2>1, <2>3, <1>3, <1>4
<1> QED BY <1>5

\* Min gives the least element.
LEMMA MinIsLeast ==
  ASSUME NEW T \in SUBSET Nat, T # {}
  PROVE  Min(T) \in T /\ \A y \in T : Min(T) <= y
BY LeastNumber DEF Min

\* A set that holds a number, and the successor of each of its numbers below the
\* bound n, holds all numbers up to n.
LEMMA UpTo ==
  ASSUME NEW m \in Nat, NEW n \in Nat, NEW S, m \in S, \A i \in m .. n - 1 : i \in S => i + 1 \in S
  PROVE  \A i \in m .. n : i \in S
<1> DEFINE T == {i \in m .. n : i \notin S}
<1> SUFFICES ASSUME T # {} PROVE FALSE
  OBVIOUS
<1>1. T \in SUBSET Nat
  OBVIOUS
<1>2. PICK x \in T : \A y \in T : x <= y
  <2> HIDE DEF T
  <2> QED BY <1>1, LeastNumber
<1>3. x \in m .. n /\ x # m
  OBVIOUS
<1>4. x - 1 \in m .. n - 1 /\ (x - 1) + 1 = x /\ x - 1 < x
  BY <1>3
<1>5. x - 1 \notin T
  BY <1>2, <1>4
<1>6. x - 1 \in S
  BY <1>4, <1>5
<1> QED BY <1>4, <1>6

-----------------------------------------------------------------------------
(* The walk *)

\* A step of the walk.
Visit(m, parent) == IF m.hash = parent THEN m.parent ELSE parent

\* The equation of the walk along modifications, as far as n of them.
IsWalk(f, modifications, b, n) ==
  f = [i \in 0 .. n |-> IF i = 0 THEN b ELSE Visit(modifications[i], f[i - 1])]

\* It has a solution of every length.
LEMMA WalkExists ==
  ASSUME NEW modifications, NEW b, NEW n \in Nat
  PROVE  \E f : IsWalk(f, modifications, b, n)
<1> DEFINE S == {i \in Nat : \E f : IsWalk(f, modifications, b, i)}
<1>1. 0 \in S
  <2> DEFINE f == [i \in 0 .. 0 |-> b]
  <2>1. f = [i \in 0 .. 0 |-> IF i = 0 THEN b ELSE Visit(modifications[i], f[i - 1])]
    OBVIOUS
  <2> QED BY <2>1 DEF IsWalk
<1>2. ASSUME NEW i \in 0 .. n - 1, i \in S PROVE i + 1 \in S
  <2>1. PICK f : IsWalk(f, modifications, b, i)
    BY <1>2
  <2> DEFINE h == [j \in 0 .. i + 1 |-> IF j = i + 1 THEN Visit(modifications[j], f[i]) ELSE f[j]]
  <2>2. ASSUME NEW j \in 0 .. i + 1
        PROVE  h[j] = IF j = 0 THEN b ELSE Visit(modifications[j], h[j - 1])
    <3>1. CASE j = i + 1
      <4>1. j - 1 = i /\ i \in 0 .. i + 1 /\ i # i + 1 /\ j # 0
        BY <3>1
      <4>2. h[i] = f[i] /\ h[j] = Visit(modifications[j], f[i])
        BY <3>1, <4>1
      <4> HIDE DEF h
      <4> QED BY <4>1, <4>2
    <3>2. CASE j # i + 1
      <4>1. j \in 0 .. i /\ h[j] = f[j]
        BY <3>2
      <4>2. f[j] = IF j = 0 THEN b ELSE Visit(modifications[j], f[j - 1])
        BY <4>1, <2>1 DEF IsWalk
      <4>3. j # 0 => h[j - 1] = f[j - 1]
        BY <4>1
      <4> HIDE DEF h
      <4> QED BY <4>1, <4>2, <4>3
    <3> QED BY <3>1, <3>2
  <2>3. h = [j \in 0 .. i + 1 |-> IF j = 0 THEN b ELSE Visit(modifications[j], h[j - 1])]
    BY <2>2
  <2> HIDE DEF h
  <2> QED BY <2>3 DEF IsWalk
<1>3. \A i \in 0 .. n : i \in S
  <2> HIDE DEF S
  <2> QED BY <1>1, <1>2, UpTo
<1> QED BY <1>3

\* The steps of the walk.
LEMMA WalkIs ==
  ASSUME NEW modifications, Len(modifications) \in Nat, NEW b
  PROVE  /\ Walk(modifications, b)[0] = b
         /\ \A i \in 1 .. Len(modifications) :
              Walk(modifications, b)[i] = Visit(modifications[i], Walk(modifications, b)[i - 1])
<1> DEFINE f == Walk(modifications, b)
           n == Len(modifications)
<1>1. f = CHOOSE h : IsWalk(h, modifications, b, n)
  BY DEF Walk, IsWalk, Visit
<1>2. IsWalk(f, modifications, b, n)
  <2>1. \E h : IsWalk(h, modifications, b, n)
    BY WalkExists
  <2> QED BY <1>1, <2>1
<1> HIDE DEF f
<1>3. f[0] = b /\ \A i \in 1 .. n : f[i] = Visit(modifications[i], f[i - 1])
  BY <1>2 DEF IsWalk
<1> QED BY <1>3 DEF f
-----------------------------------------------------------------------------
(* The invariant of the cache *)

Mods ==
  [number : Nat, hash : Block \ {Genesis}, parent : Block, storage : SUBSET Key, is_canon : BOOLEAN]

\* Every entry says of its block what is so; the highest numbers come first.
Truthful(modifications) ==
  /\ modifications \in Seq(Mods)
  /\ \A i \in 1 .. Len(modifications) :
       LET m == modifications[i] IN
       m.number = Number(m.hash) /\ m.parent = Parent[m.hash] /\ m.storage = writes[m.hash]
Sorted(modifications) ==
  \A i, j \in 1 .. Len(modifications) : i <= j => modifications[j].number <= modifications[i].number

\* The entry that `find` returns for its block.
IsFirst(modifications, i) ==
  \A j \in 1 .. Len(modifications) : j < i => modifications[j].hash # modifications[i].hash
Has(modifications, x) == \E i \in 1 .. Len(modifications) : modifications[i].hash = x

\* The block h is on the chain of the best block, and those above it are listed.
Above(modifications, h, b) == h \in Chain[b] /\ \A x \in Chain[b] \ Chain[h] : Has(modifications, x)

\* So it is of every block but those of X that counts as canonical.
Canonical(modifications, b, X) ==
  \A i \in 1 .. Len(modifications) :
    IsFirst(modifications, i) /\ modifications[i].is_canon
      => modifications[i].hash \in X \/ Above(modifications, modifications[i].hash, b)

ListOk(modifications, b, X) ==
  Truthful(modifications) /\ Sorted(modifications) /\ Canonical(modifications, b, X)

\* The values are those at block b.
ValuesOk(map, b) ==
  DOMAIN map = Key /\ \A key \in Key : map[key] # None => map[key] = ValueAt(b, key)

CacheFields == {"lru_storage", "lru_hashes", "modifications"}
CacheOk(c, b, X) ==
  /\ DOMAIN c = CacheFields
  /\ ValuesOk(c.lru_storage, b)
  /\ ListOk(c.modifications, b, X)

\* The entries of a list.
LEMMA ListIs ==
  ASSUME NEW modifications, Truthful(modifications)
  PROVE  /\ Len(modifications) \in Nat /\ DOMAIN modifications = 1 .. Len(modifications)
         /\ \A i \in 1 .. Len(modifications) :
              /\ modifications[i] \in Mods
              /\ modifications[i].hash \in Block /\ modifications[i].hash # Genesis
              /\ modifications[i].number = Number(modifications[i].hash)
              /\ modifications[i].parent = Parent[modifications[i].hash]
              /\ modifications[i].storage = writes[modifications[i].hash]
<1>1. modifications \in Seq(Mods)
  BY DEF Truthful
<1>2. \A i \in 1 .. Len(modifications) : modifications[i] \in Mods
  BY <1>1
<1>3. \A i \in 1 .. Len(modifications) : modifications[i].hash \in Block \ {Genesis}
  BY <1>2 DEF Mods
<1> QED BY <1>1, <1>2, <1>3 DEF Truthful

\* From the entry j to the entry l the walk runs down the chain, and every block
\* it leaves behind is an entry that it has met.
Descends(modifications, at, j, l) ==
  /\ at[l] \in Chain[at[j]] /\ at[l] \in Block
  /\ \A x \in Chain[at[j]] \ Chain[at[l]] : \E i \in j + 1 .. l : modifications[i].hash = x

\* The walk from a block runs down its chain.
LEMMA WalkDown ==
  ASSUME NEW modifications, Truthful(modifications), NEW b \in Block, NEW at, at = Walk(modifications, b),
         NEW j \in 0 .. Len(modifications), at[j] \in Block
  PROVE  \A l \in j .. Len(modifications) : Descends(modifications, at, j, l)
<1> DEFINE n == Len(modifications)
           Left(l, x) == \E i \in j + 1 .. l : modifications[i].hash = x
           S == {l \in Nat : /\ at[l] \in Chain[at[j]] /\ at[l] \in Block
                             /\ \A x \in Chain[at[j]] \ Chain[at[l]] : Left(l, x)}
<1>1. n \in Nat /\ j \in Nat /\ j <= n
  BY ListIs
<1>2. j \in S
  BY <1>1, ChainBlocks
<1>3. ASSUME NEW l \in j .. n - 1, l \in S PROVE l + 1 \in S
  <2>1. l \in Nat /\ l + 1 \in 1 .. n /\ l + 1 \in j + 1 .. l + 1 /\ (l + 1) - 1 = l /\ l + 1 \in Nat
    BY <1>1
  <2>2. at[l + 1] = Visit(modifications[l + 1], at[l])
    BY <1>1, <2>1, WalkIs
  <2>3. at[l] \in Chain[at[j]] /\ at[l] \in Block /\ \A x \in Chain[at[j]] \ Chain[at[l]] : Left(l, x)
    BY <1>3
  <2>4. \A x : Left(l, x) => Left(l + 1, x)
    <3>1. j + 1 .. l \subseteq j + 1 .. l + 1
      BY <1>1, <2>1
    <3> QED BY <3>1
  <2>5. CASE modifications[l + 1].hash # at[l]
    <3>1. at[l + 1] = at[l]
      BY <2>2, <2>5 DEF Visit
    <3> HIDE DEF Left
    <3> QED BY <2>1, <2>3, <2>4, <3>1
  <2>6. CASE modifications[l + 1].hash = at[l]
    <3>1. at[l] # Genesis /\ at[l + 1] = Parent[at[l]]
      BY <2>1, <2>2, <2>6, ListIs DEF Visit
    <3>2. at[l + 1] \in Block /\ Chain[at[l]] = {at[l]} \cup Chain[at[l + 1]]
      BY <2>3, <3>1, ChainIs
    <3>3. at[l + 1] \in Chain[at[l]] /\ Chain[at[l]] \subseteq Chain[at[j]]
      BY <2>3, <3>2, ChainBlocks, ChainNested
    <3>4. Left(l + 1, at[l])
      BY <2>1, <2>6
    <3> HIDE DEF Left
    <3> QED BY <2>1, <2>3, <2>4, <3>2, <3>3, <3>4
  <2> QED BY <2>5, <2>6
<1>4. \A l \in j .. n : l \in S
  <2> HIDE DEF S
  <2> QED BY <1>1, <1>2, <1>3, UpTo
<1> QED BY <1>4 DEF Descends
\* Of two listed blocks the one with the higher number comes first.
LEMMA HigherFirst ==
  ASSUME NEW modifications, Truthful(modifications), Sorted(modifications),
         NEW i \in 1 .. Len(modifications), NEW j \in 1 .. Len(modifications),
         Number(modifications[i].hash) < Number(modifications[j].hash)
  PROVE  j < i
<1>1. /\ modifications[i].number = Number(modifications[i].hash)
      /\ modifications[j].number = Number(modifications[j].hash)
      /\ modifications[i].hash \in Block /\ modifications[j].hash \in Block /\ Len(modifications) \in Nat
  BY ListIs
<1>2. modifications[i].number \in Nat /\ modifications[j].number \in Nat
  BY <1>1, NumberType
<1>3. i \in Nat /\ j \in Nat
  BY <1>1
<1>4. CASE i <= j
  <2>1. modifications[j].number <= modifications[i].number
    BY <1>4 DEF Sorted
  <2> QED BY <1>1, <1>2, <2>1
<1> QED BY <1>3, <1>4

\* A block of the chain of b that is not on that of h, a block of the chain of b,
\* is above h.
LEMMA AboveIt ==
  ASSUME NEW b \in Block, NEW h \in Chain[b], NEW x \in Chain[b] \ Chain[h]
  PROVE  x \in Block /\ h \in Block /\ Number(h) < Number(x)
<1>1. x \in Block /\ h \in Block /\ h \in Chain[h]
  BY ChainBlocks
<1>2. h \in Chain[x] /\ h # x
  BY <1>1, ChainTotal
<1> QED BY <1>1, <1>2, NumberGrows

\* The entry at which the walk ends is the first one of its block.
LEMMA WalkMeetsFirst ==
  ASSUME NEW modifications, Truthful(modifications), Sorted(modifications), NEW b \in Block,
         NEW at, at = Walk(modifications, b), NEW i \in 1 .. Len(modifications), modifications[i].hash = at[i - 1]
  PROVE  IsFirst(modifications, i)
<1> DEFINE h == at[i - 1]
           n == Len(modifications)
<1> SUFFICES ASSUME NEW j \in 1 .. n, j < i, modifications[j].hash = h PROVE FALSE
  BY DEF IsFirst
<1>1. /\ n \in Nat /\ i \in Nat /\ j \in Nat /\ i - 1 \in 0 .. n /\ j - 1 \in 0 .. n /\ j \in 0 .. n
      /\ i - 1 \in j - 1 .. n /\ i - 1 \in j .. n /\ 0 \in 0 .. n /\ j - 1 \in 0 .. n /\ j \in 0 .. n
  BY ListIs
<1>2. at[0] = b /\ at[j] = Visit(modifications[j], at[j - 1])
  BY <1>1, WalkIs
<1>3. at[j - 1] \in Block /\ at[j] \in Block /\ h \in Block
  <2>1. \A k \in 0 .. n : Descends(modifications, at, 0, k)
    BY <1>1, <1>2, WalkDown
  <2> QED BY <1>1, <2>1 DEF Descends
<1>4. /\ h \in Chain[at[j]]
      /\ \A x \in Chain[at[j]] \ Chain[h] : \E l \in j + 1 .. i - 1 : modifications[l].hash = x
  <2>1. \A k \in j .. n : Descends(modifications, at, j, k)
    BY <1>1, <1>3, WalkDown
  <2>2. Descends(modifications, at, j, i - 1)
    BY <1>1, <2>1
  <2> QED BY <2>2 DEF Descends
<1>5. CASE at[j - 1] = h
  <2>1. at[j] = Parent[h] /\ h # Genesis
    BY <1>2, <1>5, ListIs DEF Visit
  <2> QED BY <1>3, <1>4, <2>1, NotBelowParent
<1>6. CASE at[j - 1] # h
  <2>1. at[j] = at[j - 1]
    BY <1>2, <1>6 DEF Visit
  <2>2. at[j] \in Chain[at[j]] \ Chain[h]
    BY <1>3, <1>4, <1>6, <2>1, ChainBlocks, ChainAntisymmetric
  <2>3. PICK l \in j + 1 .. i - 1 : modifications[l].hash = at[j]
    BY <1>4, <2>2
  <2>4. l \in 1 .. n /\ j < l
    BY <1>1
  <2>5. Number(h) < Number(at[j])
    BY <1>3, <1>4, <2>2, AboveIt
  <2>6. l < j
    BY <2>3, <2>4, <2>5, HigherFirst
  <2> QED BY <1>1, <2>4, <2>6
<1> QED BY <1>5, <1>6

\* is_allowed on a list, with the entry where the walk ends.
Hit(modifications, key, b, i) ==
  /\ modifications[i].hash = Walk(modifications, b)[i - 1] /\ modifications[i].is_canon
  /\ \A j \in 1 .. i - 1 : key \notin modifications[j].storage

\* Where the walk ends, the key has the value that it has at the best block.
LEMMA HitValue ==
  ASSUME NEW modifications, NEW best_hash \in Block, ListOk(modifications, best_hash, {}), NEW b \in Block, NEW key,
         NEW i \in 1 .. Len(modifications), Hit(modifications, key, b, i)
  PROVE  ValueAt(b, key) = ValueAt(best_hash, key)
<1> DEFINE at == Walk(modifications, b)
           h == at[i - 1]
           n == Len(modifications)
<1>1. Truthful(modifications) /\ Sorted(modifications) /\ Canonical(modifications, best_hash, {})
  BY DEF ListOk
<1>2. modifications[i].hash = h /\ modifications[i].is_canon /\ \A j \in 1 .. i - 1 : key \notin modifications[j].storage
  BY DEF Hit
<1>3. IsFirst(modifications, i)
  BY <1>1, <1>2, WalkMeetsFirst
<1>4. h \in Chain[best_hash] /\ \A x \in Chain[best_hash] \ Chain[h] : Has(modifications, x)
  BY <1>1, <1>2, <1>3 DEF Canonical, Above
<1>5. n \in Nat /\ i - 1 \in 0 .. n /\ 0 \in 0 .. n
  BY <1>1, ListIs
<1>6. at[0] = b
  BY <1>5, WalkIs
<1>7. /\ h \in Chain[b] /\ h \in Block
      /\ \A x \in Chain[b] \ Chain[h] : \E j \in 0 + 1 .. i - 1 : modifications[j].hash = x
  <2>1. \A k \in 0 .. n : Descends(modifications, at, 0, k)
    BY <1>1, <1>5, <1>6, WalkDown
  <2>2. Descends(modifications, at, 0, i - 1)
    BY <1>5, <2>1
  <2> QED BY <1>6, <2>2 DEF Descends
<1>8. \A j \in 1 .. i - 1 : key \notin writes[modifications[j].hash]
  <2>1. \A j \in 1 .. i - 1 : j \in 1 .. n
    BY <1>5
  <2> QED BY <1>1, <1>2, <2>1, ListIs
<1>9. \A x \in Chain[b] \ Chain[h] : key \notin writes[x]
  BY <1>7, <1>8
<1>10. ASSUME NEW x \in Chain[best_hash] \ Chain[h] PROVE key \notin writes[x]
  <2>1. PICK j \in 1 .. n : modifications[j].hash = x
    BY <1>4 DEF Has
  <2>2. Number(h) < Number(x)
    BY <1>4, AboveIt
  <2>3. j < i
    BY <1>1, <1>2, <2>1, <2>2, HigherFirst
  <2>4. j \in 1 .. i - 1
    BY <1>5, <2>3
  <2> QED BY <1>8, <2>1, <2>4
<1>11. Chain[h] \subseteq Chain[b] /\ Chain[h] \subseteq Chain[best_hash]
  BY <1>4, <1>7, ChainNested
<1> HIDE DEF h
<1>12. ValueAt(b, key) = ValueAt(h, key)
  BY <1>9, <1>11, ValueAcross
<1>13. ValueAt(best_hash, key) = ValueAt(h, key)
  BY <1>10, <1>11, ValueAcross
<1> QED BY <1>12, <1>13

\* What a state may take from a cache in order is what its database holds.
LEMMA AllowedValue ==
  ASSUME NEW best_hash \in Block, CacheOk(cache, best_hash, {}), NEW b \in Block, NEW key \in Key,
         is_allowed(key, b), cache.lru_storage[key] # None
  PROVE  cache.lru_storage[key] = ValueAt(b, key)
<1> DEFINE ms == cache.modifications
<1>1. ListOk(ms, best_hash, {}) /\ ValuesOk(cache.lru_storage, best_hash)
  BY DEF CacheOk
<1>2. DOMAIN ms = 1 .. Len(ms)
  BY <1>1, ListIs DEF ListOk
<1>3. PICK i \in DOMAIN ms : Hit(ms, key, b, i)
  BY DEF is_allowed, Hit
<1> HIDE DEF ms
<1>4. ValueAt(b, key) = ValueAt(best_hash, key)
  BY <1>1, <1>2, <1>3, HitValue
<1> QED BY <1>1, <1>4 DEF ValuesOk
-----------------------------------------------------------------------------
(* sync *)

\* `find` gives the first entry of the block, if there is one.
LEMMA EntryIs ==
  ASSUME NEW modifications, Truthful(modifications), NEW b
  PROVE  IF Has(modifications, b)
         THEN /\ Entry(modifications, b) \in 1 .. Len(modifications)
              /\ modifications[Entry(modifications, b)].hash = b
              /\ IsFirst(modifications, Entry(modifications, b))
         ELSE Entry(modifications, b) = 0
<1> DEFINE n == Len(modifications)
           I == {i \in 1 .. n : modifications[i].hash = b}
<1>1. n \in Nat
  BY ListIs
<1>2. Entry(modifications, b) = IF I # {} THEN Min(I) ELSE 0
  BY DEF Entry, SelectInSeq
<1>3. CASE I # {}
  <2>1. I \in SUBSET Nat
    BY <1>1
  <2>2. Min(I) \in I /\ \A j \in I : Min(I) <= j
    <3> HIDE DEF I
    <3> QED BY <1>3, <2>1, MinIsLeast
  <2>3. \A j \in 1 .. n : j < Min(I) => j \notin I
    BY <1>1, <2>1, <2>2
  <2> QED BY <1>2, <1>3, <2>2, <2>3 DEF Has, IsFirst
<1>4. CASE I = {}
  BY <1>2, <1>4 DEF Has
<1> QED BY <1>3, <1>4

\* An entry is the only first one of its block.
LEMMA FirstIsEntry ==
  ASSUME NEW modifications, Truthful(modifications), NEW i \in 1 .. Len(modifications), IsFirst(modifications, i)
  PROVE  i = Entry(modifications, modifications[i].hash)
<1> DEFINE e == Entry(modifications, modifications[i].hash)
<1>1. Has(modifications, modifications[i].hash)
  BY DEF Has
<1>2. e \in 1 .. Len(modifications) /\ modifications[e].hash = modifications[i].hash /\ IsFirst(modifications, e)
  BY <1>1, EntryIs
<1>3. e \in Nat /\ i \in Nat
  BY <1>2, ListIs
<1> HIDE DEF e
<1>4. ~(e < i) /\ ~(i < e)
  BY <1>2 DEF IsFirst
<1>5. e = i
  BY <1>3, <1>4
<1> QED BY <1>5 DEF e

\* The entries s are those of t but for is_canon.
Alike(s, t) ==
  /\ Len(s) = Len(t) /\ s \in Seq(Mods)
  /\ \A i \in 1 .. Len(t) :
       s[i].hash = t[i].hash /\ s[i].number = t[i].number /\ s[i].parent = t[i].parent /\ s[i].storage = t[i].storage

\* The keys that a set of blocks has written.
Written(B) == {key \in Key : \E x \in B : key \in writes[x]}

\* A list in which the first entries of the blocks of B are canonical unless
\* they are in r.
Marks(s, t, B, r) ==
  \A i \in 1 .. Len(t) :
    IsFirst(t, i) => s[i].is_canon = IF t[i].hash \in B THEN t[i].hash \notin r ELSE t[i].is_canon

\* A sync that wipes nothing.
Synced(d, c, B, r) ==
  /\ DOMAIN d = CacheFields /\ Alike(d.modifications, c.modifications)
  /\ \A x \in B : Has(c.modifications, x)
  /\ d.lru_storage = Without(c.lru_storage, Written(B))
  /\ Marks(d.modifications, c.modifications, B, r)

\* sync wipes the cache, or marks the blocks and forgets what they wrote.
LEMMA SyncIs ==
  ASSUME NEW c, DOMAIN c = CacheFields, Truthful(c.modifications), DOMAIN c.lru_storage = Key, NEW e, NEW r
  PROVE  sync(c, e, r) = new_shared_cache \/ Synced(sync(c, e, r), c, e \cup r, r)
<1> DEFINE ms == c.modifications
           n == Len(ms)
           B == e \cup r
           found == {Entry(ms, b) : b \in B}
           list == [i \in DOMAIN ms |-> IF i \in found THEN [ms[i] EXCEPT !.is_canon = ms[i].hash \notin r] ELSE ms[i]]
           d == [c EXCEPT !.lru_storage = Without(c.lru_storage, UNION {ms[i].storage : i \in found}),
                          !.modifications = list]
<1>1. sync(c, e, r) = IF 0 \in found THEN new_shared_cache ELSE d
  BY DEF sync, CacheFields
<1>2. CASE 0 \in found
  BY <1>1, <1>2
<1>3. CASE 0 \notin found
  <2>1. \A b \in B : Has(ms, b)
    BY <1>3, EntryIs
  <2>2. \A b \in B : Entry(ms, b) \in 1 .. n /\ ms[Entry(ms, b)].hash = b /\ IsFirst(ms, Entry(ms, b))
    BY <2>1, EntryIs
  <2>3. n \in Nat /\ DOMAIN ms = 1 .. n
    BY ListIs
  <2>4. ASSUME NEW i \in 1 .. n PROVE i \in found <=> IsFirst(ms, i) /\ ms[i].hash \in B
    BY <2>2, <2>4, FirstIsEntry
  <2>5. ASSUME NEW key \in Key
        PROVE  key \in UNION {ms[i].storage : i \in found} <=> key \in Written(B)
    <3>1. \A i \in found : ms[i].hash \in B /\ ms[i].storage = writes[ms[i].hash]
      BY <2>2, ListIs
    <3>2. \A x \in B : \E i \in found : ms[i].storage = writes[x]
      BY <2>2, ListIs
    <3>3. key \in UNION {ms[i].storage : i \in found} <=> \E i \in found : key \in ms[i].storage
      OBVIOUS
    <3>4. key \in Written(B) <=> \E x \in B : key \in writes[x]
      BY DEF Written
    <3> HIDE DEF found, B, ms
    <3> QED BY <3>1, <3>2, <3>3, <3>4
  <2>6. ASSUME NEW i \in 1 .. n
        PROVE  /\ list[i] \in Mods
               /\ list[i].hash = ms[i].hash /\ list[i].number = ms[i].number
               /\ list[i].parent = ms[i].parent /\ list[i].storage = ms[i].storage
               /\ list[i].is_canon = IF i \in found THEN ms[i].hash \notin r ELSE ms[i].is_canon
    <3>1. ms[i] \in Mods
      BY ListIs
    <3>2. list[i] = IF i \in found THEN [ms[i] EXCEPT !.is_canon = ms[i].hash \notin r] ELSE ms[i]
      BY <2>3
    <3> HIDE DEF list, found, ms
    <3>3. CASE i \in found
      BY <3>1, <3>2, <3>3 DEF Mods
    <3>4. CASE i \notin found
      BY <3>1, <3>2, <3>4
    <3> QED BY <3>3, <3>4
  <2>7. list \in Seq(Mods) /\ Len(list) = n
    <3>1. DOMAIN list = 1 .. n
      BY <2>3
    <3>2. list = [i \in 1 .. n |-> list[i]]
      BY <2>3
    <3> HIDE DEF list, ms
    <3> QED BY <2>3, <2>6, <3>1, <3>2
  <2> HIDE DEF list, found
  <2>8. DOMAIN d = CacheFields /\ d.modifications = list
        /\ d.lru_storage = Without(c.lru_storage, UNION {ms[i].storage : i \in found})
    BY DEF CacheFields
  <2>9. d.lru_storage = Without(c.lru_storage, Written(B))
    <3> DEFINE U == UNION {ms[i].storage : i \in found}
    <3>1. \A key \in Key : key \in U <=> key \in Written(B)
      BY <2>5
    <3>2. d.lru_storage = Without(c.lru_storage, U)
      BY <2>8
    <3> HIDE DEF U, d
    <3> QED BY <3>1, <3>2 DEF Without
  <2>10. Alike(list, ms) /\ Marks(list, ms, B, r)
    BY <2>4, <2>6, <2>7 DEF Alike, Marks
  <2>11. sync(c, e, r) = d
    BY <1>1, <1>3
  <2> HIDE DEF d
  <2> QED BY <2>1, <2>8, <2>9, <2>10, <2>11 DEF Synced
<1> QED BY <1>2, <1>3
\* Entries that are alike have the same first ones and list the same blocks.
LEMMA AlikeList ==
  ASSUME NEW s, NEW t, Truthful(t), Sorted(t), Alike(s, t)
  PROVE  /\ Truthful(s) /\ Sorted(s)
         /\ \A i \in 1 .. Len(t) : IsFirst(s, i) <=> IsFirst(t, i)
         /\ \A x : Has(s, x) <=> Has(t, x)
<1>1. \A i \in 1 .. Len(t) :
        s[i].hash = t[i].hash /\ s[i].number = t[i].number /\ s[i].parent = t[i].parent /\ s[i].storage = t[i].storage
  BY DEF Alike
<1>2. Len(s) = Len(t) /\ s \in Seq(Mods)
  BY DEF Alike
<1>3. Truthful(s)
  BY <1>1, <1>2 DEF Truthful
<1>4. Sorted(s)
  BY <1>1, <1>2 DEF Sorted
<1>5. \A i \in 1 .. Len(t) : IsFirst(s, i) <=> IsFirst(t, i)
  BY <1>1, <1>2 DEF IsFirst
<1>6. \A x : Has(s, x) <=> Has(t, x)
  BY <1>1, <1>2 DEF Has
<1> QED BY <1>3, <1>4, <1>5, <1>6

\* The blocks e and r of a move of the head from one block to another: e enacts
\* those of the new chain, and some of X, and r retracts those of the old one.
Move(e, r, from, to, X) ==
  /\ Chain[to] \ Chain[from] \subseteq e /\ e \subseteq (Chain[to] \ Chain[from]) \cup X
  /\ Chain[from] \ Chain[to] \subseteq r

\* What is canonical after the move.
LEMMA SyncCanonical ==
  ASSUME NEW from \in Block, NEW to \in Block, NEW e, NEW r, NEW X, Move(e, r, from, to, X),
         NEW s, NEW t, ListOk(t, from, {}), Alike(s, t), \A x \in e \cup r : Has(t, x), Marks(s, t, e \cup r, r)
  PROVE  ListOk(s, to, X)
<1>1. Truthful(t) /\ Sorted(t) /\ Canonical(t, from, {}) /\ Len(s) = Len(t)
  BY DEF ListOk, Alike
<1>2. /\ Truthful(s) /\ Sorted(s)
      /\ \A i \in 1 .. Len(t) : IsFirst(s, i) <=> IsFirst(t, i)
      /\ \A x : Has(s, x) <=> Has(t, x)
  BY <1>1, AlikeList
<1>3. ASSUME NEW i \in 1 .. Len(s), IsFirst(s, i), s[i].is_canon, s[i].hash \notin X
      PROVE  Above(s, s[i].hash, to)
  <2> DEFINE h == t[i].hash
  <2>1. i \in 1 .. Len(t) /\ s[i].hash = h /\ IsFirst(t, i) /\ h \in Block
    BY <1>1, <1>2, <1>3, ListIs DEF Alike
  <2>2. s[i].is_canon = IF h \in e \cup r THEN h \notin r ELSE t[i].is_canon
    BY <2>1 DEF Marks
  <2>3. CASE h \in e \cup r
    <3>1. h \in Chain[to] \ Chain[from]
      BY <1>3, <2>1, <2>2, <2>3 DEF Move
    <3>2. ASSUME NEW x \in Chain[to] \ Chain[h] PROVE Has(s, x)
      <4>1. x \in Block /\ h \in Chain[x]
        BY <3>1, <3>2, ChainTotal, ChainNested
      <4>2. x \notin Chain[from]
        BY <3>1, <4>1, ChainNested
      <4> QED BY <1>2, <4>2 DEF Move
    <3> HIDE DEF h
    <3> QED BY <2>1, <3>1, <3>2 DEF Above
  <2>4. CASE h \notin e \cup r
    <3>1. h \in Chain[from] /\ \A x \in Chain[from] \ Chain[h] : Has(t, x)
      BY <1>1, <1>3, <2>1, <2>2, <2>4 DEF Canonical, Above
    <3>2. h \in Chain[to]
      BY <2>4, <3>1 DEF Move
    <3>3. ASSUME NEW x \in Chain[to] \ Chain[h] PROVE Has(s, x)
      <4>1. CASE x \in Chain[from]
        BY <1>2, <3>1, <4>1
      <4>2. CASE x \notin Chain[from]
        BY <1>2, <4>2 DEF Move
      <4> QED BY <4>1, <4>2
    <3> HIDE DEF h
    <3> QED BY <2>1, <3>2, <3>3 DEF Above
  <2> QED BY <2>3, <2>4
<1>4. Canonical(s, to, X)
  BY <1>3 DEF Canonical
<1> QED BY <1>2, <1>4 DEF ListOk

\* An empty cache is in order for every block.
LEMMA EmptyCache ==
  ASSUME NEW b, NEW X
  PROVE  CacheOk(new_shared_cache, b, X)
<1> DEFINE c == new_shared_cache
<1>1. c.modifications = <<>> /\ c.lru_storage = [key \in Key |-> None] /\ DOMAIN c = CacheFields
  BY DEF new_shared_cache, CacheFields
<1>2. <<>> \in Seq(Mods) /\ Len(<<>>) = 0 /\ 1 .. 0 = {}
  OBVIOUS
<1>3. Truthful(<<>>) /\ Sorted(<<>>) /\ Canonical(<<>>, b, X)
  BY <1>2 DEF Truthful, Sorted, Canonical
<1> HIDE DEF c
<1>4. CacheOk(c, b, X)
  BY <1>1, <1>3 DEF CacheOk, ListOk, ValuesOk
<1> QED BY <1>4 DEF c

\* A sync for a move of the head keeps the cache in order.
LEMMA SyncGood ==
  ASSUME NEW from \in Block, NEW to \in Block, NEW e, NEW r, NEW X, Move(e, r, from, to, X),
         NEW c, CacheOk(c, from, {})
  PROVE  CacheOk(sync(c, e, r), to, X)
<1> DEFINE d == sync(c, e, r)
<1>1. /\ DOMAIN c = CacheFields /\ ListOk(c.modifications, from, {}) /\ Truthful(c.modifications)
      /\ DOMAIN c.lru_storage = Key /\ ValuesOk(c.lru_storage, from)
  BY DEF CacheOk, ListOk, ValuesOk
<1>2. CASE d = new_shared_cache
  BY <1>2, EmptyCache
<1>3. CASE Synced(d, c, e \cup r, r)
  <2> HIDE DEF d
  <2>1. /\ DOMAIN d = CacheFields /\ Alike(d.modifications, c.modifications)
        /\ \A x \in e \cup r : Has(c.modifications, x)
        /\ d.lru_storage = Without(c.lru_storage, Written(e \cup r))
        /\ Marks(d.modifications, c.modifications, e \cup r, r)
    BY <1>3 DEF Synced
  <2>2. ListOk(d.modifications, to, X)
    BY <1>1, <2>1, SyncCanonical
  <2>3. ASSUME NEW key \in Key, d.lru_storage[key] # None PROVE d.lru_storage[key] = ValueAt(to, key)
    <3>1. key \notin Written(e \cup r) /\ d.lru_storage[key] = c.lru_storage[key]
      BY <1>1, <2>1, <2>3 DEF Without
    <3>2. \A x \in e \cup r : key \notin writes[x]
      BY <3>1 DEF Written
    <3>3. ValueAt(from, key) = ValueAt(to, key)
      BY <3>2, ValueAcross DEF Move
    <3> QED BY <1>1, <2>3, <3>1, <3>3 DEF ValuesOk
  <2>4. ValuesOk(d.lru_storage, to)
    <3>1. DOMAIN d.lru_storage = Key
      BY <1>1, <2>1 DEF Without
    <3> QED BY <2>3, <3>1 DEF ValuesOk
  <2>5. CacheOk(d, to, X)
    BY <2>1, <2>2, <2>4 DEF CacheOk
  <2> QED BY <2>5 DEF d
<1> QED BY <1>1, <1>2, <1>3, SyncIs
-----------------------------------------------------------------------------
(* Remember *)

\* m is inserted at p into the first n entries of t, behind the ones that are not
\* lower.
Inserted(s, t, m, p, n) ==
  /\ n \in 0 .. Len(t) /\ p \in 1 .. n + 1
  /\ s \in Seq(Mods) /\ Len(s) = n + 1 /\ s[p] = m
  /\ \A i \in 1 .. n : s[IF i < p THEN i ELSE i + 1] = t[i]
  /\ \A i \in 1 .. n : i < p => m.number <= t[i].number
  /\ p <= n => t[p].number < m.number

\* The list without its last entry.
LEMMA FrontIs ==
  ASSUME NEW t \in Seq(Mods), t # <<>>
  PROVE  /\ Front(t) \in Seq(Mods) /\ Len(Front(t)) = Len(t) - 1 /\ Len(t) - 1 \in Nat
         /\ \A i \in 1 .. Len(t) - 1 : Front(t)[i] = t[i]
<1>1. Len(t) \in Nat /\ Len(t) # 0
  OBVIOUS
<1>2. Len(t) - 1 \in Nat /\ Len(t) - 1 \in 0 .. Len(t)
  BY <1>1
<1> DEFINE f == SubSeq(t, 1, Len(t) - 1)
<1>3. f \in Seq(Mods) /\ Len(f) = Len(t) - 1
  <2>1. \A n \in 0 .. Len(t) : SubSeq(t, 1, n) \in Seq(Mods) /\ Len(SubSeq(t, 1, n)) = n
    BY <1>1
  <2> QED BY <1>2, <2>1
<1>4. \A i \in 1 .. Len(t) - 1 : f[i] = t[i]
  BY <1>1, <1>2
<1>5. f = Front(t)
  BY DEF Front
<1> HIDE DEF f
<1> QED BY <1>2, <1>3, <1>4, <1>5

\* The entries of t with m before the entry p.
With(s, t, m, p) ==
  /\ s \in Seq(Mods) /\ Len(s) = Len(t) + 1 /\ s[p] = m
  /\ \A i \in 1 .. Len(t) : s[IF i < p THEN i ELSE i + 1] = t[i]

\* InsertAt puts m before the entry p.
LEMMA InsertAtIs ==
  ASSUME NEW t \in Seq(Mods), NEW m \in Mods, NEW p \in 1 .. Len(t)
  PROVE  With(InsertAt(t, p, m), t, m, p)
<1> DEFINE a == SubSeq(t, 1, p - 1)
           z == SubSeq(t, p, Len(t))
           u == a \o <<m>>
           s == u \o z
<1>1. Len(t) \in Nat /\ p \in Nat /\ p >= 1 /\ p <= Len(t) /\ p - 1 \in Nat
  OBVIOUS
<1>2. a \in Seq(Mods) /\ Len(a) = p - 1 /\ \A i \in 1 .. p - 1 : a[i] = t[i]
  BY <1>1
<1>3. z \in Seq(Mods) /\ Len(z) = Len(t) - p + 1 /\ \A i \in 1 .. Len(t) - p + 1 : z[i] = t[p + i - 1]
  BY <1>1
<1>4. s = InsertAt(t, p, m)
  BY DEF InsertAt
<1> HIDE DEF a, z
<1>5. u \in Seq(Mods) /\ Len(u) = p /\ u[p] = m /\ \A i \in 1 .. p - 1 : u[i] = t[i]
  BY <1>1, <1>2
<1> HIDE DEF u
<1>6. s \in Seq(Mods) /\ Len(s) = Len(t) + 1 /\ s[p] = m
  BY <1>1, <1>3, <1>5
<1>7. ASSUME NEW i \in 1 .. Len(t) PROVE s[IF i < p THEN i ELSE i + 1] = t[i]
  <2>1. CASE i < p
    <3>1. i \in 1 .. p /\ i \in 1 .. p - 1
      BY <1>1, <2>1
    <3>2. s[i] = u[i]
      BY <1>3, <1>5, <3>1
    <3> QED BY <1>5, <2>1, <3>1, <3>2
  <2>2. CASE ~(i < p)
    <3>1. /\ i + 1 - p \in 1 .. Len(t) - p + 1 /\ i + 1 \in p + 1 .. p + (Len(t) - p + 1)
          /\ p + (i + 1 - p) - 1 = i
      BY <1>1, <2>2
    <3>2. s[i + 1] = z[i + 1 - p]
      BY <1>1, <1>3, <1>5, <3>1
    <3>3. z[i + 1 - p] = t[p + (i + 1 - p) - 1]
      BY <1>3, <3>1
    <3> QED BY <2>2, <3>1, <3>2, <3>3
  <2> QED BY <2>1, <2>2
<1> HIDE DEF s
<1>8. With(s, t, m, p)
  BY <1>6, <1>7 DEF With
<1> QED BY <1>4, <1>8

\* Append puts m behind all others.
LEMMA AppendIs ==
  ASSUME NEW t \in Seq(Mods), NEW m \in Mods
  PROVE  /\ Append(t, m) \in Seq(Mods) /\ Len(Append(t, m)) = Len(t) + 1 /\ Append(t, m)[Len(t) + 1] = m
         /\ \A i \in 1 .. Len(t) : Append(t, m)[i] = t[i]
OBVIOUS

\* Remember inserts the entry.
LEMMA RememberIs ==
  ASSUME NEW t, Truthful(t), NEW m \in Mods
  PROVE  \E p \in Nat, n \in Nat : Inserted(Remember(t, m), t, m, p, n)
<1> DEFINE kept == IF Len(t) = STATE_CACHE_BLOCKS THEN Front(t) ELSE t
           n == Len(kept)
           I == {i \in 1 .. n : kept[i].number < m.number}
           at == IF I # {} THEN Min(I) ELSE 0
           s == Remember(t, m)
<1>1. t \in Seq(Mods)
  BY DEF Truthful
<1>2. kept \in Seq(Mods) /\ n \in 0 .. Len(t) /\ \A i \in 1 .. n : kept[i] = t[i]
  <2>1. CASE Len(t) = STATE_CACHE_BLOCKS
    <3>1. t # <<>>
      BY <1>1, <2>1, BoundAssumption
    <3>2. /\ Front(t) \in Seq(Mods) /\ Len(Front(t)) = Len(t) - 1 /\ Len(t) - 1 \in Nat
          /\ \A i \in 1 .. Len(t) - 1 : Front(t)[i] = t[i]
      BY <1>1, <3>1, FrontIs
    <3>3. kept = Front(t) /\ Len(t) \in Nat
      BY <1>1, <2>1
    <3> HIDE DEF kept
    <3>4. n = Len(t) - 1
      BY <3>2, <3>3
    <3>5. n \in 0 .. Len(t)
      BY <3>2, <3>3, <3>4
    <3> QED BY <3>2, <3>3, <3>4, <3>5
  <2>2. CASE Len(t) # STATE_CACHE_BLOCKS
    BY <1>1, <2>2
  <2> QED BY <2>1, <2>2
<1>3. s = IF at = 0 THEN Append(kept, m) ELSE InsertAt(kept, at, m)
  BY DEF Remember, SelectInSeq
<1> HIDE DEF kept, s
<1>4. n \in Nat
  BY <1>2
<1>5. \A i \in 1 .. n : kept[i].number \in Nat
  <2>1. \A i \in 1 .. n : kept[i] \in Mods
    BY <1>2
  <2> QED BY <2>1 DEF Mods
<1>6. m.number \in Nat
  BY DEF Mods
<1>7. CASE I = {}
  <2>1. s = Append(kept, m)
    BY <1>3, <1>7
  <2>2. \A i \in 1 .. n : m.number <= kept[i].number
    BY <1>5, <1>6, <1>7
  <2>3. /\ s \in Seq(Mods) /\ Len(s) = n + 1 /\ s[n + 1] = m /\ \A i \in 1 .. n : s[i] = kept[i]
    BY <1>2, <2>1, AppendIs
  <2>4. \A i \in 1 .. n : i < n + 1
    BY <1>4
  <2>5. n + 1 \in 1 .. n + 1 /\ ~(n + 1 <= n) /\ n + 1 \in Nat
    BY <1>4
  <2>6. \A i \in 1 .. n : s[IF i < n + 1 THEN i ELSE i + 1] = t[i]
    BY <1>2, <2>3, <2>4
  <2>7. Inserted(s, t, m, n + 1, n)
    BY <1>2, <2>2, <2>3, <2>5, <2>6 DEF Inserted
  <2> QED BY <1>4, <2>5, <2>7 DEF s
<1>8. CASE I # {}
  <2> DEFINE p == Min(I)
  <2>1. I \in SUBSET Nat
    OBVIOUS
  <2>2. p \in I /\ \A i \in I : p <= i
    <3> HIDE DEF I
    <3> QED BY <1>8, <2>1, MinIsLeast
  <2>3. p \in 1 .. n /\ kept[p].number < m.number
    BY <2>2
  <2>4. s = InsertAt(kept, p, m)
    BY <1>3, <1>8, <2>3
  <2> HIDE DEF p
  <2>5. ASSUME NEW i \in 1 .. n, i < p PROVE m.number <= kept[i].number
    <3>1. i \notin I
      BY <2>2, <2>3, <2>5
    <3>2. ~(kept[i].number < m.number)
      BY <3>1
    <3> QED BY <1>5, <1>6, <3>2
  <2>6. /\ s \in Seq(Mods) /\ Len(s) = n + 1 /\ s[p] = m
        /\ \A i \in 1 .. n : s[IF i < p THEN i ELSE i + 1] = kept[i]
    <3>1. p \in 1 .. Len(kept) /\ kept \in Seq(Mods)
      BY <1>2, <2>3
    <3> HIDE DEF n, I, at
    <3>2. With(s, kept, m, p)
      BY <2>4, <3>1, InsertAtIs
    <3> QED BY <3>2 DEF n, With
  <2>7. p \in 1 .. n + 1 /\ p \in Nat
    BY <1>4, <2>3
  <2>8. Inserted(s, t, m, p, n)
    BY <1>2, <2>3, <2>5, <2>6, <2>7 DEF Inserted
  <2> QED BY <1>4, <2>7, <2>8 DEF s
<1> QED BY <1>7, <1>8
\* Where the entries are after an insertion, and where they were before.
Placed(s, t, m, p, n) ==
  /\ n <= Len(t) /\ Len(t) \in Nat /\ Len(s) = n + 1 /\ p \in 1 .. n + 1 /\ s[p] = m
  /\ \A i \in 1 .. n : i < p => s[i] = t[i] /\ i \in 1 .. n + 1
  /\ \A i \in 1 .. n : ~(i < p) => s[i + 1] = t[i] /\ i + 1 \in 1 .. n + 1
  /\ \A i \in 1 .. n + 1 : i < p => i \in 1 .. n /\ s[i] = t[i]
  /\ \A i \in 1 .. n + 1 : i > p => i - 1 \in 1 .. n /\ s[i] = t[i - 1] /\ ~(i - 1 < p)

\* So they are.
LEMMA InsertedEntries ==
  ASSUME NEW s, NEW t, NEW m, NEW p \in Nat, NEW n \in Nat, Truthful(t), Inserted(s, t, m, p, n)
  PROVE  Placed(s, t, m, p, n)
<1>1. /\ n \in 0 .. Len(t) /\ p \in 1 .. n + 1 /\ Len(s) = n + 1 /\ s[p] = m /\ Len(t) \in Nat
      /\ \A i \in 1 .. n : s[IF i < p THEN i ELSE i + 1] = t[i]
  BY ListIs DEF Inserted
<1>2. \A i \in 1 .. n : i < p => s[i] = t[i] /\ i \in 1 .. n + 1
  BY <1>1
<1>3. \A i \in 1 .. n : ~(i < p) => s[i + 1] = t[i] /\ i + 1 \in 1 .. n + 1
  BY <1>1
<1>4. \A i \in 1 .. n + 1 : i < p => i \in 1 .. n /\ s[i] = t[i]
  <2>1. \A i \in 1 .. n + 1 : i < p => i \in 1 .. n
    BY <1>1
  <2> QED BY <1>2, <2>1
<1>5. ASSUME NEW i \in 1 .. n + 1, i > p PROVE i - 1 \in 1 .. n /\ s[i] = t[i - 1] /\ ~(i - 1 < p)
  <2>1. i - 1 \in 1 .. n /\ ~(i - 1 < p) /\ (i - 1) + 1 = i
    BY <1>1, <1>5
  <2>2. s[(i - 1) + 1] = t[i - 1]
    BY <1>3, <2>1
  <2> QED BY <2>1, <2>2
<1> QED BY <1>1, <1>2, <1>3, <1>4, <1>5 DEF Placed

\* An entry that says what is so of its block.
IsTrue(m) ==
  /\ m \in Mods /\ m.number = Number(m.hash)
  /\ m.parent = Parent[m.hash] /\ m.storage = writes[m.hash]

\* An insertion keeps the list truthful.
LEMMA InsertedTruthful ==
  ASSUME NEW s, NEW t, NEW m, NEW p \in Nat, NEW n \in Nat, Truthful(t), Inserted(s, t, m, p, n), IsTrue(m)
  PROVE  Truthful(s)
<1>1. Placed(s, t, m, p, n)
  BY InsertedEntries
<1>2. ASSUME NEW i \in 1 .. n + 1 PROVE IsTrue(s[i])
  <2>1. \A j \in 1 .. n : IsTrue(t[j])
    <3>1. \A j \in 1 .. n : j \in 1 .. Len(t)
      BY <1>1 DEF Placed
    <3> QED BY <3>1, ListIs DEF IsTrue
  <2>2. CASE i < p
    BY <2>1, <2>2, <1>1 DEF Placed
  <2>3. CASE i > p
    BY <2>1, <2>3, <1>1 DEF Placed
  <2>4. CASE i = p
    BY <2>4, <1>1 DEF Placed
  <2> QED BY <2>2, <2>3, <2>4
<1>3. s \in Seq(Mods) /\ Len(s) = n + 1
  BY DEF Inserted
<1> QED BY <1>2, <1>3 DEF Truthful, IsTrue

\* An insertion keeps the list sorted.
LEMMA InsertedSorted ==
  ASSUME NEW s, NEW t, NEW m, NEW p \in Nat, NEW n \in Nat, Truthful(t), Sorted(t), Inserted(s, t, m, p, n),
         m.number \in Nat
  PROVE  Sorted(s)
<1>1. Placed(s, t, m, p, n)
  BY InsertedEntries
<1>2. \A j \in 1 .. n : j \in 1 .. Len(t) /\ t[j].number \in Nat
  <2>1. \A j \in 1 .. n : j \in 1 .. Len(t)
    BY <1>1 DEF Placed
  <2> QED BY <2>1, ListIs, NumberType
<1>3. \A i, j \in 1 .. n : i <= j => t[j].number <= t[i].number
  BY <1>2 DEF Sorted
<1>4. (\A i \in 1 .. n : i < p => m.number <= t[i].number) /\ (p <= n => t[p].number < m.number) /\ p \in 1 .. n + 1
  BY DEF Inserted
<1>5. ASSUME NEW j \in 1 .. n, ~(j < p) PROVE t[j].number <= m.number
  <2>1. p \in 1 .. n /\ p <= j
    BY <1>4, <1>5
  <2>2. t[j].number <= t[p].number /\ t[p].number < m.number
    BY <1>3, <1>4, <2>1
  <2> QED BY <1>2, <2>1, <2>2
<1>6. Len(s) = n + 1
  BY <1>1 DEF Placed
<1>7. ASSUME NEW i \in 1 .. n + 1, NEW j \in 1 .. n + 1, i <= j PROVE s[j].number <= s[i].number
  <2>1. CASE i < p /\ j < p
    BY <1>3, <1>7, <2>1, <1>1 DEF Placed
  <2>2. CASE i < p /\ j = p
    BY <1>4, <2>2, <1>1 DEF Placed
  <2>3. CASE i < p /\ j > p
    <3>1. i \in 1 .. n /\ j - 1 \in 1 .. n /\ i <= j - 1 /\ s[i] = t[i] /\ s[j] = t[j - 1]
      <4>1. i \in 1 .. n /\ j - 1 \in 1 .. n /\ s[i] = t[i] /\ s[j] = t[j - 1]
        BY <2>3, <1>1 DEF Placed
      <4> QED BY <2>3, <4>1
    <3> QED BY <1>3, <3>1
  <2>4. CASE i = p /\ j = p
    BY <2>4, <1>1 DEF Placed
  <2>5. CASE i = p /\ j > p
    BY <1>5, <2>5, <1>1 DEF Placed
  <2>6. CASE i > p
    <3>1. j > p
      BY <1>7, <2>6
    <3>2. i - 1 \in 1 .. n /\ j - 1 \in 1 .. n /\ s[i] = t[i - 1] /\ s[j] = t[j - 1]
      BY <2>6, <3>1, <1>1 DEF Placed
    <3>3. i - 1 <= j - 1
      BY <1>7
    <3> QED BY <1>3, <3>2, <3>3
  <2>7. CASE i = p /\ j < p
    BY <1>7, <2>7
  <2>8. CASE i < p \/ i = p \/ i > p
    <3>1. j < p \/ j = p \/ j > p
      OBVIOUS
    <3> QED BY <2>1, <2>2, <2>3, <2>4, <2>5, <2>6, <2>7, <2>8, <3>1
  <2> QED BY <2>8
<1> QED BY <1>6, <1>7 DEF Sorted
\* The head moves from b to its child best_hash, the block of the new entry, or
\* it stays where it is, and the new entry is not canonical.
Arrives(m, b, best_hash, X) ==
  /\ Chain[b] \subseteq Chain[best_hash] /\ Chain[best_hash] \subseteq Chain[b] \cup {m.hash}
  /\ m.is_canon => m.hash = best_hash
  /\ X \subseteq {best_hash}

\* A block is on its own chain, and nothing of it is above.
LEMMA AboveItself ==
  ASSUME NEW b \in Block, NEW s
  PROVE  Above(s, b, b)
BY ChainBlocks DEF Above

\* An insertion keeps what is canonical; the entry that had to make room was
\* below all others.
LEMMA InsertedCanonical ==
  ASSUME NEW s, NEW t, NEW m, NEW p \in Nat, NEW n \in Nat, NEW b \in Block, NEW best_hash \in Block, NEW X,
         ListOk(t, b, X), Inserted(s, t, m, p, n), Arrives(m, b, best_hash, X)
  PROVE  Canonical(s, best_hash, {})
<1>1. Truthful(t) /\ Sorted(t) /\ Canonical(t, b, X)
  BY DEF ListOk
<1>2. Placed(s, t, m, p, n)
  BY <1>1, InsertedEntries
<1>3. \A j \in 1 .. n : j \in 1 .. Len(t) /\ t[j].hash \in Block
  <2>1. \A j \in 1 .. n : j \in 1 .. Len(t)
    BY <1>2 DEF Placed
  <2> QED BY <1>1, <2>1, ListIs
<1>4. ASSUME NEW i \in 1 .. n + 1, NEW j \in 1 .. n, s[i] = t[j], i = (IF j < p THEN j ELSE j + 1),
             IsFirst(s, i), s[i].is_canon
      PROVE  Above(s, s[i].hash, best_hash)
  <2> DEFINE h == t[j].hash
  <2>1. ASSUME NEW l \in 1 .. Len(t), l < j
        PROVE  \E k \in 1 .. n + 1 : s[k] = t[l] /\ k < i
    <3>1. l \in 1 .. n
      BY <2>1
    <3>2. CASE l < p
      <4>1. s[l] = t[l] /\ l \in 1 .. n + 1
        BY <1>2, <3>1, <3>2 DEF Placed
      <4>2. l < i
        BY <1>4, <2>1, <3>1
      <4> QED BY <4>1, <4>2
    <3>3. CASE ~(l < p)
      <4>1. s[l + 1] = t[l] /\ l + 1 \in 1 .. n + 1
        BY <1>2, <3>1, <3>3 DEF Placed
      <4>2. l + 1 < i
        BY <1>4, <2>1, <3>1, <3>3
      <4> QED BY <4>1, <4>2
    <3> QED BY <3>2, <3>3
  <2>2. Len(s) = n + 1
    BY <1>2 DEF Placed
  <2>3. IsFirst(t, j)
    BY <1>4, <2>1, <2>2 DEF IsFirst
  <2>4. h \in X \/ Above(t, h, b)
    BY <1>1, <1>3, <1>4, <2>3 DEF Canonical
  <2>5. CASE h \in X
    <3>1. h = best_hash
      BY <2>5 DEF Arrives
    <3> QED BY <1>4, <3>1, AboveItself
  <2>6. CASE Above(t, h, b)
    <3>1. h \in Chain[b] /\ \A x \in Chain[b] \ Chain[h] : Has(t, x)
      BY <2>6 DEF Above
    <3>2. ASSUME NEW x \in Chain[best_hash] \ Chain[h] PROVE Has(s, x)
      <4>1. CASE x = m.hash
        BY <1>2, <2>2, <4>1 DEF Has, Placed
      <4>2. CASE x # m.hash
        <5>1. x \in Chain[b] \ Chain[h]
          BY <4>2 DEF Arrives
        <5>2. PICK l \in 1 .. Len(t) : t[l].hash = x
          BY <3>1, <5>1 DEF Has
        <5>3. Number(h) < Number(x)
          BY <3>1, <5>1, AboveIt
        <5>4. l < j
          BY <1>1, <1>3, <5>2, <5>3, HigherFirst
        <5>5. \E k \in 1 .. n + 1 : s[k] = t[l] /\ k < i
          BY <2>1, <5>4
        <5> QED BY <2>2, <5>2, <5>5 DEF Has
      <4> QED BY <4>1, <4>2
    <3>3. h \in Chain[best_hash]
      BY <3>1 DEF Arrives
    <3> QED BY <1>4, <3>2, <3>3 DEF Above
  <2> QED BY <2>4, <2>5, <2>6
<1>5. ASSUME NEW i \in 1 .. n + 1, IsFirst(s, i), s[i].is_canon
      PROVE  Above(s, s[i].hash, best_hash)
  <2>1. CASE i < p
    <3>1. i \in 1 .. n /\ s[i] = t[i]
      BY <1>2, <2>1 DEF Placed
    <3> QED BY <1>4, <1>5, <2>1, <3>1
  <2>2. CASE i > p
    <3>1. i - 1 \in 1 .. n /\ s[i] = t[i - 1] /\ ~(i - 1 < p)
      BY <1>2, <2>2 DEF Placed
    <3>2. (i - 1) + 1 = i
      OBVIOUS
    <3> QED BY <1>4, <1>5, <3>1, <3>2
  <2>3. CASE i = p
    <3>1. s[i].hash = best_hash
      BY <1>2, <1>5, <2>3 DEF Arrives, Placed
    <3> QED BY <3>1, AboveItself
  <2> QED BY <2>1, <2>2, <2>3
<1>6. Len(s) = n + 1
  BY <1>2 DEF Placed
<1> QED BY <1>5, <1>6 DEF Canonical

\* The list is in order after Remember.
LEMMA RememberGood ==
  ASSUME NEW t, NEW m, NEW b \in Block, NEW best_hash \in Block, NEW X,
         ListOk(t, b, X), IsTrue(m), Arrives(m, b, best_hash, X)
  PROVE  ListOk(Remember(t, m), best_hash, {})
<1> DEFINE s == Remember(t, m)
<1>1. Truthful(t) /\ Sorted(t) /\ m \in Mods /\ m.number \in Nat
  BY DEF ListOk, IsTrue, Mods
<1>2. PICK p \in Nat, n \in Nat : Inserted(s, t, m, p, n)
  BY <1>1, RememberIs
<1> HIDE DEF s
<1>3. Truthful(s) /\ Sorted(s)
  BY <1>1, <1>2, InsertedTruthful, InsertedSorted
<1>4. Canonical(s, best_hash, {})
  BY <1>2, InsertedCanonical
<1>5. ListOk(s, best_hash, {})
  BY <1>3, <1>4 DEF ListOk
<1> QED BY <1>5 DEF s

-----------------------------------------------------------------------------
(* The steps of the cache *)

\* What holds of the blocks.
BlocksOk ==
  /\ writes \in [Block -> SUBSET Key]
  /\ imported \in SUBSET Block
  /\ best \in Block /\ finalized \in Block

\* The entry of a block says what is so.
LEMMA BlockChangesTrue ==
  ASSUME BlocksOk, NEW b \in Block \ {Genesis}, NEW is_best \in BOOLEAN
  PROVE  IsTrue(BlockChanges(b, is_best)) /\ BlockChanges(b, is_best).hash = b
         /\ BlockChanges(b, is_best).is_canon = is_best
<1>1. Number(b) \in Nat /\ Parent[b] \in Block /\ writes[b] \in SUBSET Key
  BY NumberType, ChainIs DEF BlocksOk
<1> QED BY <1>1 DEF BlockChanges, IsTrue, Mods

\* The block b becomes the best one, on its parent.
LEMMA RecordBest ==
  ASSUME BlocksOk, NEW b \in Block \ {Genesis}, NEW c, CacheOk(c, Parent[b], {b})
  PROVE  CacheOk(Record(c, b, TRUE), b, {})
<1> DEFINE d == Record(c, b, TRUE)
           m == BlockChanges(b, TRUE)
<1>1. DOMAIN c = CacheFields /\ ValuesOk(c.lru_storage, Parent[b]) /\ ListOk(c.modifications, Parent[b], {b})
  BY DEF CacheOk
<1>2. /\ DOMAIN d = CacheFields /\ d.lru_storage = Add(c.lru_storage, [key \in writes[b] |-> b])
      /\ d.modifications = Remember(c.modifications, m)
  BY <1>1 DEF Record, CacheFields
<1>3. IsTrue(m) /\ m.hash = b
  BY BlockChangesTrue
<1>4. Parent[b] \in Block /\ Chain[b] = {b} \cup Chain[Parent[b]]
  BY ChainIs
<1> HIDE DEF d, m
<1>5. Arrives(m, Parent[b], b, {b})
  BY <1>3, <1>4 DEF Arrives
<1>6. ListOk(d.modifications, b, {})
  BY <1>1, <1>2, <1>3, <1>4, <1>5, RememberGood
<1>7. ASSUME NEW key \in Key, d.lru_storage[key] # None PROVE d.lru_storage[key] = ValueAt(b, key)
  <2>1. d.lru_storage[key] = IF key \in writes[b] THEN b ELSE c.lru_storage[key]
    BY <1>1, <1>2 DEF Add, ValuesOk
  <2>2. CASE key \in writes[b]
    BY <2>1, <2>2, OwnValue
  <2>3. CASE key \notin writes[b]
    <3>1. ValueAt(b, key) = ValueAt(Parent[b], key)
      BY <1>4, <2>3, ValueAcross
    <3> QED BY <1>1, <1>7, <2>1, <2>3, <3>1 DEF ValuesOk
  <2> QED BY <2>2, <2>3
<1>8. DOMAIN d.lru_storage = Key
  BY <1>1, <1>2 DEF Add, ValuesOk
<1>9. CacheOk(d, b, {})
  BY <1>2, <1>6, <1>7, <1>8 DEF CacheOk, ValuesOk
<1> QED BY <1>9 DEF d

\* The block b joins the database, and the best block stays.
LEMMA RecordOther ==
  ASSUME BlocksOk, NEW b \in Block \ {Genesis}, NEW c, NEW best_hash \in Block, CacheOk(c, best_hash, {})
  PROVE  CacheOk(Record(c, b, FALSE), best_hash, {})
<1> DEFINE d == Record(c, b, FALSE)
           m == BlockChanges(b, FALSE)
<1>1. DOMAIN c = CacheFields /\ ValuesOk(c.lru_storage, best_hash) /\ ListOk(c.modifications, best_hash, {})
  BY DEF CacheOk
<1>2. /\ DOMAIN d = CacheFields /\ d.lru_storage = c.lru_storage
      /\ d.modifications = Remember(c.modifications, m)
  BY <1>1 DEF Record, CacheFields
<1>3. IsTrue(m) /\ ~m.is_canon
  BY BlockChangesTrue
<1> HIDE DEF d, m
<1>4. Arrives(m, best_hash, best_hash, {})
  BY <1>3 DEF Arrives
<1>5. ListOk(d.modifications, best_hash, {})
  BY <1>1, <1>2, <1>3, <1>4, RememberGood
<1>6. CacheOk(d, best_hash, {})
  BY <1>1, <1>2, <1>5 DEF CacheOk
<1> QED BY <1>6 DEF d
\* sync_cache for a block that becomes the best one.
LEMMA SyncCacheBest ==
  ASSUME BlocksOk, NEW b \in Block \ {Genesis}, CacheOk(cache, best, {})
  PROVE  CacheOk(sync_cache(cache, Enacted(best, Parent[b]), Retracted(best, Parent[b]), b, TRUE), b, {})
<1> DEFINE enacted == Enacted(best, Parent[b])
           retracted == Retracted(best, Parent[b])
<1>1. PICK e, r : /\ sync_cache(cache, enacted, retracted, b, TRUE) = Record(sync(cache, e, r), b, TRUE)
                  /\ enacted \ {b} \subseteq e /\ e \subseteq enacted \cup {b} /\ r = retracted
  <2> DEFINE at == Entry(cache.modifications, b)
             again == at # 0 /\ cache.modifications[at].is_canon # TRUE
             e == (enacted \ {b}) \cup {x \in {b} : again /\ TRUE}
             r == retracted \cup {x \in {b} : again /\ ~TRUE}
  <2>1. sync_cache(cache, enacted, retracted, b, TRUE) = Record(sync(cache, e, r), b, TRUE)
    BY DEF sync_cache
  <2>2. enacted \ {b} \subseteq e /\ e \subseteq enacted \cup {b} /\ r = retracted
    OBVIOUS
  <2> HIDE DEF e, r
  <2> QED BY <2>1, <2>2
<1>2. Parent[b] \in Block /\ b \notin Chain[Parent[b]] /\ best \in Block
  BY ChainIs, NotBelowParent DEF BlocksOk
<1>3. Move(e, r, best, Parent[b], {b})
  BY <1>1, <1>2 DEF Move, Enacted, Retracted
<1>4. CacheOk(sync(cache, e, r), Parent[b], {b})
  BY <1>2, <1>3, SyncGood
<1>5. CacheOk(Record(sync(cache, e, r), b, TRUE), b, {})
  BY <1>4, RecordBest
<1> QED BY <1>1, <1>5

\* sync_cache for another block.
LEMMA SyncCacheOther ==
  ASSUME BlocksOk, NEW b \in Block \ {Genesis}, CacheOk(cache, best, {})
  PROVE  CacheOk(sync_cache(cache, {}, {}, b, FALSE), best, {})
<1>1. PICK r : sync_cache(cache, {}, {}, b, FALSE) = Record(sync(cache, {}, r), b, FALSE)
  <2> DEFINE at == Entry(cache.modifications, b)
             again == at # 0 /\ cache.modifications[at].is_canon # FALSE
             e == ({} \ {b}) \cup {x \in {b} : again /\ FALSE}
             r == {} \cup {x \in {b} : again /\ ~FALSE}
  <2>1. sync_cache(cache, {}, {}, b, FALSE) = Record(sync(cache, e, r), b, FALSE)
    BY DEF sync_cache
  <2>2. e = {}
    OBVIOUS
  <2> HIDE DEF e, r
  <2> QED BY <2>1, <2>2
<1>2. best \in Block
  BY DEF BlocksOk
<1>3. Move({}, r, best, best, {})
  BY DEF Move
<1>4. CacheOk(sync(cache, {}, r), best, {})
  BY <1>2, <1>3, SyncGood
<1>5. CacheOk(Record(sync(cache, {}, r), b, FALSE), best, {})
  BY <1>2, <1>4, RecordOther
<1> QED BY <1>1, <1>5

\* Eviction keeps the cache in order.
LEMMA EvictedGood ==
  ASSUME NEW c, NEW b, CacheOk(c, b, {}), NEW added \in BOOLEAN, NEW d \in Evicted(c, added)
  PROVE  CacheOk(d, b, {})
<1>1. CASE ~added
  BY <1>1 DEF Evicted
<1>2. CASE added
  <2>1. PICK out \in [storage : SUBSET Key, hashes : SUBSET TopKey] :
          d = [c EXCEPT !.lru_storage = Without(@, out.storage), !.lru_hashes = Without(@, out.hashes)]
    BY <1>2 DEF Evicted
  <2>2. DOMAIN c = CacheFields /\ ValuesOk(c.lru_storage, b) /\ ListOk(c.modifications, b, {})
    BY DEF CacheOk
  <2>3. DOMAIN d = CacheFields /\ d.lru_storage = Without(c.lru_storage, out.storage) /\ d.modifications = c.modifications
    BY <2>1, <2>2 DEF CacheFields
  <2>4. ValuesOk(d.lru_storage, b)
    BY <2>2, <2>3 DEF ValuesOk, Without
  <2> QED BY <2>2, <2>3, <2>4 DEF CacheOk
<1> QED BY <1>1, <1>2

\* The values of a state of the best block are those of the cache.
LEMMA PropagateGood ==
  ASSUME NEW c, NEW b, CacheOk(c, b, {}), NEW parent_hash, NEW local
  PROVE  CacheOk(Propagate(c, parent_hash, local, b = parent_hash), b, {})
<1> DEFINE d == Propagate(c, parent_hash, local, b = parent_hash)
<1>1. CASE b # parent_hash
  BY <1>1 DEF Propagate
<1>2. CASE b = parent_hash
  <2>1. DOMAIN c = CacheFields /\ ValuesOk(c.lru_storage, b) /\ ListOk(c.modifications, b, {})
    BY DEF CacheOk
  <2>2. /\ DOMAIN d = CacheFields /\ d.modifications = c.modifications
        /\ d.lru_storage = Add(c.lru_storage, [key \in local.storage |-> ValueAt(b, key)])
    BY <1>2, <2>1 DEF Propagate, CacheFields
  <2> HIDE DEF d
  <2>3. ValuesOk(d.lru_storage, b)
    BY <2>1, <2>2 DEF ValuesOk, Add
  <2>4. CacheOk(d, b, {})
    BY <2>1, <2>2, <2>3 DEF CacheOk
  <2> QED BY <2>4 DEF d
<1> QED BY <1>1, <1>2

-----------------------------------------------------------------------------
(* The inductive invariant *)

\* What an operation may look like.
OperationOk ==
  /\ operation \in Operation
  /\ operation.commit # None => operation.commit # Genesis /\ operation.head = None
  /\ operation.commit = None => ~operation.is_best
  /\ operation.next = "sync_cache" => operation.commit # None
  /\ operation.next = "sync" => operation.head # None

\* The block whose values the cache holds: the best one, and once the cache has
\* been synced the one that will be the best.
Cached ==
  IF operation = None \/ operation.next # "update_meta" THEN best
  ELSE IF operation.head # None THEN operation.head
  ELSE IF operation.is_best THEN operation.commit ELSE best

CacheInv == CacheOk(cache, Cached, {})

\* The cache is in order for the block whose values it holds.
IInv == BlocksOk /\ (operation # None => OperationOk) /\ CacheInv
\* CacheOk is about writes, and nothing else that changes.
LEMMA CacheOkStays ==
  ASSUME writes' = writes, CacheOk(cache', Cached', {})
  PROVE  CacheInv'
BY DEF CacheInv, CacheOk, ListOk, ValuesOk, Truthful, Sorted, Canonical, Above, ValueAt, Has, IsFirst

\* Nothing that an operation does matters to a cache that stays as it is, as long
\* as it is for the same block.
LEMMA SameCache ==
  ASSUME CacheInv, writes' = writes, cache' = cache, Cached' = Cached
  PROVE  CacheInv'
<1>1. CacheOk(cache', Cached', {})
  BY DEF CacheInv
<1> QED BY <1>1, CacheOkStays

\* An import keeps the invariant: the cache is as before.  A final block is on
\* the best chain, and its parent is no new head.
LEMMA ImportKeeps ==
  ASSUME IInv, ~FinalizedForks, NEW b \in Block, NEW is_best \in BOOLEAN, NEW final \in BOOLEAN,
         SealsOn(b, final), Import(b, is_best, final)
  PROVE  IInv'
<1> DEFINE head == IF final /\ Parent[b] # finalized THEN finality_head(Parent[b]) ELSE None
           o == [commit |-> b, is_best |-> is_best, head |-> head,
                 finalized |-> IF final THEN b ELSE finalized, next |-> "sync_cache"]
<1>1. /\ operation = None /\ b # Genesis /\ Parent[b] \in imported /\ (final => Parent[b] \in Chain[best])
      /\ operation' = o /\ imported' = imported \cup {b}
      /\ writes' = writes /\ best' = best /\ finalized' = finalized /\ cache' = cache
  BY DEF Import, SealsOn
<1>2. BlocksOk /\ CacheInv
  BY DEF IInv
<1>3. head = None
  BY <1>1 DEF finality_head
<1> HIDE DEF head
<1>4. o \in Operation /\ o.commit = b /\ o.head = None /\ o.next = "sync_cache"
  BY <1>2, <1>3 DEF Operation, BlocksOk
<1> HIDE DEF o
<1>5. b # None
  BY NoneAssumption
<1>6. OperationOk'
  BY <1>1, <1>4, <1>5 DEF OperationOk
<1>7. BlocksOk'
  BY <1>1, <1>2 DEF BlocksOk
<1>8. Cached' = Cached
  BY <1>1, <1>4 DEF Cached
<1>9. CacheInv'
  BY <1>1, <1>2, <1>8, SameCache
<1> QED BY <1>6, <1>7, <1>9 DEF IInv

\* Finality keeps the invariant: the cache is as before.
LEMMA FinalizeKeeps ==
  ASSUME IInv, NEW b \in Block, Finalize(b)
  PROVE  IInv'
<1> DEFINE head == finality_head(b)
           o == [commit |-> None, is_best |-> FALSE, head |-> head, finalized |-> b, next |-> after_sync_cache(head)]
<1>1. /\ operation = None /\ operation' = o
      /\ writes' = writes /\ imported' = imported /\ best' = best /\ finalized' = finalized /\ cache' = cache
  BY DEF Finalize, chain
<1>2. BlocksOk /\ CacheInv
  BY DEF IInv
<1>3. head \in Block \cup {None}
  BY DEF finality_head
<1> HIDE DEF head
<1>4. after_sync_cache(head) \in {"sync", "update_meta"} /\ (after_sync_cache(head) = "sync" <=> head # None)
  BY DEF after_sync_cache
<1>5. /\ o \in Operation /\ o.commit = None /\ o.is_best = FALSE /\ o.head = head
      /\ o.next = after_sync_cache(head)
  BY <1>3, <1>4 DEF Operation
<1> HIDE DEF o
<1>6. OperationOk'
  BY <1>1, <1>4, <1>5 DEF OperationOk
<1>7. BlocksOk'
  BY <1>1, <1>2 DEF BlocksOk
<1>8. Cached' = Cached
  BY <1>1, <1>4, <1>5 DEF Cached
<1>9. CacheInv'
  BY <1>1, <1>2, <1>8, SameCache
<1> QED BY <1>6, <1>7, <1>9 DEF IInv

\* The operation goes on to its next step.
LEMMA OperationGoesOn ==
  ASSUME operation \in Operation, NEW next \in {"sync", "update_meta"},
         operation' = [operation EXCEPT !.next = next]
  PROVE  /\ operation' \in Operation /\ operation' # None /\ operation'.next = next
         /\ operation'.commit = operation.commit /\ operation'.is_best = operation.is_best
         /\ operation'.head = operation.head
<1>1. operation' \in Operation
  BY DEF Operation
<1>2. operation' # None
  BY <1>1, NoneAssumption
<1> QED BY <1>1, <1>2 DEF Operation

\* The cache follows an imported block.
LEMMA SyncCacheKeeps ==
  ASSUME IInv, SyncCache
  PROVE  IInv'
<1> DEFINE b == operation.commit
           is_best == operation.is_best
           enacted == IF is_best THEN Enacted(best, Parent[b]) ELSE {}
           retracted == IF is_best THEN Retracted(best, Parent[b]) ELSE {}
           c == sync_cache(cache, enacted, retracted, b, is_best)
<1>1. /\ operation # None /\ operation.next = "sync_cache" /\ cache' \in Evicted(c, is_best)
      /\ operation' = [operation EXCEPT !.next = after_sync_cache(operation.head)]
      /\ writes' = writes /\ imported' = imported /\ best' = best /\ finalized' = finalized
  BY DEF SyncCache, chain
<1>2. BlocksOk /\ CacheInv /\ OperationOk
  BY <1>1 DEF IInv
<1>3. /\ operation \in Operation /\ b \in Block \ {Genesis} /\ operation.head = None /\ is_best \in BOOLEAN
  BY <1>1, <1>2 DEF OperationOk, Operation
<1>4. CacheOk(cache, best, {})
  BY <1>1, <1>2 DEF CacheInv, Cached
<1>5. after_sync_cache(operation.head) = "update_meta"
  BY <1>3 DEF after_sync_cache
<1>6. /\ operation' \in Operation /\ operation' # None /\ operation'.next = "update_meta"
      /\ operation'.commit = b /\ operation'.is_best = is_best /\ operation'.head = None
  <2> DEFINE next == "update_meta"
  <2>1. next \in {"sync", "update_meta"} /\ operation' = [operation EXCEPT !.next = next]
    BY <1>1, <1>5
  <2> HIDE DEF next
  <2>2. /\ operation' \in Operation /\ operation' # None /\ operation'.next = next
        /\ operation'.commit = operation.commit /\ operation'.is_best = operation.is_best
        /\ operation'.head = operation.head
    BY <1>3, <2>1, OperationGoesOn
  <2> QED BY <1>3, <2>2 DEF next
<1>7. CacheOk(c, IF is_best THEN b ELSE best, {})
  <2>1. CASE is_best = TRUE
    <3>1. c = sync_cache(cache, Enacted(best, Parent[b]), Retracted(best, Parent[b]), b, TRUE)
      BY <2>1
    <3> HIDE DEF b, c, enacted, retracted
    <3>2. CacheOk(sync_cache(cache, Enacted(best, Parent[b]), Retracted(best, Parent[b]), b, TRUE), b, {})
      BY <1>2, <1>3, <1>4, SyncCacheBest
    <3> QED BY <2>1, <3>1, <3>2
  <2>2. CASE is_best = FALSE
    <3>1. c = sync_cache(cache, {}, {}, b, FALSE)
      BY <2>2
    <3> HIDE DEF b, c, enacted, retracted
    <3>2. CacheOk(sync_cache(cache, {}, {}, b, FALSE), best, {})
      BY <1>2, <1>3, <1>4, SyncCacheOther
    <3> QED BY <2>2, <3>1, <3>2
  <2> QED BY <1>3, <2>1, <2>2
<1>8. Cached' = IF is_best THEN b ELSE best
  BY <1>1, <1>6 DEF Cached
<1> HIDE DEF b, c, enacted, retracted, is_best
<1>9. CacheOk(cache', Cached', {})
  BY <1>1, <1>3, <1>7, <1>8, EvictedGood
<1>10. CacheInv'
  BY <1>1, <1>9, CacheOkStays
<1>11. BlocksOk'
  BY <1>1, <1>2 DEF BlocksOk
<1>12. b # None
  BY <1>3, NoneAssumption
<1>13. OperationOk'
  BY <1>3, <1>6, <1>12 DEF OperationOk
<1> QED BY <1>10, <1>11, <1>13 DEF IInv

\* The cache follows a new head.
LEMMA SyncHeadKeeps ==
  ASSUME IInv, SyncHead
  PROVE  IInv'
<1> DEFINE head == operation.head
           e == Enacted(best, head)
           r == Retracted(best, head)
<1>1. /\ operation # None /\ operation.next = "sync" /\ cache' = sync(cache, e, r)
      /\ operation' = [operation EXCEPT !.next = "update_meta"]
      /\ writes' = writes /\ imported' = imported /\ best' = best /\ finalized' = finalized
  BY DEF SyncHead, chain
<1>2. BlocksOk /\ CacheInv /\ OperationOk
  BY <1>1 DEF IInv
<1>3. operation \in Operation /\ head # None /\ head \in Block /\ best \in Block
  BY <1>1, <1>2 DEF OperationOk, Operation, BlocksOk
<1>4. CacheOk(cache, best, {})
  BY <1>1, <1>2 DEF CacheInv, Cached
<1>5. /\ operation' \in Operation /\ operation' # None /\ operation'.next = "update_meta"
      /\ operation'.commit = operation.commit /\ operation'.is_best = operation.is_best
      /\ operation'.head = operation.head
  <2> DEFINE next == "update_meta"
  <2>1. next \in {"sync", "update_meta"} /\ operation' = [operation EXCEPT !.next = next]
    BY <1>1
  <2> HIDE DEF next
  <2>2. /\ operation' \in Operation /\ operation' # None /\ operation'.next = next
        /\ operation'.commit = operation.commit /\ operation'.is_best = operation.is_best
        /\ operation'.head = operation.head
    BY <1>3, <2>1, OperationGoesOn
  <2> QED BY <2>2 DEF next
<1>6. Cached' = head
  BY <1>3, <1>5 DEF Cached
<1>7. Move(e, r, best, head, {})
  BY DEF Move, Enacted, Retracted
<1> HIDE DEF head, e, r
<1>8. CacheOk(cache', Cached', {})
  BY <1>1, <1>3, <1>4, <1>6, <1>7, SyncGood
<1>9. CacheInv'
  BY <1>1, <1>8, CacheOkStays
<1>10. BlocksOk'
  BY <1>1, <1>2 DEF BlocksOk
<1>11. OperationOk'
  BY <1>2, <1>5 DEF OperationOk
<1> QED BY <1>9, <1>10, <1>11 DEF IInv

\* The best block becomes the one that the cache is for.
LEMMA UpdateMetaKeeps ==
  ASSUME IInv, UpdateMeta
  PROVE  IInv'
<1>1. /\ operation # None /\ operation.next = "update_meta"
      /\ best' = IF operation.head # None THEN operation.head
                 ELSE IF operation.is_best THEN operation.commit ELSE best
      /\ finalized' = operation.finalized /\ operation' = None
      /\ writes' = writes /\ imported' = imported /\ cache' = cache
  BY DEF UpdateMeta
<1>2. BlocksOk /\ CacheInv /\ OperationOk
  BY <1>1 DEF IInv
<1>3. /\ operation.head \in Block \cup {None} /\ operation.commit \in Block \cup {None}
      /\ operation.finalized \in Block /\ operation.is_best \in BOOLEAN
      /\ operation.is_best => operation.commit # None
  BY <1>2 DEF OperationOk, Operation
<1>4. best' \in Block
  BY <1>1, <1>2, <1>3 DEF BlocksOk
<1>5. BlocksOk'
  BY <1>1, <1>2, <1>3, <1>4 DEF BlocksOk
<1>6. Cached' = Cached
  BY <1>1 DEF Cached
<1>7. CacheInv'
  BY <1>1, <1>2, <1>6, SameCache
<1> QED BY <1>1, <1>5, <1>7 DEF IInv

\* A state that is dropped brings the values of the best block, or nothing.
LEMMA DropKeeps ==
  ASSUME IInv, NEW r \in Reader, drop(r)
  PROVE  IInv'
<1> DEFINE local == readers[r]
           parent_hash == local.parent_hash
           is_best == best = parent_hash
           c == Propagate(cache, parent_hash, local, is_best)
<1>1. /\ operation = None /\ cache' \in Evicted(c, is_best) /\ operation' = operation
      /\ writes' = writes /\ imported' = imported /\ best' = best /\ finalized' = finalized
  BY DEF drop, Join, chain
<1>2. BlocksOk /\ CacheInv
  BY DEF IInv
<1>3. CacheOk(cache, best, {}) /\ Cached' = best
  BY <1>1, <1>2 DEF CacheInv, Cached
<1>4. CacheOk(c, best, {})
  <2> HIDE DEF local, parent_hash
  <2> QED BY <1>3, PropagateGood
<1>5. is_best \in BOOLEAN
  OBVIOUS
<1> HIDE DEF c, is_best, parent_hash, local
<1>6. CacheOk(cache', Cached', {})
  BY <1>1, <1>3, <1>4, <1>5, EvictedGood
<1>7. CacheInv'
  BY <1>1, <1>6, CacheOkStays
<1>8. BlocksOk'
  BY <1>1, <1>2 DEF BlocksOk
<1> QED BY <1>1, <1>7, <1>8 DEF IInv

\* Other steps of a state, and steps of others, change neither the blocks nor the
\* cache nor the operation.
LEMMA ElsewhereKeeps ==
  ASSUME IInv, UNCHANGED <<chain, cache, operation>>
  PROVE  IInv'
<1>1. /\ writes' = writes /\ imported' = imported /\ best' = best /\ finalized' = finalized
      /\ cache' = cache /\ operation' = operation
  BY DEF chain
<1>2. BlocksOk /\ CacheInv /\ (operation # None => OperationOk)
  BY DEF IInv
<1>3. Cached' = Cached
  BY <1>1 DEF Cached
<1>4. CacheInv'
  BY <1>1, <1>2, <1>3, SameCache
<1>5. BlocksOk'
  BY <1>1, <1>2 DEF BlocksOk
<1>6. operation' # None => OperationOk'
  BY <1>1, <1>2 DEF OperationOk
<1> QED BY <1>4, <1>5, <1>6 DEF IInv

\* The invariant holds at the start.
LEMMA InitInvariant ==
  ASSUME Init
  PROVE  IInv
<1>1. BlocksOk
  BY TreeAssumption DEF Init, BlocksOk
<1>2. CacheInv
  BY EmptyCache DEF Init, CacheInv
<1> QED BY <1>1, <1>2 DEF Init, IInv

\* Every step keeps the invariant.
LEMMA NextInvariant ==
  ASSUME ~FinalizedForks, IInv, [Next]_vars
  PROVE  IInv'
<1>1. CASE \E b \in Block, is_best, final \in BOOLEAN : Import(b, is_best, final) /\ SealsOn(b, final)
  BY <1>1, ImportKeeps
<1>2. CASE \E b \in Block : Finalize(b)
  BY <1>2, FinalizeKeeps
<1>3. CASE SyncCache
  BY <1>3, SyncCacheKeeps
<1>4. CASE SyncHead
  BY <1>4, SyncHeadKeeps
<1>5. CASE UpdateMeta
  BY <1>5, UpdateMetaKeeps
<1>6. CASE \E r \in Reader, b \in Block : state_at(r, b)
  BY <1>6, ElsewhereKeeps DEF state_at
<1>7. CASE \E r \in Reader, key \in Key : storage(r, key)
  BY <1>7, ElsewhereKeeps DEF storage
<1>8. CASE \E r \in Reader, key \in TopKey : storage_hash(r, key)
  BY <1>8, ElsewhereKeeps DEF storage_hash
<1>9. CASE \E r \in Reader : drop(r)
  BY <1>9, DropKeeps
<1>10. CASE UNCHANGED vars
  BY <1>10, ElsewhereKeeps DEF vars
<1> QED BY <1>1, <1>2, <1>3, <1>4, <1>5, <1>6, <1>7, <1>8, <1>9, <1>10 DEF Next

\* As long as no final block is imported on a fork, the shared cache of
\* storage_cache.rs holds the values of one block (the best one, or during an
\* import the next best one), its list of modifications is sorted and says what is
\* so, and every entry that counts as canonical is on the chain of that block with
\* all blocks above it in the list.
THEOREM InvariantCorrect ==
  ASSUME ~FinalizedForks
  PROVE  Spec => []IInv
<1>1. Init => IInv
  BY InitInvariant
<1>2. IInv /\ [Next]_vars => IInv'
  BY NextInvariant
<1> QED BY <1>1, <1>2, PTL DEF Spec

\* As long as no final block is imported on a fork, a state of any block that
\* may take a value from the shared cache (is_allowed) gets what its database would
\* have answered.
THEOREM CacheTransparentCorrect ==
  ASSUME ~FinalizedForks
  PROVE  Spec => []CacheTransparent
<1>1. Init => IInv
  BY InitInvariant
<1>2. IInv /\ [Next]_vars => IInv'
  BY NextInvariant
<1>3. ASSUME IInv PROVE CacheTransparent
  <2>1. BlocksOk /\ CacheInv /\ (operation # None => OperationOk)
    BY <1>3 DEF IInv
  <2>2. Cached \in Block
    BY <2>1 DEF Cached, BlocksOk, OperationOk, Operation
  <2>3. CacheOk(cache, Cached, {})
    BY <2>1 DEF CacheInv
  <2>4. ASSUME NEW b \in imported, NEW key \in Key, is_allowed(key, b), cache.lru_storage[key] # None
        PROVE  cache.lru_storage[key] = ValueAt(b, key)
    <3>1. b \in Block
      BY <2>1 DEF BlocksOk
    <3> QED BY <2>2, <2>3, <2>4, <3>1, AllowedValue
  <2> QED BY <2>4 DEF CacheTransparent
<1> QED BY <1>1, <1>2, <1>3, PTL DEF Spec
=============================================================================
