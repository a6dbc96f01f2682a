---------------------------- MODULE StateDbProofs ----------------------------
(***************************************************************************)
(* Proofs about StateDb: the types of all its variables, that the database *)
(* and the transaction follow the pruning window, that the index of the    *)
(* window is exact, that nothing is left behind in the database, that the  *)
(* values in memory are counted as often as blocks insert them, and that   *)
(* the blocks in use can be read; for every tree of blocks, all states of  *)
(* them and every size of the window.                                      *)
(***************************************************************************)
EXTENDS StateDb, FiniteSetTheorems, SequenceTheorems, WellFoundedInduction, TLAPS

-----------------------------------------------------------------------------
(* Numbers                                                                 *)

\* A set of numbers has a least one.
LEMMA LeastNumber ==
  ASSUME NEW T \in SUBSET Nat, T # {}
  PROVE  \E x \in T : \A y \in T : x <= y
<1> DEFINE upto(n) == {i \in Nat : i <= n}
           U == {upto(n) : n \in T}
           R == StrictSubsetOrdering(Nat)
<1>1. U \subseteq FiniteSubsetsOf(Nat)
  <2> SUFFICES ASSUME NEW n \in T PROVE upto(n) \in FiniteSubsetsOf(Nat)
    OBVIOUS
  <2>1. IsFiniteSet(upto(n))
    BY FS_BoundedSetOfNaturals
  <2> QED BY <2>1 DEF FiniteSubsetsOf
<1>2. U # {}
  OBVIOUS
<1>3. PICK u \in U : \A w \in U : ~(<<w, u>> \in R)
  <2> HIDE DEF U
  <2> QED BY <1>1, <1>2, WFMin, FS_StrictSubsetOrderingWellFounded
<1>4. PICK x \in T : u = upto(x)
  OBVIOUS
<1>5. ASSUME NEW y \in T, y < x PROVE FALSE
  <2>1. upto(y) \in U
    OBVIOUS
  <2>2. upto(y) \subseteq upto(x) /\ upto(y) # upto(x)
    <3>1. x \in upto(x) /\ x \notin upto(y)
      BY <1>5
    <3> QED BY <3>1, <1>5
  <2>3. <<upto(y), upto(x)>> \in R
    BY <2>2 DEF StrictSubsetOrdering
  <2> QED BY <2>1, <2>3, <1>3, <1>4
<1> QED BY <1>5

\* A set that holds a number, and the successor of each of its numbers below the
\* bound n, holds all numbers up to n.
LEMMA UpTo ==
  ASSUME NEW m \in Nat, NEW n \in Nat, NEW S, m \in S, \A i \in m .. n - 1 : i \in S => i + 1 \in S
  PROVE  \A i \in m .. n : i \in S
<1> DEFINE T == {i \in m .. n : i \notin S}
<1> SUFFICES ASSUME T # {} PROVE FALSE
  OBVIOUS
<1>1. T \in SUBSET Nat
  OBVIOUS
<1>2. PICK x \in T : \A y \in T : x <= y
  <2> HIDE DEF T
  <2> QED BY <1>1, LeastNumber
<1>3. x \in m .. n /\ x # m
  OBVIOUS
<1>4. x - 1 \in m .. n - 1 /\ (x - 1) + 1 = x /\ x - 1 < x
  BY <1>3
<1>5. x - 1 \notin T
  BY <1>2, <1>4
<1>6. x - 1 \in S
  BY <1>4, <1>5
<1> QED BY <1>4, <1>6


-----------------------------------------------------------------------------
(* The tree                                                                *)

\* What holds of the genesis block, and of every block whose parent has it,
\* holds of all blocks.
LEMMA TreeInduction ==
  ASSUME NEW S, Genesis \in S, \A b \in Block \ {Genesis} : Parent[b] \in S => b \in S
  PROVE  Block \subseteq S
<1> SUFFICES ASSUME Block \ S # {} PROVE FALSE
  OBVIOUS
<1>1. Block \ S \in SUBSET (Block \ {Genesis})
  OBVIOUS
<1>2. PICK b \in Block \ S : Parent[b] \notin Block \ S
  BY <1>1, BlockAssumption
<1>3. Parent[b] \in S
  BY <1>1, <1>2, BlockAssumption
<1> QED BY <1>2, <1>3

\* The equation of Ancestors, of a function f.
IsAncestors(f) ==
  f = [b \in Block |-> IF b = Genesis THEN {b} ELSE {b} \cup f[Parent[b]]]

\* The equation has a solution: the least sets that are closed under Parent.
LEMMA AncestorsExists == \E f : IsAncestors(f)
<1> DEFINE Closed(S) == \A y \in S \ {Genesis} : Parent[y] \in S
           Up(b) == {x \in Block : \A S \in SUBSET Block : b \in S /\ Closed(S) => x \in S}
           f == [b \in Block |-> Up(b)]
<1>1. ASSUME NEW b \in Block PROVE b \in Up(b) /\ Closed(Up(b)) /\ Up(b) \in SUBSET Block
  BY BlockAssumption
<1>2. ASSUME NEW b \in Block, NEW S \in SUBSET Block, b \in S, Closed(S) PROVE Up(b) \subseteq S
  BY <1>2
<1>3. ASSUME NEW b \in Block \ {Genesis} PROVE Up(b) = {b} \cup Up(Parent[b])
  <2>1. Parent[b] \in Block
    BY BlockAssumption
  <2>2. Parent[b] \in Up(b) /\ Closed(Up(b)) /\ b \in Up(b) /\ Up(b) \in SUBSET Block
    BY <1>1
  <2>3. Up(Parent[b]) \subseteq Up(b)
    <3> HIDE DEF Up, Closed
    <3> QED BY <2>1, <2>2, <1>2
  <2>4. /\ {b} \cup Up(Parent[b]) \in SUBSET Block /\ Closed({b} \cup Up(Parent[b]))
        /\ b \in {b} \cup Up(Parent[b])
    <3> HIDE DEF Up
    <3> QED BY <2>1, <1>1
  <2>5. Up(b) \subseteq {b} \cup Up(Parent[b])
    <3> HIDE DEF Up, Closed
    <3> QED BY <2>4, <1>2
  <2> HIDE DEF Up, Closed
  <2> QED BY <2>2, <2>3, <2>5
<1>4. Up(Genesis) = {Genesis}
  <2>1. {Genesis} \in SUBSET Block /\ Closed({Genesis})
    BY BlockAssumption
  <2>2. Up(Genesis) \subseteq {Genesis} /\ Genesis \in Up(Genesis)
    <3> HIDE DEF Up, Closed
    <3> QED BY <2>1, <1>1, <1>2, BlockAssumption
  <2> QED BY <2>2
<1> HIDE DEF Up, Closed
<1>5. \A b \in Block \ {Genesis} : Parent[b] \in Block
  BY BlockAssumption
<1>6. \A b \in Block : f[b] = IF b = Genesis THEN {b} ELSE {b} \cup f[Parent[b]]
  BY <1>3, <1>4, <1>5
<1>7. f = [b \in Block |-> IF b = Genesis THEN {b} ELSE {b} \cup f[Parent[b]]]
  BY <1>6
<1> QED BY <1>7 DEF IsAncestors

\* Ancestors solves its equation.
LEMMA AncestorsEquation == IsAncestors(Ancestors)
<1>1. Ancestors = CHOOSE f : IsAncestors(f)
  BY DEF Ancestors, IsAncestors
<1> QED BY <1>1, AncestorsExists

\* The chain of a block: the block and the chain of its parent.
LEMMA AncestorsIs ==
  ASSUME NEW b \in Block
  PROVE  /\ b = Genesis => Ancestors[b] = {b}
         /\ b # Genesis => Parent[b] \in Block /\ Ancestors[b] = {b} \cup Ancestors[Parent[b]]
<1>1. Ancestors[b] = IF b = Genesis THEN {b} ELSE {b} \cup Ancestors[Parent[b]]
  BY AncestorsEquation DEF IsAncestors
<1> QED BY <1>1, BlockAssumption

\* A chain is a finite set of blocks, the block among them.
LEMMA AncestorsBlocks ==
  ASSUME NEW b \in Block
  PROVE  b \in Ancestors[b] /\ Ancestors[b] \in SUBSET Block /\ IsFiniteSet(Ancestors[b])
<1> DEFINE S == {x \in Block : Ancestors[x] \in SUBSET Block /\ IsFiniteSet(Ancestors[x])}
<1>1. Genesis \in S
  <2>1. Ancestors[Genesis] = {} \cup {Genesis} /\ Genesis \in Block
    BY BlockAssumption, AncestorsIs
  <2>2. IsFiniteSet({} \cup {Genesis})
    BY FS_EmptySet, FS_AddElement
  <2> QED BY <2>1, <2>2
<1>2. ASSUME NEW x \in Block \ {Genesis}, Parent[x] \in S PROVE x \in S
  <2>1. Ancestors[x] = Ancestors[Parent[x]] \cup {x}
    BY AncestorsIs
  <2> QED BY <1>2, <2>1, FS_AddElement
<1>3. Block \subseteq S
  <2> HIDE DEF S
  <2> QED BY <1>1, <1>2, TreeInduction
<1> QED BY <1>3, AncestorsIs

\* The chain of an ancestor is a part of the chain.
LEMMA AncestorsNested ==
  ASSUME NEW b \in Block, NEW x \in Ancestors[b]
  PROVE  x \in Block /\ Ancestors[x] \subseteq Ancestors[b]
<1> DEFINE S == {y \in Block : \A z \in Ancestors[y] : Ancestors[z] \subseteq Ancestors[y]}
<1>1. Genesis \in S
  BY BlockAssumption, AncestorsIs
<1>2. ASSUME NEW y \in Block \ {Genesis}, Parent[y] \in S PROVE y \in S
  BY <1>2, AncestorsIs
<1>3. Block \subseteq S
  <2> HIDE DEF S
  <2> QED BY <1>1, <1>2, TreeInduction
<1> QED BY <1>3, AncestorsBlocks

\* Two blocks are not ancestors of each other.
LEMMA AncestorsAntisymmetric ==
  ASSUME NEW b \in Block, NEW x \in Ancestors[b], b \in Ancestors[x]
  PROVE  x = b
<1> DEFINE S == {y \in Block : \A z \in Ancestors[y] : y \in Ancestors[z] => z = y}
<1>1. Genesis \in S
  BY BlockAssumption, AncestorsIs
<1>2. ASSUME NEW y \in Block \ {Genesis}, Parent[y] \in S PROVE y \in S
  <2> SUFFICES ASSUME NEW z \in Ancestors[y], y \in Ancestors[z], z # y PROVE FALSE
    OBVIOUS
  <2>1. Parent[y] \in Block /\ z \in Ancestors[Parent[y]] /\ z \in Block
    BY AncestorsIs, AncestorsNested
  <2>2. Parent[y] \in Ancestors[y] /\ Parent[y] \in Ancestors[Parent[y]]
    BY <2>1, AncestorsIs, AncestorsBlocks
  <2>3. Parent[y] \in Ancestors[z] /\ y \in Ancestors[Parent[y]]
    BY <2>1, <2>2, AncestorsNested
  <2>4. y = Parent[y]
    BY <1>2, <2>2, <2>3
  <2>5. {y} \in SUBSET (Block \ {Genesis}) /\ {y} # {}
    OBVIOUS
  <2>6. \E v \in {y} : Parent[v] \notin {y}
    BY <2>5, BlockAssumption
  <2> QED BY <2>4, <2>6
<1>3. Block \subseteq S
  <2> HIDE DEF S
  <2> QED BY <1>1, <1>2, TreeInduction
<1> QED BY <1>3

\* A block is not among the ancestors of its parent.
LEMMA NotBelowParent ==
  ASSUME NEW b \in Block \ {Genesis}
  PROVE  b \notin Ancestors[Parent[b]]
<1> SUFFICES ASSUME b \in Ancestors[Parent[b]] PROVE FALSE
  OBVIOUS
<1>1. Parent[b] \in Block /\ Parent[b] \in Ancestors[b]
  BY AncestorsIs, AncestorsBlocks
<1>2. b = Parent[b]
  BY <1>1, AncestorsAntisymmetric
<1>3. {b} \in SUBSET (Block \ {Genesis}) /\ {b} # {}
  OBVIOUS
<1>4. \E v \in {b} : Parent[v] \notin {b}
  BY <1>3, BlockAssumption
<1> QED BY <1>2, <1>4

\* Numbers are natural numbers; the genesis block has 0 and every other block
\* the number after its parent's.
LEMMA NumberIs ==
  ASSUME NEW b \in Block
  PROVE  /\ Number(b) \in Nat
         /\ b = Genesis => Number(b) = 0
         /\ b # Genesis => Parent[b] \in Block /\ Number(b) = Number(Parent[b]) + 1
<1>0. \A c \in Block : IsFiniteSet(Ancestors[c]) /\ Cardinality(Ancestors[c]) \in Nat
  BY AncestorsBlocks, FS_CardinalityType
<1>1. CASE b = Genesis
  <2>1. Ancestors[b] = {b}
    BY <1>1, AncestorsIs
  <2>2. Cardinality({b}) = 1
    BY FS_Singleton
  <2> QED BY <1>1, <2>1, <2>2 DEF Number
<1>2. CASE b # Genesis
  <2>1. Parent[b] \in Block /\ Ancestors[b] = Ancestors[Parent[b]] \cup {b}
    BY <1>2, AncestorsIs
  <2>2. b \notin Ancestors[Parent[b]]
    BY <1>2, NotBelowParent
  <2>3. IsFiniteSet(Ancestors[Parent[b]]) /\ Cardinality(Ancestors[Parent[b]]) \in Nat
    BY <1>0, <2>1
  <2>4. Cardinality(Ancestors[b]) = Cardinality(Ancestors[Parent[b]]) + 1
    BY <2>1, <2>2, <2>3, FS_AddElement
  <2>5. Parent[b] \in Ancestors[Parent[b]]
    BY <2>1, AncestorsBlocks
  <2>6. Cardinality(Ancestors[Parent[b]]) # 0
    BY <2>3, <2>5, FS_EmptySet
  <2> QED BY <1>2, <2>1, <2>3, <2>4, <2>6 DEF Number
<1> QED BY <1>1, <1>2
-----------------------------------------------------------------------------
(* Loops                                                                   *)

\* Among as many disjoint sets of records as there are records, and one more,
\* there is an empty one.
LEMMA FirstGap ==
  ASSUME NEW J, IsFiniteSet(J), NEW rec \in [Nat -> SUBSET J],
         \A i, j \in Nat : i # j => rec[i] \cap rec[j] = {}
  PROVE  \E c \in 0 .. Cardinality(J) : rec[c] = {} /\ \A i \in 0 .. c - 1 : rec[i] # {}
<1> DEFINE N == Cardinality(J)
           T == {c \in 0 .. N : rec[c] = {}}
           f == [c \in 0 .. N |-> CHOOSE r \in rec[c] : TRUE]
<1>0. N \in Nat
  BY FS_CardinalityType
<1>1. T # {}
  <2> SUFFICES ASSUME T = {} PROVE FALSE
    OBVIOUS
  <2>1. \A c \in 0 .. N : f[c] \in rec[c] /\ f[c] \in J
    BY <1>0
  <2>2. f \in [0 .. N -> J]
    BY <2>1
  <2>3. IsFiniteSet(0 .. N) /\ Cardinality(0 .. N) = N + 1
    BY <1>0, FS_Interval
  <2> HIDE DEF f
  <2>4. \E x, y \in 0 .. N : x # y /\ f[x] = f[y]
    <3> DEFINE D == 0 .. N
    <3>1. Cardinality(J) < Cardinality(D) /\ IsFiniteSet(D) /\ f \in [D -> J]
      BY <1>0, <2>2, <2>3
    <3> HIDE DEF D
    <3>2. \E x, y \in D : x # y /\ f[x] = f[y]
      BY <3>1, FS_PigeonHole
    <3> QED BY <3>2 DEF D
  <2> QED BY <1>0, <2>1, <2>4
<1>2. T \in SUBSET Nat
  BY <1>0
<1>3. PICK c \in T : \A y \in T : c <= y
  <2> HIDE DEF T
  <2> QED BY <1>1, <1>2, LeastNumber
<1>4. c \in 0 .. N /\ rec[c] = {}
  OBVIOUS
<1>5. \A i \in 0 .. c - 1 : i \in 0 .. N /\ i < c
  BY <1>0, <1>4
<1>6. \A i \in 0 .. c - 1 : rec[i] # {}
  BY <1>3, <1>4, <1>5
<1> QED BY <1>4, <1>6

\* The equation of the loop of apply_canonicalizations, for its first m turns.
IsApplied(f, n, p, m) ==
  f = [i \in 0 .. m |-> IF i = 0 THEN n ELSE apply_canonicalization(f[i - 1], p[i])]

\* It has a solution.
LEMMA AppliedExists ==
  ASSUME NEW n, NEW p, NEW m \in Nat
  PROVE  \E f : IsApplied(f, n, p, m)
<1> DEFINE S == {i \in Nat : \E f : IsApplied(f, n, p, i)}
<1>1. 0 \in S
  <2> DEFINE f == [i \in 0 .. 0 |-> n]
  <2>1. f = [i \in 0 .. 0 |-> IF i = 0 THEN n ELSE apply_canonicalization(f[i - 1], p[i])]
    OBVIOUS
  <2> QED BY <2>1 DEF IsApplied
<1>2. ASSUME NEW i \in 0 .. m - 1, i \in S PROVE i + 1 \in S
  <2>1. PICK f : IsApplied(f, n, p, i)
    BY <1>2
  <2> DEFINE h == [j \in 0 .. i + 1 |-> IF j = i + 1 THEN apply_canonicalization(f[i], p[j]) ELSE f[j]]
  <2>2. ASSUME NEW j \in 0 .. i + 1
        PROVE  h[j] = IF j = 0 THEN n ELSE apply_canonicalization(h[j - 1], p[j])
    <3>1. CASE j = i + 1
      <4>1. j - 1 = i /\ i \in 0 .. i + 1 /\ i # i + 1 /\ j # 0
        BY <3>1
      <4>2. h[i] = f[i] /\ h[j] = apply_canonicalization(f[i], p[j])
        BY <3>1, <4>1
      <4> HIDE DEF h
      <4> QED BY <4>1, <4>2
    <3>2. CASE j # i + 1
      <4>1. j \in 0 .. i /\ h[j] = f[j]
        BY <3>2
      <4>2. f[j] = IF j = 0 THEN n ELSE apply_canonicalization(f[j - 1], p[j])
        BY <4>1, <2>1 DEF IsApplied
      <4>3. j # 0 => h[j - 1] = f[j - 1]
        BY <4>1
      <4> HIDE DEF h
      <4> QED BY <4>1, <4>2, <4>3
    <3> QED BY <3>1, <3>2
  <2>3. h = [j \in 0 .. i + 1 |-> IF j = 0 THEN n ELSE apply_canonicalization(h[j - 1], p[j])]
    BY <2>2
  <2> HIDE DEF h
  <2> QED BY <2>3 DEF IsApplied
<1>3. \A i \in 0 .. m : i \in S
  <2> HIDE DEF S
  <2> QED BY <1>1, <1>2, UpTo
<1> QED BY <1>3

\* The loop of apply_canonicalizations goes from n over f[1], f[2], ... to a.
AppliedBy(f, n, p, a) ==
  /\ f[0] = n
  /\ \A i \in 1 .. Len(p) : f[i] = apply_canonicalization(f[i - 1], p[i])
  /\ a = [f[Len(p)] EXCEPT !.last_hash   = Last(p),
                           !.last_number = @ + Len(p),
                           !.pending_canonicalizations = <<>>]

\* The loop of apply_canonicalizations, turn by turn.
LEMMA AppliedIs ==
  ASSUME NEW n, NEW p, p = n.pending_canonicalizations, p \in Seq(Block), p # <<>>
  PROVE  \E f : AppliedBy(f, n, p, apply_canonicalizations(n))
<1> DEFINE f == CHOOSE h : IsApplied(h, n, p, Len(p))
<1>0. Len(p) \in Nat
  OBVIOUS
<1>1. IsApplied(f, n, p, Len(p))
  <2>1. \E h : IsApplied(h, n, p, Len(p))
    BY <1>0, AppliedExists
  <2> QED BY <2>1
<1>2. apply_canonicalizations(n) =
        [f[Len(p)] EXCEPT !.last_hash   = Last(p),
                          !.last_number = @ + Len(p),
                          !.pending_canonicalizations = <<>>]
  BY DEF apply_canonicalizations, IsApplied
<1> HIDE DEF f
<1>3. f[0] = n /\ \A i \in 1 .. Len(p) : f[i] = apply_canonicalization(f[i - 1], p[i])
  BY <1>0, <1>1 DEF IsApplied
<1> QED BY <1>2, <1>3 DEF AppliedBy

\* One insertion at most is pending when a failed operation is undone: the
\* loop of revert_insertions makes one turn or none.
LEMMA RevertedIs ==
  ASSUME NEW n, NEW p, p = n.pending_insertions, p \in Seq(Block), Len(p) <= 1
  PROVE  noncanonical_revert_pending(n) =
           [(IF p = <<>> THEN n ELSE revert_insertion(n, p[1]))
              EXCEPT !.pending_canonicalizations = <<>>, !.pending_insertions = <<>>]
<1> DEFINE Is(h) == h = [i \in 0 .. Len(p) |-> IF i = 0 THEN n
                                              ELSE revert_insertion(h[i - 1], p[Len(p) - i + 1])]
           f == CHOOSE h : Is(h)
           g == [i \in 0 .. Len(p) |-> IF i = 0 THEN n ELSE revert_insertion(n, p[1])]
<1>0. Len(p) \in {0, 1} /\ (p = <<>> <=> Len(p) = 0)
  <2>1. Len(p) \in Nat /\ (p # <<>> => Len(p) \in Nat \ {0}) /\ Len(<<>>) = 0
    BY EmptySeq, LenProperties
  <2>2. \A x \in Nat : x <= 1 => x \in {0, 1}
    OBVIOUS
  <2>3. p = <<>> => Len(p) = 0
    BY <2>1
  <2> HIDE DEF g, f, Is
  <2> QED BY <2>1, <2>2, <2>3
<1>1. Is(g)
  <2>1. ASSUME NEW i \in 0 .. Len(p)
        PROVE  g[i] = IF i = 0 THEN n ELSE revert_insertion(g[i - 1], p[Len(p) - i + 1])
    <3>1. CASE i = 0
      BY <3>1
    <3>2. CASE i # 0
      <4>1. i = 1 /\ Len(p) = 1 /\ i - 1 = 0 /\ Len(p) - i + 1 = 1 /\ 0 \in 0 .. Len(p)
        BY <1>0, <3>2
      <4>2. g[i - 1] = n /\ g[i] = revert_insertion(n, p[1])
        BY <4>1
      <4> HIDE DEF g
      <4> QED BY <4>1, <4>2
    <3> QED BY <3>1, <3>2
  <2>2. g = [i \in 0 .. Len(p) |-> IF i = 0 THEN n
                                  ELSE revert_insertion(g[i - 1], p[Len(p) - i + 1])]
    BY <2>1
  <2> HIDE DEF g
  <2> QED BY <2>2
<1>2. Is(f)
  <2> HIDE DEF g, Is
  <2>1. \E h : Is(h)
    BY <1>1
  <2> QED BY <2>1
<1>3. noncanonical_revert_pending(n) =
        [f[Len(p)] EXCEPT !.pending_canonicalizations = <<>>, !.pending_insertions = <<>>]
  BY DEF noncanonical_revert_pending
<1> HIDE DEF f
<1>4. f[Len(p)] = IF p = <<>> THEN n ELSE revert_insertion(n, p[1])
  <2>1. \A i \in 0 .. Len(p) : f[i] = IF i = 0 THEN n ELSE revert_insertion(f[i - 1], p[Len(p) - i + 1])
    BY <1>2
  <2>2. 0 \in 0 .. Len(p) /\ Len(p) \in 0 .. Len(p)
    BY <1>0
  <2>3. f[0] = n
    BY <2>1, <2>2
  <2>4. CASE Len(p) = 0
    BY <1>0, <2>3, <2>4
  <2>5. CASE Len(p) = 1
    <3>1. f[1] = revert_insertion(f[1 - 1], p[1 - 1 + 1])
      BY <2>1, <2>2, <2>5
    <3>2. 1 - 1 = 0 /\ 1 - 1 + 1 = 1
      OBVIOUS
    <3>3. f[1] = revert_insertion(f[0], p[1])
      BY <3>1, <3>2
    <3> QED BY <1>0, <2>3, <2>5, <3>3
  <2> QED BY <1>0, <2>4, <2>5
<1> QED BY <1>3, <1>4
-----------------------------------------------------------------------------
(* The pruning window                                                      *)

NumRows(w) == Len(w.death_rows)

\* The rows that are there whether or not the operation under way succeeds.
Settled(w) == NumRows(w) - w.pending_canonicalizations

\* Every key is in at most one row, the one that the index names.
Exact(w) ==
  \A k \in Key :
    /\ w.death_index[k] \in {-1} \cup w.pending_number .. w.pending_number + NumRows(w) - 1
    /\ \A i \in 1 .. NumRows(w) :
         k \in w.death_rows[i].deleted <=> w.death_index[k] = w.pending_number + i - 1

\* The rows are those of consecutive blocks.
Linked(w) ==
  \A i \in 1 .. NumRows(w) - 1 : ParentOf(w.death_rows[i + 1].hash) = w.death_rows[i].hash

\* The keys of the first n rows are not in the state of the block of the last
\* of them.
Dead(w, n) ==
  \A i \in 1 .. n : w.death_rows[i].deleted \cap State[w.death_rows[n].hash] = {}

\* The window v is w with a row for block b, whose insertions are in no row.
ImportShape(v, w, b) ==
  /\ v.pending_number = w.pending_number
  /\ v.pending_canonicalizations = w.pending_canonicalizations
  /\ v.pending_prunings = w.pending_prunings
  /\ NumRows(v) = NumRows(w) + 1
  /\ \A i \in 1 .. NumRows(w) : /\ v.death_rows[i].hash = w.death_rows[i].hash
                                /\ v.death_rows[i].deleted = w.death_rows[i].deleted \ Inserted(b)
  /\ v.death_rows[NumRows(w) + 1].hash = b
  /\ v.death_rows[NumRows(w) + 1].deleted = Deleted(b)
  /\ \A k \in Key : v.death_index[k] = IF k \in Deleted(b) THEN w.pending_number + NumRows(w)
                                       ELSE IF k \in Inserted(b) THEN -1 ELSE w.death_index[k]

\* What a block inserts and deletes, and what its state and that of its parent
\* have of it.
LEMMA ChangesAre ==
  ASSUME NEW b \in Block
  PROVE  /\ Inserted(b) \in SUBSET Key /\ Deleted(b) \in SUBSET Key /\ State[b] \in SUBSET Key
         /\ Inserted(b) \cap Deleted(b) = {} /\ Deleted(b) \cap State[b] = {}
         /\ Inserted(b) \subseteq State[b]
         /\ b = Genesis => State[b] \subseteq Inserted(b) /\ Deleted(b) = {}
         /\ b # Genesis => /\ Deleted(b) \subseteq State[Parent[b]]
                           /\ State[b] \subseteq State[Parent[b]] \cup Inserted(b)
                           /\ State[Parent[b]] \subseteq State[b] \cup Deleted(b)
<1>1. b # Genesis => Parent[b] \in Block
  BY BlockAssumption
<1>2. \A c \in Block : State[c] \in SUBSET Key
  BY StateAssumption
<1> QED BY <1>1, <1>2 DEF Inserted, Deleted

\* The fields of a window.
LEMMA WindowFields ==
  ASSUME NEW w \in RefWindows
  PROVE  /\ w.death_rows \in Seq(DeathRow) /\ NumRows(w) \in Nat
         /\ DOMAIN w.death_rows = 1 .. NumRows(w)
         /\ \A i \in 1 .. NumRows(w) : /\ w.death_rows[i] \in DeathRow
                                       /\ w.death_rows[i].hash \in Block
                                       /\ w.death_rows[i].deleted \in SUBSET Key
         /\ w.death_index \in [Key -> Nat \cup {-1}]
         /\ w.pending_number \in Nat /\ w.pending_canonicalizations \in Nat /\ w.pending_prunings \in Nat
<1>1. /\ w.death_rows \in Seq(DeathRow) /\ w.death_index \in [Key -> Nat \cup {-1}]
      /\ w.pending_number \in Nat /\ w.pending_canonicalizations \in Nat /\ w.pending_prunings \in Nat
  BY DEF RefWindows
<1>2. NumRows(w) \in Nat /\ DOMAIN w.death_rows = 1 .. NumRows(w)
  BY <1>1, LenProperties DEF NumRows
<1>3. \A i \in 1 .. NumRows(w) : w.death_rows[i] \in DeathRow
  BY <1>1, ElementOfSeq DEF NumRows
<1> QED BY <1>1, <1>2, <1>3 DEF DeathRow

\* import takes the keys that the block inserts again from the rows that the
\* index names.
LEMMA ImportRows ==
  ASSUME NEW w \in RefWindows, Exact(w), NEW b \in Block
  PROVE  import(w, b) \in RefWindows /\ ImportShape(import(w, b), w, b)
<1> DEFINE revived  == {k \in Inserted(b) : w.death_index[k] # -1}
           imported == w.pending_number + NumRows(w)
           row(i)   == {k \in revived : w.death_index[k] - w.pending_number + 1 = i}
           cut      == [i \in 1 .. NumRows(w) |-> without(w.death_rows[i], row(i))]
           new      == [hash |-> b, deleted |-> Deleted(b)]
           index    == [k \in Key |-> IF k \in Deleted(b) THEN imported
                                      ELSE IF k \in revived THEN -1 ELSE w.death_index[k]]
           v        == import(w, b)
<1>1. v = [w EXCEPT !.death_index = index, !.death_rows = Append(cut, new)]
  <2> DEFINE all == [i \in DOMAIN w.death_rows |-> without(w.death_rows[i], row(i))]
  <2>1. v = [w EXCEPT !.death_index = index, !.death_rows = Append(all, new)]
    BY DEF import, NumRows
  <2>2. all = cut
    BY WindowFields
  <2> HIDE DEF all, cut, v, index, new
  <2> QED BY <2>1, <2>2
<1>2. /\ Inserted(b) \in SUBSET Key /\ Deleted(b) \in SUBSET Key
  BY ChangesAre
<1>3. \A i \in 1 .. NumRows(w) : /\ w.death_rows[i] \in DeathRow /\ w.death_rows[i].hash \in Block
                                 /\ w.death_rows[i].deleted \in SUBSET Key
  BY WindowFields
<1>4. ASSUME NEW i \in 1 .. NumRows(w)
      PROVE  w.death_rows[i].deleted \ row(i) = w.death_rows[i].deleted \ Inserted(b)
  <2>1. \A k \in w.death_rows[i].deleted : w.death_index[k] = w.pending_number + i - 1
    BY <1>3 DEF Exact
  <2>2. w.pending_number \in Nat /\ i \in Nat /\ i >= 1
    BY WindowFields
  <2>3. w.pending_number + i - 1 # -1 /\ (w.pending_number + i - 1) - w.pending_number + 1 = i
    BY <2>2
  <2>4. \A k \in w.death_rows[i].deleted : k \in Inserted(b) <=> k \in row(i)
    BY <2>1, <2>3
  <2> QED BY <2>4
<1>5. ASSUME NEW i \in 1 .. NumRows(w)
      PROVE  cut[i] \in DeathRow /\ cut[i].hash = w.death_rows[i].hash
             /\ cut[i].deleted = w.death_rows[i].deleted \ Inserted(b)
  <2>1. cut[i] = [w.death_rows[i] EXCEPT !.deleted = w.death_rows[i].deleted \ Inserted(b)]
    BY <1>4 DEF without
  <2> HIDE DEF cut
  <2> QED BY <1>3, <2>1 DEF DeathRow
<1> HIDE DEF row
<1>6. cut \in Seq(DeathRow) /\ Len(cut) = NumRows(w)
  <2>1. NumRows(w) \in Nat /\ cut \in [1 .. NumRows(w) -> DeathRow]
    BY <1>5, WindowFields
  <2> HIDE DEF cut
  <2> QED BY <2>1
<1>7. new \in DeathRow /\ new.hash = b /\ new.deleted = Deleted(b)
  BY <1>2 DEF DeathRow
<1>8. /\ Append(cut, new) \in Seq(DeathRow) /\ Len(Append(cut, new)) = NumRows(w) + 1
      /\ \A i \in 1 .. NumRows(w) : Append(cut, new)[i] = cut[i]
      /\ Append(cut, new)[NumRows(w) + 1] = new
  <2> HIDE DEF cut, new
  <2> QED BY <1>6, <1>7, AppendProperties
<1>9. index \in [Key -> Nat \cup {-1}]
  <2>1. imported \in Nat /\ w.death_index \in [Key -> Nat \cup {-1}]
    BY WindowFields
  <2> HIDE DEF imported, revived
  <2> QED BY <2>1
<1>10. \A k \in Key : index[k] = IF k \in Deleted(b) THEN imported
                                 ELSE IF k \in Inserted(b) THEN -1 ELSE w.death_index[k]
  OBVIOUS
<1> HIDE DEF index, cut, new, v
<1>11. /\ v.death_index = index /\ v.death_rows = Append(cut, new)
       /\ v.pending_number = w.pending_number
       /\ v.pending_canonicalizations = w.pending_canonicalizations
       /\ v.pending_prunings = w.pending_prunings
       /\ v \in RefWindows
  BY <1>1, <1>8, <1>9 DEF RefWindows
<1>12. ImportShape(v, w, b)
  <2>1. NumRows(v) = NumRows(w) + 1
    BY <1>8, <1>11 DEF NumRows
  <2>2. \A i \in 1 .. NumRows(w) : /\ v.death_rows[i].hash = w.death_rows[i].hash
                                   /\ v.death_rows[i].deleted = w.death_rows[i].deleted \ Inserted(b)
    BY <1>5, <1>8, <1>11
  <2>3. v.death_rows[NumRows(w) + 1].hash = b /\ v.death_rows[NumRows(w) + 1].deleted = Deleted(b)
    BY <1>7, <1>8, <1>11
  <2> QED BY <1>10, <1>11, <2>1, <2>2, <2>3 DEF ImportShape
<1> QED BY <1>11, <1>12 DEF v
\* The block that is imported next is the child of the last one, if there is
\* one.
Follows(w, b) == NumRows(w) > 0 => ParentOf(b) = w.death_rows[NumRows(w)].hash

\* A key that the next block deletes is in no row yet.
LEMMA DeletedOnce ==
  ASSUME NEW w \in RefWindows, Dead(w, NumRows(w)), NEW b \in Block, Follows(w, b)
  PROVE  \A i \in 1 .. NumRows(w) : w.death_rows[i].deleted \cap Deleted(b) = {}
<1> SUFFICES ASSUME NEW i \in 1 .. NumRows(w) PROVE w.death_rows[i].deleted \cap Deleted(b) = {}
  OBVIOUS
<1>1. NumRows(w) \in Nat /\ NumRows(w) > 0 /\ NumRows(w) \in 1 .. NumRows(w)
  BY WindowFields
<1>2. ParentOf(b) = w.death_rows[NumRows(w)].hash /\ w.death_rows[NumRows(w)].hash \in Block
  BY <1>1, WindowFields DEF Follows
<1>3. b # Genesis /\ Parent[b] = w.death_rows[NumRows(w)].hash
  BY <1>2, BlockAssumption DEF ParentOf
<1>4. Deleted(b) \subseteq State[w.death_rows[NumRows(w)].hash]
  BY <1>3, ChangesAre
<1> QED BY <1>4 DEF Dead

\* The index stays exact when a block is imported.
LEMMA ImportExact ==
  ASSUME NEW w \in RefWindows, NEW v \in RefWindows, NEW b \in Block, ImportShape(v, w, b),
         Exact(w), Dead(w, NumRows(w)), Follows(w, b)
  PROVE  Exact(v)
<1> SUFFICES ASSUME NEW k \in Key
             PROVE  /\ v.death_index[k] \in {-1} \cup v.pending_number .. v.pending_number + NumRows(v) - 1
                    /\ \A i \in 1 .. NumRows(v) :
                         k \in v.death_rows[i].deleted <=> v.death_index[k] = v.pending_number + i - 1
  BY DEF Exact
<1> DEFINE n == NumRows(w)
           p == w.pending_number
<1>0. n \in Nat /\ p \in Nat
  BY WindowFields
<1>1. v.pending_number = p /\ NumRows(v) = n + 1
  BY DEF ImportShape
<1>2. v.death_index[k] = IF k \in Deleted(b) THEN p + n ELSE IF k \in Inserted(b) THEN -1 ELSE w.death_index[k]
  BY DEF ImportShape
<1>3. \A i \in 1 .. n : k \in v.death_rows[i].deleted <=> k \in w.death_rows[i].deleted /\ k \notin Inserted(b)
  BY DEF ImportShape
<1>4. k \in v.death_rows[n + 1].deleted <=> k \in Deleted(b)
  BY DEF ImportShape
<1>5. \A i \in 1 .. n : k \in Deleted(b) => k \notin w.death_rows[i].deleted
  BY DeletedOnce
<1>6. /\ w.death_index[k] \in {-1} \cup p .. p + n - 1
      /\ \A i \in 1 .. n : k \in w.death_rows[i].deleted <=> w.death_index[k] = p + i - 1
  BY DEF Exact
<1>7. k \in Deleted(b) => k \notin Inserted(b)
  BY ChangesAre
<1>8. \A i \in 1 .. n + 1 : i \in 1 .. n \/ i = n + 1
  BY <1>0
<1> HIDE DEF n, p
<1>9. v.death_index[k] \in {-1} \cup p .. p + (n + 1) - 1
  BY <1>0, <1>2, <1>6
<1>10. ASSUME NEW i \in 1 .. n
       PROVE  k \in v.death_rows[i].deleted <=> v.death_index[k] = p + i - 1
  <2>1. p + i - 1 # p + n /\ p + i - 1 # -1
    BY <1>0
  <2>2. CASE k \in Deleted(b)
    BY <1>2, <1>3, <1>5, <2>1, <2>2
  <2>3. CASE k \notin Deleted(b) /\ k \in Inserted(b)
    BY <1>2, <1>3, <2>1, <2>3
  <2>4. CASE k \notin Deleted(b) /\ k \notin Inserted(b)
    BY <1>2, <1>3, <1>6, <2>4
  <2> QED BY <2>2, <2>3, <2>4
<1>11. k \in v.death_rows[n + 1].deleted <=> v.death_index[k] = p + (n + 1) - 1
  <2>1. p + (n + 1) - 1 = p + n /\ p + n # -1 /\ p + n \notin {-1} \cup p .. p + n - 1
    BY <1>0
  <2>2. k \notin Deleted(b) => v.death_index[k] # p + n
    BY <1>2, <1>6, <2>1
  <2> QED BY <1>2, <1>4, <2>1, <2>2
<1> QED BY <1>1, <1>8, <1>9, <1>10, <1>11

\* No key of a row is in the state of the block that is imported last.
LEMMA ImportDead ==
  ASSUME NEW w \in RefWindows, NEW v \in RefWindows, NEW b \in Block, ImportShape(v, w, b),
         Dead(w, NumRows(w)), Follows(w, b)
  PROVE  /\ Dead(v, NumRows(v))
         /\ \A m \in 0 .. NumRows(w) : Dead(w, m) => Dead(v, m)
<1>0. NumRows(w) \in Nat /\ NumRows(v) = NumRows(w) + 1 /\ v.death_rows[NumRows(v)].hash = b
  BY WindowFields DEF ImportShape
<1>1. ASSUME NEW i \in 1 .. NumRows(v) PROVE v.death_rows[i].deleted \cap State[b] = {}
  <2>1. CASE i = NumRows(w) + 1
    BY <2>1, ChangesAre DEF ImportShape
  <2>2. CASE i \in 1 .. NumRows(w)
    <3>1. v.death_rows[i].deleted = w.death_rows[i].deleted \ Inserted(b)
      BY <2>2 DEF ImportShape
    <3>2. CASE b = Genesis
      BY <3>1, <3>2, ChangesAre
    <3>3. CASE b # Genesis
      <4>1. Parent[b] = w.death_rows[NumRows(w)].hash
        BY <1>0, <2>2, <3>3 DEF Follows, ParentOf
      <4>2. w.death_rows[i].deleted \cap State[Parent[b]] = {}
        BY <2>2, <4>1 DEF Dead
      <4>3. State[b] \subseteq State[Parent[b]] \cup Inserted(b)
        BY <3>3, ChangesAre
      <4> QED BY <3>1, <4>2, <4>3
    <3> QED BY <3>2, <3>3
  <2> QED BY <1>0, <2>1, <2>2
<1>2. ASSUME NEW m \in 0 .. NumRows(w), Dead(w, m) PROVE Dead(v, m)
  <2> SUFFICES ASSUME NEW i \in 1 .. m PROVE v.death_rows[i].deleted \cap State[v.death_rows[m].hash] = {}
    BY DEF Dead
  <2>1. i \in 1 .. NumRows(w) /\ m \in 1 .. NumRows(w)
    BY <1>0
  <2>2. /\ v.death_rows[i].deleted = w.death_rows[i].deleted \ Inserted(b)
        /\ v.death_rows[m].hash = w.death_rows[m].hash
    BY <2>1 DEF ImportShape
  <2>3. w.death_rows[i].deleted \cap State[w.death_rows[m].hash] = {}
    BY <1>2 DEF Dead
  <2> QED BY <2>2, <2>3
<1> QED BY <1>0, <1>1, <1>2 DEF Dead

\* The rows stay those of consecutive blocks.
LEMMA ImportLinked ==
  ASSUME NEW w \in RefWindows, NEW v \in RefWindows, NEW b \in Block, ImportShape(v, w, b),
         Linked(w), Follows(w, b)
  PROVE  Linked(v)
<1> SUFFICES ASSUME NEW i \in 1 .. NumRows(v) - 1
             PROVE  ParentOf(v.death_rows[i + 1].hash) = v.death_rows[i].hash
  BY DEF Linked
<1>0. NumRows(w) \in Nat /\ NumRows(v) = NumRows(w) + 1
  BY WindowFields DEF ImportShape
<1>1. i \in 1 .. NumRows(w) /\ v.death_rows[i].hash = w.death_rows[i].hash
  BY <1>0 DEF ImportShape
<1>2. CASE i = NumRows(w)
  <2>1. v.death_rows[i + 1].hash = b
    BY <1>2 DEF ImportShape
  <2>2. NumRows(w) > 0
    BY <1>0, <1>1
  <2> QED BY <1>1, <1>2, <2>1, <2>2 DEF Follows
<1>3. CASE i # NumRows(w)
  <2>1. i \in 1 .. NumRows(w) - 1 /\ i + 1 \in 1 .. NumRows(w)
    BY <1>0, <1>1, <1>3
  <2>2. v.death_rows[i + 1].hash = w.death_rows[i + 1].hash
    BY <2>1 DEF ImportShape
  <2> QED BY <1>1, <2>1, <2>2 DEF Linked
<1> QED BY <1>2, <1>3
\* No row has lost a key but to a later block of the window.
Full(w) ==
  \A i \in 1 .. NumRows(w) :
    w.death_rows[i].deleted =
      Deleted(w.death_rows[i].hash) \ UNION {Inserted(w.death_rows[j].hash) : j \in i + 1 .. NumRows(w)}

\* Importing a block takes nothing else from the rows.
LEMMA ImportFull ==
  ASSUME NEW w \in RefWindows, NEW v \in RefWindows, NEW b \in Block, ImportShape(v, w, b), Full(w)
  PROVE  Full(v)
<1> DEFINE n == NumRows(w)
           Later(u, i, m) == UNION {Inserted(u.death_rows[j].hash) : j \in i + 1 .. m}
<1>0. n \in Nat /\ NumRows(v) = n + 1 /\ v.death_rows[n + 1].hash = b
      /\ \A j \in 1 .. n : v.death_rows[j].hash = w.death_rows[j].hash
  BY WindowFields DEF ImportShape
<1> SUFFICES ASSUME NEW i \in 1 .. n + 1
             PROVE  v.death_rows[i].deleted = Deleted(v.death_rows[i].hash) \ Later(v, i, n + 1)
  BY <1>0 DEF Full
<1>1. CASE i = n + 1
  <2>1. Later(v, i, n + 1) = {}
    BY <1>0, <1>1
  <2>2. v.death_rows[i].deleted = Deleted(b)
    BY <1>1 DEF ImportShape
  <2> QED BY <1>0, <1>1, <2>1, <2>2
<1>2. CASE i \in 1 .. n
  <2>1. v.death_rows[i].deleted = w.death_rows[i].deleted \ Inserted(b)
    BY <1>2 DEF ImportShape
  <2>2. w.death_rows[i].deleted = Deleted(w.death_rows[i].hash) \ Later(w, i, n)
    BY <1>2 DEF Full
  <2>3. Later(v, i, n + 1) = Later(w, i, n) \cup Inserted(b)
    <3>1. \A j \in i + 1 .. n + 1 : j = n + 1 \/ j \in i + 1 .. n
      BY <1>0
    <3>2. \A j \in i + 1 .. n : j \in 1 .. n /\ j \in i + 1 .. n + 1
      BY <1>0, <1>2
    <3>3. n + 1 \in i + 1 .. n + 1
      BY <1>0, <1>2
    <3> HIDE DEF n
    <3>4. ASSUME NEW x \in Later(v, i, n + 1) PROVE x \in Later(w, i, n) \cup Inserted(b)
      <4>1. PICK j \in i + 1 .. n + 1 : x \in Inserted(v.death_rows[j].hash)
        BY <3>4
      <4> QED BY <1>0, <3>1, <3>2, <4>1
    <3>5. ASSUME NEW x \in Later(w, i, n) \cup Inserted(b) PROVE x \in Later(v, i, n + 1)
      <4>1. CASE x \in Inserted(b)
        BY <1>0, <3>3, <4>1
      <4>2. CASE x \in Later(w, i, n)
        <5>1. PICK j \in i + 1 .. n : x \in Inserted(w.death_rows[j].hash)
          BY <4>2
        <5> QED BY <1>0, <3>2, <5>1
      <4> QED BY <3>5, <4>1, <4>2
    <3> QED BY <3>4, <3>5
  <2>4. v.death_rows[i].hash = w.death_rows[i].hash
    BY <1>0, <1>2
  <2> QED BY <2>1, <2>2, <2>3, <2>4
<1> QED BY <1>0, <1>1, <1>2

-----------------------------------------------------------------------------
(* Rebuilding the pruning window                                           *)

\* The journal record with the number after lp by i.
RecordAt(J, lp, i) == (CHOOSE r \in {r \in J : r[1] = lp + i} : TRUE)[2]

\* The equation of the loop of NewWindow, for its first m turns.
IsImported(f, J, lp, m) ==
  f = [i \in 0 .. m |-> IF i = 0 THEN EmptyWindow(lp + 1) ELSE import(f[i - 1], RecordAt(J, lp, i))]

\* It has a solution.
LEMMA ImportedExists ==
  ASSUME NEW J, NEW lp, NEW m \in Nat
  PROVE  \E f : IsImported(f, J, lp, m)
<1> DEFINE S == {i \in Nat : \E f : IsImported(f, J, lp, i)}
           n == EmptyWindow(lp + 1)
           p(i) == RecordAt(J, lp, i)
<1>0. \A f, i : IsImported(f, J, lp, i) <=> f = [j \in 0 .. i |-> IF j = 0 THEN n ELSE import(f[j - 1], p(j))]
  BY DEF IsImported
<1> HIDE DEF n, p
<1>1. 0 \in S
  <2> DEFINE f == [i \in 0 .. 0 |-> n]
  <2>1. f = [i \in 0 .. 0 |-> IF i = 0 THEN n ELSE import(f[i - 1], p(i))]
    OBVIOUS
  <2> QED BY <2>1, <1>0
<1>2. ASSUME NEW i \in 0 .. m - 1, i \in S PROVE i + 1 \in S
  <2>1. PICK f : IsImported(f, J, lp, i)
    BY <1>2
  <2> DEFINE h == [j \in 0 .. i + 1 |-> IF j = i + 1 THEN import(f[i], p(j)) ELSE f[j]]
  <2>2. ASSUME NEW j \in 0 .. i + 1
        PROVE  h[j] = IF j = 0 THEN n ELSE import(h[j - 1], p(j))
    <3>1. CASE j = i + 1
      <4>1. j - 1 = i /\ i \in 0 .. i + 1 /\ i # i + 1 /\ j # 0
        BY <3>1
      <4>2. h[i] = f[i] /\ h[j] = import(f[i], p(j))
        BY <3>1, <4>1
      <4> HIDE DEF h
      <4> QED BY <4>1, <4>2
    <3>2. CASE j # i + 1
      <4>1. j \in 0 .. i /\ h[j] = f[j]
        BY <3>2
      <4>2. f[j] = IF j = 0 THEN n ELSE import(f[j - 1], p(j))
        BY <4>1, <2>1, <1>0
      <4>3. j # 0 => h[j - 1] = f[j - 1]
        BY <4>1
      <4> HIDE DEF h
      <4> QED BY <4>1, <4>2, <4>3
    <3> QED BY <3>1, <3>2
  <2>3. h = [j \in 0 .. i + 1 |-> IF j = 0 THEN n ELSE import(h[j - 1], p(j))]
    BY <2>2
  <2> HIDE DEF h
  <2>4. IsImported(h, J, lp, i + 1)
    BY <2>3, <1>0
  <2>5. i + 1 \in Nat
    OBVIOUS
  <2> QED BY <2>4, <2>5
<1>3. \A i \in 0 .. m : i \in S
  <2> HIDE DEF S
  <2> QED BY <1>1, <1>2, UpTo
<1> QED BY <1>3

\* The journal of the pruning window that has the records of the blocks h after
\* number lp.
Records(lp, h) == {<<lp + i, h[i]>> : i \in 1 .. Len(h)}

\* NewWindow imports the blocks of the journal one by one.
LEMMA NewWindowLoop ==
  ASSUME NEW lp \in Nat \cup {-1}, NEW h \in Seq(Block), NEW J, J = Records(lp, h)
  PROVE  \E f : /\ f[0] = EmptyWindow(lp + 1)
                /\ \A i \in 1 .. Len(h) : f[i] = import(f[i - 1], h[i])
                /\ NewWindow(J, lp) = f[Len(h)]
<1> DEFINE n == Len(h)
           rec(m) == {r \in J : r[1] = m}
           IsCount(c) == rec(lp + 1 + c) = {} /\ \A i \in 1 .. c : rec(lp + i) # {}
           count == CHOOSE c \in 0 .. Cardinality(J) : IsCount(c)
           f == CHOOSE g : IsImported(g, J, lp, count)
<1>0. n \in Nat /\ lp \in Int
  BY LenProperties
<1>1. \A i \in 1 .. n : rec(lp + i) = {<<lp + i, h[i]>>}
  <2> SUFFICES ASSUME NEW i \in 1 .. n PROVE rec(lp + i) = {<<lp + i, h[i]>>}
    OBVIOUS
  <2>1. ASSUME NEW r \in rec(lp + i) PROVE r = <<lp + i, h[i]>>
    <3>1. PICK j \in 1 .. n : r = <<lp + j, h[j]>>
      BY DEF Records
    <3>2. r[1] = lp + j /\ r[1] = lp + i
      BY <3>1
    <3>3. j = i
      BY <1>0, <3>2
    <3> QED BY <3>1, <3>3
  <2>2. <<lp + i, h[i]>> \in J
    BY DEF Records
  <2> QED BY <2>1, <2>2
<1>2. \A i \in Nat \ {0} : i \notin 1 .. n => rec(lp + i) = {}
  <2> SUFFICES ASSUME NEW i \in Nat \ {0}, i \notin 1 .. n, NEW r \in rec(lp + i) PROVE FALSE
    OBVIOUS
  <2>1. PICK j \in 1 .. n : r = <<lp + j, h[j]>>
    BY DEF Records
  <2>2. r[1] = lp + j /\ r[1] = lp + i
    BY <2>1
  <2> QED BY <1>0, <2>2
<1>3. IsFiniteSet(J)
  <2> DEFINE e == [i \in 1 .. n |-> <<lp + i, h[i]>>]
  <2>1. e \in Surjection(1 .. n, J)
    BY DEF Surjection, Records
  <2>2. IsFiniteSet(1 .. n)
    BY <1>0, FS_Interval
  <2> HIDE DEF e
  <2> QED BY <2>1, <2>2, FS_Surjection
<1>4. \E c \in 0 .. Cardinality(J) : IsCount(c)
  <2> DEFINE R == [i \in Nat |-> rec(lp + 1 + i)]
  <2>1. R \in [Nat -> SUBSET J]
    OBVIOUS
  <2>2. \A i, j \in Nat : i # j => R[i] \cap R[j] = {}
    BY <1>0
  <2>3. \A i \in Nat : R[i] = rec(lp + 1 + i)
    OBVIOUS
  <2> HIDE DEF R
  <2>4. PICK c \in 0 .. Cardinality(J) : R[c] = {} /\ \A i \in 0 .. c - 1 : R[i] # {}
    BY <1>3, <2>1, <2>2, FirstGap
  <2>5. Cardinality(J) \in Nat
    BY <1>3, FS_CardinalityType
  <2>6. c \in Nat /\ rec(lp + 1 + c) = {}
    BY <2>3, <2>4, <2>5
  <2>7. ASSUME NEW i \in 1 .. c PROVE rec(lp + i) # {}
    <3>1. i - 1 \in 0 .. c - 1 /\ i - 1 \in Nat /\ lp + 1 + (i - 1) = lp + i
      BY <1>0, <2>6
    <3>2. R[i - 1] # {} /\ R[i - 1] = rec(lp + 1 + (i - 1))
      BY <2>3, <2>4, <3>1
    <3> HIDE DEF rec
    <3> QED BY <3>1, <3>2
  <2> HIDE DEF rec
  <2> QED BY <2>4, <2>6, <2>7
<1> HIDE DEF rec
<1>5. IsCount(count) /\ count \in 0 .. Cardinality(J)
  <2> HIDE DEF IsCount
  <2> QED BY <1>4
<1>6. count \in Nat
  <2>1. Cardinality(J) \in Nat
    BY <1>3, FS_CardinalityType
  <2> HIDE DEF count
  <2> QED BY <1>5, <2>1
<1>n. NewWindow(J, lp) = f[count]
  BY DEF NewWindow, IsImported, RecordAt, rec
<1>i. IsImported(f, J, lp, count)
  <2> HIDE DEF count
  <2>1. \E g : IsImported(g, J, lp, count)
    BY <1>6, ImportedExists
  <2> QED BY <2>1
<1> HIDE DEF f, count
<1>7. count = n
  <2>1. CASE count < n
    <3>1. count + 1 \in 1 .. n /\ lp + 1 + count = lp + (count + 1)
      BY <1>0, <1>6, <2>1
    <3>2. rec(lp + (count + 1)) # {}
      BY <1>1, <3>1
    <3> QED BY <1>5, <3>1, <3>2
  <2>2. CASE count > n
    <3>1. n + 1 \in 1 .. count /\ n + 1 \in Nat \ {0} /\ n + 1 \notin 1 .. n
      BY <1>0, <1>6, <2>2
    <3>2. rec(lp + (n + 1)) = {} /\ rec(lp + (n + 1)) # {}
      BY <1>2, <1>5, <3>1
    <3> QED BY <3>2
  <2> QED BY <1>0, <1>6, <2>1, <2>2
<1>8. \A i \in 1 .. n : RecordAt(J, lp, i) = h[i]
  <2> SUFFICES ASSUME NEW i \in 1 .. n PROVE RecordAt(J, lp, i) = h[i]
    OBVIOUS
  <2>1. {r \in J : r[1] = lp + i} = {<<lp + i, h[i]>>}
    BY <1>1 DEF rec
  <2>2. (CHOOSE r \in {<<lp + i, h[i]>>} : TRUE) = <<lp + i, h[i]>>
    OBVIOUS
  <2> QED BY <2>1, <2>2 DEF RecordAt
<1>9. f = [i \in 0 .. n |-> IF i = 0 THEN EmptyWindow(lp + 1) ELSE import(f[i - 1], RecordAt(J, lp, i))]
  BY <1>7, <1>i DEF IsImported
<1>10. 0 \in 0 .. n /\ \A i \in 1 .. n : i \in 0 .. n /\ i # 0
  BY <1>0
<1>11. f[0] = EmptyWindow(lp + 1)
  BY <1>9, <1>10
<1>12. \A i \in 1 .. n : f[i] = import(f[i - 1], h[i])
  BY <1>8, <1>9, <1>10
<1> QED BY <1>7, <1>n, <1>11, <1>12
\* The window of the first m of the blocks h that follow number lp.
WindowOf(w, lp, h, m) ==
  /\ w \in RefWindows
  /\ w.pending_number = lp + 1 /\ w.pending_canonicalizations = 0 /\ w.pending_prunings = 0
  /\ NumRows(w) = m
  /\ \A i \in 1 .. m : w.death_rows[i].hash = h[i]
  /\ Exact(w) /\ Linked(w) /\ Dead(w, NumRows(w)) /\ Full(w)

\* Blocks that follow each other.
Consecutive(h) == \A i \in 1 .. Len(h) - 1 : ParentOf(h[i + 1]) = h[i]

\* One more turn of the loop.
LEMMA ImportNext ==
  ASSUME NEW lp \in Nat \cup {-1}, NEW h \in Seq(Block), Consecutive(h), NEW m \in 0 .. Len(h) - 1,
         NEW w, WindowOf(w, lp, h, m)
  PROVE  WindowOf(import(w, h[m + 1]), lp, h, m + 1)
<1> DEFINE b == h[m + 1]
           v == import(w, b)
<1>0. Len(h) \in Nat /\ m \in Nat /\ m + 1 \in 1 .. Len(h) /\ b \in Block
  BY LenProperties, ElementOfSeq
<1> HIDE DEF b
<1>1. /\ w \in RefWindows /\ Exact(w) /\ Linked(w) /\ Dead(w, NumRows(w)) /\ Full(w) /\ NumRows(w) = m
      /\ \A i \in 1 .. m : w.death_rows[i].hash = h[i]
      /\ w.pending_number = lp + 1 /\ w.pending_canonicalizations = 0 /\ w.pending_prunings = 0
  BY DEF WindowOf
<1>2. Follows(w, b)
  <2> SUFFICES ASSUME m > 0 PROVE ParentOf(b) = w.death_rows[m].hash
    BY <1>1 DEF Follows
  <2>1. m \in 1 .. Len(h) - 1 /\ m \in 1 .. m
    BY <1>0
  <2> QED BY <1>1, <2>1 DEF Consecutive, b
<1>3. v \in RefWindows /\ ImportShape(v, w, b)
  BY <1>0, <1>1, ImportRows
<1> HIDE DEF v
<1>4. Exact(v) /\ Linked(v) /\ Dead(v, NumRows(v)) /\ Full(v)
  BY <1>0, <1>1, <1>2, <1>3, ImportExact, ImportLinked, ImportDead, ImportFull
<1>5. /\ NumRows(v) = m + 1
      /\ v.pending_number = lp + 1 /\ v.pending_canonicalizations = 0 /\ v.pending_prunings = 0
      /\ \A i \in 1 .. m : v.death_rows[i].hash = h[i]
      /\ v.death_rows[m + 1].hash = h[m + 1]
  BY <1>1, <1>3 DEF ImportShape, b
<1>6. \A i \in 1 .. m + 1 : i \in 1 .. m \/ i = m + 1
  BY <1>0
<1>7. \A i \in 1 .. m + 1 : v.death_rows[i].hash = h[i]
  BY <1>5, <1>6
<1> QED BY <1>3, <1>4, <1>5, <1>7 DEF WindowOf, b, v

\* RefWindow::new rebuilds a window with an exact index from the records of
\* consecutive blocks.
LEMMA NewWindowIs ==
  ASSUME NEW lp \in Nat \cup {-1}, NEW h \in Seq(Block), Consecutive(h)
  PROVE  WindowOf(NewWindow(Records(lp, h), lp), lp, h, Len(h))
<1>1. PICK f : /\ f[0] = EmptyWindow(lp + 1)
               /\ \A i \in 1 .. Len(h) : f[i] = import(f[i - 1], h[i])
               /\ NewWindow(Records(lp, h), lp) = f[Len(h)]
  BY NewWindowLoop
<1> DEFINE S == {i \in Nat : WindowOf(f[i], lp, h, i)}
<1>0. Len(h) \in Nat
  BY LenProperties
<1>2. 0 \in S
  <2> DEFINE w == EmptyWindow(lp + 1)
  <2>1. w.death_rows = <<>> /\ w.pending_number = lp + 1
        /\ w.pending_canonicalizations = 0 /\ w.pending_prunings = 0
        /\ \A k \in Key : w.death_index[k] = -1
    BY DEF EmptyWindow
  <2>2. w \in RefWindows
    <3>1. <<>> \in Seq(DeathRow) /\ lp + 1 \in Nat
      BY EmptySeq
    <3> QED BY <3>1 DEF EmptyWindow, RefWindows
  <2> HIDE DEF w
  <2>3. NumRows(w) = 0 /\ 1 .. 0 = {} /\ 1 .. 0 - 1 = {}
    BY <2>1, EmptySeq DEF NumRows
  <2>4. Exact(w) /\ Linked(w) /\ Dead(w, NumRows(w)) /\ Full(w)
    BY <2>1, <2>3 DEF Exact, Linked, Dead, Full
  <2>5. WindowOf(w, lp, h, 0)
    BY <2>1, <2>2, <2>3, <2>4 DEF WindowOf
  <2> QED BY <1>1, <2>5 DEF w
<1>3. ASSUME NEW i \in 0 .. Len(h) - 1, i \in S PROVE i + 1 \in S
  <2>1. WindowOf(import(f[i], h[i + 1]), lp, h, i + 1)
    BY <1>3, ImportNext
  <2>2. i + 1 \in 1 .. Len(h) /\ i + 1 \in Nat /\ (i + 1) - 1 = i
    BY <1>0
  <2>3. f[i + 1] = import(f[i], h[i + 1])
    BY <1>1, <2>2
  <2> QED BY <2>1, <2>2, <2>3
<1>4. \A i \in 0 .. Len(h) : i \in S
  <2> HIDE DEF S
  <2> QED BY <1>0, <1>2, <1>3, UpTo
<1>5. Len(h) \in S
  <2> HIDE DEF S
  <2> QED BY <1>0, <1>4
<1> QED BY <1>1, <1>5
-----------------------------------------------------------------------------
(* The operations of the pruning window                                    *)

WindowOK(w) ==
  /\ w \in RefWindows
  /\ w.pending_canonicalizations <= NumRows(w)
  /\ w.pending_prunings <= NumRows(w)
  /\ Exact(w) /\ Linked(w)
  /\ Dead(w, NumRows(w)) /\ Dead(w, Settled(w))

\* Two windows with the same rows, the same index and the same first number.
SameRows(u, w) ==
  u.death_rows = w.death_rows /\ u.death_index = w.death_index /\ u.pending_number = w.pending_number

\* What is said of the rows does not depend on what is pending.
LEMMA SameRowsSame ==
  ASSUME NEW u, NEW w, SameRows(u, w)
  PROVE  /\ NumRows(u) = NumRows(w)
         /\ Exact(w) => Exact(u)
         /\ Linked(w) => Linked(u)
         /\ Full(w) => Full(u)
         /\ \A n : Dead(w, n) => Dead(u, n)
<1>1. NumRows(u) = NumRows(w)
  BY DEF SameRows, NumRows
<1>2. Exact(w) => Exact(u)
  BY <1>1 DEF SameRows, Exact
<1>3. Linked(w) => Linked(u)
  BY <1>1 DEF SameRows, Linked
<1>4. Full(w) => Full(u)
  BY <1>1 DEF SameRows, Full
<1>5. \A n : Dead(w, n) => Dead(u, n)
  BY DEF SameRows, Dead
<1> QED BY <1>1, <1>2, <1>3, <1>4, <1>5

\* prune stops somewhere in the window.
LEMMA PruneCountType ==
  ASSUME NEW w \in RefWindows, w.pending_prunings <= NumRows(w), NEW P
  PROVE  prune_count(w, P) \in 0 .. window_size(w)
<1> DEFINE s == window_size(w)
           next(i) == w.death_rows[w.pending_prunings + i + 1].hash
           Stops(n) == s - n <= max_blocks \/ next(n) \in P
           Is(n) == Stops(n) /\ \A i \in 0 .. n - 1 : s - i > max_blocks /\ next(i) \notin P
           T == {n \in 0 .. s : Stops(n)}
<1>0. s \in Nat /\ max_blocks \in Nat
  BY WindowFields, WindowAssumption DEF window_size, NumRows
<1>1. prune_count(w, P) = CHOOSE n \in 0 .. s : Is(n)
  BY DEF prune_count
<1> HIDE DEF s, next
<1>2. s \in T
  BY <1>0
<1>3. T \in SUBSET Nat
  BY <1>0
<1>4. PICK n \in T : \A y \in T : n <= y
  <2> HIDE DEF T
  <2> QED BY <1>2, <1>3, LeastNumber
<1>5. ASSUME NEW i \in 0 .. n - 1 PROVE s - i > max_blocks /\ next(i) \notin P
  <2>1. n \in 0 .. s
    BY <1>4
  <2>2. i \in 0 .. s /\ i < n
    BY <1>0, <2>1
  <2>3. ~Stops(i)
    BY <1>4, <2>1, <2>2
  <2> QED BY <1>0, <2>2, <2>3
<1>6. n \in 0 .. s /\ Is(n)
  BY <1>4, <1>5
<1> HIDE DEF Is, T
<1>7. (CHOOSE m \in 0 .. s : Is(m)) \in 0 .. s
  BY <1>6
<1> QED BY <1>1, <1>7 DEF s

\* Window v is w after block b has been noted and n rows have been marked.
NoteShape(v, w, b, n) ==
  /\ v.pending_number = w.pending_number
  /\ v.pending_canonicalizations = w.pending_canonicalizations + 1
  /\ v.pending_prunings = w.pending_prunings + n
  /\ NumRows(v) = NumRows(w) + 1
  /\ \A i \in 1 .. NumRows(w) : v.death_rows[i].hash = w.death_rows[i].hash
  /\ v.death_rows[NumRows(w) + 1].hash = b

\* note_canonical and prune leave the window in order.
LEMMA NoteCanonicalKeeps ==
  ASSUME NEW w, WindowOK(w), NEW b \in Block, Follows(w, b), NEW P,
         NEW n, n = prune_count(note_canonical(w, b), P), NEW v, v = prune_many(note_canonical(w, b), n)
  PROVE  /\ WindowOK(v) /\ NoteShape(v, w, b, n)
         /\ Full(w) => Full(v)
         /\ \A i \in 1 .. NumRows(w) : v.death_rows[i].deleted = w.death_rows[i].deleted \ Inserted(b)
         /\ v.death_rows[NumRows(w) + 1].deleted = Deleted(b)
         /\ n \in Nat /\ w.pending_prunings + n <= NumRows(w) + 1
         /\ pending(note_canonical(w, b)) = w.pending_number + w.pending_prunings
         /\ prunable_keys(note_canonical(w, b), n) =
              UNION {v.death_rows[i].deleted : i \in w.pending_prunings + 1 .. w.pending_prunings + n}
<1> DEFINE u == import(w, b)
           t == note_canonical(w, b)
<1>1. /\ w \in RefWindows /\ Exact(w) /\ Linked(w) /\ Dead(w, NumRows(w)) /\ Dead(w, Settled(w))
      /\ w.pending_canonicalizations <= NumRows(w) /\ w.pending_prunings <= NumRows(w)
  BY DEF WindowOK
<1>2. u \in RefWindows /\ ImportShape(u, w, b)
  BY <1>1, ImportRows
<1>3. t = [u EXCEPT !.pending_canonicalizations = @ + 1]
  BY DEF note_canonical
<1> HIDE DEF u, t
<1>4. /\ t \in RefWindows /\ SameRows(t, u)
      /\ t.pending_canonicalizations = u.pending_canonicalizations + 1
      /\ t.pending_prunings = u.pending_prunings
  BY <1>2, <1>3 DEF RefWindows, SameRows
<1>5. /\ NumRows(w) \in Nat /\ w.pending_prunings \in Nat /\ w.pending_canonicalizations \in Nat
      /\ w.pending_number \in Nat
  BY <1>1, WindowFields
<1>6. /\ NumRows(t) = NumRows(w) + 1 /\ t.pending_prunings = w.pending_prunings
      /\ t.pending_canonicalizations = w.pending_canonicalizations + 1
      /\ t.pending_number = w.pending_number
  BY <1>2, <1>4, SameRowsSame DEF ImportShape, SameRows
<1>7. n \in Nat /\ w.pending_prunings + n <= NumRows(w) + 1
  <2>1. t.pending_prunings <= NumRows(t)
    BY <1>1, <1>5, <1>6
  <2>2. n \in 0 .. window_size(t)
    BY <1>4, <2>1, PruneCountType DEF t
  <2>3. window_size(t) = NumRows(w) + 1 - w.pending_prunings
    <3>1. window_size(t) = NumRows(t) - t.pending_prunings
      BY DEF window_size, NumRows
    <3> QED BY <1>5, <1>6, <3>1
  <2> QED BY <1>1, <1>5, <2>2, <2>3
<1>8. /\ v \in RefWindows /\ SameRows(v, t)
      /\ v.pending_canonicalizations = t.pending_canonicalizations
      /\ v.pending_prunings = w.pending_prunings + n
  <2>1. v = [t EXCEPT !.pending_prunings = @ + n]
    BY DEF prune_many, t
  <2>2. t.pending_prunings + n \in Nat
    BY <1>5, <1>6, <1>7
  <2> QED BY <1>4, <1>6, <2>1, <2>2 DEF RefWindows, SameRows
<1>9. SameRows(v, u)
  BY <1>4, <1>8 DEF SameRows
<1>10. NoteShape(v, w, b, n)
  <2>1. NumRows(v) = NumRows(w) + 1
    BY <1>6, <1>8, SameRowsSame
  <2>2. v.pending_number = w.pending_number
    BY <1>2, <1>9 DEF SameRows, ImportShape
  <2>3. v.death_rows = u.death_rows
    BY <1>9 DEF SameRows
  <2> QED BY <1>2, <1>6, <1>8, <2>1, <2>2, <2>3 DEF NoteShape, ImportShape
<1>11. Exact(v) /\ Linked(v) /\ Dead(v, NumRows(v)) /\ (Full(w) => Full(v))
  <2>1. Exact(u) /\ Linked(u) /\ Dead(u, NumRows(u)) /\ (Full(w) => Full(u))
    BY <1>1, <1>2, ImportExact, ImportLinked, ImportDead, ImportFull
  <2>2. NumRows(v) = NumRows(u)
    BY <1>9, SameRowsSame
  <2> QED BY <1>9, <2>1, <2>2, SameRowsSame
<1>12. Dead(v, Settled(v))
  <2>1. Settled(w) \in 0 .. NumRows(w)
    BY <1>1, <1>5 DEF Settled
  <2>2. Settled(v) = Settled(w)
    BY <1>5, <1>10 DEF Settled, NoteShape
  <2>3. Dead(u, Settled(w))
    BY <1>1, <1>2, <2>1, ImportDead
  <2> QED BY <1>9, <2>2, <2>3, SameRowsSame
<1>13. WindowOK(v)
  <2>1. v.pending_canonicalizations <= NumRows(v) /\ v.pending_prunings <= NumRows(v)
    BY <1>1, <1>5, <1>7, <1>10 DEF NoteShape
  <2> QED BY <1>8, <1>11, <1>12, <2>1 DEF WindowOK
<1>14. /\ \A i \in 1 .. NumRows(w) : v.death_rows[i].deleted = w.death_rows[i].deleted \ Inserted(b)
       /\ v.death_rows[NumRows(w) + 1].deleted = Deleted(b)
  BY <1>2, <1>9 DEF ImportShape, SameRows
<1>15. pending(t) = w.pending_number + w.pending_prunings
  BY <1>6 DEF pending
<1>16. prunable_keys(t, n) = UNION {v.death_rows[i].deleted : i \in w.pending_prunings + 1 .. w.pending_prunings + n}
  <2>1. t.death_rows = v.death_rows
    BY <1>8 DEF SameRows
  <2> QED BY <1>6, <2>1 DEF prunable_keys
<1> QED BY <1>7, <1>10, <1>11, <1>13, <1>14, <1>15, <1>16 DEF t
\* Window v is w without its first n rows.
ShiftShape(v, w, n) ==
  /\ v.pending_number = w.pending_number + n
  /\ v.pending_canonicalizations = 0 /\ v.pending_prunings = 0
  /\ NumRows(v) = NumRows(w) - n
  /\ \A i \in 1 .. NumRows(w) - n : v.death_rows[i] = w.death_rows[n + i]

\* apply_pending removes the rows that have been pruned and their keys from the
\* index.
LEMMA WindowApplied ==
  ASSUME NEW w, WindowOK(w), NEW v, v = window_apply_pending(w)
  PROVE  /\ v \in RefWindows /\ ShiftShape(v, w, w.pending_prunings)
         /\ \A k \in Key : v.death_index[k] =
              IF \E i \in 1 .. w.pending_prunings : k \in w.death_rows[i].deleted THEN -1 ELSE w.death_index[k]
<1> DEFINE n == w.pending_prunings
           D == UNION {w.death_rows[i].deleted : i \in 1 .. n}
           rows == SubSeq(w.death_rows, n + 1, NumRows(w))
           index == [k \in Key |-> IF k \in D THEN -1 ELSE w.death_index[k]]
<1>1. /\ w \in RefWindows /\ n \in Nat /\ NumRows(w) \in Nat /\ n <= NumRows(w) /\ w.pending_number \in Nat
      /\ w.death_index \in [Key -> Nat \cup {-1}]
      /\ \A i \in 1 .. NumRows(w) : w.death_rows[i] \in DeathRow
  BY WindowFields DEF WindowOK
<1>2. v = [w EXCEPT !.death_rows = rows, !.death_index = index, !.pending_number = @ + n,
                    !.pending_canonicalizations = 0, !.pending_prunings = 0]
  BY DEF window_apply_pending, NumRows
<1>3. \A k \in Key : index[k] = IF \E i \in 1 .. n : k \in w.death_rows[i].deleted THEN -1 ELSE w.death_index[k]
  OBVIOUS
<1>4. index \in [Key -> Nat \cup {-1}]
  BY <1>1
<1> HIDE DEF index, D
<1>5. /\ rows \in Seq(DeathRow) /\ Len(rows) = NumRows(w) - n
      /\ \A i \in 1 .. NumRows(w) - n : rows[i] = w.death_rows[n + i]
  <2>1. \A i \in n + 1 .. NumRows(w) : w.death_rows[i] \in DeathRow
    BY <1>1
  <2>2. /\ rows \in Seq(DeathRow)
        /\ Len(rows) = IF n + 1 <= NumRows(w) THEN NumRows(w) - (n + 1) + 1 ELSE 0
        /\ \A i \in 1 .. NumRows(w) - (n + 1) + 1 : rows[i] = w.death_rows[n + 1 + i - 1]
    <3>1. n + 1 \in Int /\ NumRows(w) \in Int
      BY <1>1
    <3> HIDE DEF n
    <3> QED BY <2>1, <3>1, SubSeqProperties
  <2> HIDE DEF rows
  <2>3. NumRows(w) - (n + 1) + 1 = NumRows(w) - n /\ (n + 1 > NumRows(w) => NumRows(w) - n = 0)
    BY <1>1
  <2>4. \A i \in 1 .. NumRows(w) - n : n + 1 + i - 1 = n + i
    BY <1>1
  <2>5. Len(rows) = NumRows(w) - n
    BY <1>1, <2>2, <2>3
  <2>6. ASSUME NEW i \in 1 .. NumRows(w) - n PROVE rows[i] = w.death_rows[n + i]
    BY <2>2, <2>3, <2>4
  <2> QED BY <2>2, <2>5, <2>6
<1> HIDE DEF rows
<1>6. /\ v.death_rows = rows /\ v.death_index = index /\ v.pending_number = w.pending_number + n
      /\ v.pending_canonicalizations = 0 /\ v.pending_prunings = 0
  <2> HIDE DEF n
  <2> QED BY <1>1, <1>2 DEF RefWindows
<1>7. v \in RefWindows
  <2>1. w.pending_number + n \in Nat
    BY <1>1
  <2> HIDE DEF n
  <2>2. v = [death_rows |-> rows, death_index |-> index, pending_number |-> w.pending_number + n,
             pending_canonicalizations |-> 0, pending_prunings |-> 0]
    BY <1>1, <1>2 DEF RefWindows
  <2> QED BY <1>4, <1>5, <2>1, <2>2 DEF RefWindows
<1>8. ShiftShape(v, w, n)
  <2> HIDE DEF n
  <2>1. NumRows(v) = NumRows(w) - n
    BY <1>5, <1>6 DEF NumRows
  <2> QED BY <1>5, <1>6, <2>1 DEF ShiftShape
<1> QED BY <1>3, <1>6, <1>7, <1>8

\* apply_pending leaves the window in order.
LEMMA WindowApplyKeeps ==
  ASSUME NEW w, WindowOK(w), NEW v, v = window_apply_pending(w)
  PROVE  /\ WindowOK(v) /\ ShiftShape(v, w, w.pending_prunings)
         /\ Full(w) => Full(v)
<1> DEFINE n == w.pending_prunings
           m == NumRows(w)
           p == w.pending_number
<1>1. /\ w \in RefWindows /\ n \in Nat /\ m \in Nat /\ n <= m /\ p \in Nat
      /\ Exact(w) /\ Linked(w) /\ Dead(w, m)
  BY WindowFields DEF WindowOK
<1>2. v \in RefWindows /\ ShiftShape(v, w, n)
  BY WindowApplied
<1>3. \A k \in Key : v.death_index[k] =
        IF \E i \in 1 .. n : k \in w.death_rows[i].deleted THEN -1 ELSE w.death_index[k]
  BY WindowApplied
<1>4. /\ v.pending_number = p + n /\ NumRows(v) = m - n
      /\ \A i \in 1 .. m - n : v.death_rows[i] = w.death_rows[n + i]
      /\ v.pending_canonicalizations = 0 /\ v.pending_prunings = 0
  BY <1>2 DEF ShiftShape
<1>5. \A i \in 1 .. m - n : n + i \in 1 .. m /\ n + i \notin 1 .. n
  BY <1>1
<1>e. \A k \in Key : /\ w.death_index[k] \in {-1} \cup p .. p + m - 1
                     /\ \A i \in 1 .. m : k \in w.death_rows[i].deleted <=> w.death_index[k] = p + i - 1
  BY <1>1 DEF Exact
<1> HIDE DEF n, m, p
<1>6. Exact(v)
  <2> SUFFICES ASSUME NEW k \in Key
               PROVE  /\ v.death_index[k] \in {-1} \cup p + n .. p + n + (m - n) - 1
                      /\ \A i \in 1 .. m - n :
                           k \in v.death_rows[i].deleted <=> v.death_index[k] = p + n + i - 1
    BY <1>4 DEF Exact
  <2>1. CASE \E i \in 1 .. n : k \in w.death_rows[i].deleted
    <3>1. PICK j \in 1 .. n : k \in w.death_rows[j].deleted
      BY <2>1
    <3>2. v.death_index[k] = -1
      BY <1>3, <2>1
    <3>3. j \in 1 .. m /\ w.death_index[k] = p + j - 1
      BY <1>1, <1>e, <3>1
    <3>4. ASSUME NEW i \in 1 .. m - n PROVE k \notin v.death_rows[i].deleted /\ p + n + i - 1 # -1
      <4>1. v.death_rows[i] = w.death_rows[n + i] /\ n + i \in 1 .. m
        BY <1>4, <1>5
      <4>2. p + (n + i) - 1 # p + j - 1
        BY <1>1
      <4>3. k \notin w.death_rows[n + i].deleted
        BY <1>e, <3>3, <4>1, <4>2
      <4>4. p + n + i - 1 # -1
        BY <1>1
      <4> QED BY <4>1, <4>3, <4>4
    <3> QED BY <3>2, <3>4
  <2>2. CASE ~\E i \in 1 .. n : k \in w.death_rows[i].deleted
    <3>1. v.death_index[k] = w.death_index[k]
      BY <1>3, <2>2
    <3>2. ASSUME w.death_index[k] \in p .. p + n - 1 PROVE FALSE
      <4> DEFINE j == w.death_index[k] - p + 1
      <4>1. j \in 1 .. n /\ j \in 1 .. m /\ w.death_index[k] = p + j - 1
        BY <1>1, <3>2
      <4> HIDE DEF j
      <4> QED BY <1>e, <2>2, <4>1
    <3>3. w.death_index[k] \in {-1} \cup p + n .. p + n + (m - n) - 1
      BY <1>1, <1>e, <3>2
    <3>4. ASSUME NEW i \in 1 .. m - n
          PROVE  k \in v.death_rows[i].deleted <=> w.death_index[k] = p + n + i - 1
      <4>1. v.death_rows[i] = w.death_rows[n + i] /\ n + i \in 1 .. m
        BY <1>4, <1>5
      <4>2. p + (n + i) - 1 = p + n + i - 1
        BY <1>1
      <4>3. k \in w.death_rows[n + i].deleted <=> w.death_index[k] = p + (n + i) - 1
        BY <1>e, <4>1
      <4> QED BY <4>1, <4>2, <4>3
    <3> QED BY <3>1, <3>3, <3>4
  <2> QED BY <2>1, <2>2
<1>7. Linked(v)
  <2> SUFFICES ASSUME NEW i \in 1 .. m - n - 1 PROVE ParentOf(v.death_rows[i + 1].hash) = v.death_rows[i].hash
    BY <1>4 DEF Linked
  <2>1. i \in 1 .. m - n /\ i + 1 \in 1 .. m - n /\ n + i \in 1 .. m - 1 /\ n + (i + 1) = (n + i) + 1
    BY <1>1
  <2>2. v.death_rows[i] = w.death_rows[n + i] /\ v.death_rows[i + 1] = w.death_rows[(n + i) + 1]
    BY <1>4, <2>1
  <2>3. ParentOf(w.death_rows[(n + i) + 1].hash) = w.death_rows[n + i].hash
    BY <1>1, <2>1 DEF Linked, m
  <2> QED BY <2>2, <2>3
<1>8. Dead(v, NumRows(v))
  <2> SUFFICES ASSUME NEW i \in 1 .. m - n
               PROVE  v.death_rows[i].deleted \cap State[v.death_rows[m - n].hash] = {}
    BY <1>4 DEF Dead
  <2>1. m - n \in 1 .. m - n /\ n + (m - n) = m
    BY <1>1
  <2>2. v.death_rows[i] = w.death_rows[n + i] /\ v.death_rows[m - n] = w.death_rows[m] /\ n + i \in 1 .. m
    BY <1>4, <1>5, <2>1
  <2>3. w.death_rows[n + i].deleted \cap State[w.death_rows[m].hash] = {}
    BY <1>1, <2>2 DEF Dead
  <2> QED BY <2>2, <2>3
<1>9. Settled(v) = NumRows(v) /\ v.pending_canonicalizations <= NumRows(v) /\ v.pending_prunings <= NumRows(v)
  BY <1>1, <1>4 DEF Settled
<1>10. WindowOK(v)
  BY <1>2, <1>6, <1>7, <1>8, <1>9 DEF WindowOK
<1>11. ASSUME Full(w) PROVE Full(v)
  <2> DEFINE Later(u, i, x) == UNION {Inserted(u.death_rows[j].hash) : j \in i + 1 .. x}
  <2> SUFFICES ASSUME NEW i \in 1 .. m - n
               PROVE  v.death_rows[i].deleted = Deleted(v.death_rows[i].hash) \ Later(v, i, m - n)
    BY <1>4 DEF Full
  <2>1. v.death_rows[i] = w.death_rows[n + i] /\ n + i \in 1 .. m
    BY <1>4, <1>5
  <2>2. w.death_rows[n + i].deleted = Deleted(w.death_rows[n + i].hash) \ Later(w, n + i, m)
    BY <1>11, <2>1 DEF Full, m
  <2>3. Later(v, i, m - n) = Later(w, n + i, m)
    <3>1. ASSUME NEW x \in Later(v, i, m - n) PROVE x \in Later(w, n + i, m)
      <4>1. PICK j \in i + 1 .. m - n : x \in Inserted(v.death_rows[j].hash)
        BY <3>1
      <4>2. j \in 1 .. m - n /\ n + j \in n + i + 1 .. m
        BY <1>1, <4>1
      <4>3. x \in Inserted(w.death_rows[n + j].hash)
        BY <1>4, <4>1, <4>2
      <4> QED BY <4>2, <4>3
    <3>2. ASSUME NEW x \in Later(w, n + i, m) PROVE x \in Later(v, i, m - n)
      <4>1. PICK j \in n + i + 1 .. m : x \in Inserted(w.death_rows[j].hash)
        BY <3>2
      <4>2. j - n \in i + 1 .. m - n /\ j - n \in 1 .. m - n /\ n + (j - n) = j
        BY <1>1, <4>1
      <4>3. x \in Inserted(v.death_rows[j - n].hash)
        BY <1>4, <4>1, <4>2
      <4> QED BY <4>2, <4>3
    <3> QED BY <3>1, <3>2
  <2> QED BY <2>1, <2>2, <2>3
<1> QED BY <1>2, <1>10, <1>11 DEF n

\* revert_pending cuts the rows of the operation off: the keys that it had taken
\* from other rows are in none, and the index does not have them either.
LEMMA WindowRevertKeeps ==
  ASSUME NEW w, WindowOK(w), NEW v, v = window_revert_pending(w)
  PROVE  /\ WindowOK(v)
         /\ v.pending_number = w.pending_number
         /\ v.pending_canonicalizations = 0 /\ v.pending_prunings = 0
         /\ NumRows(v) = Settled(w)
         /\ \A i \in 1 .. Settled(w) : v.death_rows[i] = w.death_rows[i]
<1> DEFINE n == Settled(w)
           m == NumRows(w)
           p == w.pending_number
           rows == SubSeq(w.death_rows, 1, n)
           index == [k \in Key |-> IF w.death_index[k] < n + p THEN w.death_index[k] ELSE -1]
<1>1. /\ w \in RefWindows /\ n \in Nat /\ m \in Nat /\ n <= m /\ p \in Nat
      /\ Exact(w) /\ Linked(w) /\ Dead(w, n)
      /\ w.death_index \in [Key -> Nat \cup {-1}]
      /\ \A i \in 1 .. m : w.death_rows[i] \in DeathRow
  BY WindowFields DEF WindowOK, Settled
<1>2. v = [w EXCEPT !.death_rows = rows, !.death_index = index,
                    !.pending_canonicalizations = 0, !.pending_prunings = 0]
  BY DEF window_revert_pending, NumRows, Settled
<1>e. \A k \in Key : /\ w.death_index[k] \in {-1} \cup p .. p + m - 1
                     /\ \A i \in 1 .. m : k \in w.death_rows[i].deleted <=> w.death_index[k] = p + i - 1
  BY <1>1 DEF Exact
<1>3. \A k \in Key : index[k] = IF w.death_index[k] < n + p THEN w.death_index[k] ELSE -1
  OBVIOUS
<1>4. index \in [Key -> Nat \cup {-1}]
  <2> HIDE DEF n, p
  <2> QED BY <1>1
<1> HIDE DEF index
<1>5. rows \in Seq(DeathRow) /\ Len(rows) = n /\ \A i \in 1 .. n : rows[i] = w.death_rows[i]
  <2>1. \A i \in 1 .. n : w.death_rows[i] \in DeathRow
    BY <1>1
  <2>2. /\ rows \in Seq(DeathRow)
        /\ Len(rows) = IF 1 <= n THEN n - 1 + 1 ELSE 0
        /\ \A i \in 1 .. n - 1 + 1 : rows[i] = w.death_rows[1 + i - 1]
    <3>1. n \in Int /\ 1 \in Int
      BY <1>1
    <3> HIDE DEF n
    <3> QED BY <2>1, <3>1, SubSeqProperties
  <2> HIDE DEF rows, n
  <2>3. n - 1 + 1 = n /\ (~(1 <= n) => n = 0) /\ \A i \in 1 .. n : 1 + i - 1 = i
    BY <1>1
  <2> QED BY <2>2, <2>3
<1> HIDE DEF rows
<1>6. /\ v.death_rows = rows /\ v.death_index = index /\ v.pending_number = p
      /\ v.pending_canonicalizations = 0 /\ v.pending_prunings = 0
      /\ v \in RefWindows
  <2> HIDE DEF n
  <2>1. v = [death_rows |-> rows, death_index |-> index, pending_number |-> p,
             pending_canonicalizations |-> 0, pending_prunings |-> 0]
    BY <1>1, <1>2 DEF RefWindows
  <2>2. v \in RefWindows
    BY <1>1, <1>4, <1>5, <2>1 DEF RefWindows
  <2> QED BY <2>1, <2>2
<1>7. NumRows(v) = n /\ \A i \in 1 .. n : v.death_rows[i] = w.death_rows[i]
  BY <1>5, <1>6 DEF NumRows
<1>8. Linked(v)
  <2> SUFFICES ASSUME NEW i \in 1 .. n - 1 PROVE ParentOf(v.death_rows[i + 1].hash) = v.death_rows[i].hash
    <3> HIDE DEF n
    <3> QED BY <1>7 DEF Linked
  <2>1. i \in 1 .. n /\ i + 1 \in 1 .. n /\ i \in 1 .. m - 1
    BY <1>1
  <2>2. ParentOf(w.death_rows[i + 1].hash) = w.death_rows[i].hash
    BY <1>1, <2>1 DEF Linked
  <2> QED BY <1>7, <2>1, <2>2
<1> HIDE DEF n, m, p
<1>9. Exact(v)
  <2> SUFFICES ASSUME NEW k \in Key
               PROVE  /\ index[k] \in {-1} \cup p .. p + n - 1
                      /\ \A i \in 1 .. n : k \in w.death_rows[i].deleted <=> index[k] = p + i - 1
    BY <1>6, <1>7 DEF Exact
  <2>1. w.death_index[k] \in {-1} \cup p .. p + m - 1
    BY <1>e
  <2>2. index[k] \in {-1} \cup p .. p + n - 1
    BY <1>1, <1>3, <2>1
  <2>3. ASSUME NEW i \in 1 .. n PROVE k \in w.death_rows[i].deleted <=> index[k] = p + i - 1
    <3>1. i \in 1 .. m /\ p + i - 1 < n + p /\ p + i - 1 # -1
      BY <1>1
    <3>2. k \in w.death_rows[i].deleted <=> w.death_index[k] = p + i - 1
      BY <1>e, <3>1
    <3> QED BY <1>3, <3>1, <3>2
  <2> QED BY <2>2, <2>3
<1>10. Dead(v, n)
  <2> SUFFICES ASSUME NEW i \in 1 .. n
               PROVE  v.death_rows[i].deleted \cap State[v.death_rows[n].hash] = {}
    BY DEF Dead
  <2>1. n \in 1 .. n
    BY <1>1
  <2>2. w.death_rows[i].deleted \cap State[w.death_rows[n].hash] = {}
    BY <1>1 DEF Dead
  <2> QED BY <1>7, <2>1, <2>2
<1>11. Settled(v) = n /\ v.pending_canonicalizations <= NumRows(v) /\ v.pending_prunings <= NumRows(v)
  BY <1>1, <1>6, <1>7 DEF Settled
<1>12. WindowOK(v)
  BY <1>6, <1>7, <1>8, <1>9, <1>10, <1>11 DEF WindowOK
<1> QED BY <1>6, <1>7, <1>12 DEF n, p
-----------------------------------------------------------------------------
(* The levels of the canonicalization window                               *)

\* f computes, from number m to n, what G makes of a number and the value before.
IsRecursion(f, m, n, a, G, S) ==
  /\ f = [i \in m .. n |-> IF i = m THEN a ELSE G[<<i, f[i - 1]>>]]
  /\ \A i \in m .. n : f[i] \in S

\* A recursion over m .. n whose steps are given by a function has a solution.
LEMMA RecursionExists ==
  ASSUME NEW m \in Nat, NEW n \in Nat, NEW S, NEW a \in S, NEW G \in [(m + 1 .. n) \X S -> S]
  PROVE  \E f : IsRecursion(f, m, n, a, G, S)
<1> DEFINE Is(f, x) == /\ f = [i \in m .. x |-> IF i = m THEN a ELSE G[<<i, f[i - 1]>>]]
                       /\ \A i \in m .. x : f[i] \in S
           T == {x \in Nat : \E f : Is(f, x)}
<1>1. CASE m > n
  <2> DEFINE f == [i \in m .. n |-> a]
  <2>1. m .. n = {}
    BY <1>1
  <2>2. f = [i \in m .. n |-> IF i = m THEN a ELSE G[<<i, f[i - 1]>>]]
    BY <2>1
  <2> HIDE DEF f
  <2> QED BY <2>1, <2>2 DEF IsRecursion
<1>2. CASE m <= n
  <2>1. m \in T
    <3> DEFINE f == [i \in m .. m |-> a]
    <3>1. \A i \in m .. m : i = m
      OBVIOUS
    <3>2. f = [i \in m .. m |-> IF i = m THEN a ELSE G[<<i, f[i - 1]>>]]
      BY <3>1
    <3>3. \A i \in m .. m : f[i] \in S
      BY <3>1
    <3> HIDE DEF f
    <3> QED BY <3>2, <3>3
  <2>2. ASSUME NEW x \in m .. n - 1, x \in T PROVE x + 1 \in T
    <3>1. PICK f : Is(f, x)
      BY <2>2
    <3> DEFINE h == [j \in m .. x + 1 |-> IF j = x + 1 THEN G[<<j, f[x]>>] ELSE f[j]]
    <3>2. x \in m .. x /\ f[x] \in S /\ x + 1 \in m + 1 .. n /\ x + 1 \in Nat
      BY <3>1
    <3>3. ASSUME NEW j \in m .. x + 1
          PROVE  h[j] = (IF j = m THEN a ELSE G[<<j, h[j - 1]>>]) /\ h[j] \in S
      <4>1. CASE j = x + 1
        <5>1. j - 1 = x /\ x \in m .. x + 1 /\ x # x + 1 /\ j # m
          BY <3>2, <4>1
        <5>2. h[x] = f[x] /\ h[j] = G[<<j, f[x]>>]
          BY <4>1, <5>1
        <5>3. <<j, f[x]>> \in (m + 1 .. n) \X S
          BY <3>2, <4>1
        <5> HIDE DEF h
        <5> QED BY <5>1, <5>2, <5>3
      <4>2. CASE j # x + 1
        <5>1. j \in m .. x /\ h[j] = f[j]
          BY <3>2, <4>2
        <5>2. f[j] = (IF j = m THEN a ELSE G[<<j, f[j - 1]>>]) /\ f[j] \in S
          BY <3>1, <5>1
        <5>3. j # m => h[j - 1] = f[j - 1]
          BY <3>2, <5>1
        <5> HIDE DEF h
        <5> QED BY <5>1, <5>2, <5>3
      <4> QED BY <4>1, <4>2
    <3>4. h = [j \in m .. x + 1 |-> IF j = m THEN a ELSE G[<<j, h[j - 1]>>]]
      BY <3>3
    <3>5. \A j \in m .. x + 1 : h[j] \in S
      BY <3>3
    <3> HIDE DEF h
    <3>6. Is(h, x + 1)
      BY <3>4, <3>5
    <3> QED BY <3>2, <3>6
  <2>3. \A i \in m .. n : i \in T
    <3> HIDE DEF T
    <3> QED BY <2>1, <2>2, UpTo
  <2>4. n \in T
    <3> HIDE DEF T
    <3> QED BY <1>2, <2>3
  <2> QED BY <2>4 DEF IsRecursion
<1> QED BY <1>1, <1>2

\* The block overlays of a level.
Entries(level) == {level[x] : x \in DOMAIN level}

\* discard_level keeps the blocks that are not in D, and no others.
LEMMA DiscardLevelIs ==
  ASSUME NEW level \in Seq(BlockOverlay), NEW D
  PROVE  /\ discard_level(level, D) \in Seq(BlockOverlay)
         /\ Entries(discard_level(level, D)) = {o \in Entries(level) : o.hash \notin D}
<1> DEFINE S == Seq(BlockOverlay)
           n == Len(level)
           G == [e \in (0 + 1 .. n) \X S |-> IF level[e[1]].hash \in D THEN e[2] ELSE Append(e[2], level[e[1]])]
           Is(f) == f = [i \in 0 .. n |-> IF i = 0 THEN <<>>
                            ELSE IF level[i].hash \in D THEN f[i - 1] ELSE Append(f[i - 1], level[i])]
           left == CHOOSE f : Is(f)
<1>0. n \in Nat /\ DOMAIN level = 1 .. n /\ \A i \in 1 .. n : level[i] \in BlockOverlay
  BY LenProperties, ElementOfSeq
<1>1. G \in [(0 + 1 .. n) \X S -> S]
  <2>1. ASSUME NEW e \in (0 + 1 .. n) \X S PROVE G[e] \in S
    <3>1. e[1] \in 1 .. n /\ e[2] \in S
      BY <1>0
    <3>2. level[e[1]] \in BlockOverlay
      BY <1>0, <3>1
    <3>3. Append(e[2], level[e[1]]) \in S
      BY <3>1, <3>2, AppendProperties
    <3> QED BY <3>1, <3>3
  <2> QED BY <2>1
<1>2. PICK g : /\ g = [i \in 0 .. n |-> IF i = 0 THEN <<>> ELSE G[<<i, g[i - 1]>>]]
               /\ \A i \in 0 .. n : g[i] \in S
  <2>1. <<>> \in S /\ 0 \in Nat /\ n \in Nat
    BY <1>0, EmptySeq
  <2> HIDE DEF G, S, n
  <2>2. \E f : IsRecursion(f, 0, n, <<>>, G, S)
    BY <1>1, <2>1, RecursionExists
  <2> QED BY <2>2 DEF IsRecursion
<1>3. Is(g)
  <2>1. ASSUME NEW i \in 0 .. n
        PROVE  g[i] = IF i = 0 THEN <<>>
                      ELSE IF level[i].hash \in D THEN g[i - 1] ELSE Append(g[i - 1], level[i])
    <3>1. CASE i = 0
      BY <1>0, <1>2, <3>1
    <3>2. CASE i # 0
      <4>1. i \in 0 + 1 .. n /\ i - 1 \in 0 .. n
        BY <1>0, <3>2
      <4>2. g[i] = G[<<i, g[i - 1]>>] /\ g[i - 1] \in S
        BY <1>2, <3>2, <4>1
      <4>3. G[<<i, g[i - 1]>>] = IF level[i].hash \in D THEN g[i - 1] ELSE Append(g[i - 1], level[i])
        BY <4>1, <4>2
      <4> QED BY <3>2, <4>2, <4>3
    <3> QED BY <3>1, <3>2
  <2> QED BY <1>2, <2>1
<1>4. Is(left)
  <2> HIDE DEF Is
  <2> QED BY <1>3
<1>5. discard_level(level, D) = left[n]
  BY DEF discard_level
<1> HIDE DEF left, G
<1> DEFINE Up(i) == {level[x] : x \in 1 .. i}
           Left(i) == /\ left[i] \in S
                      /\ Entries(left[i]) = {o \in Up(i) : o.hash \notin D}
           T == {i \in Nat : Left(i)}
<1>6. \A i \in 1 .. n : left[i] = IF level[i].hash \in D THEN left[i - 1] ELSE Append(left[i - 1], level[i])
  <2>1. ASSUME NEW i \in 1 .. n
        PROVE  left[i] = IF level[i].hash \in D THEN left[i - 1] ELSE Append(left[i - 1], level[i])
    <3>1. i \in 0 .. n /\ i # 0
      BY <1>0
    <3> DEFINE body(j) == IF j = 0 THEN <<>>
                          ELSE IF level[j].hash \in D THEN left[j - 1] ELSE Append(left[j - 1], level[j])
    <3>2. left = [j \in 0 .. n |-> body(j)]
      BY <1>4
    <3> HIDE DEF body
    <3>3. left[i] = body(i)
      BY <3>1, <3>2
    <3> QED BY <3>1, <3>3 DEF body
  <2> QED BY <2>1
<1>7. left[0] = <<>>
  BY <1>0, <1>4
<1>8. 0 \in T
  <2>1. Up(0) = {} /\ Entries(<<>>) = {} /\ <<>> \in S
    BY EmptySeq DEF Entries
  <2> HIDE DEF Up, S
  <2> QED BY <1>7, <2>1
<1>9. ASSUME NEW i \in 0 .. n - 1, i \in T PROVE i + 1 \in T
  <2>0. i \in Nat /\ i + 1 \in 1 .. n /\ (i + 1) - 1 = i /\ Left(i)
    BY <1>0, <1>9
  <2>1. Up(i + 1) = Up(i) \cup {level[i + 1]}
    <3>1. 1 .. i + 1 = (1 .. i) \cup {i + 1}
      BY <2>0
    <3> QED BY <3>1
  <2>2. left[i + 1] = IF level[i + 1].hash \in D THEN left[i] ELSE Append(left[i], level[i + 1])
    <3>1. left[i + 1] = IF level[i + 1].hash \in D THEN left[(i + 1) - 1] ELSE Append(left[(i + 1) - 1], level[i + 1])
      BY <1>6, <2>0
    <3> QED BY <2>0, <3>1
  <2>3. level[i + 1] \in BlockOverlay
    BY <1>0, <2>0
  <2> HIDE DEF Up
  <2>4. CASE level[i + 1].hash \in D
    BY <2>0, <2>1, <2>2, <2>4
  <2>5. CASE level[i + 1].hash \notin D
    <3> DEFINE s == left[i]
               o == level[i + 1]
    <3>0. s \in S /\ Entries(s) = {q \in Up(i) : q.hash \notin D} /\ o \in BlockOverlay /\ o.hash \notin D
      BY <2>0, <2>3, <2>5
    <3> HIDE DEF s, o
    <3>1. /\ Append(s, o) \in S /\ Len(Append(s, o)) = Len(s) + 1 /\ Append(s, o)[Len(s) + 1] = o
          /\ \A x \in 1 .. Len(s) : Append(s, o)[x] = s[x]
      BY <3>0, AppendProperties
    <3>2. /\ DOMAIN s = 1 .. Len(s) /\ Len(s) \in Nat
          /\ DOMAIN Append(s, o) = 1 .. Len(s) + 1
      BY <3>0, <3>1, LenProperties
    <3>3. 1 .. Len(s) + 1 = (1 .. Len(s)) \cup {Len(s) + 1}
      BY <3>2
    <3>4. Entries(Append(s, o)) = Entries(s) \cup {o}
      BY <3>1, <3>2, <3>3 DEF Entries
    <3>5. left[i + 1] = Append(s, o)
      BY <2>2, <2>5 DEF s, o
    <3>6. Up(i + 1) = Up(i) \cup {o}
      BY <2>1 DEF o
    <3>7. {q \in Up(i + 1) : q.hash \notin D} = {q \in Up(i) : q.hash \notin D} \cup {o}
      BY <3>0, <3>6
    <3>8. left[i + 1] \in S /\ Entries(left[i + 1]) = {q \in Up(i + 1) : q.hash \notin D}
      BY <3>0, <3>1, <3>4, <3>5, <3>7
    <3>9. Left(i + 1) /\ i + 1 \in Nat
      BY <2>0, <3>8
    <3> QED BY <3>9
  <2> QED BY <2>4, <2>5
<1>10. \A i \in 0 .. n : i \in T
  <2> HIDE DEF T
  <2> QED BY <1>0, <1>8, <1>9, UpTo
<1>11. Left(n)
  <2>1. n \in T
    <3> HIDE DEF T
    <3> QED BY <1>0, <1>10
  <2> QED BY <2>1
<1>12. Up(n) = Entries(level)
  BY <1>0 DEF Entries
<1> QED BY <1>5, <1>11, <1>12

-----------------------------------------------------------------------------
(* The fields of the canonicalization window                               *)

\* What a level, and a sequence of levels, is made of.
LEMMA LevelIs ==
  ASSUME NEW level \in Seq(BlockOverlay)
  PROVE  /\ Len(level) \in Nat /\ DOMAIN level = 1 .. Len(level)
         /\ \A x \in DOMAIN level : /\ level[x] \in BlockOverlay
                                    /\ level[x].hash \in Block /\ level[x].index \in Nat
         /\ Hashes(level) \in SUBSET Block
         /\ Hashes(level) = {o.hash : o \in Entries(level)}
<1>1. Len(level) \in Nat /\ DOMAIN level = 1 .. Len(level) /\ \A x \in DOMAIN level : level[x] \in BlockOverlay
  BY LenProperties, ElementOfSeq
<1>2. \A o \in BlockOverlay : o.hash \in Block /\ o.index \in Nat
  BY DEF BlockOverlay
<1>3. Hashes(level) \in SUBSET Block
  BY <1>1, <1>2 DEF Hashes
<1>4. Hashes(level) = {o.hash : o \in Entries(level)}
  BY DEF Hashes, Entries
<1> QED BY <1>1, <1>2, <1>3, <1>4

LevelSeqs == Seq(Seq(BlockOverlay))

\* The hashes in a sequence of levels.
HashesIn(levels) == UNION {Hashes(levels[i]) : i \in DOMAIN levels}

\* What is known of a sequence of levels and of each of its levels.
LEMMA LevelsAre ==
  ASSUME NEW levels \in LevelSeqs
  PROVE  /\ Len(levels) \in Nat /\ DOMAIN levels = 1 .. Len(levels)
         /\ \A i \in DOMAIN levels : levels[i] \in Seq(BlockOverlay) /\ Hashes(levels[i]) \in SUBSET Block
         /\ HashesIn(levels) \in SUBSET Block /\ IsFiniteSet(HashesIn(levels))
<1> DEFINE S == Seq(BlockOverlay)
<1>1. levels \in Seq(S)
  BY DEF LevelSeqs
<1>2. Len(levels) \in Nat /\ DOMAIN levels = 1 .. Len(levels) /\ \A i \in DOMAIN levels : levels[i] \in S
  <2> HIDE DEF S
  <2> QED BY <1>1, LenProperties, ElementOfSeq
<1>3. \A i \in DOMAIN levels : Hashes(levels[i]) \in SUBSET Block
  BY <1>2, LevelIs
<1>4. HashesIn(levels) \in SUBSET Block
  BY <1>3 DEF HashesIn
<1>5. IsFiniteSet(HashesIn(levels))
  BY <1>4, BlockAssumption, FS_Subset
<1> QED BY <1>2, <1>3, <1>4, <1>5

\* The fields of the overlay.
LEMMA OverlayFields ==
  ASSUME NEW n \in Overlays
  PROVE  /\ n.last_hash \in Block \cup {NoBlock} /\ n.last_number \in Nat \cup {-1}
         /\ n.levels \in LevelSeqs /\ n.parents \in SUBSET Block
         /\ n.pending_canonicalizations \in Seq(Block) /\ n.pending_insertions \in Seq(Block)
         /\ n.values \in [Key -> Nat] /\ n.pinned \in SUBSET Block
         /\ n.pinned_insertions \in [Block -> Nat]
         /\ InLevels(n) = HashesIn(n.levels)
<1>1. InLevels(n) = HashesIn(n.levels)
  BY DEF InLevels, HashesIn
<1> QED BY <1>1 DEF Overlays, LevelSeqs

Fields == {"last_hash", "last_number", "levels", "parents", "pending_canonicalizations",
           "pending_insertions", "values", "pinned", "pinned_insertions"}

\* An overlay is determined by its fields.
LEMMA OverlayDomain ==
  ASSUME NEW n \in Overlays
  PROVE  n = [f \in Fields |-> n[f]]
BY DEF Overlays, Fields

\* A record of these fields is an overlay.
LEMMA OverlayIs ==
  ASSUME NEW n, n = [f \in Fields |-> n[f]],
         n.last_hash \in Block \cup {NoBlock}, n.last_number \in Nat \cup {-1},
         n.levels \in LevelSeqs, n.parents \in SUBSET Block,
         n.pending_canonicalizations \in Seq(Block), n.pending_insertions \in Seq(Block),
         n.values \in [Key -> Nat], n.pinned \in SUBSET Block, n.pinned_insertions \in [Block -> Nat]
  PROVE  n \in Overlays
<1> DEFINE m == [ last_hash |-> n.last_hash, last_number |-> n.last_number, levels |-> n.levels,
                  parents |-> n.parents, pending_canonicalizations |-> n.pending_canonicalizations,
                  pending_insertions |-> n.pending_insertions, values |-> n.values,
                  pinned |-> n.pinned, pinned_insertions |-> n.pinned_insertions ]
<1>1. m \in Overlays
  BY DEF Overlays, LevelSeqs
<1>2. m = [f \in Fields |-> m[f]]
  BY DEF Fields
<1>3. \A f \in Fields : m[f] = n[f]
  BY DEF Fields
<1> HIDE DEF m
<1>4. [f \in Fields |-> m[f]] = [f \in Fields |-> n[f]]
  BY <1>3
<1>5. m = n
  BY <1>2, <1>4
<1> QED BY <1>1, <1>5

\* Counters stay natural numbers.
LEMMA ValuesType ==
  ASSUME NEW v \in [Key -> Nat], NEW B \in SUBSET Block
  PROVE  insert_values(v, B) \in [Key -> Nat] /\ discard_values(v, B) \in [Key -> Nat]
<1> DEFINE N(k) == Cardinality({b \in B : k \in Inserted(b)})
<1>1. ASSUME NEW k \in Key PROVE N(k) \in Nat
  <2>1. IsFiniteSet({b \in B : k \in Inserted(b)})
    BY BlockAssumption, FS_Subset
  <2> QED BY <2>1, FS_CardinalityType
<1> HIDE DEF N
<1>2. insert_values(v, B) = [k \in Key |-> v[k] + N(k)]
  BY DEF insert_values, N
<1>3. discard_values(v, B) = [k \in Key |-> IF v[k] >= N(k) THEN v[k] - N(k) ELSE 0]
  BY DEF discard_values, N
<1>4. \A k \in Key : v[k] + N(k) \in Nat /\ (v[k] >= N(k) => v[k] - N(k) \in Nat)
  BY <1>1
<1> QED BY <1>2, <1>3, <1>4
-----------------------------------------------------------------------------
(* Canonicalization                                                        *)

\* The blocks of each level that descend from the blocks R of the first.
Descend(below, levels, R) ==
  /\ below \in [1 .. Len(levels) -> SUBSET Block]
  /\ \A j \in 1 .. Len(levels) :
       below[j] = IF j = 1 THEN R ELSE {c \in Hashes(levels[j]) : ParentOf(c) \in below[j - 1]}

\* The subtrees of the blocks R of the first level, level by level.
LEMMA SubtreesAre ==
  ASSUME NEW levels \in LevelSeqs, NEW R \in SUBSET Block
  PROVE  \E below : /\ Descend(below, levels, R)
                    /\ Subtrees(levels, 1, R) = UNION {below[j] : j \in 1 .. Len(levels)}
<1> DEFINE S == SUBSET Block
           n == Len(levels)
           step(j, B) == {c \in Hashes(levels[j]) : ParentOf(c) \in B}
           G == [e \in (1 + 1 .. n) \X S |-> step(e[1], e[2])]
           Is(f) == f = [j \in 1 .. n |-> IF j = 1 THEN R
                                          ELSE {c \in Hashes(levels[j]) : ParentOf(c) \in f[j - 1]}]
           below == CHOOSE f : Is(f)
<1>0. n \in Nat /\ DOMAIN levels = 1 .. n /\ \A j \in 1 .. n : Hashes(levels[j]) \in S
  BY LevelsAre
<1>1. G \in [(1 + 1 .. n) \X S -> S]
  <2>1. ASSUME NEW e \in (1 + 1 .. n) \X S PROVE G[e] \in S
    <3>1. e[1] \in 1 .. n
      BY <1>0
    <3>2. step(e[1], e[2]) \in S
      BY <1>0, <3>1
    <3> QED BY <3>2
  <2> HIDE DEF step
  <2> QED BY <2>1
<1>2. PICK g : IsRecursion(g, 1, n, R, G, S)
  <2>1. 1 \in Nat /\ n \in Nat /\ R \in S
    BY <1>0
  <2> HIDE DEF G, S, n
  <2> QED BY <1>1, <2>1, RecursionExists
<1>3. \A j \in 1 .. n : g[j] = (IF j = 1 THEN R ELSE step(j, g[j - 1])) /\ g[j] \in S
  <2>1. ASSUME NEW j \in 1 .. n PROVE g[j] = (IF j = 1 THEN R ELSE step(j, g[j - 1])) /\ g[j] \in S
    <3> HIDE DEF step, S
    <3>1. g[j] = (IF j = 1 THEN R ELSE G[<<j, g[j - 1]>>]) /\ g[j] \in S
      <4> HIDE DEF G
      <4> QED BY <1>2 DEF IsRecursion
    <3>2. CASE j = 1
      BY <3>1, <3>2
    <3>3. CASE j # 1
      <4>1. j \in 1 + 1 .. n /\ j - 1 \in 1 .. n
        BY <1>0, <3>3
      <4>2. g[j - 1] \in S
        <5> HIDE DEF G
        <5> QED BY <1>2, <4>1 DEF IsRecursion
      <4>3. G[<<j, g[j - 1]>>] = step(j, g[j - 1])
        BY <4>1, <4>2
      <4> HIDE DEF G
      <4> QED BY <3>1, <3>3, <4>3
    <3> QED BY <3>2, <3>3
  <2> QED BY <2>1
<1>4. Is(g)
  <2> HIDE DEF step, G, S
  <2>1. g = [j \in 1 .. n |-> g[j]]
    <3> HIDE DEF n
    <3> QED BY <1>2 DEF IsRecursion
  <2>2. g = [j \in 1 .. n |-> IF j = 1 THEN R ELSE step(j, g[j - 1])]
    BY <1>3, <2>1
  <2> QED BY <2>2 DEF step
<1>5. Is(below)
  <2> HIDE DEF Is
  <2> QED BY <1>4
<1>6. Subtrees(levels, 1, R) = UNION {below[j] : j \in DOMAIN below}
  BY DEF Subtrees
<1> HIDE DEF below
<1>7. DOMAIN below = 1 .. n
  BY <1>5
<1>8. \A j \in 1 .. n : below[j] = IF j = 1 THEN R ELSE {c \in Hashes(levels[j]) : ParentOf(c) \in below[j - 1]}
  BY <1>5
<1>9. \A j \in 1 .. n : below[j] \in S
  BY <1>0, <1>8
<1>10. below \in [1 .. n -> S]
  <2> HIDE DEF S
  <2> QED BY <1>5, <1>7, <1>9
<1>11. Descend(below, levels, R)
  BY <1>8, <1>10 DEF Descend
<1>12. Subtrees(levels, 1, R) = UNION {below[j] : j \in 1 .. Len(levels)}
  BY <1>6, <1>7
<1> QED BY <1>11, <1>12

\* What canonicalizing b discards.
LEMMA DiscardedAre ==
  ASSUME NEW levels \in LevelSeqs, levels # <<>>, NEW b \in Block
  PROVE  \E below : /\ Descend(below, levels, Hashes(levels[1]) \ {b})
                    /\ Discarded(levels, 1, b) = {b} \cup UNION {below[j] : j \in 1 .. Len(levels)}
                    /\ Discarded(levels, 1, b) \in SUBSET Block
                    /\ Hashes(levels[1]) \subseteq Discarded(levels, 1, b)
                    /\ Discarded(levels, 1, b) \subseteq {b} \cup HashesIn(levels)
<1> DEFINE R == Hashes(levels[1]) \ {b}
           n == Len(levels)
<1>0. n \in Nat /\ DOMAIN levels = 1 .. n /\ n # 0 /\ 1 \in 1 .. n
  <2>1. n \in Nat /\ DOMAIN levels = 1 .. n
    BY LevelsAre
  <2>2. n # 0
    BY EmptySeq DEF LevelSeqs
  <2> QED BY <2>1, <2>2
<1>1. R \in SUBSET Block
  BY <1>0, LevelsAre
<1> HIDE DEF R
<1>2. PICK below : /\ Descend(below, levels, R)
                   /\ Subtrees(levels, 1, R) = UNION {below[j] : j \in 1 .. Len(levels)}
  BY <1>1, SubtreesAre
<1>3. Discarded(levels, 1, b) = {b} \cup UNION {below[j] : j \in 1 .. Len(levels)}
  BY <1>2 DEF Discarded, R
<1>4. Discarded(levels, 1, b) \in SUBSET Block
  BY <1>2, <1>3 DEF Descend
<1>5. R \subseteq Discarded(levels, 1, b)
  <2>1. below[1] = R
    BY <1>0, <1>2 DEF Descend
  <2> QED BY <1>0, <1>3, <2>1
<1>6. ASSUME NEW j \in 1 .. n PROVE below[j] \subseteq Hashes(levels[j])
  <2>1. CASE j = 1
    BY <1>2, <2>1 DEF Descend, R
  <2>2. CASE j # 1
    BY <1>2, <2>2 DEF Descend
  <2> QED BY <2>1, <2>2
<1>7. Discarded(levels, 1, b) \subseteq {b} \cup HashesIn(levels)
  BY <1>0, <1>3, <1>6 DEF HashesIn
<1>8. Hashes(levels[1]) \subseteq Discarded(levels, 1, b)
  BY <1>3, <1>5 DEF R
<1> QED BY <1>2, <1>3, <1>4, <1>7, <1>8 DEF R

\* The number of pins that keep a block is a number.
LEMMA NumPinnedType ==
  ASSUME NEW n, NEW D \in SUBSET Block, NEW c
  PROVE  num_pinned(n, D, c) \in Nat
<1> DEFINE P == {x \in D \cap n.pinned : c \in Ancestors[x]}
<1>1. IsFiniteSet(P)
  BY BlockAssumption, FS_Subset
<1>2. Cardinality(P) \in Nat
  <2> HIDE DEF P
  <2> QED BY <1>1, FS_CardinalityType
<1> QED BY <1>2 DEF num_pinned

\* The discarded blocks that stay because they are pinned, or have a pinned
\* one below them.
Kept(n, b) ==
  {c \in Discarded(n.levels, 1, b) : num_pinned(n, Discarded(n.levels, 1, b), c) > 0}

\* m is overlay n after block b has been canonicalized.
ApplyShape(m, n, b) ==
  /\ m.last_hash = n.last_hash /\ m.last_number = n.last_number
  /\ m.pending_canonicalizations = n.pending_canonicalizations
  /\ m.pending_insertions = n.pending_insertions
  /\ m.pinned = n.pinned
  /\ Len(m.levels) = Len(n.levels) - 1
  /\ \A i \in 1 .. Len(n.levels) - 1 :
       Entries(m.levels[i]) = {o \in Entries(n.levels[i + 1]) : o.hash \notin Discarded(n.levels, 1, b)}
  /\ m.values = discard_values(n.values, Discarded(n.levels, 1, b) \ Kept(n, b))
  /\ Retained(m) = Retained(n) \cup Kept(n, b)

\* One turn of apply_canonicalizations.
LEMMA ApplyOne ==
  ASSUME NEW n \in Overlays, NEW b \in Block, n.levels # <<>>
  PROVE  apply_canonicalization(n, b) \in Overlays /\ ApplyShape(apply_canonicalization(n, b), n, b)
<1> DEFINE D == Discarded(n.levels, 1, b)
           K == Kept(n, b)
           l == [i \in 1 .. Len(n.levels) - 1 |-> discard_level(n.levels[i + 1], D)]
           q == [c \in Block |-> IF c \in K THEN num_pinned(n, D, c) ELSE n.pinned_insertions[c]]
           v == discard_values(n.values, D \ K)
           p == n.parents \ (D \ K)
           m == [n EXCEPT !.levels = l, !.parents = p, !.values = v, !.pinned_insertions = q]
<1>0. /\ n.levels \in LevelSeqs /\ n.parents \in SUBSET Block /\ n.values \in [Key -> Nat]
      /\ n.pinned_insertions \in [Block -> Nat] /\ n.pinned \in SUBSET Block
      /\ n.last_hash \in Block \cup {NoBlock} /\ n.last_number \in Nat \cup {-1}
      /\ n.pending_canonicalizations \in Seq(Block) /\ n.pending_insertions \in Seq(Block)
  BY OverlayFields
<1>1. apply_canonicalization(n, b) = m
  BY DEF apply_canonicalization, Kept
<1>2. D \in SUBSET Block
  <2>1. \E below : /\ Descend(below, n.levels, Hashes(n.levels[1]) \ {b})
                   /\ Discarded(n.levels, 1, b) = {b} \cup UNION {below[j] : j \in 1 .. Len(n.levels)}
                   /\ Discarded(n.levels, 1, b) \in SUBSET Block
                   /\ Hashes(n.levels[1]) \subseteq Discarded(n.levels, 1, b)
                   /\ Discarded(n.levels, 1, b) \subseteq {b} \cup HashesIn(n.levels)
    BY <1>0, DiscardedAre
  <2> QED BY <2>1
<1>3. K \subseteq D /\ \A c \in D : c \in K <=> num_pinned(n, D, c) > 0
  BY DEF Kept
<1>4. Len(n.levels) \in Nat /\ Len(n.levels) # 0 /\ DOMAIN n.levels = 1 .. Len(n.levels)
      /\ \A i \in 1 .. Len(n.levels) : n.levels[i] \in Seq(BlockOverlay)
  <2>1. Len(n.levels) # 0
    BY <1>0, EmptySeq DEF LevelSeqs
  <2> QED BY <1>0, <2>1, LevelsAre
<1> HIDE DEF D, K
<1>5. ASSUME NEW i \in 1 .. Len(n.levels) - 1
      PROVE  /\ discard_level(n.levels[i + 1], D) \in Seq(BlockOverlay)
             /\ Entries(discard_level(n.levels[i + 1], D)) = {o \in Entries(n.levels[i + 1]) : o.hash \notin D}
  <2>1. n.levels[i + 1] \in Seq(BlockOverlay)
    BY <1>4
  <2> QED BY <2>1, DiscardLevelIs
<1>6. l \in LevelSeqs /\ Len(l) = Len(n.levels) - 1
  <2> DEFINE S == Seq(BlockOverlay)
             z == Len(n.levels) - 1
             item(i) == discard_level(n.levels[i + 1], D)
  <2>1. z \in Nat /\ \A i \in 1 .. z : item(i) \in S
    BY <1>4, <1>5
  <2> HIDE DEF S, z, item
  <2>2. [i \in 1 .. z |-> item(i)] \in Seq(S) /\ Len([i \in 1 .. z |-> item(i)]) = z
    BY <2>1
  <2> QED BY <2>2 DEF S, z, item, LevelSeqs
<1>7. q \in [Block -> Nat]
  <2>1. \A c \in Block : num_pinned(n, D, c) \in Nat /\ n.pinned_insertions[c] \in Nat
    BY <1>0, <1>2, NumPinnedType
  <2> QED BY <2>1
<1>8. v \in [Key -> Nat] /\ p \in SUBSET Block
  BY <1>0, <1>2, ValuesType
<1>f. /\ m.last_hash = n.last_hash /\ m.last_number = n.last_number
      /\ m.pending_canonicalizations = n.pending_canonicalizations
      /\ m.pending_insertions = n.pending_insertions
      /\ m.pinned = n.pinned /\ m.levels = l /\ m.values = v
      /\ m.parents = p /\ m.pinned_insertions = q /\ m = [f \in Fields |-> m[f]]
  <2> HIDE DEF l, q, v, p
  <2>0. n = [f \in Fields |-> n[f]]
    BY OverlayDomain
  <2>1. m.last_hash = n.last_hash /\ m.last_number = n.last_number /\ m.pinned = n.pinned
    BY <2>0 DEF Fields
  <2>2. m.pending_canonicalizations = n.pending_canonicalizations
    BY <2>0 DEF Fields
  <2>3. m.pending_insertions = n.pending_insertions
    BY <2>0 DEF Fields
  <2>4. m.levels = l /\ m.values = v
    BY <2>0 DEF Fields
  <2>5. m.parents = p /\ m.pinned_insertions = q
    BY <2>0 DEF Fields
  <2>6. m = [f \in Fields |-> m[f]]
    BY <2>0
  <2> QED BY <2>1, <2>2, <2>3, <2>4, <2>5, <2>6
<1>9. m \in Overlays
  <2> HIDE DEF m, l, q, v, p
  <2> QED BY <1>0, <1>6, <1>7, <1>8, <1>f, OverlayIs
<1>10. Retained(m) = Retained(n) \cup K
  <2>1. m.pinned_insertions = q
    BY <1>f
  <2>2. ASSUME NEW c \in Block PROVE q[c] > 0 <=> (n.pinned_insertions[c] > 0 \/ c \in K)
    <3>1. CASE c \in K
      <4>1. q[c] = num_pinned(n, D, c) /\ num_pinned(n, D, c) > 0
        BY <1>3, <3>1
      <4> QED BY <3>1, <4>1
    <3>2. CASE c \notin K
      BY <3>2
    <3> QED BY <3>1, <3>2
  <2>3. K \subseteq Block
    BY <1>2, <1>3
  <2> HIDE DEF m, q
  <2> QED BY <2>1, <2>2, <2>3 DEF Retained
<1>12. ASSUME NEW i \in 1 .. Len(n.levels) - 1
       PROVE  Entries(m.levels[i]) = {o \in Entries(n.levels[i + 1]) : o.hash \notin D}
  <2>1. l[i] = discard_level(n.levels[i + 1], D)
    OBVIOUS
  <2> HIDE DEF m, l
  <2> QED BY <1>5, <1>f, <2>1
<1> HIDE DEF m
<1>13. ApplyShape(m, n, b)
  <2> HIDE DEF l
  <2> QED BY <1>6, <1>10, <1>f, <1>12 DEF ApplyShape, D, K
<1> QED BY <1>1, <1>9, <1>13

\* The overlays between the turns of apply_canonicalizations.
Turns(f, n, p) ==
  /\ f[0] = n
  /\ \A i \in 0 .. Len(p) :
       /\ f[i] \in Overlays
       /\ Len(f[i].levels) = Len(n.levels) - i
       /\ f[i].last_hash = n.last_hash /\ f[i].last_number = n.last_number
       /\ f[i].pinned = n.pinned
  /\ \A i \in 1 .. Len(p) : ApplyShape(f[i], f[i - 1], p[i])

\* m is what noncanonical_apply_pending makes of overlay n, where the last turn
\* has left x.
AppliedShape(m, n, p, x) ==
  /\ m \in Overlays
  /\ m.levels = x.levels /\ m.values = x.values /\ m.pinned_insertions = x.pinned_insertions
  /\ m.pinned = n.pinned
  /\ m.last_hash = IF p = <<>> THEN n.last_hash ELSE Last(p)
  /\ m.last_number = n.last_number + Len(p)
  /\ m.pending_canonicalizations = <<>> /\ m.pending_insertions = <<>>

\* Every turn takes one level.
LEMMA TurnsAre ==
  ASSUME NEW n \in Overlays, NEW p \in Seq(Block), Len(p) <= Len(n.levels), NEW f, f[0] = n,
         \A i \in 1 .. Len(p) : f[i] = apply_canonicalization(f[i - 1], p[i])
  PROVE  Turns(f, n, p)
<1> DEFINE L == Len(n.levels)
           Good(i) == /\ f[i] \in Overlays
                      /\ Len(f[i].levels) = L - i
                      /\ f[i].last_hash = n.last_hash /\ f[i].last_number = n.last_number
                      /\ f[i].pinned = n.pinned
           T == {i \in Nat : Good(i)}
<1>0. L \in Nat /\ Len(p) \in Nat /\ \A i \in 1 .. Len(p) : p[i] \in Block
  <2>1. L \in Nat
    BY OverlayFields, LevelsAre
  <2> QED BY <2>1, LenProperties, ElementOfSeq
<1>1. 0 \in T
  BY <1>0
<1>2. ASSUME NEW i \in 0 .. Len(p) - 1, Good(i)
      PROVE  f[i + 1] \in Overlays /\ ApplyShape(f[i + 1], f[i], p[i + 1])
  <2>0. i \in Nat /\ i + 1 \in 1 .. Len(p) /\ (i + 1) - 1 = i
    BY <1>0
  <2>1. f[i + 1] = apply_canonicalization(f[i], p[i + 1])
    <3>1. f[i + 1] = apply_canonicalization(f[(i + 1) - 1], p[i + 1])
      BY <2>0
    <3> QED BY <2>0, <3>1
  <2>2. f[i].levels # <<>>
    <3>1. Len(f[i].levels) > 0
      BY <1>0, <1>2, <2>0
    <3> QED BY <3>1, EmptySeq
  <2>3. p[i + 1] \in Block
    BY <1>0, <2>0
  <2> QED BY <1>2, <2>1, <2>2, <2>3, ApplyOne
<1>3. ASSUME NEW i \in 0 .. Len(p) - 1, i \in T PROVE i + 1 \in T
  <2>1. Good(i) /\ i \in Nat /\ i + 1 \in Nat
    BY <1>0, <1>3
  <2>2. f[i + 1] \in Overlays /\ ApplyShape(f[i + 1], f[i], p[i + 1])
    BY <1>2, <2>1
  <2>3. Len(f[i + 1].levels) = L - (i + 1)
    BY <1>0, <2>1, <2>2 DEF ApplyShape
  <2>4. /\ f[i + 1].last_hash = n.last_hash /\ f[i + 1].last_number = n.last_number
        /\ f[i + 1].pinned = n.pinned
    BY <2>1, <2>2 DEF ApplyShape
  <2> QED BY <2>1, <2>2, <2>3, <2>4
<1>4. \A i \in 0 .. Len(p) : i \in T
  <2> HIDE DEF T
  <2> QED BY <1>0, <1>1, <1>3, UpTo
<1>5. ASSUME NEW i \in 1 .. Len(p) PROVE ApplyShape(f[i], f[i - 1], p[i])
  <2>1. i - 1 \in 0 .. Len(p) - 1 /\ i - 1 \in 0 .. Len(p) /\ (i - 1) + 1 = i
    BY <1>0
  <2>2. Good(i - 1)
    BY <1>4, <2>1
  <2>3. ApplyShape(f[(i - 1) + 1], f[i - 1], p[(i - 1) + 1])
    <3> HIDE DEF Good
    <3> QED BY <1>2, <2>1, <2>2
  <2> QED BY <2>1, <2>3
<1> QED BY <1>4, <1>5 DEF Turns

\* noncanonical_apply_pending.
LEMMA ApplyPendingIs ==
  ASSUME NEW n \in Overlays, NEW p, p = n.pending_canonicalizations, Len(p) <= Len(n.levels)
  PROVE  \E f : Turns(f, n, p) /\ AppliedShape(noncanonical_apply_pending(n), n, p, f[Len(p)])
<1>0. p \in Seq(Block) /\ n.last_number \in Nat \cup {-1} /\ n.last_hash \in Block \cup {NoBlock} /\ Len(p) \in Nat
  BY OverlayFields, LenProperties
<1> DEFINE a == apply_canonicalizations(n)
<1>1. \E f : /\ Turns(f, n, p)
             /\ a = [f[Len(p)] EXCEPT !.last_hash   = IF p = <<>> THEN n.last_hash ELSE Last(p),
                                      !.last_number = n.last_number + Len(p),
                                      !.pending_canonicalizations = <<>>]
  <2>1. CASE p = <<>>
    <3> DEFINE f == [i \in 0 .. 0 |-> n]
    <3>1. Len(p) = 0 /\ f[0] = n
      BY <2>1
    <3>2. \A i \in 1 .. Len(p) : f[i] = apply_canonicalization(f[i - 1], p[i])
      BY <3>1
    <3> HIDE DEF f
    <3>3. Turns(f, n, p)
      BY <1>0, <3>1, <3>2, TurnsAre
    <3>4. a = n
      BY <2>1 DEF apply_canonicalizations
    <3>5. n = [n EXCEPT !.last_hash = IF p = <<>> THEN n.last_hash ELSE Last(p),
                        !.last_number = n.last_number + Len(p),
                        !.pending_canonicalizations = <<>>]
      <4>1. n.last_number + Len(p) = n.last_number /\ (IF p = <<>> THEN n.last_hash ELSE Last(p)) = n.last_hash
        BY <1>0, <2>1, <3>1
      <4>2. n = [f1 \in Fields |-> n[f1]]
        BY OverlayDomain
      <4>3. n = [n EXCEPT !.last_hash = n.last_hash, !.last_number = n.last_number,
                        !.pending_canonicalizations = n.pending_canonicalizations]
        BY <4>2
      <4> QED BY <2>1, <4>1, <4>3
    <3>6. a = [f[Len(p)] EXCEPT !.last_hash   = IF p = <<>> THEN n.last_hash ELSE Last(p),
                                !.last_number = n.last_number + Len(p),
                                !.pending_canonicalizations = <<>>]
      BY <3>1, <3>4, <3>5
    <3> QED BY <3>3, <3>6
  <2>2. CASE p # <<>>
    <3>1. PICK f : AppliedBy(f, n, p, a)
      BY <1>0, <2>2, AppliedIs
    <3> HIDE DEF a
    <3>2. Turns(f, n, p)
      <4>1. f[0] = n /\ \A i \in 1 .. Len(p) : f[i] = apply_canonicalization(f[i - 1], p[i])
        BY <3>1 DEF AppliedBy
      <4> QED BY <1>0, <4>1, TurnsAre
    <3>3. f[Len(p)].last_number = n.last_number
      BY <1>0, <3>2 DEF Turns
    <3>4. a = [f[Len(p)] EXCEPT !.last_hash   = Last(p),
                                !.last_number = n.last_number + Len(p),
                                !.pending_canonicalizations = <<>>]
      BY <3>1, <3>3 DEF AppliedBy
    <3> QED BY <2>2, <3>2, <3>4
  <2> QED BY <2>1, <2>2
<1>2. PICK f : /\ Turns(f, n, p)
               /\ a = [f[Len(p)] EXCEPT !.last_hash   = IF p = <<>> THEN n.last_hash ELSE Last(p),
                                        !.last_number = n.last_number + Len(p),
                                        !.pending_canonicalizations = <<>>]
  BY <1>1
<1> DEFINE x == f[Len(p)]
           m == noncanonical_apply_pending(n)
           h == IF p = <<>> THEN n.last_hash ELSE Last(p)
<1>3. x \in Overlays /\ x.pinned = n.pinned
  BY <1>0, <1>2 DEF Turns
<1>4. h \in Block \cup {NoBlock} /\ n.last_number + Len(p) \in Nat \cup {-1}
  <2>1. p # <<>> => Last(p) \in Block
    BY <1>0 DEF Last
  <2> QED BY <1>0, <2>1
<1> HIDE DEF x, h
<1>5. m = [a EXCEPT !.pending_insertions = <<>>]
  BY DEF noncanonical_apply_pending
<1>6. a = [x EXCEPT !.last_hash = h, !.last_number = n.last_number + Len(p), !.pending_canonicalizations = <<>>]
  BY <1>2 DEF x, h
<1> HIDE DEF a, m
<1>7. x = [g \in Fields |-> x[g]]
  BY <1>3, OverlayDomain
<1>8. a = [g \in Fields |-> a[g]] /\ m = [g \in Fields |-> m[g]]
  BY <1>5, <1>6, <1>7
<1>9. m.last_hash = h /\ m.last_number = n.last_number + Len(p)
  BY <1>5, <1>6, <1>7 DEF Fields
<1>10. m.pending_canonicalizations = <<>> /\ m.pending_insertions = <<>>
  BY <1>5, <1>6, <1>7 DEF Fields
<1>11. m.levels = x.levels /\ m.values = x.values
  BY <1>5, <1>6, <1>7 DEF Fields
<1>12. m.parents = x.parents /\ m.pinned = x.pinned
  BY <1>5, <1>6, <1>7 DEF Fields
<1>13. m.pinned_insertions = x.pinned_insertions
  BY <1>5, <1>6, <1>7 DEF Fields
<1>14. m \in Overlays
  <2>1. <<>> \in Seq(Block)
    BY EmptySeq
  <2>2. /\ x.levels \in LevelSeqs /\ x.parents \in SUBSET Block /\ x.values \in [Key -> Nat]
        /\ x.pinned \in SUBSET Block /\ x.pinned_insertions \in [Block -> Nat]
    BY <1>3, OverlayFields
  <2> QED BY <1>4, <1>8, <1>9, <1>10, <1>11, <1>12, <1>13, <2>1, <2>2, OverlayIs
<1>15. AppliedShape(m, n, p, x)
  BY <1>3, <1>9, <1>10, <1>11, <1>12, <1>13, <1>14 DEF AppliedShape, h
<1> QED BY <1>2, <1>15 DEF x, m
-----------------------------------------------------------------------------
(* Insertion and its reversal                                              *)

\* The levels m are levels with o at the end of level i, or of a new level.
PushShape(m, levels, i, o) ==
  /\ m \in LevelSeqs
  /\ Len(m) = IF i \in 1 .. Len(levels) THEN Len(levels) ELSE Len(levels) + 1
  /\ i \in 1 .. Len(levels) => /\ m[i] = Append(levels[i], o)
                               /\ \A j \in 1 .. Len(levels) : j # i => m[j] = levels[j]
  /\ i \notin 1 .. Len(levels) => /\ m[Len(levels) + 1] = <<o>>
                                  /\ \A j \in 1 .. Len(levels) : m[j] = levels[j]

\* Where a block overlay goes.
LEMMA PushIs ==
  ASSUME NEW levels \in LevelSeqs, NEW i, NEW o \in BlockOverlay
  PROVE  PushShape(push(levels, i, o), levels, i, o)
<1> DEFINE S == Seq(BlockOverlay)
           N == Len(levels)
           m == push(levels, i, o)
<1>0. /\ N \in Nat /\ DOMAIN levels = 1 .. N /\ levels \in Seq(S)
      /\ \A j \in 1 .. N : levels[j] \in S
  BY LevelsAre DEF LevelSeqs
<1>1. CASE i \in 1 .. N
  <2> DEFINE e == Append(levels[i], o)
  <2>1. m = [levels EXCEPT ![i] = e]
    BY <1>0, <1>1 DEF push
  <2>2. e \in S
    BY <1>0, <1>1, AppendProperties
  <2> HIDE DEF S, e, m
  <2>3. levels = [j \in 1 .. N |-> levels[j]]
    BY <1>0
  <2>4. /\ m = [j \in 1 .. N |-> m[j]] /\ m[i] = e
        /\ \A j \in 1 .. N : j # i => m[j] = levels[j]
    BY <1>1, <2>1, <2>3
  <2>5. \A j \in 1 .. N : m[j] \in S
    BY <1>0, <2>2, <2>4
  <2> HIDE DEF N
  <2>6. m \in Seq(S) /\ Len(m) = N
    BY <1>0, <2>4, <2>5
  <2> QED BY <1>1, <2>4, <2>6 DEF PushShape, LevelSeqs, S, N, e, m
<1>2. CASE i \notin 1 .. N
  <2> DEFINE e == <<o>>
  <2>1. m = Append(levels, e)
    BY <1>0, <1>2 DEF push
  <2>2. e \in S
    OBVIOUS
  <2> HIDE DEF S, e, m
  <2>3. /\ m \in Seq(S) /\ Len(m) = N + 1 /\ m[N + 1] = e
        /\ \A j \in 1 .. N : m[j] = levels[j]
    BY <1>0, <2>1, <2>2, AppendProperties
  <2> QED BY <1>2, <2>3 DEF PushShape, LevelSeqs, S, N, e, m
<1> QED BY <1>1, <1>2

\* The block overlay of block b.
NewEntry(n, b) == [hash |-> b, index |-> insert_index(n, b)]

\* m is overlay n with block b.
InsertShape(m, n, b) ==
  /\ m \in Overlays
  /\ m.last_hash = n.last_hash /\ m.last_number = n.last_number
  /\ m.pending_canonicalizations = n.pending_canonicalizations
  /\ m.pending_insertions = Append(n.pending_insertions, b)
  /\ m.pinned = n.pinned /\ m.pinned_insertions = n.pinned_insertions
  /\ m.values = insert_values(n.values, {b})
  /\ PushShape(m.levels, n.levels, level_of(n, b), NewEntry(n, b))

\* `insert`, for a block whose parent is known.
LEMMA InsertIs ==
  ASSUME NEW n \in Overlays, NEW b \in Block, ~assumes_parent(n, b)
  PROVE  InsertShape(insert(n, b), n, b)
<1> DEFINE o == NewEntry(n, b)
           l == push(n.levels, level_of(n, b), o)
           v == insert_values(n.values, {b})
           q == n.parents \cup {b}
           a == Append(n.pending_insertions, b)
           m == [n EXCEPT !.last_hash = n.last_hash, !.last_number = n.last_number, !.levels = l,
                          !.parents = q, !.values = v, !.pending_insertions = a]
<1>0. /\ n.levels \in LevelSeqs /\ n.parents \in SUBSET Block /\ n.values \in [Key -> Nat]
      /\ n.pinned_insertions \in [Block -> Nat] /\ n.pinned \in SUBSET Block
      /\ n.last_hash \in Block \cup {NoBlock} /\ n.last_number \in Nat \cup {-1}
      /\ n.pending_canonicalizations \in Seq(Block) /\ n.pending_insertions \in Seq(Block)
  BY OverlayFields
<1>1. insert(n, b) = m
  BY DEF insert, NewEntry
<1>2. o \in BlockOverlay
  <2>1. insert_index(n, b) \in Nat
    <3>1. ASSUME NEW i \in DOMAIN n.levels PROVE Len(n.levels[i]) \in Nat
      BY <1>0, LevelsAre, LevelIs
    <3> QED BY <3>1 DEF insert_index
  <2> QED BY <2>1 DEF NewEntry, BlockOverlay
<1> HIDE DEF o
<1>3. PushShape(l, n.levels, level_of(n, b), o)
  BY <1>0, <1>2, PushIs
<1>4. v \in [Key -> Nat] /\ q \in SUBSET Block /\ l \in LevelSeqs
  BY <1>0, <1>3, ValuesType DEF PushShape
<1>5. a \in Seq(Block)
  BY <1>0, AppendProperties
<1> HIDE DEF l, v, q, a
<1>6. n = [f \in Fields |-> n[f]]
  BY OverlayDomain
<1>7. m = [f \in Fields |-> m[f]]
  BY <1>6
<1>8. m.last_hash = n.last_hash /\ m.last_number = n.last_number /\ m.pinned = n.pinned
  BY <1>6 DEF Fields
<1>9. m.pending_canonicalizations = n.pending_canonicalizations /\ m.pending_insertions = a
  BY <1>6 DEF Fields
<1>10. m.pinned_insertions = n.pinned_insertions /\ m.values = v
  BY <1>6 DEF Fields
<1>11. m.levels = l /\ m.parents = q
  BY <1>6 DEF Fields
<1> HIDE DEF m
<1>12. m \in Overlays
  BY <1>0, <1>4, <1>5, <1>7, <1>8, <1>9, <1>10, <1>11, OverlayIs
<1>13. InsertShape(m, n, b)
  BY <1>3, <1>8, <1>9, <1>10, <1>11, <1>12 DEF InsertShape, o, a, v
<1> QED BY <1>1, <1>13

\* b is the last block of level i.
LastOf(levels, i, b) == i \in DOMAIN levels /\ levels[i] # <<>> /\ Last(levels[i]).hash = b

\* The levels m are levels without the last block of level i, or, where it was
\* the only one, without the last level as well.
CutShape(m, levels, i) ==
  /\ m \in LevelSeqs
  /\ IF Len(levels[i]) = 1
     THEN /\ Len(m) = Len(levels) - 1
          /\ \A j \in 1 .. Len(m) : m[j] = IF j = i THEN <<>> ELSE levels[j]
     ELSE /\ Len(m) = Len(levels)
          /\ \A j \in 1 .. Len(m) : m[j] = IF j = i THEN Front(levels[i]) ELSE levels[j]

\* m is overlay n without its inserted block b, the last one of level i.
RevertShape(m, n, b, i) ==
  /\ m \in Overlays
  /\ m.last_hash = n.last_hash /\ m.last_number = n.last_number
  /\ m.pinned = n.pinned /\ m.pinned_insertions = n.pinned_insertions
  /\ m.values = discard_values(n.values, {b})
  /\ LastOf(n.levels, i, b)
  /\ CutShape(m.levels, n.levels, i)

\* The front of a sequence.
LEMMA FrontIs ==
  ASSUME NEW S, NEW s \in Seq(S), s # <<>>
  PROVE  /\ Front(s) \in Seq(S) /\ Len(Front(s)) = Len(s) - 1 /\ Len(s) \in Nat /\ Len(s) > 0
         /\ \A j \in 1 .. Len(s) - 1 : Front(s)[j] = s[j]
         /\ Front(s) = <<>> <=> Len(s) = 1
<1>1. Len(s) \in Nat /\ Len(s) # 0
  BY EmptySeq, LenProperties
<1>2. Front(s) = SubSeq(s, 1, Len(s) - 1)
  BY DEF Front
<1>3. Len(s) - 1 \in 0 .. Len(s) /\ 1 \in 1 .. Len(s) + 1 /\ Len(s) - 1 \in 1 - 1 .. Len(s)
  BY <1>1
<1>4. /\ SubSeq(s, 1, Len(s) - 1) \in Seq(S) /\ Len(SubSeq(s, 1, Len(s) - 1)) = Len(s) - 1
      /\ \A j \in 1 .. Len(s) - 1 : SubSeq(s, 1, Len(s) - 1)[j] = s[j]
  <2> DEFINE e == Len(s) - 1
  <2>1. 1 \in Int /\ e \in Int /\ \A i \in 1 .. e : s[i] \in S
    BY <1>1, ElementOfSeq
  <2> HIDE DEF e
  <2>2. /\ SubSeq(s, 1, e) \in Seq(S)
        /\ Len(SubSeq(s, 1, e)) = IF 1 <= e THEN e - 1 + 1 ELSE 0
        /\ \A i \in 1 .. e - 1 + 1 : SubSeq(s, 1, e)[i] = s[1 + i - 1]
    BY <2>1, SubSeqProperties
  <2>3. e - 1 + 1 = e /\ e >= 0
    BY <1>1 DEF e
  <2>4. \A i \in 1 .. e : 1 + i - 1 = i
    BY <2>1
  <2>5. Len(SubSeq(s, 1, e)) = e
    BY <2>1, <2>2, <2>3
  <2>6. \A i \in 1 .. e : SubSeq(s, 1, e)[i] = s[i]
    BY <2>2, <2>3, <2>4
  <2> QED BY <2>2, <2>5, <2>6 DEF e
<1>5. Front(s) = <<>> <=> Len(s) = 1
  <2>1. Front(s) \in Seq(S)
    BY <1>2, <1>4
  <2>2. Front(s) = <<>> <=> Len(Front(s)) = 0
    BY <2>1, EmptySeq
  <2> QED BY <1>1, <1>2, <1>4, <2>2
<1> QED BY <1>1, <1>2, <1>4, <1>5

\* The levels without the last block of level i.
LEMMA CutIs ==
  ASSUME NEW levels \in LevelSeqs, NEW b, NEW i, LastOf(levels, i, b),
         NEW cut, cut = [levels EXCEPT ![i] = Front(levels[i])],
         NEW m, m = IF cut[i] = <<>> THEN Front(cut) ELSE cut
  PROVE  CutShape(m, levels, i)
<1> DEFINE S == Seq(BlockOverlay)
           N == Len(levels)
           e == Front(levels[i])
<1>0. /\ N \in Nat /\ DOMAIN levels = 1 .. N /\ levels \in Seq(S) /\ i \in 1 .. N
      /\ \A j \in 1 .. N : levels[j] \in S
  BY LevelsAre DEF LevelSeqs, LastOf
<1>1. e \in S /\ (e = <<>> <=> Len(levels[i]) = 1)
  <2>1. levels[i] \in Seq(BlockOverlay) /\ levels[i] # <<>>
    BY <1>0 DEF LastOf
  <2> QED BY <2>1, FrontIs
<1> HIDE DEF S, e
<1>2. levels = [j \in 1 .. N |-> levels[j]]
  BY <1>0
<1>3. /\ cut = [j \in 1 .. N |-> cut[j]] /\ cut[i] = e
      /\ \A j \in 1 .. N : j # i => cut[j] = levels[j]
  BY <1>0, <1>2 DEF e
<1>4. \A j \in 1 .. N : cut[j] \in S
  BY <1>0, <1>1, <1>3
<1>5. cut \in Seq(S) /\ Len(cut) = N
  <2> HIDE DEF N
  <2> QED BY <1>0, <1>3, <1>4
<1>6. cut # <<>>
  BY <1>0, <1>5, EmptySeq
<1>7. CASE Len(levels[i]) = 1
  <2>1. m = Front(cut)
    BY <1>1, <1>3, <1>7
  <2>2. /\ Front(cut) \in Seq(S) /\ Len(Front(cut)) = N - 1
        /\ \A j \in 1 .. N - 1 : Front(cut)[j] = cut[j]
    BY <1>5, <1>6, FrontIs
  <2>3. e = <<>>
    BY <1>1, <1>7
  <2>4. ASSUME NEW j \in 1 .. Len(m) PROVE m[j] = IF j = i THEN <<>> ELSE levels[j]
    <3>0. Len(m) = N - 1 /\ N \in Nat
      BY <1>0, <2>1, <2>2
    <3> HIDE DEF N
    <3>1. j \in 1 .. N - 1 /\ j \in 1 .. N
      BY <3>0
    <3>2. m[j] = cut[j]
      BY <2>1, <2>2, <3>1
    <3> QED BY <1>3, <2>3, <3>1, <3>2
  <2> QED BY <1>7, <2>1, <2>2, <2>4 DEF CutShape, LevelSeqs, S
<1>8. CASE Len(levels[i]) # 1
  <2>1. m = cut
    BY <1>1, <1>3, <1>8
  <2>2. \A j \in 1 .. Len(m) : m[j] = IF j = i THEN Front(levels[i]) ELSE levels[j]
    BY <1>0, <1>3, <1>5, <2>1 DEF e
  <2> QED BY <1>5, <1>8, <2>1, <2>2 DEF CutShape, LevelSeqs, S
<1> QED BY <1>7, <1>8

\* One turn of revert_insertions.
LEMMA RevertOne ==
  ASSUME NEW n \in Overlays, NEW b \in Block, \E i : LastOf(n.levels, i, b),
         NEW r, r = revert_insertion(n, b)
  PROVE  /\ \E i : RevertShape(r, n, b, i)
         /\ r.pending_canonicalizations = n.pending_canonicalizations
         /\ r.pending_insertions = n.pending_insertions
<1> DEFINE i == CHOOSE j \in DOMAIN n.levels : n.levels[j] # <<>> /\ Last(n.levels[j]).hash = b
           cut == [n.levels EXCEPT ![i] = Front(n.levels[i])]
           l == IF cut[i] = <<>> THEN Front(cut) ELSE cut
           p == n.parents \ {b}
           v == discard_values(n.values, {b})
           m == [n EXCEPT !.levels = l, !.parents = p, !.values = v]
<1>0. /\ n.levels \in LevelSeqs /\ n.parents \in SUBSET Block /\ n.values \in [Key -> Nat]
      /\ n.pinned_insertions \in [Block -> Nat] /\ n.pinned \in SUBSET Block
      /\ n.last_hash \in Block \cup {NoBlock} /\ n.last_number \in Nat \cup {-1}
      /\ n.pending_canonicalizations \in Seq(Block) /\ n.pending_insertions \in Seq(Block)
  BY OverlayFields
<1>1. LastOf(n.levels, i, b)
  <2>1. \E j \in DOMAIN n.levels : n.levels[j] # <<>> /\ Last(n.levels[j]).hash = b
    BY DEF LastOf
  <2> QED BY <2>1 DEF LastOf
<1>2. r = m
  BY DEF revert_insertion
<1> HIDE DEF i
<1>3. CutShape(l, n.levels, i)
  <2> HIDE DEF cut
  <2> DEFINE c == cut
  <2>1. c = [n.levels EXCEPT ![i] = Front(n.levels[i])]
    BY DEF cut
  <2> HIDE DEF c
  <2>2. l = IF c[i] = <<>> THEN Front(c) ELSE c
    BY DEF c
  <2> HIDE DEF l
  <2> QED BY <1>0, <1>1, <2>1, <2>2, CutIs
<1>4. l \in LevelSeqs /\ p \in SUBSET Block /\ v \in [Key -> Nat]
  BY <1>0, <1>3, ValuesType DEF CutShape
<1> HIDE DEF l, p, v
<1>6. n = [f \in Fields |-> n[f]]
  BY OverlayDomain
<1>7. m = [f \in Fields |-> m[f]]
  BY <1>6
<1>8. m.last_hash = n.last_hash /\ m.last_number = n.last_number /\ m.pinned = n.pinned
  BY <1>6 DEF Fields
<1>9. m.pending_canonicalizations = n.pending_canonicalizations
  BY <1>6 DEF Fields
<1>10. m.pending_insertions = n.pending_insertions
  BY <1>6 DEF Fields
<1>11. m.pinned_insertions = n.pinned_insertions /\ m.values = v
  BY <1>6 DEF Fields
<1>12. m.levels = l /\ m.parents = p
  BY <1>6 DEF Fields
<1> HIDE DEF m
<1>13. m \in Overlays
  BY <1>0, <1>4, <1>7, <1>8, <1>9, <1>10, <1>11, <1>12, OverlayIs
<1>14. RevertShape(m, n, b, i)
  BY <1>1, <1>3, <1>8, <1>11, <1>12, <1>13 DEF RevertShape, v
<1> QED BY <1>2, <1>9, <1>10, <1>14

\* m is what noncanonical_revert_pending makes of overlay n.
RevertedShape(m, n) ==
  /\ m \in Overlays
  /\ m.last_hash = n.last_hash /\ m.last_number = n.last_number
  /\ m.pending_canonicalizations = <<>> /\ m.pending_insertions = <<>>
  /\ m.pinned = n.pinned /\ m.pinned_insertions = n.pinned_insertions
  /\ n.pending_insertions = <<>> => m.levels = n.levels /\ m.values = n.values
  /\ n.pending_insertions # <<>> => \E i : RevertShape(m, n, n.pending_insertions[1], i)

\* noncanonical_revert_pending takes back what is pending, and nothing else.
LEMMA RevertPendingIs ==
  ASSUME NEW n \in Overlays, Len(n.pending_insertions) <= 1,
         n.pending_insertions # <<>> => \E i : LastOf(n.levels, i, n.pending_insertions[1])
  PROVE  RevertedShape(noncanonical_revert_pending(n), n)
<1> DEFINE p == n.pending_insertions
           x == IF p = <<>> THEN n ELSE revert_insertion(n, p[1])
           m == [x EXCEPT !.pending_canonicalizations = <<>>, !.pending_insertions = <<>>]
<1>0. /\ n.levels \in LevelSeqs /\ n.parents \in SUBSET Block /\ n.values \in [Key -> Nat]
      /\ n.pinned_insertions \in [Block -> Nat] /\ n.pinned \in SUBSET Block
      /\ n.last_hash \in Block \cup {NoBlock} /\ n.last_number \in Nat \cup {-1}
      /\ n.pending_canonicalizations \in Seq(Block) /\ p \in Seq(Block)
  BY OverlayFields
<1>1. noncanonical_revert_pending(n) = m
  BY <1>0, RevertedIs
<1>2. p # <<>> => p[1] \in Block
  <2>1. p # <<>> => Len(p) \in Nat /\ Len(p) # 0
    BY <1>0, EmptySeq, LenProperties
  <2> QED BY <1>0, <2>1, ElementOfSeq
<1>3. p # <<>> => \E i : RevertShape(x, n, p[1], i)
  <2> SUFFICES ASSUME p # <<>> PROVE \E i : RevertShape(x, n, p[1], i)
    OBVIOUS
  <2>1. p[1] \in Block /\ \E i : LastOf(n.levels, i, p[1])
    BY <1>2
  <2>2. x = revert_insertion(n, p[1])
    OBVIOUS
  <2> HIDE DEF x, p
  <2> QED BY <2>1, <2>2, RevertOne
<1>4. p = <<>> => x = n
  OBVIOUS
<1> HIDE DEF x
<1>5. x \in Overlays
  BY <1>3, <1>4 DEF RevertShape
<1>6. x = [f \in Fields |-> x[f]]
  BY <1>5, OverlayDomain
<1>7. m = [f \in Fields |-> m[f]]
  BY <1>6
<1>8. m.last_hash = x.last_hash /\ m.last_number = x.last_number /\ m.pinned = x.pinned
  BY <1>6 DEF Fields
<1>9. m.pending_canonicalizations = <<>> /\ m.pending_insertions = <<>>
  BY <1>6 DEF Fields
<1>10. m.pinned_insertions = x.pinned_insertions /\ m.values = x.values
  BY <1>6 DEF Fields
<1>11. m.levels = x.levels /\ m.parents = x.parents
  BY <1>6 DEF Fields
<1> HIDE DEF m
<1>12. m \in Overlays
  <2>1. <<>> \in Seq(Block)
    BY EmptySeq
  <2>2. /\ x.levels \in LevelSeqs /\ x.parents \in SUBSET Block /\ x.values \in [Key -> Nat]
        /\ x.pinned_insertions \in [Block -> Nat] /\ x.pinned \in SUBSET Block
        /\ x.last_hash \in Block \cup {NoBlock} /\ x.last_number \in Nat \cup {-1}
    BY <1>5, OverlayFields
  <2> QED BY <1>7, <1>8, <1>9, <1>10, <1>11, <2>1, <2>2, OverlayIs
<1>13. /\ x.last_hash = n.last_hash /\ x.last_number = n.last_number
       /\ x.pinned = n.pinned /\ x.pinned_insertions = n.pinned_insertions
  BY <1>3, <1>4 DEF RevertShape
<1>14. ASSUME p # <<>> PROVE \E i : RevertShape(m, n, p[1], i)
  <2>1. PICK i : RevertShape(x, n, p[1], i)
    BY <1>3, <1>14
  <2>2. RevertShape(m, n, p[1], i)
    BY <1>8, <1>10, <1>11, <1>12, <2>1 DEF RevertShape
  <2> QED BY <2>2
<1>15. p = <<>> => m.levels = n.levels /\ m.values = n.values
  BY <1>4, <1>10, <1>11
<1>16. RevertedShape(m, n)
  BY <1>8, <1>9, <1>10, <1>12, <1>13, <1>14, <1>15 DEF RevertedShape, p
<1> QED BY <1>1, <1>16

\* m is overlay n without its last level.
DropShape(m, n) ==
  /\ m \in Overlays
  /\ m.last_hash = n.last_hash /\ m.last_number = n.last_number
  /\ m.pending_canonicalizations = n.pending_canonicalizations
  /\ m.pending_insertions = n.pending_insertions
  /\ m.pinned = n.pinned /\ m.pinned_insertions = n.pinned_insertions
  /\ m.values = discard_values(n.values, Hashes(Last(n.levels)))
  /\ Len(m.levels) = Len(n.levels) - 1
  /\ \A j \in 1 .. Len(n.levels) - 1 : m.levels[j] = n.levels[j]

\* noncanonical_revert_one drops the last level.
LEMMA RevertOneIs ==
  ASSUME NEW n \in Overlays, n.levels # <<>>
  PROVE  DropShape(noncanonical_revert_one(n), n)
<1> DEFINE B == Hashes(Last(n.levels))
           l == Front(n.levels)
           p == n.parents \ B
           v == discard_values(n.values, B)
           m == [n EXCEPT !.levels = l, !.parents = p, !.values = v]
<1>0. /\ n.levels \in LevelSeqs /\ n.parents \in SUBSET Block /\ n.values \in [Key -> Nat]
      /\ n.pinned_insertions \in [Block -> Nat] /\ n.pinned \in SUBSET Block
      /\ n.last_hash \in Block \cup {NoBlock} /\ n.last_number \in Nat \cup {-1}
      /\ n.pending_canonicalizations \in Seq(Block) /\ n.pending_insertions \in Seq(Block)
  BY OverlayFields
<1>1. noncanonical_revert_one(n) = m
  BY DEF noncanonical_revert_one
<1>2. /\ l \in LevelSeqs /\ Len(l) = Len(n.levels) - 1
      /\ \A j \in 1 .. Len(n.levels) - 1 : l[j] = n.levels[j]
  <2> DEFINE S == Seq(BlockOverlay)
  <2>1. n.levels \in Seq(S)
    BY <1>0 DEF LevelSeqs
  <2> HIDE DEF S
  <2>2. /\ l \in Seq(S) /\ Len(l) = Len(n.levels) - 1
        /\ \A j \in 1 .. Len(n.levels) - 1 : l[j] = n.levels[j]
    BY <2>1, FrontIs
  <2> QED BY <2>2 DEF S, LevelSeqs
<1>3. B \in SUBSET Block
  <2>1. Len(n.levels) \in Nat /\ DOMAIN n.levels = 1 .. Len(n.levels) /\ Len(n.levels) # 0
    BY <1>0, LevelsAre, EmptySeq DEF LevelSeqs
  <2>2. Last(n.levels) = n.levels[Len(n.levels)]
    BY DEF Last
  <2>3. Len(n.levels) \in DOMAIN n.levels
    BY <2>1
  <2> QED BY <1>0, <2>2, <2>3, LevelsAre
<1>4. p \in SUBSET Block /\ v \in [Key -> Nat]
  BY <1>0, <1>3, ValuesType
<1> HIDE DEF l, p, v
<1>6. n = [f \in Fields |-> n[f]]
  BY OverlayDomain
<1>7. m = [f \in Fields |-> m[f]]
  BY <1>6
<1>8. m.last_hash = n.last_hash /\ m.last_number = n.last_number /\ m.pinned = n.pinned
  BY <1>6 DEF Fields
<1>9. m.pending_canonicalizations = n.pending_canonicalizations
  BY <1>6 DEF Fields
<1>10. m.pending_insertions = n.pending_insertions
  BY <1>6 DEF Fields
<1>11. m.pinned_insertions = n.pinned_insertions /\ m.values = v
  BY <1>6 DEF Fields
<1>12. m.levels = l /\ m.parents = p
  BY <1>6 DEF Fields
<1> HIDE DEF m
<1>13. m \in Overlays
  BY <1>0, <1>2, <1>4, <1>7, <1>8, <1>9, <1>10, <1>11, <1>12, OverlayIs
<1>14. DropShape(m, n)
  BY <1>2, <1>8, <1>9, <1>10, <1>11, <1>12, <1>13 DEF DropShape, v
<1> QED BY <1>1, <1>14

-----------------------------------------------------------------------------
(* Pinning                                                                 *)

\* m is overlay n but for what is pinned.
SamePart(m, n) ==
  /\ m \in Overlays
  /\ m.last_hash = n.last_hash /\ m.last_number = n.last_number /\ m.levels = n.levels
  /\ m.pending_canonicalizations = n.pending_canonicalizations
  /\ m.pending_insertions = n.pending_insertions

\* noncanonical_pin changes nothing but what is pinned.
LEMMA PinIs ==
  ASSUME NEW n \in Overlays, NEW b \in Block, NEW m, m = noncanonical_pin(n, b)
  PROVE  SamePart(m, n) /\ m.values = n.values /\ m.pinned_insertions = n.pinned_insertions
<1>1. CASE b \in ToSet(n.pending_insertions)
  <2>1. m = n
    BY <1>1 DEF noncanonical_pin
  <2> QED BY <2>1 DEF SamePart
<1>2. CASE b \notin ToSet(n.pending_insertions)
  <2> DEFINE q == n.pinned \cup {b}
  <2>0. /\ n.levels \in LevelSeqs /\ n.parents \in SUBSET Block /\ n.values \in [Key -> Nat]
        /\ n.pinned_insertions \in [Block -> Nat] /\ q \in SUBSET Block
        /\ n.last_hash \in Block \cup {NoBlock} /\ n.last_number \in Nat \cup {-1}
        /\ n.pending_canonicalizations \in Seq(Block) /\ n.pending_insertions \in Seq(Block)
    BY OverlayFields
  <2>1. m = [n EXCEPT !.pinned = q]
    BY <1>2 DEF noncanonical_pin
  <2> HIDE DEF q
  <2>2. n = [f \in Fields |-> n[f]]
    BY OverlayDomain
  <2>3. m = [f \in Fields |-> m[f]] /\ m.pinned = q
    BY <2>1, <2>2 DEF Fields
  <2>4. m.last_hash = n.last_hash /\ m.last_number = n.last_number /\ m.levels = n.levels
    BY <2>1, <2>2 DEF Fields
  <2>5. m.pending_canonicalizations = n.pending_canonicalizations
    BY <2>1, <2>2 DEF Fields
  <2>6. m.pending_insertions = n.pending_insertions /\ m.values = n.values
    BY <2>1, <2>2 DEF Fields
  <2>7. m.pinned_insertions = n.pinned_insertions /\ m.parents = n.parents
    BY <2>1, <2>2 DEF Fields
  <2>8. m \in Overlays
    BY <2>0, <2>3, <2>4, <2>5, <2>6, <2>7, OverlayIs
  <2> QED BY <2>4, <2>5, <2>6, <2>7, <2>8 DEF SamePart
<1> QED BY <1>1, <1>2

\* The retained blocks whose last pin this is.
Gone(n, b) == {c \in unpin_path(n, b) : n.pinned_insertions[c] = 1}

\* A block that unpin passes has a pin to lose: its counter does not wrap.
LEMMA UnpinIs ==
  ASSUME NEW n \in Overlays, NEW b \in Block, NEW m, m = noncanonical_unpin(n, b)
  PROVE  /\ SamePart(m, n)
         /\ b \notin n.pinned => m = n
         /\ b \in n.pinned => /\ m.values = discard_values(n.values, Gone(n, b))
                              /\ Retained(m) = Retained(n) \ Gone(n, b)
                              /\ Gone(n, b) \subseteq Retained(n)
<1>1. CASE b \notin n.pinned
  <2>1. m = n
    BY <1>1 DEF noncanonical_unpin
  <2> QED BY <1>1, <2>1 DEF SamePart
<1>2. CASE b \in n.pinned
  <2> DEFINE path == unpin_path(n, b)
             g == Gone(n, b)
             s == n.pinned \ {b}
             p == n.parents \ g
             v == discard_values(n.values, g)
             q == [c \in Block |-> IF c \in path THEN n.pinned_insertions[c] - 1 ELSE n.pinned_insertions[c]]
  <2>0. /\ n.levels \in LevelSeqs /\ n.parents \in SUBSET Block /\ n.values \in [Key -> Nat]
        /\ n.pinned_insertions \in [Block -> Nat] /\ n.pinned \in SUBSET Block
        /\ n.last_hash \in Block \cup {NoBlock} /\ n.last_number \in Nat \cup {-1}
        /\ n.pending_canonicalizations \in Seq(Block) /\ n.pending_insertions \in Seq(Block)
    BY OverlayFields
  <2>1. m = [n EXCEPT !.pinned = s, !.parents = p, !.values = v, !.pinned_insertions = q]
    BY <1>2 DEF noncanonical_unpin, Gone
  <2>2. ASSUME NEW c \in path PROVE c \in Block /\ n.pinned_insertions[c] > 0
    <3>1. c \in Ancestors[b] /\ \A d \in Ancestors[b] : c \in Ancestors[d] => d \in Retained(n)
      BY DEF unpin_path
    <3>2. c \in Block
      BY <3>1, AncestorsBlocks
    <3>3. c \in Ancestors[c]
      BY <3>2, AncestorsBlocks
    <3> QED BY <3>1, <3>2, <3>3 DEF Retained
  <2>3. g \subseteq path /\ \A c \in path : c \in g <=> n.pinned_insertions[c] = 1
    BY DEF Gone
  <2> HIDE DEF path, g
  <2>4. ASSUME NEW c \in Block
        PROVE  q[c] \in Nat /\ (q[c] > 0 <=> n.pinned_insertions[c] > 0 /\ c \notin g)
    <3>1. CASE c \in path
      <4>1. q[c] = n.pinned_insertions[c] - 1 /\ n.pinned_insertions[c] > 0 /\ n.pinned_insertions[c] \in Nat
        BY <2>0, <2>2, <3>1
      <4>2. c \in g <=> n.pinned_insertions[c] = 1
        BY <2>3, <3>1
      <4> QED BY <4>1, <4>2
    <3>2. CASE c \notin path
      BY <2>0, <2>3, <3>2
    <3> QED BY <3>1, <3>2
  <2>5. q \in [Block -> Nat] /\ g \in SUBSET Block
    BY <2>2, <2>3, <2>4
  <2>6. p \in SUBSET Block /\ v \in [Key -> Nat] /\ s \in SUBSET Block
    BY <2>0, <2>5, ValuesType
  <2>7. n = [f \in Fields |-> n[f]]
    BY OverlayDomain
  <2> HIDE DEF s, p, v, q
  <2>8. m = [f \in Fields |-> m[f]] /\ m.pinned = s /\ m.parents = p
    BY <2>1, <2>7 DEF Fields
  <2>9. m.last_hash = n.last_hash /\ m.last_number = n.last_number /\ m.levels = n.levels
    BY <2>1, <2>7 DEF Fields
  <2>10. m.pending_canonicalizations = n.pending_canonicalizations
    BY <2>1, <2>7 DEF Fields
  <2>11. m.pending_insertions = n.pending_insertions /\ m.values = v
    BY <2>1, <2>7 DEF Fields
  <2>12. m.pinned_insertions = q
    BY <2>1, <2>7 DEF Fields
  <2>13. m \in Overlays
    BY <2>0, <2>5, <2>6, <2>8, <2>9, <2>10, <2>11, <2>12, OverlayIs
  <2>14. Retained(m) = Retained(n) \ g
    BY <2>4, <2>12 DEF Retained
  <2>15. g \subseteq Retained(n)
    BY <2>2, <2>3 DEF Retained
  <2> QED BY <1>2, <2>9, <2>10, <2>11, <2>13, <2>14, <2>15 DEF SamePart, v, g
<1> QED BY <1>1, <1>2
-----------------------------------------------------------------------------
(* Startup                                                                 *)

Journals == {J \in SUBSET (Nat \X Nat \X Block) : IsFiniteSet(J)}

\* Every block of the level has a record in journal J, under number m.
Recorded(level, J, m) ==
  \A x \in DOMAIN level : \E r \in J : r[1] = m /\ r[2] = level[x].index /\ r[3] = level[x].hash

\* A level that is read from the journal.
LEMMA JournalLevelIs ==
  ASSUME NEW J \in Journals, NEW m \in Nat
  PROVE  /\ journal_level(J, m) \in Seq(BlockOverlay)
         /\ Recorded(journal_level(J, m), J, m)
         /\ journal_level(J, m) = <<>> <=> {r \in J : r[1] = m /\ r[2] = 0} = {}
<1> DEFINE rec(i) == {r \in J : r[1] = m /\ r[2] = i}
           R == [i \in Nat |-> rec(i)]
           Is(c) == rec(c) = {} /\ \A i \in 0 .. c - 1 : rec(i) # {}
           count == CHOOSE c \in 0 .. Cardinality(J) : Is(c)
           entry(i) == [hash |-> (CHOOSE r \in rec(i - 1) : TRUE)[3], index |-> i - 1]
           level == [i \in 1 .. count |-> entry(i)]
<1>0. IsFiniteSet(J) /\ Cardinality(J) \in Nat /\ \A r \in J : r \in Nat \X Nat \X Block
  BY FS_CardinalityType DEF Journals
<1>1. \E c \in 0 .. Cardinality(J) : Is(c)
  <2>1. R \in [Nat -> SUBSET J] /\ \A i \in Nat : R[i] = rec(i)
    OBVIOUS
  <2>2. \A i, j \in Nat : i # j => R[i] \cap R[j] = {}
    BY <2>1
  <2> HIDE DEF rec, R
  <2>3. PICK c \in 0 .. Cardinality(J) : R[c] = {} /\ \A i \in 0 .. c - 1 : R[i] # {}
    BY <1>0, <2>1, <2>2, FirstGap
  <2>4. c \in Nat /\ \A i \in 0 .. c - 1 : i \in Nat
    BY <1>0
  <2>5. Is(c)
    BY <2>1, <2>3, <2>4
  <2> HIDE DEF Is
  <2> QED BY <2>3, <2>5
<1>2. count \in 0 .. Cardinality(J) /\ Is(count)
  <2> HIDE DEF Is
  <2> QED BY <1>1
<1>3. journal_level(J, m) = level
  BY DEF journal_level
<1>4. count \in Nat
  <2> HIDE DEF count, Is
  <2> QED BY <1>0, <1>2
<1> HIDE DEF count
<1>5. ASSUME NEW i \in 1 .. count
      PROVE  /\ entry(i) \in BlockOverlay
             /\ \E r \in J : r[1] = m /\ r[2] = entry(i).index /\ r[3] = entry(i).hash
  <2>1. i - 1 \in 0 .. count - 1 /\ i - 1 \in Nat
    BY <1>4
  <2>2. rec(i - 1) # {}
    BY <1>2, <2>1
  <2> DEFINE r == CHOOSE r \in rec(i - 1) : TRUE
  <2>3. r \in rec(i - 1)
    <3> HIDE DEF rec
    <3> QED BY <2>2
  <2>4. entry(i) = [hash |-> r[3], index |-> i - 1]
    OBVIOUS
  <2> HIDE DEF r
  <2>5. r \in J /\ r[1] = m /\ r[2] = i - 1
    BY <2>3
  <2>6. r[3] \in Block
    BY <1>0, <2>5
  <2> HIDE DEF entry, rec
  <2>7. entry(i).hash = r[3] /\ entry(i).index = i - 1 /\ entry(i) \in BlockOverlay
    BY <2>1, <2>4, <2>6 DEF BlockOverlay
  <2> QED BY <2>5, <2>7
<1> HIDE DEF entry
<1>6. level \in Seq(BlockOverlay) /\ Len(level) = count /\ DOMAIN level = 1 .. count
  BY <1>4, <1>5
<1>7. Recorded(level, J, m)
  BY <1>5, <1>6 DEF Recorded
<1>8. level = <<>> <=> count = 0
  <2> HIDE DEF level
  <2> QED BY <1>6, EmptySeq
<1>9. count = 0 <=> rec(0) = {}
  <2>1. count = 0 => rec(0) = {}
    BY <1>2
  <2>2. count # 0 => 0 \in 0 .. count - 1
    BY <1>4
  <2> HIDE DEF rec
  <2> QED BY <1>2, <2>1, <2>2
<1> QED BY <1>3, <1>6, <1>7, <1>8, <1>9

\* m is the overlay that starts from journal J.
StartShape(m, J, h, lp) ==
  /\ m \in Overlays
  /\ m.last_hash = h /\ m.last_number = lp
  /\ m.pending_canonicalizations = <<>> /\ m.pending_insertions = <<>>
  /\ Retained(m) = {}
  /\ m.values = insert_values([k \in Key |-> 0], HashesIn(m.levels))
  /\ h = NoBlock => m.levels = <<>>
  /\ \A i \in 1 .. Len(m.levels) : Recorded(m.levels[i], J, lp + i)

\* NonCanonicalOverlay::new.
LEMMA NewOverlayIs ==
  ASSUME NEW J \in Journals, NEW h \in Block \cup {NoBlock}, NEW lp \in Nat \cup {-1}
  PROVE  StartShape(NewOverlay(J, h, lp), J, h, lp)
<1> DEFINE R == [i \in Nat |-> {r \in J : r[1] = lp + 1 + i /\ r[2] = 0}]
           Is(c) == /\ journal_level(J, lp + 1 + c) = <<>>
                    /\ \A i \in 1 .. c : journal_level(J, lp + i) # <<>>
           depth == CHOOSE c \in 0 .. Cardinality(J) : Is(c)
           levels == IF h = NoBlock THEN <<>> ELSE [i \in 1 .. depth |-> journal_level(J, lp + i)]
           B == UNION {Hashes(levels[i]) : i \in DOMAIN levels}
           v == insert_values([k \in Key |-> 0], B)
           m == NewOverlay(J, h, lp)
<1>0. IsFiniteSet(J) /\ Cardinality(J) \in Nat /\ \A i \in Nat : lp + 1 + i \in Nat
  BY FS_CardinalityType DEF Journals
<1>1. \E c \in 0 .. Cardinality(J) : Is(c)
  <2>1. R \in [Nat -> SUBSET J] /\ \A i \in Nat : R[i] = {r \in J : r[1] = lp + 1 + i /\ r[2] = 0}
    OBVIOUS
  <2>2. \A i, j \in Nat : i # j => lp + 1 + i # lp + 1 + j
    OBVIOUS
  <2>3. \A i, j \in Nat : i # j => R[i] \cap R[j] = {}
    BY <2>1, <2>2
  <2>4. \A i \in Nat : R[i] = {} <=> journal_level(J, lp + 1 + i) = <<>>
    BY <1>0, <2>1, JournalLevelIs
  <2> HIDE DEF R
  <2>5. PICK c \in 0 .. Cardinality(J) : R[c] = {} /\ \A i \in 0 .. c - 1 : R[i] # {}
    BY <1>0, <2>1, <2>3, FirstGap
  <2>6. c \in Nat
    BY <1>0
  <2>7. ASSUME NEW i \in 1 .. c PROVE journal_level(J, lp + i) # <<>>
    <3>1. i - 1 \in 0 .. c - 1 /\ i - 1 \in Nat /\ lp + 1 + (i - 1) = lp + i
      BY <2>6
    <3>2. R[i - 1] # {}
      BY <2>5, <3>1
    <3>3. journal_level(J, lp + 1 + (i - 1)) # <<>>
      BY <2>4, <3>1, <3>2
    <3> QED BY <3>1, <3>3
  <2>8. Is(c)
    BY <2>4, <2>5, <2>6, <2>7
  <2> HIDE DEF Is
  <2> QED BY <2>5, <2>8
<1>2. depth \in Nat
  <2> HIDE DEF Is
  <2>1. depth \in 0 .. Cardinality(J)
    BY <1>1
  <2> HIDE DEF depth
  <2> QED BY <1>0, <2>1
<1>3. m = [ last_hash   |-> h,
            last_number |-> lp,
            levels      |-> levels,
            parents     |-> B,
            pending_canonicalizations |-> <<>>,
            pending_insertions        |-> <<>>,
            values      |-> v,
            pinned      |-> {},
            pinned_insertions |-> [b \in Block |-> 0] ]
  BY DEF NewOverlay
<1> HIDE DEF depth
<1>4. ASSUME NEW i \in 1 .. depth
      PROVE  journal_level(J, lp + i) \in Seq(BlockOverlay) /\ Recorded(journal_level(J, lp + i), J, lp + i)
  <2>1. lp + i \in Nat
    BY <1>2
  <2> QED BY <2>1, JournalLevelIs
<1>5. /\ levels \in LevelSeqs
      /\ h = NoBlock => levels = <<>>
      /\ \A i \in 1 .. Len(levels) : Recorded(levels[i], J, lp + i)
  <2> DEFINE S == Seq(BlockOverlay)
             item(i) == journal_level(J, lp + i)
             l == [i \in 1 .. depth |-> item(i)]
  <2>1. \A i \in 1 .. depth : item(i) \in S /\ Recorded(item(i), J, lp + i)
    BY <1>4
  <2> HIDE DEF S, item
  <2>2. l \in Seq(S) /\ Len(l) = depth /\ \A i \in 1 .. depth : l[i] = item(i)
    BY <1>2, <2>1
  <2> HIDE DEF l
  <2>3. CASE h = NoBlock
    <3>1. levels = <<>> /\ Len(<<>>) = 0 /\ <<>> \in Seq(S)
      BY <2>3, EmptySeq
    <3> HIDE DEF levels
    <3> QED BY <3>1 DEF LevelSeqs, S
  <2>4. CASE h # NoBlock
    <3>1. levels = l
      BY <2>4 DEF l, item
    <3> HIDE DEF levels
    <3> QED BY <2>1, <2>2, <2>4, <3>1 DEF LevelSeqs, S
  <2> QED BY <2>3, <2>4
<1> HIDE DEF levels
<1>6. B = HashesIn(levels) /\ B \in SUBSET Block
  BY <1>5, LevelsAre DEF HashesIn
<1>7. v \in [Key -> Nat]
  <2>1. [k \in Key |-> 0] \in [Key -> Nat]
    OBVIOUS
  <2> QED BY <1>6, <2>1, ValuesType
<1> HIDE DEF B, v, m
<1>8. m = [f \in Fields |-> m[f]]
  BY <1>3 DEF Fields
<1>9. /\ m.last_hash = h /\ m.last_number = lp /\ m.levels = levels /\ m.parents = B
      /\ m.pending_canonicalizations = <<>> /\ m.pending_insertions = <<>>
      /\ m.values = v /\ m.pinned = {} /\ m.pinned_insertions = [b \in Block |-> 0]
  BY <1>3
<1>10. m \in Overlays
  <2>1. <<>> \in Seq(Block) /\ {} \in SUBSET Block /\ [b \in Block |-> 0] \in [Block -> Nat]
    BY EmptySeq
  <2> QED BY <1>5, <1>6, <1>7, <1>8, <1>9, <2>1, OverlayIs
<1>11. Retained(m) = {}
  BY <1>9 DEF Retained
<1> QED BY <1>5, <1>6, <1>9, <1>10, <1>11 DEF StartShape, m, v

-----------------------------------------------------------------------------
(* How the database follows the two windows                                *)

\* The block operations canonicalize on top of.
HeadOf(n) ==
  IF n.pending_canonicalizations = <<>> THEN n.last_hash ELSE Last(n.pending_canonicalizations)

\* The last rows of window w are those of the blocks that overlay n is about to
\* canonicalize; the one before them is that of the last canonical block.
Heads(w, n) ==
  /\ w.pending_canonicalizations = Len(n.pending_canonicalizations)
  /\ \A j \in 1 .. Len(n.pending_canonicalizations) :
       w.death_rows[Settled(w) + j].hash = n.pending_canonicalizations[j]
  /\ Settled(w) > 0 => w.death_rows[Settled(w)].hash = n.last_hash

\* The journal records of rows a to e.
RowRecords(w, a, e) == {<<w.pending_number + i - 1, w.death_rows[i].hash>> : i \in a .. e}

\* Database d holds what is settled...
DbFollows(d, w, n) ==
  /\ d.pruning_journal = RowRecords(w, 1, Settled(w))
  /\ d.last_pruned = w.pending_number - 1
  /\ d.last_hash = n.last_hash /\ d.last_number = n.last_number

\* ... and database t what will be once the operation has been committed.
TxnFollows(t, w, n) ==
  /\ t.pruning_journal = RowRecords(w, w.pending_prunings + 1, NumRows(w))
  /\ t.last_pruned = w.pending_number + w.pending_prunings - 1
  /\ t.last_hash = HeadOf(n) /\ t.last_number = n.last_number + Len(n.pending_canonicalizations)

\* The row of the block that the next one has to follow.
LEMMA HeadRow ==
  ASSUME NEW w, WindowOK(w), NEW n \in Overlays, Heads(w, n), NumRows(w) > 0
  PROVE  w.death_rows[NumRows(w)].hash = HeadOf(n)
<1> DEFINE p == n.pending_canonicalizations
<1>0. /\ NumRows(w) \in Nat /\ w.pending_canonicalizations \in Nat /\ p \in Seq(Block) /\ Len(p) \in Nat
      /\ w.pending_canonicalizations = Len(p)
  BY WindowFields, OverlayFields, LenProperties DEF WindowOK, Heads
<1>1. CASE p = <<>>
  <2>1. Len(p) = 0
    BY <1>1
  <2>2. Settled(w) = NumRows(w)
    BY <1>0, <2>1 DEF Settled
  <2> QED BY <1>1, <2>2 DEF Heads, HeadOf
<1>2. CASE p # <<>>
  <2>1. Len(p) # 0
    BY <1>0, <1>2, EmptySeq
  <2>2. Len(p) \in 1 .. Len(p) /\ Settled(w) + Len(p) = NumRows(w)
    BY <1>0, <2>1 DEF Settled
  <2>3. w.death_rows[Settled(w) + Len(p)].hash = p[Len(p)]
    BY <2>2 DEF Heads
  <2> QED BY <1>2, <2>2, <2>3 DEF HeadOf, Last
<1> QED BY <1>1, <1>2

\* canonicalize.
CanonShape(m, n, b) ==
  /\ m \in Overlays
  /\ m.last_hash = n.last_hash /\ m.last_number = n.last_number /\ m.levels = n.levels
  /\ m.pending_canonicalizations = Append(n.pending_canonicalizations, b)
  /\ m.pending_insertions = n.pending_insertions
  /\ m.values = n.values /\ m.pinned = n.pinned /\ m.pinned_insertions = n.pinned_insertions

\* canonicalize notes the block, and changes nothing else.
LEMMA CanonicalizeIs ==
  ASSUME NEW n \in Overlays, NEW b \in Block
  PROVE  CanonShape(canonicalize(n, b), n, b)
<1> DEFINE p == Append(n.pending_canonicalizations, b)
           m == [n EXCEPT !.pending_canonicalizations = p]
<1>0. /\ n.levels \in LevelSeqs /\ n.parents \in SUBSET Block /\ n.values \in [Key -> Nat]
      /\ n.pinned_insertions \in [Block -> Nat] /\ n.pinned \in SUBSET Block
      /\ n.last_hash \in Block \cup {NoBlock} /\ n.last_number \in Nat \cup {-1}
      /\ n.pending_canonicalizations \in Seq(Block) /\ n.pending_insertions \in Seq(Block)
  BY OverlayFields
<1>1. canonicalize(n, b) = m
  BY DEF canonicalize
<1>2. p \in Seq(Block)
  BY <1>0, AppendProperties
<1> HIDE DEF p
<1>6. n = [f \in Fields |-> n[f]]
  BY OverlayDomain
<1>7. m = [f \in Fields |-> m[f]] /\ m.levels = n.levels /\ m.parents = n.parents
  BY <1>6 DEF Fields
<1>8. m.last_hash = n.last_hash /\ m.last_number = n.last_number /\ m.pinned = n.pinned
  BY <1>6 DEF Fields
<1>9. m.pending_canonicalizations = p /\ m.pending_insertions = n.pending_insertions
  BY <1>6 DEF Fields
<1>11. m.pinned_insertions = n.pinned_insertions /\ m.values = n.values
  BY <1>6 DEF Fields
<1> HIDE DEF m
<1>13. m \in Overlays
  BY <1>0, <1>2, <1>7, <1>8, <1>9, <1>11, OverlayIs
<1> QED BY <1>1, <1>7, <1>8, <1>9, <1>11, <1>13 DEF CanonShape, p

\* A block more that is to be canonicalized.
LEMMA HeadsNoted ==
  ASSUME NEW w, WindowOK(w), NEW n \in Overlays, Heads(w, n), NEW b \in Block, NEW x,
         NEW v, WindowOK(v), NoteShape(v, w, b, x), NEW m, CanonShape(m, n, b)
  PROVE  Heads(v, m) /\ HeadOf(m) = b /\ Settled(v) = Settled(w)
<1> DEFINE p == n.pending_canonicalizations
           q == m.pending_canonicalizations
           s == Settled(w)
<1>0. /\ NumRows(w) \in Nat /\ p \in Seq(Block) /\ Len(p) \in Nat
      /\ w.pending_canonicalizations = Len(p) /\ Len(p) <= NumRows(w)
  BY WindowFields, OverlayFields, LenProperties DEF WindowOK, Heads
<1>1. /\ q = Append(p, b) /\ Len(q) = Len(p) + 1 /\ q[Len(p) + 1] = b
      /\ \A j \in 1 .. Len(p) : q[j] = p[j]
  BY <1>0, AppendProperties DEF CanonShape
<1>2. s \in Nat /\ s + Len(p) = NumRows(w) /\ Settled(v) = s
  <2>1. s = NumRows(w) - Len(p)
    BY <1>0 DEF Settled
  <2>2. Settled(v) = (NumRows(w) + 1) - (Len(p) + 1)
    BY <1>0 DEF Settled, NoteShape
  <2> HIDE DEF s, p
  <2> QED BY <1>0, <2>1, <2>2
<1>3. HeadOf(m) = b
  <2>1. q # <<>>
    <3>1. Len(q) # 0 /\ Len(<<>>) = 0
      BY <1>0, <1>1, EmptySeq
    <3> QED BY <3>1
  <2> QED BY <1>0, <1>1, <2>1 DEF HeadOf, Last
<1>4. v.pending_canonicalizations = Len(q)
  BY <1>0, <1>1 DEF NoteShape
<1>5. ASSUME NEW j \in 1 .. Len(q) PROVE v.death_rows[Settled(v) + j].hash = q[j]
  <2>1. CASE j = Len(p) + 1
    <3>1. Settled(v) + j = NumRows(w) + 1
      BY <1>0, <1>2, <2>1
    <3> QED BY <1>1, <2>1, <3>1 DEF NoteShape
  <2>2. CASE j # Len(p) + 1
    <3>1. j \in 1 .. Len(p)
      BY <1>0, <1>1, <2>2
    <3>2. s + j \in 1 .. NumRows(w)
      BY <1>0, <1>2, <3>1
    <3>3. v.death_rows[s + j].hash = w.death_rows[s + j].hash
      BY <3>2 DEF NoteShape
    <3>4. w.death_rows[s + j].hash = p[j]
      BY <3>1 DEF Heads
    <3> QED BY <1>1, <1>2, <3>1, <3>3, <3>4
  <2> QED BY <2>1, <2>2
<1>6. Settled(v) > 0 => v.death_rows[Settled(v)].hash = m.last_hash
  <2> SUFFICES ASSUME s > 0 PROVE v.death_rows[s].hash = m.last_hash
    BY <1>2
  <2>1. s \in 1 .. NumRows(w)
    BY <1>0, <1>2
  <2>2. v.death_rows[s].hash = w.death_rows[s].hash
    BY <2>1 DEF NoteShape
  <2>3. w.death_rows[s].hash = n.last_hash
    BY DEF Heads
  <2> QED BY <2>2, <2>3 DEF CanonShape
<1>7. Heads(v, m)
  BY <1>4, <1>5, <1>6 DEF Heads
<1> QED BY <1>2, <1>3, <1>7

\* The rows that are settled do not change.
LEMMA DbFollowsNoted ==
  ASSUME NEW w, WindowOK(w), NEW n, NEW b, NEW x, NEW v, NoteShape(v, w, b, x),
         Settled(v) = Settled(w), NEW m, CanonShape(m, n, b), NEW d, DbFollows(d, w, n)
  PROVE  DbFollows(d, v, m)
<1>0. Settled(w) \in Nat /\ Settled(w) <= NumRows(w) /\ NumRows(w) \in Nat
  BY WindowFields DEF WindowOK, Settled
<1>1. \A i \in 1 .. Settled(w) : v.death_rows[i].hash = w.death_rows[i].hash
  BY <1>0 DEF NoteShape
<1>2. RowRecords(v, 1, Settled(v)) = RowRecords(w, 1, Settled(w))
  BY <1>1 DEF RowRecords, NoteShape
<1> QED BY <1>2 DEF DbFollows, NoteShape, CanonShape

\* What canonicalize_block writes about the pruning window and its head.
NotedDb(u, t, w, n, b, x) ==
  /\ u.pruning_journal =
       {r \in {q \in t.pruning_journal : q[1] # w.pending_number + NumRows(w)}
                \cup {<<w.pending_number + NumRows(w), b>>} :
          r[1] \notin w.pending_number + w.pending_prunings
                       .. w.pending_number + w.pending_prunings + x - 1}
  /\ u.last_pruned = IF x > 0 THEN w.pending_number + w.pending_prunings + x - 1 ELSE t.last_pruned
  /\ u.last_hash = b
  /\ u.last_number = n.last_number + 1 + Len(n.pending_canonicalizations)

\* What is written keeps up with the window.
LEMMA TxnFollowsNoted ==
  ASSUME NEW w, WindowOK(w), NEW n \in Overlays, NEW b \in Block, NEW x \in Nat,
         w.pending_prunings + x <= NumRows(w) + 1, NEW v, NoteShape(v, w, b, x),
         NEW m, CanonShape(m, n, b), HeadOf(m) = b,
         NEW t, TxnFollows(t, w, n), NEW u, NotedDb(u, t, w, n, b, x)
  PROVE  TxnFollows(u, v, m)
<1> DEFINE N == NumRows(w)
           pn == w.pending_number
           pp == w.pending_prunings
           rw(i) == <<pn + i - 1, w.death_rows[i].hash>>
           rv(i) == <<pn + i - 1, v.death_rows[i].hash>>
           old == {rw(i) : i \in pp + 1 .. N}
           kept == {q \in old : q[1] # pn + N}
           more == kept \cup {<<pn + N, b>>}
           new == {r \in more : r[1] \notin pn + pp .. pn + pp + x - 1}
<1>0. N \in Nat /\ pn \in Nat /\ pp \in Nat /\ pp <= N
  BY WindowFields DEF WindowOK
<1>1. t.pruning_journal = old
  BY DEF TxnFollows, RowRecords
<1>2. u.pruning_journal = new
  BY <1>1 DEF NotedDb
<1> HIDE DEF N, pn, pp
<1>3. kept = old
  <2>1. ASSUME NEW i \in pp + 1 .. N PROVE rw(i)[1] # pn + N
    <3>1. i - 1 # N /\ i \in Int
      BY <1>0
    <3>2. pn + i - 1 # pn + N
      BY <1>0, <3>1
    <3> QED BY <3>2
  <2> HIDE DEF rw
  <2> QED BY <2>1
<1>4. \A i \in 1 .. N : rv(i) = rw(i)
  BY DEF NoteShape, N
<1>5. rv(N + 1) = <<pn + N, b>>
  <2>1. pn + (N + 1) - 1 = pn + N
    BY <1>0
  <2>2. v.death_rows[N + 1].hash = b
    BY DEF NoteShape, N
  <2> QED BY <2>1, <2>2
<1>6. more = {rv(i) : i \in pp + 1 .. N + 1}
  <2>1. pp + 1 .. N + 1 = (pp + 1 .. N) \cup {N + 1}
    BY <1>0
  <2>2. \A i \in pp + 1 .. N : i \in 1 .. N
    BY <1>0
  <2> HIDE DEF rv, rw, kept
  <2> QED BY <1>3, <1>4, <1>5, <2>1, <2>2
<1>7. new = {rv(i) : i \in pp + x + 1 .. N + 1}
  <2>1. ASSUME NEW i \in pp + 1 .. N + 1
        PROVE  rv(i)[1] \notin pn + pp .. pn + pp + x - 1 <=> i \in pp + x + 1 .. N + 1
    <3>1. rv(i)[1] = pn + i - 1
      OBVIOUS
    <3>2. pn + i - 1 \in pn + pp .. pn + pp + x - 1 <=> i <= pp + x
      BY <1>0
    <3> HIDE DEF rv
    <3> QED BY <1>0, <3>1, <3>2
  <2>2. \A i \in pp + x + 1 .. N + 1 : i \in pp + 1 .. N + 1
    BY <1>0
  <2> HIDE DEF rv, more
  <2> QED BY <1>6, <2>1, <2>2
<1>8. /\ v.pending_number = pn /\ v.pending_prunings = pp + x /\ NumRows(v) = N + 1
  BY DEF NoteShape, N, pn, pp
<1>9. u.pruning_journal = RowRecords(v, v.pending_prunings + 1, NumRows(v))
  BY <1>2, <1>7, <1>8 DEF RowRecords
<1>10. u.last_pruned = v.pending_number + v.pending_prunings - 1
  <2>1. t.last_pruned = pn + pp - 1
    BY DEF TxnFollows, pn, pp
  <2>2. u.last_pruned = IF x > 0 THEN pn + pp + x - 1 ELSE pn + pp - 1
    BY <2>1 DEF NotedDb, pn, pp
  <2>3. pn + pp + x - 1 = pn + (pp + x) - 1 /\ (~(x > 0) => pn + pp - 1 = pn + (pp + x) - 1)
    BY <1>0
  <2> QED BY <1>8, <2>2, <2>3
<1>11. u.last_number = m.last_number + Len(m.pending_canonicalizations)
  <2> DEFINE p == n.pending_canonicalizations
             l == n.last_number
  <2>1. p \in Seq(Block) /\ Len(p) \in Nat /\ l \in Int
    BY OverlayFields, LenProperties
  <2>2. Len(Append(p, b)) = Len(p) + 1
    BY <2>1, AppendProperties
  <2>3. u.last_number = l + 1 + Len(p) /\ m.last_number = l /\ m.pending_canonicalizations = Append(p, b)
    BY DEF NotedDb, CanonShape
  <2> HIDE DEF p, l
  <2>4. l + 1 + Len(p) = l + (Len(p) + 1)
    BY <2>1
  <2> QED BY <2>2, <2>3, <2>4
<1>12. u.last_hash = HeadOf(m)
  BY DEF NotedDb
<1> QED BY <1>9, <1>10, <1>11, <1>12 DEF TxnFollows

\* apply_pending settles everything.
LEMMA AllApplied ==
  ASSUME NEW w, WindowOK(w), NEW n \in Overlays, Heads(w, n), NEW v, WindowOK(v),
         ShiftShape(v, w, w.pending_prunings), NEW x,
         NEW m, AppliedShape(m, n, n.pending_canonicalizations, x), NEW t, TxnFollows(t, w, n)
  PROVE  Heads(v, m) /\ DbFollows(t, v, m) /\ TxnFollows(t, v, m) /\ m.last_hash = t.last_hash
<1> DEFINE N == NumRows(w)
           pn == w.pending_number
           pp == w.pending_prunings
           p == n.pending_canonicalizations
           rw(i) == <<pn + i - 1, w.death_rows[i].hash>>
           rv(i) == <<pn + pp + i - 1, v.death_rows[i].hash>>
<1>0. N \in Nat /\ pn \in Nat /\ pp \in Nat /\ pp <= N
  BY WindowFields DEF WindowOK
<1>1. /\ v.pending_number = pn + pp /\ v.pending_canonicalizations = 0 /\ v.pending_prunings = 0
      /\ NumRows(v) = N - pp /\ \A i \in 1 .. N - pp : v.death_rows[i] = w.death_rows[pp + i]
  BY DEF ShiftShape
<1>2. /\ m.pending_canonicalizations = <<>> /\ m.last_number = n.last_number + Len(p)
      /\ m.last_hash = HeadOf(n)
  BY DEF AppliedShape, HeadOf
<1>3. HeadOf(m) = m.last_hash /\ Len(m.pending_canonicalizations) = 0
  BY <1>2, EmptySeq DEF HeadOf
<1>4. Settled(v) = N - pp
  BY <1>0, <1>1 DEF Settled
<1>5. ASSUME N - pp > 0 PROVE v.death_rows[N - pp].hash = m.last_hash
  <2>1. N > 0 /\ N - pp \in 1 .. N - pp /\ pp + (N - pp) = N
    BY <1>0, <1>5
  <2>2. v.death_rows[N - pp] = w.death_rows[pp + (N - pp)]
    BY <1>1, <2>1
  <2>3. w.death_rows[N].hash = HeadOf(n)
    BY <2>1, HeadRow
  <2> QED BY <1>2, <2>1, <2>2, <2>3
<1>6. Heads(v, m)
  <2>1. v.pending_canonicalizations = Len(m.pending_canonicalizations)
    BY <1>1, <1>3
  <2>2. \A j \in 1 .. Len(m.pending_canonicalizations) : FALSE
    BY <1>3
  <2> QED BY <1>4, <1>5, <2>1, <2>2 DEF Heads
<1> HIDE DEF N, pn, pp
<1>7. {rv(i) : i \in 1 .. N - pp} = {rw(i) : i \in pp + 1 .. N}
  <2>1. ASSUME NEW i \in 1 .. N - pp PROVE rv(i) = rw(pp + i) /\ pp + i \in pp + 1 .. N
    <3>1. pn + pp + i - 1 = pn + (pp + i) - 1 /\ pp + i \in pp + 1 .. N
      BY <1>0
    <3> QED BY <1>1, <3>1
  <2>2. ASSUME NEW i \in pp + 1 .. N PROVE rw(i) = rv(i - pp) /\ i - pp \in 1 .. N - pp
    <3>1. pn + pp + (i - pp) - 1 = pn + i - 1 /\ i - pp \in 1 .. N - pp /\ pp + (i - pp) = i
      BY <1>0
    <3>2. v.death_rows[i - pp] = w.death_rows[pp + (i - pp)]
      BY <1>1, <3>1
    <3>3. v.death_rows[i - pp] = w.death_rows[i]
      BY <3>1, <3>2
    <3> QED BY <3>1, <3>3
  <2> HIDE DEF rv, rw
  <2> QED BY <2>1, <2>2
<1>8. /\ t.pruning_journal = {rw(i) : i \in pp + 1 .. N} /\ t.last_pruned = pn + pp - 1
      /\ t.last_hash = HeadOf(n) /\ t.last_number = n.last_number + Len(p)
  BY DEF TxnFollows, RowRecords, N, pn, pp
<1>9. t.pruning_journal = RowRecords(v, 1, N - pp)
  BY <1>1, <1>7, <1>8 DEF RowRecords
<1>10. DbFollows(t, v, m)
  <2>1. t.pruning_journal = RowRecords(v, 1, Settled(v))
    BY <1>4, <1>9
  <2>2. t.last_pruned = v.pending_number - 1
    BY <1>0, <1>1, <1>8
  <2>3. t.last_hash = m.last_hash /\ t.last_number = m.last_number
    BY <1>2, <1>8
  <2> QED BY <2>1, <2>2, <2>3 DEF DbFollows
<1>11. TxnFollows(t, v, m)
  <2>1. v.pending_prunings + 1 = 1 /\ v.pending_number + v.pending_prunings - 1 = pn + pp - 1
    BY <1>0, <1>1
  <2>2. m.last_number + 0 = m.last_number
    <3>1. m.last_number \in Int
      BY OverlayFields DEF AppliedShape
    <3> QED BY <3>1
  <2> QED BY <1>1, <1>2, <1>3, <1>8, <1>9, <2>1, <2>2 DEF TxnFollows
<1> QED BY <1>2, <1>6, <1>8, <1>10, <1>11

\* revert_pending goes back to what is settled.
LEMMA AllReverted ==
  ASSUME NEW w, WindowOK(w), NEW n \in Overlays, Heads(w, n), NEW v, WindowOK(v),
         v.pending_number = w.pending_number, v.pending_canonicalizations = 0, v.pending_prunings = 0,
         NumRows(v) = Settled(w), \A i \in 1 .. Settled(w) : v.death_rows[i] = w.death_rows[i],
         NEW m \in Overlays, m.last_hash = n.last_hash, m.last_number = n.last_number,
         m.pending_canonicalizations = <<>>, NEW d, DbFollows(d, w, n)
  PROVE  Heads(v, m) /\ DbFollows(d, v, m) /\ TxnFollows(d, v, m)
<1> DEFINE s == Settled(w)
           pn == w.pending_number
<1>0. s \in Nat /\ pn \in Nat
  BY WindowFields DEF WindowOK, Settled
<1>1. Settled(v) = s
  <2>1. Settled(v) = s - 0
    BY DEF Settled
  <2> HIDE DEF s
  <2> QED BY <1>0, <2>1
<1>2. Len(m.pending_canonicalizations) = 0 /\ HeadOf(m) = n.last_hash /\ m.last_number \in Int
  BY OverlayFields, EmptySeq DEF HeadOf
<1>3. s > 0 => w.death_rows[s].hash = n.last_hash
  BY DEF Heads
<1>4. s > 0 => v.death_rows[s] = w.death_rows[s]
  <2>1. s > 0 => s \in 1 .. s
    BY <1>0
  <2> QED BY <2>1
<1>5. Heads(v, m)
  <2>1. \A j \in 1 .. Len(m.pending_canonicalizations) : FALSE
    BY <1>2
  <2> QED BY <1>1, <1>2, <1>3, <1>4, <2>1 DEF Heads
<1>6. RowRecords(v, 1, s) = RowRecords(w, 1, s)
  BY DEF RowRecords
<1>7. DbFollows(d, v, m)
  BY <1>1, <1>6 DEF DbFollows
<1>8. TxnFollows(d, v, m)
  <2>1. v.pending_prunings + 1 = 1 /\ v.pending_number + v.pending_prunings - 1 = v.pending_number - 1
    BY <1>0
  <2>2. NumRows(v) = Settled(v)
    BY <1>1
  <2>3. d.pruning_journal = RowRecords(v, v.pending_prunings + 1, NumRows(v))
    BY <1>7, <2>1, <2>2 DEF DbFollows
  <2>4. d.last_pruned = v.pending_number + v.pending_prunings - 1
    BY <1>7, <2>1 DEF DbFollows
  <2>5. d.last_number = m.last_number + Len(m.pending_canonicalizations) /\ d.last_hash = HeadOf(m)
    BY <1>2, <1>7 DEF DbFollows
  <2> QED BY <2>3, <2>4, <2>5 DEF TxnFollows
<1> QED BY <1>5, <1>7, <1>8

\* Database d records rows a + 1 to e of window w, the last of which is that of
\* its last canonical block.
RowsRecorded(d, w, a, e) ==
  /\ a \in Nat /\ e \in Nat /\ a <= e /\ e <= NumRows(w)
  /\ d.pruning_journal = RowRecords(w, a + 1, e)
  /\ d.last_pruned = w.pending_number + a - 1
  /\ e > a => w.death_rows[e].hash = d.last_hash

\* A restart brings back the rows that are recorded.
LEMMA Restarted ==
  ASSUME NEW w, WindowOK(w), NEW d, NEW a, NEW e, RowsRecorded(d, w, a, e),
         NEW m \in Overlays, m.last_hash = d.last_hash, m.last_number = d.last_number,
         m.pending_canonicalizations = <<>>,
         NEW v, v = NewWindow(d.pruning_journal, d.last_pruned)
  PROVE  /\ WindowOK(v) /\ Heads(v, m) /\ DbFollows(d, v, m) /\ TxnFollows(d, v, m) /\ Full(v)
         /\ v.pending_prunings = 0
         /\ NumRows(v) = e - a /\ \A i \in 1 .. e - a : v.death_rows[i].hash = w.death_rows[a + i].hash
<1> DEFINE lp == d.last_pruned
           pn == w.pending_number
           n == e - a
           h == [i \in 1 .. n |-> w.death_rows[a + i].hash]
<1>0. /\ NumRows(w) \in Nat /\ pn \in Nat /\ a \in Nat /\ e \in Nat /\ a <= e /\ e <= NumRows(w)
      /\ \A i \in 1 .. NumRows(w) : w.death_rows[i].hash \in Block
  BY WindowFields DEF WindowOK, RowsRecorded
<1>1. lp = pn + a - 1 /\ lp \in Nat \cup {-1} /\ n \in Nat
  <2>1. lp = pn + a - 1
    BY DEF RowsRecorded
  <2> HIDE DEF lp
  <2> QED BY <1>0, <2>1
<1>2. ASSUME NEW i \in 1 .. n PROVE a + i \in a + 1 .. e /\ a + i \in 1 .. NumRows(w) /\ h[i] = w.death_rows[a + i].hash
  BY <1>0
<1>3. h \in Seq(Block) /\ Len(h) = n
  <2>1. \A i \in 1 .. n : h[i] \in Block
    BY <1>0, <1>2
  <2> HIDE DEF n
  <2> QED BY <1>1, <2>1
<1> HIDE DEF h
<1>4. Consecutive(h)
  <2>1. ASSUME NEW i \in 1 .. n - 1 PROVE ParentOf(h[i + 1]) = h[i]
    <3>0. i \in 1 .. n /\ i + 1 \in 1 .. n /\ a + (i + 1) = (a + i) + 1
      BY <1>0
    <3>1. a + i \in 1 .. NumRows(w) - 1
      BY <1>0
    <3>2. ParentOf(w.death_rows[(a + i) + 1].hash) = w.death_rows[a + i].hash
      BY <3>1 DEF WindowOK, Linked
    <3> QED BY <1>2, <3>0, <3>2
  <2> QED BY <1>3, <2>1 DEF Consecutive
<1>5. d.pruning_journal = Records(lp, h)
  <2> DEFINE rw(i) == <<pn + i - 1, w.death_rows[i].hash>>
             rh(i) == <<lp + i, h[i]>>
  <2>1. d.pruning_journal = {rw(i) : i \in a + 1 .. e}
    BY DEF RowsRecorded, RowRecords
  <2>2. Records(lp, h) = {rh(i) : i \in 1 .. n}
    BY <1>3 DEF Records
  <2>3. ASSUME NEW i \in 1 .. n PROVE rh(i) = rw(a + i) /\ a + i \in a + 1 .. e
    <3>1. lp + i = pn + (a + i) - 1
      <4>1. i \in Int
        BY <1>1
      <4> HIDE DEF lp, pn
      <4> QED BY <1>0, <1>1, <4>1
    <3> QED BY <1>2, <3>1
  <2>4. ASSUME NEW i \in a + 1 .. e PROVE rw(i) = rh(i - a) /\ i - a \in 1 .. n
    <3>1. i - a \in 1 .. n /\ a + (i - a) = i
      BY <1>0
    <3> HIDE DEF rw, rh
    <3> QED BY <2>3, <3>1
  <2> HIDE DEF rw, rh, n
  <2> QED BY <2>1, <2>2, <2>3, <2>4
<1>6. WindowOf(v, lp, h, n)
  <2>1. v = NewWindow(Records(lp, h), lp)
    BY <1>5
  <2> HIDE DEF lp, n
  <2> QED BY <1>1, <1>3, <1>4, <2>1, NewWindowIs
<1> HIDE DEF lp, n
<1>7. /\ v \in RefWindows /\ v.pending_number = lp + 1 /\ v.pending_canonicalizations = 0
      /\ v.pending_prunings = 0 /\ NumRows(v) = n /\ \A i \in 1 .. n : v.death_rows[i].hash = h[i]
      /\ Exact(v) /\ Linked(v) /\ Dead(v, NumRows(v)) /\ Full(v)
  BY <1>6 DEF WindowOf
<1>8. Settled(v) = n /\ NumRows(v) = n
  BY <1>1, <1>7 DEF Settled
<1>9. WindowOK(v)
  BY <1>1, <1>7, <1>8 DEF WindowOK
<1>10. n > 0 => v.death_rows[n].hash = d.last_hash
  <2> SUFFICES ASSUME n > 0 PROVE v.death_rows[n].hash = d.last_hash
    OBVIOUS
  <2>1. n \in 1 .. n /\ a + n = e /\ e > a
    BY <1>0, <1>1 DEF n
  <2>2. v.death_rows[n].hash = h[n]
    BY <1>7, <2>1
  <2>3. h[n] = w.death_rows[a + n].hash
    BY <1>2, <2>1
  <2>4. w.death_rows[e].hash = d.last_hash
    BY <2>1 DEF RowsRecorded
  <2> QED BY <2>1, <2>2, <2>3, <2>4
<1>11. Len(m.pending_canonicalizations) = 0 /\ HeadOf(m) = m.last_hash /\ m.last_number \in Int
  BY OverlayFields, EmptySeq DEF HeadOf
<1>12. Heads(v, m)
  <2>1. \A j \in 1 .. Len(m.pending_canonicalizations) : FALSE
    BY <1>11
  <2> QED BY <1>7, <1>8, <1>10, <1>11, <2>1 DEF Heads
<1>13. d.pruning_journal = RowRecords(v, 1, n)
  <2> DEFINE rv(i) == <<v.pending_number + i - 1, v.death_rows[i].hash>>
             rh(i) == <<lp + i, h[i]>>
  <2>1. Records(lp, h) = {rh(i) : i \in 1 .. n} /\ RowRecords(v, 1, n) = {rv(i) : i \in 1 .. n}
    BY <1>3 DEF Records, RowRecords
  <2>2. ASSUME NEW i \in 1 .. n PROVE rv(i) = rh(i)
    <3>1. lp + 1 + i - 1 = lp + i
      BY <1>1
    <3> QED BY <1>7, <3>1
  <2> HIDE DEF rv, rh
  <2> QED BY <1>5, <2>1, <2>2
<1>14. DbFollows(d, v, m)
  <2>1. d.last_pruned = v.pending_number - 1
    BY <1>1, <1>7 DEF lp
  <2> QED BY <1>8, <1>13, <2>1 DEF DbFollows
<1>15. TxnFollows(d, v, m)
  <2>1. d.pruning_journal = RowRecords(v, v.pending_prunings + 1, NumRows(v))
    <3>1. v.pending_prunings + 1 = 1
      BY <1>7
    <3> QED BY <1>8, <1>13, <3>1
  <2>2. d.last_pruned = v.pending_number + v.pending_prunings - 1
    <3>1. lp + 1 + 0 - 1 = lp
      BY <1>1
    <3> QED BY <1>7, <3>1 DEF lp
  <2>3. d.last_number = m.last_number + Len(m.pending_canonicalizations) /\ d.last_hash = HeadOf(m)
    BY <1>11
  <2> QED BY <2>1, <2>2, <2>3 DEF TxnFollows
<1>16. NumRows(v) = e - a /\ \A i \in 1 .. e - a : v.death_rows[i].hash = w.death_rows[a + i].hash
  BY <1>2, <1>7 DEF n
<1> QED BY <1>7, <1>9, <1>12, <1>14, <1>15, <1>16

-----------------------------------------------------------------------------
(* What operations write                                                   *)

DbFields == {"headers", "data", "journal", "last_hash", "last_number", "pruning_journal", "last_pruned"}

\* The types of the columns of a database.
LEMMA DatabaseFields ==
  ASSUME NEW d \in Databases
  PROVE  /\ d = [f \in DbFields |-> d[f]]
         /\ d.headers \in SUBSET Block /\ d.data \in SUBSET Key
         /\ d.journal \in SUBSET (Nat \X Nat \X Block)
         /\ d.last_hash \in Block \cup {NoBlock} /\ d.last_number \in Nat \cup {-1}
         /\ d.pruning_journal \in SUBSET (Nat \X Block) /\ d.last_pruned \in Nat \cup {-1}
<1>1. d = [f \in DbFields |-> d[f]]
  BY DEF Databases, DbFields
<1> QED BY <1>1 DEF Databases

\* A record with columns of these types is a database.
LEMMA DatabaseIs ==
  ASSUME NEW d, d = [f \in DbFields |-> d[f]],
         d.headers \in SUBSET Block, d.data \in SUBSET Key, d.journal \in SUBSET (Nat \X Nat \X Block),
         d.last_hash \in Block \cup {NoBlock}, d.last_number \in Nat \cup {-1},
         d.pruning_journal \in SUBSET (Nat \X Block), d.last_pruned \in Nat \cup {-1}
  PROVE  d \in Databases
<1> DEFINE e == [ headers |-> d.headers, data |-> d.data, journal |-> d.journal,
                  last_hash |-> d.last_hash, last_number |-> d.last_number,
                  pruning_journal |-> d.pruning_journal, last_pruned |-> d.last_pruned ]
<1>1. e \in Databases
  BY DEF Databases
<1>2. e = [f \in DbFields |-> e[f]]
  BY DEF DbFields
<1>3. \A f \in DbFields : e[f] = d[f]
  BY DEF DbFields
<1> HIDE DEF e
<1>4. [f \in DbFields |-> e[f]] = [f \in DbFields |-> d[f]]
  BY <1>3
<1>5. e = d
  BY <1>2, <1>4
<1> QED BY <1>1, <1>5

\* The record of a block that is inserted.
NewRecord(b) == <<Number(b), insert_index(overlay, b), b>>

InsertCommitShape(u, t, b) ==
  /\ u \in Databases
  /\ u.headers = t.headers \cup {b} /\ u.data = t.data
  /\ u.journal = {r \in t.journal : <<r[1], r[2]>> # <<Number(b), insert_index(overlay, b)>>} \cup {NewRecord(b)}
  /\ u.last_hash = t.last_hash /\ u.last_number = t.last_number
  /\ u.pruning_journal = t.pruning_journal /\ u.last_pruned = t.last_pruned

\* The index of a block in its level is a number.
LEMMA InsertIndexType ==
  ASSUME NEW n \in Overlays, NEW b
  PROVE  insert_index(n, b) \in Nat
<1>0. n.levels \in LevelSeqs
  BY OverlayFields
<1>1. ASSUME NEW i \in DOMAIN n.levels PROVE Len(n.levels[i]) \in Nat
  BY <1>0, LevelsAre, LevelIs
<1> QED BY <1>1 DEF insert_index

\* What insert_block writes.
LEMMA InsertCommitIs ==
  ASSUME overlay \in Overlays, NEW t \in Databases, NEW b \in Block, ~assumes_parent(overlay, b)
  PROVE  InsertCommitShape(insert_commit(t, b), t, b)
<1> DEFINE x == insert_index(overlay, b)
           h == t.headers \cup {b}
           j == {r \in t.journal : <<r[1], r[2]>> # <<Number(b), x>>} \cup {<<Number(b), x, b>>}
           u == [t EXCEPT !.headers = h, !.journal = j, !.last_hash = t.last_hash, !.last_number = t.last_number]
<1>0. /\ t = [f \in DbFields |-> t[f]]
      /\ t.headers \in SUBSET Block /\ t.data \in SUBSET Key
      /\ t.journal \in SUBSET (Nat \X Nat \X Block)
      /\ t.last_hash \in Block \cup {NoBlock} /\ t.last_number \in Nat \cup {-1}
      /\ t.pruning_journal \in SUBSET (Nat \X Block) /\ t.last_pruned \in Nat \cup {-1}
  BY DatabaseFields
<1>1. insert_commit(t, b) = u
  <2> DEFINE key == <<Number(b), x>>
  <2>1. key[1] = Number(b) /\ key[2] = x
    OBVIOUS
  <2>2. insert_commit(t, b) =
          [t EXCEPT !.headers = h,
                    !.journal = {r \in t.journal : <<r[1], r[2]>> # key} \cup {<<key[1], key[2], b>>},
                    !.last_hash = t.last_hash, !.last_number = t.last_number]
    BY DEF insert_commit
  <2> QED BY <2>1, <2>2
<1>2. x \in Nat /\ Number(b) \in Nat
  BY InsertIndexType, NumberIs
<1>3. h \in SUBSET Block /\ j \in SUBSET (Nat \X Nat \X Block)
  <2> HIDE DEF x
  <2> QED BY <1>0, <1>2
<1> HIDE DEF h, j
<1>4. u = [f \in DbFields |-> u[f]] /\ u.headers = h /\ u.journal = j
  BY <1>0 DEF DbFields
<1>5. u.data = t.data /\ u.last_hash = t.last_hash /\ u.last_number = t.last_number
  BY <1>0 DEF DbFields
<1>6. u.pruning_journal = t.pruning_journal /\ u.last_pruned = t.last_pruned
  BY <1>0 DEF DbFields
<1> HIDE DEF u
<1>7. u \in Databases
  BY <1>0, <1>3, <1>4, <1>5, <1>6, DatabaseIs
<1> QED BY <1>1, <1>4, <1>5, <1>6, <1>7 DEF InsertCommitShape, NewRecord, h, j

CanonicalizeCommitShape(u, t, b, w, n) ==
  /\ u \in Databases
  /\ u.headers = t.headers
  /\ u.data = (t.data \cup Inserted(b)) \ prunable_keys(w, n)
  /\ u.journal = {r \in t.journal : <<r[1], r[2]>> \notin discarded_journals(overlay, b)}
  /\ NotedDb(u, t, window, overlay, b, n)

\* What canonicalize_block writes.
LEMMA CanonicalizeCommitIs ==
  ASSUME overlay \in Overlays, window \in RefWindows, NEW t \in Databases, NEW b \in Block,
         NEW w, NEW n \in Nat, pending(w) = window.pending_number + window.pending_prunings
  PROVE  CanonicalizeCommitShape(canonicalize_commit(t, b, w, n), t, b, w, n)
<1> DEFINE number == window.pending_number + NumRows(window)
           first == window.pending_number + window.pending_prunings
           a == (t.data \cup Inserted(b)) \ prunable_keys(w, n)
           j == {r \in t.journal : <<r[1], r[2]>> \notin discarded_journals(overlay, b)}
           l == overlay.last_number + 1 + Len(overlay.pending_canonicalizations)
           q == {r \in {s \in t.pruning_journal : s[1] # number} \cup {<<number, b>>} :
                   r[1] \notin first .. first + n - 1}
           z == IF n > 0 THEN first + n - 1 ELSE t.last_pruned
           u == [t EXCEPT !.data = a, !.journal = j, !.last_hash = b, !.last_number = l,
                          !.pruning_journal = q, !.last_pruned = z]
<1>0. /\ t = [f \in DbFields |-> t[f]]
      /\ t.headers \in SUBSET Block /\ t.data \in SUBSET Key
      /\ t.journal \in SUBSET (Nat \X Nat \X Block)
      /\ t.last_hash \in Block \cup {NoBlock} /\ t.last_number \in Nat \cup {-1}
      /\ t.pruning_journal \in SUBSET (Nat \X Block) /\ t.last_pruned \in Nat \cup {-1}
  BY DatabaseFields
<1>1. canonicalize_commit(t, b, w, n) = u
  <2>1. note_canonical_number(window) = number /\ canonicalized_number(overlay) = l
    BY DEF note_canonical_number, canonicalized_number, front_block_number, NumRows
  <2> HIDE DEF number, l
  <2>2. canonicalize_commit(t, b, w, n) =
          [t EXCEPT !.data = (t.data \cup Inserted(b)) \ prunable_keys(w, n),
                    !.journal = {r \in t.journal : <<r[1], r[2]>> \notin discarded_journals(overlay, b)},
                    !.last_hash = b,
                    !.last_number = canonicalized_number(overlay),
                    !.pruning_journal =
                       {r \in {s \in t.pruning_journal : s[1] # note_canonical_number(window)}
                                \cup {<<note_canonical_number(window), b>>} :
                          r[1] \notin pending(w) .. pending(w) + n - 1},
                    !.last_pruned = IF n > 0 THEN pending(w) + n - 1 ELSE t.last_pruned]
    BY DEF canonicalize_commit
  <2> QED BY <2>1, <2>2
<1>2. /\ number \in Nat /\ first \in Nat /\ l \in Nat
  <2>1. /\ window.pending_number \in Nat /\ NumRows(window) \in Nat /\ window.pending_prunings \in Nat
    BY WindowFields
  <2>2. overlay.last_number \in Nat \cup {-1} /\ Len(overlay.pending_canonicalizations) \in Nat
    BY OverlayFields, LenProperties
  <2> QED BY <2>1, <2>2
<1>3. a \in SUBSET Key /\ j \in SUBSET (Nat \X Nat \X Block)
  BY <1>0, ChangesAre
<1>4. q \in SUBSET (Nat \X Block) /\ z \in Nat \cup {-1}
  <2> HIDE DEF number, first
  <2>1. q \in SUBSET (Nat \X Block)
    BY <1>0, <1>2
  <2>2. z \in Nat \cup {-1}
    BY <1>0, <1>2
  <2> QED BY <2>1, <2>2
<1> HIDE DEF a, j, l, q, z
<1>5. u = [f \in DbFields |-> u[f]] /\ u.data = a /\ u.journal = j /\ u.headers = t.headers
  BY <1>0 DEF DbFields
<1>6. u.last_hash = b /\ u.last_number = l
  BY <1>0 DEF DbFields
<1>7. u.pruning_journal = q /\ u.last_pruned = z
  BY <1>0 DEF DbFields
<1> HIDE DEF u
<1>8. u \in Databases
  BY <1>0, <1>2, <1>3, <1>4, <1>5, <1>6, <1>7, DatabaseIs
<1>9. NotedDb(u, t, window, overlay, b, n)
  BY <1>6, <1>7 DEF NotedDb, l, q, z
<1> QED BY <1>1, <1>5, <1>8, <1>9 DEF CanonicalizeCommitShape, a, j

-----------------------------------------------------------------------------
(* The invariant                                                           *)

\* There is a level for every pending canonicalization, and the pending
\* insertion, of which there is one at most, is at the end of a level.
Room(n) ==
  /\ Len(n.pending_canonicalizations) <= Len(n.levels)
  /\ Len(n.pending_insertions) <= 1
  /\ n.pending_insertions # <<>> => \E i : LastOf(n.levels, i, n.pending_insertions[1])

\* Before the genesis block has been canonicalized there is nothing else.
NoHead(n, d, t, ph) ==
  n.last_hash = NoBlock =>
    /\ n.last_number = -1
    /\ n.levels # <<>> => Len(n.levels) = 1 /\ Len(n.levels[1]) = 1 /\ n.pending_insertions # <<>>
    /\ ph # "committed" => d.headers = {}
    /\ ph \in {"idle", "finalizing"} => t.headers = {}

\* What is pending when.
Phased(n, w, d, t, ph) ==
  /\ ph = "committed" => d = t /\ t.last_hash # NoBlock
  /\ ph = "idle" => t = d /\ w.pending_canonicalizations = 0 /\ w.pending_prunings = 0
  /\ ph \in {"idle", "finalizing"} => n.pending_insertions = <<>>

\* The types of everything but the history.
Typed ==
  /\ overlay \in Overlays
  /\ window \in RefWindows
  /\ pinned \in [Block -> Nat]
  /\ db \in Databases /\ txn \in Databases
  /\ phase \in Phases
  /\ checked \subseteq Block

StateInv ==
  /\ Typed
  /\ IsFiniteSet(db.journal) /\ IsFiniteSet(txn.journal)
  /\ WindowOK(window) /\ Heads(window, overlay)
  /\ phase # "committed" => DbFollows(db, window, overlay)
  /\ TxnFollows(txn, window, overlay)
  /\ Room(overlay) /\ NoHead(overlay, db, txn, phase) /\ Phased(overlay, window, db, txn, phase)

\* The parts of the invariant that depend on the overlay depend on these fields.
LEMMA FollowSame ==
  ASSUME NEW w, NEW n, NEW m, m.last_hash = n.last_hash, m.last_number = n.last_number,
         m.pending_canonicalizations = n.pending_canonicalizations
  PROVE  /\ Heads(w, n) => Heads(w, m)
         /\ HeadOf(m) = HeadOf(n)
         /\ \A d : DbFollows(d, w, n) => DbFollows(d, w, m)
         /\ \A t : TxnFollows(t, w, n) => TxnFollows(t, w, m)
<1>1. HeadOf(m) = HeadOf(n)
  BY DEF HeadOf
<1> QED BY <1>1 DEF Heads, DbFollows, TxnFollows

\* The rows that a restart finds records of.
RestartAfter == IF phase = "committed" THEN window.pending_prunings ELSE 0
RestartUpTo == IF phase = "committed" THEN NumRows(window) ELSE Settled(window)

\* The database that follows the window, whatever the phase, can be started
\* from.
LEMMA CanRestart ==
  ASSUME StateInv
  PROVE  RowsRecorded(db, window, RestartAfter, RestartUpTo)
<1> DEFINE w == window
<1>0. /\ NumRows(w) \in Nat /\ w.pending_number \in Nat /\ w.pending_prunings \in Nat
      /\ w.pending_prunings <= NumRows(w) /\ Settled(w) \in Nat /\ Settled(w) <= NumRows(w)
  BY WindowFields DEF StateInv, WindowOK, Settled
<1>1. CASE phase # "committed"
  <2>1. DbFollows(db, w, overlay)
    BY <1>1 DEF StateInv
  <2>2. 0 + 1 = 1 /\ w.pending_number + 0 - 1 = w.pending_number - 1 /\ 0 \in Nat /\ 0 <= Settled(w)
    BY <1>0
  <2>3. Settled(w) > 0 => w.death_rows[Settled(w)].hash = db.last_hash
    BY <2>1 DEF StateInv, Heads, DbFollows
  <2>4. RowsRecorded(db, w, 0, Settled(w))
    BY <1>0, <2>1, <2>2, <2>3 DEF RowsRecorded, DbFollows
  <2> QED BY <1>1, <2>4 DEF RestartAfter, RestartUpTo
<1>2. CASE phase = "committed"
  <2>1. TxnFollows(db, w, overlay)
    BY <1>2 DEF StateInv, Phased
  <2>2. NumRows(w) > w.pending_prunings => w.death_rows[NumRows(w)].hash = HeadOf(overlay)
    <3>1. NumRows(w) > w.pending_prunings => NumRows(w) > 0
      BY <1>0
    <3> QED BY <3>1, HeadRow DEF StateInv, Typed
  <2>3. RowsRecorded(db, w, w.pending_prunings, NumRows(w))
    BY <1>0, <2>1, <2>2 DEF RowsRecorded, TxnFollows
  <2> QED BY <1>2, <2>3 DEF RestartAfter, RestartUpTo
<1> QED BY <1>1, <1>2

\* The invariant holds at first.
LEMMA InitInv == Init => StateInv
<1> SUFFICES ASSUME Init PROVE StateInv
  OBVIOUS
<1> DEFINE lp == -1
           h == <<>>
<1>1. db \in Databases /\ txn \in Databases
  <2>1. /\ {} \in SUBSET Block /\ {} \in SUBSET Key /\ {} \in SUBSET (Nat \X Nat \X Block)
        /\ {} \in SUBSET (Nat \X Block) /\ NoBlock \in Block \cup {NoBlock} /\ -1 \in Nat \cup {-1}
    OBVIOUS
  <2>2. EmptyDb \in Databases
    BY <2>1 DEF EmptyDb, Databases
  <2> QED BY <2>2 DEF Init
<1>2. {} \in Journals /\ IsFiniteSet({}) /\ NoBlock \in Block \cup {NoBlock} /\ lp \in Nat \cup {-1}
  BY FS_EmptySet DEF Journals
<1>3. StartShape(overlay, {}, NoBlock, lp)
  <2>1. overlay = NewOverlay({}, NoBlock, lp)
    BY DEF Init
  <2> HIDE DEF lp
  <2> QED BY <1>2, <2>1, NewOverlayIs
<1>4. /\ db.headers = {} /\ db.journal = {} /\ db.last_hash = NoBlock /\ db.last_number = -1
      /\ db.pruning_journal = {} /\ db.last_pruned = lp /\ txn = db /\ phase = "idle"
      /\ pinned = [b \in Block |-> 0] /\ checked = {}
      /\ window = NewWindow({}, lp)
  BY DEF Init, EmptyDb
<1>5. WindowOf(window, lp, h, Len(h))
  <2>1. h \in Seq(Block) /\ Len(h) = 0
    BY EmptySeq
  <2>2. Consecutive(h)
    BY <2>1 DEF Consecutive
  <2>3. Records(lp, h) = {}
    BY <2>1 DEF Records
  <2> HIDE DEF lp, h
  <2>4. window = NewWindow(Records(lp, h), lp)
    BY <1>4, <2>3
  <2> QED BY <1>2, <2>1, <2>2, <2>4, NewWindowIs
<1>6. /\ window \in RefWindows /\ window.pending_number = 0 /\ window.pending_canonicalizations = 0
      /\ window.pending_prunings = 0 /\ NumRows(window) = 0
      /\ Exact(window) /\ Linked(window) /\ Dead(window, NumRows(window))
  <2>1. Len(h) = 0 /\ lp + 1 = 0
    BY EmptySeq
  <2> HIDE DEF lp, h
  <2> QED BY <1>5, <2>1 DEF WindowOf
<1>7. Settled(window) = 0
  BY <1>6 DEF Settled
<1>8. WindowOK(window)
  BY <1>6, <1>7 DEF WindowOK
<1>9. /\ overlay \in Overlays /\ overlay.last_hash = NoBlock /\ overlay.last_number = -1
      /\ overlay.pending_canonicalizations = <<>> /\ overlay.pending_insertions = <<>>
      /\ overlay.levels = <<>>
  BY <1>3 DEF StartShape
<1>10. Len(overlay.pending_canonicalizations) = 0 /\ Len(overlay.pending_insertions) = 0 /\ Len(overlay.levels) = 0
  BY <1>9, EmptySeq
<1>11. Heads(window, overlay)
  <2>1. \A j \in 1 .. 0 : FALSE
    OBVIOUS
  <2> QED BY <1>6, <1>7, <1>10, <2>1 DEF Heads
<1>12. DbFollows(db, window, overlay)
  <2>1. RowRecords(window, 1, 0) = {}
    BY DEF RowRecords
  <2> QED BY <1>4, <1>6, <1>7, <1>9, <2>1 DEF DbFollows
<1>13. TxnFollows(txn, window, overlay)
  <2>1. RowRecords(window, 0 + 1, 0) = {} /\ 0 + 0 - 1 = -1 /\ -1 + 0 = -1
    BY DEF RowRecords
  <2>2. HeadOf(overlay) = NoBlock
    BY <1>9 DEF HeadOf
  <2> QED BY <1>4, <1>6, <1>9, <1>10, <2>1, <2>2 DEF TxnFollows
<1>14. Room(overlay) /\ NoHead(overlay, db, txn, phase) /\ Phased(overlay, window, db, txn, phase)
  BY <1>4, <1>6, <1>9, <1>10 DEF Room, NoHead, Phased
<1>15. Typed
  BY <1>1, <1>4, <1>6, <1>9 DEF Typed, Phases
<1> QED BY <1>2, <1>4, <1>8, <1>11, <1>12, <1>13, <1>14, <1>15 DEF StateInv

\* The names of the parts, for citing.
LEMMA InvParts ==
  ASSUME StateInv
  PROVE  /\ overlay \in Overlays /\ window \in RefWindows /\ pinned \in [Block -> Nat]
         /\ db \in Databases /\ txn \in Databases /\ phase \in Phases /\ checked \subseteq Block
         /\ IsFiniteSet(db.journal) /\ IsFiniteSet(txn.journal)
         /\ WindowOK(window) /\ Heads(window, overlay)
         /\ phase # "committed" => DbFollows(db, window, overlay)
         /\ TxnFollows(txn, window, overlay)
         /\ Room(overlay) /\ NoHead(overlay, db, txn, phase) /\ Phased(overlay, window, db, txn, phase)
BY DEF StateInv, Typed

\* The block that canonicalize_block is called with follows the window.
LEMMA FollowsHead ==
  ASSUME StateInv, NEW b, ParentOf(b) = canonical_head
  PROVE  Follows(window, b) /\ canonical_head = HeadOf(overlay)
<1>1. canonical_head = HeadOf(overlay)
  BY DEF canonical_head, HeadOf
<1>2. NumRows(window) > 0 => window.death_rows[NumRows(window)].hash = HeadOf(overlay)
  BY InvParts, HeadRow
<1> QED BY <1>1, <1>2 DEF Follows

\* What a step of canonicalize_block does.
CanonicalizeStep(b, w, n) ==
  /\ phase \in {"idle", "finalizing", "inserted"}
  /\ n \in Nat /\ window.pending_prunings + n <= NumRows(window) + 1
  /\ CanonShape(overlay', overlay, b)
  /\ WindowOK(window') /\ NoteShape(window', window, b, n)
  /\ Full(window) => Full(window')
  /\ \A i \in 1 .. NumRows(window) :
       window'.death_rows[i].deleted = window.death_rows[i].deleted \ Inserted(b)
  /\ window'.death_rows[NumRows(window) + 1].deleted = Deleted(b)
  /\ prunable_keys(w, n) =
       UNION {window'.death_rows[i].deleted : i \in window.pending_prunings + 1 .. window.pending_prunings + n}
  /\ CanonicalizeCommitShape(txn', txn, b, w, n)
  /\ Follows(window, b)

\* canonicalize_block takes such a step.
LEMMA CanonicalizeStepIs ==
  ASSUME StateInv, NEW b \in Block, canonicalize_block(b)
  PROVE  \E w, n : CanonicalizeStep(b, w, n)
<1> DEFINE P == {c \in Block : pinned[c] > 0}
           w == note_canonical(window, b)
           n == prune_count(w, P)
<1>1. /\ phase \in {"idle", "finalizing", "inserted"}
      /\ ParentOf(b) = canonical_head
      /\ overlay' = canonicalize(overlay, b)
      /\ window' = prune_many(w, n)
      /\ txn' = canonicalize_commit(txn, b, w, n)
  BY DEF canonicalize_block
<1>2. Follows(window, b)
  BY <1>1, FollowsHead
<1> HIDE DEF P, n
<1>3. /\ WindowOK(window') /\ NoteShape(window', window, b, n)
      /\ Full(window) => Full(window')
      /\ \A i \in 1 .. NumRows(window) :
           window'.death_rows[i].deleted = window.death_rows[i].deleted \ Inserted(b)
      /\ window'.death_rows[NumRows(window) + 1].deleted = Deleted(b)
      /\ n \in Nat /\ window.pending_prunings + n <= NumRows(window) + 1
      /\ pending(w) = window.pending_number + window.pending_prunings
      /\ prunable_keys(w, n) =
           UNION {window'.death_rows[i].deleted : i \in window.pending_prunings + 1 .. window.pending_prunings + n}
  <2>1. WindowOK(window) /\ n = prune_count(note_canonical(window, b), P)
        /\ window' = prune_many(note_canonical(window, b), n)
    BY <1>1, InvParts DEF n
  <2> QED BY <1>2, <2>1, NoteCanonicalKeeps
<1> HIDE DEF w
<1>4. CanonShape(overlay', overlay, b)
  BY <1>1, InvParts, CanonicalizeIs
<1>5. CanonicalizeCommitShape(txn', txn, b, w, n)
  BY <1>1, <1>3, InvParts, CanonicalizeCommitIs
<1>6. CanonicalizeStep(b, w, n)
  BY <1>1, <1>2, <1>3, <1>4, <1>5 DEF CanonicalizeStep
<1> QED BY <1>6

\* canonicalize_block preserves the invariant.
LEMMA CanonicalizeKeeps ==
  ASSUME StateInv, NEW b \in Block, canonicalize_block(b)
  PROVE  StateInv'
<1>1. PICK w, n : CanonicalizeStep(b, w, n)
  BY CanonicalizeStepIs
<1>2. /\ phase \in {"idle", "finalizing", "inserted"} /\ canonicalizable(overlay, b)
      /\ phase' = IF phase = "inserted" THEN "closing" ELSE "finalizing"
      /\ UNCHANGED <<pinned, db, checked>>
  BY DEF canonicalize_block
<1>3. /\ CanonShape(overlay', overlay, b) /\ WindowOK(window') /\ NoteShape(window', window, b, n)
      /\ CanonicalizeCommitShape(txn', txn, b, w, n)
      /\ n \in Nat /\ window.pending_prunings + n <= NumRows(window) + 1
  BY <1>1 DEF CanonicalizeStep
<1>4. phase' # "committed" /\ phase' # "idle" /\ phase # "committed" /\ phase' \in Phases
  BY <1>2 DEF Phases
<1>5. Heads(window', overlay') /\ HeadOf(overlay') = b /\ Settled(window') = Settled(window)
  BY <1>3, InvParts, HeadsNoted
<1>6. DbFollows(db', window', overlay')
  BY <1>2, <1>3, <1>4, <1>5, InvParts, DbFollowsNoted
<1>7. TxnFollows(txn', window', overlay')
  <2>1. NotedDb(txn', txn, window, overlay, b, n)
    BY <1>3 DEF CanonicalizeCommitShape
  <2> QED BY <1>3, <1>5, <2>1, InvParts, TxnFollowsNoted
<1>8. IsFiniteSet(txn'.journal) /\ txn' \in Databases
  <2>1. txn'.journal \subseteq txn.journal /\ txn' \in Databases
    BY <1>3 DEF CanonicalizeCommitShape
  <2> QED BY <2>1, InvParts, FS_Subset
<1>9. Len(overlay'.pending_canonicalizations) <= Len(overlay'.levels)
  <2>1. overlay.pending_canonicalizations \in Seq(Block) /\ overlay.levels \in LevelSeqs
    BY InvParts, OverlayFields
  <2>2. Len(overlay.pending_canonicalizations) + 1 \in DOMAIN overlay.levels
    BY <1>2 DEF canonicalizable
  <2>3. Len(overlay.pending_canonicalizations) + 1 <= Len(overlay.levels)
    BY <2>1, <2>2, LevelsAre
  <2>4. Len(overlay'.pending_canonicalizations) = Len(overlay.pending_canonicalizations) + 1
    BY <1>3, <2>1, AppendProperties DEF CanonShape
  <2> QED BY <1>3, <2>3, <2>4 DEF CanonShape
<1>10. Room(overlay')
  BY <1>3, <1>9, InvParts DEF Room, CanonShape
<1>11. NoHead(overlay', db', txn', phase')
  <2> SUFFICES ASSUME overlay'.last_hash = NoBlock
               PROVE  /\ overlay'.last_number = -1
                      /\ overlay'.levels # <<>> => /\ Len(overlay'.levels) = 1 /\ Len(overlay'.levels[1]) = 1
                                                   /\ overlay'.pending_insertions # <<>>
                      /\ db'.headers = {} /\ phase' # "finalizing"
    BY <1>4 DEF NoHead
  <2>1. overlay.last_hash = NoBlock /\ overlay'.last_number = overlay.last_number
        /\ overlay'.levels = overlay.levels /\ overlay'.pending_insertions = overlay.pending_insertions
    BY <1>3 DEF CanonShape
  <2>2. overlay.levels # <<>>
    BY <1>2 DEF canonicalizable
  <2>3. overlay.pending_insertions # <<>>
    BY <2>1, <2>2, InvParts DEF NoHead
  <2>4. phase = "inserted"
    BY <1>2, <2>3, InvParts DEF Phased
  <2> QED BY <1>2, <1>4, <2>1, <2>4, InvParts DEF NoHead
<1>12. Phased(overlay', window', db', txn', phase')
  <2>1. phase' = "finalizing" => overlay'.pending_insertions = <<>>
    BY <1>2, <1>3, InvParts DEF Phased, CanonShape
  <2> QED BY <1>4, <2>1 DEF Phased
<1>13. Typed'
  BY <1>2, <1>3, <1>4, <1>8, InvParts DEF Typed, CanonShape, WindowOK
<1> QED BY <1>2, <1>3, <1>5, <1>6, <1>7, <1>8, <1>10, <1>11, <1>12, <1>13, InvParts DEF StateInv

\* The level an overlay is pushed to.
PushedTo(levels, i) == IF i \in 1 .. Len(levels) THEN i ELSE Len(levels) + 1

\* A block overlay that has been pushed is the last of its level.
LEMMA PushedLast ==
  ASSUME NEW levels \in LevelSeqs, NEW i, NEW o \in BlockOverlay, NEW m, PushShape(m, levels, i, o)
  PROVE  /\ LastOf(m, PushedTo(levels, i), o.hash)
         /\ Len(m[PushedTo(levels, i)]) =
              IF i \in 1 .. Len(levels) THEN Len(levels[i]) + 1 ELSE 1
         /\ Last(m[PushedTo(levels, i)]) = o
         /\ Len(levels) <= Len(m) /\ m \in LevelSeqs
<1> DEFINE N == Len(levels)
           j == PushedTo(levels, i)
<1>0. N \in Nat /\ DOMAIN levels = 1 .. N /\ m \in LevelSeqs /\ Len(m) \in Nat /\ DOMAIN m = 1 .. Len(m)
  BY LevelsAre DEF PushShape
<1>1. CASE i \in 1 .. N
  <2>1. j = i /\ m[i] = Append(levels[i], o) /\ Len(m) = N
    BY <1>1 DEF PushShape, PushedTo
  <2>2. levels[i] \in Seq(BlockOverlay)
    BY <1>0, <1>1, LevelsAre
  <2> DEFINE s == levels[i]
  <2>3. Len(Append(s, o)) = Len(s) + 1 /\ Append(s, o)[Len(s) + 1] = o /\ Len(s) \in Nat
    BY <2>2, AppendProperties, LenProperties
  <2>4. Append(s, o) # <<>>
    <3>1. Len(<<>>) = 0 /\ Len(s) + 1 # 0
      BY <2>3, EmptySeq
    <3> HIDE DEF s
    <3> QED BY <2>3, <3>1
  <2>5. Last(Append(s, o)) = o
    BY <2>3 DEF Last
  <2> HIDE DEF s
  <2>6. m[j] = Append(s, o) /\ j \in DOMAIN m
    BY <1>0, <1>1, <2>1 DEF s
  <2> HIDE DEF j
  <2>7. Len(m[j]) = Len(s) + 1 /\ Last(m[j]) = o /\ m[j] # <<>>
    BY <2>3, <2>4, <2>5, <2>6
  <2> QED BY <1>0, <1>1, <2>1, <2>6, <2>7 DEF LastOf, j, s
<1>2. CASE i \notin 1 .. N
  <2>1. j = N + 1 /\ m[N + 1] = <<o>> /\ Len(m) = N + 1
    BY <1>2 DEF PushShape, PushedTo
  <2>2. Len(<<o>>) = 1 /\ Last(<<o>>) = o /\ <<o>> # <<>>
    BY DEF Last
  <2>3. j \in DOMAIN m
    BY <1>0, <2>1
  <2> HIDE DEF j
  <2>4. Len(m[j]) = 1 /\ Last(m[j]) = o /\ m[j] # <<>>
    BY <2>1, <2>2
  <2> QED BY <1>0, <1>2, <2>1, <2>3, <2>4 DEF LastOf, j
<1> QED BY <1>1, <1>2

\* What a step of insert_block does to the overlay and to the transaction.
LEMMA InsertStepIs ==
  ASSUME StateInv, NEW b \in Block, insert_block(b)
  PROVE  /\ InsertShape(overlay', overlay, b) /\ InsertCommitShape(txn', txn, b)
         /\ overlay.last_hash = NoBlock => b = Genesis /\ overlay.levels = <<>>
<1>1. /\ phase \in {"idle", "finalizing"}
      /\ b # Genesis => ParentOf(b) \in txn.headers
      /\ overlay' = insert(overlay, b) /\ txn' = insert_commit(txn, b)
  BY DEF insert_block
<1>2. overlay.last_hash = NoBlock => txn.headers = {}
  BY <1>1, InvParts DEF NoHead
<1>3. overlay.last_hash = NoBlock => b = Genesis /\ Number(b) = 0
  BY <1>1, <1>2, NumberIs
<1>4. ~assumes_parent(overlay, b)
  BY <1>3 DEF assumes_parent
<1>5. overlay.last_hash = NoBlock => overlay.levels = <<>>
  BY <1>1, InvParts DEF NoHead, Phased
<1>6. InsertShape(overlay', overlay, b)
  BY <1>1, <1>4, InvParts, InsertIs
<1>7. InsertCommitShape(txn', txn, b)
  BY <1>1, <1>4, InvParts, InsertCommitIs
<1> QED BY <1>3, <1>5, <1>6, <1>7

\* insert_block preserves the invariant.
LEMMA InsertKeeps ==
  ASSUME StateInv, NEW b \in Block, insert_block(b)
  PROVE  StateInv'
<1>1. /\ phase \in {"idle", "finalizing"} /\ phase' = "inserted"
      /\ UNCHANGED <<window, pinned, db, checked>>
  BY DEF insert_block
<1>2. /\ InsertShape(overlay', overlay, b) /\ InsertCommitShape(txn', txn, b)
      /\ overlay.last_hash = NoBlock => overlay.levels = <<>>
  BY InsertStepIs
<1>3. Heads(window', overlay') /\ HeadOf(overlay') = HeadOf(overlay)
  BY <1>1, <1>2, InvParts, FollowSame DEF InsertShape
<1>4. DbFollows(db', window', overlay')
  <2>1. DbFollows(db, window, overlay)
    BY <1>1, InvParts
  <2> QED BY <1>1, <1>2, <2>1, FollowSame DEF InsertShape
<1>5. TxnFollows(txn', window', overlay')
  <2>1. TxnFollows(txn, window, overlay')
    BY <1>2, InvParts, FollowSame DEF InsertShape
  <2>2. /\ txn'.last_hash = txn.last_hash /\ txn'.last_number = txn.last_number
        /\ txn'.pruning_journal = txn.pruning_journal /\ txn'.last_pruned = txn.last_pruned
    BY <1>2 DEF InsertCommitShape
  <2> QED BY <1>1, <2>1, <2>2 DEF TxnFollows
<1>6. IsFiniteSet(txn'.journal) /\ txn' \in Databases
  <2> DEFINE A == {r \in txn.journal : <<r[1], r[2]>> # <<Number(b), insert_index(overlay, b)>>}
             B == {NewRecord(b)}
  <2>1. txn' \in Databases /\ txn'.journal = A \cup B
    BY <1>2 DEF InsertCommitShape
  <2>2. IsFiniteSet(A)
    BY InvParts, FS_Subset
  <2>3. IsFiniteSet(B)
    BY FS_Singleton
  <2> HIDE DEF A, B
  <2> QED BY <2>1, <2>2, <2>3, FS_Union
<1> DEFINE o == NewEntry(overlay, b)
           i == level_of(overlay, b)
           j == PushedTo(overlay.levels, i)
<1>7. overlay.pending_insertions = <<>> /\ overlay'.pending_insertions = Append(<<>>, b)
  BY <1>1, <1>2, InvParts DEF Phased, InsertShape
<1>8. overlay'.pending_insertions[1] = b /\ Len(overlay'.pending_insertions) = 1 /\ overlay'.pending_insertions # <<>>
  <2>1. Append(<<>>, b) = <<b>>
    OBVIOUS
  <2> QED BY <1>7, <2>1
<1>9. o \in BlockOverlay /\ o.hash = b
  BY InvParts, InsertIndexType DEF NewEntry, BlockOverlay
<1>10. overlay.levels \in LevelSeqs /\ PushShape(overlay'.levels, overlay.levels, i, o)
  BY <1>2, InvParts, OverlayFields DEF InsertShape
<1> HIDE DEF o, i, j
<1>11. /\ LastOf(overlay'.levels, j, b)
       /\ Len(overlay'.levels[j]) = IF i \in 1 .. Len(overlay.levels) THEN Len(overlay.levels[i]) + 1 ELSE 1
       /\ Len(overlay.levels) <= Len(overlay'.levels) /\ overlay'.levels \in LevelSeqs
  BY <1>9, <1>10, PushedLast DEF j
<1>12. Room(overlay')
  <2>1. Len(overlay'.pending_canonicalizations) <= Len(overlay'.levels)
    <3>1. /\ Len(overlay.pending_canonicalizations) <= Len(overlay.levels)
          /\ overlay'.pending_canonicalizations = overlay.pending_canonicalizations
      BY <1>2, InvParts DEF Room, InsertShape
    <3>2. Len(overlay.pending_canonicalizations) \in Nat /\ Len(overlay.levels) \in Nat /\ Len(overlay'.levels) \in Nat
      BY <1>10, <1>11, InvParts, OverlayFields, LevelsAre, LenProperties
    <3> QED BY <1>11, <3>1, <3>2
  <2>2. \E x : LastOf(overlay'.levels, x, overlay'.pending_insertions[1])
    BY <1>8, <1>11
  <2> QED BY <1>8, <2>1, <2>2 DEF Room
<1>13. NoHead(overlay', db', txn', phase')
  <2> SUFFICES ASSUME overlay'.last_hash = NoBlock
               PROVE  /\ overlay'.last_number = -1
                      /\ Len(overlay'.levels) = 1 /\ Len(overlay'.levels[1]) = 1
                      /\ db'.headers = {}
    BY <1>1, <1>8 DEF NoHead
  <2>1. overlay.last_hash = NoBlock /\ overlay'.last_number = overlay.last_number
    BY <1>2 DEF InsertShape
  <2>2. overlay.levels = <<>> /\ Len(overlay.levels) = 0
    BY <1>2, <2>1, EmptySeq
  <2>3. i \notin 1 .. Len(overlay.levels)
    BY <2>2
  <2>4. j = 0 + 1 /\ Len(overlay'.levels) = 0 + 1
    BY <1>10, <2>2, <2>3 DEF j, PushedTo, PushShape
  <2>5. Len(overlay'.levels[j]) = 1
    BY <1>11, <2>3
  <2> QED BY <1>1, <2>1, <2>4, <2>5, InvParts DEF NoHead
<1>14. Phased(overlay', window', db', txn', phase')
  BY <1>1 DEF Phased
<1>15. Typed'
  BY <1>1, <1>2, <1>6, InvParts DEF Typed, Phases, InsertShape
<1> QED BY <1>1, <1>3, <1>4, <1>5, <1>6, <1>12, <1>13, <1>14, <1>15, InvParts DEF StateInv

\* commit preserves the invariant.
LEMMA CommitKeeps ==
  ASSUME StateInv, commit
  PROVE  StateInv'
<1>1. /\ phase \in {"finalizing", "inserted", "closing"} /\ txn.last_hash # NoBlock
      /\ db' = txn /\ phase' = "committed"
      /\ UNCHANGED <<overlay, window, pinned, txn, checked>>
  BY DEF commit
<1>2. NoHead(overlay', db', txn', phase')
  BY <1>1, InvParts DEF NoHead
<1>3. Phased(overlay', window', db', txn', phase')
  BY <1>1 DEF Phased
<1>4. Typed'
  BY <1>1, InvParts DEF Typed, Phases
<1> QED BY <1>1, <1>2, <1>3, <1>4, InvParts DEF StateInv

\* What a step of apply_pending does.
LEMMA ApplyStepIs ==
  ASSUME StateInv, apply_pending
  PROVE  /\ \E f : /\ Turns(f, overlay, overlay.pending_canonicalizations)
                   /\ AppliedShape(overlay', overlay, overlay.pending_canonicalizations,
                                   f[Len(overlay.pending_canonicalizations)])
         /\ WindowOK(window') /\ ShiftShape(window', window, window.pending_prunings)
         /\ Full(window) => Full(window')
         /\ phase = "committed" /\ phase' = "idle" /\ UNCHANGED <<pinned, db, txn, checked>> /\ db = txn
<1>1. /\ phase = "committed" /\ phase' = "idle" /\ UNCHANGED <<pinned, db, txn, checked>>
      /\ overlay' = noncanonical_apply_pending(overlay) /\ window' = window_apply_pending(window)
  BY DEF apply_pending
<1> DEFINE p == overlay.pending_canonicalizations
<1>2. Len(p) <= Len(overlay.levels) /\ overlay \in Overlays
  BY InvParts DEF Room
<1>3. \E f : Turns(f, overlay, p) /\ AppliedShape(noncanonical_apply_pending(overlay), overlay, p, f[Len(p)])
  BY <1>2, ApplyPendingIs
<1>4. /\ WindowOK(window') /\ ShiftShape(window', window, window.pending_prunings)
      /\ Full(window) => Full(window')
  BY <1>1, InvParts, WindowApplyKeeps
<1>5. db = txn
  BY <1>1, InvParts DEF Phased
<1> QED BY <1>1, <1>3, <1>4, <1>5

\* apply_pending preserves the invariant.
LEMMA ApplyKeeps ==
  ASSUME StateInv, apply_pending
  PROVE  StateInv'
<1> DEFINE p == overlay.pending_canonicalizations
<1>1. PICK f : Turns(f, overlay, p) /\ AppliedShape(overlay', overlay, p, f[Len(p)])
  BY ApplyStepIs
<1>2. /\ WindowOK(window') /\ ShiftShape(window', window, window.pending_prunings)
      /\ phase = "committed" /\ phase' = "idle" /\ UNCHANGED <<pinned, db, txn, checked>> /\ db = txn
  BY ApplyStepIs
<1>3. /\ Heads(window', overlay') /\ DbFollows(txn, window', overlay') /\ TxnFollows(txn, window', overlay')
      /\ overlay'.last_hash = txn.last_hash
  <2> DEFINE x == f[Len(p)]
  <2>1. AppliedShape(overlay', overlay, overlay.pending_canonicalizations, x)
    BY <1>1
  <2> HIDE DEF x
  <2> QED BY <1>2, <2>1, InvParts, AllApplied
<1>4. overlay' \in Overlays /\ overlay'.pending_canonicalizations = <<>> /\ overlay'.pending_insertions = <<>>
  BY <1>1 DEF AppliedShape
<1>5. Room(overlay')
  <2>1. Len(<<>>) = 0 /\ Len(overlay'.levels) \in Nat
    BY <1>4, EmptySeq, OverlayFields, LevelsAre
  <2> QED BY <1>4, <2>1 DEF Room
<1>6. NoHead(overlay', db', txn', phase')
  BY <1>2, <1>3, InvParts DEF NoHead, Phased
<1>7. Phased(overlay', window', db', txn', phase')
  BY <1>2, <1>4 DEF Phased, ShiftShape
<1>8. Typed'
  BY <1>2, <1>4, InvParts DEF Typed, Phases, WindowOK
<1> QED BY <1>2, <1>3, <1>5, <1>6, <1>7, <1>8, InvParts DEF StateInv

\* What a step of revert_pending does.
LEMMA RevertStepIs ==
  ASSUME StateInv, revert_pending
  PROVE  /\ RevertedShape(overlay', overlay)
         /\ WindowOK(window')
         /\ window'.pending_number = window.pending_number
         /\ window'.pending_canonicalizations = 0 /\ window'.pending_prunings = 0
         /\ NumRows(window') = Settled(window)
         /\ \A i \in 1 .. Settled(window) : window'.death_rows[i] = window.death_rows[i]
         /\ Failures /\ phase # "committed" /\ phase' = "idle" /\ txn' = db
         /\ UNCHANGED <<pinned, db, checked>>
<1>1. /\ Failures /\ phase # "committed" /\ phase' = "idle" /\ txn' = db
      /\ UNCHANGED <<pinned, db, checked>>
      /\ overlay' = noncanonical_revert_pending(overlay) /\ window' = window_revert_pending(window)
  BY DEF revert_pending
<1>2. RevertedShape(overlay', overlay)
  BY <1>1, InvParts, RevertPendingIs DEF Room
<1>3. /\ WindowOK(window')
      /\ window'.pending_number = window.pending_number
      /\ window'.pending_canonicalizations = 0 /\ window'.pending_prunings = 0
      /\ NumRows(window') = Settled(window)
      /\ \A i \in 1 .. Settled(window) : window'.death_rows[i] = window.death_rows[i]
  BY <1>1, InvParts, WindowRevertKeeps
<1> QED BY <1>1, <1>2, <1>3

\* revert_pending preserves the invariant.
LEMMA RevertKeeps ==
  ASSUME StateInv, revert_pending
  PROVE  StateInv'
<1>1. /\ RevertedShape(overlay', overlay)
      /\ WindowOK(window')
      /\ window'.pending_number = window.pending_number
      /\ window'.pending_canonicalizations = 0 /\ window'.pending_prunings = 0
      /\ NumRows(window') = Settled(window)
      /\ \A i \in 1 .. Settled(window) : window'.death_rows[i] = window.death_rows[i]
      /\ phase # "committed" /\ phase' = "idle" /\ txn' = db
      /\ UNCHANGED <<pinned, db, checked>>
  BY RevertStepIs
<1>2. /\ overlay' \in Overlays /\ overlay'.pending_canonicalizations = <<>> /\ overlay'.pending_insertions = <<>>
      /\ overlay'.last_hash = overlay.last_hash /\ overlay'.last_number = overlay.last_number
  BY <1>1 DEF RevertedShape
<1>3. Heads(window', overlay') /\ DbFollows(db, window', overlay') /\ TxnFollows(db, window', overlay')
  BY <1>1, <1>2, InvParts, AllReverted
<1>4. Room(overlay')
  <2>1. Len(<<>>) = 0 /\ Len(overlay'.levels) \in Nat
    BY <1>2, EmptySeq, OverlayFields, LevelsAre
  <2> QED BY <1>2, <2>1 DEF Room
<1>5. overlay'.last_hash = NoBlock => overlay'.levels = <<>>
  <2> SUFFICES ASSUME overlay.last_hash = NoBlock PROVE overlay'.levels = <<>>
    BY <1>2
  <2>0. overlay.levels \in LevelSeqs /\ overlay'.levels \in LevelSeqs
    BY <1>2, InvParts, OverlayFields
  <2>1. CASE overlay.pending_insertions = <<>>
    BY <1>1, <2>1, InvParts DEF NoHead, RevertedShape
  <2>2. CASE overlay.pending_insertions # <<>>
    <3>1. PICK i : RevertShape(overlay', overlay, overlay.pending_insertions[1], i)
      BY <1>1, <2>2 DEF RevertedShape
    <3>2. LastOf(overlay.levels, i, overlay.pending_insertions[1]) /\ CutShape(overlay'.levels, overlay.levels, i)
      BY <3>1 DEF RevertShape
    <3>3. overlay.levels # <<>> /\ i \in 1 .. Len(overlay.levels)
      BY <2>0, <3>2, LevelsAre DEF LastOf
    <3>4. Len(overlay.levels) = 1 /\ Len(overlay.levels[1]) = 1
      BY <3>3, InvParts DEF NoHead
    <3>5. i = 1
      BY <3>3, <3>4
    <3>6. Len(overlay'.levels) = 1 - 1
      BY <3>2, <3>4, <3>5 DEF CutShape
    <3>7. Len(overlay'.levels) = 0
      BY <3>6
    <3> QED BY <2>0, <3>7, EmptySeq DEF LevelSeqs
  <2> QED BY <2>1, <2>2
<1>6. NoHead(overlay', db', txn', phase')
  BY <1>1, <1>2, <1>5, InvParts DEF NoHead
<1>7. Phased(overlay', window', db', txn', phase')
  BY <1>1, <1>2 DEF Phased
<1>8. Typed'
  BY <1>1, <1>2, InvParts DEF Typed, Phases, WindowOK
<1> QED BY <1>1, <1>3, <1>4, <1>6, <1>7, <1>8, InvParts DEF StateInv

\* What revert_one leaves in the database.
DropDb(d, b) ==
  /\ d \in Databases
  /\ d.headers = db.headers \ {b} /\ d.data = db.data
  /\ d.journal = {r \in db.journal : <<r[1], r[2]>> \notin reverted_journals(overlay)}
  /\ d.last_hash = db.last_hash /\ d.last_number = db.last_number
  /\ d.pruning_journal = db.pruning_journal /\ d.last_pruned = db.last_pruned

\* revert_one drops a level and leaves such a database.
LEMMA RevertOneStepIs ==
  ASSUME StateInv, NEW b \in Block, revert_one(b)
  PROVE  /\ DropShape(overlay', overlay) /\ DropDb(db', b) /\ txn' = db'
         /\ phase = "idle" /\ UNCHANGED <<window, pinned, phase, checked>>
         /\ overlay.levels # <<>> /\ b \in Hashes(Last(overlay.levels))
         /\ db = txn /\ DbFollows(db, window, overlay)
<1> DEFINE h == db.headers \ {b}
           j == {r \in db.journal : <<r[1], r[2]>> \notin reverted_journals(overlay)}
           d == [db EXCEPT !.headers = h, !.journal = j]
<1>1. /\ phase = "idle" /\ UNCHANGED <<window, pinned, phase, checked>> /\ txn' = db'
      /\ overlay.levels # <<>> /\ b \in Hashes(Last(overlay.levels))
      /\ overlay' = noncanonical_revert_one(overlay)
      /\ db' = d
  BY DEF revert_one
<1>2. DropShape(overlay', overlay)
  BY <1>1, InvParts, RevertOneIs
<1>3. /\ db = [f \in DbFields |-> db[f]]
      /\ db.headers \in SUBSET Block /\ db.data \in SUBSET Key
      /\ db.journal \in SUBSET (Nat \X Nat \X Block)
      /\ db.last_hash \in Block \cup {NoBlock} /\ db.last_number \in Nat \cup {-1}
      /\ db.pruning_journal \in SUBSET (Nat \X Block) /\ db.last_pruned \in Nat \cup {-1}
  BY InvParts, DatabaseFields
<1>4. h \in SUBSET Block /\ j \in SUBSET (Nat \X Nat \X Block)
  BY <1>3
<1> HIDE DEF h, j
<1>5. d = [f \in DbFields |-> d[f]] /\ d.headers = h /\ d.journal = j
  BY <1>3 DEF DbFields
<1>6. d.data = db.data /\ d.last_hash = db.last_hash /\ d.last_number = db.last_number
  BY <1>3 DEF DbFields
<1>7. d.pruning_journal = db.pruning_journal /\ d.last_pruned = db.last_pruned
  BY <1>3 DEF DbFields
<1> HIDE DEF d
<1>8. d \in Databases
  BY <1>3, <1>4, <1>5, <1>6, <1>7, DatabaseIs
<1>9. DropDb(d, b)
  BY <1>5, <1>6, <1>7, <1>8 DEF DropDb, h, j
<1>10. db = txn /\ DbFollows(db, window, overlay)
  BY <1>1, InvParts DEF Phased
<1> QED BY <1>1, <1>2, <1>9, <1>10

\* revert_one preserves the invariant.
LEMMA RevertOneKeeps ==
  ASSUME StateInv, NEW b \in Block, revert_one(b)
  PROVE  StateInv'
<1>1. /\ DropShape(overlay', overlay) /\ DropDb(db', b) /\ txn' = db'
      /\ phase = "idle" /\ UNCHANGED <<window, pinned, phase, checked>>
      /\ overlay.levels # <<>> /\ db = txn /\ DbFollows(db, window, overlay)
  BY RevertOneStepIs
<1>2. /\ overlay' \in Overlays /\ overlay'.last_hash = overlay.last_hash
      /\ overlay'.last_number = overlay.last_number
      /\ overlay'.pending_canonicalizations = overlay.pending_canonicalizations
      /\ overlay'.pending_insertions = overlay.pending_insertions
  BY <1>1 DEF DropShape
<1>3. /\ Heads(window, overlay') /\ DbFollows(db, window, overlay') /\ TxnFollows(txn, window, overlay')
  BY <1>1, <1>2, InvParts, FollowSame
<1>4. DbFollows(db', window', overlay') /\ TxnFollows(txn', window', overlay')
  BY <1>1, <1>3 DEF DropDb, DbFollows, TxnFollows
<1>5. IsFiniteSet(db'.journal)
  <2>1. db'.journal \subseteq db.journal
    BY <1>1 DEF DropDb
  <2> QED BY <2>1, InvParts, FS_Subset
<1>6. overlay.pending_insertions = <<>> /\ Len(overlay.pending_canonicalizations) = 0
  BY <1>1, InvParts DEF Phased, Heads
<1>7. Room(overlay')
  <2>1. Len(<<>>) = 0 /\ Len(overlay'.levels) \in Nat
    BY <1>2, EmptySeq, OverlayFields, LevelsAre
  <2> QED BY <1>2, <1>6, <2>1 DEF Room
<1>8. overlay'.last_hash # NoBlock
  BY <1>1, <1>2, <1>6, InvParts DEF NoHead
<1>9. NoHead(overlay', db', txn', phase')
  BY <1>8 DEF NoHead
<1>10. Phased(overlay', window', db', txn', phase')
  BY <1>1, <1>2, InvParts DEF Phased
<1>11. Typed'
  BY <1>1, <1>2, InvParts DEF Typed, DropDb
<1> QED BY <1>1, <1>3, <1>4, <1>5, <1>7, <1>9, <1>10, <1>11, InvParts DEF StateInv

\* Steps that change nothing but what is pinned.
LEMMA PinnedPartKeeps ==
  ASSUME StateInv, SamePart(overlay', overlay), UNCHANGED <<window, db, txn, phase>>,
         pinned' \in [Block -> Nat], checked' \subseteq Block
  PROVE  StateInv'
<1>1. /\ overlay' \in Overlays /\ overlay'.last_hash = overlay.last_hash
      /\ overlay'.last_number = overlay.last_number /\ overlay'.levels = overlay.levels
      /\ overlay'.pending_canonicalizations = overlay.pending_canonicalizations
      /\ overlay'.pending_insertions = overlay.pending_insertions
  BY DEF SamePart
<1>2. /\ Heads(window, overlay') /\ TxnFollows(txn, window, overlay')
      /\ phase # "committed" => DbFollows(db, window, overlay')
  BY <1>1, InvParts, FollowSame
<1>3. Room(overlay')
  BY <1>1, InvParts DEF Room
<1>4. NoHead(overlay', db', txn', phase')
  BY <1>1, InvParts DEF NoHead
<1>5. Phased(overlay', window', db', txn', phase')
  BY <1>1, InvParts DEF Phased
<1>6. Typed'
  BY <1>1, InvParts DEF Typed
<1> QED BY <1>2, <1>3, <1>4, <1>5, <1>6, InvParts DEF StateInv

\* Readers.
LEMMA ReadersKeep ==
  ASSUME StateInv, NEW b \in Block, have_state_at(b) \/ pin(b) \/ unpin(b)
  PROVE  StateInv' /\ SamePart(overlay', overlay) /\ UNCHANGED <<window, db, txn, phase>>
<1>0. SamePart(overlay, overlay)
  BY InvParts DEF SamePart
<1>1. CASE have_state_at(b)
  <2>1. UNCHANGED <<overlay, window, pinned, db, txn, phase>> /\ checked' = checked \cup {b}
    BY <1>1 DEF have_state_at
  <2>2. SamePart(overlay', overlay) /\ pinned' \in [Block -> Nat] /\ checked' \subseteq Block
    BY <1>0, <2>1, InvParts
  <2> QED BY <2>1, <2>2, PinnedPartKeeps
<1>2. CASE pin(b)
  <2>1. UNCHANGED <<window, db, txn, phase>> /\ checked' = checked \ {b}
    BY <1>2 DEF pin
  <2>2. \/ UNCHANGED <<pinned, overlay>>
        \/ /\ pinned' = [pinned EXCEPT ![b] = pinned[b] + 1]
           /\ overlay' = noncanonical_pin(overlay, b) \/ overlay' = overlay
    BY <1>2 DEF pin
  <2>3. pinned' \in [Block -> Nat] /\ checked' \subseteq Block
    BY <2>1, <2>2, InvParts
  <2>4. SamePart(overlay', overlay)
    BY <1>0, <2>2, InvParts, PinIs
  <2> QED BY <2>1, <2>3, <2>4, PinnedPartKeeps
<1>3. CASE unpin(b)
  <2>1. /\ UNCHANGED <<window, db, txn, phase, checked>> /\ pinned[b] > 0
        /\ pinned' = [pinned EXCEPT ![b] = pinned[b] - 1]
        /\ overlay' = noncanonical_unpin(overlay, b) \/ overlay' = overlay
    BY <1>3 DEF unpin
  <2>2. pinned' \in [Block -> Nat] /\ checked' \subseteq Block
    <3>1. pinned[b] \in Nat /\ pinned[b] - 1 \in Nat
      BY <2>1, InvParts
    <3> QED BY <2>1, <3>1, InvParts
  <2>3. SamePart(overlay', overlay)
    BY <1>0, <2>1, InvParts, UnpinIs
  <2> QED BY <2>1, <2>2, <2>3, PinnedPartKeeps
<1> QED BY <1>1, <1>2, <1>3

\* What a restart does.
LEMMA RestartStepIs ==
  ASSUME StateInv, restart
  PROVE  /\ StartShape(overlay', db.journal, db.last_hash, db.last_number)
         /\ WindowOK(window') /\ Heads(window', overlay') /\ Full(window')
         /\ DbFollows(db, window', overlay') /\ TxnFollows(db, window', overlay')
         /\ window'.pending_prunings = 0 /\ window'.pending_canonicalizations = 0
         /\ pinned' = [b \in Block |-> 0] /\ txn' = db /\ db' = db /\ phase' = "idle" /\ checked' = {}
         /\ Crashes
         /\ NumRows(window') = RestartUpTo - RestartAfter
         /\ \A i \in 1 .. RestartUpTo - RestartAfter :
              window'.death_rows[i].hash = window.death_rows[RestartAfter + i].hash
<1>1. /\ overlay' = NewOverlay(db.journal, db.last_hash, db.last_number)
      /\ window' = NewWindow(db.pruning_journal, db.last_pruned)
      /\ pinned' = [b \in Block |-> 0] /\ txn' = db /\ db' = db /\ phase' = "idle" /\ checked' = {}
      /\ Crashes
  BY DEF restart
<1>2. /\ db.journal \in Journals /\ db.last_hash \in Block \cup {NoBlock} /\ db.last_number \in Nat \cup {-1}
  BY InvParts, DatabaseFields DEF Journals
<1>3. StartShape(overlay', db.journal, db.last_hash, db.last_number)
  BY <1>1, <1>2, NewOverlayIs
<1> DEFINE a == RestartAfter
           e == RestartUpTo
<1>4. RowsRecorded(db, window, a, e)
  BY CanRestart
<1> HIDE DEF a, e
<1>5. /\ overlay' \in Overlays /\ overlay'.last_hash = db.last_hash /\ overlay'.last_number = db.last_number
      /\ overlay'.pending_canonicalizations = <<>>
  BY <1>3 DEF StartShape
<1>6. /\ WindowOK(window') /\ Heads(window', overlay') /\ Full(window')
      /\ DbFollows(db, window', overlay') /\ TxnFollows(db, window', overlay')
      /\ window'.pending_prunings = 0
      /\ NumRows(window') = e - a /\ \A i \in 1 .. e - a : window'.death_rows[i].hash = window.death_rows[a + i].hash
  BY <1>1, <1>4, <1>5, InvParts, Restarted
<1>7. window'.pending_canonicalizations = 0
  BY <1>5, <1>6, EmptySeq DEF Heads
<1> QED BY <1>1, <1>3, <1>6, <1>7 DEF a, e

\* restart preserves the invariant.
LEMMA RestartKeeps ==
  ASSUME StateInv, restart
  PROVE  StateInv'
<1>1. /\ StartShape(overlay', db.journal, db.last_hash, db.last_number)
      /\ WindowOK(window') /\ Heads(window', overlay')
      /\ DbFollows(db, window', overlay') /\ TxnFollows(db, window', overlay')
      /\ window'.pending_prunings = 0 /\ window'.pending_canonicalizations = 0
      /\ pinned' = [b \in Block |-> 0] /\ txn' = db /\ db' = db /\ phase' = "idle" /\ checked' = {}
  BY RestartStepIs
<1>2. /\ overlay' \in Overlays /\ overlay'.last_hash = db.last_hash /\ overlay'.last_number = db.last_number
      /\ overlay'.pending_canonicalizations = <<>> /\ overlay'.pending_insertions = <<>>
      /\ db.last_hash = NoBlock => overlay'.levels = <<>>
  BY <1>1 DEF StartShape
<1>3. Room(overlay')
  <2>1. Len(<<>>) = 0 /\ Len(overlay'.levels) \in Nat
    BY <1>2, EmptySeq, OverlayFields, LevelsAre
  <2> QED BY <1>2, <2>1 DEF Room
<1>4. db.last_hash = NoBlock => db.last_number = -1 /\ db.headers = {}
  <2> SUFFICES ASSUME db.last_hash = NoBlock PROVE db.last_number = -1 /\ db.headers = {}
    OBVIOUS
  <2>1. phase # "committed"
    BY InvParts DEF Phased
  <2>2. overlay.last_hash = NoBlock /\ overlay.last_number = db.last_number
    BY <2>1, InvParts DEF DbFollows
  <2> QED BY <2>1, <2>2, InvParts DEF NoHead
<1>5. NoHead(overlay', db', txn', phase')
  BY <1>1, <1>2, <1>4 DEF NoHead
<1>6. Phased(overlay', window', db', txn', phase')
  BY <1>1, <1>2 DEF Phased
<1>7. Typed'
  BY <1>1, <1>2, InvParts DEF Typed, Phases, WindowOK
<1> QED BY <1>1, <1>3, <1>5, <1>6, <1>7, InvParts DEF StateInv

\* Every step preserves the invariant.
LEMMA NextKeeps == StateInv /\ [Next]_vars => StateInv'
<1> SUFFICES ASSUME StateInv, [Next]_vars PROVE StateInv'
  OBVIOUS
<1>1. CASE UNCHANGED vars
  BY <1>1 DEF StateInv, Typed, vars
<1>2. ASSUME NEW b \in Block, canonicalize_block(b) PROVE StateInv'
  BY <1>2, CanonicalizeKeeps
<1>3. ASSUME NEW b \in Block, insert_block(b) PROVE StateInv'
  BY <1>3, InsertKeeps
<1>4. ASSUME NEW b \in Block, revert_one(b) PROVE StateInv'
  BY <1>4, RevertOneKeeps
<1>5. ASSUME NEW b \in Block, have_state_at(b) \/ pin(b) \/ unpin(b) PROVE StateInv'
  BY <1>5, ReadersKeep
<1>6. CASE commit
  BY <1>6, CommitKeeps
<1>7. CASE apply_pending
  BY <1>7, ApplyKeeps
<1>8. CASE revert_pending
  BY <1>8, RevertKeeps
<1>9. CASE restart
  BY <1>9, RestartKeeps
<1> QED BY <1>1, <1>2, <1>3, <1>4, <1>5, <1>6, <1>7, <1>8, <1>9 DEF Next

PastTyped == past \subseteq Events

\* Nothing that has happened is forgotten...
LEMMA PastGrows ==
  ASSUME [Next]_vars
  PROVE  past \subseteq past' /\ (past \subseteq Events => past' \subseteq Events)
<1>1. CASE UNCHANGED vars \/ commit \/ apply_pending
  BY <1>1 DEF vars, commit, apply_pending
<1>2. ASSUME NEW b \in Block, canonicalize_block(b) \/ revert_one(b) \/ have_state_at(b) \/ unpin(b)
      PROVE  past' = past
  BY <1>2 DEF canonicalize_block, revert_one, have_state_at, unpin
<1>3. ASSUME NEW b \in Block, insert_block(b) \/ pin(b)
      PROVE  past \subseteq past' /\ past' \subseteq past \cup {"stray"}
  BY <1>3 DEF insert_block, pin, Happened
<1>4. CASE restart
  BY <1>4 DEF restart, Happened, Events
<1>5. CASE revert_pending
  BY <1>5 DEF revert_pending, Happened, Events
<1> QED BY <1>1, <1>2, <1>3, <1>4, <1>5 DEF Next, Events

\* ... and an operation that fails is noted.
LEMMA UndoneNoted ==
  ASSUME revert_pending
  PROVE  "undone" \in past' /\ (~in_order(overlay) => "disorder" \in past')
BY DEF revert_pending, Happened

\* What the database, the transaction under way and the structures in memory
\* have to do with each other, in every reachable state: the rows of the
\* pruning window are the journal records of the canonical chain that follow
\* the last pruned number, in the database up to the last canonical block and
\* in the transaction up to the last one noted.
THEOREM StateInvCorrect == Spec => []StateInv
BY InitInv, NextKeeps, PTL DEF Spec

\* All variables have their types, for every tree of blocks and all states: in
\* particular no counter that the code decrements without a check goes below
\* zero.
THEOREM TypeCorrect == Spec => []TypeOK
<1>1. Init => PastTyped
  BY DEF Init, PastTyped
<1>2. PastTyped /\ [Next]_vars => PastTyped'
  BY PastGrows DEF PastTyped, Events
<1>3. StateInv /\ PastTyped => TypeOK
  BY DEF StateInv, Typed, TypeOK, PastTyped
<1> QED BY <1>1, <1>2, <1>3, StateInvCorrect, PTL DEF Spec

\* The index of the pruning window is exact in such a state.
LEMMA ExactIndex == StateInv => DeathIndexExact
<1> SUFFICES ASSUME StateInv, NEW k \in Key, NEW n \in 0 .. note_canonical_number(window)
             PROVE  window.death_index[k] = n <=>
                      \E i \in DOMAIN window.death_rows :
                        k \in window.death_rows[i].deleted /\ window.pending_number + i - 1 = n
  BY DEF DeathIndexExact
<1> DEFINE w == window
           N == NumRows(window)
<1>1. /\ N \in Nat /\ DOMAIN w.death_rows = 1 .. N /\ w.pending_number \in Nat /\ n \in Nat
      /\ w.death_index[k] \in {-1} \cup w.pending_number .. w.pending_number + N - 1
      /\ \A i \in 1 .. N : k \in w.death_rows[i].deleted <=> w.death_index[k] = w.pending_number + i - 1
  <2>1. /\ N \in Nat /\ DOMAIN w.death_rows = 1 .. N /\ w.pending_number \in Nat
    BY InvParts, WindowFields
  <2>2. Exact(w)
    BY InvParts DEF WindowOK
  <2>3. n \in Nat
    BY <2>1 DEF note_canonical_number, NumRows
  <2> QED BY <2>1, <2>2, <2>3 DEF Exact
<1>2. ASSUME w.death_index[k] = n
      PROVE  \E i \in 1 .. N : k \in w.death_rows[i].deleted /\ w.pending_number + i - 1 = n
  <2> DEFINE i == n - w.pending_number + 1
  <2>1. n \in w.pending_number .. w.pending_number + N - 1
    BY <1>1, <1>2
  <2>2. i \in 1 .. N /\ w.pending_number + i - 1 = n
    BY <1>1, <2>1
  <2> HIDE DEF i
  <2> QED BY <1>1, <1>2, <2>2
<1>3. ASSUME NEW i \in 1 .. N, k \in w.death_rows[i].deleted, w.pending_number + i - 1 = n
      PROVE  w.death_index[k] = n
  BY <1>1, <1>3
<1> HIDE DEF w, N
<1> QED BY <1>1, <1>2, <1>3 DEF w

\* The index of the pruning window names the row of every key that is in one,
\* and no other, after any sequence of operations, failures and restarts:
\* `import` never takes a row that does not exist or does not hold the key.
THEOREM DeathIndexExactCorrect == Spec => []DeathIndexExact
BY StateInvCorrect, ExactIndex, PTL

-----------------------------------------------------------------------------
(* Nothing leaks                                                           *)

\* The keys that one of the blocks of rows a to e has deleted and no later one
\* has inserted.
DeadKeys(w, a, e) ==
  {k \in Key : \E i \in a .. e : /\ k \in Deleted(w.death_rows[i].hash)
                                 /\ \A j \in i + 1 .. e : k \notin Inserted(w.death_rows[j].hash)}

StateOf(b) == IF b = NoBlock THEN {} ELSE State[b]

\* The data of d is that of its last canonical block and what rows a to e are
\* to delete.
Accounted(d, w, a, e) == d.data \subseteq StateOf(d.last_hash) \cup DeadKeys(w, a, e)

\* Until an operation fails, all the data that is written is accounted for.
LeakInv ==
  "undone" \notin past =>
    /\ Full(window)
    /\ Accounted(txn, window, window.pending_prunings + 1, NumRows(window))
    /\ phase # "committed" => Accounted(db, window, 1, Settled(window))

\* The dead keys depend on the blocks of the rows alone.
LEMMA DeadKeysShift ==
  ASSUME NEW w, NEW v, NEW a \in Nat, NEW e \in Nat, a <= e,
         \A i \in 1 .. e - a : v.death_rows[i].hash = w.death_rows[a + i].hash
  PROVE  DeadKeys(v, 1, e - a) = DeadKeys(w, a + 1, e)
<1> DEFINE hv(i) == v.death_rows[i].hash
           hw(i) == w.death_rows[i].hash
           n == e - a
<1>0. \A i \in 1 .. n : hv(i) = hw(a + i)
  OBVIOUS
<1>n. n \in Nat
  OBVIOUS
<1>1. DeadKeys(v, 1, e - a) = {k \in Key : \E i \in 1 .. n : /\ k \in Deleted(hv(i))
                                                         /\ \A j \in i + 1 .. n : k \notin Inserted(hv(j))}
  BY DEF DeadKeys
<1>2. DeadKeys(w, a + 1, e) = {k \in Key : \E i \in a + 1 .. e : /\ k \in Deleted(hw(i))
                                                         /\ \A j \in i + 1 .. e : k \notin Inserted(hw(j))}
  BY DEF DeadKeys
<1> HIDE DEF hv, hw
<1>3. ASSUME NEW k \in Key, NEW i \in 1 .. n, k \in Deleted(hv(i)), \A j \in i + 1 .. n : k \notin Inserted(hv(j))
      PROVE  \E x \in a + 1 .. e : k \in Deleted(hw(x)) /\ \A j \in x + 1 .. e : k \notin Inserted(hw(j))
  <2>1. a + i \in a + 1 .. e /\ k \in Deleted(hw(a + i))
    BY <1>0, <1>3
  <2>2. ASSUME NEW j \in (a + i) + 1 .. e PROVE k \notin Inserted(hw(j))
    <3>1. j - a \in i + 1 .. n /\ j - a \in 1 .. n /\ a + (j - a) = j
      OBVIOUS
    <3>2. hv(j - a) = hw(a + (j - a))
      BY <1>0, <3>1
    <3>3. k \notin Inserted(hv(j - a))
      BY <1>3, <3>1
    <3> QED BY <3>1, <3>2, <3>3
  <2> QED BY <2>1, <2>2
<1>4. ASSUME NEW k \in Key, NEW i \in a + 1 .. e, k \in Deleted(hw(i)), \A j \in i + 1 .. e : k \notin Inserted(hw(j))
      PROVE  \E x \in 1 .. n : k \in Deleted(hv(x)) /\ \A j \in x + 1 .. n : k \notin Inserted(hv(j))
  <2>1. i - a \in 1 .. n /\ a + (i - a) = i
    OBVIOUS
  <2>2. k \in Deleted(hv(i - a))
    BY <1>0, <1>4, <2>1
  <2>3. ASSUME NEW j \in (i - a) + 1 .. n PROVE k \notin Inserted(hv(j))
    <3>1. a + j \in i + 1 .. e /\ j \in 1 .. n
      OBVIOUS
    <3>2. hv(j) = hw(a + j)
      BY <1>0, <3>1
    <3>3. k \notin Inserted(hw(a + j))
      BY <1>4, <3>1
    <3> QED BY <3>2, <3>3
  <2> QED BY <2>1, <2>2, <2>3
<1> QED BY <1>1, <1>2, <1>3, <1>4

\* In a full window, a key is dead if and only if it is in a row.
LEMMA FullDead ==
  ASSUME NEW w \in RefWindows, Full(w), NEW k \in Key, NEW i \in 1 .. NumRows(w)
  PROVE  k \in w.death_rows[i].deleted <=>
           /\ k \in Deleted(w.death_rows[i].hash)
           /\ \A j \in i + 1 .. NumRows(w) : k \notin Inserted(w.death_rows[j].hash)
<1> DEFINE I == {Inserted(w.death_rows[j].hash) : j \in i + 1 .. NumRows(w)}
<1>1. w.death_rows[i].deleted = Deleted(w.death_rows[i].hash) \ UNION I
  BY DEF Full
<1>2. k \in UNION I <=> \E j \in i + 1 .. NumRows(w) : k \in Inserted(w.death_rows[j].hash)
  OBVIOUS
<1> HIDE DEF I
<1> QED BY <1>1, <1>2

\* canonicalize_block accounts for what it writes.
LEMMA CanonicalizeAccounts ==
  ASSUME StateInv, NEW b \in Block, canonicalize_block(b), NEW w, NEW n, CanonicalizeStep(b, w, n),
         Full(window), Accounted(txn, window, window.pending_prunings + 1, NumRows(window))
  PROVE  Accounted(txn', window', window'.pending_prunings + 1, NumRows(window'))
<1> DEFINE N == NumRows(window)
           pp == window.pending_prunings
           hw(i) == window.death_rows[i].hash
           hv(i) == window'.death_rows[i].hash
           rv(i) == window'.death_rows[i].deleted
<1>0. N \in Nat /\ pp \in Nat /\ pp <= N /\ n \in Nat /\ pp + n <= N + 1
  <2>1. window \in RefWindows /\ pp <= N
    BY InvParts DEF WindowOK
  <2> QED BY <2>1, WindowFields DEF CanonicalizeStep
<1>1. /\ WindowOK(window') /\ NoteShape(window', window, b, n) /\ Full(window')
      /\ CanonicalizeCommitShape(txn', txn, b, w, n)
      /\ prunable_keys(w, n) = UNION {rv(i) : i \in pp + 1 .. pp + n}
  BY DEF CanonicalizeStep
<1>2. /\ window'.pending_prunings = pp + n /\ NumRows(window') = N + 1 /\ window' \in RefWindows
      /\ hv(N + 1) = b /\ \A i \in 1 .. N : hv(i) = hw(i)
  BY <1>1 DEF NoteShape, WindowOK
<1>3. /\ txn'.data = (txn.data \cup Inserted(b)) \ UNION {rv(i) : i \in pp + 1 .. pp + n}
      /\ txn'.last_hash = b
  BY <1>1 DEF CanonicalizeCommitShape, NotedDb
<1>4. /\ Inserted(b) \in SUBSET Key /\ Deleted(b) \in SUBSET Key /\ State[b] \in SUBSET Key
      /\ Inserted(b) \subseteq State[b]
      /\ b # Genesis => State[Parent[b]] \subseteq State[b] \cup Deleted(b)
  BY ChangesAre
<1>5. txn.data \in SUBSET Key
  BY InvParts, DatabaseFields
<1>6. StateOf(txn.last_hash) \subseteq State[b] \cup Deleted(b)
  <2>1. ParentOf(b) = HeadOf(overlay) /\ txn.last_hash = HeadOf(overlay)
    BY InvParts, FollowsHead DEF canonicalize_block, TxnFollows
  <2>2. CASE b = Genesis
    BY <2>1, <2>2 DEF ParentOf, StateOf
  <2>3. CASE b # Genesis
    <3>1. txn.last_hash = Parent[b] /\ Parent[b] # NoBlock
      BY <2>1, <2>3, BlockAssumption DEF ParentOf
    <3> QED BY <1>4, <2>3, <3>1 DEF StateOf
  <2> QED BY <2>2, <2>3
<1>7. ASSUME NEW k \in Key, NEW i \in 1 .. N + 1, i \in pp + 1 .. N + 1, k \in txn'.data,
             k \in Deleted(hv(i)), \A j \in i + 1 .. N + 1 : k \notin Inserted(hv(j))
      PROVE  k \in DeadKeys(window', pp + n + 1, N + 1)
  <2>1. k \in rv(i)
    <3>1. i \in 1 .. NumRows(window') /\ \A j \in i + 1 .. NumRows(window') : k \notin Inserted(window'.death_rows[j].hash)
      BY <1>2, <1>7
    <3> QED BY <1>1, <1>2, <1>7, <3>1, FullDead
  <2>2. i \notin pp + 1 .. pp + n
    <3> HIDE DEF rv, pp, N
    <3> QED BY <1>3, <1>7, <2>1
  <2>3. i \in pp + n + 1 .. N + 1
    <3> HIDE DEF pp, N
    <3> QED BY <1>0, <1>7, <2>2
  <2> QED BY <1>7, <2>3 DEF DeadKeys
<1>8. ASSUME NEW k \in txn'.data PROVE k \in State[b] \cup DeadKeys(window', pp + n + 1, N + 1)
  <2>1. CASE k \in State[b]
    BY <2>1
  <2>2. CASE k \notin State[b]
    <3>1. k \notin Inserted(b) /\ k \in txn.data /\ k \in Key
      BY <1>3, <1>4, <1>5, <2>2
    <3>2. CASE k \in Deleted(b)
      <4>1. N + 1 \in 1 .. N + 1 /\ N + 1 \in pp + 1 .. N + 1 /\ \A j \in N + 1 + 1 .. N + 1 : FALSE
        BY <1>0
      <4>2. k \in Deleted(hv(N + 1))
        BY <1>2, <3>2
      <4> HIDE DEF hv, N, pp
      <4> QED BY <1>7, <3>1, <4>1, <4>2
    <3>3. CASE k \notin Deleted(b)
      <4>1. k \in DeadKeys(window, pp + 1, N)
        BY <1>6, <2>2, <3>1, <3>3 DEF Accounted
      <4>2. PICK i \in pp + 1 .. N : k \in Deleted(hw(i)) /\ \A j \in i + 1 .. N : k \notin Inserted(hw(j))
        BY <4>1 DEF DeadKeys
      <4> HIDE DEF hv, hw, N, pp
      <4>3. i \in 1 .. N + 1 /\ i \in pp + 1 .. N + 1 /\ i \in 1 .. N
        BY <1>0
      <4>4. k \in Deleted(hv(i))
        BY <1>2, <4>2, <4>3
      <4>5. ASSUME NEW j \in i + 1 .. N + 1 PROVE k \notin Inserted(hv(j))
        <5>1. CASE j = N + 1
          BY <1>2, <3>1, <5>1
        <5>2. CASE j # N + 1
          <6>1. j \in i + 1 .. N /\ j \in 1 .. N
            BY <1>0, <4>3, <5>2
          <6> QED BY <1>2, <4>2, <6>1
        <5> QED BY <5>1, <5>2
      <4> QED BY <1>7, <3>1, <4>3, <4>4, <4>5
    <3> QED BY <3>2, <3>3
  <2> QED BY <2>1, <2>2
<1>9. StateOf(b) = State[b]
  BY BlockAssumption DEF StateOf
<1>10. (pp + n) + 1 = pp + n + 1
  BY <1>0
<1> QED BY <1>2, <1>3, <1>8, <1>9, <1>10 DEF Accounted

\* A window whose first a rows have been taken away, or put off, accounts for
\* the same data.
LEMMA AccountedShift ==
  ASSUME NEW d, NEW w, NEW v, NEW a \in Nat, NEW e \in Nat, a <= e, NEW m, m = e - a,
         \A i \in 1 .. e - a : v.death_rows[i].hash = w.death_rows[a + i].hash,
         Accounted(d, w, a + 1, e)
  PROVE  Accounted(d, v, 1, m)
<1>1. DeadKeys(v, 1, e - a) = DeadKeys(w, a + 1, e)
  BY DeadKeysShift
<1> QED BY <1>1 DEF Accounted

\* What the database of a state accounts for, whatever the phase.
LEMMA DbAccounted ==
  ASSUME StateInv, LeakInv, "undone" \notin past
  PROVE  /\ Accounted(db, window, RestartAfter + 1, RestartUpTo)
         /\ RestartAfter \in Nat /\ RestartUpTo \in Nat /\ RestartAfter <= RestartUpTo
<1>0. /\ NumRows(window) \in Nat /\ window.pending_prunings \in Nat
      /\ window.pending_prunings <= NumRows(window) /\ Settled(window) \in Nat
  BY InvParts, WindowFields DEF WindowOK, Settled
<1>1. CASE phase = "committed"
  <2>1. db = txn
    BY <1>1, InvParts DEF Phased
  <2>2. Accounted(txn, window, window.pending_prunings + 1, NumRows(window))
    BY DEF LeakInv
  <2> QED BY <1>0, <1>1, <2>1, <2>2 DEF RestartAfter, RestartUpTo
<1>2. CASE phase # "committed"
  <2>1. Accounted(db, window, 1, Settled(window)) /\ 0 + 1 = 1 /\ 0 <= Settled(window)
    BY <1>0, <1>2 DEF LeakInv
  <2> QED BY <1>0, <1>2, <2>1 DEF RestartAfter, RestartUpTo
<1> QED BY <1>1, <1>2

\* At first nothing is written.
LEMMA InitLeak ==
  ASSUME Init, StateInv
  PROVE  LeakInv
<1>1. /\ db.data = {} /\ txn.data = {}
  BY DEF Init, EmptyDb
<1>2. NumRows(window) = 0
  <2> DEFINE lp == -1
             h == <<>>
  <2>1. h \in Seq(Block) /\ Len(h) = 0 /\ lp \in Nat \cup {-1}
    BY EmptySeq
  <2>2. Consecutive(h) /\ Records(lp, h) = {}
    BY <2>1 DEF Consecutive, Records
  <2>3. window = NewWindow({}, lp)
    BY DEF Init
  <2> HIDE DEF lp, h
  <2>4. window = NewWindow(Records(lp, h), lp)
    BY <2>2, <2>3
  <2>5. WindowOf(window, lp, h, Len(h))
    BY <2>1, <2>2, <2>4, NewWindowIs
  <2> QED BY <2>1, <2>5 DEF WindowOf
<1>3. Full(window)
  BY <1>2 DEF Full
<1> QED BY <1>1, <1>3 DEF LeakInv, Accounted

\* Every step accounts for what it writes and for what it puts off.
LEMMA NextLeak ==
  ASSUME StateInv, StateInv', LeakInv, [Next]_vars
  PROVE  LeakInv'
<1> SUFFICES ASSUME "undone" \notin past' PROVE LeakInv'
  BY DEF LeakInv
<1>p. "undone" \notin past /\ ~revert_pending
  BY PastGrows, UndoneNoted
<1>0. /\ NumRows(window) \in Nat /\ window.pending_prunings \in Nat
      /\ window.pending_prunings <= NumRows(window) /\ Settled(window) \in Nat
  BY InvParts, WindowFields DEF WindowOK, Settled
<1>i. /\ Full(window)
      /\ Accounted(txn, window, window.pending_prunings + 1, NumRows(window))
      /\ phase # "committed" => Accounted(db, window, 1, Settled(window))
  BY <1>p DEF LeakInv
<1>1. CASE UNCHANGED vars
  BY <1>1, <1>i DEF LeakInv, vars
<1>2. ASSUME NEW b \in Block, canonicalize_block(b) PROVE LeakInv'
  <2>1. PICK w, n : CanonicalizeStep(b, w, n)
    BY <1>2, CanonicalizeStepIs
  <2>2. Full(window') /\ NoteShape(window', window, b, n) /\ CanonShape(overlay', overlay, b) /\ WindowOK(window')
    BY <1>i, <2>1 DEF CanonicalizeStep
  <2>3. Accounted(txn', window', window'.pending_prunings + 1, NumRows(window'))
    BY <1>2, <1>i, <2>1, CanonicalizeAccounts
  <2>4. phase # "committed" /\ db' = db
    BY <1>2 DEF canonicalize_block
  <2>5. Settled(window') = Settled(window) /\ Settled(window) <= NumRows(window)
    <3>1. Settled(window') = Settled(window)
      BY <2>1, <2>2, InvParts, HeadsNoted DEF CanonicalizeStep
    <3>2. window.pending_canonicalizations \in Nat
      BY InvParts, WindowFields
    <3> QED BY <1>0, <3>1, <3>2 DEF Settled
  <2>6. Accounted(db', window', 1, Settled(window'))
    <3> DEFINE e == Settled(window)
    <3>1. e \in Nat /\ 0 <= e /\ e = e - 0 /\ 0 + 1 = 1 /\ 0 \in Nat
      BY <1>0
    <3>2. \A i \in 1 .. e : i \in 1 .. NumRows(window) /\ 0 + i = i
      BY <1>0, <2>5
    <3>3. \A i \in 1 .. e - 0 : window'.death_rows[i].hash = window.death_rows[0 + i].hash
      BY <2>2, <3>1, <3>2 DEF NoteShape
    <3>4. Accounted(db, window, 0 + 1, e)
      BY <1>i, <2>4, <3>1
    <3>5. Settled(window') = e
      BY <2>5
    <3> HIDE DEF e
    <3>6. Accounted(db, window', 1, e)
      BY <3>1, <3>3, <3>4, AccountedShift
    <3> QED BY <2>4, <3>5, <3>6
  <2> QED BY <2>2, <2>3, <2>6 DEF LeakInv
<1>3. ASSUME NEW b \in Block, insert_block(b) PROVE LeakInv'
  <2>1. InsertCommitShape(txn', txn, b)
    BY <1>3, InsertStepIs
  <2>2. UNCHANGED <<window, db>> /\ phase # "committed"
    BY <1>3 DEF insert_block
  <2> QED BY <1>i, <2>1, <2>2 DEF LeakInv, Accounted, InsertCommitShape
<1>4. ASSUME NEW b \in Block, revert_one(b) PROVE LeakInv'
  <2>1. DropDb(db', b) /\ txn' = db' /\ UNCHANGED window /\ db = txn /\ phase # "committed"
    BY <1>4, RevertOneStepIs
  <2> QED BY <1>i, <2>1 DEF LeakInv, Accounted, DropDb
<1>5. ASSUME NEW b \in Block, have_state_at(b) \/ pin(b) \/ unpin(b) PROVE LeakInv'
  <2>1. UNCHANGED <<window, db, txn, phase>>
    BY <1>5, ReadersKeep
  <2> QED BY <1>i, <2>1 DEF LeakInv
<1>6. CASE commit
  BY <1>6, <1>i DEF commit, LeakInv
<1>7. CASE apply_pending
  <2> DEFINE a == window.pending_prunings
             e == NumRows(window)
  <2>1. /\ ShiftShape(window', window, a) /\ Full(window')
        /\ UNCHANGED <<db, txn>> /\ db = txn
    BY <1>7, <1>i, ApplyStepIs
  <2>2. /\ window'.pending_prunings = 0 /\ window'.pending_canonicalizations = 0
        /\ NumRows(window') = e - a
        /\ \A i \in 1 .. e - a : window'.death_rows[i].hash = window.death_rows[a + i].hash
    BY <2>1 DEF ShiftShape
  <2>3. a \in Nat /\ e \in Nat /\ a <= e /\ Accounted(txn, window, a + 1, e)
    BY <1>0, <1>i
  <2> HIDE DEF a, e
  <2>4. Accounted(txn, window', 1, NumRows(window'))
    BY <2>2, <2>3, AccountedShift
  <2>5. window'.pending_prunings + 1 = 1 /\ Settled(window') = NumRows(window')
    BY <2>2, <2>3 DEF Settled
  <2> QED BY <2>1, <2>4, <2>5 DEF LeakInv
<1>9. CASE restart
  <2> DEFINE a == RestartAfter
             e == RestartUpTo
  <2>1. /\ Full(window') /\ txn' = db /\ db' = db
        /\ window'.pending_prunings = 0 /\ window'.pending_canonicalizations = 0
        /\ NumRows(window') = e - a
        /\ \A i \in 1 .. e - a : window'.death_rows[i].hash = window.death_rows[a + i].hash
    BY <1>9, RestartStepIs
  <2>2. Accounted(db, window, a + 1, e) /\ a \in Nat /\ e \in Nat /\ a <= e
    BY <1>p, DbAccounted
  <2> HIDE DEF a, e
  <2>3. Accounted(db, window', 1, NumRows(window'))
    BY <2>1, <2>2, AccountedShift
  <2>4. window'.pending_prunings + 1 = 1 /\ Settled(window') = NumRows(window')
    BY <2>1, <2>2 DEF Settled
  <2> QED BY <2>1, <2>3, <2>4 DEF LeakInv
<1> QED BY <1>p, <1>1, <1>2, <1>3, <1>4, <1>5, <1>6, <1>7, <1>9 DEF Next

\* Between operations, what is accounted for is what NothingLeaks allows.
LEMMA AccountedNothingLeaks ==
  ASSUME StateInv, LeakInv, "undone" \notin past
  PROVE  NothingLeaks
<1> SUFFICES ASSUME phase = "idle", db.last_hash # NoBlock, NEW k \in db.data
             PROVE  k \in State[db.last_hash]
                            \cup UNION {window.death_rows[i].deleted : i \in DOMAIN window.death_rows}
  BY DEF NothingLeaks
<1>1. /\ window \in RefWindows /\ Full(window) /\ DOMAIN window.death_rows = 1 .. NumRows(window)
      /\ NumRows(window) \in Nat
      /\ k \in Key /\ window.pending_canonicalizations = 0
  BY InvParts, WindowFields, DatabaseFields DEF LeakInv, Phased
<1>2. Settled(window) = NumRows(window) /\ phase # "committed"
  BY <1>1 DEF Settled
<1>3. Accounted(db, window, 1, NumRows(window))
  BY <1>2 DEF LeakInv
<1>4. k \in State[db.last_hash] \/ k \in DeadKeys(window, 1, NumRows(window))
  BY <1>3 DEF Accounted, StateOf
<1>5. CASE k \in DeadKeys(window, 1, NumRows(window))
  <2>1. PICK i \in 1 .. NumRows(window) :
          /\ k \in Deleted(window.death_rows[i].hash)
          /\ \A j \in i + 1 .. NumRows(window) : k \notin Inserted(window.death_rows[j].hash)
    BY <1>5 DEF DeadKeys
  <2>2. k \in window.death_rows[i].deleted
    BY <1>1, <2>1, FullDead
  <2> QED BY <1>1, <2>2
<1> QED BY <1>4, <1>5

\* NothingLeaks: until an operation fails, every node of the database is one of
\* the last canonical state or waits in the pruning window, between any two
\* operations and after any crash.
THEOREM NothingLeaksCorrect == Spec => []NothingLeaks
<1>1. Init => StateInv /\ LeakInv
  BY InitInv, InitLeak
<1>2. (StateInv /\ LeakInv) /\ [Next]_vars => (StateInv /\ LeakInv)'
  BY NextKeeps, NextLeak
<1>3. StateInv /\ LeakInv => NothingLeaks
  BY AccountedNothingLeaks DEF NothingLeaks
<1> QED BY <1>1, <1>2, <1>3, PTL DEF Spec

-----------------------------------------------------------------------------
(* Counting references                                                     *)

\* The values v are counted once for each of the blocks H that inserts them.
CountedAs(v, H) ==
  /\ v \in [Key -> Nat]
  /\ \A k \in Key : v[k] = Cardinality({b \in H : k \in Inserted(b)})

\* Sets that have nothing in common.
LEMMA CountUnion ==
  ASSUME NEW S, NEW T, NEW U, IsFiniteSet(S), IsFiniteSet(T), U = S \cup T, S \cap T = {}
  PROVE  Cardinality(U) = Cardinality(S) + Cardinality(T)
<1>1. Cardinality(U) = Cardinality(S) + Cardinality(T) - Cardinality(S \cap T)
  BY FS_Union
<1>2. Cardinality(S \cap T) = 0
  BY FS_EmptySet
<1>3. Cardinality(S) \in Nat /\ Cardinality(T) \in Nat
  BY FS_CardinalityType
<1> QED BY <1>1, <1>2, <1>3

\* Blocks that are not counted yet.
LEMMA CountInserted ==
  ASSUME NEW v, NEW H \in SUBSET Block, NEW B \in SUBSET Block, CountedAs(v, H), H \cap B = {}
  PROVE  CountedAs(insert_values(v, B), H \cup B)
<1> DEFINE W(S, k) == {b \in S : k \in Inserted(b)}
<1>1. ASSUME NEW S \in SUBSET Block, NEW k PROVE IsFiniteSet(W(S, k)) /\ Cardinality(W(S, k)) \in Nat
  <2>1. IsFiniteSet(W(S, k))
    BY BlockAssumption, FS_Subset
  <2> QED BY <2>1, FS_CardinalityType
<1>2. ASSUME NEW k \in Key
      PROVE  Cardinality(W(H \cup B, k)) = Cardinality(W(H, k)) + Cardinality(W(B, k))
  <2>1. W(H \cup B, k) = W(H, k) \cup W(B, k) /\ W(H, k) \cap W(B, k) = {}
    OBVIOUS
  <2>2. IsFiniteSet(W(H, k)) /\ IsFiniteSet(W(B, k)) /\ Cardinality(W(H, k)) \in Nat /\ Cardinality(W(B, k)) \in Nat
    BY <1>1
  <2> HIDE DEF W
  <2> QED BY <2>1, <2>2, CountUnion
<1>3. \A k \in Key : insert_values(v, B)[k] = v[k] + Cardinality(W(B, k))
  BY DEF insert_values
<1>4. \A k \in Key : v[k] = Cardinality(W(H, k))
  BY DEF CountedAs
<1>5. insert_values(v, B) \in [Key -> Nat]
  BY ValuesType DEF CountedAs
<1>6. \A k \in Key : insert_values(v, B)[k] = Cardinality(W(H \cup B, k))
  BY <1>2, <1>3, <1>4
<1> QED BY <1>5, <1>6 DEF CountedAs

\* Blocks that are counted.
LEMMA CountDiscarded ==
  ASSUME NEW v, NEW H \in SUBSET Block, NEW B \in SUBSET H, CountedAs(v, H)
  PROVE  CountedAs(discard_values(v, B), H \ B)
<1> DEFINE W(S, k) == {b \in S : k \in Inserted(b)}
<1>0. B \in SUBSET Block /\ H \ B \in SUBSET Block
  OBVIOUS
<1>1. ASSUME NEW S \in SUBSET Block, NEW k PROVE IsFiniteSet(W(S, k)) /\ Cardinality(W(S, k)) \in Nat
  <2>1. IsFiniteSet(W(S, k))
    BY BlockAssumption, FS_Subset
  <2> QED BY <2>1, FS_CardinalityType
<1>2. ASSUME NEW k \in Key
      PROVE  Cardinality(W(H, k)) = Cardinality(W(H \ B, k)) + Cardinality(W(B, k))
  <2>1. W(H, k) = W(H \ B, k) \cup W(B, k) /\ W(H \ B, k) \cap W(B, k) = {}
    OBVIOUS
  <2>2. /\ IsFiniteSet(W(H \ B, k)) /\ IsFiniteSet(W(B, k))
    BY <1>0, <1>1
  <2> HIDE DEF W
  <2> QED BY <2>1, <2>2, CountUnion
<1>3. \A k \in Key : discard_values(v, B)[k] = IF v[k] >= Cardinality(W(B, k)) THEN v[k] - Cardinality(W(B, k)) ELSE 0
  BY DEF discard_values
<1>4. \A k \in Key : v[k] = Cardinality(W(H, k))
  BY DEF CountedAs
<1>5. discard_values(v, B) \in [Key -> Nat]
  BY <1>0, ValuesType DEF CountedAs
<1>6. ASSUME NEW k \in Key PROVE discard_values(v, B)[k] = Cardinality(W(H \ B, k))
  <2>1. Cardinality(W(H \ B, k)) \in Nat /\ Cardinality(W(B, k)) \in Nat
    BY <1>0, <1>1
  <2> HIDE DEF W
  <2> QED BY <1>2, <1>3, <1>4, <2>1
<1> QED BY <1>5, <1>6 DEF CountedAs

\* The blocks in memory.
Held(n) == InLevels(n) \cup Retained(n)

\* The block overlays in a sequence of levels.
AllEntries(levels) == UNION {Entries(levels[i]) : i \in 1 .. Len(levels)}

\* The hashes of levels are those of their entries.
LEMMA HashesOfEntries ==
  ASSUME NEW levels \in LevelSeqs
  PROVE  /\ HashesIn(levels) = {o.hash : o \in AllEntries(levels)}
         /\ \A c : c \in HashesIn(levels) <=> \E i \in 1 .. Len(levels) : c \in Hashes(levels[i])
         /\ \A i \in 1 .. Len(levels) : Hashes(levels[i]) = {o.hash : o \in Entries(levels[i])}
<1>1. DOMAIN levels = 1 .. Len(levels) /\ \A i \in DOMAIN levels : levels[i] \in Seq(BlockOverlay)
  BY LevelsAre
<1>2. \A i \in 1 .. Len(levels) : Hashes(levels[i]) = {o.hash : o \in Entries(levels[i])}
  BY <1>1, LevelIs
<1>3. \A c : c \in HashesIn(levels) <=> \E i \in 1 .. Len(levels) : c \in Hashes(levels[i])
  BY <1>1 DEF HashesIn
<1>4. \A o : o \in AllEntries(levels) <=> \E i \in 1 .. Len(levels) : o \in Entries(levels[i])
  BY DEF AllEntries
<1>5. HashesIn(levels) = {o.hash : o \in AllEntries(levels)}
  <2>1. ASSUME NEW c \in HashesIn(levels) PROVE c \in {o.hash : o \in AllEntries(levels)}
    <3>1. PICK i \in 1 .. Len(levels) : c \in Hashes(levels[i])
      BY <1>3
    <3>2. PICK o \in Entries(levels[i]) : c = o.hash
      BY <1>2, <3>1
    <3>3. o \in AllEntries(levels)
      BY <1>4
    <3> QED BY <3>2, <3>3
  <2>2. ASSUME NEW o \in AllEntries(levels) PROVE o.hash \in HashesIn(levels)
    <3>1. PICK i \in 1 .. Len(levels) : o \in Entries(levels[i])
      BY <1>4
    <3>2. o.hash \in Hashes(levels[i])
      BY <1>2, <3>1
    <3> QED BY <1>3, <3>2
  <2> QED BY <2>1, <2>2
<1> QED BY <1>2, <1>3, <1>5

\* Held blocks are blocks.
LEMMA HeldType ==
  ASSUME NEW n \in Overlays
  PROVE  /\ InLevels(n) = HashesIn(n.levels) /\ InLevels(n) \in SUBSET Block
         /\ Retained(n) \in SUBSET Block /\ Held(n) \in SUBSET Block
<1>1. InLevels(n) = HashesIn(n.levels) /\ HashesIn(n.levels) \in SUBSET Block
  BY OverlayFields, LevelsAre
<1>2. Retained(n) \in SUBSET Block
  BY DEF Retained
<1> QED BY <1>1, <1>2 DEF Held

-----------------------------------------------------------------------------
(* The tree of blocks in memory                                            *)

\* The blocks of level i have number m + i.
Numbered(levels, m) ==
  \A i \in 1 .. Len(levels) : \A c \in Hashes(levels[i]) : Number(c) = m + i

\* The blocks of p that are still to be canonicalized after i turns.
Links(levels, p, i) ==
  /\ \A j \in i + 1 .. Len(p) : p[j] \in Hashes(levels[j - i])
  /\ \A j \in i + 2 .. Len(p) : ParentOf(p[j]) = p[j - 1]

\* A block is in one level.
LEMMA OneLevel ==
  ASSUME NEW levels \in LevelSeqs, NEW m \in Int, Numbered(levels, m), NEW i \in 1 .. Len(levels),
         NEW j \in 1 .. Len(levels), NEW c, c \in Hashes(levels[i]), c \in Hashes(levels[j])
  PROVE  i = j
<1>1. Number(c) = m + i /\ Number(c) = m + j
  BY DEF Numbered
<1>2. i \in Int /\ j \in Int
  BY LevelsAre
<1> QED BY <1>1, <1>2
\* The subtrees that are discarded, level by level.
DiscardedBy(D, below, levels, b) ==
  /\ Descend(below, levels, Hashes(levels[1]) \ {b})
  /\ D = {b} \cup UNION {below[j] : j \in 1 .. Len(levels)}
  /\ D \subseteq {b} \cup HashesIn(levels) /\ D \in SUBSET Block
  /\ Hashes(levels[1]) \subseteq D
  /\ \A j \in 1 .. Len(levels) : below[j] \subseteq Hashes(levels[j])

\* Canonicalizing b discards such subtrees.
LEMMA DiscardsBelow ==
  ASSUME NEW levels \in LevelSeqs, levels # <<>>, NEW b \in Block
  PROVE  \E below : DiscardedBy(Discarded(levels, 1, b), below, levels, b)
<1>1. PICK below : /\ Descend(below, levels, Hashes(levels[1]) \ {b})
                   /\ Discarded(levels, 1, b) = {b} \cup UNION {below[j] : j \in 1 .. Len(levels)}
                   /\ Discarded(levels, 1, b) \in SUBSET Block
                   /\ Hashes(levels[1]) \subseteq Discarded(levels, 1, b)
                   /\ Discarded(levels, 1, b) \subseteq {b} \cup HashesIn(levels)
  BY DiscardedAre
<1>2. ASSUME NEW j \in 1 .. Len(levels) PROVE below[j] \subseteq Hashes(levels[j])
  BY <1>1 DEF Descend
<1> QED BY <1>1, <1>2 DEF DiscardedBy

\* Which blocks of a level are discarded.
LEMMA DiscardedOfLevel ==
  ASSUME NEW levels \in LevelSeqs, NEW q \in Int, Numbered(levels, q), NEW b, b \in Hashes(levels[1]),
         NEW D, NEW below, DiscardedBy(D, below, levels, b), NEW x \in 1 .. Len(levels),
         NEW c, c \in Hashes(levels[x]), 1 \in 1 .. Len(levels)
  PROVE  c \in D <=> (x = 1 /\ c = b) \/ c \in below[x]
<1>1. ASSUME c = b PROVE x = 1
  BY <1>1, OneLevel
<1>2. ASSUME NEW j \in 1 .. Len(levels), c \in below[j] PROVE j = x
  <2>1. c \in Hashes(levels[j])
    BY <1>2 DEF DiscardedBy
  <2> QED BY <2>1, OneLevel
<1>3. c \in D <=> c = b \/ \E j \in 1 .. Len(levels) : c \in below[j]
  BY DEF DiscardedBy
<1> QED BY <1>1, <1>2, <1>3

\* One turn of apply_canonicalizations, as the tree sees it.
LEMMA TurnTree ==
  ASSUME NEW n \in Overlays, NEW m \in Overlays, NEW b \in Block, ApplyShape(m, n, b), n.levels # <<>>,
         NEW q \in Int, Numbered(n.levels, q), b \in Hashes(n.levels[1])
  PROVE  /\ Numbered(m.levels, q + 1)
         /\ AllEntries(m.levels) \subseteq AllEntries(n.levels)
         /\ InLevels(m) = InLevels(n) \ Discarded(n.levels, 1, b)
         /\ Discarded(n.levels, 1, b) \subseteq InLevels(n)
<1> DEFINE N == Len(n.levels)
           D == Discarded(n.levels, 1, b)
<1>0. /\ n.levels \in LevelSeqs /\ m.levels \in LevelSeqs /\ N \in Nat /\ N >= 1
      /\ InLevels(n) = HashesIn(n.levels) /\ InLevels(m) = HashesIn(m.levels)
  <2>1. n.levels \in LevelSeqs /\ m.levels \in LevelSeqs /\ N \in Nat
    BY OverlayFields, LevelsAre
  <2>2. N # 0
    BY <2>1, EmptySeq DEF LevelSeqs
  <2> QED BY <2>1, <2>2, HeldType
<1>1. PICK below : DiscardedBy(D, below, n.levels, b)
  BY <1>0, DiscardsBelow
<1>2. /\ Len(m.levels) = N - 1
      /\ \A i \in 1 .. N - 1 : Entries(m.levels[i]) = {o \in Entries(n.levels[i + 1]) : o.hash \notin D}
  BY DEF ApplyShape
<1> HIDE DEF D
<1>3. ASSUME NEW i \in 1 .. N - 1 PROVE Hashes(m.levels[i]) = Hashes(n.levels[i + 1]) \ D
  <2>1. Hashes(m.levels[i]) = {o.hash : o \in Entries(m.levels[i])}
    BY <1>0, <1>2, HashesOfEntries
  <2>2. i + 1 \in 1 .. N
    BY <1>0
  <2>3. Hashes(n.levels[i + 1]) = {o.hash : o \in Entries(n.levels[i + 1])}
    BY <1>0, <2>2, HashesOfEntries
  <2> QED BY <1>2, <2>1, <2>3
<1>4. Numbered(m.levels, q + 1)
  <2> SUFFICES ASSUME NEW i \in 1 .. N - 1, NEW c \in Hashes(m.levels[i]) PROVE Number(c) = q + 1 + i
    BY <1>2 DEF Numbered
  <2>1. i + 1 \in 1 .. N
    BY <1>0
  <2>3. c \in Hashes(n.levels[i + 1])
    BY <1>3
  <2>2. Number(c) = q + (i + 1)
    BY <2>1, <2>3 DEF Numbered
  <2> QED BY <2>2
<1>6. AllEntries(m.levels) \subseteq AllEntries(n.levels)
  <2>1. ASSUME NEW i \in 1 .. N - 1, NEW o \in Entries(m.levels[i]) PROVE o \in AllEntries(n.levels)
    <3>1. i + 1 \in 1 .. N
      BY <1>0
    <3>2. o \in Entries(n.levels[i + 1])
      BY <1>2
    <3> QED BY <3>1, <3>2 DEF AllEntries
  <2> QED BY <1>2, <2>1 DEF AllEntries
<1>7. InLevels(m) = InLevels(n) \ D
  <2>1. ASSUME NEW c \in InLevels(m) PROVE c \in InLevels(n) \ D
    <3>1. PICK i \in 1 .. N - 1 : c \in Hashes(m.levels[i])
      BY <1>0, <1>2, HashesOfEntries
    <3>2. i + 1 \in 1 .. N /\ c \in Hashes(n.levels[i + 1]) /\ c \notin D
      BY <1>0, <1>3, <3>1
    <3> QED BY <1>0, <3>2, HashesOfEntries
  <2>2. ASSUME NEW c \in InLevels(n), c \notin D PROVE c \in InLevels(m)
    <3>1. PICK i \in 1 .. N : c \in Hashes(n.levels[i])
      BY <1>0, HashesOfEntries
    <3>2. i # 1
      BY <1>1, <2>2, <3>1 DEF DiscardedBy
    <3>3. i - 1 \in 1 .. N - 1 /\ (i - 1) + 1 = i
      BY <1>0, <3>2
    <3>4. c \in Hashes(m.levels[i - 1])
      BY <1>3, <2>2, <3>1, <3>3
    <3> QED BY <1>0, <1>2, <3>3, <3>4, HashesOfEntries
  <2> QED BY <2>1, <2>2
<1>8. D \subseteq InLevels(n)
  <2>1. 1 \in 1 .. N /\ b \in InLevels(n)
    BY <1>0, HashesOfEntries
  <2> QED BY <1>0, <1>1, <2>1 DEF DiscardedBy
<1> QED BY <1>4, <1>6, <1>7, <1>8 DEF D

\* One turn, as the counters see it.
LEMMA TurnCounts ==
  ASSUME NEW n \in Overlays, NEW m \in Overlays, NEW b, ApplyShape(m, n, b),
         InLevels(m) = InLevels(n) \ Discarded(n.levels, 1, b),
         Discarded(n.levels, 1, b) \subseteq InLevels(n),
         InLevels(n) \cap Retained(n) = {}, CountedAs(n.values, Held(n))
  PROVE  /\ InLevels(m) \cap Retained(m) = {} /\ CountedAs(m.values, Held(m))
         /\ Held(m) \subseteq Held(n)
<1> DEFINE D == Discarded(n.levels, 1, b)
           K == Kept(n, b)
<1>1. K \subseteq D
  BY DEF Kept
<1>2. /\ m.values = discard_values(n.values, D \ K) /\ Retained(m) = Retained(n) \cup K
      /\ InLevels(m) = InLevels(n) \ D /\ D \subseteq InLevels(n)
  BY DEF ApplyShape
<1> HIDE DEF D, K
<1>3. Held(m) = Held(n) \ (D \ K) /\ D \ K \in SUBSET Held(n)
  BY <1>1, <1>2 DEF Held
<1>4. CountedAs(discard_values(n.values, D \ K), Held(n) \ (D \ K))
  BY <1>3, HeldType, CountDiscarded
<1> QED BY <1>1, <1>2, <1>3, <1>4

\* One turn, as the blocks that are to be canonicalized see it.
LEMMA TurnLinks ==
  ASSUME NEW n \in Overlays, NEW m \in Overlays, NEW p \in Seq(Block), NEW i \in 0 .. Len(p) - 1,
         ApplyShape(m, n, p[i + 1]), n.levels # <<>>, NEW q \in Int, Numbered(n.levels, q),
         Links(n.levels, p, i), Len(p) - i <= Len(n.levels)
  PROVE  Links(m.levels, p, i + 1)
<1> DEFINE N == Len(n.levels)
           L == Len(p)
           b == p[i + 1]
           D == Discarded(n.levels, 1, b)
<1>0. /\ n.levels \in LevelSeqs /\ m.levels \in LevelSeqs /\ N \in Nat /\ L \in Nat /\ i \in Nat
      /\ i + 1 \in 1 .. L /\ b \in Block /\ N >= 1 /\ 1 \in 1 .. N
  <2>1. n.levels \in LevelSeqs /\ m.levels \in LevelSeqs /\ N \in Nat /\ L \in Nat
    BY OverlayFields, LevelsAre, LenProperties
  <2>2. i \in Nat /\ i + 1 \in 1 .. L
    BY <2>1
  <2>3. N >= 1
    BY <2>1
  <2>4. b \in Block
    BY <2>2, ElementOfSeq
  <2> QED BY <2>1, <2>2, <2>3, <2>4
<1>1. PICK below : DiscardedBy(D, below, n.levels, b)
  BY <1>0, DiscardsBelow
<1>2. /\ Len(m.levels) = N - 1
      /\ \A x \in 1 .. N - 1 : Entries(m.levels[x]) = {o \in Entries(n.levels[x + 1]) : o.hash \notin D}
  BY DEF ApplyShape
<1> HIDE DEF D
<1>3. ASSUME NEW j \in i + 1 .. L PROVE p[j] \in Hashes(n.levels[j - i]) /\ j - i \in 1 .. N
  <2>1. j - i \in 1 .. N
    BY <1>0
  <2> QED BY <2>1 DEF Links
<1>4. b \in Hashes(n.levels[1])
  <2>1. (i + 1) - i = 1 /\ i + 1 \in i + 1 .. L
    BY <1>0
  <2> QED BY <1>3, <2>1
<1>5. \A j \in i + 1 .. L : p[j] \notin below[j - i]
  <2> DEFINE S == {j \in i + 1 .. L : p[j] \notin below[j - i]}
  <2>1. i + 1 \in S
    <3>1. below[1] = Hashes(n.levels[1]) \ {b}
      BY <1>0, <1>1 DEF DiscardedBy, Descend
    <3>2. (i + 1) - i = 1 /\ i + 1 \in i + 1 .. L
      BY <1>0
    <3> QED BY <3>1, <3>2
  <2>2. ASSUME NEW j \in i + 1 .. L - 1, j \in S PROVE j + 1 \in S
    <3>1. /\ j + 1 \in i + 1 .. L /\ j + 1 \in i + 2 .. L /\ (j + 1) - i \in 1 .. N /\ (j + 1) - i # 1
          /\ ((j + 1) - i) - 1 = j - i /\ (j + 1) - 1 = j
      <4>1. N \in Nat /\ L \in Nat /\ i \in Nat /\ j \in i + 1 .. L - 1 /\ L - i <= N
        BY <1>0
      <4> HIDE DEF N, L, S, b
      <4> QED BY <4>1
    <3>2. below[(j + 1) - i] = {c \in Hashes(n.levels[(j + 1) - i]) : ParentOf(c) \in below[j - i]}
      BY <1>1, <3>1 DEF DiscardedBy, Descend
    <3>3. ParentOf(p[j + 1]) = p[j]
      BY <3>1 DEF Links
    <3>4. p[j] \notin below[j - i]
      BY <2>2
    <3> QED BY <3>1, <3>2, <3>3, <3>4
  <2> HIDE DEF S
  <2>3. i + 1 \in Nat
    BY <1>0
  <2>4. \A j \in i + 1 .. L : j \in S
    BY <1>0, <2>1, <2>2, <2>3, UpTo
  <2> QED BY <2>4 DEF S
<1>6. ASSUME NEW j \in (i + 1) + 1 .. L PROVE p[j] \in Hashes(m.levels[j - (i + 1)])
  <2>1. /\ j \in i + 1 .. L /\ j - i \in 1 .. N /\ j - i # 1 /\ j - (i + 1) \in 1 .. N - 1
        /\ (j - (i + 1)) + 1 = j - i
    BY <1>0
  <2>2. p[j] \in Hashes(n.levels[j - i]) /\ p[j] \notin below[j - i]
    BY <1>3, <1>5, <2>1
  <2>3. p[j] \notin D
    <3> DEFINE x == j - i
               c == p[j]
    <3>1. x \in 1 .. Len(n.levels) /\ x # 1 /\ c \in Hashes(n.levels[x]) /\ c \notin below[x]
      BY <2>1, <2>2
    <3> HIDE DEF x, c
    <3>2. c \in D <=> (x = 1 /\ c = b) \/ c \in below[x]
      <4>1. 1 \in 1 .. Len(n.levels) /\ n.levels \in LevelSeqs
        BY <1>0
      <4> HIDE DEF b
      <4> QED BY <1>1, <1>4, <3>1, <4>1, DiscardedOfLevel
    <3>3. c \notin D
      BY <3>1, <3>2
    <3> QED BY <3>3 DEF c
  <2> DEFINE y == j - (i + 1)
  <2>4. Hashes(n.levels[y + 1]) = {o.hash : o \in Entries(n.levels[y + 1])} /\ y + 1 \in 1 .. N
    BY <1>0, <2>1, HashesOfEntries
  <2>5. Hashes(m.levels[y]) = {o.hash : o \in Entries(m.levels[y])}
    BY <1>0, <1>2, <2>1, HashesOfEntries
  <2>6. Entries(m.levels[y]) = {o \in Entries(n.levels[y + 1]) : o.hash \notin D}
    BY <1>2, <2>1
  <2>7. p[j] \in Hashes(n.levels[y + 1])
    BY <2>1, <2>2
  <2> HIDE DEF y
  <2>8. p[j] \in Hashes(m.levels[y])
    BY <2>3, <2>4, <2>5, <2>6, <2>7
  <2> QED BY <2>8 DEF y
<1>7. ASSUME NEW j \in (i + 1) + 2 .. L PROVE ParentOf(p[j]) = p[j - 1]
  <2>1. j \in i + 2 .. L
    BY <1>0
  <2> QED BY <2>1 DEF Links
<1> QED BY <1>6, <1>7 DEF Links

\* After i turns everything is as it should be.
TurnOK(f, n, p, i) ==
  /\ Numbered(f[i].levels, n.last_number + i)
  /\ Links(f[i].levels, p, i)
  /\ AllEntries(f[i].levels) \subseteq AllEntries(n.levels)
  /\ InLevels(f[i]) \cap Retained(f[i]) = {}
  /\ CountedAs(f[i].values, Held(f[i]))
  /\ Held(f[i]) \subseteq Held(n)

\* All turns of apply_canonicalizations.
LEMMA TurnsKeep ==
  ASSUME NEW n \in Overlays, NEW p \in Seq(Block), NEW f, Turns(f, n, p), Len(p) <= Len(n.levels),
         Numbered(n.levels, n.last_number), Links(n.levels, p, 0),
         InLevels(n) \cap Retained(n) = {}, CountedAs(n.values, Held(n))
  PROVE  \A i \in 0 .. Len(p) : TurnOK(f, n, p, i)
<1> DEFINE L == Len(p)
           S == {i \in 0 .. L : TurnOK(f, n, p, i)}
<1>0. L \in Nat /\ n.last_number \in Int /\ n.levels \in LevelSeqs /\ Len(n.levels) \in Nat
  BY LenProperties, OverlayFields, LevelsAre
<1>1. 0 \in S
  <2>1. f[0] = n /\ n.last_number + 0 = n.last_number /\ 0 \in 0 .. L
    BY <1>0 DEF Turns
  <2> QED BY <2>1 DEF TurnOK
<1>2. ASSUME NEW i \in 0 .. L - 1, i \in S PROVE i + 1 \in S
  <2> DEFINE x == f[i]
             y == f[i + 1]
             b == p[i + 1]
             q == n.last_number + i
  <2>1. /\ i + 1 \in 1 .. L /\ i \in 0 .. L /\ i + 1 \in 0 .. L /\ (i + 1) - 1 = i /\ i \in Nat
        /\ q \in Int /\ q + 1 = n.last_number + (i + 1)
    BY <1>0
  <2>2. /\ x \in Overlays /\ y \in Overlays /\ ApplyShape(y, x, b) /\ b \in Block
        /\ Len(x.levels) = Len(n.levels) - i
    BY <2>1, ElementOfSeq DEF Turns
  <2>3. TurnOK(f, n, p, i)
    BY <1>2
  <2>4. /\ Numbered(x.levels, q) /\ Links(x.levels, p, i)
        /\ AllEntries(x.levels) \subseteq AllEntries(n.levels)
        /\ InLevels(x) \cap Retained(x) = {} /\ CountedAs(x.values, Held(x)) /\ Held(x) \subseteq Held(n)
    BY <2>3 DEF TurnOK
  <2>5. L - i <= Len(x.levels) /\ x.levels # <<>>
    <3>1. Len(x.levels) >= L - i /\ Len(x.levels) # 0
      BY <1>0, <2>1, <2>2
    <3>2. Len(<<>>) = 0
      BY EmptySeq
    <3> QED BY <3>1, <3>2, <1>0, <2>1, <2>2
  <2>6. b \in Hashes(x.levels[1])
    <3>1. i + 1 \in i + 1 .. L /\ (i + 1) - i = 1
      BY <1>0, <2>1
    <3> QED BY <2>4, <3>1 DEF Links
  <2>7. Links(y.levels, p, i + 1)
    <3> HIDE DEF x, y, q
    <3> QED BY <2>1, <2>2, <2>4, <2>5, TurnLinks
  <2> HIDE DEF x, y, b, q
  <2>8. /\ Numbered(y.levels, q + 1)
        /\ AllEntries(y.levels) \subseteq AllEntries(x.levels)
        /\ InLevels(y) = InLevels(x) \ Discarded(x.levels, 1, b)
        /\ Discarded(x.levels, 1, b) \subseteq InLevels(x)
    BY <2>1, <2>2, <2>4, <2>5, <2>6, TurnTree
  <2>9. InLevels(y) \cap Retained(y) = {} /\ CountedAs(y.values, Held(y)) /\ Held(y) \subseteq Held(x)
    BY <2>2, <2>4, <2>8, TurnCounts
  <2>10. TurnOK(f, n, p, i + 1)
    <3>1. Numbered(y.levels, n.last_number + (i + 1))
      BY <2>1, <2>8
    <3>2. /\ AllEntries(y.levels) \subseteq AllEntries(n.levels) /\ Held(y) \subseteq Held(n)
      BY <2>4, <2>8, <2>9
    <3> QED BY <2>7, <2>9, <3>1, <3>2 DEF TurnOK, y, b
  <2> QED BY <2>1, <2>10
<1> HIDE DEF S
<1>3. 0 \in Nat /\ \A i \in 0 .. L - 1 : i \in S => i + 1 \in S
  BY <1>2
<1>4. \A i \in 0 .. L : i \in S
  BY <1>0, <1>1, <1>3, UpTo
<1> QED BY <1>4 DEF S

-----------------------------------------------------------------------------
(* The tree in the database                                                *)

\* The records of a journal name blocks of the database by their number, each
\* block once.
JournalNumbered(d) ==
  /\ \A r \in d.journal : r[1] = Number(r[3]) /\ r[3] \in d.headers
  /\ \A r, s \in d.journal : r[3] = s[3] => r[2] = s[2]

\* The index of a block in memory is the one in its record.
Matches(levels, d) ==
  \A o \in AllEntries(levels) : \A r \in d.journal : r[3] = o.hash => r[2] = o.index

\* The block that is being inserted occurs once, at the end of its level.
PendingAlone(n) ==
  n.pending_insertions # <<>> =>
    LET b == n.pending_insertions[1]
    IN  \A j \in 1 .. Len(n.levels) : \A x \in DOMAIN n.levels[j] :
          n.levels[j][x].hash = b => x = Len(n.levels[j])

TreeInv ==
  /\ Numbered(overlay.levels, overlay.last_number)
  /\ overlay.last_hash # NoBlock => Number(overlay.last_hash) = overlay.last_number
  /\ Links(overlay.levels, overlay.pending_canonicalizations, 0)
  /\ InLevels(overlay) \cap Retained(overlay) = {}
  /\ CountedAs(overlay.values, Held(overlay))
  /\ Held(overlay) \subseteq txn.headers
  /\ phase # "committed" => Held(overlay) \ ToSet(overlay.pending_insertions) \subseteq db.headers
  /\ db.headers \subseteq txn.headers
  /\ JournalNumbered(db) /\ JournalNumbered(txn)
  /\ Matches(overlay.levels, db) /\ Matches(overlay.levels, txn)
  /\ PendingAlone(overlay)

\* The tree stays in order as long as revert_insertions meets the levels it expects.
TreeKept == "disorder" \notin past => TreeInv

\* Fewer records, and fewer blocks in memory.
LEMMA FewerRecords ==
  ASSUME NEW d, NEW e, e.journal \subseteq d.journal
  PROVE  /\ JournalNumbered(d) /\ d.headers \subseteq e.headers => JournalNumbered(e)
         /\ \A l, m : Matches(l, d) /\ AllEntries(m) \subseteq AllEntries(l) => Matches(m, e)
<1>1. ASSUME JournalNumbered(d), d.headers \subseteq e.headers PROVE JournalNumbered(e)
  BY <1>1 DEF JournalNumbered
<1>2. ASSUME NEW l, NEW m, Matches(l, d), AllEntries(m) \subseteq AllEntries(l) PROVE Matches(m, e)
  BY <1>2 DEF Matches
<1> QED BY <1>1, <1>2

\* Where nothing is pending there is nothing to say about it.
LEMMA NothingPending ==
  ASSUME NEW n
  PROVE  /\ n.pending_canonicalizations = <<>> => Links(n.levels, n.pending_canonicalizations, 0)
         /\ n.pending_insertions = <<>> => PendingAlone(n) /\ ToSet(n.pending_insertions) = {}
<1>1. Len(<<>>) = 0 /\ DOMAIN <<>> = {}
  BY EmptySeq
<1>2. n.pending_canonicalizations = <<>> => Links(n.levels, n.pending_canonicalizations, 0)
  BY <1>1 DEF Links
<1>3. n.pending_insertions = <<>> => PendingAlone(n) /\ ToSet(n.pending_insertions) = {}
  BY <1>1 DEF PendingAlone, ToSet
<1> QED BY <1>2, <1>3

\* The tree that a start reads from the journal.
LEMMA StartTree ==
  ASSUME NEW d, JournalNumbered(d), NEW h, NEW lp \in Nat \cup {-1}, NEW m, StartShape(m, d.journal, h, lp)
  PROVE  /\ Numbered(m.levels, lp) /\ Held(m) \subseteq d.headers /\ InLevels(m) \cap Retained(m) = {}
         /\ CountedAs(m.values, Held(m)) /\ Matches(m.levels, d)
         /\ Links(m.levels, m.pending_canonicalizations, 0)
         /\ PendingAlone(m) /\ ToSet(m.pending_insertions) = {}
<1>0. /\ m \in Overlays /\ m.levels \in LevelSeqs /\ InLevels(m) = HashesIn(m.levels) /\ Retained(m) = {}
      /\ InLevels(m) \in SUBSET Block /\ Held(m) = InLevels(m)
      /\ m.pending_canonicalizations = <<>> /\ m.pending_insertions = <<>>
      /\ m.values = insert_values([k \in Key |-> 0], HashesIn(m.levels))
  BY OverlayFields, HeldType DEF StartShape, Held
<1>1. ASSUME NEW i \in 1 .. Len(m.levels), NEW o \in Entries(m.levels[i])
      PROVE  \E r \in d.journal : r[1] = lp + i /\ r[2] = o.index /\ r[3] = o.hash
  <2>1. Recorded(m.levels[i], d.journal, lp + i)
    BY DEF StartShape
  <2>2. PICK x \in DOMAIN m.levels[i] : o = m.levels[i][x]
    BY DEF Entries
  <2> QED BY <2>1, <2>2 DEF Recorded
<1>2. ASSUME NEW i \in 1 .. Len(m.levels), NEW c \in Hashes(m.levels[i])
      PROVE  Number(c) = lp + i /\ c \in d.headers
  <2>0. Hashes(m.levels[i]) = {o.hash : o \in Entries(m.levels[i])}
    BY <1>0, HashesOfEntries
  <2>1. PICK o \in Entries(m.levels[i]) : c = o.hash
    BY <2>0
  <2>2. PICK r \in d.journal : r[1] = lp + i /\ r[2] = o.index /\ r[3] = o.hash
    BY <1>1
  <2> QED BY <2>1, <2>2 DEF JournalNumbered
<1>3. Numbered(m.levels, lp)
  BY <1>2 DEF Numbered
<1>4. Held(m) \subseteq d.headers
  <2> SUFFICES ASSUME NEW c \in InLevels(m) PROVE c \in d.headers
    BY <1>0
  <2>1. PICK i \in 1 .. Len(m.levels) : c \in Hashes(m.levels[i])
    BY <1>0, HashesOfEntries
  <2> QED BY <1>2, <2>1
<1>5. Matches(m.levels, d)
  <2> SUFFICES ASSUME NEW o \in AllEntries(m.levels), NEW r \in d.journal, r[3] = o.hash PROVE r[2] = o.index
    BY DEF Matches
  <2>1. PICK i \in 1 .. Len(m.levels) : o \in Entries(m.levels[i])
    BY DEF AllEntries
  <2>2. PICK s \in d.journal : s[1] = lp + i /\ s[2] = o.index /\ s[3] = o.hash
    BY <1>1, <2>1
  <2> QED BY <2>2 DEF JournalNumbered
<1>6. CountedAs(m.values, Held(m))
  <2> DEFINE z == [k \in Key |-> 0]
             H == Held(m)
  <2>1. CountedAs(z, {})
    <3>1. \A k \in Key : {b \in {} : k \in Inserted(b)} = {}
      OBVIOUS
    <3>2. Cardinality({}) = 0
      BY FS_EmptySet
    <3> QED BY <3>1, <3>2 DEF CountedAs
  <2>2. H \in SUBSET Block /\ {} \in SUBSET Block /\ {} \cap H = {} /\ {} \cup H = H
    BY <1>0
  <2>3. m.values = insert_values(z, H)
    BY <1>0
  <2> HIDE DEF z, H
  <2>4. CountedAs(insert_values(z, H), {} \cup H)
    BY <2>1, <2>2, CountInserted
  <2> QED BY <2>2, <2>3, <2>4 DEF H
<1>7. /\ Links(m.levels, m.pending_canonicalizations, 0)
      /\ PendingAlone(m) /\ ToSet(m.pending_insertions) = {}
  BY <1>0, NothingPending
<1> QED BY <1>0, <1>3, <1>4, <1>5, <1>6, <1>7

\* The tree at first.
LEMMA InitTree ==
  ASSUME Init
  PROVE  TreeInv
<1>1. db = txn /\ db.journal = {} /\ db.headers = {}
  BY DEF Init, EmptyDb
<1>2. JournalNumbered(db)
  BY <1>1 DEF JournalNumbered
<1> DEFINE lp == -1
<1>3. {} \in Journals /\ NoBlock \in Block \cup {NoBlock} /\ lp \in Nat \cup {-1}
  BY FS_EmptySet DEF Journals
<1>4. StartShape(overlay, db.journal, NoBlock, lp)
  <2>1. overlay = NewOverlay({}, NoBlock, lp)
    BY DEF Init
  <2> HIDE DEF lp
  <2> QED BY <1>1, <1>3, <2>1, NewOverlayIs
<1>5. overlay.last_hash = NoBlock /\ overlay.last_number = lp /\ overlay.levels = <<>>
  BY <1>4 DEF StartShape
<1> HIDE DEF lp
<1>6. /\ Numbered(overlay.levels, lp) /\ Held(overlay) \subseteq db.headers
      /\ InLevels(overlay) \cap Retained(overlay) = {}
      /\ CountedAs(overlay.values, Held(overlay)) /\ Matches(overlay.levels, db)
      /\ Links(overlay.levels, overlay.pending_canonicalizations, 0)
      /\ PendingAlone(overlay) /\ ToSet(overlay.pending_insertions) = {}
  BY <1>2, <1>3, <1>4, StartTree
<1> QED BY <1>1, <1>2, <1>5, <1>6 DEF TreeInv

\* Fewer blocks are retained.
LEMMA PinnedPartTree ==
  ASSUME StateInv, TreeInv, SamePart(overlay', overlay), UNCHANGED <<db, txn, phase>>,
         Retained(overlay') \subseteq Retained(overlay), CountedAs(overlay'.values, Held(overlay'))
  PROVE  TreeInv'
<1>1. /\ overlay' \in Overlays /\ overlay'.last_hash = overlay.last_hash
      /\ overlay'.last_number = overlay.last_number /\ overlay'.levels = overlay.levels
      /\ overlay'.pending_canonicalizations = overlay.pending_canonicalizations
      /\ overlay'.pending_insertions = overlay.pending_insertions
  BY DEF SamePart
<1>2. InLevels(overlay') = InLevels(overlay)
  BY <1>1 DEF InLevels
<1>3. Held(overlay') \subseteq Held(overlay) /\ InLevels(overlay') \cap Retained(overlay') = {}
  BY <1>2 DEF Held, TreeInv
<1>4. PendingAlone(overlay')
  BY <1>1, <1>2 DEF PendingAlone, TreeInv
<1> QED BY <1>1, <1>3, <1>4 DEF TreeInv

\* Readers.
LEMMA ReadersTree ==
  ASSUME StateInv, TreeInv, NEW b \in Block, have_state_at(b) \/ pin(b) \/ unpin(b)
  PROVE  TreeInv'
<1>0. SamePart(overlay', overlay) /\ UNCHANGED <<window, db, txn, phase>>
  BY ReadersKeep
<1>1. InLevels(overlay') = InLevels(overlay)
  BY <1>0 DEF InLevels, SamePart
<1>2. CASE overlay' = overlay
  BY <1>0, <1>2, PinnedPartTree DEF TreeInv
<1>3. CASE overlay' = noncanonical_pin(overlay, b)
  <2>1. overlay'.values = overlay.values /\ overlay'.pinned_insertions = overlay.pinned_insertions
    BY <1>3, InvParts, PinIs
  <2>2. Retained(overlay') = Retained(overlay)
    BY <2>1 DEF Retained
  <2>3. CountedAs(overlay'.values, Held(overlay'))
    BY <1>1, <2>1, <2>2 DEF TreeInv, Held
  <2> QED BY <1>0, <2>2, <2>3, PinnedPartTree
<1>4. CASE overlay' = noncanonical_unpin(overlay, b) /\ overlay' # overlay
  <2> DEFINE G == Gone(overlay, b)
  <2>1. /\ overlay'.values = discard_values(overlay.values, G)
        /\ Retained(overlay') = Retained(overlay) \ G /\ G \subseteq Retained(overlay)
    BY <1>4, InvParts, UnpinIs
  <2> HIDE DEF G
  <2>2. Held(overlay') = Held(overlay) \ G /\ G \in SUBSET Held(overlay)
    BY <1>1, <2>1 DEF TreeInv, Held
  <2>3. CountedAs(overlay.values, Held(overlay)) /\ Held(overlay) \in SUBSET Block
    BY InvParts, HeldType DEF TreeInv
  <2>4. CountedAs(discard_values(overlay.values, G), Held(overlay) \ G)
    BY <2>2, <2>3, CountDiscarded
  <2>5. CountedAs(overlay'.values, Held(overlay')) /\ Retained(overlay') \subseteq Retained(overlay)
    BY <2>1, <2>2, <2>4
  <2> QED BY <1>0, <2>5, PinnedPartTree
<1>5. overlay' = overlay \/ overlay' = noncanonical_pin(overlay, b) \/ overlay' = noncanonical_unpin(overlay, b)
  BY DEF have_state_at, pin, unpin
<1> QED BY <1>2, <1>3, <1>4, <1>5

\* canonicalize_block takes note of a child of the head.
LEMMA CanonicalizeTree ==
  ASSUME StateInv, TreeInv, NEW b \in Block, canonicalize_block(b)
  PROVE  TreeInv'
<1>1. PICK w, n : CanonicalizeStep(b, w, n)
  BY CanonicalizeStepIs
<1>2. /\ canonicalizable(overlay, b) /\ ParentOf(b) = canonical_head
      /\ db' = db /\ phase # "committed"
  BY DEF canonicalize_block
<1>3. /\ CanonShape(overlay', overlay, b) /\ CanonicalizeCommitShape(txn', txn, b, w, n)
  BY <1>1 DEF CanonicalizeStep
<1>4. /\ overlay'.levels = overlay.levels /\ overlay'.last_hash = overlay.last_hash
      /\ overlay'.last_number = overlay.last_number /\ overlay'.values = overlay.values
      /\ overlay'.pinned_insertions = overlay.pinned_insertions
      /\ overlay'.pending_insertions = overlay.pending_insertions
  BY <1>3 DEF CanonShape
<1>5. Held(overlay') = Held(overlay) /\ InLevels(overlay') = InLevels(overlay) /\ Retained(overlay') = Retained(overlay)
  BY <1>4 DEF Held, InLevels, Retained
<1>6. txn'.headers = txn.headers /\ txn'.journal \subseteq txn.journal
  BY <1>3 DEF CanonicalizeCommitShape
<1>7. JournalNumbered(txn') /\ Matches(overlay'.levels, txn')
  BY <1>4, <1>6, FewerRecords DEF TreeInv
<1>8. PendingAlone(overlay')
  BY <1>4, <1>5 DEF PendingAlone, TreeInv
<1>9. Links(overlay'.levels, overlay'.pending_canonicalizations, 0)
  <2> DEFINE p == overlay.pending_canonicalizations
             q == overlay'.pending_canonicalizations
             L == Len(p)
  <2>1. p \in Seq(Block) /\ L \in Nat /\ q = Append(p, b)
    BY <1>3, InvParts, OverlayFields, LenProperties DEF CanonShape
  <2>2. Len(q) = L + 1 /\ q[L + 1] = b /\ \A j \in 1 .. L : q[j] = p[j]
    BY <2>1, AppendProperties
  <2>3. Links(overlay.levels, p, 0) /\ b \in Hashes(overlay.levels[L + 1])
    BY <1>2 DEF TreeInv, canonicalizable
  <2>4. ASSUME L >= 1 PROVE ParentOf(b) = p[L]
    <3>1. p # <<>>
      BY <2>1, <2>4, EmptySeq
    <3> QED BY <1>2, <3>1 DEF canonical_head, Last
  <2> HIDE DEF p, q, L
  <2>5. ASSUME NEW j \in 0 + 1 .. Len(q) PROVE q[j] \in Hashes(overlay.levels[j - 0])
    <3>1. j - 0 = j /\ (j = L + 1 \/ j \in 0 + 1 .. L)
      BY <2>1, <2>2
    <3>2. ASSUME j \in 0 + 1 .. L PROVE p[j] \in Hashes(overlay.levels[j - 0]) /\ q[j] = p[j]
      BY <2>1, <2>2, <2>3, <3>2 DEF Links, L
    <3> QED BY <2>2, <2>3, <3>1, <3>2
  <2>6. ASSUME NEW j \in 0 + 2 .. Len(q) PROVE ParentOf(q[j]) = q[j - 1]
    <3>1. j - 1 \in 1 .. L /\ j = (j - 1) + 1 /\ q[j - 1] = p[j - 1]
      BY <2>1, <2>2
    <3>2. CASE j = L + 1
      <4>1. L >= 1 /\ j - 1 = L
        BY <2>1, <2>2, <3>2
      <4> QED BY <2>2, <2>4, <3>1, <3>2, <4>1
    <3>3. CASE j # L + 1
      <4>1. j \in 0 + 2 .. L /\ j \in 1 .. L
        BY <2>1, <2>2, <3>3
      <4> QED BY <2>2, <2>3, <3>1, <4>1 DEF Links, L
    <3> QED BY <3>2, <3>3
  <2>7. Links(overlay.levels, q, 0)
    BY <2>5, <2>6 DEF Links
  <2> QED BY <1>4, <2>7 DEF q
<1> QED BY <1>2, <1>4, <1>5, <1>6, <1>7, <1>8, <1>9 DEF TreeInv

\* commit.
LEMMA CommitTree ==
  ASSUME TreeInv, commit
  PROVE  TreeInv'
<1>1. db' = txn /\ phase' = "committed" /\ UNCHANGED <<overlay, txn>>
  BY DEF commit
<1> QED BY <1>1 DEF TreeInv

\* The last of the blocks that are to be canonicalized has the number that the
\* overlay and the transaction give it.
LEMMA HeadNumber ==
  ASSUME StateInv, TreeInv
  PROVE  HeadOf(overlay) # NoBlock =>
           Number(HeadOf(overlay)) = overlay.last_number + Len(overlay.pending_canonicalizations)
<1> DEFINE p == overlay.pending_canonicalizations
           L == Len(p)
<1>0. /\ p \in Seq(Block) /\ L \in Nat /\ overlay.last_number \in Int
      /\ Len(overlay.levels) \in Nat /\ L <= Len(overlay.levels)
  BY InvParts, OverlayFields, LenProperties, LevelsAre DEF Room
<1>1. CASE p = <<>>
  <2>1. L = 0 /\ HeadOf(overlay) = overlay.last_hash
    BY <1>1, EmptySeq DEF HeadOf
  <2>2. overlay.last_number + 0 = overlay.last_number
    BY <1>0
  <2> QED BY <2>1, <2>2 DEF TreeInv
<1>2. CASE p # <<>>
  <2>1. L # 0
    BY <1>0, <1>2, EmptySeq
  <2>2. L \in 0 + 1 .. L /\ L - 0 = L /\ L \in 1 .. Len(overlay.levels)
    BY <1>0, <2>1
  <2>3. p[L] \in Hashes(overlay.levels[L])
    BY <2>2 DEF TreeInv, Links
  <2>4. Number(p[L]) = overlay.last_number + L
    BY <2>2, <2>3 DEF TreeInv, Numbered
  <2> QED BY <1>2, <2>4 DEF HeadOf, Last
<1> QED BY <1>1, <1>2

\* restart reads the tree from the journal.
LEMMA RestartTree ==
  ASSUME StateInv, TreeInv, restart
  PROVE  TreeInv'
<1>1. /\ StartShape(overlay', db.journal, db.last_hash, db.last_number)
      /\ txn' = db /\ db' = db /\ Crashes
  BY RestartStepIs
<1>2. JournalNumbered(db) /\ db.last_number \in Nat \cup {-1}
  BY InvParts, DatabaseFields DEF TreeInv
<1>3. /\ Numbered(overlay'.levels, db.last_number) /\ Held(overlay') \subseteq db.headers
      /\ InLevels(overlay') \cap Retained(overlay') = {}
      /\ CountedAs(overlay'.values, Held(overlay')) /\ Matches(overlay'.levels, db)
      /\ Links(overlay'.levels, overlay'.pending_canonicalizations, 0)
      /\ PendingAlone(overlay') /\ ToSet(overlay'.pending_insertions) = {}
  BY <1>1, <1>2, StartTree
<1>4. overlay'.last_hash = db.last_hash /\ overlay'.last_number = db.last_number
  BY <1>1 DEF StartShape
<1>5. db.last_hash # NoBlock => Number(db.last_hash) = db.last_number
  <2>1. CASE phase = "committed"
    <3>1. TxnFollows(db, window, overlay)
      BY <2>1, InvParts DEF Phased
    <3> QED BY <3>1, HeadNumber DEF TxnFollows
  <2>2. CASE phase # "committed"
    BY <2>2, InvParts DEF DbFollows, TreeInv
  <2> QED BY <2>1, <2>2
<1> QED BY <1>1, <1>2, <1>3, <1>4, <1>5 DEF TreeInv

\* apply_pending takes the turns.
LEMMA ApplyTree ==
  ASSUME StateInv, TreeInv, apply_pending
  PROVE  TreeInv'
<1> DEFINE p == overlay.pending_canonicalizations
           L == Len(p)
<1>0. /\ p \in Seq(Block) /\ L \in Nat /\ L <= Len(overlay.levels) /\ overlay \in Overlays /\ L \in 0 .. L
  <2>1. p \in Seq(Block) /\ L <= Len(overlay.levels) /\ overlay \in Overlays
    BY InvParts, OverlayFields DEF Room
  <2>2. L \in Nat
    BY <2>1, LenProperties
  <2> QED BY <2>1, <2>2
<1>1. PICK f : Turns(f, overlay, p) /\ AppliedShape(overlay', overlay, p, f[L])
  BY ApplyStepIs
<1>2. phase = "committed" /\ phase' = "idle" /\ UNCHANGED <<db, txn>> /\ db = txn
  BY ApplyStepIs
<1>3. /\ Numbered(overlay.levels, overlay.last_number) /\ Links(overlay.levels, p, 0)
      /\ InLevels(overlay) \cap Retained(overlay) = {} /\ CountedAs(overlay.values, Held(overlay))
  BY DEF TreeInv
<1>4. TurnOK(f, overlay, p, L)
  <2> HIDE DEF p
  <2>1. \A i \in 0 .. L : TurnOK(f, overlay, p, i)
    BY <1>0, <1>1, <1>3, TurnsKeep
  <2> HIDE DEF L
  <2> QED BY <1>0, <2>1
<1> DEFINE x == f[L]
<1>5. /\ overlay'.levels = x.levels /\ overlay'.values = x.values
      /\ overlay'.pinned_insertions = x.pinned_insertions
      /\ overlay'.last_hash = HeadOf(overlay) /\ overlay'.last_number = overlay.last_number + L
      /\ overlay'.pending_canonicalizations = <<>> /\ overlay'.pending_insertions = <<>>
  BY <1>1 DEF AppliedShape, HeadOf
<1>6. InLevels(overlay') = InLevels(x) /\ Retained(overlay') = Retained(x) /\ Held(overlay') = Held(x)
  BY <1>5 DEF InLevels, Retained, Held
<1>7. /\ Numbered(x.levels, overlay.last_number + L)
      /\ AllEntries(x.levels) \subseteq AllEntries(overlay.levels)
      /\ InLevels(x) \cap Retained(x) = {}
      /\ CountedAs(x.values, Held(x)) /\ Held(x) \subseteq Held(overlay)
  BY <1>4 DEF TurnOK
<1> HIDE DEF x, p, L
<1>8. overlay'.last_hash # NoBlock => Number(overlay'.last_hash) = overlay'.last_number
  BY <1>5, HeadNumber DEF L, p
<1>9. /\ Links(overlay'.levels, overlay'.pending_canonicalizations, 0)
      /\ PendingAlone(overlay') /\ ToSet(overlay'.pending_insertions) = {}
  BY <1>5, NothingPending
<1>10. Matches(overlay'.levels, db) /\ Matches(overlay'.levels, txn)
  BY <1>5, <1>7, FewerRecords DEF TreeInv
<1>11. Held(overlay') \subseteq txn.headers /\ db.headers \subseteq txn.headers
  BY <1>6, <1>7 DEF TreeInv
<1>12. /\ Numbered(overlay'.levels, overlay'.last_number) /\ InLevels(overlay') \cap Retained(overlay') = {}
       /\ CountedAs(overlay'.values, Held(overlay'))
  BY <1>5, <1>6, <1>7 DEF TreeInv
<1>13. JournalNumbered(db) /\ JournalNumbered(txn)
  BY DEF TreeInv
<1> QED BY <1>2, <1>8, <1>9, <1>10, <1>11, <1>12, <1>13 DEF TreeInv

\* revert_one drops the last level, with the records of its blocks.
LEMMA RevertOneTree ==
  ASSUME StateInv, TreeInv, NEW b \in Block, revert_one(b)
  PROVE  TreeInv'
<1> DEFINE N == Len(overlay.levels)
           T == Hashes(Last(overlay.levels))
<1>1. /\ DropShape(overlay', overlay) /\ DropDb(db', b) /\ txn' = db'
      /\ phase = "idle" /\ UNCHANGED phase /\ overlay.levels # <<>> /\ b \in T /\ db = txn
  BY RevertOneStepIs
<1>0. /\ overlay.levels \in LevelSeqs /\ overlay'.levels \in LevelSeqs /\ N \in Nat /\ N >= 1
      /\ overlay \in Overlays /\ overlay' \in Overlays /\ overlay.last_number \in Int
      /\ T = Hashes(overlay.levels[N])
  <2>1. /\ overlay.levels \in LevelSeqs /\ overlay'.levels \in LevelSeqs /\ N \in Nat
        /\ overlay \in Overlays /\ overlay' \in Overlays /\ overlay.last_number \in Int
    BY <1>1, InvParts, OverlayFields, LevelsAre DEF DropShape
  <2>2. N # 0
    BY <1>1, <2>1, EmptySeq DEF LevelSeqs
  <2> QED BY <2>1, <2>2 DEF Last
<1>2. /\ overlay'.last_hash = overlay.last_hash /\ overlay'.last_number = overlay.last_number
      /\ overlay'.pending_canonicalizations = overlay.pending_canonicalizations
      /\ overlay'.pending_insertions = overlay.pending_insertions
      /\ overlay'.pinned_insertions = overlay.pinned_insertions
      /\ overlay'.values = discard_values(overlay.values, T)
      /\ Len(overlay'.levels) = N - 1 /\ \A j \in 1 .. N - 1 : overlay'.levels[j] = overlay.levels[j]
  BY <1>1 DEF DropShape
<1>3. /\ Numbered(overlay.levels, overlay.last_number)
      /\ InLevels(overlay) \cap Retained(overlay) = {} /\ CountedAs(overlay.values, Held(overlay))
      /\ Held(overlay) \subseteq txn.headers /\ JournalNumbered(db) /\ Matches(overlay.levels, db)
  BY <1>1 DEF TreeInv
<1> HIDE DEF T, N
<1>4. \A j \in 1 .. N - 1 : j \in 1 .. N
  BY <1>0
<1>5. Numbered(overlay'.levels, overlay'.last_number)
  BY <1>2, <1>3, <1>4 DEF Numbered, N
<1>7. AllEntries(overlay'.levels) \subseteq AllEntries(overlay.levels)
  BY <1>2, <1>4 DEF AllEntries, N
<1>8. InLevels(overlay') = InLevels(overlay) \ T /\ T \subseteq InLevels(overlay)
  <2>0. InLevels(overlay) = HashesIn(overlay.levels) /\ InLevels(overlay') = HashesIn(overlay'.levels) /\ N \in 1 .. N
    BY <1>0, HeldType
  <2>1. \A c : c \in InLevels(overlay) <=> \E i \in 1 .. N : c \in Hashes(overlay.levels[i])
    BY <1>0, <2>0, HashesOfEntries DEF N
  <2>2. \A c : c \in InLevels(overlay') <=> \E i \in 1 .. N - 1 : c \in Hashes(overlay'.levels[i])
    BY <1>0, <1>2, <2>0, HashesOfEntries
  <2>3. T \subseteq InLevels(overlay)
    BY <1>0, <2>0, <2>1
  <2>4. ASSUME NEW c \in InLevels(overlay') PROVE c \in InLevels(overlay) /\ c \notin T
    <3>1. PICK i \in 1 .. N - 1 : c \in Hashes(overlay'.levels[i])
      BY <2>2
    <3>2. c \in Hashes(overlay.levels[i]) /\ i \in 1 .. N /\ i # N
      BY <1>0, <1>2, <3>1
    <3>3. c \notin Hashes(overlay.levels[N])
      BY <1>0, <1>3, <2>0, <3>2, OneLevel DEF N
    <3> QED BY <1>0, <2>1, <3>2, <3>3
  <2>5. ASSUME NEW c \in InLevels(overlay), c \notin T PROVE c \in InLevels(overlay')
    <3>1. PICK i \in 1 .. N : c \in Hashes(overlay.levels[i])
      BY <2>1
    <3>2. i # N
      BY <1>0, <2>5, <3>1
    <3>3. i \in 1 .. N - 1
      BY <1>0, <3>2
    <3> QED BY <1>2, <2>2, <3>1, <3>3
  <2> QED BY <2>3, <2>4, <2>5
<1>9. Retained(overlay') = Retained(overlay)
  BY <1>2 DEF Retained
<1>10. Held(overlay') = Held(overlay) \ T /\ T \in SUBSET Held(overlay)
  BY <1>3, <1>8, <1>9 DEF Held
<1>11. CountedAs(overlay'.values, Held(overlay'))
  <2>1. Held(overlay) \in SUBSET Block
    BY <1>0, HeldType
  <2>2. CountedAs(discard_values(overlay.values, T), Held(overlay) \ T)
    BY <1>3, <1>10, <2>1, CountDiscarded
  <2> QED BY <1>2, <1>10, <2>2
<1>12. /\ db'.headers = db.headers \ {b}
       /\ db'.journal = {r \in db.journal : <<r[1], r[2]>> \notin reverted_journals(overlay)}
  BY <1>1 DEF DropDb
<1>13. Held(overlay') \subseteq db'.headers
  BY <1>1, <1>3, <1>10, <1>12
<1>14. ASSUME NEW r \in db'.journal PROVE r[3] # b
  <2> SUFFICES ASSUME r[3] = b PROVE FALSE
    OBVIOUS
  <2>1. r \in db.journal /\ <<r[1], r[2]>> \notin reverted_journals(overlay)
    BY <1>12
  <2>2. N \in 1 .. N /\ N \in DOMAIN overlay.levels /\ overlay.levels[N] \in Seq(BlockOverlay)
    BY <1>0, LevelsAre DEF N
  <2>3. PICK x \in DOMAIN overlay.levels[N] : b = overlay.levels[N][x].hash
    BY <1>0, <1>1 DEF Hashes, T
  <2> DEFINE o == overlay.levels[N][x]
  <2>4. o \in AllEntries(overlay.levels) /\ o.hash = b
    BY <2>2, <2>3 DEF AllEntries, Entries, N
  <2>5. r[2] = o.index
    BY <1>3, <2>1, <2>4 DEF Matches
  <2>6. r[1] = Number(b) /\ Number(b) = overlay.last_number + N
    BY <1>0, <1>1, <1>3, <2>1, <2>2 DEF JournalNumbered, Numbered, N
  <2>7. (overlay.last_number + 1) + N - 1 = overlay.last_number + N
    BY <1>0
  <2>8. <<overlay.last_number + N, overlay.levels[N][x].index>> \in reverted_journals(overlay)
    BY <2>3, <2>7 DEF reverted_journals, front_block_number, N
  <2> QED BY <2>1, <2>5, <2>6, <2>8
<1>15. JournalNumbered(db')
  <2>1. \A r \in db'.journal : r \in db.journal /\ r[3] # b
    BY <1>12, <1>14
  <2> QED BY <1>3, <1>12, <2>1 DEF JournalNumbered
<1>16. Matches(overlay'.levels, db')
  BY <1>3, <1>7, <1>12, FewerRecords
<1>17. overlay.pending_insertions = <<>> /\ overlay.pending_canonicalizations = <<>>
  <2>1. Len(overlay.pending_canonicalizations) = 0 /\ overlay.pending_insertions = <<>>
    BY <1>1, InvParts DEF Phased, Heads
  <2> QED BY <1>0, <2>1, OverlayFields, EmptySeq
<1>18. /\ Links(overlay'.levels, overlay'.pending_canonicalizations, 0)
       /\ PendingAlone(overlay') /\ ToSet(overlay'.pending_insertions) = {}
  BY <1>2, <1>17, NothingPending
<1>19. overlay'.last_hash # NoBlock => Number(overlay'.last_hash) = overlay'.last_number
  BY <1>2 DEF TreeInv
<1>20. InLevels(overlay') \cap Retained(overlay') = {}
  BY <1>3, <1>8, <1>9
<1> QED BY <1>1, <1>5, <1>11, <1>13, <1>15, <1>16, <1>18, <1>19, <1>20 DEF TreeInv

\* The levels m are the levels without block b.
WithoutBlock(m, levels, b) ==
  /\ Len(m) \in Nat /\ Len(m) <= Len(levels)
  /\ \A j \in 1 .. Len(m) : Hashes(m[j]) = Hashes(levels[j]) \ {b} /\ Entries(m[j]) \subseteq Entries(levels[j])
  /\ \A j \in Len(m) + 1 .. Len(levels) : Hashes(levels[j]) \subseteq {b}

\* If level i gets empty, it is the last one or the last one is empty.
LastGoes(levels, i) == Len(levels[i]) = 1 => i = Len(levels) \/ Last(levels) = <<>>

\* Cutting a level off takes the block that was its last, and nothing else: when
\* the level gets empty, the one that goes is empty too.
LEMMA CutTree ==
  ASSUME NEW levels \in LevelSeqs, NEW m, NEW q \in Int, Numbered(levels, q), NEW b, NEW i,
         LastOf(levels, i, b), CutShape(m, levels, i),
         LastGoes(levels, i),
         \A j \in 1 .. Len(levels) : \A x \in DOMAIN levels[j] : levels[j][x].hash = b => x = Len(levels[j])
  PROVE  WithoutBlock(m, levels, b)
<1> DEFINE N == Len(levels)
           s == levels[i]
<1>0. /\ N \in Nat /\ DOMAIN levels = 1 .. N /\ i \in 1 .. N /\ s \in Seq(BlockOverlay) /\ s # <<>>
      /\ m \in LevelSeqs /\ Len(m) \in Nat
  BY LevelsAre DEF LastOf, CutShape
<1>1. /\ Len(s) \in Nat /\ DOMAIN s = 1 .. Len(s) /\ Len(s) > 0 /\ s[Len(s)].hash = b /\ b \in Hashes(s)
  <2>1. Len(s) \in Nat /\ DOMAIN s = 1 .. Len(s) /\ Len(s) > 0
    BY <1>0, FrontIs, LevelIs
  <2>2. s[Len(s)].hash = b
    BY DEF LastOf, Last
  <2>3. Len(s) \in DOMAIN s
    BY <2>1
  <2> QED BY <2>1, <2>2, <2>3 DEF Hashes
<1>2. ASSUME NEW j \in 1 .. N, j # i PROVE b \notin Hashes(levels[j])
  BY <1>0, <1>1, <1>2, OneLevel
<1>3. \A c : c \in HashesIn(levels) <=> \E j \in 1 .. N : c \in Hashes(levels[j])
  BY HashesOfEntries
<1>4. CASE Len(s) = 1
  <2>1. Hashes(s) = {b}
    BY <1>1, <1>4 DEF Hashes
  <2>2. Hashes(<<>>) = {} /\ Entries(<<>>) = {}
    BY DEF Hashes, Entries
  <2>3. /\ Len(m) = N - 1
        /\ \A j \in 1 .. N - 1 : m[j] = IF j = i THEN <<>> ELSE levels[j]
    BY <1>4 DEF CutShape
  <2>4. ASSUME NEW j \in 1 .. N - 1
        PROVE  Hashes(m[j]) = Hashes(levels[j]) \ {b} /\ Entries(m[j]) \subseteq Entries(levels[j])
    <3>1. CASE j = i
      <4>1. m[j] = <<>> /\ levels[j] = s
        BY <2>3, <3>1
      <4> QED BY <2>1, <2>2, <4>1
    <3>2. CASE j # i
      <4>1. m[j] = levels[j] /\ j \in 1 .. N
        BY <1>0, <2>3, <3>2
      <4>2. b \notin Hashes(levels[j])
        BY <1>2, <3>2, <4>1
      <4> QED BY <4>1, <4>2
    <3> QED BY <3>1, <3>2
  <2>5. Hashes(levels[N]) \subseteq {b}
    <3>1. CASE i = N
      BY <2>1, <3>1
    <3>2. CASE i # N
      BY <1>4, <2>2, <3>2 DEF LastGoes, Last
    <3> QED BY <3>1, <3>2
  <2>6. \A j \in (N - 1) + 1 .. N : j = N
    <3>1. N \in Nat
      BY <1>0
    <3> HIDE DEF N, s
    <3> QED BY <3>1
  <2> HIDE DEF s
  <2>7. Len(m) <= N
    BY <1>0, <2>3
  <2> HIDE DEF N
  <2> QED BY <1>0, <2>3, <2>4, <2>5, <2>6, <2>7 DEF WithoutBlock, N
<1>5. CASE Len(s) # 1
  <2>1. /\ Len(m) = N
        /\ \A j \in 1 .. N : m[j] = IF j = i THEN Front(s) ELSE levels[j]
    BY <1>5 DEF CutShape
  <2> DEFINE u == Front(s)
  <2>2. u \in Seq(BlockOverlay) /\ Len(u) = Len(s) - 1 /\ \A x \in 1 .. Len(s) - 1 : u[x] = s[x]
    BY <1>0, FrontIs
  <2>3. DOMAIN u = 1 .. Len(s) - 1
    BY <2>2, LevelIs
  <2>4. \A x \in DOMAIN s : s[x].hash = b => x = Len(s)
    BY <1>0
  <2>5. Hashes(u) = Hashes(s) \ {b}
    <3>1. ASSUME NEW x \in 1 .. Len(s) - 1 PROVE u[x].hash \in Hashes(s) /\ u[x].hash # b
      <4>1. x \in DOMAIN s /\ x # Len(s)
        BY <1>1
      <4> QED BY <2>2, <2>4, <4>1 DEF Hashes
    <3>2. ASSUME NEW x \in DOMAIN s, s[x].hash # b PROVE s[x].hash \in Hashes(u)
      <4>1. x # Len(s)
        BY <1>1, <3>2
      <4>2. x \in 1 .. Len(s) - 1
        BY <1>1, <4>1
      <4> QED BY <2>2, <2>3, <4>2 DEF Hashes
    <3>3. \A c : c \in Hashes(u) => c \in Hashes(s) /\ c # b
      BY <2>3, <3>1 DEF Hashes
    <3>4. \A c : c \in Hashes(s) /\ c # b => c \in Hashes(u)
      BY <3>2 DEF Hashes
    <3> HIDE DEF s, u
    <3> QED BY <3>3, <3>4
  <2>6. Entries(u) \subseteq Entries(s)
    <3>1. ASSUME NEW x \in 1 .. Len(s) - 1 PROVE u[x] \in Entries(s)
      <4>1. x \in DOMAIN s
        BY <1>1
      <4> QED BY <2>2, <4>1 DEF Entries
    <3> QED BY <2>3, <3>1 DEF Entries
  <2> HIDE DEF u
  <2>7. ASSUME NEW j \in 1 .. N
        PROVE  Hashes(m[j]) = Hashes(levels[j]) \ {b} /\ Entries(m[j]) \subseteq Entries(levels[j])
    <3>1. CASE j = i
      <4>1. m[j] = u /\ levels[j] = s
        BY <2>1, <3>1 DEF u
      <4> HIDE DEF s
      <4> QED BY <2>5, <2>6, <4>1
    <3>2. CASE j # i
      <4>1. m[j] = levels[j]
        BY <2>1, <3>2
      <4>2. b \notin Hashes(levels[j])
        BY <1>2, <3>2
      <4> QED BY <4>1, <4>2
    <3> QED BY <3>1, <3>2
  <2>8. \A j \in N + 1 .. N : FALSE
    BY <1>0
  <2>9. N <= N
    BY <1>0
  <2> HIDE DEF N
  <2> QED BY <1>0, <2>1, <2>7, <2>8, <2>9 DEF WithoutBlock, N
<1> QED BY <1>4, <1>5

\* What is left of the tree.
LEMMA CutKeeps ==
  ASSUME NEW levels \in LevelSeqs, NEW m \in LevelSeqs, NEW q, NEW b, WithoutBlock(m, levels, b)
  PROVE  /\ Numbered(levels, q) => Numbered(m, q)
         /\ AllEntries(m) \subseteq AllEntries(levels)
         /\ HashesIn(m) = HashesIn(levels) \ {b}
<1> DEFINE N == Len(levels)
           M == Len(m)
<1>0. N \in Nat /\ M \in Nat /\ M <= N
  BY LevelsAre DEF WithoutBlock
<1>1. /\ \A j \in 1 .. M : Hashes(m[j]) = Hashes(levels[j]) \ {b} /\ Entries(m[j]) \subseteq Entries(levels[j])
      /\ \A j \in M + 1 .. N : Hashes(levels[j]) \subseteq {b}
  BY DEF WithoutBlock
<1>2. \A j \in 1 .. M : j \in 1 .. N
  BY <1>0
<1>3. /\ \A c : c \in HashesIn(levels) <=> \E j \in 1 .. N : c \in Hashes(levels[j])
      /\ \A c : c \in HashesIn(m) <=> \E j \in 1 .. M : c \in Hashes(m[j])
  BY HashesOfEntries
<1>4. Numbered(levels, q) => Numbered(m, q)
  BY <1>1, <1>2 DEF Numbered
<1>6. AllEntries(m) \subseteq AllEntries(levels)
  BY <1>1, <1>2 DEF AllEntries
<1>7. ASSUME NEW c \in HashesIn(m) PROVE c \in HashesIn(levels) /\ c # b
  <2>1. PICK j \in 1 .. M : c \in Hashes(m[j])
    BY <1>3
  <2> QED BY <1>1, <1>2, <1>3, <2>1
<1>8. ASSUME NEW c \in HashesIn(levels), c # b PROVE c \in HashesIn(m)
  <2>1. PICK j \in 1 .. N : c \in Hashes(levels[j])
    BY <1>3
  <2>2. j \in 1 .. M
    <3>1. j \notin M + 1 .. N
      BY <1>1, <1>8, <2>1
    <3> QED BY <1>0, <3>1
  <2> QED BY <1>1, <1>3, <1>8, <2>1, <2>2
<1> QED BY <1>4, <1>6, <1>7, <1>8

\* revert_pending goes back to the tree of the database.
LEMMA RevertTree ==
  ASSUME StateInv, TreeInv, revert_pending, in_order(overlay)
  PROVE  TreeInv'
<1>1. /\ RevertedShape(overlay', overlay) /\ phase # "committed" /\ phase' = "idle"
      /\ txn' = db /\ db' = db
  BY RevertStepIs
<1>2. /\ overlay' \in Overlays /\ overlay \in Overlays
      /\ overlay.levels \in LevelSeqs /\ overlay'.levels \in LevelSeqs
      /\ InLevels(overlay) = HashesIn(overlay.levels) /\ InLevels(overlay') = HashesIn(overlay'.levels)
      /\ Held(overlay) \in SUBSET Block /\ overlay.last_number \in Int
      /\ overlay'.last_hash = overlay.last_hash /\ overlay'.last_number = overlay.last_number
      /\ overlay'.pending_canonicalizations = <<>> /\ overlay'.pending_insertions = <<>>
      /\ overlay'.pinned_insertions = overlay.pinned_insertions
  BY <1>1, InvParts, OverlayFields, HeldType DEF RevertedShape
<1>3. Retained(overlay') = Retained(overlay)
  BY <1>2 DEF Retained
<1>4. /\ Links(overlay'.levels, overlay'.pending_canonicalizations, 0)
      /\ PendingAlone(overlay') /\ ToSet(overlay'.pending_insertions) = {}
  BY <1>2, NothingPending
<1>5. /\ Numbered(overlay.levels, overlay.last_number)
      /\ overlay.last_hash # NoBlock => Number(overlay.last_hash) = overlay.last_number
      /\ InLevels(overlay) \cap Retained(overlay) = {} /\ CountedAs(overlay.values, Held(overlay))
      /\ Held(overlay) \ ToSet(overlay.pending_insertions) \subseteq db.headers
      /\ JournalNumbered(db) /\ Matches(overlay.levels, db) /\ PendingAlone(overlay)
  BY <1>1 DEF TreeInv
<1>6. CASE overlay.pending_insertions = <<>>
  <2>1. overlay'.levels = overlay.levels /\ overlay'.values = overlay.values
    BY <1>1, <1>6 DEF RevertedShape
  <2>2. Held(overlay') = Held(overlay) /\ InLevels(overlay') = InLevels(overlay)
    BY <1>2, <1>3, <2>1 DEF Held
  <2>3. ToSet(overlay.pending_insertions) = {}
    BY <1>6, NothingPending
  <2> QED BY <1>1, <1>2, <1>3, <1>4, <1>5, <2>1, <2>2, <2>3 DEF TreeInv
<1>7. CASE overlay.pending_insertions # <<>>
  <2> DEFINE b == overlay.pending_insertions[1]
  <2>1. PICK i : RevertShape(overlay', overlay, b, i)
    BY <1>1, <1>7 DEF RevertedShape
  <2>2. /\ overlay'.values = discard_values(overlay.values, {b})
        /\ LastOf(overlay.levels, i, b) /\ CutShape(overlay'.levels, overlay.levels, i)
    BY <2>1 DEF RevertShape
  <2>3. \A j \in 1 .. Len(overlay.levels) : \A x \in DOMAIN overlay.levels[j] :
          overlay.levels[j][x].hash = b => x = Len(overlay.levels[j])
    BY <1>5, <1>7 DEF PendingAlone
  <2>3a. LastGoes(overlay.levels, i)
    BY <1>7, <2>2 DEF in_order, LastOf, LastGoes
  <2>4. ToSet(overlay.pending_insertions) \subseteq {b}
    <3> DEFINE s == overlay.pending_insertions
    <3>1. s \in Seq(Block) /\ Len(s) \in Nat /\ DOMAIN s = 1 .. Len(s) /\ Len(s) <= 1
      BY InvParts, OverlayFields, LenProperties DEF Room
    <3>2. \A x \in DOMAIN s : x = 1
      BY <3>1
    <3> QED BY <3>2 DEF ToSet
  <2>5. b \in InLevels(overlay)
    <3>1. i \in DOMAIN overlay.levels /\ overlay.levels[i] \in Seq(BlockOverlay) /\ overlay.levels[i] # <<>>
      BY <1>2, <2>2, LevelsAre DEF LastOf
    <3> DEFINE s == overlay.levels[i]
    <3>2. Len(s) \in Nat /\ Len(s) > 0 /\ DOMAIN s = 1 .. Len(s)
      BY <3>1, FrontIs, LevelIs
    <3>3. Len(s) \in DOMAIN s /\ s[Len(s)].hash = b
      BY <2>2, <3>2 DEF LastOf, Last
    <3>4. b \in Hashes(s)
      BY <3>3 DEF Hashes
    <3> QED BY <1>2, <3>1, <3>4 DEF HashesIn
  <2> HIDE DEF b
  <2>6. WithoutBlock(overlay'.levels, overlay.levels, b)
    BY <1>2, <1>5, <2>2, <2>3, <2>3a, CutTree
  <2>7. /\ Numbered(overlay'.levels, overlay.last_number)
        /\ AllEntries(overlay'.levels) \subseteq AllEntries(overlay.levels)
        /\ HashesIn(overlay'.levels) = HashesIn(overlay.levels) \ {b}
    BY <1>2, <1>5, <2>6, CutKeeps
  <2>8. Held(overlay') = Held(overlay) \ {b} /\ {b} \in SUBSET Held(overlay)
    BY <1>2, <1>3, <1>5, <2>5, <2>7 DEF Held
  <2>9. CountedAs(overlay'.values, Held(overlay'))
    <3>1. CountedAs(discard_values(overlay.values, {b}), Held(overlay) \ {b})
      BY <1>2, <1>5, <2>8, CountDiscarded
    <3> QED BY <2>2, <2>8, <3>1
  <2>10. Held(overlay') \subseteq db.headers
    BY <1>5, <2>4, <2>8
  <2>11. InLevels(overlay') \cap Retained(overlay') = {}
    BY <1>2, <1>3, <1>5, <2>7
  <2>12. Matches(overlay'.levels, db)
    BY <1>5, <2>7, FewerRecords
  <2> QED BY <1>1, <1>2, <1>4, <1>5, <2>7, <2>9, <2>10, <2>11, <2>12 DEF TreeInv
<1> QED BY <1>6, <1>7

\* The levels m are levels with o at the end of level j.
AtEndOf(m, levels, j, o) ==
  /\ m \in LevelSeqs /\ j \in 1 .. Len(m) /\ Len(levels) <= Len(m)
  /\ \A x \in 1 .. Len(m) : x # j => x \in 1 .. Len(levels) /\ m[x] = levels[x]
  /\ o \in Entries(m[j])
  /\ \A e \in Entries(m[j]) : e # o => j \in 1 .. Len(levels) /\ e \in Entries(levels[j])
  /\ j \in 1 .. Len(levels) => Entries(levels[j]) \subseteq Entries(m[j])
  /\ \A x \in DOMAIN m[j] : x # Len(m[j]) => j \in 1 .. Len(levels) /\ m[j][x] \in Entries(levels[j])

\* A block overlay that is pushed is at the end.
LEMMA PushTree ==
  ASSUME NEW levels \in LevelSeqs, NEW i, NEW o \in BlockOverlay, NEW m, PushShape(m, levels, i, o)
  PROVE  AtEndOf(m, levels, PushedTo(levels, i), o)
<1> DEFINE N == Len(levels)
           j == PushedTo(levels, i)
<1>0. N \in Nat /\ DOMAIN levels = 1 .. N /\ m \in LevelSeqs
  BY LevelsAre DEF PushShape
<1>1. CASE i \in 1 .. N
  <2> DEFINE s == levels[i]
             t == Append(s, o)
  <2>1. j = i /\ m[j] = t /\ Len(m) = N /\ \A x \in 1 .. N : x # j => m[x] = levels[x]
    BY <1>1 DEF PushShape, PushedTo
  <2>2. s \in Seq(BlockOverlay)
    BY <1>0, <1>1, LevelsAre
  <2>3. Len(s) \in Nat /\ DOMAIN s = 1 .. Len(s)
    BY <2>2, LevelIs
  <2>4. t \in Seq(BlockOverlay) /\ Len(t) = Len(s) + 1 /\ t[Len(s) + 1] = o /\ \A x \in 1 .. Len(s) : t[x] = s[x]
    BY <2>2, AppendProperties
  <2>5. DOMAIN t = 1 .. Len(s) + 1
    BY <2>4, LevelIs
  <2> HIDE DEF s, t, j, N
  <2>6. ASSUME NEW x \in DOMAIN t, x # Len(t) PROVE t[x] \in Entries(s)
    <3>1. x \in 1 .. Len(s)
      BY <2>3, <2>4, <2>5, <2>6
    <3> QED BY <2>3, <2>4, <3>1 DEF Entries
  <2>7. Len(t) \in DOMAIN t /\ t[Len(t)] = o
    BY <2>3, <2>4, <2>5
  <2>8. ASSUME NEW x \in DOMAIN s PROVE s[x] \in Entries(t)
    <3>1. x \in DOMAIN t
      BY <2>3, <2>5
    <3> QED BY <2>3, <2>4, <3>1 DEF Entries
  <2>9. /\ o \in Entries(t)
        /\ \A e \in Entries(t) : e # o => e \in Entries(s)
        /\ Entries(s) \subseteq Entries(t)
    BY <2>6, <2>7, <2>8 DEF Entries
  <2>10. j \in 1 .. Len(levels) /\ levels[j] = s /\ N = Len(levels) /\ N <= N
    BY <1>0, <1>1, <2>1 DEF s, N
  <2> QED BY <1>0, <2>1, <2>6, <2>9, <2>10 DEF AtEndOf, j
<1>2. CASE i \notin 1 .. N
  <2>1. j = N + 1 /\ m[j] = <<o>> /\ Len(m) = N + 1 /\ \A x \in 1 .. N : m[x] = levels[x]
    BY <1>2 DEF PushShape, PushedTo
  <2>2. Entries(<<o>>) = {o} /\ DOMAIN <<o>> = {1} /\ Len(<<o>>) = 1
    BY DEF Entries
  <2>3. j \in 1 .. N + 1 /\ j \notin 1 .. N /\ N <= N + 1 /\ \A x \in 1 .. N + 1 : x # j => x \in 1 .. N
    BY <1>0, <2>1
  <2> HIDE DEF j
  <2> QED BY <1>0, <2>1, <2>2, <2>3 DEF AtEndOf, j
<1> QED BY <1>1, <1>2

\* What the blocks in the levels are then.
LEMMA PushedBlocks ==
  ASSUME NEW levels \in LevelSeqs, NEW m, NEW j, NEW o, AtEndOf(m, levels, j, o)
  PROVE  /\ HashesIn(m) = HashesIn(levels) \cup {o.hash}
         /\ \A e \in AllEntries(m) : e = o \/ e \in AllEntries(levels)
         /\ \A x \in 1 .. Len(levels) : Hashes(levels[x]) \subseteq Hashes(m[x])
         /\ \A x \in 1 .. Len(m) : \A c \in Hashes(m[x]) :
              \/ x = j /\ c = o.hash
              \/ x \in 1 .. Len(levels) /\ c \in Hashes(levels[x])
<1> DEFINE N == Len(levels)
           M == Len(m)
<1>0. /\ m \in LevelSeqs /\ N \in Nat /\ M \in Nat /\ N <= M /\ j \in 1 .. M
      /\ \A x \in 1 .. N : x \in 1 .. M
  <2>1. m \in LevelSeqs /\ N \in Nat /\ N <= M /\ j \in 1 .. M
    BY LevelsAre DEF AtEndOf
  <2>2. M \in Nat
    BY <2>1, LevelsAre
  <2> HIDE DEF N, M
  <2> QED BY <2>1, <2>2
<1>1. /\ \A x \in 1 .. M : x # j => x \in 1 .. N /\ m[x] = levels[x]
      /\ o \in Entries(m[j])
      /\ \A e \in Entries(m[j]) : e # o => j \in 1 .. N /\ e \in Entries(levels[j])
      /\ j \in 1 .. N => Entries(levels[j]) \subseteq Entries(m[j])
  BY DEF AtEndOf
<1>2. /\ \A c : c \in HashesIn(levels) <=> \E x \in 1 .. N : c \in Hashes(levels[x])
      /\ \A x \in 1 .. N : Hashes(levels[x]) = {e.hash : e \in Entries(levels[x])}
  BY HashesOfEntries
<1>3. /\ \A c : c \in HashesIn(m) <=> \E x \in 1 .. M : c \in Hashes(m[x])
      /\ \A x \in 1 .. M : Hashes(m[x]) = {e.hash : e \in Entries(m[x])}
  BY <1>0, HashesOfEntries
<1>4. \A e \in AllEntries(m) : e = o \/ e \in AllEntries(levels)
  BY <1>1 DEF AllEntries
<1> HIDE DEF N, M
<1>5. ASSUME NEW x \in 1 .. N PROVE Hashes(levels[x]) \subseteq Hashes(m[x])
  <2>1. CASE x = j
    <3>1. Entries(levels[x]) \subseteq Entries(m[x]) /\ x \in 1 .. M
      BY <1>0, <1>1, <2>1
    <3>2. Hashes(levels[x]) = {e.hash : e \in Entries(levels[x])} /\ Hashes(m[x]) = {e.hash : e \in Entries(m[x])}
      BY <1>2, <1>3, <3>1
    <3> QED BY <3>1, <3>2
  <2>2. CASE x # j
    BY <1>0, <1>1, <2>2
  <2> QED BY <2>1, <2>2
<1>6. ASSUME NEW x \in 1 .. M, NEW c \in Hashes(m[x])
      PROVE  \/ x = j /\ c = o.hash
             \/ x \in 1 .. N /\ c \in Hashes(levels[x])
  <2>1. CASE x # j
    BY <1>1, <2>1
  <2>2. CASE x = j
    <3>1. Hashes(m[j]) = {e.hash : e \in Entries(m[j])}
      BY <1>0, <1>3
    <3>2. PICK e \in Entries(m[j]) : c = e.hash
      BY <2>2, <3>1
    <3>3. CASE e = o
      BY <2>2, <3>2, <3>3
    <3>4. CASE e # o
      <4>1. j \in 1 .. N /\ e \in Entries(levels[j])
        BY <1>1, <3>4
      <4>2. Hashes(levels[j]) = {f.hash : f \in Entries(levels[j])}
        BY <1>2, <4>1
      <4> QED BY <2>2, <3>2, <4>1, <4>2
    <3> QED BY <3>3, <3>4
  <2> QED BY <2>1, <2>2
<1>7. o.hash \in HashesIn(m)
  <2>1. Hashes(m[j]) = {e.hash : e \in Entries(m[j])}
    BY <1>0, <1>3
  <2>2. o.hash \in Hashes(m[j])
    BY <1>1, <2>1
  <2> QED BY <1>0, <1>3, <2>2
<1>8. ASSUME NEW c \in HashesIn(levels) PROVE c \in HashesIn(m)
  <2>1. PICK x \in 1 .. N : c \in Hashes(levels[x])
    BY <1>2
  <2> QED BY <1>0, <1>3, <1>5, <2>1
<1>9. ASSUME NEW c \in HashesIn(m) PROVE c = o.hash \/ c \in HashesIn(levels)
  <2>1. PICK x \in 1 .. M : c \in Hashes(m[x])
    BY <1>3
  <2> QED BY <1>2, <1>6, <2>1
<1> QED BY <1>4, <1>5, <1>6, <1>7, <1>8, <1>9 DEF N, M

\* Where insert puts a block, by its number.
LEMMA InsertLevel ==
  ASSUME StateInv, NEW b \in Block, insert_block(b)
  PROVE  Number(b) = overlay.last_number + PushedTo(overlay.levels, level_of(overlay, b))
<1> DEFINE N == Len(overlay.levels)
           q == overlay.last_number
           i == level_of(overlay, b)
<1>0. N \in Nat /\ q \in Int /\ Number(b) \in Nat /\ overlay.levels \in LevelSeqs
  BY InvParts, OverlayFields, LevelsAre, NumberIs
<1>1. overlay.levels = <<>> => N = 0 /\ i = 1
  BY EmptySeq DEF level_of
<1>2. overlay.levels # <<>> => i = Number(b) - (q + 1) + 1
  BY DEF level_of, front_block_number
<1>3. CASE overlay.last_hash = NoBlock
  <2>1. b = Genesis /\ overlay.levels = <<>> /\ q = -1
    BY <1>3, InsertStepIs, InvParts DEF NoHead
  <2>2. Number(b) = 0
    BY <2>1, NumberIs
  <2> HIDE DEF N, q, i
  <2>3. PushedTo(overlay.levels, i) = 1
    BY <1>1, <2>1 DEF PushedTo, N
  <2> QED BY <2>1, <2>2, <2>3 DEF q, i
<1>4. CASE overlay.last_hash # NoBlock
  <2>1. Number(b) >= q + 1 /\ Number(b) <= (q + 1) + N
    BY <1>4 DEF insert_block, insertable, front_block_number
  <2>2. PushedTo(overlay.levels, i) = IF i \in 1 .. N THEN i ELSE N + 1
    BY DEF PushedTo
  <2> HIDE DEF N, q, i
  <2>3. CASE overlay.levels = <<>>
    <3>1. N = 0 /\ i = 1
      BY <1>1, <2>3
    <3>2. PushedTo(overlay.levels, i) = 1
      BY <2>2, <3>1
    <3> QED BY <1>0, <2>1, <3>1, <3>2 DEF q, i
  <2>4. CASE overlay.levels # <<>>
    <3>1. i = Number(b) - q /\ i \in Int /\ i >= 1 /\ i <= N + 1
      BY <1>0, <1>2, <2>1, <2>4
    <3>2. PushedTo(overlay.levels, i) = i
      BY <1>0, <2>2, <3>1
    <3> QED BY <1>0, <3>1, <3>2 DEF q, i
  <2> QED BY <2>3, <2>4
<1> QED BY <1>3, <1>4

\* insert_block adds a leaf to the tree.
LEMMA InsertTree ==
  ASSUME StateInv, TreeInv, NEW b \in Block, insert_block(b)
  PROVE  TreeInv'
<1> DEFINE o == NewEntry(overlay, b)
           x == insert_index(overlay, b)
           j == PushedTo(overlay.levels, level_of(overlay, b))
           q == overlay.last_number
           N == Len(overlay.levels)
           M == Len(overlay'.levels)
<1>1. /\ phase \in {"idle", "finalizing"} /\ phase' = "inserted" /\ db' = db /\ b \notin txn.headers
  BY DEF insert_block
<1>2. InsertShape(overlay', overlay, b) /\ InsertCommitShape(txn', txn, b)
  BY InsertStepIs
<1>3. /\ overlay' \in Overlays /\ overlay'.last_hash = overlay.last_hash /\ overlay'.last_number = q
      /\ overlay'.pending_canonicalizations = overlay.pending_canonicalizations
      /\ overlay'.pending_insertions = Append(overlay.pending_insertions, b)
      /\ overlay'.pinned_insertions = overlay.pinned_insertions
      /\ overlay'.values = insert_values(overlay.values, {b})
      /\ PushShape(overlay'.levels, overlay.levels, level_of(overlay, b), o)
  BY <1>2 DEF InsertShape
<1>4. /\ txn'.headers = txn.headers \cup {b}
      /\ \A r \in txn'.journal : r \in txn.journal \/ r = <<Number(b), x, b>>
  BY <1>2 DEF InsertCommitShape, NewRecord
<1>5. /\ overlay \in Overlays /\ overlay.levels \in LevelSeqs /\ overlay'.levels \in LevelSeqs
      /\ N \in Nat /\ M \in Nat /\ q \in Int /\ q >= -1 /\ x \in Nat /\ Number(b) \in Nat
      /\ InLevels(overlay) = HashesIn(overlay.levels) /\ InLevels(overlay') = HashesIn(overlay'.levels)
      /\ Held(overlay) \in SUBSET Block
  <2>1. /\ overlay \in Overlays /\ overlay.levels \in LevelSeqs /\ overlay'.levels \in LevelSeqs
        /\ q \in Nat \cup {-1}
    BY <1>3, InvParts, OverlayFields
  <2>2. q \in Int /\ q >= -1
    BY <2>1
  <2>3. x \in Nat /\ Number(b) \in Nat
    BY <2>1, InsertIndexType, NumberIs
  <2> HIDE DEF x, q
  <2> QED BY <1>3, <2>1, <2>2, <2>3, LevelsAre, HeldType
<1>6. o \in BlockOverlay /\ o.hash = b /\ o.index = x
  BY <1>5 DEF NewEntry, BlockOverlay
<1>7. Number(b) = q + j
  BY InsertLevel
<1> HIDE DEF o, x
<1>8. AtEndOf(overlay'.levels, overlay.levels, j, o)
  BY <1>3, <1>5, <1>6, PushTree
<1> HIDE DEF j
<1>9. /\ HashesIn(overlay'.levels) = HashesIn(overlay.levels) \cup {b}
      /\ \A e \in AllEntries(overlay'.levels) : e = o \/ e \in AllEntries(overlay.levels)
      /\ \A y \in 1 .. N : Hashes(overlay.levels[y]) \subseteq Hashes(overlay'.levels[y])
      /\ \A y \in 1 .. M : \A c \in Hashes(overlay'.levels[y]) :
              \/ y = j /\ c = b
              \/ y \in 1 .. N /\ c \in Hashes(overlay.levels[y])
  BY <1>5, <1>6, <1>8, PushedBlocks
<1>10. j \in 1 .. M /\ N <= M
  BY <1>8 DEF AtEndOf
<1>11. /\ Numbered(overlay.levels, q)
       /\ q = overlay.last_number
       /\ overlay.last_hash # NoBlock => Number(overlay.last_hash) = q
       /\ Links(overlay.levels, overlay.pending_canonicalizations, 0)
       /\ InLevels(overlay) \cap Retained(overlay) = {} /\ CountedAs(overlay.values, Held(overlay))
       /\ Held(overlay) \subseteq txn.headers /\ db.headers \subseteq txn.headers
       /\ phase # "committed" => Held(overlay) \ ToSet(overlay.pending_insertions) \subseteq db.headers
       /\ JournalNumbered(db) /\ JournalNumbered(txn)
       /\ Matches(overlay.levels, db) /\ Matches(overlay.levels, txn)
  BY DEF TreeInv
<1> HIDE DEF q, N, M
<1>12. b \notin Held(overlay) /\ b \notin InLevels(overlay) /\ b \notin HashesIn(overlay.levels)
  BY <1>1, <1>5, <1>11 DEF Held
<1>13. \A c : c \in HashesIn(overlay.levels) <=> \E y \in 1 .. N : c \in Hashes(overlay.levels[y])
  BY <1>5, HashesOfEntries DEF N
<1>14. Numbered(overlay'.levels, q)
  <2> SUFFICES ASSUME NEW y \in 1 .. M, NEW c \in Hashes(overlay'.levels[y]) PROVE Number(c) = q + y
    BY DEF Numbered, M
  <2>1. CASE y = j /\ c = b
    BY <1>7, <2>1
  <2>2. CASE y \in 1 .. N /\ c \in Hashes(overlay.levels[y])
    BY <1>11, <2>2 DEF Numbered, N
  <2> QED BY <1>9, <2>1, <2>2
<1>15. Links(overlay'.levels, overlay'.pending_canonicalizations, 0)
  <2> DEFINE p == overlay.pending_canonicalizations
  <2>1. p \in Seq(Block) /\ Len(p) <= N /\ Len(p) \in Nat
    BY InvParts, OverlayFields, LenProperties DEF Room, N
  <2>2. ASSUME NEW y \in 0 + 1 .. Len(p) PROVE p[y] \in Hashes(overlay'.levels[y - 0])
    <3>1. y - 0 = y /\ y \in 1 .. N
      BY <1>5, <2>1
    <3>2. p[y] \in Hashes(overlay.levels[y - 0])
      BY <1>11 DEF Links
    <3> QED BY <1>9, <3>1, <3>2
  <2> QED BY <1>3, <1>11, <2>2 DEF Links
<1>16. Retained(overlay') = Retained(overlay)
  BY <1>3 DEF Retained
<1>17. Held(overlay') = Held(overlay) \cup {b} /\ InLevels(overlay') \cap Retained(overlay') = {}
  BY <1>5, <1>9, <1>11, <1>12, <1>16 DEF Held
<1>18. CountedAs(overlay'.values, Held(overlay'))
  <2>1. {b} \in SUBSET Block /\ Held(overlay) \cap {b} = {}
    BY <1>12
  <2>2. CountedAs(insert_values(overlay.values, {b}), Held(overlay) \cup {b})
    BY <1>5, <1>11, <2>1, CountInserted
  <2> QED BY <1>3, <1>17, <2>2
<1>19. overlay.pending_insertions = <<>> /\ overlay'.pending_insertions = <<b>>
  <2>1. overlay.pending_insertions = <<>>
    BY <1>1, InvParts DEF Phased
  <2> QED BY <1>3, <2>1
<1>20. Held(overlay') \ ToSet(overlay'.pending_insertions) \subseteq db'.headers
  <2>1. ToSet(overlay.pending_insertions) = {}
    BY <1>19, NothingPending
  <2>2. b \in ToSet(overlay'.pending_insertions)
    BY <1>19 DEF ToSet
  <2> QED BY <1>1, <1>11, <1>17, <2>1, <2>2
<1>21. /\ \A r \in txn.journal : r[3] # b
       /\ \A r \in db.journal : r[3] # b
       /\ \A e \in AllEntries(overlay.levels) : e.hash # b
  <2>1. \A e \in AllEntries(overlay.levels) : e.hash \in HashesIn(overlay.levels)
    BY <1>5, HashesOfEntries
  <2> QED BY <1>1, <1>11, <1>12, <2>1 DEF JournalNumbered
<1> DEFINE new == <<Number(b), x, b>>
<1>22. new[1] = Number(b) /\ new[2] = x /\ new[3] = b
  OBVIOUS
<1> HIDE DEF new
<1>23. JournalNumbered(txn')
  <2>0. \A r \in txn'.journal : r \in txn.journal \/ r = new
    BY <1>4 DEF new
  <2>1. ASSUME NEW r \in txn'.journal PROVE r[1] = Number(r[3]) /\ r[3] \in txn'.headers
    <3>1. CASE r \in txn.journal
      BY <1>4, <1>11, <3>1 DEF JournalNumbered
    <3>2. CASE r = new
      BY <1>4, <1>22, <3>2
    <3> QED BY <2>0, <3>1, <3>2
  <2>2. ASSUME NEW r \in txn'.journal, NEW s \in txn'.journal, r[3] = s[3] PROVE r[2] = s[2]
    <3>1. CASE r \in txn.journal /\ s \in txn.journal
      BY <1>11, <2>2, <3>1 DEF JournalNumbered
    <3>2. CASE r = new /\ s = new
      BY <3>2
    <3>3. CASE r = new /\ s \in txn.journal
      BY <1>21, <1>22, <2>2, <3>3
    <3>4. CASE r \in txn.journal /\ s = new
      BY <1>21, <1>22, <2>2, <3>4
    <3> QED BY <2>0, <3>1, <3>2, <3>3, <3>4
  <2> QED BY <2>1, <2>2 DEF JournalNumbered
<1>24. Matches(overlay'.levels, db')
  <2> SUFFICES ASSUME NEW e \in AllEntries(overlay'.levels), NEW r \in db.journal, r[3] = e.hash
               PROVE  r[2] = e.index
    BY <1>1 DEF Matches
  <2>1. e # o
    BY <1>6, <1>21
  <2> QED BY <1>9, <1>11, <2>1 DEF Matches
<1>25. Matches(overlay'.levels, txn')
  <2>0. \A r \in txn'.journal : r \in txn.journal \/ r = new
    BY <1>4 DEF new
  <2> SUFFICES ASSUME NEW e \in AllEntries(overlay'.levels), NEW r \in txn'.journal, r[3] = e.hash
               PROVE  r[2] = e.index
    BY DEF Matches
  <2>1. CASE e = o
    <3>1. r = new
      BY <1>6, <1>21, <2>0, <2>1
    <3> QED BY <1>6, <1>22, <2>1, <3>1
  <2>2. CASE e # o
    <3>1. e \in AllEntries(overlay.levels) /\ r # new
      BY <1>9, <1>21, <1>22, <2>2
    <3> QED BY <1>11, <2>0, <3>1 DEF Matches
  <2> QED BY <2>1, <2>2
<1>27. PendingAlone(overlay')
  <2>1. overlay'.pending_insertions[1] = b
    BY <1>19
  <2>2. ASSUME NEW y \in 1 .. M, NEW z \in DOMAIN overlay'.levels[y], overlay'.levels[y][z].hash = b
        PROVE  z = Len(overlay'.levels[y])
    <3> SUFFICES ASSUME z # Len(overlay'.levels[y]) PROVE FALSE
      OBVIOUS
    <3>1. y \in 1 .. N /\ overlay'.levels[y][z] \in Entries(overlay.levels[y])
      <4>1. CASE y = j
        BY <1>8, <4>1 DEF AtEndOf, N
      <4>2. CASE y # j
        BY <1>8, <4>2 DEF AtEndOf, Entries, N, M
      <4> QED BY <4>1, <4>2
    <3>2. overlay'.levels[y][z] \in AllEntries(overlay.levels)
      BY <3>1 DEF AllEntries, N
    <3> QED BY <1>21, <2>2, <3>2
  <2> QED BY <2>1, <2>2 DEF PendingAlone, M
<1>28. Held(overlay') \subseteq txn'.headers /\ db'.headers \subseteq txn'.headers
  BY <1>1, <1>4, <1>11, <1>17
<1>29. /\ Numbered(overlay'.levels, overlay'.last_number)
       /\ overlay'.last_hash # NoBlock => Number(overlay'.last_hash) = overlay'.last_number
       /\ JournalNumbered(db')
  BY <1>1, <1>3, <1>11, <1>14 DEF q
<1> QED BY <1>15, <1>17, <1>18, <1>20, <1>23, <1>24, <1>25, <1>27, <1>28, <1>29 DEF TreeInv

\* Every step keeps the tree in order.
LEMMA NextTree ==
  ASSUME StateInv, TreeKept, [Next]_vars
  PROVE  TreeKept'
<1> SUFFICES ASSUME "disorder" \notin past' PROVE TreeInv'
  BY DEF TreeKept
<1>p. TreeInv /\ (revert_pending => in_order(overlay))
  BY PastGrows, UndoneNoted DEF TreeKept
<1>1. CASE UNCHANGED vars
  BY <1>1, <1>p DEF vars, TreeInv
<1>2. ASSUME NEW b \in Block, canonicalize_block(b) PROVE TreeInv'
  BY <1>2, <1>p, CanonicalizeTree
<1>3. ASSUME NEW b \in Block, insert_block(b) PROVE TreeInv'
  BY <1>3, <1>p, InsertTree
<1>4. ASSUME NEW b \in Block, revert_one(b) PROVE TreeInv'
  BY <1>4, <1>p, RevertOneTree
<1>5. ASSUME NEW b \in Block, have_state_at(b) \/ pin(b) \/ unpin(b) PROVE TreeInv'
  BY <1>5, <1>p, ReadersTree
<1>6. CASE commit
  BY <1>6, <1>p, CommitTree
<1>7. CASE apply_pending
  BY <1>7, <1>p, ApplyTree
<1>8. CASE revert_pending
  BY <1>8, <1>p, RevertTree
<1>9. CASE restart
  BY <1>9, <1>p, RestartTree
<1> QED BY <1>1, <1>2, <1>3, <1>4, <1>5, <1>6, <1>7, <1>8, <1>9 DEF Next

\* ReferencesCounted: the reference counter of every value is the number of
\* the blocks in memory that insert it, whatever is imported, canonicalized,
\* undone, reverted, pinned, unpinned and lost in a restart, in whatever order,
\* as long as revert_insertions meets the levels it expects.
THEOREM ReferencesCountedCorrect == Spec => []ReferencesCounted
<1>1. Init => StateInv /\ TreeKept
  BY InitInv, InitTree DEF TreeKept
<1>2. (StateInv /\ TreeKept) /\ [Next]_vars => (StateInv /\ TreeKept)'
  BY NextKeeps, NextTree
<1>3. TreeKept => ReferencesCounted
  BY DEF TreeKept, TreeInv, ReferencesCounted, CountedAs, Held
<1> QED BY <1>1, <1>2, <1>3, PTL DEF Spec

-----------------------------------------------------------------------------
(* The states of the pruning window                                        *)

\* No key of a row is in the state of its block or of a later one.
AllDead(w) == \A m \in 1 .. NumRows(w) : Dead(w, m)

\* The states of the blocks of rows a to e are in the data of d.
RowsStored(d, w, a, e) == \A i \in a .. e : State[w.death_rows[i].hash] \subseteq d.data

\* So is the state of its last canonical block, whether it has a row or not.
Stored(d, w, a, e) == StateOf(d.last_hash) \subseteq d.data /\ RowsStored(d, w, a, e)

\* The database has the states of all blocks that have not left the window, and
\* the transaction those of the blocks that it leaves there.
StoreInv ==
  /\ AllDead(window)
  /\ Stored(txn, window, window.pending_prunings + 1, NumRows(window))
  /\ phase # "committed" => Stored(db, window, 1, Settled(window))

\* A window that has lost keys to later insertions alone deletes nothing that a
\* later block needs.
LEMMA FullAllDead ==
  ASSUME NEW w \in RefWindows, Full(w), Linked(w)
  PROVE  AllDead(w)
<1> DEFINE N == NumRows(w)
           h(i) == w.death_rows[i].hash
<1>0. N \in Nat /\ \A i \in 1 .. N : h(i) \in Block /\ w.death_rows[i].deleted \in SUBSET Key
  BY WindowFields
<1>1. ASSUME NEW i \in 1 .. N, NEW k \in w.death_rows[i].deleted
      PROVE  \A m \in i .. N : k \notin State[h(m)]
  <2>1. k \in Key
    BY <1>0, <1>1
  <2>2. k \in Deleted(h(i)) /\ \A j \in i + 1 .. N : k \notin Inserted(h(j))
    BY <1>1, <2>1, FullDead
  <2> DEFINE S == {m \in Nat : m \in i .. N /\ k \notin State[h(m)]}
  <2>3. i \in Nat /\ N \in Nat /\ i \in i .. N
    BY <1>0
  <2>4. i \in S
    <3>1. k \notin State[h(i)]
      BY <1>0, <2>2, ChangesAre
    <3> QED BY <2>3, <3>1
  <2>5. ASSUME NEW m \in i .. N - 1, m \in S PROVE m + 1 \in S
    <3>1. m \in 1 .. N - 1 /\ m + 1 \in i + 1 .. N /\ m + 1 \in i .. N /\ m + 1 \in 1 .. N /\ m + 1 \in Nat
      BY <1>0
    <3>2. ParentOf(h(m + 1)) = h(m) /\ h(m + 1) \in Block /\ h(m) \in Block
      <4>1. m \in 1 .. N
        BY <1>0, <3>1
      <4> QED BY <1>0, <3>1, <4>1 DEF Linked
    <3>3. h(m + 1) # Genesis /\ Parent[h(m + 1)] = h(m)
      BY <3>2, BlockAssumption DEF ParentOf
    <3>4. State[h(m + 1)] \subseteq State[h(m)] \cup Inserted(h(m + 1))
      BY <3>2, <3>3, ChangesAre
    <3>5. k \notin State[h(m)] /\ k \notin Inserted(h(m + 1))
      BY <2>2, <2>5, <3>1
    <3> QED BY <3>1, <3>4, <3>5
  <2>6. \A m \in i .. N : m \in S
    <3> HIDE DEF S, N
    <3> QED BY <2>3, <2>4, <2>5, UpTo
  <2> QED BY <2>6
<1>2. ASSUME NEW m \in 1 .. N, NEW i \in 1 .. m PROVE w.death_rows[i].deleted \cap State[h(m)] = {}
  <2>1. i \in 1 .. N /\ m \in i .. N
    BY <1>0
  <2> HIDE DEF N, h
  <2> QED BY <1>1, <2>1
<1> QED BY <1>2 DEF AllDead, Dead

\* Rows that are the same up to row e are as dead.
LEMMA DeadSame ==
  ASSUME NEW w, NEW v, NEW a \in Nat, NEW m \in Nat, \A i \in 1 .. m : v.death_rows[i] = w.death_rows[a + i],
         m > 0, Dead(w, a + m)
  PROVE  Dead(v, m)
<1> SUFFICES ASSUME NEW i \in 1 .. m PROVE v.death_rows[i].deleted \cap State[v.death_rows[m].hash] = {}
  BY DEF Dead
<1>1. v.death_rows[i] = w.death_rows[a + i] /\ v.death_rows[m] = w.death_rows[a + m]
  <2>1. m \in 1 .. m
    OBVIOUS
  <2> QED BY <2>1
<1>2. a + i \in 1 .. a + m
  OBVIOUS
<1>3. w.death_rows[a + i].deleted \cap State[w.death_rows[a + m].hash] = {}
  BY <1>2 DEF Dead
<1> QED BY <1>1, <1>3

\* A window whose rows are some of those of another one is as dead.
LEMMA AllDeadSame ==
  ASSUME NEW w \in RefWindows, NEW v \in RefWindows, AllDead(w), NEW a \in Nat, a + NumRows(v) <= NumRows(w),
         \A i \in 1 .. NumRows(v) : v.death_rows[i] = w.death_rows[a + i]
  PROVE  AllDead(v)
<1>0. NumRows(v) \in Nat /\ NumRows(w) \in Nat
  BY WindowFields
<1>1. ASSUME NEW m \in 1 .. NumRows(v) PROVE Dead(v, m)
  <2>1. m \in Nat /\ m > 0 /\ a + m \in 1 .. NumRows(w)
    BY <1>0
  <2>2. \A i \in 1 .. m : v.death_rows[i] = w.death_rows[a + i]
    BY <1>0
  <2>3. Dead(w, a + m)
    BY <2>1 DEF AllDead
  <2> QED BY <2>1, <2>2, <2>3, DeadSame
<1> QED BY <1>1 DEF AllDead

\* The blocks of the rows are what matters.
LEMMA StoredShift ==
  ASSUME NEW d, NEW w, NEW v, NEW a \in Nat, NEW e \in Nat, a <= e, NEW m, m = e - a,
         \A i \in 1 .. e - a : v.death_rows[i].hash = w.death_rows[a + i].hash,
         Stored(d, w, a + 1, e)
  PROVE  Stored(d, v, 1, m)
<1>1. ASSUME NEW i \in 1 .. m PROVE State[v.death_rows[i].hash] \subseteq d.data
  <2>1. a + i \in a + 1 .. e /\ v.death_rows[i].hash = w.death_rows[a + i].hash
    OBVIOUS
  <2>2. State[w.death_rows[a + i].hash] \subseteq d.data
    BY <2>1 DEF Stored, RowsStored
  <2> QED BY <2>1, <2>2
<1> QED BY <1>1 DEF Stored, RowsStored

\* canonicalize_block takes no key from a row that is still needed.
LEMMA CanonicalizeDead ==
  ASSUME StateInv, NEW b \in Block, NEW w, NEW n, CanonicalizeStep(b, w, n), AllDead(window)
  PROVE  AllDead(window')
<1> DEFINE N == NumRows(window)
<1>1. /\ N \in Nat /\ NumRows(window') = N + 1 /\ Dead(window', NumRows(window'))
      /\ \A i \in 1 .. N : /\ window'.death_rows[i].hash = window.death_rows[i].hash
                           /\ window'.death_rows[i].deleted = window.death_rows[i].deleted \ Inserted(b)
  BY InvParts, WindowFields DEF CanonicalizeStep, NoteShape, WindowOK
<1>2. ASSUME NEW m \in 1 .. N PROVE Dead(window', m)
  <2> SUFFICES ASSUME NEW i \in 1 .. m PROVE window'.death_rows[i].deleted \cap State[window'.death_rows[m].hash] = {}
    BY DEF Dead
  <2>1. i \in 1 .. N
    BY <1>1
  <2>2. window.death_rows[i].deleted \cap State[window.death_rows[m].hash] = {}
    BY DEF AllDead, Dead
  <2> QED BY <1>1, <2>1, <2>2
<1>3. ASSUME NEW m \in 1 .. N + 1 PROVE Dead(window', m)
  <2>1. m \in 1 .. N \/ m = N + 1
    BY <1>1
  <2> QED BY <1>1, <1>2, <2>1
<1> QED BY <1>1, <1>3 DEF AllDead

\* What canonicalize_block deletes is in no state that it leaves in the window.
LEMMA CanonicalizeStores ==
  ASSUME StateInv, NEW b \in Block, canonicalize_block(b), NEW w, NEW n, CanonicalizeStep(b, w, n),
         AllDead(window'), Stored(txn, window, window.pending_prunings + 1, NumRows(window))
  PROVE  Stored(txn', window', window'.pending_prunings + 1, NumRows(window'))
<1> DEFINE N == NumRows(window)
           pp == window.pending_prunings
           hw(i) == window.death_rows[i].hash
           hv(i) == window'.death_rows[i].hash
           rv(i) == window'.death_rows[i].deleted
           R == UNION {rv(i) : i \in pp + 1 .. pp + n}
<1>0. N \in Nat /\ pp \in Nat /\ pp <= N /\ n \in Nat /\ pp + n <= N + 1
  <2>1. window \in RefWindows /\ pp <= N
    BY InvParts DEF WindowOK
  <2> QED BY <2>1, WindowFields DEF CanonicalizeStep
<1>1. /\ NoteShape(window', window, b, n)
      /\ CanonicalizeCommitShape(txn', txn, b, w, n)
      /\ prunable_keys(w, n) = R
  BY DEF CanonicalizeStep
<1>2. /\ window'.pending_prunings = pp + n /\ NumRows(window') = N + 1
      /\ hv(N + 1) = b /\ \A i \in 1 .. N : hv(i) = hw(i)
  BY <1>1 DEF NoteShape
<1>3. txn'.data = (txn.data \cup Inserted(b)) \ R /\ txn'.last_hash = b
  BY <1>1 DEF CanonicalizeCommitShape, NotedDb
<1>4. b = Genesis => State[b] \subseteq Inserted(b)
  BY ChangesAre
<1>5. b # Genesis => State[b] \subseteq State[Parent[b]] \cup Inserted(b)
  BY ChangesAre
<1>6. State[b] \subseteq txn.data \cup Inserted(b)
  <2>1. ParentOf(b) = HeadOf(overlay) /\ txn.last_hash = HeadOf(overlay)
    BY InvParts, FollowsHead DEF canonicalize_block, TxnFollows
  <2>2. CASE b = Genesis
    BY <1>4, <2>2
  <2>3. CASE b # Genesis
    <3>1. txn.last_hash = Parent[b] /\ Parent[b] # NoBlock
      BY <2>1, <2>3, BlockAssumption DEF ParentOf
    <3>2. State[Parent[b]] \subseteq txn.data
      BY <3>1 DEF Stored, StateOf
    <3> QED BY <1>5, <2>3, <3>2
  <2> QED BY <2>2, <2>3
<1>7. ASSUME NEW m \in 1 .. N + 1, m >= pp + n PROVE R \cap State[hv(m)] = {}
  <2>1. Dead(window', m)
    BY <1>2, <1>7 DEF AllDead
  <2>2. ASSUME NEW i \in pp + 1 .. pp + n PROVE rv(i) \cap State[hv(m)] = {}
    <3>1. i \in 1 .. m
      <4> HIDE DEF N, pp
      <4> QED BY <1>0, <1>7, <2>2
    <3> QED BY <2>1, <3>1 DEF Dead
  <2> HIDE DEF rv, hv, N, pp
  <2> QED BY <2>2
<1>8. State[b] \subseteq txn'.data
  <2>1. N + 1 \in 1 .. N + 1 /\ N + 1 >= pp + n
    BY <1>0
  <2>2. R \cap State[b] = {}
    <3> HIDE DEF R, hv, N, pp
    <3> QED BY <1>2, <1>7, <2>1
  <2> HIDE DEF R
  <2> QED BY <1>3, <1>6, <2>2
<1>9. ASSUME NEW i \in pp + n + 1 .. N + 1 PROVE State[hv(i)] \subseteq txn'.data
  <2>1. CASE i = N + 1
    BY <1>2, <1>8, <2>1
  <2>2. CASE i # N + 1
    <3>1. i \in pp + 1 .. N /\ i \in 1 .. N /\ i \in 1 .. N + 1 /\ i >= pp + n
      <4> HIDE DEF N, pp
      <4> QED BY <1>0, <1>9, <2>2
    <3>2. State[hw(i)] \subseteq txn.data
      BY <3>1 DEF Stored, RowsStored
    <3>3. hv(i) = hw(i)
      BY <1>2, <3>1
    <3> HIDE DEF R, hv, hw, N, pp
    <3>4. R \cap State[hv(i)] = {}
      BY <1>7, <3>1
    <3> QED BY <1>3, <3>2, <3>3, <3>4
  <2> QED BY <2>1, <2>2
<1>10. StateOf(b) = State[b]
  BY BlockAssumption DEF StateOf
<1> QED BY <1>2, <1>3, <1>8, <1>9, <1>10 DEF Stored, RowsStored

\* What the database of a state has, whatever the phase.
LEMMA DbStored ==
  ASSUME StateInv, StoreInv
  PROVE  /\ Stored(db, window, RestartAfter + 1, RestartUpTo)
         /\ RestartAfter \in Nat /\ RestartUpTo \in Nat /\ RestartAfter <= RestartUpTo
<1>0. /\ NumRows(window) \in Nat /\ window.pending_prunings \in Nat
      /\ window.pending_prunings <= NumRows(window) /\ Settled(window) \in Nat
  BY InvParts, WindowFields DEF WindowOK, Settled
<1>1. CASE phase = "committed"
  <2>1. db = txn
    BY <1>1, InvParts DEF Phased
  <2>2. Stored(txn, window, window.pending_prunings + 1, NumRows(window))
    BY DEF StoreInv
  <2> QED BY <1>0, <1>1, <2>1, <2>2 DEF RestartAfter, RestartUpTo
<1>2. CASE phase # "committed"
  <2>1. Stored(db, window, 1, Settled(window)) /\ 0 + 1 = 1 /\ 0 <= Settled(window)
    BY <1>0, <1>2 DEF StoreInv
  <2> QED BY <1>0, <1>2, <2>1 DEF RestartAfter, RestartUpTo
<1> QED BY <1>1, <1>2

\* At first there is no block.
LEMMA InitStore ==
  ASSUME Init, StateInv
  PROVE  StoreInv
<1>1. db.last_hash = NoBlock /\ txn.last_hash = NoBlock /\ phase # "committed"
  BY DEF Init, EmptyDb
<1>2. window.pending_canonicalizations = 0 /\ window.pending_prunings = 0 /\ NumRows(window) = 0
  <2> DEFINE lp == -1
             h == <<>>
  <2>1. h \in Seq(Block) /\ Len(h) = 0 /\ lp \in Nat \cup {-1}
    BY EmptySeq
  <2>2. Consecutive(h) /\ Records(lp, h) = {}
    BY <2>1 DEF Consecutive, Records
  <2>3. window = NewWindow({}, lp)
    BY DEF Init
  <2> HIDE DEF lp, h
  <2>4. window = NewWindow(Records(lp, h), lp)
    BY <2>2, <2>3
  <2>5. WindowOf(window, lp, h, Len(h))
    BY <2>1, <2>2, <2>4, NewWindowIs
  <2> QED BY <2>1, <2>5 DEF WindowOf
<1>3. Settled(window) = 0
  BY <1>2 DEF Settled
<1>4. AllDead(window)
  BY <1>2 DEF AllDead
<1>5. StateOf(NoBlock) = {}
  BY DEF StateOf
<1>6. RowsStored(txn, window, 0 + 1, 0) /\ RowsStored(db, window, 1, 0)
  BY DEF RowsStored
<1> QED BY <1>1, <1>2, <1>3, <1>4, <1>5, <1>6 DEF StoreInv, Stored

\* Every step leaves the states of the window in place.
LEMMA NextStore ==
  ASSUME StateInv, StateInv', StoreInv, [Next]_vars
  PROVE  StoreInv'
<1>0. /\ NumRows(window) \in Nat /\ window.pending_prunings \in Nat /\ window \in RefWindows
      /\ window.pending_prunings <= NumRows(window) /\ Settled(window) \in Nat
      /\ Settled(window) <= NumRows(window)
  <2>1. window \in RefWindows /\ WindowOK(window)
    BY InvParts
  <2>2. NumRows(window) \in Nat /\ window.pending_prunings \in Nat /\ window.pending_canonicalizations \in Nat
    BY <2>1, WindowFields
  <2> QED BY <2>1, <2>2 DEF WindowOK, Settled
<1>i. /\ AllDead(window)
      /\ Stored(txn, window, window.pending_prunings + 1, NumRows(window))
      /\ phase # "committed" => Stored(db, window, 1, Settled(window))
  BY DEF StoreInv
<1>1. CASE UNCHANGED vars
  BY <1>1, <1>i DEF StoreInv, vars
<1>2. ASSUME NEW b \in Block, canonicalize_block(b) PROVE StoreInv'
  <2>1. PICK w, n : CanonicalizeStep(b, w, n)
    BY <1>2, CanonicalizeStepIs
  <2>2. NoteShape(window', window, b, n) /\ CanonShape(overlay', overlay, b) /\ WindowOK(window')
    BY <2>1 DEF CanonicalizeStep
  <2>d. AllDead(window')
    BY <1>i, <2>1, CanonicalizeDead
  <2>3. Stored(txn', window', window'.pending_prunings + 1, NumRows(window'))
    BY <1>2, <1>i, <2>1, <2>d, CanonicalizeStores
  <2>4. phase # "committed" /\ db' = db
    BY <1>2 DEF canonicalize_block
  <2>5. Settled(window') = Settled(window)
    BY <2>1, <2>2, InvParts, HeadsNoted DEF CanonicalizeStep
  <2>6. Stored(db', window', 1, Settled(window'))
    <3> DEFINE e == Settled(window)
    <3>1. e \in Nat /\ 0 <= e /\ e = e - 0 /\ 0 + 1 = 1 /\ 0 \in Nat
      BY <1>0
    <3>2. \A i \in 1 .. e : i \in 1 .. NumRows(window) /\ 0 + i = i
      BY <1>0, <2>5
    <3>3. \A i \in 1 .. e - 0 : window'.death_rows[i].hash = window.death_rows[0 + i].hash
      BY <2>2, <3>1, <3>2 DEF NoteShape
    <3>4. Stored(db, window, 0 + 1, e)
      BY <1>i, <2>4, <3>1
    <3>5. Settled(window') = e
      BY <2>5
    <3> HIDE DEF e
    <3>6. Stored(db, window', 1, e)
      BY <3>1, <3>3, <3>4, StoredShift
    <3> QED BY <2>4, <3>5, <3>6
  <2> QED BY <2>d, <2>3, <2>6 DEF StoreInv
<1>3. ASSUME NEW b \in Block, insert_block(b) PROVE StoreInv'
  <2>1. InsertCommitShape(txn', txn, b)
    BY <1>3, InsertStepIs
  <2>2. UNCHANGED <<window, db>> /\ phase # "committed"
    BY <1>3 DEF insert_block
  <2> QED BY <1>i, <2>1, <2>2 DEF StoreInv, Stored, RowsStored, InsertCommitShape
<1>4. ASSUME NEW b \in Block, revert_one(b) PROVE StoreInv'
  <2>1. DropDb(db', b) /\ txn' = db' /\ UNCHANGED window /\ db = txn /\ phase # "committed"
    BY <1>4, RevertOneStepIs
  <2> QED BY <1>i, <2>1 DEF StoreInv, Stored, RowsStored, DropDb
<1>5. ASSUME NEW b \in Block, have_state_at(b) \/ pin(b) \/ unpin(b) PROVE StoreInv'
  <2>1. UNCHANGED <<window, db, txn, phase>>
    BY <1>5, ReadersKeep
  <2> QED BY <1>i, <2>1 DEF StoreInv
<1>6. CASE commit
  BY <1>6, <1>i DEF commit, StoreInv
<1>7. CASE apply_pending
  <2> DEFINE a == window.pending_prunings
             e == NumRows(window)
  <2>1. ShiftShape(window', window, a) /\ WindowOK(window') /\ UNCHANGED <<db, txn>> /\ db = txn
    BY <1>7, ApplyStepIs
  <2>2. /\ window'.pending_prunings = 0 /\ window'.pending_canonicalizations = 0
        /\ NumRows(window') = e - a /\ window' \in RefWindows
        /\ \A i \in 1 .. e - a : window'.death_rows[i] = window.death_rows[a + i]
    BY <2>1 DEF ShiftShape, WindowOK
  <2>3. a \in Nat /\ e \in Nat /\ a <= e /\ Stored(txn, window, a + 1, e) /\ a + (e - a) <= e
    BY <1>0, <1>i
  <2>d. AllDead(window')
    BY <1>0, <1>i, <2>2, <2>3, AllDeadSame
  <2> HIDE DEF a, e
  <2>h. \A i \in 1 .. e - a : window'.death_rows[i].hash = window.death_rows[a + i].hash
    BY <2>2
  <2>4. Stored(txn, window', 1, NumRows(window'))
    BY <2>2, <2>3, <2>h, StoredShift
  <2>5. window'.pending_prunings + 1 = 1 /\ Settled(window') = NumRows(window')
    BY <2>2, <2>3 DEF Settled
  <2> QED BY <2>1, <2>d, <2>4, <2>5 DEF StoreInv
<1>8. CASE revert_pending
  <2> DEFINE e == Settled(window)
  <2>1. /\ WindowOK(window') /\ window'.pending_canonicalizations = 0 /\ window'.pending_prunings = 0
        /\ NumRows(window') = e
        /\ \A i \in 1 .. e : window'.death_rows[i] = window.death_rows[i]
        /\ phase # "committed" /\ txn' = db /\ db' = db
    BY <1>8, RevertStepIs
  <2>2. e \in Nat /\ 0 \in Nat /\ 0 <= e /\ e - 0 = e /\ 0 + 1 = 1 /\ 0 + e <= NumRows(window)
        /\ \A i \in 1 .. e : 0 + i = i
    BY <1>0
  <2>3. window' \in RefWindows /\ Stored(db, window, 0 + 1, e)
    BY <1>i, <2>1, <2>2 DEF WindowOK
  <2>4. Settled(window') = e /\ window'.pending_prunings + 1 = 1
    BY <2>1, <2>2 DEF Settled
  <2> HIDE DEF e
  <2>5. \A i \in 1 .. e : window'.death_rows[i] = window.death_rows[0 + i]
    BY <2>1, <2>2
  <2>d. AllDead(window')
    BY <1>0, <1>i, <2>1, <2>2, <2>3, <2>5, AllDeadSame
  <2>6. Stored(db, window', 1, e)
    <3>1. \A i \in 1 .. e - 0 : window'.death_rows[i].hash = window.death_rows[0 + i].hash
      BY <2>2, <2>5
    <3> QED BY <2>2, <2>3, <3>1, StoredShift
  <2> QED BY <2>1, <2>d, <2>4, <2>6 DEF StoreInv
<1>9. CASE restart
  <2> DEFINE a == RestartAfter
             e == RestartUpTo
  <2>1. /\ Full(window') /\ WindowOK(window') /\ txn' = db /\ db' = db
        /\ window'.pending_prunings = 0 /\ window'.pending_canonicalizations = 0
        /\ NumRows(window') = e - a
        /\ \A i \in 1 .. e - a : window'.death_rows[i].hash = window.death_rows[a + i].hash
    BY <1>9, RestartStepIs
  <2>2. Stored(db, window, a + 1, e) /\ a \in Nat /\ e \in Nat /\ a <= e
    BY DbStored
  <2>d. AllDead(window')
    BY <2>1, FullAllDead DEF WindowOK
  <2> HIDE DEF a, e
  <2>3. Stored(db, window', 1, NumRows(window'))
    BY <2>1, <2>2, StoredShift
  <2>4. window'.pending_prunings + 1 = 1 /\ Settled(window') = NumRows(window')
    BY <2>1, <2>2 DEF Settled
  <2> QED BY <2>1, <2>d, <2>3, <2>4 DEF StoreInv
<1> QED BY <1>1, <1>2, <1>3, <1>4, <1>5, <1>6, <1>7, <1>8, <1>9 DEF Next

\* The first block that is to be canonicalized follows the last canonical one.
Rooted ==
  overlay.pending_canonicalizations # <<>> =>
    ParentOf(overlay.pending_canonicalizations[1]) = overlay.last_hash

\* Between operations nothing is to be canonicalized.
LEMMA IdleEmpty ==
  ASSUME StateInv, phase = "idle"
  PROVE  overlay.pending_canonicalizations = <<>>
<1>1. window.pending_canonicalizations = 0
  BY InvParts DEF Phased
<1>2. Len(overlay.pending_canonicalizations) = 0 /\ overlay.pending_canonicalizations \in Seq(Block)
  BY <1>1, InvParts, OverlayFields DEF Heads
<1> QED BY <1>2, EmptySeq

\* Every step keeps to the chain.
LEMMA NextRooted ==
  ASSUME StateInv, StateInv', Rooted, [Next]_vars
  PROVE  Rooted'
<1> DEFINE p == overlay.pending_canonicalizations
<1>i. phase' = "idle" => overlay'.pending_canonicalizations = <<>>
  <2>1. (StateInv /\ phase = "idle" => overlay.pending_canonicalizations = <<>>)'
    BY IdleEmpty, PTL
  <2> QED BY <2>1
<1>1. CASE phase' = "idle"
  BY <1>1, <1>i DEF Rooted
<1>2. CASE UNCHANGED vars
  BY <1>2 DEF vars, Rooted
<1>3. ASSUME NEW b \in Block, canonicalize_block(b) PROVE Rooted'
  <2>1. PICK w, n : CanonicalizeStep(b, w, n)
    BY <1>3, CanonicalizeStepIs
  <2>2. overlay'.pending_canonicalizations = Append(p, b) /\ overlay'.last_hash = overlay.last_hash
    BY <2>1 DEF CanonicalizeStep, CanonShape
  <2>3. p \in Seq(Block) /\ Len(p) \in Nat
    BY InvParts, OverlayFields, LenProperties
  <2>4. ParentOf(b) = canonical_head
    BY <1>3 DEF canonicalize_block
  <2>5. CASE p = <<>>
    <3>1. Append(p, b)[1] = b
      BY <2>5
    <3> QED BY <2>2, <2>4, <2>5, <3>1 DEF Rooted, canonical_head
  <2>6. CASE p # <<>>
    <3>1. Len(p) # 0
      BY <2>3, <2>6, EmptySeq
    <3>2. 1 \in 1 .. Len(p)
      BY <2>3, <3>1
    <3>3. Append(p, b)[1] = p[1]
      BY <2>3, <3>2, AppendProperties
    <3> QED BY <2>2, <2>6, <3>3 DEF Rooted
  <2> QED BY <2>5, <2>6
<1>4. ASSUME NEW b \in Block, insert_block(b) PROVE Rooted'
  <2>1. InsertShape(overlay', overlay, b)
    BY <1>4, InsertStepIs
  <2> QED BY <2>1 DEF Rooted, InsertShape
<1>5. ASSUME NEW b \in Block, revert_one(b) PROVE Rooted'
  <2>1. phase' = "idle"
    BY <1>5 DEF revert_one
  <2> QED BY <1>1, <2>1
<1>6. ASSUME NEW b \in Block, have_state_at(b) \/ pin(b) \/ unpin(b) PROVE Rooted'
  <2>1. SamePart(overlay', overlay)
    BY <1>6, ReadersKeep
  <2> QED BY <2>1 DEF Rooted, SamePart
<1>7. CASE commit
  BY <1>7 DEF commit, Rooted
<1>8. CASE apply_pending \/ revert_pending \/ restart
  <2>1. phase' = "idle"
    BY <1>8 DEF apply_pending, revert_pending, restart
  <2> QED BY <1>1, <2>1
<1> QED BY <1>2, <1>3, <1>4, <1>5, <1>6, <1>7, <1>8 DEF Next

\* What a block in memory inserts can be read.
LEMMA HeldReadable ==
  ASSUME StateInv, TreeInv, NEW b \in Held(overlay), NEW k \in Inserted(b)
  PROVE  Available(k)
<1> DEFINE H == Held(overlay)
           C == {c \in H : k \in Inserted(c)}
<1>1. H \in SUBSET Block /\ b \in Block /\ k \in Key
  BY InvParts, HeldType, ChangesAre
<1>2. IsFiniteSet(C)
  <2>1. C \in SUBSET Block
    BY <1>1
  <2> HIDE DEF C
  <2> QED BY <2>1, BlockAssumption, FS_Subset
<1>3. overlay.values[k] = Cardinality(C)
  BY <1>1 DEF TreeInv, CountedAs
<1>4. b \in C
  OBVIOUS
<1> HIDE DEF C, H
<1>5. Cardinality(C) \in Nat /\ Cardinality(C) # 0
  BY <1>2, <1>4, FS_CardinalityType, FS_EmptySet
<1> QED BY <1>3, <1>5 DEF Available, have_value

\* The blocks that are to be canonicalized can be read before they are.
LEMMA PendingReadable ==
  ASSUME StateInv, TreeInv, StoreInv, Rooted, phase # "committed"
  PROVE  \A j \in 1 .. Len(overlay.pending_canonicalizations) : Readable(overlay.pending_canonicalizations[j])
<1> DEFINE p == overlay.pending_canonicalizations
           L == Len(p)
           S == {j \in 0 .. L : j > 0 => Readable(p[j])}
<1>0. /\ p \in Seq(Block) /\ L \in Nat /\ Len(overlay.levels) \in Nat /\ L <= Len(overlay.levels)
      /\ overlay.levels \in LevelSeqs
  BY InvParts, OverlayFields, LenProperties, LevelsAre DEF Room
<1>1. ASSUME NEW j \in 1 .. L PROVE p[j] \in Block /\ p[j] \in Held(overlay)
  <2>1. j \in 0 + 1 .. L /\ j - 0 = j /\ j \in 1 .. Len(overlay.levels)
    BY <1>0
  <2>2. p[j] \in Hashes(overlay.levels[j])
    BY <2>1 DEF TreeInv, Links
  <2>3. p[j] \in HashesIn(overlay.levels)
    BY <1>0, <2>1, <2>2, HashesOfEntries
  <2> QED BY <2>3, InvParts, HeldType DEF Held
<1>2. ASSUME NEW j \in 1 .. L, \/ j = 1
                               \/ j - 1 \in 1 .. L /\ Readable(p[j - 1])
      PROVE  Readable(p[j])
  <2> SUFFICES ASSUME NEW k \in State[p[j]] PROVE Available(k)
    BY DEF Readable
  <2>0. p[j] \in Block /\ p[j] \in Held(overlay)
    BY <1>1
  <2>1. CASE k \in Inserted(p[j])
    BY <2>0, <2>1, HeldReadable
  <2>2. CASE k \notin Inserted(p[j])
    <3>1. p[j] # Genesis /\ k \in State[Parent[p[j]]]
      BY <2>0, <2>2, ChangesAre
    <3>2. ParentOf(p[j]) = Parent[p[j]]
      BY <3>1 DEF ParentOf
    <3>3. CASE j = 1
      <4>1. p # <<>>
        BY <1>0
      <4>2. Parent[p[j]] = overlay.last_hash
        BY <3>2, <3>3, <4>1 DEF Rooted
      <4>3. db.last_hash = overlay.last_hash
        BY InvParts DEF DbFollows
      <4>4. Parent[p[j]] \in Block
        BY <2>0, <3>1, BlockAssumption
      <4>5. StateOf(db.last_hash) = State[Parent[p[j]]]
        BY <4>2, <4>3, <4>4, BlockAssumption DEF StateOf
      <4>6. StateOf(db.last_hash) \subseteq db.data
        BY DEF StoreInv, Stored
      <4> QED BY <3>1, <4>5, <4>6 DEF Available
    <3>4. CASE j # 1
      <4>1. j \in 0 + 2 .. L
        BY <1>0, <3>4
      <4>2. ParentOf(p[j]) = p[j - 1]
        BY <4>1 DEF TreeInv, Links
      <4>3. Readable(p[j - 1])
        BY <1>2, <3>4
      <4> QED BY <3>1, <3>2, <4>2, <4>3 DEF Readable
    <3> QED BY <3>3, <3>4
  <2> QED BY <2>1, <2>2
<1> HIDE DEF p
<1>3. 0 \in S
  BY <1>0
<1>4. ASSUME NEW j \in 0 .. L - 1, j \in S PROVE j + 1 \in S
  <2>1. j + 1 \in 1 .. L /\ (j + 1) - 1 = j /\ j + 1 \in 0 .. L /\ (j # 0 => j \in 1 .. L /\ j > 0)
    BY <1>0
  <2>2. j # 0 => Readable(p[j])
    BY <1>4, <2>1
  <2>3. j = 0 => j + 1 = 1
    OBVIOUS
  <2>4. Readable(p[j + 1])
    <3>1. CASE j = 0
      BY <1>2, <2>1, <2>3, <3>1
    <3>2. CASE j # 0
      BY <1>2, <2>1, <2>2, <3>2
    <3> QED BY <3>1, <3>2
  <2> QED BY <2>1, <2>4
<1>5. \A j \in 0 .. L : j \in S
  <2>1. 0 \in Nat
    OBVIOUS
  <2> HIDE DEF S, L
  <2> QED BY <1>0, <1>3, <1>4, <2>1, UpTo
<1>6. ASSUME NEW j \in 1 .. L PROVE Readable(p[j])
  <2>1. j \in 0 .. L /\ j > 0
    BY <1>0
  <2>2. j \in S
    BY <1>5, <2>1
  <2> QED BY <2>1, <2>2
<1> QED BY <1>6 DEF p, L

\* A row after the settled ones is one of the last c.
LEMMA Offset ==
  ASSUME NEW i \in Int, NEW s \in Int, NEW m \in Int, NEW c \in Int, s = m - c, i <= m, i > s
  PROVE  i - s \in 1 .. c /\ s + (i - s) = i
OBVIOUS

\* All the blocks of the pruning window that are not marked can be read.
LEMMA WindowReadable ==
  ASSUME StateInv, TreeInv, StoreInv, Rooted
  PROVE  CanonicalReadable
<1> SUFFICES ASSUME NEW b \in Block, Number(b) <= best_canonical, ~is_pruned(b) PROVE Readable(b)
  BY DEF CanonicalReadable
<1>w. window_have_block(window, b)
  <2>1. overlay.last_number \in Int /\ Len(overlay.pending_canonicalizations) \in Nat
    BY InvParts, OverlayFields, LenProperties
  <2>2. best_canonical \in Int
    BY <2>1 DEF best_canonical, last_canonicalized_block_number
  <2>3. ~(Number(b) > best_canonical)
    BY <2>2, NumberIs
  <2> QED BY <2>3 DEF is_pruned
<1> DEFINE N == NumRows(window)
           pp == window.pending_prunings
           s == Settled(window)
<1>1. PICK i \in pp + 1 .. N : window.death_rows[i].hash = b
  BY <1>w DEF window_have_block, NumRows
<1>0. /\ N \in Nat /\ pp \in Nat /\ window.pending_canonicalizations \in Nat /\ s \in Nat
      /\ s = N - window.pending_canonicalizations
      /\ window.pending_canonicalizations = Len(overlay.pending_canonicalizations)
  <2>1. window \in RefWindows /\ WindowOK(window) /\ Heads(window, overlay)
    BY InvParts
  <2>2. N \in Nat /\ pp \in Nat /\ window.pending_canonicalizations \in Nat
    BY <2>1, WindowFields
  <2> QED BY <2>1, <2>2 DEF WindowOK, Settled, Heads
<1>2. CASE phase = "committed"
  <2>1. db = txn
    BY <1>2, InvParts DEF Phased
  <2>2. State[b] \subseteq txn.data
    BY <1>1 DEF StoreInv, Stored, RowsStored
  <2> QED BY <2>1, <2>2 DEF Readable, Available
<1>3. CASE phase # "committed" /\ i <= s
  <2>1. i \in 1 .. s
    BY <1>0, <1>1, <1>3
  <2>2. State[b] \subseteq db.data
    BY <1>1, <1>3, <2>1 DEF StoreInv, Stored, RowsStored
  <2> QED BY <2>2 DEF Readable, Available
<1>4. CASE phase # "committed" /\ i > s
  <2>1. i - s \in 1 .. Len(overlay.pending_canonicalizations) /\ s + (i - s) = i
    <3> DEFINE c == window.pending_canonicalizations
    <3>1. c \in Int /\ N \in Int /\ s \in Int /\ s = N - c /\ c = Len(overlay.pending_canonicalizations)
      BY <1>0
    <3>2. i \in Int /\ i <= N /\ i > s
      BY <1>0, <1>1, <1>4
    <3> HIDE DEF N, pp, s, c
    <3>3. i - s \in 1 .. c /\ s + (i - s) = i
      BY <3>1, <3>2, Offset
    <3> QED BY <3>1, <3>3
  <2>2. b = overlay.pending_canonicalizations[i - s]
    BY <1>1, <2>1, InvParts DEF Heads
  <2> QED BY <1>4, <2>1, <2>2, PendingReadable
<1> QED BY <1>0, <1>1, <1>2, <1>3, <1>4

\* The states of the pruning window stay complete in the database, whatever
\* fails, crashes and is reverted: what prune_one deletes is in no state that is
\* left, and what a failed operation has taken out of the death rows is only
\* kept too long.
THEOREM StatesStored == Spec => []StoreInv
<1>1. Init => StateInv /\ StoreInv
  BY InitInv, InitStore
<1>2. (StateInv /\ StoreInv) /\ [Next]_vars => (StateInv /\ StoreInv)'
  BY NextKeeps, NextStore
<1> QED BY <1>1, <1>2, PTL DEF Spec

\* The state of a canonical block that is_pruned does not report can be read as
\* a whole at any moment, from the moment the block is canonicalized in memory,
\* over the commit and the application of the operation, until it is pruned.
THEOREM CanonicalReadableCorrect == Spec => []CanonicalReadable
<1>1. Init => StateInv /\ TreeKept /\ StoreInv /\ Rooted
  <2>1. Init => StateInv /\ phase = "idle"
    BY InitInv DEF Init
  <2> QED BY <2>1, InitTree, InitStore, IdleEmpty DEF Rooted, TreeKept
<1>2. (StateInv /\ TreeKept /\ StoreInv /\ Rooted) /\ [Next]_vars => (StateInv /\ TreeKept /\ StoreInv /\ Rooted)'
  BY NextKeeps, NextTree, NextStore, NextRooted
<1>3. StateInv /\ TreeKept /\ StoreInv /\ Rooted => CanonicalReadable
  BY WindowReadable DEF TreeKept, CanonicalReadable
<1> QED BY <1>1, <1>2, <1>3, PTL DEF Spec

\* A block can be read if its parent can.
LEMMA ChildReadable ==
  ASSUME StateInv, TreeInv, NEW b \in Held(overlay), b # Genesis => Readable(Parent[b])
  PROVE  Readable(b)
<1> SUFFICES ASSUME NEW k \in State[b] PROVE Available(k)
  BY DEF Readable
<1>1. b \in Block
  BY InvParts, HeldType
<1>2. CASE k \in Inserted(b)
  BY <1>2, HeldReadable
<1>3. CASE k \notin Inserted(b)
  <2>1. b # Genesis /\ k \in State[Parent[b]]
    BY <1>1, <1>3, ChangesAre
  <2> QED BY <2>1 DEF Readable
<1> QED BY <1>2, <1>3

\* The last canonical block of the database can be read.
LEMMA HeadReadable ==
  ASSUME StateInv, StoreInv, NEW h \in Block, h = db.last_hash
  PROVE  Readable(h)
<1>1. StateOf(db.last_hash) \subseteq db.data
  <2>1. CASE phase = "committed"
    BY <2>1, InvParts DEF Phased, StoreInv, Stored
  <2>2. CASE phase # "committed"
    BY <2>2 DEF StoreInv, Stored
  <2> QED BY <2>1, <2>2
<1>2. StateOf(h) = State[h]
  BY BlockAssumption DEF StateOf
<1> QED BY <1>1, <1>2 DEF Readable, Available

\* A block has the larger number of its ancestors.
LEMMA AncestorNumber ==
  ASSUME NEW b \in Block, NEW x \in Ancestors[b]
  PROVE  x \in Block /\ Number(x) <= Number(b)
<1>1. x \in Block /\ Ancestors[x] \subseteq Ancestors[b] /\ IsFiniteSet(Ancestors[b])
  BY AncestorsNested, AncestorsBlocks
<1>2. Cardinality(Ancestors[x]) <= Cardinality(Ancestors[b])
  BY <1>1, FS_Subset
<1>3. Cardinality(Ancestors[x]) \in Nat /\ Cardinality(Ancestors[b]) \in Nat
  BY <1>1, FS_Subset, FS_CardinalityType
<1> QED BY <1>1, <1>2, <1>3 DEF Number

\* The blocks of a level that are to be readable.
Served(c) == phase # "committed" \/ HeadOf(overlay) \in Ancestors[c]

\* The parent of an attached block.
LEMMA AttachedParent ==
  ASSUME StateInv, TreeInv, NEW i \in 1 .. Len(overlay.levels), NEW c \in Hashes(overlay.levels[i]), c \in Block,
         Attached(c), c # Genesis
  PROVE  /\ i = 1 => Parent[c] = overlay.last_hash
         /\ i # 1 => i - 1 \in 1 .. Len(overlay.levels) /\ Parent[c] \in Hashes(overlay.levels[i - 1])
         /\ Attached(Parent[c])
<1> DEFINE q == overlay.last_number
           N == Len(overlay.levels)
           p == Parent[c]
<1>0. /\ overlay.levels \in LevelSeqs /\ N \in Nat /\ q \in Int /\ InLevels(overlay) = HashesIn(overlay.levels)
      /\ i \in Int /\ i >= 1 /\ i <= N
  BY InvParts, OverlayFields, LevelsAre, HeldType
<1>1. p \in Block /\ Number(c) = Number(p) + 1 /\ Number(p) \in Int
  BY BlockAssumption, NumberIs
<1>2. Ancestors[p] \subseteq Ancestors[c] /\ p \in Ancestors[c]
  BY <1>1, AncestorsIs
<1>3. Attached(p)
  BY <1>2 DEF Attached
<1>4. Number(c) = q + i
  BY DEF TreeInv, Numbered
<1> HIDE DEF p, N
<1>5. Number(p) = q + i - 1 /\ Number(p) >= q
  BY <1>0, <1>1, <1>4
<1>6. p \in InLevels(overlay) \/ p = overlay.last_hash
  BY <1>2, <1>5 DEF Attached, q
<1>7. CASE p = overlay.last_hash
  <2>1. Number(p) = q
    BY <1>1, <1>7, BlockAssumption DEF TreeInv, q
  <2>2. i = 1
    BY <1>0, <1>5, <2>1
  <2> QED BY <1>3, <1>7, <2>2 DEF p
<1>8. CASE p \in InLevels(overlay)
  <2>1. PICK z \in 1 .. N : p \in Hashes(overlay.levels[z])
    BY <1>0, <1>8, HashesOfEntries DEF N
  <2>2. Number(p) = q + z /\ z \in Int /\ z >= 1
    BY <2>1 DEF TreeInv, Numbered, N, q
  <2>3. z = i - 1 /\ i # 1
    BY <1>0, <1>5, <2>2
  <2> QED BY <1>3, <2>1, <2>3 DEF p, N
<1> QED BY <1>6, <1>7, <1>8

\* A block of the first level.
LEMMA RootReadable ==
  ASSUME StateInv, TreeInv, StoreInv, NEW c \in Block, 1 \in 1 .. Len(overlay.levels),
         c \in Hashes(overlay.levels[1]), Served(c), Attached(c), c # HeadOf(overlay)
  PROVE  c # Genesis => Readable(Parent[c])
<1> SUFFICES ASSUME c # Genesis PROVE Readable(Parent[c])
  OBVIOUS
<1> DEFINE p == overlay.pending_canonicalizations
<1>0. p \in Seq(Block) /\ Len(p) \in Nat /\ overlay.last_number \in Int
  BY InvParts, OverlayFields, LenProperties
<1>1. Parent[c] = overlay.last_hash /\ Parent[c] \in Block
  BY BlockAssumption, AttachedParent
<1>2. CASE phase # "committed" \/ p = <<>>
  <2>1. db.last_hash = overlay.last_hash
    <3>1. CASE phase # "committed"
      BY <3>1, InvParts DEF DbFollows
    <3>2. CASE phase = "committed" /\ p = <<>>
      <4>1. db = txn /\ txn.last_hash = HeadOf(overlay)
        BY <3>2, InvParts DEF Phased, TxnFollows
      <4> QED BY <3>2, <4>1 DEF HeadOf
    <3> QED BY <1>2, <3>1, <3>2
  <2> QED BY <1>1, <2>1, HeadReadable
<1>3. CASE phase = "committed" /\ p # <<>>
  <2>1. HeadOf(overlay) \in Ancestors[Parent[c]]
    BY <1>3, AncestorsIs DEF Served
  <2>2. HeadOf(overlay) \in Block /\ Number(HeadOf(overlay)) <= Number(Parent[c])
    BY <1>1, <2>1, AncestorNumber
  <2>3. Number(HeadOf(overlay)) = overlay.last_number + Len(p)
    BY <2>2, HeadNumber, BlockAssumption
  <2>4. Number(Parent[c]) = overlay.last_number
    BY <1>1, BlockAssumption DEF TreeInv
  <2>5. Len(p) # 0
    BY <1>0, <1>3, EmptySeq
  <2> HIDE DEF p
  <2>6. FALSE
    BY <1>0, <2>2, <2>3, <2>4, <2>5
  <2> QED BY <2>6
<1> QED BY <1>2, <1>3

\* Level by level, all blocks of the canonicalization window can be read.
LEMMA LevelsReadable ==
  ASSUME StateInv, TreeInv, StoreInv
  PROVE  LiveReadable
<1> DEFINE N == Len(overlay.levels)
           Good(i) == \A c \in Hashes(overlay.levels[i]) : Served(c) /\ Attached(c) => Readable(c)
           S == {i \in 0 .. N : i > 0 => Good(i)}
<1>0. N \in Nat /\ overlay.levels \in LevelSeqs
  BY InvParts, OverlayFields, LevelsAre
<1>1. ASSUME NEW i \in 1 .. N, NEW c \in Hashes(overlay.levels[i])
      PROVE  c \in Held(overlay) /\ c \in Block
  <2>1. c \in HashesIn(overlay.levels)
    BY <1>0, HashesOfEntries
  <2> QED BY <2>1, InvParts, HeldType DEF Held
<1>h. ASSUME NEW c \in Block, c = HeadOf(overlay), phase = "committed" PROVE Readable(c)
  <2>1. db.last_hash = HeadOf(overlay)
    BY <1>h, InvParts DEF Phased, TxnFollows
  <2> QED BY <1>h, <2>1, HeadReadable
<1>2. ASSUME NEW i \in 1 .. N, i # 1 => i - 1 \in 1 .. N /\ Good(i - 1), NEW c \in Hashes(overlay.levels[i]), Served(c), Attached(c),
             phase = "committed" => c # HeadOf(overlay)
      PROVE  Readable(c)
  <2>0. c \in Held(overlay) /\ c \in Block
    BY <1>1
  <2>1. ASSUME c # Genesis, i = 1 PROVE Readable(Parent[c])
    <3>1. CASE c # HeadOf(overlay)
      BY <1>2, <2>0, <2>1, <3>1, RootReadable
    <3>2. CASE c = HeadOf(overlay)
      <4>1. phase # "committed"
        BY <1>2, <3>2
      <4>2. Parent[c] = overlay.last_hash /\ Parent[c] \in Block
        BY <1>2, <2>0, <2>1, BlockAssumption, AttachedParent
      <4>3. db.last_hash = overlay.last_hash
        BY <4>1, InvParts DEF DbFollows
      <4> QED BY <4>2, <4>3, HeadReadable
    <3> QED BY <3>1, <3>2
  <2>2. ASSUME c # Genesis, i # 1 PROVE Readable(Parent[c])
    <3>2. Parent[c] \in Hashes(overlay.levels[i - 1]) /\ Attached(Parent[c])
      BY <1>2, <2>0, <2>2, AttachedParent
    <3>3. Served(Parent[c])
      BY <1>2, <2>0, <2>2, AncestorsIs DEF Served
    <3> QED BY <1>2, <2>2, <3>2, <3>3
  <2>3. c # Genesis => Readable(Parent[c])
    BY <2>1, <2>2
  <2> QED BY <2>0, <2>3, ChildReadable
<1>3. ASSUME NEW i \in 1 .. N, i # 1 => i - 1 \in 1 .. N /\ Good(i - 1) PROVE Good(i)
  <2> SUFFICES ASSUME NEW c \in Hashes(overlay.levels[i]), Served(c), Attached(c) PROVE Readable(c)
    OBVIOUS
  <2>1. CASE phase = "committed" /\ c = HeadOf(overlay)
    BY <1>1, <1>h, <2>1
  <2>2. CASE ~(phase = "committed" /\ c = HeadOf(overlay))
    <3> HIDE DEF Good, N
    <3> QED BY <1>2, <1>3, <2>2
  <2> QED BY <2>1, <2>2
<1> HIDE DEF Good
<1>4. 0 \in S
  BY <1>0
<1>5. ASSUME NEW i \in 0 .. N - 1, i \in S PROVE i + 1 \in S
  <2>1. i + 1 \in 1 .. N /\ i + 1 \in 0 .. N /\ (i + 1) - 1 = i /\ (i + 1 # 1 => i \in 1 .. N /\ i > 0)
    BY <1>0
  <2>2. i + 1 # 1 => (i + 1) - 1 \in 1 .. N /\ Good((i + 1) - 1)
    BY <1>5, <2>1
  <2>3. Good(i + 1)
    BY <1>3, <2>1, <2>2
  <2> QED BY <2>1, <2>3
<1>6. \A i \in 0 .. N : i \in S
  <2>1. 0 \in Nat
    OBVIOUS
  <2> HIDE DEF S, N
  <2> QED BY <1>0, <1>4, <1>5, <2>1, UpTo
<1>7. ASSUME NEW b \in InLevels(overlay), Attached(b), phase # "committed" \/ canonical_head \in Ancestors[b]
      PROVE  Readable(b)
  <2>1. PICK i \in 1 .. N : b \in Hashes(overlay.levels[i])
    BY <1>0, InvParts, HeldType, HashesOfEntries
  <2>2. i \in 0 .. N /\ i > 0
    BY <1>0
  <2>3. Good(i)
    BY <1>6, <2>2
  <2>4. Served(b)
    BY <1>7 DEF Served, canonical_head, HeadOf
  <2> QED BY <1>7, <2>1, <2>3, <2>4 DEF Good
<1> QED BY <1>7 DEF LiveReadable

\* The state of every block that waits to be canonicalized can be read as a
\* whole, whatever its fork, through every step and every failure of the
\* operations: what a block inserts is in memory, and the rest is that of its
\* parent.  In the moment between the commit and apply_pending it is so for the
\* descendants of the new canonical block; the keys that the commit has pruned may
\* have been the last that a fork about to be discarded shared with it.
THEOREM LiveReadableCorrect == Spec => []LiveReadable
<1>1. Init => StateInv /\ TreeKept /\ StoreInv
  BY InitInv, InitTree, InitStore DEF TreeKept
<1>2. (StateInv /\ TreeKept /\ StoreInv) /\ [Next]_vars => (StateInv /\ TreeKept /\ StoreInv)'
  BY NextKeeps, NextTree, NextStore
<1>3. StateInv /\ TreeKept /\ StoreInv => LiveReadable
  BY LevelsReadable DEF TreeKept, LiveReadable
<1> QED BY <1>1, <1>2, <1>3, PTL DEF Spec
=============================================================================
