--------------------------- MODULE GrandpaProofs ----------------------------
(***************************************************************************)
(* For every tree of blocks, every chain in it and all changes that its    *)
(* headers may signal: the safety properties of Grandpa, under the         *)
(* assumption OldSetStops on the rest of the network.                      *)
(*                                                                         *)
(* The inductive invariant says of an authority set how it follows from    *)
(* the blocks that are imported and from the finalized one (SetInv).  It   *)
(* holds of the set in memory, of the one that a failed write puts back    *)
(* and, for the blocks with the one being written, of the changed set.     *)
(***************************************************************************)
EXTENDS Grandpa, FiniteSetTheorems, TLAPS

-----------------------------------------------------------------------------
(* The inductive invariant *)

ChainInv ==
  /\ signal \in [Blocks -> Change]
  /\ signal[Genesis] = NoChange
  /\ schedule_change(signal)
  /\ NetworkAssumption(signal)
  /\ sets \in NetworkSets

\* Blocks are imported on top of their ancestors, and only the chain up to
\* Tip is finalized.
ImportedInv ==
  /\ imported \subseteq Blocks
  /\ \A b \in imported : Ancestors[b] \subseteq imported
  /\ finalized \in imported \cap Canon

IsTree(tree) ==
  /\ tree = [parent |-> tree.parent, best_finalized_number |-> tree.best_finalized_number]
  /\ nodes(tree) \subseteq Blocks
  /\ tree.parent \in [nodes(tree) -> Blocks \cup {NoNode}]
  /\ tree.best_finalized_number \in Int

IsSet(set) ==
  /\ set = [current_authorities      |-> set.current_authorities,
            set_id                   |-> set.set_id,
            pending_standard_changes |-> set.pending_standard_changes,
            pending_forced_changes   |-> set.pending_forced_changes,
            authority_set_changes    |-> set.authority_set_changes]
  /\ set.set_id \in Nat
  /\ IsTree(set.pending_standard_changes)
  /\ set.pending_forced_changes \subseteq Blocks

\* The changes that wait are those of imported blocks; of the finalized
\* chain, all that came after the change that brought the set.
PendingInv(set, imp) ==
  /\ set.current_authorities \in imp
  /\ \A c \in nodes(set.pending_standard_changes) : c \in imp /\ Signals(c) /\ ~IsForced(c)
  /\ \A f \in set.pending_forced_changes : f \in imp /\ IsForced(f)
  /\ \A c \in imp \cap Canon :
        Signals(c) =>
          (c \in nodes(set.pending_standard_changes) \cup set.pending_forced_changes
             <=> Number(c) > Number(SetOf(set.set_id)))

\* A forced change waits for a block that is not imported yet.
ForcedInv(set, imp) ==
  /\ \A a, b \in set.pending_forced_changes : ~is_descendent_of(a, b)
  /\ \A f \in set.pending_forced_changes, b \in imp :
        AtOrBelow(f, b) => Number(b) < effective_number(f)

\* What the finalized block has passed is enacted, and what is enacted
\* without force the finalized block has passed.
FinalizedInv(set, fin) ==
  /\ set.pending_standard_changes.best_finalized_number <= Number(fin)
  /\ \A r \in nodes(set.pending_standard_changes) :
        AtOrBelow(r, fin) => effective_number(r) > Number(fin)
  /\ \A i \in 1 .. set.set_id :
        ~IsForced(SetOf(i)) => effective_number(SetOf(i)) <= Number(fin)

SetInv(set, imp, fin) ==
  /\ IsSet(set)
  /\ WellFormed(set.pending_standard_changes)
  /\ FollowsNetwork(set)
  /\ PendingInv(set, imp)
  /\ ForcedInv(set, imp)
  /\ FinalizedInv(set, fin)

\* The set that everybody but the importer sees.
CurrentSet == IF Locked THEN importer.old ELSE authority_set

\* The block being written, and what the check of its changes found.
WritingInv ==
  importer.phase = "writing" =>
    /\ importer.block \in Blocks \ imported
    /\ Ancestors[importer.block] \subseteq imported
    /\ importer.set_id = NoJustification \/ importer.set_id \in SignedBy(importer.block)
    /\ ~Locked => /\ ~Signals(importer.block)
                  /\ Triggered(authority_set, importer.block) = {}
                  /\ importer.applied # "forced"
    /\ Locked => /\ SetInv(authority_set, imported \cup {importer.block}, finalized)
                 /\ authority_set.set_id =
                      importer.old.set_id + (IF importer.applied = "forced" THEN 1 ELSE 0)

\* A justification under way is one that exists, and once its set is checked
\* it is not of a set to come.
VerifyingInv ==
  importer.phase \in {"verifying", "verifying authorities", "finalizing"} =>
    /\ importer = [phase  |-> importer.phase,  block  |-> importer.block,
                   set_id |-> importer.set_id, enacts |-> importer.enacts]
    /\ importer.block \in imported
    /\ importer.set_id \in SignedBy(importer.block)
    /\ importer.phase # "verifying" => importer.set_id <= authority_set.set_id

\* The commands of a queue, of which the voter runs set v, bring later sets
\* in their order, and the last of them is the current set, unless the voter
\* runs it already.
Command ==
  {Pause} \cup [command : {"ChangeAuthorities"}, set_id : Nat, authorities : Blocks]
IsChange(c) == c.command = "ChangeAuthorities"
Told(queue, v, current) ==
  /\ queue \in Seq(Command)
  /\ \A i \in 1 .. Len(queue) :
        IsChange(queue[i]) =>
          /\ v < queue[i].set_id
          /\ queue[i].set_id <= current
          /\ queue[i].authorities = SetOf(queue[i].set_id)
          /\ \A j \in 1 .. i - 1 : IsChange(queue[j]) => queue[j].set_id < queue[i].set_id
  /\ v \in 0 .. current
  /\ v = current \/ \E i \in 1 .. Len(queue) : IsChange(queue[i]) /\ queue[i].set_id = current

VoterInv ==
  /\ voter = [set_id |-> voter.set_id, authorities |-> voter.authorities, paused |-> voter.paused]
  /\ voter.authorities = SetOf(voter.set_id)
  /\ Told(commands, voter.set_id, CurrentSet.set_id)

DiskInv ==
  /\ IsSet(stored_set)
  /\ SameButHeight(stored_set, CurrentSet)

Inv ==
  /\ ChainInv
  /\ ImportedInv
  /\ SetInv(CurrentSet, imported, finalized)
  /\ WritingInv
  /\ VerifyingInv
  /\ VoterInv
  /\ DiskInv

-----------------------------------------------------------------------------
(* Numbers and blocks *)

\* A nonempty set of natural numbers has a least element.
LEMMA LeastNumber ==
  ASSUME NEW T \in SUBSET Nat, T # {}
  PROVE  \E x \in T : \A y \in T : x <= y
<1> DEFINE upto(n) == {i \in Nat : i <= n}
           U == {upto(n) : n \in T}
           R == StrictSubsetOrdering(Nat)
<1>1. U \subseteq FiniteSubsetsOf(Nat)
  <2> SUFFICES ASSUME NEW n \in T PROVE upto(n) \in FiniteSubsetsOf(Nat)
    OBVIOUS
  <2>1. IsFiniteSet(upto(n))
    BY FS_BoundedSetOfNaturals
  <2> QED BY <2>1 DEF FiniteSubsetsOf
<1>2. U # {}
  OBVIOUS
<1>3. PICK u \in U : \A w \in U : ~(<<w, u>> \in R)
  <2> HIDE DEF U
  <2> QED BY <1>1, <1>2, WFMin, FS_StrictSubsetOrderingWellFounded
<1>4. PICK x \in T : u = upto(x)
  OBVIOUS
<1>5. ASSUME NEW y \in T, y < x PROVE FALSE
  <2>1. upto(y) \in U
    OBVIOUS
  <2>2. upto(y) \subseteq upto(x) /\ upto(y) # upto(x)
    <3>1. x \in upto(x) /\ x \notin upto(y)
      BY <1>5
    <3> QED BY <3>1, <1>5
  <2>3. <<upto(y), upto(x)>> \in R
    BY <2>2 DEF StrictSubsetOrdering
  <2> QED BY <2>1, <2>3, <1>3, <1>4
<1> QED BY <1>5

\* Heights are natural numbers that grow along a chain.
LEMMA NumberGrows ==
  /\ \A b \in Blocks : Number(b) \in Nat
  /\ \A b \in Blocks : \A a \in Ancestors[b] : a \in Blocks /\ Number(a) < Number(b)
<1>1. ASSUME NEW b \in Blocks PROVE Number(b) \in Nat
  BY BlockTreeAssumption, FS_CardinalityType DEF Number
<1>2. ASSUME NEW b \in Blocks, NEW a \in Ancestors[b]
      PROVE  a \in Blocks /\ Number(a) < Number(b)
  <2>1. a \in Blocks /\ Ancestors[a] \subseteq Ancestors[b] /\ a \notin Ancestors[a]
    BY BlockTreeAssumption
  <2>2. IsFiniteSet(Ancestors[b])
    BY BlockTreeAssumption
  <2>3. Cardinality(Ancestors[a]) <= Cardinality(Ancestors[b])
        /\ Cardinality(Ancestors[a]) # Cardinality(Ancestors[b])
    BY <2>1, <2>2, FS_Subset
  <2>4. Number(a) \in Nat /\ Number(b) \in Nat
    BY <1>1, <2>1
  <2> QED BY <2>1, <2>3, <2>4 DEF Number
<1> QED BY <1>1, <1>2

\* On one chain the order of the heights is the order of the blocks.
LEMMA Chain ==
  ASSUME NEW t \in Blocks, NEW a, NEW c, AtOrBelow(a, t), AtOrBelow(c, t)
  PROVE  /\ a \in Blocks /\ c \in Blocks
         /\ Number(a) < Number(c) <=> a \in Ancestors[c]
         /\ Number(a) = Number(c) <=> a = c
         /\ Number(a) <= Number(c) <=> AtOrBelow(a, c)
<1>1. a \in Blocks /\ c \in Blocks
  BY BlockTreeAssumption DEF AtOrBelow, is_descendent_of
<1>2. a = c \/ a \in Ancestors[c] \/ c \in Ancestors[a]
  BY BlockTreeAssumption DEF AtOrBelow, is_descendent_of
<1>3. Number(a) \in Nat /\ Number(c) \in Nat
  BY <1>1, NumberGrows
<1>4. a \in Ancestors[c] => Number(a) < Number(c)
  BY <1>1, NumberGrows
<1>5. c \in Ancestors[a] => Number(c) < Number(a)
  BY <1>1, NumberGrows
<1>6. AtOrBelow(a, c) <=> a = c \/ a \in Ancestors[c]
  BY DEF AtOrBelow, is_descendent_of
<1> QED BY <1>1, <1>2, <1>3, <1>4, <1>5, <1>6

\* Descent is transitive.
LEMMA Descent ==
  ASSUME NEW c \in Blocks, NEW b, NEW a, AtOrBelow(b, c), AtOrBelow(a, b)
  PROVE  /\ AtOrBelow(a, c)
         /\ b \in Blocks /\ a \in Blocks
         /\ b # c => a \in Ancestors[c]
         /\ a # b => a \in Ancestors[c]
<1>1. b \in Blocks /\ a \in Blocks
  BY BlockTreeAssumption DEF AtOrBelow, is_descendent_of
<1>2. b \in Ancestors[c] => Ancestors[b] \subseteq Ancestors[c]
  BY BlockTreeAssumption
<1> QED BY <1>1, <1>2 DEF AtOrBelow, is_descendent_of

\* A chain has a block at every height below its tip.
LEMMA EveryHeight ==
  ASSUME NEW t \in Blocks, NEW h \in Nat, h < Number(t)
  PROVE  \E a \in Ancestors[t] : Number(a) = h
<1> DEFINE above == {Number(a) : a \in {x \in Ancestors[t] \cup {t} : Number(x) >= h}}
<1>1. \A x \in Ancestors[t] \cup {t} : x \in Blocks /\ Number(x) \in Nat /\ AtOrBelow(x, t)
  BY NumberGrows DEF AtOrBelow, is_descendent_of
<1>2. above \in SUBSET Nat /\ Number(t) \in above
  BY <1>1
<1>3. PICK n \in above : \A m \in above : n <= m
  <2> HIDE DEF above
  <2> QED BY <1>2, LeastNumber
<1>4. PICK a \in Ancestors[t] \cup {t} : Number(a) = n /\ Number(a) >= h
  BY <1>3
<1>5. Number(a) = h
  <2> SUFFICES ASSUME Number(a) # h PROVE FALSE
    OBVIOUS
  <2>1. Number(a) > h /\ Number(a) \in Nat /\ a \in Blocks
    BY <1>1, <1>4
  <2>2. \A x \in Ancestors[a] : Number(x) \in 0 .. h - 1
    <3> SUFFICES ASSUME NEW x \in Ancestors[a] PROVE Number(x) \in 0 .. h - 1
      OBVIOUS
    <3>1. x \in Ancestors[t] /\ Number(x) < Number(a) /\ Number(x) \in Nat
      BY <2>1, <1>1, <1>4, NumberGrows, BlockTreeAssumption
    <3>2. Number(x) >= h => Number(x) \in above
      BY <3>1
    <3>3. Number(x) \in above => Number(a) <= Number(x)
      BY <1>3, <1>4
    <3> QED BY <2>1, <3>1, <3>2, <3>3
  <2> DEFINE f == [x \in Ancestors[a] |-> Number(x)]
  <2>3. f \in [Ancestors[a] -> 0 .. h - 1]
    BY <2>2
  <2>4. IsFiniteSet(Ancestors[a])
    BY <2>1, BlockTreeAssumption
  <2>5. IsFiniteSet(0 .. h - 1) /\ Cardinality(0 .. h - 1) = h
    <3>1. 0 \in Int /\ h - 1 \in Int
      OBVIOUS
    <3> QED BY <3>1, FS_Interval
  <2>6. PICK x, y \in Ancestors[a] : x # y /\ f[x] = f[y]
    <3>1. Cardinality(0 .. h - 1) < Cardinality(Ancestors[a])
      BY <2>1, <2>5 DEF Number
    <3> HIDE DEF f
    <3> QED BY <2>3, <2>4, <2>5, <3>1, FS_PigeonHole
  <2>7. Number(x) = Number(y)
    BY <2>6
  <2>8. AtOrBelow(x, a) /\ AtOrBelow(y, a)
    BY DEF AtOrBelow, is_descendent_of
  <2> QED BY <2>1, <2>6, <2>7, <2>8, Chain
<1>6. a # t
  BY <1>5
<1> QED BY <1>4, <1>5, <1>6

\* Genesis is the first block of every chain.
LEMMA GenesisFirst ==
  /\ Genesis \in Blocks /\ Ancestors[Genesis] = {} /\ Number(Genesis) = 0
  /\ \A b \in Blocks : AtOrBelow(Genesis, b)
<1>1. PICK g \in Blocks : Ancestors[g] = {} /\ \A b \in Blocks \ {g} : g \in Ancestors[b]
  BY GenesisAssumption
<1>2. Genesis \in Blocks /\ Ancestors[Genesis] = {}
  BY <1>1 DEF Genesis
<1>3. Genesis = g
  BY <1>1, <1>2
<1>4. Number(Genesis) = 0
  BY <1>2, FS_EmptySet DEF Number
<1> QED BY <1>1, <1>2, <1>3, <1>4 DEF AtOrBelow, is_descendent_of

\* The chain up to Tip, seen as blocks at or below it.
LEMMA OnCanon ==
  /\ Tip \in Blocks
  /\ \A b : b \in Canon <=> AtOrBelow(b, Tip)
  /\ Genesis \in Canon
  /\ Canon \subseteq Blocks
  /\ IsFiniteSet(Canon)
<1>1. Tip \in Blocks
  BY TipAssumption
<1>2. \A b : b \in Canon <=> AtOrBelow(b, Tip)
  BY DEF Canon, AtOrBelow, is_descendent_of
<1>3. IsFiniteSet(Canon)
  BY <1>1, BlockTreeAssumption, FS_AddElement DEF Canon
<1> QED BY <1>1, <1>2, <1>3, GenesisFirst, NumberGrows DEF Canon

\* What is at or below a block of the chain is on the chain.
LEMMA BelowCanon ==
  ASSUME NEW b \in Canon, NEW a, AtOrBelow(a, b)
  PROVE  a \in Canon
BY OnCanon, Descent

-----------------------------------------------------------------------------
(* The fork tree *)

\* WellFormed without a choice: the parent of a node is a node below it, and
\* every other node below it is at or below the parent.
Nested(tree) ==
  \A n \in nodes(tree) :
    \/ /\ tree.parent[n] = NoNode
       /\ \A m \in nodes(tree) : m \notin Ancestors[n]
    \/ /\ tree.parent[n] \in nodes(tree) \cap Ancestors[n]
       /\ \A m \in nodes(tree) : m \in Ancestors[n] => AtOrBelow(m, tree.parent[n])

\* The deepest of some blocks below a block is above all of them.
LEMMA DeepestIs ==
  ASSUME NEW n \in Blocks, NEW S \in SUBSET Ancestors[n], S # {}
  PROVE  /\ Deepest(S) \in S
         /\ \A o \in S : AtOrBelow(o, Deepest(S))
<1>1. \A o \in S : o \in Blocks /\ Number(o) \in Nat /\ Number(o) < Number(n) /\ AtOrBelow(o, n)
  BY NumberGrows DEF AtOrBelow, is_descendent_of
<1>2. Number(n) \in Nat
  BY NumberGrows
<1> DEFINE gaps == {Number(n) - Number(o) : o \in S}
<1>3. gaps \in SUBSET Nat
  <2> SUFFICES ASSUME NEW o \in S PROVE Number(n) - Number(o) \in Nat
    OBVIOUS
  <2>1. Number(o) \in Nat /\ Number(o) < Number(n)
    BY <1>1
  <2> QED BY <2>1, <1>2
<1>4. gaps # {}
  OBVIOUS
<1>5. PICK g \in gaps : \A k \in gaps : g <= k
  <2> HIDE DEF gaps
  <2> QED BY <1>3, <1>4, LeastNumber
<1>6. PICK d \in S : g = Number(n) - Number(d)
  BY <1>5
<1>7. \A o \in S : Number(o) <= Number(d)
  <2> SUFFICES ASSUME NEW o \in S PROVE Number(o) <= Number(d)
    OBVIOUS
  <2>1. Number(n) - Number(d) <= Number(n) - Number(o)
    BY <1>5, <1>6
  <2>2. Number(o) \in Nat /\ Number(d) \in Nat
    BY <1>1
  <2> QED BY <2>1, <2>2, <1>2
<1>8. /\ Deepest(S) \in S
      /\ \A o \in S : Number(o) <= Number(Deepest(S))
  BY <1>7 DEF Deepest
<1>9. ASSUME NEW o \in S PROVE AtOrBelow(o, Deepest(S))
  <2>1. AtOrBelow(o, n) /\ AtOrBelow(Deepest(S), n) /\ Number(o) <= Number(Deepest(S))
    BY <1>1, <1>8
  <2> QED BY <2>1, Chain
<1> QED BY <1>8, <1>9

\* A block at or below two others that are at or below each other.
LEMMA SameBlock ==
  ASSUME NEW t \in Blocks, NEW a, NEW c, AtOrBelow(a, t), AtOrBelow(c, t),
         AtOrBelow(a, c), AtOrBelow(c, a)
  PROVE  a = c
BY BlockTreeAssumption DEF AtOrBelow, is_descendent_of

\* The two forms of the shape of the tree agree.
LEMMA WellFormedNested ==
  ASSUME NEW tree, nodes(tree) \subseteq Blocks
  PROVE  WellFormed(tree) <=> Nested(tree)
<1> DEFINE below(n) == {m \in nodes(tree) : is_descendent_of(m, n)}
<1>1. ASSUME NEW n \in nodes(tree), below(n) # {}
      PROVE  tree.parent[n] = Deepest(below(n)) <=>
               /\ tree.parent[n] \in nodes(tree) \cap Ancestors[n]
               /\ \A m \in nodes(tree) : m \in Ancestors[n] => AtOrBelow(m, tree.parent[n])
  <2>1. n \in Blocks /\ below(n) \in SUBSET Ancestors[n]
    BY DEF is_descendent_of
  <2>2. Deepest(below(n)) \in below(n) /\ \A o \in below(n) : AtOrBelow(o, Deepest(below(n)))
    <3> HIDE DEF below
    <3> QED BY <1>1, <2>1, DeepestIs
  <2>3. \A m : m \in below(n) <=> m \in nodes(tree) /\ m \in Ancestors[n]
    BY DEF is_descendent_of
  <2>4. ASSUME tree.parent[n] \in below(n),
               \A m \in below(n) : AtOrBelow(m, tree.parent[n])
        PROVE  tree.parent[n] = Deepest(below(n))
    <3> DEFINE p == tree.parent[n]
               d == Deepest(below(n))
    <3>1. p \in below(n) /\ d \in below(n) /\ AtOrBelow(p, d) /\ AtOrBelow(d, p)
      BY <2>2, <2>4
    <3>2. AtOrBelow(p, n) /\ AtOrBelow(d, n)
      BY <3>1, <2>3 DEF AtOrBelow, is_descendent_of
    <3> HIDE DEF p, d
    <3>3. p = d
      BY <3>1, <3>2, <2>1, SameBlock
    <3> QED BY <3>3 DEF p, d
  <2> HIDE DEF below
  <2> QED BY <2>2, <2>3, <2>4
<1>2. ASSUME NEW n \in nodes(tree)
      PROVE  /\ below(n) = {} <=> \A m \in nodes(tree) : m \notin Ancestors[n]
             /\ \A m \in nodes(tree) : m \in Ancestors[n] => below(n) # {}
  BY DEF is_descendent_of
<1>3. \A m \in nodes(tree) : m # NoNode
  BY NoNodeAssumption
<1>4. WellFormed(tree) <=>
        \A n \in nodes(tree) :
          IF below(n) = {} THEN tree.parent[n] = NoNode ELSE tree.parent[n] = Deepest(below(n))
  BY DEF WellFormed
<1> HIDE DEF below
<1>5. ASSUME NEW n \in nodes(tree)
      PROVE  (IF below(n) = {} THEN tree.parent[n] = NoNode ELSE tree.parent[n] = Deepest(below(n)))
               <=> (\/ /\ tree.parent[n] = NoNode
                       /\ \A m \in nodes(tree) : m \notin Ancestors[n]
                    \/ /\ tree.parent[n] \in nodes(tree) \cap Ancestors[n]
                       /\ \A m \in nodes(tree) : m \in Ancestors[n] => AtOrBelow(m, tree.parent[n]))
  <2>1. CASE below(n) = {}
    BY <2>1, <1>2
  <2>2. CASE below(n) # {}
    BY <2>2, <1>1, <1>2
  <2> QED BY <2>1, <2>2
<1> QED BY <1>4, <1>5 DEF Nested

\* A root has no node below it.
LEMMA RootLowest ==
  ASSUME NEW tree, nodes(tree) \subseteq Blocks, Nested(tree), NEW r \in roots(tree)
  PROVE  /\ r \in nodes(tree)
         /\ \A m \in nodes(tree) : m \notin Ancestors[r]
<1>1. r \in nodes(tree) /\ tree.parent[r] = NoNode /\ NoNode \notin nodes(tree)
  BY NoNodeAssumption DEF roots, children
<1> QED BY <1>1 DEF Nested

\* A child is above its parent, with no node in between.
LEMMA ChildNext ==
  ASSUME NEW tree, nodes(tree) \subseteq Blocks, Nested(tree),
         NEW r \in nodes(tree), NEW c \in children(tree, r)
  PROVE  /\ c \in nodes(tree) /\ r \in Ancestors[c]
         /\ \A m \in nodes(tree) : m \in Ancestors[c] => AtOrBelow(m, r)
<1>1. c \in nodes(tree) /\ tree.parent[c] = r /\ r # NoNode
  BY NoNodeAssumption DEF children
<1> QED BY <1>1 DEF Nested

\* The lowest of the nodes above a node, or of all, on the way to a node.
LEMMA LowestOnTheWay ==
  ASSUME NEW tree, nodes(tree) \subseteq Blocks,
         NEW S \in SUBSET nodes(tree), NEW n \in S
  PROVE  \E m \in S : /\ AtOrBelow(m, n)
                      /\ \A o \in S : o \notin Ancestors[m]
<1> DEFINE way == {x \in S : AtOrBelow(x, n)}
           heights == {Number(x) : x \in way}
<1>1. n \in Blocks /\ n \in way
  BY DEF AtOrBelow
<1>2. \A x \in way : x \in Blocks /\ Number(x) \in Nat /\ x \in S /\ AtOrBelow(x, n)
  BY NumberGrows
<1>3. heights \in SUBSET Nat /\ heights # {}
  BY <1>1, <1>2
<1>4. PICK h \in heights : \A k \in heights : h <= k
  <2> HIDE DEF heights
  <2> QED BY <1>3, LeastNumber
<1>5. PICK m \in way : h = Number(m)
  BY <1>4
<1>6. ASSUME NEW o \in S, o \in Ancestors[m] PROVE FALSE
  <2>1. m \in Blocks /\ AtOrBelow(m, n) /\ AtOrBelow(o, m)
    BY <1>2, <1>6 DEF AtOrBelow, is_descendent_of
  <2>2. o \in way
    BY <2>1, <1>1, Descent
  <2>3. Number(o) < Number(m) /\ Number(o) \in Nat /\ Number(m) \in Nat
    BY <2>1, <1>6, NumberGrows
  <2>4. Number(m) <= Number(o)
    BY <2>2, <1>4, <1>5
  <2> QED BY <2>3, <2>4
<1> QED BY <1>2, <1>6

\* Every node is under a root.
LEMMA RootBelow ==
  ASSUME NEW tree, nodes(tree) \subseteq Blocks, Nested(tree), NEW n \in nodes(tree)
  PROVE  \E r \in roots(tree) : AtOrBelow(r, n)
<1>1. PICK m \in nodes(tree) : AtOrBelow(m, n) /\ \A o \in nodes(tree) : o \notin Ancestors[m]
  BY LowestOnTheWay
<1>2. tree.parent[m] = NoNode
  BY <1>1 DEF Nested
<1> QED BY <1>1, <1>2 DEF roots, children

\* Between a node and one above it there is a child of the first.
LEMMA ChildBelow ==
  ASSUME NEW tree, nodes(tree) \subseteq Blocks, Nested(tree),
         NEW r \in nodes(tree), NEW n \in nodes(tree), r \in Ancestors[n]
  PROVE  \E c \in children(tree, r) : AtOrBelow(c, n)
<1> DEFINE S == {m \in nodes(tree) : r \in Ancestors[m]}
<1>1. PICK c \in S : AtOrBelow(c, n) /\ \A o \in S : o \notin Ancestors[c]
  <2>1. S \in SUBSET nodes(tree) /\ n \in S
    OBVIOUS
  <2> HIDE DEF S
  <2> QED BY <2>1, LowestOnTheWay
<1>2. c \in nodes(tree) /\ r \in Ancestors[c] /\ c \in Blocks
  BY <1>1
<1>3. /\ tree.parent[c] \in nodes(tree) \cap Ancestors[c]
      /\ AtOrBelow(r, tree.parent[c])
  BY <1>2 DEF Nested
<1>4. tree.parent[c] = r
  BY <1>1, <1>3 DEF AtOrBelow, is_descendent_of
<1> QED BY <1>1, <1>2, <1>4 DEF children

\* Two roots on one chain are one.
LEMMA OneRoot ==
  ASSUME NEW tree, nodes(tree) \subseteq Blocks, Nested(tree), NEW t \in Blocks,
         NEW r \in roots(tree), NEW s \in roots(tree), AtOrBelow(r, t), AtOrBelow(s, t)
  PROVE  r = s
<1>1. /\ r \in nodes(tree) /\ s \in nodes(tree)
      /\ r \notin Ancestors[s] /\ s \notin Ancestors[r]
  BY RootLowest
<1> QED BY <1>1, BlockTreeAssumption DEF AtOrBelow, is_descendent_of

\* The tree of a new set.
LEMMA EmptyTreeFacts ==
  /\ IsTree(EmptyTree) /\ WellFormed(EmptyTree)
  /\ nodes(EmptyTree) = {} /\ EmptyTree.best_finalized_number = -1
<1>1. EmptyTree.parent = <<>> /\ EmptyTree.best_finalized_number = -1
      /\ EmptyTree = [parent |-> EmptyTree.parent,
                      best_finalized_number |-> EmptyTree.best_finalized_number]
  BY DEF EmptyTree, NoNumber
<1>2. nodes(EmptyTree) = {}
  BY <1>1 DEF nodes
<1>3. <<>> \in [{} -> Blocks \cup {NoNode}]
  OBVIOUS
<1> QED BY <1>1, <1>2, <1>3 DEF IsTree, WellFormed

\* Importing a block that no node descends from adds one node.
LEMMA ImportTree ==
  ASSUME NEW tree, IsTree(tree), Nested(tree),
         NEW b \in Blocks, b \notin nodes(tree), \A n \in nodes(tree) : b \notin Ancestors[n]
  PROVE  /\ IsTree(import(tree, b))
         /\ Nested(import(tree, b))
         /\ nodes(import(tree, b)) = nodes(tree) \cup {b}
         /\ import(tree, b).best_finalized_number = tree.best_finalized_number
<1> DEFINE above == {n \in nodes(tree) : is_descendent_of(n, b)}
           up == IF above = {} THEN NoNode ELSE Deepest(above)
           par == [n \in nodes(tree) \cup {b} |-> IF n # b THEN tree.parent[n] ELSE up]
           new == import(tree, b)
<1>1. nodes(tree) \subseteq Blocks /\ tree.parent \in [nodes(tree) -> Blocks \cup {NoNode}]
  BY DEF IsTree
<1>2. new = [tree EXCEPT !.parent = par]
  BY DEF import
<1>3. above \in SUBSET Ancestors[b] /\ above \subseteq nodes(tree)
  BY DEF is_descendent_of
<1>4. above # {} => Deepest(above) \in above /\ \A o \in above : AtOrBelow(o, Deepest(above))
  <2> HIDE DEF above
  <2> QED BY <1>3, DeepestIs
<1>5. up \in Blocks \cup {NoNode}
  BY <1>1, <1>3, <1>4
<1> HIDE DEF up
<1>6. par \in [nodes(tree) \cup {b} -> Blocks \cup {NoNode}]
  BY <1>1, <1>5
<1> HIDE DEF new, par
<1>7. /\ new = [parent |-> par, best_finalized_number |-> tree.best_finalized_number]
      /\ new.parent = par
      /\ new.best_finalized_number = tree.best_finalized_number
      /\ new = [parent |-> new.parent, best_finalized_number |-> new.best_finalized_number]
  <2>1. tree = [parent |-> tree.parent, best_finalized_number |-> tree.best_finalized_number]
    BY DEF IsTree
  <2> QED BY <1>2, <2>1
<1>8. nodes(new) = nodes(tree) \cup {b}
  BY <1>6, <1>7 DEF nodes
<1>9. IsTree(new)
  BY <1>1, <1>6, <1>7, <1>8 DEF IsTree
<1>10. Nested(new)
  <2> SUFFICES ASSUME NEW n \in nodes(new)
               PROVE  \/ /\ new.parent[n] = NoNode
                         /\ \A m \in nodes(new) : m \notin Ancestors[n]
                      \/ /\ new.parent[n] \in nodes(new) \cap Ancestors[n]
                         /\ \A m \in nodes(new) : m \in Ancestors[n] => AtOrBelow(m, new.parent[n])
    BY DEF Nested
  <2>1. CASE n = b
    <3>1. new.parent[n] = up
      BY <2>1, <1>7, <1>8 DEF par
    <3>2. b \notin Ancestors[b]
      BY BlockTreeAssumption
    <3>3. CASE above = {}
      BY <2>1, <3>1, <3>2, <3>3, <1>8 DEF up, is_descendent_of
    <3>4. CASE above # {}
      <4>1. up \in above /\ \A o \in above : AtOrBelow(o, up)
        BY <3>4, <1>4 DEF up
      <4> QED BY <2>1, <3>1, <3>2, <4>1, <1>3, <1>8 DEF is_descendent_of
    <3> QED BY <3>3, <3>4
  <2>2. CASE n # b
    <3>1. n \in nodes(tree) /\ new.parent[n] = tree.parent[n] /\ b \notin Ancestors[n]
      BY <2>2, <1>7, <1>8 DEF par
    <3> QED BY <3>1, <1>8 DEF Nested
  <2> QED BY <2>1, <2>2
<1> QED BY <1>7, <1>8, <1>9, <1>10 DEF new

\* Finalizing a block: what it enacts goes, with the nodes that contradict it;
\* the nodes on its chain stay, and the tree keeps its shape.
LEMMA FinalizeTree ==
  ASSUME NEW tree, IsTree(tree), Nested(tree), NEW b \in Blocks, NEW due
  PROVE  LET res == finalize_with_descendent_if(tree, b, due)
         IN  /\ IsTree(res.tree)
             /\ Nested(res.tree)
             /\ res.tree.best_finalized_number = Number(b)
             /\ res.enacted = Enacted(tree, b, due)
             /\ nodes(res.tree) \subseteq nodes(tree)
             /\ \A r \in res.enacted : r \notin nodes(res.tree)
             /\ \A n \in nodes(tree) :
                   n \notin res.enacted /\ (AtOrBelow(n, b) \/ AtOrBelow(b, n)) => n \in nodes(res.tree)
             /\ ~res.changed => res.enacted = {} /\ res.tree.parent = tree.parent
<1> DEFINE res == finalize_with_descendent_if(tree, b, due)
           enacted == Enacted(tree, b, due)
           left == IF enacted = {} THEN roots(tree) ELSE UNION {children(tree, r) : r \in enacted}
           kept == {r \in left : Compatible(r, b)}
           par == [n \in Under(tree, kept) |-> IF n \in kept THEN NoNode ELSE tree.parent[n]]
<1>1. nodes(tree) \subseteq Blocks /\ tree.parent \in [nodes(tree) -> Blocks \cup {NoNode}]
  BY DEF IsTree
<1>2. /\ res.tree = [parent |-> par, best_finalized_number |-> Number(b)]
      /\ res.enacted = enacted
      /\ res.changed = (enacted # {} \/ kept # left)
  BY DEF finalize_with_descendent_if
<1>3. enacted \subseteq roots(tree) /\ \A r \in enacted : AtOrBelow(r, b)
  BY DEF Enacted
<1>4. roots(tree) \subseteq nodes(tree) /\ \A r \in nodes(tree) : children(tree, r) \subseteq nodes(tree)
  BY DEF roots, children
<1>5. left \subseteq nodes(tree)
  BY <1>3, <1>4
<1>6. ASSUME NEW x \in left, NEW y \in left PROVE x \notin Ancestors[y]
  <2>1. CASE enacted = {}
    BY <2>1, <1>1, RootLowest
  <2>2. CASE enacted # {}
    <3>1. PICK r \in enacted : x \in children(tree, r)
      BY <2>2
    <3>2. PICK s \in enacted : y \in children(tree, s)
      BY <2>2
    <3>3. r = s /\ r \in nodes(tree)
      BY <1>1, <1>3, <1>4, OneRoot
    <3>4. r \in Ancestors[x] /\ \A m \in nodes(tree) : m \in Ancestors[y] => AtOrBelow(m, r)
      BY <1>1, <3>1, <3>2, <3>3, ChildNext
    <3>5. x \in Blocks /\ r \in Blocks /\ x \in nodes(tree)
      BY <1>1, <1>4, <3>1, <3>3
    <3>6. ~AtOrBelow(x, r)
      BY <3>4, <3>5, BlockTreeAssumption DEF AtOrBelow, is_descendent_of
    <3> QED BY <3>4, <3>5, <3>6
  <2> QED BY <2>1, <2>2
<1>7. kept \subseteq left
  OBVIOUS
<1>8. ASSUME NEW n \in nodes(tree), n \notin enacted, AtOrBelow(n, b) \/ AtOrBelow(b, n)
      PROVE  \E x \in kept : AtOrBelow(x, n)
  <2>0. n \in Blocks
    BY <1>1
  <2>1. PICK x \in left : AtOrBelow(x, n)
    <3>1. PICK r \in roots(tree) : AtOrBelow(r, n)
      BY <1>1, RootBelow
    <3>2. CASE enacted = {}
      BY <3>1, <3>2
    <3>3. CASE enacted # {}
      <4>1. PICK s \in enacted : s \in roots(tree) /\ AtOrBelow(s, b)
        BY <3>3, <1>3
      <4>2. CASE AtOrBelow(n, b)
        <5>1. AtOrBelow(r, b)
          BY <4>2, <3>1, Descent
        <5> QED BY <5>1, <4>1, <3>1, <1>1, OneRoot, <1>4, <2>0, <1>8, ChildBelow, <3>3
                DEF AtOrBelow, is_descendent_of
      <4>3. CASE AtOrBelow(b, n)
        <5>1. AtOrBelow(s, n)
          BY <4>3, <4>1, <2>0, Descent
        <5>2. s \in nodes(tree) /\ s \in Ancestors[n]
          BY <5>1, <4>1, <1>4, <1>8 DEF AtOrBelow, is_descendent_of
        <5>3. PICK c \in children(tree, s) : AtOrBelow(c, n)
          BY <5>2, <1>1, ChildBelow
        <5> QED BY <5>3, <4>1, <3>3
      <4> QED BY <4>2, <4>3, <1>8
    <3> QED BY <3>2, <3>3
  <2>2. Compatible(x, b)
    <3>1. CASE AtOrBelow(n, b)
      <4>1. AtOrBelow(x, b)
        BY <3>1, <2>1, Descent
      <4> QED BY <4>1 DEF AtOrBelow, Compatible
    <3>2. CASE AtOrBelow(b, n)
      <4>1. x = b \/ x \in Ancestors[b] \/ b \in Ancestors[x]
        BY <3>2, <2>0, <2>1, BlockTreeAssumption DEF AtOrBelow, is_descendent_of
      <4> QED BY <4>1 DEF Compatible, is_descendent_of
    <3> QED BY <3>1, <3>2, <1>8
  <2> QED BY <2>1, <2>2
<1> HIDE DEF res, enacted, left, kept
<1>9. par \in [Under(tree, kept) -> Blocks \cup {NoNode}] /\ Under(tree, kept) \subseteq nodes(tree)
  BY <1>1 DEF Under
<1> HIDE DEF par
<1>10. /\ nodes(res.tree) = Under(tree, kept)
       /\ res.tree.parent = par
       /\ res.tree.best_finalized_number = Number(b)
       /\ res.tree = [parent |-> res.tree.parent,
                      best_finalized_number |-> res.tree.best_finalized_number]
  BY <1>2, <1>9 DEF nodes
<1>11. IsTree(res.tree)
  <2>1. Number(b) \in Int
    BY NumberGrows
  <2> QED BY <2>1, <1>1, <1>9, <1>10 DEF IsTree
<1>12. \A n : n \in nodes(res.tree) <=> n \in nodes(tree) /\ \E x \in kept : AtOrBelow(x, n)
  BY <1>10 DEF Under
<1>13. Nested(res.tree)
  <2> SUFFICES ASSUME NEW n \in nodes(res.tree)
               PROVE  \/ /\ res.tree.parent[n] = NoNode
                         /\ \A m \in nodes(res.tree) : m \notin Ancestors[n]
                      \/ /\ res.tree.parent[n] \in nodes(res.tree) \cap Ancestors[n]
                         /\ \A m \in nodes(res.tree) :
                               m \in Ancestors[n] => AtOrBelow(m, res.tree.parent[n])
    BY DEF Nested
  <2>1. n \in nodes(tree) /\ n \in Blocks
    BY <1>1, <1>12
  <2>2. res.tree.parent[n] = IF n \in kept THEN NoNode ELSE tree.parent[n]
    BY <1>10 DEF par
  <2>3. CASE n \in kept
    <3>1. ASSUME NEW m \in nodes(res.tree), m \in Ancestors[n] PROVE FALSE
      <4>1. PICK x \in kept : AtOrBelow(x, m)
        BY <1>12
      <4>2. x \in Ancestors[n]
        <5>1. AtOrBelow(m, n) /\ m # n
          BY <3>1, <2>1, BlockTreeAssumption DEF AtOrBelow, is_descendent_of
        <5> QED BY <5>1, <4>1, <2>1, Descent
      <4> QED BY <4>1, <4>2, <2>3, <1>6, <1>7
    <3> QED BY <2>2, <2>3, <3>1
  <2>4. CASE n \notin kept
    <3>1. PICK x \in kept : AtOrBelow(x, n)
      BY <1>12
    <3>2. x \in nodes(tree) /\ x \in Ancestors[n]
      BY <3>1, <2>4, <1>5, <1>7 DEF AtOrBelow, is_descendent_of
    <3>3. /\ tree.parent[n] \in nodes(tree) \cap Ancestors[n]
          /\ \A m \in nodes(tree) : m \in Ancestors[n] => AtOrBelow(m, tree.parent[n])
      BY <2>1, <3>2 DEF Nested
    <3>4. tree.parent[n] \in nodes(res.tree)
      BY <3>1, <3>2, <3>3, <1>12
    <3> QED BY <2>2, <2>4, <3>3, <3>4, <1>12
  <2> QED BY <2>3, <2>4
<1>14. ASSUME NEW r \in enacted PROVE r \notin nodes(res.tree)
  <2> SUFFICES ASSUME NEW x \in kept, AtOrBelow(x, r) PROVE FALSE
    BY <1>12
  <2>1. r \in nodes(tree) /\ r \in Blocks /\ r \in roots(tree)
    BY <1>1, <1>3, <1>4
  <2>2. PICK s \in enacted : x \in children(tree, s)
    BY <1>7 DEF left
  <2>3. s \in nodes(tree) /\ s \in Ancestors[x]
    BY <2>2, <1>1, <1>3, <1>4, ChildNext
  <2>4. s \in Ancestors[r]
    <3>1. x \in Blocks /\ AtOrBelow(s, x) /\ s # x
      BY <2>2, <2>3, <1>1, <1>4, BlockTreeAssumption DEF AtOrBelow, is_descendent_of
    <3> QED BY <3>1, <2>1, Descent
  <2> QED BY <2>1, <2>3, <2>4, <1>1, RootLowest
<1>15. ASSUME ~res.changed PROVE res.enacted = {} /\ res.tree.parent = tree.parent
  <2>1. enacted = {} /\ kept = left /\ left = roots(tree)
    BY <1>15, <1>2 DEF left
  <2>2. Under(tree, kept) = nodes(tree)
    BY <2>1, <1>1, RootBelow DEF Under
  <2>3. \A n \in nodes(tree) : n \in kept => tree.parent[n] = NoNode
    BY <2>1 DEF roots, children
  <2>4. par = tree.parent
    <3>1. par = [n \in nodes(tree) |-> IF n \in kept THEN NoNode ELSE tree.parent[n]]
      BY <2>2 DEF par
    <3>2. par = [n \in nodes(tree) |-> tree.parent[n]]
      BY <3>1, <2>3
    <3> QED BY <3>2, <1>1
  <2> QED BY <2>1, <2>4, <1>2, <1>10
<1>16. \A n \in nodes(tree) :
          n \notin res.enacted /\ (AtOrBelow(n, b) \/ AtOrBelow(b, n)) => n \in nodes(res.tree)
  BY <1>2, <1>8, <1>12
<1>17. nodes(res.tree) \subseteq nodes(tree)
  BY <1>12
<1>18. \A r \in res.enacted : r \notin nodes(res.tree)
  BY <1>2, <1>14
<1> QED BY <1>2, <1>10, <1>11, <1>13, <1>15, <1>16, <1>17, <1>18 DEF res, enacted

-----------------------------------------------------------------------------
(* The chain and its changes *)

\* What a header that signals a change holds.
LEMMA ChangeTypes ==
  ASSUME ChainInv, NEW b \in Blocks
  PROVE  /\ IsForced(b) => Signals(b)
         /\ Signals(b) => /\ b # Genesis
                          /\ signal[b].delay \in Nat
                          /\ effective_number(b) \in Nat
                          /\ Number(b) <= effective_number(b)
         /\ IsForced(b) => /\ b \in Canon
                           /\ signal[b].median \in Nat
                           /\ signal[b].median < Number(b)
<1>1. signal[b] \in Change
  BY DEF ChainInv
<1>2. IsForced(b) => Signals(b)
  BY DEF IsForced, Signals
<1>3. Signals(b) => b # Genesis /\ signal[b].delay \in Nat
  BY <1>1 DEF Signals, Change, NoChange, ChainInv
<1>4. IsForced(b) => signal[b].median \in Nat
  BY <1>1 DEF IsForced, Change, NoChange
<1>5. IsForced(b) => b \in Canon /\ signal[b].median < Number(b)
  BY DEF IsForced, ChainInv, NetworkAssumption
<1>6. Number(b) \in Nat
  BY NumberGrows
<1>7. ASSUME signal[b].delay \in Nat
      PROVE  effective_number(b) \in Nat /\ Number(b) <= effective_number(b)
  BY <1>6, <1>7 DEF effective_number
<1> QED BY <1>2, <1>3, <1>4, <1>5, <1>7

\* A change is signalled above the block at which the one before takes effect.
LEMMA Spacing ==
  ASSUME ChainInv, NEW a \in Blocks, NEW b \in Blocks, Signals(a), Signals(b), a \in Ancestors[b]
  PROVE  effective_number(a) < Number(b)
<1>1. Number(b) > Number(a) + signal[a].delay
  BY DEF ChainInv, schedule_change, Signals, is_descendent_of
<1>2. Number(b) \in Nat /\ effective_number(a) \in Nat
  BY NumberGrows, ChangeTypes
<1> QED BY <1>1, <1>2 DEF effective_number

\* The sets of the network are the changes of the chain that are not
\* dropped, in their order.
LEMMA SetsAre ==
  ASSUME ChainInv
  PROVE  /\ Len(sets) \in Nat
         /\ DOMAIN sets = 1 .. Len(sets)
         /\ \A i \in 1 .. Len(sets) :
               SetOf(i) = sets[i] /\ SetOf(i) \in Canon /\ Signals(SetOf(i)) /\ ~Dropped(SetOf(i))
         /\ \A i, j \in 0 .. Len(sets) : i < j => Number(SetOf(i)) < Number(SetOf(j))
         /\ \A i \in 0 .. Len(sets) : SetOf(i) \in Canon
         /\ \A s \in Canon : Signals(s) /\ ~Dropped(s) => \E i \in 1 .. Len(sets) : SetOf(i) = s
<1> DEFINE n == Cardinality(NetworkChanges)
<1>1. NetworkChanges \subseteq Canon /\ IsFiniteSet(NetworkChanges)
  <2>1. NetworkChanges \in SUBSET Canon
    BY DEF NetworkChanges
  <2> QED BY <2>1, OnCanon, FS_Subset
<1>2. n \in Nat
  BY <1>1, FS_CardinalityType
<1> HIDE DEF n
<1>3. /\ sets \in [1 .. n -> NetworkChanges]
      /\ \A i, j \in 1 .. n : i < j => Number(sets[i]) < Number(sets[j])
  BY DEF ChainInv, NetworkSets, n
<1>4. Len(sets) = n /\ DOMAIN sets = 1 .. n
  BY <1>2, <1>3
<1>5. \A i \in 1 .. n : sets[i] \in NetworkChanges
  BY <1>3
<1>6. \A i \in 1 .. n : SetOf(i) = sets[i]
  BY <1>2 DEF SetOf
<1>7. \A b \in NetworkChanges : b \in Canon /\ b \in Blocks /\ Signals(b) /\ ~Dropped(b)
  BY OnCanon DEF NetworkChanges
<1>8. SetOf(0) = Genesis
  BY DEF SetOf
<1>9. ASSUME NEW i \in 1 .. n PROVE 0 < Number(SetOf(i)) /\ Number(SetOf(i)) \in Nat
  <2>1. SetOf(i) \in Blocks /\ SetOf(i) # Genesis
    BY <1>5, <1>6, <1>7, ChangeTypes
  <2>2. Genesis \in Ancestors[SetOf(i)]
    BY <2>1, GenesisFirst DEF AtOrBelow, is_descendent_of
  <2> QED BY <2>1, <2>2, NumberGrows, GenesisFirst
<1>10. ASSUME NEW i \in 0 .. n, NEW j \in 0 .. n, i < j
       PROVE  Number(SetOf(i)) < Number(SetOf(j))
  <2>1. j \in 1 .. n
    BY <1>2, <1>10
  <2>2. CASE i = 0
    BY <2>1, <2>2, <1>8, <1>9, GenesisFirst
  <2>3. CASE i # 0
    <3>1. i \in 1 .. n
      BY <1>2, <2>3
    <3>2. Number(sets[i]) < Number(sets[j])
      BY <1>3, <1>10, <2>1, <3>1
    <3> QED BY <1>6, <2>1, <3>1, <3>2
  <2> QED BY <2>2, <2>3
<1>11. ASSUME NEW i \in 1 .. n, NEW j \in 1 .. n, sets[i] = sets[j] PROVE i = j
  <2>1. ~(i < j) /\ ~(j < i)
    <3>1. i < j => Number(sets[i]) < Number(sets[j])
      BY <1>3
    <3>2. j < i => Number(sets[j]) < Number(sets[i])
      BY <1>3
    <3>3. Number(sets[i]) \in Nat
      BY <1>6, <1>9
    <3> QED BY <3>1, <3>2, <3>3, <1>11
  <2> QED BY <2>1, <1>2
<1>12. sets \in Surjection(1 .. n, NetworkChanges)
  <2>1. sets \in Injection(1 .. n, NetworkChanges)
    BY <1>3, <1>11 DEF Injection, IsInjective
  <2>2. Cardinality(1 .. n) = n
    <3>1. 1 \in Int /\ n \in Int
      BY <1>2
    <3>2. Cardinality(1 .. n) = IF 1 > n THEN 0 ELSE n - 1 + 1
      BY <3>1, FS_Interval
    <3> QED BY <3>2, <1>2
  <2> QED BY <2>1, <2>2, <1>1, FS_Injection DEF n
<1>13. ASSUME NEW s \in Canon, Signals(s), ~Dropped(s) PROVE \E i \in 1 .. n : SetOf(i) = s
  <2>1. s \in NetworkChanges
    BY <1>13 DEF NetworkChanges
  <2>2. PICK i \in 1 .. n : sets[i] = s
    BY <2>1, <1>12 DEF Surjection
  <2> QED BY <2>2, <1>6
<1>14. ASSUME NEW i \in 0 .. n PROVE SetOf(i) \in Canon
  <2>1. CASE i = 0
    BY <2>1, <1>8, OnCanon
  <2>2. CASE i # 0
    <3>1. i \in 1 .. n
      BY <1>2, <2>2
    <3> QED BY <3>1, <1>5, <1>6, <1>7
  <2> QED BY <2>1, <2>2
<1> QED BY <1>2, <1>4, <1>5, <1>6, <1>7, <1>10, <1>13, <1>14

\* A change of the chain that takes effect and is not enacted yet is the next
\* one or comes after it.
LEMMA NextSet ==
  ASSUME ChainInv, NEW k \in 0 .. Len(sets), NEW s \in Canon, Signals(s), ~Dropped(s),
         Number(s) > Number(SetOf(k))
  PROVE  k < Len(sets) /\ AtOrBelow(SetOf(k + 1), s)
<1>1. PICK i \in 1 .. Len(sets) : SetOf(i) = s
  BY SetsAre
<1>2. Len(sets) \in Nat
  BY SetsAre
<1>3. Number(s) \in Nat /\ Number(SetOf(k)) \in Nat
  BY SetsAre, OnCanon, NumberGrows
<1>4. ~(i < k) /\ i # k
  <2>1. i \in 0 .. Len(sets)
    BY <1>2
  <2>2. i < k => Number(SetOf(i)) < Number(SetOf(k))
    BY <2>1, SetsAre
  <2> QED BY <1>1, <1>3, <2>2
<1>5. k < Len(sets) /\ k + 1 \in 0 .. Len(sets) /\ i \in 0 .. Len(sets) /\ (k + 1 = i \/ k + 1 < i)
  BY <1>2, <1>4
<1>6. Number(SetOf(k + 1)) <= Number(s)
  <2>1. SetOf(k + 1) \in Canon
    BY <1>5, SetsAre
  <2>2. Number(SetOf(k + 1)) \in Nat
    BY <2>1, OnCanon, NumberGrows
  <2>3. k + 1 < i => Number(SetOf(k + 1)) < Number(SetOf(i))
    BY <1>5, SetsAre
  <2> QED BY <1>1, <1>3, <1>5, <2>2, <2>3
<1>7. SetOf(k + 1) \in Canon
  BY <1>5, SetsAre
<1>8. AtOrBelow(SetOf(k + 1), Tip) /\ AtOrBelow(s, Tip) /\ Tip \in Blocks
  BY <1>7, OnCanon
<1> QED BY <1>5, <1>6, <1>8, Chain

\* Any change of the chain after the current set has a set to come; a change
\* below the next set, which is then forced, is dropped by it.
LEMMA NextChange ==
  ASSUME ChainInv, NEW k \in 0 .. Len(sets), NEW c \in Canon, Signals(c),
         Number(c) > Number(SetOf(k))
  PROVE  /\ k < Len(sets)
         /\ ~IsForced(SetOf(k + 1)) => AtOrBelow(SetOf(k + 1), c)
         /\ c \in Ancestors[SetOf(k + 1)] => Dropped(c)
<1> DEFINE next == SetOf(k + 1)
<1>0. c \in Blocks /\ Number(c) \in Nat /\ Number(SetOf(k)) \in Nat
  BY OnCanon, NumberGrows, SetsAre
<1>1. CASE ~Dropped(c)
  <2>1. k < Len(sets) /\ AtOrBelow(next, c)
    BY <1>1, NextSet
  <2>2. c \notin Ancestors[next]
    BY <2>1, <1>0, BlockTreeAssumption DEF AtOrBelow, is_descendent_of
  <2> QED BY <2>1, <2>2
<1>2. CASE Dropped(c)
  <2>1. PICK f \in Canon : IsForced(f) /\ c \in Ancestors[f] /\ effective_number(c) > signal[f].median
    BY <1>2 DEF Dropped, is_descendent_of
  <2>2. f \in Blocks /\ Signals(f) /\ ~Dropped(f) /\ signal[f].median \in Nat /\ Number(f) \in Nat
    BY <2>1, OnCanon, ChangeTypes, NumberGrows DEF Dropped
  <2>3. Number(f) > Number(SetOf(k))
    <3>1. Number(c) < Number(f)
      BY <2>1, <2>2, NumberGrows
    <3> QED BY <3>1, <2>2, <1>0
  <2>4. k < Len(sets) /\ AtOrBelow(next, f)
    BY <2>2, <2>3, NextSet
  <2>5. ASSUME ~IsForced(next) PROVE AtOrBelow(next, c)
    <3>1. next # f /\ next \in Ancestors[f]
      BY <2>1, <2>4, <2>5 DEF AtOrBelow, is_descendent_of
    <3>2. next \in Canon /\ Signals(next) /\ ~Dropped(next) /\ next \in Blocks
      <4>1. k + 1 \in 1 .. Len(sets)
        BY <2>4, SetsAre
      <4> QED BY <4>1, SetsAre, OnCanon
    <3>3. ~(effective_number(next) > signal[f].median)
      BY <2>1, <2>5, <3>1, <3>2 DEF Dropped, is_descendent_of
    <3>4. /\ effective_number(next) \in Nat /\ effective_number(c) \in Nat
          /\ Number(next) <= effective_number(next) /\ Number(next) \in Nat
      BY <3>2, <1>0, ChangeTypes, NumberGrows
    <3>5. c \in Ancestors[next] => effective_number(c) < Number(next)
      BY <3>2, <1>0, Spacing
    <3>6. c \notin Ancestors[next]
      BY <2>1, <2>2, <3>3, <3>4, <3>5
    <3>7. AtOrBelow(next, f) /\ AtOrBelow(c, f)
      BY <2>1, <2>4 DEF AtOrBelow, is_descendent_of
    <3> QED BY <3>6, <3>7, <2>2, BlockTreeAssumption DEF AtOrBelow, is_descendent_of
  <2> QED BY <1>2, <2>4, <2>5
<1> QED BY <1>1, <1>2

\* The history of the network's sets grows with each of them.
LEMMA HistoryGrows ==
  ASSUME NEW k \in Nat, NEW e, e = Ends(SetOf(k + 1))
  PROVE  Append(NetworkHistory(k), <<k, e>>) = NetworkHistory(k + 1)
<1> DEFINE h == NetworkHistory(k)
           n == NetworkHistory(k + 1)
           item(i) == <<i - 1, Ends(SetOf(i))>>
<1>1. h = [i \in 1 .. k |-> item(i)] /\ n = [i \in 1 .. k + 1 |-> item(i)]
  BY DEF NetworkHistory
<1>2. item(k + 1) = <<k, e>>
  <2>1. k + 1 - 1 = k
    OBVIOUS
  <2> QED BY <2>1
<1> HIDE DEF item
<1>3. Append([i \in 1 .. k |-> item(i)], item(k + 1)) = [i \in 1 .. k + 1 |-> item(i)]
  <2> DEFINE s == [i \in 1 .. k |-> item(i)]
             range == {item(i) : i \in 1 .. k + 1}
  <2>1. s \in Seq(range) /\ Len(s) = k
    <3>1. s \in [1 .. k -> range]
      OBVIOUS
    <3> HIDE DEF range
    <3> QED BY <3>1
  <2>2. \A i \in 1 .. k : s[i] = item(i)
    OBVIOUS
  <2> HIDE DEF s, range
  <2>3. Append(s, item(k + 1)) = [i \in 1 .. k + 1 |-> item(i)]
    BY <2>1, <2>2
  <2> QED BY <2>3 DEF s
<1> QED BY <1>1, <1>2, <1>3 DEF h, n

-----------------------------------------------------------------------------
(* Importing a block *)

\* The set with the change of the block, as in WithChange.
Added(set, b) == IF Signals(b) THEN add_pending_change(set, b) ELSE set

\* What adding a change leaves alone and what it adds.
LEMMA AddedFields ==
  ASSUME NEW set, NEW b \in Blocks, IsSet(set), Nested(set.pending_standard_changes),
         b \notin nodes(set.pending_standard_changes),
         \A n \in nodes(set.pending_standard_changes) : b \notin Ancestors[n],
         IsForced(b) => Signals(b)
  PROVE  LET new == Added(set, b)
         IN  /\ IsSet(new)
             /\ Nested(new.pending_standard_changes)
             /\ new.set_id = set.set_id
             /\ new.current_authorities = set.current_authorities
             /\ new.authority_set_changes = set.authority_set_changes
             /\ new.pending_standard_changes.best_finalized_number
                  = set.pending_standard_changes.best_finalized_number
             /\ new.pending_forced_changes
                  = set.pending_forced_changes \cup (IF IsForced(b) THEN {b} ELSE {})
             /\ nodes(new.pending_standard_changes)
                  = nodes(set.pending_standard_changes)
                      \cup (IF Signals(b) /\ ~IsForced(b) THEN {b} ELSE {})
<1> DEFINE tree == set.pending_standard_changes
<1>1. /\ set = [current_authorities      |-> set.current_authorities,
                set_id                   |-> set.set_id,
                pending_standard_changes |-> set.pending_standard_changes,
                pending_forced_changes   |-> set.pending_forced_changes,
                authority_set_changes    |-> set.authority_set_changes]
      /\ set.set_id \in Nat /\ IsTree(tree) /\ set.pending_forced_changes \subseteq Blocks
  BY DEF IsSet
<1>2. CASE ~Signals(b)
  <2>1. Added(set, b) = set /\ ~IsForced(b)
    BY <1>2 DEF Added
  <2> QED BY <1>2, <2>1
<1>3. CASE IsForced(b)
  <2> DEFINE new == [current_authorities      |-> set.current_authorities,
                     set_id                   |-> set.set_id,
                     pending_standard_changes |-> set.pending_standard_changes,
                     pending_forced_changes   |-> set.pending_forced_changes \cup {b},
                     authority_set_changes    |-> set.authority_set_changes]
  <2>1. Added(set, b) = new
    <3>1. Added(set, b) = [set EXCEPT !.pending_forced_changes = @ \cup {b}]
      BY <1>3 DEF Added, add_pending_change
    <3> QED BY <3>1, <1>1
  <2>2. IsSet(new)
    BY <1>1 DEF IsSet
  <2> QED BY <1>3, <2>1, <2>2
<1>4. CASE Signals(b) /\ ~IsForced(b)
  <2> DEFINE grown == import(tree, b)
             new == [current_authorities      |-> set.current_authorities,
                     set_id                   |-> set.set_id,
                     pending_standard_changes |-> grown,
                     pending_forced_changes   |-> set.pending_forced_changes,
                     authority_set_changes    |-> set.authority_set_changes]
  <2>1. Added(set, b) = new
    <3>1. Added(set, b) = [set EXCEPT !.pending_standard_changes = grown]
      BY <1>4 DEF Added, add_pending_change
    <3> HIDE DEF grown
    <3> QED BY <3>1, <1>1
  <2>2. /\ IsTree(grown) /\ Nested(grown)
        /\ nodes(grown) = nodes(tree) \cup {b}
        /\ grown.best_finalized_number = tree.best_finalized_number
    BY <1>1, ImportTree
  <2> HIDE DEF grown
  <2>3. IsSet(new)
    BY <1>1, <2>2 DEF IsSet
  <2> QED BY <1>4, <2>1, <2>2, <2>3
<1> QED BY <1>2, <1>3, <1>4

\* What the check of a block relies on: the blocks below it are imported.
Importable(imp, fin, b) ==
  /\ ChainInv
  /\ imp \subseteq Blocks
  /\ \A x \in imp : Ancestors[x] \subseteq imp
  /\ fin \in imp
  /\ b \in Blocks \ imp
  /\ Ancestors[b] \subseteq imp

ReadyToImport(set, imp, fin, b) ==
  /\ Importable(imp, fin, b)
  /\ SetInv(set, imp, fin)
  /\ Signals(b) => add_pending_change_ok(set, b)

\* The invariant with the block and its change, but for a forced change that
\* is due at the block.
HalfWay(set, imp, fin, b) ==
  /\ IsSet(set)
  /\ Nested(set.pending_standard_changes)
  /\ FollowsNetwork(set)
  /\ PendingInv(set, imp \cup {b})
  /\ FinalizedInv(set, fin)
  /\ \A x, y \in set.pending_forced_changes : ~is_descendent_of(x, y)
  /\ \A f \in set.pending_forced_changes, x \in imp :
        AtOrBelow(f, x) => Number(x) < effective_number(f)
  /\ \A f \in set.pending_forced_changes :
        AtOrBelow(f, b) => Number(b) <= effective_number(f)

\* Adding the change of a block.
LEMMA AddKept ==
  ASSUME NEW set, NEW imp, NEW fin, NEW b, ReadyToImport(set, imp, fin, b)
  PROVE  /\ HalfWay(Added(set, b), imp, fin, b)
         /\ Added(set, b).set_id = set.set_id
<1> DEFINE new == Added(set, b)
           tree == set.pending_standard_changes
<1>1. /\ ChainInv /\ imp \subseteq Blocks /\ fin \in imp /\ b \in Blocks /\ b \notin imp
      /\ Ancestors[b] \subseteq imp
      /\ \A x \in imp : Ancestors[x] \subseteq imp
      /\ Signals(b) => add_pending_change_ok(set, b)
  BY DEF ReadyToImport, Importable
<1>2. /\ IsSet(set) /\ WellFormed(tree) /\ FollowsNetwork(set)
      /\ PendingInv(set, imp) /\ ForcedInv(set, imp) /\ FinalizedInv(set, fin)
  BY DEF ReadyToImport, SetInv
<1>3. nodes(tree) \subseteq imp /\ set.pending_forced_changes \subseteq imp /\ nodes(tree) \subseteq Blocks
  BY <1>1, <1>2 DEF PendingInv
<1>4. Nested(tree)
  BY <1>2, <1>3, WellFormedNested
<1>5. \A x \in imp : b \notin Ancestors[x] /\ x # b
  BY <1>1
<1>6. /\ IsForced(b) => Signals(b)
      /\ Signals(b) => effective_number(b) \in Nat /\ Number(b) <= effective_number(b)
  BY <1>1, ChangeTypes
<1>7. /\ IsSet(new)
      /\ Nested(new.pending_standard_changes)
      /\ new.set_id = set.set_id
      /\ new.current_authorities = set.current_authorities
      /\ new.authority_set_changes = set.authority_set_changes
      /\ new.pending_standard_changes.best_finalized_number = tree.best_finalized_number
      /\ new.pending_forced_changes
           = set.pending_forced_changes \cup (IF IsForced(b) THEN {b} ELSE {})
      /\ nodes(new.pending_standard_changes)
           = nodes(tree) \cup (IF Signals(b) /\ ~IsForced(b) THEN {b} ELSE {})
  BY <1>1, <1>2, <1>3, <1>4, <1>5, <1>6, AddedFields
<1> HIDE DEF new
<1>8. FollowsNetwork(new)
  BY <1>2, <1>7 DEF FollowsNetwork
<1>9. PendingInv(new, imp \cup {b})
  <2> DEFINE k == set.set_id
  <2>1. b \in Canon /\ Signals(b) => Number(b) > Number(SetOf(k))
    <3> SUFFICES ASSUME b \in Canon, Signals(b), ~(Number(b) > Number(SetOf(k))) PROVE FALSE
      OBVIOUS
    <3>1. SetOf(k) \in imp /\ SetOf(k) \in Canon
      <4>1. k \in 0 .. Len(sets) /\ set.current_authorities = SetOf(k)
        BY <1>2, <1>1, SetsAre DEF FollowsNetwork, IsSet
      <4> QED BY <4>1, <1>1, <1>2, SetsAre DEF PendingInv
    <3>2. Number(b) \in Nat /\ Number(SetOf(k)) \in Nat
      BY <1>1, <3>1, NumberGrows
    <3>3. AtOrBelow(b, Tip) /\ AtOrBelow(SetOf(k), Tip) /\ Tip \in Blocks
      BY <3>1, OnCanon
    <3>4. AtOrBelow(b, SetOf(k))
      BY <3>2, <3>3, Chain
    <3> QED BY <3>1, <3>4, <1>5 DEF AtOrBelow, is_descendent_of
  <2>2. \A c \in nodes(new.pending_standard_changes) : c \in imp \cup {b} /\ Signals(c) /\ ~IsForced(c)
    BY <1>2, <1>7 DEF PendingInv
  <2>3. \A f \in new.pending_forced_changes : f \in imp \cup {b} /\ IsForced(f)
    BY <1>2, <1>7 DEF PendingInv
  <2>4. ASSUME NEW c \in (imp \cup {b}) \cap Canon, Signals(c)
        PROVE  c \in nodes(new.pending_standard_changes) \cup new.pending_forced_changes
                 <=> Number(c) > Number(SetOf(new.set_id))
    <3>1. CASE c = b
      BY <3>1, <2>1, <2>4, <1>7
    <3>2. CASE c # b
      <4>1. c \in nodes(tree) \cup set.pending_forced_changes <=> Number(c) > Number(SetOf(k))
        BY <3>2, <2>4, <1>2 DEF PendingInv
      <4> QED BY <4>1, <3>2, <1>7
    <3> QED BY <3>1, <3>2
  <2>5. new.current_authorities \in imp \cup {b}
    BY <1>2, <1>7 DEF PendingInv
  <2> QED BY <2>2, <2>3, <2>4, <2>5 DEF PendingInv
<1>10. FinalizedInv(new, fin)
  <2>1. ~AtOrBelow(b, fin)
    BY <1>1, <1>5 DEF AtOrBelow, is_descendent_of
  <2> QED BY <2>1, <1>2, <1>7 DEF FinalizedInv
<1>11. ASSUME NEW x \in new.pending_forced_changes, NEW y \in new.pending_forced_changes
       PROVE  ~is_descendent_of(x, y)
  <2>1. CASE x \in set.pending_forced_changes /\ y \in set.pending_forced_changes
    BY <2>1, <1>2 DEF ForcedInv
  <2>2. CASE x = b
    <3>1. b \notin Ancestors[b]
      BY <1>1, BlockTreeAssumption
    <3> QED BY <2>2, <3>1, <1>3, <1>5, <1>7 DEF is_descendent_of
  <2>3. CASE x \in set.pending_forced_changes /\ y = b /\ IsForced(b)
    <3>1. ~AtOrBelow(x, b)
      BY <2>3, <1>1, <1>6 DEF add_pending_change_ok
    <3> QED BY <2>3, <3>1 DEF AtOrBelow
  <2> QED BY <2>1, <2>2, <2>3, <1>7
<1>12. ASSUME NEW f \in new.pending_forced_changes, NEW x \in imp, AtOrBelow(f, x)
       PROVE  Number(x) < effective_number(f)
  <2>1. f # b
    BY <1>5, <1>12 DEF AtOrBelow, is_descendent_of
  <2> QED BY <2>1, <1>2, <1>7, <1>12 DEF ForcedInv
<1>13. ASSUME NEW f \in new.pending_forced_changes, AtOrBelow(f, b)
       PROVE  Number(b) <= effective_number(f)
  <2>1. CASE f = b
    <3>1. IsForced(b)
      BY <2>1, <1>9 DEF PendingInv
    <3> QED BY <2>1, <3>1, <1>6
  <2>2. CASE f # b
    <3>1. f \in set.pending_forced_changes /\ f \in Blocks /\ IsForced(f)
      BY <2>2, <1>1, <1>3, <1>7, <1>9 DEF PendingInv
    <3>2. Number(b) \in Nat /\ Number(f) \in Nat /\ effective_number(f) \in Nat
          /\ Number(f) <= effective_number(f)
      BY <3>1, <1>1, NumberGrows, ChangeTypes
    <3>3. ASSUME effective_number(f) < Number(b) PROVE FALSE
      <4>1. PICK a \in Ancestors[b] : Number(a) = effective_number(f)
        BY <3>2, <3>3, <1>1, EveryHeight
      <4>2. AtOrBelow(a, b)
        BY DEF AtOrBelow, is_descendent_of
      <4>3. Number(f) <= Number(a)
        BY <4>1, <3>2
      <4>4. AtOrBelow(f, a)
        BY <4>2, <4>3, <1>1, <1>13, Chain
      <4>5. Number(a) < effective_number(f)
        BY <4>4, <1>1, <1>12
      <4> QED BY <4>1, <4>5, <3>2
    <3> QED BY <3>2, <3>3
  <2> QED BY <2>1, <2>2
<1>14. HalfWay(new, imp, fin, b)
  BY <1>7, <1>8, <1>9, <1>10, <1>11, <1>12, <1>13 DEF HalfWay
<1> QED BY <1>7, <1>14 DEF new

\* No forced change is due: the set with the change of the block is the new one.
LEMMA ImportKept ==
  ASSUME NEW set, NEW imp, NEW fin, NEW b, ReadyToImport(set, imp, fin, b),
         Triggered(Added(set, b), b) = {}
  PROVE  /\ SetInv(Added(set, b), imp \cup {b}, fin)
         /\ Added(set, b).set_id = set.set_id
<1> DEFINE new == Added(set, b)
<1>1. HalfWay(new, imp, fin, b) /\ new.set_id = set.set_id
  BY AddKept
<1>2. Triggered(new, b) = {}
  OBVIOUS
<1>0. ChainInv /\ b \in Blocks
  BY DEF ReadyToImport, Importable
<1> HIDE DEF new
<1>3. WellFormed(new.pending_standard_changes)
  <2>1. nodes(new.pending_standard_changes) \subseteq Blocks
    BY <1>1 DEF HalfWay, IsSet, IsTree
  <2> QED BY <2>1, <1>1, WellFormedNested DEF HalfWay
<1>4. ASSUME NEW f \in new.pending_forced_changes, AtOrBelow(f, b)
      PROVE  Number(b) < effective_number(f)
  <2>1. f \in Blocks /\ IsForced(f)
    BY <1>1 DEF HalfWay, IsSet, PendingInv
  <2>2. Number(b) \in Nat /\ effective_number(f) \in Nat
    BY <2>1, <1>0, NumberGrows, ChangeTypes
  <2>3. Number(b) <= effective_number(f)
    BY <1>1, <1>4 DEF HalfWay
  <2>4. effective_number(f) # Number(b)
    BY <1>2, <1>4 DEF Triggered
  <2> QED BY <2>2, <2>3, <2>4
<1>5. ForcedInv(new, imp \cup {b})
  BY <1>1, <1>4 DEF HalfWay, ForcedInv
<1>6. SetInv(new, imp \cup {b}, fin)
  BY <1>1, <1>3, <1>5 DEF HalfWay, SetInv
<1> QED BY <1>1, <1>6 DEF new

\* A forced change that is due brings the next set of the network: what it
\* builds on is enacted, and what it does not build on is dropped.
LEMMA ForcedIsNext ==
  ASSUME NEW set, NEW imp, NEW fin, NEW b, Importable(imp, fin, b),
         HalfWay(set, imp, fin, b), apply_forced_changes_ok(set, b),
         NEW c \in Triggered(set, b)
  PROVE  set.set_id < Len(sets) /\ SetOf(set.set_id + 1) = c
<1> DEFINE k == set.set_id
           tree == set.pending_standard_changes
           next == SetOf(k + 1)
<1>1. ChainInv /\ imp \subseteq Blocks /\ b \in Blocks /\ Ancestors[b] \subseteq imp
      /\ \A x \in imp : Ancestors[x] \subseteq imp
  BY DEF Importable
<1>2. c \in set.pending_forced_changes /\ IsForced(c) /\ c \in imp \cup {b} /\ c \in Blocks
  BY <1>1 DEF Triggered, HalfWay, PendingInv
<1>3. Signals(c) /\ c \in Canon /\ ~Dropped(c) /\ signal[c].median \in Nat
  BY <1>1, <1>2, ChangeTypes DEF Dropped
<1>4. k \in 0 .. Len(sets)
  BY <1>1, SetsAre DEF HalfWay, IsSet, FollowsNetwork
<1>5. \A x \in (imp \cup {b}) \cap Canon :
         Signals(x) => (x \in nodes(tree) \cup set.pending_forced_changes <=> Number(x) > Number(SetOf(k)))
  BY DEF HalfWay, PendingInv
<1>6. Number(c) > Number(SetOf(k))
  BY <1>2, <1>3, <1>5
<1>7. k < Len(sets) /\ AtOrBelow(next, c)
  BY <1>1, <1>3, <1>4, <1>6, NextSet
<1>8. ASSUME next # c PROVE FALSE
  <2>1. next \in Ancestors[c]
    BY <1>7, <1>8 DEF AtOrBelow, is_descendent_of
  <2>2. next \in imp /\ next \in Blocks
    BY <1>1, <1>2, <2>1
  <2>3. next \in Canon /\ Signals(next) /\ ~Dropped(next) /\ Number(next) > Number(SetOf(k))
    <3>1. k + 1 \in 1 .. Len(sets) /\ k + 1 \in 0 .. Len(sets) /\ k < k + 1
      BY <1>4, <1>7
    <3>2. Number(SetOf(k)) < Number(next)
      BY <1>1, <1>4, <3>1, SetsAre
    <3>3. SetOf(k) \in Blocks
      BY <1>1, <1>4, SetsAre, OnCanon
    <3>4. Number(SetOf(k)) \in Nat /\ Number(next) \in Nat
      BY <2>2, <3>3, NumberGrows
    <3> QED BY <1>1, <3>1, <3>2, <3>4, SetsAre
  <2>4. next \in nodes(tree) \cup set.pending_forced_changes
    BY <2>2, <2>3, <1>5
  <2>5. next \notin set.pending_forced_changes
    BY <1>2, <2>1 DEF HalfWay, is_descendent_of
  <2>6. next \in nodes(tree) /\ nodes(tree) \subseteq Blocks /\ Nested(tree) /\ ~IsForced(next)
    BY <2>4, <2>5 DEF HalfWay, IsSet, IsTree, PendingInv
  <2>7. PICK r \in roots(tree) : AtOrBelow(r, next)
    BY <2>6, RootBelow
  <2>8. r \in nodes(tree) /\ r \in Blocks /\ Signals(r)
    BY <2>6, <2>7 DEF roots, children, HalfWay, PendingInv
  <2>9. r \in Ancestors[c]
    <3>1. AtOrBelow(next, c)
      BY <1>7
    <3> QED BY <3>1, <2>7, <1>2, <1>8, Descent
  <2>10. effective_number(next) <= signal[c].median
    <3>1. ~(effective_number(next) > signal[c].median)
      BY <2>1, <2>3, <2>6, <1>2, <1>3 DEF Dropped, is_descendent_of
    <3>2. effective_number(next) \in Nat
      BY <1>1, <2>2, <2>3, ChangeTypes
    <3> QED BY <3>1, <3>2, <1>3
  <2>11. effective_number(r) <= effective_number(next)
    <3>1. CASE r = next
      BY <3>1, <2>2, <2>3, <1>1, ChangeTypes
    <3>2. CASE r # next
      <4>1. effective_number(r) < Number(next)
        BY <3>2, <2>2, <2>3, <2>7, <2>8, <1>1, Spacing DEF AtOrBelow, is_descendent_of
      <4>2. /\ effective_number(r) \in Nat /\ effective_number(next) \in Nat
            /\ Number(next) <= effective_number(next) /\ Number(next) \in Nat
        BY <2>2, <2>3, <2>8, <1>1, ChangeTypes, NumberGrows
      <4> QED BY <4>1, <4>2
    <3> QED BY <3>1, <3>2
  <2>12. effective_number(r) <= signal[c].median
    <3>1. effective_number(r) \in Nat /\ effective_number(next) \in Nat
      BY <1>1, <2>2, <2>3, <2>8, ChangeTypes
    <3> QED BY <3>1, <2>10, <2>11, <1>3
  <2> QED BY <2>7, <2>9, <2>12 DEF apply_forced_changes_ok, is_descendent_of
<1> QED BY <1>7, <1>8

\* The set that a forced change brings.
LEMMA ForcedKept ==
  ASSUME NEW set, NEW imp, NEW fin, NEW b, Importable(imp, fin, b),
         HalfWay(set, imp, fin, b), apply_forced_changes_ok(set, b),
         NEW c \in Triggered(set, b)
  PROVE  /\ SetInv(apply_forced_changes(set, c), imp \cup {b}, fin)
         /\ apply_forced_changes(set, c).set_id = set.set_id + 1
<1> DEFINE k == set.set_id
           new == apply_forced_changes(set, c)
<1>1. ChainInv /\ imp \subseteq Blocks /\ b \in Blocks /\ fin \in imp
  BY DEF Importable
<1>2. c \in set.pending_forced_changes /\ IsForced(c) /\ c \in imp \cup {b} /\ c \in Blocks
      /\ effective_number(c) = Number(b)
  BY <1>1 DEF Triggered, HalfWay, PendingInv
<1>3. Signals(c) /\ c \in Canon
  BY <1>1, <1>2, ChangeTypes
<1>4. k \in Nat /\ k < Len(sets) /\ SetOf(k + 1) = c
  BY ForcedIsNext DEF HalfWay, IsSet
<1>5. /\ new = [current_authorities      |-> c,
                set_id                   |-> k + 1,
                pending_standard_changes |-> EmptyTree,
                pending_forced_changes   |-> {},
                authority_set_changes    |->
                  Append(set.authority_set_changes, <<k, signal[c].median>>)]
  BY DEF apply_forced_changes
<1> HIDE DEF new
<1>6. /\ new.current_authorities = c
      /\ new.set_id = k + 1
      /\ new.pending_standard_changes = EmptyTree
      /\ new.pending_forced_changes = {}
      /\ new.authority_set_changes = Append(set.authority_set_changes, <<k, signal[c].median>>)
      /\ new = [current_authorities      |-> new.current_authorities,
                set_id                   |-> new.set_id,
                pending_standard_changes |-> new.pending_standard_changes,
                pending_forced_changes   |-> new.pending_forced_changes,
                authority_set_changes    |-> new.authority_set_changes]
  BY <1>5
<1>7. IsTree(EmptyTree) /\ nodes(EmptyTree) = {} /\ WellFormed(EmptyTree)
      /\ EmptyTree.best_finalized_number = -1
  BY EmptyTreeFacts
<1>8. IsSet(new)
  BY <1>4, <1>6, <1>7 DEF IsSet
<1>9. FollowsNetwork(new)
  <2>1. set.authority_set_changes = NetworkHistory(k)
    BY DEF HalfWay, FollowsNetwork
  <2>2. signal[c].median = Ends(SetOf(k + 1))
    BY <1>2, <1>4 DEF Ends
  <2>3. Append(NetworkHistory(k), <<k, signal[c].median>>) = NetworkHistory(k + 1)
    BY <1>4, <2>2, HistoryGrows
  <2>4. k + 1 <= Len(sets)
    BY <1>1, <1>4, SetsAre
  <2> QED BY <1>4, <1>6, <2>1, <2>3, <2>4 DEF FollowsNetwork
<1>10. PendingInv(new, imp \cup {b})
  <2>1. ASSUME NEW x \in (imp \cup {b}) \cap Canon, Signals(x), Number(x) > Number(c)
        PROVE  FALSE
    <3>1. x \in Blocks /\ Number(x) \in Nat /\ Number(c) \in Nat /\ effective_number(c) \in Nat
      BY <1>1, <1>2, <1>3, ChangeTypes, NumberGrows
    <3>2. AtOrBelow(c, Tip) /\ AtOrBelow(x, Tip) /\ Tip \in Blocks
      BY <1>3, OnCanon
    <3>3. c \in Ancestors[x]
      BY <2>1, <3>1, <3>2, Chain
    <3>4. effective_number(c) < Number(x)
      BY <1>1, <1>2, <1>3, <2>1, <3>1, <3>3, Spacing
    <3>5. x # b
      BY <3>1, <3>4, <1>2
    <3>6. Number(x) < effective_number(c)
      BY <3>3, <3>5, <1>2 DEF HalfWay, AtOrBelow, is_descendent_of
    <3> QED BY <3>1, <3>4, <3>6
  <2> QED BY <2>1, <1>2, <1>4, <1>6, <1>7 DEF PendingInv
<1>11. ForcedInv(new, imp \cup {b})
  BY <1>6 DEF ForcedInv
<1>12. FinalizedInv(new, fin)
  <2>1. Number(fin) \in Nat
    BY <1>1, NumberGrows
  <2>2. -1 <= Number(fin)
    BY <2>1
  <2>3. ASSUME NEW i \in 1 .. k + 1, ~IsForced(SetOf(i))
        PROVE  effective_number(SetOf(i)) <= Number(fin)
    <3>1. i # k + 1
      BY <2>3, <1>2, <1>4
    <3>2. i \in 1 .. k
      BY <3>1, <1>4
    <3> QED BY <3>2, <2>3 DEF HalfWay, FinalizedInv
  <2> QED BY <2>2, <2>3, <1>6, <1>7 DEF FinalizedInv
<1>13. SetInv(new, imp \cup {b}, fin)
  BY <1>6, <1>7, <1>8, <1>9, <1>10, <1>11, <1>12 DEF SetInv
<1> QED BY <1>6, <1>13 DEF new

\* make_authorities_changes of a block: the set with the change of the block,
\* or the one that a forced change brings.
LEMMA CheckedKept ==
  ASSUME NEW set, NEW imp, NEW fin, NEW b, ReadyToImport(set, imp, fin, b),
         apply_forced_changes_ok(Added(set, b), b)
  PROVE  LET forced == Triggered(Added(set, b), b)
             new == IF forced = {} THEN Added(set, b)
                    ELSE apply_forced_changes(Added(set, b), CHOOSE c \in forced : TRUE)
         IN  /\ SetInv(new, imp \cup {b}, fin)
             /\ new.set_id = set.set_id + (IF forced # {} THEN 1 ELSE 0)
<1> DEFINE added == Added(set, b)
           forced == Triggered(added, b)
           c == CHOOSE x \in forced : TRUE
<1>1. HalfWay(added, imp, fin, b) /\ added.set_id = set.set_id /\ Importable(imp, fin, b)
  BY AddKept DEF ReadyToImport
<1>2. set.set_id \in Nat
  BY DEF ReadyToImport, SetInv, IsSet
<1>3. CASE forced = {}
  <2>1. SetInv(added, imp \cup {b}, fin)
    BY <1>3, ImportKept
  <2> HIDE DEF added
  <2> QED BY <1>1, <1>2, <1>3, <2>1 DEF added
<1>4. CASE forced # {}
  <2>1. c \in forced
    BY <1>4
  <2>2. apply_forced_changes_ok(added, b)
    OBVIOUS
  <2> HIDE DEF added, c
  <2>3. /\ SetInv(apply_forced_changes(added, c), imp \cup {b}, fin)
        /\ apply_forced_changes(added, c).set_id = set.set_id + 1
    BY <1>1, <2>1, <2>2, ForcedKept
  <2> QED BY <1>4, <2>3 DEF added, c
<1> QED BY <1>3, <1>4

-----------------------------------------------------------------------------
(* Finalizing a block *)

\* What the external voting protocol guarantees of a justification.
LEMMA JustifiedStops ==
  ASSUME OldSetStops, NEW b, NEW j, Justified(b, j), j < Len(sets)
  PROVE  /\ b \in Canon
         /\ ~IsForced(SetOf(j + 1)) => Number(b) <= effective_number(SetOf(j + 1))
         /\ IsForced(SetOf(j + 1)) =>
              /\ Number(b) < Number(SetOf(j + 1))
              /\ \A s \in Canon : Signals(s) /\ s \in Ancestors[SetOf(j + 1)] /\ Dropped(s)
                                    => Number(b) < effective_number(s)
BY DEF Justified, is_descendent_of

\* What the finalization of a block relies on: a set up to the current one
\* justified it, and it is above the finalized block.
ReadyToFinalize(set, imp, fin, b, j) ==
  /\ OldSetStops
  /\ ChainInv
  /\ imp \subseteq Blocks
  /\ \A x \in imp : Ancestors[x] \subseteq imp
  /\ fin \in imp
  /\ SetInv(set, imp, fin)
  /\ b \in imp
  /\ j \in 0 .. set.set_id
  /\ Justified(b, j)
  /\ fin \in Ancestors[b]

\* The only change that a block can make due is the one that brings the next
\* set, at the block where it takes effect and if the current set justified it.
OnlyNextDue(set, b, j) ==
  \A r \in nodes(set.pending_standard_changes) :
    AtOrBelow(r, b) /\ effective_number(r) <= Number(b) =>
      /\ j = set.set_id
      /\ set.set_id < Len(sets)
      /\ r = SetOf(set.set_id + 1)
      /\ effective_number(r) = Number(b)

\* No block at or above the signal of a forced change that waits is finalized.
BelowForced(set, b) ==
  \A f \in set.pending_forced_changes : b \in Ancestors[f] /\ Number(b) < effective_number(f)

\* Types and pending changes, in the form in which the next lemmas use them.
LEMMA PendingFacts ==
  ASSUME NEW set, NEW imp, NEW fin, ChainInv, imp \subseteq Blocks, fin \in imp,
         SetInv(set, imp, fin)
  PROVE  /\ set.set_id \in 0 .. Len(sets) /\ set.set_id \in Nat /\ Len(sets) \in Nat
         /\ SetOf(set.set_id) \in Canon
         /\ Number(SetOf(set.set_id)) \in Nat /\ Number(fin) \in Nat
         /\ IsTree(set.pending_standard_changes)
         /\ Nested(set.pending_standard_changes)
         /\ \A c \in nodes(set.pending_standard_changes) :
               /\ c \in imp /\ c \in Blocks /\ Signals(c) /\ ~IsForced(c)
               /\ Number(c) \in Nat /\ effective_number(c) \in Nat /\ Number(c) <= effective_number(c)
               /\ c \in Canon => Number(c) > Number(SetOf(set.set_id))
         /\ \A f \in set.pending_forced_changes :
               /\ f \in imp /\ f \in Blocks /\ Signals(f) /\ IsForced(f) /\ f \in Canon /\ ~Dropped(f)
               /\ Number(f) \in Nat /\ effective_number(f) \in Nat /\ Number(f) <= effective_number(f)
               /\ Number(f) > Number(SetOf(set.set_id))
<1> DEFINE k == set.set_id
<1>1. IsSet(set) /\ WellFormed(set.pending_standard_changes) /\ FollowsNetwork(set)
      /\ PendingInv(set, imp)
  BY DEF SetInv
<1>2. Len(sets) \in Nat
  BY SetsAre
<1>3. k \in Nat /\ k \in 0 .. Len(sets)
  BY <1>1, <1>2 DEF IsSet, FollowsNetwork
<1>4. SetOf(k) \in Canon
  BY <1>3, SetsAre
<1>5. Number(SetOf(k)) \in Nat /\ Number(fin) \in Nat
  BY <1>4, OnCanon, NumberGrows
<1>6. IsTree(set.pending_standard_changes) /\ Nested(set.pending_standard_changes)
  BY <1>1, WellFormedNested DEF IsSet, IsTree
<1>7. ASSUME NEW c \in nodes(set.pending_standard_changes)
      PROVE  /\ c \in imp /\ c \in Blocks /\ Signals(c) /\ ~IsForced(c)
             /\ Number(c) \in Nat /\ effective_number(c) \in Nat /\ Number(c) <= effective_number(c)
             /\ c \in Canon => Number(c) > Number(SetOf(k))
  <2>1. c \in imp /\ c \in Blocks /\ Signals(c) /\ ~IsForced(c)
    BY <1>1 DEF PendingInv
  <2>2. c \in Canon => Number(c) > Number(SetOf(k))
    BY <2>1, <1>1 DEF PendingInv
  <2> QED BY <2>1, <2>2, NumberGrows, ChangeTypes
<1>8. ASSUME NEW f \in set.pending_forced_changes
      PROVE  /\ f \in imp /\ f \in Blocks /\ Signals(f) /\ IsForced(f) /\ f \in Canon /\ ~Dropped(f)
             /\ Number(f) \in Nat /\ effective_number(f) \in Nat /\ Number(f) <= effective_number(f)
             /\ Number(f) > Number(SetOf(k))
  <2>1. f \in imp /\ f \in Blocks /\ IsForced(f)
    BY <1>1 DEF PendingInv
  <2>2. /\ Signals(f) /\ f \in Canon /\ ~Dropped(f)
        /\ effective_number(f) \in Nat /\ Number(f) <= effective_number(f)
    BY <2>1, ChangeTypes DEF Dropped
  <2>3. Number(f) > Number(SetOf(k))
    BY <2>1, <2>2, <1>1 DEF PendingInv
  <2> QED BY <2>1, <2>2, <2>3, NumberGrows
<1> QED BY <1>2, <1>3, <1>4, <1>5, <1>6, <1>7, <1>8

\* A block that only an older set justified is below the current set's signal.
LEMMA StaleIsBelow ==
  ASSUME NEW set, NEW imp, NEW fin, NEW b, NEW j, ReadyToFinalize(set, imp, fin, b, j),
         j # set.set_id
  PROVE  Number(b) < Number(SetOf(set.set_id))
<1> DEFINE k == set.set_id
           next == SetOf(j + 1)
<1>1. /\ OldSetStops /\ ChainInv /\ imp \subseteq Blocks /\ fin \in imp /\ SetInv(set, imp, fin)
      /\ b \in Blocks /\ j \in 0 .. k /\ Justified(b, j) /\ fin \in Ancestors[b]
  BY DEF ReadyToFinalize
<1>2. /\ k \in 0 .. Len(sets) /\ k \in Nat /\ Len(sets) \in Nat
      /\ Number(SetOf(k)) \in Nat /\ Number(fin) \in Nat
  BY <1>1, PendingFacts
<1>3. /\ j < Len(sets) /\ j + 1 \in 0 .. Len(sets) /\ j + 1 \in 1 .. k /\ j + 1 \in 1 .. Len(sets)
      /\ (j + 1 = k \/ j + 1 < k)
  BY <1>1, <1>2
<1>4. Number(fin) < Number(b) /\ Number(b) \in Nat
  BY <1>1, NumberGrows
<1>5. next \in Canon /\ Signals(next) /\ next \in Blocks
  BY <1>1, <1>3, SetsAre, OnCanon
<1>6. Number(next) \in Nat /\ effective_number(next) \in Nat
  BY <1>1, <1>5, NumberGrows, ChangeTypes
<1>7. IsForced(next)
  <2> SUFFICES ASSUME ~IsForced(next) PROVE FALSE
    OBVIOUS
  <2>1. Number(b) <= effective_number(next)
    BY <1>1, <1>3, JustifiedStops
  <2>2. effective_number(next) <= Number(fin)
    BY <1>1, <1>3 DEF SetInv, FinalizedInv
  <2> QED BY <2>1, <2>2, <1>2, <1>4, <1>6
<1>8. Number(b) < Number(next)
  BY <1>1, <1>3, <1>7, JustifiedStops
<1>9. j + 1 < k => Number(next) < Number(SetOf(k))
  BY <1>1, <1>2, <1>3, SetsAre
<1> QED BY <1>2, <1>3, <1>4, <1>6, <1>8, <1>9

\* The two facts about any block that is finalized.
LEMMA FinalizationFits ==
  ASSUME NEW set, NEW imp, NEW fin, NEW b, NEW j, ReadyToFinalize(set, imp, fin, b, j)
  PROVE  OnlyNextDue(set, b, j) /\ BelowForced(set, b)
<1> DEFINE k == set.set_id
           next == SetOf(k + 1)
           tree == set.pending_standard_changes
<1>1. /\ OldSetStops /\ ChainInv /\ imp \subseteq Blocks /\ fin \in imp /\ SetInv(set, imp, fin)
      /\ b \in imp /\ b \in Blocks /\ j \in 0 .. k /\ Justified(b, j) /\ b \in Canon
      /\ \A x \in imp : Ancestors[x] \subseteq imp
  BY DEF ReadyToFinalize, Justified
<1>2. /\ k \in 0 .. Len(sets) /\ k \in Nat /\ Len(sets) \in Nat
      /\ SetOf(k) \in Canon /\ Number(SetOf(k)) \in Nat
  BY <1>1, PendingFacts
<1>3. Number(b) \in Nat
  BY <1>1, NumberGrows
<1>4. \A c \in nodes(tree) :
         /\ c \in Blocks /\ Signals(c) /\ ~IsForced(c)
         /\ Number(c) \in Nat /\ effective_number(c) \in Nat /\ Number(c) <= effective_number(c)
         /\ c \in Canon => Number(c) > Number(SetOf(k))
  BY <1>1, PendingFacts
<1>5. \A f \in set.pending_forced_changes :
         /\ f \in Blocks /\ Signals(f) /\ IsForced(f) /\ f \in Canon /\ ~Dropped(f)
         /\ Number(f) \in Nat /\ effective_number(f) \in Nat /\ Number(f) <= effective_number(f)
         /\ Number(f) > Number(SetOf(k))
  BY <1>1, PendingFacts
<1>6. j # k => Number(b) < Number(SetOf(k))
  BY StaleIsBelow
<1>7. ASSUME k < Len(sets)
      PROVE  /\ next \in Canon /\ next \in Blocks /\ Signals(next) /\ ~Dropped(next)
             /\ Number(next) \in Nat /\ effective_number(next) \in Nat
             /\ Number(next) <= effective_number(next)
  <2>1. k + 1 \in 1 .. Len(sets)
    BY <1>2, <1>7
  <2>2. next \in Canon /\ next \in Blocks /\ Signals(next) /\ ~Dropped(next)
    BY <1>1, <2>1, SetsAre, OnCanon
  <2> QED BY <1>1, <2>2, NumberGrows, ChangeTypes
<1>8. ASSUME NEW r \in nodes(tree), AtOrBelow(r, b), effective_number(r) <= Number(b)
      PROVE  j = k /\ k < Len(sets) /\ r = next /\ effective_number(r) = Number(b)
  <2>1. r \in Canon /\ Number(r) > Number(SetOf(k)) /\ r \in Blocks /\ Signals(r) /\ ~IsForced(r)
    BY <1>1, <1>4, <1>8, BelowCanon
  <2>2. Number(r) \in Nat /\ effective_number(r) \in Nat /\ Number(r) <= effective_number(r)
    BY <1>4
  <2>3. j = k
    <3>1. ~(Number(b) < Number(SetOf(k)))
      BY <2>1, <2>2, <1>2, <1>3, <1>8
    <3> QED BY <3>1, <1>6
  <2>4. /\ k < Len(sets)
        /\ ~IsForced(next) => AtOrBelow(next, r)
        /\ r \in Ancestors[next] => Dropped(r)
    BY <1>1, <1>2, <2>1, NextChange
  <2>5. next \in Canon /\ next \in Blocks /\ Signals(next) /\ Number(next) \in Nat
        /\ effective_number(next) \in Nat
    BY <1>7, <2>4
  <2>6. ~IsForced(next)
    <3> SUFFICES ASSUME IsForced(next) PROVE FALSE
      OBVIOUS
    <3>1. /\ Number(b) < Number(next)
          /\ \A s \in Canon : Signals(s) /\ s \in Ancestors[next] /\ Dropped(s)
                                => Number(b) < effective_number(s)
      BY <1>1, <2>3, <2>4, JustifiedStops
    <3>2. Number(r) < Number(next)
      BY <3>1, <2>2, <2>5, <1>3, <1>8
    <3>3. AtOrBelow(r, Tip) /\ AtOrBelow(next, Tip) /\ Tip \in Blocks
      BY <2>1, <2>5, OnCanon
    <3>4. r \in Ancestors[next]
      BY <3>2, <3>3, Chain
    <3>5. Number(b) < effective_number(r)
      BY <2>1, <2>4, <3>1, <3>4
    <3> QED BY <3>5, <2>2, <1>3, <1>8
  <2>7. Number(b) <= effective_number(next)
    BY <1>1, <2>3, <2>4, <2>6, JustifiedStops
  <2>8. r = next
    <3> SUFFICES ASSUME r # next PROVE FALSE
      OBVIOUS
    <3>1. next \in Ancestors[r]
      BY <2>4, <2>6 DEF AtOrBelow, is_descendent_of
    <3>2. effective_number(next) < Number(r)
      BY <1>1, <2>1, <2>5, <3>1, Spacing
    <3> QED BY <3>2, <2>2, <2>5, <2>7, <1>3, <1>8
  <2>9. effective_number(r) = Number(b)
    BY <2>2, <2>7, <2>8, <1>3, <1>8
  <2> QED BY <2>3, <2>4, <2>8, <2>9
<1>9. ASSUME NEW f \in set.pending_forced_changes
      PROVE  b \in Ancestors[f] /\ Number(b) < effective_number(f)
  <2>1. /\ f \in Blocks /\ Signals(f) /\ IsForced(f) /\ f \in Canon /\ ~Dropped(f)
        /\ Number(f) \in Nat /\ effective_number(f) \in Nat /\ Number(f) <= effective_number(f)
        /\ Number(f) > Number(SetOf(k))
    BY <1>5
  <2>2. Number(b) < Number(f)
    <3>1. CASE j # k
      BY <3>1, <2>1, <1>2, <1>3, <1>6
    <3>2. CASE j = k
      <4>1. k < Len(sets) /\ AtOrBelow(next, f)
        BY <1>1, <1>2, <2>1, NextSet
      <4>2. next \in Canon /\ next \in Blocks /\ Signals(next)
            /\ Number(next) \in Nat /\ effective_number(next) \in Nat
        BY <1>7, <4>1
      <4>3. CASE IsForced(next)
        <5>1. Number(b) < Number(next)
          BY <1>1, <3>2, <4>1, <4>3, JustifiedStops
        <5>2. Number(next) <= Number(f)
          <6>1. next = f \/ next \in Ancestors[f]
            BY <4>1 DEF AtOrBelow, is_descendent_of
          <6>2. next \in Ancestors[f] => Number(next) < Number(f)
            BY <2>1, NumberGrows
          <6> QED BY <6>1, <6>2, <2>1, <4>2
        <5> QED BY <5>1, <5>2, <2>1, <4>2, <1>3
      <4>4. CASE ~IsForced(next)
        <5>1. Number(b) <= effective_number(next)
          BY <1>1, <3>2, <4>1, <4>4, JustifiedStops
        <5>2. next \in Ancestors[f]
          BY <4>1, <4>4, <2>1 DEF AtOrBelow, is_descendent_of
        <5>3. effective_number(next) < Number(f)
          BY <1>1, <2>1, <4>2, <5>2, Spacing
        <5> QED BY <5>1, <5>3, <2>1, <4>2, <1>3
      <4> QED BY <4>3, <4>4
    <3> QED BY <3>1, <3>2
  <2>3. AtOrBelow(b, Tip) /\ AtOrBelow(f, Tip) /\ Tip \in Blocks
    BY <1>1, <2>1, OnCanon
  <2>4. b \in Ancestors[f]
    BY <2>2, <2>3, Chain
  <2> QED BY <2>1, <2>2, <2>4, <1>3
<1> QED BY <1>8, <1>9 DEF OnlyNextDue, BelowForced

\* The nodes whose change has taken effect at the height of a block.
Due(set, b) == {c \in nodes(set.pending_standard_changes) : effective_number(c) <= Number(b)}

\* What apply_standard_changes returns, field by field.
LEMMA StandardFields ==
  ASSUME NEW set, NEW b, IsSet(set)
  PROVE  LET res == finalize_with_descendent_if(set.pending_standard_changes, b, Due(set, b))
             out == apply_standard_changes(set, b)
         IN  /\ out.changed = res.changed
             /\ out.new_set = (res.enacted # {})
             /\ out.set.pending_standard_changes = res.tree
             /\ out.set.pending_forced_changes
                  = IF res.changed THEN forced_kept(set, b) ELSE set.pending_forced_changes
             /\ res.enacted = {} =>
                  /\ out.set.current_authorities = set.current_authorities
                  /\ out.set.set_id = set.set_id
                  /\ out.set.authority_set_changes = set.authority_set_changes
             /\ res.enacted # {} =>
                  /\ out.set.current_authorities = CHOOSE c \in res.enacted : TRUE
                  /\ out.set.set_id = set.set_id + 1
                  /\ out.set.authority_set_changes
                       = Append(set.authority_set_changes, <<set.set_id, Number(b)>>)
             /\ out.set = [current_authorities      |-> out.set.current_authorities,
                           set_id                   |-> out.set.set_id,
                           pending_standard_changes |-> out.set.pending_standard_changes,
                           pending_forced_changes   |-> out.set.pending_forced_changes,
                           authority_set_changes    |-> out.set.authority_set_changes]
<1> DEFINE res == finalize_with_descendent_if(set.pending_standard_changes, b, Due(set, b))
           forced == IF res.changed THEN forced_kept(set, b) ELSE set.pending_forced_changes
           pruned == [set EXCEPT !.pending_standard_changes = res.tree,
                                 !.pending_forced_changes =
                                    IF res.changed THEN forced_kept(set, b) ELSE @]
           new == [pruned EXCEPT
                     !.current_authorities = CHOOSE c \in res.enacted : TRUE,
                     !.set_id = @ + 1,
                     !.authority_set_changes = Append(@, <<set.set_id, Number(b)>>)]
           out == apply_standard_changes(set, b)
<1>1. out = [set |-> IF res.enacted = {} THEN pruned ELSE new,
             changed |-> res.changed,
             new_set |-> res.enacted # {}]
  BY DEF apply_standard_changes, Due
<1> HIDE DEF res
<1>2. set = [current_authorities      |-> set.current_authorities,
             set_id                   |-> set.set_id,
             pending_standard_changes |-> set.pending_standard_changes,
             pending_forced_changes   |-> set.pending_forced_changes,
             authority_set_changes    |-> set.authority_set_changes]
  BY DEF IsSet
<1>3. pruned = [current_authorities      |-> set.current_authorities,
                set_id                   |-> set.set_id,
                pending_standard_changes |-> res.tree,
                pending_forced_changes   |-> forced,
                authority_set_changes    |-> set.authority_set_changes]
  <2> DEFINE t == res.tree
  <2>1. pruned = [set EXCEPT !.pending_standard_changes = t, !.pending_forced_changes = forced]
    <3>1. CASE res.changed
      BY <3>1
    <3>2. CASE ~res.changed
      BY <3>2
    <3> QED BY <3>1, <3>2
  <2> HIDE DEF pruned, forced, t
  <2>2. [set EXCEPT !.pending_standard_changes = t, !.pending_forced_changes = forced]
          = [current_authorities      |-> set.current_authorities,
             set_id                   |-> set.set_id,
             pending_standard_changes |-> t,
             pending_forced_changes   |-> forced,
             authority_set_changes    |-> set.authority_set_changes]
    <3> DEFINE q == [set EXCEPT !.pending_standard_changes = t]
    <3>1. [set EXCEPT !.pending_standard_changes = t, !.pending_forced_changes = forced]
            = [q EXCEPT !.pending_forced_changes = forced]
      OBVIOUS
    <3>2. q = [current_authorities      |-> set.current_authorities,
               set_id                   |-> set.set_id,
               pending_standard_changes |-> t,
               pending_forced_changes   |-> set.pending_forced_changes,
               authority_set_changes    |-> set.authority_set_changes]
      BY <1>2
    <3> HIDE DEF q
    <3> QED BY <3>1, <3>2
  <2> QED BY <2>1, <2>2 DEF t
<1> HIDE DEF pruned, forced
<1>4. new = [current_authorities      |-> CHOOSE c \in res.enacted : TRUE,
             set_id                   |-> set.set_id + 1,
             pending_standard_changes |-> res.tree,
             pending_forced_changes   |-> forced,
             authority_set_changes    |-> Append(set.authority_set_changes, <<set.set_id, Number(b)>>)]
  <2> DEFINE c1 == CHOOSE c \in res.enacted : TRUE
             i1 == set.set_id + 1
             h1 == Append(set.authority_set_changes, <<set.set_id, Number(b)>>)
             t == res.tree
  <2>1. new = [pruned EXCEPT !.current_authorities = c1, !.set_id = i1, !.authority_set_changes = h1]
    <3>1. pruned.set_id = set.set_id /\ pruned.authority_set_changes = set.authority_set_changes
      BY <1>3
    <3> QED BY <3>1
  <2> HIDE DEF new, c1, i1, h1, t
  <2>2. [pruned EXCEPT !.current_authorities = c1, !.set_id = i1, !.authority_set_changes = h1]
          = [current_authorities      |-> c1,
             set_id                   |-> i1,
             pending_standard_changes |-> t,
             pending_forced_changes   |-> forced,
             authority_set_changes    |-> h1]
    <3> DEFINE q1 == [pruned EXCEPT !.current_authorities = c1]
               q2 == [q1 EXCEPT !.set_id = i1]
    <3>1. [pruned EXCEPT !.current_authorities = c1, !.set_id = i1, !.authority_set_changes = h1]
            = [q2 EXCEPT !.authority_set_changes = h1]
      OBVIOUS
    <3>2. q1 = [current_authorities      |-> c1,
                set_id                   |-> set.set_id,
                pending_standard_changes |-> t,
                pending_forced_changes   |-> forced,
                authority_set_changes    |-> set.authority_set_changes]
      BY <1>3 DEF t
    <3> HIDE DEF q1
    <3>3. q2 = [current_authorities      |-> c1,
                set_id                   |-> i1,
                pending_standard_changes |-> t,
                pending_forced_changes   |-> forced,
                authority_set_changes    |-> set.authority_set_changes]
      BY <3>2
    <3> HIDE DEF q2
    <3> QED BY <3>1, <3>3
  <2> QED BY <2>1, <2>2 DEF c1, i1, h1, t
<1> HIDE DEF new, out
<1>5. out.changed = res.changed /\ out.new_set = (res.enacted # {})
      /\ out.set = IF res.enacted = {} THEN pruned ELSE new
  BY <1>1
<1>6. CASE res.enacted = {}
  <2>1. out.set = [current_authorities      |-> set.current_authorities,
                   set_id                   |-> set.set_id,
                   pending_standard_changes |-> res.tree,
                   pending_forced_changes   |-> forced,
                   authority_set_changes    |-> set.authority_set_changes]
    BY <1>3, <1>5, <1>6
  <2>2. /\ out.set.pending_standard_changes = res.tree
        /\ out.set.pending_forced_changes = forced
        /\ out.set.current_authorities = set.current_authorities
        /\ out.set.set_id = set.set_id
        /\ out.set.authority_set_changes = set.authority_set_changes
        /\ out.set = [current_authorities      |-> out.set.current_authorities,
                      set_id                   |-> out.set.set_id,
                      pending_standard_changes |-> out.set.pending_standard_changes,
                      pending_forced_changes   |-> out.set.pending_forced_changes,
                      authority_set_changes    |-> out.set.authority_set_changes]
    BY <2>1
  <2> QED BY <1>5, <1>6, <2>2 DEF res, out, forced
<1>7. CASE res.enacted # {}
  <2>1. out.set = [current_authorities      |-> CHOOSE c \in res.enacted : TRUE,
                   set_id                   |-> set.set_id + 1,
                   pending_standard_changes |-> res.tree,
                   pending_forced_changes   |-> forced,
                   authority_set_changes    |-> Append(set.authority_set_changes, <<set.set_id, Number(b)>>)]
    BY <1>4, <1>5, <1>7
  <2>2. /\ out.set.pending_standard_changes = res.tree
        /\ out.set.pending_forced_changes = forced
        /\ out.set.current_authorities = CHOOSE c \in res.enacted : TRUE
        /\ out.set.set_id = set.set_id + 1
        /\ out.set.authority_set_changes = Append(set.authority_set_changes, <<set.set_id, Number(b)>>)
        /\ out.set = [current_authorities      |-> out.set.current_authorities,
                      set_id                   |-> out.set.set_id,
                      pending_standard_changes |-> out.set.pending_standard_changes,
                      pending_forced_changes   |-> out.set.pending_forced_changes,
                      authority_set_changes    |-> out.set.authority_set_changes]
    BY <2>1
  <2> QED BY <1>5, <1>7, <2>2 DEF res, out, forced
<1> QED BY <1>6, <1>7

\* The roots that a block enacts are the changes that it makes due.
LEMMA DueIsEnacted ==
  ASSUME NEW set, NEW imp, NEW fin, NEW b, NEW j, ReadyToFinalize(set, imp, fin, b, j)
  PROVE  \A r \in nodes(set.pending_standard_changes) :
            AtOrBelow(r, b) /\ effective_number(r) <= Number(b)
              => r \in Enacted(set.pending_standard_changes, b, Due(set, b))
<1> DEFINE tree == set.pending_standard_changes
<1>1. ChainInv /\ imp \subseteq Blocks /\ fin \in imp /\ SetInv(set, imp, fin) /\ b \in Blocks
  BY DEF ReadyToFinalize
<1>2. /\ nodes(tree) \subseteq Blocks /\ Nested(tree)
      /\ \A c \in nodes(tree) :
            /\ Signals(c)
            /\ Number(c) \in Nat /\ effective_number(c) \in Nat /\ Number(c) <= effective_number(c)
  BY <1>1, PendingFacts
<1>3. OnlyNextDue(set, b, j)
  BY FinalizationFits
<1> SUFFICES ASSUME NEW r \in nodes(tree), AtOrBelow(r, b), effective_number(r) <= Number(b)
             PROVE  r \in Enacted(tree, b, Due(set, b))
  OBVIOUS
<1>4. PICK s \in roots(tree) : AtOrBelow(s, r)
  BY <1>2, RootBelow
<1>5. s \in nodes(tree)
  BY <1>4 DEF roots, children
<1>6. AtOrBelow(s, b)
  BY <1>1, <1>4, Descent
<1>7. effective_number(s) <= Number(b)
  <2>1. CASE s = r
    BY <2>1
  <2>2. CASE s # r
    <3>1. effective_number(s) < Number(r)
      BY <1>1, <1>2, <1>4, <1>5, <2>2, Spacing DEF AtOrBelow, is_descendent_of
    <3>2. Number(b) \in Nat
      BY <1>1, NumberGrows
    <3>3. /\ effective_number(s) \in Nat /\ effective_number(r) \in Nat /\ Number(r) \in Nat
          /\ Number(r) <= effective_number(r)
      BY <1>2, <1>5
    <3> QED BY <3>1, <3>2, <3>3
  <2> QED BY <2>1, <2>2
<1>8. s = r
  BY <1>3, <1>5, <1>6, <1>7 DEF OnlyNextDue
<1> QED BY <1>4, <1>5, <1>7, <1>8 DEF Enacted, Due

\* Finalizing a block keeps the invariant; it makes a new set only if the
\* current one justified the block, and if it does not tell the caller to
\* write the set, only the height has changed.
LEMMA FinalizeKept ==
  ASSUME NEW set, NEW imp, NEW fin, NEW b, NEW j, ReadyToFinalize(set, imp, fin, b, j)
  PROVE  LET out == apply_standard_changes(set, b)
         IN  /\ SetInv(out.set, imp, b)
             /\ ~out.new_set => out.set.set_id = set.set_id
             /\ out.new_set => out.set.set_id = set.set_id + 1 /\ j = set.set_id
             /\ ~out.changed => SameButHeight(set, out.set)
             /\ out.set.pending_forced_changes = set.pending_forced_changes
<1> DEFINE k == set.set_id
           tree == set.pending_standard_changes
           res == finalize_with_descendent_if(tree, b, Due(set, b))
           out == apply_standard_changes(set, b)
           new == out.set
           enacted == Enacted(tree, b, Due(set, b))
<1>1. /\ OldSetStops /\ ChainInv /\ imp \subseteq Blocks /\ fin \in imp /\ SetInv(set, imp, fin)
      /\ b \in imp /\ b \in Blocks /\ j \in 0 .. k /\ Justified(b, j) /\ b \in Canon
      /\ fin \in Ancestors[b]
  BY DEF ReadyToFinalize, Justified
<1>2. /\ k \in 0 .. Len(sets) /\ k \in Nat /\ Len(sets) \in Nat
      /\ SetOf(k) \in Canon /\ Number(SetOf(k)) \in Nat /\ Number(fin) \in Nat
      /\ IsTree(tree) /\ Nested(tree)
  BY <1>1, PendingFacts
<1>3. \A c \in nodes(tree) :
         /\ c \in imp /\ c \in Blocks /\ Signals(c) /\ ~IsForced(c)
         /\ Number(c) \in Nat /\ effective_number(c) \in Nat /\ Number(c) <= effective_number(c)
         /\ c \in Canon => Number(c) > Number(SetOf(k))
  BY <1>1, PendingFacts
<1>4. \A f \in set.pending_forced_changes :
         f \in imp /\ f \in Blocks /\ IsForced(f) /\ f \in Canon /\ Number(f) \in Nat
  BY <1>1, PendingFacts
<1>5. Number(b) \in Nat /\ Number(fin) < Number(b)
  BY <1>1, NumberGrows
<1>6. OnlyNextDue(set, b, j) /\ BelowForced(set, b)
  BY FinalizationFits
<1>7. /\ IsTree(res.tree)
      /\ Nested(res.tree)
      /\ res.tree.best_finalized_number = Number(b)
      /\ res.enacted = enacted
      /\ nodes(res.tree) \subseteq nodes(tree)
      /\ \A r \in res.enacted : r \notin nodes(res.tree)
      /\ \A n \in nodes(tree) :
            n \notin res.enacted /\ (AtOrBelow(n, b) \/ AtOrBelow(b, n)) => n \in nodes(res.tree)
      /\ ~res.changed => res.enacted = {} /\ res.tree.parent = tree.parent
  BY <1>1, <1>2, FinalizeTree
<1>8. forced_kept(set, b) = set.pending_forced_changes
  <2>1. \A f \in set.pending_forced_changes :
           effective_number(f) > Number(b) /\ is_descendent_of(b, f)
    <3> SUFFICES ASSUME NEW f \in set.pending_forced_changes
                 PROVE  effective_number(f) > Number(b) /\ is_descendent_of(b, f)
      OBVIOUS
    <3>1. b \in Ancestors[f] /\ Number(b) < effective_number(f)
      BY <1>6 DEF BelowForced
    <3>2. effective_number(f) \in Nat
      BY <1>1, PendingFacts
    <3> QED BY <3>1, <3>2, <1>5 DEF is_descendent_of
  <2> QED BY <2>1 DEF forced_kept
<1>9. /\ out.changed = res.changed
      /\ out.new_set = (enacted # {})
      /\ new.pending_standard_changes = res.tree
      /\ new.pending_forced_changes = set.pending_forced_changes
      /\ enacted = {} => /\ new.current_authorities = set.current_authorities
                         /\ new.set_id = k
                         /\ new.authority_set_changes = set.authority_set_changes
      /\ enacted # {} => /\ new.current_authorities \in enacted
                         /\ new.set_id = k + 1
                         /\ new.authority_set_changes
                              = Append(set.authority_set_changes, <<k, Number(b)>>)
      /\ new = [current_authorities      |-> new.current_authorities,
                set_id                   |-> new.set_id,
                pending_standard_changes |-> new.pending_standard_changes,
                pending_forced_changes   |-> new.pending_forced_changes,
                authority_set_changes    |-> new.authority_set_changes]
  <2>1. IsSet(set)
    BY <1>1 DEF SetInv
  <2>2. enacted # {} => (CHOOSE c \in enacted : TRUE) \in enacted
    OBVIOUS
  <2>3. /\ out.changed = res.changed
        /\ out.new_set = (res.enacted # {})
        /\ out.set.pending_standard_changes = res.tree
        /\ out.set.pending_forced_changes
             = IF res.changed THEN forced_kept(set, b) ELSE set.pending_forced_changes
        /\ res.enacted = {} => /\ out.set.current_authorities = set.current_authorities
                               /\ out.set.set_id = k
                               /\ out.set.authority_set_changes = set.authority_set_changes
        /\ res.enacted # {} => /\ out.set.current_authorities = CHOOSE c \in res.enacted : TRUE
                               /\ out.set.set_id = k + 1
                               /\ out.set.authority_set_changes
                                    = Append(set.authority_set_changes, <<k, Number(b)>>)
        /\ out.set = [current_authorities      |-> out.set.current_authorities,
                      set_id                   |-> out.set.set_id,
                      pending_standard_changes |-> out.set.pending_standard_changes,
                      pending_forced_changes   |-> out.set.pending_forced_changes,
                      authority_set_changes    |-> out.set.authority_set_changes]
    BY <2>1, StandardFields
  <2>4. res.enacted = enacted
    BY <1>7
  <2> HIDE DEF res, out, enacted
  <2> QED BY <2>2, <2>3, <2>4, <1>8
<1> HIDE DEF res, out, enacted, new
<1>10. ASSUME NEW r \in enacted
       PROVE  /\ j = k /\ k < Len(sets) /\ r = SetOf(k + 1) /\ effective_number(r) = Number(b)
              /\ r \in roots(tree) /\ r \in nodes(tree)
  <2>1. /\ r \in roots(tree) /\ r \in nodes(tree) /\ AtOrBelow(r, b)
        /\ effective_number(r) <= Number(b)
    BY DEF enacted, Enacted, Due
  <2> QED BY <2>1, <1>6 DEF OnlyNextDue
<1>11. IsSet(new)
  <2>1. new.set_id \in Nat
    BY <1>2, <1>9
  <2>2. set.pending_forced_changes \subseteq Blocks
    BY <1>4
  <2> QED BY <2>1, <2>2, <1>7, <1>9 DEF IsSet
<1>12. WellFormed(new.pending_standard_changes)
  <2>1. nodes(res.tree) \subseteq Blocks
    BY <1>3, <1>7
  <2> QED BY <2>1, <1>7, <1>9, WellFormedNested
<1>13. FollowsNetwork(new)
  <2>1. /\ k <= Len(sets) /\ set.current_authorities = SetOf(k)
        /\ set.authority_set_changes = NetworkHistory(k)
    BY <1>1 DEF SetInv, FollowsNetwork
  <2>2. CASE enacted = {}
    BY <2>1, <2>2, <1>9 DEF FollowsNetwork
  <2>3. CASE enacted # {}
    <3>1. PICK r \in enacted : new.current_authorities = r
      BY <2>3, <1>9
    <3>2. k < Len(sets) /\ r = SetOf(k + 1) /\ effective_number(r) = Number(b) /\ ~IsForced(r)
      BY <1>3, <1>10
    <3>3. Number(b) = Ends(SetOf(k + 1))
      BY <3>2 DEF Ends
    <3>4. Append(NetworkHistory(k), <<k, Number(b)>>) = NetworkHistory(k + 1)
      BY <3>3, <1>2, HistoryGrows
    <3>5. k + 1 <= Len(sets)
      BY <3>2, <1>2
    <3> QED BY <2>1, <2>3, <3>1, <3>2, <3>4, <3>5, <1>9 DEF FollowsNetwork
  <2> QED BY <2>2, <2>3
<1>14. PendingInv(new, imp)
  <2>1. new.current_authorities \in imp
    <3>1. CASE enacted = {}
      BY <3>1, <1>1, <1>9 DEF SetInv, PendingInv
    <3>2. CASE enacted # {}
      BY <3>2, <1>3, <1>9, <1>10
    <3> QED BY <3>1, <3>2
  <2>2. \A c \in nodes(new.pending_standard_changes) : c \in imp /\ Signals(c) /\ ~IsForced(c)
    BY <1>3, <1>7, <1>9
  <2>3. \A f \in new.pending_forced_changes : f \in imp /\ IsForced(f)
    BY <1>4, <1>9
  <2>4. ASSUME NEW c \in imp \cap Canon, Signals(c)
        PROVE  c \in nodes(new.pending_standard_changes) \cup new.pending_forced_changes
                 <=> Number(c) > Number(SetOf(new.set_id))
    <3>1. c \in nodes(tree) \cup set.pending_forced_changes <=> Number(c) > Number(SetOf(k))
      BY <1>1, <2>4 DEF SetInv, PendingInv
    <3>2. AtOrBelow(c, Tip) /\ AtOrBelow(b, Tip) /\ Tip \in Blocks /\ c \in Blocks
      BY <1>1, OnCanon
    <3>3. AtOrBelow(c, b) \/ AtOrBelow(b, c)
      BY <3>2, BlockTreeAssumption DEF AtOrBelow, is_descendent_of
    <3>4. c \in nodes(res.tree) <=> c \in nodes(tree) /\ c \notin enacted
      BY <3>3, <1>7
    <3>5. CASE enacted = {}
      BY <3>1, <3>4, <3>5, <1>9
    <3>6. CASE enacted # {}
      <4>1. PICK r \in enacted : TRUE
        BY <3>6
      <4>2. /\ k < Len(sets) /\ r = SetOf(k + 1) /\ effective_number(r) = Number(b)
            /\ r \in roots(tree) /\ r \in nodes(tree)
        BY <1>10
      <4>3. enacted = {r}
        BY <4>1, <4>2, <1>10
      <4>4. r \in Canon /\ Number(r) \in Nat /\ Number(c) \in Nat /\ Number(r) > Number(SetOf(k))
        <5>1. r \in Canon
          BY <4>2, <1>1, <1>2, SetsAre
        <5> QED BY <5>1, <4>2, <3>2, <1>3, NumberGrows
      <4>5. AtOrBelow(r, Tip)
        BY <4>4, OnCanon
      <4>6. ASSUME c \in nodes(tree), c # r PROVE Number(c) > Number(r)
        <5>1. c \notin Ancestors[r]
          BY <4>2, <4>6, <1>2, RootLowest DEF IsTree
        <5>2. ~(Number(c) < Number(r)) /\ Number(c) # Number(r)
          BY <3>2, <4>5, <4>6, <5>1, Chain
        <5> QED BY <5>2, <4>4
      <4>7. ASSUME c \in set.pending_forced_changes PROVE Number(c) > Number(r)
        <5>1. b \in Ancestors[c]
          BY <4>7, <1>6 DEF BelowForced
        <5>2. Number(b) < Number(c)
          BY <5>1, <3>2, NumberGrows
        <5>3. Number(r) <= Number(b)
          BY <4>2, <1>3
        <5> QED BY <5>2, <5>3, <4>4, <1>5
      <4>8. ASSUME Number(c) > Number(r)
            PROVE  c # r /\ c \in nodes(tree) \cup set.pending_forced_changes
        <5>1. Number(c) > Number(SetOf(k))
          BY <4>4, <4>8, <1>2
        <5>2. c # r
          BY <4>4, <4>8
        <5> QED BY <5>1, <5>2, <3>1
      <4>9. new.set_id = k + 1 /\ SetOf(new.set_id) = r
        BY <3>6, <4>2, <1>9
      <4> QED BY <3>4, <4>3, <4>6, <4>7, <4>8, <4>9, <1>9
    <3> QED BY <3>5, <3>6
  <2> QED BY <2>1, <2>2, <2>3, <2>4 DEF PendingInv
<1>15. ForcedInv(new, imp)
  BY <1>1, <1>9 DEF SetInv, ForcedInv
<1>16. FinalizedInv(new, b)
  <2>1. new.pending_standard_changes.best_finalized_number <= Number(b)
    BY <1>5, <1>7, <1>9
  <2>2. ASSUME NEW r \in nodes(new.pending_standard_changes), AtOrBelow(r, b)
        PROVE  effective_number(r) > Number(b)
    <3>1. r \in nodes(tree) /\ r \notin enacted
      BY <1>7, <1>9
    <3>2. ~(effective_number(r) <= Number(b))
      BY <2>2, <3>1, DueIsEnacted DEF enacted
    <3> QED BY <3>1, <3>2, <1>3, <1>5
  <2>3. ASSUME NEW i \in 1 .. new.set_id, ~IsForced(SetOf(i))
        PROVE  effective_number(SetOf(i)) <= Number(b)
    <3>1. CASE i \in 1 .. k
      <4>1. effective_number(SetOf(i)) <= Number(fin)
        BY <3>1, <2>3, <1>1 DEF SetInv, FinalizedInv
      <4>2. effective_number(SetOf(i)) \in Nat
        <5>1. i \in 1 .. Len(sets)
          BY <3>1, <1>2
        <5>2. SetOf(i) \in Blocks /\ Signals(SetOf(i))
          BY <5>1, <1>1, SetsAre, OnCanon
        <5> QED BY <5>2, <1>1, ChangeTypes
      <4> QED BY <4>1, <4>2, <1>2, <1>5
    <3>2. CASE i \notin 1 .. k
      <4>1. enacted # {} /\ i = k + 1
        BY <3>2, <2>3, <1>2, <1>9
      <4>2. effective_number(SetOf(k + 1)) = Number(b)
        BY <4>1, <1>10
      <4> QED BY <4>1, <4>2, <1>5
    <3> QED BY <3>1, <3>2
  <2> QED BY <2>1, <2>2, <2>3 DEF FinalizedInv
<1>17. SetInv(new, imp, b)
  BY <1>11, <1>12, <1>13, <1>14, <1>15, <1>16 DEF SetInv
<1>18. ASSUME ~out.changed PROVE SameButHeight(set, new)
  <2>1. enacted = {} /\ res.tree.parent = tree.parent
    BY <1>7, <1>9, <1>18
  <2>2. /\ set = [current_authorities      |-> set.current_authorities,
                  set_id                   |-> set.set_id,
                  pending_standard_changes |-> set.pending_standard_changes,
                  pending_forced_changes   |-> set.pending_forced_changes,
                  authority_set_changes    |-> set.authority_set_changes]
        /\ tree.best_finalized_number \in Int
    BY <1>1 DEF SetInv, IsSet, IsTree
  <2>3. tree.best_finalized_number <= Number(fin)
    BY <1>1 DEF SetInv, FinalizedInv
  <2>4. tree.best_finalized_number <= new.pending_standard_changes.best_finalized_number
    BY <2>2, <2>3, <1>2, <1>5, <1>7, <1>9
  <2>5. [set EXCEPT !.pending_standard_changes = EmptyTree]
          = [new EXCEPT !.pending_standard_changes = EmptyTree]
    <3> HIDE DEF tree, k
    <3>1. /\ new.current_authorities = set.current_authorities /\ new.set_id = set.set_id
          /\ new.authority_set_changes = set.authority_set_changes
          /\ new.pending_forced_changes = set.pending_forced_changes
      BY <2>1, <1>9 DEF k
    <3>2. [new EXCEPT !.pending_standard_changes = EmptyTree]
            = [current_authorities      |-> new.current_authorities,
               set_id                   |-> new.set_id,
               pending_standard_changes |-> EmptyTree,
               pending_forced_changes   |-> new.pending_forced_changes,
               authority_set_changes    |-> new.authority_set_changes]
      BY <1>9
    <3>3. [set EXCEPT !.pending_standard_changes = EmptyTree]
            = [current_authorities      |-> set.current_authorities,
               set_id                   |-> set.set_id,
               pending_standard_changes |-> EmptyTree,
               pending_forced_changes   |-> set.pending_forced_changes,
               authority_set_changes    |-> set.authority_set_changes]
      BY <2>2
    <3> QED BY <3>1, <3>2, <3>3
  <2> QED BY <2>1, <2>4, <2>5, <1>9 DEF SameButHeight
<1>19. /\ ~out.new_set => new.set_id = k
       /\ out.new_set => new.set_id = k + 1 /\ j = k
  BY <1>9, <1>10
<1> QED BY <1>9, <1>17, <1>18, <1>19 DEF out, new

\* For every block that the current set justified: the changes apply without
\* an error, and make a new set exactly where the set ends.
LEMMA HandoffExact ==
  ASSUME NEW set, NEW imp, NEW fin, NEW b, ReadyToFinalize(set, imp, fin, b, set.set_id)
  PROVE  /\ apply_standard_changes_ok(set, b)
         /\ apply_standard_changes(set, b).new_set <=>
              /\ set.set_id < Len(sets)
              /\ ~IsForced(SetOf(set.set_id + 1))
              /\ Number(b) = effective_number(SetOf(set.set_id + 1))
<1> DEFINE k == set.set_id
           next == SetOf(k + 1)
           tree == set.pending_standard_changes
           enacted == Enacted(tree, b, Due(set, b))
<1>1. /\ ChainInv /\ imp \subseteq Blocks /\ fin \in imp /\ SetInv(set, imp, fin)
      /\ \A x \in imp : Ancestors[x] \subseteq imp
      /\ b \in imp /\ b \in Blocks /\ b \in Canon /\ fin \in Ancestors[b]
  BY DEF ReadyToFinalize, Justified
<1>2. /\ k \in 0 .. Len(sets) /\ k \in Nat /\ Len(sets) \in Nat
      /\ SetOf(k) \in Canon /\ Number(SetOf(k)) \in Nat /\ Number(fin) \in Nat
      /\ IsTree(tree) /\ Nested(tree) /\ nodes(tree) \subseteq Blocks
  BY <1>1, PendingFacts
<1>3. \A c \in nodes(tree) :
         /\ Signals(c) /\ ~IsForced(c) /\ c \in Blocks
         /\ Number(c) \in Nat /\ effective_number(c) \in Nat /\ Number(c) <= effective_number(c)
  BY <1>1, PendingFacts
<1>4. Number(b) \in Nat /\ Number(fin) < Number(b)
  BY <1>1, NumberGrows
<1>5. ASSUME NEW r \in enacted
      PROVE  /\ k < Len(sets) /\ r = next /\ effective_number(r) = Number(b) /\ r \in nodes(tree)
  <2>1. r \in nodes(tree) /\ AtOrBelow(r, b) /\ effective_number(r) <= Number(b)
    BY DEF Enacted, Due
  <2> QED BY <2>1, FinalizationFits DEF OnlyNextDue
<1>6. apply_standard_changes_ok(set, b)
  <2>1. ~Reverts(tree, Number(b))
    <3>1. tree.best_finalized_number <= Number(fin) /\ tree.best_finalized_number \in Int
      BY <1>1, <1>2 DEF SetInv, FinalizedInv, IsTree
    <3> QED BY <3>1, <1>2, <1>4 DEF Reverts
  <2>2. ASSUME NEW r \in enacted, SkipsChild(tree, r, b) PROVE FALSE
    <3>1. PICK c \in children(tree, r) : Number(c) <= Number(b)
      BY <2>2 DEF SkipsChild
    <3>2. r \in nodes(tree) /\ effective_number(r) = Number(b)
      BY <1>5
    <3>3. c \in nodes(tree) /\ r \in Ancestors[c]
      BY <3>2, <1>2, ChildNext
    <3>4. effective_number(r) < Number(c)
      BY <1>1, <1>3, <3>2, <3>3, Spacing
    <3>5. Number(c) \in Nat
      BY <1>3, <3>3
    <3> QED BY <3>1, <3>2, <3>4, <3>5, <1>4
  <2> QED BY <2>1, <2>2 DEF apply_standard_changes_ok, finalize_ok, Due
<1>7. apply_standard_changes(set, b).new_set = (enacted # {})
  <2>1. finalize_with_descendent_if(tree, b, Due(set, b)).enacted = enacted
    BY <1>1, <1>2, FinalizeTree
  <2>2. apply_standard_changes(set, b).new_set
          = (finalize_with_descendent_if(tree, b, Due(set, b)).enacted # {})
    BY DEF apply_standard_changes, Due
  <2> HIDE DEF enacted
  <2> QED BY <2>1, <2>2
<1>8. enacted # {} => k < Len(sets) /\ ~IsForced(next) /\ Number(b) = effective_number(next)
  BY <1>3, <1>5
<1>9. ASSUME k < Len(sets), ~IsForced(next), Number(b) = effective_number(next)
      PROVE  enacted # {}
  <2>1. k + 1 \in 1 .. Len(sets) /\ k + 1 \in 0 .. Len(sets) /\ k < k + 1
    BY <1>2, <1>9
  <2>2. next \in Canon /\ Signals(next) /\ next \in Blocks
    BY <1>1, <2>1, SetsAre, OnCanon
  <2>3. Number(next) <= Number(b) /\ Number(next) \in Nat
    BY <1>1, <1>9, <2>2, ChangeTypes, NumberGrows
  <2>4. Number(SetOf(k)) < Number(next)
    BY <1>1, <1>2, <2>1, SetsAre
  <2>5. AtOrBelow(next, Tip) /\ AtOrBelow(b, Tip) /\ Tip \in Blocks
    BY <1>1, <2>2, OnCanon
  <2>6. AtOrBelow(next, b)
    BY <2>3, <2>5, Chain
  <2>7. next \in imp
    BY <1>1, <2>6 DEF AtOrBelow, is_descendent_of
  <2>8. next \in nodes(tree)
    <3>1. Number(next) > Number(SetOf(k))
      BY <2>3, <2>4, <1>2
    <3> QED BY <3>1, <2>2, <2>7, <1>1, <1>9 DEF SetInv, PendingInv
  <2>9. effective_number(next) <= Number(b)
    BY <1>4, <1>9
  <2> QED BY <2>6, <2>8, <2>9, DueIsEnacted
<1> QED BY <1>6, <1>7, <1>8, <1>9

-----------------------------------------------------------------------------
(* Sets in memory and on disk *)

\* Sets that differ in the height of the tree alone.
LEMMA SameFields ==
  ASSUME NEW a, NEW c, IsSet(a), IsSet(c), SameButHeight(a, c)
  PROVE  /\ a.current_authorities = c.current_authorities
         /\ a.set_id = c.set_id
         /\ a.pending_forced_changes = c.pending_forced_changes
         /\ a.authority_set_changes = c.authority_set_changes
         /\ a.pending_standard_changes.parent = c.pending_standard_changes.parent
         /\ a.pending_standard_changes.best_finalized_number
              <= c.pending_standard_changes.best_finalized_number
<1> DEFINE ra == [a EXCEPT !.pending_standard_changes = EmptyTree]
           rc == [c EXCEPT !.pending_standard_changes = EmptyTree]
<1>1. ra = rc
  BY DEF SameButHeight
<1>2. /\ ra.current_authorities = a.current_authorities
      /\ ra.set_id = a.set_id
      /\ ra.pending_forced_changes = a.pending_forced_changes
      /\ ra.authority_set_changes = a.authority_set_changes
  BY DEF IsSet
<1>3. /\ rc.current_authorities = c.current_authorities
      /\ rc.set_id = c.set_id
      /\ rc.pending_forced_changes = c.pending_forced_changes
      /\ rc.authority_set_changes = c.authority_set_changes
  BY DEF IsSet
<1> HIDE DEF ra, rc
<1>4. /\ a.current_authorities = c.current_authorities
      /\ a.set_id = c.set_id
      /\ a.pending_forced_changes = c.pending_forced_changes
      /\ a.authority_set_changes = c.authority_set_changes
  BY <1>1, <1>2, <1>3
<1> QED BY <1>4 DEF SameButHeight

\* The relation is reflexive and transitive.
LEMMA SameOrder ==
  ASSUME NEW a, NEW c, NEW d, IsSet(a), IsSet(c), IsSet(d)
  PROVE  /\ SameButHeight(a, a)
         /\ SameButHeight(a, c) /\ SameButHeight(c, d) => SameButHeight(a, d)
<1>1. /\ a.pending_standard_changes.best_finalized_number \in Int
      /\ c.pending_standard_changes.best_finalized_number \in Int
      /\ d.pending_standard_changes.best_finalized_number \in Int
  BY DEF IsSet, IsTree
<1>2. SameButHeight(a, a)
  BY <1>1 DEF SameButHeight
<1>3. SameButHeight(a, c) /\ SameButHeight(c, d) => SameButHeight(a, d)
  BY <1>1 DEF SameButHeight
<1> QED BY <1>2, <1>3

\* The invariant does not depend on how far the height lags.
LEMMA SameKept ==
  ASSUME NEW a, NEW c, NEW imp, NEW fin \in Blocks, IsSet(a), SetInv(c, imp, fin), SameButHeight(a, c)
  PROVE  SetInv(a, imp, fin)
<1>0. IsSet(c)
  BY DEF SetInv
<1>1. /\ a.current_authorities = c.current_authorities
      /\ a.set_id = c.set_id
      /\ a.pending_forced_changes = c.pending_forced_changes
      /\ a.authority_set_changes = c.authority_set_changes
      /\ a.pending_standard_changes.parent = c.pending_standard_changes.parent
      /\ a.pending_standard_changes.best_finalized_number
           <= c.pending_standard_changes.best_finalized_number
  BY <1>0, SameFields
<1>2. nodes(a.pending_standard_changes) = nodes(c.pending_standard_changes)
  BY <1>1 DEF nodes
<1>3. WellFormed(a.pending_standard_changes)
  BY <1>1, <1>2 DEF SetInv, WellFormed
<1>4. FollowsNetwork(a)
  BY <1>1 DEF SetInv, FollowsNetwork
<1>5. PendingInv(a, imp)
  BY <1>1, <1>2 DEF SetInv, PendingInv
<1>6. ForcedInv(a, imp)
  BY <1>1 DEF SetInv, ForcedInv
<1>7. FinalizedInv(a, fin)
  <2>1. a.pending_standard_changes.best_finalized_number \in Int
        /\ c.pending_standard_changes.best_finalized_number \in Int
    BY <1>0 DEF IsSet, IsTree
  <2>2. Number(fin) \in Nat
    BY NumberGrows
  <2>3. c.pending_standard_changes.best_finalized_number <= Number(fin)
    BY DEF SetInv, FinalizedInv
  <2>4. a.pending_standard_changes.best_finalized_number <= Number(fin)
    BY <1>1, <2>1, <2>2, <2>3
  <2> QED BY <1>1, <1>2, <2>4 DEF SetInv, FinalizedInv
<1> QED BY <1>3, <1>4, <1>5, <1>6, <1>7 DEF SetInv

-----------------------------------------------------------------------------
(* The queue of the voter *)

\* A queue with one more command.
LEMMA QueueGrows ==
  ASSUME NEW queue \in Seq(Command), NEW c \in Command
  PROVE  /\ Append(queue, c) \in Seq(Command)
         /\ Len(Append(queue, c)) = Len(queue) + 1
         /\ \A i \in 1 .. Len(queue) : Append(queue, c)[i] = queue[i]
         /\ Append(queue, c)[Len(queue) + 1] = c
         /\ queue \o <<c>> = Append(queue, c)
         /\ queue \o <<>> = queue
         /\ Len(queue) \in Nat
<1>1. Len(queue) \in Nat
  OBVIOUS
<1>2. queue \o <<c>> = Append(queue, c)
  OBVIOUS
<1>3. queue \o <<>> = queue
  OBVIOUS
<1> QED BY <1>1, <1>2, <1>3

\* Pause brings no set.
LEMMA PauseTold ==
  ASSUME NEW queue, NEW v, NEW current, Told(queue, v, current)
  PROVE  Told(Append(queue, Pause), v, current)
<1>1. queue \in Seq(Command) /\ Pause \in Command /\ ~IsChange(Pause)
  BY DEF Told, Command, IsChange, Pause
<1> DEFINE q == Append(queue, Pause)
           n == Len(queue)
<1>2. /\ q \in Seq(Command) /\ Len(q) = n + 1 /\ n \in Nat
      /\ \A i \in 1 .. n : q[i] = queue[i]
      /\ q[n + 1] = Pause
  BY <1>1, QueueGrows
<1> HIDE DEF q, n
<1>3. \A i \in 1 .. Len(q) : IsChange(q[i]) => i \in 1 .. n /\ q[i] = queue[i]
  <2> SUFFICES ASSUME NEW i \in 1 .. n + 1, IsChange(q[i]) PROVE i \in 1 .. n
    BY <1>2
  <2>1. i # n + 1
    BY <1>1, <1>2
  <2> QED BY <2>1, <1>2
<1>4. \A i \in 1 .. n : \A j \in 1 .. i - 1 : j \in 1 .. n /\ j \in 1 .. Len(q)
  BY <1>2
<1>5. \A i \in 1 .. n : i \in 1 .. Len(q)
  BY <1>2
<1> QED BY <1>2, <1>3, <1>4, <1>5 DEF Told, q, n

\* ChangeAuthorities brings the set after the current one.
LEMMA ChangeTold ==
  ASSUME NEW queue, NEW v, NEW current \in Nat, Told(queue, v, current),
         NEW c, c = [command |-> "ChangeAuthorities", set_id |-> current + 1, authorities |-> SetOf(current + 1)],
         SetOf(current + 1) \in Blocks
  PROVE  Told(Append(queue, c), v, current + 1)
<1>1. /\ queue \in Seq(Command) /\ c \in Command /\ IsChange(c)
      /\ c.set_id = current + 1 /\ c.authorities = SetOf(current + 1)
  BY DEF Told, Command, IsChange
<1> DEFINE q == Append(queue, c)
           n == Len(queue)
<1>2. /\ q \in Seq(Command) /\ Len(q) = n + 1 /\ n \in Nat
      /\ \A i \in 1 .. n : q[i] = queue[i]
      /\ q[n + 1] = c
  BY <1>1, QueueGrows
<1>3. v \in 0 .. current
  BY DEF Told
<1>4. \A i \in 1 .. n : IsChange(queue[i]) =>
          /\ v < queue[i].set_id
          /\ queue[i].set_id <= current
          /\ queue[i].authorities = SetOf(queue[i].set_id)
          /\ \A j \in 1 .. i - 1 : IsChange(queue[j]) => queue[j].set_id < queue[i].set_id
  BY DEF Told
<1>5. \A i \in 1 .. n : IsChange(queue[i]) => queue[i].set_id \in Nat
  <2> SUFFICES ASSUME NEW i \in 1 .. n, IsChange(queue[i]) PROVE queue[i].set_id \in Nat
    OBVIOUS
  <2>1. queue[i] \in Command
    BY <1>1
  <2> QED BY <2>1 DEF Command, IsChange, Pause
<1> HIDE DEF q, n
<1>6. ASSUME NEW i \in 1 .. Len(q), IsChange(q[i])
      PROVE  /\ v < q[i].set_id
             /\ q[i].set_id <= current + 1
             /\ q[i].authorities = SetOf(q[i].set_id)
             /\ \A j \in 1 .. i - 1 : IsChange(q[j]) => q[j].set_id < q[i].set_id
  <2>1. CASE i \in 1 .. n
    <3>1. q[i] = queue[i] /\ IsChange(queue[i])
      BY <2>1, <1>2, <1>6
    <3>2. /\ v < queue[i].set_id /\ queue[i].set_id <= current
          /\ queue[i].authorities = SetOf(queue[i].set_id)
          /\ queue[i].set_id \in Nat
      BY <2>1, <3>1, <1>4, <1>5
    <3>3. ASSUME NEW j \in 1 .. i - 1, IsChange(q[j]) PROVE q[j].set_id < q[i].set_id
      <4>1. j \in 1 .. n
        BY <2>1, <1>2
      <4>2. q[j] = queue[j]
        BY <4>1, <1>2
      <4> QED BY <4>2, <3>1, <3>3, <2>1, <1>4
    <3>4. queue[i].set_id <= current + 1
      BY <3>2
    <3> QED BY <3>1, <3>2, <3>3, <3>4
  <2>2. CASE i \notin 1 .. n
    <3>1. i = n + 1
      BY <2>2, <1>2
    <3>2. q[i] = c
      BY <3>1, <1>2
    <3>3. ASSUME NEW j \in 1 .. i - 1, IsChange(q[j]) PROVE q[j].set_id < current + 1
      <4>1. j \in 1 .. n
        BY <3>1, <1>2
      <4>2. q[j] = queue[j]
        BY <4>1, <1>2
      <4>3. queue[j].set_id <= current /\ queue[j].set_id \in Nat
        BY <4>1, <4>2, <3>3, <1>4, <1>5
      <4> QED BY <4>2, <4>3
    <3>4. v < current + 1
      BY <1>3
    <3> QED BY <3>2, <3>3, <3>4, <1>1
  <2> QED BY <2>1, <2>2
<1>7. n + 1 \in 1 .. Len(q)
  BY <1>2
<1>8. v \in 0 .. current + 1
  BY <1>3
<1> QED BY <1>1, <1>2, <1>6, <1>7, <1>8 DEF Told, q

\* The voter that runs the current set has no other in its queue.
LEMMA NothingToTell ==
  ASSUME NEW queue, NEW current \in Nat, Told(queue, current, current)
  PROVE  /\ \A i \in 1 .. Len(queue) : ~IsChange(queue[i])
         /\ Told(queue, current + 1, current + 1)
<1>1. ASSUME NEW i \in 1 .. Len(queue), IsChange(queue[i]) PROVE FALSE
  <2>1. current < queue[i].set_id /\ queue[i].set_id <= current
    BY <1>1 DEF Told
  <2>2. queue[i] \in Command
    BY DEF Told
  <2>3. queue[i].set_id \in Nat
    BY <2>2, <1>1 DEF Command, IsChange, Pause
  <2> QED BY <2>1, <2>3
<1>2. current + 1 \in 0 .. current + 1
  OBVIOUS
<1> QED BY <1>1, <1>2 DEF Told

\* The voter takes the first command.
LEMMA HeadTold ==
  ASSUME NEW queue, NEW v, NEW current \in Nat, Told(queue, v, current), queue # <<>>
  PROVE  /\ Head(queue) \in Command
         /\ ~IsChange(Head(queue)) => Told(Tail(queue), v, current)
         /\ IsChange(Head(queue)) => /\ Told(Tail(queue), Head(queue).set_id, current)
                                     /\ Head(queue).authorities = SetOf(Head(queue).set_id)
<1> DEFINE q == Tail(queue)
           h == Head(queue)
           n == Len(queue)
<1>1. queue \in Seq(Command) /\ n \in Nat /\ n > 0
  BY DEF Told
<1>2. /\ h = queue[1] /\ h \in Command
      /\ q \in Seq(Command) /\ Len(q) = n - 1
      /\ \A i \in 1 .. n - 1 : q[i] = queue[i + 1]
  BY <1>1
<1>3. /\ \A i \in 1 .. n : IsChange(queue[i]) =>
            /\ v < queue[i].set_id
            /\ queue[i].set_id <= current
            /\ queue[i].authorities = SetOf(queue[i].set_id)
            /\ \A j \in 1 .. i - 1 : IsChange(queue[j]) => queue[j].set_id < queue[i].set_id
      /\ v \in 0 .. current
      /\ v = current \/ \E i \in 1 .. n : IsChange(queue[i]) /\ queue[i].set_id = current
  BY DEF Told
<1>4. \A i \in 1 .. n : IsChange(queue[i]) => queue[i].set_id \in Nat
  <2> SUFFICES ASSUME NEW i \in 1 .. n, IsChange(queue[i]) PROVE queue[i].set_id \in Nat
    OBVIOUS
  <2>1. queue[i] \in Command
    BY <1>1
  <2> QED BY <2>1 DEF Command, IsChange, Pause
<1> HIDE DEF q, h, n
<1>5. 1 \in 1 .. n
  BY <1>1
<1>6. ASSUME NEW i \in 1 .. Len(q), IsChange(q[i])
      PROVE  /\ v < q[i].set_id
             /\ IsChange(h) => h.set_id < q[i].set_id
             /\ q[i].set_id <= current
             /\ q[i].authorities = SetOf(q[i].set_id)
             /\ \A j \in 1 .. i - 1 : IsChange(q[j]) => q[j].set_id < q[i].set_id
  <2>1. i + 1 \in 1 .. n /\ i \in 1 .. n - 1 /\ 1 \in 1 .. (i + 1) - 1
    BY <1>1, <1>2
  <2>2. q[i] = queue[i + 1] /\ IsChange(queue[i + 1])
    BY <2>1, <1>2, <1>6
  <2>3. /\ v < queue[i + 1].set_id
        /\ queue[i + 1].set_id <= current
        /\ queue[i + 1].authorities = SetOf(queue[i + 1].set_id)
        /\ \A j \in 1 .. (i + 1) - 1 : IsChange(queue[j]) => queue[j].set_id < queue[i + 1].set_id
    BY <2>1, <2>2, <1>3
  <2>4. ASSUME NEW j \in 1 .. i - 1, IsChange(q[j]) PROVE q[j].set_id < q[i].set_id
    <3>1. j \in 1 .. n - 1 /\ j + 1 \in 1 .. (i + 1) - 1
      BY <2>1, <1>1
    <3>2. q[j] = queue[j + 1]
      BY <3>1, <1>2
    <3> QED BY <3>1, <3>2, <2>2, <2>3, <2>4
  <2>5. IsChange(h) => h.set_id < q[i].set_id
    BY <2>1, <2>2, <2>3, <1>2
  <2> QED BY <2>2, <2>3, <2>4, <2>5
<1>7. ASSUME NEW i \in 1 .. n, i # 1 PROVE i - 1 \in 1 .. Len(q) /\ q[i - 1] = queue[i]
  <2>1. i - 1 \in 1 .. n - 1 /\ (i - 1) + 1 = i
    BY <1>1, <1>7
  <2> QED BY <2>1, <1>2
<1>8. CASE ~IsChange(h)
  <2>1. v = current \/ \E i \in 1 .. Len(q) : IsChange(q[i]) /\ q[i].set_id = current
    BY <1>2, <1>3, <1>7, <1>8
  <2>2. Told(q, v, current)
    BY <1>2, <1>3, <1>6, <2>1 DEF Told
  <2> QED BY <1>2, <1>8, <2>2 DEF q, h
<1>9. CASE IsChange(h)
  <2>1. /\ v < h.set_id /\ h.set_id <= current /\ h.authorities = SetOf(h.set_id)
        /\ h.set_id \in Nat
    BY <1>2, <1>3, <1>4, <1>5, <1>9
  <2>2. h.set_id = current \/ \E i \in 1 .. Len(q) : IsChange(q[i]) /\ q[i].set_id = current
    <3>1. v # current
      BY <2>1
    <3>2. PICK i \in 1 .. n : IsChange(queue[i]) /\ queue[i].set_id = current
      BY <3>1, <1>3
    <3>3. CASE i = 1
      BY <3>2, <3>3, <1>2
    <3>4. CASE i # 1
      BY <3>2, <3>4, <1>7
    <3> QED BY <3>3, <3>4
  <2>3. h.set_id \in 0 .. current
    BY <2>1
  <2>4. Told(q, h.set_id, current)
    BY <1>2, <1>6, <1>9, <2>2, <2>3 DEF Told
  <2> QED BY <1>2, <1>9, <2>1, <2>4 DEF q, h
<1> QED BY <1>8, <1>9

-----------------------------------------------------------------------------
(* The steps *)

\* The chain does not change, and neither does what depends on it alone.
LEMMA ChainStable ==
  ASSUME ChainInv, UNCHANGED chain
  PROVE  ChainInv'
BY DEF chain, ChainInv, NetworkSets, NetworkChanges, Signals, Dropped, IsForced, effective_number

\* The network's sets and the signals are read from the chain alone.
LEMMA SetOfStable ==
  ASSUME UNCHANGED chain
  PROVE  /\ \A k : SetOf(k)' = SetOf(k)
         /\ \A b : SignedBy(b)' = SignedBy(b)
         /\ \A b : Signals(b)' <=> Signals(b)
         /\ \A set, b : Triggered(set, b)' = Triggered(set, b)
<1>1. \A k : SetOf(k)' = SetOf(k)
  BY DEF chain, SetOf
<1>2. \A b : Signals(b)' <=> Signals(b)
  BY DEF chain, Signals
<1>3. \A set, b : Triggered(set, b)' = Triggered(set, b)
  BY DEF chain, Triggered, effective_number
<1>4. ASSUME NEW b, NEW k PROVE Justified(b, k)' <=> Justified(b, k)
  BY DEF chain, Justified, SetOf, Ends, IsForced, Signals, Dropped, effective_number
<1>5. ASSUME NEW b PROVE SignedBy(b)' = SignedBy(b)
  BY <1>4 DEF chain, SignedBy
<1> QED BY <1>1, <1>2, <1>3, <1>5

\* So is what is said of a set, of the blocks and of the finalized one.
LEMMA SetInvStable ==
  ASSUME UNCHANGED chain, NEW set, NEW imp, NEW fin, SetInv(set, imp, fin)
  PROVE  SetInv(set, imp, fin)'
<1>1. signal' = signal /\ sets' = sets
  BY DEF chain
<1> QED BY <1>1 DEF SetInv, IsSet, IsTree, FollowsNetwork, PendingInv, ForcedInv, FinalizedInv,
                    NetworkHistory, Ends, SetOf, Signals, IsForced, effective_number,
                    WellFormed, nodes

\* So is what is said of a queue of commands.
LEMMA ToldStable ==
  ASSUME UNCHANGED chain, NEW queue, NEW v, NEW current, Told(queue, v, current)
  PROVE  Told(queue, v, current)'
BY SetOfStable DEF Told

\* What a step that leaves the current set alone keeps.
LEMMA QuietSets ==
  ASSUME Inv, UNCHANGED <<chain, imported, finalized, stored_set>>, CurrentSet' = CurrentSet
  PROVE  /\ ChainInv'
         /\ ImportedInv'
         /\ SetInv(CurrentSet, imported, finalized)'
         /\ DiskInv'
<1>1. ChainInv'
  BY ChainStable DEF Inv
<1>2. ImportedInv'
  BY DEF Inv, ImportedInv
<1>3. SetInv(CurrentSet, imported, finalized)'
  BY SetInvStable DEF Inv
<1>4. DiskInv'
  BY DEF Inv, DiskInv
<1> QED BY <1>1, <1>2, <1>3, <1>4

\* What a step that leaves the current set and the queue alone keeps.
LEMMA QuietVoter ==
  ASSUME Inv, UNCHANGED <<chain, voter, commands>>, CurrentSet' = CurrentSet
  PROVE  VoterInv'
<1>1. Told(commands, voter.set_id, CurrentSet.set_id)'
  BY ToldStable DEF Inv, VoterInv
<1> QED BY <1>1, SetOfStable DEF Inv, VoterInv

\* What every step may use of the current set.
LEMMA CurrentFacts ==
  ASSUME Inv
  PROVE  /\ ChainInv
         /\ imported \subseteq Blocks /\ finalized \in imported /\ finalized \in Blocks
         /\ \A x \in imported : Ancestors[x] \subseteq imported
         /\ SetInv(CurrentSet, imported, finalized)
         /\ IsSet(CurrentSet) /\ CurrentSet.set_id \in Nat
         /\ CurrentSet # NoSet
<1>1. /\ ChainInv /\ ImportedInv /\ SetInv(CurrentSet, imported, finalized)
  BY DEF Inv
<1>2. IsSet(CurrentSet) /\ CurrentSet.set_id \in Nat
  BY <1>1 DEF SetInv, IsSet
<1>3. CurrentSet # NoSet
  <2>1. NoSet.set_id = -1
    BY DEF NoSet
  <2> QED BY <1>2, <2>1
<1> QED BY <1>1, <1>2, <1>3 DEF ImportedInv

\* The check of a block.
LEMMA MakeAuthoritiesChangesKept ==
  ASSUME Inv, NEW b \in Blocks, NEW j \in SignedBy(b) \cup {NoJustification},
         MakeAuthoritiesChanges(b, j)
  PROVE  Inv'
<1> DEFINE added == WithChange(b)
           forced == Triggered(added, b)
           applied == IF forced # {} THEN "forced" ELSE enacts_standard_change(authority_set', b)
           old == IF Signals(b) \/ forced # {} THEN authority_set ELSE NoSet
<1>1. /\ importer = Idle /\ b \notin imported /\ Ancestors[b] \subseteq imported /\ changes_ok(b)
      /\ authority_set' = IF forced = {} THEN added
                          ELSE apply_forced_changes(added, CHOOSE c \in forced : TRUE)
      /\ UNCHANGED <<chain, imported, finalized, stored_set, voter, stored_paused, commands>>
  BY DEF MakeAuthoritiesChanges
<1>2. importer' = [phase |-> "writing", block |-> b, set_id |-> j, applied |-> applied,
                   do_pause |-> IsForced(b), old |-> old]
  BY DEF MakeAuthoritiesChanges
<1>3. ~Locked /\ CurrentSet = authority_set
  BY <1>1 DEF Locked, Idle, CurrentSet
<1>4. /\ ChainInv
      /\ imported \subseteq Blocks /\ finalized \in imported
      /\ \A x \in imported : Ancestors[x] \subseteq imported
      /\ SetInv(authority_set, imported, finalized)
      /\ authority_set.set_id \in Nat /\ authority_set # NoSet
  BY <1>3, CurrentFacts
<1>5. added = Added(authority_set, b)
  BY DEF WithChange, Added
<1> HIDE DEF added
<1>6. ReadyToImport(authority_set, imported, finalized, b)
  BY <1>1, <1>4 DEF ReadyToImport, Importable, changes_ok
<1>7. apply_forced_changes_ok(added, b)
  BY <1>1 DEF changes_ok, added
<1>8. /\ SetInv(authority_set', imported \cup {b}, finalized)
      /\ authority_set'.set_id = authority_set.set_id + (IF forced # {} THEN 1 ELSE 0)
  <2> DEFINE a == Added(authority_set, b)
             f == Triggered(a, b)
             n == IF f = {} THEN a ELSE apply_forced_changes(a, CHOOSE c \in f : TRUE)
  <2>1. SetInv(n, imported \cup {b}, finalized) /\ n.set_id = authority_set.set_id + (IF f # {} THEN 1 ELSE 0)
    BY <1>5, <1>6, <1>7, CheckedKept
  <2>2. authority_set' = n /\ f = forced
    BY <1>1, <1>5
  <2> HIDE DEF n, f
  <2> QED BY <2>1, <2>2
<1>9. applied = "forced" <=> forced # {}
  <2>1. enacts_standard_change(authority_set', b) # "forced"
    BY DEF enacts_standard_change
  <2> QED BY <2>1
<1> HIDE DEF applied, old, forced
<1>10. /\ importer'.phase = "writing" /\ importer'.block = b /\ importer'.set_id = j
       /\ importer'.applied = applied /\ importer'.old = old
  BY <1>2
<1>11. Locked' <=> Signals(b) \/ forced # {}
  BY <1>4, <1>10 DEF Locked, old
<1>12. ~Locked' => authority_set' = authority_set /\ Triggered(authority_set, b) = {} /\ applied # "forced"
  BY <1>1, <1>5, <1>9, <1>11 DEF forced, Added
<1>13. CurrentSet' = CurrentSet
  <2>1. CASE Locked'
    BY <2>1, <1>3, <1>10, <1>11 DEF CurrentSet, old
  <2>2. CASE ~Locked'
    BY <2>2, <1>3, <1>12 DEF CurrentSet
  <2> QED BY <2>1, <2>2
<1>14. ChainInv' /\ ImportedInv' /\ SetInv(CurrentSet, imported, finalized)' /\ DiskInv'
  BY <1>1, <1>13, QuietSets
<1>15. VoterInv'
  BY <1>1, <1>13, QuietVoter
<1>16. VerifyingInv'
  BY <1>10 DEF VerifyingInv
<1>17. WritingInv'
  <2>1. (importer.block \in Blocks \ imported)' /\ (Ancestors[importer.block] \subseteq imported)'
    BY <1>1, <1>10
  <2>2. (importer.set_id = NoJustification \/ importer.set_id \in SignedBy(importer.block))'
    BY <1>1, <1>10, SetOfStable
  <2>3. ASSUME ~Locked'
        PROVE  /\ (~Signals(importer.block))'
               /\ (Triggered(authority_set, importer.block) = {})'
               /\ (importer.applied # "forced")'
    <3>1. ~Signals(b) /\ Triggered(authority_set', b) = {} /\ applied # "forced"
      BY <2>3, <1>11, <1>12
    <3> QED BY <3>1, <1>1, <1>10, SetOfStable
  <2>4. ASSUME Locked'
        PROVE  /\ SetInv(authority_set, imported \cup {importer.block}, finalized)'
               /\ (authority_set.set_id =
                     importer.old.set_id + (IF importer.applied = "forced" THEN 1 ELSE 0))'
    <3>1. SetInv(authority_set, imported \cup {importer.block}, finalized)'
      BY <1>1, <1>8, <1>10, SetInvStable
    <3>2. old = authority_set
      BY <2>4, <1>11 DEF old
    <3> QED BY <3>1, <3>2, <1>8, <1>9, <1>10
  <2> QED BY <2>1, <2>2, <2>3, <2>4 DEF WritingInv
<1> QED BY <1>14, <1>15, <1>16, <1>17 DEF Inv

\* The block is written with the set that it changed.
LEMMA WriteBlockKept ==
  ASSUME Inv, WriteBlock
  PROVE  Inv'
<1> DEFINE b == importer.block
           pause == IF importer.do_pause THEN <<Pause>> ELSE <<>>
           change == IF importer.applied = "forced" THEN <<ChangeAuthorities(authority_set)>> ELSE <<>>
<1>1. /\ importer.phase = "writing"
      /\ imported' = imported \cup {b}
      /\ stored_set' = IF importer.old = NoSet THEN stored_set ELSE authority_set
      /\ commands' = commands \o pause \o change
      /\ importer' = IF importer.set_id = NoJustification \/ importer.applied = "waits" THEN Idle
                     ELSE Verify(b, importer.set_id, importer.applied = "root")
      /\ UNCHANGED chain /\ finalized' = finalized
      /\ authority_set' = authority_set /\ voter' = voter
  BY DEF WriteBlock
<1>2. /\ ChainInv
      /\ imported \subseteq Blocks /\ finalized \in imported /\ finalized \in Blocks
      /\ \A x \in imported : Ancestors[x] \subseteq imported
      /\ SetInv(CurrentSet, imported, finalized)
      /\ IsSet(CurrentSet) /\ CurrentSet.set_id \in Nat /\ CurrentSet # NoSet
  BY CurrentFacts
<1>3. /\ b \in Blocks /\ b \notin imported /\ Ancestors[b] \subseteq imported
      /\ importer.set_id = NoJustification \/ importer.set_id \in SignedBy(b)
      /\ ~Locked => /\ ~Signals(b)
                    /\ Triggered(authority_set, b) = {}
                    /\ importer.applied # "forced"
      /\ Locked => /\ SetInv(authority_set, imported \cup {b}, finalized)
                   /\ authority_set.set_id =
                        importer.old.set_id + (IF importer.applied = "forced" THEN 1 ELSE 0)
  BY <1>1 DEF Inv, WritingInv
<1>4. SetInv(authority_set, imported \cup {b}, finalized)
  <2>1. CASE Locked
    BY <2>1, <1>3
  <2>2. CASE ~Locked
    <3>1. CurrentSet = authority_set
      BY <2>2 DEF CurrentSet
    <3>2. Added(authority_set, b) = authority_set
      BY <2>2, <1>3 DEF Added
    <3>3. ReadyToImport(authority_set, imported, finalized, b)
      BY <2>2, <3>1, <1>2, <1>3 DEF ReadyToImport, Importable
    <3>4. Triggered(Added(authority_set, b), b) = {}
      BY <2>2, <3>2, <1>3
    <3>5. SetInv(Added(authority_set, b), imported \cup {b}, finalized)
      BY <3>3, <3>4, ImportKept
    <3> QED BY <3>2, <3>5
  <2> QED BY <2>1, <2>2
<1>5. authority_set.set_id = CurrentSet.set_id + (IF importer.applied = "forced" THEN 1 ELSE 0)
  <2>1. CASE Locked
    BY <2>1, <1>3 DEF CurrentSet
  <2>2. CASE ~Locked
    BY <2>2, <1>2, <1>3 DEF CurrentSet
  <2> QED BY <2>1, <2>2
<1>6. importer'.phase \in {"idle", "verifying"}
  BY <1>1 DEF Idle, Verify
<1>7. ~Locked' /\ CurrentSet' = authority_set
  BY <1>1, <1>6 DEF Locked, CurrentSet
<1>8. ChainInv'
  BY <1>1, <1>2, ChainStable
<1>9. ImportedInv'
  BY <1>1, <1>2, <1>3 DEF Inv, ImportedInv
<1>10. SetInv(CurrentSet, imported, finalized)'
  BY <1>1, <1>4, <1>7, SetInvStable
<1>11. WritingInv'
  BY <1>6 DEF WritingInv
<1>12. VerifyingInv'
  <2>1. CASE importer' = Idle
    BY <2>1 DEF VerifyingInv, Idle
  <2>2. CASE importer' # Idle
    <3>1. importer' = Verify(b, importer.set_id, importer.applied = "root")
          /\ importer.set_id # NoJustification
      BY <2>2, <1>1
    <3>2. /\ importer'.phase = "verifying" /\ importer'.block = b /\ importer'.set_id = importer.set_id
          /\ importer' = [phase  |-> importer'.phase,  block  |-> importer'.block,
                          set_id |-> importer'.set_id, enacts |-> importer'.enacts]
      BY <3>1 DEF Verify
    <3>3. importer'.set_id \in SignedBy(importer'.block)
      BY <3>1, <3>2, <1>3
    <3>4. (importer.set_id \in SignedBy(importer.block))'
      BY <3>3, <1>1, SetOfStable
    <3> QED BY <3>2, <3>4, <1>1 DEF VerifyingInv
  <2> QED BY <2>1, <2>2
<1>13. VoterInv'
  <2>1. Told(commands, voter.set_id, CurrentSet.set_id)
    BY DEF Inv, VoterInv
  <2>2. commands \in Seq(Command) /\ Pause \in Command
    BY <2>1 DEF Told, Command
  <2> DEFINE q == commands \o pause
  <2>3. Told(q, voter.set_id, CurrentSet.set_id)
    <3>1. CASE importer.do_pause
      <4>1. q = Append(commands, Pause)
        BY <3>1, <2>2, QueueGrows
      <4> QED BY <4>1, <2>1, PauseTold
    <3>2. CASE ~importer.do_pause
      <4>1. q = commands
        BY <3>2, <2>2, QueueGrows
      <4> QED BY <4>1, <2>1
    <3> QED BY <3>1, <3>2
  <2>4. q \in Seq(Command)
    BY <2>3 DEF Told
  <2> HIDE DEF q
  <2>5. Told(commands', voter.set_id, authority_set.set_id)
    <3>1. CASE importer.applied = "forced"
      <4> DEFINE c == ChangeAuthorities(authority_set)
                 k == CurrentSet.set_id
      <4>1. authority_set.set_id = k + 1
        BY <3>1, <1>5
      <4>2. authority_set.current_authorities = SetOf(k + 1) /\ SetOf(k + 1) \in Blocks
        BY <4>1, <1>2, <1>3, <1>4 DEF SetInv, FollowsNetwork, PendingInv
      <4>3. c = [command |-> "ChangeAuthorities", set_id |-> k + 1, authorities |-> SetOf(k + 1)]
        BY <4>1, <4>2 DEF ChangeAuthorities
      <4>4. k \in Nat /\ c \in Command
        BY <4>2, <4>3, <1>2 DEF Command
      <4> HIDE DEF c, k
      <4>5. commands' = Append(q, c)
        BY <1>1, <3>1, <2>4, <4>4, QueueGrows DEF q, c
      <4>6. Told(Append(q, c), voter.set_id, k + 1)
        BY <2>3, <4>2, <4>3, <4>4, ChangeTold DEF k
      <4> QED BY <4>1, <4>5, <4>6
    <3>2. CASE importer.applied # "forced"
      <4>1. commands' = q
        BY <1>1, <3>2, <2>2, <2>4, QueueGrows DEF q
      <4>2. authority_set.set_id = CurrentSet.set_id
        BY <3>2, <1>2, <1>5
      <4> QED BY <4>1, <4>2, <2>3
    <3> QED BY <3>1, <3>2
  <2>6. Told(commands, voter.set_id, CurrentSet.set_id)'
    BY <2>5, <1>1, <1>7, ToldStable
  <2> QED BY <2>6, <1>1, SetOfStable DEF Inv, VoterInv
<1>14. DiskInv'
  <2>0. IsSet(authority_set)
    BY <1>4 DEF SetInv
  <2>1. CASE Locked
    <3>1. stored_set' = authority_set
      BY <2>1, <1>1 DEF Locked
    <3> QED BY <3>1, <2>0, <1>7, SameOrder DEF DiskInv
  <2>2. CASE ~Locked
    <3>1. stored_set' = stored_set /\ CurrentSet = authority_set
      BY <2>2, <1>1 DEF Locked, CurrentSet
    <3> QED BY <3>1, <1>7 DEF Inv, DiskInv
  <2> QED BY <2>1, <2>2
<1> QED BY <1>8, <1>9, <1>10, <1>11, <1>12, <1>13, <1>14 DEF Inv

\* Steps of the importer that leave the sets alone.
LEMMA ImporterQuiet ==
  ASSUME Inv, UNCHANGED <<chain, imported, finalized, stored_set, voter, commands>>,
         authority_set' = CurrentSet, importer'.phase # "writing", VerifyingInv'
  PROVE  Inv'
<1>1. CurrentSet' = CurrentSet
  BY DEF CurrentSet, Locked
<1>2. ChainInv' /\ ImportedInv' /\ SetInv(CurrentSet, imported, finalized)' /\ DiskInv'
  BY <1>1, QuietSets
<1>3. VoterInv'
  BY <1>1, QuietVoter
<1>4. WritingInv'
  BY DEF WritingInv
<1> QED BY <1>2, <1>3, <1>4 DEF Inv

\* The importer returns: nothing is under way.
LEMMA ReturnedVerifying ==
  ASSUME importer' \in {Idle, Panicked}
  PROVE  importer'.phase # "writing" /\ VerifyingInv'
<1>1. importer'.phase \in {"idle", "panicked"}
  BY DEF Idle, Panicked
<1> QED BY <1>1 DEF VerifyingInv

\* A failed write puts the old set back.
LEMMA WriteFailsKept ==
  ASSUME Inv, WriteFails
  PROVE  Inv'
<1>1. authority_set' = CurrentSet
  BY DEF WriteFails, CurrentSet, Locked
<1>2. importer' \in {Idle, Panicked}
  BY DEF WriteFails
<1>3. UNCHANGED <<chain, imported, finalized, stored_set, voter, commands>>
  BY DEF WriteFails
<1> QED BY <1>1, <1>2, <1>3, ReturnedVerifying, ImporterQuiet

\* Sync hands over a justification.
LEMMA ImportJustificationKept ==
  ASSUME Inv, NEW b \in Blocks, NEW j \in SignedBy(b), ImportJustification(b, j)
  PROVE  Inv'
<1>1. /\ importer = Idle /\ b \in imported /\ importer' = Verify(b, j, FALSE)
      /\ UNCHANGED <<chain, imported, finalized, stored_set, voter, commands>>
      /\ authority_set' = authority_set
  BY DEF ImportJustification
<1>2. CurrentSet = authority_set
  BY <1>1 DEF CurrentSet, Locked, Idle
<1>3. /\ importer'.phase = "verifying" /\ importer'.block = b /\ importer'.set_id = j
      /\ importer' = [phase  |-> importer'.phase,  block  |-> importer'.block,
                      set_id |-> importer'.set_id, enacts |-> importer'.enacts]
  BY <1>1 DEF Verify
<1>4. (importer.set_id \in SignedBy(importer.block))'
  BY <1>1, <1>3, SetOfStable
<1>5. VerifyingInv'
  BY <1>1, <1>3, <1>4 DEF VerifyingInv
<1> QED BY <1>1, <1>2, <1>3, <1>5, ImporterQuiet

\* The two reads that verify a justification.
LEMMA VerifyKept ==
  ASSUME Inv, VerifySetId \/ VerifyAuthorities
  PROVE  Inv'
<1>1. /\ importer.phase \in {"verifying", "verifying authorities"}
      /\ UNCHANGED <<chain, imported, finalized, stored_set, voter, commands>>
      /\ authority_set' = authority_set
  BY DEF VerifySetId, VerifyAuthorities
<1>2. CurrentSet = authority_set
  BY <1>1 DEF CurrentSet, Locked
<1>3. /\ importer = [phase  |-> importer.phase,  block  |-> importer.block,
                     set_id |-> importer.set_id, enacts |-> importer.enacts]
      /\ importer.block \in imported
      /\ importer.set_id \in SignedBy(importer.block)
      /\ importer.phase # "verifying" => importer.set_id <= authority_set.set_id
  BY <1>1 DEF Inv, VerifyingInv
<1>4. CASE importer' = Idle
  <2>1. importer' \in {Idle, Panicked}
    BY <1>4
  <2> QED BY <2>1, <1>1, <1>2, ReturnedVerifying, ImporterQuiet
<1>5. CASE importer' # Idle
  <2>1. importer.set_id <= authority_set.set_id
    <3>1. authority_set.set_id \in Nat
      BY <1>2, CurrentFacts
    <3>2. CASE VerifySetId
      <4>1. authority_set.set_id = importer.set_id
        BY <3>2, <1>5 DEF VerifySetId
      <4> QED BY <4>1, <3>1
    <3>3. CASE VerifyAuthorities
      BY <3>3, <1>3 DEF VerifyAuthorities
    <3> QED BY <3>2, <3>3
  <2>2. PICK p \in {"verifying authorities", "finalizing"} : importer' = [importer EXCEPT !.phase = p]
    BY <1>5 DEF VerifySetId, VerifyAuthorities
  <2>3. /\ importer'.phase = p /\ importer'.block = importer.block /\ importer'.set_id = importer.set_id
        /\ importer' = [phase  |-> importer'.phase,  block  |-> importer'.block,
                        set_id |-> importer'.set_id, enacts |-> importer'.enacts]
    <3> DEFINE i1 == importer.block
               i2 == importer.set_id
               i3 == importer.enacts
               i0 == importer.phase
    <3>1. importer = [phase |-> i0, block |-> i1, set_id |-> i2, enacts |-> i3]
      BY <1>3
    <3> HIDE DEF i0, i1, i2, i3
    <3>2. importer' = [phase |-> p, block |-> i1, set_id |-> i2, enacts |-> i3]
      BY <2>2, <3>1
    <3> QED BY <3>2 DEF i1, i2
  <2>4. (importer.set_id \in SignedBy(importer.block))'
    BY <1>1, <1>3, <2>3, SetOfStable
  <2>5. VerifyingInv'
    BY <1>1, <1>3, <2>1, <2>3, <2>4 DEF VerifyingInv
  <2>6. importer'.phase # "writing"
    BY <2>2, <2>3
  <2> QED BY <1>1, <1>2, <2>5, <2>6, ImporterQuiet
<1> QED BY <1>4, <1>5

\* An importer that finds the block finalized, or fails.
LEMMA ImporterReturnsKept ==
  ASSUME Inv, ImporterRefinalizes \/ ImporterFails
  PROVE  Inv'
<1>1. /\ importer.phase = "finalizing"
      /\ importer' \in {Idle, Panicked}
      /\ UNCHANGED <<chain, imported, finalized, stored_set, voter, commands>>
      /\ authority_set' = authority_set
  BY DEF ImporterRefinalizes, ImporterFails
<1>2. CurrentSet = authority_set
  BY <1>1 DEF CurrentSet, Locked
<1> QED BY <1>1, <1>2, ReturnedVerifying, ImporterQuiet

\* What the finalization of a justified block leaves, whoever does it.
LEMMA FinalizeBlockKept ==
  ASSUME OldSetStops, Inv, NEW b \in imported, NEW j \in 0 .. authority_set.set_id,
         Justified(b, j), FinalizeBlock(b), UNCHANGED <<chain, imported>>, ~Locked'
  PROVE  /\ CurrentSet = authority_set /\ CurrentSet' = authority_set'
         /\ ChainInv'
         /\ ImportedInv'
         /\ SetInv(CurrentSet, imported, finalized)'
         /\ DiskInv'
         /\ authority_set.set_id \in Nat
         /\ authority_set'.set_id # authority_set.set_id =>
              authority_set'.set_id = authority_set.set_id + 1 /\ j = authority_set.set_id
         /\ authority_set'.current_authorities = SetOf(authority_set'.set_id)
         /\ authority_set'.current_authorities \in Blocks
         /\ authority_set'.pending_forced_changes = authority_set.pending_forced_changes
<1> DEFINE out == apply_standard_changes(authority_set, b)
<1>1. /\ ~Locked
      /\ finalized \in Ancestors[b]
      /\ finalized' = b
      /\ authority_set' = out.set
      /\ stored_set' = IF out.changed THEN out.set ELSE stored_set
  BY DEF FinalizeBlock, Finalizable, is_descendent_of
<1>2. CurrentSet = authority_set /\ CurrentSet' = authority_set'
  BY <1>1 DEF CurrentSet
<1>3. /\ ChainInv
      /\ imported \subseteq Blocks /\ finalized \in imported /\ finalized \in Blocks
      /\ \A x \in imported : Ancestors[x] \subseteq imported
      /\ SetInv(authority_set, imported, finalized)
      /\ IsSet(authority_set) /\ authority_set.set_id \in Nat
  BY <1>2, CurrentFacts
<1>4. ReadyToFinalize(authority_set, imported, finalized, b, j)
  BY <1>1, <1>3 DEF ReadyToFinalize
<1>5. /\ SetInv(out.set, imported, b)
      /\ ~out.new_set => out.set.set_id = authority_set.set_id
      /\ out.new_set => out.set.set_id = authority_set.set_id + 1 /\ j = authority_set.set_id
      /\ ~out.changed => SameButHeight(authority_set, out.set)
      /\ out.set.pending_forced_changes = authority_set.pending_forced_changes
  BY <1>4, FinalizeKept
<1> HIDE DEF out
<1>6. ChainInv'
  BY <1>3, ChainStable
<1>7. ImportedInv'
  <2>1. b \in Canon
    BY DEF Justified
  <2>2. Canon' = Canon
    BY DEF Canon
  <2> QED BY <1>1, <1>3, <2>1, <2>2 DEF ImportedInv
<1>8. SetInv(CurrentSet, imported, finalized)'
  BY <1>1, <1>2, <1>5, SetInvStable
<1>9. DiskInv'
  <2>1. IsSet(out.set)
    BY <1>5 DEF SetInv
  <2>2. IsSet(stored_set) /\ SameButHeight(stored_set, authority_set)
    BY <1>2 DEF Inv, DiskInv
  <2>3. SameButHeight(out.set, out.set)
    BY <2>1, SameOrder
  <2>4. ~out.changed => SameButHeight(stored_set, out.set)
    BY <2>1, <2>2, <1>3, <1>5, SameOrder
  <2>5. IsSet(stored_set') /\ SameButHeight(stored_set', out.set)
    BY <1>1, <2>1, <2>2, <2>3, <2>4
  <2> QED BY <2>5, <1>1, <1>2 DEF DiskInv
<1>10. out.set.current_authorities = SetOf(out.set.set_id) /\ out.set.current_authorities \in Blocks
  BY <1>3, <1>5 DEF SetInv, FollowsNetwork, PendingInv
<1> QED BY <1>1, <1>2, <1>3, <1>5, <1>6, <1>7, <1>8, <1>9, <1>10

\* The importer finalizes a block and passes a new set on.
LEMMA ImporterFinalizesKept ==
  ASSUME OldSetStops, Inv, ImporterFinalizes
  PROVE  Inv'
<1> DEFINE b == importer.block
           j == importer.set_id
           k == authority_set.set_id
           c == ChangeAuthorities(authority_set')
<1>1. /\ importer.phase = "finalizing"
      /\ FinalizeBlock(b)
      /\ commands' = IF authority_set'.set_id # k THEN Append(commands, c) ELSE commands
      /\ importer' \in {Idle, Panicked}
      /\ UNCHANGED <<chain, imported>> /\ voter' = voter
  BY DEF ImporterFinalizes
<1>2. ~Locked'
  BY <1>1 DEF Locked, Idle, Panicked
<1>3. b \in imported /\ j \in SignedBy(b) /\ j <= k
  BY <1>1 DEF Inv, VerifyingInv
<1>4. k \in Nat
  <2>1. ~Locked
    BY <1>1 DEF FinalizeBlock
  <2> QED BY <2>1, CurrentFacts DEF CurrentSet
<1>5. j \in 0 .. k /\ Justified(b, j)
  <2>1. j \in Nat /\ Justified(b, j)
    BY <1>3 DEF SignedBy
  <2> QED BY <2>1, <1>3, <1>4
<1>6. /\ CurrentSet = authority_set /\ CurrentSet' = authority_set'
      /\ ChainInv' /\ ImportedInv' /\ SetInv(CurrentSet, imported, finalized)' /\ DiskInv'
      /\ authority_set'.set_id # k => authority_set'.set_id = k + 1
      /\ authority_set'.current_authorities = SetOf(authority_set'.set_id)
      /\ authority_set'.current_authorities \in Blocks
  <2> HIDE DEF b, j
  <2> QED BY <1>1, <1>2, <1>3, <1>5, FinalizeBlockKept
<1>7. WritingInv' /\ VerifyingInv'
  BY <1>1, ReturnedVerifying DEF WritingInv
<1>8. VoterInv'
  <2>1. Told(commands, voter.set_id, k)
    BY <1>6 DEF Inv, VoterInv
  <2>2. Told(commands', voter.set_id, authority_set'.set_id)
    <3>1. CASE authority_set'.set_id = k
      BY <3>1, <2>1, <1>1
    <3>2. CASE authority_set'.set_id # k
      <4>1. c = [command |-> "ChangeAuthorities", set_id |-> k + 1, authorities |-> SetOf(k + 1)]
            /\ SetOf(k + 1) \in Blocks
        BY <3>2, <1>6 DEF ChangeAuthorities
      <4>2. commands' = Append(commands, c) /\ authority_set'.set_id = k + 1
        BY <3>2, <1>1, <1>6
      <4> HIDE DEF c, k
      <4>3. Told(Append(commands, c), voter.set_id, k + 1)
        BY <2>1, <4>1, <1>4, ChangeTold
      <4> QED BY <4>2, <4>3
    <3> QED BY <3>1, <3>2
  <2>3. Told(commands, voter.set_id, CurrentSet.set_id)'
    BY <2>2, <1>1, <1>6, ToldStable
  <2> QED BY <2>3, <1>1, SetOfStable DEF Inv, VoterInv
<1> QED BY <1>6, <1>7, <1>8 DEF Inv

\* The voter finalizes a block and takes a new set itself.
LEMMA VoterFinalizesKept ==
  ASSUME OldSetStops, Inv, NEW b \in Blocks, VoterFinalizes(b)
  PROVE  Inv'
<1> DEFINE k == authority_set.set_id
           j == voter.set_id
<1>1. /\ b \in imported /\ Justified(b, j) /\ FinalizeBlock(b)
      /\ voter' = IF authority_set'.set_id = k THEN voter
                  ELSE [set_id      |-> authority_set'.set_id,
                        authorities |-> authority_set'.current_authorities,
                        paused      |-> FALSE]
      /\ UNCHANGED <<chain, imported, commands, importer>>
  BY DEF VoterFinalizes
<1>2. ~Locked /\ ~Locked' /\ CurrentSet = authority_set
  BY <1>1 DEF FinalizeBlock, Locked, CurrentSet
<1>3. Told(commands, j, k)
  BY <1>2 DEF Inv, VoterInv
<1>4. j \in 0 .. k
  BY <1>3 DEF Told
<1>5. /\ CurrentSet' = authority_set'
      /\ ChainInv' /\ ImportedInv' /\ SetInv(CurrentSet, imported, finalized)' /\ DiskInv'
      /\ k \in Nat
      /\ authority_set'.set_id # k => authority_set'.set_id = k + 1 /\ j = k
      /\ authority_set'.current_authorities = SetOf(authority_set'.set_id)
      /\ authority_set'.pending_forced_changes = authority_set.pending_forced_changes
  <2> HIDE DEF j
  <2> QED BY <1>1, <1>2, <1>4, FinalizeBlockKept
<1>6. WritingInv'
  <2> SUFFICES ASSUME importer.phase = "writing" PROVE WritingInv'
    BY <1>1 DEF WritingInv
  <2>1. /\ importer.block \in Blocks \ imported
        /\ Ancestors[importer.block] \subseteq imported
        /\ importer.set_id = NoJustification \/ importer.set_id \in SignedBy(importer.block)
        /\ ~Signals(importer.block)
        /\ Triggered(authority_set, importer.block) = {}
        /\ importer.applied # "forced"
    BY <1>2 DEF Inv, WritingInv
  <2>2. Triggered(authority_set', importer.block) = Triggered(authority_set, importer.block)
    BY <1>5 DEF Triggered
  <2>3. /\ (SignedBy(importer.block))' = SignedBy(importer.block)
        /\ (~Signals(importer.block))'
        /\ Triggered(authority_set, importer.block)' = {}
    BY <2>1, <2>2, <1>1, SetOfStable
  <2> QED BY <2>1, <2>3, <1>1, <1>2 DEF WritingInv
<1>7. VerifyingInv'
  <2>1. \A n \in Nat : n <= k => n <= authority_set'.set_id
    <3>1. CASE authority_set'.set_id = k
      BY <3>1
    <3>2. CASE authority_set'.set_id # k
      <4>1. authority_set'.set_id = k + 1
        BY <3>2, <1>5
      <4> HIDE DEF k
      <4> QED BY <4>1, <1>5
    <3> QED BY <3>1, <3>2
  <2>2. importer.set_id \in SignedBy(importer.block) => importer.set_id \in Nat
    BY DEF SignedBy
  <2> SUFFICES ASSUME importer.phase \in {"verifying", "verifying authorities", "finalizing"}
               PROVE  VerifyingInv'
    BY <1>1 DEF VerifyingInv
  <2>3. /\ importer = [phase  |-> importer.phase,  block  |-> importer.block,
                       set_id |-> importer.set_id, enacts |-> importer.enacts]
        /\ importer.block \in imported
        /\ importer.set_id \in SignedBy(importer.block)
        /\ importer.phase # "verifying" => importer.set_id <= k
    BY DEF Inv, VerifyingInv
  <2>4. importer.set_id <= k => importer.set_id <= authority_set'.set_id
    BY <2>1, <2>2, <2>3
  <2>5. (SignedBy(importer.block))' = SignedBy(importer.block)
    BY <1>1, SetOfStable
  <2> QED BY <2>3, <2>4, <2>5, <1>1 DEF VerifyingInv
<1>8. VoterInv'
  <2>1. /\ voter' = [set_id |-> voter'.set_id, authorities |-> voter'.authorities, paused |-> voter'.paused]
        /\ voter'.authorities = SetOf(voter'.set_id)
        /\ Told(commands, voter'.set_id, authority_set'.set_id)
    <3>1. CASE authority_set'.set_id = k
      BY <3>1, <1>1, <1>3 DEF Inv, VoterInv
    <3>2. CASE authority_set'.set_id # k
      <4>1. voter' = [set_id      |-> authority_set'.set_id,
                      authorities |-> authority_set'.current_authorities,
                      paused      |-> FALSE]
        BY <3>2, <1>1
      <4>2. authority_set'.set_id = k + 1 /\ Told(commands, k, k)
        BY <3>2, <1>3, <1>5
      <4> HIDE DEF k
      <4>3. Told(commands, k + 1, k + 1)
        BY <4>2, <1>5, NothingToTell
      <4> QED BY <4>1, <4>2, <4>3, <1>5
    <3> QED BY <3>1, <3>2
  <2>2. Told(commands, voter.set_id, CurrentSet.set_id)'
    BY <2>1, <1>1, <1>5, ToldStable
  <2> QED BY <2>1, <2>2, <1>1, SetOfStable DEF VoterInv
<1> QED BY <1>5, <1>6, <1>7, <1>8 DEF Inv

\* What a step that does not involve the importer keeps of its call.
LEMMA QuietImporter ==
  ASSUME Inv, UNCHANGED <<chain, imported, finalized, authority_set, importer>>
  PROVE  WritingInv' /\ VerifyingInv'
<1>1. /\ \A b : SignedBy(b)' = SignedBy(b)
      /\ \A b : Signals(b)' <=> Signals(b)
      /\ \A set, b : Triggered(set, b)' = Triggered(set, b)
  BY SetOfStable
<1>2. Locked' <=> Locked
  BY DEF Locked
<1>3. SetInv(authority_set, imported \cup {importer.block}, finalized)
        => SetInv(authority_set, imported \cup {importer.block}, finalized)'
  BY SetInvStable
<1>4. WritingInv'
  <2>1. importer.set_id \in SignedBy(importer.block) => (importer.set_id \in SignedBy(importer.block))'
    BY <1>1
  <2>2. ~Signals(importer.block) => ~Signals(importer.block)'
    BY <1>1
  <2>3. Triggered(authority_set, importer.block)' = Triggered(authority_set, importer.block)
    BY <1>1
  <2> QED BY <2>1, <2>2, <2>3, <1>2, <1>3 DEF Inv, WritingInv
<1>5. VerifyingInv'
  <2>1. importer.set_id \in SignedBy(importer.block) => (importer.set_id \in SignedBy(importer.block))'
    BY <1>1
  <2> QED BY <2>1 DEF Inv, VerifyingInv
<1> QED BY <1>4, <1>5

\* The voter takes the next command of its queue.
LEMMA CommandKept ==
  ASSUME Inv, handle_voter_command
  PROVE  Inv'
<1> DEFINE c == Head(commands)
           k == CurrentSet.set_id
<1>1. /\ commands # <<>> /\ commands' = Tail(commands)
      /\ voter' = IF c = Pause THEN [voter EXCEPT !.paused = TRUE]
                  ELSE [set_id |-> c.set_id, authorities |-> c.authorities, paused |-> FALSE]
      /\ UNCHANGED <<chain, imported, finalized, stored_set>>
      /\ authority_set' = authority_set /\ importer' = importer
  BY DEF handle_voter_command
<1>2. CurrentSet' = CurrentSet
  BY <1>1 DEF CurrentSet, Locked
<1>3. ChainInv' /\ ImportedInv' /\ SetInv(CurrentSet, imported, finalized)' /\ DiskInv'
  BY <1>1, <1>2, QuietSets
<1>4. WritingInv' /\ VerifyingInv'
  BY <1>1, QuietImporter
<1>5. Told(commands, voter.set_id, k) /\ k \in Nat
  BY CurrentFacts DEF Inv, VoterInv
<1>6. /\ c \in Command
      /\ ~IsChange(c) => Told(Tail(commands), voter.set_id, k)
      /\ IsChange(c) => /\ Told(Tail(commands), c.set_id, k)
                        /\ c.authorities = SetOf(c.set_id)
  <2> HIDE DEF k
  <2> QED BY <1>1, <1>5, HeadTold
<1>7. /\ voter' = [set_id |-> voter'.set_id, authorities |-> voter'.authorities, paused |-> voter'.paused]
      /\ voter'.authorities = SetOf(voter'.set_id)
      /\ Told(commands', voter'.set_id, k)
  <2>1. c = Pause => ~IsChange(c)
    BY DEF IsChange, Pause
  <2>2. c # Pause => IsChange(c)
    BY <1>6 DEF Command, IsChange
  <2> HIDE DEF c, k
  <2>3. CASE c = Pause
    <3> DEFINE v1 == voter.set_id
               v2 == voter.authorities
               v3 == voter.paused
    <3>1. voter = [set_id |-> v1, authorities |-> v2, paused |-> v3] /\ v2 = SetOf(v1)
      BY DEF Inv, VoterInv
    <3>2. voter' = [voter EXCEPT !.paused = TRUE]
      BY <2>3, <1>1
    <3>3. Told(commands', v1, k)
      BY <2>1, <2>3, <1>1, <1>6
    <3> HIDE DEF v1, v2, v3
    <3>4. voter' = [set_id |-> v1, authorities |-> v2, paused |-> TRUE]
      BY <3>1, <3>2
    <3> QED BY <3>1, <3>3, <3>4
  <2>4. CASE c # Pause
    <3>1. voter' = [set_id |-> c.set_id, authorities |-> c.authorities, paused |-> FALSE]
      BY <2>4, <1>1
    <3> QED BY <3>1, <2>2, <2>4, <1>1, <1>6
  <2> QED BY <2>3, <2>4
<1>8. VoterInv'
  <2>1. Told(commands, voter.set_id, CurrentSet.set_id)'
    BY <1>1, <1>2, <1>7, ToldStable
  <2> QED BY <2>1, <1>1, <1>7, SetOfStable DEF VoterInv
<1> QED BY <1>3, <1>4, <1>8 DEF Inv

\* The node starts from what is on disk.
LEMMA RestartKept ==
  ASSUME Inv, Restart
  PROVE  Inv'
<1>1. /\ authority_set' = stored_set
      /\ voter' = [set_id      |-> stored_set.set_id,
                   authorities |-> stored_set.current_authorities,
                   paused      |-> stored_paused]
      /\ commands' = <<>>
      /\ importer' = Idle
      /\ UNCHANGED <<chain, imported>> /\ finalized' = finalized /\ stored_set' = stored_set
  BY DEF Restart
<1>2. CurrentSet' = stored_set
  BY <1>1 DEF CurrentSet, Locked, Idle
<1>3. IsSet(stored_set) /\ SameButHeight(stored_set, CurrentSet)
  BY DEF Inv, DiskInv
<1>4. SetInv(stored_set, imported, finalized)
  BY <1>3, CurrentFacts, SameKept
<1>5. ChainInv'
  BY <1>1, CurrentFacts, ChainStable
<1>6. ImportedInv'
  BY <1>1 DEF Inv, ImportedInv
<1>7. SetInv(CurrentSet, imported, finalized)'
  BY <1>1, <1>2, <1>4, SetInvStable
<1>8. WritingInv' /\ VerifyingInv'
  <2>1. importer' \in {Idle, Panicked}
    BY <1>1
  <2> QED BY <2>1, ReturnedVerifying DEF WritingInv
<1>9. VoterInv'
  <2> DEFINE k == stored_set.set_id
  <2>1. k \in Nat /\ stored_set.current_authorities = SetOf(k)
    BY <1>3, <1>4 DEF IsSet, SetInv, FollowsNetwork
  <2> HIDE DEF k
  <2>2. Told(<<>>, k, k)
    BY <2>1 DEF Told
  <2>3. voter'.set_id = k /\ voter'.authorities = SetOf(k) /\ CurrentSet'.set_id = k
        /\ voter' = [set_id |-> voter'.set_id, authorities |-> voter'.authorities, paused |-> voter'.paused]
    BY <1>1, <1>2, <2>1 DEF k
  <2>4. Told(commands, voter.set_id, CurrentSet.set_id)'
    BY <1>1, <2>2, <2>3, ToldStable
  <2> QED BY <1>1, <2>3, <2>4, SetOfStable DEF VoterInv
<1>10. DiskInv'
  BY <1>1, <1>2, <1>3, SameOrder DEF DiskInv
<1> QED BY <1>5, <1>6, <1>7, <1>8, <1>9, <1>10 DEF Inv

\* Nothing happens.
LEMMA StutterKept ==
  ASSUME Inv, UNCHANGED vars
  PROVE  Inv'
<1>1. /\ UNCHANGED <<chain, imported, finalized, stored_set, voter, commands>>
      /\ authority_set' = authority_set /\ importer' = importer
  BY DEF vars
<1>2. CurrentSet' = CurrentSet
  BY <1>1 DEF CurrentSet, Locked
<1> QED BY <1>1, <1>2, QuietSets, QuietVoter, QuietImporter DEF Inv

-----------------------------------------------------------------------------
(* The theorems *)

\* The node starts with the genesis set and no block but genesis.
LEMMA InvInit ==
  ASSUME Init
  PROVE  Inv
<1>1. ChainInv
  <2>1. /\ signal \in [Blocks -> UNION {Changes[b] : b \in Blocks}]
        /\ \A b \in Blocks : signal[b] \in Changes[b]
        /\ schedule_change(signal) /\ NetworkAssumption(signal) /\ sets \in NetworkSets
    BY DEF Init
  <2>2. signal \in [Blocks -> Change]
    BY <2>1, ChangesAssumption
  <2>3. signal[Genesis] = NoChange
    BY <2>1, GenesisFirst, ChangesAssumption
  <2> QED BY <2>1, <2>2, <2>3 DEF ChainInv
<1>2. ~Locked /\ CurrentSet = GenesisSet
  BY DEF Init, Locked, Idle, CurrentSet
<1>3. Genesis \in Blocks /\ Ancestors[Genesis] = {} /\ Number(Genesis) = 0 /\ Genesis \in Canon
  BY GenesisFirst, OnCanon
<1>4. imported = {Genesis} /\ finalized = Genesis
  BY DEF Init
<1>5. ImportedInv
  BY <1>3, <1>4 DEF ImportedInv
<1>6. /\ GenesisSet.current_authorities = Genesis
      /\ GenesisSet.set_id = 0
      /\ GenesisSet.pending_standard_changes = EmptyTree
      /\ GenesisSet.pending_forced_changes = {}
      /\ GenesisSet.authority_set_changes = <<>>
      /\ GenesisSet = [current_authorities      |-> GenesisSet.current_authorities,
                       set_id                   |-> GenesisSet.set_id,
                       pending_standard_changes |-> GenesisSet.pending_standard_changes,
                       pending_forced_changes   |-> GenesisSet.pending_forced_changes,
                       authority_set_changes    |-> GenesisSet.authority_set_changes]
  BY DEF GenesisSet
<1>7. IsSet(GenesisSet)
  BY <1>6, EmptyTreeFacts DEF IsSet
<1>8. SetOf(0) = Genesis
  BY DEF SetOf
<1>9. FollowsNetwork(GenesisSet)
  <2>1. Len(sets) \in Nat
    BY <1>1, SetsAre
  <2>2. NetworkHistory(0) = <<>>
    BY DEF NetworkHistory
  <2> QED BY <1>6, <1>8, <2>1, <2>2 DEF FollowsNetwork
<1>10. PendingInv(GenesisSet, {Genesis})
  <2>1. ~Signals(Genesis)
    BY <1>1, <1>3, ChangeTypes
  <2> QED BY <1>6, <2>1, EmptyTreeFacts DEF PendingInv
<1>11. ForcedInv(GenesisSet, {Genesis})
  BY <1>6 DEF ForcedInv
<1>12. FinalizedInv(GenesisSet, Genesis)
  BY <1>3, <1>6, EmptyTreeFacts DEF FinalizedInv
<1>13. SetInv(GenesisSet, {Genesis}, Genesis)
  BY <1>6, <1>7, <1>9, <1>10, <1>11, <1>12, EmptyTreeFacts DEF SetInv
<1>14. WritingInv /\ VerifyingInv
  <2>1. importer.phase = "idle"
    BY DEF Init, Idle
  <2> QED BY <2>1 DEF WritingInv, VerifyingInv
<1>15. VoterInv
  <2>1. voter = [set_id |-> 0, authorities |-> Genesis, paused |-> FALSE] /\ commands = <<>>
    BY DEF Init
  <2>2. Told(<<>>, 0, 0)
    BY DEF Told
  <2> QED BY <2>1, <2>2, <1>2, <1>6, <1>8 DEF VoterInv
<1>16. DiskInv
  <2>1. stored_set = GenesisSet
    BY DEF Init
  <2> QED BY <2>1, <1>2, <1>7, SameOrder DEF DiskInv
<1> QED BY <1>1, <1>2, <1>4, <1>5, <1>13, <1>14, <1>15, <1>16 DEF Inv

\* Every step of the importer, of the voter and of the node keeps it.
LEMMA InvNext ==
  ASSUME OldSetStops, Inv, [Next]_vars
  PROVE  Inv'
<1>1. CASE \E b \in Blocks : \E j \in SignedBy(b) \cup {NoJustification} : MakeAuthoritiesChanges(b, j)
  BY <1>1, MakeAuthoritiesChangesKept
<1>2. CASE WriteBlock
  BY <1>2, WriteBlockKept
<1>3. CASE WriteFails
  BY <1>3, WriteFailsKept
<1>4. CASE \E b \in Blocks : \E j \in SignedBy(b) : ImportJustification(b, j)
  BY <1>4, ImportJustificationKept
<1>5. CASE VerifySetId \/ VerifyAuthorities
  BY <1>5, VerifyKept
<1>6. CASE ImporterFinalizes
  BY <1>6, ImporterFinalizesKept
<1>7. CASE ImporterRefinalizes \/ ImporterFails
  BY <1>7, ImporterReturnsKept
<1>8. CASE \E b \in Blocks : VoterFinalizes(b)
  BY <1>8, VoterFinalizesKept
<1>9. CASE handle_voter_command
  BY <1>9, CommandKept
<1>10. CASE Restart
  BY <1>10, RestartKept
<1>11. CASE UNCHANGED vars
  BY <1>11, StutterKept
<1> QED BY <1>1, <1>2, <1>3, <1>4, <1>5, <1>6, <1>7, <1>8, <1>9, <1>10, <1>11 DEF Next

\* Under the assumption on the old set, the invariant holds of every state.
THEOREM InvCorrect ==
  ASSUME OldSetStops
  PROVE  Spec => []Inv
<1>1. Init => Inv
  BY InvInit
<1>2. Inv /\ [Next]_vars => Inv'
  BY InvNext
<1> QED BY <1>1, <1>2, PTL DEF Spec

\* SetsAgree, of every state of the invariant.
LEMMA InvSetsAgree ==
  ASSUME Inv
  PROVE  SetsAgree
<1>1. SetInv(CurrentSet, imported, finalized) /\ IsSet(CurrentSet)
  BY CurrentFacts
<1>2. FollowsNetwork(CurrentSet)
  BY <1>1 DEF SetInv
<1>3. FollowsNetwork(stored_set)
  <2>1. IsSet(stored_set) /\ SameButHeight(stored_set, CurrentSet)
    BY DEF Inv, DiskInv
  <2>2. /\ stored_set.current_authorities = CurrentSet.current_authorities
        /\ stored_set.set_id = CurrentSet.set_id
        /\ stored_set.authority_set_changes = CurrentSet.authority_set_changes
    BY <2>1, <1>1, SameFields
  <2> QED BY <1>2, <2>2 DEF FollowsNetwork
<1>4. voter.authorities = SetOf(voter.set_id)
  BY DEF Inv, VoterInv
<1> QED BY <1>2, <1>3, <1>4 DEF SetsAgree, CurrentSet

\* HandoffNeverMissed, of every state of the invariant.
LEMMA InvHandoff ==
  ASSUME OldSetStops, Inv
  PROVE  HandoffNeverMissed
<1> SUFFICES ASSUME NEW b \in imported, ~Locked, Justified(b, authority_set.set_id),
                    Number(b) > Number(finalized)
             PROVE  /\ Finalizable(b)
                    /\ apply_standard_changes(authority_set, b).new_set <=>
                         /\ authority_set.set_id < Len(sets)
                         /\ ~IsForced(SetOf(authority_set.set_id + 1))
                         /\ Number(b) = effective_number(SetOf(authority_set.set_id + 1))
  BY DEF HandoffNeverMissed
<1>1. /\ ChainInv
      /\ imported \subseteq Blocks /\ finalized \in imported
      /\ \A x \in imported : Ancestors[x] \subseteq imported
      /\ SetInv(authority_set, imported, finalized)
      /\ authority_set.set_id \in Nat
  BY CurrentFacts DEF CurrentSet
<1>2. b \in Canon /\ finalized \in Canon
  BY DEF Justified, Inv, ImportedInv
<1>3. AtOrBelow(b, Tip) /\ AtOrBelow(finalized, Tip) /\ Tip \in Blocks
  BY <1>2, OnCanon
<1>4. finalized \in Ancestors[b] /\ ~AtOrBelow(b, finalized)
  <2>1. Number(b) \in Nat /\ Number(finalized) \in Nat
    BY <1>1, NumberGrows
  <2> QED BY <2>1, <1>3, Chain
<1>5. ReadyToFinalize(authority_set, imported, finalized, b, authority_set.set_id)
  <2>1. authority_set.set_id \in 0 .. authority_set.set_id
    BY <1>1
  <2> QED BY <2>1, <1>1, <1>4 DEF ReadyToFinalize
<1>6. /\ apply_standard_changes_ok(authority_set, b)
      /\ apply_standard_changes(authority_set, b).new_set <=>
           /\ authority_set.set_id < Len(sets)
           /\ ~IsForced(SetOf(authority_set.set_id + 1))
           /\ Number(b) = effective_number(SetOf(authority_set.set_id + 1))
  BY <1>5, HandoffExact
<1>7. Finalizable(b)
  BY <1>4, <1>6 DEF Finalizable, AlreadyFinalized, is_descendent_of
<1> QED BY <1>6, <1>7

\* DiskFollowsMemory and PendingKept, of every state of the invariant.
LEMMA InvDiskAndPending ==
  ASSUME Inv
  PROVE  DiskFollowsMemory /\ PendingKept
<1>1. DiskFollowsMemory
  BY DEF Inv, DiskInv, DiskFollowsMemory, CurrentSet
<1>2. PendingKept
  <2> SUFFICES ASSUME ~Locked PROVE PendingKept
    BY DEF PendingKept
  <2> DEFINE pending == nodes(authority_set.pending_standard_changes) \cup authority_set.pending_forced_changes
             k == authority_set.set_id
  <2>1. ChainInv /\ SetInv(authority_set, imported, finalized) /\ k \in Nat
    BY CurrentFacts DEF CurrentSet
  <2>2. ASSUME NEW i \in DOMAIN sets, i > k, sets[i] \in imported PROVE sets[i] \in pending
    <3>1. i \in 1 .. Len(sets) /\ Len(sets) \in Nat
      BY <2>1, SetsAre
    <3>2. SetOf(i) = sets[i] /\ SetOf(i) \in Canon /\ Signals(SetOf(i))
      BY <2>1, <3>1, SetsAre
    <3>3. k \in 0 .. Len(sets) /\ i \in 0 .. Len(sets) /\ k < i
      BY <2>1, <2>2, <3>1
    <3>4. Number(SetOf(k)) < Number(SetOf(i)) /\ SetOf(k) \in Canon
      BY <2>1, <3>3, SetsAre
    <3>5. Number(SetOf(i)) \in Nat /\ Number(SetOf(k)) \in Nat
      BY <3>2, <3>4, OnCanon, NumberGrows
    <3>6. Number(SetOf(i)) > Number(SetOf(k))
      BY <3>4, <3>5
    <3> QED BY <2>1, <2>2, <3>2, <3>6 DEF SetInv, PendingInv
  <2> QED BY <2>1, <2>2 DEF SetInv, PendingInv, ForcedInv, FinalizedInv, PendingKept
<1> QED BY <1>1, <1>2

\* VotesStopAtHandoff, of every state of the invariant: the limit of the root
\* of the tree on the way to a pending change is at or below the change's own.
LEMMA InvVotes ==
  ASSUME Inv
  PROVE  VotesStopAtHandoff
<1> DEFINE tree == authority_set.pending_standard_changes
<1> SUFFICES ASSUME NEW base \in imported, NEW t \in imported, ~Locked,
                    AtOrBelow(finalized, base), AtOrBelow(base, t),
                    base = finalized \/ \A x \in ChangesBelow(t) : Number(base) <= effective_number(x),
                    NEW c \in ChangesBelow(t), NEW vote \in best_chain_containing(base, t)
             PROVE  vote <= effective_number(c)
  BY DEF VotesStopAtHandoff
<1>0. c \in nodes(tree) /\ AtOrBelow(c, t) /\ \A x \in nodes(tree) : AtOrBelow(x, t) => x \in ChangesBelow(t)
  BY DEF ChangesBelow
<1>1. /\ ChainInv
      /\ imported \subseteq Blocks /\ finalized \in imported /\ finalized \in Blocks
      /\ SetInv(authority_set, imported, finalized)
  BY CurrentFacts DEF CurrentSet
<1>2. /\ IsTree(tree) /\ Nested(tree) /\ Number(finalized) \in Nat
      /\ \A x \in nodes(tree) :
            /\ x \in Blocks /\ Signals(x)
            /\ Number(x) \in Nat /\ effective_number(x) \in Nat /\ Number(x) <= effective_number(x)
  BY <1>1, PendingFacts
<1>3. nodes(tree) \subseteq Blocks
  BY <1>2 DEF IsTree
<1>4. t \in Blocks /\ Number(t) \in Nat /\ base \in Blocks /\ Number(base) \in Nat
  BY <1>1, NumberGrows
<1>5. PICK r \in roots(tree) : AtOrBelow(r, c)
  <2> HIDE DEF tree
  <2> QED BY <1>0, <1>2, <1>3, RootBelow
<1>6. r \in nodes(tree) /\ effective_number(r) \in Nat /\ effective_number(c) \in Nat
  BY <1>0, <1>2, <1>5 DEF roots, children
<1>7. effective_number(r) <= effective_number(c)
  <2>1. CASE r = c
    BY <2>1, <1>6
  <2>2. CASE r # c
    <3>1. effective_number(r) < Number(c)
      BY <2>2, <1>0, <1>1, <1>2, <1>5, <1>6, Spacing DEF AtOrBelow, is_descendent_of
    <3>2. Number(c) \in Nat /\ Number(c) <= effective_number(c)
      BY <1>0, <1>2
    <3> QED BY <3>1, <3>2, <1>6
  <2> QED BY <2>1, <2>2
<1>8. effective_number(r) >= Number(base)
  <2>1. AtOrBelow(r, t)
    BY <1>0, <1>4, <1>5, Descent DEF AtOrBelow
  <2>2. CASE base # finalized
    <3>1. r \in ChangesBelow(t)
      BY <1>0, <1>6, <2>1
    <3> QED BY <2>2, <3>1, <1>4, <1>6
  <2>3. CASE base = finalized /\ AtOrBelow(r, finalized)
    <3>1. effective_number(r) > Number(finalized)
      BY <2>3, <1>1, <1>6 DEF SetInv, FinalizedInv
    <3> QED BY <2>3, <3>1, <1>2, <1>6
  <2>4. CASE base = finalized /\ ~AtOrBelow(r, finalized)
    <3>1. ~(Number(r) <= Number(finalized))
      BY <2>1, <2>4, <1>4, Chain
    <3>2. Number(r) \in Nat /\ Number(r) <= effective_number(r)
      BY <1>2, <1>6
    <3> QED BY <2>4, <3>1, <3>2, <1>2, <1>6
  <2> QED BY <2>2, <2>3, <2>4
<1> DEFINE limits == {n \in current_limits(authority_set, Number(base)) : n < Number(t)}
           target == IF limits = {} THEN Number(t) ELSE Min(limits)
<1>9. limits \in SUBSET Nat
  BY <1>2 DEF current_limits, roots, children
<1>10. effective_number(r) < Number(t) => effective_number(r) \in limits
  BY <1>5, <1>8 DEF current_limits
<1>11. \A n \in limits : n < Number(t)
  OBVIOUS
<1>12. vote \in {target} \cup Number(base) .. target - 1
  BY DEF best_chain_containing
<1> HIDE DEF limits
<1>13. target \in Nat /\ target <= effective_number(r)
  <2>1. CASE limits = {}
    <3>1. target = Number(t) /\ ~(effective_number(r) < Number(t))
      BY <1>10, <2>1
    <3> QED BY <3>1, <1>4, <1>6
  <2>2. CASE limits # {}
    <3>1. PICK x \in limits : \A y \in limits : x <= y
      BY <1>9, <2>2, LeastNumber
    <3>2. Min(limits) \in limits /\ \A y \in limits : Min(limits) <= y
      BY <3>1 DEF Min
    <3> DEFINE m == Min(limits)
    <3>3. target = m /\ m \in Nat /\ m < Number(t)
      BY <3>2, <1>9, <1>11, <2>2
    <3>4. effective_number(r) < Number(t) => m <= effective_number(r)
      BY <3>2, <1>10
    <3> HIDE DEF m, target
    <3> QED BY <3>3, <3>4, <1>4, <1>6
  <2> QED BY <2>1, <2>2
<1> HIDE DEF target
<1>14. vote \in Int /\ vote <= target
  BY <1>12, <1>13, <1>4
<1> QED BY <1>6, <1>7, <1>13, <1>14

\* VoterCaughtUp, of every state of the invariant.
LEMMA InvVoter ==
  ASSUME Inv
  PROVE  VoterCaughtUp
<1> SUFFICES ASSUME importer = Idle, commands = <<>>
             PROVE  voter.set_id = authority_set.set_id
  BY DEF VoterCaughtUp
<1>1. CurrentSet = authority_set
  BY DEF CurrentSet, Locked, Idle
<1>2. Told(<<>>, voter.set_id, authority_set.set_id)
  BY <1>1 DEF Inv, VoterInv
<1> QED BY <1>2 DEF Told

\* ForcedChangeEnacted, of every state of the invariant: a change that the
\* set has not gone through still waits, and then no block is imported at the
\* height where it takes effect.
LEMMA InvForced ==
  ASSUME Inv
  PROVE  ForcedChangeEnacted
<1> DEFINE k == CurrentSet.set_id
<1> SUFFICES ASSUME NEW i \in DOMAIN sets, IsForced(sets[i]), NEW b \in imported,
                    AtOrBelow(sets[i], b), Number(b) = effective_number(sets[i])
             PROVE  stored_set.set_id >= i
  BY DEF ForcedChangeEnacted
<1>1. /\ ChainInv
      /\ imported \subseteq Blocks /\ finalized \in imported
      /\ \A x \in imported : Ancestors[x] \subseteq imported
      /\ SetInv(CurrentSet, imported, finalized)
      /\ IsSet(CurrentSet) /\ k \in Nat
  BY CurrentFacts
<1>2. stored_set.set_id = k
  BY <1>1, SameFields DEF Inv, DiskInv
<1>3. i \in 1 .. Len(sets) /\ Len(sets) \in Nat
  BY <1>1, SetsAre
<1>4. SetOf(i) = sets[i] /\ SetOf(i) \in Canon /\ Signals(SetOf(i))
  BY <1>1, <1>3, SetsAre
<1>5. ASSUME k < i PROVE FALSE
  <2>1. k \in 0 .. Len(sets) /\ i \in 0 .. Len(sets)
    BY <1>1, <1>3, <1>5
  <2>2. Number(SetOf(k)) < Number(SetOf(i))
    BY <2>1, <1>1, <1>5, SetsAre
  <2>3. SetOf(i) \in imported \cap Canon
    BY <1>1, <1>4 DEF AtOrBelow, is_descendent_of
  <2>4. Number(SetOf(i)) \in Nat /\ Number(SetOf(k)) \in Nat
    BY <1>1, <2>1, <2>3, SetsAre, OnCanon, NumberGrows
  <2>5. Number(SetOf(i)) > Number(SetOf(k))
    BY <2>2, <2>4
  <2>6. SetOf(i) \in CurrentSet.pending_forced_changes
    <3>1. PendingInv(CurrentSet, imported)
      BY <1>1 DEF SetInv
    <3>2. SetOf(i) \in nodes(CurrentSet.pending_standard_changes) \cup CurrentSet.pending_forced_changes
      BY <3>1, <2>3, <2>5, <1>4 DEF PendingInv
    <3>3. SetOf(i) \notin nodes(CurrentSet.pending_standard_changes)
      BY <3>1, <1>4 DEF PendingInv
    <3> QED BY <3>2, <3>3
  <2>7. Number(b) < effective_number(sets[i])
    BY <2>6, <1>1, <1>4 DEF SetInv, ForcedInv
  <2>8. Number(b) \in Nat
    BY <1>1, NumberGrows
  <2> DEFINE n == Number(b)
  <2>9. n < n /\ n \in Nat
    BY <2>7, <2>8
  <2> HIDE DEF n
  <2> QED BY <2>9
<1> HIDE DEF k
<1> QED BY <1>1, <1>2, <1>3, <1>5

\* Whatever forks a node sees, and however blocks, justifications, failures
\* and restarts interleave, the set with an id is the same in its memory, on
\* its disk, in its voter and on every other node, and so is where each set
\* ended (apply_standard_changes and apply_forced_changes).
THEOREM SetsAgreeCorrect ==
  ASSUME OldSetStops
  PROVE  Spec => []SetsAgree
<1>1. Inv => SetsAgree
  BY InvSetsAgree
<1> QED BY <1>1, InvCorrect, PTL

\* finalize_block accepts every justification of the current set, and enacts
\* a change exactly at the block where the set hands over.
THEOREM HandoffNeverMissedCorrect ==
  ASSUME OldSetStops
  PROVE  Spec => []HandoffNeverMissed
<1>1. Inv => HandoffNeverMissed
  BY InvHandoff
<1> QED BY <1>1, InvCorrect, PTL

\* The set on disk is the one in memory up to the height of the tree,
\* whichever of import, finalization, failure and restart came last.
THEOREM DiskFollowsMemoryCorrect ==
  ASSUME OldSetStops
  PROVE  Spec => []DiskFollowsMemory
<1>1. Inv => DiskFollowsMemory
  BY InvDiskAndPending
<1> QED BY <1>1, InvCorrect, PTL

\* Pruning at finalization loses no change that the network is still to go
\* through, and keeps none of the finalized chain whose height is passed; the
\* fork tree stays well formed (fork-tree/src/lib.rs, apply_standard_changes).
THEOREM PendingKeptCorrect ==
  ASSUME OldSetStops
  PROVE  Spec => []PendingKept
<1>1. Inv => PendingKept
  BY InvDiskAndPending
<1> QED BY <1>1, InvCorrect, PTL

\* No vote of a round whose base is not past such a block goes past the block at
\* which a pending change takes effect on the chain that is voted for
\* (best_chain_containing, current_limit).
THEOREM VotesStopAtHandoffCorrect ==
  ASSUME OldSetStops
  PROVE  Spec => []VotesStopAtHandoff
<1>1. Inv => VotesStopAtHandoff
  BY InvVotes
<1> QED BY <1>1, InvCorrect, PTL

\* No new set is lost on the way from the importer to the voter.
THEOREM VoterCaughtUpCorrect ==
  ASSUME OldSetStops
  PROVE  Spec => []VoterCaughtUp
<1>1. Inv => VoterCaughtUp
  BY InvVoter
<1> QED BY <1>1, InvCorrect, PTL

\* A node that has the block at which a forced change takes effect has the
\* set that the change brings, or a later one, on disk.
THEOREM ForcedChangeEnactedCorrect ==
  ASSUME OldSetStops
  PROVE  Spec => []ForcedChangeEnacted
<1>1. Inv => ForcedChangeEnacted
  BY InvForced
<1> QED BY <1>1, InvCorrect, PTL
=============================================================================
