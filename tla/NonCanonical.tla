----------------------------- MODULE NonCanonical -----------------------------
(***************************************************************************)
(* The canonicalization window of the state database                       *)
(* (client/state-db/src/noncanonical.rs): the tree of blocks that are not  *)
(* canonical yet, the trie nodes they insert, and what is kept of          *)
(* discarded blocks because somebody has pinned them.                      *)
(*                                                                         *)
(* The state of a block is a set of keys (trie nodes, addressed by their   *)
(* content); a block inserts the nodes its state has and its parent's has  *)
(* not, and deletes the opposite difference.                               *)
(***************************************************************************)
EXTENDS Integers, FiniteSets, SequencesExt

CONSTANTS
  Block,     \* hashes of blocks
  Genesis,   \* the block with number 0
  Parent,    \* Parent[b]: the parent of every block but Genesis
  Key,       \* keys of trie nodes
  State      \* State[b]: the keys of the trie of block b

NoBlock == "no block"

\* Every block has the genesis block below it: no set of others has all their
\* parents.
ASSUME BlockAssumption ==
  /\ IsFiniteSet(Block) /\ Genesis \in Block /\ NoBlock \notin Block
  /\ Parent \in [Block \ {Genesis} -> Block]
  /\ \A S \in SUBSET (Block \ {Genesis}) : S # {} => \E b \in S : Parent[b] \notin S
ASSUME StateAssumption == State \in [Block -> SUBSET Key]

\* b and the blocks above it.
Ancestors[b \in Block] ==
  IF b = Genesis THEN {b} ELSE {b} \cup Ancestors[Parent[b]]

Number(b) == Cardinality(Ancestors[b]) - 1

ParentOf(b) == IF b = Genesis THEN NoBlock ELSE Parent[b]

\* ChangeSet::inserted and ChangeSet::deleted of block b.
Inserted(b) == IF b = Genesis THEN State[b] ELSE State[b] \ State[Parent[b]]
Deleted(b)  == IF b = Genesis THEN {} ELSE State[Parent[b]] \ State[b]

(***************************************************************************)
(* NonCanonicalOverlay.  `last_hash` and `last_number` are                 *)
(* last_canonicalized, NoBlock and -1 for None.  A BlockOverlay is its     *)
(* hash and the index in its journal key, whose number is the number of    *)
(* the level.  `parents` holds the keys of the map, `values` the reference *)
(* counters (0 where there is no entry), and `pinned_insertions` the       *)
(* counters of that map (0 where there is no entry).                       *)
(***************************************************************************)
BlockOverlay == [hash : Block, index : Nat]

Overlays ==
  [ last_hash                 : Block \cup {NoBlock},
    last_number               : Nat \cup {-1},
    levels                    : Seq(Seq(BlockOverlay)),
    parents                   : SUBSET Block,
    pending_canonicalizations : Seq(Block),
    pending_insertions        : Seq(Block),
    values                    : [Key -> Nat],
    pinned                    : SUBSET Block,
    pinned_insertions         : [Block -> Nat] ]

Hashes(level) == {level[i].hash : i \in DOMAIN level}
InLevels(n)   == UNION {Hashes(n.levels[i]) : i \in DOMAIN n.levels}
Retained(n)   == {b \in Block : n.pinned_insertions[b] > 0}

-----------------------------------------------------------------------------
(* Reference counted values                                                *)

insert_values(values, B) ==
  [k \in Key |-> values[k] + Cardinality({b \in B : k \in Inserted(b)})]

\* Mutant: a value goes with the first block that is discarded.
discard_values_at_once(values, B) ==
  [k \in Key |-> IF \E b \in B : k \in Inserted(b) THEN 0 ELSE values[k]]

\* A value that is missing is passed over (in debug builds it is an error).
discard_values(values, B) ==
  [k \in Key |-> LET n == Cardinality({b \in B : k \in Inserted(b)})
                 IN  IF values[k] >= n THEN values[k] - n ELSE 0]

-----------------------------------------------------------------------------
front_block_number(n) == n.last_number + 1

last_canonicalized_block_number(n) ==
  LET pending == Len(n.pending_canonicalizations)
  IN  IF n.last_hash = NoBlock THEN IF pending = 0 THEN -1 ELSE pending
                               ELSE n.last_number + pending

have_block(n, b) ==
  /\ b \in n.parents \cup ToSet(n.pending_insertions)
  /\ b \notin ToSet(n.pending_canonicalizations)

\* NonCanonicalOverlay::get finds the key.
have_value(n, k) == n.values[k] > 0

-----------------------------------------------------------------------------
(* Insertion                                                               *)

\* The conditions under which `insert` does not return an error.
insertable(n, b) ==
  n.last_hash # NoBlock =>
    /\ Number(b) >= front_block_number(n)
    /\ Number(b) <= front_block_number(n) + Len(n.levels)
    /\ IF Number(b) = front_block_number(n)
       THEN ParentOf(b) = n.last_hash /\ n.last_number = Number(b) - 1
       ELSE ParentOf(b) \in n.parents

\* The parent of the very first block is taken for canonical.
assumes_parent(n, b) == n.levels = <<>> /\ n.last_hash = NoBlock /\ Number(b) > 0

\* The position of the level of b, which is new if it is after the last one.
level_of(n, b) ==
  IF n.levels = <<>> THEN 1
  ELSE Number(b) - front_block_number(n) + 1

\* The index of b in its level, and in the key of its journal record.
insert_index(n, b) ==
  IF level_of(n, b) \in DOMAIN n.levels THEN Len(n.levels[level_of(n, b)]) ELSE 0

\* The levels with block overlay o at the end of level i, which may be new.
push(levels, i, o) ==
  IF i \in DOMAIN levels THEN [levels EXCEPT ![i] = Append(@, o)] ELSE Append(levels, <<o>>)

insert(n, b) ==
  LET i       == level_of(n, b)
      overlay == [hash |-> b, index |-> insert_index(n, b)]
  IN  [n EXCEPT
         !.last_hash   = IF assumes_parent(n, b) THEN ParentOf(b) ELSE @,
         !.last_number = IF assumes_parent(n, b) THEN Number(b) - 1 ELSE @,
         !.levels      = push(@, i, overlay),
         !.parents     = @ \cup {b},
         !.values      = insert_values(@, {b}),
         !.pending_insertions = Append(@, b)]

-----------------------------------------------------------------------------
(* Canonicalization                                                        *)

\* The blocks of the levels from i on that descend, level by level, from the
\* blocks R of level i.
Subtrees(levels, i, R) ==
  LET below[j \in i .. Len(levels)] ==
        IF j = i THEN R
        ELSE {b \in Hashes(levels[j]) : ParentOf(b) \in below[j - 1]}
  IN  UNION {below[j] : j \in DOMAIN below}

\* What canonicalizing b at level i discards: the level, and the subtrees of
\* all its blocks but b.
Discarded(levels, i, b) ==
  {b} \cup Subtrees(levels, i, Hashes(levels[i]) \ {b})

\* `canonicalize` finds the block.
canonicalizable(n, b) ==
  LET i == Len(n.pending_canonicalizations) + 1
  IN  i \in DOMAIN n.levels /\ b \in Hashes(n.levels[i])

\* The journal keys it deletes, as pairs of a number and an index.
discarded_journals(n, b) ==
  LET i == Len(n.pending_canonicalizations) + 1
  IN  UNION {{<<front_block_number(n) + j - 1, n.levels[j][x].index>> :
                x \in {y \in DOMAIN n.levels[j] :
                         n.levels[j][y].hash \in Discarded(n.levels, i, b)}}
             : j \in i .. Len(n.levels)}

\* The number of the block it canonicalizes.
canonicalized_number(n) == front_block_number(n) + Len(n.pending_canonicalizations)

canonicalize(n, b) ==
  [n EXCEPT !.pending_canonicalizations = Append(@, b)]

\* The number of pins that keep discarded block b: its own, and those of the
\* blocks D below it that are discarded with it.
num_pinned(n, D, b) == Cardinality({c \in D \cap n.pinned : b \in Ancestors[c]})

\* A level without the blocks D.
discard_level(level, D) ==
  LET left[i \in 0 .. Len(level)] ==
        IF i = 0 THEN <<>>
        ELSE IF level[i].hash \in D THEN left[i - 1] ELSE Append(left[i - 1], level[i])
  IN  left[Len(level)]

\* One turn of the loop of apply_canonicalizations.
apply_canonicalization(n, b) ==
  LET D    == Discarded(n.levels, 1, b)
      kept == {c \in D : num_pinned(n, D, c) > 0}
  IN  [n EXCEPT
         !.levels  = [i \in 1 .. Len(@) - 1 |-> discard_level(@[i + 1], D)],
         !.parents = @ \ (D \ kept),
         !.values  = discard_values(@, D \ kept),
         !.pinned_insertions = [c \in Block |-> IF c \in kept THEN num_pinned(n, D, c) ELSE @[c]]]

apply_canonicalizations(n) ==
  LET pending == n.pending_canonicalizations
      applied[i \in 0 .. Len(pending)] ==
        IF i = 0 THEN n ELSE apply_canonicalization(applied[i - 1], pending[i])
  IN  IF pending = <<>> THEN n
      ELSE [applied[Len(pending)] EXCEPT !.last_hash   = Last(pending),
                                         !.last_number = @ + Len(pending),
                                         !.pending_canonicalizations = <<>>]

noncanonical_apply_pending(n) ==
  [apply_canonicalizations(n) EXCEPT !.pending_insertions = <<>>]

-----------------------------------------------------------------------------
(* Reverting                                                               *)

\* The journal keys revert_one deletes.
reverted_journals(n) ==
  LET i == Len(n.levels)
  IN  {<<front_block_number(n) + i - 1, n.levels[i][x].index>> : x \in DOMAIN n.levels[i]}

noncanonical_revert_one(n) ==
  LET B == Hashes(Last(n.levels))
  IN  [n EXCEPT !.levels = Front(@), !.parents = @ \ B, !.values = discard_values(@, B)]

\* Mutant: the values of the block stay.
revert_insertion_keep_values(n, b) ==
  LET i   == CHOOSE j \in DOMAIN n.levels : n.levels[j] # <<>> /\ Last(n.levels[j]).hash = b
      cut == [n.levels EXCEPT ![i] = Front(@)]
  IN  [n EXCEPT !.levels  = IF cut[i] = <<>> THEN Front(cut) ELSE cut, !.parents = @ \ {b}]

\* One turn of the loop of revert_insertions: the block is the last of some
\* level (the code expects no empty level before it); a level that gets empty
\* takes the last level with it.
revert_insertion(n, b) ==
  LET i   == CHOOSE j \in DOMAIN n.levels : n.levels[j] # <<>> /\ Last(n.levels[j]).hash = b
      cut == [n.levels EXCEPT ![i] = Front(@)]
  IN  [n EXCEPT !.levels  = IF cut[i] = <<>> THEN Front(cut) ELSE cut,
                !.parents = @ \ {b},
                !.values  = discard_values(@, {b})]

\* revert_insertions meets the levels it expects ("Empty levels are not allowed
\* in self.levels"): none before that of the inserted block is empty, and the
\* last one, which goes when the block was alone, holds no other block.
in_order(n) ==
  n.pending_insertions # <<>> =>
    \A i \in DOMAIN n.levels :
      n.levels[i] # <<>> /\ Last(n.levels[i]).hash = n.pending_insertions[1] =>
        /\ \A j \in 1 .. i - 1 : n.levels[j] # <<>>
        /\ Len(n.levels[i]) = 1 => i = Len(n.levels) \/ Last(n.levels) = <<>>

\* Mutant: the insertions stay.
noncanonical_revert_pending_keep(n) ==
  [n EXCEPT !.pending_canonicalizations = <<>>, !.pending_insertions = <<>>]

noncanonical_revert_pending(n) ==
  LET pending == n.pending_insertions
      reverted[i \in 0 .. Len(pending)] ==
        IF i = 0 THEN n ELSE revert_insertion(reverted[i - 1], pending[Len(pending) - i + 1])
  IN  [reverted[Len(pending)]
         EXCEPT !.pending_canonicalizations = <<>>, !.pending_insertions = <<>>]

-----------------------------------------------------------------------------
(* Pinning                                                                 *)

\* StateDbSync pins a block here for the first of its references and unpins
\* it for the last, so that the counter of `pinned` never exceeds one.
noncanonical_pin(n, b) ==
  IF b \in ToSet(n.pending_insertions) THEN n ELSE [n EXCEPT !.pinned = @ \cup {b}]

\* The retained blocks `unpin` visits on its way up from b.
unpin_path(n, b) ==
  {c \in Ancestors[b] : \A d \in Ancestors[b] :
     c \in Ancestors[d] => d \in Retained(n) /\ (d # c => d \in n.parents)}

noncanonical_unpin(n, b) ==
  LET path == unpin_path(n, b)
      gone == {c \in path : n.pinned_insertions[c] = 1}
  IN  IF b \notin n.pinned THEN n
      ELSE [n EXCEPT
              !.pinned  = @ \ {b},
              !.parents = @ \ gone,
              !.values  = discard_values(@, gone),
              !.pinned_insertions = [c \in Block |-> IF c \in path THEN @[c] - 1 ELSE @[c]]]

-----------------------------------------------------------------------------
(* Startup                                                                 *)

\* The records of the level with number m in journal J, up to the first
\* index without one.
journal_level(J, m) ==
  LET rec(i)  == {r \in J : r[1] = m /\ r[2] = i}
      count   == CHOOSE c \in 0 .. Cardinality(J) :
                   rec(c) = {} /\ \A i \in 0 .. c - 1 : rec(i) # {}
  IN  [i \in 1 .. count |-> [hash |-> (CHOOSE r \in rec(i - 1) : TRUE)[3], index |-> i - 1]]

\* NonCanonicalOverlay::new, from the journal and last_canonicalized: levels
\* are read up to the first one without a record.
NewOverlay(J, last_hash, last_number) ==
  LET depth  == CHOOSE c \in 0 .. Cardinality(J) :
                  /\ journal_level(J, last_number + 1 + c) = <<>>
                  /\ \A i \in 1 .. c : journal_level(J, last_number + i) # <<>>
      levels == IF last_hash = NoBlock THEN <<>>
                ELSE [i \in 1 .. depth |-> journal_level(J, last_number + i)]
      B      == UNION {Hashes(levels[i]) : i \in DOMAIN levels}
  IN  [ last_hash   |-> last_hash,
        last_number |-> last_number,
        levels      |-> levels,
        parents     |-> B,
        pending_canonicalizations |-> <<>>,
        pending_insertions        |-> <<>>,
        values      |-> insert_values([k \in Key |-> 0], B),
        pinned      |-> {},
        pinned_insertions |-> [b \in Block |-> 0] ]
=============================================================================
