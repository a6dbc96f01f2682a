----------------------------- MODULE StorageCache -----------------------------
(***************************************************************************)
(* The storage cache of client/db (storage_cache.rs): one cache of values   *)
(* at the best block, shared by the states of all blocks and forks, beside  *)
(* the import operations of Backend and the client that keep it in step     *)
(* with the chain.                                                          *)
(*                                                                          *)
(* A value is the block that wrote it.  Top and child keys are cached alike *)
(* (hashes only of top keys); a state's answer from the database is always  *)
(* ValueAt, so that a local cache is the set of keys it holds.              *)
(***************************************************************************)
EXTENDS Integers, FiniteSets, Sequences, SequencesExt

CONSTANTS
  Block, Genesis,
  None,               \* no block, no operation, no state
  Parent,             \* the tree: from the other blocks to their parents
  Key,                \* top keys and child keys
  TopKey,             \* the keys storage_hash is asked for
  Reader,             \* states in use by other threads
  STATE_CACHE_BLOCKS, \* how many blocks modifications remembers
  ImportExisting,     \* the blocks that are offered again (import_existing)
  FinalizedForks      \* whether seal_block is told to build a final block on a fork

\* Every block has the genesis block below it: no set of others has all their
\* parents.
ASSUME TreeAssumption ==
  /\ Genesis \in Block
  /\ Parent \in [Block \ {Genesis} -> Block]
  /\ \A S \in SUBSET (Block \ {Genesis}) : S # {} => \E b \in S : Parent[b] \notin S
ASSUME BoundAssumption ==
  /\ TopKey \subseteq Key
  /\ STATE_CACHE_BLOCKS \in Nat \ {0}
  /\ ImportExisting \subseteq Block
  /\ FinalizedForks \in BOOLEAN

VARIABLES
  writes,     \* the keys each block changes; what the block says, so constant
  imported,   \* the blocks in the database
  best,       \* meta.best_hash
  finalized,  \* meta.finalized_hash
  cache,      \* the shared cache, behind its mutex
  readers,    \* states that are open, each with its local cache
  operation   \* the import operation that holds the import lock

chain == <<writes, imported, best, finalized>>
vars == <<chain, cache, readers, operation>>

-----------------------------------------------------------------------------
(* The tree *)

\* A block and its ancestors.
Chain[b \in Block] == {b} \cup (IF b = Genesis THEN {} ELSE Chain[Parent[b]])
Number(b) == Cardinality(Chain[b]) - 1

Enacted(from, to) == Chain[to] \ Chain[from]
Retracted(from, to) == Chain[from] \ Chain[to]

\* What the database answers at block b: the last block that wrote the key.
ValueAt(b, key) ==
  LET writers == {w \in Chain[b] : key \in writes[w]}
  IN  CHOOSE w \in writers : writers \subseteq Chain[w]

\* Canonicalization discards what is not on the chain of the finalized block.
have_state_at(b) == b \in Chain[finalized] \/ finalized \in Chain[b]

-----------------------------------------------------------------------------
(* Cache *)

BlockChanges(b, is_best) ==
  [number |-> Number(b), hash |-> b, parent |-> Parent[b],
   storage |-> writes[b], is_canon |-> is_best]

new_shared_cache ==
  [lru_storage |-> [key \in Key |-> None],
   lru_hashes |-> [key \in TopKey |-> None],
   modifications |-> <<>>]

\* Entries of a map are overwritten by add, forgotten by remove.
Add(map, entries) ==
  [key \in DOMAIN map |-> IF key \in DOMAIN entries THEN entries[key] ELSE map[key]]
Without(map, keys) ==
  [key \in DOMAIN map |-> IF key \in keys THEN None ELSE map[key]]

\* The entry `find` returns: the first one of the block.
Entry(modifications, b) == SelectInSeq(modifications, LAMBDA m : m.hash = b)

\* A block that the list does not have wipes the cache.  Retracted blocks come
\* last, so that they win.
sync(c, enacted, retracted) ==
  LET found == {Entry(c.modifications, b) : b \in enacted \cup retracted}
  IN  IF 0 \in found
      THEN new_shared_cache
      ELSE [c EXCEPT
              !.lru_storage = Without(@, UNION {c.modifications[i].storage : i \in found}),
              !.modifications = [i \in DOMAIN @ |->
                 IF i \in found THEN [@[i] EXCEPT !.is_canon = c.modifications[i].hash \notin retracted]
                 ELSE @[i]]]

\* Ordered by number, the highest first; the last one makes room.
Remember(modifications, m) ==
  LET kept == IF Len(modifications) = STATE_CACHE_BLOCKS
              THEN Front(modifications) ELSE modifications
      at == SelectInSeq(kept, LAMBDA x : x.number < m.number)
  IN  IF at = 0 THEN Append(kept, m) ELSE InsertAt(kept, at, m)

\* The values of the state at parent join the shared cache.
Propagate(c, parent, local, is_best) ==
  IF ~is_best THEN c
  ELSE [c EXCEPT !.lru_storage = Add(@, [key \in local.storage |-> ValueAt(parent, key)]),
                 !.lru_hashes = Add(@, [key \in local.hashes |-> ValueAt(parent, key)])]

Record(c, b, is_best) ==
  [c EXCEPT
     !.lru_storage = IF is_best THEN Add(@, [key \in writes[b] |-> b]) ELSE @,
     !.lru_hashes = IF is_best THEN Without(@, writes[b]) ELSE @,
     !.modifications = Remember(@, BlockChanges(b, is_best))]

\* sync_cache with a block that is committed.  The state of an operation is
\* only read through other states, so that its own local cache is empty.
sync_cache(c, enacted, retracted, b, is_best) ==
  LET at == Entry(c.modifications, b)
      again == at # 0 /\ c.modifications[at].is_canon # is_best
      e == (enacted \ {b}) \cup {x \in {b} : again /\ is_best}
      r == retracted \cup {x \in {b} : again /\ ~is_best}
  IN  Record(sync(c, e, r), b, is_best)

\* The maps are bounded in bytes, each by itself: what is added to them may push
\* out anything.
Evicted(c, added) ==
  IF ~added THEN {c}
  ELSE {[c EXCEPT !.lru_storage = Without(@, out.storage), !.lru_hashes = Without(@, out.hashes)] :
          out \in [storage : SUBSET Key, hashes : SUBSET TopKey]}

\* The walk along the modifications, the newest first: the block that is looked
\* for after i of them.
Walk(modifications, parent_hash) ==
  LET parent[i \in 0 .. Len(modifications)] ==
        IF i = 0 THEN parent_hash
        ELSE LET m == modifications[i] IN
             IF m.hash = parent[i - 1] THEN m.parent ELSE parent[i - 1]
  IN  parent

\* The walk meets a canonical block before a modification of the key.
is_allowed(key, parent_hash) ==
  LET modifications == cache.modifications
      parent == Walk(modifications, parent_hash)
  IN  \E i \in DOMAIN modifications :
        /\ modifications[i].hash = parent[i - 1] /\ modifications[i].is_canon
        /\ \A j \in 1 .. i - 1 : key \notin modifications[j].storage

-----------------------------------------------------------------------------
(* Import operations: the database is written, then the cache is synced, then  *)
(* meta is updated, all under the import lock but not under that of the cache. *)

\* An import operation under way: what is left to do, for which block and which head.
Operation ==
  [commit : Block \cup {None}, is_best : BOOLEAN, head : Block \cup {None}, finalized : Block,
   next : {"sync_cache", "sync", "update_meta"}]

ASSUME NoneAssumption == None \notin Block \cup Operation

Init ==
  /\ writes \in {w \in [Block -> SUBSET Key] : w[Genesis] = Key}
  /\ imported = {Genesis}
  /\ best = Genesis
  /\ finalized = Genesis
  /\ cache = new_shared_cache
  /\ readers = [r \in Reader |-> None]
  /\ operation = None

\* The head may not leave the finalized chain.
set_head_with_transaction(route_to) == finalized \notin Retracted(best, route_to)

\* apply_finality_with_block_hash(b): the head moves to b when b is not on the
\* best chain.
finality_head(b) == IF b \in Chain[best] THEN None ELSE b

\* A head that was set has its own turn at the cache.
after_sync_cache(head) == IF head = None THEN "update_meta" ELSE "sync"

\* execute_and_import_block takes any block above the finalized one.
Import(b, is_best, final) ==
  /\ operation = None
  /\ b # Genesis
  /\ b \notin imported \/ b \in ImportExisting
  /\ Parent[b] \in imported
  /\ have_state_at(Parent[b])
  /\ Number(b) > Number(finalized)
  /\ final => is_best /\ finalized \in Chain[Parent[b]]
  /\ is_best => set_head_with_transaction(Parent[b])
  /\ imported' = imported \cup {b}
  /\ operation' = [commit |-> b, is_best |-> is_best,
                   head |-> IF final /\ Parent[b] # finalized THEN finality_head(Parent[b]) ELSE None,
                   finalized |-> IF final THEN b ELSE finalized, next |-> "sync_cache"]
  /\ UNCHANGED <<writes, best, finalized, cache, readers>>

Finalize(b) ==
  /\ operation = None
  /\ b \in imported \ {finalized}
  /\ finalized \in Chain[b]
  /\ finality_head(b) # None => set_head_with_transaction(b)
  /\ operation' = [commit |-> None, is_best |-> FALSE, head |-> finality_head(b),
                   finalized |-> b, next |-> after_sync_cache(finality_head(b))]
  /\ UNCHANGED <<chain, cache, readers>>

SyncCache ==
  /\ operation # None
  /\ operation.next = "sync_cache"
  /\ LET b == operation.commit
         enacted == IF operation.is_best THEN Enacted(best, Parent[b]) ELSE {}
         retracted == IF operation.is_best THEN Retracted(best, Parent[b]) ELSE {}
     IN  cache' \in Evicted(sync_cache(cache, enacted, retracted, b, operation.is_best),
                            operation.is_best)
  /\ operation' = [operation EXCEPT !.next = after_sync_cache(operation.head)]
  /\ UNCHANGED <<chain, readers>>

SyncHead ==
  /\ operation # None
  /\ operation.next = "sync"
  /\ cache' = sync(cache, Enacted(best, operation.head), Retracted(best, operation.head))
  /\ operation' = [operation EXCEPT !.next = "update_meta"]
  /\ UNCHANGED <<chain, readers>>

\* The updates are applied in the order they were pushed: the imported block,
\* then the head.
UpdateMeta ==
  /\ operation # None
  /\ operation.next = "update_meta"
  /\ best' = IF operation.head # None THEN operation.head
             ELSE IF operation.is_best THEN operation.commit ELSE best
  /\ finalized' = operation.finalized
  /\ operation' = None
  /\ UNCHANGED <<writes, imported, cache, readers>>

-----------------------------------------------------------------------------
(* States, used by any thread at any time *)

state_at(r, b) ==
  /\ readers[r] = None
  /\ b \in imported
  /\ have_state_at(b)
  /\ readers' = [readers EXCEPT ![r] = [parent_hash |-> b, storage |-> {}, hashes |-> {}]]
  /\ UNCHANGED <<chain, cache, operation>>

\* A miss; a hit of the local or the shared cache changes nothing.
storage(r, key) ==
  /\ readers[r] # None
  /\ key \notin readers[r].storage
  /\ ~(is_allowed(key, readers[r].parent_hash) /\ cache.lru_storage[key] # None)
  /\ readers' = [readers EXCEPT ![r].storage = @ \cup {key}]
  /\ UNCHANGED <<chain, cache, operation>>

storage_hash(r, key) ==
  /\ readers[r] # None
  /\ key \notin readers[r].hashes
  /\ ~(is_allowed(key, readers[r].parent_hash) /\ cache.lru_hashes[key] # None)
  /\ readers' = [readers EXCEPT ![r].hashes = @ \cup {key}]
  /\ UNCHANGED <<chain, cache, operation>>

\* The local cache of a state of the best block joins the shared one.
Join(r) ==
  LET is_best == best = readers[r].parent_hash
  IN  /\ cache' \in Evicted(Propagate(cache, readers[r].parent_hash, readers[r], is_best), is_best)
      /\ readers' = [readers EXCEPT ![r] = None]
      /\ UNCHANGED <<chain, operation>>

\* Mutant: a state is dropped without waiting for the import lock.
drop_unlocked(r) == readers[r] # None /\ Join(r)

\* SyncingCachingState::drop waits for the import lock.
drop(r) ==
  /\ readers[r] # None
  /\ operation = None
  /\ Join(r)

\* Assumed of the callers.  Only seal_block of manual-seal imports blocks as
\* final: on the best chain, or on the parent that its command names.
SealsOn(b, final) == final => FinalizedForks \/ Parent[b] \in Chain[best]

Next ==
  \/ \E b \in Block, is_best, final \in BOOLEAN : Import(b, is_best, final) /\ SealsOn(b, final)
  \/ \E b \in Block : Finalize(b)
  \/ SyncCache
  \/ SyncHead
  \/ UpdateMeta
  \/ \E r \in Reader, b \in Block : state_at(r, b)
  \/ \E r \in Reader, key \in Key : storage(r, key)
  \/ \E r \in Reader, key \in TopKey : storage_hash(r, key)
  \/ \E r \in Reader : drop(r)

Spec == Init /\ [][Next]_vars

-----------------------------------------------------------------------------
(* Properties *)

\* A state of any block, opened now or earlier, that may take a value from the
\* shared cache (is_allowed) gets what its database would have answered: reorgs,
\* forks, forgotten blocks and the moments inside an import included.
CacheTransparent ==
  \A b \in imported, key \in Key :
    is_allowed(key, b) /\ cache.lru_storage[key] # None
      => cache.lru_storage[key] = ValueAt(b, key)

\* The same of storage_hash.
HashTransparent ==
  \A b \in imported, key \in TopKey :
    is_allowed(key, b) /\ cache.lru_hashes[key] # None
      => cache.lru_hashes[key] = ValueAt(b, key)
=============================================================================
