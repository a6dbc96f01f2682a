------------------------------ MODULE Changeset ------------------------------
(***************************************************************************)
(* A map of storage changes with nested transactions: OverlayedMap of      *)
(* primitives/state-machine/src/overlayed_changes/changeset.rs.            *)
(*                                                                         *)
(* Each key that was written has one version per transaction that wrote    *)
(* it, the oldest first; dirty_keys says, for each open transaction, which *)
(* keys it wrote.  Nothing else ties a version to its transaction, so that *)
(* reading, committing and rolling back are right only as long as the two  *)
(* agree.  The operators below take the map and give the map as the method *)
(* leaves it.                                                              *)
(***************************************************************************)
EXTENDS Integers, Sequences, FiniteSets

CONSTANTS
  Key,                \* storage keys
  Item,               \* elements of the values that are encoded vectors
  Index,              \* encoded extrinsic indices: values that are not vectors
  NO_EXTRINSIC_INDEX, \* marks the changes made outside extrinsics
  None,               \* Option::None: as a value, the key is deleted
  Unknown,            \* the overlay knows nothing of the key
  MaxItems            \* bound: elements of a value that is an encoded vector

ASSUME ItemsAssumption == MaxItems \in Nat \ {0}

StorageValue == (UNION {[1 .. n -> Item] : n \in 0 .. MaxItems}) \cup Index

ASSUME OptionAssumption ==
  /\ None \notin StorageValue
  /\ Unknown \notin StorageValue \cup {None}
  /\ NO_EXTRINSIC_INDEX \notin Index

Extrinsic == Index \cup {NO_EXTRINSIC_INDEX}

InnerValue == [value : StorageValue \cup {None}, extrinsics : SUBSET Extrinsic]

\* The maps that hold changes of the keys of D.
OverlayedMap(D) ==
  [ changes                 : [D -> Seq(InnerValue)],
    dirty_keys              : Seq(SUBSET Key),
    num_client_transactions : Nat,
    execution_mode          : {"Client", "Runtime"} ]

DefaultMap ==
  [ changes                 |-> [k \in {} |-> <<>>],
    dirty_keys              |-> <<>>,
    num_client_transactions |-> 0,
    execution_mode          |-> "Client" ]

transaction_depth(m) == Len(m.dirty_keys)

has_open_runtime_transactions(m) == transaction_depth(m) > m.num_client_transactions

-----------------------------------------------------------------------------
(* Reading                                                                 *)

\* The versions of key k.
Versions(m, k) == IF k \in DOMAIN m.changes THEN m.changes[k] ELSE <<>>

\* The double Option of OverlayedChanges::storage: Unknown where the backend
\* has to be asked, None where the key is deleted.
get(m, k) ==
  IF k \in DOMAIN m.changes THEN m.changes[k][Len(m.changes[k])].value ELSE Unknown

-----------------------------------------------------------------------------
(* Writing                                                                 *)

\* What insert_dirty answers: whether the innermost open transaction writes
\* the key for the first time.
first_write_in_tx(m, k) ==
  transaction_depth(m) > 0 /\ k \notin m.dirty_keys[transaction_depth(m)]

\* dirty_keys after insert_dirty.
insert_dirty(m, K) ==
  IF transaction_depth(m) = 0 THEN m.dirty_keys
  ELSE [m.dirty_keys EXCEPT ![transaction_depth(m)] = @ \cup K]

\* The versions of an entry after OverlayedEntry::set.
entry_set(m, k, v, e) ==
  LET old   == Versions(m, k)
      known == IF e = None THEN {} ELSE {e}
  IN  IF first_write_in_tx(m, k) \/ old = <<>>
      THEN Append(old, [value |-> v, extrinsics |-> known])
      ELSE [old EXCEPT ![Len(old)] = [value |-> v, extrinsics |-> @.extrinsics \cup known]]

\* The keys of K are set to v: `set` for one key, or `clear_where` for the
\* keys that match.
set_all(m, K, v, e) ==
  [m EXCEPT !.changes    = [k \in DOMAIN @ \cup K |-> IF k \in K THEN entry_set(m, k, v, e)
                                                                ELSE @[k]],
            !.dirty_keys = insert_dirty(m, K)]

set(m, k, v, e) == set_all(m, {k}, v, e)

\* Only keys that the overlay holds are set to deleted.
clear_where(m, K, e) == set_all(m, K \cap DOMAIN m.changes, None, e)

\* Mutant: the value is modified in place, in the version of an outer transaction.
modify_in_place(m, k, init, e) ==
  IF Versions(m, k) = <<>> THEN set(m, k, init, e) ELSE m

\* `modify`: makes sure that the innermost transaction has a version of the
\* key to modify.  A version that is there already is left as it is, its
\* extrinsics included.
modify(m, k, init, e) ==
  IF Versions(m, k) = <<>> THEN set(m, k, init, e)
  ELSE IF first_write_in_tx(m, k) THEN set(m, k, get(m, k), e)
  ELSE m

\* A write through the reference that value_mut gives.
overwrite(m, k, v) == [m EXCEPT !.changes[k][Len(m.changes[k])].value = v]

-----------------------------------------------------------------------------
(* Transactions                                                            *)

start_transaction(m) == [m EXCEPT !.dirty_keys = Append(@, {})]

\* The transactions above the outermost d that wrote key k.
Above(m, k, d) == {i \in d + 1 .. transaction_depth(m) : k \in m.dirty_keys[i]}

\* close_transaction(true), repeated until d transactions are left: each one
\* pops a version of every key it wrote and removes the entries it empties.
rollback_to(m, d) ==
  LET left(k) == Len(m.changes[k]) - Cardinality(Above(m, k, d))
      kept    == {k \in DOMAIN m.changes : Above(m, k, d) = {} \/ left(k) > 0}
  IN  [m EXCEPT !.changes    = [k \in kept |-> SubSeq(m.changes[k], 1, left(k))],
                !.dirty_keys = SubSeq(@, 1, d)]

rollback_transaction(m) == rollback_to(m, transaction_depth(m) - 1)

\* Whether the version that is committed replaces another one.
has_predecessor(m, k) ==
  LET n == transaction_depth(m)
  IN  IF n > 1 THEN k \in m.dirty_keys[n - 1] ELSE Len(m.changes[k]) > 1

\* The last version replaces the one before it.
merged(vs) ==
  LET n == Len(vs)
  IN  Append(SubSeq(vs, 1, n - 2),
             [value |-> vs[n].value, extrinsics |-> vs[n - 1].extrinsics \cup vs[n].extrinsics])

\* Mutant: the keys of the committed transaction are not handed to the one around it.
commit_forget_dirty(m) ==
  LET n     == transaction_depth(m)
      dirty == m.dirty_keys[n]
  IN  [m EXCEPT
         !.changes    = [k \in DOMAIN m.changes |->
                           IF k \in dirty /\ has_predecessor(m, k) THEN merged(m.changes[k])
                                                                   ELSE m.changes[k]],
         !.dirty_keys = SubSeq(@, 1, n - 1)]

\* close_transaction(false).
commit_transaction(m) ==
  LET n     == transaction_depth(m)
      dirty == m.dirty_keys[n]
  IN  [m EXCEPT
         !.changes    = [k \in DOMAIN m.changes |->
                           IF k \in dirty /\ has_predecessor(m, k) THEN merged(m.changes[k])
                                                                   ELSE m.changes[k]],
         !.dirty_keys = [i \in 1 .. n - 1 |-> IF i = n - 1 THEN @[i] \cup dirty ELSE @[i]]]

\* close_transaction does not answer NoOpenTransaction.
can_close(m) ==
  /\ m.execution_mode = "Runtime" => has_open_runtime_transactions(m)
  /\ transaction_depth(m) > 0

\* A new map at the depth and in the mode of m.
spawn_child(m) ==
  [m EXCEPT !.changes    = [k \in {} |-> <<>>],
            !.dirty_keys = [i \in 1 .. Len(@) |-> {}]]

enter_runtime(m) ==
  [m EXCEPT !.execution_mode = "Runtime", !.num_client_transactions = transaction_depth(m)]

\* Mutant: the transactions the runtime left open stay open.
exit_runtime_leave(m) == [m EXCEPT !.execution_mode = "Client"]

\* What the runtime left open is rolled back.
exit_runtime(m) ==
  LET client == [m EXCEPT !.execution_mode = "Client"]
  IN  IF has_open_runtime_transactions(m)
      THEN rollback_to(client, m.num_client_transactions)
      ELSE client

-----------------------------------------------------------------------------
(* The versions of a key belong to the transactions that wrote it          *)

MapTypeOK(m) ==
  /\ DOMAIN m.changes \subseteq Key
  /\ m \in OverlayedMap(DOMAIN m.changes)

\* Every entry has a version for each open transaction that wrote it, and at
\* most one more, committed before all of them.
Aligned(m) ==
  /\ \A k \in DOMAIN m.changes :
       /\ m.changes[k] # <<>>
       /\ Len(m.changes[k]) - Cardinality(Above(m, k, 0)) \in {0, 1}
  /\ \A i \in 1 .. transaction_depth(m) : m.dirty_keys[i] \subseteq DOMAIN m.changes

\* What a reader saw of key k when the outermost d transactions were the open ones.
ValueAt(m, k, d) ==
  LET n == Len(Versions(m, k)) - Cardinality(Above(m, k, d))
  IN  IF n = 0 THEN Unknown ELSE Versions(m, k)[n].value
=============================================================================
