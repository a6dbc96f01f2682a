--------------------------- MODULE OverlayedChanges ---------------------------
(***************************************************************************)
(* The changes of a runtime call that are not yet in the database:         *)
(* OverlayedChanges of                                                     *)
(* primitives/state-machine/src/overlayed_changes/mod.rs, with             *)
(* OffchainOverlayedChanges of offchain.rs.                                *)
(*                                                                         *)
(* The top trie, each child trie and the offchain index have a changeset   *)
(* of their own.  All of them must open and close their transactions       *)
(* together; a changeset of a child trie is created when the child is      *)
(* first written, which may be deep inside transactions.                   *)
(***************************************************************************)
EXTENDS Changeset

CONSTANTS
  Child,            \* storage keys of child tries
  EXTRINSIC_INDEX,  \* the key that holds the index of the current extrinsic
  CollectExtrinsics,\* whether the runtime has a changes trie
  MaxDepth          \* bound: nested transactions

ASSUME KeyAssumption == EXTRINSIC_INDEX \in Key
ASSUME ChildAssumption == {"top", "offchain"} \cap Child = {}
ASSUME DepthAssumption == MaxDepth \in Nat /\ CollectExtrinsics \in BOOLEAN

VARIABLE overlay

DefaultOverlay(collect) ==
  [ top                |-> DefaultMap,
    children           |-> [c \in {} |-> DefaultMap],
    offchain           |-> DefaultMap,
    collect_extrinsics |-> collect ]

depth(o) == transaction_depth(o.top)

-----------------------------------------------------------------------------
(* Reading                                                                 *)

storage(o, k) == get(o.top, k)

child_storage(o, c, k) == IF c \in DOMAIN o.children THEN get(o.children[c], k) ELSE Unknown

\* The index that a change is recorded under, None when none are collected.
extrinsic_index(o) ==
  LET v == storage(o, EXTRINSIC_INDEX)
  IN  CASE ~o.collect_extrinsics -> None
        [] o.collect_extrinsics /\ v \in Index -> v
        [] OTHER -> NO_EXTRINSIC_INDEX

-----------------------------------------------------------------------------
(* Writing                                                                 *)

set_storage(o, k, v) == [o EXCEPT !.top = set(@, k, v, extrinsic_index(o))]

clear_prefix(o, K) == [o EXCEPT !.top = clear_where(@, K, extrinsic_index(o))]

\* What appending an item makes of a value: anything that is not an encoded
\* vector is replaced by the vector of that item.
storage_append_value(v, x) == IF v \in Index THEN <<x>> ELSE Append(v, x)

\* value_mut_or_insert_with, and the append through the reference it gives;
\* a deleted value is initialised with the empty vector.
append_storage(o, k, init, x) ==
  LET m == modify(o.top, k, init, extrinsic_index(o))
      v == IF get(m, k) = None THEN <<>> ELSE get(m, k)
  IN  [o EXCEPT !.top = overwrite(m, k, storage_append_value(v, x))]

\* Mutant: the changeset of a new child trie starts without transactions.
child_or_spawn_default(o, c) ==
  IF c \in DOMAIN o.children THEN o.children[c] ELSE DefaultMap

\* The changeset of child c, created if there is none.
child_or_spawn(o, c) ==
  IF c \in DOMAIN o.children THEN o.children[c] ELSE spawn_child(o.top)

with_child(o, c, m) ==
  [o EXCEPT !.children = [x \in DOMAIN @ \cup {c} |-> IF x = c THEN m ELSE @[x]]]

set_child_storage(o, c, k, v) ==
  with_child(o, c, set(child_or_spawn(o, c), k, v, extrinsic_index(o)))

\* clear_child_storage (with every key) and clear_child_prefix.
clear_child_where(o, c, K) ==
  with_child(o, c, clear_where(child_or_spawn(o, c), K, extrinsic_index(o)))

set_offchain_storage(o, k, v) == [o EXCEPT !.offchain = set(@, k, v, None)]

-----------------------------------------------------------------------------
(* Transactions, in lockstep                                               *)

overlay_start(o) ==
  [o EXCEPT !.top      = start_transaction(@),
            !.children = [c \in DOMAIN @ |-> start_transaction(@[c])],
            !.offchain = start_transaction(@)]

\* A child without changes is removed.
overlay_rollback(o) ==
  LET back(c) == rollback_transaction(o.children[c])
      kept    == {c \in DOMAIN o.children : DOMAIN back(c).changes # {}}
  IN  [o EXCEPT !.top      = rollback_transaction(@),
                !.children = [c \in kept |-> back(c)],
                !.offchain = rollback_transaction(@)]

overlay_commit(o) ==
  [o EXCEPT !.top      = commit_transaction(@),
            !.children = [c \in DOMAIN @ |-> commit_transaction(@[c])],
            !.offchain = commit_transaction(@)]

overlay_enter(o) ==
  [o EXCEPT !.top      = enter_runtime(@),
            !.children = [c \in DOMAIN @ |-> enter_runtime(@[c])],
            !.offchain = enter_runtime(@)]

\* Here no child is removed, whatever is left of it.
overlay_exit(o) ==
  [o EXCEPT !.top      = exit_runtime(@),
            !.children = [c \in DOMAIN @ |-> exit_runtime(@[c])],
            !.offchain = exit_runtime(@)]

\* drain_committed and offchain_drain_committed take the changesets and leave
\* default ones.
overlay_drain(o) == DefaultOverlay(o.collect_extrinsics)

-----------------------------------------------------------------------------
(* One step for each call                                                  *)

\* The values that are written, and the keys they are written to.
Values == {<<x>> : x \in Item}

Keys == Key \ {EXTRINSIC_INDEX}

ValuesOf(k) == IF k = EXTRINSIC_INDEX THEN Index ELSE Values

\* The runtime sets the index before an extrinsic and removes it after the last one.
SetStorage(k, v) ==
  /\ k = EXTRINSIC_INDEX /\ v = None => storage(overlay, EXTRINSIC_INDEX) \in Index
  /\ overlay' = set_storage(overlay, k, v)

ClearPrefix(K) == overlay' = clear_prefix(overlay, K)

\* `init` is what the database holds of the key.
AppendStorage(k, init, x) ==
  /\ LET v == IF storage(overlay, k) = Unknown THEN init ELSE storage(overlay, k)
     IN  v \notin Index \cup {None} => Len(v) < MaxItems
  /\ overlay' = append_storage(overlay, k, init, x)

SetChildStorage(c, k, v) == overlay' = set_child_storage(overlay, c, k, v)

ClearChild(c, K) == overlay' = clear_child_where(overlay, c, K)

SetOffchainStorage(k, v) == overlay' = set_offchain_storage(overlay, k, v)

StartTransaction == depth(overlay) < MaxDepth /\ overlay' = overlay_start(overlay)

RollbackTransaction == can_close(overlay.top) /\ overlay' = overlay_rollback(overlay)

CommitTransaction == can_close(overlay.top) /\ overlay' = overlay_commit(overlay)

EnterRuntime == overlay.top.execution_mode = "Client" /\ overlay' = overlay_enter(overlay)

ExitRuntime == overlay.top.execution_mode = "Runtime" /\ overlay' = overlay_exit(overlay)

DrainStorageChanges == depth(overlay) = 0 /\ overlay' = overlay_drain(overlay)

Init == overlay = DefaultOverlay(CollectExtrinsics)

Next ==
  \/ \E k \in Key : \E v \in ValuesOf(k) \cup {None} : SetStorage(k, v)
  \/ \E k \in Keys :
       \/ \E v \in Values \cup {None} :
            SetOffchainStorage(k, v) \/ \E c \in Child : SetChildStorage(c, k, v)
       \/ \E init \in Values \cup {<<>>}, x \in Item : AppendStorage(k, init, x)
  \/ \E K \in SUBSET Keys :
       ClearPrefix(K) \/ \E c \in Child : ClearChild(c, K)
  \/ StartTransaction \/ RollbackTransaction \/ CommitTransaction
  \/ EnterRuntime \/ ExitRuntime \/ DrainStorageChanges

Spec == Init /\ [][Next]_overlay

-----------------------------------------------------------------------------
(* Properties                                                              *)

Maps == {overlay.top, overlay.offchain} \cup {overlay.children[c] : c \in DOMAIN overlay.children}

\* An overlay, with its changesets well formed.
TypeOK ==
  /\ overlay = [top                |-> overlay.top,
                children           |-> [c \in DOMAIN overlay.children |-> overlay.children[c]],
                offchain           |-> overlay.offchain,
                collect_extrinsics |-> CollectExtrinsics]
  /\ DOMAIN overlay.children \subseteq Child
  /\ \A m \in Maps : MapTypeOK(m)

\* The versions of every key belong to the transactions that wrote it, so
\* that none of the `expect`s on PROOF_OVERLAY_NON_EMPTY fails, nor the one
\* on the keys of a dirty set in close_transaction.
VersionsAligned == \A m \in Maps : Aligned(m)

\* The top, child and offchain changesets are always at the same depth, in
\* the same mode and protect the same transactions: the `expect`s "started in
\* lockstep" hold although children come and go.
Lockstep ==
  \A m \in Maps :
    /\ transaction_depth(m) = depth(overlay)
    /\ m.execution_mode = overlay.top.execution_mode
    /\ m.num_client_transactions = overlay.top.num_client_transactions

Locations == ({"top", "offchain"} \cup Child) \X Keys \cup {<<"top", EXTRINSIC_INDEX>>}

\* What overlay o shows of a location with its outermost d transactions open.
Seen(o, l, d) ==
  CASE l[1] = "top"      -> ValueAt(o.top, l[2], d)
    [] l[1] = "offchain" -> ValueAt(o.offchain, l[2], d)
    [] OTHER             -> IF l[1] \in DOMAIN o.children
                            THEN ValueAt(o.children[l[1]], l[2], d)
                            ELSE Unknown

Levels(o) == [i \in 1 .. depth(o) + 1 |-> [l \in Locations |-> Seen(o, l, i - 1)]]

Stack == INSTANCE TransactionStack WITH
  Location   <- Locations,
  Content    <- StorageValue \cup {None},
  Untouched  <- Unknown,
  levels     <- Levels(overlay),
  protected  <- overlay.top.num_client_transactions,
  in_runtime <- overlay.top.execution_mode = "Runtime"

\* The overlay behaves as a stack of complete views: a rollback gives back
\* exactly what was seen when the transaction began, in every trie, a commit
\* hands all of it to the transaction around it, the runtime closes none of
\* the transactions of the client, and what it leaves open is rolled back: as
\* the code, its warning and its test say, against the doc of exit_runtime.
ImplementsStack == Stack!StackSpec
=============================================================================
