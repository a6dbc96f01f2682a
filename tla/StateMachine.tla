----------------------------- MODULE StateMachine -----------------------------
(***************************************************************************)
(* Calls into the runtime: RuntimeApiImpl (primitives/api/proc-macro/src/  *)
(* impl_runtime_apis.rs) opens the transactions of the client, StateMachine*)
(* (primitives/state-machine/src/lib.rs) chooses between the native and    *)
(* the wasm runtime and tries again where the strategy says so, and the    *)
(* runtime works on Ext (ext.rs), which reads through the overlay to the   *)
(* backend and caches the storage root together with the database          *)
(* transaction that belongs to it.                                         *)
(*                                                                         *)
(* What the runtime does is arbitrary: it may open transactions and never  *)
(* close them, close more than it opened, and fail at any point.           *)
(***************************************************************************)
EXTENDS OverlayedChanges, FiniteSetsExt

CONSTANTS
  Database,      \* the backend: what it holds at each storage location, or None
  Written,       \* the locations that the runtime writes one by one
  Limits,        \* limits that kill_child_storage is called with
  Strategies,    \* execution strategies in use
  NoTransaction, \* the cache is empty
  MaxSteps,      \* bound: what the runtime calls before the changes are taken
  MaxCalls       \* bound: calls into the runtime before the changes are taken

StorageLocations == ({"top"} \cup Child) \X Keys \cup {<<"top", EXTRINSIC_INDEX>>}

\* Keys are numbers, in the order of the backend, and there are finitely many.
ASSUME DatabaseAssumption ==
  /\ Key \subseteq Nat /\ IsFiniteSet(Key)
  /\ Database \in [StorageLocations -> StorageValue \cup {None}]
ASSUME WrittenAssumption == Written \subseteq Locations
ASSUME StepsAssumption == MaxSteps \in Nat /\ MaxCalls \in Nat
ASSUME StrategiesAssumption ==
  Strategies \subseteq {"NativeWhenPossible", "AlwaysWasm", "Both", "NativeElseWasm"}

VARIABLES
  cache,              \* StorageTransactionCache: the storage its root and transaction stand for
  commit_on_success,  \* RuntimeApiImpl::commit_on_success
  call,               \* the call into the runtime under way
  calls,              \* calls into the runtime so far
  steps,              \* what the runtime has called so far
  before,             \* history: what the overlay showed when the call began
  written             \* history: whether this execution has written or rolled back

machine == <<overlay, cache, commit_on_success, call, calls, steps, before, written>>

Idle == [running |-> FALSE, strategy |-> "AlwaysWasm", attempt |-> 0, native |-> FALSE]

-----------------------------------------------------------------------------
(* What the overlay shows, and what is under it                            *)

\* The change of location l that overlay o holds.
change_at(o, l) == IF l[1] = "top" THEN storage(o, l[2]) ELSE child_storage(o, l[1], l[2])

changes(o) == [l \in StorageLocations |-> change_at(o, l)]

\* Every change, those of the offchain index included.
shown(o) == <<changes(o), [k \in Keys |-> get(o.offchain, k)]>>

Nothing == shown(DefaultOverlay(CollectExtrinsics))

\* The backend with the changes applied.
applied(chg) == [l \in StorageLocations |-> IF chg[l] = Unknown THEN Database[l] ELSE chg[l]]

-----------------------------------------------------------------------------
(* Ext: what the runtime may call                                          *)

\* The runtime calls something that gives overlay o and cache c.
Step(o, c, w) ==
  /\ call.running
  /\ steps < MaxSteps
  /\ overlay' = o
  /\ cache' = c
  /\ written' = (written \/ w)
  /\ steps' = steps + 1
  /\ UNCHANGED <<commit_on_success, call, calls, before>>

\* mark_dirty resets the cache.
Write(o) == Step(o, NoTransaction, TRUE)

place_storage(k, v) == Write(set_storage(overlay, k, v))

place_child_storage(c, k, v) == Write(set_child_storage(overlay, c, k, v))

\* The overlay after set_child_storage(None) for each key of K.
delete_child_keys(o, c, K) ==
  IF K = {} THEN o ELSE with_child(o, c, set_all(child_or_spawn(o, c), K, None, extrinsic_index(o)))

\* The first n keys of child c in the backend.
first_child_keys(c, n) ==
  LET held == {k \in Keys : Database[<<c, k>>] # None}
  IN  {k \in held : Cardinality({j \in held : j < k}) < n}

\* The limit counts the keys of the backend only; `n` is at least their
\* number when there is no limit.
kill_child_storage(c, n) ==
  Write(delete_child_keys(clear_child_where(overlay, c, Keys), c, first_child_keys(c, n)))

ext_clear_prefix(K) ==
  LET cleared == clear_prefix(overlay, K)
      held    == {k \in K : Database[<<"top", k>>] # None}
  IN  Write([cleared EXCEPT !.top = set_all(@, held, None, extrinsic_index(cleared))])

ext_clear_child_prefix(c, K) ==
  Write(delete_child_keys(clear_child_where(overlay, c, K), c,
                          {k \in K : Database[<<c, k>>] # None}))

\* A key the backend does not hold is initialised with the empty vector.
storage_append(k, x) ==
  LET held == Database[<<"top", k>>]
      init == IF held = None THEN <<>> ELSE held
      v    == IF storage(overlay, k) = Unknown THEN init ELSE storage(overlay, k)
  IN  /\ v \notin Index \cup {None} => Len(v) < MaxItems
      /\ Write(append_storage(overlay, k, init, x))

ext_set_offchain_storage(k, v) == Step(set_offchain_storage(overlay, k, v), cache, FALSE)

\* A root that is cached is not computed again.
storage_root ==
  Step(overlay, IF cache = NoTransaction THEN applied(changes(overlay)) ELSE cache, FALSE)

storage_start_transaction ==
  depth(overlay) < MaxDepth /\ Step(overlay_start(overlay), cache, FALSE)

\* Mutant: the cache survives a rollback.
storage_rollback_keep_cache ==
  Step(IF can_close(overlay.top) THEN overlay_rollback(overlay) ELSE overlay, cache, TRUE)

\* The cache is reset even if there is nothing to roll back.
storage_rollback_transaction ==
  Write(IF can_close(overlay.top) THEN overlay_rollback(overlay) ELSE overlay)

storage_commit_transaction ==
  Step(IF can_close(overlay.top) THEN overlay_commit(overlay) ELSE overlay, cache, FALSE)

\* Mutant: after a deleted key of the overlay the backend is asked, and no longer the overlay.
next_storage_key_backend(o, l) ==
  LET held == {k \in Keys : Database[<<l, k>>] # None}
      chgd == {k \in Keys : change_at(o, <<l, k>>) # Unknown}
      later(S, k) == {j \in S : j > k}
      next[k \in Nat] ==
        LET b == later(held, k)
            c == later(chgd, k)
        IN  CASE c = {}                           -> IF b = {} THEN None ELSE Min(b)
              [] c # {} /\ b # {} /\ Min(b) < Min(c) -> Min(b)
              [] OTHER                            -> IF change_at(o, <<l, Min(c)>>) # None THEN Min(c)
                                                     ELSE IF later(held, Min(c)) = {} THEN None
                                                     ELSE Min(later(held, Min(c)))
  IN  [k \in {0} \cup Keys |-> next[k]]

\* next_storage_key and next_child_storage_key, for l the trie: the smaller
\* one of the next key of the backend and the next one of the overlay; a key
\* the overlay has deleted is passed over.
next_storage_key(o, l) ==
  LET held == {k \in Keys : Database[<<l, k>>] # None}
      chgd == {k \in Keys : change_at(o, <<l, k>>) # Unknown}
      next[k \in Nat] ==
        LET b == {j \in held : j > k}
            c == {j \in chgd : j > k}
        IN  CASE c = {}                           -> IF b = {} THEN None ELSE Min(b)
              [] c # {} /\ b # {} /\ Min(b) < Min(c) -> Min(b)
              [] OTHER                            -> IF change_at(o, <<l, Min(c)>>) # None
                                                     THEN Min(c) ELSE next[Min(c)]
  IN  [k \in {0} \cup Keys |-> next[k]]

Runtime ==
  \/ \E l \in Written, v \in Values \cup {None} :
       \/ l[1] = "top"      /\ place_storage(l[2], v)
       \/ l[1] = "offchain" /\ ext_set_offchain_storage(l[2], v)
       \/ l[1] \in Child    /\ place_child_storage(l[1], l[2], v)
  \/ \E l \in Written, x \in Item : l[1] = "top" /\ storage_append(l[2], x)
  \/ \E c \in Child, n \in Limits : kill_child_storage(c, n)
  \/ \E K \in SUBSET Keys \ {{}} :
       ext_clear_prefix(K) \/ \E c \in Child : ext_clear_child_prefix(c, K)
  \/ storage_root
  \/ storage_start_transaction \/ storage_rollback_transaction \/ storage_commit_transaction

-----------------------------------------------------------------------------
(* StateMachine: one execution of the runtime after another                *)

\* execute_aux up to the call of the executor, which takes the native
\* runtime if it is asked to and the versions are compatible.
Execute(o, strategy, attempt, native) ==
  /\ overlay' = overlay_enter(o)
  /\ call' = [running |-> TRUE, strategy |-> strategy, attempt |-> attempt, native |-> native]
  /\ written' = FALSE

\* Both execute_call_with_..._strategy functions open a transaction first.
in_own_transaction(strategy) == strategy \in {"Both", "NativeElseWasm"}

\* commit_or_rollback of RuntimeApiImpl.
commit_or_rollback(o, commit) ==
  CASE commit_on_success /\ commit  -> overlay_commit(o)
    [] commit_on_success /\ ~commit -> overlay_rollback(o)
    [] OTHER                        -> o

\* Mutant: a failed native execution is committed before the wasm one starts.
close_attempt_commit(o, ok) ==
  IF call.attempt = 1 /\ in_own_transaction(call.strategy) THEN overlay_commit(o) ELSE o

\* Whether the wasm runtime executes the call again: always after the native
\* one for Both, after it has failed for NativeElseWasm.
again(ok) ==
  /\ call.attempt = 1 /\ call.native
  /\ \/ call.strategy = "Both"
     \/ call.strategy = "NativeElseWasm" /\ ~ok

\* The transaction of the strategy is closed after the first execution.
close_attempt(o, ok) ==
  CASE call.attempt = 1 /\ in_own_transaction(call.strategy) /\ again(ok)  -> overlay_rollback(o)
    [] call.attempt = 1 /\ in_own_transaction(call.strategy) /\ ~again(ok) -> overlay_commit(o)
    [] OTHER                                                               -> o

\* The runtime returns to execute_aux, with a result or an error.  The
\* result of the wasm execution stands if the two disagree.
Return(ok) ==
  LET o == close_attempt(overlay_exit(overlay), ok)
  IN  /\ call.running
      /\ \/ again(ok) /\ Execute(o, call.strategy, 2, FALSE) /\ UNCHANGED before
         \/ /\ ~again(ok)
            /\ overlay' = commit_or_rollback(o, ok)
            /\ call' = Idle
            /\ before' = Nothing
            /\ written' = FALSE
      /\ UNCHANGED <<cache, commit_on_success, calls, steps>>

-----------------------------------------------------------------------------
(* RuntimeApiImpl: the client                                              *)

\* call_api_at, down to the first execution.
CallApi(strategy) ==
  /\ ~call.running
  /\ calls < MaxCalls
  /\ calls' = calls + 1
  /\ before' = shown(overlay)
  /\ LET opened == IF commit_on_success THEN overlay_start(overlay) ELSE overlay
         nested == IF in_own_transaction(strategy) THEN overlay_start(opened) ELSE opened
     IN  \E native \in {FALSE} \cup {strategy # "AlwaysWasm"} : Execute(nested, strategy, 1, native)
  /\ UNCHANGED <<cache, commit_on_success, steps>>

\* execute_in_transaction, before and after the calls of the closure.
OpenApiTransaction ==
  /\ ~call.running /\ commit_on_success
  /\ calls < MaxCalls
  /\ overlay' = overlay_start(overlay)
  /\ commit_on_success' = FALSE
  /\ UNCHANGED <<cache, call, calls, steps, before, written>>

CloseApiTransaction(commit) ==
  /\ ~call.running /\ ~commit_on_success
  /\ overlay' = IF commit THEN overlay_commit(overlay) ELSE overlay_rollback(overlay)
  /\ commit_on_success' = TRUE
  /\ UNCHANGED <<cache, call, calls, steps, before, written>>

\* drain_storage_changes takes the transaction of the cache, if there is one.
into_storage_changes ==
  /\ ~call.running /\ commit_on_success
  /\ calls > 0
  /\ overlay' = DefaultOverlay(CollectExtrinsics)
  /\ cache' = NoTransaction
  /\ calls' = 0
  /\ steps' = 0
  /\ UNCHANGED <<commit_on_success, call, before, written>>

MachineInit ==
  /\ overlay = DefaultOverlay(CollectExtrinsics)
  /\ cache = NoTransaction
  /\ commit_on_success = TRUE
  /\ call = Idle
  /\ calls = 0
  /\ steps = 0
  /\ before = Nothing
  /\ written = FALSE

MachineNext ==
  \/ Runtime
  \/ \E ok \in BOOLEAN : Return(ok)
  \/ \E strategy \in Strategies : CallApi(strategy)
  \/ OpenApiTransaction
  \/ \E commit \in BOOLEAN : CloseApiTransaction(commit)
  \/ into_storage_changes

MachineSpec == MachineInit /\ [][MachineNext]_machine

-----------------------------------------------------------------------------
(* Properties                                                              *)

\* The transactions that are open and not the runtime's own are those of the
\* api and of the strategy: every close in commit_or_rollback and in the
\* strategies finds the transaction it opened, so that neither proof ("We only
\* close a transaction when we opened one ourself", PROOF_CLOSE_TRANSACTION)
\* fails, whatever the runtime opened or tried to close.
TransactionsBalanced ==
  LET api == 1
      own == IF call.running /\ call.attempt = 1 /\ in_own_transaction(call.strategy) THEN 1 ELSE 0
      opened == (IF call.running \/ ~commit_on_success THEN api ELSE 0) + own
  IN  /\ overlay.top.execution_mode = (IF call.running THEN "Runtime" ELSE "Client")
      /\ call.running => overlay.top.num_client_transactions = opened
      /\ ~call.running => depth(overlay) = opened

\* The second execution starts from what the first one started from: nothing
\* the native runtime wrote, in any trie or in the offchain index, is seen by
\* the wasm runtime.
RetryStartsClean ==
  [][call.attempt = 1 /\ call'.attempt = 2 => shown(overlay') = before]_machine

\* A call that fails outside execute_in_transaction leaves no trace.
FailedCallLeavesNothing ==
  [][\A ok \in {FALSE} :
       Return(ok) /\ ~call'.running /\ commit_on_success => shown(overlay') = before]_machine

\* Once the runtime has written anything, the root that storage_root answers
\* is the root of what the runtime sees: no rollback, commit, clear or append
\* leaves an old root behind.
RootFresh ==
  call.running /\ written /\ cache # NoTransaction => cache = applied(changes(overlay))

\* Iterating over a trie gives the keys that reading them finds, in order and
\* without those that the overlay has deleted.
NextKeyExact ==
  \A l \in {"top"} \cup Child : \A k \in {0} \cup Keys :
    LET later == {j \in Keys : j > k /\ applied(changes(overlay))[<<l, j>>] # None}
    IN  next_storage_key(overlay, l)[k] = (IF later = {} THEN None ELSE Min(later))
=============================================================================
