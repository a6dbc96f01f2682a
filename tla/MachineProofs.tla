---------------------------- MODULE MachineProofs ----------------------------
(***************************************************************************)
(* Proofs about StateMachine, for every runtime, strategy and database:    *)
(* the transactions of the client stay balanced, a second execution and a  *)
(* failed call leave nothing behind, the cached root is never stale, and   *)
(* iterating over a trie gives the keys that reading them finds.           *)
(*                                                                         *)
(* Everything follows from what the overlay shows with its outermost       *)
(* transactions open: the runtime reaches no view below its own.           *)
(***************************************************************************)
EXTENDS StateMachine, OverlayProofs, WellFoundedInduction

-----------------------------------------------------------------------------
(* What an overlay shows                                                   *)

\* What overlay o shows, in the form of `before`, with d transactions open.
ShownAt(o, d) ==
  <<[l \in StorageLocations |-> Seen(o, l, d)], [k \in Keys |-> Seen(o, <<"offchain", k>>, d)]>>

\* Every storage location is a location, and so is every key of the offchain
\* index.
LEMMA LocationsHold ==
  /\ StorageLocations \subseteq Locations
  /\ \A k \in Keys : <<"offchain", k>> \in Locations
  /\ \A l \in Locations : l = <<l[1], l[2]>> /\ l[2] \in Key
  /\ \A l \in Locations : l[1] # "top" => l[2] \in Keys
  /\ \A l \in StorageLocations : l[1] \in {"top"} \cup Child
  /\ \A l \in Locations : l[1] \in {"top"} \cup Child => l \in StorageLocations
BY KeyAssumption DEF StorageLocations, Locations, Keys

\* What is read is what is seen with all transactions open.
LEMMA ReadIsSeen ==
  ASSUME NEW o, OverlayOK(o)
  PROVE  /\ \A l \in StorageLocations : change_at(o, l) = Seen(o, l, depth(o))
         /\ \A k \in Keys : get(o.offchain, k) = Seen(o, <<"offchain", k>>, depth(o))
<1>1. /\ MapOK(o.top) /\ InStep(o.offchain, o.top) /\ depth(o) = transaction_depth(o.top)
      /\ \A c \in DOMAIN o.children : InStep(o.children[c], o.top)
  BY OverlayFields
<1>2. ASSUME NEW l \in StorageLocations
      PROVE  change_at(o, l) = Seen(o, l, depth(o))
  <2>1. l \in Locations /\ l[2] \in Key /\ l[1] \in {"top"} \cup Child
    BY LocationsHold
  <2>2. CASE l[1] = "top"
    <3>1. change_at(o, l) = get(o.top, l[2])
      BY <2>2 DEF change_at, storage
    <3>2. get(o.top, l[2]) = ValueAt(o.top, l[2], depth(o))
      BY <1>1, <2>1, GetIs
    <3> QED BY <3>1, <3>2, <2>1, <2>2, SeenIs
  <2>3. CASE l[1] # "top"
    <3>1. l[1] \in Child
      BY <2>1, <2>3
    <3>2. change_at(o, l) = IF l[1] \in DOMAIN o.children THEN get(o.children[l[1]], l[2]) ELSE Unknown
      BY <2>3 DEF change_at, child_storage
    <3>3. CASE l[1] \in DOMAIN o.children
      <4>1. MapOK(o.children[l[1]]) /\ transaction_depth(o.children[l[1]]) = depth(o)
        BY <1>1, <3>3 DEF InStep
      <4>2. get(o.children[l[1]], l[2]) = ValueAt(o.children[l[1]], l[2], depth(o))
        BY <2>1, <4>1, GetIs
      <4> QED BY <2>1, <3>1, <3>2, <3>3, <4>2, SeenIs
    <3>4. CASE l[1] \notin DOMAIN o.children
      BY <2>1, <3>1, <3>2, <3>4, SeenIs
    <3> QED BY <3>3, <3>4
  <2> QED BY <2>2, <2>3
<1>3. ASSUME NEW k \in Keys
      PROVE  get(o.offchain, k) = Seen(o, <<"offchain", k>>, depth(o))
  <2>1. k \in Key /\ <<"offchain", k>> \in Locations
    BY LocationsHold DEF Keys
  <2>2. MapOK(o.offchain) /\ transaction_depth(o.offchain) = depth(o)
    BY <1>1 DEF InStep
  <2>3. get(o.offchain, k) = ValueAt(o.offchain, k, depth(o))
    BY <2>1, <2>2, GetIs
  <2>4. <<"offchain", k>>[1] = "offchain" /\ <<"offchain", k>>[2] = k
    OBVIOUS
  <2>5. Seen(o, <<"offchain", k>>, depth(o)) = ValueAt(o.offchain, k, depth(o))
    <3> DEFINE l == <<"offchain", k>>
    <3>1. l \in Locations /\ l[1] = "offchain" /\ l[2] = k
      BY <2>1
    <3> HIDE DEF l
    <3>2. Seen(o, l, depth(o)) = ValueAt(o.offchain, l[2], depth(o))
      BY <3>1, SeenIs
    <3> QED BY <3>1, <3>2 DEF l
  <2> QED BY <2>3, <2>5
<1> QED BY <1>2, <1>3

\* So is all that the client compares.
LEMMA ShownIs ==
  ASSUME NEW o, OverlayOK(o)
  PROVE  /\ shown(o) = ShownAt(o, depth(o))
         /\ changes(o) = [l \in StorageLocations |-> Seen(o, l, depth(o))]
<1>1. changes(o) = [l \in StorageLocations |-> Seen(o, l, depth(o))]
  BY ReadIsSeen DEF changes
<1>2. [k \in Keys |-> get(o.offchain, k)] = [k \in Keys |-> Seen(o, <<"offchain", k>>, depth(o))]
  BY ReadIsSeen
<1> QED BY <1>1, <1>2 DEF shown, ShownAt

\* Views that agree everywhere are equal.
LEMMA ShownSame ==
  ASSUME NEW o, NEW p, NEW d, NEW e, \A l \in Locations : Seen(p, l, e) = Seen(o, l, d)
  PROVE  /\ ShownAt(p, e) = ShownAt(o, d)
         /\ [l \in StorageLocations |-> Seen(p, l, e)] = [l \in StorageLocations |-> Seen(o, l, d)]
BY LocationsHold DEF ShownAt

-----------------------------------------------------------------------------
(* What the runtime does to the overlay                                    *)

\* The overlay of a runtime call after some of its steps: the views below the
\* transactions of the client are as they were.
RuntimeStep(o, p) ==
  /\ OverlayOK(p)
  /\ p.top.execution_mode = o.top.execution_mode
  /\ p.top.num_client_transactions = o.top.num_client_transactions
  /\ \A l \in Locations, d \in 0 .. o.top.num_client_transactions - 1 : Seen(p, l, d) = Seen(o, l, d)

\* The overlay of a runtime call.
InRuntime(o) == OverlayOK(o) /\ o.top.execution_mode = "Runtime"

\* Steps come one after the other.
LEMMA RuntimeSteps ==
  ASSUME NEW o, NEW p, NEW q, InRuntime(o)
  PROVE  /\ RuntimeStep(o, o)
         /\ RuntimeStep(o, p) => InRuntime(p)
         /\ RuntimeStep(o, p) /\ RuntimeStep(p, q) => RuntimeStep(o, q)
<1>1. RuntimeStep(o, o)
  BY DEF RuntimeStep, InRuntime
<1>2. RuntimeStep(o, p) => InRuntime(p)
  BY DEF RuntimeStep, InRuntime
<1>3. RuntimeStep(o, p) /\ RuntimeStep(p, q) => RuntimeStep(o, q)
  BY DEF RuntimeStep
<1> QED BY <1>1, <1>2, <1>3

\* The runtime has at least the transactions of the client open.
LEMMA RuntimeDepth ==
  ASSUME NEW o, InRuntime(o)
  PROVE  /\ depth(o) \in Nat /\ o.top.num_client_transactions \in Nat
         /\ o.top.num_client_transactions <= depth(o)
         /\ \A d \in 0 .. o.top.num_client_transactions - 1 : d \in 0 .. depth(o) /\ d # depth(o)
<1>1. /\ depth(o) \in Nat /\ o.top.num_client_transactions \in Nat
      /\ o.top.num_client_transactions <= depth(o)
  BY OverlayFields DEF InRuntime, OverlayOK, Protected
<1> QED BY <1>1

\* A write.
LEMMA WroteStep ==
  ASSUME NEW o, InRuntime(o), NEW p, NEW v, Wrote(o, p, v)
  PROVE  RuntimeStep(o, p)
<1>1. \A d \in 0 .. o.top.num_client_transactions - 1 : d \in 0 .. depth(o) /\ d # depth(o)
  BY RuntimeDepth
<1>2. \A l \in Locations, d \in 0 .. o.top.num_client_transactions - 1 : Seen(p, l, d) = Seen(o, l, d)
  BY <1>1 DEF Wrote
<1> QED BY <1>2 DEF Wrote, RuntimeStep

\* A write to the top trie.
LEMMA TopStep ==
  ASSUME NEW o, InRuntime(o), NEW v, NEW t, MapWrite(o.top, t, v)
  PROVE  RuntimeStep(o, [o EXCEPT !.top = t])
<1> DEFINE p == [o EXCEPT !.top = t]
<1>1. OverlayOK(o)
  BY DEF InRuntime
<1>2. Wrote(o, p, v)
  BY <1>1, Replaced
<1> HIDE DEF p
<1>3. RuntimeStep(o, p)
  BY <1>2, WroteStep
<1> QED BY <1>3 DEF p

\* A write to the offchain index.
LEMMA OffchainStep ==
  ASSUME NEW o, InRuntime(o), NEW v, NEW t, MapWrite(o.offchain, t, v)
  PROVE  RuntimeStep(o, [o EXCEPT !.offchain = t])
<1> DEFINE p == [o EXCEPT !.offchain = t]
<1>1. OverlayOK(o)
  BY DEF InRuntime
<1>2. Wrote(o, p, v)
  BY <1>1, Replaced
<1> HIDE DEF p
<1>3. RuntimeStep(o, p)
  BY <1>2, WroteStep
<1> QED BY <1>3 DEF p

\* A write to a child trie, which the write may create.
LEMMA ChildStep ==
  ASSUME NEW o, InRuntime(o), NEW v, NEW c \in Child, NEW t, MapWrite(child_or_spawn(o, c), t, v)
  PROVE  RuntimeStep(o, with_child(o, c, t))
<1> DEFINE p == with_child(o, c, t)
<1>1. OverlayOK(o)
  BY DEF InRuntime
<1>2. Wrote(o, p, v)
  BY <1>1, WriteChild
<1> HIDE DEF p
<1>3. RuntimeStep(o, p)
  BY <1>2, WroteStep
<1> QED BY <1>3 DEF p

\* place_storage, place_child_storage and ext_set_offchain_storage.
LEMMA SetStep ==
  ASSUME NEW o, InRuntime(o), NEW k \in Key, NEW v \in Value
  PROVE  /\ RuntimeStep(o, set_storage(o, k, v))
         /\ \A c \in Child : RuntimeStep(o, set_child_storage(o, c, k, v))
         /\ RuntimeStep(o, set_offchain_storage(o, k, v))
<1> DEFINE e == extrinsic_index(o)
<1>1. /\ e \in Extrinsic \cup {None} /\ MapOK(o.top) /\ MapOK(o.offchain)
      /\ \A c : MapOK(child_or_spawn(o, c))
  BY IndexType, OverlayFields, ChildMap DEF InRuntime, InStep
<1>e. e = extrinsic_index(o) /\ None \in Extrinsic \cup {None}
  OBVIOUS
<1> HIDE DEF e
<1>2. RuntimeStep(o, set_storage(o, k, v))
  <2> DEFINE t == set(o.top, k, v, e)
  <2>1. MapWrite(o.top, t, v)
    BY <1>1, SetWrites
  <2>2. set_storage(o, k, v) = [o EXCEPT !.top = t]
    BY <1>e DEF set_storage
  <2> HIDE DEF t
  <2> QED BY <2>1, <2>2, TopStep
<1>3. ASSUME NEW c \in Child PROVE RuntimeStep(o, set_child_storage(o, c, k, v))
  <2> DEFINE b == child_or_spawn(o, c)
             t == set(b, k, v, e)
  <2>1. MapWrite(b, t, v)
    <3>1. MapOK(b)
      BY <1>1
    <3> HIDE DEF b
    <3> QED BY <1>1, <3>1, SetWrites
  <2>2. set_child_storage(o, c, k, v) = with_child(o, c, t)
    BY <1>e DEF set_child_storage
  <2> HIDE DEF t
  <2> QED BY <2>1, <2>2, ChildStep
<1>4. RuntimeStep(o, set_offchain_storage(o, k, v))
  <2> DEFINE t == set(o.offchain, k, v, None)
  <2>1. MapWrite(o.offchain, t, v)
    BY <1>1, <1>e, SetWrites
  <2>2. set_offchain_storage(o, k, v) = [o EXCEPT !.offchain = t]
    BY DEF set_offchain_storage
  <2> HIDE DEF t
  <2> QED BY <2>1, <2>2, OffchainStep
<1> QED BY <1>2, <1>3, <1>4

\* kill_child_storage and ext_clear_child_prefix: what the overlay holds of
\* the child is cleared, then what the backend holds is deleted.
LEMMA DeleteChildStep ==
  ASSUME NEW o, InRuntime(o), NEW c \in Child, NEW J \in SUBSET Key, NEW K \in SUBSET Key
  PROVE  RuntimeStep(o, delete_child_keys(clear_child_where(o, c, J), c, K))
<1> DEFINE e == extrinsic_index(o)
           b == child_or_spawn(o, c)
           t == clear_where(b, J, e)
           p == with_child(o, c, t)
<1>1. e \in Extrinsic \cup {None} /\ MapOK(b)
  BY IndexType, ChildMap DEF InRuntime
<1>2. clear_child_where(o, c, J) = p
  BY DEF clear_child_where
<1>3. MapWrite(b, t, None)
  <2> HIDE DEF b, e
  <2> QED BY <1>1, SetWrites
<1>4. RuntimeStep(o, p)
  <2> HIDE DEF t
  <2> QED BY <1>3, ChildStep
<1> HIDE DEF p
<1>5. InRuntime(p)
  BY <1>4, RuntimeSteps
<1> DEFINE f == extrinsic_index(p)
           g == child_or_spawn(p, c)
           u == set_all(g, K, None, f)
<1>6. RuntimeStep(p, delete_child_keys(p, c, K))
  <2>1. CASE K = {}
    BY <1>5, <2>1, RuntimeSteps DEF delete_child_keys
  <2>2. CASE K # {}
    <3>1. f \in Extrinsic \cup {None} /\ MapOK(g) /\ None \in Value
      BY <1>5, IndexType, ChildMap DEF InRuntime, Value
    <3>2. MapWrite(g, u, None)
      <4> HIDE DEF f, g
      <4> QED BY <3>1, SetWrites
    <3>3. delete_child_keys(p, c, K) = with_child(p, c, u)
      BY <2>2 DEF delete_child_keys
    <3> HIDE DEF u
    <3> QED BY <1>5, <3>2, <3>3, ChildStep
  <2> QED BY <2>1, <2>2
<1> QED BY <1>2, <1>4, <1>6, RuntimeSteps

\* ext_clear_prefix, in the same order.
LEMMA ClearStep ==
  ASSUME NEW o, InRuntime(o), NEW J \in SUBSET Key, NEW K \in SUBSET Key, NEW p, p = clear_prefix(o, J)
  PROVE  RuntimeStep(o, [p EXCEPT !.top = set_all(p.top, K, None, extrinsic_index(p))])
<1> DEFINE e == extrinsic_index(o)
           t == clear_where(o.top, J, e)
<1>1. e \in Extrinsic \cup {None} /\ MapOK(o.top)
  BY IndexType, OverlayFields DEF InRuntime
<1>2. p = [o EXCEPT !.top = t]
  BY DEF clear_prefix
<1>3. MapWrite(o.top, t, None)
  <2> HIDE DEF e
  <2> QED BY <1>1, SetWrites
<1>4. RuntimeStep(o, p)
  <2> HIDE DEF t
  <2> QED BY <1>2, <1>3, TopStep
<1>5. InRuntime(p)
  BY <1>4, RuntimeSteps
<1> DEFINE f == extrinsic_index(p)
           u == set_all(p.top, K, None, f)
<1>6. f \in Extrinsic \cup {None} /\ MapOK(p.top) /\ None \in Value
  BY <1>5, IndexType, OverlayFields DEF InRuntime, Value
<1>7. MapWrite(p.top, u, None)
  <2> HIDE DEF f
  <2> QED BY <1>6, SetWrites
<1>8. RuntimeStep(p, [p EXCEPT !.top = u])
  <2> HIDE DEF u
  <2> QED BY <1>5, <1>7, TopStep
<1> QED BY <1>4, <1>8, RuntimeSteps

\* Transactions that the runtime starts, rolls back and commits: it closes
\* none of the client's.
LEMMA TransactionStep ==
  ASSUME NEW o, InRuntime(o)
  PROVE  /\ RuntimeStep(o, overlay_start(o))
         /\ can_close(o.top) => RuntimeStep(o, overlay_rollback(o))
         /\ can_close(o.top) => RuntimeStep(o, overlay_commit(o))
<1> DEFINE n == depth(o)
           c == o.top.num_client_transactions
<1>0. OverlayOK(o) /\ o.top.execution_mode = "Runtime"
  BY DEF InRuntime
<1>1. n \in Nat /\ c \in Nat /\ c <= n
  BY RuntimeDepth
<1>2. can_close(o.top) => c < n
  <2>1. n = transaction_depth(o.top)
    BY DEF depth
  <2> QED BY <1>0, <1>1, <2>1 DEF can_close, has_open_runtime_transactions
<1>3. ASSUME NEW p, NEW x, OverlayStep(o, p, x), depth(p) \in Nat, c <= depth(p),
             p.top.num_client_transactions = c, p.top.execution_mode = o.top.execution_mode
      PROVE  RuntimeStep(o, p)
  <2>1. \A d \in 0 .. c - 1 : d \in 0 .. depth(p) /\ d # depth(p)
    BY <1>1, <1>3
  <2>2. \A l \in Locations, d \in 0 .. c - 1 : Seen(p, l, d) = Seen(o, l, d)
    BY <1>3, <2>1 DEF OverlayStep
  <2> QED BY <1>3, <2>2 DEF RuntimeStep, OverlayStep
<1> HIDE DEF n, c
<1>4. RuntimeStep(o, overlay_start(o))
  <2> DEFINE p == overlay_start(o)
  <2>0. p = overlay_start(o)
    OBVIOUS
  <2> HIDE DEF p
  <2>1. /\ OverlayStep(o, p, n) /\ depth(p) = n + 1
        /\ p.top.num_client_transactions = c /\ p.top.execution_mode = o.top.execution_mode
    BY <1>0, <2>0, StartAll DEF n, c
  <2>2. depth(p) \in Nat /\ c <= depth(p)
    BY <1>1, <2>1
  <2>3. RuntimeStep(o, p)
    BY <1>3, <2>1, <2>2
  <2> QED BY <2>0, <2>3
<1>5. ASSUME can_close(o.top) PROVE RuntimeStep(o, overlay_rollback(o))
  <2> DEFINE p == overlay_rollback(o)
  <2>0. p = overlay_rollback(o)
    OBVIOUS
  <2> HIDE DEF p
  <2>1. /\ OverlayStep(o, p, n - 1) /\ depth(p) = n - 1
        /\ p.top.num_client_transactions = c /\ p.top.execution_mode = o.top.execution_mode
    BY <1>0, <1>5, <2>0, RollbackAll DEF n, c
  <2>2. depth(p) \in Nat /\ c <= depth(p)
    BY <1>1, <1>2, <1>5, <2>1
  <2>3. RuntimeStep(o, p)
    BY <1>3, <2>1, <2>2
  <2> QED BY <2>0, <2>3
<1>6. ASSUME can_close(o.top) PROVE RuntimeStep(o, overlay_commit(o))
  <2> DEFINE p == overlay_commit(o)
  <2>0. p = overlay_commit(o)
    OBVIOUS
  <2> HIDE DEF p
  <2>1. /\ OverlayStep(o, p, n) /\ depth(p) = n - 1
        /\ p.top.num_client_transactions = c /\ p.top.execution_mode = o.top.execution_mode
    BY <1>0, <1>6, <2>0, CommitAll DEF n, c
  <2>2. depth(p) \in Nat /\ c <= depth(p)
    BY <1>1, <1>2, <1>6, <2>1
  <2>3. RuntimeStep(o, p)
    BY <1>3, <2>1, <2>2
  <2> QED BY <2>0, <2>3
<1> QED BY <1>4, <1>5, <1>6

\* Starting and committing a transaction change nothing that is read.
LEMMA SameChanges ==
  ASSUME NEW o, OverlayOK(o)
  PROVE  /\ changes(overlay_start(o)) = changes(o)
         /\ can_close(o.top) => changes(overlay_commit(o)) = changes(o)
<1>1. ASSUME NEW p, OverlayStep(o, p, depth(o)) PROVE changes(p) = changes(o)
  <2>1. OverlayOK(p)
    BY <1>1 DEF OverlayStep
  <2>a. depth(p) \in Nat
    BY <2>1, OverlayFields
  <2>2. depth(p) \in 0 .. depth(p)
    BY <2>a
  <2>3. \A l \in Locations : Seen(p, l, depth(p)) = Seen(o, l, depth(o))
    BY <1>1, <2>2 DEF OverlayStep
  <2>4. [l \in StorageLocations |-> Seen(p, l, depth(p))] = [l \in StorageLocations |-> Seen(o, l, depth(o))]
    BY <2>3, ShownSame
  <2> QED BY <2>1, <2>4, ShownIs
<1>2. OverlayStep(o, overlay_start(o), depth(o))
  BY StartAll
<1>3. can_close(o.top) => OverlayStep(o, overlay_commit(o), depth(o))
  BY CommitAll
<1> QED BY <1>1, <1>2, <1>3

\* So does a write to the offchain index, which is no part of the storage.
LEMMA OffchainSame ==
  ASSUME NEW o, OverlayOK(o), NEW k, NEW v
  PROVE  changes(set_offchain_storage(o, k, v)) = changes(o)
<1> DEFINE p == set_offchain_storage(o, k, v)
           t == set(o.offchain, k, v, None)
<1>1. p = [o EXCEPT !.offchain = t]
  BY DEF set_offchain_storage
<1> HIDE DEF t
<1>2. o = [top                |-> o.top,
           children           |-> o.children,
           offchain           |-> o.offchain,
           collect_extrinsics |-> o.collect_extrinsics]
  BY OverlayFields
<1>3. p.top = o.top /\ p.children = o.children
  BY <1>1, <1>2
<1> HIDE DEF p
<1>4. \A l \in StorageLocations : change_at(p, l) = change_at(o, l)
  BY <1>3 DEF change_at, storage, child_storage
<1>5. changes(p) = changes(o)
  BY <1>4 DEF changes
<1> QED BY <1>5 DEF p

-----------------------------------------------------------------------------
(* What the client does to the overlay                                     *)

\* An overlay between two executions of the runtime, with n transactions open.
InClient(o, n) == OverlayOK(o) /\ o.top.execution_mode = "Client" /\ depth(o) = n

\* The views with fewer than n transactions open are the same.
SameBelow(o, p, n) == \A d \in 0 .. n - 1 : ShownAt(p, d) = ShownAt(o, d)

\* A step of all changesets keeps the views below the one it replaces.
LEMMA StepShows ==
  ASSUME NEW o, NEW x, NEW p, OverlayStep(o, p, x), NEW n \in Nat, depth(p) = n
  PROVE  /\ SameBelow(o, p, n)
         /\ ShownAt(p, n) = ShownAt(o, x)
<1>1. ASSUME NEW d \in 0 .. n - 1 PROVE ShownAt(p, d) = ShownAt(o, d)
  <2>1. d \in 0 .. depth(p) /\ d # depth(p)
    OBVIOUS
  <2>2. \A l \in Locations : Seen(p, l, d) = Seen(o, l, d)
    BY <2>1 DEF OverlayStep
  <2> QED BY <2>2, ShownSame
<1>2. n \in 0 .. depth(p)
  OBVIOUS
<1>3. \A l \in Locations : Seen(p, l, n) = Seen(o, l, x)
  BY <1>2 DEF OverlayStep
<1> QED BY <1>1, <1>3, ShownSame DEF SameBelow

\* The client starts a transaction.
LEMMA ClientStart ==
  ASSUME NEW n \in Nat, NEW o, InClient(o, n)
  PROVE  /\ InClient(overlay_start(o), n + 1)
         /\ SameBelow(o, overlay_start(o), n + 1)
         /\ ShownAt(overlay_start(o), n + 1) = ShownAt(o, n)
<1> DEFINE p == overlay_start(o)
<1>0. p = overlay_start(o) /\ n + 1 \in Nat
  OBVIOUS
<1> HIDE DEF p
<1>1. /\ OverlayStep(o, p, n) /\ depth(p) = n + 1
      /\ p.top.execution_mode = "Client"
  BY <1>0, StartAll DEF InClient
<1>2. SameBelow(o, p, n + 1) /\ ShownAt(p, n + 1) = ShownAt(o, n)
  BY <1>0, <1>1, StepShows
<1>3. InClient(p, n + 1)
  BY <1>1 DEF InClient, OverlayStep
<1> QED BY <1>0, <1>2, <1>3

\* The client closes a transaction it has opened: `can_close` holds.
LEMMA ClientClose ==
  ASSUME NEW n \in Nat, NEW o, InClient(o, n + 1)
  PROVE  /\ InClient(overlay_rollback(o), n)
         /\ SameBelow(o, overlay_rollback(o), n)
         /\ ShownAt(overlay_rollback(o), n) = ShownAt(o, n)
         /\ InClient(overlay_commit(o), n)
         /\ SameBelow(o, overlay_commit(o), n)
<1>0. OverlayOK(o) /\ depth(o) = n + 1 /\ o.top.execution_mode = "Client"
  BY DEF InClient
<1>1. depth(o) - 1 = n
  BY <1>0
<1>2. can_close(o.top)
  <2>1. transaction_depth(o.top) = n + 1 /\ o.top.execution_mode # "Runtime"
    BY <1>0 DEF depth
  <2>2. n + 1 > 0 /\ n + 1 # 0
    OBVIOUS
  <2> QED BY <2>1, <2>2 DEF can_close
<1>3. /\ InClient(overlay_rollback(o), n)
      /\ SameBelow(o, overlay_rollback(o), n)
      /\ ShownAt(overlay_rollback(o), n) = ShownAt(o, n)
  <2> DEFINE p == overlay_rollback(o)
  <2>0. p = overlay_rollback(o)
    OBVIOUS
  <2> HIDE DEF p
  <2>1. OverlayStep(o, p, n) /\ depth(p) = n /\ p.top.execution_mode = "Client"
    BY <1>0, <1>1, <1>2, <2>0, RollbackAll
  <2>2. SameBelow(o, p, n) /\ ShownAt(p, n) = ShownAt(o, n)
    BY <2>1, StepShows
  <2>3. InClient(p, n)
    BY <2>1 DEF InClient, OverlayStep
  <2> QED BY <2>0, <2>2, <2>3
<1>4. InClient(overlay_commit(o), n) /\ SameBelow(o, overlay_commit(o), n)
  <2> DEFINE p == overlay_commit(o)
             x == depth(o)
  <2>0. p = overlay_commit(o)
    OBVIOUS
  <2> HIDE DEF p
  <2>1. OverlayStep(o, p, x) /\ depth(p) = n /\ p.top.execution_mode = "Client"
    BY <1>0, <1>1, <1>2, <2>0, CommitAll
  <2>2. SameBelow(o, p, n)
    <3> HIDE DEF x
    <3> QED BY <2>1, StepShows
  <2>3. InClient(p, n)
    BY <2>1 DEF InClient, OverlayStep
  <2> QED BY <2>0, <2>2, <2>3
<1> QED BY <1>3, <1>4

\* The runtime is entered: all transactions that are open are the client's.
LEMMA ClientEnter ==
  ASSUME NEW n \in Nat, NEW o, InClient(o, n)
  PROVE  /\ InRuntime(overlay_enter(o))
         /\ overlay_enter(o).top.num_client_transactions = n
         /\ depth(overlay_enter(o)) = n
         /\ SameBelow(o, overlay_enter(o), n)
         /\ ShownAt(overlay_enter(o), n) = ShownAt(o, n)
<1> DEFINE p == overlay_enter(o)
<1>0. p = overlay_enter(o) /\ OverlayOK(o) /\ depth(o) = n
  BY DEF InClient
<1> HIDE DEF p
<1>1. /\ OverlayStep(o, p, n) /\ depth(p) = n /\ p.top.num_client_transactions = n
      /\ p.top.execution_mode = "Runtime"
  BY <1>0, EnterAll
<1>2. SameBelow(o, p, n) /\ ShownAt(p, n) = ShownAt(o, n)
  BY <1>1, StepShows
<1>3. InRuntime(p)
  BY <1>1 DEF InRuntime, OverlayStep
<1> QED BY <1>0, <1>1, <1>2, <1>3

\* The runtime is left: what it left open is rolled back.
LEMMA RuntimeExit ==
  ASSUME NEW n \in Nat, NEW o, InRuntime(o), o.top.num_client_transactions = n
  PROVE  /\ InClient(overlay_exit(o), n)
         /\ SameBelow(o, overlay_exit(o), n)
<1> DEFINE p == overlay_exit(o)
<1>0. p = overlay_exit(o) /\ OverlayOK(o) /\ o.top.execution_mode = "Runtime"
  BY DEF InRuntime
<1> HIDE DEF p
<1>1. OverlayStep(o, p, n) /\ depth(p) = n /\ p.top.execution_mode = "Client"
  BY <1>0, ExitAll
<1>2. SameBelow(o, p, n)
  BY <1>1, StepShows
<1>3. InClient(p, n)
  BY <1>1 DEF InClient, OverlayStep
<1> QED BY <1>0, <1>2, <1>3

-----------------------------------------------------------------------------
(* The steps of the runtime                                                *)

\* What one call of the runtime into Ext does: the root is forgotten, or it is
\* the root of what the runtime sees, or nothing was written and it is kept.
RuntimeEffect ==
  /\ call.running
  /\ RuntimeStep(overlay, overlay')
  /\ UNCHANGED <<commit_on_success, call, before>>
  /\ written' \in BOOLEAN
  /\ \/ cache' = NoTransaction
     \/ cache' = applied(changes(overlay'))
     \/ cache' = cache /\ (written' => written) /\ changes(overlay') = changes(overlay)

\* What marks the storage dirty.
LEMMA WriteEffect ==
  ASSUME NEW o, RuntimeStep(overlay, o), Write(o)
  PROVE  RuntimeEffect
<1>1. /\ call.running /\ overlay' = o /\ cache' = NoTransaction /\ written' = (written \/ TRUE)
      /\ UNCHANGED <<commit_on_success, call, before>>
  BY DEF Write, Step
<1> QED BY <1>1 DEF RuntimeEffect

\* What reads, and what the cache survives.
LEMMA KeepEffect ==
  ASSUME NEW o, NEW c, RuntimeStep(overlay, o), Step(o, c, FALSE),
         \/ c = applied(changes(o))
         \/ c = cache /\ changes(o) = changes(overlay)
  PROVE  RuntimeEffect
<1>1. /\ call.running /\ overlay' = o /\ cache' = c /\ written' = (written \/ FALSE)
      /\ UNCHANGED <<commit_on_success, call, before>>
  BY DEF Step
<1> QED BY <1>1 DEF RuntimeEffect

\* Every call of the runtime has such an effect.
LEMMA RuntimeEffects ==
  ASSUME InRuntime(overlay), Runtime
  PROVE  RuntimeEffect
<1>0. OverlayOK(overlay) /\ Keys \subseteq Key /\ Keys \in SUBSET Key
  BY DEF InRuntime, Keys
<1>w. \A l \in Written : l \in Locations /\ l[2] \in Key
  BY WrittenAssumption, LocationsHold
<1>v. Values \cup {None} \subseteq Value
  BY ValueTypes DEF Value
<1>1. ASSUME NEW l \in Written, NEW v \in Values \cup {None}, place_storage(l[2], v)
      PROVE  RuntimeEffect
  <2>1. RuntimeStep(overlay, set_storage(overlay, l[2], v))
    BY <1>w, <1>v, SetStep
  <2> QED BY <1>1, <2>1, WriteEffect DEF place_storage
<1>2. ASSUME NEW l \in Written, NEW v \in Values \cup {None}, ext_set_offchain_storage(l[2], v)
      PROVE  RuntimeEffect
  <2>1. RuntimeStep(overlay, set_offchain_storage(overlay, l[2], v))
    BY <1>w, <1>v, SetStep
  <2>2. changes(set_offchain_storage(overlay, l[2], v)) = changes(overlay)
    BY <1>0, OffchainSame
  <2> QED BY <1>2, <2>1, <2>2, KeepEffect DEF ext_set_offchain_storage
<1>3. ASSUME NEW l \in Written, NEW v \in Values \cup {None}, l[1] \in Child,
             place_child_storage(l[1], l[2], v)
      PROVE  RuntimeEffect
  <2>1. RuntimeStep(overlay, set_child_storage(overlay, l[1], l[2], v))
    BY <1>w, <1>v, <1>3, SetStep
  <2> QED BY <1>3, <2>1, WriteEffect DEF place_child_storage
<1>4. ASSUME NEW l \in Written, NEW x \in Item, l[1] = "top", storage_append(l[2], x)
      PROVE  RuntimeEffect
  <2> DEFINE k    == l[2]
             held == Database[<<"top", k>>]
             init == IF held = None THEN <<>> ELSE held
             o    == append_storage(overlay, k, init, x)
  <2>1. Write(o) /\ LET v == IF storage(overlay, k) = Unknown THEN init ELSE storage(overlay, k)
                    IN  v \notin Index \cup {None} => Len(v) < MaxItems
    BY <1>4 DEF storage_append
  <2>2. overlay' = o
    BY <2>1 DEF Write, Step
  <2>3. <<"top", k>> \in StorageLocations
    BY <1>w, <1>4, LocationsHold
  <2>4. init \in StorageValue
    BY <2>3, DatabaseAssumption, ValueTypes
  <2>5. AppendStorage(k, init, x)
    <3> HIDE DEF init
    <3> QED BY <2>1, <2>2 DEF AppendStorage
  <2>6. k \in Key
    BY <1>w
  <2> HIDE DEF init, k
  <2>7. WriteStep
    BY <1>0, <2>4, <2>5, <2>6, AppendStorageWrites
  <2>8. RuntimeStep(overlay, o)
    BY <2>2, <2>7, WroteStep DEF WriteStep
  <2> QED BY <2>1, <2>8, WriteEffect
<1>5. ASSUME NEW c \in Child, NEW n \in Limits, kill_child_storage(c, n)
      PROVE  RuntimeEffect
  <2>1. first_child_keys(c, n) \in SUBSET Key
    BY <1>0 DEF first_child_keys
  <2>2. RuntimeStep(overlay, delete_child_keys(clear_child_where(overlay, c, Keys), c, first_child_keys(c, n)))
    BY <1>0, <2>1, DeleteChildStep
  <2> QED BY <1>5, <2>2, WriteEffect DEF kill_child_storage
<1>6. ASSUME NEW K \in SUBSET Keys, ext_clear_prefix(K)
      PROVE  RuntimeEffect
  <2> DEFINE p    == clear_prefix(overlay, K)
             held == {k \in K : Database[<<"top", k>>] # None}
             o    == [p EXCEPT !.top = set_all(p.top, held, None, extrinsic_index(p))]
  <2>1. Write([p EXCEPT !.top = set_all(@, held, None, extrinsic_index(p))])
    BY <1>6 DEF ext_clear_prefix
  <2>2. held \in SUBSET Key /\ K \in SUBSET Key /\ p = clear_prefix(overlay, K)
    BY <1>0
  <2> HIDE DEF p, held
  <2>3. RuntimeStep(overlay, o)
    BY <2>2, ClearStep
  <2>4. Write(o)
    BY <2>1
  <2> HIDE DEF o
  <2> QED BY <2>3, <2>4, WriteEffect
<1>7. ASSUME NEW K \in SUBSET Keys, NEW c \in Child, ext_clear_child_prefix(c, K)
      PROVE  RuntimeEffect
  <2> DEFINE held == {k \in K : Database[<<c, k>>] # None}
  <2>1. held \in SUBSET Key /\ K \in SUBSET Key
    BY <1>0
  <2>2. Write(delete_child_keys(clear_child_where(overlay, c, K), c, held))
    BY <1>7 DEF ext_clear_child_prefix
  <2> HIDE DEF held
  <2>3. RuntimeStep(overlay, delete_child_keys(clear_child_where(overlay, c, K), c, held))
    BY <2>1, DeleteChildStep
  <2> QED BY <2>2, <2>3, WriteEffect
<1>8. ASSUME storage_root PROVE RuntimeEffect
  <2> DEFINE c == IF cache = NoTransaction THEN applied(changes(overlay)) ELSE cache
  <2>1. Step(overlay, c, FALSE)
    BY <1>8 DEF storage_root
  <2>2. c = applied(changes(overlay)) \/ c = cache
    OBVIOUS
  <2>3. RuntimeStep(overlay, overlay)
    BY RuntimeSteps
  <2> HIDE DEF c
  <2> QED BY <2>1, <2>2, <2>3, KeepEffect
<1>9. ASSUME storage_start_transaction PROVE RuntimeEffect
  <2>1. Step(overlay_start(overlay), cache, FALSE)
    BY <1>9 DEF storage_start_transaction
  <2> QED BY <1>0, <2>1, TransactionStep, SameChanges, KeepEffect
<1>10. ASSUME storage_rollback_transaction PROVE RuntimeEffect
  <2> DEFINE o == IF can_close(overlay.top) THEN overlay_rollback(overlay) ELSE overlay
  <2>1. Write(o)
    BY <1>10 DEF storage_rollback_transaction
  <2>2. RuntimeStep(overlay, o)
    BY TransactionStep, RuntimeSteps
  <2> HIDE DEF o
  <2> QED BY <2>1, <2>2, WriteEffect
<1>11. ASSUME storage_commit_transaction PROVE RuntimeEffect
  <2> DEFINE o == IF can_close(overlay.top) THEN overlay_commit(overlay) ELSE overlay
  <2>1. Step(o, cache, FALSE)
    BY <1>11 DEF storage_commit_transaction
  <2>2. RuntimeStep(overlay, o)
    BY TransactionStep, RuntimeSteps
  <2>3. changes(o) = changes(overlay)
    BY <1>0, SameChanges
  <2> HIDE DEF o
  <2> QED BY <2>1, <2>2, <2>3, KeepEffect
<1> QED
  BY <1>1, <1>2, <1>3, <1>4, <1>5, <1>6, <1>7, <1>8, <1>9, <1>10, <1>11 DEF Runtime

-----------------------------------------------------------------------------
(* The inductive invariant                                                 *)

\* The call under way: it runs for the first or the second time.
CallOK ==
  /\ commit_on_success \in BOOLEAN
  /\ written \in BOOLEAN
  /\ \/ call = Idle
     \/ call \in [running : {TRUE}, strategy : Strategies, attempt : {1, 2}, native : BOOLEAN]

\* The strategy has a transaction of its own around the execution under way.
HasOwn == call.running /\ call.attempt = 1 /\ in_own_transaction(call.strategy)

\* What the call began with is still seen below the transactions that may be
\* rolled back: the one of the api, and the one of the strategy.
ViewsKept ==
  /\ call.running /\ commit_on_success => ShownAt(overlay, 0) = before
  /\ HasOwn => ShownAt(overlay, 1) = before

MachineInv ==
  /\ OverlayOK(overlay)
  /\ CallOK
  /\ TransactionsBalanced
  /\ ViewsKept
  /\ RootFresh

\* Which fields of the call matter.
LEMMA CallFields ==
  ASSUME CallOK
  PROVE  /\ call.running \in BOOLEAN /\ commit_on_success \in BOOLEAN /\ written \in BOOLEAN
         /\ call.running => call \in [running : {TRUE}, strategy : Strategies, attempt : {1, 2}, native : BOOLEAN]
         /\ ~call.running => call = Idle
<1>1. CASE call = Idle
  <2>1. call.running = FALSE
    BY <1>1 DEF Idle
  <2> QED BY <1>1, <2>1 DEF CallOK
<1>2. CASE call # Idle
  <2>1. call \in [running : {TRUE}, strategy : Strategies, attempt : {1, 2}, native : BOOLEAN]
    BY <1>2 DEF CallOK
  <2>2. call.running = TRUE
    BY <2>1
  <2> QED BY <2>1, <2>2 DEF CallOK
<1> QED BY <1>1, <1>2

\* How many transactions the client has open, without LET.
LEMMA BalancedIs ==
  TransactionsBalanced <=>
    /\ overlay.top.execution_mode = (IF call.running THEN "Runtime" ELSE "Client")
    /\ call.running => overlay.top.num_client_transactions = (IF HasOwn THEN 2 ELSE 1)
    /\ ~call.running => depth(overlay) = (IF commit_on_success THEN 0 ELSE 1)
<1>1. CASE HasOwn
  BY <1>1 DEF TransactionsBalanced, HasOwn
<1>2. CASE ~HasOwn
  BY <1>2 DEF TransactionsBalanced, HasOwn
<1> QED BY <1>1, <1>2

\* The overlay while a call is under way, and while none is.
LEMMA OverlayIs ==
  ASSUME MachineInv
  PROVE  /\ call.running => InRuntime(overlay)
         /\ call.running => overlay.top.num_client_transactions = (IF HasOwn THEN 2 ELSE 1)
         /\ ~call.running => InClient(overlay, IF commit_on_success THEN 0 ELSE 1)
BY BalancedIs DEF MachineInv, InRuntime, InClient

\* The same in the next state.
LEMMA BalancedNext ==
  TransactionsBalanced' <=>
    /\ overlay'.top.execution_mode = (IF call'.running THEN "Runtime" ELSE "Client")
    /\ call'.running => overlay'.top.num_client_transactions = (IF HasOwn' THEN 2 ELSE 1)
    /\ ~call'.running => depth(overlay') = (IF commit_on_success' THEN 0 ELSE 1)
<1>1. CASE HasOwn'
  BY <1>1 DEF TransactionsBalanced, HasOwn
<1>2. CASE ~HasOwn'
  BY <1>2 DEF TransactionsBalanced, HasOwn
<1> QED BY <1>1, <1>2

\* How the invariant is established where a call is under way.
LEMMA RunningIntro ==
  ASSUME call'.running, CallOK', InRuntime(overlay'),
         overlay'.top.num_client_transactions = (IF HasOwn' THEN 2 ELSE 1),
         ViewsKept', RootFresh'
  PROVE  MachineInv'
BY BalancedNext DEF MachineInv, InRuntime

\* How the invariant is established where no call is under way.
LEMMA IdleIntro ==
  ASSUME call' = Idle, commit_on_success' \in BOOLEAN, written' \in BOOLEAN,
         InClient(overlay', IF commit_on_success' THEN 0 ELSE 1)
  PROVE  MachineInv'
<1>1. ~call'.running
  BY DEF Idle
<1>2. CallOK' /\ ViewsKept' /\ RootFresh'
  BY <1>1 DEF CallOK, ViewsKept, RootFresh, HasOwn
<1>3. TransactionsBalanced'
  BY <1>1, BalancedNext DEF InClient
<1> QED BY <1>2, <1>3 DEF MachineInv, InClient

-----------------------------------------------------------------------------
(* Every step keeps the invariant                                          *)

\* Only a call that is under way calls into Ext.
LEMMA RuntimeRuns ==
  Runtime => call.running
<1>1. \A o, c, w : Step(o, c, w) => call.running
  BY DEF Step
<1>2. \A o : Write(o) => call.running
  BY DEF Write, Step
<1> QED
  BY <1>1, <1>2 DEF Runtime, place_storage, ext_set_offchain_storage, place_child_storage, storage_append,
     kill_child_storage, ext_clear_prefix, ext_clear_child_prefix, storage_root,
     storage_start_transaction, storage_rollback_transaction, storage_commit_transaction

\* The runtime keeps the invariant.
LEMMA RuntimeKeeps ==
  ASSUME MachineInv, Runtime
  PROVE  MachineInv'
<1> DEFINE n == overlay.top.num_client_transactions
<1>0. call.running /\ InRuntime(overlay) /\ n = (IF HasOwn THEN 2 ELSE 1)
  BY RuntimeRuns, OverlayIs
<1>1. RuntimeEffect
  BY <1>0, RuntimeEffects
<1>2. /\ call'.running /\ InRuntime(overlay') /\ HasOwn' = HasOwn
      /\ overlay'.top.num_client_transactions = n
  BY <1>0, <1>1 DEF RuntimeEffect, RuntimeStep, InRuntime, HasOwn
<1>3. \A d \in 0 .. n - 1 : ShownAt(overlay', d) = ShownAt(overlay, d)
  <2>1. ASSUME NEW d \in 0 .. n - 1 PROVE ShownAt(overlay', d) = ShownAt(overlay, d)
    <3>1. \A l \in Locations : Seen(overlay', l, d) = Seen(overlay, l, d)
      BY <1>1, <2>1 DEF RuntimeEffect, RuntimeStep
    <3> QED BY <3>1, ShownSame
  <2> QED BY <2>1
<1> HIDE DEF n
<1>4. ShownAt(overlay', 0) = ShownAt(overlay, 0)
  <2>1. 0 \in 0 .. n - 1
    BY <1>0
  <2> QED BY <1>3, <2>1
<1>5. HasOwn => ShownAt(overlay', 1) = ShownAt(overlay, 1)
  <2>1. HasOwn => 1 \in 0 .. n - 1
    BY <1>0
  <2> QED BY <1>3, <2>1
<1>6. ViewsKept'
  BY <1>1, <1>2, <1>4, <1>5 DEF RuntimeEffect, ViewsKept, MachineInv
<1>7. CallOK'
  BY <1>1 DEF RuntimeEffect, CallOK, MachineInv
<1>8. RootFresh'
  BY <1>0, <1>1 DEF RuntimeEffect, RootFresh, MachineInv
<1> QED BY <1>0, <1>2, <1>6, <1>7, <1>8, RunningIntro

\* When the runtime returns, the transaction of the strategy is closed and
\* the one of the api is left; what it began with is still seen.
LEMMA AttemptClosed ==
  ASSUME MachineInv, call.running, NEW ok \in BOOLEAN,
         NEW o, o = close_attempt(overlay_exit(overlay), ok)
  PROVE  /\ InClient(o, 1)
         /\ ShownAt(o, 0) = ShownAt(overlay, 0)
         /\ again(ok) => HasOwn /\ ShownAt(o, 1) = before
<1> DEFINE q == overlay_exit(overlay)
<1>0. InRuntime(overlay) /\ overlay.top.num_client_transactions = (IF HasOwn THEN 2 ELSE 1)
  BY OverlayIs
<1>a. again(ok) => HasOwn
  BY DEF again, HasOwn, in_own_transaction
<1>n. 1 \in Nat /\ 2 \in Nat /\ 1 + 1 = 2 /\ 0 \in 0 .. 1 - 1 /\ 0 \in 0 .. 2 - 1 /\ 1 \in 0 .. 2 - 1
  OBVIOUS
<1>1. CASE HasOwn
  <2>1. InClient(q, 2) /\ SameBelow(overlay, q, 2)
    BY <1>0, <1>1, <1>n, RuntimeExit
  <2>2. ShownAt(q, 0) = ShownAt(overlay, 0) /\ ShownAt(q, 1) = ShownAt(overlay, 1)
    BY <2>1, <1>n DEF SameBelow
  <2>3. ShownAt(overlay, 1) = before
    BY <1>1 DEF MachineInv, ViewsKept
  <2>4. o = IF again(ok) THEN overlay_rollback(q) ELSE overlay_commit(q)
    BY <1>1 DEF close_attempt, HasOwn
  <2> HIDE DEF q
  <2>5. /\ InClient(overlay_rollback(q), 1) /\ SameBelow(q, overlay_rollback(q), 1)
        /\ ShownAt(overlay_rollback(q), 1) = ShownAt(q, 1)
        /\ InClient(overlay_commit(q), 1) /\ SameBelow(q, overlay_commit(q), 1)
    BY <1>n, <2>1, ClientClose
  <2>6. InClient(o, 1) /\ SameBelow(q, o, 1)
    BY <2>4, <2>5
  <2>7. ShownAt(o, 0) = ShownAt(q, 0)
    BY <1>n, <2>6 DEF SameBelow
  <2>8. again(ok) => ShownAt(o, 1) = before
    BY <2>2, <2>3, <2>4, <2>5
  <2> QED BY <1>1, <2>2, <2>6, <2>7, <2>8
<1>2. CASE ~HasOwn
  <2>1. InClient(q, 1) /\ SameBelow(overlay, q, 1)
    BY <1>0, <1>2, <1>n, RuntimeExit
  <2>2. ShownAt(q, 0) = ShownAt(overlay, 0)
    BY <2>1, <1>n DEF SameBelow
  <2>3. o = q
    BY <1>2 DEF close_attempt, HasOwn
  <2> QED BY <1>a, <1>2, <2>1, <2>2, <2>3
<1> QED BY <1>1, <1>2

\* A second execution starts on a clean overlay.
LEMMA RetryKeeps ==
  ASSUME MachineInv, NEW ok \in BOOLEAN, Return(ok), again(ok)
  PROVE  /\ MachineInv'
         /\ shown(overlay') = before
<1> DEFINE o == close_attempt(overlay_exit(overlay), ok)
<1>0. /\ call.running /\ overlay' = overlay_enter(o) /\ written' = FALSE
      /\ call' = [running |-> TRUE, strategy |-> call.strategy, attempt |-> 2, native |-> FALSE]
      /\ UNCHANGED <<before, commit_on_success>>
  BY DEF Return, Execute
<1>1. InClient(o, 1) /\ ShownAt(o, 0) = ShownAt(overlay, 0) /\ ShownAt(o, 1) = before
  BY <1>0, AttemptClosed
<1> HIDE DEF o
<1>n. 1 \in Nat /\ 0 \in 0 .. 1 - 1
  OBVIOUS
<1>2. /\ InRuntime(overlay') /\ overlay'.top.num_client_transactions = 1
      /\ depth(overlay') = 1 /\ SameBelow(o, overlay', 1) /\ ShownAt(overlay', 1) = ShownAt(o, 1)
  BY <1>0, <1>1, <1>n, ClientEnter
<1>3. ShownAt(overlay', 0) = ShownAt(overlay, 0)
  BY <1>1, <1>2, <1>n DEF SameBelow
<1>4. shown(overlay') = before
  BY <1>1, <1>2, ShownIs DEF InRuntime
<1>5. call'.running /\ call'.attempt = 2 /\ ~HasOwn'
  BY <1>0 DEF HasOwn
<1>6. CallOK'
  <2>1. call.strategy \in Strategies /\ commit_on_success \in BOOLEAN
    BY <1>0, CallFields DEF MachineInv
  <2> QED BY <1>0, <2>1 DEF CallOK
<1>7. ViewsKept'
  BY <1>0, <1>3, <1>5 DEF ViewsKept, MachineInv
<1>8. RootFresh'
  BY <1>0 DEF RootFresh
<1>9. MachineInv'
  BY <1>2, <1>5, <1>6, <1>7, <1>8, RunningIntro
<1> QED BY <1>4, <1>9

\* The call is over: its transaction is committed or rolled back, unless it
\* belongs to execute_in_transaction.
LEMMA EndKeeps ==
  ASSUME MachineInv, NEW ok \in BOOLEAN, Return(ok), ~again(ok)
  PROVE  /\ MachineInv'
         /\ ~ok /\ commit_on_success => shown(overlay') = before
<1> DEFINE o == close_attempt(overlay_exit(overlay), ok)
<1>0. /\ call.running /\ overlay' = commit_or_rollback(o, ok) /\ written' = FALSE
      /\ call' = Idle /\ UNCHANGED commit_on_success
  BY DEF Return
<1>1. InClient(o, 1) /\ ShownAt(o, 0) = ShownAt(overlay, 0)
  BY <1>0, AttemptClosed
<1> HIDE DEF o
<1>n. 0 \in Nat /\ 0 + 1 = 1
  OBVIOUS
<1>2. /\ InClient(overlay_rollback(o), 0) /\ InClient(overlay_commit(o), 0)
      /\ ShownAt(overlay_rollback(o), 0) = ShownAt(o, 0)
  BY <1>1, <1>n, ClientClose
<1>3. commit_on_success \in BOOLEAN
  BY CallFields DEF MachineInv
<1>4. InClient(overlay', IF commit_on_success' THEN 0 ELSE 1)
  BY <1>0, <1>1, <1>2, <1>3 DEF commit_or_rollback
<1>5. MachineInv'
  BY <1>0, <1>3, <1>4, IdleIntro
<1>6. ASSUME ~ok, commit_on_success PROVE shown(overlay') = before
  <2>1. overlay' = overlay_rollback(o)
    BY <1>0, <1>6 DEF commit_or_rollback
  <2>2. InClient(overlay', 0) /\ ShownAt(overlay', 0) = before
    BY <1>0, <1>1, <1>2, <1>6, <2>1 DEF MachineInv, ViewsKept
  <2> QED BY <2>2, ShownIs DEF InClient
<1> QED BY <1>5, <1>6

\* A call begins: what the client sees is kept below its transactions.
LEMMA CallKeeps ==
  ASSUME MachineInv, NEW strategy \in Strategies, CallApi(strategy)
  PROVE  MachineInv'
<1> DEFINE n == IF commit_on_success THEN 0 ELSE 1
           p == IF commit_on_success THEN overlay_start(overlay) ELSE overlay
           own == in_own_transaction(strategy)
           q == IF own THEN overlay_start(p) ELSE p
           m == IF own THEN 2 ELSE 1
<1>0. ~call.running /\ before' = shown(overlay) /\ UNCHANGED commit_on_success
  BY DEF CallApi
<1>1. PICK native \in BOOLEAN : Execute(q, strategy, 1, native)
  BY DEF CallApi
<1>2. /\ overlay' = overlay_enter(q) /\ written' = FALSE
      /\ call' = [running |-> TRUE, strategy |-> strategy, attempt |-> 1, native |-> native]
  BY <1>1 DEF Execute
<1>3. commit_on_success \in BOOLEAN /\ InClient(overlay, n)
  BY <1>0, OverlayIs, CallFields DEF MachineInv
<1>4. before' = ShownAt(overlay, n)
  BY <1>0, <1>3, ShownIs DEF InClient
<1>n. /\ 0 \in Nat /\ 1 \in Nat /\ 2 \in Nat /\ 0 + 1 = 1 /\ 1 + 1 = 2
      /\ 0 \in 0 .. 1 - 1 /\ 0 \in 0 .. 2 - 1 /\ 1 \in 0 .. 2 - 1
  OBVIOUS
<1>5. /\ InClient(p, 1) /\ ShownAt(p, 1) = before'
      /\ commit_on_success => ShownAt(p, 0) = before'
  <2>1. CASE commit_on_success
    <3>1. InClient(overlay, 0) /\ before' = ShownAt(overlay, 0)
      BY <1>3, <1>4, <2>1
    <3>2. InClient(p, 1) /\ SameBelow(overlay, p, 1) /\ ShownAt(p, 1) = ShownAt(overlay, 0)
      BY <1>n, <2>1, <3>1, ClientStart
    <3>3. ShownAt(p, 0) = ShownAt(overlay, 0)
      BY <1>n, <3>2 DEF SameBelow
    <3> QED BY <3>1, <3>2, <3>3
  <2>2. CASE ~commit_on_success
    BY <1>3, <1>4, <2>2
  <2> QED BY <2>1, <2>2
<1> HIDE DEF p, n
<1>6. /\ InClient(q, m) /\ (commit_on_success => ShownAt(q, 0) = before')
      /\ own => ShownAt(q, 1) = before'
  <2>1. CASE own
    <3>1. InClient(q, 2) /\ SameBelow(p, q, 2)
      BY <1>5, <1>n, <2>1, ClientStart
    <3>2. ShownAt(q, 0) = ShownAt(p, 0) /\ ShownAt(q, 1) = ShownAt(p, 1)
      BY <3>1, <1>n DEF SameBelow
    <3> QED BY <1>5, <2>1, <3>1, <3>2
  <2>2. CASE ~own
    BY <1>5, <2>2
  <2> QED BY <2>1, <2>2
<1>7. m \in Nat /\ 0 \in 0 .. m - 1 /\ (own => 1 \in 0 .. m - 1)
  <2>1. CASE own
    BY <2>1, <1>n
  <2>2. CASE ~own
    BY <2>2, <1>n
  <2> QED BY <2>1, <2>2
<1>8. HasOwn' <=> own
  BY <1>2 DEF HasOwn
<1>9. m = IF HasOwn' THEN 2 ELSE 1
  BY <1>8
<1> HIDE DEF q, m, own
<1>10. /\ InRuntime(overlay') /\ overlay'.top.num_client_transactions = m
       /\ SameBelow(q, overlay', m)
  BY <1>2, <1>6, <1>7, ClientEnter
<1>11. ShownAt(overlay', 0) = ShownAt(q, 0) /\ (own => ShownAt(overlay', 1) = ShownAt(q, 1))
  BY <1>7, <1>10 DEF SameBelow
<1>12. ViewsKept'
  BY <1>0, <1>6, <1>8, <1>11 DEF ViewsKept
<1>13. CallOK' /\ RootFresh' /\ call'.running
  BY <1>0, <1>2, <1>3 DEF CallOK, RootFresh
<1> QED BY <1>9, <1>10, <1>12, <1>13, RunningIntro

\* The steps of the client between two calls.
LEMMA ClientKeeps ==
  ASSUME MachineInv,
         \/ OpenApiTransaction
         \/ \E commit \in BOOLEAN : CloseApiTransaction(commit)
         \/ into_storage_changes
  PROVE  MachineInv'
<1>0. /\ ~call.running /\ call' = call /\ written' = written
      /\ call = Idle /\ written \in BOOLEAN /\ commit_on_success \in BOOLEAN
  BY CallFields DEF OpenApiTransaction, CloseApiTransaction, into_storage_changes, MachineInv
<1>1. InClient(overlay, IF commit_on_success THEN 0 ELSE 1)
  BY <1>0, OverlayIs
<1>n. 0 \in Nat /\ 0 + 1 = 1
  OBVIOUS
<1>2. CASE OpenApiTransaction
  <2>1. overlay' = overlay_start(overlay) /\ commit_on_success /\ commit_on_success' = FALSE
    BY <1>2 DEF OpenApiTransaction
  <2>2. InClient(overlay', 1)
    BY <1>1, <1>n, <2>1, ClientStart
  <2> QED BY <1>0, <2>1, <2>2, IdleIntro
<1>3. ASSUME NEW commit \in BOOLEAN, CloseApiTransaction(commit) PROVE MachineInv'
  <2>1. /\ overlay' = IF commit THEN overlay_commit(overlay) ELSE overlay_rollback(overlay)
        /\ ~commit_on_success /\ commit_on_success' = TRUE
    BY <1>3 DEF CloseApiTransaction
  <2>2. InClient(overlay', 0)
    BY <1>1, <1>n, <2>1, ClientClose
  <2> QED BY <1>0, <2>1, <2>2, IdleIntro
<1>4. CASE into_storage_changes
  <2>1. /\ overlay' = DefaultOverlay(CollectExtrinsics)
        /\ commit_on_success /\ commit_on_success' = commit_on_success
    BY <1>4 DEF into_storage_changes
  <2>2. InClient(overlay', 0)
    BY <2>1, DefaultAll DEF InClient
  <2> QED BY <1>0, <2>1, <2>2, IdleIntro
<1> QED BY <1>2, <1>3, <1>4

\* Every step keeps the invariant.
LEMMA MachineKeeps ==
  ASSUME MachineInv, [MachineNext]_machine
  PROVE  MachineInv'
<1>1. CASE Runtime
  BY <1>1, RuntimeKeeps
<1>2. ASSUME NEW ok \in BOOLEAN, Return(ok) PROVE MachineInv'
  BY <1>2, RetryKeeps, EndKeeps
<1>3. ASSUME NEW strategy \in Strategies, CallApi(strategy) PROVE MachineInv'
  BY <1>3, CallKeeps
<1>4. CASE OpenApiTransaction \/ (\E commit \in BOOLEAN : CloseApiTransaction(commit)) \/ into_storage_changes
  BY <1>4, ClientKeeps
<1>5. CASE UNCHANGED machine
  BY <1>5 DEF machine, MachineInv, CallOK, ViewsKept, HasOwn, RootFresh, TransactionsBalanced
<1> QED BY <1>1, <1>2, <1>3, <1>4, <1>5 DEF MachineNext

\* The invariant holds before the first call.
LEMMA MachineStarts ==
  ASSUME MachineInit
  PROVE  MachineInv
<1>1. call = Idle /\ commit_on_success = TRUE /\ written = FALSE
  BY DEF MachineInit
<1>2. InClient(overlay, 0)
  BY DefaultAll DEF MachineInit, InClient
<1>3. ~call.running
  BY <1>1 DEF Idle
<1>4. CallOK /\ ViewsKept /\ RootFresh
  BY <1>1, <1>3 DEF CallOK, ViewsKept, RootFresh, HasOwn
<1>5. TransactionsBalanced
  BY <1>1, <1>2, <1>3, BalancedIs DEF InClient
<1> QED BY <1>2, <1>4, <1>5 DEF MachineInv, InClient

\* In every reachable state the overlay is well formed, the client's
\* transactions are those it opened, and what the call under way began with is
\* seen below them: whatever the runtime writes, opens or tries to close.
THEOREM MachineCorrect ==
  MachineSpec => []MachineInv
<1>1. MachineInit => MachineInv
  BY MachineStarts
<1>2. MachineInv /\ [MachineNext]_machine => MachineInv'
  BY MachineKeeps
<1> QED BY <1>1, <1>2, PTL DEF MachineSpec

\* Every close in commit_or_rollback and in the execution strategies finds the
\* transaction that was opened for it, whatever the runtime opened and never
\* closed or tried to close: neither proof of the code ("We only close a
\* transaction when we opened one ourself", PROOF_CLOSE_TRANSACTION) fails.
THEOREM TransactionsBalancedCorrect ==
  MachineSpec => []TransactionsBalanced
<1>1. MachineInv => TransactionsBalanced
  BY DEF MachineInv
<1> QED BY <1>1, MachineCorrect, PTL

\* Once an execution has written anything, a storage root that is cached is
\* the root of what the runtime sees: no write, rollback, commit, clear or
\* append of ext.rs leaves an old root behind.
THEOREM RootFreshCorrect ==
  MachineSpec => []RootFresh
<1>1. MachineInv => RootFresh
  BY DEF MachineInv
<1> QED BY <1>1, MachineCorrect, PTL

\* The wasm execution that follows a native one starts from exactly what the
\* native one started from, in every trie and in the offchain index.
THEOREM RetryStartsCleanCorrect ==
  MachineSpec => RetryStartsClean
<1>1. MachineInv /\ [MachineNext]_machine =>
        [call.attempt = 1 /\ call'.attempt = 2 => shown(overlay') = before]_machine
  <2> SUFFICES ASSUME MachineInv, MachineNext, call.attempt = 1, call'.attempt = 2
               PROVE  shown(overlay') = before
    OBVIOUS
  <2>1. call' # call
    OBVIOUS
  <2>2. ~Runtime
    <3>1. ASSUME Runtime PROVE FALSE
      <4>1. call.running
        BY <3>1, RuntimeRuns
      <4>2. RuntimeEffect
        BY <3>1, <4>1, OverlayIs, RuntimeEffects
      <4> QED BY <2>1, <4>2 DEF RuntimeEffect
    <3> QED BY <3>1
  <2>3. ~OpenApiTransaction /\ ~into_storage_changes /\ \A commit : ~CloseApiTransaction(commit)
    BY <2>1 DEF OpenApiTransaction, into_storage_changes, CloseApiTransaction
  <2>4. ASSUME NEW strategy \in Strategies, CallApi(strategy) PROVE FALSE
    <3>1. call'.attempt = 1
      BY <2>4 DEF CallApi, Execute
    <3> QED BY <3>1
  <2>5. ASSUME NEW ok \in BOOLEAN, Return(ok) PROVE shown(overlay') = before
    <3>1. CASE again(ok)
      BY <2>5, <3>1, RetryKeeps
    <3>2. CASE ~again(ok)
      <4>0. call' = Idle
        BY <2>5, <3>2 DEF Return
      <4>1. call'.attempt = 0
        BY <4>0 DEF Idle
      <4> QED BY <4>1
    <3> QED BY <3>1, <3>2
  <2> QED BY <2>2, <2>3, <2>4, <2>5 DEF MachineNext
<1> QED BY <1>1, MachineCorrect, PTL DEF MachineSpec, RetryStartsClean

\* A call that fails outside execute_in_transaction leaves what was there
\* before it, whatever it wrote and however often it was executed.
THEOREM FailedCallLeavesNothingCorrect ==
  MachineSpec => FailedCallLeavesNothing
<1>1. MachineInv /\ [MachineNext]_machine =>
        [\A ok \in {FALSE} :
           Return(ok) /\ ~call'.running /\ commit_on_success => shown(overlay') = before]_machine
  <2> SUFFICES ASSUME MachineInv, NEW ok \in {FALSE}, Return(ok), ~call'.running, commit_on_success
               PROVE  shown(overlay') = before
    OBVIOUS
  <2>1. ok \in BOOLEAN /\ ~ok
    OBVIOUS
  <2>2. ~again(ok)
    <3>1. ASSUME again(ok) PROVE FALSE
      <4>1. call'.running
        BY <3>1 DEF Return, Execute
      <4> QED BY <4>1
    <3> QED BY <3>1
  <2> QED BY <2>1, <2>2, EndKeeps
<1> QED BY <1>1, MachineCorrect, PTL DEF MachineSpec, FailedCallLeavesNothing

-----------------------------------------------------------------------------
(* Iterating over a trie                                                   *)

\* A nonempty set of numbers has a least element.
LEMMA LeastNumber ==
  ASSUME NEW T \in SUBSET Nat, T # {}
  PROVE  \E x \in T : \A y \in T : x <= y
<1> DEFINE upto(n) == {i \in Nat : i <= n}
           U == {upto(n) : n \in T}
           R == StrictSubsetOrdering(Nat)
<1>1. U \subseteq FiniteSubsetsOf(Nat)
  <2> SUFFICES ASSUME NEW n \in T PROVE upto(n) \in FiniteSubsetsOf(Nat)
    OBVIOUS
  <2>1. IsFiniteSet(upto(n))
    BY FS_BoundedSetOfNaturals
  <2> QED BY <2>1 DEF FiniteSubsetsOf
<1>2. U # {}
  OBVIOUS
<1>3. PICK u \in U : \A w \in U : ~(<<w, u>> \in R)
  <2> HIDE DEF U
  <2> QED BY <1>1, <1>2, WFMin, FS_StrictSubsetOrderingWellFounded
<1>4. PICK x \in T : u = upto(x)
  OBVIOUS
<1>5. ASSUME NEW y \in T, y < x PROVE FALSE
  <2>1. upto(y) \in U
    OBVIOUS
  <2>2. upto(y) \subseteq upto(x) /\ upto(y) # upto(x)
    <3>1. x \in upto(x) /\ x \notin upto(y)
      BY <1>5
    <3> QED BY <3>1, <1>5
  <2>3. <<upto(y), upto(x)>> \in R
    BY <2>2 DEF StrictSubsetOrdering
  <2> QED BY <2>1, <2>3, <1>3, <1>4
<1> QED BY <1>5

\* Min gives the least element.
LEMMA MinIsLeast ==
  ASSUME NEW T \in SUBSET Nat, T # {}
  PROVE  Min(T) \in T /\ \A y \in T : Min(T) <= y
BY LeastNumber DEF Min

\* The keys of trie l that the backend holds, those that overlay o changes,
\* and those that are found when they are read.
HeldKeys(l) == {k \in Keys : Database[<<l, k>>] # None}
ChangedKeys(o, l) == {k \in Keys : change_at(o, <<l, k>>) # Unknown}
ReadKeys(o, l) == {k \in Keys : applied(changes(o))[<<l, k>>] # None}

Later(S, k) == {j \in S : j > k}

\* The least key of S after k, or None.
NextIn(S, k) == IF Later(S, k) = {} THEN None ELSE Min(Later(S, k))

\* One turn of next_storage_key, which goes on with f.
NextTurn(f, o, l, k) ==
  LET b == Later(HeldKeys(l), k)
      c == Later(ChangedKeys(o, l), k)
  IN  CASE c = {}                           -> IF b = {} THEN None ELSE Min(b)
        [] c # {} /\ b # {} /\ Min(b) < Min(c) -> Min(b)
        [] OTHER                            -> IF change_at(o, <<l, Min(c)>>) # None
                                               THEN Min(c) ELSE f[Min(c)]

IsNext(f, o, l) == f = [k \in Nat |-> NextTurn(f, o, l, k)]

\* What is read at a key is the change, or what the backend holds.
LEMMA ReadKeysAre ==
  ASSUME NEW o, NEW l \in {"top"} \cup Child, NEW k \in Keys
  PROVE  /\ k \in ReadKeys(o, l) <=>
              IF k \in ChangedKeys(o, l) THEN change_at(o, <<l, k>>) # None ELSE k \in HeldKeys(l)
         /\ k \in Nat
<1>1. <<l, k>> \in StorageLocations
  BY DEF StorageLocations
<1>2. k \in Nat
  BY DatabaseAssumption DEF Keys
<1>3. applied(changes(o))[<<l, k>>] =
        IF change_at(o, <<l, k>>) = Unknown THEN Database[<<l, k>>] ELSE change_at(o, <<l, k>>)
  BY <1>1 DEF applied, changes
<1> QED BY <1>2, <1>3 DEF ReadKeys, ChangedKeys, HeldKeys

\* The keys after k: they are numbers, and the least one comes first.
LEMMA LaterKeys ==
  ASSUME NEW S \in SUBSET Keys, NEW k \in Nat
  PROVE  /\ Later(S, k) \in SUBSET Nat /\ Later(S, k) \subseteq S
         /\ \A j \in Later(S, k) : j > k
         /\ Later(S, k) # {} => /\ Min(Later(S, k)) \in Later(S, k)
                                /\ Min(Later(S, k)) \in S /\ Min(Later(S, k)) > k
                                /\ \A j \in S : j > k => Min(Later(S, k)) <= j
<1>1. Later(S, k) \in SUBSET Nat
  BY DatabaseAssumption DEF Keys, Later
<1> QED BY <1>1, MinIsLeast DEF Later

\* The least key after k is the one that no other comes before.
LEMMA NextInIs ==
  ASSUME NEW S \in SUBSET Keys, NEW k \in Nat, NEW m \in S, m > k, \A j \in S : j > k => m <= j
  PROVE  NextIn(S, k) = m
<1>1. m \in Nat /\ m \in Later(S, k)
  BY DatabaseAssumption DEF Keys, Later
<1>2. Min(Later(S, k)) \in S /\ Min(Later(S, k)) <= m /\ Min(Later(S, k)) > k /\ Min(Later(S, k)) \in Nat
  BY <1>1, LaterKeys
<1>3. Min(Later(S, k)) = m
  BY <1>1, <1>2
<1> QED BY <1>1, <1>3 DEF NextIn

\* The least key that is found after k goes through one turn unchanged.
LEMMA NextTurnRight ==
  ASSUME NEW o, NEW l \in {"top"} \cup Child, NEW k \in Nat, NEW f,
         \A j \in Later(ChangedKeys(o, l), k) : f[j] = NextIn(ReadKeys(o, l), j)
  PROVE  NextTurn(f, o, l, k) = NextIn(ReadKeys(o, l), k)
<1> DEFINE H == HeldKeys(l)
           C == ChangedKeys(o, l)
           R == ReadKeys(o, l)
           b == Later(H, k)
           c == Later(C, k)
<1>1. H \in SUBSET Keys /\ C \in SUBSET Keys /\ R \in SUBSET Keys
  BY DEF HeldKeys, ChangedKeys, ReadKeys
<1>2. \A j \in Keys : /\ j \in R <=> IF j \in C THEN change_at(o, <<l, j>>) # None ELSE j \in H
                      /\ j \in Nat
  BY ReadKeysAre
<1>3. NextTurn(f, o, l, k) =
        CASE c = {} -> IF b = {} THEN None ELSE Min(b)
          [] c # {} /\ b # {} /\ Min(b) < Min(c) -> Min(b)
          [] OTHER -> IF change_at(o, <<l, Min(c)>>) # None THEN Min(c) ELSE f[Min(c)]
  BY DEF NextTurn
<1>4. \A j \in c : f[j] = NextIn(R, j)
  OBVIOUS
<1> HIDE DEF H, C, R
<1>5. b # {} => Min(b) \in H /\ Min(b) > k /\ \A j \in H : j > k => Min(b) <= j
  BY <1>1, LaterKeys
<1>6. c # {} => Min(c) \in C /\ Min(c) > k /\ Min(c) \in c /\ \A j \in C : j > k => Min(c) <= j
  BY <1>1, LaterKeys
<1>b. b = {} => \A j \in H : ~(j > k)
  BY DEF Later
<1>c. c = {} => \A j \in C : ~(j > k)
  BY DEF Later
<1> HIDE DEF b, c
<1>7. CASE c = {}
  <2>1. CASE b = {}
    <3>1. Later(R, k) = {}
      BY <1>1, <1>2, <1>7, <1>b, <1>c, <2>1 DEF Later
    <3> QED BY <1>3, <1>7, <2>1, <3>1 DEF NextIn, R
  <2>2. CASE b # {}
    <3>1. Min(b) \in R /\ \A j \in R : j > k => Min(b) <= j
      BY <1>1, <1>2, <1>5, <1>7, <1>c, <2>2
    <3>2. NextIn(R, k) = Min(b)
      BY <1>1, <1>5, <2>2, <3>1, NextInIs
    <3> QED BY <1>3, <1>7, <2>2, <3>2 DEF R
  <2> QED BY <2>1, <2>2
<1>8. CASE c # {} /\ b # {} /\ Min(b) < Min(c)
  <2>0. Min(b) \in H /\ Min(b) \in Nat /\ Min(c) \in Nat /\ Min(b) > k /\ Min(b) < Min(c)
    BY <1>1, <1>2, <1>5, <1>6, <1>8
  <2>a. Min(b) \notin C
    BY <1>6, <1>8, <2>0
  <2>b. Min(b) \in R
    BY <1>1, <1>2, <2>0, <2>a
  <2>c. ASSUME NEW j \in R, j > k PROVE Min(b) <= j
    <3>1. CASE j \in C
      <4>1. Min(c) <= j
        BY <1>6, <1>8, <2>c, <3>1
      <4>2. j \in Nat
        BY <1>1, <1>2
      <4> QED BY <2>0, <4>1, <4>2
    <3>2. CASE j \notin C
      BY <1>1, <1>2, <1>5, <1>8, <2>c, <3>2
    <3> QED BY <3>1, <3>2
  <2>1. Min(b) \in R /\ \A j \in R : j > k => Min(b) <= j
    BY <2>b, <2>c
  <2>2. NextIn(R, k) = Min(b)
    BY <1>1, <1>5, <1>8, <2>1, NextInIs
  <2> QED BY <1>3, <1>8, <2>2 DEF R
<1>9. CASE c # {} /\ ~(b # {} /\ Min(b) < Min(c))
  <2> DEFINE m == Min(c)
  <2>1. m \in C /\ m \in c /\ m > k /\ m \in Nat /\ m \in Keys
    BY <1>1, <1>2, <1>6, <1>9
  <2>2. \A j \in R : j > k => m <= j
    <3> SUFFICES ASSUME NEW j \in R, j > k PROVE m <= j
      OBVIOUS
    <3>1. CASE j \in C
      BY <1>6, <1>9, <3>1
    <3>2. CASE j \notin C
      <4>1. j \in H /\ j \in Nat
        BY <1>1, <1>2, <3>2
      <4>2. b # {} /\ Min(b) <= j /\ Min(b) \in Nat
        BY <1>1, <1>2, <1>5, <1>b, <4>1
      <4> QED BY <1>9, <2>1, <4>1, <4>2
    <3> QED BY <3>1, <3>2
  <2>3. NextTurn(f, o, l, k) = IF change_at(o, <<l, m>>) # None THEN m ELSE f[m]
    BY <1>3, <1>9
  <2> HIDE DEF m
  <2>4. CASE change_at(o, <<l, m>>) # None
    <3>1. m \in R
      BY <1>2, <2>1, <2>4
    <3>2. NextIn(R, k) = m
      BY <1>1, <2>1, <2>2, <3>1, NextInIs
    <3> QED BY <2>3, <2>4, <3>2 DEF R
  <2>5. CASE change_at(o, <<l, m>>) = None
    <3>1. m \notin R
      BY <1>2, <2>1, <2>5
    <3>2. Later(R, k) = Later(R, m)
      <4>1. \A j \in R : j > k <=> j > m
        BY <1>1, <1>2, <2>1, <2>2, <3>1
      <4> QED BY <4>1 DEF Later
    <3>3. NextIn(R, k) = NextIn(R, m)
      BY <3>2 DEF NextIn
    <3>4. f[m] = NextIn(R, m)
      BY <1>4, <2>1
    <3> QED BY <2>3, <2>5, <3>3, <3>4 DEF R
  <2> QED BY <2>4, <2>5
<1> QED BY <1>7, <1>8, <1>9 DEF R

\* next_storage_key, as the model defines it: a function that is one turn of
\* itself.
LEMMA NextStorageKeyIs ==
  ASSUME NEW o, NEW l \in {"top"} \cup Child
  PROVE  \E f : /\ IsNext(f, o, l)
               /\ next_storage_key(o, l) = [k \in {0} \cup Keys |-> f[k]]
<1> DEFINE s == [k \in Nat |-> NextIn(ReadKeys(o, l), k)]
           f == CHOOSE g : IsNext(g, o, l)
<1>1. IsNext(s, o, l)
  <2>1. ChangedKeys(o, l) \subseteq Nat
    BY DatabaseAssumption DEF ChangedKeys, Keys
  <2>2. ASSUME NEW k \in Nat PROVE NextTurn(s, o, l, k) = NextIn(ReadKeys(o, l), k)
    <3>1. \A j \in Later(ChangedKeys(o, l), k) : s[j] = NextIn(ReadKeys(o, l), j)
      BY <2>1 DEF Later
    <3> HIDE DEF s
    <3> QED BY <3>1, NextTurnRight
  <2>3. s = [k \in Nat |-> NextTurn(s, o, l, k)]
    BY <2>2
  <2> HIDE DEF s
  <2> QED BY <2>3 DEF IsNext
<1>2. IsNext(f, o, l)
  <2> HIDE DEF s
  <2>1. \E g : IsNext(g, o, l)
    BY <1>1
  <2> QED BY <2>1
<1>3. next_storage_key(o, l) = [k \in {0} \cup Keys |-> f[k]]
  BY DEF next_storage_key, IsNext, NextTurn, HeldKeys, ChangedKeys, Later
<1> HIDE DEF f
<1> QED BY <1>2, <1>3

\* There is only one such function: a turn goes on from a later key of the
\* overlay, and those are finitely many.
LEMMA NextUnique ==
  ASSUME NEW o, NEW l \in {"top"} \cup Child, NEW f, IsNext(f, o, l), NEW k \in Nat
  PROVE  f[k] = NextIn(ReadKeys(o, l), k)
<1> DEFINE C == ChangedKeys(o, l)
           T == {i \in Nat : f[i] # NextIn(ReadKeys(o, l), i)}
           U == {Later(C, i) : i \in T}
           W == StrictSubsetOrdering(Keys)
<1> SUFFICES ASSUME T # {} PROVE FALSE
  OBVIOUS
<1>0. C \in SUBSET Keys
  BY DEF ChangedKeys
<1>1. U \subseteq FiniteSubsetsOf(Keys)
  <2> SUFFICES ASSUME NEW i \in T PROVE Later(C, i) \in FiniteSubsetsOf(Keys)
    OBVIOUS
  <2>1. Later(C, i) \subseteq Keys
    BY <1>0 DEF Later
  <2>2. IsFiniteSet(Keys)
    BY DatabaseAssumption, FS_Subset DEF Keys
  <2>3. IsFiniteSet(Later(C, i))
    BY <2>1, <2>2, FS_Subset
  <2> QED BY <2>1, <2>3 DEF FiniteSubsetsOf
<1>2. U # {}
  OBVIOUS
<1>3. PICK u \in U : \A w \in U : ~(<<w, u>> \in W)
  <2> HIDE DEF U
  <2> QED BY <1>1, <1>2, WFMin, FS_StrictSubsetOrderingWellFounded
<1>4. PICK i \in T : u = Later(C, i)
  OBVIOUS
<1>5. ASSUME NEW j \in Later(C, i) PROVE f[j] = NextIn(ReadKeys(o, l), j)
  <2>1. j \in Nat /\ j > i /\ i \in Nat
    BY <1>0, <1>5, LaterKeys
  <2>2. Later(C, j) \subseteq Later(C, i) /\ j \notin Later(C, j)
    <3>1. C \subseteq Nat
      BY <1>0, DatabaseAssumption DEF Keys
    <3> HIDE DEF C
    <3>2. \A x \in C : x > j => x > i
      BY <2>1, <3>1
    <3>3. ~(j > j)
      BY <2>1
    <3> QED BY <3>2, <3>3 DEF Later
  <2>3. <<Later(C, j), Later(C, i)>> \in W
    <3>1. Later(C, i) \subseteq Keys
      BY <1>0 DEF Later
    <3> HIDE DEF C
    <3> QED BY <2>2, <3>1, <1>5 DEF StrictSubsetOrdering
  <2>4. Later(C, j) \notin U
    BY <1>3, <1>4, <2>3
  <2> HIDE DEF C
  <2>5. j \notin T
    BY <2>4
  <2> QED BY <2>1, <2>5
<1>6. NextTurn(f, o, l, i) = NextIn(ReadKeys(o, l), i)
  BY <1>5, NextTurnRight
<1>7. f[i] = NextTurn(f, o, l, i)
  BY DEF IsNext
<1> QED BY <1>6, <1>7

\* Iterating with next_storage_key and next_child_storage_key finds, after any
\* key, exactly the next one that reading finds, over every backend and after
\* everything the runtime has written, deleted, committed and rolled back.
THEOREM NextKeyExactCorrect ==
  MachineSpec => []NextKeyExact
<1>1. NextKeyExact
  <2>1. ASSUME NEW l \in {"top"} \cup Child, NEW k \in {0} \cup Keys
        PROVE  next_storage_key(overlay, l)[k] = NextIn(ReadKeys(overlay, l), k)
    <3>1. PICK f : /\ IsNext(f, overlay, l)
                   /\ next_storage_key(overlay, l) = [i \in {0} \cup Keys |-> f[i]]
      BY NextStorageKeyIs
    <3>2. k \in Nat
      BY DatabaseAssumption DEF Keys
    <3> QED BY <3>1, <3>2, NextUnique
  <2>2. \A l, k : {j \in Keys : j > k /\ applied(changes(overlay))[<<l, j>>] # None}
                  = Later(ReadKeys(overlay, l), k)
    BY DEF Later, ReadKeys
  <2> QED BY <2>1, <2>2 DEF NextKeyExact, NextIn
<1> QED BY <1>1, PTL
=============================================================================
