# Substrate node: TLA+ models and proofs

This directory holds TLA+ models of parts of the Substrate node in this
repository, the TLC configurations that check them on small instances, and
machine-checked proofs of what matters most. `PROJECT.json` lists components,
runs, mutants, findings, hazards and theorems, and maps every definition to
the lines of `src/` it models.

## The system

The repository is the Substrate framework: `primitives/` (types and algorithms
shared by client and runtime), `client/` (the node), `frame/` (the pallets a
runtime is made of), `bin/` (two nodes and two tools), `utils/` and
`test-utils/`. The concurrency, the persistence and most of the protocol state
are in `client/`; the pallets are sequential code over storage.

| Component | State it keeps | Operations | What is hard | What makes it correct |
|---|---|---|---|---|
| `client/peerset` | nodes with reputation, membership per set, slot counters, reserved lists, message queue | Actions through handles, direct calls by the network task, polling, decay with time | two groups of callers overtake each other; both sides hold a view of the connections | counters match, both sides agree in the end, modes respected, every question answered |
| `client/state-db`, state side of `client/db` | tree of non-canonical blocks, reference counted trie nodes, pruning window, pins, journals on disk | insert, canonicalize, commit, apply or revert, pin, unpin, revert, restart | readers between the steps of an import; failures and crashes; forks discarded while in use; nodes shared by blocks | a state that is said to be there can be read; nothing dropped too early or left behind; a restart rebuilds the same windows |
| `primitives/state-machine`, `RuntimeApiImpl` | overlayed changes with nested transactions, the cached storage root, the call under way | set, clear, append, start, commit, roll back, enter and exit the runtime, retry on another runtime | nesting across client and runtime; a runtime that fails half way or closes what is not its own | equal to a stack of views; a failed call leaves nothing; the root is that of what is seen |
| `client/finality-grandpa`, `utils/fork-tree` | current set, pending changes over the tree of blocks, voter state, commands to the voter; all but the last on disk | import of blocks and justifications, finalization by importer or voter, handover, restart | two that finalize; the lock is released between steps; forks; failed writes; crashes | every node goes through the same sets, misses no handoff and keeps finalizing |
| `client/network`, notifications | entry per node and set with the state of each connection, unanswered questions to the peer set, delays; a handler per connection | events of libp2p and of the handlers, messages of the peer set, calls of the users, delays | six parties with a queue between any two; several connections per node; delays that are never cancelled | agrees with the peer set, the handlers and the users once messages are read; no illegal state; no wait for ever |
| `client/network`, sync | per peer download state, queued blocks, extra requests | responses, imports, restarts | late or wrong answers | every request answered or retried |
| `client/transaction-pool` | ready and future transactions by tags, bans, watchers, the queue for revalidation | verify, submit, replace, drop at the limits, prune by a block, revalidate, resubmit | results of validation that blocks overtake; hash map orders | dependencies respected, nobody waits for what is there, watchers told, stale ones leave |
| `client/db`, storage cache | values at the best block, the keys that recent blocks changed, a local cache per open state | import, new head, lookup, drop of a state | one cache for all forks; states that outlive a reorganization; an import is several steps for those who read | a state never gets a value that its database does not hold |
| `client/network-gossip` | known messages, peers, expiry | register, multicast, tick | repeated and late messages | no message twice to one peer |
| pallets (`session`, `scheduler`, `balances`, ...) | storage items | dispatchables, hooks per block | long sequences of legal calls | conservation, nothing forgotten |

Everything else (cryptography, codecs, macros, RPC, configuration, the
WebAssembly executor, libp2p glue) is listed in `PROJECT.json` as not modelled,
each with its reason.

The components meet as follows. The network task owns the peer set manager
and polls it; other threads reach it through a channel. Consensus hands
blocks to the client, the client turns each import or finalization into one
database operation under the import lock, and the backend passes it to the
state database; RPC, authoring and the transaction pool read states at any
time without that lock. The runtime executes on an overlay of the state it
reads, and the changes drained from it are what an import operation stores.
GRANDPA wraps the import of blocks and finalizes through the same operations;
the pool hears of each new best block after it was imported.

## Modules

| Module | Models |
|---|---|
| `PeersState` | `client/peerset/src/peersstate.rs`: operators on one record |
| `Peerset` (extends `PeersState`) | `client/peerset/src/lib.rs`: one action per Action handler, per direct call and per outcome of `poll_next` |
| `PeersetContract` | what the peer set manager promises the network; `Peerset` implements it, `Notifications` relies on it |
| `NotifsHandler` | `generic_proto/handler.rs`: operators on the handler of one connection |
| `Notifications` (extends `PeersetContract`, `NotifsHandler`) | `generic_proto/behaviour.rs`: the behaviour for one link, composed with the manager, the handlers, libp2p and the users |
| `NotificationsProofs` (extends `Notifications`) | theorems about `Notifications` |
| `PeersetProofs` (extends `Peerset`) | theorems about the states of `Peerset` |
| `PeersetPromises` (extends `PeersetProofs`) | theorems about its steps, and that it implements `PeersetContract` |
| `NonCanonical` | `client/state-db/src/noncanonical.rs`: operators on the overlay |
| `RefWindow` (extends `NonCanonical`) | `client/state-db/src/pruning.rs`: operators on the pruning window |
| `StateDb` (extends `RefWindow`) | `client/state-db/src/lib.rs` and the import operations, readers, reverts and restarts of `client/db/src/lib.rs` |
| `StateDbProofs` (extends `StateDb`) | theorems about `StateDb` |
| `Changeset` | `overlayed_changes/changeset.rs`: operators on one `OverlayedMap` |
| `OverlayedChanges` (extends `Changeset`) | `overlayed_changes/mod.rs` and `offchain.rs`: top trie, child tries and offchain index in lockstep |
| `TransactionStack` | the abstract specification of nested transactions, which `OverlayedChanges` implements |
| `StateMachine` (extends `OverlayedChanges`) | `ext.rs`, the execution strategies of `lib.rs` and the generated `RuntimeApiImpl` |
| `OverlayProofs` (extends `OverlayedChanges`) | theorems about `OverlayedChanges`, and that it implements `TransactionStack` |
| `MachineProofs` (extends `StateMachine`, `OverlayProofs`) | theorems about the calls into the runtime |
| `ForkTree` | `utils/fork-tree/src/lib.rs`: operators on a tree |
| `AuthoritySet` (extends `ForkTree`) | `client/finality-grandpa/src/authorities.rs`: operators on one authority set |
| `Grandpa` (extends `AuthoritySet`) | `import.rs`, `finalize_block` of `environment.rs`, `handle_voter_command` of `lib.rs`, `aux_schema.rs` |
| `GrandpaProofs` (extends `Grandpa`) | theorems about `Grandpa` |
| `BasePool` | `transaction-pool/graph/src`: `base_pool.rs`, `ready.rs`, `future.rs`, operators on a pool |
| `TxPool` (extends `BasePool`) | `pool.rs`, `validated_pool.rs`, `rotator.rs`, `revalidation.rs` and `maintain` of `lib.rs` |
| `StorageCache` | `client/db/src/storage_cache.rs`, with the end of `try_commit_operation` of `client/db/src/lib.rs` and what `client/service/src/client/client.rs` decides about best, final and head |
| `StorageCacheProofs` (extends `StorageCache`) | theorems about `StorageCache` |
| `MCPeerset`, `MCNotifications`, `MCStateDb`, `MCStorageCache`, `MCOverlay`, `MCStateMachine`, `MCGrandpa`, `MCTxPool` | values of the constants for TLC |

Operators whose comment starts with "Mutant:" are wrong variants of the
definition that follows them. No specification uses them; each one is there to
show that some property would notice that mistake.

### Peer set manager

`data` is the `PeersState` structure: `nodes` is the domain of the map,
`reputation` and `sets` its contents, `num_in` and `num_out` the counters of
`SetInfo`, `no_slot_nodes` the sets of that name. `last_connected` is
abstracted to `old`, the memberships whose `FORGET_AFTER` has gone by.
Reputations are integers within `I32Min .. I32Max`, and every change saturates
as in the code; the real `i32` range and the decay by a fiftieth are
constants, so that small instances reach both ends.

Each handler is one action, with the `alloc_slots` at its end. `alloc_slots`
is a set of possible outcomes: hash maps are iterated in any order, and peers
of the same reputation compete. `update_time` runs inside most handlers; here
it makes up for no or for one second, and longer times are several calls of
`debug_info`, whose only effect is `update_time`. `on_set_reserved_peers`
works through its list in a loop whose order is open: the loop is split into
steps, and no other step of the network task can come in between (`todo`).

`poll_next` handles Actions until it has a message or the channel is empty.
`polling` marks that this is under way: direct calls need the same `&mut`
reference and cannot happen then, while handles can push Actions at any time.

`Peerset` allows any call at any time. `PeersetContract` says what the network can
rely on nevertheless: which links the manager counts as connected, and a queue
in which every change of that is announced once, in any order within one
handler, while a `dropped` is not announced and an `incoming` is answered unless
the link is connected. Reputations, slots and lists are gone from it.
`ImplementsContract` is the refinement, with the connected links and the queue
of `Peerset` in the place of the contract's variables; it also says which
handlers take which of the contract's steps, so that a handler of an Action
cannot pass a silent change off as a call of `dropped`.

### Notifications

`Notifications` follows one link, a node in a set; links share nothing in the
code but the manager, whose contract lets it do to one link whatever the others
could cause. `peer` is the entry of the link in `peers`, `incoming_peers` the
list `incoming`, `delays` the delays that have not fired, `api` the connection
whose sink the users hold. Each connection has a handler, in a task of its own,
with a queue of messages in either direction.

A handler of the behaviour gives an outcome, a record of the new entry and of
the calls and messages that go with it; `React` and `Notify` carry it out in one
step, as the code does within one call. An arm of the code that logs a state
mismatch makes `expected` false, and one that returns without putting the entry
back leaves it `Poisoned`. The assertions on entries that are `Enabled` or
`Incoming` are the invariant `RequestUnderWay`.

Deadlines are left to chance: whether one has passed is a choice wherever the
code compares it with the current time, and a delay fires at any time. Only
the existence of `backoff_until` is kept. Identifiers of connections, delays and
questions are the least free ones; in the code they count up, and nothing
compares an identifier of a thing that is gone with that of a new one, because
a delay stays in `delays` until it has fired. A question that is obsolete and
that the manager will not answer stays in the code's list for ever and is never
looked at again; the model forgets it (`Awaited`). The manager gives a link up
only while it is polled, with an empty queue, and the behaviour polls until
nothing is left: `poll_drop` is one step.

The remote, libp2p and the users do whatever they can at any time; nothing is
withheld from the behaviour. Some of it leads to a state mismatch, which the
third finding and the known disagreements describe. `expected` then
stays false. The other invariants are about all that happens before, and
`MismatchesKnown` says which events can make it false: one of a substream that the
remote has given up before it was answered (`GivenUp`), or one of a connection that
was closing when a substream was asked for on another one (`Overlaps`). A
`debug_assert!` that fails without changing anything in a release build is
`asserted`, which only `NoMismatch` looks at.

### State database

A block's state is a set of trie nodes, which are addressed by content: two
blocks that contain the same node share its key. `Inserted` and `Deleted` are
the differences from the parent's state.

The record `overlay` is `NonCanonicalOverlay`; `values` and
`pinned_insertions` are functions that are 0 where the map has no entry. A
`BlockOverlay` keeps its hash and its journal index. `window` is `RefWindow`,
`pinned` is `StateDbSync::pinned`, and `db` is what is on disk: headers, trie
nodes, both journals, `last_canonicalized` and `last_pruned`. `txn` is the
database the transaction under way would leave behind.

An import operation goes through `canonicalize_block` (for the blocks it
finalizes), `insert_block` and `canonicalize_block` again (for the genesis
block, or a block whose canonicalization is overdue), `commit`, and
`apply_pending` or `revert_pending`; `phase` says how far it has got. The import
lock allows one operation at a time. Readers take `have_state_at` and `pin` as
two steps, and `unpin`, between any two steps of an operation. `restart` may
come at any moment, and rebuilds memory from `db`.

What the environment may do is a constant of the model:

- `Failures`: an operation may fail at any step before its commit.
- `Crashes`: the process may stop and start again.
- `Reverts`: `Backend::revert` is used. It is a command of its own, run with
  no states in use, and it expects the best block to be on the top level.

All three are `TRUE` in the run `statedb`. Readers ask and pin at any time, also
between a commit and `apply_pending`, and callers go on using, as parent or by a
new pin, a block of a fork that was discarded but is kept for somebody's pin:
the code does not prevent either. `past` is a history variable. It notes the three
things after which some statements are no longer true, so that the properties can name
them: an operation was undone (`undone`), `revert_insertions` met levels that its
assertions exclude (`disorder`, which `in_order` defines), and a discarded fork was
used again or a block was left without its parent (`stray`).

Only `PruningMode::Constrained` with `max_blocks` is modelled; the archive modes
delete nothing, and `max_mem` has no effect in the code (`mem_used` is 0).

### Storage cache

A value is the block that wrote it, and `writes` says which keys each block
changes; the variable never changes and lets one run range over all choices.
`cache` is the structure behind the mutex: the values, the hashes and
`modifications`, ordered by number. Top and child keys have maps of their own
in the code and are treated alike, so they are one map here. What a state reads
from its database is `ValueAt`; its local cache is therefore the set of keys it
has read. Only a lookup that misses changes anything. `Walk` is the loop of
`is_allowed`: the block that is looked for after each entry of the list.

`Import` and `Finalize` take the import lock and end with the write to the database;
`SyncCache`, `SyncHead` and `UpdateMeta` follow, with any other thread in between.
`meta` does not change before the last of them, so the routes that the code
computes before the write can be computed from `best` when they are used. A
state is opened and read at any time; `drop` needs the import lock. Whether a
block becomes the best one is open (`ForkChoiceStrategy::Custom`).

`ImportExisting` are the blocks that may be imported again: `sync_cache` has a
branch for it, though nothing in the repository asks for it. `Import` takes a final
block on any branch, as the code does; `SealsOn` is an assumption about its callers.
Only `seal_block` of `manual-seal` imports blocks as final, above the best block unless its
command names a parent. `FinalizedForks` lets that parent be on another branch; `FALSE` in
the run, see the known disagreements.

### Overlayed changes and calls into the runtime

A changeset maps a key to its versions, oldest first; `dirty_keys` is a
sequence of key sets, one per open transaction; a version is a value with the
extrinsics recorded for it. `overlay` holds the changeset of the top trie,
those of the child tries that were written, and the offchain index, each with
its own stack, as in the code: that they stay in step is a property, not an
assumption. Values are sequences of items, so that appending through a
reference can be told from replacing.

`TransactionStack` is what the documentation of nested transactions promises,
without versions or dirty sets: a sequence of complete views. `ImplementsStack`
instantiates it with the views that an overlay would show at each depth.

In `StateMachine` the runtime is arbitrary: between entering and returning it may
write, clear, append, ask for the root, open and close transactions, and fail.
`call` says which strategy is in use and whether this is the first attempt.
The cache is the storage that its root and transaction stand for, compared
with what the overlay shows on top of the backend. `into_storage_changes`
takes the changes away when no call is under way.

### GRANDPA authority sets

The chain is a tree of blocks, given; `signal` is the change that each header
carries. The headers never change: the variable lets one run range over all
signals that `schedule_change` of the pallet permits. A list of authorities is
named by the block that signalled it.

A tree of pending changes maps each pinned block to the pinned block it is a
child of. The order of siblings, which `rebalance` keeps by depth, is left out:
no two siblings are on one chain (`WellFormed`, part of `PendingKept`), so a
search that stops at the first match finds the only one.

The importer's call is split where it gives up or may wait for the lock:
`MakeAuthoritiesChanges` (which keeps the lock when it changed the set, see
`Locked`), `WriteBlock` or `WriteFails`, two reads that verify a justification,
and the finalization. The import queue runs one import at a time. The voter
finalizes blocks on its own and handles the commands in its queue; `Restart`
may come at any point and loads what is on disk. `stored_paused` is the part of
the voter state on disk that matters here.

The voting protocol is the external crate `finality-grandpa`. What it
contributes is `Justified`: which set can justify which block of the chain
that the network keeps. A set stops at the block where the next one begins,
which is what `VotesStopAtHandoff` shows of this node's votes: `best_chain_containing`
is the range of heights that the code may answer for a base of the round and a
finality target, the voting rule left open. Forced changes
are for networks whose set has stalled; `OldSetStops` says that a set that a
forced change replaces finalizes nothing at or above the signal. `sets` are the
changes of that chain that take effect, lowest first: the sets that every node
is to go through.

### Transaction pool

A transaction has tags that it requires and provides, and a priority. `pool` is
the record of `BasePool`: the ready queue in the order of insertion, the tags
with their providers, the `unlocks` lists as multisets, `requires_offset`, the
`best` set, the waiting transactions with their missing tags, and the tags of
the last two blocks. Operations whose result depends on the order of a hash
map are sets of outcomes; those of `resubmit` and of the promotion of waiting
transactions can differ.

Verification is two steps: what the runtime answered at the best block of that
moment (`verifying`), and the submission of the result. Blocks are imported
(`events`), handled by `Maintain`, and revalidated by the worker, in between. The
runtime's answers are those of `CheckNonce`: stale once a tag is on the chain,
else the required tags that are not there yet. `NonceTagsAssumption` says what that
extension makes of every signed transaction: one tag provided, at most one
required. `BasePool` takes any tags, but `IteratorOrdered` and `WatchersTold` are
statements about such transactions; with two tags the code breaks both, see the
known disagreements. The channel to the revalidation worker is a queue: several blocks
can be handled before the worker receives the payload of the first, or while it is busy
with a batch.

`Timely` is an assumption: no more than `RECENTLY_PRUNED_TAGS` blocks overtake a
validation. The code remembers the tags of as many blocks; a result that is
older may wait for ever for a tag that the chain has.

Every submission has a watcher here, and `watching` is the set of transactions
whose watcher has not been told the end.

## Runs

| Run | Instance | Shows |
|---|---|---|
| `peerset_one_set` | two nodes, one set, one slot each way | counters, reserved lists, modes, limits and bans under every order of calls; refinement of `PeersetContract` |
| `notifications` | one link, two connections | until the first state mismatch the behaviour, the manager, the handlers and the users agree, whatever is under way between them; there are two ways to a mismatch |
| `notifications_waits` | one link, one connection | no wait for a dial, a delay or a closing connection lasts for ever |
| `notifications_mismatch` | one link, one connection | violation: an ordinary move of the remote poisons the entry |
| `statedb` | chain of four blocks, fork of one | what can be read, what is counted and what stays behind, with failures, reverts, readers at any time and restarts |
| `statedb_journal_gap` | forks of two blocks | violation: a restart loses blocks |
| `overlay` | one key and the extrinsic index, a child trie, two levels | versions and dirty sets belong together, all changesets stay in lockstep; refinement of `TransactionStack` |
| `state_machine` | two keys, a child trie, three strategies, two calls of four steps | balanced transactions, fresh root, exact iteration, clean retries and failures |
| `grandpa` | four blocks and a fork of two, every permitted signal | same sets as the network in memory, on disk and in the voter; no missed handoff; finality reaches the tip |
| `grandpa_assertion` | the same | violation: the assertion of `import_justification` fails |
| `tx_pool` | two nonces, two fees each, two ready and one waiting | for transactions of one tag: consistent indices, order of the iterator, no one waiting for a pruned tag, watchers told, stale ones leave |
| `storage_cache` | four blocks above the genesis on two branches, one key, three blocks remembered | no state gets a value of another block from the shared cache |

`NothingLeaks` ends with the first operation that is undone: a comment in
`RefWindow::revert_pending` says that a failed operation may leave nodes behind,
and it does.
The `CONSTRAINT` of `notifications` stops at a state mismatch: all its properties are
about what comes before.
`JournalFaithful` is checked on a fork of one block, where the journal has no
gaps; the violation needs two forks that reach the same level.

### Bounds

Two nodes are enough for competition for a slot; `MaxRx` and `MaxQueue` let a
call meet messages and Actions that were sent earlier. They bound the callers, not the manager: a handler that
queues messages is never cut short. Reputations of seven values contain
the threshold, both ends of the range and zero.

`Conn` has two connections, which is `MAX_CONNECTIONS_PER_PEER`; a lost one makes
room for another, so that runs go through any number. Two delays and two
questions can be under way: one that the entry refers to and one that is
obsolete. `MaxEvents` bounds what the remote adds to the events of a handler that
the behaviour has not seen, not what the handler itself answers; it is one in the
safety runs and two where liveness is checked, with one connection.

For the state database one block beyond `max_blocks` is pruned on every canonicalization, and two when a pin
has held one back; the trie nodes cover a node deleted for good, a node
deleted and inserted again, and a node inserted by two forks. The tree is a
constant; what varies is which blocks are imported, in which order, and what
happens in between. `MaxReaders` bounds the readers between `have_state_at` and `pin`,
`MaxPins` those that hold one block; different blocks can be held at the same time.
All properties of `statedb` but `JournalFaithful` have also been checked, everything switched on,
on a fork of two blocks (421,000 states) and on the tree of six blocks that is described
under the proofs (3.3 million), which take too long to be kept as runs.

Two levels of transactions and a client transaction under a runtime one are
needed before versions of a key can be skipped or merged; both happen at depth
two. `MaxSteps` and `MaxCalls` bound what the runtime does before the changes are
taken, long enough for a first attempt that writes inside a transaction and
fails, and a second one. The chain of `grandpa` is long enough for three changes
in a row, for a change that is still to come when its signal is finalized
(delay two), and for a fork that carries changes of its own, valid or not.
`tx_pool` has limits that a third transaction exceeds and a list of bans that a
third ban cuts; one verification and one block at a time are under way beside
the revalidation, for which two payloads can wait (`MaxPayloads`); `MaxLinks` cuts runs in which stale links pile up (see the
known disagreements). For the storage cache one key is enough, because keys meet
only where the cache is wiped and where its list of blocks is cut, whatever the
keys are; every block may write it or not. The branches fork above the first
block, so that a reader of the branch that is not canonical has an ancestor that
is, and `STATE_CACHE_BLOCKS` (12 in the code) is 3, less than the blocks there
are. One reader is enough: what it may do to the cache depends on its block and
on the best block at the end, and it can be any block in turn.
Deadlock checking is on in every run.

### Fairness

In `notifications_waits`: weak fairness of the network task (it reads a message of
the manager or handles a delay that has fired), of the end of a dial, of the
delivery of events of each connection, and of the task of each connection. All
are futures that the executor polls when they are woken; a dial and an outbound
substream have timeouts (`OPEN_TIMEOUT`), and a delay fires. No fairness of the
manager's decisions, of the remote, of the users or of lost connections is
assumed.

In `grandpa`: weak fairness of the importer's own steps; strong fairness of the
import of the chain's blocks (sync offers a block again until it is in), of a
write that succeeds, of the handling of commands and of commits of the voter's
set. Strong, because restarts and failures may come between any two steps, as
often as they like but not always. `FinalityReachesTip` is stated for chains
without forced changes, because a crash can leave the voter of a forced set
paused.

In `tx_pool`: weak fairness of blocks, of the notification future, of the worker
and of verifications, which are tasks the executor polls when they are woken.
Each condition names an action by the one variable that only this action
changes in this way: the actions themselves enumerate outcomes of recursive
operators.

## Findings

Three places where code and its comments or assertions disagree are listed in
`PROJECT.json` under `findings`, each with the run that shows it:

1. Journal indices with gaps lose blocks of the canonicalization window on
   restart (`statedb_journal_gap`).
2. The importer panics when the voter finalizes a block with a change between
   the importer's verification and its finalization (`grandpa_assertion`).
3. A remote that asks for a substream and gives it up before the manager has
   answered poisons the entry of the link (`notifications_mismatch`): the handler sends
   `CloseDesired` (`handler.rs:848-862`), which the behaviour expects of no `Incoming` entry
   (`behaviour.rs:1970`); the doc of `Poisoned` (149) says that a poisoned entry is never
   found unless there is a bug in the state machine.

### Known disagreements without a run

TLC shows these too; no run is kept for them.

- A reserved node that is disconnected for its reputation is not connected
  again until some other call allocates slots (`peerset/src/lib.rs:442`, against
  the comment at line 129).
- A reader can pin a block between the commit of its import and
  `apply_pending`, against the `debug_assert` of `noncanonical.rs:552`; in a release
  build the overlay does not note the pin, and the state goes when the fork is
  discarded. `PinnedReadable` is therefore about forks whose pin is in `overlay.pinned`.
- `pin` does not prevent the pruning of nodes that a fork shares with its
  canonical ancestor, while its doc says "Prevents pruning of specified block and its
  descendants." (`state-db/src/lib.rs:520`; the window looks only at its own blocks, 366).
  `PinnedReadable` states what does hold.
- A pin on a discarded block that is kept for a descendant takes away, when it is
  dropped, the reference of that descendant's pin (`noncanonical.rs:563-598`).
  `PinnedReadable` makes no statement about forks once that has happened (`stray`).
- Discarded forks and restarts that lose blocks leave empty levels, against
  "Empty levels are not allowed in self.levels" (`noncanonical.rs:528`). When the
  insertion of a block fails, `revert_insertions` panics at an empty level before that of the block
  (`noncanonical.rs:520`), or takes the last level away instead of the one it has emptied (531).
- `is_pruned` reports a block of a fork about to be discarded as present between the commit
  and `apply_pending`, when the commit may have deleted its last nodes; `LiveReadable` is
  about the descendants of the new canonical block in that moment.
- An append to a key that the same transaction has written does not record its
  extrinsic (`changeset.rs:404-430` against the comment at 149).
- The cached database transaction survives a rollback by `commit_or_rollback`,
  `exit_runtime` or an execution strategy, so that `drain_storage_changes` can
  return a transaction that does not hold the changes (`overlayed_changes/mod.rs:545`
  against the comment at 123).
- Finalizing the block that signals a forced change drops the change when a dead
  fork is pruned from the tree by the same finalization
  (`authorities.rs:526-536`; `ForcedChangeEnacted` fails with
  `OldSetStops = FALSE`).
- A crash around `Pause` leaves the old voter running, or the voter of a forced
  set paused (`finality-grandpa/src/lib.rs:1032-1046`).
- A removed ready transaction stays in the `unlocks` list of its provider
  (`ready.rs:311-317`: the inner `hash` shadows the outer one), so that the
  iterator may return a transaction twice after it came back.
- When the remote gives the substream up after the manager has accepted it and before
  the handler has, `CloseDesired` finds a connection that is `Opening` in an `Enabled` link, against the
  assertion at `behaviour.rs:1899` (`GivenUp`).
- A substream that is asked for on one connection while another one is closing
  makes the entry `Incoming`, where the `CloseResult` of the other connection is a
  mismatch (`behaviour.rs:2002`): it is dropped, and the connection stays `Closing` for the
  behaviour (`Overlaps`). It takes two connections.
- When a question is asked while an obsolete `Accept` is in the queue, the manager
  counts the link as connected, does not answer, and the entry stays `Incoming`
  until the connection is lost (`behaviour.rs:1048`: the obsolete answer makes the
  behaviour report a drop). `WaitsEnd` makes no statement about `Incoming` entries.
- `OpenDesiredByRemote` reaches a connection that is `Closing` in a disabled link,
  against the assertions at `behaviour.rs:1784` and `1829`, which allow only
  `OpeningThenClosing`. The model takes the arm as a release build does; `NoMismatch` counts
  it as a violation.
- `CustomProtocolClosed` is reported when the behaviour sends `Close` to the last open
  connection (`behaviour.rs:493`, `942`), while its doc says "when the last connection reports
  `NotifsHandlerOut::ClosedResult`" (90-91). `ApiFollows` follows the code: `is_open` is about
  connections that are `Open`, not `Closing`.
- `exit_runtime` rolls back the transactions that the runtime left open, as its warning and the
  test at `changeset.rs:841` say, while the docs at `changeset.rs:300` and `overlayed_changes/mod.rs:431`
  say "This commits all dangling transaction left open by the runtime." `ImplementsStack`
  follows the code and the test.
- When the connection that was opened first but listed second is lost, the users
  keep its sink although another one is open (`pos <= replacement_pos`,
  `behaviour.rs:1482` and `1921`). `ApiFollows` says that they hold some sink, not
  which.
- A waiting transaction keeps counting a tag as provided after its provider has
  left, and the iterator returns it before anyone provides the tag
  (`future.rs:82`, `ready.rs:206`, against the doc of `get` at `ready.rs:155`). It takes a
  transaction that joins two others, one of which is replaced by one that
  provides less, and `NonceTagsAssumption` excludes it.
- `Cache::sync` removes the values that retracted and enacted blocks wrote, but not
  their hashes (`storage_cache.rs:168-222`, against its doc at 163): after a
  reorganization `storage_hash` answers with the hash of the other branch.
  `HashTransparent` fails on the instance of `storage_cache`.
- When a final block is imported on a branch that is not the best one, `meta` is
  updated for the block and after it for its parent, which is the head that
  `apply_finality_with_block_hash` set (`client/db/src/lib.rs:1501` and `1555`): the parent
  is the best block and the finalized block is above it. The cache holds the
  values of the block; a state of the parent that is dropped adds its own, which
  states of the block then get. `CacheTransparent` fails with
  `FinalizedForks = TRUE`.
- Bans end only through `clear_stale`, which the node never calls; until the
  list overflows, a temporary ban is for ever. Submitting a transaction that is
  in the pool bans it too (`validated_pool.rs:157`, `verify_one` of `pool.rs`).

The following are consequences of the code that the models or their
assumptions leave out:

- `Backend::finalize_block` commits canonicalizations without `apply_pending` or
  `revert_pending` (`client/db/src/lib.rs:1772`). Only tests call it; the client
  finalizes through `commit_operation`.
- `Backend::revert` deletes the headers of the best chain while the overlay drops
  its top level (`client/db/src/lib.rs:1843`). `Reverts` assumes that the best block
  is on the top level. It leaves the storage cache as it is.
- When the first transaction of an import is refused for its priority, the
  waiting transactions that it had unlocked are lost without a notice
  (`base_pool.rs:338`). It takes a transaction with two tags, one wanted and one
  contested, and `NonceTagsAssumption` excludes it.
- `prune_known` passes over transactions that are not in the pool: their tags
  reach no waiting transaction (`pool.rs:238`). `NotStuckInFuture` is about the tags
  that `prune_tags` was called with.

## Proofs

`PeersetProofs` proves, for every finite set of nodes, every set of sets, all
limits, thresholds, ranges and configurations, that `Spec` implies:

- `TypeCorrect`: always `TypeOK`, in particular reputations within their width;
- `SlotAccountingCorrect`: always `SlotAccounting`;
- `ReservedInSyncCorrect`: always `ReservedInSync`;
- `OnlyReservedConnectedCorrect`: always `OnlyReservedConnected`.

The assumptions are those of the modules: the set of nodes is finite, the
constants have their types, the range of reputations contains zero and the
threshold is not positive.

None of the four is inductive alone. Slot counters are changed for nodes that
are not in `no_slot_nodes`, so their accounting needs `PeersState` to be well
typed; the reserved-only property needs the two reserved lists to be equal,
because `alloc_slots` connects from one list and `set_reserved_only`
disconnects by it, while slots are decided by the other; ages need to belong to
memberships without connection, or else `tick` would forget a connected node
and lose its slot. `Inv` is their conjunction: `DataInv` (type, ages and
slots of `PeersState`), the types of the other variables, and the two
properties of the reserved lists. There is one lemma per operator of
`PeersState`, which says that it preserves `DataInv` and what it does to the
connections and to `no_slot_nodes`; one lemma per handler; and `InvInit` and
`InvNext`, which put them together.

`PeersetPromises` proves what a step may do, from that invariant:

- `ConnectionsCheckedCorrect`: `ConnectionsChecked`, the slot limits and the bans;
- `ContractImplemented`: `ImplementsContract`, the refinement of `PeersetContract` that
  `Notifications` builds on, with the stronger promises about `incoming` and the
  Actions.

For each operator of `PeersState` a lemma says what it does to the slot counters;
`AllocSlotsEffect` says what an allocation does to counters, connections and
messages at once. The order in which hash maps are iterated is arbitrary, so
that the messages of a handler are an ordering of a set (`SetToSeqs`); the lemmas
about orderings show that one after the other they are again an ordering, and
that renaming their members to links keeps them one. `HandleActionKept` and
`NextKept` have one step per action.

`OverlayProofs` proves, for every set of keys, items and children and every
maximal depth, that `Spec` of `OverlayedChanges` implies:

- `VersionsAlignedCorrect`, `LockstepCorrect` and `TypeCorrect`: always
  `VersionsAligned`, `Lockstep` and `TypeOK`;
- `StackImplemented`: the specification of `TransactionStack`, with a stack of the
  views that the overlay would show at each depth.

The assumptions are those of the modules: the special values are no items, the
extrinsic index is a key, values hold at least one item.

The inductive invariant is `OverlayOK`: the three properties and `Protected`, that
in runtime mode there are at least as many open transactions as the client had
opened. Without it `exit_runtime` would roll back to a depth that does not
exist. The versions of a key and the dirty sets are tied by counting: a key has
as many versions as there are open transactions that wrote it, plus one if it
was written outside. What the overlay would show at depth `d` is therefore the
version whose index is the number of versions minus the number of dirty sets
above `d` that hold the key (`ValueAt`), and everything is proved about that
value. `SetAll` and `Overwrite` are what writing does to it, `Start`,
`RollbackTo` and `CommitTx` what the transactions do, `EnterMap` and `ExitMap` the two modes,
each with the fact that the changeset stays well formed. Lemmas about all
changesets of an overlay at once follow (`WriteTop` to `ExitAll`), and from them
one step per action, twice: `InvNext` for the invariant, `StackStep` for the
refinement.

`MachineProofs` proves, for every backend, every set of keys, children and
strategies, and every runtime (what it calls, in which order and how often),
that `MachineSpec` of `StateMachine` implies:

- `TransactionsBalancedCorrect` and `RootFreshCorrect`: always `TransactionsBalanced`
  and `RootFresh`;
- `RetryStartsCleanCorrect` and `FailedCallLeavesNothingCorrect`: the action properties
  `RetryStartsClean` and `FailedCallLeavesNothing`;
- `NextKeyExactCorrect`: always `NextKeyExact`.

The assumptions are those of `OverlayedChanges`, that keys are finitely many numbers, that the
backend holds values, and that the runtime writes to keys that exist.

The two action properties speak of `before`, which is long gone from the innermost
view when the call ends. `ViewsKept` says where it still is: the view below the
transaction of the api and, during a first execution, the view below the
transaction of the strategy show what the call began with. `MachineInv` is
`OverlayOK`, the shape of `call`, the two invariants and `ViewsKept`. Each call of the
runtime is a `RuntimeStep`: it leaves every view below the transactions of the
client alone (one lemma per kind of call, from the lemmas of `OverlayProofs`);
`RuntimeEffects` adds what happens to the cached root. `ClientStart`, `ClientClose`,
`ClientEnter` and `RuntimeExit` are the client's steps; `AttemptClosed`, `RetryKeeps`,
`EndKeeps` and `CallKeeps` follow one call from its beginning to its end. TLC has
checked `MachineInv` on the instance of `state_machine`.

`NextKeyExact` holds of every overlay, whatever invariant it has, but it is about a
recursion: `next_storage_key` passes over the keys that the overlay has deleted, one
by one. `NextTurnRight` shows that the least key that reading finds solves the
recursive equation, `NextUnique` that nothing else does: a turn goes on from a later
key of the overlay, and there are finitely many, so that the sets of keys still
ahead are a well-founded order.

`GrandpaProofs` proves, for every tree of blocks (infinite ones included), every
chain in it and all changes that the headers may signal, that `Spec` of
`Grandpa` implies always

- `SetsAgree`, `HandoffNeverMissed`, `DiskFollowsMemory`, `PendingKept`, `VotesStopAtHandoff`, `VoterCaughtUp` and `ForcedChangeEnacted`,

each under the hypothesis `OldSetStops`, the assumption on the rest of the
network that the run makes too. It is needed: without it a forced change can be
lost (see the known disagreements). The assumptions of the modules are that
`Blocks` and `Ancestors` are a tree with one genesis block, whose header signals
nothing, and that a block has finitely many ancestors.

The properties say that a node follows the network; the inductive invariant
says how. `SetInv(set, imp, fin)` relates an authority set to the imported
blocks and the finalized one: of the finalized chain exactly the changes
signalled above the one that brought the set are pending; a forced change waits
for a block that is not imported; what the finalized block has passed is
enacted. It holds of the set that everybody sees (`CurrentSet`, the old one
while the importer holds the lock), of the one on disk, and, with the block
that is being written counted as imported, of the one that the importer has
changed. The importer's call needs that its justification is of a set that was
current (`VerifyingInv`), because the voter may bring in the next set between
verification and finalization: such a stale justification is for a block below
the next change and makes nothing due (`StaleIsBelow`). `Told` says that the
changes in the queue come in the order of their sets and end with the current
one; a voter that finalizes the last block of a set is at the current one, so
nothing is left to tell (`NothingToTell`).

The argument about one set is in two lemmas: `CheckedKept` for the import of a
block, with a forced change that is the next set of the network (`ForcedIsNext`),
and `FinalizeKept` for finalization, where only the next set's change can be due
(`FinalizationFits`) and it is enacted (`DueIsEnacted`). Both rest on lemmas about
the fork tree. `Nested` says what `WellFormed` means without a choice;
`ImportTree` and `FinalizeTree` say that the tree stays nested and which nodes it
keeps. Then there is one lemma per action, and `InvNext` joins them.

Induction over heights is not available as a rule; `LeastNumber` (every nonempty
set of numbers has a least one, from the well-foundedness of finite subsets)
takes its place: the lowest pending change on a chain, the next set of the
network, a block at every height.

`NotificationsProofs` proves, for every set of connections, of delays and of
questions, and whatever the bound on events, that `Spec` of `Notifications` implies
always

- `Agreement`, `ApiFollows`, `RequestUnderWay` and `HandlersAgree`, which hold until the
  first state mismatch,
- `MismatchesKnown`: the first mismatch is in one of the two ways that it names.

There is no hypothesis about the remote or about schedules. The assumptions of the modules
are that there is one link and that
identifiers are numbers, not zero for connections and delays.

What is hard to state is what may be under way between the behaviour and a
handler, in both directions at once: a connection can be closing for the one and
opening for the other, with answers to earlier messages still in the queue.
`Step(q, e, q2)` says what an event does to the view that the behaviour has of a
connection, and `Leads(s, fr, q)` that the events `fr`, read one after the other, turn
the view `s` into `q`. `Settled(q, to, st)` lists the views that a handler in the state
`st` with the messages `to` agrees with; there are six kinds. `Wired` joins them: the
events under way lead the behaviour to a view that the handler agrees with. A
handler that emits an event adds a step at the end of the run (`LeadsAppend`), the
behaviour that reads one takes a step off its beginning (`LeadsTail`), and a lost
connection cuts it anywhere (`LeadsPrefix`). When the behaviour sends Open or Close it
changes its view ahead of the events: `LeadsOpened` and `LeadsShut` show that the same
events can be read from the new view as well. This is where `OpeningThenClosing` is
needed, and where `Disable_at_once`, the mutant of `Disable`, fails.

The inductive invariant `IInv` is `WireInv` (every connection is wired, every handler
has exactly the requests under way that it remembers), `EntryInv` (which states the
connections of an entry may be in, and that what the entry waits for exists) and
`ManagerInv`: of the messages that are not read at most one makes the network want
the link, the manager counts the link as connected exactly when the entry is a
requested one or such a message is on its way, never both; every answer is to a
question that is remembered, and the question of an `Incoming` entry is the only one
that is alive. `Agreement` is not inductive without the unread messages. What is always
true is `BeforeInv`: `IInv` as long as `expected` (`InvariantCorrect`). For the delivery of an event the
lemma `DeliverKeeps` has two ways out, `IInv'` or `Unfit`: an event of a kind that
`MismatchesKnown` names, at which `expected` becomes false; from then on it stays so
(`MismatchLasts`).

Every handler of an event gives an outcome, so the argument is one about outcomes:
`Sound` and `Told` say what an outcome has to be for `EntryInv` and `WireInv` to be kept
(`GoodKeeps`), `Managed` for `ManagerInv` (`ManagedKeeps`). For each handler a lemma shows
that its outcome is of this kind (`OpenDesiredFine`, `CloseDesiredFine`,
`ConnectionClosedFine` and so on); there is one lemma per action, and `IInvNext` joins
them. TLC has checked `IInv` on the instance of `notifications`.

`StorageCacheProofs` proves, for every tree of blocks (infinite ones included), every
set of keys, what the blocks write, any number of states in use and every number
of remembered blocks, that `Spec` of `StorageCache` implies always

- `CacheTransparent`,

under the hypothesis `~FinalizedForks`, that `seal_block` is not told to build a final block on
another branch than the best one; with such imports it is false (see the
known disagreements). The assumptions of the module are that the blocks are a tree
over the genesis block, that `None` is neither a block nor an operation, and the
types of the other constants.

`CacheTransparent` says nothing about the list of modifications, on which all
depends. The inductive invariant `IInv` says for which block the cache is (`Cached`:
the best one, but between the sync of the cache and the update of `meta` the one
that will be the best) and what the list means: every entry says what is so of
its block, numbers fall along the list, and an entry that counts as canonical is on the
chain of that block, with every block above it in the list (`Canonical`). Of a block that was
imported twice only the first entry counts, as `find` never sees another; a
lookup does not either, because it meets the blocks by falling number
(`WalkMeetsFirst`). Then a lookup that ends at a canonical block `h` has passed every
block of its own chain above `h` (`WalkDown`) and every block of the best chain above
`h` (`HigherFirst`), and none of them wrote the key (`HitValue`). That is why the cache
may forget the lowest entry without a word (`InsertedCanonical`): what it loses
lies below all others.

A new best block is two moves, one to its parent (`SyncGood`, which is about any
move of the head, and serves `SyncHead` too) and one to the block itself (`RecordBest`);
in between the entry that the block may have had already is left open, which is the set
`X` of `Canonical`. `DropKeeps` needs the import lock of `drop`: this is where
`drop_unlocked` fails. TLC has checked `IInv` on the instance of `storage_cache`.

`Chain` and `Walk` are recursive functions. Their equations are proved to have a
solution (`ChainExists` by the least sets closed under `Parent`, `WalkExists` by
induction over the length), what they compute by induction over the tree
(`TreeInduction`) or the list (`UpTo`), each as a statement about a set of blocks
or of numbers.

`StateDbProofs` proves, for every tree of blocks, every state of them, every
`max_blocks` and every bound on pins and readers, whatever may fail, crash, be reverted,
be read early or be imported on a discarded fork, that `Spec` of `StateDb` implies always

- `StateInv` (`StateInvCorrect`), `TypeOK` (`TypeCorrect`) and `DeathIndexExact`
  (`DeathIndexExactCorrect`);
- `NothingLeaks` (`NothingLeaksCorrect`): it ends when an operation is undone, because `revert_pending`
  does not put the keys that the reverted blocks had revived back into their rows;
- `ReferencesCounted` (`ReferencesCountedCorrect`), as long as `revert_insertions` has met
  the levels it expects, see below;
- `StoreInv` (`StatesStored`): the database holds the whole
  state of every block that has not left the pruning window, the transaction
  those of the blocks it leaves there;
- `CanonicalReadable` (`CanonicalReadableCorrect`) under the same condition as
  `ReferencesCounted`: a canonical block that `is_pruned` does not report can be read
  as a whole at every moment, also in the middle of an operation;
- `LiveReadable` (`LiveReadableCorrect`) under that condition: so can every block
  of the levels that has its ancestors there (`Attached`), of whatever fork; between the commit and
  `apply_pending` it is so for the descendants of the new canonical block.

The assumptions are that blocks are finitely many and a tree over the genesis
block, and that a state is a set of keys; the set of keys need not be finite.

`DeathIndexExact` is about one structure, but it is not inductive alone: a restart
rebuilds the window from the pruning journal, so the journal has to be known. `StateInv`
says what the three places that know the canonical chain have in common. The
rows of the window are consecutive blocks (`Linked`), the last of them is the head
(`Heads`), the first `Settled` of them are exactly the records in the database
(`DbFollows`), and those that are not pruned yet exactly the records in the
transaction (`TxnFollows`), each with its number; after the commit and before
`apply_pending` the database is the transaction. `Exact` is the index, and `Dead`
says that no key of a row is in the state of the head, nor in that of the last
settled block. `Dead` is what makes `import` right: a key that a block deletes is in the
state of its parent, so that it is in no row yet. It is also why `revert_pending` may
cut rows without looking at the others. `Room`, `NoHead` and `Phased` say what can
be pending in which phase. `NewWindowIs` shows that a start finds exactly the rows the
journal records, in order; `Restarted` that this is so from every state, in
particular between the commit and `apply_pending`.

`LeakInv` adds the data: what the database holds is in the state of its last
canonical block or dead (`DeadKeys`), deleted by a row of the window and not inserted
again by a later one, with the rows of the database counted for the database and
those of the transaction for the transaction. `Full` says that a row still has every such key;
this is what a failed operation destroys and a restart repairs.

`TreeInv` is about the canonicalization window. `CountedAs` is the property itself; to
discard a block with its descendants, level by level, the levels have to be the
tree: the blocks of level `i` are those of number `last_number + i` (`Numbered`), so that none is in
two levels and none is counted or discarded twice; the blocks waiting for
`apply_pending` are a chain through the levels from the first one on (`Links`), so that
every turn of `apply_canonicalizations` finds its block and never discards the next one
(`TurnLinks`). `Held`, the blocks in the levels and the retained ones, all have a header,
which is why a block that is inserted has never been counted (`InsertTree`). `revert_one` deletes
a header with the journal records of the last level; that a block left in the journal
still has its header (`JournalNumbered`) takes that the index of a block in memory is the
one in its record (`Matches`).

`revert_insertions` is the reason for the condition. When a level gets empty it
removes the last level; a `debug_assert_eq!` expects the two to be the same, and the
counters stay right as long as no level above holds a block. `in_order` says so, and
`CutTree` is the step that needs it; the invariant is `TreeKept`: `TreeInv` until that has
failed. It can fail: a restart loses the records behind an index that was discarded
(the finding of `statedb_journal_gap`), while the children of a lost block
are read again, and a block imported on a discarded fork has its parent
among the retained blocks. In both cases a later canonicalization can empty a level
with such an orphan above it, and when the insertion of a block in the empty level fails, the orphan
is removed in its place and its values stay counted. TLC, given the operations of these two scenarios
one by one on trees of eleven and ten blocks, ends in a state where the counters are wrong.

The last two theorems say what can be read, the canonical chain and the levels.
`StoreInv` is the half in the database. A key may be deleted with a row only if no
state from that row on has it (`AllDead`); `import` sees to it by taking a key that is
inserted again out of its row. A failed operation does not put such keys back,
but that only keeps them too long, and a restart reads rows that have every key that
is dead (`Full`), which with `Linked` gives `AllDead` again. `PendingReadable`
adds what is in memory: a canonical block whose values are not in the
database yet is among the pending ones, and its values are counted (`CountedAs`).
`LiveReadable` goes up level by level: a block has what it inserts
in memory and the rest from its parent, which is in the level below, or is the
last canonical block for the first level (`AttachedParent`).

It would be simpler to say that every block that `is_pruned` does not report can be read. That is
false: when one operation canonicalizes
several blocks and prunes, then between the commit and `apply_pending` a block of a
fork about to be discarded is still reported as present (its number is above the
best canonical one), and a key that was pruned may have been its last copy. After a restart
that lost journal records the children of a lost block are in the same position.
TLC finds the first case on a tree of six blocks (a chain of two, a fork of three that
shares its only key with the genesis block, `max_blocks = 1`), without failures,
restarts, reverts or pins; on the same tree, with all of them, it confirms
`CanonicalReadable`, `LiveReadable` and `PinnedReadable`.

The loops of the code are recursive functions in the model. `IsRecursion` and
`RecursionExists` show once that such a function exists and meets its equation; what a
loop does is then an induction with `UpTo`: `NewWindowIs`, `DiscardLevelIs`,
`TurnsAre` for `apply_canonicalizations`, `SubtreesAre` for the descent of
`discard_descendants`. For every operator on a record a lemma states the fields it
changes as a named shape (`ApplyShape`, `InsertShape`, `NoteShape` and so on), so that
the steps of the induction never open the records.

Only model-checked: liveness (`FinalityReachesTip`, `WaitsEnd` and the others),
which the prover cannot handle; of the state database `PinnedReadable` and
`JournalFaithful` (false for some trees, see the findings). `BasePool` and `TxPool` use recursive operators and stay with TLC.

## Not modelled

`PROJECT.json` lists every part that is left out with its reason. Inside the
modelled parts: the handshakes and the notifications themselves, with the
buffers of the sinks; the archive modes and `max_mem` of the state database; child
storage roots, proofs and changes tries of the state machine; imports without
state, and the sizes of entries, in the storage cache; hard forks of
authority sets, the rounds, votes and gossip of GRANDPA, and the requests for
justifications on start; reorganizations and the resubmission of retracted
transactions, answers of the runtime other than valid and stale, longevity and
limits in bytes of the transaction pool. The extrinsics recorded with values
are modelled, but the runs do not collect them (`CollectExtrinsics = FALSE`).

## Plan

Done: the peer set manager with its contract and its core theorems; the
notifications that rely on that contract, with the proofs of all their
invariants; the state
database, with the proofs about its pruning window, its reference counters and what can
be read; the storage cache with the proof of its invariant; nested storage transactions with their refinement, and the calls
into the runtime, with the proofs of both; GRANDPA authority sets from import to
voter, with the proofs of all their invariants; the transaction pool. Next, in
this order:

1. Proofs: `PinnedReadable` of the state database, which needs what `parents` and
   `pinned_insertions` hold of discarded blocks in addition to the levels.
2. `client/network-gossip`, the extra requests
   of sync, retracted blocks in the transaction pool.
3. The pallets `session`, `scheduler` and `balances`, and `primitives/allocator`.
