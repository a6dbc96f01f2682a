------------------------------- MODULE StateDb -------------------------------
(***************************************************************************)
(* The state database (client/state-db/src/lib.rs) and the backend that    *)
(* drives it (client/db/src/lib.rs), for PruningMode::Constrained.         *)
(*                                                                         *)
(* Import operations run one at a time, under the import lock: they call   *)
(* canonicalize_block and insert_block, which change the in-memory         *)
(* structures and return what is to be written, then commit everything in  *)
(* one database transaction, and then apply the pending changes in memory, *)
(* or revert them if the operation has failed.  Readers do not take that   *)
(* lock: they check that a state is available, pin it, read it and unpin   *)
(* it at any time in between.  The process may stop anywhere and start     *)
(* again from what the database holds.                                     *)
(*                                                                         *)
(* The transaction under way is represented by the database it would       *)
(* produce; only the columns STATE, STATE_META and KEY_LOOKUP are kept.    *)
(***************************************************************************)
EXTENDS RefWindow

CONSTANTS
  max_blocks,   \* Constraints::max_blocks, the size of the pruning window
  MaxPins,      \* bound: references held to one block at a time
  MaxReaders,   \* bound: readers between have_state_at and pin at a time
  Failures,     \* whether operations may fail before they are committed
  Crashes,      \* whether the process may stop and start again
  Reverts       \* whether blocks may be reverted

ASSUME WindowAssumption == {max_blocks, MaxPins, MaxReaders} \subseteq Nat
ASSUME EnvironmentAssumption == {Failures, Crashes, Reverts} \subseteq BOOLEAN

VARIABLES
  overlay,   \* StateDbSync::non_canonical
  window,    \* StateDbSync::pruning
  pinned,    \* StateDbSync::pinned, 0 where there is no entry
  db,        \* the database
  txn,       \* the database the transaction under way would produce
  phase,     \* how far the import operation under way has got
  checked,   \* blocks whose state a reader has found available and is about to pin
  past       \* history: which of Events have happened (no action depends on it)

vars == <<overlay, window, pinned, db, txn, phase, checked, past>>

Databases ==
  [ headers         : SUBSET Block,
    data            : SUBSET Key,
    journal         : SUBSET (Nat \X Nat \X Block),
    last_hash       : Block \cup {NoBlock},
    last_number     : Nat \cup {-1},
    pruning_journal : SUBSET (Nat \X Block),
    last_pruned     : Nat \cup {-1} ]

\* What the properties have to know of the past:
\*   undone    an operation has failed and its changes were reverted,
\*   disorder  ... when the levels were not as revert_insertions expects them
\*             (it panics, or removes a level that is still in use),
\*   stray     a block got into the levels without its parent, or a block of
\*             a discarded fork was pinned, while it was kept for another.
Events == {"undone", "disorder", "stray"}

Phases == {"idle", "finalizing", "inserted", "closing", "committed"}

-----------------------------------------------------------------------------
(* StateDbSync                                                             *)

best_canonical == last_canonicalized_block_number(overlay)

is_pruned(b) ==
  IF Number(b) > best_canonical THEN ~have_block(overlay, b)
  ELSE Number(b) < pending(window) \/ ~window_have_block(window, b)

\* Mutant: pinned blocks are pruned like any other.
prune_count_unpinned(w, P) ==
  IF window_size(w) > max_blocks THEN window_size(w) - max_blocks ELSE 0

\* The number of rows `prune` prunes from window w: it stops when the window
\* is small enough or the next block is pinned.
prune_count(w, P) ==
  CHOOSE n \in 0 .. window_size(w) :
    LET next(i) == w.death_rows[w.pending_prunings + i + 1].hash
    IN  /\ window_size(w) - n <= max_blocks \/ next(n) \in P
        /\ \A i \in 0 .. n - 1 : window_size(w) - i > max_blocks /\ next(i) \notin P

\* StateDbSync::get finds the key.
Available(k) == have_value(overlay, k) \/ k \in db.data

\* The whole state of block b can be read.
Readable(b) == \A k \in State[b] : Available(k)

-----------------------------------------------------------------------------
(* Import operations                                                       *)

\* What the commit set of insert_block adds to a transaction.
insert_commit(t, b) ==
  LET key == <<Number(b), insert_index(overlay, b)>>
  IN  [t EXCEPT
         !.headers = @ \cup {b},
         !.journal = {r \in @ : <<r[1], r[2]>> # key} \cup {<<key[1], key[2], b>>},
         !.last_hash   = IF assumes_parent(overlay, b) THEN ParentOf(b) ELSE @,
         !.last_number = IF assumes_parent(overlay, b) THEN Number(b) - 1 ELSE @]

\* What the commit set of canonicalize_block adds to a transaction, when it
\* leaves window w after pruning n rows of it.
canonicalize_commit(t, b, w, n) ==
  LET number == note_canonical_number(window)
      first  == pending(w)
  IN  [t EXCEPT
         !.data    = (@ \cup Inserted(b)) \ prunable_keys(w, n),
         !.journal = {r \in @ : <<r[1], r[2]>> \notin discarded_journals(overlay, b)},
         !.last_hash   = b,
         !.last_number = canonicalized_number(overlay),
         !.pruning_journal = {r \in {q \in @ : q[1] # number} \cup {<<number, b>>} :
                                r[1] \notin first .. first + n - 1},
         !.last_pruned = IF n > 0 THEN first + n - 1 ELSE @]

\* The block operations canonicalize on top of.
canonical_head ==
  IF overlay.pending_canonicalizations = <<>> THEN overlay.last_hash
  ELSE Last(overlay.pending_canonicalizations)

\* Blocks of the levels without their parent.
Orphans(n) == {b \in InLevels(n) : ParentOf(b) \notin InLevels(n) \cup {n.last_hash}}

\* The past after an event, if condition e holds.
Happened(event, e) == past \cup {x \in {event} : e}

\* note_finalized or force_delayed_canonicalize: first the blocks the
\* operation finalizes, and at the end the imported block itself or the one
\* whose finality is overdue.
canonicalize_block(b) ==
  LET w == note_canonical(window, b)
      n == prune_count(w, {c \in Block : pinned[c] > 0})
  IN  /\ phase \in {"idle", "finalizing", "inserted"}
      /\ canonicalizable(overlay, b)
      /\ ParentOf(b) = canonical_head
      /\ overlay' = canonicalize(overlay, b)
      /\ window' = prune_many(w, n)
      /\ txn' = canonicalize_commit(txn, b, w, n)
      /\ phase' = IF phase = "inserted" THEN "closing" ELSE "finalizing"
      /\ UNCHANGED <<pinned, db, checked, past>>

\* A block is imported on top of one whose state is available.
insert_block(b) ==
  /\ phase \in {"idle", "finalizing"}
  /\ b \notin txn.headers
  /\ b # Genesis => ParentOf(b) \in txn.headers /\ ~is_pruned(ParentOf(b))
  /\ insertable(overlay, b)
  /\ overlay' = insert(overlay, b)
  /\ txn' = insert_commit(txn, b)
  /\ phase' = "inserted"
  /\ past' = Happened("stray", Orphans(overlay') # {})
  /\ UNCHANGED <<window, pinned, db, checked>>

\* try_commit_operation writes the transaction; the genesis block has been
\* finalized in the operation that imports it.
commit ==
  /\ phase \in {"finalizing", "inserted", "closing"}
  /\ txn.last_hash # NoBlock
  /\ db' = txn
  /\ phase' = "committed"
  /\ UNCHANGED <<overlay, window, pinned, txn, checked, past>>

\* commit_operation after a success...
apply_pending ==
  /\ phase = "committed"
  /\ overlay' = noncanonical_apply_pending(overlay)
  /\ window' = window_apply_pending(window)
  /\ phase' = "idle"
  /\ UNCHANGED <<pinned, db, txn, checked, past>>

\* ... and after an error.
revert_pending ==
  /\ Failures /\ phase \in {"finalizing", "inserted", "closing"}
  /\ overlay' = noncanonical_revert_pending(overlay)
  /\ window' = window_revert_pending(window)
  /\ txn' = db
  /\ phase' = "idle"
  /\ past' = Happened("disorder", ~in_order(overlay)) \cup {"undone"}
  /\ UNCHANGED <<pinned, db, checked>>

\* One turn of the loop of Backend::revert, where b is the best block.  It is
\* a command of its own, not run while states are in use.
revert_one(b) ==
  /\ Reverts /\ phase = "idle" /\ \A c \in Block : pinned[c] = 0
  /\ overlay.levels # <<>> /\ b \in Hashes(Last(overlay.levels))
  /\ ~is_pruned(ParentOf(b))
  /\ overlay' = noncanonical_revert_one(overlay)
  /\ db' = [db EXCEPT !.headers = @ \ {b},
                      !.journal = {r \in @ : <<r[1], r[2]>> \notin reverted_journals(overlay)}]
  /\ txn' = db'
  /\ UNCHANGED <<window, pinned, phase, checked, past>>

-----------------------------------------------------------------------------
(* Readers                                                                 *)

\* state_at finds the header of the block and asks have_state_at (there are
\* readers once the client has been built, with the genesis block in place)...
have_state_at(b) ==
  /\ overlay.last_hash # NoBlock
  /\ b \in db.headers \ checked /\ Cardinality(checked) < MaxReaders
  /\ ~is_pruned(b)
  /\ checked' = checked \cup {b}
  /\ UNCHANGED <<overlay, window, pinned, db, txn, phase, past>>

\* ... and then pins the block, unless its state has been discarded since.
pin(b) ==
  /\ b \in checked /\ pinned[b] < MaxPins
  /\ checked' = checked \ {b}
  /\ IF have_block(overlay, b) \/ window_have_block(window, b)
     THEN /\ pinned' = [pinned EXCEPT ![b] = @ + 1]
          /\ overlay' = IF pinned[b] = 0 THEN noncanonical_pin(overlay, b) ELSE overlay
          /\ past' = Happened("stray", pinned[b] = 0 /\ b \in Retained(overlay))
     ELSE UNCHANGED <<pinned, overlay, past>>
  /\ UNCHANGED <<window, db, txn, phase>>

\* The RefTrackingState is dropped.
unpin(b) ==
  /\ pinned[b] > 0
  /\ pinned' = [pinned EXCEPT ![b] = @ - 1]
  /\ overlay' = IF pinned[b] = 1 THEN noncanonical_unpin(overlay, b) ELSE overlay
  /\ UNCHANGED <<window, db, txn, phase, checked, past>>

-----------------------------------------------------------------------------
\* The process stops, and starts again with StateDbSync::new.
restart ==
  /\ Crashes
  /\ overlay' = NewOverlay(db.journal, db.last_hash, db.last_number)
  /\ window' = NewWindow(db.pruning_journal, db.last_pruned)
  /\ pinned' = [b \in Block |-> 0]
  /\ txn' = db
  /\ phase' = "idle"
  /\ checked' = {}
  /\ past' = Happened("stray", Orphans(overlay') # {})
  /\ UNCHANGED db

EmptyDb ==
  [ headers |-> {}, data |-> {}, journal |-> {}, last_hash |-> NoBlock, last_number |-> -1,
    pruning_journal |-> {}, last_pruned |-> -1 ]

Init ==
  /\ db = EmptyDb /\ txn = EmptyDb
  /\ overlay = NewOverlay({}, NoBlock, -1)
  /\ window = NewWindow({}, -1)
  /\ pinned = [b \in Block |-> 0]
  /\ phase = "idle" /\ checked = {} /\ past = {}

Next ==
  \/ \E b \in Block :
       \/ canonicalize_block(b) \/ insert_block(b) \/ revert_one(b)
       \/ have_state_at(b) \/ pin(b) \/ unpin(b)
  \/ commit \/ apply_pending \/ revert_pending
  \/ restart

Spec == Init /\ [][Next]_vars
-----------------------------------------------------------------------------
(* Properties                                                              *)

\* The variables have their types; that the counters never go below zero is
\* what keeps `*counter -= 1` and `entry.get_mut().1 -= 1` from wrapping.
TypeOK ==
  /\ overlay \in Overlays
  /\ window \in RefWindows
  /\ pinned \in [Block -> Nat]
  /\ db \in Databases /\ txn \in Databases
  /\ phase \in Phases
  /\ checked \subseteq Block
  /\ past \subseteq Events

\* A canonical block that is_pruned does not report can be read as a whole at
\* every moment, from the moment it is canonicalized in memory: before, between
\* and after the steps of an operation, after failed operations and after
\* restarts, as long as revert_insertions has met the levels it expects.
CanonicalReadable ==
  "disorder" \notin past =>
    \A b \in Block : Number(b) <= best_canonical /\ ~is_pruned(b) => Readable(b)

\* Every block from b down to the last canonical one is in memory.
Attached(b) ==
  \A a \in Ancestors[b] :
    Number(a) >= overlay.last_number => a \in InLevels(overlay) \cup {overlay.last_hash}

\* So can every block that waits to be canonicalized, whatever its fork, unless a
\* restart or its import on a discarded fork has left it without its ancestors.
\* Between the commit and apply_pending it is so for the descendants of the new
\* canonical block, for the others are about to be discarded and the commit may
\* have pruned what they share with it.
LiveReadable ==
  "disorder" \notin past =>
    \A b \in InLevels(overlay) :
      Attached(b) /\ (phase # "committed" \/ canonical_head \in Ancestors[b]) => Readable(b)

\* The canonical block a block descends from last.
Base(b) ==
  CHOOSE c \in Ancestors[b] \cap Ancestors[db.last_hash] :
    \A d \in Ancestors[b] \cap Ancestors[db.last_hash] : d \in Ancestors[c]

\* A pinned state can be read as a whole: that of a canonical block however
\* far the chain goes on, in every schedule.  That of any other block can be
\* read whatever happens to its fork, as long as the canonical block it is based
\* on has not left the pruning window, if the pin has been noted in the overlay
\* (it is not between the commit and apply_pending) and nobody has used a
\* discarded fork that was only kept for a pin.
PinnedReadable ==
  \A b \in Block :
    /\ pinned[b] > 0
    /\ \/ b \in Ancestors[db.last_hash]
       \/ /\ b \in overlay.pinned /\ past \cap {"disorder", "stray"} = {}
          /\ db.last_pruned <= Number(Base(b))
    => Readable(b)

\* The reference counter of a value is the number of blocks in memory that
\* insert it, those kept for their pins included: no value is dropped too
\* early, none is left behind, and "Trying to discard missing value" never
\* happens, whatever is imported, canonicalized, undone, pinned, unpinned and
\* lost in restarts, as long as revert_insertions has met the levels it expects.
ReferencesCounted ==
  "disorder" \notin past =>
    \A k \in Key :
      overlay.values[k] =
        Cardinality({b \in InLevels(overlay) \cup Retained(overlay) : k \in Inserted(b)})

\* The index of the pruning window says in which row each key is: `import`
\* subtracts pending_number from it and takes the row without a check.
DeathIndexExact ==
  \A k \in Key : \A n \in 0 .. note_canonical_number(window) :
    window.death_index[k] = n <=>
      \E i \in DOMAIN window.death_rows :
        k \in window.death_rows[i].deleted /\ window.pending_number + i - 1 = n

\* Nothing stays in the database for ever: every node is one of the last
\* canonical state, or waits in the pruning window to be deleted.  (An operation
\* that is undone leaves nodes behind: revert_pending does not put the keys that
\* its blocks had inserted again back into their death rows.)
NothingLeaks ==
  "undone" \notin past /\ phase = "idle" /\ db.last_hash # NoBlock =>
    db.data \subseteq State[db.last_hash]
                        \cup UNION {window.death_rows[i].deleted : i \in DOMAIN window.death_rows}

\* "The tree is journaled to the backing database and rebuilt on startup":
\* between operations, a restart would bring back the same blocks in the
\* same levels and the same pruning window.
Rebuilt == NewOverlay(db.journal, db.last_hash, db.last_number)

JournalFaithful ==
  phase = "idle" /\ past \cap {"disorder", "stray"} = {} =>
    /\ InLevels(overlay) = InLevels(Rebuilt)
    /\ overlay.last_hash = Rebuilt.last_hash /\ overlay.last_number = Rebuilt.last_number
    /\ LET w == NewWindow(db.pruning_journal, db.last_pruned)
       IN  /\ w.pending_number = window.pending_number
           /\ Len(w.death_rows) = Len(window.death_rows)
           /\ \A i \in DOMAIN w.death_rows :
                /\ w.death_rows[i].hash = window.death_rows[i].hash
                /\ window.death_rows[i].deleted \subseteq w.death_rows[i].deleted
=============================================================================
