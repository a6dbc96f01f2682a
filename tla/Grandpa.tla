------------------------------ MODULE Grandpa -------------------------------
(***************************************************************************)
(* How a node follows the GRANDPA authority set: the block import of       *)
(* client/finality-grandpa/src/import.rs and the voter's finalization      *)
(* (environment.rs, lib.rs) share one authority set behind a lock, write   *)
(* it to disk with the blocks it belongs to, and hand every new set to the *)
(* voter through a queue of commands.                                      *)
(*                                                                         *)
(* The importer's call is split where it gives up the lock: the check of a *)
(* block's changes, the write of the block, the two reads that verify a    *)
(* justification, and the finalization.  The rest of the network is the    *)
(* set of justifications that exist, which depends on the chain alone.     *)
(***************************************************************************)
EXTENDS AuthoritySet

CONSTANTS Tip,             \* the chain up to Tip is the one that gets finalized
          Changes,         \* the changes that the header of a block may signal
          OldSetStops      \* no vote of a set at or above a forced change's signal

ASSUME TipAssumption == Tip \in Blocks

\* The genesis header signals nothing.
ASSUME ChangesAssumption ==
  /\ \A b \in Blocks : Changes[b] \subseteq Change
  /\ Changes[Genesis] = {NoChange}

VARIABLES sets,            \* external: the sets the network goes through, fixed by signal
          imported,        \* the blocks in the client's database
          finalized,       \* the last finalized block
          authority_set,   \* the shared authority set, in memory
          stored_set,      \* the same under AUTHORITY_SET_KEY
          voter,           \* the set that the voter runs with; is it paused
          stored_paused,   \* the voter state under SET_STATE_KEY is Paused
          commands,        \* the queue of voter commands
          importer         \* where the importer's call stands

chain == <<signal, sets>>

vars == <<chain, imported, finalized, authority_set, stored_set, voter, stored_paused,
          commands, importer>>

-----------------------------------------------------------------------------
(* The chain and the network *)

Canon == Ancestors[Tip] \cup {Tip}

\* The pallet keeps one pending change: the next one is signalled above the
\* block at which the last one takes effect, and twice the delay separates
\* forced changes.
schedule_change(sig) ==
  \A a, b \in Blocks :
     sig[a].kind # "none" /\ sig[b].kind # "none" /\ is_descendent_of(a, b) =>
       /\ Number(b) > Number(a) + sig[a].delay
       /\ sig[a].kind = "forced" /\ sig[b].kind = "forced" => Number(b) >= Number(a) + 2 * sig[a].delay

\* External: forced changes and lists that no node accepts.  The network
\* keeps the chain with the forced change, the median it names is below its
\* signal and never goes back, and no block with an invalid list is kept.
NetworkAssumption(sig) ==
  /\ \A b \in Blocks : sig[b].kind = "forced" => b \in Canon /\ sig[b].median < Number(b)
  /\ \A b \in Canon : sig[b].kind # "none" => sig[b].valid
  /\ \A a, b \in Canon : sig[a].kind = "forced" /\ sig[b].kind = "forced" /\ is_descendent_of(a, b)
                            => sig[a].median <= sig[b].median

\* A forced change drops the standard changes above its median.
Dropped(s) ==
  /\ ~IsForced(s)
  /\ \E f \in Canon : IsForced(f) /\ is_descendent_of(s, f) /\ effective_number(s) > signal[f].median

\* The sets that the network goes through: every node is to agree that the
\* set with id k is the one signalled by sets[k], the k-th of the changes of
\* the finalized chain that take effect.
NetworkChanges == {b \in Canon : Signals(b) /\ ~Dropped(b)}
NetworkSets ==
  {s \in [1 .. Cardinality(NetworkChanges) -> NetworkChanges] :
     \A i, j \in DOMAIN s : i < j => Number(s[i]) < Number(s[j])}

SetOf(k) == IF k = 0 THEN Genesis ELSE sets[k]
Ends(b) == IF IsForced(b) THEN signal[b].median ELSE effective_number(b)

\* External: set k can produce a justification for b.  A set votes above
\* the block where it started and up to the block where it hands over; it
\* does not live to finalize what a forced change drops.
Justified(b, k) ==
  /\ b \in Canon
  /\ k <= Len(sets)
  /\ k > 0 => Number(b) > Ends(SetOf(k))
  /\ k < Len(sets) =>
       LET next == SetOf(k + 1)
       IN  IF IsForced(next)
           THEN /\ Number(b) < IF OldSetStops THEN Number(next) ELSE effective_number(next)
                /\ \A s \in Canon : Signals(s) /\ is_descendent_of(s, next) /\ Dropped(s)
                                      => Number(b) < effective_number(s)
           ELSE Number(b) <= effective_number(next)

-----------------------------------------------------------------------------
(* The importer's call *)

Idle == [phase |-> "idle"]
Panicked == [phase |-> "panicked"]
NoSet == [set_id |-> -1]
NoJustification == -1

\* The write guard is held while a block that changed the set is written.
Locked == importer.phase = "writing" /\ importer.old # NoSet

Init ==
  /\ signal \in {sig \in [Blocks -> UNION {Changes[b] : b \in Blocks}] :
                   /\ \A b \in Blocks : sig[b] \in Changes[b]
                   /\ schedule_change(sig)
                   /\ NetworkAssumption(sig)}
  /\ sets \in NetworkSets
  /\ imported = {Genesis}
  /\ finalized = Genesis
  /\ authority_set = GenesisSet
  /\ stored_set = GenesisSet
  /\ voter = [set_id |-> 0, authorities |-> Genesis, paused |-> FALSE]
  /\ stored_paused = FALSE
  /\ commands = <<>>
  /\ importer = Idle

\* make_authorities_changes: the set with the block's own change added, then
\* the forced change that is due at this height or the standard change that
\* finalizing the block would enact.
WithChange(b) ==
  IF Signals(b) THEN add_pending_change(authority_set, b) ELSE authority_set

changes_ok(b) ==
  /\ Signals(b) => add_pending_change_ok(authority_set, b)
  /\ apply_forced_changes_ok(WithChange(b), b)
  /\ Triggered(WithChange(b), b) # {} \/ enacts_standard_change(WithChange(b), b) # "error"

\* import_block up to the write: on an error the guard restores the set and
\* nothing happened.  j is the set that signed a justification in the block.
MakeAuthoritiesChanges(b, j) ==
  /\ importer = Idle
  /\ b \notin imported
  /\ Ancestors[b] \subseteq imported
  /\ changes_ok(b)
  /\ LET forced == Triggered(WithChange(b), b)
         set    == IF forced = {} THEN WithChange(b)
                   ELSE apply_forced_changes(WithChange(b), CHOOSE c \in forced : TRUE)
     IN  /\ authority_set' = set
         /\ importer' = [phase    |-> "writing",
                         block    |-> b,
                         set_id   |-> j,
                         applied  |-> IF forced # {} THEN "forced"
                                      ELSE enacts_standard_change(set, b),
                         do_pause |-> IsForced(b),
                         old      |-> IF Signals(b) \/ forced # {} THEN authority_set ELSE NoSet]
  /\ UNCHANGED <<chain, imported, finalized, stored_set, voter, stored_paused, commands>>

Pause == [command |-> "Pause"]
ChangeAuthorities(set) ==
  [command |-> "ChangeAuthorities", set_id |-> set.set_id, authorities |-> set.current_authorities]

\* The call returns to sync, or goes on to the justification of the block.
Verify(b, j, enacts) ==
  [phase |-> "verifying", block |-> b, set_id |-> j, enacts |-> enacts]

\* The block is written together with the set it changed and, for a forced
\* change, the blank voter state of the new set; then the lock is released
\* and the voter told.  A change that waits drops the justification.
WriteBlock ==
  /\ importer.phase = "writing"
  /\ Number(importer.block) > Number(finalized)
  /\ imported' = imported \cup {importer.block}
  /\ stored_set' = IF importer.old = NoSet THEN stored_set ELSE authority_set
  /\ stored_paused' = (stored_paused /\ importer.applied # "forced")
  /\ commands' = commands
       \o (IF importer.do_pause THEN <<Pause>> ELSE <<>>)
       \o (IF importer.applied = "forced" THEN <<ChangeAuthorities(authority_set)>> ELSE <<>>)
  /\ importer' = IF importer.set_id = NoJustification \/ importer.applied = "waits" THEN Idle
                 ELSE Verify(importer.block, importer.set_id, importer.applied = "root")
  /\ UNCHANGED <<chain, finalized, authority_set, voter>>

\* Mutant: the old set is not put back.
write_fails_keep ==
  /\ importer.phase = "writing"
  /\ importer' = Idle
  /\ UNCHANGED <<chain, imported, finalized, authority_set, stored_set, voter, stored_paused,
                 commands>>

\* The client refuses the block (at or below the finalized height, or any
\* other error): dropping PendingSetChanges restores the old set.
WriteFails ==
  /\ importer.phase = "writing"
  /\ authority_set' = IF importer.old = NoSet THEN authority_set ELSE importer.old
  /\ importer' = Idle
  /\ UNCHANGED <<chain, imported, finalized, stored_set, voter, stored_paused, commands>>

\* JustificationImport::import_justification, called by sync.
ImportJustification(b, j) ==
  /\ importer = Idle
  /\ b \in imported
  /\ importer' = Verify(b, j, FALSE)
  /\ UNCHANGED <<chain, imported, finalized, authority_set, stored_set, voter, stored_paused,
                 commands>>

\* decode_and_verify_finalizes gets the set id and the authorities from two
\* reads of the lock; a justification of set j is signed by SetOf(j).
VerifySetId ==
  /\ importer.phase = "verifying"
  /\ importer' = IF authority_set.set_id = importer.set_id
                 THEN [importer EXCEPT !.phase = "verifying authorities"] ELSE Idle
  /\ UNCHANGED <<chain, imported, finalized, authority_set, stored_set, voter, stored_paused,
                 commands>>

VerifyAuthorities ==
  /\ importer.phase = "verifying authorities"
  /\ importer' = IF authority_set.current_authorities = SetOf(importer.set_id)
                 THEN [importer EXCEPT !.phase = "finalizing"] ELSE Idle
  /\ UNCHANGED <<chain, imported, finalized, authority_set, stored_set, voter, stored_paused,
                 commands>>

-----------------------------------------------------------------------------
(* finalize_block, called by the importer and by the voter *)

\* The block is on the finalized chain already: nothing to do.
AlreadyFinalized(b) == AtOrBelow(b, finalized)

\* The changes apply and the client can finalize the block.
Finalizable(b) ==
  /\ ~AlreadyFinalized(b)
  /\ apply_standard_changes_ok(authority_set, b)
  /\ is_descendent_of(finalized, b)

\* One database transaction: the finalized block, the set if it changed and
\* the blank voter state of a new set.
FinalizeBlock(b) ==
  LET res == apply_standard_changes(authority_set, b)
  IN  /\ ~Locked
      /\ Finalizable(b)
      /\ finalized' = b
      /\ authority_set' = res.set
      /\ stored_set' = IF res.changed THEN res.set ELSE stored_set

\* Mutant: the voter is not told.
importer_finalizes_silent ==
  /\ importer.phase = "finalizing"
  /\ FinalizeBlock(importer.block)
  /\ importer' = Idle
  /\ UNCHANGED <<chain, imported, voter, commands, stored_paused>>

\* The importer passes a new set on to the voter's queue.
ImporterFinalizes ==
  /\ importer.phase = "finalizing"
  /\ FinalizeBlock(importer.block)
  /\ LET new == authority_set'.set_id # authority_set.set_id
     IN  /\ commands' = IF new THEN Append(commands, ChangeAuthorities(authority_set')) ELSE commands
         /\ stored_paused' = (stored_paused /\ ~new)
         /\ importer' = IF ~new /\ importer.enacts THEN Panicked ELSE Idle
  /\ UNCHANGED <<chain, imported, voter>>

\* Finalized meanwhile: Ok, which the assertion takes for "no change".
ImporterRefinalizes ==
  /\ importer.phase = "finalizing"
  /\ AlreadyFinalized(importer.block)
  /\ importer' = IF importer.enacts THEN Panicked ELSE Idle
  /\ UNCHANGED <<chain, imported, finalized, authority_set, stored_set, voter, stored_paused,
                 commands>>

\* An error of the set, of the client or of the database: the old set is
\* put back.
ImporterFails ==
  /\ importer.phase = "finalizing"
  /\ ~AlreadyFinalized(importer.block)
  /\ importer' = Idle
  /\ UNCHANGED <<chain, imported, finalized, authority_set, stored_set, voter, stored_paused,
                 commands>>

\* A commit of the voter's set.  A new set is handled before the queue.
VoterFinalizes(b) ==
  /\ importer # Panicked
  /\ ~voter.paused
  /\ b \in imported
  /\ Justified(b, voter.set_id)
  /\ FinalizeBlock(b)
  /\ LET new == authority_set'.set_id # authority_set.set_id
     IN  /\ voter' = IF ~new THEN voter
                     ELSE [set_id      |-> authority_set'.set_id,
                           authorities |-> authority_set'.current_authorities,
                           paused      |-> FALSE]
         /\ stored_paused' = (stored_paused /\ ~new)
  /\ UNCHANGED <<chain, imported, commands, importer>>

-----------------------------------------------------------------------------
(* The voter's queue, and the node *)

\* VoterWork::handle_voter_command writes the voter state first.
handle_voter_command ==
  /\ importer # Panicked
  /\ commands # <<>>
  /\ LET c == Head(commands)
     IN  /\ voter' = IF c = Pause THEN [voter EXCEPT !.paused = TRUE]
                     ELSE [set_id |-> c.set_id, authorities |-> c.authorities, paused |-> FALSE]
         /\ stored_paused' = (c = Pause)
  /\ commands' = Tail(commands)
  /\ UNCHANGED <<chain, imported, finalized, authority_set, stored_set, importer>>

\* The node stops at any point, a panic of the importer included, and starts
\* from what load_persistent finds.
Restart ==
  /\ authority_set' = stored_set
  /\ voter' = [set_id      |-> stored_set.set_id,
               authorities |-> stored_set.current_authorities,
               paused      |-> stored_paused]
  /\ commands' = <<>>
  /\ importer' = Idle
  /\ UNCHANGED <<chain, imported, finalized, stored_set, stored_paused>>

SignedBy(b) == {k \in 0 .. Len(sets) : Justified(b, k)}

Next ==
  \/ \E b \in Blocks : \E j \in SignedBy(b) \cup {NoJustification} : MakeAuthoritiesChanges(b, j)
  \/ WriteBlock
  \/ WriteFails
  \/ \E b \in Blocks : \E j \in SignedBy(b) : ImportJustification(b, j)
  \/ VerifySetId
  \/ VerifyAuthorities
  \/ ImporterFinalizes
  \/ ImporterRefinalizes
  \/ ImporterFails
  \/ \E b \in Blocks : VoterFinalizes(b)
  \/ handle_voter_command
  \/ Restart

Spec == Init /\ [][Next]_vars

\* Sync offers the blocks of the chain until they are in, the database and
\* the tasks of the node make progress, and commits of the voter's set keep
\* coming; restarts and failures may be as many as they like, but not all.
ImporterStep ==
  \/ WriteBlock \/ WriteFails
  \/ VerifySetId \/ VerifyAuthorities
  \/ ImporterFinalizes \/ ImporterRefinalizes \/ ImporterFails
  \/ importer = Panicked /\ Restart

Fairness ==
  /\ WF_vars(ImporterStep)
  /\ SF_vars(\E b \in Canon : MakeAuthoritiesChanges(b, NoJustification))
  /\ SF_vars(WriteBlock)
  /\ SF_vars(handle_voter_command)
  /\ SF_vars(\E b \in Canon : VoterFinalizes(b))

FairSpec == Spec /\ Fairness

-----------------------------------------------------------------------------
(* Properties *)

\* The history that set k leaves: where each of the sets before it ended.
NetworkHistory(k) == [i \in 1 .. k |-> <<i - 1, Ends(SetOf(i))>>]

FollowsNetwork(set) ==
  /\ set.set_id <= Len(sets)
  /\ set.current_authorities = SetOf(set.set_id)
  /\ set.authority_set_changes = NetworkHistory(set.set_id)

\* Every node that follows the chain agrees on which authorities have which
\* set id and on where each set ended, whatever forks it saw and in which
\* order blocks, justifications, failures and restarts came: in memory, on
\* disk and in the voter (authorities.rs, apply_standard_changes and
\* apply_forced_changes).
SetsAgree ==
  /\ ~Locked => FollowsNetwork(authority_set)
  /\ FollowsNetwork(stored_set)
  /\ voter.authorities = SetOf(voter.set_id)

\* No justification of the current set is ever refused: for an imported block
\* above the finalized one, finalize_block applies the changes without an
\* error and enacts a change exactly at the block where the set ends.
HandoffNeverMissed ==
  \A b \in imported :
     ~Locked /\ Justified(b, authority_set.set_id) /\ Number(b) > Number(finalized) =>
       /\ Finalizable(b)
       /\ apply_standard_changes(authority_set, b).new_set <=>
            /\ authority_set.set_id < Len(sets)
            /\ LET next == SetOf(authority_set.set_id + 1)
               IN  ~IsForced(next) /\ Number(b) = effective_number(next)

\* The set on disk is the set in memory, whichever of import, finalization,
\* failure and restart came last; only the height below which the tree takes
\* no more changes may lag (it is not written on its own).
SameButHeight(a, b) ==
  /\ [a EXCEPT !.pending_standard_changes = EmptyTree] = [b EXCEPT !.pending_standard_changes = EmptyTree]
  /\ a.pending_standard_changes.parent = b.pending_standard_changes.parent
  /\ a.pending_standard_changes.best_finalized_number <= b.pending_standard_changes.best_finalized_number

DiskFollowsMemory == ~Locked => SameButHeight(stored_set, authority_set)

\* Pruning loses no change that the network is still to go through, in whatever
\* order the blocks of the forks came: once its block is imported it is pending
\* until it is enacted.  What is pending was signalled by an imported block, and
\* on the finalized chain its height is not passed; at most one forced change
\* waits on a chain, and the fork tree has each change below the closest one
\* before it.  Changes of a dead fork, whose blocks may be imported later, can be
\* pending as well, and never happen.
PendingKept ==
  ~Locked =>
    LET tree == authority_set.pending_standard_changes
        pending == nodes(tree) \cup authority_set.pending_forced_changes
    IN  /\ \A i \in DOMAIN sets : i > authority_set.set_id /\ sets[i] \in imported => sets[i] \in pending
        /\ WellFormed(tree)
        /\ pending \subseteq imported
        /\ \A r \in nodes(tree) :
              AtOrBelow(r, finalized) => effective_number(r) > Number(finalized)
        /\ \A a, b \in authority_set.pending_forced_changes : ~is_descendent_of(a, b)

\* environment.rs: the heights that the voter may vote for on the way from the
\* base of its round to the block best, the finality target.  The voting rule
\* may lower the vote, but not below the base.
best_chain_containing(base, best) ==
  LET limits == {n \in current_limits(authority_set, Number(base)) : n < Number(best)}
      target == IF limits = {} THEN Number(best) ELSE Min(limits)
  IN  {target} \cup Number(base) .. target - 1

\* The changes that are to take effect on the chain of t.
ChangesBelow(t) == {c \in nodes(authority_set.pending_standard_changes) : AtOrBelow(c, t)}

\* No vote of this node goes past the block at which a pending change takes
\* effect on the chain it votes for, when its round starts at the finalized
\* block or at another that is not past one either: what the rest of the network
\* relies on.
VotesStopAtHandoff ==
  \A base, t \in imported :
     /\ ~Locked /\ voter.set_id = authority_set.set_id
     /\ AtOrBelow(finalized, base) /\ AtOrBelow(base, t)
     /\ base = finalized \/ \A c \in ChangesBelow(t) : Number(base) <= effective_number(c)
     => \A c \in ChangesBelow(t) : \A n \in best_chain_containing(base, t) : n <= effective_number(c)

\* Once the importer has returned and the queue is empty the voter runs the
\* current set: no new set is lost between the two that can enact it.
VoterCaughtUp ==
  importer = Idle /\ commands = <<>> => voter.set_id = authority_set.set_id

\* A node that has the block at which a forced change takes effect has the
\* set that it brings, or a later one: forced changes are enacted by import
\* alone, so no node may lose one before (apply_standard_changes is to keep
\* those that "are part of this branch").
ForcedChangeEnacted ==
  \A i \in DOMAIN sets :
     IsForced(sets[i])
       /\ (\E b \in imported : AtOrBelow(sets[i], b) /\ Number(b) = effective_number(sets[i]))
         => stored_set.set_id >= i

\* Finality is never lost for good: unless a forced change is involved, every
\* handoff is made and the chain is finalized up to its tip.
FinalityReachesTip ==
  (\A b \in Blocks : ~IsForced(b)) => <>(finalized = Tip)

\* import.rs:684, the assertion of import_justification: "returns Ok when no
\* authority set change should be enacted; qed;".
AssertionHolds == importer # Panicked
=============================================================================
