---------------------------- MODULE AuthoritySet ----------------------------
(***************************************************************************)
(* The GRANDPA authority set of client/finality-grandpa/src/authorities.rs *)
(* and the changes to it that blocks signal.                               *)
(*                                                                         *)
(* A list of authorities is named by the block that signalled it, or       *)
(* Genesis.  signal[b] is the change in the header of b (NoChange for      *)
(* none): its kind, its delay in blocks, for a forced change the median    *)
(* last finalized number, and whether its list of authorities is valid.    *)
(* The headers never change; they are a variable so that one run ranges    *)
(* over the chains that the runtime can produce.                           *)
(***************************************************************************)
EXTENDS ForkTree, Sequences

VARIABLE signal

NoChange == [kind |-> "none"]
Standard(delay) == [kind |-> "standard", delay |-> delay, valid |-> TRUE]
Forced(delay, median) ==
  [kind |-> "forced", delay |-> delay, median |-> median, valid |-> TRUE]
Empty == [kind |-> "standard", delay |-> 0, valid |-> FALSE]

Change ==
  {NoChange}
    \cup [kind : {"standard"}, delay : Nat, valid : BOOLEAN]
    \cup [kind : {"forced"}, delay : Nat, median : Nat, valid : BOOLEAN]

Signals(b) == signal[b].kind # "none"
IsForced(b) == signal[b].kind = "forced"

\* PendingChange::effective_number
effective_number(b) == Number(b) + signal[b].delay

Genesis == CHOOSE b \in Blocks : Ancestors[b] = {}

\* All forks start at one block.
ASSUME GenesisAssumption ==
  \E g \in Blocks : Ancestors[g] = {} /\ \A b \in Blocks \ {g} : g \in Ancestors[b]

\* AuthoritySet::genesis
GenesisSet ==
  [current_authorities      |-> Genesis,
   set_id                   |-> 0,
   pending_standard_changes |-> EmptyTree,
   pending_forced_changes   |-> {},
   authority_set_changes    |-> <<>>]

\* add_standard_change refuses what the fork tree refuses; add_forced_change
\* refuses a second forced change on a chain; add_pending_change refuses an
\* invalid list first.
add_pending_change_ok(set, b) ==
  /\ signal[b].valid
  /\ IF IsForced(b)
     THEN \A c \in set.pending_forced_changes : ~AtOrBelow(c, b)
     ELSE import_ok(set.pending_standard_changes, b)

add_pending_change(set, b) ==
  IF IsForced(b)
  THEN [set EXCEPT !.pending_forced_changes = @ \cup {b}]
  ELSE [set EXCEPT !.pending_standard_changes = import(@, b)]

\* Mutant: the latest of the pending changes limits the vote.
current_limits_latest(set, min) ==
  LET all == {effective_number(r) : r \in roots(set.pending_standard_changes)}
  IN  {n \in all : n >= min /\ \A o \in all : o <= n}

\* AuthoritySet::current_limit, as the set of candidates whose minimum it is.
current_limits(set, min) ==
  {n \in {effective_number(r) : r \in roots(set.pending_standard_changes)} : n >= min}

\* The forced change that importing b triggers: effective at b's height and
\* signalled by b or below it.  add_forced_change leaves at most one.
Triggered(set, b) ==
  {c \in set.pending_forced_changes :
      effective_number(c) = Number(b) /\ AtOrBelow(c, b)}

\* AuthoritySet::apply_forced_changes fails while a standard change that the
\* forced one builds on is pending.
apply_forced_changes_ok(set, b) ==
  \A c \in Triggered(set, b), r \in roots(set.pending_standard_changes) :
     ~(effective_number(r) <= signal[c].median /\ is_descendent_of(r, c))

\* Mutant: pending standard changes outlive the set.
apply_forced_keep(set, c) ==
  [set EXCEPT !.current_authorities = c,
              !.set_id = @ + 1,
              !.pending_forced_changes = {},
              !.authority_set_changes = Append(@, <<set.set_id, signal[c].median>>)]

apply_forced_changes(set, c) ==
  [current_authorities      |-> c,
   set_id                   |-> set.set_id + 1,
   pending_standard_changes |-> EmptyTree,
   pending_forced_changes   |-> {},
   authority_set_changes    |->
     Append(set.authority_set_changes, <<set.set_id, signal[c].median>>)]

\* AuthoritySet::apply_standard_changes on the finalization of b.
apply_standard_changes_ok(set, b) ==
  LET tree == set.pending_standard_changes
  IN  finalize_ok(tree, b, {c \in nodes(tree) : effective_number(c) <= Number(b)})

\* Mutant: the arguments of is_descendent_of swapped.
forced_kept_swapped(set, b) ==
  {c \in set.pending_forced_changes :
      effective_number(c) > Number(b) /\ is_descendent_of(c, b)}

\* Forced changes are looked at only when the tree of standard ones changed.
forced_kept(set, b) ==
  {c \in set.pending_forced_changes :
      effective_number(c) > Number(b) /\ is_descendent_of(b, c)}

apply_standard_changes(set, b) ==
  LET tree   == set.pending_standard_changes
      due    == {c \in nodes(tree) : effective_number(c) <= Number(b)}
      res    == finalize_with_descendent_if(tree, b, due)
      pruned == [set EXCEPT
                   !.pending_standard_changes = res.tree,
                   !.pending_forced_changes = IF res.changed THEN forced_kept(set, b) ELSE @]
      new    == [pruned EXCEPT
                   !.current_authorities = CHOOSE c \in res.enacted : TRUE,
                   !.set_id = @ + 1,
                   !.authority_set_changes = Append(@, <<set.set_id, Number(b)>>)]
  IN  [set |-> IF res.enacted = {} THEN pruned ELSE new,
       changed |-> res.changed,
       new_set |-> res.enacted # {}]

\* AuthoritySet::enacts_standard_change for a block about to be imported:
\* an error, no change, a change that waits for another, or one that is next.
enacts_standard_change(set, b) ==
  LET tree   == set.pending_standard_changes
      due    == {c \in nodes(tree) : effective_number(c) = Number(b)}
      found  == EnactedAnywhere(tree, b, due)
  IN  CASE ~finalizes_any_ok(tree, b, due) -> "error"
        [] found = {}                      -> "none"
        [] found \cap roots(tree) # {}     -> "root"
        [] OTHER                           -> "waits"
=============================================================================
