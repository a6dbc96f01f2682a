------------------------------ MODULE RefWindow ------------------------------
(***************************************************************************)
(* The pruning window of the state database (client/state-db/src/          *)
(* pruning.rs): for each of the last canonical blocks, the keys that may   *)
(* be deleted from the database once the block leaves the window.  Keys    *)
(* that are inserted again leave the window (`count_insertions`, as for    *)
(* every database that does not count references itself).                  *)
(***************************************************************************)
EXTENDS NonCanonical

DeathRow == [hash : Block, deleted : SUBSET Key]

\* RefWindow; death_index[k] is -1 where the index has no entry.
RefWindows ==
  [ death_rows                : Seq(DeathRow),
    death_index               : [Key -> Nat \cup {-1}],
    pending_number            : Nat,
    pending_canonicalizations : Nat,
    pending_prunings          : Nat ]

\* Mutant: keys that are inserted again stay in their death rows.
import_only_deleted(w, b) ==
  LET imported == w.pending_number + Len(w.death_rows)
  IN  [w EXCEPT
         !.death_index = [k \in Key |-> IF k \in Deleted(b) THEN imported ELSE @[k]],
         !.death_rows  = Append(@, [hash |-> b, deleted |-> Deleted(b)])]

\* A death row without keys K.
without(r, K) == [r EXCEPT !.deleted = @ \ K]

import(w, b) ==
  LET revived  == {k \in Inserted(b) : w.death_index[k] # -1}
      imported == w.pending_number + Len(w.death_rows)
      row(i)   == {k \in revived : w.death_index[k] - w.pending_number + 1 = i}
  IN  [w EXCEPT
         !.death_index = [k \in Key |-> IF k \in Deleted(b) THEN imported
                                        ELSE IF k \in revived THEN -1 ELSE @[k]],
         !.death_rows  = Append([i \in DOMAIN @ |-> without(@[i], row(i))],
                                [hash |-> b, deleted |-> Deleted(b)])]

window_size(w) == Len(w.death_rows) - w.pending_prunings

pending(w) == w.pending_number + w.pending_prunings

window_have_block(w, b) ==
  \E i \in w.pending_prunings + 1 .. Len(w.death_rows) : w.death_rows[i].hash = b

\* The journal key note_canonical writes to.
note_canonical_number(w) == w.pending_number + Len(w.death_rows)

note_canonical(w, b) == [import(w, b) EXCEPT !.pending_canonicalizations = @ + 1]

\* Mutant: only the first of the rows is looked at.
prunable_keys_first(w, n) ==
  UNION {w.death_rows[i].deleted : i \in {w.pending_prunings + 1} \cap 1 .. w.pending_prunings + n}

\* The keys the first n rows that are not pruned yet delete, and the window
\* after prune_one has been called n times.
prunable_keys(w, n) ==
  UNION {w.death_rows[i].deleted : i \in w.pending_prunings + 1 .. w.pending_prunings + n}

prune_many(w, n) == [w EXCEPT !.pending_prunings = @ + n]

\* Mutant: the index keeps the keys of the pruned rows.
window_apply_pending_keep_index(w) ==
  [w EXCEPT !.death_rows = SubSeq(@, w.pending_prunings + 1, Len(@)),
            !.pending_number = @ + w.pending_prunings,
            !.pending_canonicalizations = 0,
            !.pending_prunings = 0]

window_apply_pending(w) ==
  LET n == w.pending_prunings
      D == UNION {w.death_rows[i].deleted : i \in 1 .. n}
  IN  [w EXCEPT !.death_rows  = SubSeq(@, n + 1, Len(@)),
                !.death_index = [k \in Key |-> IF k \in D THEN -1 ELSE @[k]],
                !.pending_number = @ + n,
                !.pending_canonicalizations = 0,
                !.pending_prunings = 0]

window_revert_pending(w) ==
  LET n == Len(w.death_rows) - w.pending_canonicalizations
  IN  [w EXCEPT !.death_rows  = SubSeq(@, 1, n),
                !.death_index = [k \in Key |-> IF @[k] < n + w.pending_number THEN @[k] ELSE -1],
                !.pending_canonicalizations = 0,
                !.pending_prunings = 0]

EmptyWindow(number) ==
  [ death_rows  |-> <<>>,
    death_index |-> [k \in Key |-> -1],
    pending_number            |-> number,
    pending_canonicalizations |-> 0,
    pending_prunings          |-> 0 ]

\* RefWindow::new: the records of journal J that follow the last pruned
\* number, up to the first number without one, imported in order.
NewWindow(J, last_pruned) ==
  LET rec(m) == {r \in J : r[1] = m}
      count  == CHOOSE c \in 0 .. Cardinality(J) :
                  /\ rec(last_pruned + 1 + c) = {}
                  /\ \A i \in 1 .. c : rec(last_pruned + i) # {}
      imported[i \in 0 .. count] ==
        IF i = 0 THEN EmptyWindow(last_pruned + 1)
        ELSE import(imported[i - 1], (CHOOSE r \in rec(last_pruned + i) : TRUE)[2])
  IN  imported[count]
=============================================================================
