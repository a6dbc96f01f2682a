------------------------------ MODULE BasePool ------------------------------
(***************************************************************************)
(* The dependency graph of the transaction pool:                           *)
(* client/transaction-pool/graph/src, base_pool.rs, ready.rs, future.rs.   *)
(*                                                                         *)
(* A transaction requires tags and provides tags.  It is ready when ready  *)
(* transactions or recent blocks provide what it requires, else it waits.  *)
(* A pool is a record; order and waiting list the ready and the waiting    *)
(* transactions oldest first, in place of the insertion id and of the time *)
(* of import; unlocks[t][u] counts how often u is in the list of t.        *)
(* wanted_tags is left out: it is the inverse of missing.                  *)
(*                                                                         *)
(* Hash maps are iterated in any order: an operation that depends on the   *)
(* order is the set of its outcomes.                                       *)
(***************************************************************************)
EXTENDS Integers, FiniteSets, FiniteSetsExt, Sequences, SequencesExt

CONSTANTS Txs, Tags,
          Requires, Provides,      \* the tags of a transaction
          Priority,                \* its priority
          ReadyLimit, FutureLimit  \* Limit::count of the two queues

ASSUME TxAssumption ==
  /\ Requires \in [Txs -> SUBSET Tags]
  /\ Provides \in [Txs -> (SUBSET Tags) \ {{}}]
  /\ Priority \in [Txs -> Nat]
  /\ \A t \in Txs : Requires[t] \cap Provides[t] = {}

NoTx == "no transaction"
NoLinks == [t \in Txs |-> 0]

EmptyPool ==
  [order           |-> <<>>,
   provided_tags   |-> [g \in Tags |-> NoTx],
   unlocks         |-> [t \in Txs |-> NoLinks],
   requires        |-> [t \in Txs |-> {}],
   requires_offset |-> [t \in Txs |-> 0],
   best            |-> {},
   waiting         |-> <<>>,
   missing         |-> [t \in Txs |-> {}],
   recently_pruned |-> <<{}, {}>>]

ready(pool) == Range(pool.order)
future(pool) == Range(pool.waiting)
is_imported(pool, t) == t \in ready(pool) \cup future(pool)

Without(seq, S) == SelectSeq(seq, LAMBDA t : t \notin S)

\* What a transaction leaves behind in the maps that are keyed by it.
Forget(pool, S) ==
  [pool EXCEPT !.requires = [t \in Txs |-> IF t \in S THEN {} ELSE @[t]],
               !.missing = [t \in Txs |-> IF t \in S THEN {} ELSE @[t]],
               !.requires_offset = [t \in Txs |-> IF t \in S THEN 0 ELSE @[t]],
               !.unlocks = [t \in Txs |-> IF t \in S THEN NoLinks ELSE @[t]]]

-----------------------------------------------------------------------------
(* ReadyTransactions *)

\* remove_subtree_with_tag_filter: the orders in which the stack yields the
\* transactions that go.  One that keeps all its tags in the pool (they are in
\* the filter) takes nothing along.
RECURSIVE Removals(_, _, _, _)
Removals(pool, stack, filter, out) ==
  IF stack = <<>> THEN {out}
  ELSE LET t == Last(stack)
           unlocked == {u \in Txs : pool.unlocks[t][u] > 0}
       IN  IF t \notin ready(pool) \/ Contains(out, t)
           THEN Removals(pool, Front(stack), filter, out)
           ELSE IF Provides[t] \subseteq filter
           THEN Removals(pool, Front(stack), filter, Append(out, t))
           ELSE UNION {Removals(pool, Front(stack) \o s, filter, Append(out, t)) :
                         s \in SetToSeqs(unlocked)}

Subtree(pool, S, filter) ==
  Range(CHOOSE out \in Removals(pool, SetToSeq(S), filter, <<>>) : TRUE)

\* Mutant: a removed transaction stays among the best.
remove_ready_best(pool, gone, filter) ==
  LET tags == (UNION {Provides[t] : t \in gone}) \ filter
  IN  Forget([pool EXCEPT
                !.order = Without(@, gone),
                !.provided_tags = [g \in Tags |-> IF g \in tags THEN NoTx ELSE @[g]]],
             gone)

\* The links from other transactions to a removed one stay: the loop that is
\* to cut them looks each provider up in its own list.
remove_ready(pool, gone, filter) ==
  LET tags == (UNION {Provides[t] : t \in gone}) \ filter
  IN  Forget([pool EXCEPT
                !.order = Without(@, gone),
                !.best = @ \ gone,
                !.provided_tags = [g \in Tags |-> IF g \in tags THEN NoTx ELSE @[g]]],
             gone)

\* replace_previous: the transactions that provide a tag of t too.
Replaced(pool, t) == {pool.provided_tags[g] : g \in Provides[t]} \ {NoTx}

too_low_priority(pool, t) ==
  /\ Replaced(pool, t) # {}
  /\ MapThenSumSet(LAMBDA o : Priority[o], Replaced(pool, t)) >= Priority[t]

ready_removed(pool, t) == Subtree(pool, Replaced(pool, t), Provides[t])

\* Mutant: the replacement starts without links.
inherit_nothing(pool, t) == NoLinks

\* The links of the transactions that t replaces.
inherited_unlocks(pool, t) ==
  [u \in Txs |-> MapThenSumSet(LAMBDA o : pool.unlocks[o][u], Replaced(pool, t))]

\* ReadyTransactions::import of a transaction with all tags satisfied.
ready_import(pool, t) ==
  LET links   == inherited_unlocks(pool, t)
      kept    == remove_ready(pool, ready_removed(pool, t), Provides[t])
      by(g)   == kept.provided_tags[g]
      linked  == {g \in pool.requires[t] : by(g) # NoTx}
  IN  [kept EXCEPT
         !.order = Append(@, t),
         !.unlocks = [o \in Txs |->
            IF o = t THEN links
            ELSE [@[o] EXCEPT ![t] = @ + Cardinality({g \in linked : by(g) = o})]],
         !.provided_tags = [g \in Tags |-> IF g \in Provides[t] THEN t ELSE @[g]],
         !.requires_offset[t] = Cardinality(pool.requires[t] \ linked),
         !.best = IF linked = {} THEN @ \cup {t} ELSE @]

\* ReadyTransactions::prune_tags, the stack of tags: the provider of a tag goes,
\* and so does a provider of what it required that unlocks nothing else.
RECURSIVE PruneStack(_, _, _)
PruneStack(pool, stack, out) ==
  IF stack = <<>> THEN [pool |-> pool, pruned |-> out]
  ELSE LET tag  == Last(stack)
           t    == pool.provided_tags[tag]
           cut  == [o \in Txs |-> Cardinality({g \in pool.requires[t] : pool.provided_tags[g] = o})]
           less == [pool.unlocks EXCEPT ![t] = NoLinks]
           unl  == [o \in Txs |-> [less[o] EXCEPT ![t] = IF @ > cut[o] THEN @ - cut[o] ELSE 0]]
           idle == {o \in Txs : cut[o] > 0 /\ unl[o] = NoLinks}
           now  == [u \in Txs |-> pool.requires_offset[u]
                      + IF u \in ready(pool) THEN pool.unlocks[t][u] ELSE 0]
           free == {u \in ready(pool) \ {t} :
                      /\ pool.requires_offset[u] < Cardinality(pool.requires[u])
                      /\ now[u] >= Cardinality(pool.requires[u])}
           next == [pool EXCEPT
                      !.order = Without(@, {t}),
                      !.best = (@ \ {t}) \cup free,
                      !.unlocks = unl,
                      !.requires_offset = [now EXCEPT ![t] = 0],
                      !.requires[t] = {},
                      !.provided_tags = [g \in Tags |-> IF g \in Provides[t] THEN NoTx ELSE @[g]]]
       IN  IF t = NoTx THEN PruneStack(pool, Front(stack), out)
           ELSE PruneStack(next, Front(stack) \o SetToSeq(UNION {Provides[o] : o \in idle}),
                           out \cup {t})

-----------------------------------------------------------------------------
(* FutureTransactions *)

satisfied(pool, tags) ==
  {t \in future(pool) : pool.missing[t] \subseteq tags}

\* satisfy_tags: the waiting transactions that miss nothing more leave.
satisfy_tags(pool, tags) ==
  [pool EXCEPT !.waiting = Without(@, satisfied(pool, tags)),
               !.missing = [t \in Txs |-> @[t] \ tags]]

remove_future(pool, S) ==
  Forget([pool EXCEPT !.waiting = Without(@, S)], S \cap future(pool))

-----------------------------------------------------------------------------
(* BasePool *)

\* import_to_ready, the loop: what a transaction unlocks goes on top of the
\* stack before it is imported itself.  A first transaction that fails leaves
\* the loop, and takes with it what it unlocked.
RECURSIVE Promotions(_, _, _)
Promotions(res, stack, first) ==
  IF stack = <<>> THEN {res}
  ELSE LET t    == Last(stack)
           pool == satisfy_tags(res.pool, Provides[t])
           rest == {Front(stack) \o s : s \in SetToSeqs(satisfied(res.pool, Provides[t]))}
           bad  == too_low_priority(pool, t)
           next == IF bad
                   THEN [res EXCEPT !.pool = Forget(pool, {t}), !.failed = @ \cup {t}]
                   ELSE [res EXCEPT !.pool = ready_import(pool, t),
                                    !.removed = @ \cup ready_removed(pool, t),
                                    !.promoted = IF first THEN @ ELSE @ \cup {t}]
       IN  IF bad /\ first
           THEN {[next EXCEPT !.ok = FALSE, !.pool = Forget(@, satisfied(res.pool, Provides[t]))]}
           ELSE UNION {Promotions(next, s, FALSE) : s \in rest}

import_to_ready(pool, t) ==
  {IF res.ok /\ t \in res.removed
   THEN [res EXCEPT !.ok = FALSE,
                    !.pool = remove_ready(@, Subtree(@, res.promoted, {}), {})]
   ELSE res :
     res \in Promotions([pool |-> pool, ok |-> TRUE, promoted |-> {}, failed |-> {}, removed |-> {}],
                        <<t>>, TRUE)}

\* Mutant: only the last block counts.
missing_tags_last(pool, req) ==
  {g \in req : pool.provided_tags[g] = NoTx /\ g \notin Head(pool.recently_pruned)}

\* WaitingTransaction::new: required and provided neither by a ready
\* transaction nor by one of the last blocks.
missing_tags(pool, req) ==
  {g \in req : pool.provided_tags[g] = NoTx /\ g \notin UNION Range(pool.recently_pruned)}

\* BasePool::import of a transaction that is not in the pool, with the tags
\* that its validation says it requires.
import(pool, t, req) ==
  LET with    == [pool EXCEPT !.requires[t] = req]
      missing == missing_tags(pool, req)
      waits   == [with EXCEPT !.waiting = Append(@, t), !.missing[t] = missing]
  IN  IF missing = {} THEN import_to_ready(with, t)
      ELSE {[pool |-> waits, ok |-> TRUE, promoted |-> {}, failed |-> {}, removed |-> {}]}

subtree(pool, S) == Subtree(pool, S \cap ready(pool), {}) \cup (S \cap future(pool))

remove_subtree(pool, S) ==
  remove_future(remove_ready(pool, Subtree(pool, S \cap ready(pool), {}), {}), S)

\* enforce_limits: the oldest go, with what depends on them.
RECURSIVE enforce_limits(_)
enforce_limits(pool) ==
  IF Len(pool.order) > ReadyLimit THEN enforce_limits(remove_subtree(pool, {Head(pool.order)}))
  ELSE IF Len(pool.waiting) > FutureLimit
  THEN enforce_limits(remove_subtree(pool, {Head(pool.waiting)}))
  ELSE pool

\* Mutant: the watchers of replaced transactions hear nothing.
reported_failed(res) == IF res.ok THEN res.failed ELSE {}

\* The listeners that hear of an import: those of the transactions it put out,
\* nobody when it fails.
reported(res) == IF res.ok THEN res.failed \cup res.removed ELSE {}

\* The transactions that pruning unlocked are imported one after another; one
\* that fails is reported and dropped.
RECURSIVE ImportAll(_, _)
ImportAll(res, seq) ==
  IF seq = <<>> THEN {res}
  ELSE UNION {ImportAll([pool |-> r.pool,
                         out  |-> res.out \cup IF r.ok THEN reported(r) ELSE {Head(seq)}],
                        Tail(seq)) :
                r \in import_to_ready(res.pool, Head(seq))}

\* BasePool::prune_tags for the tags of one block, with the transactions whose
\* listeners are told.
prune_tags(pool, tags) ==
  LET pruning == PruneStack(satisfy_tags(pool, tags), SetToSeq(tags), {})
      noted   == [pruning.pool EXCEPT !.recently_pruned = <<tags, Head(@)>>]
  IN  UNION {ImportAll([pool |-> noted, out |-> pruning.pruned], s) :
               s \in SetToSeqs(satisfied(pool, tags))}

-----------------------------------------------------------------------------
(* BestIterator *)

\* TransactionRef::cmp: the higher priority, then the older one (valid_till, in
\* between, is the same for all: longevity is left out).
First(pool, best) ==
  Head(SelectSeq(pool.order, LAMBDA t : /\ t \in best
                                        /\ \A u \in best : Priority[u] <= Priority[t]))

\* best_or_awaiting for the links of a yielded transaction to u: each counts for
\* one tag, from requires_offset on; when the count is full, u goes to best and
\* is no longer awaiting.
Round(pool, u) == Max({1, Cardinality(pool.requires[u]) - pool.requires_offset[u]})

\* BestIterator::next until it ends: waits[u] is how many links of u have been
\* counted since it went to best last.
RECURSIVE Iterate(_, _, _, _)
Iterate(pool, best, waits, out) ==
  IF best = {} THEN out
  ELSE LET t     == First(pool, best)
           links == pool.unlocks[t]
           unl   == {u \in ready(pool) : links[u] > 0}
           full  == {u \in unl : (waits[u] + links[u]) >= Round(pool, u)}
       IN  Iterate(pool, (best \ {t}) \cup full,
                   [u \in Txs |-> IF u \in unl THEN (waits[u] + links[u]) % Round(pool, u)
                                  ELSE waits[u]],
                   Append(out, t))

iterator(pool) == Iterate(pool, pool.best, NoLinks, <<>>)
=============================================================================
