------------------------------- MODULE TxPool -------------------------------
(***************************************************************************)
(* The transaction pool of a full node: client/transaction-pool, with the  *)
(* validation, the bans, the listeners and the revalidation around the     *)
(* graph of BasePool.                                                      *)
(*                                                                         *)
(* Verification awaits the runtime.  Blocks are imported and handled, and  *)
(* batches are revalidated, while it is under way, so that its result may  *)
(* describe a chain that has moved on.                                     *)
(***************************************************************************)
EXTENDS BasePool

CONSTANTS EXPECTED_SIZE,   \* of the ban list, which is cut at twice as many
          MaxVerifying,    \* bound: verifications under way at a time
          MaxEvents,       \* bound: blocks imported and not yet handled
          MaxPayloads,     \* bound: payloads that the revalidation worker has not received
          MaxLinks         \* bound: entries of one transaction in an unlocks list

VARIABLES pool, banned,
          verifying,   \* the transactions whose verification awaits, with its result
          included,    \* the tags of the blocks that the pool has handled
          events,      \* the transactions of the blocks that it has not: NewBestBlock
          to_worker,   \* payloads for the revalidation worker
          worker,      \* best_block and members of the worker
          batch,       \* the batch it revalidates
          watching,    \* the transactions whose watcher expects another status
          told         \* history: the tags that prune_tags was called with

vars == <<pool, banned, verifying, included, events, to_worker, worker, batch, watching, told>>

-----------------------------------------------------------------------------
(* The chain and its runtime *)

\* CheckNonce::validate gives a transaction the tag of its nonce to provide,
\* and requires at most the tag of the nonce before it.  The graph takes any
\* number of tags; what is said below is said of transactions like these.
ASSUME NonceTagsAssumption ==
  \A t \in Txs : Cardinality(Provides[t]) = 1 /\ Cardinality(Requires[t]) <= 1

\* Tags at the best block of the client, which may be ahead of the pool.
BlockTags(t) == IF t = NoTx THEN {} ELSE Provides[t]
BestTags == included \cup UNION {BlockTags(events[i]) : i \in 1 .. Len(events)}

\* validate_transaction: a transaction whose tags are on the chain is stale,
\* another requires what is not there yet.
valid(t, tags) == Provides[t] \cap tags = {}
required(t, tags) == Requires[t] \ tags

-----------------------------------------------------------------------------

\* PoolRotator::ban: a full list is cut to half at random.
ban(S) ==
  LET all == banned \cup S
  IN  IF Cardinality(all) > 2 * EXPECTED_SIZE THEN kSubset(EXPECTED_SIZE, all) ELSE {all}

Idle == [busy |-> FALSE]

\* Calls of prune_tags whose tags are remembered.
RECENTLY_PRUNED_TAGS == 2

\* A result of validation: what it says, how many of the events it knows
\* already, and how many blocks that it does not know have been handled since.
Older(res) ==
  IF res = Idle THEN res
  ELSE IF res.ahead > 0 THEN [res EXCEPT !.ahead = @ - 1] ELSE [res EXCEPT !.lag = @ + 1]

Init ==
  /\ pool = EmptyPool
  /\ banned = {}
  /\ verifying = [t \in Txs |-> Idle]
  /\ included = {}
  /\ events = <<>>
  /\ to_worker = <<>>
  /\ worker = [best |-> {}, members |-> {}]
  /\ batch = Idle
  /\ watching = {}
  /\ told = {}

InBounds(p) == \A t, u \in Txs : p.unlocks[t][u] <= MaxLinks

\* Pool::verify_one up to the answer of the runtime.
Verify(t) ==
  /\ verifying[t] = Idle
  /\ Cardinality({u \in Txs : verifying[u].busy}) < MaxVerifying
  /\ t \notin banned
  /\ ~ is_imported(pool, t)
  /\ valid(t, BestTags)
  /\ verifying' = [verifying EXCEPT ![t] =
       [busy |-> TRUE, requires |-> required(t, BestTags), ahead |-> Len(events), lag |-> 0]]
  /\ UNCHANGED <<pool, banned, included, events, to_worker, worker, batch, watching, told>>

\* A transaction that is banned, in the pool already, or stale is Invalid, and
\* ValidatedPool::submit_one bans it.
VerifyRejects(t) ==
  /\ verifying[t] = Idle
  /\ t \in banned \/ is_imported(pool, t) \/ ~ valid(t, BestTags)
  /\ banned' \in ban({t})
  /\ UNCHANGED <<pool, verifying, included, events, to_worker, worker, batch, watching, told>>

\* ValidatedPool::submit_and_watch: import, then enforce_limits, which bans
\* what it removes.  The watcher of a transaction that is not imported, or is
\* ImmediatelyDropped, is dropped with the error.
Submit(t) ==
  /\ verifying[t].busy
  /\ verifying' = [verifying EXCEPT ![t] = Idle]
  /\ \E res \in import(pool, t, verifying[t].requires) :
       LET kept    == IF res.ok THEN enforce_limits(res.pool) ELSE res.pool
           dropped == {u \in Txs : is_imported(res.pool, u) /\ ~ is_imported(kept, u)}
       IN  /\ InBounds(kept)
           /\ pool' = kept
           /\ banned' \in IF dropped = {} THEN {banned} ELSE ban(dropped)
           /\ watching' = (watching \cup IF res.ok THEN {t} ELSE {})
                            \ (reported(res) \cup dropped)
  /\ UNCHANGED <<included, events, to_worker, worker, batch, told>>

\* A block is imported, of any author, with one transaction or none.
ImportBlock(t) ==
  /\ Len(events) < MaxEvents
  /\ t # NoTx => valid(t, BestTags) /\ required(t, BestTags) = {}
  /\ events' = Append(events, t)
  /\ UNCHANGED <<pool, banned, verifying, included, to_worker, worker, batch, watching, told>>

\* Assumed: no more blocks overtake a validation than recently_pruned remembers.
Timely == \A res \in Range(verifying) \cup {batch} :
            res # Idle => res.ahead > 0 \/ res.lag < RECENTLY_PRUNED_TAGS

\* BasicPool::maintain of NewBestBlock: prune_known, which looks the tags of
\* the block up in the pool, then revalidate_later for what is ready.
Maintain ==
  /\ events # <<>>
  /\ Timely
  /\ Len(to_worker) < MaxPayloads
  /\ LET t    == Head(events)
         tags == IF t # NoTx /\ is_imported(pool, t) THEN Provides[t] ELSE {}
     IN  \E res \in prune_tags(pool, tags) :
           /\ pool' = res.pool
           /\ watching' = watching \ (res.out \cup {t})
           /\ told' = told \cup tags
           /\ included' = included \cup BlockTags(t)
           /\ to_worker' = Append(to_worker, [at |-> included', txs |-> Range(iterator(pool'))])
  /\ events' = Tail(events)
  /\ verifying' = [t \in Txs |-> Older(verifying[t])]
  /\ batch' = Older(batch)
  /\ UNCHANGED <<banned, worker>>

-----------------------------------------------------------------------------
(* RevalidationWorker *)

\* Mutant: the worker stays with the block it started from.
receive_old_best ==
  /\ to_worker # <<>>
  /\ batch = Idle
  /\ worker' = [worker EXCEPT !.members = @ \cup Head(to_worker).txs]
  /\ to_worker' = Tail(to_worker)
  /\ UNCHANGED <<pool, banned, verifying, included, events, batch, watching, told>>

\* RevalidationWorker::run of a payload, and push.
Receive ==
  /\ to_worker # <<>>
  /\ batch = Idle
  /\ worker' = [best |-> Head(to_worker).at, members |-> worker.members \cup Head(to_worker).txs]
  /\ to_worker' = Tail(to_worker)
  /\ UNCHANGED <<pool, banned, verifying, included, events, batch, watching, told>>

\* prepare_batch and the calls of batch_revalidate into the runtime, for the
\* members that are ready still.
Revalidate ==
  /\ batch = Idle
  /\ worker.members # {}
  /\ LET txs == worker.members \cap ready(pool)
     IN  batch' = [busy    |-> TRUE,
                   invalid |-> {t \in txs : ~ valid(t, worker.best)},
                   updated |-> {t \in txs : valid(t, worker.best)},
                   at      |-> worker.best,
                   ahead   |-> 0,
                   lag     |-> Len(to_worker)]
  /\ worker' = [worker EXCEPT !.members = {}]
  /\ UNCHANGED <<pool, banned, verifying, included, events, to_worker, watching, told>>

\* remove_invalid bans the invalid ones, and removes them with all that
\* depends on them.
RemoveInvalid ==
  /\ batch.busy
  /\ batch.invalid # {}
  /\ banned' \in ban(batch.invalid)
  /\ pool' = remove_subtree(pool, batch.invalid)
  /\ watching' = watching \ subtree(pool, batch.invalid)
  /\ batch' = [batch EXCEPT !.invalid = {}]
  /\ UNCHANGED <<verifying, included, events, to_worker, worker, told>>

\* ValidatedPool::resubmit, the first loop: the updated transactions leave in
\* the order of a hash map, each with all that depends on it.
RECURSIVE Leave(_, _, _)
Leave(p, keys, out) ==
  IF keys = {} THEN {[pool |-> p, seq |-> out]}
  ELSE UNION {LET orders == IF k \in ready(p) THEN Removals(p, <<k>>, {}, <<>>)
                            ELSE {IF k \in future(p) THEN <<k>> ELSE <<>>}
              IN  UNION {Leave(remove_subtree(p, {k}), keys \ ({k} \cup Range(s)), out \o s) :
                           s \in orders} : k \in keys}

\* The second loop imports them again in that order, with the tags of their
\* last validation; out collects those whose final status is Failed or Dropped.
RECURSIVE Return(_, _, _)
Return(res, seq, requires) ==
  IF seq = <<>> THEN {res}
  ELSE LET t == Head(seq)
       IN  UNION {Return([pool |-> r.pool,
                          out  |-> IF r.ok THEN (res.out \ ({t} \cup r.promoted)) \cup reported(r)
                                   ELSE res.out \cup {t}],
                         Tail(seq), requires) : r \in import(res.pool, t, requires[t])}

resubmit(p, updated, at) ==
  LET requires == [t \in Txs |-> IF t \in updated THEN required(t, at) ELSE p.requires[t]]
  IN  UNION {Return([pool |-> l.pool, out |-> {}], l.seq, requires) : l \in Leave(p, updated, <<>>)}

Resubmit ==
  /\ batch.busy
  /\ batch.invalid = {}
  /\ \E res \in resubmit(pool, batch.updated, batch.at) :
       /\ InBounds(res.pool)
       /\ pool' = res.pool
       /\ watching' = watching \ res.out
  /\ batch' = Idle
  /\ UNCHANGED <<banned, verifying, included, events, to_worker, worker, told>>

Next ==
  \/ \E t \in Txs : Verify(t) \/ VerifyRejects(t) \/ Submit(t)
  \/ \E t \in Txs \cup {NoTx} : ImportBlock(t)
  \/ Maintain
  \/ Receive \/ Revalidate \/ RemoveInvalid \/ Resubmit

Spec == Init /\ [][Next]_vars

\* Blocks keep coming, the notifications are polled, verifications end, and the
\* worker runs: tasks that the executor polls whenever they are woken.  Each
\* condition names its action by the one variable that only it changes so.
Fairness ==
  /\ WF_events(Len(events) < MaxEvents /\ events' = Append(events, NoTx))
  /\ WF_events(events # <<>> /\ Timely /\ Len(to_worker) < MaxPayloads /\ events' = Tail(events))
  /\ WF_to_worker(to_worker # <<>> /\ batch = Idle /\ to_worker' = Tail(to_worker))
  /\ WF_worker(batch = Idle /\ worker' = [worker EXCEPT !.members = {}])
  /\ WF_batch(batch.busy /\ batch' = IF batch.invalid = {} THEN Idle
                                     ELSE [batch EXCEPT !.invalid = {}])
  /\ \A t \in Txs : WF_verifying(verifying[t].busy /\ verifying' = [verifying EXCEPT ![t] = Idle])

FairSpec == Spec /\ Fairness

-----------------------------------------------------------------------------
(* Properties *)

\* The indices of the graph agree with the transactions in it: every tag has its
\* one provider, the best are ready, and whoever waits misses a tag that nobody
\* provides.  (HASH_READY, WAITING_PROOF and the assertion of prune_tags.)
PoolConsistent ==
  /\ ready(pool) \cap future(pool) = {}
  /\ \A g \in Tags :
       {t \in ready(pool) : g \in Provides[t]} = {pool.provided_tags[g]} \ {NoTx}
  /\ pool.best \subseteq ready(pool)
  /\ \A t \in future(pool) :
       /\ pool.missing[t] # {}
       /\ \A g \in pool.missing[t] : pool.provided_tags[g] = NoTx

\* ReadyTransactions::get, for transactions that require one tag at most: the
\* iterator returns every ready transaction at least once, and none before one
\* that provides what it requires, unless the chain does.  One whose provider
\* was resubmitted may be returned twice: remove_ready leaves links behind.
IteratorOrdered ==
  LET seq == iterator(pool)
  IN  /\ Range(seq) = ready(pool)
      /\ \A i \in 1 .. Len(seq) : \A g \in pool.requires[seq[i]] \ included :
           \E j \in 1 .. i - 1 : g \in Provides[seq[j]]

\* A transaction never waits for a tag that prune_tags was called with, although
\* its verification was overtaken by the call (recently_pruned).  It may wait for
\* a tag of a block whose transaction the pool did not know: prune_known looks
\* the tags up in the pool and skips that one.
NotStuckInFuture ==
  \A t \in future(pool) : pool.missing[t] \cap told = {}

\* Whoever watches a transaction of one tag hears when it leaves the pool:
\* replaced, dropped, pruned, invalid, or lost in a resubmission.  (Of two tags,
\* an import that is given up may lose the ones it unlocked: README.)
WatchersTold ==
  \A t \in watching : is_imported(pool, t)

\* A transaction that entered the pool after its block was handled is found
\* stale and removed: the revalidation catches up, again and again, until
\* nothing that is ready is stale.  What is stale stays so, hence each one leaves.
StaleLeaves ==
  []<>(\A t \in ready(pool) : valid(t, included))
=============================================================================
