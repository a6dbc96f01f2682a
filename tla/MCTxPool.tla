------------------------------ MODULE MCTxPool ------------------------------
(* Instances of TxPool for model checking. *)
EXTENDS TxPool

CONSTANTS a1, a1x, a2, a2x

\* Transactions of one account: a1 and a1x have the first nonce, a2 and a2x the
\* second, and the x pay more.
NonceTags     == {1, 2}
NonceProvides == [t \in Txs |-> IF t \in {a1, a1x} THEN {1} ELSE {2}]
NonceRequires == [t \in Txs |-> IF t \in {a1, a1x} THEN {} ELSE {1}]
NoncePriority == [t \in Txs |-> IF t \in {a1x, a2x} THEN 2 ELSE 1]
=============================================================================
