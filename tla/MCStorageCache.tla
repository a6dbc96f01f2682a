--------------------------- MODULE MCStorageCache ---------------------------
(* An instance of StorageCache for model checking. *)
EXTENDS StorageCache, TLC

CONSTANTS g, a1, a2, b2, b3, k1, r1

\* A chain that forks above its first block: the longer branch can only be
\* reached by retracting the shorter one, and readers of a branch that is not
\* canonical share the first block with the best chain.
Tree == (a1 :> g) @@ (a2 :> a1) @@ (b2 :> a1) @@ (b3 :> b2)
=============================================================================
