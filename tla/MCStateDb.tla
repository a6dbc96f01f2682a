------------------------------ MODULE MCStateDb ------------------------------
(* Instances of StateDb for model checking. *)
EXTENDS StateDb

CONSTANTS g, a1, a2, a3, b1, b2, k1, k2, k3, k4

\* A chain of four blocks; a fork of one or two blocks at the genesis.
ShortFork == (a1 :> g) @@ (a2 :> a1) @@ (a3 :> a2) @@ (b1 :> g)
LongFork  == (a1 :> g) @@ (a2 :> a1) @@ (b1 :> g) @@ (b2 :> b1)

\* The chain deletes k1 and inserts it again, deletes k3 for good, and k2
\* comes and goes; the fork of one block inserts a node the chain inserts
\* too, the longer fork also one of its own.
ShortForkState ==
  (g :> {k1, k3}) @@ (a1 :> {k2}) @@ (a2 :> {k1, k2}) @@ (a3 :> {k1}) @@ (b1 :> {k2, k3})
LongForkState ==
  (g :> {k1, k3}) @@ (a1 :> {k2}) @@ (a2 :> {k1, k2}) @@ (b1 :> {k3, k4}) @@ (b2 :> {k2, k4})
=============================================================================
