------------------------------ MODULE MCPeerset ------------------------------
(* Instances of Peerset for model checking. *)
EXTENDS Peerset

CONSTANTS p1, p2

OneIn     == [s \in SetId |-> 1]
OneOut    == [s \in SetId |-> 1]
Nobody    == [s \in SetId |-> {}]
Everybody == [s \in SetId |-> PeerId]
Never     == [s \in SetId |-> FALSE]
MinusFour == -4
MinusTwo  == -2
MinusOne  == -1
Reports   == {-4, 2}

\* Peers are interchangeable as long as the configuration does not tell
\* them apart.
PeerSymmetry == Permutations(PeerId)
=============================================================================
