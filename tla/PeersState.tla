----------------------------- MODULE PeersState -----------------------------
(***************************************************************************)
(* The data structure behind the peer set manager                          *)
(* (client/peerset/src/peersstate.rs): which nodes are known, through      *)
(* which sets they are connected, and how many slots they occupy.          *)
(*                                                                         *)
(* The Rust type hands out typed views of one peer (`ConnectedPeer`,       *)
(* `NotConnectedPeer`, `UnknownPeer`, `Reputation`); every method of a     *)
(* view is an operator here that maps the whole structure d to the one     *)
(* the method leaves behind.  The reputation of a peer that is not in      *)
(* d.nodes is 0, as `Node::new` and the `map_or(0, ..)` accessors have it. *)
(***************************************************************************)
EXTENDS Integers, FiniteSets

CONSTANTS
  PeerId,     \* identities of nodes
  SetId,      \* indices of the sets of nodes the peerset manages
  max_in,     \* SetInfo::max_in of each set
  max_out,    \* SetInfo::max_out of each set
  I32Min,     \* i32::min_value(), scaled down in finite instances
  I32Max      \* i32::max_value(), scaled down in finite instances

ASSUME PeerIdFinite == IsFiniteSet(PeerId)
ASSUME SetIdAssumption == SetId \subseteq Nat /\ IsFiniteSet(SetId)
ASSUME SlotLimitsType == max_in \in [SetId -> Nat] /\ max_out \in [SetId -> Nat]
ASSUME I32Assumption == /\ I32Min \in Int /\ I32Max \in Int
                        /\ I32Min < 0 /\ 0 < I32Max

MembershipState == {"NotMember", "In", "Out", "NotConnected"}

\* The values of i32.
I32 == I32Min .. I32Max

(***************************************************************************)
(* PeersState: `nodes` holds the keys of the hash map, `sets` and          *)
(* `reputation` the two fields of each Node, the other fields are those    *)
(* of the SetInfo of each set.  `old` stands for the `last_connected`      *)
(* instants: the memberships in state NotConnected whose instant lies      *)
(* further back than FORGET_AFTER.                                         *)
(***************************************************************************)
PeersStates ==
  [ nodes         : SUBSET PeerId,
    sets          : [SetId -> [PeerId -> MembershipState]],
    reputation    : [PeerId -> I32],
    num_in        : [SetId -> Int],
    num_out       : [SetId -> Int],
    no_slot_nodes : [SetId -> SUBSET PeerId],
    old           : SUBSET (SetId \X PeerId) ]

NewPeersState ==
  [ nodes         |-> {},
    sets          |-> [s \in SetId |-> [p \in PeerId |-> "NotMember"]],
    reputation    |-> [p \in PeerId |-> 0],
    num_in        |-> [s \in SetId |-> 0],
    num_out       |-> [s \in SetId |-> 0],
    no_slot_nodes |-> [s \in SetId |-> {}],
    old           |-> {} ]

\* A choice of peers for every set; the one that only picks peers of set s.
PeerChoice == [SetId -> SUBSET PeerId]
Only(s, P) == [t \in SetId |-> IF t = s THEN P ELSE {}]

-----------------------------------------------------------------------------
(* Classification of a peer: PeersState::peer, connected_peers             *)

Connected(d, s)    == {p \in PeerId : d.sets[s][p] \in {"In", "Out"}}
NotConnected(d, s) == {p \in PeerId : d.sets[s][p] = "NotConnected"}
Unknown(d, s)      == {p \in PeerId : d.sets[s][p] = "NotMember"}

\* The peers of set s in membership state m that occupy a slot.
Occupants(d, s, m) == {p \in PeerId : d.sets[s][p] = m /\ p \notin d.no_slot_nodes[s]}

-----------------------------------------------------------------------------
(* Slots                                                                   *)

\* PeersState::add_no_slot_node
add_no_slot_node(d, s, p) ==
  [d EXCEPT !.no_slot_nodes[s] = @ \cup {p},
            !.num_in[s]        = IF p \in Occupants(d, s, "In") THEN @ - 1 ELSE @,
            !.num_out[s]       = IF p \in Occupants(d, s, "Out") THEN @ - 1 ELSE @]

\* PeersState::remove_no_slot_node
remove_no_slot_node(d, s, p) ==
  LET occupies(m) == d.sets[s][p] = m /\ p \in d.no_slot_nodes[s]
  IN  [d EXCEPT !.no_slot_nodes[s] = @ \ {p},
                !.num_in[s]        = IF occupies("In") THEN @ + 1 ELSE @,
                !.num_out[s]       = IF occupies("Out") THEN @ + 1 ELSE @]

\* Mutant: a slot is given back for a slot-less node too.
disconnect_any(d, C) ==
  [d EXCEPT
     !.sets    = [s \in SetId |->
                    [p \in PeerId |-> IF p \in C[s] THEN "NotConnected" ELSE @[s][p]]],
     !.num_in  = [s \in SetId |-> @[s] - Cardinality({p \in C[s] : d.sets[s][p] = "In"})],
     !.num_out = [s \in SetId |-> @[s] - Cardinality({p \in C[s] : d.sets[s][p] = "Out"})]]

\* ConnectedPeer::disconnect, for every peer of C[s] in every set s.
disconnect(d, C) ==
  [d EXCEPT
     !.sets    = [s \in SetId |->
                    [p \in PeerId |-> IF p \in C[s] THEN "NotConnected" ELSE @[s][p]]],
     !.num_in  = [s \in SetId |-> @[s] - Cardinality(C[s] \cap Occupants(d, s, "In"))],
     !.num_out = [s \in SetId |-> @[s] - Cardinality(C[s] \cap Occupants(d, s, "Out"))]]

\* Mutant: one connection too many.
in_slot_available_off_by_one(d, s, p) ==
  d.num_in[s] <= max_in[s] \/ p \in d.no_slot_nodes[s]

\* NotConnectedPeer::try_accept_incoming: whether it succeeds...
in_slot_available(d, s, p) ==
  d.num_in[s] < max_in[s] \/ p \in d.no_slot_nodes[s]

\* ... and what it then does.
accept_incoming(d, s, p) ==
  [d EXCEPT !.sets[s][p] = "In",
            !.num_in[s]  = IF p \in d.no_slot_nodes[s] THEN @ ELSE @ + 1,
            !.old        = @ \ {<<s, p>>}]

\* NotConnectedPeer::try_outgoing when it succeeds, for every peer of C[s] in
\* every set s; the ones that are unknown are discovered first.
outgoing(d, C) ==
  [d EXCEPT
     !.nodes   = @ \cup UNION {C[s] : s \in SetId},
     !.sets    = [s \in SetId |->
                    [p \in PeerId |-> IF p \in C[s] THEN "Out" ELSE @[s][p]]],
     !.num_out = [s \in SetId |-> @[s] + Cardinality(C[s] \ d.no_slot_nodes[s])],
     !.old     = {m \in @ : m[2] \notin C[m[1]]}]

-----------------------------------------------------------------------------
(* Discovering and forgetting                                              *)

\* UnknownPeer::discover and NotConnectedPeer::bump_last_connected_or_discovered
discover(d, s, p) ==
  [d EXCEPT !.nodes      = @ \cup {p},
            !.sets[s][p] = "NotConnected",
            !.old        = @ \ {<<s, p>>}]

\* The node is worth keeping in the map.
Retained(d, p) == d.reputation[p] # 0 \/ \E s \in SetId : d.sets[s][p] # "NotMember"

\* Drops the node from the map when nothing is known about it any more.
remove_if_blank(d, p) ==
  IF Retained(d, p) THEN d ELSE [d EXCEPT !.nodes = @ \ {p}]

\* NotConnectedPeer::forget_peer
forget_peer(d, s, p) ==
  remove_if_blank([d EXCEPT !.sets[s][p] = "NotMember",
                            !.old        = @ \ {<<s, p>>}], p)

-----------------------------------------------------------------------------
(* Reputations                                                             *)

\* i32::saturating_add and i32::saturating_sub
Saturate(v) == IF v < I32Min THEN I32Min ELSE IF v > I32Max THEN I32Max ELSE v

\* Mutant: the addition does not saturate.
add_reputation_plain(d, p, modifier) == [d EXCEPT !.reputation[p] = @ + modifier]

\* ConnectedPeer::add_reputation
add_reputation(d, p, modifier) ==
  [d EXCEPT !.reputation[p] = Saturate(@ + modifier)]

\* PeersState::peer_reputation, Reputation::add_reputation and the Drop of
\* the handle, which removes a node that has become blank.
report_reputation(d, p, modifier) ==
  remove_if_blank(add_reputation([d EXCEPT !.nodes = @ \cup {p}], p, modifier), p)
=============================================================================
