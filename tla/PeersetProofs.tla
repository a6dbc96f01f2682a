--------------------------- MODULE PeersetProofs ---------------------------
(***************************************************************************)
(* Proofs about the peer set manager, for every set of peers, number of    *)
(* sets, slot limit, reputation scale and configuration.                   *)
(***************************************************************************)
EXTENDS Peerset, FiniteSetTheorems, TLAPS

\* What every operation of PeersState preserves.
DataInv(d) == d \in PeersStates /\ OldNotConnected(d) /\ SlotsCounted(d)

-----------------------------------------------------------------------------
(* Sets of peers                                                           *)

\* Every set of nodes is finite and has a cardinality.
LEMMA PeersFinite ==
  ASSUME NEW P \in SUBSET PeerId
  PROVE  IsFiniteSet(P) /\ Cardinality(P) \in Nat
BY PeerIdFinite, FS_Subset, FS_CardinalityType

\* The nodes that occupy slots of a set are finitely many, so num_in and
\* num_out can equal their number.
LEMMA OccupantsFinite ==
  ASSUME NEW d, NEW s, NEW m
  PROVE  /\ Occupants(d, s, m) \in SUBSET PeerId
         /\ IsFiniteSet(Occupants(d, s, m))
         /\ Cardinality(Occupants(d, s, m)) \in Nat
<1>1. Occupants(d, s, m) \in SUBSET PeerId
  BY DEF Occupants
<1> QED  BY <1>1, PeersFinite

\* Taking a set of peers out of another, and adding one that is disjoint.
LEMMA CardinalityMinus ==
  ASSUME NEW S \in SUBSET PeerId, NEW P
  PROVE  Cardinality(S \ P) = Cardinality(S) - Cardinality(P \cap S)
<1>1. S \cap P = P \cap S
  OBVIOUS
<1> QED  BY <1>1, PeersFinite, FS_Difference

\* How num_in and num_out grow when the nodes of P take a slot each.
LEMMA CardinalityPlus ==
  ASSUME NEW S \in SUBSET PeerId, NEW P \in SUBSET PeerId, S \cap P = {}
  PROVE  Cardinality(S \cup P) = Cardinality(S) + Cardinality(P)
BY PeersFinite, FS_Union, FS_EmptySet

\* saturating_add of an i32 is an i32.
LEMMA SaturateType == ASSUME NEW v \in Int PROVE Saturate(v) \in I32
BY I32Assumption DEF Saturate, I32

-----------------------------------------------------------------------------
(* Operations of PeersState                                                *)

\* PeersState::new: no node, and all counters zero.
LEMMA NewPeersStateInv == DataInv(NewPeersState)
<1>1. NewPeersState \in PeersStates
  BY I32Assumption DEF NewPeersState, PeersStates, MembershipState, I32
<1>2. \A s \in SetId : Occupants(NewPeersState, s, "In") = {} /\ Occupants(NewPeersState, s, "Out") = {}
  BY DEF NewPeersState, Occupants
<1> QED  BY <1>1, <1>2, FS_EmptySet DEF DataInv, OldNotConnected, SlotsCounted, NewPeersState

\* add_no_slot_node: a connected node gives its slot back when it becomes
\* reserved, and stays connected.
LEMMA AddNoSlotNodeInv ==
  ASSUME NEW d, DataInv(d), NEW s \in SetId, NEW p \in PeerId
  PROVE  LET e == add_no_slot_node(d, s, p)
         IN  /\ DataInv(e)
             /\ e.no_slot_nodes = [d.no_slot_nodes EXCEPT ![s] = @ \cup {p}]
             /\ \A t \in SetId : Connected(e, t) = Connected(d, t)
<1> DEFINE e == add_no_slot_node(d, s, p)
<1>1. /\ e.num_in \in [SetId -> Int] /\ e.num_out \in [SetId -> Int]
      /\ e.no_slot_nodes \in [SetId -> SUBSET PeerId]
      /\ e.sets = d.sets /\ e.old = d.old
      /\ e.no_slot_nodes = [d.no_slot_nodes EXCEPT ![s] = @ \cup {p}]
  BY DEF DataInv, PeersStates, add_no_slot_node
<1>2. e = [d EXCEPT !.no_slot_nodes = e.no_slot_nodes, !.num_in = e.num_in, !.num_out = e.num_out]
  BY DEF DataInv, PeersStates, add_no_slot_node
<1>3. e \in PeersStates
  <2> HIDE DEF e
  <2> QED  BY <1>1, <1>2 DEF DataInv, PeersStates
<1>4. OldNotConnected(e)
  BY <1>1 DEF DataInv, OldNotConnected
<1>5. ASSUME NEW t \in SetId, NEW m
      PROVE  Occupants(e, t, m) = IF t = s THEN Occupants(d, t, m) \ {p} ELSE Occupants(d, t, m)
  BY DEF DataInv, PeersStates, Occupants, add_no_slot_node
<1>6. ASSUME NEW t \in SetId
      PROVE  /\ e.num_in[t] = Cardinality(Occupants(e, t, "In"))
             /\ e.num_out[t] = Cardinality(Occupants(e, t, "Out"))
  <2>1. /\ d.num_in[t] = Cardinality(Occupants(d, t, "In"))
        /\ d.num_out[t] = Cardinality(Occupants(d, t, "Out"))
    BY DEF DataInv, SlotsCounted
  <2>2. CASE t = s
    <3>1. \A m : Cardinality(Occupants(d, s, m) \ {p}) =
              IF p \in Occupants(d, s, m) THEN Cardinality(Occupants(d, s, m)) - 1
                                          ELSE Cardinality(Occupants(d, s, m))
      BY OccupantsFinite, FS_RemoveElement
    <3>2. /\ e.num_in[t] = IF p \in Occupants(d, s, "In") THEN d.num_in[t] - 1 ELSE d.num_in[t]
          /\ e.num_out[t] = IF p \in Occupants(d, s, "Out") THEN d.num_out[t] - 1 ELSE d.num_out[t]
      BY <2>2 DEF DataInv, PeersStates, add_no_slot_node
    <3> QED  BY <1>5, <2>1, <2>2, <3>1, <3>2
  <2>3. CASE t # s
    BY <1>5, <2>1, <2>3 DEF DataInv, PeersStates, add_no_slot_node
  <2> QED  BY <2>2, <2>3
<1>7. \A t \in SetId : Connected(e, t) = Connected(d, t)
  BY <1>1 DEF Connected
<1> HIDE DEF e
<1>8. DataInv(e)
  BY <1>3, <1>4, <1>6 DEF DataInv, SlotsCounted
<1> QED  BY <1>1, <1>7, <1>8 DEF e

\* remove_no_slot_node: a connected node takes a slot when it is no longer
\* reserved, even one above the limit.
LEMMA RemoveNoSlotNodeInv ==
  ASSUME NEW d, DataInv(d), NEW s \in SetId, NEW p \in PeerId
  PROVE  LET e == remove_no_slot_node(d, s, p)
         IN  /\ DataInv(e)
             /\ e.no_slot_nodes = [d.no_slot_nodes EXCEPT ![s] = @ \ {p}]
             /\ \A t \in SetId : Connected(e, t) = Connected(d, t)
<1> DEFINE e == remove_no_slot_node(d, s, p)
<1>1. /\ e.num_in \in [SetId -> Int] /\ e.num_out \in [SetId -> Int]
      /\ e.no_slot_nodes \in [SetId -> SUBSET PeerId]
      /\ e.sets = d.sets /\ e.old = d.old
      /\ e.no_slot_nodes = [d.no_slot_nodes EXCEPT ![s] = @ \ {p}]
  BY DEF DataInv, PeersStates, remove_no_slot_node
<1>2. e = [d EXCEPT !.no_slot_nodes = e.no_slot_nodes, !.num_in = e.num_in, !.num_out = e.num_out]
  BY DEF DataInv, PeersStates, remove_no_slot_node
<1>3. e \in PeersStates
  <2> HIDE DEF e
  <2> QED  BY <1>1, <1>2 DEF DataInv, PeersStates
<1>4. OldNotConnected(e)
  BY <1>1 DEF DataInv, OldNotConnected
<1>5. ASSUME NEW t \in SetId, NEW m
      PROVE  Occupants(e, t, m) = IF t = s /\ d.sets[s][p] = m THEN Occupants(d, t, m) \cup {p}
                                  ELSE Occupants(d, t, m)
  BY DEF DataInv, PeersStates, Occupants, remove_no_slot_node
<1>6. ASSUME NEW t \in SetId
      PROVE  /\ e.num_in[t] = Cardinality(Occupants(e, t, "In"))
             /\ e.num_out[t] = Cardinality(Occupants(e, t, "Out"))
  <2>1. /\ d.num_in[t] = Cardinality(Occupants(d, t, "In"))
        /\ d.num_out[t] = Cardinality(Occupants(d, t, "Out"))
    BY DEF DataInv, SlotsCounted
  <2>2. CASE t = s
    <3>1. \A m : Cardinality(Occupants(d, s, m) \cup {p}) =
              IF p \in Occupants(d, s, m) THEN Cardinality(Occupants(d, s, m))
                                          ELSE Cardinality(Occupants(d, s, m)) + 1
      BY OccupantsFinite, FS_AddElement
    <3>2. \A m : p \in Occupants(d, s, m) <=> d.sets[s][p] = m /\ p \notin d.no_slot_nodes[s]
      BY DEF Occupants
    <3>3. /\ e.num_in[t] = IF d.sets[s][p] = "In" /\ p \in d.no_slot_nodes[s]
                           THEN d.num_in[t] + 1 ELSE d.num_in[t]
          /\ e.num_out[t] = IF d.sets[s][p] = "Out" /\ p \in d.no_slot_nodes[s]
                           THEN d.num_out[t] + 1 ELSE d.num_out[t]
      BY <2>2 DEF DataInv, PeersStates, remove_no_slot_node
    <3> QED  BY <1>5, <2>1, <2>2, <3>1, <3>2, <3>3
  <2>3. CASE t # s
    BY <1>5, <2>1, <2>3 DEF DataInv, PeersStates, remove_no_slot_node
  <2> QED  BY <2>2, <2>3
<1>7. \A t \in SetId : Connected(e, t) = Connected(d, t)
  BY <1>1 DEF Connected
<1> HIDE DEF e
<1>8. DataInv(e)
  BY <1>3, <1>4, <1>6 DEF DataInv, SlotsCounted
<1> QED  BY <1>1, <1>7, <1>8 DEF e

\* disconnect: exactly the nodes of C are disconnected, and the slots of those
\* that had one are free.
LEMMA DisconnectInv ==
  ASSUME NEW d, DataInv(d), NEW C \in PeerChoice,
         \A s \in SetId : C[s] \subseteq Connected(d, s)
  PROVE  LET e == disconnect(d, C)
         IN  /\ DataInv(e)
             /\ e.no_slot_nodes = d.no_slot_nodes
             /\ \A s \in SetId : Connected(e, s) = Connected(d, s) \ C[s]
             /\ \A s \in SetId : \A p \in C[s] : e.sets[s][p] = "NotConnected"
<1> DEFINE e == disconnect(d, C)
<1>1. ASSUME NEW s \in SetId, NEW m
      PROVE  Cardinality(C[s] \cap Occupants(d, s, m)) \in Nat
  BY OccupantsFinite, PeersFinite
<1>2. /\ e.sets = [s \in SetId |-> [p \in PeerId |-> IF p \in C[s] THEN "NotConnected" ELSE d.sets[s][p]]]
      /\ e.num_in = [s \in SetId |-> d.num_in[s] - Cardinality(C[s] \cap Occupants(d, s, "In"))]
      /\ e.num_out = [s \in SetId |-> d.num_out[s] - Cardinality(C[s] \cap Occupants(d, s, "Out"))]
      /\ e.no_slot_nodes = d.no_slot_nodes /\ e.old = d.old
  BY DEF DataInv, PeersStates, disconnect
<1>3. /\ e.sets \in [SetId -> [PeerId -> MembershipState]]
      /\ e.num_in \in [SetId -> Int] /\ e.num_out \in [SetId -> Int]
  <2>1. /\ d.num_in \in [SetId -> Int] /\ d.num_out \in [SetId -> Int]
        /\ d.sets \in [SetId -> [PeerId -> MembershipState]]
    BY DEF DataInv, PeersStates
  <2> HIDE DEF e
  <2>2. e.sets \in [SetId -> [PeerId -> MembershipState]]
    BY <1>2, <2>1 DEF MembershipState
  <2>3. ASSUME NEW s \in SetId
        PROVE  /\ d.num_in[s] - Cardinality(C[s] \cap Occupants(d, s, "In")) \in Int
               /\ d.num_out[s] - Cardinality(C[s] \cap Occupants(d, s, "Out")) \in Int
    <3>1. d.num_in[s] \in Int /\ d.num_out[s] \in Int
      BY <2>1
    <3>2. /\ Cardinality(C[s] \cap Occupants(d, s, "In")) \in Nat
          /\ Cardinality(C[s] \cap Occupants(d, s, "Out")) \in Nat
      BY <1>1
    <3> QED  BY <3>1, <3>2
  <2>4. e.num_in \in [SetId -> Int] /\ e.num_out \in [SetId -> Int]
    BY <1>2, <2>3
  <2> QED  BY <2>2, <2>4
<1>4. e = [d EXCEPT !.sets = e.sets, !.num_in = e.num_in, !.num_out = e.num_out]
  BY DEF DataInv, PeersStates, disconnect
<1> HIDE DEF e
<1>5. e \in PeersStates
  BY <1>3, <1>4 DEF DataInv, PeersStates
<1>6. OldNotConnected(e)
  BY <1>2 DEF DataInv, OldNotConnected, PeersStates
<1>7. ASSUME NEW s \in SetId, NEW m \in {"In", "Out"}
      PROVE  Occupants(e, s, m) = Occupants(d, s, m) \ C[s]
  BY <1>2 DEF Occupants
<1>8. SlotsCounted(e)
  <2> SUFFICES ASSUME NEW s \in SetId
               PROVE  /\ e.num_in[s] = Cardinality(Occupants(e, s, "In"))
                      /\ e.num_out[s] = Cardinality(Occupants(e, s, "Out"))
    BY DEF SlotsCounted
  <2>1. /\ d.num_in[s] = Cardinality(Occupants(d, s, "In"))
        /\ d.num_out[s] = Cardinality(Occupants(d, s, "Out"))
    BY DEF DataInv, SlotsCounted
  <2>2. \A m : Cardinality(Occupants(d, s, m) \ C[s]) =
                Cardinality(Occupants(d, s, m)) - Cardinality(C[s] \cap Occupants(d, s, m))
    BY OccupantsFinite, CardinalityMinus
  <2>3. /\ e.num_in[s] = d.num_in[s] - Cardinality(C[s] \cap Occupants(d, s, "In"))
        /\ e.num_out[s] = d.num_out[s] - Cardinality(C[s] \cap Occupants(d, s, "Out"))
    BY <1>2
  <2>4. /\ Occupants(e, s, "In") = Occupants(d, s, "In") \ C[s]
        /\ Occupants(e, s, "Out") = Occupants(d, s, "Out") \ C[s]
    BY <1>7
  <2> QED  BY <2>1, <2>2, <2>3, <2>4
<1>9. \A s \in SetId : /\ Connected(e, s) = Connected(d, s) \ C[s]
                       /\ \A p \in C[s] : e.sets[s][p] = "NotConnected"
  BY <1>2 DEF Connected, PeerChoice
<1>10. DataInv(e)
  BY <1>5, <1>6, <1>8 DEF DataInv
<1> QED  BY <1>2, <1>9, <1>10 DEF e

\* try_outgoing: the nodes of C are connected, and all but the reserved ones
\* take an outgoing slot.
LEMMA OutgoingInv ==
  ASSUME NEW d, DataInv(d), NEW C \in PeerChoice,
         \A s \in SetId : C[s] \cap Connected(d, s) = {}
  PROVE  LET e == outgoing(d, C)
         IN  /\ DataInv(e)
             /\ e.no_slot_nodes = d.no_slot_nodes
             /\ \A s \in SetId : Connected(e, s) = Connected(d, s) \cup C[s]
<1> DEFINE e == outgoing(d, C)
<1>1. ASSUME NEW s \in SetId
      PROVE  /\ C[s] \ d.no_slot_nodes[s] \in SUBSET PeerId
             /\ Cardinality(C[s] \ d.no_slot_nodes[s]) \in Nat
  BY PeersFinite DEF PeerChoice
<1>2. /\ e.nodes = d.nodes \cup UNION {C[s] : s \in SetId}
      /\ e.sets = [s \in SetId |-> [p \in PeerId |-> IF p \in C[s] THEN "Out" ELSE d.sets[s][p]]]
      /\ e.num_in = d.num_in
      /\ e.num_out = [s \in SetId |-> d.num_out[s] + Cardinality(C[s] \ d.no_slot_nodes[s])]
      /\ e.no_slot_nodes = d.no_slot_nodes
      /\ e.old = {m \in d.old : m[2] \notin C[m[1]]}
  BY DEF DataInv, PeersStates, outgoing
<1>3. /\ e.nodes \in SUBSET PeerId
      /\ e.sets \in [SetId -> [PeerId -> MembershipState]]
      /\ e.num_out \in [SetId -> Int]
      /\ e.old \in SUBSET (SetId \X PeerId)
  <2>1. /\ d.nodes \in SUBSET PeerId /\ d.sets \in [SetId -> [PeerId -> MembershipState]]
        /\ d.num_out \in [SetId -> Int] /\ d.old \in SUBSET (SetId \X PeerId)
    BY DEF DataInv, PeersStates
  <2> HIDE DEF e
  <2>2. e.nodes \in SUBSET PeerId
    BY <1>2, <2>1 DEF PeerChoice
  <2>3. e.sets \in [SetId -> [PeerId -> MembershipState]]
    BY <1>2, <2>1 DEF MembershipState
  <2>4. ASSUME NEW s \in SetId
        PROVE  d.num_out[s] + Cardinality(C[s] \ d.no_slot_nodes[s]) \in Int
    BY <1>1, <2>1
  <2>5. e.num_out \in [SetId -> Int]
    BY <1>2, <2>4
  <2>6. e.old \in SUBSET (SetId \X PeerId)
    BY <1>2, <2>1
  <2> QED  BY <2>2, <2>3, <2>5, <2>6
<1>4. e = [d EXCEPT !.nodes = e.nodes, !.sets = e.sets, !.num_out = e.num_out, !.old = e.old]
  BY DEF DataInv, PeersStates, outgoing
<1> HIDE DEF e
<1>5. e \in PeersStates
  BY <1>3, <1>4 DEF DataInv, PeersStates
<1>6. OldNotConnected(e)
  BY <1>2 DEF DataInv, OldNotConnected, PeersStates
<1>7. ASSUME NEW s \in SetId
      PROVE  /\ Occupants(e, s, "In") = Occupants(d, s, "In")
             /\ Occupants(e, s, "Out") = Occupants(d, s, "Out") \cup (C[s] \ d.no_slot_nodes[s])
             /\ Occupants(d, s, "Out") \cap (C[s] \ d.no_slot_nodes[s]) = {}
  BY <1>2 DEF Occupants, Connected, PeerChoice
<1>8. SlotsCounted(e)
  <2> SUFFICES ASSUME NEW s \in SetId
               PROVE  /\ e.num_in[s] = Cardinality(Occupants(e, s, "In"))
                      /\ e.num_out[s] = Cardinality(Occupants(e, s, "Out"))
    BY DEF SlotsCounted
  <2>1. /\ d.num_in[s] = Cardinality(Occupants(d, s, "In"))
        /\ d.num_out[s] = Cardinality(Occupants(d, s, "Out"))
    BY DEF DataInv, SlotsCounted
  <2>2. Cardinality(Occupants(d, s, "Out") \cup (C[s] \ d.no_slot_nodes[s])) =
          Cardinality(Occupants(d, s, "Out")) + Cardinality(C[s] \ d.no_slot_nodes[s])
    BY <1>1, <1>7, OccupantsFinite, CardinalityPlus
  <2>3. /\ e.num_in[s] = d.num_in[s]
        /\ e.num_out[s] = d.num_out[s] + Cardinality(C[s] \ d.no_slot_nodes[s])
    BY <1>2
  <2>4. /\ Occupants(e, s, "In") = Occupants(d, s, "In")
        /\ Occupants(e, s, "Out") = Occupants(d, s, "Out") \cup (C[s] \ d.no_slot_nodes[s])
    BY <1>7
  <2> QED  BY <2>1, <2>2, <2>3, <2>4
<1>9. \A s \in SetId : Connected(e, s) = Connected(d, s) \cup C[s]
  BY <1>2 DEF Connected, PeerChoice
<1>10. DataInv(e)
  BY <1>5, <1>6, <1>8 DEF DataInv
<1> QED  BY <1>2, <1>9, <1>10 DEF e

\* try_accept_incoming: at most the node itself is connected, and takes an
\* incoming slot unless it is reserved.
LEMMA AcceptIncomingInv ==
  ASSUME NEW d, DataInv(d), NEW s \in SetId, NEW p \in PeerId, p \notin Connected(d, s)
  PROVE  LET e == accept_incoming(d, s, p)
         IN  /\ DataInv(e)
             /\ e.no_slot_nodes = d.no_slot_nodes
             /\ \A t \in SetId : Connected(e, t) \subseteq Connected(d, t) \cup (IF t = s THEN {p} ELSE {})
<1> DEFINE e == accept_incoming(d, s, p)
<1>1. /\ e.sets = [d.sets EXCEPT ![s][p] = "In"]
      /\ e.num_in = [d.num_in EXCEPT ![s] = IF p \in d.no_slot_nodes[s] THEN @ ELSE @ + 1]
      /\ e.num_out = d.num_out /\ e.no_slot_nodes = d.no_slot_nodes
      /\ e.old = d.old \ {<<s, p>>}
  BY DEF DataInv, PeersStates, accept_incoming
<1>2. e = [d EXCEPT !.sets = e.sets, !.num_in = e.num_in, !.old = e.old]
  BY DEF DataInv, PeersStates, accept_incoming
<1> HIDE DEF e
<1>3. /\ d.sets \in [SetId -> [PeerId -> MembershipState]] /\ d.num_in \in [SetId -> Int]
      /\ d.old \in SUBSET (SetId \X PeerId)
  BY DEF DataInv, PeersStates
<1>4. /\ e.sets \in [SetId -> [PeerId -> MembershipState]]
      /\ e.num_in \in [SetId -> Int]
      /\ e.old \in SUBSET (SetId \X PeerId)
  BY <1>1, <1>3 DEF MembershipState
<1>5. e \in PeersStates
  BY <1>2, <1>4 DEF DataInv, PeersStates
<1>6. OldNotConnected(e)
  BY <1>1, <1>3 DEF DataInv, OldNotConnected
<1>7. ASSUME NEW t \in SetId
      PROVE  /\ Occupants(e, t, "Out") = Occupants(d, t, "Out")
             /\ Occupants(e, t, "In") = IF t = s /\ p \notin d.no_slot_nodes[s]
                                        THEN Occupants(d, t, "In") \cup {p}
                                        ELSE Occupants(d, t, "In")
             /\ p \notin Occupants(d, s, "In")
  BY <1>1, <1>3 DEF Occupants, Connected
<1>8. SlotsCounted(e)
  <2> SUFFICES ASSUME NEW t \in SetId
               PROVE  /\ e.num_in[t] = Cardinality(Occupants(e, t, "In"))
                      /\ e.num_out[t] = Cardinality(Occupants(e, t, "Out"))
    BY DEF SlotsCounted
  <2>1. /\ d.num_in[t] = Cardinality(Occupants(d, t, "In"))
        /\ d.num_out[t] = Cardinality(Occupants(d, t, "Out"))
    BY DEF DataInv, SlotsCounted
  <2>2. Cardinality(Occupants(d, s, "In") \cup {p}) = Cardinality(Occupants(d, s, "In")) + 1
    BY <1>7, OccupantsFinite, FS_AddElement
  <2>3. e.num_in[t] = IF t = s /\ p \notin d.no_slot_nodes[s] THEN d.num_in[t] + 1 ELSE d.num_in[t]
    BY <1>1, <1>3
  <2>4. e.num_in[t] = Cardinality(Occupants(e, t, "In"))
    BY <1>7, <2>1, <2>2, <2>3
  <2> QED  BY <1>1, <1>7, <2>1, <2>4
<1>9. \A t \in SetId : Connected(e, t) \subseteq Connected(d, t) \cup (IF t = s THEN {p} ELSE {})
  BY <1>1, <1>3 DEF Connected
<1>10. DataInv(e)
  BY <1>5, <1>6, <1>8 DEF DataInv
<1> QED  BY <1>1, <1>9, <1>10 DEF e

\* A change that touches neither connections nor counters.
LEMMA UnconnectedInv ==
  ASSUME NEW d, DataInv(d), NEW e \in PeersStates,
         e.num_in = d.num_in, e.num_out = d.num_out, e.no_slot_nodes = d.no_slot_nodes,
         \A t \in SetId, q \in PeerId : \/ e.sets[t][q] = d.sets[t][q]
                                        \/ /\ e.sets[t][q] \in {"NotMember", "NotConnected"}
                                           /\ d.sets[t][q] \in {"NotMember", "NotConnected"},
         OldNotConnected(e)
  PROVE  /\ DataInv(e)
         /\ \A t \in SetId : Connected(e, t) = Connected(d, t)
<1>1. \A t \in SetId : /\ Occupants(e, t, "In") = Occupants(d, t, "In")
                       /\ Occupants(e, t, "Out") = Occupants(d, t, "Out")
                       /\ Connected(e, t) = Connected(d, t)
  BY DEF Occupants, Connected
<1> QED  BY <1>1 DEF DataInv, SlotsCounted

\* discover: the node becomes a member of the set without a connection.
LEMMA DiscoverInv ==
  ASSUME NEW d, DataInv(d), NEW s \in SetId, NEW p \in PeerId, p \notin Connected(d, s)
  PROVE  LET e == discover(d, s, p)
         IN  /\ DataInv(e)
             /\ e.no_slot_nodes = d.no_slot_nodes
             /\ \A t \in SetId : Connected(e, t) = Connected(d, t)
<1> DEFINE e == discover(d, s, p)
<1>1. /\ e.nodes = d.nodes \cup {p}
      /\ e.sets = [d.sets EXCEPT ![s][p] = "NotConnected"]
      /\ e.num_in = d.num_in /\ e.num_out = d.num_out /\ e.no_slot_nodes = d.no_slot_nodes
      /\ e.old = d.old \ {<<s, p>>}
  BY DEF DataInv, PeersStates, discover
<1>2. e = [d EXCEPT !.nodes = e.nodes, !.sets = e.sets, !.old = e.old]
  BY DEF DataInv, PeersStates, discover
<1> HIDE DEF e
<1>3. /\ d.sets \in [SetId -> [PeerId -> MembershipState]]
      /\ d.old \in SUBSET (SetId \X PeerId) /\ d.nodes \in SUBSET PeerId
  BY DEF DataInv, PeersStates
<1>4. /\ e.sets \in [SetId -> [PeerId -> MembershipState]]
      /\ e.old \in SUBSET (SetId \X PeerId) /\ e.nodes \in SUBSET PeerId
  BY <1>1, <1>3 DEF MembershipState
<1>5. e \in PeersStates
  BY <1>2, <1>4 DEF DataInv, PeersStates
<1>6. OldNotConnected(e)
  BY <1>1, <1>3 DEF DataInv, OldNotConnected
<1>7. \A t \in SetId, q \in PeerId : \/ e.sets[t][q] = d.sets[t][q]
                                     \/ /\ e.sets[t][q] \in {"NotMember", "NotConnected"}
                                        /\ d.sets[t][q] \in {"NotMember", "NotConnected"}
  BY <1>1, <1>3 DEF Connected, MembershipState
<1>8. DataInv(e) /\ \A t \in SetId : Connected(e, t) = Connected(d, t)
  BY <1>1, <1>5, <1>6, <1>7, UnconnectedInv
<1> QED  BY <1>1, <1>8 DEF e

\* Dropping a Reputation: only a node without membership and reputation leaves
\* the map, which no counter depends on.
LEMMA RemoveIfBlankInv ==
  ASSUME NEW d, DataInv(d), NEW p \in PeerId
  PROVE  LET e == remove_if_blank(d, p)
         IN  /\ DataInv(e)
             /\ e.no_slot_nodes = d.no_slot_nodes
             /\ e.reputation = d.reputation
             /\ \A t \in SetId : Connected(e, t) = Connected(d, t)
<1> DEFINE e == [d EXCEPT !.nodes = @ \ {p}]
<1>1. e.nodes = d.nodes \ {p} /\ e.sets = d.sets /\ e.num_in = d.num_in /\ e.num_out = d.num_out
      /\ e.no_slot_nodes = d.no_slot_nodes /\ e.old = d.old /\ e.reputation = d.reputation
  BY DEF DataInv, PeersStates
<1>2. e \in PeersStates
  BY DEF DataInv, PeersStates
<1> HIDE DEF e
<1>3. OldNotConnected(e)
  BY <1>1 DEF DataInv, OldNotConnected
<1>4. DataInv(e) /\ \A t \in SetId : Connected(e, t) = Connected(d, t)
  BY <1>1, <1>2, <1>3, UnconnectedInv
<1>5. remove_if_blank(d, p) \in {d, e}
  BY DEF remove_if_blank, e
<1> QED  BY <1>1, <1>4, <1>5

\* forget_peer: a node that is not connected leaves the set, and no slot is
\* affected.
LEMMA ForgetPeerInv ==
  ASSUME NEW d, DataInv(d), NEW s \in SetId, NEW p \in PeerId, p \notin Connected(d, s)
  PROVE  LET e == forget_peer(d, s, p)
         IN  /\ DataInv(e)
             /\ e.no_slot_nodes = d.no_slot_nodes
             /\ \A t \in SetId : Connected(e, t) = Connected(d, t)
<1> DEFINE e == [d EXCEPT !.sets[s][p] = "NotMember", !.old = @ \ {<<s, p>>}]
<1>1. /\ e.sets = [d.sets EXCEPT ![s][p] = "NotMember"]
      /\ e.num_in = d.num_in /\ e.num_out = d.num_out /\ e.no_slot_nodes = d.no_slot_nodes
      /\ e.old = d.old \ {<<s, p>>}
  BY DEF DataInv, PeersStates
<1>2. e = [d EXCEPT !.sets = e.sets, !.old = e.old]
  BY DEF DataInv, PeersStates
<1>3. forget_peer(d, s, p) = remove_if_blank(e, p)
  BY DEF forget_peer
<1> HIDE DEF e
<1>4. /\ d.sets \in [SetId -> [PeerId -> MembershipState]]
      /\ d.old \in SUBSET (SetId \X PeerId)
  BY DEF DataInv, PeersStates
<1>5. /\ e.sets \in [SetId -> [PeerId -> MembershipState]]
      /\ e.old \in SUBSET (SetId \X PeerId)
  BY <1>1, <1>4 DEF MembershipState
<1>6. e \in PeersStates
  BY <1>2, <1>5 DEF DataInv, PeersStates
<1>7. OldNotConnected(e)
  BY <1>1, <1>4 DEF DataInv, OldNotConnected
<1>8. \A t \in SetId, q \in PeerId : \/ e.sets[t][q] = d.sets[t][q]
                                     \/ /\ e.sets[t][q] \in {"NotMember", "NotConnected"}
                                        /\ d.sets[t][q] \in {"NotMember", "NotConnected"}
  BY <1>1, <1>4 DEF Connected, MembershipState
<1>9. DataInv(e) /\ \A t \in SetId : Connected(e, t) = Connected(d, t)
  BY <1>1, <1>6, <1>7, <1>8, UnconnectedInv
<1> QED  BY <1>1, <1>3, <1>9, RemoveIfBlankInv

\* add_reputation of a known node keeps the invariant and all connections.
LEMMA AddReputationInv ==
  ASSUME NEW d, DataInv(d), NEW p \in PeerId, NEW v \in Int
  PROVE  LET e == add_reputation(d, p, v)
         IN  /\ DataInv(e)
             /\ e.no_slot_nodes = d.no_slot_nodes
             /\ \A t \in SetId : Connected(e, t) = Connected(d, t)
<1> DEFINE e == add_reputation(d, p, v)
<1>1. /\ e.reputation = [d.reputation EXCEPT ![p] = Saturate(@ + v)]
      /\ e.sets = d.sets /\ e.num_in = d.num_in /\ e.num_out = d.num_out
      /\ e.no_slot_nodes = d.no_slot_nodes /\ e.old = d.old
  BY DEF DataInv, PeersStates, add_reputation
<1>2. e = [d EXCEPT !.reputation = e.reputation]
  BY DEF DataInv, PeersStates, add_reputation
<1> HIDE DEF e
<1>3. d.reputation \in [PeerId -> I32]
  BY DEF DataInv, PeersStates
<1>4. d.reputation[p] + v \in Int
  BY <1>3, I32Assumption DEF I32
<1>5. e.reputation \in [PeerId -> I32]
  BY <1>1, <1>3, <1>4, SaturateType
<1>6. e \in PeersStates
  BY <1>2, <1>5 DEF DataInv, PeersStates
<1>7. OldNotConnected(e)
  BY <1>1 DEF DataInv, OldNotConnected
<1>8. DataInv(e) /\ \A t \in SetId : Connected(e, t) = Connected(d, t)
  BY <1>1, <1>6, <1>7, UnconnectedInv
<1> QED  BY <1>1, <1>8 DEF e

\* peer_reputation followed by add_reputation, for a node that may be unknown.
LEMMA ReportReputationInv ==
  ASSUME NEW d, DataInv(d), NEW p \in PeerId, NEW v \in Int
  PROVE  LET e == report_reputation(d, p, v)
         IN  /\ DataInv(e)
             /\ e.no_slot_nodes = d.no_slot_nodes
             /\ \A t \in SetId : Connected(e, t) = Connected(d, t)
<1> DEFINE e == [d EXCEPT !.nodes = @ \cup {p}]
<1>1. e.sets = d.sets /\ e.num_in = d.num_in /\ e.num_out = d.num_out
      /\ e.no_slot_nodes = d.no_slot_nodes /\ e.old = d.old
  BY DEF DataInv, PeersStates
<1>2. e \in PeersStates
  BY DEF DataInv, PeersStates
<1>3. report_reputation(d, p, v) = remove_if_blank(add_reputation(e, p, v), p)
  BY DEF report_reputation
<1> HIDE DEF e
<1>4. OldNotConnected(e)
  BY <1>1 DEF DataInv, OldNotConnected
<1>5. DataInv(e) /\ \A t \in SetId : Connected(e, t) = Connected(d, t)
  BY <1>1, <1>2, <1>4, UnconnectedInv
<1> QED  BY <1>1, <1>3, <1>5, AddReputationInv, RemoveIfBlankInv

-----------------------------------------------------------------------------
(* Time                                                                    *)

\* A second of decay of a reputation is an i32, zero crossing included.
LEMMA ReputTickType == ASSUME NEW r \in Int PROVE reput_tick(r) \in I32
<1>1. Quotient(r, TickDivisor) \in Int
  BY ThresholdsType DEF Quotient
<1> QED  BY <1>1, SaturateType DEF reput_tick

\* A second of update_time: reputations decay, old memberships are forgotten,
\* and no connection is touched.
LEMMA TickInv ==
  ASSUME NEW d, DataInv(d)
  PROVE  /\ DataInv(tick(d))
         /\ tick(d).no_slot_nodes = d.no_slot_nodes
         /\ \A t \in SetId : Connected(tick(d), t) = Connected(d, t)
<1> DEFINE rep  == [p \in PeerId |-> IF p \in d.nodes THEN reput_tick(d.reputation[p])
                                                      ELSE d.reputation[p]]
           gone == {m \in d.old : m[2] \in d.nodes /\ rep[m[2]] = 0}
           sets == [s \in SetId |-> [p \in PeerId |->
                      IF <<s, p>> \in gone THEN "NotMember" ELSE d.sets[s][p]]]
           e    == [d EXCEPT !.reputation = rep, !.sets = sets, !.old = @ \ gone]
           f    == [e EXCEPT !.nodes = {p \in @ : Retained(e, p)}]
<1>1. tick(d) = f
  BY DEF tick
<1>2. /\ d.sets \in [SetId -> [PeerId -> MembershipState]]
      /\ d.old \in SUBSET (SetId \X PeerId) /\ d.nodes \in SUBSET PeerId
      /\ d.reputation \in [PeerId -> I32]
  BY DEF DataInv, PeersStates
<1>3. rep \in [PeerId -> I32]
  <2>1. \A p \in PeerId : d.reputation[p] \in Int
    BY <1>2, I32Assumption DEF I32
  <2> QED  BY <1>2, <2>1, ReputTickType
<1>4. sets \in [SetId -> [PeerId -> MembershipState]]
  BY <1>2 DEF MembershipState
<1>5. gone \subseteq d.old
  OBVIOUS
<1> HIDE DEF rep, gone
<1>6. ASSUME NEW t \in SetId, NEW q \in PeerId
      PROVE  \/ sets[t][q] = d.sets[t][q]
             \/ sets[t][q] = "NotMember" /\ d.sets[t][q] = "NotConnected"
  <2>1. CASE <<t, q>> \in gone
    BY <1>5, <2>1 DEF DataInv, OldNotConnected
  <2>2. CASE <<t, q>> \notin gone
    BY <2>2
  <2> QED  BY <2>1, <2>2
<1>7. ASSUME NEW m \in d.old \ gone
      PROVE  sets[m[1]][m[2]] = "NotConnected"
  BY <1>2 DEF DataInv, OldNotConnected
<1> HIDE DEF sets
<1>8. /\ e \in PeersStates
      /\ e.sets = sets /\ e.old = d.old \ gone
      /\ e.num_in = d.num_in /\ e.num_out = d.num_out /\ e.no_slot_nodes = d.no_slot_nodes
  BY <1>3, <1>4 DEF DataInv, PeersStates
<1> HIDE DEF e
<1>9. /\ f \in PeersStates
      /\ f.sets = sets /\ f.old = d.old \ gone
      /\ f.num_in = d.num_in /\ f.num_out = d.num_out /\ f.no_slot_nodes = d.no_slot_nodes
  BY <1>8 DEF PeersStates
<1> HIDE DEF f
<1>10. OldNotConnected(f)
  BY <1>7, <1>9 DEF OldNotConnected
<1>11. \A t \in SetId, q \in PeerId : \/ f.sets[t][q] = d.sets[t][q]
                                      \/ /\ f.sets[t][q] \in {"NotMember", "NotConnected"}
                                         /\ d.sets[t][q] \in {"NotMember", "NotConnected"}
  BY <1>6, <1>9
<1>12. DataInv(f) /\ \A t \in SetId : Connected(f, t) = Connected(d, t)
  BY <1>9, <1>10, <1>11, UnconnectedInv
<1> QED  BY <1>1, <1>9, <1>12

\* update_time, whatever the number of seconds it makes up for.
LEMMA UpdateTimeInv ==
  ASSUME NEW d, DataInv(d), NEW e \in update_time(d)
  PROVE  /\ DataInv(e)
         /\ e.no_slot_nodes = d.no_slot_nodes
         /\ \A t \in SetId : Connected(e, t) = Connected(d, t)
BY TickInv DEF update_time
-----------------------------------------------------------------------------
(* Messages                                                                *)

\* The messages an operation queues are messages.
LEMMA ListingsType ==
  ASSUME NEW C, NEW t \in {"Connect", "Drop"}, NEW rank, NEW q \in Listings(C, t, rank)
  PROVE  q \in Seq(Messages)
<1> DEFINE every == [type : {t}, set : SetId, peer : PeerId]
           all   == {m \in every : m.peer \in C[m.set]}
           f     == [x \in SetId \X PeerId |-> [type |-> t, set |-> x[1], peer |-> x[2]]]
<1>1. f \in Surjection(SetId \X PeerId, every)
  <2>1. f \in [SetId \X PeerId -> every]
    OBVIOUS
  <2>2. ASSUME NEW m \in every PROVE \E x \in SetId \X PeerId : f[x] = m
    <3>1. <<m.set, m.peer>> \in SetId \X PeerId /\ f[<<m.set, m.peer>>] = m
      OBVIOUS
    <3> QED  BY <3>1
  <2> QED  BY <2>1, <2>2 DEF Surjection
<1>2. IsFiniteSet(every)
  BY <1>1, FS_Product, FS_Surjection, SetIdAssumption, PeerIdFinite
<1>3. Cardinality(all) \in Nat
  BY <1>2, FS_Subset, FS_CardinalityType
<1>4. q \in [1 .. Cardinality(all) -> all]
  BY DEF Listings, SetToSeqs
<1>5. all \subseteq Messages
  BY DEF Messages
<1> HIDE DEF all
<1>6. q \in [1 .. Cardinality(all) -> Messages]
  BY <1>4, <1>5
<1> QED  BY <1>3, <1>6

-----------------------------------------------------------------------------
(* Slot allocation                                                         *)

\* alloc_slots keeps the slot accounting and, in a set in reserved-only mode,
\* connects nothing but reserved nodes.
LEMMA AllocSlotsInv ==
  ASSUME NEW d0, DataInv(d0), NEW reserved \in PeerChoice, NEW only \in [SetId -> BOOLEAN],
         NEW o \in alloc_slots(d0, reserved, only)
  PROVE  /\ DataInv(o.data)
         /\ o.data.no_slot_nodes = d0.no_slot_nodes
         /\ o.msgs \in Seq(Messages)
         /\ \A s \in SetId : only[s] => Connected(o.data, s) \subseteq Connected(d0, s) \cup reserved[s]
<1>1. PICK d \in update_time(d0) :
        LET R == reserved_to_connect(d, reserved)
            e == outgoing(d, R)
        IN  \E C \in {C \in PeerChoice : \A s \in SetId : C[s] \in highest_not_connected(e, only, s)} :
            \E m1 \in Listings(R, "Connect", Unordered), m2 \in Listings(C, "Connect", e.reputation) :
              o = [data |-> outgoing(e, C), msgs |-> m1 \o m2]
  BY DEF alloc_slots
<1> DEFINE R == reserved_to_connect(d, reserved)
           e == outgoing(d, R)
<1>2. PICK C \in PeerChoice :
        /\ \A s \in SetId : C[s] \in highest_not_connected(e, only, s)
        /\ \E m1 \in Listings(R, "Connect", Unordered), m2 \in Listings(C, "Connect", e.reputation) :
             o = [data |-> outgoing(e, C), msgs |-> m1 \o m2]
  BY <1>1
<1>3. /\ DataInv(d) /\ d.no_slot_nodes = d0.no_slot_nodes
      /\ \A s \in SetId : Connected(d, s) = Connected(d0, s)
  BY UpdateTimeInv
<1>4. /\ R \in PeerChoice
      /\ \A s \in SetId : R[s] \cap Connected(d, s) = {} /\ R[s] \subseteq reserved[s]
  BY DEF reserved_to_connect, PeerChoice
<1>5. /\ DataInv(e) /\ e.no_slot_nodes = d.no_slot_nodes
      /\ \A s \in SetId : Connected(e, s) = Connected(d, s) \cup R[s]
  BY <1>3, <1>4, OutgoingInv
<1>6. ASSUME NEW s \in SetId
      PROVE  C[s] \cap Connected(e, s) = {} /\ (only[s] => C[s] = {})
  <2>1. C[s] \subseteq {p \in NotConnected(e, s) : ~only[s] /\ e.reputation[p] >= BANNED_THRESHOLD}
    BY <1>2 DEF highest_not_connected
  <2> HIDE DEF e
  <2> QED  BY <2>1 DEF NotConnected, Connected
<1> HIDE DEF e
<1>7. /\ DataInv(outgoing(e, C)) /\ outgoing(e, C).no_slot_nodes = e.no_slot_nodes
      /\ \A s \in SetId : Connected(outgoing(e, C), s) = Connected(e, s) \cup C[s]
  BY <1>5, <1>6, OutgoingInv
<1>8. o.data = outgoing(e, C)
  BY <1>2
<1>9. o.msgs \in Seq(Messages)
  <2>1. PICK m1 \in Listings(R, "Connect", Unordered), m2 \in Listings(C, "Connect", e.reputation) :
          o.msgs = m1 \o m2
    BY <1>2
  <2>2. m1 \in Seq(Messages) /\ m2 \in Seq(Messages)
    BY ListingsType
  <2> QED  BY <2>1, <2>2
<1>10. \A s \in SetId : only[s] => Connected(outgoing(e, C), s) \subseteq Connected(d0, s) \cup reserved[s]
  BY <1>3, <1>4, <1>5, <1>6, <1>7
<1> QED  BY <1>3, <1>5, <1>7, <1>8, <1>9, <1>10
-----------------------------------------------------------------------------
(* The handlers                                                            *)

\* The part of the inductive invariant that the handlers can disturb.  The
\* counters can only be shown right together with the ages of memberships
\* (time takes old memberships away), and reserved-only mode together with
\* the two lists of reserved nodes.
CoreInv ==
  /\ DataInv(data)
  /\ reserved_nodes \in PeerChoice
  /\ reserved_only \in [SetId -> BOOLEAN]
  /\ message_queue \in Seq(Messages)
  /\ ReservedInSync
  /\ OnlyReservedConnected

\* An operation that ends in alloc_slots keeps the core invariant when the
\* state it calls it in satisfies it.
LEMMA AllocSlotsStep ==
  ASSUME NEW d, DataInv(d), NEW msgs \in Seq(Messages), message_queue \in Seq(Messages),
         reserved_nodes' \in PeerChoice, reserved_only' \in [SetId -> BOOLEAN],
         d.no_slot_nodes = reserved_nodes',
         \A s \in SetId : reserved_only'[s] => Connected(d, s) \subseteq reserved_nodes'[s],
         AllocSlots(d, msgs)
  PROVE  CoreInv'
<1>1. PICK o \in alloc_slots(d, reserved_nodes', reserved_only') :
        data' = o.data /\ message_queue' = message_queue \o msgs \o o.msgs
  BY DEF AllocSlots
<1>2. /\ DataInv(o.data)
      /\ o.data.no_slot_nodes = d.no_slot_nodes
      /\ o.msgs \in Seq(Messages)
      /\ \A s \in SetId : reserved_only'[s] =>
            Connected(o.data, s) \subseteq Connected(d, s) \cup reserved_nodes'[s]
  BY AllocSlotsInv
<1>3. message_queue' \in Seq(Messages)
  BY <1>1, <1>2
<1> QED  BY <1>1, <1>2, <1>3 DEF CoreInv, ReservedInSync, OnlyReservedConnected

\* on_add_reserved_peer updates both lists of reserved nodes.
LEMMA AddReservedPeerStep ==
  ASSUME CoreInv, NEW s \in SetId, NEW p \in PeerId, add_reserved_peer(s, p)
  PROVE  CoreInv'
<1> DEFINE d == add_no_slot_node(data, s, p)
<1>1. /\ reserved_nodes' = [reserved_nodes EXCEPT ![s] = @ \cup {p}]
      /\ reserved_nodes' \in PeerChoice
      /\ reserved_only' = reserved_only
  BY DEF add_reserved_peer, CoreInv, PeerChoice
<1>2. CASE p \in reserved_nodes[s]
  <2>1. reserved_nodes' = reserved_nodes
    BY <1>1, <1>2 DEF CoreInv, PeerChoice
  <2>2. data' = data /\ message_queue' = message_queue
    BY <1>2 DEF add_reserved_peer
  <2> QED  BY <1>1, <2>1, <2>2 DEF CoreInv, ReservedInSync, OnlyReservedConnected
<1>3. CASE p \notin reserved_nodes[s]
  <2>1. AllocSlots(d, <<>>)
    BY <1>3 DEF add_reserved_peer
  <2>2. /\ DataInv(d)
        /\ d.no_slot_nodes = [data.no_slot_nodes EXCEPT ![s] = @ \cup {p}]
        /\ \A t \in SetId : Connected(d, t) = Connected(data, t)
    BY AddNoSlotNodeInv DEF CoreInv
  <2>3. d.no_slot_nodes = reserved_nodes'
    BY <1>1, <2>2 DEF CoreInv, ReservedInSync
  <2> HIDE DEF d
  <2>4. \A t \in SetId : reserved_only'[t] => Connected(d, t) \subseteq reserved_nodes'[t]
    BY <1>1, <2>2 DEF CoreInv, OnlyReservedConnected, PeerChoice
  <2>5. <<>> \in Seq(Messages)
    OBVIOUS
  <2>6. reserved_only' \in [SetId -> BOOLEAN] /\ message_queue \in Seq(Messages)
    BY <1>1 DEF CoreInv
  <2> QED  BY <1>1, <2>1, <2>2, <2>3, <2>4, <2>5, <2>6, AllocSlotsStep
<1> QED  BY <1>2, <1>3

\* on_remove_reserved_peer updates both lists, and in reserved-only mode
\* disconnects the node.
LEMMA RemoveReservedPeerStep ==
  ASSUME CoreInv, NEW s \in SetId, NEW p \in PeerId, remove_reserved_peer(s, p)
  PROVE  CoreInv'
<1> DEFINE d == remove_no_slot_node(data, s, p)
           C == Only(s, {p})
<1>1. /\ reserved_nodes' = [reserved_nodes EXCEPT ![s] = @ \ {p}]
      /\ reserved_nodes' \in PeerChoice
      /\ reserved_only' = reserved_only
  BY DEF remove_reserved_peer, CoreInv, PeerChoice
<1>2. /\ DataInv(d)
      /\ d.no_slot_nodes = [data.no_slot_nodes EXCEPT ![s] = @ \ {p}]
      /\ \A t \in SetId : Connected(d, t) = Connected(data, t)
  BY RemoveNoSlotNodeInv DEF CoreInv
<1>3. d.no_slot_nodes = reserved_nodes'
  BY <1>1, <1>2 DEF CoreInv, ReservedInSync
<1>4. CASE p \notin reserved_nodes[s]
  <2>1. reserved_nodes' = reserved_nodes
    BY <1>1, <1>4 DEF CoreInv, PeerChoice
  <2>2. data' = data /\ message_queue' = message_queue
    BY <1>4 DEF remove_reserved_peer
  <2> QED  BY <1>1, <2>1, <2>2 DEF CoreInv, ReservedInSync, OnlyReservedConnected
<1>5. CASE p \in reserved_nodes[s] /\ reserved_only[s] /\ p \in Connected(data, s)
  <2>1. data' = disconnect(d, C) /\ message_queue' = Append(message_queue, Drop(s, p))
    BY <1>5 DEF remove_reserved_peer
  <2>2. C \in PeerChoice /\ \A t \in SetId : C[t] \subseteq Connected(d, t)
    BY <1>2, <1>5 DEF Only, PeerChoice
  <2> HIDE DEF d, C
  <2>3. /\ DataInv(data') /\ data'.no_slot_nodes = d.no_slot_nodes
        /\ \A t \in SetId : Connected(data', t) = Connected(d, t) \ C[t]
    BY <1>2, <2>1, <2>2, DisconnectInv
  <2>4. \A t \in SetId : reserved_only'[t] => Connected(data', t) \subseteq reserved_nodes'[t]
    <3>1. \A t \in SetId : Connected(data', t) =
                  IF t = s THEN Connected(data, t) \ {p} ELSE Connected(data, t)
      BY <1>2, <2>3 DEF Only, C
    <3> QED  BY <1>1, <3>1 DEF CoreInv, OnlyReservedConnected, PeerChoice
  <2>5. message_queue' \in Seq(Messages)
    BY <2>1 DEF CoreInv, Messages, Drop
  <2> QED  BY <1>1, <1>3, <2>3, <2>4, <2>5 DEF CoreInv, ReservedInSync, OnlyReservedConnected
<1>6. CASE p \in reserved_nodes[s] /\ ~(reserved_only[s] /\ p \in Connected(data, s))
  <2>1. data' = d /\ message_queue' = message_queue
    BY <1>6 DEF remove_reserved_peer
  <2> HIDE DEF d
  <2>2. \A t \in SetId : reserved_only'[t] => Connected(data', t) \subseteq reserved_nodes'[t]
    BY <1>1, <1>2, <1>6, <2>1 DEF CoreInv, OnlyReservedConnected, PeerChoice
  <2> QED  BY <1>1, <1>2, <1>3, <2>1, <2>2 DEF CoreInv, ReservedInSync, OnlyReservedConnected
<1> QED  BY <1>4, <1>5, <1>6

\* on_set_reserved_only disconnects every node that is not reserved when the
\* mode is switched on.
LEMMA SetReservedOnlyStep ==
  ASSUME CoreInv, NEW s \in SetId, NEW b \in BOOLEAN, set_reserved_only(s, b)
  PROVE  CoreInv'
<1> DEFINE C == Only(s, Connected(data, s) \ reserved_nodes[s])
<1>1. /\ reserved_only' = [reserved_only EXCEPT ![s] = b]
      /\ reserved_only' \in [SetId -> BOOLEAN]
      /\ reserved_nodes' = reserved_nodes
  BY DEF set_reserved_only, CoreInv
<1>2. CASE b
  <2>1. PICK q \in Listings(C, "Drop", Unordered) :
          data' = disconnect(data, C) /\ message_queue' = message_queue \o q
    BY <1>2 DEF set_reserved_only
  <2>2. C \in PeerChoice /\ \A t \in SetId : C[t] \subseteq Connected(data, t)
    BY DEF Only, PeerChoice, Connected
  <2> HIDE DEF C
  <2>3. /\ DataInv(data') /\ data'.no_slot_nodes = data.no_slot_nodes
        /\ \A t \in SetId : Connected(data', t) = Connected(data, t) \ C[t]
    BY <2>1, <2>2, DisconnectInv DEF CoreInv
  <2>4. \A t \in SetId : reserved_only'[t] => Connected(data', t) \subseteq reserved_nodes'[t]
    <3>1. \A t \in SetId : Connected(data', t) =
                  IF t = s THEN Connected(data, t) \cap reserved_nodes[t] ELSE Connected(data, t)
      BY <2>3 DEF Only, C
    <3> QED  BY <1>1, <3>1 DEF CoreInv, OnlyReservedConnected
  <2>5. message_queue' \in Seq(Messages)
    BY <2>1, ListingsType DEF CoreInv
  <2> QED  BY <1>1, <2>3, <2>4, <2>5 DEF CoreInv, ReservedInSync, OnlyReservedConnected
<1>3. CASE ~b
  <2>1. AllocSlots(data, <<>>)
    BY <1>3 DEF set_reserved_only
  <2>2. \A t \in SetId : reserved_only'[t] => Connected(data, t) \subseteq reserved_nodes'[t]
    BY <1>1, <1>3 DEF CoreInv, OnlyReservedConnected
  <2>3. /\ <<>> \in Seq(Messages) /\ message_queue \in Seq(Messages) /\ DataInv(data)
        /\ reserved_nodes' \in PeerChoice /\ data.no_slot_nodes = reserved_nodes'
    BY <1>1 DEF CoreInv, ReservedInSync
  <2> QED  BY <1>1, <2>1, <2>2, <2>3, AllocSlotsStep
<1> QED  BY <1>2, <1>3

\* add_to_peers_set.
LEMMA DiscoverAndConnectStep ==
  ASSUME CoreInv, NEW s \in SetId, NEW p \in PeerId, discover_and_connect(s, p)
  PROVE  CoreInv'
<1> DEFINE d == discover(data, s, p)
<1>1. reserved_nodes' = reserved_nodes /\ reserved_only' = reserved_only
  BY DEF discover_and_connect
<1>2. CASE p \in Unknown(data, s)
  <2>1. AllocSlots(d, <<>>)
    BY <1>2 DEF discover_and_connect
  <2>2. p \notin Connected(data, s)
    BY <1>2 DEF Unknown, Connected
  <2>3. /\ DataInv(d) /\ d.no_slot_nodes = data.no_slot_nodes
        /\ \A t \in SetId : Connected(d, t) = Connected(data, t)
    BY <2>2, DiscoverInv DEF CoreInv
  <2> HIDE DEF d
  <2>4. /\ <<>> \in Seq(Messages) /\ message_queue \in Seq(Messages)
        /\ reserved_nodes' \in PeerChoice /\ reserved_only' \in [SetId -> BOOLEAN]
        /\ d.no_slot_nodes = reserved_nodes'
        /\ \A t \in SetId : reserved_only'[t] => Connected(d, t) \subseteq reserved_nodes'[t]
    BY <1>1, <2>3 DEF CoreInv, ReservedInSync, OnlyReservedConnected
  <2> QED  BY <2>1, <2>3, <2>4, AllocSlotsStep
<1>3. CASE p \notin Unknown(data, s)
  BY <1>1, <1>3 DEF discover_and_connect, CoreInv, ReservedInSync, OnlyReservedConnected
<1> QED  BY <1>2, <1>3

\* remove_from_peers_set only ever disconnects.
LEMMA RemoveFromPeersSetInv ==
  ASSUME NEW d, DataInv(d), NEW s \in SetId, NEW p \in PeerId
  PROVE  LET e == remove_from_peers_set(d, s, p)
         IN  /\ DataInv(e) /\ e.no_slot_nodes = d.no_slot_nodes
             /\ \A t \in SetId : Connected(e, t) \subseteq Connected(d, t)
             /\ remove_from_peers_set_msgs(d, s, p) \in Seq(Messages)
<1> DEFINE C == Only(s, {p} \cap Connected(d, s))
           f == disconnect(d, C)
<1>1. C \in PeerChoice /\ \A t \in SetId : C[t] \subseteq Connected(d, t)
  BY DEF Only, PeerChoice, Connected
<1>2. p \notin Connected(d, s) \ C[s]
  BY DEF Only
<1> HIDE DEF C
<1>3. /\ DataInv(f) /\ f.no_slot_nodes = d.no_slot_nodes
      /\ \A t \in SetId : Connected(f, t) = Connected(d, t) \ C[t]
  BY <1>1, DisconnectInv
<1> HIDE DEF f
<1>4. p \notin Connected(f, s)
  BY <1>2, <1>3
<1>5. /\ DataInv(forget_peer(f, s, p)) /\ forget_peer(f, s, p).no_slot_nodes = f.no_slot_nodes
      /\ \A t \in SetId : Connected(forget_peer(f, s, p), t) = Connected(f, t)
  BY <1>3, <1>4, ForgetPeerInv
<1>6. remove_from_peers_set(d, s, p) \in {d, forget_peer(f, s, p)}
  BY DEF remove_from_peers_set, C, f
<1>7. remove_from_peers_set_msgs(d, s, p) \in Seq(Messages)
  <2>1. Drop(s, p) \in Messages
    BY DEF Messages, Drop
  <2>2. <<Drop(s, p)>> \in Seq(Messages) /\ <<>> \in Seq(Messages)
    BY <2>1
  <2> QED  BY <2>2 DEF remove_from_peers_set_msgs
<1> QED  BY <1>3, <1>5, <1>6, <1>7

\* on_report_peer disconnects a banned node from all its sets.
LEMMA ReportPeerStep ==
  ASSUME CoreInv, NEW p \in PeerId, NEW v \in ReportValues, report_peer(p, v)
  PROVE  CoreInv'
<1>1. PICK d0 \in update_time(data) :
        LET d == report_reputation(d0, p, v)
            C == [s \in SetId |-> {p} \cap Connected(d, s)]
        IN  /\ reserved_nodes' = reserved_nodes /\ reserved_only' = reserved_only
            /\ IF d.reputation[p] >= BANNED_THRESHOLD
               THEN data' = d /\ message_queue' = message_queue
               ELSE /\ data' = disconnect(d, C)
                    /\ \E q \in Listings(C, "Drop", Unordered) :
                          message_queue' = message_queue \o q
  BY DEF report_peer
<1> DEFINE d == report_reputation(d0, p, v)
           C == [s \in SetId |-> {p} \cap Connected(d, s)]
<1>2. /\ DataInv(d0) /\ d0.no_slot_nodes = data.no_slot_nodes
      /\ \A t \in SetId : Connected(d0, t) = Connected(data, t)
  BY UpdateTimeInv DEF CoreInv
<1>3. /\ DataInv(d) /\ d.no_slot_nodes = d0.no_slot_nodes
      /\ \A t \in SetId : Connected(d, t) = Connected(d0, t)
  BY <1>2, ReportReputationInv, ThresholdsType
<1>4. C \in PeerChoice /\ \A t \in SetId : C[t] \subseteq Connected(d, t)
  BY DEF PeerChoice
<1>5. /\ reserved_nodes' = reserved_nodes /\ reserved_only' = reserved_only
      /\ \/ data' = d /\ message_queue' = message_queue
         \/ /\ data' = disconnect(d, C)
            /\ \E q \in Listings(C, "Drop", Unordered) : message_queue' = message_queue \o q
  BY <1>1
<1> HIDE DEF d, C
<1>6. /\ DataInv(disconnect(d, C)) /\ disconnect(d, C).no_slot_nodes = d.no_slot_nodes
      /\ \A t \in SetId : Connected(disconnect(d, C), t) = Connected(d, t) \ C[t]
  BY <1>3, <1>4, DisconnectInv
<1>7. message_queue' \in Seq(Messages)
  <2>1. \A q \in Listings(C, "Drop", Unordered) : q \in Seq(Messages)
    BY ListingsType
  <2>2. message_queue \in Seq(Messages)
    BY DEF CoreInv
  <2>3. \A q \in Seq(Messages) : message_queue \o q \in Seq(Messages)
    BY <2>2
  <2> QED  BY <1>5, <2>1, <2>2, <2>3
<1>8. /\ DataInv(data') /\ data'.no_slot_nodes = data.no_slot_nodes
      /\ \A t \in SetId : Connected(data', t) \subseteq Connected(data, t)
  BY <1>2, <1>3, <1>5, <1>6
<1> QED  BY <1>5, <1>7, <1>8 DEF CoreInv, ReservedInSync, OnlyReservedConnected

\* incoming refuses nodes that are not reserved in reserved-only mode, before
\* it looks for a slot.
LEMMA IncomingStep ==
  ASSUME CoreInv, NEW s \in SetId, NEW p \in PeerId, NEW i \in IncomingIndex, incoming(s, p, i)
  PROVE  CoreInv'
<1>1. PICK d \in update_time(data) :
        /\ reserved_nodes' = reserved_nodes /\ reserved_only' = reserved_only
        /\ \/ /\ data' = d
              /\ message_queue' \in {message_queue, Append(message_queue, Reject(i))}
           \/ /\ reserved_only[s] => p \in reserved_nodes[s]
              /\ p \notin Connected(d, s)
              /\ \/ /\ data' = accept_incoming(discover(d, s, p), s, p)
                    /\ message_queue' = Append(message_queue, Accept(i))
                 \/ /\ data' = discover(d, s, p)
                    /\ message_queue' = Append(message_queue, Reject(i))
  BY DEF incoming, answer_incoming
<1>2. /\ DataInv(d) /\ d.no_slot_nodes = data.no_slot_nodes
      /\ \A t \in SetId : Connected(d, t) = Connected(data, t)
  BY UpdateTimeInv DEF CoreInv
<1>3. message_queue' \in Seq(Messages)
  BY <1>1 DEF CoreInv, Messages, Accept, Reject
<1>4. CASE data' = d
  BY <1>1, <1>2, <1>3, <1>4 DEF CoreInv, ReservedInSync, OnlyReservedConnected
<1>5. CASE /\ reserved_only[s] => p \in reserved_nodes[s]
           /\ p \notin Connected(d, s)
           /\ data' \in {accept_incoming(discover(d, s, p), s, p), discover(d, s, p)}
  <2> DEFINE e == discover(d, s, p)
             f == accept_incoming(e, s, p)
  <2>1. /\ DataInv(e) /\ e.no_slot_nodes = d.no_slot_nodes
        /\ \A t \in SetId : Connected(e, t) = Connected(d, t)
    BY <1>2, <1>5, DiscoverInv
  <2>2. data' \in {f, e}
    BY <1>5
  <2> HIDE DEF e
  <2>3. /\ DataInv(f) /\ f.no_slot_nodes = e.no_slot_nodes
        /\ \A t \in SetId : Connected(f, t) \subseteq Connected(e, t) \cup (IF t = s THEN {p} ELSE {})
    BY <1>5, <2>1, AcceptIncomingInv
  <2> HIDE DEF f
  <2>4. /\ DataInv(data') /\ data'.no_slot_nodes = data.no_slot_nodes
        /\ \A t \in SetId : Connected(data', t) \subseteq Connected(data, t) \cup (IF t = s THEN {p} ELSE {})
    BY <1>2, <2>1, <2>2, <2>3
  <2>5. \A t \in SetId : reserved_only'[t] => Connected(data', t) \subseteq reserved_nodes'[t]
    BY <1>1, <1>5, <2>4 DEF CoreInv, OnlyReservedConnected
  <2> QED  BY <1>1, <1>3, <2>4, <2>5 DEF CoreInv, ReservedInSync, OnlyReservedConnected
<1> QED  BY <1>1, <1>4, <1>5

\* dropped frees the slot of the node and allocates it again.
LEMMA DroppedStep ==
  ASSUME CoreInv, NEW s \in SetId, NEW p \in PeerId, NEW refused \in BOOLEAN, dropped(s, p, refused)
  PROVE  CoreInv'
<1>1. PICK d0 \in update_time(data) :
        LET d == IF p \in Connected(d0, s)
                 THEN disconnect(add_reputation(d0, p, DISCONNECT_REPUTATION_CHANGE), Only(s, {p}))
                 ELSE d0
        IN  /\ reserved_nodes' = reserved_nodes /\ reserved_only' = reserved_only
            /\ IF refused
               THEN AllocSlots(remove_from_peers_set(d, s, p), remove_from_peers_set_msgs(d, s, p))
               ELSE AllocSlots(d, <<>>)
  BY DEF dropped
<1> DEFINE a == add_reputation(d0, p, DISCONNECT_REPUTATION_CHANGE)
           C == Only(s, {p})
           d == IF p \in Connected(d0, s) THEN disconnect(a, C) ELSE d0
           e == IF refused THEN remove_from_peers_set(d, s, p) ELSE d
           m == IF refused THEN remove_from_peers_set_msgs(d, s, p) ELSE <<>>
<1>2. AllocSlots(e, m) /\ reserved_nodes' = reserved_nodes /\ reserved_only' = reserved_only
  BY <1>1
<1>3. /\ DataInv(d0) /\ d0.no_slot_nodes = data.no_slot_nodes
      /\ \A t \in SetId : Connected(d0, t) = Connected(data, t)
  BY UpdateTimeInv DEF CoreInv
<1>4. /\ DataInv(a) /\ a.no_slot_nodes = d0.no_slot_nodes
      /\ \A t \in SetId : Connected(a, t) = Connected(d0, t)
  BY <1>3, AddReputationInv, ThresholdsType
<1>5. C \in PeerChoice
  BY DEF Only, PeerChoice
<1>6. p \in Connected(d0, s) => \A t \in SetId : C[t] \subseteq Connected(a, t)
  BY <1>4 DEF Only
<1> HIDE DEF a, C
<1>7. /\ DataInv(d) /\ d.no_slot_nodes = data.no_slot_nodes
      /\ \A t \in SetId : Connected(d, t) \subseteq Connected(data, t)
  <2>1. CASE p \in Connected(d0, s)
    <3>1. /\ DataInv(disconnect(a, C)) /\ disconnect(a, C).no_slot_nodes = a.no_slot_nodes
          /\ \A t \in SetId : Connected(disconnect(a, C), t) = Connected(a, t) \ C[t]
      BY <1>4, <1>5, <1>6, <2>1, DisconnectInv
    <3> QED  BY <1>3, <1>4, <2>1, <3>1
  <2>2. CASE p \notin Connected(d0, s)
    BY <1>3, <2>2
  <2> QED  BY <2>1, <2>2
<1> HIDE DEF d
<1>8. /\ DataInv(e) /\ e.no_slot_nodes = data.no_slot_nodes
      /\ \A t \in SetId : Connected(e, t) \subseteq Connected(data, t)
      /\ m \in Seq(Messages)
  BY <1>7, RemoveFromPeersSetInv
<1> HIDE DEF e, m
<1>9. /\ message_queue \in Seq(Messages)
      /\ reserved_nodes' \in PeerChoice /\ reserved_only' \in [SetId -> BOOLEAN]
      /\ e.no_slot_nodes = reserved_nodes'
      /\ \A t \in SetId : reserved_only'[t] => Connected(e, t) \subseteq reserved_nodes'[t]
  BY <1>2, <1>8 DEF CoreInv, ReservedInSync, OnlyReservedConnected
<1> QED  BY <1>2, <1>8, <1>9, AllocSlotsStep

\* A step that only changes the message queue.
LEMMA StutterStep ==
  ASSUME CoreInv, message_queue' \in Seq(Messages),
         UNCHANGED <<data, reserved_nodes, reserved_only>>
  PROVE  CoreInv'
BY DEF CoreInv, ReservedInSync, OnlyReservedConnected

\* A step that only lets time pass.
LEMMA TimeStep ==
  ASSUME CoreInv, DataInv(data'), data'.no_slot_nodes = data.no_slot_nodes,
         \A t \in SetId : Connected(data', t) = Connected(data, t),
         UNCHANGED <<reserved_nodes, reserved_only, message_queue>>
  PROVE  CoreInv'
BY DEF CoreInv, ReservedInSync, OnlyReservedConnected

\* A membership becomes old enough to be forgotten.
LEMMA MembershipAgesStep ==
  ASSUME CoreInv, NEW s \in SetId, NEW p \in PeerId, membership_ages(s, p)
  PROVE  CoreInv'
<1> DEFINE e == [data EXCEPT !.old = @ \cup {<<s, p>>}]
<1>1. /\ e.sets = data.sets /\ e.num_in = data.num_in /\ e.num_out = data.num_out
      /\ e.no_slot_nodes = data.no_slot_nodes /\ e.old = data.old \cup {<<s, p>>}
      /\ e.old \in SUBSET (SetId \X PeerId)
  BY DEF CoreInv, DataInv, PeersStates
<1>2. e = [data EXCEPT !.old = e.old]
  BY DEF CoreInv, DataInv, PeersStates
<1>3. /\ data' = e /\ data.sets[s][p] = "NotConnected"
      /\ UNCHANGED <<reserved_nodes, reserved_only, message_queue>>
  BY DEF membership_ages, NotConnected
<1> HIDE DEF e
<1>4. e \in PeersStates
  BY <1>2, <1>1 DEF CoreInv, DataInv, PeersStates
<1>5. OldNotConnected(e)
  BY <1>1, <1>3 DEF CoreInv, DataInv, OldNotConnected
<1>6. DataInv(e) /\ \A t \in SetId : Connected(e, t) = Connected(data, t)
  BY <1>1, <1>5, <1>4, UnconnectedInv DEF CoreInv
<1> QED  BY <1>1, <1>3, <1>6, TimeStep

-----------------------------------------------------------------------------
(* The inductive invariant                                                 *)

Inv ==
  /\ CoreInv
  /\ rx \in Seq(Actions)
  /\ polling \in BOOLEAN
  /\ todo \in SUBSET (SetId \X PeerId)

\* What from_config starts from: the configured nodes, none connected.
LEMMA ConfiguredInv ==
  /\ DataInv(configured) /\ configured.no_slot_nodes = InitReserved
  /\ \A s \in SetId : Connected(configured, s) = {}
<1>1. /\ configured.sets = [s \in SetId |-> [p \in PeerId |->
                             IF p \in Bootnodes[s] THEN "NotConnected" ELSE "NotMember"]]
      /\ configured.num_in = [s \in SetId |-> 0] /\ configured.num_out = [s \in SetId |-> 0]
      /\ configured.old = {} /\ configured.no_slot_nodes = InitReserved
  BY DEF configured, NewPeersState
<1>2. configured \in PeersStates
  <2>1. /\ configured.sets \in [SetId -> [PeerId -> MembershipState]]
        /\ configured.nodes \in SUBSET PeerId
        /\ configured.no_slot_nodes \in [SetId -> SUBSET PeerId]
    BY ConfigType DEF configured, NewPeersState, PeerChoice, MembershipState
  <2>2. configured = [NewPeersState EXCEPT !.nodes = configured.nodes,
                        !.sets = configured.sets, !.no_slot_nodes = configured.no_slot_nodes]
    BY DEF configured, NewPeersState
  <2>3. NewPeersState \in PeersStates
    BY NewPeersStateInv DEF DataInv
  <2> QED  BY <2>1, <2>2, <2>3 DEF PeersStates
<1>3. \A s \in SetId : /\ Occupants(configured, s, "In") = {}
                       /\ Occupants(configured, s, "Out") = {}
                       /\ Connected(configured, s) = {}
  BY <1>1 DEF Occupants, Connected
<1> QED  BY <1>1, <1>2, <1>3, FS_EmptySet DEF DataInv, OldNotConnected, SlotsCounted

\* Peerset::from_config establishes the inductive invariant.
LEMMA InvInit == Init => Inv
<1> SUFFICES ASSUME Init PROVE Inv
  OBVIOUS
<1>1. PICK o \in alloc_slots(configured, InitReserved, InitReservedOnly) :
        data = o.data /\ message_queue = o.msgs
  BY DEF Init
<1>2. DataInv(configured) /\ configured.no_slot_nodes = InitReserved
      /\ \A s \in SetId : Connected(configured, s) = {}
  BY ConfiguredInv
<1>3. /\ DataInv(o.data)
      /\ o.data.no_slot_nodes = configured.no_slot_nodes
      /\ o.msgs \in Seq(Messages)
      /\ \A s \in SetId : InitReservedOnly[s] =>
            Connected(o.data, s) \subseteq Connected(configured, s) \cup InitReserved[s]
  BY <1>2, AllocSlotsInv, ConfigType
<1>4. /\ reserved_nodes = InitReserved /\ reserved_only = InitReservedOnly
      /\ rx = <<>> /\ polling = FALSE /\ todo = {}
  BY DEF Init
<1>5. CoreInv
  BY <1>1, <1>2, <1>3, <1>4, ConfigType DEF CoreInv, ReservedInSync, OnlyReservedConnected
<1>6. rx \in Seq(Actions) /\ todo \in SUBSET (SetId \X PeerId)
  BY <1>4
<1>7. polling \in BOOLEAN
  BY <1>4, Zenon
<1> QED  BY <1>5, <1>6, <1>7 DEF Inv

\* Every action of the peer set manager preserves the inductive invariant.
LEMMA InvNext == Inv /\ [Next]_vars => Inv'
<1> SUFFICES ASSUME Inv, [Next]_vars PROVE Inv'
  OBVIOUS
<1> USE DEF Inv
<1>1. CASE UNCHANGED vars
  BY <1>1, StutterStep DEF vars, CoreInv
<1>2. ASSUME NEW s \in SetId, NEW p \in PeerId, on_add_reserved_peer(s, p) PROVE Inv'
  BY <1>2, AddReservedPeerStep DEF on_add_reserved_peer, Receive
<1>3. ASSUME NEW s \in SetId, NEW p \in PeerId, on_remove_reserved_peer(s, p) PROVE Inv'
  BY <1>3, RemoveReservedPeerStep DEF on_remove_reserved_peer, Receive
<1>4. ASSUME NEW s \in SetId, NEW p \in PeerId, set_reserved_peers_add(s, p) PROVE Inv'
  BY <1>4, AddReservedPeerStep DEF set_reserved_peers_add
<1>5. ASSUME NEW s \in SetId, NEW p \in PeerId, set_reserved_peers_remove(s, p) PROVE Inv'
  BY <1>5, RemoveReservedPeerStep DEF set_reserved_peers_remove
<1>6. ASSUME NEW s \in SetId, NEW p \in PeerId, on_add_to_peers_set(s, p) PROVE Inv'
  BY <1>6, DiscoverAndConnectStep DEF on_add_to_peers_set, Receive
<1>7. ASSUME NEW s \in SetId, NEW p \in PeerId, on_remove_from_peers_set(s, p) PROVE Inv'
  <2>1. /\ DataInv(data') /\ data'.no_slot_nodes = data.no_slot_nodes
        /\ \A t \in SetId : Connected(data', t) \subseteq Connected(data, t)
        /\ remove_from_peers_set_msgs(data, s, p) \in Seq(Messages)
    BY <1>7, RemoveFromPeersSetInv DEF on_remove_from_peers_set, CoreInv
  <2>2. /\ UNCHANGED <<reserved_nodes, reserved_only, todo>>
        /\ message_queue' = message_queue \o remove_from_peers_set_msgs(data, s, p)
        /\ rx' = Tail(rx) /\ rx # <<>> /\ polling' = TRUE
    BY <1>7 DEF on_remove_from_peers_set, Receive
  <2>3. message_queue' \in Seq(Messages)
    BY <2>1, <2>2 DEF CoreInv
  <2>4. CoreInv'
    BY <2>1, <2>2, <2>3 DEF CoreInv, ReservedInSync, OnlyReservedConnected
  <2> QED  BY <2>2, <2>4
<1>8. ASSUME NEW s \in SetId, NEW P \in SUBSET PeerId, on_set_reserved_peers(s, P) PROVE Inv'
  <2>1. todo' \in SUBSET (SetId \X PeerId)
    BY <1>8 DEF on_set_reserved_peers, CoreInv, PeerChoice
  <2>2. /\ UNCHANGED <<data, reserved_nodes, reserved_only, message_queue>>
        /\ rx' = Tail(rx) /\ rx # <<>> /\ polling' = TRUE
    BY <1>8 DEF on_set_reserved_peers, Receive
  <2> QED  BY <2>1, <2>2, StutterStep DEF CoreInv
<1>9. ASSUME NEW s \in SetId, NEW b \in BOOLEAN, on_set_reserved_only(s, b) PROVE Inv'
  BY <1>9, SetReservedOnlyStep DEF on_set_reserved_only, Receive
<1>10. ASSUME NEW p \in PeerId, NEW v \in ReportValues, on_report_peer(p, v) PROVE Inv'
  BY <1>10, ReportPeerStep DEF on_report_peer, Receive
<1>11. ASSUME NEW m \in Messages, poll_ready(m) PROVE Inv'
  <2>1. /\ message_queue' = Tail(message_queue) /\ message_queue # <<>> /\ polling' = FALSE
        /\ UNCHANGED <<data, reserved_nodes, reserved_only, rx, todo>>
    BY <1>11 DEF poll_ready
  <2>2. message_queue' \in Seq(Messages)
    BY <2>1 DEF CoreInv
  <2> QED  BY <2>1, <2>2, StutterStep
<1>12. CASE poll_pending
  BY <1>12, StutterStep DEF poll_pending, CoreInv
<1>13. ASSUME NEW s \in SetId, NEW p \in PeerId, add_to_peers_set(s, p) PROVE Inv'
  BY <1>13, DiscoverAndConnectStep DEF add_to_peers_set, DirectCall
<1>14. ASSUME NEW s \in SetId, NEW p \in PeerId, NEW i \in IncomingIndex, incoming(s, p, i) PROVE Inv'
  <2>1. UNCHANGED <<rx, polling, todo>>
    BY <1>14 DEF incoming, DirectCall
  <2> QED  BY <1>14, <2>1, IncomingStep
<1>15. ASSUME NEW s \in SetId, NEW p \in PeerId, NEW r \in BOOLEAN, dropped(s, p, r) PROVE Inv'
  <2>1. UNCHANGED <<rx, polling, todo>>
    BY <1>15 DEF dropped, DirectCall
  <2> QED  BY <1>15, <2>1, DroppedStep
<1>16. ASSUME NEW s \in SetId, NEW p \in PeerId, membership_ages(s, p) PROVE Inv'
  <2>1. UNCHANGED <<rx, polling, todo>>
    BY <1>16 DEF membership_ages
  <2> QED  BY <1>16, <2>1, MembershipAgesStep
<1>17. CASE debug_info
  <2>1. /\ data' \in update_time(data)
        /\ UNCHANGED <<reserved_nodes, reserved_only, message_queue, rx, polling, todo>>
    BY <1>17 DEF debug_info, DirectCall
  <2>2. /\ DataInv(data') /\ data'.no_slot_nodes = data.no_slot_nodes
        /\ \A t \in SetId : Connected(data', t) = Connected(data, t)
    BY <2>1, UpdateTimeInv DEF CoreInv
  <2> QED  BY <2>1, <2>2, TimeStep
<1>18. ASSUME NEW a \in Actions, send(a) PROVE Inv'
  BY <1>18, StutterStep DEF send, CoreInv
<1>19. Poll => Inv'
  BY <1>2, <1>3, <1>4, <1>5, <1>6, <1>7, <1>8, <1>9, <1>10, <1>11, <1>12 DEF Poll, HandleAction
<1>20. Next => Inv'
  BY <1>13, <1>14, <1>15, <1>16, <1>17, <1>18, <1>19 DEF Next
<1> QED  BY <1>1, <1>20

-----------------------------------------------------------------------------
(* Theorems                                                                *)

\* Every state the peer set manager reaches is well formed, and so is every
\* message it emits, whatever the handles and the network task call.
THEOREM TypeCorrect == Spec => []TypeOK
<1>1. Inv => TypeOK
  BY DEF Inv, CoreInv, DataInv, TypeOK
<1> QED  BY <1>1, InvInit, InvNext, PTL DEF Spec

\* The slot counters never drift from the states of the peers, so that the
\* unchecked decrements of add_no_slot_node and disconnect never wrap.
THEOREM SlotAccountingCorrect == Spec => []SlotAccounting
<1>1. Inv => SlotAccounting
  BY DEF Inv, CoreInv, DataInv, SlotAccounting
<1> QED  BY <1>1, InvInit, InvNext, PTL DEF Spec

\* The list of reserved nodes of Peerset and the list of slot-less nodes of
\* PeersState are always the same.
THEOREM ReservedInSyncCorrect == Spec => []ReservedInSync
<1>1. Inv => ReservedInSync
  BY DEF Inv, CoreInv
<1> QED  BY <1>1, InvInit, InvNext, PTL DEF Spec

\* A set in reserved-only mode has no connection to a node that is not
\* reserved.
THEOREM OnlyReservedConnectedCorrect == Spec => []OnlyReservedConnected
<1>1. Inv => OnlyReservedConnected
  BY DEF Inv, CoreInv
<1> QED  BY <1>1, InvInit, InvNext, PTL DEF Spec
=============================================================================
