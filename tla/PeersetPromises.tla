-------------------------- MODULE PeersetPromises --------------------------
(***************************************************************************)
(* Proofs of what a step of the peer set manager may do: it keeps the slot *)
(* limits, connects to no banned node, and implements PeersetContract.     *)
(* PeersetProofs has the invariant that these proofs start from.           *)
(***************************************************************************)
EXTENDS PeersetProofs

-----------------------------------------------------------------------------
(* Slots and reputations                                                   *)

\* No set of e has more slots in use than in d.
NoMoreSlots(d, e) ==
  \A s \in SetId : e.num_in[s] <= d.num_in[s] /\ e.num_out[s] <= d.num_out[s]

\* Sets of e that have more slots in use than in d are within their limits.
WithinLimits(d, e) ==
  \A s \in SetId : /\ e.num_in[s] <= d.num_in[s] \/ e.num_in[s] <= max_in[s]
                   /\ e.num_out[s] <= d.num_out[s] \/ e.num_out[s] <= max_out[s]

\* The nodes connected in e and not in d are reserved or not banned.
NewlyChecked(d, e, reserved) ==
  \A s \in SetId : \A p \in Connected(e, s) \ Connected(d, s) :
    p \in reserved[s] \/ e.reputation[p] >= BANNED_THRESHOLD

\* A node that becomes reserved gives its slot back.
LEMMA AddNoSlotNodeSlots ==
  ASSUME NEW d, DataInv(d), NEW s \in SetId, NEW p \in PeerId
  PROVE  NoMoreSlots(d, add_no_slot_node(d, s, p))
BY DEF NoMoreSlots, add_no_slot_node, DataInv, PeersStates

\* A node that stops being reserved takes a slot of its set only.
LEMMA RemoveNoSlotNodeSlots ==
  ASSUME NEW d, DataInv(d), NEW s \in SetId, NEW p \in PeerId
  PROVE  LET e == remove_no_slot_node(d, s, p)
         IN  \A t \in SetId \ {s} : e.num_in[t] = d.num_in[t] /\ e.num_out[t] = d.num_out[t]
BY DEF remove_no_slot_node, DataInv, PeersStates

\* Disconnecting nodes frees slots.
LEMMA DisconnectSlots ==
  ASSUME NEW d, DataInv(d), NEW C \in PeerChoice
  PROVE  NoMoreSlots(d, disconnect(d, C)) /\ disconnect(d, C).reputation = d.reputation
<1>1. \A s \in SetId : /\ Cardinality(C[s] \cap Occupants(d, s, "In")) \in Nat
                       /\ Cardinality(C[s] \cap Occupants(d, s, "Out")) \in Nat
  <2>1. \A s \in SetId : \A S : C[s] \cap S \in SUBSET PeerId
    BY DEF PeerChoice
  <2> QED  BY <2>1, PeersFinite
<1> DEFINE e == disconnect(d, C)
<1>2. /\ e.reputation = d.reputation
      /\ \A s \in SetId : /\ e.num_in[s] = d.num_in[s] - Cardinality(C[s] \cap Occupants(d, s, "In"))
                          /\ e.num_out[s] = d.num_out[s] - Cardinality(C[s] \cap Occupants(d, s, "Out"))
                          /\ d.num_in[s] \in Int /\ d.num_out[s] \in Int
  BY DEF disconnect, DataInv, PeersStates
<1> HIDE DEF e
<1>3. ASSUME NEW s \in SetId PROVE e.num_in[s] <= d.num_in[s] /\ e.num_out[s] <= d.num_out[s]
  <2>1. \A i \in Int, n \in Nat : i - n <= i
    OBVIOUS
  <2> QED  BY <1>1, <1>2, <2>1
<1> QED  BY <1>2, <1>3 DEF e, NoMoreSlots

\* Connecting to nodes takes a slot for each one that is not reserved.
LEMMA OutgoingSlots ==
  ASSUME NEW d, DataInv(d), NEW C \in PeerChoice
  PROVE  LET e == outgoing(d, C)
         IN  /\ e.num_in = d.num_in /\ e.reputation = d.reputation
             /\ \A s \in SetId : e.num_out[s] = d.num_out[s] + Cardinality(C[s] \ d.no_slot_nodes[s])
BY DEF outgoing, DataInv, PeersStates

\* Accepting a node needs a slot if it is not reserved.
LEMMA AcceptIncomingSlots ==
  ASSUME NEW d, DataInv(d), NEW s \in SetId, NEW p \in PeerId, in_slot_available(d, s, p)
  PROVE  LET e == accept_incoming(d, s, p)
         IN  WithinLimits(d, e) /\ e.reputation = d.reputation
BY SlotLimitsType DEF WithinLimits, accept_incoming, in_slot_available, DataInv, PeersStates

\* Discovering a node changes no slot and no reputation.
LEMMA DiscoverSlots ==
  ASSUME NEW d, DataInv(d), NEW s \in SetId, NEW p \in PeerId
  PROVE  LET e == discover(d, s, p)
         IN  e.num_in = d.num_in /\ e.num_out = d.num_out /\ e.reputation = d.reputation
BY DEF discover, DataInv, PeersStates

\* Forgetting a node changes no slot.
LEMMA ForgetPeerSlots ==
  ASSUME NEW d, DataInv(d), NEW s \in SetId, NEW p \in PeerId
  PROVE  LET e == forget_peer(d, s, p) IN e.num_in = d.num_in /\ e.num_out = d.num_out
BY DEF forget_peer, remove_if_blank, DataInv, PeersStates

\* A change of reputation changes no slot.
LEMMA ReputationSlots ==
  ASSUME NEW d, DataInv(d), NEW p \in PeerId, NEW v
  PROVE  /\ add_reputation(d, p, v).num_in = d.num_in
         /\ add_reputation(d, p, v).num_out = d.num_out
         /\ report_reputation(d, p, v).num_in = d.num_in
         /\ report_reputation(d, p, v).num_out = d.num_out
BY DEF add_reputation, report_reputation, remove_if_blank, DataInv, PeersStates

\* Neither does the passing of time.
LEMMA UpdateTimeSlots ==
  ASSUME NEW d, DataInv(d), NEW e \in update_time(d)
  PROVE  e.num_in = d.num_in /\ e.num_out = d.num_out
BY DEF update_time, tick, DataInv, PeersStates

-----------------------------------------------------------------------------
(* Announcements                                                           *)

\* A message of type t for every node of C in every set.
Announce(t, C) == {m \in [type : {t}, set : SetId, peer : PeerId] : m.peer \in C[m.set]}

\* The links of a choice of nodes, and the queue as the network sees it.
Links(C) == {l \in SetId \X PeerId : l[2] \in C[l[1]]}
Linked(q) == [k \in DOMAIN q |-> LinkMessage(q[k])]

\* There are finitely many messages about nodes.
LEMMA AnnounceFinite ==
  ASSUME NEW C, NEW t \in {"Connect", "Drop"}
  PROVE  IsFiniteSet(Announce(t, C)) /\ Announce(t, C) \subseteq Messages
<1> DEFINE every == [type : {t}, set : SetId, peer : PeerId]
           f     == [x \in SetId \X PeerId |-> [type |-> t, set |-> x[1], peer |-> x[2]]]
<1>1. f \in Surjection(SetId \X PeerId, every)
  <2>1. f \in [SetId \X PeerId -> every]
    OBVIOUS
  <2>2. ASSUME NEW m \in every PROVE \E x \in SetId \X PeerId : f[x] = m
    <3>1. <<m.set, m.peer>> \in SetId \X PeerId /\ f[<<m.set, m.peer>>] = m
      OBVIOUS
    <3> QED  BY <3>1
  <2> QED  BY <2>1, <2>2 DEF Surjection
<1>2. IsFiniteSet(every)
  BY <1>1, FS_Product, FS_Surjection, SetIdAssumption, PeerIdFinite
<1>3. Announce(t, C) \subseteq every
  BY DEF Announce
<1>4. every \subseteq Messages
  BY DEF Messages
<1> QED  BY <1>2, <1>3, <1>4, FS_Subset

\* An ordering of a finite set is a sequence of its members, each once.
LEMMA OrderingIs ==
  ASSUME NEW S, IsFiniteSet(S), NEW q
  PROVE  q \in SetToSeqs(S) <=>
           /\ q \in Seq(S) /\ Len(q) = Cardinality(S)
           /\ \A i, j \in 1 .. Len(q) : i # j => q[i] # q[j]
<1>1. Cardinality(S) \in Nat
  BY FS_CardinalityType
<1>2. q \in SetToSeqs(S) <=> /\ q \in [1 .. Cardinality(S) -> S]
                             /\ \A i, j \in 1 .. Cardinality(S) : i # j => q[i] # q[j]
  BY DEF SetToSeqs
<1>3. q \in [1 .. Cardinality(S) -> S] <=> q \in Seq(S) /\ Len(q) = Cardinality(S)
  <2>1. q \in [1 .. Cardinality(S) -> S] => q \in Seq(S) /\ Len(q) = Cardinality(S)
    BY <1>1
  <2>2. q \in Seq(S) => q \in [1 .. Len(q) -> S]
    OBVIOUS
  <2> QED  BY <2>1, <2>2
<1> QED  BY <1>2, <1>3

\* Orderings of disjoint sets one after the other.
LEMMA OrderingConcat ==
  ASSUME NEW A, NEW B, IsFiniteSet(A), IsFiniteSet(B), A \cap B = {},
         NEW q \in SetToSeqs(A), NEW r \in SetToSeqs(B)
  PROVE  q \o r \in SetToSeqs(A \cup B)
<1>1. IsFiniteSet(A \cup B) /\ Cardinality(A \cup B) = Cardinality(A) + Cardinality(B)
  <2>1. Cardinality(A \cap B) = 0
    BY FS_EmptySet
  <2>2. Cardinality(A) \in Nat /\ Cardinality(B) \in Nat
    BY FS_CardinalityType
  <2>3. IsFiniteSet(A \cup B) /\ Cardinality(A \cup B) = Cardinality(A) + Cardinality(B) - Cardinality(A \cap B)
    BY FS_Union
  <2> QED  BY <2>1, <2>2, <2>3
<1>2. /\ q \in Seq(A) /\ Len(q) = Cardinality(A)
      /\ \A i, j \in 1 .. Len(q) : i # j => q[i] # q[j]
  BY OrderingIs
<1>3. /\ r \in Seq(B) /\ Len(r) = Cardinality(B)
      /\ \A i, j \in 1 .. Len(r) : i # j => r[i] # r[j]
  BY OrderingIs
<1>4. q \in Seq(A \cup B) /\ r \in Seq(A \cup B)
  BY <1>2, <1>3
<1>5. /\ q \o r \in Seq(A \cup B) /\ Len(q \o r) = Len(q) + Len(r)
      /\ Len(q) \in Nat /\ Len(r) \in Nat
      /\ \A i \in 1 .. Len(q) : (q \o r)[i] = q[i]
      /\ \A i \in Len(q) + 1 .. Len(q) + Len(r) : (q \o r)[i] = r[i - Len(q)]
  BY <1>4
<1>6. ASSUME NEW i \in 1 .. Len(q \o r), NEW j \in 1 .. Len(q \o r), i < j
      PROVE  (q \o r)[i] # (q \o r)[j]
  <2>1. CASE j <= Len(q)
    BY <2>1, <1>2, <1>5, <1>6
  <2>2. CASE i > Len(q)
    <3>1. i - Len(q) \in 1 .. Len(r) /\ j - Len(q) \in 1 .. Len(r) /\ i - Len(q) # j - Len(q)
      BY <2>2, <1>5, <1>6
    <3>2. (q \o r)[i] = r[i - Len(q)] /\ (q \o r)[j] = r[j - Len(q)]
      BY <2>2, <1>5, <1>6
    <3> QED  BY <3>1, <3>2, <1>3
  <2>3. CASE i <= Len(q) /\ j > Len(q)
    <3>1. i \in 1 .. Len(q) /\ j - Len(q) \in 1 .. Len(r)
      BY <2>3, <1>5, <1>6
    <3>2. (q \o r)[i] = q[i] /\ (q \o r)[j] = r[j - Len(q)]
      BY <2>3, <3>1, <1>5, <1>6
    <3>3. q[i] \in A /\ r[j - Len(q)] \in B
      BY <3>1, <1>2, <1>3
    <3> QED  BY <3>2, <3>3
  <2> QED  BY <2>1, <2>2, <2>3, <1>5, <1>6
<1>7. ASSUME NEW i \in 1 .. Len(q \o r), NEW j \in 1 .. Len(q \o r), i # j
      PROVE  (q \o r)[i] # (q \o r)[j]
  <2>1. i \in Int /\ j \in Int
    BY <1>5
  <2>2. i < j \/ j < i
    BY <2>1, <1>7
  <2> QED  BY <2>2, <1>6
<1>8. Len(q \o r) = Cardinality(A \cup B)
  BY <1>1, <1>2, <1>3, <1>5
<1> HIDE DEF SetToSeqs
<1> QED  BY <1>1, <1>5, <1>7, <1>8, OrderingIs

\* The messages about the nodes of C and D are, for the network, those of the
\* contract about their links.
LEMMA LinkedOrdering ==
  ASSUME NEW C, NEW D, NEW q \in SetToSeqs(Announce("Connect", C) \cup Announce("Drop", D))
  PROVE  Linked(q) \in Promise!Orders(Links(C), Links(D))
<1> DEFINE A == Announce("Connect", C) \cup Announce("Drop", D)
           B == {Promise!Connect(l) : l \in Links(C)} \cup {Promise!Drop(l) : l \in Links(D)}
           f == [m \in A |-> LinkMessage(m)]
<1>1. IsFiniteSet(A)
  BY AnnounceFinite, FS_Union
<1>2. \A m \in A : /\ m \in [type : {"Connect", "Drop"}, set : SetId, peer : PeerId]
                   /\ LinkMessage(m) = [type |-> m.type, link |-> <<m.set, m.peer>>]
  BY DEF Announce, LinkMessage
<1>3. f \in [A -> B]
  <2> SUFFICES ASSUME NEW m \in A PROVE LinkMessage(m) \in B
    OBVIOUS
  <2>1. CASE m \in Announce("Connect", C)
    <3>1. <<m.set, m.peer>> \in Links(C) /\ m.type = "Connect"
      BY <2>1 DEF Announce, Links
    <3> QED  BY <3>1, <1>2 DEF Promise!Connect
  <2>2. CASE m \in Announce("Drop", D)
    <3>1. <<m.set, m.peer>> \in Links(D) /\ m.type = "Drop"
      BY <2>2 DEF Announce, Links
    <3> QED  BY <3>1, <1>2 DEF Promise!Drop
  <2> QED  BY <2>1, <2>2
<1>4. \A m, n \in A : f[m] = f[n] => m = n
  <2> SUFFICES ASSUME NEW m \in A, NEW n \in A, LinkMessage(m) = LinkMessage(n) PROVE m = n
    OBVIOUS
  <2>1. m.type = n.type /\ <<m.set, m.peer>> = <<n.set, n.peer>>
    BY <1>2
  <2> QED  BY <2>1, <1>2
<1>5. \A b \in B : \E m \in A : f[m] = b
  <2> SUFFICES ASSUME NEW b \in B PROVE \E m \in A : LinkMessage(m) = b
    OBVIOUS
  <2>1. CASE b \in {Promise!Connect(l) : l \in Links(C)}
    <3>1. PICK l \in Links(C) : b = [type |-> "Connect", link |-> l]
      BY <2>1 DEF Promise!Connect
    <3> DEFINE m == [type |-> "Connect", set |-> l[1], peer |-> l[2]]
    <3>2. m \in A /\ l = <<m.set, m.peer>>
      BY DEF Announce, Links
    <3> QED  BY <3>1, <3>2, <1>2
  <2>2. CASE b \in {Promise!Drop(l) : l \in Links(D)}
    <3>1. PICK l \in Links(D) : b = [type |-> "Drop", link |-> l]
      BY <2>2 DEF Promise!Drop
    <3> DEFINE m == [type |-> "Drop", set |-> l[1], peer |-> l[2]]
    <3>2. m \in A /\ l = <<m.set, m.peer>>
      BY DEF Announce, Links
    <3> QED  BY <3>1, <3>2, <1>2
  <2> QED  BY <2>1, <2>2
<1> HIDE DEF A, B
<1>6. Cardinality(A) = Cardinality(B)
  <2>1. f \in Bijection(A, B)
    BY <1>3, <1>4, <1>5 DEF Bijection, Injection, Surjection, IsInjective
  <2> QED  BY <2>1, <1>1, FS_Bijection DEF ExistsBijection
<1>7. /\ q \in [1 .. Cardinality(A) -> A]
      /\ \A i, j \in 1 .. Cardinality(A) : i # j => q[i] # q[j]
  BY DEF SetToSeqs, A
<1>8. Linked(q) = [k \in 1 .. Cardinality(B) |-> f[q[k]]]
  BY <1>6, <1>7 DEF Linked
<1>9. /\ Linked(q) \in [1 .. Cardinality(B) -> B]
      /\ \A i, j \in 1 .. Cardinality(B) : i # j => Linked(q)[i] # Linked(q)[j]
  BY <1>3, <1>4, <1>6, <1>7, <1>8
<1>10. Promise!Cardinality(B) = Cardinality(B)
  BY DEF Promise!Cardinality, Cardinality
<1> QED  BY <1>9, <1>10 DEF Promise!Orders, Promise!SetToSeqs, B

\* Messages of the same type about disjoint choices of nodes.
LEMMA AnnounceUnion ==
  ASSUME NEW t, NEW C \in PeerChoice, NEW D \in PeerChoice, \A s \in SetId : C[s] \cap D[s] = {}
  PROVE  /\ Announce(t, C) \cap Announce(t, D) = {}
         /\ Announce(t, C) \cup Announce(t, D) = Announce(t, [s \in SetId |-> C[s] \cup D[s]])
BY DEF Announce

\* No node, no message.
LEMMA AnnounceNone ==
  ASSUME NEW t
  PROVE  /\ Announce(t, [s \in SetId |-> {}]) = {}
         /\ [s \in SetId |-> {}] \in PeerChoice
         /\ <<>> \in SetToSeqs({})
<1>1. <<>> \in SetToSeqs({})
  <2>1. IsFiniteSet({}) /\ Cardinality({}) = 0
    BY FS_EmptySet
  <2>2. <<>> \in Seq({}) /\ Len(<<>>) = 0 /\ \A i \in 1 .. Len(<<>>) : FALSE
    OBVIOUS
  <2> HIDE DEF SetToSeqs
  <2> QED  BY <2>1, <2>2, OrderingIs, Zenon
<1> QED  BY <1>1 DEF Announce, PeerChoice

\* One node, one message.
LEMMA AnnounceOne ==
  ASSUME NEW t, NEW s \in SetId, NEW p \in PeerId
  PROVE  <<[type |-> t, set |-> s, peer |-> p]>> \in SetToSeqs(Announce(t, Only(s, {p})))
<1> DEFINE m == [type |-> t, set |-> s, peer |-> p]
<1>1. Announce(t, Only(s, {p})) = {m}
  BY DEF Announce, Only
<1>2. IsFiniteSet({m}) /\ Cardinality({m}) = 1
  BY FS_Singleton
<1>3. <<m>> \in Seq({m}) /\ Len(<<m>>) = 1
  OBVIOUS
<1>5. \A i, j \in 1 .. Len(<<m>>) : i # j => <<m>>[i] # <<m>>[j]
  BY <1>3
<1> HIDE DEF m
<1>4. <<m>> \in SetToSeqs({m})
  BY <1>2, <1>3, <1>5, OrderingIs, Zenon
<1> QED  BY <1>1, <1>4 DEF m

\* The listings of hash sets and of hash maps are orderings.
LEMMA ListingsAnnounce ==
  ASSUME NEW C, NEW t, NEW rank, NEW q \in Listings(C, t, rank)
  PROVE  q \in SetToSeqs(Announce(t, C))
BY DEF Listings, Announce

\* The network sees a queue grow, and shrink, as it is.
LEMMA LinkedConcat ==
  ASSUME NEW q \in Seq(Messages), NEW r \in Seq(Messages)
  PROVE  Linked(q \o r) = Linked(q) \o Linked(r)
<1>1. /\ Len(q) \in Nat /\ Len(r) \in Nat /\ Len(q \o r) = Len(q) + Len(r)
      /\ DOMAIN q = 1 .. Len(q) /\ DOMAIN r = 1 .. Len(r) /\ DOMAIN (q \o r) = 1 .. Len(q) + Len(r)
      /\ \A i \in 1 .. Len(q) + Len(r) : (q \o r)[i] = IF i <= Len(q) THEN q[i] ELSE r[i - Len(q)]
  OBVIOUS
<1> DEFINE L == {LinkMessage(m) : m \in Messages}
           a == Linked(q)
           b == Linked(r)
<1>2. /\ a \in Seq(L) /\ Len(a) = Len(q) /\ \A i \in 1 .. Len(q) : a[i] = LinkMessage(q[i])
      /\ b \in Seq(L) /\ Len(b) = Len(r) /\ \A i \in 1 .. Len(r) : b[i] = LinkMessage(r[i])
  <2>1. \A k \in 1 .. Len(q) : LinkMessage(q[k]) \in L
    BY <1>1
  <2>2. \A k \in 1 .. Len(r) : LinkMessage(r[k]) \in L
    BY <1>1
  <2> HIDE DEF L
  <2>3. a \in [1 .. Len(q) -> L] /\ b \in [1 .. Len(r) -> L]
    BY <1>1, <2>1, <2>2 DEF Linked
  <2> QED  BY <1>1, <2>3 DEF Linked
<1> HIDE DEF a, b, L
<1>3. /\ a \o b \in Seq(L) /\ DOMAIN (a \o b) = 1 .. Len(q) + Len(r)
      /\ \A i \in 1 .. Len(q) + Len(r) : (a \o b)[i] = IF i <= Len(q) THEN a[i] ELSE b[i - Len(q)]
  <2>1. a \in Seq(L) /\ b \in Seq(L) /\ Len(a) = Len(q) /\ Len(b) = Len(r)
    BY <1>2
  <2>2. /\ a \o b \in Seq(L) /\ DOMAIN (a \o b) = 1 .. Len(a) + Len(b)
        /\ \A i \in 1 .. Len(a) + Len(b) : (a \o b)[i] = IF i <= Len(a) THEN a[i] ELSE b[i - Len(a)]
    BY <2>1
  <2> QED  BY <2>1, <2>2
<1>4. ASSUME NEW i \in 1 .. Len(q) + Len(r) PROVE Linked(q \o r)[i] = (a \o b)[i]
  <2>1. Linked(q \o r)[i] = LinkMessage((q \o r)[i])
    BY <1>1 DEF Linked
  <2>2. CASE i <= Len(q)
    <3>1. i \in 1 .. Len(q)
      BY <2>2, <1>1
    <3> QED  BY <2>1, <2>2, <3>1, <1>1, <1>2, <1>3
  <2>3. CASE ~(i <= Len(q))
    <3>1. i - Len(q) \in 1 .. Len(r)
      BY <2>3, <1>1
    <3> QED  BY <2>1, <2>3, <3>1, <1>1, <1>2, <1>3
  <2> QED  BY <2>2, <2>3
<1>5. /\ DOMAIN Linked(q \o r) = DOMAIN (a \o b)
      /\ Linked(q \o r) = [i \in DOMAIN Linked(q \o r) |-> Linked(q \o r)[i]]
  BY <1>1, <1>3 DEF Linked
<1>6. a \o b = [i \in DOMAIN (a \o b) |-> (a \o b)[i]]
  <2> DEFINE c == a \o b
  <2>1. c \in Seq(L)
    BY <1>3
  <2> HIDE DEF c
  <2>2. c = [i \in DOMAIN c |-> c[i]]
    BY <2>1
  <2> QED  BY <2>2 DEF c
<1>7. Linked(q \o r) = a \o b
  BY <1>3, <1>4, <1>5, <1>6
<1> QED  BY <1>7 DEF a, b

\* A message is put at the end, and read from the front.
LEMMA LinkedEnds ==
  ASSUME NEW q \in Seq(Messages)
  PROVE  /\ \A m \in Messages : Linked(Append(q, m)) = Append(Linked(q), LinkMessage(m))
         /\ q # <<>> => /\ Linked(q) # <<>>
                        /\ Linked(Tail(q)) = Tail(Linked(q))
<1> DEFINE L == {LinkMessage(m) : m \in Messages}
           a == Linked(q)
<1>1. /\ a \in Seq(L) /\ Len(a) = Len(q) /\ Len(q) \in Nat
      /\ \A i \in 1 .. Len(q) : a[i] = LinkMessage(q[i])
  <2>1. \A k \in 1 .. Len(q) : LinkMessage(q[k]) \in L
    OBVIOUS
  <2> HIDE DEF L
  <2>2. a \in [1 .. Len(q) -> L]
    BY <2>1 DEF Linked
  <2> QED  BY <2>2 DEF Linked
<1>2. ASSUME NEW m \in Messages PROVE Linked(Append(q, m)) = Append(a, LinkMessage(m))
  <2>1. LinkMessage(m) \in L
    OBVIOUS
  <2> HIDE DEF L, a
  <2> DEFINE x == Append(q, m)
             y == Append(a, LinkMessage(m))
  <2>2. /\ x \in Seq(Messages) /\ y \in Seq(L) /\ DOMAIN x = 1 .. Len(q) + 1 /\ DOMAIN y = 1 .. Len(q) + 1
        /\ \A i \in 1 .. Len(q) : x[i] = q[i] /\ y[i] = a[i]
        /\ x[Len(q) + 1] = m /\ y[Len(q) + 1] = LinkMessage(m)
    BY <1>1, <2>1
  <2> HIDE DEF x, y
  <2>3. \A i \in 1 .. Len(q) + 1 : LinkMessage(x[i]) = y[i]
    BY <1>1, <2>2
  <2>4. y = [i \in DOMAIN y |-> y[i]]
    BY <2>2
  <2>5. Linked(x) = y
    BY <2>2, <2>3, <2>4 DEF Linked
  <2> QED  BY <2>5 DEF x, y
<1>3. ASSUME q # <<>> PROVE a # <<>> /\ Linked(Tail(q)) = Tail(a)
  <2> HIDE DEF L, a
  <2>1. Len(q) >= 1 /\ a # <<>>
    BY <1>1, <1>3
  <2> DEFINE x == Tail(q)
             y == Tail(a)
  <2>2. /\ x \in Seq(Messages) /\ y \in Seq(L) /\ DOMAIN x = 1 .. Len(q) - 1 /\ DOMAIN y = 1 .. Len(q) - 1
        /\ \A i \in 1 .. Len(q) - 1 : x[i] = q[i + 1] /\ y[i] = a[i + 1]
    BY <1>1, <1>3, <2>1
  <2> HIDE DEF x, y
  <2>3. ASSUME NEW i \in 1 .. Len(q) - 1 PROVE LinkMessage(x[i]) = y[i]
    <3>1. i + 1 \in 1 .. Len(q)
      BY <1>1
    <3> QED  BY <1>1, <2>2, <3>1
  <2>4. y = [i \in DOMAIN y |-> y[i]]
    BY <2>2
  <2>5. Linked(x) = y
    BY <2>2, <2>3, <2>4 DEF Linked
  <2> QED  BY <2>1, <2>5 DEF x, y
<1> QED  BY <1>2, <1>3

-----------------------------------------------------------------------------
(* What a handler does                                                     *)

\* The connections of d become those of e, by connecting to the nodes of C and
\* disconnecting those of D.
Changes(d, e, C, D) ==
  \A s \in SetId : /\ C[s] \cap Connected(d, s) = {}
                   /\ D[s] \subseteq Connected(d, s)
                   /\ Connected(e, s) = (Connected(d, s) \ D[s]) \cup C[s]

\* The changes of connections between d and e, each with its message in q.
Announced(d, e, q) ==
  \E C, D \in PeerChoice : /\ Changes(d, e, C, D)
                           /\ q \in SetToSeqs(Announce("Connect", C) \cup Announce("Drop", D))

\* alloc_slots announces the connections it makes, makes them within the
\* limits, and looks at the reputations as it leaves them.
LEMMA AllocSlotsEffect ==
  ASSUME NEW d0, DataInv(d0), NEW reserved \in PeerChoice, NEW only \in [SetId -> BOOLEAN],
         NEW o \in alloc_slots(d0, reserved, only), d0.no_slot_nodes = reserved
  PROVE  /\ \E C \in PeerChoice :
              /\ Changes(d0, o.data, C, [s \in SetId |-> {}])
              /\ o.msgs \in SetToSeqs(Announce("Connect", C))
         /\ WithinLimits(d0, o.data)
         /\ NewlyChecked(d0, o.data, reserved)
<1>1. PICK d \in update_time(d0) :
        LET R == reserved_to_connect(d, reserved)
            e == outgoing(d, R)
        IN  \E C \in {C \in PeerChoice : \A s \in SetId : C[s] \in highest_not_connected(e, only, s)} :
            \E m1 \in Listings(R, "Connect", Unordered), m2 \in Listings(C, "Connect", e.reputation) :
              o = [data |-> outgoing(e, C), msgs |-> m1 \o m2]
  BY DEF alloc_slots
<1> DEFINE R == reserved_to_connect(d, reserved)
           e == outgoing(d, R)
<1>2. PICK C \in PeerChoice :
        /\ \A s \in SetId : C[s] \in highest_not_connected(e, only, s)
        /\ \E m1 \in Listings(R, "Connect", Unordered), m2 \in Listings(C, "Connect", e.reputation) :
             o = [data |-> outgoing(e, C), msgs |-> m1 \o m2]
  BY <1>1
<1>3. /\ DataInv(d) /\ d.no_slot_nodes = d0.no_slot_nodes
      /\ d.num_in = d0.num_in /\ d.num_out = d0.num_out
      /\ \A s \in SetId : Connected(d, s) = Connected(d0, s)
  BY UpdateTimeInv, UpdateTimeSlots
<1>4. /\ R \in PeerChoice
      /\ \A s \in SetId : R[s] = reserved[s] \ Connected(d, s)
  BY DEF reserved_to_connect, PeerChoice
<1>5. /\ DataInv(e) /\ e.no_slot_nodes = d.no_slot_nodes
      /\ e.num_in = d.num_in
      /\ \A s \in SetId : e.num_out[s] = d.num_out[s] + Cardinality(R[s] \ d.no_slot_nodes[s])
      /\ \A s \in SetId : Connected(e, s) = Connected(d, s) \cup R[s]
  <2>1. \A s \in SetId : R[s] \cap Connected(d, s) = {}
    BY <1>4
  <2> HIDE DEF R
  <2>2. /\ DataInv(e) /\ e.no_slot_nodes = d.no_slot_nodes
        /\ \A s \in SetId : Connected(e, s) = Connected(d, s) \cup R[s]
    BY <1>3, <1>4, <2>1, OutgoingInv
  <2>3. /\ e.num_in = d.num_in
        /\ \A s \in SetId : e.num_out[s] = d.num_out[s] + Cardinality(R[s] \ d.no_slot_nodes[s])
    BY <1>3, <1>4, OutgoingSlots
  <2> QED  BY <2>2, <2>3
<1>6. ASSUME NEW s \in SetId
      PROVE  /\ C[s] \cap Connected(e, s) = {}
             /\ \A p \in C[s] : e.reputation[p] >= BANNED_THRESHOLD
             /\ Cardinality(C[s]) <= IF e.num_out[s] < max_out[s] THEN max_out[s] - e.num_out[s] ELSE 0
  <2>1. /\ C[s] \subseteq {p \in NotConnected(e, s) : ~only[s] /\ e.reputation[p] >= BANNED_THRESHOLD}
        /\ Cardinality(C[s]) <= IF e.num_out[s] < max_out[s] THEN max_out[s] - e.num_out[s] ELSE 0
    BY <1>2 DEF highest_not_connected
  <2> HIDE DEF e
  <2> QED  BY <2>1 DEF NotConnected, Connected
<1> HIDE DEF e
<1> DEFINE f == outgoing(e, C)
<1>7. /\ DataInv(f)
      /\ f.num_in = e.num_in /\ f.reputation = e.reputation
      /\ \A s \in SetId : f.num_out[s] = e.num_out[s] + Cardinality(C[s] \ e.no_slot_nodes[s])
      /\ \A s \in SetId : Connected(f, s) = Connected(e, s) \cup C[s]
  <2>1. DataInv(e) /\ \A s \in SetId : C[s] \cap Connected(e, s) = {}
    BY <1>5, <1>6
  <2>2. DataInv(f) /\ \A s \in SetId : Connected(f, s) = Connected(e, s) \cup C[s]
    BY <2>1, OutgoingInv
  <2>3. /\ f.num_in = e.num_in /\ f.reputation = e.reputation
        /\ \A s \in SetId : f.num_out[s] = e.num_out[s] + Cardinality(C[s] \ e.no_slot_nodes[s])
    BY <2>1, OutgoingSlots
  <2> QED  BY <2>2, <2>3
<1>8. o.data = f
  BY <1>2
<1> HIDE DEF f, R
<1>9. WithinLimits(d0, f)
  <2> SUFFICES ASSUME NEW s \in SetId
               PROVE  /\ f.num_in[s] <= d0.num_in[s]
                      /\ f.num_out[s] <= d0.num_out[s] \/ f.num_out[s] <= max_out[s]
    BY DEF WithinLimits
  <2>1. d0.num_in[s] \in Int /\ d0.num_out[s] \in Int /\ max_out[s] \in Nat
    BY SlotLimitsType DEF DataInv, PeersStates
  <2>2. R[s] \ d.no_slot_nodes[s] = {}
    BY <1>3, <1>4
  <2>3. e.num_out[s] = d0.num_out[s] /\ e.num_in[s] = d0.num_in[s]
    BY <1>3, <1>5, <2>1, <2>2, FS_EmptySet
  <2>4. /\ Cardinality(C[s] \ e.no_slot_nodes[s]) \in Nat
        /\ Cardinality(C[s]) \in Nat
        /\ Cardinality(C[s] \ e.no_slot_nodes[s]) <= Cardinality(C[s])
    <3>1. C[s] \in SUBSET PeerId
      BY DEF PeerChoice
    <3>2. IsFiniteSet(C[s]) /\ C[s] \ e.no_slot_nodes[s] \in SUBSET C[s]
      BY <3>1, PeersFinite
    <3> QED  BY <3>2, FS_Subset, FS_CardinalityType
  <2>5. f.num_in[s] <= d0.num_in[s]
    BY <2>1, <2>3, <1>7
  <2>6. /\ f.num_out[s] = e.num_out[s] + Cardinality(C[s] \ e.no_slot_nodes[s])
        /\ Cardinality(C[s]) <= IF e.num_out[s] < max_out[s] THEN max_out[s] - e.num_out[s] ELSE 0
    BY <1>6, <1>7
  <2> QED  BY <2>1, <2>3, <2>4, <2>5, <2>6
<1>10. NewlyChecked(d0, f, reserved)
  BY <1>3, <1>4, <1>5, <1>6, <1>7 DEF NewlyChecked
<1> DEFINE all == [s \in SetId |-> R[s] \cup C[s]]
<1>11. all \in PeerChoice /\ Changes(d0, f, all, [s \in SetId |-> {}])
  <2>1. all \in PeerChoice
    BY <1>4 DEF PeerChoice
  <2> QED  BY <2>1, <1>3, <1>4, <1>5, <1>6, <1>7 DEF Changes
<1>12. o.msgs \in SetToSeqs(Announce("Connect", all))
  <2>1. PICK m1 \in Listings(R, "Connect", Unordered), m2 \in Listings(C, "Connect", e.reputation) :
          o.msgs = m1 \o m2
    BY <1>2
  <2>2. m1 \in SetToSeqs(Announce("Connect", R)) /\ m2 \in SetToSeqs(Announce("Connect", C))
    BY ListingsAnnounce
  <2>3. \A s \in SetId : R[s] \cap C[s] = {}
    BY <1>5, <1>6
  <2>4. /\ Announce("Connect", R) \cap Announce("Connect", C) = {}
        /\ Announce("Connect", R) \cup Announce("Connect", C) = Announce("Connect", all)
    BY <2>3, <1>4, AnnounceUnion
  <2>5. IsFiniteSet(Announce("Connect", R)) /\ IsFiniteSet(Announce("Connect", C))
    BY AnnounceFinite
  <2>6. m1 \o m2 \in SetToSeqs(Announce("Connect", R) \cup Announce("Connect", C))
    BY <2>2, <2>4, <2>5, OrderingConcat
  <2> QED  BY <2>1, <2>4, <2>6
<1> HIDE DEF all
<1> QED  BY <1>8, <1>9, <1>10, <1>11, <1>12

\* What ConnectionsChecked says of a step.
Kept ==
  /\ \A s \in SetId :
       \/ data'.num_in[s] > data.num_in[s] /\ data'.num_in[s] > max_in[s]
       \/ data'.num_out[s] > data.num_out[s] /\ data'.num_out[s] > max_out[s]
       => reserved_nodes[s] \ reserved_nodes'[s] # {}
  /\ NewlyChecked(data, data', reserved_nodes')

\* The step announces its changes of connections.
Managed == \E q : Announced(data, data', q) /\ message_queue' = message_queue \o q

\* The numbers that limits are compared with are integers.
LEMMA SlotTypes ==
  ASSUME NEW d, DataInv(d), NEW s \in SetId
  PROVE  d.num_in[s] \in Int /\ d.num_out[s] \in Int /\ max_in[s] \in Nat /\ max_out[s] \in Nat
BY SlotLimitsType DEF DataInv, PeersStates

\* A step that stays within the limits, or frees slots, keeps them.
LEMMA WithinKept ==
  ASSUME DataInv(data), DataInv(data'), WithinLimits(data, data'),
         NewlyChecked(data, data', reserved_nodes')
  PROVE  Kept
<1>1. ASSUME NEW s \in SetId
      PROVE  /\ ~(data'.num_in[s] > data.num_in[s] /\ data'.num_in[s] > max_in[s])
             /\ ~(data'.num_out[s] > data.num_out[s] /\ data'.num_out[s] > max_out[s])
  <2>1. /\ data.num_in[s] \in Int /\ data.num_out[s] \in Int
        /\ max_in[s] \in Nat /\ max_out[s] \in Nat
        /\ data'.num_in[s] \in Int /\ data'.num_out[s] \in Int
    BY SlotTypes
  <2>2. /\ data'.num_in[s] <= data.num_in[s] \/ data'.num_in[s] <= max_in[s]
        /\ data'.num_out[s] <= data.num_out[s] \/ data'.num_out[s] <= max_out[s]
    BY DEF WithinLimits
  <2> QED  BY <2>1, <2>2
<1> QED  BY <1>1 DEF Kept

\* Slots freed, and then slots taken within the limits.
LEMMA WithinAfter ==
  ASSUME NEW d, NEW e, NEW f, DataInv(d), DataInv(e), DataInv(f), NoMoreSlots(d, e), WithinLimits(e, f)
  PROVE  WithinLimits(d, f)
<1> SUFFICES ASSUME NEW s \in SetId
             PROVE  /\ f.num_in[s] <= d.num_in[s] \/ f.num_in[s] <= max_in[s]
                    /\ f.num_out[s] <= d.num_out[s] \/ f.num_out[s] <= max_out[s]
  BY DEF WithinLimits
<1>1. /\ d.num_in[s] \in Int /\ d.num_out[s] \in Int
      /\ e.num_in[s] \in Int /\ e.num_out[s] \in Int
      /\ f.num_in[s] \in Int /\ f.num_out[s] \in Int
      /\ max_in[s] \in Nat /\ max_out[s] \in Nat
  BY SlotTypes
<1>2. /\ e.num_in[s] <= d.num_in[s] /\ e.num_out[s] <= d.num_out[s]
      /\ f.num_in[s] <= e.num_in[s] \/ f.num_in[s] <= max_in[s]
      /\ f.num_out[s] <= e.num_out[s] \/ f.num_out[s] <= max_out[s]
  BY DEF NoMoreSlots, WithinLimits
<1> QED  BY <1>1, <1>2

\* Fewer slots are within the limits.
LEMMA NoMoreWithin ==
  ASSUME NEW d, NEW e, NoMoreSlots(d, e)
  PROVE  WithinLimits(d, e)
BY DEF NoMoreSlots, WithinLimits

\* The same slots are no more.
LEMMA SameSlots ==
  ASSUME NEW d, NEW e, DataInv(d), e.num_in = d.num_in, e.num_out = d.num_out
  PROVE  NoMoreSlots(d, e)
BY SlotTypes DEF NoMoreSlots

\* A handler that frees slots, if it changes any, and then allocates.
LEMMA AllocSlotsKept ==
  ASSUME DataInv(data), NEW d, DataInv(d), NEW msgs,
         reserved_nodes' \in PeerChoice, reserved_only' \in [SetId -> BOOLEAN],
         d.no_slot_nodes = reserved_nodes', NoMoreSlots(data, d),
         \A s \in SetId : Connected(d, s) \subseteq Connected(data, s),
         AllocSlots(d, msgs)
  PROVE  /\ Kept
         /\ \E C \in PeerChoice : \E q \in SetToSeqs(Announce("Connect", C)) :
              /\ Changes(d, data', C, [s \in SetId |-> {}])
              /\ message_queue' = message_queue \o msgs \o q
<1>1. PICK o \in alloc_slots(d, reserved_nodes', reserved_only') :
        data' = o.data /\ message_queue' = message_queue \o msgs \o o.msgs
  BY DEF AllocSlots
<1>2. /\ \E C \in PeerChoice :
           /\ Changes(d, o.data, C, [s \in SetId |-> {}])
           /\ o.msgs \in SetToSeqs(Announce("Connect", C))
      /\ WithinLimits(d, o.data)
      /\ NewlyChecked(d, o.data, reserved_nodes')
  BY AllocSlotsEffect
<1>3. DataInv(o.data)
  BY AllocSlotsInv
<1>4. WithinLimits(data, data')
  BY <1>1, <1>2, <1>3, WithinAfter
<1>5. NewlyChecked(data, data', reserved_nodes')
  BY <1>1, <1>2 DEF NewlyChecked
<1>6. Kept
  BY <1>1, <1>3, <1>4, <1>5, WithinKept
<1> QED  BY <1>1, <1>2, <1>6

\* A handler that changes no connection before it allocates.
LEMMA AllocSlotsManaged ==
  ASSUME DataInv(data), message_queue \in Seq(Messages), NEW d, DataInv(d),
         reserved_nodes' \in PeerChoice, reserved_only' \in [SetId -> BOOLEAN],
         d.no_slot_nodes = reserved_nodes', NoMoreSlots(data, d),
         \A s \in SetId : Connected(d, s) = Connected(data, s),
         AllocSlots(d, <<>>)
  PROVE  Kept /\ Managed
<1>1. /\ Kept
      /\ \E C \in PeerChoice : \E q \in SetToSeqs(Announce("Connect", C)) :
           /\ Changes(d, data', C, [s \in SetId |-> {}])
           /\ message_queue' = message_queue \o <<>> \o q
  BY AllocSlotsKept
<1> DEFINE none == [s \in SetId |-> {}]
<1>2. PICK C \in PeerChoice : \E q \in SetToSeqs(Announce("Connect", C)) :
           /\ Changes(d, data', C, none)
           /\ message_queue' = message_queue \o <<>> \o q
  BY <1>1
<1>3. PICK q \in SetToSeqs(Announce("Connect", C)) :
           /\ Changes(d, data', C, none)
           /\ message_queue' = message_queue \o <<>> \o q
  BY <1>2
<1>4. Changes(data, data', C, none)
  BY <1>3 DEF Changes
<1>5. message_queue \o <<>> = message_queue
  OBVIOUS
<1>6. none \in PeerChoice /\ Announce("Connect", C) \cup Announce("Drop", none) = Announce("Connect", C)
  BY AnnounceNone
<1> HIDE DEF none
<1> QED  BY <1>1, <1>3, <1>4, <1>5, <1>6 DEF Managed, Announced

\* A step that changes neither the slots nor the connections.
LEMMA QuietStep ==
  ASSUME DataInv(data), DataInv(data'), message_queue \in Seq(Messages),
         data'.num_in = data.num_in, data'.num_out = data.num_out,
         \A s \in SetId : Connected(data', s) = Connected(data, s),
         message_queue' = message_queue
  PROVE  Kept /\ Managed
<1>1. Kept
  <2>1. NewlyChecked(data, data', reserved_nodes')
    BY DEF NewlyChecked
  <2> QED  BY <2>1, SameSlots, NoMoreWithin, WithinKept
<1> DEFINE none == [s \in SetId |-> {}]
<1>2. /\ none \in PeerChoice /\ Announce("Connect", none) \cup Announce("Drop", none) = {}
      /\ <<>> \in SetToSeqs({})
  BY AnnounceNone
<1>3. Changes(data, data', none, none)
  BY DEF Changes
<1>4. message_queue \o <<>> = message_queue
  OBVIOUS
<1> HIDE DEF none
<1> QED  BY <1>1, <1>2, <1>3, <1>4 DEF Managed, Announced

\* A step that disconnects the nodes of D and says so.
LEMMA DropsManaged ==
  ASSUME NEW D \in PeerChoice, NEW q \in SetToSeqs(Announce("Drop", D)),
         \A s \in SetId : /\ D[s] \subseteq Connected(data, s)
                          /\ Connected(data', s) = Connected(data, s) \ D[s],
         message_queue' = message_queue \o q
  PROVE  Managed /\ NewlyChecked(data, data', reserved_nodes')
<1> DEFINE none == [s \in SetId |-> {}]
<1>1. none \in PeerChoice /\ Announce("Connect", none) \cup Announce("Drop", D) = Announce("Drop", D)
  BY AnnounceNone
<1>2. Changes(data, data', none, D)
  BY DEF Changes
<1>3. NewlyChecked(data, data', reserved_nodes')
  BY DEF NewlyChecked
<1> HIDE DEF none
<1> QED  BY <1>1, <1>2, <1>3 DEF Managed, Announced

\* add_reserved_peer connects to the node whatever its reputation, and takes
\* no slot for it.
LEMMA AddReservedPeerKept ==
  ASSUME CoreInv, NEW s \in SetId, NEW p \in PeerId, add_reserved_peer(s, p)
  PROVE  Kept /\ Managed
<1> DEFINE d == add_no_slot_node(data, s, p)
<1>1. /\ reserved_nodes' = [reserved_nodes EXCEPT ![s] = @ \cup {p}]
      /\ reserved_nodes' \in PeerChoice
      /\ reserved_only' \in [SetId -> BOOLEAN]
      /\ DataInv(data) /\ message_queue \in Seq(Messages)
  BY DEF add_reserved_peer, CoreInv, PeerChoice
<1>2. CASE p \in reserved_nodes[s]
  <2>1. data' = data /\ message_queue' = message_queue
    BY <1>2 DEF add_reserved_peer
  <2> QED  BY <1>1, <2>1, QuietStep
<1>3. CASE p \notin reserved_nodes[s]
  <2>1. AllocSlots(d, <<>>)
    BY <1>3 DEF add_reserved_peer
  <2>2. /\ DataInv(d)
        /\ d.no_slot_nodes = [data.no_slot_nodes EXCEPT ![s] = @ \cup {p}]
        /\ \A t \in SetId : Connected(d, t) = Connected(data, t)
    BY AddNoSlotNodeInv DEF CoreInv
  <2>3. d.no_slot_nodes = reserved_nodes'
    BY <1>1, <2>2 DEF CoreInv, ReservedInSync
  <2>4. NoMoreSlots(data, d)
    BY <1>1, AddNoSlotNodeSlots
  <2> HIDE DEF d
  <2> QED  BY <1>1, <2>1, <2>2, <2>3, <2>4, AllocSlotsManaged
<1> QED  BY <1>2, <1>3

\* remove_reserved_peer may take its set over the limit, and connects to none.
LEMMA RemoveReservedPeerKept ==
  ASSUME CoreInv, NEW s \in SetId, NEW p \in PeerId, remove_reserved_peer(s, p)
  PROVE  Kept /\ Managed
<1> DEFINE d == remove_no_slot_node(data, s, p)
           C == Only(s, {p})
<1>1. /\ reserved_nodes' = [reserved_nodes EXCEPT ![s] = @ \ {p}]
      /\ reserved_nodes \in PeerChoice
      /\ DataInv(data) /\ message_queue \in Seq(Messages)
  BY DEF remove_reserved_peer, CoreInv
<1>2. /\ DataInv(d)
      /\ \A t \in SetId : Connected(d, t) = Connected(data, t)
      /\ \A t \in SetId \ {s} : d.num_in[t] = data.num_in[t] /\ d.num_out[t] = data.num_out[t]
  <2>1. DataInv(d) /\ \A t \in SetId : Connected(d, t) = Connected(data, t)
    BY <1>1, RemoveNoSlotNodeInv
  <2>2. \A t \in SetId \ {s} : d.num_in[t] = data.num_in[t] /\ d.num_out[t] = data.num_out[t]
    BY <1>1, RemoveNoSlotNodeSlots
  <2> QED  BY <2>1, <2>2
<1>3. CoreInv'
  BY RemoveReservedPeerStep
<1>4. CASE p \notin reserved_nodes[s]
  <2>1. data' = data /\ message_queue' = message_queue
    BY <1>4 DEF remove_reserved_peer
  <2> QED  BY <1>1, <2>1, QuietStep
<1>5. CASE p \in reserved_nodes[s]
  <2>1. reserved_nodes[s] \ reserved_nodes'[s] # {}
    BY <1>1, <1>5 DEF PeerChoice
  <2>2. PICK D \in PeerChoice :
        \E q \in SetToSeqs(Announce("Drop", D)) :
          /\ data' \in {d, disconnect(d, D)}
          /\ \A t \in SetId : /\ D[t] \subseteq Connected(data, t)
                              /\ Connected(data', t) = Connected(data, t) \ D[t]
          /\ message_queue' = message_queue \o q
    <3>1. CASE reserved_only[s] /\ p \in Connected(data, s)
      <4>1. data' = disconnect(d, C) /\ message_queue' = Append(message_queue, Drop(s, p))
        BY <1>5, <3>1 DEF remove_reserved_peer
      <4>2. C \in PeerChoice /\ \A t \in SetId : C[t] \subseteq Connected(d, t)
        BY <1>2, <3>1 DEF Only, PeerChoice
      <4>3. <<Drop(s, p)>> \in SetToSeqs(Announce("Drop", C))
        BY AnnounceOne DEF Drop
      <4>4. message_queue' = message_queue \o <<Drop(s, p)>>
        BY <4>1, <1>1
      <4> HIDE DEF d, C
      <4>5. \A t \in SetId : Connected(data', t) = Connected(d, t) \ C[t]
        BY <1>2, <4>1, <4>2, DisconnectInv
      <4> QED  BY <1>2, <4>1, <4>2, <4>3, <4>4, <4>5
    <3>2. CASE ~(reserved_only[s] /\ p \in Connected(data, s))
      <4>1. data' = d /\ message_queue' = message_queue
        BY <1>5, <3>2 DEF remove_reserved_peer
      <4> DEFINE none == [t \in SetId |-> {}]
      <4>2. none \in PeerChoice /\ <<>> \in SetToSeqs(Announce("Drop", none))
        BY AnnounceNone
      <4>3. message_queue \o <<>> = message_queue
        BY <1>1
      <4> HIDE DEF d
      <4>4. \A t \in SetId : none[t] \subseteq Connected(data, t) /\ Connected(data', t) = Connected(data, t) \ none[t]
        BY <1>2, <4>1
      <4> HIDE DEF none
      <4> QED  BY <4>1, <4>2, <4>3, <4>4
    <3> QED  BY <3>1, <3>2
  <2> HIDE DEF d
  <2>3. Managed /\ NewlyChecked(data, data', reserved_nodes')
    <3>1. PICK q \in SetToSeqs(Announce("Drop", D)) :
            /\ \A t \in SetId : /\ D[t] \subseteq Connected(data, t)
                                /\ Connected(data', t) = Connected(data, t) \ D[t]
            /\ message_queue' = message_queue \o q
      BY <2>2
    <3> QED  BY <3>1, DropsManaged
  <2>4. ASSUME NEW t \in SetId, t # s
        PROVE  data'.num_in[t] <= data.num_in[t] /\ data'.num_out[t] <= data.num_out[t]
    <3>1. NoMoreSlots(d, disconnect(d, D))
      BY <1>2, DisconnectSlots
    <3>2. d.num_in[t] = data.num_in[t] /\ d.num_out[t] = data.num_out[t]
      BY <1>2, <2>4
    <3>3. data.num_in[t] \in Int /\ data.num_out[t] \in Int
      BY <1>1, SlotTypes
    <3>4. data' = d \/ data' = disconnect(d, D)
      BY <2>2
    <3> QED  BY <3>1, <3>2, <3>3, <3>4 DEF NoMoreSlots
  <2>5. ASSUME NEW t \in SetId, t # s
        PROVE  ~(data'.num_in[t] > data.num_in[t]) /\ ~(data'.num_out[t] > data.num_out[t])
    <3>1. data.num_in[t] \in Int /\ data.num_out[t] \in Int /\ data'.num_in[t] \in Int /\ data'.num_out[t] \in Int
      BY <1>1, <1>3, SlotTypes DEF CoreInv
    <3> QED  BY <2>4, <2>5, <3>1
  <2> QED  BY <2>1, <2>3, <2>5 DEF Kept
<1> QED  BY <1>4, <1>5

\* set_reserved_only drops connections, or allocates.
LEMMA SetReservedOnlyKept ==
  ASSUME CoreInv, NEW s \in SetId, NEW b \in BOOLEAN, set_reserved_only(s, b)
  PROVE  Kept /\ Managed
<1> DEFINE C == Only(s, Connected(data, s) \ reserved_nodes[s])
<1>1. /\ reserved_only' \in [SetId -> BOOLEAN]
      /\ reserved_nodes' = reserved_nodes /\ reserved_nodes' \in PeerChoice
      /\ DataInv(data) /\ message_queue \in Seq(Messages)
      /\ data.no_slot_nodes = reserved_nodes'
  BY DEF set_reserved_only, CoreInv, ReservedInSync
<1>2. CASE b
  <2>1. PICK q \in Listings(C, "Drop", Unordered) :
          data' = disconnect(data, C) /\ message_queue' = message_queue \o q
    BY <1>2 DEF set_reserved_only
  <2>2. C \in PeerChoice /\ \A t \in SetId : C[t] \subseteq Connected(data, t)
    BY DEF Only, PeerChoice, Connected
  <2> HIDE DEF C
  <2>3. DataInv(data') /\ \A t \in SetId : Connected(data', t) = Connected(data, t) \ C[t]
    BY <1>1, <2>1, <2>2, DisconnectInv
  <2>4. WithinLimits(data, data')
    BY <1>1, <2>1, <2>2, DisconnectSlots, NoMoreWithin
  <2>5. q \in SetToSeqs(Announce("Drop", C))
    BY ListingsAnnounce
  <2>6. Managed /\ NewlyChecked(data, data', reserved_nodes')
    BY <2>1, <2>2, <2>3, <2>5, DropsManaged
  <2> QED  BY <1>1, <2>3, <2>4, <2>6, WithinKept
<1>3. CASE ~b
  <2>1. AllocSlots(data, <<>>)
    BY <1>3 DEF set_reserved_only
  <2>2. NoMoreSlots(data, data)
    BY <1>1, SameSlots
  <2> QED  BY <1>1, <2>1, <2>2, AllocSlotsManaged
<1> QED  BY <1>2, <1>3

\* add_to_peers_set allocates after it has discovered the node.
LEMMA DiscoverAndConnectKept ==
  ASSUME CoreInv, NEW s \in SetId, NEW p \in PeerId, discover_and_connect(s, p)
  PROVE  Kept /\ Managed
<1> DEFINE d == discover(data, s, p)
<1>1. /\ reserved_nodes' = reserved_nodes /\ reserved_nodes' \in PeerChoice
      /\ reserved_only' \in [SetId -> BOOLEAN]
      /\ DataInv(data) /\ message_queue \in Seq(Messages)
      /\ data.no_slot_nodes = reserved_nodes'
  BY DEF discover_and_connect, CoreInv, ReservedInSync
<1>2. CASE p \in Unknown(data, s)
  <2>1. AllocSlots(d, <<>>)
    BY <1>2 DEF discover_and_connect
  <2>2. p \notin Connected(data, s)
    BY <1>2 DEF Unknown, Connected
  <2>3. /\ DataInv(d) /\ d.no_slot_nodes = data.no_slot_nodes
        /\ \A t \in SetId : Connected(d, t) = Connected(data, t)
    BY <1>1, <2>2, DiscoverInv
  <2>4. NoMoreSlots(data, d)
    BY <1>1, DiscoverSlots, SameSlots
  <2> HIDE DEF d
  <2> QED  BY <1>1, <2>1, <2>3, <2>4, AllocSlotsManaged
<1>3. CASE p \notin Unknown(data, s)
  <2>1. data' = data /\ message_queue' = message_queue
    BY <1>3 DEF discover_and_connect
  <2> QED  BY <1>1, <2>1, QuietStep
<1> QED  BY <1>2, <1>3

\* remove_from_peers_set disconnects the node if it is connected and not
\* reserved, and then says so.
LEMMA RemoveFromPeersSetEffect ==
  ASSUME NEW d, DataInv(d), NEW s \in SetId, NEW p \in PeerId
  PROVE  LET e == remove_from_peers_set(d, s, p)
         IN  /\ NoMoreSlots(d, e)
             /\ \E D \in PeerChoice :
                  /\ \A t \in SetId : /\ D[t] \subseteq Connected(d, t)
                                      /\ Connected(e, t) = Connected(d, t) \ D[t]
                  /\ remove_from_peers_set_msgs(d, s, p) \in SetToSeqs(Announce("Drop", D))
             /\ p \notin Connected(d, s) =>
                  /\ remove_from_peers_set_msgs(d, s, p) = <<>>
                  /\ \A t \in SetId : Connected(e, t) = Connected(d, t)
<1> DEFINE C == Only(s, {p} \cap Connected(d, s))
           f == disconnect(d, C)
           g == forget_peer(f, s, p)
           none == [t \in SetId |-> {}]
           e == remove_from_peers_set(d, s, p)
           m == remove_from_peers_set_msgs(d, s, p)
<1>1. C \in PeerChoice /\ \A t \in SetId : C[t] \subseteq Connected(d, t)
  BY DEF Only, PeerChoice, Connected
<1>2. p \notin Connected(d, s) \ C[s]
  BY DEF Only
<1>3. none \in PeerChoice /\ <<>> \in SetToSeqs(Announce("Drop", none))
  BY AnnounceNone
<1>4. p \in Connected(d, s) => C = Only(s, {p}) /\ <<Drop(s, p)>> \in SetToSeqs(Announce("Drop", C))
  <2>1. p \in Connected(d, s) => C = Only(s, {p})
    BY DEF Only
  <2> QED  BY <2>1, AnnounceOne DEF Drop
<1>5. p \notin Connected(d, s) => C = none
  BY DEF Only
<1>6. CASE p \in reserved_nodes[s] \/ p \in Unknown(d, s)
  <2>1. e = d
    BY <1>6 DEF remove_from_peers_set
  <2>2. m = <<>>
    BY <1>6 DEF remove_from_peers_set_msgs, Connected, Unknown
  <2>3. NoMoreSlots(d, e)
    BY <2>1, SameSlots
  <2>4. \A t \in SetId : none[t] \subseteq Connected(d, t) /\ Connected(e, t) = Connected(d, t) \ none[t]
    BY <2>1
  <2> HIDE DEF none, e, m
  <2> QED  BY <1>3, <2>1, <2>2, <2>3, <2>4 DEF e, m
<1>7. CASE ~(p \in reserved_nodes[s] \/ p \in Unknown(d, s))
  <2>1. e = g
    BY <1>7 DEF remove_from_peers_set
  <2>2. m = IF p \in Connected(d, s) THEN <<Drop(s, p)>> ELSE <<>>
    BY <1>7 DEF remove_from_peers_set_msgs
  <2> HIDE DEF C
  <2>3. /\ DataInv(f) /\ \A t \in SetId : Connected(f, t) = Connected(d, t) \ C[t]
        /\ NoMoreSlots(d, f)
    BY <1>1, DisconnectInv, DisconnectSlots
  <2> HIDE DEF f
  <2>4. p \notin Connected(f, s)
    BY <1>2, <2>3
  <2>5. /\ \A t \in SetId : Connected(g, t) = Connected(f, t)
        /\ g.num_in = f.num_in /\ g.num_out = f.num_out
    BY <2>3, <2>4, ForgetPeerInv, ForgetPeerSlots
  <2> HIDE DEF g, e, m
  <2>6. NoMoreSlots(d, e)
    BY <2>1, <2>3, <2>5 DEF NoMoreSlots
  <2>7. \A t \in SetId : C[t] \subseteq Connected(d, t) /\ Connected(e, t) = Connected(d, t) \ C[t]
    BY <1>1, <2>1, <2>3, <2>5
  <2>8. m \in SetToSeqs(Announce("Drop", C))
    BY <1>3, <1>4, <1>5, <2>2
  <2>9. p \notin Connected(d, s) => m = <<>> /\ \A t \in SetId : Connected(e, t) = Connected(d, t)
    BY <1>5, <2>2, <2>7
  <2> QED  BY <1>1, <2>6, <2>7, <2>8, <2>9 DEF e, m
<1> QED  BY <1>6, <1>7

\* on_remove_from_peers_set.
LEMMA RemoveFromPeersSetKept ==
  ASSUME CoreInv, NEW s \in SetId, NEW p \in PeerId,
         data' = remove_from_peers_set(data, s, p),
         message_queue' = message_queue \o remove_from_peers_set_msgs(data, s, p)
  PROVE  Kept /\ Managed
<1> DEFINE m == remove_from_peers_set_msgs(data, s, p)
<1>1. DataInv(data) /\ DataInv(data')
  BY RemoveFromPeersSetInv DEF CoreInv
<1>2. /\ NoMoreSlots(data, data')
      /\ \E D \in PeerChoice :
           /\ \A t \in SetId : /\ D[t] \subseteq Connected(data, t)
                               /\ Connected(data', t) = Connected(data, t) \ D[t]
           /\ m \in SetToSeqs(Announce("Drop", D))
  BY <1>1, RemoveFromPeersSetEffect
<1>3. message_queue' = message_queue \o m
  OBVIOUS
<1> HIDE DEF m
<1>4. Managed /\ NewlyChecked(data, data', reserved_nodes')
  BY <1>2, <1>3, DropsManaged
<1> QED  BY <1>1, <1>2, <1>4, NoMoreWithin, WithinKept

\* report_peer disconnects a banned node everywhere, in one step with the
\* change of its reputation.
LEMMA ReportPeerKept ==
  ASSUME CoreInv, NEW p \in PeerId, NEW v \in ReportValues, report_peer(p, v)
  PROVE  Kept /\ Managed
<1>1. PICK d0 \in update_time(data) :
        LET d == report_reputation(d0, p, v)
            C == [s \in SetId |-> {p} \cap Connected(d, s)]
        IN  IF d.reputation[p] >= BANNED_THRESHOLD
            THEN data' = d /\ message_queue' = message_queue
            ELSE /\ data' = disconnect(d, C)
                 /\ \E q \in Listings(C, "Drop", Unordered) :
                       message_queue' = message_queue \o q
  BY DEF report_peer
<1> DEFINE d == report_reputation(d0, p, v)
           C == [s \in SetId |-> {p} \cap Connected(d, s)]
<1>0. DataInv(data) /\ message_queue \in Seq(Messages)
  BY DEF CoreInv
<1>2. /\ DataInv(d0) /\ d0.num_in = data.num_in /\ d0.num_out = data.num_out
      /\ \A t \in SetId : Connected(d0, t) = Connected(data, t)
  BY <1>0, UpdateTimeInv, UpdateTimeSlots
<1>3. /\ DataInv(d) /\ d.num_in = d0.num_in /\ d.num_out = d0.num_out
      /\ \A t \in SetId : Connected(d, t) = Connected(d0, t)
  BY <1>2, ReportReputationInv, ReputationSlots, ThresholdsType
<1>4. C \in PeerChoice /\ \A t \in SetId : C[t] \subseteq Connected(d, t)
  BY DEF PeerChoice
<1>5. \/ data' = d /\ message_queue' = message_queue
      \/ /\ data' = disconnect(d, C)
         /\ \E q \in Listings(C, "Drop", Unordered) : message_queue' = message_queue \o q
  BY <1>1
<1> HIDE DEF d, C
<1>6. CASE data' = d /\ message_queue' = message_queue
  BY <1>0, <1>2, <1>3, <1>6, QuietStep
<1>7. CASE /\ data' = disconnect(d, C)
           /\ \E q \in Listings(C, "Drop", Unordered) : message_queue' = message_queue \o q
  <2>1. /\ DataInv(data') /\ NoMoreSlots(d, data')
        /\ \A t \in SetId : Connected(data', t) = Connected(d, t) \ C[t]
    BY <1>3, <1>4, <1>7, DisconnectInv, DisconnectSlots
  <2>2. NoMoreSlots(data, data')
    BY <1>2, <1>3, <2>1 DEF NoMoreSlots
  <2>3. \A t \in SetId : C[t] \subseteq Connected(data, t) /\ Connected(data', t) = Connected(data, t) \ C[t]
    BY <1>2, <1>3, <1>4, <2>1
  <2>4. PICK q \in SetToSeqs(Announce("Drop", C)) : message_queue' = message_queue \o q
    BY <1>7, ListingsAnnounce
  <2>5. Managed /\ NewlyChecked(data, data', reserved_nodes')
    BY <1>4, <2>3, <2>4, DropsManaged
  <2> QED  BY <1>0, <2>1, <2>2, <2>5, NoMoreWithin, WithinKept
<1> QED  BY <1>5, <1>6, <1>7

\* incoming looks at the reputation and at the slots before it accepts; it
\* answers a node that is not connected, and only such a node.
LEMMA IncomingKept ==
  ASSUME CoreInv, NEW s \in SetId, NEW p \in PeerId, NEW i \in IncomingIndex, incoming(s, p, i)
  PROVE  /\ Kept
         /\ IF p \in Connected(data, s)
            THEN /\ message_queue' = message_queue
                 /\ \A t \in SetId : Connected(data', t) = Connected(data, t)
            ELSE \/ /\ message_queue' = Append(message_queue, Accept(i))
                    /\ \A t \in SetId : Connected(data', t) = Connected(data, t) \cup Only(s, {p})[t]
                 \/ /\ message_queue' = Append(message_queue, Reject(i))
                    /\ \A t \in SetId : Connected(data', t) = Connected(data, t)
<1>0. DataInv(data) /\ (p \in Connected(data, s) /\ reserved_only[s] => p \in reserved_nodes[s])
  BY DEF CoreInv, OnlyReservedConnected
<1>00. DataInv(data')
  BY IncomingStep DEF CoreInv
<1>1. PICK d \in update_time(data) :
       IF reserved_only[s] /\ p \notin reserved_nodes[s]
       THEN data' = d /\ message_queue' = Append(message_queue, Reject(i))
       ELSE IF p \in Connected(d, s)
       THEN data' = d /\ message_queue' = message_queue
       ELSE answer_incoming(d, s, p, i)
  BY DEF incoming
<1>2. /\ DataInv(d) /\ d.num_in = data.num_in /\ d.num_out = data.num_out
      /\ \A t \in SetId : Connected(d, t) = Connected(data, t)
  BY <1>0, UpdateTimeInv, UpdateTimeSlots
<1>3. ASSUME data' = d PROVE Kept
  <2>1. NewlyChecked(data, data', reserved_nodes')
    BY <1>2, <1>3 DEF NewlyChecked
  <2>2. WithinLimits(data, data')
    BY <1>0, <1>2, <1>3, SameSlots, NoMoreWithin
  <2> QED  BY <1>0, <1>00, <2>1, <2>2, WithinKept
<1>4. CASE ~(reserved_only[s] /\ p \notin reserved_nodes[s]) /\ p \notin Connected(d, s)
  <2> DEFINE e == discover(d, s, p)
             f == accept_incoming(e, s, p)
  <2>1. /\ DataInv(e) /\ \A t \in SetId : Connected(e, t) = Connected(d, t)
        /\ e.num_in = d.num_in /\ e.num_out = d.num_out
    BY <1>2, <1>4, DiscoverInv, DiscoverSlots
  <2>2. \/ /\ e.reputation[p] >= BANNED_THRESHOLD /\ in_slot_available(e, s, p)
           /\ data' = f /\ message_queue' = Append(message_queue, Accept(i))
        \/ data' = e /\ message_queue' = Append(message_queue, Reject(i))
    BY <1>1, <1>4 DEF answer_incoming
  <2> HIDE DEF e
  <2>3. CASE /\ e.reputation[p] >= BANNED_THRESHOLD /\ in_slot_available(e, s, p)
             /\ data' = f /\ message_queue' = Append(message_queue, Accept(i))
    <3>1. WithinLimits(e, f) /\ f.reputation = e.reputation
      BY <2>1, <2>3, AcceptIncomingSlots
    <3>2. \A t \in SetId : Connected(f, t) = Connected(e, t) \cup Only(s, {p})[t]
      BY <2>1 DEF Connected, Only, accept_incoming, DataInv, PeersStates
    <3> HIDE DEF f
    <3>3. WithinLimits(data, data')
      BY <1>2, <2>1, <2>3, <3>1 DEF WithinLimits
    <3>4. \A t \in SetId : Connected(data', t) = Connected(data, t) \cup Only(s, {p})[t]
      BY <1>2, <2>1, <2>3, <3>2
    <3>5. NewlyChecked(data, data', reserved_nodes')
      BY <2>3, <3>1, <3>4 DEF NewlyChecked, Only
    <3> QED  BY <1>0, <1>00, <1>2, <1>4, <2>3, <3>3, <3>4, <3>5, WithinKept
  <2>4. CASE data' = e /\ message_queue' = Append(message_queue, Reject(i))
    <3>1. WithinLimits(data, data')
      BY <1>0, <1>2, <2>1, <2>4, SameSlots, NoMoreWithin
    <3>2. \A t \in SetId : Connected(data', t) = Connected(data, t)
      BY <1>2, <2>1, <2>4
    <3>3. NewlyChecked(data, data', reserved_nodes')
      BY <3>2 DEF NewlyChecked
    <3> QED  BY <1>0, <1>00, <1>2, <1>4, <2>4, <3>1, <3>2, <3>3, WithinKept
  <2> QED  BY <2>2, <2>3, <2>4
<1>5. CASE reserved_only[s] /\ p \notin reserved_nodes[s]
  BY <1>0, <1>1, <1>2, <1>3, <1>5
<1>6. CASE ~(reserved_only[s] /\ p \notin reserved_nodes[s]) /\ p \in Connected(d, s)
  BY <1>1, <1>2, <1>3, <1>6
<1> QED  BY <1>4, <1>5, <1>6

\* The step disconnects a node, without a message, and then announces the
\* connections that it makes.
Reallocated(s, p) ==
  \E C \in PeerChoice : \E q \in SetToSeqs(Announce("Connect", C)) :
    /\ \A t \in SetId :
         /\ C[t] \cap (Connected(data, t) \ Only(s, {p})[t]) = {}
         /\ Connected(data', t) = (Connected(data, t) \ Only(s, {p})[t]) \cup C[t]
    /\ message_queue' = message_queue \o q

\* dropped frees the slot of the node before it allocates, and pushes no Drop:
\* the network knows.
LEMMA DroppedKept ==
  ASSUME CoreInv, NEW s \in SetId, NEW p \in PeerId, NEW refused \in BOOLEAN, dropped(s, p, refused)
  PROVE  Kept /\ Reallocated(s, p)
<1>1. PICK d0 \in update_time(data) :
        LET d == IF p \in Connected(d0, s)
                 THEN disconnect(add_reputation(d0, p, DISCONNECT_REPUTATION_CHANGE), Only(s, {p}))
                 ELSE d0
        IN  /\ reserved_nodes' = reserved_nodes /\ reserved_only' = reserved_only
            /\ IF refused
               THEN AllocSlots(remove_from_peers_set(d, s, p), remove_from_peers_set_msgs(d, s, p))
               ELSE AllocSlots(d, <<>>)
  BY DEF dropped
<1> DEFINE a == add_reputation(d0, p, DISCONNECT_REPUTATION_CHANGE)
           D == Only(s, {p})
           d == IF p \in Connected(d0, s) THEN disconnect(a, D) ELSE d0
           r == remove_from_peers_set(d, s, p)
           e == IF refused THEN r ELSE d
           m == IF refused THEN remove_from_peers_set_msgs(d, s, p) ELSE <<>>
<1>2. AllocSlots(e, m) /\ reserved_nodes' = reserved_nodes /\ reserved_only' = reserved_only
  BY <1>1
<1>0. /\ DataInv(data) /\ message_queue \in Seq(Messages)
      /\ reserved_nodes' \in PeerChoice /\ reserved_only' \in [SetId -> BOOLEAN]
      /\ data.no_slot_nodes = reserved_nodes'
  BY <1>2 DEF CoreInv, ReservedInSync
<1>3. /\ DataInv(d0) /\ d0.no_slot_nodes = data.no_slot_nodes
      /\ d0.num_in = data.num_in /\ d0.num_out = data.num_out
      /\ \A t \in SetId : Connected(d0, t) = Connected(data, t)
  BY <1>0, UpdateTimeInv, UpdateTimeSlots
<1>4. /\ DataInv(a) /\ a.no_slot_nodes = d0.no_slot_nodes
      /\ a.num_in = d0.num_in /\ a.num_out = d0.num_out
      /\ \A t \in SetId : Connected(a, t) = Connected(d0, t)
  BY <1>3, AddReputationInv, ReputationSlots, ThresholdsType
<1>5. D \in PeerChoice /\ \A t \in SetId : D[t] = IF t = s THEN {p} ELSE {}
  BY DEF Only, PeerChoice
<1> HIDE DEF a, D
<1>6. /\ DataInv(d) /\ d.no_slot_nodes = data.no_slot_nodes
      /\ NoMoreSlots(data, d)
      /\ \A t \in SetId : Connected(d, t) = Connected(data, t) \ D[t]
  <2>1. CASE p \in Connected(d0, s)
    <3>1. \A t \in SetId : D[t] \subseteq Connected(a, t)
      BY <1>4, <1>5, <2>1
    <3>2. /\ DataInv(disconnect(a, D)) /\ disconnect(a, D).no_slot_nodes = a.no_slot_nodes
          /\ NoMoreSlots(a, disconnect(a, D))
          /\ \A t \in SetId : Connected(disconnect(a, D), t) = Connected(a, t) \ D[t]
      BY <1>4, <1>5, <3>1, DisconnectInv, DisconnectSlots
    <3>3. NoMoreSlots(data, disconnect(a, D))
      BY <1>3, <1>4, <3>2 DEF NoMoreSlots
    <3> QED  BY <1>3, <1>4, <2>1, <3>2, <3>3
  <2>2. CASE p \notin Connected(d0, s)
    <3>1. \A t \in SetId : Connected(data, t) = Connected(data, t) \ D[t]
      BY <1>3, <1>5, <2>2
    <3>2. NoMoreSlots(data, d0)
      BY <1>0, <1>3, SameSlots
    <3> QED  BY <1>3, <2>2, <3>1, <3>2
  <2> QED  BY <2>1, <2>2
<1> HIDE DEF d
<1>7. p \notin Connected(d, s)
  BY <1>5, <1>6
<1>8. /\ DataInv(r) /\ r.no_slot_nodes = d.no_slot_nodes /\ NoMoreSlots(d, r)
      /\ remove_from_peers_set_msgs(d, s, p) = <<>>
      /\ \A t \in SetId : Connected(r, t) = Connected(d, t)
  BY <1>6, <1>7, RemoveFromPeersSetInv, RemoveFromPeersSetEffect
<1>9. NoMoreSlots(data, r)
  <2> SUFFICES ASSUME NEW t \in SetId PROVE r.num_in[t] <= data.num_in[t] /\ r.num_out[t] <= data.num_out[t]
    BY DEF NoMoreSlots
  <2>1. /\ r.num_in[t] \in Int /\ r.num_out[t] \in Int /\ d.num_in[t] \in Int /\ d.num_out[t] \in Int
        /\ data.num_in[t] \in Int /\ data.num_out[t] \in Int
    BY <1>0, <1>6, <1>8, SlotTypes
  <2>2. /\ r.num_in[t] <= d.num_in[t] /\ r.num_out[t] <= d.num_out[t]
        /\ d.num_in[t] <= data.num_in[t] /\ d.num_out[t] <= data.num_out[t]
    BY <1>6, <1>8 DEF NoMoreSlots
  <2> QED  BY <2>1, <2>2
<1> HIDE DEF r
<1>10. /\ DataInv(e) /\ e.no_slot_nodes = reserved_nodes' /\ NoMoreSlots(data, e) /\ m = <<>>
       /\ \A t \in SetId : Connected(e, t) = Connected(data, t) \ D[t]
  BY <1>0, <1>6, <1>8, <1>9
<1> HIDE DEF e, m
<1>11. \A t \in SetId : Connected(e, t) \subseteq Connected(data, t)
  BY <1>10
<1>12. Kept /\ \E C \in PeerChoice : \E q \in SetToSeqs(Announce("Connect", C)) :
                 /\ Changes(e, data', C, [t \in SetId |-> {}])
                 /\ message_queue' = message_queue \o m \o q
  <2>1. /\ DataInv(data) /\ reserved_nodes' \in PeerChoice /\ reserved_only' \in [SetId -> BOOLEAN]
        /\ DataInv(e) /\ e.no_slot_nodes = reserved_nodes' /\ NoMoreSlots(data, e)
        /\ AllocSlots(e, m)
    BY <1>0, <1>2, <1>10
  <2> QED  BY <2>1, <1>11, AllocSlotsKept
<1>13. PICK C \in PeerChoice : \E q \in SetToSeqs(Announce("Connect", C)) :
         Changes(e, data', C, [t \in SetId |-> {}]) /\ message_queue' = message_queue \o m \o q
  BY <1>12
<1>14. PICK q \in SetToSeqs(Announce("Connect", C)) :
         Changes(e, data', C, [t \in SetId |-> {}]) /\ message_queue' = message_queue \o m \o q
  BY <1>13
<1>15. message_queue' = message_queue \o q
  <2>1. message_queue \o <<>> = message_queue
    BY <1>0
  <2> QED  BY <1>10, <1>14, <2>1
<1>16. \A t \in SetId : /\ C[t] \cap (Connected(data, t) \ D[t]) = {}
                        /\ Connected(data', t) = (Connected(data, t) \ D[t]) \cup C[t]
  BY <1>10, <1>14 DEF Changes
<1> QED  BY <1>12, <1>15, <1>16 DEF D, Reallocated

-----------------------------------------------------------------------------
(* The steps                                                               *)

\* Every Action of a handle keeps the limits and announces what it does.
LEMMA HandleActionKept ==
  ASSUME Inv, HandleAction
  PROVE  Kept /\ Managed
<1>0. CoreInv /\ DataInv(data) /\ message_queue \in Seq(Messages)
  BY DEF Inv, CoreInv
<1>1. ASSUME NEW s \in SetId, NEW p \in PeerId,
             on_add_reserved_peer(s, p) \/ set_reserved_peers_add(s, p)
      PROVE  Kept /\ Managed
  BY <1>0, <1>1, AddReservedPeerKept DEF on_add_reserved_peer, set_reserved_peers_add
<1>2. ASSUME NEW s \in SetId, NEW p \in PeerId,
             on_remove_reserved_peer(s, p) \/ set_reserved_peers_remove(s, p)
      PROVE  Kept /\ Managed
  BY <1>0, <1>2, RemoveReservedPeerKept DEF on_remove_reserved_peer, set_reserved_peers_remove
<1>3. ASSUME NEW s \in SetId, NEW p \in PeerId, on_add_to_peers_set(s, p) PROVE Kept /\ Managed
  BY <1>0, <1>3, DiscoverAndConnectKept DEF on_add_to_peers_set
<1>4. ASSUME NEW s \in SetId, NEW p \in PeerId, on_remove_from_peers_set(s, p) PROVE Kept /\ Managed
  BY <1>0, <1>4, RemoveFromPeersSetKept DEF on_remove_from_peers_set
<1>5. ASSUME NEW s \in SetId, NEW P \in SUBSET PeerId, on_set_reserved_peers(s, P) PROVE Kept /\ Managed
  <2>1. data' = data /\ message_queue' = message_queue
    BY <1>5 DEF on_set_reserved_peers
  <2> QED  BY <1>0, <2>1, QuietStep
<1>6. ASSUME NEW s \in SetId, NEW b \in BOOLEAN, on_set_reserved_only(s, b) PROVE Kept /\ Managed
  BY <1>0, <1>6, SetReservedOnlyKept DEF on_set_reserved_only
<1>7. ASSUME NEW p \in PeerId, NEW v \in ReportValues, on_report_peer(p, v) PROVE Kept /\ Managed
  BY <1>0, <1>7, ReportPeerKept DEF on_report_peer
<1> QED  BY <1>1, <1>2, <1>3, <1>4, <1>5, <1>6, <1>7 DEF HandleAction

\* So does every step.
LEMMA NextKept ==
  ASSUME Inv, [Next]_vars
  PROVE  Kept
<1>0. CoreInv /\ DataInv(data) /\ message_queue \in Seq(Messages)
  BY DEF Inv, CoreInv
<1>1. ASSUME data' = data PROVE Kept
  <2>1. NewlyChecked(data, data', reserved_nodes')
    BY <1>1 DEF NewlyChecked
  <2>2. WithinLimits(data, data')
    BY <1>0, <1>1, SameSlots, NoMoreWithin
  <2> QED  BY <1>0, <1>1, <2>1, <2>2, WithinKept
<1>2. CASE UNCHANGED vars
  BY <1>1, <1>2 DEF vars
<1>3. CASE HandleAction
  BY <1>3, HandleActionKept
<1>4. ASSUME NEW m \in Messages, poll_ready(m) PROVE Kept
  BY <1>1, <1>4 DEF poll_ready
<1>5. CASE poll_pending
  BY <1>1, <1>5 DEF poll_pending
<1>6. ASSUME NEW s \in SetId, NEW p \in PeerId, add_to_peers_set(s, p) PROVE Kept
  BY <1>0, <1>6, DiscoverAndConnectKept DEF add_to_peers_set
<1>7. ASSUME NEW s \in SetId, NEW p \in PeerId, NEW i \in IncomingIndex, incoming(s, p, i) PROVE Kept
  BY <1>0, <1>7, IncomingKept
<1>8. ASSUME NEW s \in SetId, NEW p \in PeerId, NEW refused \in BOOLEAN, dropped(s, p, refused) PROVE Kept
  BY <1>0, <1>8, DroppedKept
<1>9. ASSUME NEW s \in SetId, NEW p \in PeerId, membership_ages(s, p) PROVE Kept
  <2>1. /\ data'.num_in = data.num_in /\ data'.num_out = data.num_out
        /\ \A t \in SetId : Connected(data', t) = Connected(data, t)
    BY <1>0, <1>9 DEF membership_ages, Connected, DataInv, PeersStates
  <2>2. DataInv(data')
    BY <1>0, <1>9, MembershipAgesStep DEF CoreInv
  <2>3. message_queue' = message_queue
    BY <1>9 DEF membership_ages
  <2> QED  BY <1>0, <2>1, <2>2, <2>3, QuietStep
<1>10. CASE debug_info
  <2>1. data' \in update_time(data) /\ message_queue' = message_queue
    BY <1>10 DEF debug_info
  <2>2. /\ DataInv(data') /\ data'.num_in = data.num_in /\ data'.num_out = data.num_out
        /\ \A t \in SetId : Connected(data', t) = Connected(data, t)
    BY <1>0, <2>1, UpdateTimeInv, UpdateTimeSlots
  <2> QED  BY <1>0, <2>1, <2>2, QuietStep
<1>11. ASSUME NEW a \in Actions, send(a) PROVE Kept
  BY <1>1, <1>11 DEF send
<1> QED  BY <1>2, <1>3, <1>4, <1>5, <1>6, <1>7, <1>8, <1>9, <1>10, <1>11 DEF Next, Poll

\* No new connection takes a set over its slot limits: only a connected node
\* that stops being reserved does.  No node is connected that is banned in the
\* state after the step, unless it is reserved (try_outgoing, alloc_slots and incoming).
THEOREM ConnectionsCheckedCorrect == Spec => ConnectionsChecked
<1> DEFINE Checked ==
      \A s \in SetId :
        /\ (\/ data'.num_in[s] > data.num_in[s] /\ data'.num_in[s] > max_in[s]
            \/ data'.num_out[s] > data.num_out[s] /\ data'.num_out[s] > max_out[s])
             => reserved_nodes[s] \ reserved_nodes'[s] # {}
        /\ \A p \in Connected(data', s) \ Connected(data, s) :
             p \in reserved_nodes'[s] \/ data'.reputation[p] >= BANNED_THRESHOLD
<1>1. Inv /\ [Next]_vars => [Checked]_vars
  BY NextKept DEF Kept, NewlyChecked
<1> QED  BY <1>1, InvInit, InvNext, PTL DEF Spec, ConnectionsChecked

-----------------------------------------------------------------------------
(* The contract                                                            *)

\* The links that the manager considers connected.
Net(d) == {l \in SetId \X PeerId : l[2] \in Connected(d, l[1])}


\* A step that announces its changes is one that the contract allows.
LEMMA ManagedPromised ==
  ASSUME message_queue \in Seq(Messages), Managed
  PROVE  Promise!Manage
<1>1. PICK q : Announced(data, data', q) /\ message_queue' = message_queue \o q
  BY DEF Managed
<1>2. PICK C \in PeerChoice, D \in PeerChoice :
        /\ Changes(data, data', C, D)
        /\ q \in SetToSeqs(Announce("Connect", C) \cup Announce("Drop", D))
  BY <1>1 DEF Announced
<1>3. Net(data') = (Net(data) \ Links(D)) \cup Links(C)
  <2>1. \A s \in SetId : Connected(data', s) = (Connected(data, s) \ D[s]) \cup C[s]
    BY <1>2 DEF Changes
  <2> QED  BY <2>1 DEF Net, Links
<1>4. Links(C) \in SUBSET ((SetId \X PeerId) \ Net(data)) /\ Links(D) \in SUBSET Net(data)
  BY <1>2 DEF Changes, Net, Links
<1>5. Linked(q) \in Promise!Orders(Links(C), Links(D))
  BY <1>2, LinkedOrdering
<1>6. q \in Seq(Messages)
  <2> DEFINE S == Announce("Connect", C) \cup Announce("Drop", D)
  <2>1. IsFiniteSet(S) /\ S \subseteq Messages
    BY AnnounceFinite, FS_Union
  <2>2. q \in SetToSeqs(S)
    BY <1>2
  <2> HIDE DEF S
  <2>3. q \in Seq(S)
    BY <2>1, <2>2, OrderingIs
  <2> QED  BY <2>1, <2>3
<1>7. Linked(message_queue') = Linked(message_queue) \o Linked(q)
  BY <1>1, <1>6, LinkedConcat
<1> QED  BY <1>3, <1>4, <1>5, <1>7 DEF Promise!Manage, Net, Linked

\* incoming does what the contract says of it.
LEMMA IncomingPromised ==
  ASSUME Inv, NEW s \in SetId, NEW p \in PeerId, NEW i \in IncomingIndex, incoming(s, p, i)
  PROVE  Promise!incoming(<<s, p>>, i)
<1>0. CoreInv /\ message_queue \in Seq(Messages)
  BY DEF Inv, CoreInv
<1>1. IF p \in Connected(data, s)
      THEN /\ message_queue' = message_queue
           /\ \A t \in SetId : Connected(data', t) = Connected(data, t)
      ELSE \/ /\ message_queue' = Append(message_queue, Accept(i))
              /\ \A t \in SetId : Connected(data', t) = Connected(data, t) \cup Only(s, {p})[t]
           \/ /\ message_queue' = Append(message_queue, Reject(i))
              /\ \A t \in SetId : Connected(data', t) = Connected(data, t)
  BY <1>0, IncomingKept
<1>2. <<s, p>> \in Net(data) <=> p \in Connected(data, s)
  BY DEF Net
<1>3. ASSUME \A t \in SetId : Connected(data', t) = Connected(data, t) PROVE Net(data') = Net(data)
  BY <1>3 DEF Net
<1>4. CASE p \in Connected(data, s)
  BY <1>1, <1>2, <1>3, <1>4 DEF Promise!incoming, Promise!contractVars, Net, Linked
<1>5. CASE /\ p \notin Connected(data, s)
           /\ message_queue' = Append(message_queue, Accept(i))
           /\ \A t \in SetId : Connected(data', t) = Connected(data, t) \cup Only(s, {p})[t]
  <2>1. Net(data') = Net(data) \cup {<<s, p>>}
    BY <1>5 DEF Net, Only
  <2>2. Accept(i) \in Messages /\ LinkMessage(Accept(i)) = Promise!Accept(i)
    BY DEF Accept, Messages, LinkMessage, Promise!Accept
  <2>3. Linked(message_queue') = Append(Linked(message_queue), Promise!Accept(i))
    BY <1>0, <1>5, <2>2, LinkedEnds
  <2>4. TRUE \in BOOLEAN
    OBVIOUS
  <2> QED  BY <1>2, <1>5, <2>1, <2>3, <2>4 DEF Promise!incoming, Net, Linked
<1>6. CASE /\ p \notin Connected(data, s)
           /\ message_queue' = Append(message_queue, Reject(i))
           /\ \A t \in SetId : Connected(data', t) = Connected(data, t)
  <2>1. Net(data') = Net(data)
    BY <1>3, <1>6
  <2>2. Reject(i) \in Messages /\ LinkMessage(Reject(i)) = Promise!Reject(i)
    BY DEF Reject, Messages, LinkMessage, Promise!Reject
  <2>3. Linked(message_queue') = Append(Linked(message_queue), Promise!Reject(i))
    BY <1>0, <1>6, <2>2, LinkedEnds
  <2>4. FALSE \in BOOLEAN
    OBVIOUS
  <2> QED  BY <1>2, <1>6, <2>1, <2>3, <2>4 DEF Promise!incoming, Net, Linked
<1> QED  BY <1>1, <1>4, <1>5, <1>6

\* So does dropped.
LEMMA DroppedPromised ==
  ASSUME Inv, NEW s \in SetId, NEW p \in PeerId, NEW refused \in BOOLEAN, dropped(s, p, refused)
  PROVE  Promise!dropped(<<s, p>>, Linked(message_queue))
<1>0. CoreInv /\ message_queue \in Seq(Messages)
  BY DEF Inv, CoreInv
<1> DEFINE D == Only(s, {p})
           none == [t \in SetId |-> {}]
<1>1. PICK C \in PeerChoice : \E q \in SetToSeqs(Announce("Connect", C)) :
        /\ \A t \in SetId : /\ C[t] \cap (Connected(data, t) \ D[t]) = {}
                            /\ Connected(data', t) = (Connected(data, t) \ D[t]) \cup C[t]
        /\ message_queue' = message_queue \o q
  <2>1. Reallocated(s, p)
    BY <1>0, DroppedKept, Zenon
  <2> QED  BY <2>1 DEF Reallocated
<1>2. PICK q \in SetToSeqs(Announce("Connect", C)) : message_queue' = message_queue \o q
  BY <1>1
<1>3. Net(data') = (Net(data) \ Links(D)) \cup Links(C)
  <2>1. \A t \in SetId : Connected(data', t) = (Connected(data, t) \ D[t]) \cup C[t]
    BY <1>1
  <2> HIDE DEF D
  <2> QED  BY <2>1 DEF Net, Links
<1>4. Links(D) = {<<s, p>>} /\ Links(none) = {}
  BY DEF Links, Only
<1>5. Links(C) \in SUBSET (((SetId \X PeerId) \ Net(data)) \cup {<<s, p>>})
  <2> SUFFICES ASSUME NEW l \in Links(C), l \in Net(data) PROVE l = <<s, p>>
    BY DEF Links
  <2>1. l \in SetId \X PeerId /\ l[1] \in SetId /\ l[2] \in C[l[1]] /\ l[2] \in Connected(data, l[1])
    BY DEF Links, Net
  <2>2. l[2] \in D[l[1]]
    BY <1>1, <2>1
  <2>3. l \in Links(D)
    BY <2>1, <2>2 DEF Links
  <2> QED  BY <1>4, <2>3
<1>6. Announce("Connect", C) \cup Announce("Drop", none) = Announce("Connect", C)
  BY AnnounceNone
<1>7. Linked(q) \in Promise!Orders(Links(C), {})
  BY <1>2, <1>4, <1>6, LinkedOrdering
<1>8. q \in Seq(Messages)
  <2> DEFINE S == Announce("Connect", C)
  <2>1. IsFiniteSet(S) /\ S \subseteq Messages
    BY AnnounceFinite
  <2>2. q \in SetToSeqs(S)
    BY <1>2
  <2> HIDE DEF S
  <2>3. q \in Seq(S)
    BY <2>1, <2>2, OrderingIs
  <2> QED  BY <2>1, <2>3
<1>9. Linked(message_queue') = Linked(message_queue) \o Linked(q)
  BY <1>0, <1>2, <1>8, LinkedConcat
<1> HIDE DEF D, none
<1>10. Net(data') = (Net(data) \ {<<s, p>>}) \cup Links(C)
  BY <1>3, <1>4
<1> QED  BY <1>5, <1>7, <1>9, <1>10 DEF Promise!dropped, Net, Linked

\* The network sees nothing of a step that leaves the queue and the
\* connections alone.
LEMMA UnseenStep ==
  ASSUME message_queue' = message_queue,
         \A t \in SetId : Connected(data', t) = Connected(data, t)
  PROVE  UNCHANGED Promise!contractVars
<1>1. Net(data') = Net(data)
  BY DEF Net
<1> QED  BY <1>1 DEF Promise!contractVars, Net

\* Every step is a step of the contract, or one that the network does not see.
LEMMA ContractStep ==
  ASSUME Inv, [Next]_vars
  PROVE  [Promise!ContractNext]_(Promise!contractVars)
<1> DEFINE Goal == [Promise!ContractNext]_(Promise!contractVars)
<1>0. CoreInv /\ DataInv(data) /\ message_queue \in Seq(Messages)
  BY DEF Inv, CoreInv
<1>1. ASSUME data' = data, message_queue' = message_queue PROVE Goal
  BY <1>1, UnseenStep
<1>2. CASE UNCHANGED vars
  BY <1>1, <1>2 DEF vars
<1>m. ASSUME Managed PROVE Goal
  BY <1>0, <1>m, ManagedPromised DEF Promise!ContractNext
<1>3. CASE HandleAction
  BY <1>3, <1>m, HandleActionKept
<1>4. ASSUME NEW m \in Messages, poll_ready(m) PROVE Goal
  <2>1. data' = data /\ message_queue # <<>> /\ message_queue' = Tail(message_queue)
    BY <1>4 DEF poll_ready
  <2>2. Linked(message_queue) # <<>> /\ Linked(message_queue') = Tail(Linked(message_queue))
    BY <1>0, <2>1, LinkedEnds
  <2>3. Net(data') = Net(data)
    BY <2>1
  <2>4. Promise!poll_ready(Head(Linked(message_queue)))
    BY <2>2, <2>3 DEF Promise!poll_ready, Net, Linked
  <2> QED  BY <2>2, <2>4 DEF Promise!ContractNext, Linked
<1>5. CASE poll_pending
  BY <1>1, <1>5 DEF poll_pending
<1>6. ASSUME NEW s \in SetId, NEW p \in PeerId, add_to_peers_set(s, p) PROVE Goal
  BY <1>0, <1>6, <1>m, DiscoverAndConnectKept DEF add_to_peers_set
<1>7. ASSUME NEW s \in SetId, NEW p \in PeerId, NEW i \in IncomingIndex, incoming(s, p, i) PROVE Goal
  <2>1. Promise!incoming(<<s, p>>, i)
    BY <1>7, IncomingPromised
  <2>2. <<s, p>> \in SetId \X PeerId
    OBVIOUS
  <2> QED  BY <2>1, <2>2 DEF Promise!ContractNext
<1>8. ASSUME NEW s \in SetId, NEW p \in PeerId, NEW refused \in BOOLEAN, dropped(s, p, refused) PROVE Goal
  <2>1. Promise!dropped(<<s, p>>, Linked(message_queue))
    BY <1>8, DroppedPromised, Zenon
  <2>2. <<s, p>> \in SetId \X PeerId
    OBVIOUS
  <2> QED  BY <2>1, <2>2 DEF Promise!ContractNext, Linked
<1>9. ASSUME NEW s \in SetId, NEW p \in PeerId, membership_ages(s, p) PROVE Goal
  <2>1. \A t \in SetId : Connected(data', t) = Connected(data, t)
    BY <1>0, <1>9 DEF membership_ages, Connected, DataInv, PeersStates
  <2>2. message_queue' = message_queue
    BY <1>9 DEF membership_ages
  <2> QED  BY <2>1, <2>2, UnseenStep
<1>10. CASE debug_info
  <2>1. data' \in update_time(data) /\ message_queue' = message_queue
    BY <1>10 DEF debug_info
  <2>2. \A t \in SetId : Connected(data', t) = Connected(data, t)
    BY <1>0, <2>1, UpdateTimeInv
  <2> QED  BY <2>1, <2>2, UnseenStep
<1>11. ASSUME NEW a \in Actions, send(a) PROVE Goal
  BY <1>1, <1>11 DEF send
<1> QED  BY <1>2, <1>3, <1>4, <1>5, <1>6, <1>7, <1>8, <1>9, <1>10, <1>11 DEF Next, Poll

\* The first allocation is announced too.
LEMMA ContractInitial ==
  ASSUME Init
  PROVE  Promise!ContractInit
<1>1. PICK o \in alloc_slots(configured, InitReserved, InitReservedOnly) :
        data = o.data /\ message_queue = o.msgs
  BY DEF Init
<1> DEFINE none == [s \in SetId |-> {}]
<1>2. PICK C \in PeerChoice : /\ Changes(configured, o.data, C, none)
                              /\ o.msgs \in SetToSeqs(Announce("Connect", C))
  BY ConfiguredInv, ConfigType, AllocSlotsEffect
<1>3. Net(data) = Links(C) /\ Links(none) = {}
  BY <1>1, <1>2, ConfiguredInv DEF Changes, Net, Links
<1>4. Announce("Connect", C) \cup Announce("Drop", none) = Announce("Connect", C)
  BY AnnounceNone
<1>5. Linked(message_queue) \in Promise!Orders(Links(C), {})
  BY <1>1, <1>2, <1>3, <1>4, LinkedOrdering
<1>6. Net(data) \in SUBSET (SetId \X PeerId)
  BY DEF Net
<1> QED  BY <1>3, <1>5, <1>6 DEF Promise!ContractInit, Net, Linked

\* The manager implements the contract that Notifications relies on: each
\* change of a connection has its one message, in whatever order the sets are
\* iterated and whichever handler makes it; each question about an incoming
\* connection of a node that is not connected has its one answer.
THEOREM ContractImplemented == Spec => ImplementsContract
<1>1. Inv /\ [Next]_vars => [Promise!ContractNext]_(Promise!contractVars)
  BY ContractStep
<1>2. Init => Promise!ContractInit
  BY ContractInitial
<1>3. Inv => AsPromised
  <2> SUFFICES ASSUME Inv PROVE AsPromised
    OBVIOUS
  <2>1. \A s \in SetId, p \in PeerId, i \in IncomingIndex :
          incoming(s, p, i) => Promise!incoming(<<s, p>>, i)
    BY IncomingPromised
  <2>2. HandleAction => Promise!Manage
    BY HandleActionKept, ManagedPromised DEF Inv, CoreInv
  <2> QED  BY <2>1, <2>2 DEF AsPromised
<1>4. Inv /\ [Next]_vars => [AsPromised]_vars
  BY <1>3
<1> QED  BY <1>1, <1>2, <1>4, InvInit, InvNext, PTL DEF Spec, ImplementsContract, Promise!Contract
============
