------------------------------- MODULE Peerset -------------------------------
(***************************************************************************)
(* The peer set manager (client/peerset/src/lib.rs): it decides which      *)
(* nodes to connect to and which incoming connections to accept, and tells *)
(* the network through a queue of messages.                                *)
(*                                                                         *)
(* Two kinds of callers drive it.  Holders of a PeersetHandle, on any      *)
(* thread, push Actions on an unbounded channel (rx).  The network task    *)
(* owns the Peerset: it calls its methods directly (incoming, dropped,     *)
(* add_to_peers_set, debug_info) and polls it as a stream.  One call of    *)
(* poll_next goes on handling Actions until there is a message to return   *)
(* or the channel is empty; `polling` says that such a call is under way,  *)
(* during which no direct call can happen.                                 *)
(*                                                                         *)
(* The environment of this module is the most general one: every caller    *)
(* may call anything at any time.  PeersetContract is what the network can *)
(* rely on; Notifications is the network's side of it.                     *)
(***************************************************************************)
EXTENDS PeersState, SequencesExt

CONSTANTS
  BANNED_THRESHOLD,              \* reputation below which a node is not connected to
  DISCONNECT_REPUTATION_CHANGE,  \* change applied on an unexpected disconnection
  TickDivisor,                   \* a second takes 1/TickDivisor off a reputation
  ReportValues,                  \* values of the ReputationChanges reported
  IncomingIndex,                 \* indices the user gives to incoming connections
  InitReserved,                  \* SetConfig::reserved_nodes of each set
  InitReservedOnly,              \* SetConfig::reserved_only of each set
  Bootnodes,                     \* SetConfig::bootnodes of each set
  MaxRx,                         \* bound: Actions waiting in the channel
  MaxQueue                       \* bound: messages waiting when a direct call is made

ASSUME ThresholdsType == /\ BANNED_THRESHOLD \in Int /\ BANNED_THRESHOLD <= 0
                         /\ DISCONNECT_REPUTATION_CHANGE \in Int
                         /\ TickDivisor \in Nat \ {0}
                         /\ ReportValues \subseteq Int
ASSUME ConfigType == /\ InitReserved \in PeerChoice
                     /\ InitReservedOnly \in [SetId -> BOOLEAN]
                     /\ Bootnodes \in PeerChoice
ASSUME BoundsType == MaxRx \in Nat /\ MaxQueue \in Nat

VARIABLES
  data,            \* PeersState
  reserved_nodes,  \* reserved_nodes[s].0: the reserved nodes of each set
  reserved_only,   \* reserved_nodes[s].1: only reserved nodes are connected to
  message_queue,   \* messages for the network, oldest first
  rx,              \* Actions sent through handles, oldest first
  polling,         \* the network task is inside poll_next
  todo             \* what is left of the loops of on_set_reserved_peers

vars == <<data, reserved_nodes, reserved_only, message_queue, rx, polling, todo>>

-----------------------------------------------------------------------------
(* Messages and Actions                                                    *)

Connect(s, p) == [type |-> "Connect", set |-> s, peer |-> p]
Drop(s, p)    == [type |-> "Drop", set |-> s, peer |-> p]
Accept(i)     == [type |-> "Accept", index |-> i]
Reject(i)     == [type |-> "Reject", index |-> i]

Messages ==
  [type : {"Connect", "Drop"}, set : SetId, peer : PeerId]
    \cup [type : {"Accept", "Reject"}, index : IncomingIndex]

Actions ==
  [type : {"AddReservedPeer", "RemoveReservedPeer", "AddToPeersSet", "RemoveFromPeersSet"},
   set : SetId, peer : PeerId]
    \cup [type : {"SetReservedPeers"}, set : SetId, peers : SUBSET PeerId]
    \cup [type : {"SetReservedOnly"}, set : SetId, reserved_only : BOOLEAN]
    \cup [type : {"ReportPeer"}, peer : PeerId, change : ReportValues]

\* One message of type t per peer of C[s], set by set and, within a set, by
\* decreasing rank; peers of equal rank come in any order.
Listings(C, t, rank) ==
  LET all == {m \in [type : {t}, set : SetId, peer : PeerId] : m.peer \in C[m.set]}
  IN  {q \in SetToSeqs(all) :
         \A i, j \in DOMAIN q : i < j =>
            \/ q[i].set < q[j].set
            \/ q[i].set = q[j].set /\ rank[q[i].peer] >= rank[q[j].peer]}

\* The order in which a hash set or a hash map is iterated.
Unordered == [p \in PeerId |-> 0]

-----------------------------------------------------------------------------
(* Time                                                                    *)

\* i32 division, which rounds towards zero.
Quotient(a, b) == IF a >= 0 THEN a \div b ELSE -((-a) \div b)

reput_tick(reput) ==
  LET q    == Quotient(reput, TickDivisor)
      diff == IF q # 0 THEN q ELSE IF reput < 0 THEN -1 ELSE IF reput > 0 THEN 1 ELSE 0
  IN  Saturate(reput - diff)

\* One second of update_time: the reputation of every node moves towards
\* zero; a node that reaches zero leaves the sets it has not been connected
\* to for a long time, and the map if it is left in no set.
tick(d) ==
  LET rep  == [p \in PeerId |-> IF p \in d.nodes THEN reput_tick(d.reputation[p])
                                                 ELSE d.reputation[p]]
      gone == {m \in d.old : m[2] \in d.nodes /\ rep[m[2]] = 0}
      e    == [d EXCEPT
                 !.reputation = rep,
                 !.sets = [s \in SetId |-> [p \in PeerId |->
                             IF <<s, p>> \in gone THEN "NotMember" ELSE @[s][p]]],
                 !.old  = @ \ gone]
  IN  [e EXCEPT !.nodes = {p \in @ : Retained(e, p)}]

\* update_time, when at most one second has gone by since it last ran; a
\* longer time is a sequence of calls of debug_info, which do nothing else.
update_time(d) == {d, tick(d)}

-----------------------------------------------------------------------------
(* Slot allocation                                                         *)

\* The first loop of alloc_slots: the reserved nodes that are not connected.
reserved_to_connect(d, reserved) == [s \in SetId |-> reserved[s] \ Connected(d, s)]

\* Mutant: the reserved-only mode is not looked at.
highest_not_connected_any_mode(d, only, s) ==
  {C \in SUBSET NotConnected(d, s) :
     /\ \A p \in C : d.reputation[p] >= BANNED_THRESHOLD
     /\ C = {} \/ Cardinality(C) + d.num_out[s] <= max_out[s]}

\* The second loop of alloc_slots: in the sets that are not reserved-only,
\* highest_not_connected_peer again and again, until the best peer left is
\* banned or there is no free slot.
highest_not_connected(d, only, s) ==
  LET free     == IF d.num_out[s] < max_out[s] THEN max_out[s] - d.num_out[s] ELSE 0
      eligible == {p \in NotConnected(d, s) : ~only[s] /\ d.reputation[p] >= BANNED_THRESHOLD}
  IN  {C \in SUBSET eligible :
         /\ \A p \in C, q \in eligible \ C : d.reputation[p] >= d.reputation[q]
         /\ Cardinality(C) <= free
         /\ C = eligible \/ Cardinality(C) = free}

\* alloc_slots: the structures it may leave behind, each with the messages
\* it pushes.
alloc_slots(d0, reserved, only) ==
  UNION {LET R == reserved_to_connect(d, reserved)
             e == outgoing(d, R)
             choices == {C \in PeerChoice :
                           \A s \in SetId : C[s] \in highest_not_connected(e, only, s)}
         IN  UNION {{[data |-> outgoing(e, C), msgs |-> m1 \o m2] :
                       m1 \in Listings(R, "Connect", Unordered),
                       m2 \in Listings(C, "Connect", e.reputation)} : C \in choices}
         : d \in update_time(d0)}

\* A handler that ends with alloc_slots, applied to structure d.
AllocSlots(d, msgs) ==
  \E o \in alloc_slots(d, reserved_nodes', reserved_only') :
    /\ data' = o.data
    /\ message_queue' = message_queue \o msgs \o o.msgs

-----------------------------------------------------------------------------
(* Bodies of the handlers, shared by the callers                           *)

add_reserved_peer(s, p) ==
  /\ reserved_nodes' = [reserved_nodes EXCEPT ![s] = @ \cup {p}]
  /\ UNCHANGED reserved_only
  /\ IF p \in reserved_nodes[s]
     THEN UNCHANGED <<data, message_queue>>
     ELSE AllocSlots(add_no_slot_node(data, s, p), <<>>)

remove_reserved_peer(s, p) ==
  LET d == remove_no_slot_node(data, s, p)
  IN  /\ reserved_nodes' = [reserved_nodes EXCEPT ![s] = @ \ {p}]
      /\ UNCHANGED reserved_only
      /\ CASE p \notin reserved_nodes[s] -> UNCHANGED <<data, message_queue>>
           [] p \in reserved_nodes[s] /\ reserved_only[s] /\ p \in Connected(data, s) ->
                /\ data' = disconnect(d, Only(s, {p}))
                /\ message_queue' = Append(message_queue, Drop(s, p))
           [] OTHER -> data' = d /\ UNCHANGED message_queue

set_reserved_only(s, b) ==
  LET C == Only(s, Connected(data, s) \ reserved_nodes[s])
  IN  /\ reserved_only' = [reserved_only EXCEPT ![s] = b]
      /\ UNCHANGED reserved_nodes
      /\ IF b
         THEN /\ data' = disconnect(data, C)
              /\ \E q \in Listings(C, "Drop", Unordered) :
                    message_queue' = message_queue \o q
         ELSE AllocSlots(data, <<>>)

discover_and_connect(s, p) ==
  /\ UNCHANGED <<reserved_nodes, reserved_only>>
  /\ IF p \in Unknown(data, s)
     THEN AllocSlots(discover(data, s, p), <<>>)
     ELSE UNCHANGED <<data, message_queue>>

\* on_remove_from_peers_set: the structure it leaves behind...
remove_from_peers_set(d, s, p) ==
  IF p \in reserved_nodes[s] \/ p \in Unknown(d, s) THEN d
  ELSE LET C == Only(s, {p} \cap Connected(d, s))
       IN  forget_peer(disconnect(d, C), s, p)

\* Mutant: the network is not told.
remove_from_peers_set_silent(d, s, p) == <<>>

\* ... and the message it pushes.
remove_from_peers_set_msgs(d, s, p) ==
  IF p \in Connected(d, s) \ reserved_nodes[s] THEN <<Drop(s, p)>> ELSE <<>>

report_peer(p, change) ==
  \E d0 \in update_time(data) :
    LET d == report_reputation(d0, p, change)
        C == [s \in SetId |-> {p} \cap Connected(d, s)]
    IN  /\ UNCHANGED <<reserved_nodes, reserved_only>>
        /\ IF d.reputation[p] >= BANNED_THRESHOLD
           THEN data' = d /\ UNCHANGED message_queue
           ELSE /\ data' = disconnect(d, C)
                /\ \E q \in Listings(C, "Drop", Unordered) :
                      message_queue' = message_queue \o q

-----------------------------------------------------------------------------
(* The network task: polling                                               *)

\* One turn of the loop of poll_next that takes Action a from the channel.
Receive(a) ==
  /\ message_queue = <<>> /\ todo = {}
  /\ rx # <<>> /\ a = Head(rx)
  /\ rx' = Tail(rx)
  /\ polling' = TRUE

on_add_reserved_peer(s, p) ==
  /\ Receive([type |-> "AddReservedPeer", set |-> s, peer |-> p])
  /\ add_reserved_peer(s, p)
  /\ UNCHANGED todo

on_remove_reserved_peer(s, p) ==
  /\ Receive([type |-> "RemoveReservedPeer", set |-> s, peer |-> p])
  /\ remove_reserved_peer(s, p)
  /\ UNCHANGED todo

\* on_set_reserved_peers computes the differences between the two groups...
on_set_reserved_peers(s, peers) ==
  /\ Receive([type |-> "SetReservedPeers", set |-> s, peers |-> peers])
  /\ todo' = {<<s, p>> : p \in (peers \ reserved_nodes[s]) \cup (reserved_nodes[s] \ peers)}
  /\ UNCHANGED <<data, reserved_nodes, reserved_only, message_queue>>

\* ... then adds the new nodes, in any order...
set_reserved_peers_add(s, p) ==
  /\ <<s, p>> \in todo /\ p \notin reserved_nodes[s]
  /\ todo' = todo \ {<<s, p>>}
  /\ add_reserved_peer(s, p)
  /\ UNCHANGED <<rx, polling>>

\* ... and then removes the old ones, in any order.
set_reserved_peers_remove(s, p) ==
  /\ <<s, p>> \in todo /\ \A m \in todo : m[2] \in reserved_nodes[m[1]]
  /\ todo' = todo \ {<<s, p>>}
  /\ remove_reserved_peer(s, p)
  /\ UNCHANGED <<rx, polling>>

on_set_reserved_only(s, b) ==
  /\ Receive([type |-> "SetReservedOnly", set |-> s, reserved_only |-> b])
  /\ set_reserved_only(s, b)
  /\ UNCHANGED todo

on_report_peer(p, change) ==
  /\ Receive([type |-> "ReportPeer", peer |-> p, change |-> change])
  /\ report_peer(p, change)
  /\ UNCHANGED todo

on_add_to_peers_set(s, p) ==
  /\ Receive([type |-> "AddToPeersSet", set |-> s, peer |-> p])
  /\ discover_and_connect(s, p)
  /\ UNCHANGED todo

on_remove_from_peers_set(s, p) ==
  /\ Receive([type |-> "RemoveFromPeersSet", set |-> s, peer |-> p])
  /\ data' = remove_from_peers_set(data, s, p)
  /\ message_queue' = message_queue \o remove_from_peers_set_msgs(data, s, p)
  /\ UNCHANGED <<reserved_nodes, reserved_only, todo>>

\* poll_next returns a message...
poll_ready(m) ==
  /\ message_queue # <<>> /\ todo = {}
  /\ m = Head(message_queue)
  /\ message_queue' = Tail(message_queue)
  /\ polling' = FALSE
  /\ UNCHANGED <<data, reserved_nodes, reserved_only, rx, todo>>

\* ... or Poll::Pending.
poll_pending ==
  /\ polling /\ message_queue = <<>> /\ todo = {} /\ rx = <<>>
  /\ polling' = FALSE
  /\ UNCHANGED <<data, reserved_nodes, reserved_only, message_queue, rx, todo>>

-----------------------------------------------------------------------------
(* The network task: direct calls                                          *)

DirectCall == ~polling /\ Len(message_queue) < MaxQueue /\ UNCHANGED <<rx, polling, todo>>

add_to_peers_set(s, p) == DirectCall /\ discover_and_connect(s, p)

\* incoming, for a node p that is not connected and that the mode of the set
\* does not exclude: discovered now if it was unknown, then answered.
answer_incoming(d, s, p, i) ==
  LET e == discover(d, s, p)
  IN  IF e.reputation[p] >= BANNED_THRESHOLD /\ in_slot_available(e, s, p)
      THEN /\ data' = accept_incoming(e, s, p)
           /\ message_queue' = Append(message_queue, Accept(i))
      ELSE /\ data' = e
           /\ message_queue' = Append(message_queue, Reject(i))

incoming(s, p, i) ==
  /\ DirectCall
  /\ UNCHANGED <<reserved_nodes, reserved_only>>
  /\ \E d \in update_time(data) :
       IF reserved_only[s] /\ p \notin reserved_nodes[s]
       THEN data' = d /\ message_queue' = Append(message_queue, Reject(i))
       ELSE IF p \in Connected(d, s)
       THEN data' = d /\ UNCHANGED message_queue
       ELSE answer_incoming(d, s, p, i)

\* dropped, where `refused` stands for DropReason::Refused.
dropped(s, p, refused) ==
  /\ DirectCall
  /\ UNCHANGED <<reserved_nodes, reserved_only>>
  /\ \E d0 \in update_time(data) :
       LET d == IF p \in Connected(d0, s)
                THEN disconnect(add_reputation(d0, p, DISCONNECT_REPUTATION_CHANGE),
                                Only(s, {p}))
                ELSE d0
       IN  IF refused
           THEN AllocSlots(remove_from_peers_set(d, s, p), remove_from_peers_set_msgs(d, s, p))
           ELSE AllocSlots(d, <<>>)

debug_info ==
  /\ DirectCall
  /\ data' \in update_time(data)
  /\ UNCHANGED <<reserved_nodes, reserved_only, message_queue>>

-----------------------------------------------------------------------------
(* Other threads, and time                                                 *)

\* A method of PeersetHandle, or Peerset::report_peer.
send(a) ==
  /\ Len(rx) < MaxRx
  /\ rx' = Append(rx, a)
  /\ UNCHANGED <<data, reserved_nodes, reserved_only, message_queue, polling, todo>>

\* FORGET_AFTER goes by since node p was last connected through set s.
membership_ages(s, p) ==
  /\ p \in NotConnected(data, s) /\ <<s, p>> \notin data.old
  /\ data' = [data EXCEPT !.old = @ \cup {<<s, p>>}]
  /\ UNCHANGED <<reserved_nodes, reserved_only, message_queue, rx, polling, todo>>

-----------------------------------------------------------------------------
\* from_config: the reserved nodes, the boot nodes, and a first allocation.
configured ==
  [NewPeersState EXCEPT
     !.nodes = UNION {Bootnodes[s] : s \in SetId},
     !.sets  = [s \in SetId |-> [p \in PeerId |->
                  IF p \in Bootnodes[s] THEN "NotConnected" ELSE "NotMember"]],
     !.no_slot_nodes = InitReserved]

Init ==
  /\ reserved_nodes = InitReserved
  /\ reserved_only = InitReservedOnly
  /\ \E o \in alloc_slots(configured, InitReserved, InitReservedOnly) :
       data = o.data /\ message_queue = o.msgs
  /\ rx = <<>> /\ polling = FALSE /\ todo = {}

HandleAction ==
  \/ \E s \in SetId, p \in PeerId :
       \/ on_add_reserved_peer(s, p) \/ on_remove_reserved_peer(s, p)
       \/ set_reserved_peers_add(s, p) \/ set_reserved_peers_remove(s, p)
       \/ on_add_to_peers_set(s, p) \/ on_remove_from_peers_set(s, p)
  \/ \E s \in SetId, P \in SUBSET PeerId : on_set_reserved_peers(s, P)
  \/ \E s \in SetId, b \in BOOLEAN : on_set_reserved_only(s, b)
  \/ \E p \in PeerId, v \in ReportValues : on_report_peer(p, v)

Poll ==
  \/ HandleAction
  \/ \E m \in Messages : poll_ready(m)
  \/ poll_pending

Next ==
  \/ Poll
  \/ \E s \in SetId, p \in PeerId :
       \/ add_to_peers_set(s, p)
       \/ \E i \in IncomingIndex : incoming(s, p, i)
       \/ \E refused \in BOOLEAN : dropped(s, p, refused)
       \/ membership_ages(s, p)
  \/ debug_info
  \/ \E a \in Actions : send(a)

Spec == Init /\ [][Next]_vars
-----------------------------------------------------------------------------
(* Properties                                                              *)

\* Only memberships without a connection have an age.
OldNotConnected(d) == \A m \in d.old : d.sets[m[1]][m[2]] = "NotConnected"

\* The variables have their types; reputations stay within an i32, whatever
\* is reported, and an age is only ever kept for members without a connection.
TypeOK ==
  /\ data \in PeersStates
  /\ OldNotConnected(data)
  /\ reserved_nodes \in PeerChoice
  /\ reserved_only \in [SetId -> BOOLEAN]
  /\ message_queue \in Seq(Messages)
  /\ rx \in Seq(Actions)
  /\ polling \in BOOLEAN
  /\ todo \in SUBSET (SetId \X PeerId)

SlotsCounted(d) ==
  \A s \in SetId :
    /\ d.num_in[s] = Cardinality(Occupants(d, s, "In"))
    /\ d.num_out[s] = Cardinality(Occupants(d, s, "Out"))

\* The slot counters of every set agree with the states of its peers, over
\* every way a node can be connected, disconnected, reserved, un-reserved
\* or forgotten.  They are u32s that are decremented without a check, so a
\* miscount would sooner or later wrap around.
SlotAccounting == SlotsCounted(data)

\* The reserved nodes of Peerset and the slot-less nodes of PeersState are
\* two lists that the handlers keep equal ("kept in sync with the list of
\* non-slot-occupying nodes").
ReservedInSync == data.no_slot_nodes = reserved_nodes

\* In reserved-only mode only reserved nodes are connected, whatever the
\* order in which the mode, the list and the connections change.
OnlyReservedConnected ==
  \A s \in SetId : reserved_only[s] => Connected(data, s) \subseteq reserved_nodes[s]

\* What a step that connects has checked, of the state after the step.  A set
\* gets over its slot limit only when a connected node stops being reserved,
\* never by a new connection (comments in try_outgoing and
\* try_accept_incoming); and a node is connected through a set only if it is
\* reserved there or not banned.
ConnectionsChecked ==
  [][\A s \in SetId :
       /\ (\/ data'.num_in[s] > data.num_in[s] /\ data'.num_in[s] > max_in[s]
           \/ data'.num_out[s] > data.num_out[s] /\ data'.num_out[s] > max_out[s])
            => reserved_nodes[s] \ reserved_nodes'[s] # {}
       /\ \A p \in Connected(data', s) \ Connected(data, s) :
            p \in reserved_nodes'[s] \/ data'.reputation[p] >= BANNED_THRESHOLD]_vars
-----------------------------------------------------------------------------
(* What the network relies on                                              *)

\* A message of the queue, with the node and the set as one link.
LinkMessage(m) ==
  IF m.type \in {"Connect", "Drop"} THEN [type |-> m.type, link |-> <<m.set, m.peer>>] ELSE m

Promise == INSTANCE PeersetContract WITH
  Link          <- SetId \X PeerId,
  Index         <- IncomingIndex,
  connected     <- {l \in SetId \X PeerId : l[2] \in Connected(data, l[1])},
  message_queue <- [k \in DOMAIN message_queue |-> LinkMessage(message_queue[k])]

\* A call of incoming does what the contract says of it, and an Action of a
\* handle changes no connection without a message.
AsPromised ==
  /\ \A s \in SetId, p \in PeerId, i \in IncomingIndex :
       incoming(s, p, i) => Promise!incoming(<<s, p>>, i)
  /\ HandleAction => Promise!Manage

\* The manager implements its contract: every change of the connections is
\* announced once, with the message that the network expects, whichever
\* handler makes it, and every question about an incoming connection of a
\* node that is not connected gets one answer.
ImplementsContract == Promise!Contract /\ [][AsPromised]_vars
=============================================================================
