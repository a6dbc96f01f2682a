-------------------------- MODULE PeersetContract --------------------------
(***************************************************************************)
(* What the peer set manager promises the network that uses it             *)
(* (client/peerset/src/lib.rs): the links it considers connected, and a    *)
(* queue of messages that says how they change.  A link is a node in a     *)
(* set.  Reputations, slots and reserved nodes decide which links the      *)
(* manager wants; here it may want any.  `Peerset` implements this module  *)
(* and `Notifications` relies on nothing else.                             *)
(***************************************************************************)
EXTENDS Integers, Sequences, SequencesExt

CONSTANTS
  Link,     \* the nodes in the sets
  Index     \* indices given to incoming connections

VARIABLES
  connected,      \* the links that the manager considers connected
  message_queue   \* messages to the network, oldest first

contractVars == <<connected, message_queue>>

Connect(l) == [type |-> "Connect", link |-> l]
Drop(l)    == [type |-> "Drop", link |-> l]
Accept(i)  == [type |-> "Accept", index |-> i]
Reject(i)  == [type |-> "Reject", index |-> i]

\* The messages that ask for the links of C and give up those of D, in any
\* order.
Orders(C, D) == SetToSeqs({Connect(l) : l \in C} \cup {Drop(l) : l \in D})

\* The manager asks for links that are not connected and gives up connected
\* ones, after an Action or the passing of time.
Manage ==
  \E C \in SUBSET (Link \ connected), D \in SUBSET connected :
    /\ connected' = (connected \ D) \cup C
    /\ \E q \in Orders(C, D) : message_queue' = message_queue \o q

\* Peerset::dropped, with the messages of unread waiting in the queue: the link
\* is not connected any more, and the manager may ask for links, this one
\* included.
dropped(l, unread) ==
  \E C \in SUBSET ((Link \ connected) \cup {l}) :
    /\ connected' = (connected \ {l}) \cup C
    /\ \E q \in Orders(C, {}) : message_queue' = unread \o q

\* Peerset::incoming: an answer, unless the link is connected already.
incoming(l, i) ==
  IF l \in connected THEN UNCHANGED contractVars
  ELSE \E accepted \in BOOLEAN :
    /\ connected' = IF accepted THEN connected \cup {l} ELSE connected
    /\ message_queue' = Append(message_queue, IF accepted THEN Accept(i) ELSE Reject(i))

\* The network reads the oldest message.
poll_ready(m) ==
  /\ message_queue # <<>> /\ m = Head(message_queue)
  /\ message_queue' = Tail(message_queue)
  /\ UNCHANGED connected

ContractNext ==
  \/ Manage
  \/ \E l \in Link : dropped(l, message_queue) \/ \E i \in Index : incoming(l, i)
  \/ message_queue # <<>> /\ poll_ready(Head(message_queue))

\* At the start the manager has asked for the links it wants.
ContractInit == connected \in SUBSET Link /\ message_queue \in Orders(connected, {})

Contract == ContractInit /\ [][ContractNext]_contractVars
=============================================================================
