--------------------------- MODULE Notifications ---------------------------
(***************************************************************************)
(* The network behaviour that keeps the notifications substreams           *)
(* (client/network/src/protocol/generic_proto/behaviour.rs) for one link,  *)
(* a node in a set.  It sits between the peer set manager, which it knows by *)
(* its contract, the handlers of the connections to the node, which run in *)
(* tasks of their own and are reached by messages, libp2p, which dials and *)
(* loses connections, and the users of the sinks it hands out.             *)
(*                                                                         *)
(* Each handler of an event gives an outcome: what becomes of the entry of *)
(* the link in `peers`, and the calls and messages it makes.  An arm of    *)
(* the code that logs a state mismatch is not expected.  A release build   *)
(* goes on after it, and so does this model.  The assertions about an      *)
(* Enabled or an Incoming entry are the invariant RequestUnderWay, those   *)
(* about single connections the field `asserted` of the outcome.           *)
(***************************************************************************)
EXTENDS PeersetContract, NotifsHandler, FiniteSets, FiniteSetsExt

CONSTANTS
  link,           \* the node and the set
  Conn,           \* identifiers of connections; two exist at once at most
  DelayId,        \* identifiers of delays: bounds the delays in flight
  MaxEvents       \* bound on the undelivered events of a handler, for the remote's moves

ASSUME LinkAssumption == Link = {link}
ASSUME IdAssumption == Conn \subseteq Nat \ {0} /\ DelayId \subseteq Nat \ {0} /\ Index \subseteq Nat

VARIABLES
  peer,             \* the entry of the link
  incoming_peers,   \* the questions to the manager that it has not answered: [id, alive]
  delays,           \* the delays that have not fired
  api,              \* the connection whose sink the users hold, or 0
  dialing,          \* libp2p is dialing the node
  handler,          \* [Conn -> the handler, or Gone]
  to_handler,       \* [Conn -> messages to the handler, oldest first]
  from_handler,     \* [Conn -> events of the handler, oldest first]
  expected          \* no handler has reported an unexpected state

networkVars == <<peer, incoming_peers, delays, api, dialing, expected>>
handlerVars == <<handler, to_handler, from_handler>>
vars == <<contractVars, networkVars, handlerVars>>

Gone == [NewHandler EXCEPT !.st = "Gone"]

-----------------------------------------------------------------------------
(* The entry of the link                                                    *)

\* st is None without an entry.  backoff: backoff_until is set.  The deadlines
\* are left to chance.
Entry(st, connections, timer, backoff) ==
  [st |-> st, connections |-> connections, timer |-> timer, backoff |-> backoff]

Absent   == Entry("None", <<>>, 0, FALSE)
Poisoned == Entry("Poisoned", <<>>, 0, FALSE)

\* The entry p with other connections.
WithConnections(p, connections) == [p EXCEPT !.connections = connections]

Positions(connections, S) == {k \in DOMAIN connections : connections[k].state \in S}
In(connections, S)        == {connections[k].id : k \in Positions(connections, S)}
Some(connections, S)      == Positions(connections, S) # {}
Ids(connections)          == {connections[k].id : k \in DOMAIN connections}
Position(connections, c)  == CHOOSE k \in DOMAIN connections : connections[k].id = c
StateOf(connections, c)   == connections[Position(connections, c)].state

\* The connections of C turned into the state s.
Turn(connections, C, s) ==
  [k \in DOMAIN connections |->
     IF connections[k].id \in C THEN [connections[k] EXCEPT !.state = s] ELSE connections[k]]

\* The first connection that is closed, or that is open.
First(connections, s) == connections[Min(Positions(connections, {s}))].id

Active == {"Opening", "Open"}

is_open(p)      == p.st = "Enabled" /\ Some(p.connections, {"Open"})
is_requested(p) == p.st \in {"PendingRequest", "Requested", "DisabledPendingEnable", "Enabled"}

-----------------------------------------------------------------------------
(* Outcomes                                                                 *)

\* Nothing changes.  opened, closed: the connections that are sent Open or
\* Close.  armed: the entry has a new delay.  drops, asks: the manager is told
\* of a drop, or asked about an incoming substream.  obsolete: the question to
\* the manager is not alive any more.  asserted: what the code asserts of the
\* connection is true.  unread, delays, incoming: the messages of the manager,
\* the delays and the questions that remain.
Keep ==
  [peer |-> peer, opened |-> {}, closed |-> {}, api |-> api, armed |-> FALSE, dials |-> FALSE,
   drops |-> FALSE, asks |-> FALSE, obsolete |-> FALSE, expected |-> TRUE, asserted |-> TRUE,
   unread |-> message_queue, delays |-> delays, incoming |-> incoming_peers]

To(p) == [Keep EXCEPT !.peer = p]

Mismatch == [Keep EXCEPT !.expected = FALSE]

\* The handler of the event returns without putting the entry back.
Poison == [Mismatch EXCEPT !.peer = Poisoned]

\* The connections C are sent Open, and the link is enabled.
Enable(C) ==
  [To(Entry("Enabled", Turn(peer.connections, C, "Opening"), 0, FALSE)) EXCEPT !.opened = C]

\* Mutant: the answer to the Open that is under way is not waited for.
Disable_at_once ==
  LET active == In(peer.connections, Active) IN
  [To(Entry("Disabled", Turn(peer.connections, active, "Closing"), 0, FALSE))
     EXCEPT !.closed = active, !.api = IF Some(peer.connections, {"Open"}) THEN 0 ELSE api]

\* Open and opening connections are sent Close, and the sink is taken back.
Disable ==
  LET conns == peer.connections IN
  [To(Entry("Disabled", Turn(Turn(conns, In(conns, {"Open"}), "Closing"),
                             In(conns, {"Opening"}), "OpeningThenClosing"), 0, FALSE))
     EXCEPT !.closed = In(conns, Active),
            !.api = IF Some(conns, {"Open"}) THEN 0 ELSE api]

\* The substreams that the remote asked for are refused.
Refuse ==
  LET desired == In(peer.connections, {"OpenDesiredByRemote"}) IN
  [To(Entry("Disabled", Turn(peer.connections, desired, "Closing"), 0, peer.backoff))
     EXCEPT !.closed = desired]

\* The substreams that the remote asked for are accepted.
AcceptDesired == Enable(In(peer.connections, {"OpenDesiredByRemote"}))

Alive == {e \in incoming_peers : e.alive}

-----------------------------------------------------------------------------
(* Messages of the peer set manager.  late: the deadline has passed.        *)

\* Mutant: an entry that was backed off is requested without a dial.
Request_no_dial == [To(Entry("Requested", <<>>, 0, FALSE)) EXCEPT !.dials = peer.st = "None"]

\* The node is dialed.
Request == [To(Entry("Requested", <<>>, 0, FALSE)) EXCEPT !.dials = TRUE]

\* The first closed connection is opened, or the link waits for one.
EnableOrWait ==
  IF Some(peer.connections, {"Closed"}) THEN Enable({First(peer.connections, "Closed")})
  ELSE [To(Entry("DisabledPendingEnable", peer.connections, 0, FALSE)) EXCEPT !.armed = TRUE]

peerset_report_connect(late) ==
  CASE peer.st = "None" -> Request
    [] peer.st = "Backoff" -> IF late THEN Request ELSE To([peer EXCEPT !.st = "PendingRequest"])
    [] peer.st = "Disabled" ->
         IF peer.backoff /\ ~late
         THEN [To(Entry("DisabledPendingEnable", peer.connections, 0, FALSE)) EXCEPT !.armed = TRUE]
         ELSE EnableOrWait
    [] peer.st = "Incoming" ->
         [AcceptDesired EXCEPT !.obsolete = TRUE, !.expected = Alive # {}]
    [] OTHER -> Mismatch

peerset_report_disconnect ==
  CASE peer.st \in {"None", "Disabled", "Backoff"} -> Keep
    [] peer.st = "DisabledPendingEnable" -> To(Entry("Disabled", peer.connections, 0, TRUE))
    [] peer.st = "Enabled" -> Disable
    [] peer.st = "Requested" -> To(Absent)
    [] peer.st = "PendingRequest" -> To([peer EXCEPT !.st = "Backoff"])
    [] OTHER -> Mismatch

peerset_report_accept(e) ==
  CASE ~e.alive ->
         [Keep EXCEPT !.drops = peer.st \notin {"DisabledPendingEnable", "Enabled"}]
    [] e.alive /\ peer.st = "Incoming" -> AcceptDesired
    [] e.alive /\ peer.st = "None" -> Mismatch
    [] OTHER -> Poison

peerset_report_reject(e) ==
  CASE ~e.alive -> Keep
    [] e.alive /\ peer.st = "Incoming" -> Refuse
    [] e.alive /\ peer.st = "None" -> Mismatch
    [] OTHER -> Poison

-----------------------------------------------------------------------------
(* Calls of the users                                                       *)

disconnect_peer_inner ==
  CASE peer.st = "DisabledPendingEnable" ->
         [To(Entry("Disabled", peer.connections, 0, TRUE)) EXCEPT !.drops = TRUE]
    [] peer.st = "Enabled" -> [Disable EXCEPT !.drops = TRUE]
    [] peer.st = "Incoming" -> IF Alive = {} THEN Poison ELSE [Refuse EXCEPT !.obsolete = TRUE]
    [] peer.st = "Poisoned" -> Mismatch
    [] OTHER -> Keep

-----------------------------------------------------------------------------
(* Events of libp2p                                                         *)

inject_connection_established(c) ==
  LET with(p, s) == WithConnections(p, Append(p.connections, [id |-> c, state |-> s])) IN
  CASE peer.st \in {"Requested", "PendingRequest"} ->
         [To(with(Entry("Enabled", <<>>, 0, FALSE), "Opening")) EXCEPT !.opened = {c}]
    [] peer.st \in {"None", "Poisoned", "Backoff"} ->
         To(with(Entry("Disabled", <<>>, 0, peer.st = "Backoff"), "Closed"))
    [] OTHER -> To(with(peer, "Closed"))

\* The last connection is lost: the link is backed off, or forgotten.
Forget(late) ==
  IF peer.backoff /\ ~late
  THEN [To(Entry("Backoff", <<>>, 0, FALSE)) EXCEPT !.armed = TRUE]
  ELSE To(Absent)

\* Mutant: the users are only told of another sink.
Replacement_only(rest, pos) ==
  IF Some(rest, {"Open"}) /\ pos <= Min(Positions(rest, {"Open"})) THEN First(rest, "Open") ELSE api

\* The sink that the users hold once the open connection at pos is gone and
\* those of rest are left.
Replacement(rest, pos) ==
  CASE ~Some(rest, {"Open"}) -> 0
    [] Some(rest, {"Open"}) /\ pos <= Min(Positions(rest, {"Open"})) -> First(rest, "Open")
    [] OTHER -> api

closed_disabled(rest, late) ==
  IF rest = <<>> THEN Forget(late) ELSE To(WithConnections(peer, rest))

closed_pending_enable(rest) ==
  IF rest = <<>> THEN [To(Entry("Backoff", <<>>, peer.timer, FALSE)) EXCEPT !.drops = TRUE]
  ELSE To(WithConnections(peer, rest))

closed_incoming(rest, late) ==
  LET none_desired == ~Some(rest, {"OpenDesiredByRemote"})
      outcome ==
        CASE rest = <<>> -> Forget(late)
          [] rest # <<>> /\ none_desired -> To(Entry("Disabled", rest, 0, peer.backoff))
          [] OTHER -> To(WithConnections(peer, rest))
  IN [outcome EXCEPT !.obsolete = none_desired, !.expected = none_desired => Alive # {}]

closed_enabled(rest, c) ==
  LET conns == peer.connections
      outcome ==
        CASE rest = <<>> ->
               [To(Entry("Backoff", <<>>, 0, FALSE)) EXCEPT !.armed = TRUE, !.drops = TRUE]
          [] rest # <<>> /\ ~Some(rest, Active) ->
               [To(Entry("Disabled", rest, 0, FALSE)) EXCEPT !.drops = TRUE]
          [] OTHER -> To(WithConnections(peer, rest))
  IN [outcome EXCEPT !.api = IF c \in In(conns, {"Open"}) THEN Replacement(rest, Position(conns, c)) ELSE api]

inject_connection_closed(c, late) ==
  LET conns == peer.connections
      rest  == IF c \in Ids(conns) THEN RemoveAt(conns, Position(conns, c)) ELSE conns
      outcome ==
        CASE peer.st = "Disabled" -> closed_disabled(rest, late)
          [] peer.st = "DisabledPendingEnable" -> closed_pending_enable(rest)
          [] peer.st = "Incoming" -> closed_incoming(rest, late)
          [] peer.st = "Enabled" -> closed_enabled(rest, c)
          [] peer.st = "None" -> Mismatch
          [] OTHER -> Poison
  IN [outcome EXCEPT !.expected = @ /\ c \in Ids(conns)]

inject_dial_failure ==
  CASE peer.st \in {"Requested", "PendingRequest"} ->
         [To(Entry("Backoff", <<>>, 0, FALSE)) EXCEPT !.armed = TRUE, !.drops = TRUE]
    [] peer.st = "Poisoned" -> Mismatch
    [] OTHER -> Keep

\* Mutant: a delay that finds no closed connection does not start again.
poll_delay_once(t) ==
  LET after(o) == [o EXCEPT !.delays = @ \ {t}] IN
  CASE peer.st = "Backoff" /\ peer.timer = t -> after(To(Absent))
    [] peer.st = "PendingRequest" /\ peer.timer = t -> after(Request)
    [] peer.st = "DisabledPendingEnable" /\ peer.timer = t /\ Some(peer.connections, {"Closed"}) ->
         after(Enable({First(peer.connections, "Closed")}))
    [] OTHER -> after(Keep)

\* A delay has fired.  One that the entry does not refer to is obsolete; one
\* that finds no closed connection starts again.
poll_delay(t) ==
  LET after(o) == [o EXCEPT !.delays = @ \ {t}] IN
  CASE peer.st = "Backoff" /\ peer.timer = t -> after(To(Absent))
    [] peer.st = "PendingRequest" /\ peer.timer = t -> after(Request)
    [] peer.st = "DisabledPendingEnable" /\ peer.timer = t ->
         IF Some(peer.connections, {"Closed"}) THEN after(Enable({First(peer.connections, "Closed")}))
         ELSE Keep
    [] OTHER -> after(Keep)

-----------------------------------------------------------------------------
(* Events of the handlers                                                   *)

\* The connection c, when it is in one of the states From, turned into s.
Move(c, From, s) ==
  IF c \in In(peer.connections, From)
  THEN To(WithConnections(peer, Turn(peer.connections, {c}, s))) ELSE Mismatch

\* Mutant: an enabled link needs no other connection.
event_open_desired_enough(c) ==
  LET conns == peer.connections IN
  CASE peer.st = "Enabled" \/ c \notin In(conns, {"Closed"}) -> Keep
    [] peer.st = "Disabled" /\ c \in In(conns, {"Closed"}) ->
         [To(Entry("Incoming", Turn(conns, {c}, "OpenDesiredByRemote"), 0, peer.backoff))
            EXCEPT !.asks = TRUE]
    [] peer.st = "Incoming" /\ c \in In(conns, {"Closed"}) ->
         To(WithConnections(peer, Turn(conns, {c}, "OpenDesiredByRemote")))
    [] OTHER -> Enable({c})

event_open_desired(c) ==
  LET conns  == peer.connections
      known  == c \in Ids(conns)
      closed == known /\ StateOf(conns, c) = "Closed" IN
  CASE closed /\ peer.st = "Disabled" ->
         [To(Entry("Incoming", Turn(conns, {c}, "OpenDesiredByRemote"), 0, peer.backoff))
            EXCEPT !.asks = TRUE]
    [] closed /\ peer.st = "Incoming" ->
         To(WithConnections(peer, Turn(conns, {c}, "OpenDesiredByRemote")))
    [] closed /\ peer.st \in {"Enabled", "DisabledPendingEnable"} -> Enable({c})
    [] known /\ ~closed ->
         [Keep EXCEPT !.asserted =
            StateOf(conns, c) \in (IF peer.st = "Enabled" THEN {"OpenDesiredByRemote", "Opening"}
                                  ELSE {"OpeningThenClosing"})]
    [] ~known -> IF peer.st \in {"None", "Incoming", "Enabled"} THEN Mismatch ELSE Poison

event_close_desired(c) ==
  LET conns == peer.connections IN
  CASE peer.st \in {"Disabled", "DisabledPendingEnable"} -> Keep
    [] peer.st = "Enabled" /\ c \in Ids(conns) ->
         IF StateOf(conns, c) = "Closing" THEN Keep
         ELSE LET rest    == Turn(conns, {c}, "Closing")
                  serving == Some(rest, Active)
                  left    == IF serving THEN WithConnections(peer, rest) ELSE Entry("Disabled", rest, 0, FALSE)
              IN [To(left) EXCEPT !.closed = {c}, !.drops = ~serving,
                                  !.api = Replacement(rest, Position(conns, c)),
                                  !.expected = StateOf(conns, c) = "Open"]
    [] peer.st = "None" -> Mismatch
    [] OTHER -> Poison

event_close_result(c) ==
  IF peer.st \in {"DisabledPendingEnable", "Disabled", "Enabled"}
  THEN Move(c, {"Closing"}, "Closed") ELSE Mismatch

event_open_result_ok(c) ==
  LET opening == peer.st = "Enabled" /\ c \in In(peer.connections, {"Opening"}) IN
  CASE opening -> [Move(c, {"Opening"}, "Open") EXCEPT !.api = IF is_open(peer) THEN api ELSE c]
    [] ~opening /\ peer.st \in {"Enabled", "DisabledPendingEnable", "Disabled"} ->
         Move(c, {"OpeningThenClosing"}, "Closing")
    [] OTHER -> Mismatch

\* Mutant: the manager is not told that the node refused.
event_open_result_err_silent(c) ==
  LET o == IF peer.st = "Enabled" /\ c \in In(peer.connections, {"Opening"})
           THEN Move(c, {"Opening"}, "Closed") ELSE Move(c, {"OpeningThenClosing"}, "Closing")
      conns == o.peer.connections
  IN IF peer.st # "Enabled" \/ Some(conns, Active) THEN o
     ELSE [o EXCEPT !.peer = Entry("Disabled", conns, 0, FALSE)]

event_open_result_err(c) ==
  CASE peer.st = "Enabled" ->
         LET o == IF c \in In(peer.connections, {"Opening"}) THEN Move(c, {"Opening"}, "Closed")
                  ELSE Move(c, {"OpeningThenClosing"}, "Closing")
             conns == o.peer.connections
         IN IF Some(conns, Active) THEN o
            ELSE [o EXCEPT !.peer = Entry("Disabled", conns, 0, FALSE), !.drops = TRUE]
    [] peer.st \in {"Disabled", "DisabledPendingEnable"} -> Move(c, {"OpeningThenClosing"}, "Closing")
    [] peer.st = "None" -> Mismatch
    [] OTHER -> Poison

inject_event(c, event, late) ==
  CASE event = "OpenDesiredByRemote" -> event_open_desired(c)
    [] event = "CloseDesired"        -> event_close_desired(c)
    [] event = "CloseResult"         -> event_close_result(c)
    [] event = "OpenResultOk"        -> event_open_result_ok(c)
    [] event = "OpenResultErr"       -> event_open_result_err(c)
    [] event = "ConnectionClosed"    -> inject_connection_closed(c, late)

-----------------------------------------------------------------------------
(* The network task                                                         *)

next_incoming_index == Min(Index \ {e.id : e \in incoming_peers})

\* The questions of S, but for those that are not alive and that the manager
\* will not answer: nothing reads them again.
Awaited(S) ==
  {e \in S : e.alive \/ \E k \in DOMAIN message_queue' :
                            message_queue'[k] \in {Accept(e.id), Reject(e.id)}}

\* The outcome o takes effect.
React(o) ==
  /\ IF o.armed
     THEN /\ DelayId # o.delays
          /\ LET t == Min(DelayId \ o.delays) IN
             peer' = [o.peer EXCEPT !.timer = t] /\ delays' = o.delays \cup {t}
     ELSE peer' = o.peer /\ delays' = o.delays
  /\ CASE o.drops -> dropped(link, o.unread)
       [] o.asks  -> incoming(link, next_incoming_index)
       [] OTHER   -> message_queue' = o.unread /\ UNCHANGED connected
  /\ incoming_peers' = Awaited(
       {[e EXCEPT !.alive = @ /\ ~o.obsolete] : e \in o.incoming}
       \cup (IF o.asks THEN {[id |-> next_incoming_index, alive |-> TRUE]} ELSE {}))
  /\ api' = o.api
  /\ expected' = (expected /\ o.expected /\ (o.drops => link \in connected))

\* The messages of the outcome o to the handlers.
Notify(o) ==
  to_handler' = [c \in Conn |->
    IF handler[c] = Gone THEN <<>>
    ELSE to_handler[c] \o (CASE c \in o.opened -> <<"Open">>
                             [] c \in o.closed -> <<"Close">>
                             [] OTHER -> <<>>)]

\* The network task does what the outcome o says.
Network(o) ==
  /\ React(o) /\ Notify(o)
  /\ dialing' = (dialing \/ o.dials)
  /\ UNCHANGED <<handler, from_handler>>

\* The entry that an answer of the manager is about.
Answered(m) == {e \in incoming_peers : e.id = m.index}

peerset_message(m, late) ==
  CASE m.type = "Connect" -> peerset_report_connect(late)
    [] m.type = "Drop"    -> peerset_report_disconnect
    [] m.type \in {"Accept", "Reject"} ->
         IF Answered(m) = {} THEN Mismatch
         ELSE LET e == CHOOSE e \in Answered(m) : TRUE IN
              [(IF m.type = "Accept" THEN peerset_report_accept(e) ELSE peerset_report_reject(e))
                 EXCEPT !.incoming = @ \ {e}]

\* The network reads a message of the manager.
poll_message ==
  /\ message_queue # <<>>
  /\ \E late \in BOOLEAN :
       Network([peerset_message(Head(message_queue), late) EXCEPT !.unread = Tail(message_queue)])

\* The manager gives up the link.  It does so while it is polled, with an empty
\* queue, and the message is read in the same poll.
poll_drop ==
  /\ message_queue = <<>> /\ link \in connected
  /\ LET o == peerset_message(Drop(link), FALSE) IN
     /\ peer' = o.peer /\ api' = o.api /\ expected' = (expected /\ o.expected)
     /\ Notify(o)
  /\ connected' = connected \ {link}
  /\ UNCHANGED <<message_queue, incoming_peers, delays, dialing, handler, from_handler>>

\* The manager asks for the link, when it is polled or when another link is
\* dropped.
ManagerConnects ==
  /\ link \notin connected
  /\ connected' = connected \cup {link}
  /\ message_queue' = Append(message_queue, Connect(link))
  /\ UNCHANGED <<networkVars, handlerVars>>

poll_timer(t) == t \in delays /\ Network(poll_delay(t))

disconnect_peer ==
  /\ peer.st \in {"DisabledPendingEnable", "Enabled", "Incoming"}
  /\ Network(disconnect_peer_inner)

\* A question to the manager needs an identifier: Index bounds those that are
\* not answered.
Deliverable(c, event) ==
  event = "OpenDesiredByRemote" /\ event_open_desired(c).asks =>
    {e.id : e \in incoming_peers} # Index

\* The oldest event of a connection reaches the behaviour.
deliver(c) ==
  /\ from_handler[c] # <<>> /\ Deliverable(c, Head(from_handler[c]))
  /\ \E late \in BOOLEAN :
       LET o == inject_event(c, Head(from_handler[c]), late) IN React(o) /\ Notify(o)
  /\ from_handler' = [from_handler EXCEPT ![c] = Tail(@)]
  /\ UNCHANGED <<handler, dialing>>

-----------------------------------------------------------------------------
(* The connections and their handlers                                       *)

\* Another part of the network dials the node.
dial_elsewhere ==
  /\ ~dialing /\ peer.connections = <<>>
  /\ dialing' = TRUE
  /\ UNCHANGED <<contractVars, peer, incoming_peers, delays, api, expected, handlerVars>>

dial_fails == dialing /\ dialing' = FALSE /\ React(inject_dial_failure) /\ UNCHANGED handlerVars

\* A connection is established, by the node or by the dial.
connection_established(dialed) ==
  LET Free == {c \in Conn : handler[c] = Gone /\ from_handler[c] = <<>>} IN
  /\ Free # {} /\ (dialed => dialing)
  /\ LET c == Min(Free)
         o == inject_connection_established(c) IN
     /\ React(o)
     /\ handler' = [handler EXCEPT ![c] = NewHandler]
     /\ to_handler' = [to_handler EXCEPT ![c] = IF c \in o.opened THEN <<"Open">> ELSE <<>>]
  /\ dialing' = (dialing /\ ~dialed)
  /\ UNCHANGED from_handler

\* A connection is lost, with the events that its task has not sent.
connection_lost(c) ==
  /\ handler[c] # Gone
  /\ handler' = [handler EXCEPT ![c] = Gone]
  /\ to_handler' = [to_handler EXCEPT ![c] = <<>>]
  /\ \E sent \in 0..Len(from_handler[c]) :
       from_handler' = [from_handler EXCEPT ![c] = Append(SubSeq(@, 1, sent), "ConnectionClosed")]
  /\ UNCHANGED <<contractVars, networkVars>>

\* The handler of c does r, and has the messages queue left.
Handle(c, r, queue) ==
  /\ handler' = [handler EXCEPT ![c] = r.handler]
  /\ from_handler' = [from_handler EXCEPT ![c] = @ \o r.events]
  /\ to_handler' = [to_handler EXCEPT ![c] = queue]
  /\ expected' = (expected /\ r.expected)
  /\ UNCHANGED <<contractVars, peer, incoming_peers, delays, api, dialing>>

handler_inject_event(c) ==
  /\ to_handler[c] # <<>>
  /\ Handle(c, IF Head(to_handler[c]) = "Open" THEN inject_open(handler[c]) ELSE inject_close(handler[c]),
            Tail(to_handler[c]))

\* An outbound request has an outcome, at the latest after OPEN_TIMEOUT.
outbound_ends(c) ==
  /\ handler[c].requests > 0
  /\ \E r \in {inject_fully_negotiated_outbound(handler[c]), inject_dial_upgrade_error(handler[c])} :
       Handle(c, r, to_handler[c])

\* What a handler makes of the remote opening or closing a substream.
RemoteMoves(h) ==
  CASE h.st = "Closed" -> {inject_fully_negotiated_inbound(h)}
    [] h.st = "OpenDesiredByRemote" -> {poll_inbound_aborted(h)}
    [] h.st = "Open" -> {IF h.out_substream THEN poll_outbound_closed(h) ELSE poll_legacy_closed(h)}
    [] OTHER -> {}

remote_moves(c) ==
  /\ Len(from_handler[c]) < MaxEvents
  /\ \E r \in RemoteMoves(handler[c]) : Handle(c, r, to_handler[c])

-----------------------------------------------------------------------------

Init ==
  /\ ContractInit
  /\ peer = Absent /\ incoming_peers = {} /\ delays = {} /\ api = 0
  /\ dialing = FALSE /\ expected = TRUE
  /\ handler = [c \in Conn |-> Gone]
  /\ to_handler = [c \in Conn |-> <<>>] /\ from_handler = [c \in Conn |-> <<>>]

Next ==
  \/ poll_message \/ poll_drop \/ ManagerConnects \/ disconnect_peer
  \/ \E t \in DelayId : poll_timer(t)
  \/ dial_elsewhere \/ dial_fails \/ \E dialed \in BOOLEAN : connection_established(dialed)
  \/ \E c \in Conn : \/ deliver(c) \/ connection_lost(c) \/ handler_inject_event(c)
                      \/ outbound_ends(c) \/ remote_moves(c)

\* The task of the network and that of each connection are polled again and
\* again; events are delivered, and dials end.
Fairness ==
  /\ WF_vars(poll_message \/ \E t \in DelayId : poll_timer(t))
  /\ WF_vars(dial_fails \/ connection_established(TRUE))
  /\ \A c \in Conn : WF_vars(deliver(c)) /\ WF_vars(handler_inject_event(c) \/ outbound_ends(c))

Spec == Init /\ [][Next]_vars /\ Fairness

-----------------------------------------------------------------------------
(* Properties                                                               *)
(*                                                                         *)
(* A state mismatch ends what the code was written for: it loses the entry *)
(* or stops a debug build.  The invariants are about all that happens      *)
(* before the first one.                                                   *)

\* No event finds an entry, a connection or a handler in a state that the code
\* does not expect, whatever is under way between the tasks: no arm that
\* reports a mismatch is taken, dropped() is only called for a connected link,
\* and what the code asserts of a connection is true of the event that is next.
NoMismatch ==
  /\ expected
  /\ \A c \in Conn : from_handler[c] # <<>> =>
       \A late \in BOOLEAN : inject_event(c, Head(from_handler[c]), late).asserted

\* The remote has given up, before it was answered, the substream whose
\* CloseDesired is the next event of c.
GivenUp(c) ==
  /\ Head(from_handler[c]) = "CloseDesired"
  /\ c \in In(peer.connections, {"OpenDesiredByRemote", "Opening", "OpeningThenClosing"})

\* The next event of c finds that the remote has asked for a substream on another
\* connection of the link while c was closing.
Overlaps(c) == peer.st = "Incoming" /\ c \in In(peer.connections, {"Closing", "OpeningThenClosing"})

\* There are two ways to a state mismatch: in every other schedule of the
\* manager, the users, the connections and the delays, the answers to Open and
\* Close find the connection in a state that is waiting for them, and dropped()
\* is only called for a connected link.  (An OpenDesiredByRemote that fails an
\* assertion changes nothing in a release build; only NoMismatch counts it.)
MismatchesKnown ==
  [][expected /\ ~expected' =>
       \E c \in Conn : /\ from_handler[c] # <<>> /\ from_handler'[c] = Tail(from_handler[c])
                       /\ GivenUp(c) \/ Overlaps(c)]_vars

\* Once the network has read the messages of the manager, the two agree on
\* whether the link is wanted.
Agreement ==
  expected /\ message_queue = <<>> => (link \in connected <=> is_requested(peer))

\* The users hold a sink, of this connection or of another, exactly as long as
\* some connection of an enabled link is open.
ApiFollows == expected => (api # 0 <=> is_open(peer))

\* What an entry waits for is under way: its delay, the dial, an open or
\* opening substream, the question to the manager.
RequestUnderWay ==
  expected =>
    /\ peer.st \in {"Backoff", "PendingRequest", "DisabledPendingEnable"} => peer.timer \in delays
    /\ peer.st = "Requested" => dialing
    /\ peer.st = "Enabled" => Some(peer.connections, Active)
    /\ peer.st = "Incoming" => Some(peer.connections, {"OpenDesiredByRemote"}) /\ Cardinality(Alive) = 1

\* A handler and the behaviour's view of it agree once no message between them
\* is under way: no substream is left pending, or open without a user.
HandlersAgree ==
  expected => \A k \in DOMAIN peer.connections :
    LET c == peer.connections[k].id IN
    to_handler[c] = <<>> /\ from_handler[c] = <<>> => peer.connections[k].state = handler[c].st

\* What waits for a dial, a delay or a closing connection does not wait for
\* ever, not even after a mismatch: a dial ends, a delay that the link is backed
\* off by fires, and a link that waits for a closed connection gets one or loses
\* its last.  (An Incoming entry may wait for ever for the manager: README.)
WaitsEnd ==
  \A st \in {"Requested", "PendingRequest", "Backoff", "DisabledPendingEnable"} :
    peer.st = st ~> peer.st # st
=============================================================================
