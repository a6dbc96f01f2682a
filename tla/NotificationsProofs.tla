------------------------ MODULE NotificationsProofs -------------------------
(***************************************************************************)
(* For every set of connections, of delays and of questions, and whatever  *)
(* the bound on undelivered events: the safety properties of               *)
(* Notifications, and that a state mismatch comes about in one of the two  *)
(* ways that MismatchesKnown names.                                        *)
(*                                                                         *)
(* The inductive invariant is about all that happens before the first      *)
(* mismatch, and has three parts.  WireInv says of each connection which   *)
(* sequences of events can be under way: read one after the other they     *)
(* lead the behaviour's view of the connection to one that the handler     *)
(* agrees with, once the handler has read its messages.  EntryInv says     *)
(* which connections an entry may have, and what it waits for.  ManagerInv *)
(* relates the entry to the messages of the manager that are still to be   *)
(* read.                                                                   *)
(***************************************************************************)
EXTENDS Notifications, FiniteSetTheorems, SequenceTheorems, TLAPS

-----------------------------------------------------------------------------
(* What the events of a handler do to a view of its connection *)

View == {"Closed", "OpenDesiredByRemote", "Opening", "Open", "Closing", "OpeningThenClosing"}
Views == View \cup {"Lost"}

\* The event e turns the view q into q2.
Step(q, e, q2) ==
  \/ e = "ConnectionClosed" /\ q # "Lost" /\ q2 = "Lost"
  \/ e = "OpenDesiredByRemote" /\ q = "Closed" /\ q2 = "OpenDesiredByRemote"
  \/ e = "OpenDesiredByRemote" /\ q \in {"Opening", "Closing", "OpeningThenClosing"} /\ q2 = q
  \/ e = "CloseDesired" /\ q \in {"Open", "Closing", "Opening", "OpeningThenClosing"} /\ q2 = q
  \/ e = "CloseDesired" /\ q = "OpenDesiredByRemote" /\ q2 = "Closed"
  \/ e = "CloseResult" /\ q = "Closing" /\ q2 = "Closed"
  \/ e = "OpenResultOk" /\ q = "Opening" /\ q2 = "Open"
  \/ e = "OpenResultErr" /\ q = "Opening" /\ q2 = "Closed"
  \/ e \in {"OpenResultOk", "OpenResultErr"} /\ q = "OpeningThenClosing" /\ q2 = "Closing"

\* The views that events can turn q into.
Reaches(q, q2) ==
  \/ q2 \in {q, "Lost"}
  \/ q \in {"Closed", "OpenDesiredByRemote"} /\ q2 \in {"Closed", "OpenDesiredByRemote"}
  \/ q = "Opening" /\ q2 \in {"Open", "Closed", "OpenDesiredByRemote"}
  \/ q = "Closing" /\ q2 \in {"Closed", "OpenDesiredByRemote"}
  \/ q = "OpeningThenClosing" /\ q2 \in {"Closing", "Closed", "OpenDesiredByRemote"}

\* r gives the views, from s to q, as the events of fr are read.
Run(r, s, fr, q) ==
  /\ r \in [0 .. Len(fr) -> Views]
  /\ r[0] = s /\ r[Len(fr)] = q
  /\ \A i \in 1 .. Len(fr) : Step(r[i - 1], fr[i], r[i])
  /\ \A i, j \in 0 .. Len(fr) : i <= j => Reaches(r[i], r[j])

\* The events of fr lead from s to q.
Leads(s, fr, q) == \E r : Run(r, s, fr, q)

\* The view q of a connection whose handler is in the state st, with the messages
\* of to still to be read.
Settled(q, to, st) ==
  \/ to = <<>> /\ q = st /\ q \in {"Closed", "OpenDesiredByRemote", "Opening", "Open"}
  \/ to = <<>> /\ q = "Lost" /\ st = "Gone"
  \/ to = <<"Open">> /\ q = "Opening" /\ st \in {"Closed", "OpenDesiredByRemote"}
  \/ to = <<"Close">> /\ q = "Closing" /\ st \in {"Open", "Closed", "OpenDesiredByRemote"}
  \/ to = <<"Close">> /\ q = "OpeningThenClosing" /\ st = "Opening"
  \/ to = <<"Open", "Close">> /\ q = "OpeningThenClosing" /\ st \in {"Closed", "OpenDesiredByRemote"}

\* A connection that the behaviour knows in the state s.
Wired(s, st, to, fr) == \E q \in Views : Leads(s, fr, q) /\ Settled(q, to, st)

-----------------------------------------------------------------------------
(* The inductive invariant *)

Event == {"OpenDesiredByRemote", "CloseDesired", "CloseResult", "OpenResultOk", "OpenResultErr",
          "ConnectionClosed"}

Unique(conns) == \A k, l \in DOMAIN conns : conns[k].id = conns[l].id => k = l

WireOk(conns, h, to, fr) ==
  /\ \A k \in DOMAIN conns :
       Wired(conns[k].state, h[conns[k].id].st, to[conns[k].id], fr[conns[k].id])
  /\ \A c \in Conn \ Ids(conns) : h[c] = Gone /\ to[c] = <<>> /\ fr[c] = <<>>

\* A handler has a request under way exactly when it waits for one, or when it
\* remembers one that it has no use for.
HandlerOk(h) ==
  /\ h.pending_opening \in BOOLEAN /\ h.out_substream \in BOOLEAN
  /\ \/ h.st \in {"Closed", "OpenDesiredByRemote"} /\ h.requests = IF h.pending_opening THEN 1 ELSE 0
     \/ h.st = "Opening" /\ h.requests = 1 /\ ~h.pending_opening
     \/ h.st = "Open" /\ h.requests = 0 /\ ~h.pending_opening
     \/ h = Gone

Handlers == [st : {"Closed", "OpenDesiredByRemote", "Opening", "Open", "Gone"},
             pending_opening : BOOLEAN, out_substream : BOOLEAN, requests : Nat]

WireInv ==
  /\ handler \in [Conn -> Handlers]
  /\ to_handler \in [Conn -> Seq({"Open", "Close"})]
  /\ from_handler \in [Conn -> Seq(Event)]
  /\ \A c \in Conn : HandlerOk(handler[c])
  /\ WireOk(peer.connections, handler, to_handler, from_handler)

Waiting == {"Backoff", "PendingRequest", "DisabledPendingEnable"}

States(conns) == {conns[k].state : k \in DOMAIN conns}

Connections == {conns \in Seq([id : Conn, state : View]) : Unique(conns)}

\* The states that the connections of an entry may be in.
ConnectionsOk(st, conns) ==
  \/ st \in {"None", "Backoff", "PendingRequest", "Requested"} /\ conns = <<>>
  \/ /\ st \in {"Disabled", "DisabledPendingEnable"} /\ conns # <<>>
     /\ States(conns) \subseteq {"Closed", "Closing", "OpeningThenClosing"}
  \/ /\ st = "Incoming" /\ Some(conns, {"OpenDesiredByRemote"})
     /\ States(conns) \subseteq {"Closed", "OpenDesiredByRemote", "Closing", "OpeningThenClosing"}
  \/ /\ st = "Enabled" /\ Some(conns, Active)
     /\ "OpenDesiredByRemote" \notin States(conns)

EntryOk(p, waiting, dials, sink) ==
  /\ ConnectionsOk(p.st, p.connections)
  /\ p.st \in Waiting => p.timer \in waiting
  /\ p.st = "Requested" => dials
  /\ sink # 0 <=> is_open(p)

Entries == [st : Waiting \cup {"None", "Requested", "Disabled", "Incoming", "Enabled"},
            connections : Connections, timer : DelayId \cup {0}, backoff : BOOLEAN]

EntryInv ==
  /\ peer \in Entries /\ delays \subseteq DelayId /\ dialing \in BOOLEAN
  /\ EntryOk(peer, delays, dialing, api)

\* The messages of the manager; those that make the network want the link; answers.
Messages   == {Connect(link)} \cup {Accept(i) : i \in Index} \cup {Reject(i) : i \in Index}
Wanting(q) == {k \in DOMAIN q : q[k].type \in {"Connect", "Accept"}}
Answers(q) == {k \in DOMAIN q : q[k].type \in {"Accept", "Reject"}}

Requesting == {"PendingRequest", "Requested", "DisabledPendingEnable", "Enabled"}

\* The manager thinks of the link what the network, whose entry is in the state
\* st, thinks of it or is about to read.
WantOk(st, con, q) ==
  /\ \A k, l \in Wanting(q) : k = l
  /\ link \in con <=> st \in Requesting \/ Wanting(q) # {}
  /\ ~(st \in Requesting /\ Wanting(q) # {})

\* Every answer is to a question that is remembered.
AnswerOk(q, questions) ==
  /\ \A k \in Answers(q) : \E e \in questions : e.id = q[k].index
  /\ \A k, l \in Answers(q) : q[k].index = q[l].index => k = l

\* The question that an Incoming entry waits for is the only one that is alive.
QuestionOk(st, questions) ==
  /\ \A e, f \in questions : e.id = f.id => e = f
  /\ \A e, f \in questions : e.alive /\ f.alive => e = f
  /\ st = "Incoming" <=> \E e \in questions : e.alive

ManagerInv ==
  /\ connected \subseteq {link} /\ message_queue \in Seq(Messages)
  /\ incoming_peers \subseteq [id : Index, alive : BOOLEAN]
  /\ WantOk(peer.st, connected, message_queue)
  /\ AnswerOk(message_queue, incoming_peers)
  /\ QuestionOk(peer.st, incoming_peers)

IInv == expected = TRUE /\ WireInv /\ EntryInv /\ ManagerInv

-----------------------------------------------------------------------------
(* Sequences and numbers *)

\* Two messages after those of s.
LEMMA AppendTwo ==
  ASSUME NEW S, NEW s \in Seq(S), NEW a \in S, NEW b \in S
  PROVE  s \o <<a, b>> = Append(Append(s, a), b)
<1> DEFINE t == s \o <<a, b>>
           u == Append(Append(s, a), b)
           n == Len(s)
<1>1. <<a, b>> \in Seq(S) /\ Len(<<a, b>>) = 2 /\ <<a, b>>[1] = a /\ <<a, b>>[2] = b /\ n \in Nat
  OBVIOUS
<1>2. t \in Seq(S) /\ Len(t) = n + 2
  BY <1>1
<1>3. (\A i \in 1 .. n : t[i] = s[i]) /\ t[n + 1] = a /\ t[n + 2] = b
  BY <1>1
<1>4. Append(s, a) \in Seq(S) /\ Len(Append(s, a)) = n + 1 /\ Append(s, a)[n + 1] = a
  OBVIOUS
<1>5. u \in Seq(S) /\ Len(u) = n + 2 /\ u[n + 2] = b
  BY <1>4
<1>6. (\A i \in 1 .. n + 1 : u[i] = Append(s, a)[i]) /\ \A i \in 1 .. n : Append(s, a)[i] = s[i]
  BY <1>4
<1> HIDE DEF t, u
<1>7. ASSUME NEW i \in 1 .. n + 2 PROVE t[i] = u[i]
  <2>1. i \in 1 .. n \/ i = n + 1 \/ i = n + 2
    BY <1>1
  <2>2. 1 .. n \subseteq 1 .. n + 1 /\ n + 1 \in 1 .. n + 1
    BY <1>1
  <2> QED BY <2>1, <2>2, <1>3, <1>4, <1>5, <1>6
<1>8. t = u
  BY <1>2, <1>5, <1>7, SeqEqual
<1> QED BY <1>8 DEF t, u

\* The two messages that a handler may have to read.
LEMMA OpenThenClose == <<"Open">> \o <<"Close">> = <<"Open", "Close">>
<1> DEFINE t == <<"Open">> \o <<"Close">>
           u == <<"Open", "Close">>
           S == {"Open", "Close"}
<1>1. <<"Open">> \in Seq(S) /\ <<"Close">> \in Seq(S) /\ u \in Seq(S) /\ Len(u) = 2 /\ u[1] = "Open" /\ u[2] = "Close"
  OBVIOUS
<1>2. t \in Seq(S) /\ Len(t) = 2 /\ t[1] = "Open" /\ t[2] = "Close"
  BY <1>1
<1> HIDE DEF t, u
<1>3. ASSUME NEW i \in 1 .. 2 PROVE t[i] = u[i]
  <2>1. i = 1 \/ i = 2
    OBVIOUS
  <2> QED BY <2>1, <1>1, <1>2
<1>4. t = u
  BY <1>1, <1>2, <1>3, SeqEqual
<1> QED BY <1>4 DEF t, u

\* A nonempty set of natural numbers has a least element.
LEMMA LeastNumber ==
  ASSUME NEW T \in SUBSET Nat, T # {}
  PROVE  \E x \in T : \A y \in T : x <= y
<1> DEFINE upto(n) == {i \in Nat : i <= n}
           U == {upto(n) : n \in T}
           R == StrictSubsetOrdering(Nat)
<1>1. U \subseteq FiniteSubsetsOf(Nat)
  <2> SUFFICES ASSUME NEW n \in T PROVE upto(n) \in FiniteSubsetsOf(Nat)
    OBVIOUS
  <2>1. IsFiniteSet(upto(n))
    BY FS_BoundedSetOfNaturals
  <2> QED BY <2>1 DEF FiniteSubsetsOf
<1>2. U # {}
  OBVIOUS
<1>3. PICK u \in U : \A w \in U : ~(<<w, u>> \in R)
  <2> HIDE DEF U
  <2> QED BY <1>1, <1>2, WFMin, FS_StrictSubsetOrderingWellFounded
<1>4. PICK x \in T : u = upto(x)
  OBVIOUS
<1>5. ASSUME NEW y \in T, y < x PROVE FALSE
  <2>1. upto(y) \in U
    OBVIOUS
  <2>2. upto(y) \subseteq upto(x) /\ upto(y) # upto(x)
    <3>1. x \in upto(x) /\ x \notin upto(y)
      BY <1>5
    <3> QED BY <3>1, <1>5
  <2>3. <<upto(y), upto(x)>> \in R
    BY <2>2 DEF StrictSubsetOrdering
  <2> QED BY <2>1, <2>3, <1>3, <1>4
<1> QED BY <1>5

\* Min gives the least element.
LEMMA MinIsLeast ==
  ASSUME NEW T \in SUBSET Nat, T # {}
  PROVE  Min(T) \in T /\ \A y \in T : Min(T) <= y
BY LeastNumber DEF Min

-----------------------------------------------------------------------------
(* Runs of events *)

\* Without events the view stays.
LEMMA LeadsNowhere ==
  ASSUME NEW s \in Views, NEW q
  PROVE  Leads(s, <<>>, q) <=> q = s
<1>1. Len(<<>>) = 0 /\ 0 .. 0 = {0} /\ 1 .. 0 = {}
  OBVIOUS
<1>2. ASSUME Leads(s, <<>>, q) PROVE q = s
  <2>1. PICK r : Run(r, s, <<>>, q)
    BY <1>2 DEF Leads
  <2> QED BY <2>1, <1>1 DEF Run
<1>3. Leads(s, <<>>, s)
  <2> DEFINE r == [i \in {0} |-> s]
  <2>1. r \in [0 .. Len(<<>>) -> Views] /\ r[0] = s
    BY <1>1
  <2>2. Run(r, s, <<>>, s)
    BY <2>1, <1>1 DEF Run, Reaches
  <2> QED BY <2>2 DEF Leads
<1> QED BY <1>2, <1>3

\* What can be reached is reached in several steps, too.
LEMMA ReachesOn ==
  ASSUME NEW x \in Views, NEW q \in Views, NEW e, NEW q2, Reaches(x, q), Step(q, e, q2)
  PROVE  Reaches(x, q2) /\ q2 \in Views
BY DEF Views, View, Reaches, Step

\* One more event.
LEMMA LeadsAppend ==
  ASSUME NEW s, NEW fr \in Seq(Event), NEW q, NEW e \in Event, NEW q2, Leads(s, fr, q), Step(q, e, q2)
  PROVE  Leads(s, Append(fr, e), q2)
<1>1. PICK r : Run(r, s, fr, q)
  BY DEF Leads
<1> DEFINE n == Len(fr)
           r2 == [i \in 0 .. n + 1 |-> IF i = n + 1 THEN q2 ELSE r[i]]
<1>2. n \in Nat /\ Len(Append(fr, e)) = n + 1
  OBVIOUS
<1>3. \A i \in 1 .. n : Append(fr, e)[i] = fr[i]
  OBVIOUS
<1>4. Append(fr, e)[n + 1] = e
  OBVIOUS
<1>5. /\ r \in [0 .. n -> Views] /\ r[0] = s /\ r[n] = q
      /\ \A i \in 1 .. n : Step(r[i - 1], fr[i], r[i])
      /\ \A i, j \in 0 .. n : i <= j => Reaches(r[i], r[j])
  BY <1>1 DEF Run
<1> HIDE DEF n
<1>6. \A i \in 0 .. n : Reaches(r[i], q2) /\ q2 \in Views
  <2> SUFFICES ASSUME NEW i \in 0 .. n PROVE Reaches(r[i], q2) /\ q2 \in Views
    OBVIOUS
  <2>1. n \in 0 .. n /\ i <= n
    BY <1>2
  <2>2. Reaches(r[i], r[n]) /\ r[i] \in Views /\ r[n] \in Views
    BY <2>1, <1>5
  <2> QED BY <2>2, <1>5, ReachesOn
<1>7. q2 \in Views
  <2>1. 0 \in 0 .. n
    BY <1>2
  <2> QED BY <2>1, <1>6
<1>8. r2 \in [0 .. n + 1 -> Views]
  BY <1>5, <1>7, <1>2
<1>9. r2[0] = s /\ r2[n + 1] = q2 /\ \A i \in 0 .. n : r2[i] = r[i]
  BY <1>5, <1>2
<1> HIDE DEF r2
<1>10. ASSUME NEW i \in 1 .. n + 1 PROVE Step(r2[i - 1], Append(fr, e)[i], r2[i])
  <2>1. CASE i = n + 1
    <3>1. i - 1 = n /\ n \in 0 .. n
      BY <2>1, <1>2
    <3>2. r2[i - 1] = q
      BY <3>1, <1>9, <1>5
    <3> QED BY <2>1, <3>2, <1>4, <1>9
  <2>2. CASE i # n + 1
    <3>1. i \in 1 .. n /\ i \in 0 .. n /\ i - 1 \in 0 .. n
      BY <2>2, <1>2
    <3> QED BY <3>1, <1>3, <1>5, <1>9
  <2> QED BY <2>1, <2>2
<1>11. ASSUME NEW i \in 0 .. n + 1, NEW j \in 0 .. n + 1, i <= j PROVE Reaches(r2[i], r2[j])
  <2>1. CASE i = n + 1
    <3>1. j = n + 1
      BY <2>1, <1>11, <1>2
    <3> QED BY <2>1, <3>1 DEF Reaches
  <2>2. CASE i # n + 1 /\ j = n + 1
    <3>1. i \in 0 .. n
      BY <2>2, <1>2
    <3> QED BY <2>2, <3>1, <1>6, <1>9
  <2>3. CASE j # n + 1
    <3>1. i \in 0 .. n /\ j \in 0 .. n
      BY <2>3, <1>11, <1>2
    <3> QED BY <3>1, <1>11, <1>5, <1>9
  <2> QED BY <2>1, <2>2, <2>3
<1>12. Run(r2, s, Append(fr, e), q2)
  BY <1>2, <1>8, <1>9, <1>10, <1>11 DEF Run
<1> QED BY <1>12 DEF Leads

\* The first event.
LEMMA LeadsTail ==
  ASSUME NEW s, NEW fr \in Seq(Event), NEW q, fr # <<>>, Leads(s, fr, q)
  PROVE  \E s2 \in Views : Step(s, Head(fr), s2) /\ Leads(s2, Tail(fr), q)
<1>1. PICK r : Run(r, s, fr, q)
  BY DEF Leads
<1> DEFINE n == Len(fr)
           r2 == [i \in 0 .. n - 1 |-> r[i + 1]]
<1>2. n \in Nat /\ n >= 1 /\ Len(Tail(fr)) = n - 1 /\ Head(fr) = fr[1]
  OBVIOUS
<1>3. \A i \in 1 .. n - 1 : Tail(fr)[i] = fr[i + 1]
  OBVIOUS
<1>5. /\ r \in [0 .. n -> Views] /\ r[0] = s /\ r[n] = q
      /\ \A i \in 1 .. n : Step(r[i - 1], fr[i], r[i])
      /\ \A i, j \in 0 .. n : i <= j => Reaches(r[i], r[j])
  BY <1>1 DEF Run
<1> HIDE DEF n
<1>6. r2 \in [0 .. n - 1 -> Views] /\ r2[0] = r[1] /\ r2[n - 1] = q
  <2>1. \A i \in 0 .. n - 1 : i + 1 \in 0 .. n
    BY <1>2
  <2>2. 0 \in 0 .. n - 1 /\ n - 1 \in 0 .. n - 1 /\ (n - 1) + 1 = n /\ 0 + 1 = 1
    BY <1>2
  <2> QED BY <2>1, <2>2, <1>5
<1>7. \A i \in 0 .. n - 1 : r2[i] = r[i + 1]
  OBVIOUS
<1> HIDE DEF r2
<1>8. ASSUME NEW i \in 1 .. n - 1 PROVE Step(r2[i - 1], Tail(fr)[i], r2[i])
  <2>1. i - 1 \in 0 .. n - 1 /\ i \in 0 .. n - 1 /\ i + 1 \in 1 .. n /\ (i - 1) + 1 = i /\ (i + 1) - 1 = i
    BY <1>2
  <2> QED BY <2>1, <1>3, <1>5, <1>7
<1>9. ASSUME NEW i \in 0 .. n - 1, NEW j \in 0 .. n - 1, i <= j PROVE Reaches(r2[i], r2[j])
  <2>1. i + 1 \in 0 .. n /\ j + 1 \in 0 .. n /\ i + 1 <= j + 1
    BY <1>2, <1>9
  <2> QED BY <2>1, <1>5, <1>7
<1>10. Run(r2, r[1], Tail(fr), q)
  BY <1>2, <1>6, <1>8, <1>9 DEF Run
<1>11. Step(s, Head(fr), r[1]) /\ r[1] \in Views
  <2>1. 1 \in 1 .. n /\ 1 - 1 = 0 /\ 1 \in 0 .. n
    BY <1>2
  <2> QED BY <2>1, <1>2, <1>5
<1> QED BY <1>10, <1>11 DEF Leads

\* The events that a lost connection has sent.
LEMMA LeadsPrefix ==
  ASSUME NEW s, NEW fr \in Seq(Event), NEW q, q # "Lost", Leads(s, fr, q), NEW n \in 0 .. Len(fr)
  PROVE  \E q2 \in View : Leads(s, SubSeq(fr, 1, n), q2)
<1>1. PICK r : Run(r, s, fr, q)
  BY DEF Leads
<1> DEFINE r2 == [i \in 0 .. n |-> r[i]]
           l == Len(fr)
<1>2. l \in Nat /\ n \in Nat /\ n <= l /\ Len(SubSeq(fr, 1, n)) = n
  OBVIOUS
<1>3. \A i \in 1 .. n : SubSeq(fr, 1, n)[i] = fr[i]
  OBVIOUS
<1>5. /\ r \in [0 .. l -> Views] /\ r[0] = s /\ r[l] = q
      /\ \A i \in 1 .. l : Step(r[i - 1], fr[i], r[i])
      /\ \A i, j \in 0 .. l : i <= j => Reaches(r[i], r[j])
  BY <1>1 DEF Run
<1> HIDE DEF l
<1>6. 0 .. n \subseteq 0 .. l /\ 1 .. n \subseteq 1 .. l /\ 0 \in 0 .. n /\ n \in 0 .. n /\ l \in 0 .. l
  BY <1>2
<1>7. r2 \in [0 .. n -> Views] /\ r2[0] = s /\ r2[n] = r[n]
  BY <1>5, <1>6
<1>8. \A i \in 1 .. n : i - 1 \in 0 .. n /\ i \in 0 .. n
  BY <1>2
<1>9. Run(r2, s, SubSeq(fr, 1, n), r[n])
  BY <1>2, <1>3, <1>5, <1>6, <1>7, <1>8 DEF Run
<1>10. Reaches(r[n], q) /\ r[n] \in Views
  BY <1>5, <1>6, <1>2
<1>11. r[n] \in View
  BY <1>10 DEF Reaches, Views, View
<1> QED BY <1>9, <1>11 DEF Leads

\* What becomes of a view once the handler is sent Open, or Close.
Opened(q) == IF q \in {"Closed", "OpenDesiredByRemote"} THEN "Opening" ELSE q
Shut(q) == IF q = "Opening" THEN "OpeningThenClosing"
           ELSE IF q \in {"Open", "Closed", "OpenDesiredByRemote"} THEN "Closing" ELSE q

\* Events that were under way when a connection is sent Open: the behaviour, whose
\* view is Opening by then, reads them as well.
LEMMA LeadsOpened ==
  ASSUME NEW s \in {"Closed", "OpenDesiredByRemote"}, NEW fr \in Seq(Event), NEW q, Leads(s, fr, q)
  PROVE  Leads("Opening", fr, Opened(q)) /\ q \in {"Closed", "OpenDesiredByRemote", "Lost"}
<1>1. PICK r : Run(r, s, fr, q)
  BY DEF Leads
<1> DEFINE n == Len(fr)
           r2 == [i \in 0 .. n |-> Opened(r[i])]
<1>2. n \in Nat
  OBVIOUS
<1>3. /\ r \in [0 .. n -> Views] /\ r[0] = s /\ r[n] = q
      /\ \A i \in 1 .. n : Step(r[i - 1], fr[i], r[i])
      /\ \A i, j \in 0 .. n : i <= j => Reaches(r[i], r[j])
  BY <1>1 DEF Run
<1> HIDE DEF n
<1>4. 0 \in 0 .. n /\ n \in 0 .. n /\ \A i \in 0 .. n : 0 <= i
  BY <1>2
<1>5. \A i \in 1 .. n : i \in 0 .. n /\ i - 1 \in 0 .. n
  BY <1>2
<1>6. ASSUME NEW i \in 0 .. n PROVE r[i] \in {"Closed", "OpenDesiredByRemote", "Lost"}
  <2>1. Reaches(r[0], r[i])
    BY <1>3, <1>4
  <2> QED BY <2>1, <1>3 DEF Reaches
<1>7. \A i \in 0 .. n : r2[i] = Opened(r[i])
  OBVIOUS
<1>8. r2 \in [0 .. n -> Views]
  BY <1>6 DEF Opened, Views, View
<1>9. r2[0] = "Opening" /\ r2[n] = Opened(q)
  BY <1>3, <1>4, <1>7 DEF Opened
<1> HIDE DEF r2
<1>10. ASSUME NEW i \in 1 .. n PROVE Step(r2[i - 1], fr[i], r2[i])
  <2>1. Step(r[i - 1], fr[i], r[i]) /\ r2[i - 1] = Opened(r[i - 1]) /\ r2[i] = Opened(r[i])
    BY <1>3, <1>5, <1>7
  <2>2. r[i - 1] \in {"Closed", "OpenDesiredByRemote", "Lost"} /\ r[i] \in {"Closed", "OpenDesiredByRemote", "Lost"}
    BY <1>5, <1>6
  <2> QED BY <2>1, <2>2 DEF Step, Opened
<1>11. ASSUME NEW i \in 0 .. n, NEW j \in 0 .. n, i <= j PROVE Reaches(r2[i], r2[j])
  <2>1. Reaches(r[i], r[j])
    BY <1>3, <1>11
  <2>2. r2[i] = Opened(r[i]) /\ r2[j] = Opened(r[j])
    BY <1>7
  <2>3. r[i] \in {"Closed", "OpenDesiredByRemote", "Lost"} /\ r[j] \in {"Closed", "OpenDesiredByRemote", "Lost"}
    BY <1>6
  <2> QED BY <2>1, <2>2, <2>3 DEF Reaches, Opened
<1>12. Run(r2, "Opening", fr, Opened(q))
  BY <1>8, <1>9, <1>10, <1>11 DEF Run, n
<1> QED BY <1>12, <1>6, <1>4, <1>3 DEF Leads

\* Events that were under way when a connection is sent Close.
LEMMA LeadsShut ==
  ASSUME NEW s \in {"Opening", "Open", "Closed", "OpenDesiredByRemote"}, NEW fr \in Seq(Event), NEW q,
         Leads(s, fr, q)
  PROVE  /\ Leads(Shut(s), fr, Shut(q))
         /\ q \in {"Opening", "Open", "Closed", "OpenDesiredByRemote", "Lost"}
<1>1. PICK r : Run(r, s, fr, q)
  BY DEF Leads
<1> DEFINE n == Len(fr)
           r2 == [i \in 0 .. n |-> Shut(r[i])]
           Four == {"Opening", "Open", "Closed", "OpenDesiredByRemote", "Lost"}
<1>2. n \in Nat
  OBVIOUS
<1>3. /\ r \in [0 .. n -> Views] /\ r[0] = s /\ r[n] = q
      /\ \A i \in 1 .. n : Step(r[i - 1], fr[i], r[i])
      /\ \A i, j \in 0 .. n : i <= j => Reaches(r[i], r[j])
  BY <1>1 DEF Run
<1> HIDE DEF n
<1>4. 0 \in 0 .. n /\ n \in 0 .. n /\ \A i \in 0 .. n : 0 <= i
  BY <1>2
<1>5. \A i \in 1 .. n : i \in 0 .. n /\ i - 1 \in 0 .. n
  BY <1>2
<1>6. ASSUME NEW i \in 0 .. n PROVE r[i] \in Four
  <2>1. Reaches(r[0], r[i])
    BY <1>3, <1>4
  <2> QED BY <2>1, <1>3 DEF Reaches
<1>7. \A i \in 0 .. n : r2[i] = Shut(r[i])
  OBVIOUS
<1>8. r2 \in [0 .. n -> Views]
  BY <1>6 DEF Shut, Views, View
<1>9. r2[0] = Shut(s) /\ r2[n] = Shut(q)
  BY <1>3, <1>4, <1>7
<1> HIDE DEF r2
<1>10. ASSUME NEW i \in 1 .. n PROVE Step(r2[i - 1], fr[i], r2[i])
  <2>1. Step(r[i - 1], fr[i], r[i]) /\ r2[i - 1] = Shut(r[i - 1]) /\ r2[i] = Shut(r[i])
    BY <1>3, <1>5, <1>7
  <2>2. r[i - 1] \in Four /\ r[i] \in Four
    BY <1>5, <1>6
  <2> QED BY <2>1, <2>2 DEF Step, Shut
<1>11. ASSUME NEW i \in 0 .. n, NEW j \in 0 .. n, i <= j PROVE Reaches(r2[i], r2[j])
  <2>1. Reaches(r[i], r[j])
    BY <1>3, <1>11
  <2>2. r2[i] = Shut(r[i]) /\ r2[j] = Shut(r[j])
    BY <1>7
  <2>3. r[i] \in Four /\ r[j] \in Four
    BY <1>6
  <2> QED BY <2>1, <2>2, <2>3 DEF Reaches, Shut
<1>12. Run(r2, Shut(s), fr, Shut(q))
  BY <1>8, <1>9, <1>10, <1>11 DEF Run, n
<1> QED BY <1>12, <1>6, <1>4, <1>3 DEF Leads

-----------------------------------------------------------------------------
(* One connection *)

\* The behaviour sends Open.
LEMMA WiredOpen ==
  ASSUME NEW s \in {"Closed", "OpenDesiredByRemote"}, NEW st, NEW to, NEW fr \in Seq(Event),
         Wired(s, st, to, fr)
  PROVE  Wired("Opening", st, IF st = "Gone" THEN <<>> ELSE to \o <<"Open">>, fr)
<1>1. PICK q \in Views : Leads(s, fr, q) /\ Settled(q, to, st)
  BY DEF Wired
<1>2. Leads("Opening", fr, Opened(q)) /\ q \in {"Closed", "OpenDesiredByRemote", "Lost"}
  BY <1>1, LeadsOpened
<1>3. Opened(q) \in Views
  BY <1>2 DEF Opened, Views, View
<1>4. CASE q = "Lost"
  <2>1. st = "Gone" /\ to = <<>>
    BY <1>1, <1>4 DEF Settled
  <2>2. Opened(q) = "Lost"
    BY <1>4 DEF Opened
  <2>3. Settled(Opened(q), <<>>, st)
    BY <2>1, <2>2 DEF Settled
  <2> QED BY <2>1, <2>3, <1>2, <1>3 DEF Wired
<1>5. CASE q # "Lost"
  <2>1. st = q /\ to = <<>>
    BY <1>1, <1>2, <1>5 DEF Settled
  <2>2. Opened(q) = "Opening"
    BY <1>2, <1>5 DEF Opened
  <2>3. to \o <<"Open">> = <<"Open">>
    BY <2>1
  <2>4. Settled(Opened(q), <<"Open">>, st)
    BY <2>1, <2>2, <1>2, <1>5 DEF Settled
  <2>5. st # "Gone"
    BY <2>1, <1>2, <1>5
  <2> QED BY <2>3, <2>4, <2>5, <1>2, <1>3 DEF Wired
<1> QED BY <1>4, <1>5

\* The behaviour sends Close.
LEMMA WiredClose ==
  ASSUME NEW s \in {"Opening", "Open", "OpenDesiredByRemote"}, NEW st, NEW to, NEW fr \in Seq(Event),
         Wired(s, st, to, fr)
  PROVE  Wired(Shut(s), st, IF st = "Gone" THEN <<>> ELSE to \o <<"Close">>, fr)
<1>1. PICK q \in Views : Leads(s, fr, q) /\ Settled(q, to, st)
  BY DEF Wired
<1>2. Leads(Shut(s), fr, Shut(q)) /\ q \in {"Opening", "Open", "Closed", "OpenDesiredByRemote", "Lost"}
  BY <1>1, LeadsShut
<1>3. Shut(q) \in Views
  BY <1>2 DEF Shut, Views, View
<1>4. CASE q = "Lost"
  <2>1. st = "Gone" /\ to = <<>>
    BY <1>1, <1>4 DEF Settled
  <2>2. Shut(q) = "Lost"
    BY <1>4 DEF Shut
  <2>3. Settled(Shut(q), <<>>, st)
    BY <2>1, <2>2 DEF Settled
  <2> QED BY <2>1, <2>3, <1>2, <1>3 DEF Wired
<1>5. CASE q # "Lost" /\ to = <<>>
  <2>1. st = q
    BY <1>1, <1>2, <1>5 DEF Settled
  <2>3. to \o <<"Close">> = <<"Close">>
    BY <1>5
  <2>4. Settled(Shut(q), <<"Close">>, st)
    BY <2>1, <1>2, <1>5 DEF Settled, Shut
  <2>5. st # "Gone"
    BY <2>1, <1>2, <1>5
  <2> QED BY <2>3, <2>4, <2>5, <1>2, <1>3 DEF Wired
<1>6. CASE q # "Lost" /\ to # <<>>
  <2>1. to = <<"Open">> /\ q = "Opening" /\ st \in {"Closed", "OpenDesiredByRemote"}
    BY <1>1, <1>2, <1>6 DEF Settled
  <2>3. to \o <<"Close">> = <<"Open", "Close">>
    BY <2>1, OpenThenClose
  <2>4. Settled(Shut(q), <<"Open", "Close">>, st)
    BY <2>1 DEF Settled, Shut
  <2>5. st # "Gone"
    BY <2>1
  <2> QED BY <2>3, <2>4, <2>5, <1>2, <1>3 DEF Wired
<1> QED BY <1>4, <1>5, <1>6

\* The behaviour reads an event.
LEMMA WiredDeliver ==
  ASSUME NEW s, NEW st, NEW to, NEW fr \in Seq(Event), fr # <<>>, Wired(s, st, to, fr)
  PROVE  \E s2 \in Views : Step(s, Head(fr), s2) /\ Wired(s2, st, to, Tail(fr))
<1>1. PICK q \in Views : Leads(s, fr, q) /\ Settled(q, to, st)
  BY DEF Wired
<1>2. PICK s2 \in Views : Step(s, Head(fr), s2) /\ Leads(s2, Tail(fr), q)
  BY <1>1, LeadsTail
<1> QED BY <1>1, <1>2 DEF Wired

\* Nothing is left of a connection that the behaviour has lost.
LEMMA WiredLost ==
  ASSUME NEW st, NEW to, NEW fr \in Seq(Event), Wired("Lost", st, to, fr)
  PROVE  st = "Gone" /\ to = <<>> /\ fr = <<>>
<1>1. PICK q \in Views : Leads("Lost", fr, q) /\ Settled(q, to, st)
  BY DEF Wired
<1>2. fr = <<>>
  <2> SUFFICES ASSUME fr # <<>> PROVE FALSE
    OBVIOUS
  <2>1. PICK s2 \in Views : Step("Lost", Head(fr), s2)
    BY <1>1, LeadsTail
  <2> QED BY <2>1 DEF Step
<1>3. q = "Lost"
  BY <1>1, <1>2, LeadsNowhere DEF Views
<1> QED BY <1>1, <1>2, <1>3 DEF Settled

\* A connection of which no event is under way.
LEMMA WiredQuiet ==
  ASSUME NEW s \in View, NEW st, NEW to, Wired(s, st, to, <<>>)
  PROVE  Settled(s, to, st)
BY LeadsNowhere DEF Wired, Views

\* A connection without events.
LEMMA QuietWired ==
  ASSUME NEW s \in View, NEW st, NEW to, Settled(s, to, st)
  PROVE  Wired(s, st, to, <<>>)
BY LeadsNowhere DEF Wired, Views

\* The connection is lost.
LEMMA WiredGone ==
  ASSUME NEW s, NEW st, NEW to, NEW fr \in Seq(Event), Wired(s, st, to, fr), st # "Gone",
         NEW n \in 0 .. Len(fr)
  PROVE  Wired(s, "Gone", <<>>, Append(SubSeq(fr, 1, n), "ConnectionClosed"))
<1>1. PICK q \in Views : Leads(s, fr, q) /\ Settled(q, to, st)
  BY DEF Wired
<1>2. q # "Lost"
  BY <1>1 DEF Settled
<1>3. PICK q2 \in View : Leads(s, SubSeq(fr, 1, n), q2)
  BY <1>1, <1>2, LeadsPrefix
<1>4. Step(q2, "ConnectionClosed", "Lost")
  BY DEF Step, View
<1>5. SubSeq(fr, 1, n) \in Seq(Event) /\ "ConnectionClosed" \in Event
  BY DEF Event
<1>6. Leads(s, Append(SubSeq(fr, 1, n), "ConnectionClosed"), "Lost")
  BY <1>3, <1>4, <1>5, LeadsAppend
<1>7. Settled("Lost", <<>>, "Gone") /\ "Lost" \in Views
  BY DEF Settled, Views
<1> QED BY <1>6, <1>7 DEF Wired

-----------------------------------------------------------------------------
(* What a handler does *)

\* The fields of a handler that changes its state.
LEMMA Becomes ==
  ASSUME NEW h \in Handlers, NEW st \in {"Closed", "OpenDesiredByRemote", "Opening", "Open"}, NEW pending \in BOOLEAN
  PROVE  LET g == Become(h, st, pending) IN
         /\ g \in Handlers /\ g.st = st /\ g.pending_opening = pending /\ g.out_substream = (st = "Open")
         /\ g.requests = h.requests
BY DEF Handlers, Become

\* The fields of a handler that remembers a request, or forgets one.
LEMMA WithPending ==
  ASSUME NEW h \in Handlers, NEW pending \in BOOLEAN
  PROVE  LET g == [h EXCEPT !.pending_opening = pending] IN
         /\ g \in Handlers /\ g.st = h.st /\ g.pending_opening = pending
         /\ g.out_substream = h.out_substream /\ g.requests = h.requests
BY DEF Handlers

\* The fields of a handler whose outbound substream changes.
LEMMA WithOut ==
  ASSUME NEW h \in Handlers, NEW out \in BOOLEAN
  PROVE  LET g == [h EXCEPT !.out_substream = out] IN
         /\ g \in Handlers /\ g.st = h.st /\ g.pending_opening = h.pending_opening
         /\ g.out_substream = out /\ g.requests = h.requests
BY DEF Handlers

\* The fields of a handler.
LEMMA HandlerTypes ==
  /\ Gone \in Handlers /\ Gone.st = "Gone" /\ Gone.requests = 0
  /\ NewHandler \in Handlers /\ NewHandler.st = "Closed" /\ NewHandler.requests = 0
  /\ ~NewHandler.pending_opening
  /\ \A h \in Handlers : /\ h.st \in {"Closed", "OpenDesiredByRemote", "Opening", "Open", "Gone"}
                          /\ h.pending_opening \in BOOLEAN /\ h.out_substream \in BOOLEAN /\ h.requests \in Nat
BY DEF Handlers, Gone, NewHandler

\* The requests of a handler, state by state.
LEMMA HandlerCases ==
  ASSUME NEW h \in Handlers, HandlerOk(h)
  PROVE  /\ h.st \in {"Closed", "OpenDesiredByRemote"} => h.requests = IF h.pending_opening THEN 1 ELSE 0
         /\ h.st = "Opening" => h.requests = 1 /\ ~h.pending_opening
         /\ h.st = "Open" => h.requests = 0 /\ ~h.pending_opening
         /\ h.st = "Gone" <=> h = Gone
         /\ h.requests > 0 => h.st \in {"Closed", "OpenDesiredByRemote", "Opening"}
BY HandlerTypes DEF HandlerOk

\* What Emit gives.
LEMMA EmitFields ==
  ASSUME NEW h, NEW events
  PROVE  Emit(h, events).handler = h /\ Emit(h, events).events = events /\ Emit(h, events).expected = TRUE
BY DEF Emit

\* r is a step of the handler h that the code expects, and to the messages that
\* are left of those of queue: whatever the view was, it still fits.
Fits(h, queue, r, to) ==
  /\ HandlerOk(r.handler) /\ r.handler \in Handlers /\ r.handler.st # "Gone"
  /\ r.events \in Seq(Event) /\ r.expected = TRUE /\ to \in Seq({"Open", "Close"})
  /\ \A s, fr : fr \in Seq(Event) /\ Wired(s, h.st, queue, fr) => Wired(s, r.handler.st, to, fr \o r.events)

\* A step of a handler that emits no event.
LEMMA SilentStep ==
  ASSUME NEW s, NEW st, NEW queue, NEW fr \in Seq(Event), Wired(s, st, queue, fr), NEW st2, NEW to,
         \A q \in Views : Settled(q, queue, st) => Settled(q, to, st2)
  PROVE  Wired(s, st2, to, fr \o <<>>)
<1>1. fr \o <<>> = fr
  OBVIOUS
<1> QED BY <1>1 DEF Wired

\* A step of a handler that emits one event.
LEMMA EventStep ==
  ASSUME NEW s, NEW st, NEW queue, NEW fr \in Seq(Event), Wired(s, st, queue, fr), NEW st2, NEW to,
         NEW e \in Event,
         \A q \in Views : Settled(q, queue, st) => \E q2 \in Views : Step(q, e, q2) /\ Settled(q2, to, st2)
  PROVE  Wired(s, st2, to, fr \o <<e>>)
<1>1. fr \o <<e>> = Append(fr, e)
  BY AppendIsConcat
<1>2. PICK q \in Views : Leads(s, fr, q) /\ Settled(q, queue, st)
  BY DEF Wired
<1>3. PICK q2 \in Views : Step(q, e, q2) /\ Settled(q2, to, st2)
  BY <1>2
<1>4. Leads(s, Append(fr, e), q2)
  BY <1>2, <1>3, LeadsAppend
<1> QED BY <1>1, <1>3, <1>4 DEF Wired

\* What a handler makes of Open is in keeping with any view of it.
LEMMA OpenFits ==
  ASSUME NEW h \in Handlers, HandlerOk(h), NEW queue, NEW q, queue # <<>>, Head(queue) = "Open",
         Settled(q, queue, h.st)
  PROVE  Fits(h, queue, inject_open(h), Tail(queue))
<1>1. \/ queue = <<"Open">> /\ h.st \in {"Closed", "OpenDesiredByRemote"}
      \/ queue = <<"Open", "Close">> /\ h.st \in {"Closed", "OpenDesiredByRemote"}
  BY DEF Settled
<1>2. h.pending_opening \in BOOLEAN /\ h.requests = IF h.pending_opening THEN 1 ELSE 0
  BY <1>1, HandlerCases, HandlerTypes
<1> DEFINE b == Become(h, "Opening", FALSE)
           g == [b EXCEPT !.requests = IF h.pending_opening THEN @ ELSE @ + 1]
           r == Emit(g, <<>>)
<1>3. inject_open(h) = r
  BY <1>1 DEF inject_open
<1>4. g.st = "Opening" /\ HandlerOk(g) /\ g \in Handlers
  <2>1. b \in Handlers /\ b.st = "Opening" /\ ~b.pending_opening /\ b.requests = h.requests
    BY Becomes
  <2> HIDE DEF b
  <2>2. g = [b EXCEPT !.requests = 1]
    BY <2>1, <1>2
  <2> HIDE DEF g
  <2>3. g \in Handlers /\ g.st = b.st /\ g.pending_opening = b.pending_opening /\ g.requests = 1
    BY <2>1, <2>2 DEF Handlers
  <2> QED BY <2>1, <2>3, HandlerTypes DEF HandlerOk
<1>5. Tail(queue) \in Seq({"Open", "Close"}) /\ \A v \in Views : Settled(v, queue, h.st) => Settled(v, Tail(queue), "Opening")
  <2>1. CASE queue = <<"Open">>
    <3>1. Tail(queue) = <<>>
      BY <2>1
    <3> QED BY <2>1, <3>1 DEF Settled
  <2>2. CASE queue = <<"Open", "Close">>
    <3>1. Tail(queue) = <<"Close">>
      BY <2>2
    <3> QED BY <2>2, <3>1 DEF Settled
  <2> QED BY <1>1, <2>1, <2>2
<1> HIDE DEF g
<1>6. r.handler = g /\ r.events = <<>> /\ r.expected = TRUE
  BY EmitFields
<1> HIDE DEF r
<1>7. \A s, fr : fr \in Seq(Event) /\ Wired(s, h.st, queue, fr) => Wired(s, "Opening", Tail(queue), fr \o <<>>)
  BY <1>5, SilentStep
<1>8. Fits(h, queue, r, Tail(queue))
  BY <1>4, <1>5, <1>6, <1>7 DEF Fits
<1> QED BY <1>8, <1>3

\* Two events that the handler sends at once.
LEMMA TwoEventsStep ==
  ASSUME NEW s, NEW st, NEW queue, NEW fr \in Seq(Event), Wired(s, st, queue, fr), NEW st2, NEW to,
         NEW e \in Event, NEW f \in Event,
         \A q \in Views : Settled(q, queue, st) =>
            \E q2, q3 \in Views : Step(q, e, q2) /\ Step(q2, f, q3) /\ Settled(q3, to, st2)
  PROVE  Wired(s, st2, to, fr \o <<e, f>>)
<1>1. fr \o <<e, f>> = Append(Append(fr, e), f)
  BY AppendTwo
<1>2. PICK q \in Views : Leads(s, fr, q) /\ Settled(q, queue, st)
  BY DEF Wired
<1>3. PICK q2 \in Views, q3 \in Views : Step(q, e, q2) /\ Step(q2, f, q3) /\ Settled(q3, to, st2)
  BY <1>2
<1>4. Leads(s, Append(fr, e), q2) /\ Append(fr, e) \in Seq(Event)
  BY <1>2, <1>3, LeadsAppend
<1>5. Leads(s, Append(Append(fr, e), f), q3)
  BY <1>3, <1>4, LeadsAppend
<1> QED BY <1>1, <1>3, <1>5 DEF Wired

\* What a handler makes of Close is in keeping with any view of it.
LEMMA CloseFits ==
  ASSUME NEW h \in Handlers, HandlerOk(h), NEW queue, NEW q, queue # <<>>, Head(queue) # "Open",
         Settled(q, queue, h.st)
  PROVE  Fits(h, queue, inject_close(h), Tail(queue))
<1>1. queue = <<"Close">> /\ h.st \in {"Open", "Opening", "Closed", "OpenDesiredByRemote"}
  BY DEF Settled
<1>2. Tail(queue) = <<>> /\ <<>> \in Seq({"Open", "Close"})
  BY <1>1
<1>3. CASE h.st = "Opening"
  <2> DEFINE g == Become(h, "Closed", TRUE)
             events == <<"OpenResultErr", "CloseResult">>
             r == Emit(g, events)
  <2>1. g \in Handlers /\ g.st = "Closed" /\ g.pending_opening = TRUE /\ g.requests = h.requests
    BY Becomes
  <2>2. h.requests = 1
    BY <1>3, HandlerCases
  <2> HIDE DEF g
  <2>3. HandlerOk(g)
    BY <2>1, <2>2, HandlerTypes DEF HandlerOk
  <2>4. inject_close(h) = r
    BY <1>3 DEF inject_close, g
  <2>5. r.handler = g /\ r.events = events /\ r.expected = TRUE
    BY EmitFields
  <2>6. events \in Seq(Event) /\ "OpenResultErr" \in Event /\ "CloseResult" \in Event
    BY DEF Event
  <2>7. \A v \in Views : Settled(v, queue, h.st) =>
          \E v2, v3 \in Views : /\ Step(v, "OpenResultErr", v2) /\ Step(v2, "CloseResult", v3)
                                /\ Settled(v3, <<>>, "Closed")
    <3> SUFFICES ASSUME NEW v \in Views, Settled(v, queue, h.st)
                 PROVE  \E v2, v3 \in Views : /\ Step(v, "OpenResultErr", v2) /\ Step(v2, "CloseResult", v3)
                                              /\ Settled(v3, <<>>, "Closed")
      OBVIOUS
    <3>1. v = "OpeningThenClosing"
      BY <1>1, <1>3 DEF Settled
    <3>2. Step(v, "OpenResultErr", "Closing") /\ Step("Closing", "CloseResult", "Closed")
      BY <3>1 DEF Step
    <3>3. Settled("Closed", <<>>, "Closed") /\ "Closing" \in Views /\ "Closed" \in Views
      BY DEF Settled, Views, View
    <3> QED BY <3>2, <3>3
  <2> HIDE DEF r
  <2>8. \A s, fr : fr \in Seq(Event) /\ Wired(s, h.st, queue, fr) => Wired(s, "Closed", <<>>, fr \o events)
    BY <2>6, <2>7, TwoEventsStep
  <2> HIDE DEF events
  <2> QED BY <1>2, <2>1, <2>3, <2>4, <2>5, <2>6, <2>8 DEF Fits
<1>4. CASE h.st # "Opening"
  <2> DEFINE pending == IF h.st = "Open" THEN FALSE ELSE h.pending_opening
             g == Become(h, "Closed", pending)
             r == Emit(g, <<"CloseResult">>)
  <2>0. pending \in BOOLEAN
    BY HandlerTypes
  <2>2. h.requests = IF pending THEN 1 ELSE 0
    BY <1>1, <1>4, HandlerCases
  <2>4. inject_close(h) = r
    BY <1>1, <1>4 DEF inject_close
  <2> HIDE DEF pending
  <2>1. g \in Handlers /\ g.st = "Closed" /\ g.pending_opening = pending /\ g.requests = h.requests
    BY <2>0, Becomes
  <2> HIDE DEF g
  <2>3. HandlerOk(g)
    BY <2>0, <2>1, <2>2, HandlerTypes DEF HandlerOk
  <2>5. r.handler = g /\ r.events = <<"CloseResult">> /\ r.expected = TRUE
    BY EmitFields
  <2>6. <<"CloseResult">> \in Seq(Event) /\ "CloseResult" \in Event
    BY DEF Event
  <2>7. \A v \in Views : Settled(v, queue, h.st) =>
          \E v2 \in Views : Step(v, "CloseResult", v2) /\ Settled(v2, <<>>, "Closed")
    <3> SUFFICES ASSUME NEW v \in Views, Settled(v, queue, h.st)
                 PROVE  \E v2 \in Views : Step(v, "CloseResult", v2) /\ Settled(v2, <<>>, "Closed")
      OBVIOUS
    <3>1. v = "Closing"
      BY <1>1, <1>4 DEF Settled
    <3>2. Step(v, "CloseResult", "Closed")
      BY <3>1 DEF Step
    <3>3. Settled("Closed", <<>>, "Closed") /\ "Closed" \in Views
      BY DEF Settled, Views, View
    <3> QED BY <3>2, <3>3
  <2> HIDE DEF r
  <2>8. \A s, fr : fr \in Seq(Event) /\ Wired(s, h.st, queue, fr) => Wired(s, "Closed", <<>>, fr \o <<"CloseResult">>)
    BY <2>6, <2>7, EventStep
  <2> QED BY <1>2, <2>1, <2>3, <2>4, <2>5, <2>6, <2>8 DEF Fits
<1> QED BY <1>3, <1>4

\* An outbound request ends in the state st, with the event e.
LEMMA AnswerFits ==
  ASSUME NEW h \in Handlers, HandlerOk(h), NEW queue \in Seq({"Open", "Close"}), h.st = "Opening",
         NEW st, NEW e, (st = "Open" /\ e = "OpenResultOk") \/ (st = "Closed" /\ e = "OpenResultErr")
  PROVE  Fits(h, queue, Emit(Become([h EXCEPT !.requests = @ - 1], st, FALSE), <<e>>), queue)
<1> DEFINE b == [h EXCEPT !.requests = @ - 1]
           g == Become(b, st, FALSE)
           r == Emit(g, <<e>>)
<1>1. h.requests = 1
  BY HandlerCases
<1>2. b = [h EXCEPT !.requests = 0]
  BY <1>1
<1> HIDE DEF b
<1>3. b \in Handlers /\ b.requests = 0
  BY <1>2 DEF Handlers
<1>4. g \in Handlers /\ g.st = st /\ ~g.pending_opening /\ g.requests = 0
  <2>1. st \in {"Closed", "OpenDesiredByRemote", "Opening", "Open"} /\ FALSE \in BOOLEAN
    OBVIOUS
  <2> QED BY <2>1, <1>3, Becomes
<1> HIDE DEF g
<1>5. HandlerOk(g)
  BY <1>4, HandlerTypes DEF HandlerOk
<1>6. r.handler = g /\ r.events = <<e>> /\ r.expected = TRUE
  BY EmitFields
<1> HIDE DEF r
<1>7. e \in Event /\ <<e>> \in Seq(Event)
  BY DEF Event
<1>8. ASSUME NEW v \in Views, Settled(v, queue, h.st)
      PROVE  \E v2 \in Views : Step(v, e, v2) /\ Settled(v2, queue, st)
  <2>1. CASE v = "Opening"
    <3>1. queue = <<>>
      BY <2>1, <1>8 DEF Settled
    <3>2. Step(v, e, st) /\ Settled(st, queue, st) /\ st \in Views
      BY <2>1, <3>1 DEF Step, Settled, Views, View
    <3> QED BY <3>2
  <2>2. CASE v # "Opening"
    <3>1. queue = <<"Close">> /\ v = "OpeningThenClosing"
      BY <2>2, <1>8 DEF Settled
    <3>2. Step(v, e, "Closing") /\ "Closing" \in Views
      BY <3>1 DEF Step, Views, View
    <3>3. Settled("Closing", queue, st)
      BY <3>1 DEF Settled
    <3> QED BY <3>2, <3>3
  <2> QED BY <2>1, <2>2
<1>9. \A s, fr : fr \in Seq(Event) /\ Wired(s, h.st, queue, fr) => Wired(s, st, queue, fr \o <<e>>)
  BY <1>7, <1>8, EventStep
<1>10. Fits(h, queue, r, queue)
  BY <1>4, <1>5, <1>6, <1>7, <1>9 DEF Fits
<1> QED BY <1>10 DEF r, g, b

\* So is the end of a request that the handler has no use for.
LEMMA UnwantedFits ==
  ASSUME NEW h \in Handlers, HandlerOk(h), NEW queue \in Seq({"Open", "Close"}), h.requests > 0,
         h.st \in {"Closed", "OpenDesiredByRemote"}
  PROVE  Fits(h, queue, Unwanted([h EXCEPT !.requests = @ - 1]), queue)
<1> DEFINE b == [h EXCEPT !.requests = @ - 1]
           g == [b EXCEPT !.pending_opening = FALSE]
           r == Unwanted(b)
<1>1. h.requests = 1 /\ h.pending_opening = TRUE
  BY HandlerCases, HandlerTypes
<1>2. b = [h EXCEPT !.requests = 0]
  BY <1>1
<1> HIDE DEF b
<1>3. b \in Handlers /\ b.requests = 0 /\ b.st = h.st /\ b.pending_opening = TRUE
  BY <1>1, <1>2 DEF Handlers
<1>4. g \in Handlers /\ g.st = h.st /\ ~g.pending_opening /\ g.requests = 0
  BY <1>3, WithPending
<1>5. r.handler = g /\ r.events = <<>> /\ r.expected = TRUE
  BY <1>3 DEF Unwanted, Emit
<1> HIDE DEF g, r
<1>6. HandlerOk(g)
  BY <1>4, HandlerTypes DEF HandlerOk
<1>7. \A s, fr : fr \in Seq(Event) /\ Wired(s, h.st, queue, fr) => Wired(s, h.st, queue, fr \o <<>>)
  BY SilentStep
<1>8. Fits(h, queue, r, queue)
  BY <1>4, <1>5, <1>6, <1>7 DEF Fits
<1> QED BY <1>8 DEF r, b

\* Both outcomes of an outbound request.
LEMMA OutboundFits ==
  ASSUME NEW h \in Handlers, HandlerOk(h), NEW queue \in Seq({"Open", "Close"}), h.requests > 0,
         NEW r \in {inject_fully_negotiated_outbound(h), inject_dial_upgrade_error(h)}
  PROVE  Fits(h, queue, r, queue)
<1> DEFINE b == [h EXCEPT !.requests = @ - 1]
<1>1. h.st \in {"Closed", "OpenDesiredByRemote", "Opening"}
  BY HandlerCases
<1>2. b.st = h.st
  BY DEF Handlers
<1>3. CASE h.st = "Opening"
  <2>1. inject_fully_negotiated_outbound(h) = Emit(Become(b, "Open", FALSE), <<"OpenResultOk">>)
    BY <1>2, <1>3 DEF inject_fully_negotiated_outbound
  <2>2. inject_dial_upgrade_error(h) = Emit(Become(b, "Closed", FALSE), <<"OpenResultErr">>)
    BY <1>2, <1>3 DEF inject_dial_upgrade_error
  <2> QED BY <2>1, <2>2, <1>3, AnswerFits
<1>4. CASE h.st # "Opening"
  <2>1. inject_fully_negotiated_outbound(h) = Unwanted(b)
    BY <1>1, <1>2, <1>4 DEF inject_fully_negotiated_outbound
  <2>2. inject_dial_upgrade_error(h) = Unwanted(b)
    BY <1>1, <1>2, <1>4 DEF inject_dial_upgrade_error
  <2> QED BY <2>1, <2>2, <1>1, <1>4, UnwantedFits
<1> QED BY <1>3, <1>4

\* What the remote does.
LEMMA RemoteFits ==
  ASSUME NEW h \in Handlers, HandlerOk(h), NEW queue \in Seq({"Open", "Close"}),
         NEW r \in RemoteMoves(h)
  PROVE  Fits(h, queue, r, queue)
<1>1. \/ h.st = "Closed" /\ r = inject_fully_negotiated_inbound(h)
      \/ h.st = "OpenDesiredByRemote" /\ r = poll_inbound_aborted(h)
      \/ h.st = "Open" /\ r = IF h.out_substream THEN poll_outbound_closed(h) ELSE poll_legacy_closed(h)
  BY DEF RemoteMoves
<1>2. CASE h.st = "Closed"
  <2> DEFINE g == Become(h, "OpenDesiredByRemote", h.pending_opening)
  <2>1. r = Emit(g, <<"OpenDesiredByRemote">>)
    BY <1>1, <1>2 DEF inject_fully_negotiated_inbound
  <2>2. g \in Handlers /\ g.st = "OpenDesiredByRemote" /\ g.pending_opening = h.pending_opening /\ g.requests = h.requests
    <3>1. h.pending_opening \in BOOLEAN
      BY HandlerTypes
    <3> QED BY <3>1 DEF Become, Handlers
  <2> HIDE DEF g
  <2>3. HandlerOk(g)
    BY <1>2, <2>2, HandlerCases, HandlerTypes DEF HandlerOk
  <2>4. r.handler = g /\ r.events = <<"OpenDesiredByRemote">> /\ r.expected = TRUE
    BY <2>1, EmitFields
  <2>5. "OpenDesiredByRemote" \in Event /\ <<"OpenDesiredByRemote">> \in Seq(Event)
    BY DEF Event
  <2>6. ASSUME NEW v \in Views, Settled(v, queue, "Closed")
        PROVE  \E v2 \in Views : Step(v, "OpenDesiredByRemote", v2) /\ Settled(v2, queue, "OpenDesiredByRemote")
    <3> DEFINE v2 == IF v = "Closed" THEN "OpenDesiredByRemote" ELSE v
    <3>1. Settled(v2, queue, "OpenDesiredByRemote")
      BY <2>6 DEF Settled
    <3>2. Step(v, "OpenDesiredByRemote", v2) /\ v2 \in Views
      BY <2>6 DEF Settled, Step, Views, View
    <3> QED BY <3>1, <3>2
  <2>7. \A s, fr : fr \in Seq(Event) /\ Wired(s, h.st, queue, fr)
                      => Wired(s, "OpenDesiredByRemote", queue, fr \o <<"OpenDesiredByRemote">>)
    BY <1>2, <2>5, <2>6, EventStep
  <2> QED BY <2>2, <2>3, <2>4, <2>5, <2>7 DEF Fits
<1>3. CASE h.st = "Open"
  <2>1. r \in {Emit([h EXCEPT !.out_substream = FALSE], <<"CloseDesired">>), Emit(h, <<"CloseDesired">>)}
    BY <1>1, <1>3 DEF poll_outbound_closed, poll_legacy_closed
  <2>2. PICK g \in {[h EXCEPT !.out_substream = FALSE], h} : r = Emit(g, <<"CloseDesired">>)
    BY <2>1
  <2>3. g \in Handlers /\ g.st = "Open" /\ g.pending_opening = h.pending_opening /\ g.requests = h.requests
    BY <1>3, WithOut
  <2>4. HandlerOk(g)
    BY <1>3, <2>3, HandlerCases, HandlerTypes DEF HandlerOk
  <2>5. r.handler = g /\ r.events = <<"CloseDesired">> /\ r.expected = TRUE
    BY <2>2, EmitFields
  <2>6. "CloseDesired" \in Event /\ <<"CloseDesired">> \in Seq(Event)
    BY DEF Event
  <2>7. ASSUME NEW v \in Views, Settled(v, queue, "Open")
        PROVE  \E v2 \in Views : Step(v, "CloseDesired", v2) /\ Settled(v2, queue, "Open")
    <3>1. Step(v, "CloseDesired", v)
      BY <2>7 DEF Settled, Step
    <3> QED BY <3>1, <2>7
  <2>8. \A s, fr : fr \in Seq(Event) /\ Wired(s, h.st, queue, fr) => Wired(s, "Open", queue, fr \o <<"CloseDesired">>)
    BY <1>3, <2>6, <2>7, EventStep
  <2> QED BY <2>3, <2>4, <2>5, <2>6, <2>8 DEF Fits
<1>4. CASE h.st = "OpenDesiredByRemote"
  <2> DEFINE g == Become(h, "Closed", h.pending_opening)
  <2>1. r = Emit(g, <<"CloseDesired">>)
    BY <1>1, <1>4 DEF poll_inbound_aborted
  <2>2. g \in Handlers /\ g.st = "Closed" /\ g.pending_opening = h.pending_opening /\ g.requests = h.requests
    <3>1. h.pending_opening \in BOOLEAN
      BY HandlerTypes
    <3> QED BY <3>1 DEF Become, Handlers
  <2> HIDE DEF g
  <2>3. HandlerOk(g)
    BY <1>4, <2>2, HandlerCases, HandlerTypes DEF HandlerOk
  <2>4. r.handler = g /\ r.events = <<"CloseDesired">> /\ r.expected = TRUE
    BY <2>1, EmitFields
  <2>5. "CloseDesired" \in Event /\ <<"CloseDesired">> \in Seq(Event)
    BY DEF Event
  <2>6. ASSUME NEW v \in Views, Settled(v, queue, "OpenDesiredByRemote")
        PROVE  \E v2 \in Views : Step(v, "CloseDesired", v2) /\ Settled(v2, queue, "Closed")
    <3> DEFINE v2 == IF v = "OpenDesiredByRemote" THEN "Closed" ELSE v
    <3>1. Settled(v2, queue, "Closed")
      BY <2>6 DEF Settled
    <3>2. Step(v, "CloseDesired", v2) /\ v2 \in Views
      BY <2>6 DEF Settled, Step, Views, View
    <3> QED BY <3>1, <3>2
  <2>7. \A s, fr : fr \in Seq(Event) /\ Wired(s, h.st, queue, fr)
                      => Wired(s, "Closed", queue, fr \o <<"CloseDesired">>)
    BY <1>4, <2>5, <2>6, EventStep
  <2> QED BY <2>2, <2>3, <2>4, <2>5, <2>7 DEF Fits
<1> QED BY <1>1, <1>2, <1>3, <1>4

-----------------------------------------------------------------------------
(* Steps of the handlers and of the connections *)

\* The parts of the invariant that no step of a handler touches.
LEMMA RestUnchanged ==
  ASSUME EntryInv, ManagerInv, UNCHANGED <<contractVars, peer, incoming_peers, delays, api, dialing>>
  PROVE  EntryInv' /\ ManagerInv'
<1>1. EntryInv'
  BY DEF EntryInv, EntryOk, is_open
<1>2. ManagerInv'
  BY DEF ManagerInv, contractVars
<1> QED BY <1>1, <1>2

\* A connection with anything under way, or with a handler, is known to the behaviour.
LEMMA KnownConnection ==
  ASSUME WireInv, NEW c \in Conn, handler[c] # Gone \/ to_handler[c] # <<>> \/ from_handler[c] # <<>>
  PROVE  \E k \in DOMAIN peer.connections :
            /\ peer.connections[k].id = c
            /\ Wired(peer.connections[k].state, handler[c].st, to_handler[c], from_handler[c])
<1>1. c \in Ids(peer.connections)
  BY DEF WireInv, WireOk
<1>2. PICK k \in DOMAIN peer.connections : peer.connections[k].id = c
  BY <1>1 DEF Ids
<1> QED BY <1>2 DEF WireInv, WireOk

\* The messages, the events and the handler of c change in a way that fits
\* whatever the behaviour thinks of c.
LEMMA OneConnectionChanges ==
  ASSUME WireInv, NEW c \in Conn, c \in Ids(peer.connections), peer' = peer,
         NEW h \in Handlers, HandlerOk(h), handler' = [handler EXCEPT ![c] = h],
         NEW to \in Seq({"Open", "Close"}), to_handler' = [to_handler EXCEPT ![c] = to],
         NEW fr \in Seq(Event), from_handler' = [from_handler EXCEPT ![c] = fr],
         \A s : Wired(s, handler[c].st, to_handler[c], from_handler[c]) => Wired(s, h.st, to, fr)
  PROVE  WireInv'
<1>1. /\ handler \in [Conn -> Handlers] /\ to_handler \in [Conn -> Seq({"Open", "Close"})]
      /\ from_handler \in [Conn -> Seq(Event)]
      /\ \A d \in Conn : HandlerOk(handler[d])
      /\ WireOk(peer.connections, handler, to_handler, from_handler)
  BY DEF WireInv
<1>2. /\ handler' \in [Conn -> Handlers] /\ to_handler' \in [Conn -> Seq({"Open", "Close"})]
      /\ from_handler' \in [Conn -> Seq(Event)]
  BY <1>1
<1>3. /\ handler'[c] = h /\ to_handler'[c] = to /\ from_handler'[c] = fr
      /\ \A d \in Conn \ {c} : handler'[d] = handler[d] /\ to_handler'[d] = to_handler[d]
                                 /\ from_handler'[d] = from_handler[d]
  BY <1>1
<1>4. \A d \in Conn : HandlerOk(handler'[d])
  BY <1>1, <1>3
<1>5. WireOk(peer.connections, handler', to_handler', from_handler')
  <2>1. ASSUME NEW k \in DOMAIN peer.connections
        PROVE  LET d == peer.connections[k].id IN
               Wired(peer.connections[k].state, handler'[d].st, to_handler'[d], from_handler'[d])
    <3> DEFINE d == peer.connections[k].id
    <3>1. Wired(peer.connections[k].state, handler[d].st, to_handler[d], from_handler[d])
      BY <1>1 DEF WireOk
    <3>2. CASE d = c
      BY <3>1, <3>2, <1>3
    <3>3. CASE d # c
      <4>1. handler'[d] = handler[d] /\ to_handler'[d] = to_handler[d] /\ from_handler'[d] = from_handler[d]
        BY <3>3, <1>1
      <4> QED BY <3>1, <4>1
    <3> QED BY <3>2, <3>3
  <2>2. ASSUME NEW d \in Conn \ Ids(peer.connections)
        PROVE  handler'[d] = Gone /\ to_handler'[d] = <<>> /\ from_handler'[d] = <<>>
    BY <1>1, <1>3 DEF WireOk
  <2> QED BY <2>1, <2>2 DEF WireOk
<1> QED BY <1>2, <1>4, <1>5 DEF WireInv

\* A step of a handler that is in keeping with any view of it keeps the invariant.
LEMMA HandleKeeps ==
  ASSUME IInv, NEW c \in Conn, c \in Ids(peer.connections), NEW r, NEW queue,
         Fits(handler[c], to_handler[c], r, queue), Handle(c, r, queue)
  PROVE  IInv'
<1>1. WireInv /\ EntryInv /\ ManagerInv /\ expected = TRUE
  BY DEF IInv
<1>2. /\ handler' = [handler EXCEPT ![c] = r.handler] /\ to_handler' = [to_handler EXCEPT ![c] = queue]
      /\ expected' = (expected /\ r.expected)
      /\ UNCHANGED <<contractVars, peer, incoming_peers, delays, api, dialing>>
  BY DEF Handle
<1>3. from_handler' = [from_handler EXCEPT ![c] = from_handler[c] \o r.events]
  BY DEF Handle
<1>4. /\ HandlerOk(r.handler) /\ r.handler \in Handlers /\ r.events \in Seq(Event) /\ r.expected = TRUE
      /\ queue \in Seq({"Open", "Close"})
  BY DEF Fits
<1>5. from_handler[c] \in Seq(Event)
  BY <1>1 DEF WireInv
<1>6. from_handler[c] \o r.events \in Seq(Event)
  BY <1>4, <1>5
<1>7. \A s : Wired(s, handler[c].st, to_handler[c], from_handler[c])
               => Wired(s, r.handler.st, queue, from_handler[c] \o r.events)
  BY <1>5 DEF Fits
<1>8. peer' = peer
  BY <1>2
<1>9. WireInv'
  BY <1>1, <1>2, <1>3, <1>4, <1>6, <1>7, <1>8, OneConnectionChanges
<1>10. expected' = TRUE
  BY <1>1, <1>2, <1>4
<1> QED BY <1>1, <1>2, <1>9, <1>10, RestUnchanged DEF IInv

\* A handler that reads a message keeps the invariant.
LEMMA HandlerInjectKeeps ==
  ASSUME IInv, NEW c \in Conn, handler_inject_event(c)
  PROVE  IInv'
<1>1. WireInv /\ handler[c] \in Handlers /\ HandlerOk(handler[c])
  BY DEF IInv, WireInv
<1>2. to_handler[c] # <<>>
  BY DEF handler_inject_event
<1>3. PICK k \in DOMAIN peer.connections :
         /\ peer.connections[k].id = c
         /\ Wired(peer.connections[k].state, handler[c].st, to_handler[c], from_handler[c])
  BY <1>1, <1>2, KnownConnection
<1>4. PICK q \in Views : Settled(q, to_handler[c], handler[c].st)
  BY <1>3 DEF Wired
<1>5. c \in Ids(peer.connections)
  BY <1>3 DEF Ids
<1>6. CASE Head(to_handler[c]) = "Open"
  <2>1. Fits(handler[c], to_handler[c], inject_open(handler[c]), Tail(to_handler[c]))
    BY <1>1, <1>2, <1>4, <1>6, OpenFits
  <2>2. Handle(c, inject_open(handler[c]), Tail(to_handler[c]))
    BY <1>6 DEF handler_inject_event
  <2> QED BY <1>5, <2>1, <2>2, HandleKeeps
<1>7. CASE Head(to_handler[c]) # "Open"
  <2>1. Fits(handler[c], to_handler[c], inject_close(handler[c]), Tail(to_handler[c]))
    BY <1>1, <1>2, <1>4, <1>7, CloseFits
  <2>2. Handle(c, inject_close(handler[c]), Tail(to_handler[c]))
    BY <1>7 DEF handler_inject_event
  <2> QED BY <1>5, <2>1, <2>2, HandleKeeps
<1> QED BY <1>6, <1>7

\* The end of an outbound request keeps the invariant.
LEMMA OutboundEndsKeeps ==
  ASSUME IInv, NEW c \in Conn, outbound_ends(c)
  PROVE  IInv'
<1>1. WireInv /\ handler[c] \in Handlers /\ HandlerOk(handler[c]) /\ to_handler[c] \in Seq({"Open", "Close"})
  BY DEF IInv, WireInv
<1>2. handler[c].requests > 0
  BY DEF outbound_ends
<1>3. handler[c] # Gone
  BY <1>2, HandlerTypes
<1>4. c \in Ids(peer.connections)
  BY <1>1, <1>3, KnownConnection DEF Ids
<1>5. PICK r \in {inject_fully_negotiated_outbound(handler[c]), inject_dial_upgrade_error(handler[c])} :
         Handle(c, r, to_handler[c])
  BY DEF outbound_ends
<1>6. Fits(handler[c], to_handler[c], r, to_handler[c])
  BY <1>1, <1>2, OutboundFits
<1> QED BY <1>4, <1>5, <1>6, HandleKeeps

\* A remote that opens, closes or gives up a substream keeps the invariant.
LEMMA RemoteMovesKeeps ==
  ASSUME IInv, NEW c \in Conn, remote_moves(c)
  PROVE  IInv'
<1>1. WireInv /\ handler[c] \in Handlers /\ HandlerOk(handler[c]) /\ to_handler[c] \in Seq({"Open", "Close"})
  BY DEF IInv, WireInv
<1>2. PICK r \in RemoteMoves(handler[c]) : Handle(c, r, to_handler[c])
  BY DEF remote_moves
<1>3. handler[c] # Gone
  BY HandlerTypes DEF RemoteMoves
<1>4. c \in Ids(peer.connections)
  BY <1>1, <1>3, KnownConnection DEF Ids
<1>5. Fits(handler[c], to_handler[c], r, to_handler[c])
  BY <1>1, <1>2, RemoteFits
<1> QED BY <1>2, <1>4, <1>5, HandleKeeps

\* The loss of a connection keeps the invariant, whichever of its events were sent.
LEMMA ConnectionLostKeeps ==
  ASSUME IInv, NEW c \in Conn, connection_lost(c)
  PROVE  IInv'
<1>1. WireInv /\ EntryInv /\ ManagerInv /\ expected = TRUE
  BY DEF IInv
<1>2. handler[c] \in Handlers /\ HandlerOk(handler[c]) /\ from_handler[c] \in Seq(Event)
  BY <1>1 DEF WireInv
<1>3. handler[c] # Gone /\ handler' = [handler EXCEPT ![c] = Gone] /\ to_handler' = [to_handler EXCEPT ![c] = <<>>]
  BY DEF connection_lost
<1>4. PICK n \in 0 .. Len(from_handler[c]) :
         from_handler' = [from_handler EXCEPT ![c] = Append(SubSeq(from_handler[c], 1, n), "ConnectionClosed")]
  BY DEF connection_lost
<1>5. UNCHANGED <<contractVars, peer, incoming_peers, delays, api, dialing>> /\ expected' = expected /\ peer' = peer
  BY DEF connection_lost, networkVars
<1>6. c \in Ids(peer.connections)
  BY <1>1, <1>3, KnownConnection DEF Ids
<1>7. handler[c].st # "Gone" /\ Gone \in Handlers /\ Gone.st = "Gone" /\ HandlerOk(Gone)
  <2>1. HandlerOk(Gone)
    BY HandlerTypes DEF HandlerOk
  <2> QED BY <1>2, <1>3, <2>1, HandlerCases, HandlerTypes
<1> DEFINE fr == Append(SubSeq(from_handler[c], 1, n), "ConnectionClosed")
<1>8. fr \in Seq(Event) /\ <<>> \in Seq({"Open", "Close"})
  <2>1. "ConnectionClosed" \in Event
    BY DEF Event
  <2> QED BY <1>2, <2>1
<1>9. \A s : Wired(s, handler[c].st, to_handler[c], from_handler[c]) => Wired(s, Gone.st, <<>>, fr)
  BY <1>2, <1>7, WiredGone
<1> HIDE DEF fr
<1>10. from_handler' = [from_handler EXCEPT ![c] = fr]
  BY <1>4 DEF fr
<1>11. WireInv'
  BY <1>1, <1>3, <1>5, <1>6, <1>7, <1>8, <1>9, <1>10, OneConnectionChanges
<1> QED BY <1>1, <1>5, <1>11, RestUnchanged DEF IInv

-----------------------------------------------------------------------------
(* The manager and its queue *)

Questions == [id : Index, alive : BOOLEAN]

\* The types of the messages of the manager.
LEMMA MessageTypes ==
  ASSUME NEW m \in Messages
  PROVE  \/ m = Connect(link) /\ m.type = "Connect" /\ m.type \notin {"Accept", "Reject"}
         \/ \E i \in Index : m = Accept(i) /\ m.type = "Accept" /\ m.index = i
         \/ \E i \in Index : m = Reject(i) /\ m.type = "Reject" /\ m.index = i
BY DEF Messages, Connect, Accept, Reject

\* A message is put into the queue.
LEMMA QueueAppend ==
  ASSUME NEW q \in Seq(Messages), NEW m \in Messages
  PROVE  /\ Append(q, m) \in Seq(Messages)
         /\ DOMAIN Append(q, m) = DOMAIN q \cup {Len(q) + 1} /\ Len(q) + 1 \notin DOMAIN q
         /\ \A k \in DOMAIN q : Append(q, m)[k] = q[k]
         /\ Append(q, m)[Len(q) + 1] = m
<1>1. Len(q) \in Nat /\ DOMAIN q = 1 .. Len(q) /\ Append(q, m) \in Seq(Messages) /\ Len(Append(q, m)) = Len(q) + 1
  OBVIOUS
<1>2. DOMAIN Append(q, m) = 1 .. Len(q) + 1
  BY <1>1
<1>3. 1 .. Len(q) + 1 = (1 .. Len(q)) \cup {Len(q) + 1} /\ Len(q) + 1 \notin 1 .. Len(q)
  BY <1>1
<1> QED BY <1>1, <1>2, <1>3

\* The oldest message is read.
LEMMA QueueTail ==
  ASSUME NEW q \in Seq(Messages), q # <<>>
  PROVE  /\ Tail(q) \in Seq(Messages) /\ Head(q) \in Messages
         /\ 1 \in DOMAIN q /\ q[1] = Head(q)
         /\ \A k \in DOMAIN Tail(q) : k \in Nat /\ k + 1 \in DOMAIN q /\ k + 1 # 1 /\ Tail(q)[k] = q[k + 1]
         /\ \A k \in DOMAIN q : k # 1 => k - 1 \in DOMAIN Tail(q) /\ Tail(q)[k - 1] = q[k]
<1>1. Len(q) \in Nat /\ Len(q) >= 1 /\ DOMAIN q = 1 .. Len(q) /\ Tail(q) \in Seq(Messages) /\ Len(Tail(q)) = Len(q) - 1
  OBVIOUS
<1>2. DOMAIN Tail(q) = 1 .. Len(q) - 1
  BY <1>1
<1>3. Head(q) \in Messages /\ q[1] = Head(q)
  OBVIOUS
<1>4. \A k \in 1 .. Len(q) - 1 : Tail(q)[k] = q[k + 1]
  OBVIOUS
<1>5. ASSUME NEW k \in DOMAIN Tail(q)
      PROVE  k \in Nat /\ k + 1 \in DOMAIN q /\ k + 1 # 1 /\ Tail(q)[k] = q[k + 1]
  BY <1>1, <1>2, <1>4
<1>6. ASSUME NEW k \in DOMAIN q, k # 1
      PROVE  k - 1 \in DOMAIN Tail(q) /\ Tail(q)[k - 1] = q[k]
  <2>1. k - 1 \in 1 .. Len(q) - 1 /\ (k - 1) + 1 = k
    BY <1>1, <1>6
  <2> QED BY <2>1, <1>2, <1>4
<1>7. 1 \in DOMAIN q
  BY <1>1
<1> QED BY <1>1, <1>3, <1>5, <1>6, <1>7

\* The messages that ask for the link, or for nothing.
LEMMA OrdersAre ==
  ASSUME NEW C \in SUBSET {link}, NEW r \in Orders(C, {})
  PROVE  \/ C = {} /\ r = <<>>
         \/ C = {link} /\ r = <<Connect(link)>>
<1>1. CASE C = {}
  <2>1. {Connect(l) : l \in C} \cup {Drop(l) : l \in {}} = {}
    BY <1>1
  <2>2. r \in SetToSeqs({})
    BY <2>1 DEF Orders
  <2>3. Cardinality({}) = 0
    BY FS_EmptySet
  <2>4. 1 .. 0 = {}
    OBVIOUS
  <2>5. r \in [{} -> {}]
    BY <2>2, <2>3, <2>4 DEF SetToSeqs
  <2>6. r = <<>>
    BY <2>5
  <2> QED BY <1>1, <2>6
<1>2. CASE C = {link}
  <2> DEFINE m == Connect(link)
  <2>1. {Connect(l) : l \in C} \cup {Drop(l) : l \in {}} = {m}
    BY <1>2
  <2> HIDE DEF m
  <2>2. r \in SetToSeqs({m})
    BY <2>1 DEF Orders
  <2>3. Cardinality({m}) = 1
    BY FS_Singleton
  <2>4. r \in [1 .. 1 -> {m}]
    BY <2>2, <2>3 DEF SetToSeqs
  <2>5. 1 .. 1 = {1}
    OBVIOUS
  <2>6. r = <<m>>
    BY <2>4, <2>5
  <2> QED BY <1>2, <2>6 DEF m
<1>3. C = {} \/ C = {link}
  OBVIOUS
<1> QED BY <1>1, <1>2, <1>3

\* What the manager does when the link is dropped.
LEMMA DroppedIs ==
  ASSUME connected \subseteq {link}, NEW q \in Seq(Messages), dropped(link, q)
  PROVE  \/ connected' = {} /\ message_queue' = q
         \/ connected' = {link} /\ message_queue' = Append(q, Connect(link))
<1>1. PICK C \in SUBSET ((Link \ connected) \cup {link}) :
         /\ connected' = (connected \ {link}) \cup C
         /\ \E r \in Orders(C, {}) : message_queue' = q \o r
  BY DEF dropped
<1>2. PICK r \in Orders(C, {}) : message_queue' = q \o r
  BY <1>1
<1>3. C \in SUBSET {link}
  BY LinkAssumption
<1>4. connected' = C
  BY <1>1, <1>3
<1> DEFINE m == Connect(link)
<1>5. m \in Messages
  BY DEF Messages
<1>6. \/ C = {} /\ r = <<>>
      \/ C = {link} /\ r = <<Connect(link)>>
  BY <1>2, <1>3, OrdersAre
<1> HIDE DEF m
<1>7. q \o <<m>> = Append(q, m) /\ q \o <<>> = q
  BY <1>5, AppendIsConcat
<1> QED BY <1>2, <1>4, <1>6, <1>7 DEF m

\* A new message that makes the network want the link.
LEMMA WantAppend ==
  ASSUME NEW q \in Seq(Messages), NEW m \in Messages, m.type \in {"Connect", "Accept"}, Wanting(q) = {},
         NEW st, st \notin Requesting, NEW con, link \in con
  PROVE  WantOk(st, con, Append(q, m))
<1>1. Wanting(Append(q, m)) = {Len(q) + 1}
  BY QueueAppend DEF Wanting
<1> QED BY <1>1 DEF WantOk

\* A new message that does not.
LEMMA WantAppendOther ==
  ASSUME NEW q \in Seq(Messages), NEW m \in Messages, m.type \notin {"Connect", "Accept"},
         NEW st, NEW con, WantOk(st, con, q)
  PROVE  WantOk(st, con, Append(q, m))
<1>1. Wanting(Append(q, m)) = Wanting(q)
  BY QueueAppend DEF Wanting
<1> QED BY <1>1 DEF WantOk

\* A Connect is no answer.
LEMMA AnswerAppendConnect ==
  ASSUME NEW q \in Seq(Messages), NEW S, AnswerOk(q, S)
  PROVE  AnswerOk(Append(q, Connect(link)), S)
<1> DEFINE m == Connect(link)
<1>1. m \in Messages /\ m.type \notin {"Accept", "Reject"}
  BY DEF Messages, Connect
<1> HIDE DEF m
<1>2. Answers(Append(q, m)) = Answers(q) /\ \A k \in Answers(q) : Append(q, m)[k] = q[k]
  BY <1>1, QueueAppend DEF Answers
<1>3. AnswerOk(Append(q, m), S)
  BY <1>2 DEF AnswerOk
<1> QED BY <1>3 DEF m

\* An answer to a new question.
LEMMA AnswerAppend ==
  ASSUME NEW q \in Seq(Messages), NEW S, AnswerOk(q, S), NEW m \in Messages, m.type \in {"Accept", "Reject"},
         NEW T, S \subseteq T, \A e \in S : e.id # m.index, \E e \in T : e.id = m.index
  PROVE  AnswerOk(Append(q, m), T)
<1> DEFINE r == Append(q, m)
           n == Len(q) + 1
<1>1. /\ Answers(r) = Answers(q) \cup {n} /\ n \notin Answers(q) /\ r[n] = m
      /\ \A k \in Answers(q) : r[k] = q[k]
  BY QueueAppend DEF Answers
<1> HIDE DEF r, n
<1>2. \A k \in Answers(q) : \E e \in S : e.id = q[k].index
  BY DEF AnswerOk
<1>3. \A k \in Answers(q) : q[k].index # m.index
  BY <1>2
<1>4. \A k \in Answers(r) : \E e \in T : e.id = r[k].index
  BY <1>1, <1>2
<1>5. \A k, l \in Answers(r) : r[k].index = r[l].index => k = l
  <2> SUFFICES ASSUME NEW k \in Answers(r), NEW l \in Answers(r), r[k].index = r[l].index PROVE k = l
    OBVIOUS
  <2>1. CASE k \in Answers(q) /\ l \in Answers(q)
    BY <2>1, <1>1 DEF AnswerOk
  <2>2. CASE k = n /\ l \in Answers(q)
    BY <2>2, <1>1, <1>3
  <2>3. CASE k \in Answers(q) /\ l = n
    BY <2>3, <1>1, <1>3
  <2> QED BY <1>1, <2>1, <2>2, <2>3
<1> QED BY <1>4, <1>5 DEF AnswerOk, r

\* Reading a message that does not make the network want the link.
LEMMA WantTailOther ==
  ASSUME NEW q \in Seq(Messages), q # <<>>, Head(q).type \notin {"Connect", "Accept"},
         NEW st, NEW con, WantOk(st, con, q)
  PROVE  WantOk(st, con, Tail(q))
<1>1. \A k \in Wanting(Tail(q)) : k \in Nat /\ k + 1 \in Wanting(q)
  BY QueueTail DEF Wanting
<1>2. \A k \in Wanting(q) : k # 1 /\ k - 1 \in Wanting(Tail(q))
  BY QueueTail DEF Wanting
<1>3. Wanting(q) # {} <=> Wanting(Tail(q)) # {}
  BY <1>1, <1>2
<1>4. ASSUME NEW k \in Wanting(Tail(q)), NEW l \in Wanting(Tail(q)) PROVE k = l
  <2>1. k + 1 = l + 1 /\ k \in Nat /\ l \in Nat
    BY <1>1 DEF WantOk
  <2> QED BY <2>1
<1> QED BY <1>3, <1>4 DEF WantOk

\* Reading the message that makes the network want the link.
LEMMA WantTail ==
  ASSUME NEW q \in Seq(Messages), q # <<>>, Head(q).type \in {"Connect", "Accept"},
         NEW st, NEW con, WantOk(st, con, q)
  PROVE  link \in con /\ st \notin Requesting /\ Wanting(Tail(q)) = {}
<1>1. 1 \in Wanting(q)
  BY QueueTail DEF Wanting
<1>2. \A k \in Wanting(Tail(q)) : k + 1 \in Wanting(q) /\ k + 1 # 1
  BY QueueTail DEF Wanting
<1>3. Wanting(Tail(q)) = {}
  BY <1>1, <1>2 DEF WantOk
<1> QED BY <1>1, <1>3 DEF WantOk

\* A queue that asks for nothing.
LEMMA WantEmpty ==
  ASSUME NEW q, Wanting(q) = {}, NEW st, NEW con, link \in con <=> st \in Requesting
  PROVE  WantOk(st, con, q)
BY DEF WantOk

\* The answers that are left when a message is read.
LEMMA AnswerTail ==
  ASSUME NEW q \in Seq(Messages), q # <<>>, NEW S, AnswerOk(q, S)
  PROVE  AnswerOk(Tail(q), S)
<1>1. \A k \in Answers(Tail(q)) : k \in Nat /\ k + 1 \in Answers(q) /\ Tail(q)[k] = q[k + 1]
  BY QueueTail DEF Answers
<1>2. ASSUME NEW k \in Answers(Tail(q)), NEW l \in Answers(Tail(q)), Tail(q)[k].index = Tail(q)[l].index
      PROVE  k = l
  <2>1. /\ k + 1 \in Answers(q) /\ l + 1 \in Answers(q) /\ k \in Nat /\ l \in Nat
        /\ q[k + 1].index = q[l + 1].index
    BY <1>1, <1>2
  <2>2. k + 1 = l + 1
    BY <2>1 DEF AnswerOk
  <2> QED BY <2>1, <2>2
<1>3. ASSUME NEW k \in Answers(Tail(q)) PROVE \E e \in S : e.id = Tail(q)[k].index
  <2>1. k + 1 \in Answers(q) /\ Tail(q)[k] = q[k + 1]
    BY <1>1
  <2>2. PICK e \in S : e.id = q[k + 1].index
    BY <2>1 DEF AnswerOk
  <2> QED BY <2>1, <2>2
<1> QED BY <1>2, <1>3 DEF AnswerOk

\* Reading the answer to the question e.
LEMMA AnswerRead ==
  ASSUME NEW q \in Seq(Messages), q # <<>>, Head(q).type \in {"Accept", "Reject"}, NEW S, AnswerOk(q, S),
         NEW e, e.id = Head(q).index
  PROVE  AnswerOk(Tail(q), S \ {e})
<1>1. AnswerOk(Tail(q), S)
  BY AnswerTail
<1>2. 1 \in Answers(q) /\ q[1] = Head(q)
  BY QueueTail DEF Answers
<1>3. ASSUME NEW k \in Answers(Tail(q)) PROVE Tail(q)[k].index # e.id
  <2>1. k + 1 \in Answers(q) /\ k + 1 # 1 /\ Tail(q)[k] = q[k + 1]
    BY QueueTail DEF Answers
  <2> QED BY <2>1, <1>2 DEF AnswerOk
<1> QED BY <1>1, <1>3 DEF AnswerOk

\* Questions that nothing reads again are forgotten.
LEMMA AwaitedOk ==
  ASSUME NEW S \in SUBSET Questions, message_queue' \in Seq(Messages), NEW st,
         AnswerOk(message_queue', S), QuestionOk(st, S)
  PROVE  /\ Awaited(S) \subseteq Questions
         /\ AnswerOk(message_queue', Awaited(S)) /\ QuestionOk(st, Awaited(S))
<1> DEFINE q == message_queue'
           A == Awaited(S)
<1>1. A \subseteq S
  BY DEF Awaited
<1>2. \A e \in S : e.alive => e \in A
  BY DEF Awaited
<1>3. ASSUME NEW k \in Answers(q) PROVE \E e \in A : e.id = q[k].index
  <2>1. PICK e \in S : e.id = q[k].index
    BY DEF AnswerOk
  <2>2. k \in DOMAIN q /\ q[k] \in Messages /\ q[k].type \in {"Accept", "Reject"}
    BY DEF Answers
  <2>3. q[k] \in {Accept(e.id), Reject(e.id)}
    BY <2>1, <2>2, MessageTypes
  <2>4. e \in A
    BY <2>2, <2>3 DEF Awaited
  <2> QED BY <2>1, <2>4
<1> HIDE DEF A
<1>4. AnswerOk(q, A)
  BY <1>3 DEF AnswerOk
<1>5. QuestionOk(st, A)
  BY <1>1, <1>2 DEF QuestionOk
<1> QED BY <1>1, <1>4, <1>5 DEF A

\* The questions once the outcome has marked them.
Marked(S, obsolete) == {[e EXCEPT !.alive = @ /\ ~obsolete] : e \in S}

\* Questions that are not obsolete stay as they are.
LEMMA MarkedSame ==
  ASSUME NEW S \in SUBSET Questions, NEW obsolete, obsolete = FALSE
  PROVE  Marked(S, obsolete) = S
<1>1. \A e \in S : [e EXCEPT !.alive = @ /\ ~obsolete] = e
  <2> SUFFICES ASSUME NEW e \in S PROVE [e EXCEPT !.alive = @ /\ ~obsolete] = e
    OBVIOUS
  <2>1. e \in Questions /\ e.alive \in BOOLEAN
    BY DEF Questions
  <2>2. (e.alive /\ ~obsolete) = e.alive
    BY <2>1
  <2>3. [e EXCEPT !.alive = @ /\ ~obsolete] = [e EXCEPT !.alive = e.alive]
    BY <2>2
  <2> QED BY <2>1, <2>3 DEF Questions
<1> QED BY <1>1 DEF Marked

\* T has the questions of S, none of them alive.
Buries(T, S) ==
  /\ T \subseteq Questions
  /\ \A f \in T : f.alive = FALSE
  /\ \A e \in S : \E f \in T : f.id = e.id

\* Questions that are obsolete are not alive any more.
LEMMA MarkedDead ==
  ASSUME NEW S \in SUBSET Questions, NEW obsolete, obsolete = TRUE
  PROVE  Buries(Marked(S, obsolete), S)
<1> DEFINE dead(e) == [e EXCEPT !.alive = @ /\ ~obsolete]
<1>1. ASSUME NEW e \in S
      PROVE  dead(e) \in Questions /\ dead(e).alive = FALSE /\ dead(e).id = e.id
  <2>1. e \in Questions
    OBVIOUS
  <2>2. (e.alive /\ ~obsolete) = FALSE
    OBVIOUS
  <2>3. dead(e) = [e EXCEPT !.alive = FALSE]
    BY <2>2
  <2> QED BY <2>1, <2>3 DEF Questions
<1>2. Marked(S, obsolete) = {dead(e) : e \in S}
  BY DEF Marked
<1> HIDE DEF dead
<1> QED BY <1>1, <1>2 DEF Buries

\* When every question is dead, no entry waits for an answer.
LEMMA DeadQuestions ==
  ASSUME NEW S, NEW T, Buries(T, S), NEW st, st # "Incoming", NEW q, AnswerOk(q, S)
  PROVE  AnswerOk(q, T) /\ QuestionOk(st, T)
<1>0. /\ T \subseteq Questions /\ (\A f \in T : f.alive = FALSE)
      /\ \A e \in S : \E f \in T : f.id = e.id
  BY DEF Buries
<1>1. AnswerOk(q, T)
  <2>1. ASSUME NEW k \in Answers(q) PROVE \E f \in T : f.id = q[k].index
    <3>1. PICK e \in S : e.id = q[k].index
      BY DEF AnswerOk
    <3>2. PICK f \in T : f.id = e.id
      BY <1>0
    <3> QED BY <3>1, <3>2
  <2> QED BY <2>1 DEF AnswerOk
<1>2. \A e, f \in T : e.id = f.id => e = f
  <2> SUFFICES ASSUME NEW e \in T, NEW f \in T, e.id = f.id PROVE e = f
    OBVIOUS
  <2>1. e \in Questions /\ f \in Questions /\ e.alive = f.alive
    BY <1>0
  <2> QED BY <2>1 DEF Questions
<1>3. QuestionOk(st, T)
  BY <1>0, <1>2 DEF QuestionOk
<1> QED BY <1>1, <1>3

\* What React has to give for the manager's part of the invariant.
LEMMA ManagerFrom ==
  ASSUME connected' \subseteq {link}, message_queue' \in Seq(Messages), NEW T \in SUBSET Questions,
         incoming_peers' = Awaited(T), WantOk(peer'.st, connected', message_queue'),
         AnswerOk(message_queue', T), QuestionOk(peer'.st, T)
  PROVE  ManagerInv'
<1>1. /\ Awaited(T) \subseteq Questions /\ AnswerOk(message_queue', Awaited(T))
      /\ QuestionOk(peer'.st, Awaited(T))
  BY AwaitedOk
<1> QED BY <1>1 DEF ManagerInv, Questions

\* What React does to the manager, without a question to it.
LEMMA ReactsWithoutAsking ==
  ASSUME NEW o, React(o), o.asks = FALSE
  PROVE  /\ incoming_peers' = Awaited(Marked(o.incoming, o.obsolete))
         /\ o.drops = TRUE => dropped(link, o.unread)
         /\ o.drops = FALSE => message_queue' = o.unread /\ connected' = connected
         /\ api' = o.api
         /\ expected' = (expected /\ o.expected /\ (o.drops => link \in connected))
<1>1. incoming_peers' = Awaited(Marked(o.incoming, o.obsolete) \cup {})
  BY DEF React, Marked
<1>2. Marked(o.incoming, o.obsolete) \cup {} = Marked(o.incoming, o.obsolete)
  OBVIOUS
<1>3. o.drops = TRUE => dropped(link, o.unread)
  BY DEF React
<1>4. o.drops = FALSE => message_queue' = o.unread /\ connected' = connected
  BY DEF React
<1>5. api' = o.api /\ expected' = (expected /\ o.expected /\ (o.drops => link \in connected))
  BY DEF React
<1> QED BY <1>1, <1>2, <1>3, <1>4, <1>5

\* The parts of ManagerInv.
LEMMA ManagerTypes ==
  ASSUME ManagerInv
  PROVE  /\ connected \subseteq {link} /\ message_queue \in Seq(Messages) /\ incoming_peers \in SUBSET Questions
         /\ WantOk(peer.st, connected, message_queue) /\ AnswerOk(message_queue, incoming_peers)
         /\ QuestionOk(peer.st, incoming_peers)
BY DEF ManagerInv, Questions

\* The manager is not told of anything.
LEMMA QuietManager ==
  ASSUME ManagerInv, NEW o, React(o), o.drops = FALSE, o.asks = FALSE, o.obsolete = FALSE,
         o.unread = message_queue, o.incoming = incoming_peers,
         peer'.st \in Requesting <=> peer.st \in Requesting,
         peer'.st = "Incoming" <=> peer.st = "Incoming"
  PROVE  ManagerInv'
<1>1. Marked(o.incoming, o.obsolete) = incoming_peers
  BY ManagerTypes, MarkedSame
<1>2. incoming_peers' = Awaited(incoming_peers) /\ message_queue' = message_queue /\ connected' = connected
  BY <1>1, ReactsWithoutAsking
<1>3. WantOk(peer'.st, connected', message_queue') /\ QuestionOk(peer'.st, incoming_peers)
  BY <1>2, ManagerTypes DEF WantOk, QuestionOk
<1> QED BY <1>2, <1>3, ManagerTypes, ManagerFrom

\* The manager is told that a link that the network wanted is dropped.
LEMMA DropManager ==
  ASSUME ManagerInv, NEW o, React(o), o.drops = TRUE, o.asks = FALSE, o.obsolete = FALSE,
         o.unread = message_queue, o.incoming = incoming_peers,
         peer.st \in Requesting, peer'.st \notin Requesting, peer'.st # "Incoming"
  PROVE  ManagerInv' /\ link \in connected
<1>0. link \in connected /\ Wanting(message_queue) = {} /\ peer.st # "Incoming"
  BY ManagerTypes DEF WantOk, Requesting
<1>1. Marked(o.incoming, o.obsolete) = incoming_peers
  BY ManagerTypes, MarkedSame
<1>2. incoming_peers' = Awaited(incoming_peers) /\ dropped(link, message_queue)
  BY <1>1, ReactsWithoutAsking
<1>3. QuestionOk(peer'.st, incoming_peers)
  BY <1>0, ManagerTypes DEF QuestionOk
<1>4. CASE connected' = {} /\ message_queue' = message_queue
  <2>1. WantOk(peer'.st, connected', message_queue')
    BY <1>0, <1>4, WantEmpty
  <2> QED BY <1>0, <1>2, <1>3, <1>4, <2>1, ManagerTypes, ManagerFrom
<1>5. CASE connected' = {link} /\ message_queue' = Append(message_queue, Connect(link))
  <2>1. Connect(link) \in Messages /\ Connect(link).type \in {"Connect", "Accept"}
    BY DEF Messages, Connect
  <2>2. WantOk(peer'.st, connected', message_queue')
    BY <1>0, <1>5, <2>1, ManagerTypes, WantAppend
  <2>3. AnswerOk(message_queue', incoming_peers) /\ message_queue' \in Seq(Messages)
    BY <1>5, <2>1, ManagerTypes, AnswerAppendConnect, QueueAppend
  <2> QED BY <1>0, <1>2, <1>3, <1>5, <2>2, <2>3, ManagerTypes, ManagerFrom
<1> QED BY <1>2, <1>4, <1>5, ManagerTypes, DroppedIs

\* The question to the manager is not alive any more.
LEMMA ObsoleteManager ==
  ASSUME ManagerInv, NEW o, React(o), o.drops = FALSE, o.asks = FALSE, o.obsolete = TRUE,
         o.unread = message_queue, o.incoming = incoming_peers,
         peer.st = "Incoming", peer'.st \notin Requesting, peer'.st # "Incoming"
  PROVE  ManagerInv'
<1> DEFINE T == Marked(o.incoming, o.obsolete)
<1>1. Buries(T, incoming_peers) /\ T \in SUBSET Questions
  BY ManagerTypes, MarkedDead DEF Buries
<1>2. incoming_peers' = Awaited(T) /\ message_queue' = message_queue /\ connected' = connected
  BY ReactsWithoutAsking
<1> HIDE DEF T
<1>3. AnswerOk(message_queue, T) /\ QuestionOk(peer'.st, T)
  <2>1. AnswerOk(message_queue, incoming_peers)
    BY ManagerTypes
  <2> QED BY <1>1, <2>1, DeadQuestions
<1>4. WantOk(peer'.st, connected', message_queue')
  BY <1>2, ManagerTypes DEF WantOk, Requesting
<1> QED BY <1>1, <1>2, <1>3, <1>4, ManagerTypes, ManagerFrom

\* The manager is asked about a substream that the remote wants.
LEMMA AskManager ==
  ASSUME ManagerInv, NEW o, React(o), o.drops = FALSE, o.asks = TRUE, o.obsolete = FALSE,
         o.incoming = incoming_peers, {e.id : e \in incoming_peers} # Index,
         peer.st \notin Requesting, peer.st # "Incoming", peer'.st = "Incoming"
  PROVE  ManagerInv'
<1> DEFINE i == next_incoming_index
           new == [id |-> i, alive |-> TRUE]
           T == incoming_peers \cup {new}
<1>1. i \in Index /\ \A e \in incoming_peers : e.id # i
  <2> DEFINE F == Index \ {e.id : e \in incoming_peers}
  <2>1. {e.id : e \in incoming_peers} \subseteq Index
    BY ManagerTypes DEF Questions
  <2>2. F \in SUBSET Nat /\ F # {}
    BY <2>1, IdAssumption
  <2>3. i \in F
    BY <2>2, MinIsLeast DEF next_incoming_index
  <2> QED BY <2>3
<1>2. Marked(o.incoming, o.obsolete) = incoming_peers
  BY ManagerTypes, MarkedSame
<1>3. incoming_peers' = Awaited(T)
  <2>1. incoming_peers' = Awaited(Marked(o.incoming, o.obsolete) \cup {[id |-> next_incoming_index, alive |-> TRUE]})
    BY DEF React, Marked
  <2> QED BY <2>1, <1>2
<1>4. incoming(link, i)
  BY DEF React
<1> HIDE DEF i
<1>5. new \in Questions /\ new.id = i /\ new.alive = TRUE
  BY <1>1 DEF Questions
<1> HIDE DEF new
<1>6. T \in SUBSET Questions /\ incoming_peers \subseteq T /\ new \in T
  BY <1>5, ManagerTypes
<1>7. QuestionOk(peer'.st, T)
  <2>1. /\ \A e, f \in incoming_peers : e.id = f.id => e = f
        /\ \A e \in incoming_peers : ~e.alive
    BY ManagerTypes DEF QuestionOk
  <2> QED BY <1>1, <1>5, <2>1 DEF QuestionOk
<1>8. CASE link \in connected
  <2>1. connected' = connected /\ message_queue' = message_queue
    BY <1>4, <1>8 DEF incoming, contractVars
  <2>2. WantOk(peer'.st, connected', message_queue')
    BY <2>1, ManagerTypes DEF WantOk, Requesting
  <2>3. AnswerOk(message_queue', T)
    BY <2>1, <1>6, ManagerTypes DEF AnswerOk
  <2> HIDE DEF T
  <2> QED BY <1>3, <1>6, <1>7, <2>1, <2>2, <2>3, ManagerTypes, ManagerFrom
<1>9. CASE link \notin connected
  <2>1. \/ connected' = connected \cup {link} /\ message_queue' = Append(message_queue, Accept(i))
        \/ connected' = connected /\ message_queue' = Append(message_queue, Reject(i))
    BY <1>4, <1>9 DEF incoming
  <2>2. /\ Accept(i) \in Messages /\ Accept(i).type = "Accept" /\ Accept(i).index = i
        /\ Reject(i) \in Messages /\ Reject(i).type = "Reject" /\ Reject(i).index = i
    BY <1>1 DEF Messages, Accept, Reject
  <2>3. Wanting(message_queue) = {} /\ peer'.st \notin Requesting
    BY <1>9, ManagerTypes DEF WantOk, Requesting
  <2>4. PICK m \in {Accept(i), Reject(i)} : message_queue' = Append(message_queue, m)
    BY <2>1
  <2>5. m \in Messages /\ m.type \in {"Accept", "Reject"} /\ m.index = i
    BY <2>2
  <2>6. WantOk(peer'.st, connected', message_queue')
    <3>1. CASE connected' = connected \cup {link} /\ message_queue' = Append(message_queue, Accept(i))
      BY <3>1, <2>2, <2>3, ManagerTypes, WantAppend
    <3>2. CASE connected' = connected /\ message_queue' = Append(message_queue, Reject(i))
      <4>1. WantOk(peer'.st, connected, message_queue)
        BY <1>9, <2>3, WantEmpty
      <4>2. Reject(i).type \notin {"Connect", "Accept"}
        BY <2>2
      <4> QED BY <3>2, <4>1, <4>2, <2>2, ManagerTypes, WantAppendOther
    <3> QED BY <2>1, <3>1, <3>2
  <2>7. AnswerOk(message_queue', T)
    BY <2>4, <2>5, <1>1, <1>5, <1>6, ManagerTypes, AnswerAppend
  <2>8. message_queue' \in Seq(Messages) /\ connected' \subseteq {link}
    BY <2>1, <2>2, ManagerTypes, QueueAppend
  <2> HIDE DEF T
  <2> QED BY <1>3, <1>6, <1>7, <2>6, <2>7, <2>8, ManagerFrom
<1> QED BY <1>8, <1>9

\* The network reads that the manager wants the link.
LEMMA ConnectManager ==
  ASSUME ManagerInv, NEW o, React(o), o.drops = FALSE, o.asks = FALSE, o.obsolete = (peer.st = "Incoming"),
         message_queue # <<>>, Head(message_queue).type = "Connect",
         o.unread = Tail(message_queue), o.incoming = incoming_peers, peer'.st \in Requesting
  PROVE  ManagerInv'
<1>1. link \in connected /\ Wanting(Tail(message_queue)) = {}
  BY ManagerTypes, WantTail
<1>2. /\ incoming_peers' = Awaited(Marked(incoming_peers, o.obsolete))
      /\ message_queue' = Tail(message_queue) /\ connected' = connected
  BY ReactsWithoutAsking
<1>3. WantOk(peer'.st, connected', message_queue')
  BY <1>1, <1>2, WantEmpty
<1>4. AnswerOk(message_queue', incoming_peers) /\ message_queue' \in Seq(Messages)
  BY <1>2, ManagerTypes, AnswerTail, QueueTail
<1>5. peer'.st # "Incoming"
  BY DEF Requesting
<1> DEFINE T == Marked(incoming_peers, o.obsolete)
<1>6. T \in SUBSET Questions /\ AnswerOk(message_queue', T) /\ QuestionOk(peer'.st, T)
  <2>1. CASE peer.st = "Incoming"
    <3>1. o.obsolete = TRUE
      BY <2>1
    <3>2. Buries(T, incoming_peers) /\ T \in SUBSET Questions
      BY <3>1, ManagerTypes, MarkedDead DEF Buries
    <3> QED BY <3>2, <1>4, <1>5, DeadQuestions
  <2>2. CASE peer.st # "Incoming"
    <3>1. o.obsolete = FALSE
      BY <2>2
    <3>2. T = incoming_peers
      BY <3>1, ManagerTypes, MarkedSame
    <3> QED BY <3>2, <2>2, <1>4, <1>5, ManagerTypes DEF QuestionOk
  <2> QED BY <2>1, <2>2
<1> HIDE DEF T
<1> QED BY <1>2, <1>3, <1>4, <1>6, ManagerTypes, ManagerFrom DEF T

\* The question that the oldest message answers.
LEMMA AnsweredIs ==
  ASSUME ManagerInv, message_queue # <<>>, Head(message_queue).type \in {"Accept", "Reject"}
  PROVE  \E e \in incoming_peers : /\ Answered(Head(message_queue)) = {e}
                                   /\ e.id = Head(message_queue).index
                                   /\ e \in Questions /\ e.alive \in BOOLEAN
<1>1. 1 \in Answers(message_queue) /\ message_queue[1] = Head(message_queue)
  BY ManagerTypes, QueueTail DEF Answers
<1>2. PICK e \in incoming_peers : e.id = Head(message_queue).index
  BY <1>1, ManagerTypes DEF AnswerOk
<1>3. Answered(Head(message_queue)) = {e}
  BY <1>2, ManagerTypes DEF Answered, QuestionOk
<1>4. e \in Questions /\ e.alive \in BOOLEAN
  BY ManagerTypes DEF Questions
<1> QED BY <1>2, <1>3, <1>4

\* What the answer to a question does to the entry.
Settles(alive, old, new) ==
  IF alive THEN new # "Incoming" ELSE new = "Incoming" <=> old = "Incoming"
Decides(type, old, new) ==
  IF type = "Accept" THEN new \in Requesting ELSE new \in Requesting <=> old \in Requesting

\* The questions but for e.
LEMMA QuestionsWithout ==
  ASSUME NEW S \in SUBSET Questions, NEW e \in S, NEW st, NEW st2, QuestionOk(st, S),
         Settles(e.alive, st, st2)
  PROVE  QuestionOk(st2, S \ {e})
BY DEF QuestionOk, Questions, Settles

\* The network reads an answer to the question e.
LEMMA AnswerManager ==
  ASSUME ManagerInv, NEW o, React(o), o.drops = FALSE, o.asks = FALSE, o.obsolete = FALSE,
         message_queue # <<>>, Head(message_queue).type \in {"Accept", "Reject"},
         NEW e \in incoming_peers, e.id = Head(message_queue).index,
         o.unread = Tail(message_queue), o.incoming = incoming_peers \ {e},
         Settles(e.alive, peer.st, peer'.st), Decides(Head(message_queue).type, peer.st, peer'.st)
  PROVE  ManagerInv'
<1> DEFINE T == incoming_peers \ {e}
<1>1. T \in SUBSET Questions
  BY ManagerTypes
<1>2. Marked(o.incoming, o.obsolete) = T
  BY <1>1, MarkedSame
<1>3. incoming_peers' = Awaited(T) /\ message_queue' = Tail(message_queue) /\ connected' = connected
  BY <1>2, ReactsWithoutAsking
<1>4. AnswerOk(message_queue', T) /\ message_queue' \in Seq(Messages)
  BY <1>3, ManagerTypes, AnswerRead, QueueTail
<1>5. QuestionOk(peer'.st, T)
  BY ManagerTypes, QuestionsWithout
<1>6. WantOk(peer'.st, connected', message_queue')
  <2>1. CASE Head(message_queue).type = "Accept"
    <3>1. link \in connected /\ Wanting(Tail(message_queue)) = {}
      BY <2>1, ManagerTypes, WantTail
    <3>2. peer'.st \in Requesting
      BY <2>1 DEF Decides
    <3> QED BY <3>1, <3>2, <1>3, WantEmpty
  <2>2. CASE Head(message_queue).type = "Reject"
    <3>1. WantOk(peer.st, connected, Tail(message_queue))
      BY <2>2, ManagerTypes, WantTailOther
    <3> QED BY <3>1, <2>2, <1>3 DEF WantOk, Decides
  <2> QED BY <2>1, <2>2
<1> HIDE DEF T
<1> QED BY <1>1, <1>3, <1>4, <1>5, <1>6, ManagerTypes, ManagerFrom

\* The network reads an acceptance that comes too late, and drops the link.
LEMMA StaleAcceptManager ==
  ASSUME ManagerInv, NEW o, React(o), o.drops = TRUE, o.asks = FALSE, o.obsolete = FALSE,
         message_queue # <<>>, Head(message_queue).type = "Accept",
         NEW e \in incoming_peers, e.id = Head(message_queue).index, ~e.alive,
         o.unread = Tail(message_queue), o.incoming = incoming_peers \ {e}, peer'.st = peer.st
  PROVE  ManagerInv' /\ link \in connected
<1> DEFINE T == incoming_peers \ {e}
           q == Tail(message_queue)
<1>1. T \in SUBSET Questions
  BY ManagerTypes
<1>2. Marked(o.incoming, o.obsolete) = T
  BY <1>1, MarkedSame
<1>3. incoming_peers' = Awaited(T) /\ dropped(link, q)
  BY <1>2, ReactsWithoutAsking
<1>4. link \in connected /\ peer.st \notin Requesting /\ Wanting(q) = {}
  BY ManagerTypes, WantTail
<1>5. AnswerOk(q, T) /\ q \in Seq(Messages)
  BY ManagerTypes, AnswerRead, QueueTail
<1>6. QuestionOk(peer'.st, T)
  <2>1. Settles(e.alive, peer.st, peer'.st)
    BY DEF Settles
  <2> QED BY <2>1, ManagerTypes, QuestionsWithout
<1> HIDE DEF T, q
<1>7. CASE connected' = {} /\ message_queue' = q
  <2>1. WantOk(peer'.st, connected', message_queue')
    BY <1>4, <1>7, WantEmpty
  <2> QED BY <1>1, <1>3, <1>4, <1>5, <1>6, <1>7, <2>1, ManagerFrom
<1>8. CASE connected' = {link} /\ message_queue' = Append(q, Connect(link))
  <2>1. Connect(link) \in Messages /\ Connect(link).type \in {"Connect", "Accept"}
    BY DEF Messages, Connect
  <2>2. WantOk(peer'.st, connected', message_queue')
    BY <1>4, <1>5, <1>8, <2>1, WantAppend
  <2>3. AnswerOk(message_queue', T) /\ message_queue' \in Seq(Messages)
    BY <1>5, <1>8, <2>1, AnswerAppendConnect, QueueAppend
  <2> QED BY <1>1, <1>3, <1>4, <1>6, <1>8, <2>2, <2>3, ManagerFrom
<1> QED BY <1>3, <1>5, <1>7, <1>8, ManagerTypes, DroppedIs

-----------------------------------------------------------------------------
(* The connections of an entry *)

\* What the connections of an entry are.
LEMMA ConnectionsAre ==
  ASSUME NEW conns \in Connections
  PROVE  /\ conns \in Seq([id : Conn, state : View]) /\ Len(conns) \in Nat /\ DOMAIN conns = 1 .. Len(conns)
         /\ \A k \in DOMAIN conns : /\ conns[k].id \in Conn /\ conns[k].state \in View
                                      /\ conns[k] \in [id : Conn, state : View]
         /\ \A k, l \in DOMAIN conns : conns[k].id = conns[l].id => k = l
         /\ conns = <<>> <=> DOMAIN conns = {}
<1> DEFINE R == [id : Conn, state : View]
<1>1. conns \in Seq(R) /\ Unique(conns)
  BY DEF Connections
<1> HIDE DEF R
<1>2. Len(conns) \in Nat /\ DOMAIN conns = 1 .. Len(conns)
  BY <1>1
<1>3. \A k \in DOMAIN conns : conns[k] \in R
  BY <1>1, <1>2, ElementOfSeq
<1>4. conns = <<>> <=> DOMAIN conns = {}
  <2>1. conns = <<>> <=> Len(conns) = 0
    BY <1>1, EmptySeq
  <2>2. Len(conns) = 0 <=> 1 .. Len(conns) = {}
    BY <1>2
  <2> QED BY <2>1, <2>2, <1>2
<1> QED BY <1>1, <1>2, <1>3, <1>4 DEF Unique, R

\* Some, by the states of the connections.
LEMMA SomeIs ==
  ASSUME NEW conns, NEW S
  PROVE  Some(conns, S) <=> \E k \in DOMAIN conns : conns[k].state \in S
BY DEF Some, Positions

\* In, by the states of the connections.
LEMMA InIs ==
  ASSUME NEW conns \in Connections, NEW S
  PROVE  /\ \A k \in DOMAIN conns : conns[k].id \in In(conns, S) <=> conns[k].state \in S
         /\ In(conns, S) \subseteq Conn
<1>1. In(conns, S) = {conns[k].id : k \in {l \in DOMAIN conns : conns[l].state \in S}}
  BY DEF In, Positions
<1> QED BY <1>1, ConnectionsAre

\* The position and the state of a connection, by its identifier.
LEMMA PositionIs ==
  ASSUME NEW conns \in Connections, NEW k \in DOMAIN conns
  PROVE  /\ Position(conns, conns[k].id) = k /\ StateOf(conns, conns[k].id) = conns[k].state
         /\ conns[k].id \in Ids(conns)
<1>1. Position(conns, conns[k].id) = k
  <2>1. \E l \in DOMAIN conns : conns[l].id = conns[k].id
    OBVIOUS
  <2>2. \A l \in DOMAIN conns : conns[l].id = conns[k].id => l = k
    BY ConnectionsAre
  <2> QED BY <2>1, <2>2 DEF Position
<1> QED BY <1>1 DEF StateOf, Ids

\* Some connections are turned into another state.
LEMMA TurnIs ==
  ASSUME NEW conns \in Connections, NEW C, NEW s \in View
  PROVE  /\ Turn(conns, C, s) \in Connections
         /\ DOMAIN Turn(conns, C, s) = DOMAIN conns
         /\ \A k \in DOMAIN conns :
              /\ Turn(conns, C, s)[k].id = conns[k].id
              /\ Turn(conns, C, s)[k].state = IF conns[k].id \in C THEN s ELSE conns[k].state
         /\ Ids(Turn(conns, C, s)) = Ids(conns)
         /\ Turn(conns, C, s) = <<>> <=> conns = <<>>
<1> DEFINE t == Turn(conns, C, s)
           R == [id : Conn, state : View]
<1>1. DOMAIN t = DOMAIN conns /\ DOMAIN conns = 1 .. Len(conns) /\ Len(conns) \in Nat
  BY ConnectionsAre DEF Turn
<1>2. ASSUME NEW k \in DOMAIN conns
      PROVE  /\ t[k] \in R /\ t[k].id = conns[k].id
             /\ t[k].state = IF conns[k].id \in C THEN s ELSE conns[k].state
  <2>1. conns[k] \in R
    BY ConnectionsAre
  <2>2. t[k] = IF conns[k].id \in C THEN [conns[k] EXCEPT !.state = s] ELSE conns[k]
    BY DEF Turn
  <2> HIDE DEF t
  <2>3. CASE conns[k].id \in C
    <3> DEFINE r == conns[k]
    <3>1. t[k] = [r EXCEPT !.state = s] /\ r \in R
      BY <2>1, <2>2, <2>3
    <3> HIDE DEF r
    <3>2. t[k] \in R /\ t[k].id = r.id /\ t[k].state = s
      BY <3>1
    <3> QED BY <3>2, <2>3 DEF r
  <2>4. CASE conns[k].id \notin C
    BY <2>1, <2>2, <2>4
  <2> QED BY <2>3, <2>4
<1>3. t \in Seq(R) /\ Len(t) = Len(conns)
  <2>1. t = [k \in 1 .. Len(conns) |-> t[k]]
    BY <1>1 DEF Turn
  <2> HIDE DEF t
  <2>2. \A k \in 1 .. Len(conns) : t[k] \in R
    BY <1>1, <1>2
  <2> HIDE DEF R
  <2>3. [k \in 1 .. Len(conns) |-> t[k]] \in Seq(R)
    BY <1>1, <2>2, IsASeq
  <2>4. t \in Seq(R)
    BY <2>1, <2>3
  <2> QED BY <2>1, <2>4, <1>1
<1>4. Unique(t)
  BY <1>1, <1>2, ConnectionsAre DEF Unique
<1>5. t \in Connections
  BY <1>3, <1>4 DEF Connections
<1>6. Ids(t) = Ids(conns)
  BY <1>1, <1>2 DEF Ids
<1>7. t = <<>> <=> conns = <<>>
  BY <1>1, <1>5, ConnectionsAre
<1> HIDE DEF t
<1> QED BY <1>1, <1>2, <1>5, <1>6, <1>7 DEF t

\* A new connection.
Added(conns, c, s) == Append(conns, [id |-> c, state |-> s])

\* The connection c, in the state s, comes last in t, after those of conns.
Extends(t, conns, c, s) ==
  /\ t \in Connections /\ t # <<>> /\ Ids(t) = Ids(conns) \cup {c}
  /\ \A k \in DOMAIN conns : t[k] = conns[k]
  /\ \E n \in DOMAIN t : /\ DOMAIN t = DOMAIN conns \cup {n} /\ n \notin DOMAIN conns
                         /\ t[n].id = c /\ t[n].state = s

\* A new connection comes last.
LEMMA AppendConnection ==
  ASSUME NEW conns \in Connections, NEW c \in Conn, c \notin Ids(conns), NEW s \in View
  PROVE  Extends(Added(conns, c, s), conns, c, s)
<1> DEFINE t == Added(conns, c, s)
           R == [id : Conn, state : View]
           r == [id |-> c, state |-> s]
           n == Len(conns) + 1
<1>1. conns \in Seq(R) /\ Len(conns) \in Nat /\ DOMAIN conns = 1 .. Len(conns)
  BY ConnectionsAre
<1>2. r \in R /\ r.id = c /\ r.state = s
  OBVIOUS
<1>3. t = Append(conns, r)
  BY DEF Added
<1> HIDE DEF R, r, t
<1>4. t \in Seq(R) /\ Len(t) = n /\ DOMAIN t = 1 .. n /\ t[n] = r
  BY <1>1, <1>2, <1>3
<1>5. \A k \in 1 .. Len(conns) : t[k] = conns[k]
  BY <1>1, <1>2, <1>3
<1>6. 1 .. n = (1 .. Len(conns)) \cup {n} /\ n \notin 1 .. Len(conns) /\ n \in 1 .. n
  BY <1>1
<1>7. \A k \in DOMAIN conns : conns[k].id # c
  BY DEF Ids
<1>8. Unique(t)
  BY <1>1, <1>2, <1>4, <1>5, <1>6, <1>7, ConnectionsAre DEF Unique
<1>9. t \in Connections
  BY <1>4, <1>8 DEF Connections, R
<1>10. Ids(t) = Ids(conns) \cup {c}
  BY <1>1, <1>2, <1>4, <1>5, <1>6 DEF Ids
<1>11. t # <<>>
  BY <1>4, <1>6
<1>12. n \in DOMAIN t /\ DOMAIN t = DOMAIN conns \cup {n} /\ n \notin DOMAIN conns
  BY <1>1, <1>4, <1>6
<1>13. t[n].id = c /\ t[n].state = s /\ \A k \in DOMAIN conns : t[k] = conns[k]
  BY <1>1, <1>2, <1>4, <1>5
<1> HIDE DEF n
<1>14. Extends(t, conns, c, s)
  BY <1>9, <1>10, <1>11, <1>12, <1>13 DEF Extends
<1> QED BY <1>14 DEF t

\* A connection less.
LEMMA RemoveConnection ==
  ASSUME NEW conns \in Connections, NEW p \in DOMAIN conns, NEW t, t = RemoveAt(conns, p)
  PROVE  /\ t \in Connections
         /\ \A k \in DOMAIN t : \E l \in DOMAIN conns : l # p /\ t[k] = conns[l]
         /\ \A l \in DOMAIN conns : l # p => \E k \in DOMAIN t : t[k] = conns[l]
         /\ Ids(t) = Ids(conns) \ {conns[p].id}
<1> DEFINE R == [id : Conn, state : View]
           n == Len(conns)
           at(k) == IF k < p THEN k ELSE k + 1
           u == SubSeq(conns, 1, p - 1)
           v == SubSeq(conns, p + 1, n)
<1>1. conns \in Seq(R) /\ n \in Nat /\ DOMAIN conns = 1 .. n /\ p \in 1 .. n
  BY ConnectionsAre
<1> HIDE DEF R
<1>2. u \in Seq(R) /\ Len(u) = p - 1 /\ \A k \in 1 .. p - 1 : u[k] = conns[k]
  BY <1>1
<1>3. v \in Seq(R) /\ Len(v) = n - p /\ \A k \in 1 .. n - p : v[k] = conns[p + k]
  BY <1>1
<1>4. t = u \o v
  BY DEF RemoveAt
<1> HIDE DEF u, v, n
<1>5. t \in Seq(R) /\ Len(t) = n - 1
  <2>1. t \in Seq(R) /\ Len(t) = Len(u) + Len(v)
    BY <1>2, <1>3, <1>4, ConcatProperties
  <2>2. (p - 1) + (n - p) = n - 1
    BY <1>1
  <2> QED BY <2>1, <2>2, <1>2, <1>3
<1>6. DOMAIN t = 1 .. n - 1
  BY <1>1, <1>5
<1>7. ASSUME NEW k \in 1 .. n - 1 PROVE t[k] = conns[at(k)] /\ at(k) \in 1 .. n /\ at(k) # p
  <2>1. CASE k < p
    <3>1. k \in 1 .. p - 1 /\ k \in 1 .. Len(u) /\ k \in 1 .. n /\ k # p
      BY <2>1, <1>1, <1>2
    <3>2. t[k] = u[k]
      BY <3>1, <1>2, <1>3, <1>4
    <3> QED BY <2>1, <3>1, <3>2, <1>2
  <2>2. CASE ~(k < p)
    <3>1. k - (p - 1) \in 1 .. n - p /\ p + (k - (p - 1)) = k + 1 /\ k + 1 \in 1 .. n /\ k + 1 # p
      BY <2>2, <1>1
    <3>2. k > Len(u) /\ k <= Len(u) + Len(v)
      BY <2>2, <1>1, <1>2, <1>3
    <3>3. t[k] = v[k - Len(u)]
      BY <3>2, <1>2, <1>3, <1>4
    <3>4. v[k - (p - 1)] = conns[k + 1]
      BY <3>1, <1>3
    <3> QED BY <2>2, <3>1, <3>3, <3>4, <1>2
  <2> QED BY <2>1, <2>2
<1>8. ASSUME NEW k \in 1 .. n - 1, NEW l \in 1 .. n - 1, at(k) = at(l) PROVE k = l
  BY <1>1, <1>8
<1>9. ASSUME NEW l \in 1 .. n, l # p PROVE \E k \in 1 .. n - 1 : at(k) = l
  <2>1. CASE l < p
    <3>1. l \in 1 .. n - 1 /\ at(l) = l
      BY <2>1, <1>1
    <3> QED BY <3>1
  <2>2. CASE ~(l < p)
    <3>1. l - 1 \in 1 .. n - 1 /\ at(l - 1) = l
      BY <2>2, <1>1, <1>9
    <3> QED BY <3>1
  <2> QED BY <2>1, <2>2
<1> HIDE DEF at
<1>10. Unique(t)
  BY <1>1, <1>6, <1>7, <1>8, ConnectionsAre DEF Unique
<1>11. t \in Connections
  BY <1>5, <1>10 DEF Connections, R
<1>12. \A k \in DOMAIN t : \E l \in DOMAIN conns : l # p /\ t[k] = conns[l]
  BY <1>1, <1>6, <1>7
<1>13. \A l \in DOMAIN conns : l # p => \E k \in DOMAIN t : t[k] = conns[l]
  <2> SUFFICES ASSUME NEW l \in DOMAIN conns, l # p PROVE \E k \in DOMAIN t : t[k] = conns[l]
    OBVIOUS
  <2>1. PICK k \in 1 .. n - 1 : at(k) = l
    BY <1>1, <1>9
  <2> QED BY <2>1, <1>6, <1>7
<1>14. \A l \in DOMAIN conns : conns[l].id = conns[p].id => l = p
  BY ConnectionsAre
<1>15. Ids(t) = Ids(conns) \ {conns[p].id}
  BY <1>12, <1>13, <1>14 DEF Ids
<1> QED BY <1>11, <1>12, <1>13, <1>15

-----------------------------------------------------------------------------
(* Messages to the handlers *)

\* The connections t are those of conns, once opened have been sent Open and
\* closed have been sent Close.
Told(conns, t, opened, closed) ==
  /\ DOMAIN t = DOMAIN conns /\ opened \cap closed = {}
  /\ \A k \in DOMAIN conns :
       /\ t[k].id = conns[k].id
       /\ conns[k].id \in opened =>
            conns[k].state \in {"Closed", "OpenDesiredByRemote"} /\ t[k].state = "Opening"
       /\ conns[k].id \in closed =>
            conns[k].state \in {"Opening", "Open", "OpenDesiredByRemote"} /\ t[k].state = Shut(conns[k].state)
       /\ conns[k].id \notin opened \cup closed => t[k].state = conns[k].state

WireTypes ==
  /\ handler \in [Conn -> Handlers] /\ to_handler \in [Conn -> Seq({"Open", "Close"})]
  /\ \A c \in Conn : HandlerOk(handler[c])

\* The messages of an outcome leave every connection in keeping with its handler.
LEMMA NotifyKeeps ==
  ASSUME WireTypes, NEW conns \in Connections, NEW fr \in [Conn -> Seq(Event)],
         WireOk(conns, handler, to_handler, fr), NEW o, Notify(o), NEW t, Told(conns, t, o.opened, o.closed)
  PROVE  to_handler' \in [Conn -> Seq({"Open", "Close"})] /\ WireOk(t, handler, to_handler', fr)
<1> DEFINE more(c) == CASE c \in o.opened -> <<"Open">> [] c \in o.closed -> <<"Close">> [] OTHER -> <<>>
<1>1. /\ handler \in [Conn -> Handlers] /\ to_handler \in [Conn -> Seq({"Open", "Close"})]
      /\ \A c \in Conn : HandlerOk(handler[c])
  BY DEF WireTypes
<1>2. to_handler' = [c \in Conn |-> IF handler[c] = Gone THEN <<>> ELSE to_handler[c] \o more(c)]
  BY DEF Notify
<1>3. o.opened \cap o.closed = {}
  BY DEF Told
<1>4. \A c : /\ c \in o.opened => more(c) = <<"Open">>
             /\ c \in o.closed => more(c) = <<"Close">>
             /\ c \notin o.opened \cup o.closed => more(c) = <<>>
  BY <1>3
<1>5. \A c : more(c) \in Seq({"Open", "Close"})
  <2> SUFFICES ASSUME NEW c PROVE more(c) \in Seq({"Open", "Close"})
    OBVIOUS
  <2>1. <<"Open">> \in Seq({"Open", "Close"}) /\ <<"Close">> \in Seq({"Open", "Close"}) /\ <<>> \in Seq({"Open", "Close"})
    OBVIOUS
  <2> QED BY <2>1, <1>4
<1> HIDE DEF more
<1>6. \A c \in Conn : (IF handler[c] = Gone THEN <<>> ELSE to_handler[c] \o more(c)) \in Seq({"Open", "Close"})
  <2> SUFFICES ASSUME NEW c \in Conn PROVE (IF handler[c] = Gone THEN <<>> ELSE to_handler[c] \o more(c)) \in Seq({"Open", "Close"})
    OBVIOUS
  <2>1. to_handler[c] \in Seq({"Open", "Close"}) /\ more(c) \in Seq({"Open", "Close"})
    BY <1>1, <1>5
  <2>2. to_handler[c] \o more(c) \in Seq({"Open", "Close"}) /\ <<>> \in Seq({"Open", "Close"})
    BY <2>1, ConcatProperties
  <2> QED BY <2>2
<1>7. to_handler' \in [Conn -> Seq({"Open", "Close"})]
  BY <1>2, <1>6
<1>8. \A c \in Conn : to_handler'[c] = IF handler[c].st = "Gone" THEN <<>> ELSE to_handler[c] \o more(c)
  <2> SUFFICES ASSUME NEW c \in Conn
               PROVE  to_handler'[c] = IF handler[c].st = "Gone" THEN <<>> ELSE to_handler[c] \o more(c)
    OBVIOUS
  <2>1. handler[c].st = "Gone" <=> handler[c] = Gone
    BY <1>1, HandlerCases
  <2> QED BY <2>1, <1>2
<1>9. ASSUME NEW k \in DOMAIN t
      PROVE  Wired(t[k].state, handler[t[k].id].st, to_handler'[t[k].id], fr[t[k].id])
  <2> DEFINE c == conns[k].id
             s == conns[k].state
             st == handler[c].st
  <2>1. k \in DOMAIN conns /\ t[k].id = c /\ c \in Conn
    BY ConnectionsAre DEF Told
  <2>2. Wired(s, st, to_handler[c], fr[c]) /\ fr[c] \in Seq(Event)
    BY <2>1 DEF WireOk
  <2>3. to_handler'[c] = IF st = "Gone" THEN <<>> ELSE to_handler[c] \o more(c)
    BY <2>1, <1>8
  <2>4. CASE c \in o.opened
    <3>1. s \in {"Closed", "OpenDesiredByRemote"} /\ t[k].state = "Opening"
      BY <2>1, <2>4 DEF Told
    <3>2. Wired("Opening", st, IF st = "Gone" THEN <<>> ELSE to_handler[c] \o <<"Open">>, fr[c])
      BY <2>2, <3>1, WiredOpen
    <3> QED BY <2>1, <2>3, <2>4, <3>1, <3>2, <1>4
  <2>5. CASE c \in o.closed
    <3>1. s \in {"Opening", "Open", "OpenDesiredByRemote"} /\ t[k].state = Shut(s)
      BY <2>1, <2>5 DEF Told
    <3>2. Wired(Shut(s), st, IF st = "Gone" THEN <<>> ELSE to_handler[c] \o <<"Close">>, fr[c])
      BY <2>2, <3>1, WiredClose
    <3> QED BY <2>1, <2>3, <2>5, <3>1, <3>2, <1>4
  <2>6. CASE c \notin o.opened \cup o.closed
    <3>1. t[k].state = s
      BY <2>1, <2>6 DEF Told
    <3>2. more(c) = <<>>
      BY <2>6, <1>4
    <3>3. to_handler[c] \o <<>> = to_handler[c]
      BY <2>1, <1>1
    <3>4. st = "Gone" => to_handler[c] = <<>>
      BY <2>2 DEF Wired, Settled
    <3>5. to_handler'[c] = to_handler[c]
      BY <2>3, <3>2, <3>3, <3>4
    <3> QED BY <2>1, <2>2, <3>1, <3>5
  <2> QED BY <2>4, <2>5, <2>6
<1>10. Ids(t) = Ids(conns)
  BY DEF Ids, Told
<1>11. ASSUME NEW c \in Conn \ Ids(t) PROVE handler[c] = Gone /\ to_handler'[c] = <<>> /\ fr[c] = <<>>
  BY <1>2, <1>10 DEF WireOk
<1> QED BY <1>7, <1>9, <1>11 DEF WireOk

\* The oldest event of c is read.
Reads(fr2, fr, c) == fr2 = [fr EXCEPT ![c] = Tail(@)]

\* What the event leads the view of the connection at k to is in keeping with its handler.
ReadTo(conns, k, h, to, fr, fr2) ==
  LET c == conns[k].id IN
  \E s \in Views :
    /\ Step(conns[k].state, Head(fr[c]), s)
    /\ s \in View => WireOk(Turn(conns, {c}, s), h, to, fr2)
    /\ s = "Lost" => h[c].st = "Gone" /\ to[c] = <<>> /\ fr2[c] = <<>>

\* The oldest event of the connection at k is read.
LEMMA ReadKeeps ==
  ASSUME NEW conns \in Connections, NEW h, NEW to, NEW fr \in [Conn -> Seq(Event)],
         WireOk(conns, h, to, fr), NEW k \in DOMAIN conns, fr[conns[k].id] # <<>>,
         NEW fr2, Reads(fr2, fr, conns[k].id)
  PROVE  fr2 \in [Conn -> Seq(Event)] /\ ReadTo(conns, k, h, to, fr, fr2)
<1> USE DEF Reads, ReadTo
<1> DEFINE c == conns[k].id
<1>1. c \in Conn /\ fr[c] \in Seq(Event)
  BY ConnectionsAre
<1>2. Tail(fr[c]) \in Seq(Event)
  BY <1>1
<1>3. fr2 \in [Conn -> Seq(Event)] /\ fr2[c] = Tail(fr[c]) /\ \A d \in Conn \ {c} : fr2[d] = fr[d]
  BY <1>1, <1>2
<1>4. Wired(conns[k].state, h[c].st, to[c], fr[c])
  BY DEF WireOk
<1>5. PICK s \in Views : Step(conns[k].state, Head(fr[c]), s) /\ Wired(s, h[c].st, to[c], Tail(fr[c]))
  BY <1>1, <1>4, WiredDeliver
<1>6. ASSUME s \in View PROVE WireOk(Turn(conns, {c}, s), h, to, fr2)
  <2> DEFINE t == Turn(conns, {c}, s)
  <2>1. /\ DOMAIN t = DOMAIN conns /\ Ids(t) = Ids(conns)
        /\ \A l \in DOMAIN conns : t[l].id = conns[l].id /\ t[l].state = IF conns[l].id \in {c} THEN s ELSE conns[l].state
    BY <1>6, TurnIs
  <2> HIDE DEF t
  <2>2. ASSUME NEW l \in DOMAIN t PROVE Wired(t[l].state, h[t[l].id].st, to[t[l].id], fr2[t[l].id])
    <3>1. l \in DOMAIN conns /\ conns[l].id \in Conn /\ t[l].id = conns[l].id
      BY <2>1, ConnectionsAre
    <3>2. Wired(conns[l].state, h[conns[l].id].st, to[conns[l].id], fr[conns[l].id])
      BY <3>1 DEF WireOk
    <3>3. CASE conns[l].id = c
      BY <3>1, <3>3, <2>1, <1>3, <1>5
    <3>4. CASE conns[l].id # c
      <4>1. t[l].state = conns[l].state
        BY <2>1, <3>1, <3>4
      <4>2. fr2[conns[l].id] = fr[conns[l].id]
        BY <3>1, <3>4, <1>3
      <4> QED BY <3>1, <3>2, <4>1, <4>2
    <3> QED BY <3>3, <3>4
  <2>3. c \in Ids(t)
    BY <2>1 DEF Ids
  <2>4. ASSUME NEW d \in Conn \ Ids(t) PROVE h[d] = Gone /\ to[d] = <<>> /\ fr2[d] = <<>>
    BY <1>3, <2>1, <2>3 DEF WireOk
  <2> QED BY <2>2, <2>4 DEF WireOk, t
<1>7. ASSUME s = "Lost" PROVE h[c].st = "Gone" /\ to[c] = <<>> /\ fr2[c] = <<>>
  <2>1. Wired("Lost", h[c].st, to[c], Tail(fr[c]))
    BY <1>5, <1>7
  <2> HIDE DEF c
  <2>2. h[c].st = "Gone" /\ to[c] = <<>> /\ Tail(fr[c]) = <<>>
    BY <1>2, <2>1, WiredLost
  <2> QED BY <2>2, <1>3
<1> QED BY <1>3, <1>5, <1>6, <1>7

-----------------------------------------------------------------------------
(* What makes an outcome a good one *)

\* The entry of the outcome is one that the invariant allows, and what it waits
\* for is under way.
Sound(o) ==
  /\ o.peer \in Entries /\ ConnectionsOk(o.peer.st, o.peer.connections)
  /\ o.armed \in BOOLEAN /\ o.delays \subseteq delays
  /\ o.armed \/ (o.peer.st \in Waiting => o.peer.timer \in o.delays)
  /\ o.api # 0 <=> is_open(o.peer)
  /\ o.expected = TRUE

\* The manager is told what it has to know of the change, no message being read.
Managed(o) ==
  /\ o.unread = message_queue /\ o.incoming = incoming_peers
  /\ \/ /\ o.drops = FALSE /\ o.asks = FALSE /\ o.obsolete = FALSE
        /\ o.peer.st \in Requesting <=> peer.st \in Requesting
        /\ o.peer.st = "Incoming" <=> peer.st = "Incoming"
     \/ /\ o.drops = TRUE /\ o.asks = FALSE /\ o.obsolete = FALSE
        /\ peer.st \in Requesting /\ o.peer.st \notin Requesting /\ o.peer.st # "Incoming"
     \/ /\ o.drops = FALSE /\ o.asks = FALSE /\ o.obsolete = TRUE
        /\ peer.st = "Incoming" /\ o.peer.st \notin Requesting /\ o.peer.st # "Incoming"
     \/ /\ o.drops = FALSE /\ o.asks = TRUE /\ o.obsolete = FALSE
        /\ {e.id : e \in incoming_peers} # Index
        /\ peer.st \notin Requesting /\ peer.st # "Incoming" /\ o.peer.st = "Incoming"

\* The handlers are told what the entry says of them.
Good(o, conns) == Sound(o) /\ Told(conns, o.peer.connections, o.opened, o.closed)

\* The fields of an entry.
LEMMA EntriesAre ==
  ASSUME NEW p \in Entries
  PROVE  /\ p.st \in {"None", "Backoff", "PendingRequest", "Requested", "Disabled", "DisabledPendingEnable",
                      "Incoming", "Enabled"}
         /\ p.connections \in Connections /\ p.timer \in DelayId \cup {0} /\ p.backoff \in BOOLEAN
BY DEF Entries, Waiting

\* The entry and the delays that an outcome leaves.
LEMMA ReactPeer ==
  ASSUME EntryInv, NEW o, React(o), Sound(o)
  PROVE  /\ peer' \in Entries /\ peer'.st = o.peer.st /\ peer'.connections = o.peer.connections
         /\ delays' \subseteq DelayId
         /\ peer'.st \in Waiting => peer'.timer \in delays'
<1>1. o.peer \in Entries /\ o.delays \subseteq DelayId /\ o.armed \in BOOLEAN
  BY DEF Sound, EntryInv
<1>2. CASE o.armed = TRUE
  <2> DEFINE t == Min(DelayId \ o.delays)
             p == o.peer
  <2>1. DelayId # o.delays /\ peer' = [o.peer EXCEPT !.timer = t] /\ delays' = o.delays \cup {t}
    BY <1>2 DEF React
  <2>2. DelayId \ o.delays # {} /\ DelayId \ o.delays \in SUBSET Nat
    BY <2>1, <1>1, IdAssumption
  <2>3. t \in DelayId
    BY <2>2, MinIsLeast
  <2> HIDE DEF t
  <2>4. peer' = [p EXCEPT !.timer = t] /\ p \in Entries
    BY <2>1, <1>1
  <2> HIDE DEF p
  <2>5. peer' \in Entries /\ peer'.st = p.st /\ peer'.connections = p.connections /\ peer'.timer = t
    BY <2>3, <2>4 DEF Entries
  <2> QED BY <2>1, <2>3, <2>5, <1>1 DEF p
<1>3. CASE o.armed = FALSE
  <2>1. peer' = o.peer /\ delays' = o.delays
    BY <1>3 DEF React
  <2> QED BY <2>1, <1>1, <1>3 DEF Sound
<1> QED BY <1>1, <1>2, <1>3

\* A sound outcome keeps EntryInv.
LEMMA ReactEntry ==
  ASSUME EntryInv, NEW o, React(o), Sound(o), dialing' \in BOOLEAN, o.peer.st = "Requested" => dialing'
  PROVE  EntryInv'
<1>1. /\ peer' \in Entries /\ peer'.st = o.peer.st /\ peer'.connections = o.peer.connections
      /\ delays' \subseteq DelayId
      /\ peer'.st \in Waiting => peer'.timer \in delays'
  BY ReactPeer
<1>2. api' = o.api
  BY DEF React
<1>3. api' # 0 <=> is_open(peer')
  BY <1>1, <1>2 DEF Sound, is_open
<1>4. ConnectionsOk(peer'.st, peer'.connections)
  BY <1>1 DEF Sound
<1>5. EntryOk(peer', delays', dialing', api')
  BY <1>1, <1>3, <1>4 DEF EntryOk
<1> QED BY <1>1, <1>5 DEF EntryInv

\* What an outcome has to be for nothing to be unexpected.
LEMMA ReactExpected ==
  ASSUME NEW o, React(o), expected = TRUE, o.expected = TRUE, o.drops = FALSE \/ link \in connected
  PROVE  expected' = TRUE
BY DEF React

\* An outcome that tells the manager what it has to know keeps ManagerInv.
LEMMA ManagedKeeps ==
  ASSUME ManagerInv, NEW o, React(o), Managed(o), peer'.st = o.peer.st, o.expected = TRUE, expected = TRUE
  PROVE  ManagerInv' /\ expected' = TRUE
<1>1. o.unread = message_queue /\ o.incoming = incoming_peers
  BY DEF Managed
<1>2. CASE /\ o.drops = FALSE /\ o.asks = FALSE /\ o.obsolete = FALSE
           /\ o.peer.st \in Requesting <=> peer.st \in Requesting
           /\ o.peer.st = "Incoming" <=> peer.st = "Incoming"
  <2>1. ManagerInv'
    BY <1>1, <1>2, QuietManager
  <2> QED BY <2>1, <1>2, ReactExpected
<1>3. CASE /\ o.drops = TRUE /\ o.asks = FALSE /\ o.obsolete = FALSE
           /\ peer.st \in Requesting /\ o.peer.st \notin Requesting /\ o.peer.st # "Incoming"
  <2>1. ManagerInv' /\ link \in connected
    BY <1>1, <1>3, DropManager
  <2> QED BY <2>1, ReactExpected
<1>4. CASE /\ o.drops = FALSE /\ o.asks = FALSE /\ o.obsolete = TRUE
           /\ peer.st = "Incoming" /\ o.peer.st \notin Requesting /\ o.peer.st # "Incoming"
  <2>1. ManagerInv'
    BY <1>1, <1>4, ObsoleteManager
  <2> QED BY <2>1, <1>4, ReactExpected
<1>5. CASE /\ o.drops = FALSE /\ o.asks = TRUE /\ o.obsolete = FALSE
           /\ {e.id : e \in incoming_peers} # Index
           /\ peer.st \notin Requesting /\ peer.st # "Incoming" /\ o.peer.st = "Incoming"
  <2>1. ManagerInv'
    BY <1>1, <1>5, AskManager
  <2> QED BY <2>1, <1>5, ReactExpected
<1> QED BY <1>2, <1>3, <1>4, <1>5 DEF Managed

\* The outcome o, for the connections conns and the events fr that are left when
\* it takes effect, keeps what the handlers and the entry are to each other.
LEMMA GoodKeeps ==
  ASSUME IInv, NEW conns \in Connections, NEW fr \in [Conn -> Seq(Event)],
         WireOk(conns, handler, to_handler, fr), NEW o, React(o), Notify(o), Good(o, conns),
         handler' = handler, from_handler' = fr, dialing' \in BOOLEAN, o.peer.st = "Requested" => dialing'
  PROVE  WireInv' /\ EntryInv' /\ peer'.st = o.peer.st /\ expected = TRUE /\ ManagerInv /\ o.expected = TRUE
<1>1. WireInv /\ EntryInv /\ ManagerInv /\ expected = TRUE
  BY DEF IInv
<1>2. Sound(o) /\ Told(conns, o.peer.connections, o.opened, o.closed) /\ o.expected = TRUE
  BY DEF Good, Sound
<1>3. peer'.st = o.peer.st /\ peer'.connections = o.peer.connections
  BY <1>1, <1>2, ReactPeer
<1>4. EntryInv'
  BY <1>1, <1>2, ReactEntry
<1>5. WireTypes
  BY <1>1 DEF WireInv, WireTypes
<1>6. to_handler' \in [Conn -> Seq({"Open", "Close"})] /\ WireOk(o.peer.connections, handler, to_handler', fr)
  BY <1>2, <1>5, NotifyKeeps
<1>7. WireInv'
  BY <1>3, <1>5, <1>6 DEF WireInv, WireTypes
<1> QED BY <1>1, <1>2, <1>3, <1>4, <1>7

-----------------------------------------------------------------------------
(* The fields of an outcome *)

OutcomeFields == {"peer", "opened", "closed", "api", "armed", "dials", "drops", "asks", "obsolete", "expected",
                  "asserted", "unread", "delays", "incoming"}

\* The outcome o has the entry p, and sends Open to opened and Close to closed;
\* the users hold the sink.
Acts(o, p, opened, closed, sink) ==
  /\ DOMAIN o = OutcomeFields
  /\ o.peer = p /\ o.opened = opened /\ o.closed = closed /\ o.api = sink

\* No delay is set, and the node is not dialed.
NoDelay(o) == o.armed = FALSE /\ o.dials = FALSE /\ o.delays = delays

\* What the manager is told.
Tells(o, drops, asks, obsolete) == o.drops = drops /\ o.asks = asks /\ o.obsolete = obsolete

Untouched(o) == o.expected = TRUE /\ o.unread = message_queue /\ o.incoming = incoming_peers

\* The fields of Keep.
LEMMA KeepIs == Acts(Keep, peer, {}, {}, api) /\ NoDelay(Keep) /\ Tells(Keep, FALSE, FALSE, FALSE) /\ Untouched(Keep)
BY DEF Keep, OutcomeFields, Acts, NoDelay, Tells, Untouched

\* The fields of To(p).
LEMMA ToIs ==
  ASSUME NEW p
  PROVE  Acts(To(p), p, {}, {}, api) /\ NoDelay(To(p)) /\ Tells(To(p), FALSE, FALSE, FALSE) /\ Untouched(To(p))
BY DEF To, Keep, OutcomeFields, Acts, NoDelay, Tells, Untouched

\* The fields of an outcome that opens the connections of C.
LEMMA ToOpened ==
  ASSUME NEW p, NEW C, NEW o, o = [To(p) EXCEPT !.opened = C]
  PROVE  Acts(o, p, C, {}, api) /\ NoDelay(o) /\ Tells(o, FALSE, FALSE, FALSE) /\ Untouched(o)
BY DEF To, Keep, OutcomeFields, Acts, NoDelay, Tells, Untouched

\* The fields of an outcome that closes the connections of C.
LEMMA ToClosed ==
  ASSUME NEW p, NEW C, NEW o, o = [To(p) EXCEPT !.closed = C]
  PROVE  Acts(o, p, {}, C, api) /\ NoDelay(o) /\ Tells(o, FALSE, FALSE, FALSE) /\ Untouched(o)
BY DEF To, Keep, OutcomeFields, Acts, NoDelay, Tells, Untouched

\* The fields of one that closes the connections of C and changes the sink.
LEMMA ToClosedApi ==
  ASSUME NEW p, NEW C, NEW a, NEW o, o = [To(p) EXCEPT !.closed = C, !.api = a]
  PROVE  Acts(o, p, {}, C, a) /\ NoDelay(o) /\ Tells(o, FALSE, FALSE, FALSE) /\ Untouched(o)
BY DEF To, Keep, OutcomeFields, Acts, NoDelay, Tells, Untouched

\* The fields of one that sets a delay.
LEMMA ToArmed ==
  ASSUME NEW p, NEW o, o = [To(p) EXCEPT !.armed = TRUE]
  PROVE  /\ Acts(o, p, {}, {}, api) /\ o.armed = TRUE /\ o.dials = FALSE /\ o.delays = delays
         /\ Tells(o, FALSE, FALSE, FALSE) /\ Untouched(o)
BY DEF To, Keep, OutcomeFields, Acts, Tells, Untouched

\* The fields of one that sets a delay and tells the manager of a drop.
LEMMA ToArmedDrops ==
  ASSUME NEW p, NEW o, o = [To(p) EXCEPT !.armed = TRUE, !.drops = TRUE]
  PROVE  /\ Acts(o, p, {}, {}, api) /\ o.armed = TRUE /\ o.dials = FALSE /\ o.delays = delays
         /\ Tells(o, TRUE, FALSE, FALSE) /\ Untouched(o)
BY DEF To, Keep, OutcomeFields, Acts, Tells, Untouched

\* The fields of one that tells the manager of a drop.
LEMMA ToDrops ==
  ASSUME NEW p, NEW o, o = [To(p) EXCEPT !.drops = TRUE]
  PROVE  Acts(o, p, {}, {}, api) /\ NoDelay(o) /\ Tells(o, TRUE, FALSE, FALSE) /\ Untouched(o)
BY DEF To, Keep, OutcomeFields, Acts, NoDelay, Tells, Untouched

\* The fields of one that asks the manager.
LEMMA ToAsks ==
  ASSUME NEW p, NEW o, o = [To(p) EXCEPT !.asks = TRUE]
  PROVE  Acts(o, p, {}, {}, api) /\ NoDelay(o) /\ Tells(o, FALSE, TRUE, FALSE) /\ Untouched(o)
BY DEF To, Keep, OutcomeFields, Acts, NoDelay, Tells, Untouched

\* The fields of one that dials.
LEMMA ToDials ==
  ASSUME NEW p, NEW o, o = [To(p) EXCEPT !.dials = TRUE]
  PROVE  /\ Acts(o, p, {}, {}, api) /\ o.armed = FALSE /\ o.dials = TRUE /\ o.delays = delays
         /\ Tells(o, FALSE, FALSE, FALSE) /\ Untouched(o)
BY DEF To, Keep, OutcomeFields, Acts, Tells, Untouched

\* The fields of an entry without a delay.
LEMMA EntryPlain ==
  ASSUME NEW st \in {"None", "Backoff", "PendingRequest", "Requested", "Disabled", "DisabledPendingEnable",
                     "Incoming", "Enabled"},
         NEW connections \in Connections, NEW p, p = Entry(st, connections, 0, FALSE)
  PROVE  p \in Entries /\ p.st = st /\ p.connections = connections
BY DEF Entry, Entries, Waiting

\* The fields of an entry with other connections.
LEMMA WithConnectionsIs ==
  ASSUME NEW p \in Entries, NEW connections \in Connections
  PROVE  LET r == WithConnections(p, connections) IN
         r \in Entries /\ r.st = p.st /\ r.connections = connections /\ r.timer = p.timer /\ r.backoff = p.backoff
BY DEF WithConnections, Entries

\* An entry may have no connection.
LEMMA NoConnections == <<>> \in Connections
<1>1. <<>> \in Seq([id : Conn, state : View]) /\ DOMAIN <<>> = {}
  OBVIOUS
<1> QED BY <1>1 DEF Connections, Unique

-----------------------------------------------------------------------------
(* Outcomes, one by one *)

\* What the invariant says of the entry.
LEMMA PeerIs ==
  ASSUME EntryInv
  PROVE  /\ peer \in Entries /\ peer.connections \in Connections /\ ConnectionsOk(peer.st, peer.connections)
         /\ peer.timer \in DelayId \cup {0} /\ peer.backoff \in BOOLEAN
         /\ peer.st \in {"None", "Backoff", "PendingRequest", "Requested", "Disabled", "DisabledPendingEnable",
                         "Incoming", "Enabled"}
         /\ peer.st \in Waiting => peer.timer \in delays
         /\ api # 0 <=> \E k \in DOMAIN peer.connections : peer.connections[k].state = "Open"
<1>1. /\ peer \in Entries /\ ConnectionsOk(peer.st, peer.connections)
      /\ peer.st \in Waiting => peer.timer \in delays
      /\ api # 0 <=> is_open(peer)
  BY DEF EntryInv, EntryOk
<1>2. ASSUME NEW k \in DOMAIN peer.connections, peer.connections[k].state = "Open" PROVE peer.st = "Enabled"
  <2>1. peer.connections[k].state \in States(peer.connections) /\ peer.connections # <<>>
    BY <1>1, EntriesAre, ConnectionsAre DEF States
  <2> QED BY <1>1, <1>2, <2>1 DEF ConnectionsOk
<1>3. api # 0 <=> \E k \in DOMAIN peer.connections : peer.connections[k].state = "Open"
  BY <1>1, <1>2, SomeIs DEF is_open
<1> QED BY <1>1, <1>3, EntriesAre

\* Connections that stay as they are are told nothing.
LEMMA ToldNothing ==
  ASSUME NEW conns
  PROVE  Told(conns, conns, {}, {})
BY DEF Told

\* What makes an outcome good, field by field.
LEMMA GoodFrom ==
  ASSUME NEW o, NEW p, NEW opened, NEW closed, NEW sink, Acts(o, p, opened, closed, sink),
         o.expected = TRUE, o.delays \subseteq delays, o.armed \in BOOLEAN,
         p \in Entries, ConnectionsOk(p.st, p.connections),
         o.armed \/ (p.st \in Waiting => p.timer \in o.delays),
         sink # 0 <=> is_open(p),
         NEW conns, Told(conns, p.connections, opened, closed)
  PROVE  Good(o, conns)
BY DEF Good, Sound, Acts

\* Nothing changes.
LEMMA KeepGood ==
  ASSUME EntryInv, NEW conns, Told(conns, peer.connections, {}, {})
  PROVE  Good(Keep, conns)
<1>1. Keep.expected = TRUE /\ Keep.delays = delays /\ Keep.armed = FALSE /\ Acts(Keep, peer, {}, {}, api)
  BY KeepIs DEF Untouched, NoDelay
<1>2. api # 0 <=> is_open(peer)
  BY DEF EntryInv, EntryOk
<1> QED BY <1>1, <1>2, PeerIs, GoodFrom

\* The states of the connections, one by one.
LEMMA StatesAre ==
  ASSUME NEW conns, NEW S
  PROVE  States(conns) \subseteq S <=> \A k \in DOMAIN conns : conns[k].state \in S
BY DEF States

\* Connections that are closed or desired by the remote are opened.
LEMMA EnableGood ==
  ASSUME EntryInv, NEW C,
         \A k \in DOMAIN peer.connections :
           /\ peer.connections[k].id \in C => peer.connections[k].state \in {"Closed", "OpenDesiredByRemote"}
           /\ peer.connections[k].state = "OpenDesiredByRemote" => peer.connections[k].id \in C,
         \E k \in DOMAIN peer.connections : peer.connections[k].id \in C,
         NEW conns, Told(conns, Turn(peer.connections, C, "Opening"), C, {})
  PROVE  /\ Good(Enable(C), conns) /\ Enable(C).peer.st = "Enabled"
         /\ NoDelay(Enable(C)) /\ Tells(Enable(C), FALSE, FALSE, FALSE) /\ Untouched(Enable(C))
         /\ DOMAIN Enable(C) = OutcomeFields
<1> DEFINE t == Turn(peer.connections, C, "Opening")
           p == Entry("Enabled", t, 0, FALSE)
           o == Enable(C)
<1>1. /\ t \in Connections /\ DOMAIN t = DOMAIN peer.connections
      /\ \A k \in DOMAIN peer.connections :
           t[k].state = IF peer.connections[k].id \in C THEN "Opening" ELSE peer.connections[k].state
  <2>1. "Opening" \in View
    BY DEF View
  <2> QED BY <2>1, PeerIs, TurnIs
<1>2. o = [To(p) EXCEPT !.opened = C]
  BY DEF Enable
<1> HIDE DEF o
<1>3. Told(conns, t, C, {})
  OBVIOUS
<1> HIDE DEF t
<1>4. p \in Entries /\ p.st = "Enabled" /\ p.connections = t
  BY <1>1 DEF Entry, Entries, Waiting
<1> HIDE DEF p
<1>5. Acts(o, p, C, {}, api) /\ NoDelay(o) /\ Tells(o, FALSE, FALSE, FALSE) /\ Untouched(o)
  BY <1>2, ToOpened
<1>6. ConnectionsOk(p.st, p.connections)
  <2>1. Some(t, Active)
    BY <1>1, SomeIs DEF Active
  <2>2. "OpenDesiredByRemote" \notin States(t)
    BY <1>1 DEF States
  <2> QED BY <1>4, <2>1, <2>2 DEF ConnectionsOk
<1>7. api # 0 <=> is_open(p)
  <2>1. \A k \in DOMAIN t : t[k].state = "Open" <=> peer.connections[k].state = "Open"
    BY <1>1
  <2> QED BY <1>1, <1>4, <2>1, PeerIs, SomeIs DEF is_open
<1>8. Good(o, conns)
  BY <1>3, <1>4, <1>5, <1>6, <1>7, GoodFrom DEF NoDelay, Untouched, Waiting
<1>9. o.peer.st = "Enabled" /\ DOMAIN o = OutcomeFields
  BY <1>4, <1>5 DEF Acts
<1> QED BY <1>5, <1>8, <1>9 DEF o

\* Open and opening connections are closed.
LEMMA DisableGood ==
  ASSUME EntryInv, peer.st = "Enabled"
  PROVE  /\ Good(Disable, peer.connections) /\ Disable.peer.st = "Disabled"
         /\ NoDelay(Disable) /\ Tells(Disable, FALSE, FALSE, FALSE) /\ Untouched(Disable)
         /\ DOMAIN Disable = OutcomeFields
<1> DEFINE conns == peer.connections
           C == In(conns, Active)
           u == Turn(conns, In(conns, {"Open"}), "Closing")
           t == Turn(u, In(conns, {"Opening"}), "OpeningThenClosing")
           p == Entry("Disabled", t, 0, FALSE)
           sink == IF Some(conns, {"Open"}) THEN 0 ELSE api
           o == Disable
<1>0. conns \in Connections /\ "Closing" \in View /\ "OpeningThenClosing" \in View
  BY PeerIs DEF View
<1>1. /\ u \in Connections /\ DOMAIN u = DOMAIN conns
      /\ \A k \in DOMAIN conns : /\ u[k].id = conns[k].id
                                   /\ u[k].state = IF conns[k].id \in In(conns, {"Open"}) THEN "Closing" ELSE conns[k].state
  BY <1>0, TurnIs
<1>2. /\ t \in Connections /\ DOMAIN t = DOMAIN u
      /\ \A k \in DOMAIN u : /\ t[k].id = u[k].id
                               /\ t[k].state = IF u[k].id \in In(conns, {"Opening"}) THEN "OpeningThenClosing" ELSE u[k].state
  <2> HIDE DEF u
  <2> QED BY <1>0, <1>1, TurnIs
<1>3. o = [To(p) EXCEPT !.closed = C, !.api = sink]
  BY DEF Disable
<1> HIDE DEF o, u, t
<1>4. \A k \in DOMAIN conns :
        /\ t[k].id = conns[k].id
        /\ t[k].state = IF conns[k].state \in Active THEN Shut(conns[k].state) ELSE conns[k].state
        /\ conns[k].id \in C <=> conns[k].state \in Active
  BY <1>0, <1>1, <1>2, InIs DEF Shut, Active
<1>5. p \in Entries /\ p.st = "Disabled" /\ p.connections = t
  <2>1. t \in Connections /\ p = Entry("Disabled", t, 0, FALSE)
    BY <1>2
  <2> HIDE DEF p
  <2> QED BY <2>1 DEF Entry, Entries, Waiting
<1> HIDE DEF p
<1>6. Acts(o, p, {}, C, sink) /\ NoDelay(o) /\ Tells(o, FALSE, FALSE, FALSE) /\ Untouched(o)
  <2> HIDE DEF C, sink
  <2> QED BY <1>3, ToClosedApi
<1>7. Told(conns, t, {}, C)
  BY <1>1, <1>2, <1>4 DEF Told, Active
<1>8. ConnectionsOk(p.st, p.connections)
  <2>1. Some(conns, Active) /\ "OpenDesiredByRemote" \notin States(conns)
    BY PeerIs DEF ConnectionsOk
  <2>2. \A k \in DOMAIN conns : conns[k].state \in View \ {"OpenDesiredByRemote"}
    BY <2>1, <1>0, ConnectionsAre DEF States
  <2>3. \A k \in DOMAIN t : t[k].state \in {"Closed", "Closing", "OpeningThenClosing"}
    BY <2>2, <1>1, <1>2, <1>4 DEF View, Active, Shut
  <2>4. t # <<>>
    BY <2>1, <1>1, <1>2, SomeIs, ConnectionsAre
  <2> QED BY <2>3, <2>4, <1>5, StatesAre DEF ConnectionsOk
<1>9. sink = 0
  BY PeerIs, SomeIs
<1>10. sink # 0 <=> is_open(p)
  BY <1>5, <1>9 DEF is_open
<1>11. Good(o, conns)
  <2> HIDE DEF C, sink, conns
  <2> QED BY <1>5, <1>6, <1>7, <1>8, <1>10, GoodFrom DEF NoDelay, Untouched, Waiting
<1>12. o.peer.st = "Disabled" /\ DOMAIN o = OutcomeFields
  BY <1>5, <1>6 DEF Acts
<1> QED BY <1>6, <1>11, <1>12 DEF o

\* The substreams that the remote asked for are refused.
LEMMA RefuseGood ==
  ASSUME EntryInv, peer.st = "Incoming"
  PROVE  /\ Good(Refuse, peer.connections) /\ Refuse.peer.st = "Disabled"
         /\ NoDelay(Refuse) /\ Tells(Refuse, FALSE, FALSE, FALSE) /\ Untouched(Refuse)
         /\ DOMAIN Refuse = OutcomeFields
<1> DEFINE conns == peer.connections
           C == In(conns, {"OpenDesiredByRemote"})
           t == Turn(conns, C, "Closing")
           p == Entry("Disabled", t, 0, peer.backoff)
           o == Refuse
<1>0. conns \in Connections /\ "Closing" \in View /\ peer.backoff \in BOOLEAN
  BY PeerIs DEF View
<1>1. /\ t \in Connections /\ DOMAIN t = DOMAIN conns
      /\ \A k \in DOMAIN conns : /\ t[k].id = conns[k].id
                                   /\ t[k].state = IF conns[k].id \in C THEN "Closing" ELSE conns[k].state
  BY <1>0, TurnIs
<1>2. o = [To(p) EXCEPT !.closed = C]
  BY DEF Refuse
<1> HIDE DEF o, t
<1>3. \A k \in DOMAIN conns : conns[k].id \in C <=> conns[k].state = "OpenDesiredByRemote"
  BY <1>0, InIs
<1> HIDE DEF C
<1>4. p \in Entries /\ p.st = "Disabled" /\ p.connections = t
  BY <1>0, <1>1 DEF Entry, Entries, Waiting
<1> HIDE DEF p
<1>5. Acts(o, p, {}, C, api) /\ NoDelay(o) /\ Tells(o, FALSE, FALSE, FALSE) /\ Untouched(o)
  BY <1>2, ToClosed
<1>6. Told(conns, t, {}, C)
  BY <1>1, <1>3 DEF Told, Shut
<1>7. ConnectionsOk(p.st, p.connections)
  <2>1. /\ Some(conns, {"OpenDesiredByRemote"})
        /\ States(conns) \subseteq {"Closed", "OpenDesiredByRemote", "Closing", "OpeningThenClosing"}
    BY PeerIs DEF ConnectionsOk
  <2>2. \A k \in DOMAIN conns : conns[k].state \in {"Closed", "OpenDesiredByRemote", "Closing", "OpeningThenClosing"}
    BY <2>1, StatesAre
  <2>3. \A k \in DOMAIN t : t[k].state \in {"Closed", "Closing", "OpeningThenClosing"}
    BY <2>2, <1>1, <1>3
  <2>4. t # <<>>
    BY <2>1, <1>1, SomeIs, ConnectionsAre
  <2> QED BY <2>3, <2>4, <1>4, StatesAre DEF ConnectionsOk
<1>8. api # 0 <=> is_open(p)
  <2>1. api # 0 <=> is_open(peer)
    BY DEF EntryInv, EntryOk
  <2> QED BY <2>1, <1>4 DEF is_open
<1>9. Good(o, conns)
  <2> HIDE DEF conns
  <2> QED BY <1>4, <1>5, <1>6, <1>7, <1>8, GoodFrom DEF NoDelay, Untouched, Waiting
<1>10. o.peer.st = "Disabled" /\ DOMAIN o = OutcomeFields
  BY <1>4, <1>5 DEF Acts
<1> QED BY <1>5, <1>9, <1>10 DEF o

\* Connections that are closed, or that the remote wants open, may be told to open.
LEMMA ToldOpen ==
  ASSUME NEW conns \in Connections, NEW C,
         \A k \in DOMAIN conns : conns[k].id \in C => conns[k].state \in {"Closed", "OpenDesiredByRemote"}
  PROVE  Told(conns, Turn(conns, C, "Opening"), C, {})
<1>1. "Opening" \in View
  BY DEF View
<1> QED BY <1>1, TurnIs DEF Told

\* The substreams that the remote asked for are accepted.
LEMMA AcceptGood ==
  ASSUME EntryInv, peer.st = "Incoming"
  PROVE  /\ Good(AcceptDesired, peer.connections) /\ AcceptDesired.peer.st = "Enabled"
         /\ NoDelay(AcceptDesired) /\ Tells(AcceptDesired, FALSE, FALSE, FALSE) /\ Untouched(AcceptDesired)
         /\ DOMAIN AcceptDesired = OutcomeFields
<1> DEFINE conns == peer.connections
           C == In(conns, {"OpenDesiredByRemote"})
<1>1. conns \in Connections /\ Some(conns, {"OpenDesiredByRemote"})
  BY PeerIs DEF ConnectionsOk
<1>2. \A k \in DOMAIN conns : conns[k].id \in C <=> conns[k].state = "OpenDesiredByRemote"
  BY <1>1, InIs
<1>3. \E k \in DOMAIN conns : conns[k].id \in C
  BY <1>1, <1>2, SomeIs
<1>4. AcceptDesired = Enable(C)
  BY DEF AcceptDesired
<1> HIDE DEF C
<1>5. Told(conns, Turn(conns, C, "Opening"), C, {})
  BY <1>1, <1>2, ToldOpen
<1> QED BY <1>2, <1>3, <1>4, <1>5, EnableGood

\* The first connection that is in the state s.
LEMMA FirstIs ==
  ASSUME NEW conns \in Connections, NEW s, Some(conns, {s})
  PROVE  /\ Min(Positions(conns, {s})) \in DOMAIN conns
         /\ conns[Min(Positions(conns, {s}))].state = s
         /\ First(conns, s) = conns[Min(Positions(conns, {s}))].id
<1>1. Positions(conns, {s}) # {} /\ Positions(conns, {s}) \in SUBSET Nat
  BY ConnectionsAre DEF Some, Positions
<1>2. Min(Positions(conns, {s})) \in Positions(conns, {s})
  BY <1>1, MinIsLeast
<1> QED BY <1>2 DEF Positions, First

\* One closed connection is opened, while no other substream is asked for.
LEMMA EnableOneGood ==
  ASSUME EntryInv, peer.st \in {"Disabled", "DisabledPendingEnable", "Enabled"},
         NEW k \in DOMAIN peer.connections, peer.connections[k].state = "Closed",
         NEW c, c = peer.connections[k].id, NEW conns, Told(conns, Turn(peer.connections, {c}, "Opening"), {c}, {})
  PROVE  /\ Good(Enable({c}), conns) /\ Enable({c}).peer.st = "Enabled"
         /\ NoDelay(Enable({c})) /\ Tells(Enable({c}), FALSE, FALSE, FALSE) /\ Untouched(Enable({c}))
         /\ DOMAIN Enable({c}) = OutcomeFields
<1> DEFINE cs == peer.connections
           C == {c}
<1>1. cs \in Connections /\ "OpenDesiredByRemote" \notin States(cs)
  BY PeerIs DEF ConnectionsOk
<1>2. \A l \in DOMAIN cs : cs[l].id \in C => cs[l].state = "Closed"
  BY <1>1, ConnectionsAre
<1>3. \A l \in DOMAIN cs : cs[l].state # "OpenDesiredByRemote"
  BY <1>1 DEF States
<1>4. \E l \in DOMAIN cs : cs[l].id \in C
  OBVIOUS
<1>5. Told(conns, Turn(peer.connections, C, "Opening"), C, {})
  OBVIOUS
<1> HIDE DEF C
<1>6. /\ Good(Enable(C), conns) /\ Enable(C).peer.st = "Enabled"
      /\ NoDelay(Enable(C)) /\ Tells(Enable(C), FALSE, FALSE, FALSE) /\ Untouched(Enable(C))
      /\ DOMAIN Enable(C) = OutcomeFields
  BY <1>2, <1>3, <1>4, <1>5, EnableGood
<1> QED BY <1>6 DEF C

\* A link that is not enabled may open its first closed connection.
LEMMA EnableFirstGood ==
  ASSUME EntryInv, peer.st \in {"Disabled", "DisabledPendingEnable"}, Some(peer.connections, {"Closed"}),
         NEW o, o = Enable({First(peer.connections, "Closed")})
  PROVE  /\ Good(o, peer.connections) /\ o.peer.st = "Enabled"
         /\ NoDelay(o) /\ Tells(o, FALSE, FALSE, FALSE) /\ Untouched(o) /\ DOMAIN o = OutcomeFields
<1> DEFINE conns == peer.connections
           c == First(conns, "Closed")
           k == Min(Positions(conns, {"Closed"}))
<1>1. conns \in Connections
  BY PeerIs
<1>2. k \in DOMAIN conns /\ conns[k].state = "Closed" /\ c = conns[k].id
  BY <1>1, FirstIs
<1> HIDE DEF k, c
<1>3. Told(conns, Turn(conns, {c}, "Opening"), {c}, {})
  <2>1. \A l \in DOMAIN conns : conns[l].id \in {c} => conns[l].state \in {"Closed", "OpenDesiredByRemote"}
    BY <1>1, <1>2, ConnectionsAre
  <2> QED BY <1>1, <2>1, ToldOpen
<1>4. o = Enable({c})
  BY DEF c
<1> QED BY <1>2, <1>3, <1>4, EnableOneGood

\* o2 does to the entry and to the handlers what o does.
Like(o2, o) ==
  /\ o2.peer = o.peer /\ o2.opened = o.opened /\ o2.closed = o.closed /\ o2.api = o.api
  /\ o2.armed = o.armed /\ o2.delays = o.delays /\ o2.dials = o.dials

\* An outcome that only differs in what the manager is told is as good.
LEMMA LikeGood ==
  ASSUME NEW o, NEW o2, NEW conns, Good(o, conns), Like(o2, o), o2.expected = TRUE
  PROVE  Good(o2, conns)
BY DEF Good, Sound, Like

\* The node is dialed.
LEMMA RequestGood ==
  ASSUME EntryInv, peer.connections = <<>>, NEW o, o = Request
  PROVE  /\ Good(o, peer.connections) /\ o.peer.st = "Requested" /\ o.dials = TRUE
         /\ o.delays = delays /\ o.armed = FALSE
         /\ Tells(o, FALSE, FALSE, FALSE) /\ Untouched(o) /\ DOMAIN o = OutcomeFields
<1> DEFINE p == Entry("Requested", <<>>, 0, FALSE)
<1>1. p \in Entries /\ p.st = "Requested" /\ p.connections = <<>>
  BY NoConnections DEF Entry, Entries, Waiting
<1>2. o = [To(p) EXCEPT !.dials = TRUE]
  BY DEF Request
<1> HIDE DEF p
<1>3. /\ Acts(o, p, {}, {}, api) /\ o.armed = FALSE /\ o.dials = TRUE /\ o.delays = delays
      /\ Tells(o, FALSE, FALSE, FALSE) /\ Untouched(o)
  BY <1>2, ToDials
<1>4. ConnectionsOk(p.st, p.connections) /\ p.st \notin Waiting
  BY <1>1 DEF ConnectionsOk, Waiting
<1>5. api # 0 <=> is_open(p)
  <2>1. api = 0
    <3>1. DOMAIN <<>> = {}
      OBVIOUS
    <3> QED BY <3>1, PeerIs
  <2> QED BY <2>1, <1>1 DEF is_open
<1>6. Told(peer.connections, p.connections, {}, {})
  BY <1>1, ToldNothing
<1>7. o.expected = TRUE
  BY <1>3 DEF Untouched
<1>8. Good(o, peer.connections)
  BY <1>1, <1>3, <1>4, <1>5, <1>6, <1>7, GoodFrom
<1>9. o.peer.st = "Requested" /\ DOMAIN o = OutcomeFields
  BY <1>1, <1>3 DEF Acts
<1> QED BY <1>3, <1>8, <1>9

\* The link waits for a closed connection.
LEMMA WaitGood ==
  ASSUME EntryInv, peer.st \in {"Disabled", "DisabledPendingEnable"},
         NEW o, o = [To(Entry("DisabledPendingEnable", peer.connections, 0, FALSE)) EXCEPT !.armed = TRUE]
  PROVE  /\ Good(o, peer.connections) /\ o.peer.st = "DisabledPendingEnable" /\ o.dials = FALSE
         /\ Tells(o, FALSE, FALSE, FALSE) /\ Untouched(o) /\ DOMAIN o = OutcomeFields
<1> DEFINE p == Entry("DisabledPendingEnable", peer.connections, 0, FALSE)
<1>1. peer.connections \in Connections /\ ConnectionsOk(peer.st, peer.connections)
  BY PeerIs
<1>2. p \in Entries /\ p.st = "DisabledPendingEnable" /\ p.connections = peer.connections
  BY <1>1 DEF Entry, Entries, Waiting
<1>3. o = [To(p) EXCEPT !.armed = TRUE]
  OBVIOUS
<1> HIDE DEF p
<1>4. /\ Acts(o, p, {}, {}, api) /\ o.armed = TRUE /\ o.dials = FALSE /\ o.delays = delays
      /\ Tells(o, FALSE, FALSE, FALSE) /\ Untouched(o)
  BY <1>3, ToArmed
<1>5. ConnectionsOk(p.st, p.connections)
  BY <1>1, <1>2 DEF ConnectionsOk
<1>6. api # 0 <=> is_open(p)
  <2>1. ~is_open(peer) /\ ~is_open(p)
    BY <1>2 DEF is_open
  <2> QED BY <2>1 DEF EntryInv, EntryOk
<1>7. Told(peer.connections, p.connections, {}, {})
  BY <1>2, ToldNothing
<1>8. o.expected = TRUE
  BY <1>4 DEF Untouched
<1>9. Good(o, peer.connections)
  BY <1>2, <1>4, <1>5, <1>6, <1>7, <1>8, GoodFrom
<1>10. o.peer.st = "DisabledPendingEnable" /\ DOMAIN o = OutcomeFields
  BY <1>2, <1>4 DEF Acts
<1> QED BY <1>4, <1>9, <1>10

\* An entry without connections changes its state only.
LEMMA RestateGood ==
  ASSUME EntryInv, peer.st \in {"Backoff", "PendingRequest"}, NEW st \in {"Backoff", "PendingRequest"},
         NEW o, o = To([peer EXCEPT !.st = st])
  PROVE  /\ Good(o, peer.connections) /\ o.peer.st = st /\ NoDelay(o)
         /\ Tells(o, FALSE, FALSE, FALSE) /\ Untouched(o) /\ DOMAIN o = OutcomeFields
<1> DEFINE p == [peer EXCEPT !.st = st]
<1>1. /\ peer \in Entries /\ peer.connections = <<>> /\ peer.timer \in delays
  BY PeerIs DEF ConnectionsOk, Waiting
<1>2. p \in Entries /\ p.st = st /\ p.connections = peer.connections /\ p.timer = peer.timer
  BY <1>1 DEF Entries, Waiting
<1>3. o = To(p)
  OBVIOUS
<1> HIDE DEF p
<1>4. Acts(o, p, {}, {}, api) /\ NoDelay(o) /\ Tells(o, FALSE, FALSE, FALSE) /\ Untouched(o)
  BY <1>3, ToIs
<1>5. ConnectionsOk(p.st, p.connections)
  BY <1>1, <1>2 DEF ConnectionsOk
<1>6. api # 0 <=> is_open(p)
  <2>1. ~is_open(peer) /\ ~is_open(p)
    BY <1>2 DEF is_open
  <2> QED BY <2>1 DEF EntryInv, EntryOk
<1>7. Told(peer.connections, p.connections, {}, {})
  BY <1>2, ToldNothing
<1>8. o.expected = TRUE /\ o.delays = delays /\ o.armed = FALSE
  BY <1>4 DEF Untouched, NoDelay
<1>9. Good(o, peer.connections)
  BY <1>1, <1>2, <1>4, <1>5, <1>6, <1>7, <1>8, GoodFrom
<1>10. o.peer.st = st /\ DOMAIN o = OutcomeFields
  BY <1>2, <1>4 DEF Acts
<1> QED BY <1>4, <1>9, <1>10

-----------------------------------------------------------------------------
(* Messages of the manager *)

\* The network task does what a good outcome says.
LEMMA NetworkKeeps ==
  ASSUME IInv, NEW o, Network(o), Good(o, peer.connections), o.dials \in BOOLEAN,
         o.peer.st = "Requested" => peer.st = "Requested" \/ o.dials = TRUE
  PROVE  /\ WireInv' /\ EntryInv' /\ peer'.st = o.peer.st /\ React(o)
         /\ expected = TRUE /\ ManagerInv /\ o.expected = TRUE
<1> DEFINE conns == peer.connections
           fr == from_handler
<1>1. conns \in Connections
  BY PeerIs DEF IInv
<1>2. fr \in [Conn -> Seq(Event)] /\ WireOk(conns, handler, to_handler, fr)
  BY DEF IInv, WireInv
<1>3. React(o) /\ Notify(o) /\ dialing' = (dialing \/ o.dials) /\ handler' = handler /\ from_handler' = fr
  BY DEF Network
<1>4. dialing \in BOOLEAN /\ (peer.st = "Requested" => dialing)
  BY DEF IInv, EntryInv, EntryOk
<1>5. dialing' \in BOOLEAN /\ (o.peer.st = "Requested" => dialing')
  BY <1>3, <1>4
<1> HIDE DEF conns, fr
<1>6. Good(o, conns)
  BY DEF conns
<1>7. WireInv' /\ EntryInv' /\ peer'.st = o.peer.st /\ expected = TRUE /\ ManagerInv /\ o.expected = TRUE
  BY <1>1, <1>2, <1>3, <1>5, <1>6, GoodKeeps
<1> QED BY <1>3, <1>7

\* The network does what a good outcome says that tells the manager what it has to know.
LEMMA NetworkManaged ==
  ASSUME IInv, NEW o, Network(o), Good(o, peer.connections), o.dials \in BOOLEAN,
         o.peer.st = "Requested" => peer.st = "Requested" \/ o.dials = TRUE,
         Managed(o)
  PROVE  IInv'
<1>1. /\ WireInv' /\ EntryInv' /\ peer'.st = o.peer.st /\ React(o)
      /\ expected = TRUE /\ ManagerInv /\ o.expected = TRUE
  BY NetworkKeeps
<1>2. ManagerInv' /\ expected' = TRUE
  BY <1>1, ManagedKeeps
<1> QED BY <1>1, <1>2 DEF IInv

\* An Incoming entry has a question that is alive.
LEMMA IncomingAlive ==
  ASSUME ManagerInv
  PROVE  peer.st = "Incoming" <=> Alive # {}
BY DEF ManagerInv, QuestionOk, Alive

\* The manager wants a link that the network does not want yet.
LEMMA ReportConnect ==
  ASSUME EntryInv, ManagerInv, peer.st \notin Requesting, NEW late \in BOOLEAN,
         NEW o, o = peerset_report_connect(late)
  PROVE  /\ Good(o, peer.connections) /\ o.peer.st \in Requesting /\ DOMAIN o = OutcomeFields
         /\ Tells(o, FALSE, FALSE, peer.st = "Incoming") /\ Untouched(o)
         /\ o.dials \in BOOLEAN /\ (o.peer.st = "Requested" => o.dials = TRUE)
<1>1. peer.st \in {"None", "Backoff", "Disabled", "Incoming"}
  BY PeerIs DEF Requesting
<1>2. CASE o = Request /\ peer.st \in {"None", "Backoff"}
  <2>1. peer.connections = <<>>
    BY <1>2, PeerIs DEF ConnectionsOk
  <2>2. /\ Good(o, peer.connections) /\ o.peer.st = "Requested" /\ o.dials = TRUE
        /\ Tells(o, FALSE, FALSE, FALSE) /\ Untouched(o) /\ DOMAIN o = OutcomeFields
    BY <1>2, <2>1, RequestGood
  <2>3. Tells(o, FALSE, FALSE, peer.st = "Incoming") /\ o.peer.st \in Requesting
    BY <2>2, <1>2 DEF Requesting, Tells
  <2> QED BY <2>2, <2>3
<1>3. CASE peer.st = "Backoff" /\ o = To([peer EXCEPT !.st = "PendingRequest"])
  <2>1. /\ Good(o, peer.connections) /\ o.peer.st = "PendingRequest" /\ NoDelay(o)
        /\ Tells(o, FALSE, FALSE, FALSE) /\ Untouched(o) /\ DOMAIN o = OutcomeFields
    BY <1>3, RestateGood
  <2>2. Tells(o, FALSE, FALSE, peer.st = "Incoming") /\ o.peer.st \in Requesting /\ o.dials = FALSE
    BY <2>1, <1>3 DEF Requesting, Tells, NoDelay
  <2> QED BY <2>1, <2>2
<1>4. CASE /\ peer.st = "Disabled"
           /\ o = [To(Entry("DisabledPendingEnable", peer.connections, 0, FALSE)) EXCEPT !.armed = TRUE]
  <2>1. /\ Good(o, peer.connections) /\ o.peer.st = "DisabledPendingEnable" /\ o.dials = FALSE
        /\ Tells(o, FALSE, FALSE, FALSE) /\ Untouched(o) /\ DOMAIN o = OutcomeFields
    BY <1>4, WaitGood
  <2>2. Tells(o, FALSE, FALSE, peer.st = "Incoming") /\ o.peer.st \in Requesting
    BY <2>1, <1>4 DEF Requesting, Tells
  <2> QED BY <2>1, <2>2
<1>5. CASE peer.st = "Disabled" /\ Some(peer.connections, {"Closed"}) /\ o = Enable({First(peer.connections, "Closed")})
  <2>1. /\ Good(o, peer.connections) /\ o.peer.st = "Enabled"
        /\ NoDelay(o) /\ Tells(o, FALSE, FALSE, FALSE) /\ Untouched(o) /\ DOMAIN o = OutcomeFields
    BY <1>5, EnableFirstGood
  <2>2. Tells(o, FALSE, FALSE, peer.st = "Incoming") /\ o.peer.st \in Requesting /\ o.dials = FALSE
    BY <2>1, <1>5 DEF Requesting, Tells, NoDelay
  <2> QED BY <2>1, <2>2
<1>6. CASE peer.st = "Incoming" /\ o = [AcceptDesired EXCEPT !.obsolete = TRUE, !.expected = Alive # {}]
  <2> DEFINE a == AcceptDesired
  <2>1. /\ Good(a, peer.connections) /\ a.peer.st = "Enabled"
        /\ NoDelay(a) /\ Tells(a, FALSE, FALSE, FALSE) /\ Untouched(a) /\ DOMAIN a = OutcomeFields
    BY <1>6, AcceptGood
  <2>2. o = [a EXCEPT !.obsolete = TRUE, !.expected = Alive # {}]
    BY <1>6
  <2> HIDE DEF a
  <2>3. Alive # {}
    BY <1>6, IncomingAlive
  <2>4. /\ o.peer = a.peer /\ o.opened = a.opened /\ o.closed = a.closed /\ o.api = a.api
        /\ o.armed = a.armed /\ o.delays = a.delays /\ o.dials = a.dials
        /\ o.drops = a.drops /\ o.asks = a.asks /\ o.unread = a.unread /\ o.incoming = a.incoming
        /\ o.obsolete = TRUE /\ o.expected = (Alive # {}) /\ DOMAIN o = OutcomeFields
    BY <2>1, <2>2 DEF OutcomeFields
  <2>5. Like(o, a) /\ o.expected = TRUE
    BY <2>3, <2>4 DEF Like
  <2>6. Good(o, peer.connections)
    BY <2>1, <2>5, LikeGood
  <2>7. /\ o.drops = FALSE /\ o.asks = FALSE /\ o.dials = FALSE
        /\ o.unread = message_queue /\ o.incoming = incoming_peers
    BY <2>1, <2>4 DEF Tells, NoDelay, Untouched
  <2>8. Tells(o, FALSE, FALSE, peer.st = "Incoming") /\ Untouched(o)
    BY <2>4, <2>5, <2>7, <1>6 DEF Tells, Untouched
  <2>9. o.peer.st \in Requesting /\ o.peer.st # "Requested"
    BY <2>1, <2>4 DEF Requesting
  <2> QED BY <2>4, <2>6, <2>7, <2>8, <2>9
<1> QED BY <1>1, <1>2, <1>3, <1>4, <1>5, <1>6 DEF peerset_report_connect, EnableOrWait

\* The network reads that the manager wants the link.
LEMMA PollConnect ==
  ASSUME IInv, message_queue # <<>>, Head(message_queue).type = "Connect", NEW late \in BOOLEAN,
         NEW a, a = peerset_report_connect(late),
         NEW o, o = [a EXCEPT !.unread = Tail(message_queue)], Network(o)
  PROVE  IInv'
<1>1. EntryInv /\ ManagerInv
  BY DEF IInv
<1>2. peer.st \notin Requesting
  BY <1>1, ManagerTypes, WantTail
<1>3. /\ Good(a, peer.connections) /\ a.peer.st \in Requesting /\ DOMAIN a = OutcomeFields
      /\ Tells(a, FALSE, FALSE, peer.st = "Incoming") /\ Untouched(a)
      /\ a.dials \in BOOLEAN /\ (a.peer.st = "Requested" => a.dials = TRUE)
  BY <1>1, <1>2, ReportConnect
<1>4. /\ o.peer = a.peer /\ o.opened = a.opened /\ o.closed = a.closed /\ o.api = a.api
      /\ o.armed = a.armed /\ o.delays = a.delays /\ o.dials = a.dials
      /\ o.drops = a.drops /\ o.asks = a.asks /\ o.obsolete = a.obsolete
      /\ o.expected = a.expected /\ o.incoming = a.incoming /\ o.unread = Tail(message_queue)
  BY <1>3 DEF OutcomeFields
<1>5. Like(o, a) /\ o.expected = TRUE
  BY <1>3, <1>4 DEF Like, Untouched
<1>6. Good(o, peer.connections)
  BY <1>3, <1>5, LikeGood
<1>7. o.dials \in BOOLEAN /\ (o.peer.st = "Requested" => o.dials = TRUE)
  BY <1>3, <1>4
<1>8. WireInv' /\ EntryInv' /\ peer'.st = o.peer.st /\ React(o) /\ expected = TRUE
  BY <1>6, <1>7, NetworkKeeps
<1>9. /\ o.drops = FALSE /\ o.asks = FALSE /\ o.obsolete = (peer.st = "Incoming")
      /\ o.unread = Tail(message_queue) /\ o.incoming = incoming_peers
  BY <1>3, <1>4 DEF Tells, Untouched
<1>10. peer'.st \in Requesting
  BY <1>3, <1>4, <1>8
<1>11. ManagerInv'
  BY <1>1, <1>8, <1>9, <1>10, ConnectManager
<1>12. expected' = TRUE
  BY <1>5, <1>8, <1>9, ReactExpected
<1> QED BY <1>8, <1>11, <1>12 DEF IInv

\* The outcome of an Accept: it enables the link, or is dropped when its question is obsolete.
LEMMA ReportAccept ==
  ASSUME EntryInv, ManagerInv, NEW e \in incoming_peers, e.alive \in BOOLEAN,
         NEW a, a = peerset_report_accept(e)
  PROVE  /\ Good(a, peer.connections) /\ DOMAIN a = OutcomeFields /\ Untouched(a)
         /\ a.asks = FALSE /\ a.obsolete = FALSE /\ a.dials = FALSE
         /\ e.alive => a.drops = FALSE /\ a.peer.st = "Enabled"
         /\ ~e.alive => /\ a.peer = peer
                        /\ a.drops = (peer.st \notin {"DisabledPendingEnable", "Enabled"})
<1>1. CASE e.alive
  <2>1. peer.st = "Incoming"
    BY <1>1, IncomingAlive DEF Alive
  <2>2. a = AcceptDesired
    BY <1>1, <2>1 DEF peerset_report_accept
  <2>3. /\ Good(a, peer.connections) /\ a.peer.st = "Enabled"
        /\ NoDelay(a) /\ Tells(a, FALSE, FALSE, FALSE) /\ Untouched(a) /\ DOMAIN a = OutcomeFields
    BY <2>1, <2>2, AcceptGood
  <2> QED BY <1>1, <2>3 DEF NoDelay, Tells
<1>2. CASE ~e.alive
  <2> DEFINE k == Keep
  <2>1. a = [k EXCEPT !.drops = peer.st \notin {"DisabledPendingEnable", "Enabled"}]
    BY <1>2 DEF peerset_report_accept
  <2>2. Acts(k, peer, {}, {}, api) /\ NoDelay(k) /\ Tells(k, FALSE, FALSE, FALSE) /\ Untouched(k)
    BY KeepIs
  <2>3. Good(k, peer.connections)
    BY ToldNothing, KeepGood
  <2> HIDE DEF k
  <2>4. DOMAIN k = OutcomeFields
    BY <2>2 DEF Acts
  <2>5. /\ a.peer = k.peer /\ a.opened = k.opened /\ a.closed = k.closed /\ a.api = k.api
        /\ a.armed = k.armed /\ a.delays = k.delays /\ a.dials = k.dials
        /\ a.drops = (peer.st \notin {"DisabledPendingEnable", "Enabled"})
        /\ a.asks = k.asks /\ a.obsolete = k.obsolete
        /\ a.expected = k.expected /\ a.incoming = k.incoming /\ a.unread = k.unread
        /\ DOMAIN a = OutcomeFields
    BY <2>1, <2>4 DEF OutcomeFields
  <2>6. Like(a, k) /\ Untouched(a) /\ a.asks = FALSE /\ a.obsolete = FALSE /\ a.dials = FALSE /\ a.peer = peer
    BY <2>2, <2>5 DEF Like, Untouched, Acts, Tells, NoDelay
  <2>7. Good(a, peer.connections)
    BY <2>3, <2>6, LikeGood DEF Untouched
  <2> QED BY <1>2, <2>5, <2>6, <2>7
<1> QED BY <1>1, <1>2

\* The outcome of a Reject: it disables the link, or nothing changes.
LEMMA ReportReject ==
  ASSUME EntryInv, ManagerInv, NEW e \in incoming_peers, e.alive \in BOOLEAN,
         NEW a, a = peerset_report_reject(e)
  PROVE  /\ Good(a, peer.connections) /\ DOMAIN a = OutcomeFields /\ Untouched(a)
         /\ a.asks = FALSE /\ a.obsolete = FALSE /\ a.dials = FALSE /\ a.drops = FALSE
         /\ e.alive => peer.st = "Incoming" /\ a.peer.st = "Disabled"
         /\ ~e.alive => a.peer = peer
<1>1. CASE e.alive
  <2>1. peer.st = "Incoming"
    BY <1>1, IncomingAlive DEF Alive
  <2>2. a = Refuse
    BY <1>1, <2>1 DEF peerset_report_reject
  <2>3. /\ Good(a, peer.connections) /\ a.peer.st = "Disabled"
        /\ NoDelay(a) /\ Tells(a, FALSE, FALSE, FALSE) /\ Untouched(a) /\ DOMAIN a = OutcomeFields
    BY <2>1, <2>2, RefuseGood
  <2> QED BY <1>1, <2>1, <2>3 DEF NoDelay, Tells
<1>2. CASE ~e.alive
  <2>1. a = Keep
    BY <1>2 DEF peerset_report_reject
  <2>2. Acts(a, peer, {}, {}, api) /\ NoDelay(a) /\ Tells(a, FALSE, FALSE, FALSE) /\ Untouched(a)
    BY <2>1, KeepIs
  <2>3. Good(a, peer.connections)
    BY <2>1, ToldNothing, KeepGood
  <2> QED BY <1>2, <2>2, <2>3 DEF NoDelay, Tells, Acts
<1> QED BY <1>1, <1>2

\* The network reads an answer of the manager.
LEMMA PollAnswer ==
  ASSUME IInv, message_queue # <<>>, Head(message_queue).type \in {"Accept", "Reject"},
         NEW e \in incoming_peers, e.id = Head(message_queue).index, e.alive \in BOOLEAN,
         NEW a, a = IF Head(message_queue).type = "Accept" THEN peerset_report_accept(e)
                    ELSE peerset_report_reject(e),
         NEW b, b = [a EXCEPT !.incoming = @ \ {e}],
         NEW o, o = [b EXCEPT !.unread = Tail(message_queue)], Network(o)
  PROVE  IInv'
<1>1. EntryInv /\ ManagerInv
  BY DEF IInv
<1>2. /\ Good(a, peer.connections) /\ DOMAIN a = OutcomeFields /\ Untouched(a)
      /\ a.asks = FALSE /\ a.obsolete = FALSE /\ a.dials = FALSE
      /\ ~e.alive => a.peer = peer
      /\ Head(message_queue).type = "Accept" => IF e.alive THEN a.drops = FALSE /\ a.peer.st = "Enabled"
                                               ELSE a.drops = (peer.st \notin {"DisabledPendingEnable", "Enabled"})
      /\ Head(message_queue).type # "Accept" =>
           a.drops = FALSE /\ (e.alive => peer.st = "Incoming" /\ a.peer.st = "Disabled")
  <2>1. CASE Head(message_queue).type = "Accept"
    BY <1>1, <2>1, ReportAccept
  <2>2. CASE Head(message_queue).type # "Accept"
    BY <1>1, <2>2, ReportReject
  <2> QED BY <2>1, <2>2
<1>3. /\ b.peer = a.peer /\ b.opened = a.opened /\ b.closed = a.closed /\ b.api = a.api
      /\ b.armed = a.armed /\ b.delays = a.delays /\ b.dials = a.dials
      /\ b.drops = a.drops /\ b.asks = a.asks /\ b.obsolete = a.obsolete
      /\ b.expected = a.expected /\ b.incoming = a.incoming \ {e} /\ DOMAIN b = OutcomeFields
  BY <1>2 DEF OutcomeFields
<1>4. /\ o.peer = b.peer /\ o.opened = b.opened /\ o.closed = b.closed /\ o.api = b.api
      /\ o.armed = b.armed /\ o.delays = b.delays /\ o.dials = b.dials
      /\ o.drops = b.drops /\ o.asks = b.asks /\ o.obsolete = b.obsolete
      /\ o.expected = b.expected /\ o.incoming = b.incoming /\ o.unread = Tail(message_queue)
  BY <1>3 DEF OutcomeFields
<1>5. Like(o, a) /\ o.expected = TRUE /\ o.incoming = incoming_peers \ {e}
  BY <1>2, <1>3, <1>4 DEF Like, Untouched
<1>6. Good(o, peer.connections)
  BY <1>2, <1>5, LikeGood
<1>7. /\ a.peer.st = "Requested" => peer.st = "Requested"
      /\ IF e.alive THEN a.peer.st # "Incoming" ELSE a.peer.st = peer.st
      /\ a.drops \in BOOLEAN
      /\ a.drops = TRUE => ~e.alive /\ Head(message_queue).type = "Accept"
  <2>1. CASE e.alive
    <3>1. CASE Head(message_queue).type = "Accept"
      BY <2>1, <3>1, <1>2
    <3>2. CASE Head(message_queue).type # "Accept"
      <4>1. a.drops = FALSE /\ a.peer.st = "Disabled"
        BY <2>1, <3>2, <1>2
      <4> QED BY <4>1, <2>1
    <3> QED BY <3>1, <3>2
  <2>2. CASE ~e.alive
    <3>1. CASE Head(message_queue).type = "Accept"
      BY <2>2, <3>1, <1>2
    <3>2. CASE Head(message_queue).type # "Accept"
      <4>1. a.drops = FALSE /\ a.peer = peer
        BY <2>2, <3>2, <1>2
      <4> QED BY <4>1, <2>2
    <3> QED BY <3>1, <3>2
  <2> QED BY <2>1, <2>2
<1>8. o.dials \in BOOLEAN /\ (o.peer.st = "Requested" => peer.st = "Requested" \/ o.dials = TRUE)
  BY <1>2, <1>3, <1>4, <1>7
<1>9. WireInv' /\ EntryInv' /\ peer'.st = o.peer.st /\ React(o) /\ expected = TRUE
  BY <1>6, <1>8, NetworkKeeps
<1>10. o.asks = FALSE /\ o.obsolete = FALSE /\ o.drops = a.drops /\ peer'.st = a.peer.st
  BY <1>2, <1>3, <1>4, <1>9
<1>11. IF e.alive THEN peer'.st # "Incoming" ELSE peer'.st = peer.st
  BY <1>7, <1>10
<1>12. CASE a.drops = FALSE
  <2>1. IF Head(message_queue).type = "Accept" THEN peer'.st \in Requesting
        ELSE peer'.st \in Requesting <=> peer.st \in Requesting
    BY <1>2, <1>10, <1>12 DEF Requesting
  <2>2. IF e.alive THEN peer'.st # "Incoming" ELSE peer'.st = "Incoming" <=> peer.st = "Incoming"
    BY <1>11
  <2>3. ManagerInv'
    <3>1. Settles(e.alive, peer.st, peer'.st) /\ Decides(Head(message_queue).type, peer.st, peer'.st)
      BY <2>1, <2>2 DEF Settles, Decides
    <3>2. /\ o.drops = FALSE /\ o.asks = FALSE /\ o.obsolete = FALSE /\ React(o)
          /\ o.unread = Tail(message_queue) /\ o.incoming = incoming_peers \ {e}
      BY <1>4, <1>5, <1>9, <1>10, <1>12
    <3> QED BY <1>1, <3>1, <3>2, AnswerManager
  <2>4. expected' = TRUE
    BY <1>5, <1>9, <1>10, <1>12, ReactExpected
  <2> QED BY <1>9, <2>3, <2>4 DEF IInv
<1>13. CASE a.drops = TRUE
  <2>1. ~e.alive /\ Head(message_queue).type = "Accept"
    BY <1>7, <1>13
  <2>2. ManagerInv' /\ link \in connected
    BY <1>1, <1>4, <1>5, <1>9, <1>10, <1>11, <1>13, <2>1, StaleAcceptManager
  <2>3. expected' = TRUE
    BY <1>5, <1>9, <2>2, ReactExpected
  <2> QED BY <1>9, <2>2, <2>3 DEF IInv
<1>14. a.drops \in BOOLEAN
  BY <1>7
<1> QED BY <1>12, <1>13, <1>14

\* A message of the manager keeps the invariant.
LEMMA PollMessageKeeps ==
  ASSUME IInv, poll_message
  PROVE  IInv'
<1> DEFINE m == Head(message_queue)
<1>1. message_queue # <<>> /\ ManagerInv
  BY DEF poll_message, IInv
<1>2. PICK late \in BOOLEAN : Network([peerset_message(m, late) EXCEPT !.unread = Tail(message_queue)])
  BY DEF poll_message
<1>3. m \in Messages
  BY <1>1, ManagerTypes, QueueTail
<1>4. m.type \in {"Connect", "Accept", "Reject"}
  BY <1>3, MessageTypes
<1>5. CASE m.type = "Connect"
  <2>1. peerset_message(m, late) = peerset_report_connect(late)
    BY <1>5 DEF peerset_message
  <2> QED BY <1>1, <1>2, <1>5, <2>1, PollConnect
<1>6. CASE m.type \in {"Accept", "Reject"}
  <2>1. PICK e \in incoming_peers : Answered(m) = {e} /\ e.id = m.index /\ e.alive \in BOOLEAN
    BY <1>1, <1>6, AnsweredIs
  <2> DEFINE a == IF m.type = "Accept" THEN peerset_report_accept(e) ELSE peerset_report_reject(e)
             b == [a EXCEPT !.incoming = @ \ {e}]
  <2>2. (CHOOSE f \in Answered(m) : TRUE) = e /\ Answered(m) # {}
    BY <2>1
  <2>3. peerset_message(m, late) = b
    BY <1>6, <2>2 DEF peerset_message
  <2> HIDE DEF a, b
  <2>4. Network([b EXCEPT !.unread = Tail(message_queue)])
    BY <1>2, <2>3
  <2>5. b = [a EXCEPT !.incoming = @ \ {e}]
    BY DEF b
  <2>6. a = IF m.type = "Accept" THEN peerset_report_accept(e) ELSE peerset_report_reject(e)
    BY DEF a
  <2> QED BY <1>1, <1>6, <2>1, <2>4, <2>5, <2>6, PollAnswer
<1> QED BY <1>4, <1>5, <1>6

\* The entry becomes p, which has the connections conns.
LEMMA ToGood ==
  ASSUME NEW p \in Entries, ConnectionsOk(p.st, p.connections), p.st \in Waiting => p.timer \in delays,
         api # 0 <=> is_open(p), NEW o, o = To(p)
  PROVE  /\ Good(o, p.connections) /\ o.peer = p /\ NoDelay(o)
         /\ Tells(o, FALSE, FALSE, FALSE) /\ Untouched(o) /\ DOMAIN o = OutcomeFields
<1>1. Acts(o, p, {}, {}, api) /\ NoDelay(o) /\ Tells(o, FALSE, FALSE, FALSE) /\ Untouched(o)
  BY ToIs
<1>2. Told(p.connections, p.connections, {}, {})
  BY ToldNothing
<1>3. o.expected = TRUE /\ o.delays = delays /\ o.armed = FALSE
  BY <1>1 DEF Untouched, NoDelay
<1>4. Good(o, p.connections)
  BY <1>1, <1>2, <1>3, GoodFrom
<1> QED BY <1>1, <1>4 DEF Acts

\* The link is forgotten.
LEMMA AbsentGood ==
  ASSUME api = 0, NEW o, o = To(Absent)
  PROVE  /\ Good(o, <<>>) /\ o.peer.st = "None" /\ NoDelay(o)
         /\ Tells(o, FALSE, FALSE, FALSE) /\ Untouched(o) /\ DOMAIN o = OutcomeFields
<1> DEFINE p == Absent
<1>1. p \in Entries /\ p.st = "None" /\ p.connections = <<>>
  BY NoConnections DEF Absent, Entry, Entries, Waiting
<1>2. o = To(p)
  OBVIOUS
<1> HIDE DEF p
<1>3. ConnectionsOk(p.st, p.connections) /\ (p.st \in Waiting => p.timer \in delays) /\ ~is_open(p)
  BY <1>1 DEF ConnectionsOk, Waiting, is_open
<1>4. /\ Good(o, p.connections) /\ o.peer = p /\ NoDelay(o)
      /\ Tells(o, FALSE, FALSE, FALSE) /\ Untouched(o) /\ DOMAIN o = OutcomeFields
  BY <1>1, <1>2, <1>3, ToGood
<1> QED BY <1>1, <1>4

\* A link that waits for a closed connection does not wait any more.
LEMMA PendingEndsGood ==
  ASSUME EntryInv, peer.st = "DisabledPendingEnable", NEW o, o = To(Entry("Disabled", peer.connections, 0, TRUE))
  PROVE  /\ Good(o, peer.connections) /\ o.peer.st = "Disabled" /\ NoDelay(o)
         /\ Tells(o, FALSE, FALSE, FALSE) /\ Untouched(o) /\ DOMAIN o = OutcomeFields
<1> DEFINE p == Entry("Disabled", peer.connections, 0, TRUE)
<1>1. peer.connections \in Connections /\ ConnectionsOk(peer.st, peer.connections)
  BY PeerIs
<1>2. p \in Entries /\ p.st = "Disabled" /\ p.connections = peer.connections
  BY <1>1 DEF Entry, Entries, Waiting
<1>3. o = To(p)
  OBVIOUS
<1> HIDE DEF p
<1>4. ConnectionsOk(p.st, p.connections) /\ (p.st \in Waiting => p.timer \in delays)
  BY <1>1, <1>2 DEF ConnectionsOk, Waiting
<1>5. api # 0 <=> is_open(p)
  <2>1. ~is_open(peer) /\ ~is_open(p)
    BY <1>2 DEF is_open
  <2> QED BY <2>1 DEF EntryInv, EntryOk
<1>6. /\ Good(o, p.connections) /\ o.peer = p /\ NoDelay(o)
      /\ Tells(o, FALSE, FALSE, FALSE) /\ Untouched(o) /\ DOMAIN o = OutcomeFields
  BY <1>2, <1>3, <1>4, <1>5, ToGood
<1> QED BY <1>2, <1>6

\* The users hold a sink of an enabled link only.
LEMMA NoSink ==
  ASSUME EntryInv, peer.st # "Enabled"
  PROVE  api = 0
BY DEF EntryInv, EntryOk, is_open

\* The manager gives up a link that the network wants.
LEMMA ReportDisconnect ==
  ASSUME EntryInv, peer.st \in Requesting, NEW o, o = peerset_report_disconnect
  PROVE  /\ Good(o, peer.connections) /\ o.peer.st \in {"None", "Backoff", "Disabled"} /\ NoDelay(o)
         /\ Untouched(o)
<1>1. CASE peer.st = "DisabledPendingEnable"
  <2>1. o = To(Entry("Disabled", peer.connections, 0, TRUE))
    BY <1>1 DEF peerset_report_disconnect
  <2> QED BY <1>1, <2>1, PendingEndsGood
<1>2. CASE peer.st = "Enabled"
  <2>1. o = Disable
    BY <1>2 DEF peerset_report_disconnect
  <2> QED BY <1>2, <2>1, DisableGood
<1>3. CASE peer.st = "Requested"
  <2>1. o = To(Absent)
    BY <1>3 DEF peerset_report_disconnect
  <2>2. peer.connections = <<>> /\ api = 0
    BY <1>3, PeerIs, NoSink DEF ConnectionsOk
  <2> QED BY <2>1, <2>2, AbsentGood
<1>4. CASE peer.st = "PendingRequest"
  <2>1. o = To([peer EXCEPT !.st = "Backoff"])
    BY <1>4 DEF peerset_report_disconnect
  <2> QED BY <1>4, <2>1, RestateGood
<1> QED BY <1>1, <1>2, <1>3, <1>4 DEF Requesting

\* A manager that gives up the link keeps the invariant.
LEMMA PollDropKeeps ==
  ASSUME IInv, poll_drop
  PROVE  IInv'
<1> DEFINE o == peerset_message(Drop(link), FALSE)
           conns == peer.connections
           fr == from_handler
<1>1. EntryInv /\ ManagerInv /\ WireInv /\ expected = TRUE
  BY DEF IInv
<1>2. message_queue = <<>> /\ link \in connected
  BY DEF poll_drop
<1>3. Wanting(message_queue) = {} /\ Answers(message_queue) = {}
  BY <1>2 DEF Wanting, Answers
<1>4. peer.st \in Requesting
  BY <1>1, <1>2, <1>3 DEF ManagerInv, WantOk
<1>5. Drop(link).type = "Drop"
  BY DEF Drop
<1>6. o = peerset_report_disconnect
  BY <1>5 DEF peerset_message
<1>7. /\ peer' = o.peer /\ api' = o.api /\ expected' = (expected /\ o.expected) /\ Notify(o)
      /\ connected' = connected \ {link} /\ message_queue' = message_queue /\ incoming_peers' = incoming_peers
      /\ delays' = delays /\ dialing' = dialing /\ handler' = handler /\ from_handler' = from_handler
  BY DEF poll_drop
<1> HIDE DEF o
<1>8. /\ Good(o, conns) /\ o.peer.st \in {"None", "Backoff", "Disabled"} /\ NoDelay(o)
      /\ Untouched(o)
  BY <1>1, <1>4, <1>6, ReportDisconnect
<1>9. Sound(o) /\ Told(conns, o.peer.connections, o.opened, o.closed) /\ o.expected = TRUE
      /\ o.delays = delays /\ o.armed = FALSE
  BY <1>8 DEF Good, Untouched, NoDelay
<1>10. EntryInv'
  <2>1. /\ peer' \in Entries /\ ConnectionsOk(peer'.st, peer'.connections)
        /\ (peer'.st \in Waiting => peer'.timer \in delays') /\ (api' # 0 <=> is_open(peer'))
    BY <1>7, <1>9 DEF Sound
  <2>2. is_open(peer)' = is_open(peer')
    BY DEF is_open
  <2>3. peer'.st # "Requested"
    BY <1>7, <1>8
  <2>4. delays' \subseteq DelayId /\ dialing' \in BOOLEAN
    BY <1>1, <1>7 DEF EntryInv
  <2> QED BY <2>1, <2>2, <2>3, <2>4 DEF EntryInv, EntryOk
<1>11. WireInv'
  <2>1. WireTypes /\ conns \in Connections /\ fr \in [Conn -> Seq(Event)] /\ WireOk(conns, handler, to_handler, fr)
    BY <1>1, PeerIs DEF WireInv, WireTypes
  <2> HIDE DEF conns, fr
  <2>2. to_handler' \in [Conn -> Seq({"Open", "Close"})] /\ WireOk(o.peer.connections, handler, to_handler', fr)
    BY <2>1, <1>7, <1>9, NotifyKeeps
  <2> QED BY <2>1, <2>2, <1>7 DEF WireInv, WireTypes, fr
<1>12. ManagerInv'
  <2>1. link \notin connected' /\ connected' \subseteq {link}
    BY <1>1, <1>7 DEF ManagerInv
  <2>2. peer'.st \notin Requesting /\ peer'.st # "Incoming" /\ peer.st # "Incoming"
    BY <1>4, <1>7, <1>8 DEF Requesting
  <2>3. WantOk(peer'.st, connected', message_queue')
    BY <2>1, <2>2, <1>3, <1>7 DEF WantOk
  <2>4. QuestionOk(peer'.st, incoming_peers')
    BY <2>2, <1>1, <1>7 DEF ManagerInv, QuestionOk
  <2> QED BY <2>1, <2>3, <2>4, <1>1, <1>7 DEF ManagerInv
<1> QED BY <1>1, <1>7, <1>9, <1>10, <1>11, <1>12 DEF IInv

\* The manager asks for the link.
LEMMA ManagerConnectsKeeps ==
  ASSUME IInv, ManagerConnects
  PROVE  IInv'
<1>1. EntryInv /\ ManagerInv /\ WireInv /\ expected = TRUE
  BY DEF IInv
<1>2. /\ link \notin connected /\ connected' = connected \cup {link}
      /\ message_queue' = Append(message_queue, Connect(link))
      /\ UNCHANGED <<peer, incoming_peers, delays, api, dialing, expected, handler, to_handler, from_handler>>
  BY DEF ManagerConnects, networkVars, handlerVars
<1>3. EntryInv' /\ WireInv' /\ expected' = TRUE
  BY <1>1, <1>2 DEF EntryInv, EntryOk, WireInv, is_open
<1>4. /\ connected \subseteq {link} /\ message_queue \in Seq(Messages)
      /\ WantOk(peer.st, connected, message_queue) /\ AnswerOk(message_queue, incoming_peers)
  BY <1>1, ManagerTypes
<1>5. Connect(link) \in Messages /\ Connect(link).type = "Connect"
  BY DEF Messages, Connect
<1>6. Wanting(message_queue) = {} /\ peer.st \notin Requesting
  BY <1>2, <1>4 DEF WantOk
<1>7. WantOk(peer.st, connected', message_queue')
  BY <1>2, <1>4, <1>5, <1>6, WantAppend
<1>8. AnswerOk(message_queue', incoming_peers) /\ message_queue' \in Seq(Messages)
  BY <1>2, <1>4, <1>5, AnswerAppendConnect
<1>9. ManagerInv'
  BY <1>1, <1>2, <1>4, <1>7, <1>8 DEF ManagerInv
<1> QED BY <1>3, <1>9 DEF IInv

-----------------------------------------------------------------------------
(* Delays, calls of the users, and dials *)

\* The outcome o tells the manager nothing.
LEMMA ManagedQuiet ==
  ASSUME NEW o, Tells(o, FALSE, FALSE, FALSE), Untouched(o),
         o.peer.st \in Requesting <=> peer.st \in Requesting,
         o.peer.st = "Incoming" <=> peer.st = "Incoming"
  PROVE  Managed(o)
BY DEF Managed, Tells, Untouched

\* The outcome o drops the link.
LEMMA ManagedDrops ==
  ASSUME NEW o, Tells(o, TRUE, FALSE, FALSE), Untouched(o),
         peer.st \in Requesting, o.peer.st \notin Requesting, o.peer.st # "Incoming"
  PROVE  Managed(o)
BY DEF Managed, Tells, Untouched

\* The outcome o makes the question to the manager obsolete.
LEMMA ManagedObsolete ==
  ASSUME NEW o, Tells(o, FALSE, FALSE, TRUE), Untouched(o),
         peer.st = "Incoming", o.peer.st \notin Requesting, o.peer.st # "Incoming"
  PROVE  Managed(o)
BY DEF Managed, Tells, Untouched

\* The outcome a, once the delay t is over.
Delayed(o, a, t) == o = [a EXCEPT !.delays = @ \ {t}]

\* An outcome that does not need the delay t.
Timeless(a, conns, t) ==
  /\ Good(a, conns) /\ DOMAIN a = OutcomeFields /\ a.armed = FALSE /\ a.delays = delays
  /\ a.peer.st \in Waiting => a.peer.timer # t
  /\ Tells(a, FALSE, FALSE, FALSE) /\ Untouched(a)

\* A delay that the entry does not wait for any more is over.
LEMMA AfterDelay ==
  ASSUME NEW a, NEW conns, NEW t, Timeless(a, conns, t), NEW o, Delayed(o, a, t)
  PROVE  /\ Good(o, conns) /\ o.peer = a.peer /\ o.dials = a.dials
         /\ Tells(o, FALSE, FALSE, FALSE) /\ Untouched(o)
<1>1. /\ o.peer = a.peer /\ o.opened = a.opened /\ o.closed = a.closed /\ o.api = a.api
      /\ o.armed = a.armed /\ o.delays = delays \ {t} /\ o.dials = a.dials
      /\ o.drops = a.drops /\ o.asks = a.asks /\ o.obsolete = a.obsolete
      /\ o.expected = a.expected /\ o.incoming = a.incoming /\ o.unread = a.unread
  BY DEF OutcomeFields, Delayed, Timeless
<1>2. Tells(o, FALSE, FALSE, FALSE) /\ Untouched(o)
  BY <1>1 DEF Tells, Untouched, Timeless
<1>3. a.peer.st \in Waiting => a.peer.timer \in delays \ {t}
  BY DEF Good, Sound, Timeless
<1>4. Sound(o)
  BY <1>1, <1>3 DEF Good, Sound, Timeless
<1>5. Good(o, conns)
  BY <1>1, <1>4 DEF Good, Timeless
<1> QED BY <1>1, <1>2, <1>5

\* A delay that fires keeps the invariant, whichever entry it finds.
LEMMA PollTimerKeeps ==
  ASSUME IInv, NEW t \in DelayId, poll_timer(t)
  PROVE  IInv'
<1> DEFINE o == poll_delay(t)
           after(x) == [x EXCEPT !.delays = @ \ {t}]
<1>1. EntryInv /\ ManagerInv /\ expected = TRUE
  BY DEF IInv
<1>2. Network(o)
  BY DEF poll_timer
<1>3. \/ peer.st = "Backoff" /\ o = after(To(Absent))
      \/ peer.st = "PendingRequest" /\ o = after(Request)
      \/ /\ peer.st = "DisabledPendingEnable" /\ Some(peer.connections, {"Closed"})
         /\ o = after(Enable({First(peer.connections, "Closed")}))
      \/ o = Keep
      \/ (peer.st \in Waiting => peer.timer # t) /\ o = after(Keep)
  BY DEF poll_delay, Waiting
<1>4. SUFFICES /\ Good(o, peer.connections) /\ o.dials \in BOOLEAN
               /\ o.peer.st = "Requested" => peer.st = "Requested" \/ o.dials = TRUE
               /\ Managed(o)
  <2> HIDE DEF o
  <2> QED BY <1>2, NetworkManaged
<1> HIDE DEF o
<1>5. CASE peer.st = "Backoff" /\ o = after(To(Absent))
  <2> DEFINE a == To(Absent)
  <2>1. Delayed(o, a, t)
    BY <1>5 DEF Delayed
  <2>2. peer.connections = <<>> /\ api = 0
    BY <1>1, <1>5, PeerIs, NoSink DEF ConnectionsOk
  <2>3. /\ Good(a, peer.connections) /\ a.peer.st = "None" /\ NoDelay(a)
        /\ Tells(a, FALSE, FALSE, FALSE) /\ Untouched(a) /\ DOMAIN a = OutcomeFields
    BY <2>2, AbsentGood
  <2> HIDE DEF a
  <2>4. a.armed = FALSE /\ a.delays = delays /\ a.dials = FALSE /\ (a.peer.st \in Waiting => a.peer.timer # t)
    BY <2>3 DEF NoDelay, Waiting
  <2>5. Good(o, peer.connections) /\ o.peer = a.peer /\ o.dials = a.dials /\ Tells(o, FALSE, FALSE, FALSE) /\ Untouched(o)
    <3>1. Timeless(a, peer.connections, t)
      BY <2>3, <2>4 DEF Timeless
    <3> QED BY <2>1, <3>1, AfterDelay
  <2>6. Managed(o)
    BY <2>3, <2>5, <1>5, ManagedQuiet DEF Requesting
  <2> QED BY <2>3, <2>4, <2>5, <2>6
<1>6. CASE peer.st = "PendingRequest" /\ o = after(Request)
  <2> DEFINE a == Request
  <2>1. Delayed(o, a, t)
    BY <1>6 DEF Delayed
  <2>2. peer.connections = <<>>
    BY <1>1, <1>6, PeerIs DEF ConnectionsOk
  <2>3. /\ Good(a, peer.connections) /\ a.peer.st = "Requested" /\ a.dials = TRUE /\ a.delays = delays
        /\ a.armed = FALSE /\ Tells(a, FALSE, FALSE, FALSE) /\ Untouched(a) /\ DOMAIN a = OutcomeFields
    BY <1>1, <2>2, RequestGood
  <2> HIDE DEF a
  <2>4. a.peer.st \in Waiting => a.peer.timer # t
    BY <2>3 DEF Waiting
  <2>5. Good(o, peer.connections) /\ o.peer = a.peer /\ o.dials = a.dials /\ Tells(o, FALSE, FALSE, FALSE) /\ Untouched(o)
    <3>1. Timeless(a, peer.connections, t)
      BY <2>3, <2>4 DEF Timeless
    <3> QED BY <2>1, <3>1, AfterDelay
  <2>6. Managed(o)
    BY <2>3, <2>5, <1>6, ManagedQuiet DEF Requesting
  <2> QED BY <2>3, <2>5, <2>6
<1>7. CASE /\ peer.st = "DisabledPendingEnable" /\ Some(peer.connections, {"Closed"})
           /\ o = after(Enable({First(peer.connections, "Closed")}))
  <2> DEFINE a == Enable({First(peer.connections, "Closed")})
  <2>1. Delayed(o, a, t)
    BY <1>7 DEF Delayed
  <2>2. /\ Good(a, peer.connections) /\ a.peer.st = "Enabled" /\ NoDelay(a)
        /\ Tells(a, FALSE, FALSE, FALSE) /\ Untouched(a) /\ DOMAIN a = OutcomeFields
    BY <1>1, <1>7, EnableFirstGood
  <2> HIDE DEF a
  <2>3. a.armed = FALSE /\ a.delays = delays /\ a.dials = FALSE /\ (a.peer.st \in Waiting => a.peer.timer # t)
    BY <2>2 DEF NoDelay, Waiting
  <2>4. Good(o, peer.connections) /\ o.peer = a.peer /\ o.dials = a.dials /\ Tells(o, FALSE, FALSE, FALSE) /\ Untouched(o)
    <3>1. Timeless(a, peer.connections, t)
      BY <2>2, <2>3 DEF Timeless
    <3> QED BY <2>1, <3>1, AfterDelay
  <2>5. Managed(o)
    BY <2>2, <2>4, <1>7, ManagedQuiet DEF Requesting
  <2> QED BY <2>2, <2>3, <2>4, <2>5
<1>8. CASE o = Keep
  <2>1. Acts(o, peer, {}, {}, api) /\ NoDelay(o) /\ Tells(o, FALSE, FALSE, FALSE) /\ Untouched(o)
    BY <1>8, KeepIs
  <2>2. Good(o, peer.connections)
    BY <1>1, <1>8, ToldNothing, KeepGood
  <2>3. o.peer = peer /\ o.dials = FALSE
    BY <2>1 DEF Acts, NoDelay
  <2>4. Managed(o)
    BY <2>1, <2>3, ManagedQuiet
  <2> QED BY <2>2, <2>3, <2>4
<1>9. CASE (peer.st \in Waiting => peer.timer # t) /\ o = after(Keep)
  <2> DEFINE a == Keep
  <2>1. Delayed(o, a, t)
    BY <1>9 DEF Delayed
  <2>2. Acts(a, peer, {}, {}, api) /\ NoDelay(a) /\ Tells(a, FALSE, FALSE, FALSE) /\ Untouched(a)
    BY KeepIs
  <2>3. Good(a, peer.connections)
    BY <1>1, ToldNothing, KeepGood
  <2> HIDE DEF a
  <2>4. a.peer = peer /\ a.armed = FALSE /\ a.delays = delays /\ a.dials = FALSE /\ DOMAIN a = OutcomeFields
    BY <2>2 DEF Acts, NoDelay
  <2>5. Good(o, peer.connections) /\ o.peer = a.peer /\ o.dials = a.dials /\ Tells(o, FALSE, FALSE, FALSE) /\ Untouched(o)
    <3>1. a.peer.st \in Waiting => a.peer.timer # t
      BY <1>9, <2>4
    <3>2. Timeless(a, peer.connections, t)
      BY <2>2, <2>3, <2>4, <3>1 DEF Timeless
    <3> QED BY <2>1, <3>2, AfterDelay
  <2>6. Managed(o)
    BY <2>4, <2>5, ManagedQuiet
  <2> QED BY <2>4, <2>5, <2>6
<1> QED BY <1>3, <1>5, <1>6, <1>7, <1>8, <1>9

\* The outcome a, and the manager is told that the link is dropped.
LEMMA WithDrops ==
  ASSUME NEW a, NEW conns, Good(a, conns), DOMAIN a = OutcomeFields, Tells(a, FALSE, FALSE, FALSE), Untouched(a),
         NoDelay(a), NEW o, o = [a EXCEPT !.drops = TRUE]
  PROVE  Good(o, conns) /\ o.peer = a.peer /\ NoDelay(o) /\ Tells(o, TRUE, FALSE, FALSE) /\ Untouched(o)
<1>1. /\ o.peer = a.peer /\ o.opened = a.opened /\ o.closed = a.closed /\ o.api = a.api
      /\ o.armed = a.armed /\ o.delays = a.delays /\ o.dials = a.dials
      /\ o.drops = TRUE /\ o.asks = a.asks /\ o.obsolete = a.obsolete
      /\ o.expected = a.expected /\ o.incoming = a.incoming /\ o.unread = a.unread
  BY DEF OutcomeFields
<1>2. Tells(o, TRUE, FALSE, FALSE) /\ Untouched(o) /\ Like(o, a) /\ NoDelay(o)
  BY <1>1 DEF Tells, Untouched, Like, NoDelay
<1>3. Good(o, conns)
  BY <1>2, LikeGood DEF Untouched
<1> QED BY <1>1, <1>2, <1>3

\* The outcome a, and the question to the manager is obsolete.
LEMMA WithObsolete ==
  ASSUME NEW a, NEW conns, Good(a, conns), DOMAIN a = OutcomeFields, Tells(a, FALSE, FALSE, FALSE), Untouched(a),
         NoDelay(a), NEW o, o = [a EXCEPT !.obsolete = TRUE]
  PROVE  Good(o, conns) /\ o.peer = a.peer /\ NoDelay(o) /\ Tells(o, FALSE, FALSE, TRUE) /\ Untouched(o)
<1>1. /\ o.peer = a.peer /\ o.opened = a.opened /\ o.closed = a.closed /\ o.api = a.api
      /\ o.armed = a.armed /\ o.delays = a.delays /\ o.dials = a.dials
      /\ o.drops = a.drops /\ o.asks = a.asks /\ o.obsolete = TRUE
      /\ o.expected = a.expected /\ o.incoming = a.incoming /\ o.unread = a.unread
  BY DEF OutcomeFields
<1>2. Tells(o, FALSE, FALSE, TRUE) /\ Untouched(o) /\ Like(o, a) /\ NoDelay(o)
  BY <1>1 DEF Tells, Untouched, Like, NoDelay
<1>3. Good(o, conns)
  BY <1>2, LikeGood DEF Untouched
<1> QED BY <1>1, <1>2, <1>3

\* A user that disconnects the node keeps the invariant.
LEMMA DisconnectKeeps ==
  ASSUME IInv, disconnect_peer
  PROVE  IInv'
<1> DEFINE o == disconnect_peer_inner
<1>1. EntryInv /\ ManagerInv /\ expected = TRUE
  BY DEF IInv
<1>2. Network(o) /\ peer.st \in {"DisabledPendingEnable", "Enabled", "Incoming"}
  BY DEF disconnect_peer
<1>3. \/ /\ peer.st = "DisabledPendingEnable"
         /\ o = [To(Entry("Disabled", peer.connections, 0, TRUE)) EXCEPT !.drops = TRUE]
      \/ peer.st = "Enabled" /\ o = [Disable EXCEPT !.drops = TRUE]
      \/ peer.st = "Incoming" /\ o = [Refuse EXCEPT !.obsolete = TRUE]
  BY <1>1, <1>2, IncomingAlive DEF disconnect_peer_inner
<1> HIDE DEF o
<1>4. SUFFICES Good(o, peer.connections) /\ NoDelay(o) /\ o.peer.st = "Disabled" /\ Managed(o)
  <2>1. o.dials \in BOOLEAN /\ (o.peer.st = "Requested" => peer.st = "Requested" \/ o.dials = TRUE)
    BY <1>4 DEF NoDelay
  <2> QED BY <1>2, <1>4, <2>1, NetworkManaged
<1>5. CASE /\ peer.st = "DisabledPendingEnable"
           /\ o = [To(Entry("Disabled", peer.connections, 0, TRUE)) EXCEPT !.drops = TRUE]
  <2> DEFINE a == To(Entry("Disabled", peer.connections, 0, TRUE))
  <2>1. /\ Good(a, peer.connections) /\ a.peer.st = "Disabled" /\ NoDelay(a)
        /\ Tells(a, FALSE, FALSE, FALSE) /\ Untouched(a) /\ DOMAIN a = OutcomeFields
    BY <1>1, <1>5, PendingEndsGood
  <2>2. o = [a EXCEPT !.drops = TRUE]
    BY <1>5
  <2> HIDE DEF a
  <2>3. Good(o, peer.connections) /\ o.peer = a.peer /\ NoDelay(o) /\ Tells(o, TRUE, FALSE, FALSE) /\ Untouched(o)
    BY <2>1, <2>2, WithDrops
  <2>4. Managed(o)
    BY <2>1, <2>3, <1>5, ManagedDrops DEF Requesting
  <2> QED BY <2>1, <2>3, <2>4
<1>6. CASE peer.st = "Enabled" /\ o = [Disable EXCEPT !.drops = TRUE]
  <2> DEFINE a == Disable
  <2>1. /\ Good(a, peer.connections) /\ a.peer.st = "Disabled" /\ NoDelay(a)
        /\ Tells(a, FALSE, FALSE, FALSE) /\ Untouched(a) /\ DOMAIN a = OutcomeFields
    BY <1>1, <1>6, DisableGood
  <2>2. o = [a EXCEPT !.drops = TRUE]
    BY <1>6
  <2> HIDE DEF a
  <2>3. Good(o, peer.connections) /\ o.peer = a.peer /\ NoDelay(o) /\ Tells(o, TRUE, FALSE, FALSE) /\ Untouched(o)
    BY <2>1, <2>2, WithDrops
  <2>4. Managed(o)
    BY <2>1, <2>3, <1>6, ManagedDrops DEF Requesting
  <2> QED BY <2>1, <2>3, <2>4
<1>7. CASE peer.st = "Incoming" /\ o = [Refuse EXCEPT !.obsolete = TRUE]
  <2> DEFINE a == Refuse
  <2>1. /\ Good(a, peer.connections) /\ a.peer.st = "Disabled" /\ NoDelay(a)
        /\ Tells(a, FALSE, FALSE, FALSE) /\ Untouched(a) /\ DOMAIN a = OutcomeFields
    BY <1>1, <1>7, RefuseGood
  <2>2. o = [a EXCEPT !.obsolete = TRUE]
    BY <1>7
  <2> HIDE DEF a
  <2>3. Good(o, peer.connections) /\ o.peer = a.peer /\ NoDelay(o) /\ Tells(o, FALSE, FALSE, TRUE) /\ Untouched(o)
    BY <2>1, <2>2, WithObsolete
  <2>4. Managed(o)
    BY <2>1, <2>3, <1>7, ManagedObsolete DEF Requesting
  <2> QED BY <2>1, <2>3, <2>4
<1> QED BY <1>3, <1>5, <1>6, <1>7

\* A dial by another part of the network keeps the invariant.
LEMMA DialElsewhereKeeps ==
  ASSUME IInv, dial_elsewhere
  PROVE  IInv'
<1>1. /\ dialing' = TRUE
      /\ UNCHANGED <<connected, message_queue, peer, incoming_peers, delays, api, expected, handler,
                     to_handler, from_handler>>
  BY DEF dial_elsewhere, contractVars, handlerVars
<1> QED BY <1>1 DEF IInv, EntryInv, EntryOk, is_open, WireInv, ManagerInv

\* A dial that fails keeps the invariant.
LEMMA DialFailsKeeps ==
  ASSUME IInv, dial_fails
  PROVE  IInv'
<1> DEFINE o == inject_dial_failure
           p == Entry("Backoff", <<>>, 0, FALSE)
<1>1. EntryInv /\ ManagerInv /\ WireInv /\ expected = TRUE
  BY DEF IInv
<1>2. dialing' = FALSE /\ React(o) /\ handler' = handler /\ to_handler' = to_handler /\ from_handler' = from_handler
  BY DEF dial_fails, handlerVars
<1>3. \/ /\ peer.st \in {"Requested", "PendingRequest"}
         /\ o = [To(p) EXCEPT !.armed = TRUE, !.drops = TRUE]
      \/ peer.st \notin {"Requested", "PendingRequest"} /\ o = Keep
  BY <1>1, PeerIs DEF inject_dial_failure
<1>4. p \in Entries /\ p.st = "Backoff" /\ p.connections = <<>>
  BY NoConnections DEF Entry, Entries, Waiting
<1> HIDE DEF o, p
<1>5. Sound(o) /\ Managed(o) /\ o.peer.connections = peer.connections /\ o.peer.st # "Requested"
  <2>1. CASE /\ peer.st \in {"Requested", "PendingRequest"}
             /\ o = [To(p) EXCEPT !.armed = TRUE, !.drops = TRUE]
    <3>1. /\ Acts(o, p, {}, {}, api) /\ o.armed = TRUE /\ o.dials = FALSE /\ o.delays = delays
          /\ Tells(o, TRUE, FALSE, FALSE) /\ Untouched(o)
      BY <2>1, ToArmedDrops
    <3>2. peer.connections = <<>> /\ api = 0
      BY <1>1, <2>1, PeerIs, NoSink DEF ConnectionsOk
    <3>3. ConnectionsOk(p.st, p.connections) /\ ~is_open(p)
      BY <1>4 DEF ConnectionsOk, is_open
    <3>4. Told(p.connections, p.connections, {}, {}) /\ o.expected = TRUE
      BY <3>1, ToldNothing DEF Untouched
    <3>5. Good(o, p.connections)
      BY <3>1, <3>2, <3>3, <3>4, <1>4, GoodFrom
    <3>6. o.peer = p
      BY <3>1 DEF Acts
    <3>7. Managed(o)
      BY <2>1, <3>1, <3>6, <1>4, ManagedDrops DEF Requesting
    <3> QED BY <3>2, <3>5, <3>6, <3>7, <1>4 DEF Good
  <2>2. CASE peer.st \notin {"Requested", "PendingRequest"} /\ o = Keep
    <3>1. Acts(o, peer, {}, {}, api) /\ NoDelay(o) /\ Tells(o, FALSE, FALSE, FALSE) /\ Untouched(o)
      BY <2>2, KeepIs
    <3>2. Good(o, peer.connections)
      BY <1>1, <2>2, ToldNothing, KeepGood
    <3>3. o.peer = peer
      BY <3>1 DEF Acts
    <3>4. Managed(o)
      BY <3>1, <3>3, ManagedQuiet
    <3> QED BY <2>2, <3>2, <3>3, <3>4 DEF Good
  <2> QED BY <1>3, <2>1, <2>2
<1>6. peer'.st = o.peer.st /\ peer'.connections = peer.connections
  BY <1>1, <1>2, <1>5, ReactPeer
<1>7. EntryInv'
  <2>1. dialing' \in BOOLEAN /\ (o.peer.st = "Requested" => dialing')
    BY <1>2, <1>5
  <2> QED BY <1>1, <1>2, <1>5, <2>1, ReactEntry
<1>8. WireInv'
  BY <1>1, <1>2, <1>6 DEF WireInv
<1>9. ManagerInv' /\ expected' = TRUE
  BY <1>1, <1>2, <1>5, <1>6, ManagedKeeps DEF Sound
<1> QED BY <1>7, <1>8, <1>9 DEF IInv

-----------------------------------------------------------------------------
(* A new connection *)

\* The states of the connections when there is a new one.
LEMMA ExtendsStates ==
  ASSUME NEW conns, NEW c, NEW s, NEW t, Extends(t, conns, c, s)
  PROVE  States(t) = States(conns) \cup {s} /\ \A S : Some(t, S) <=> Some(conns, S) \/ s \in S
<1>1. PICK n \in DOMAIN t : DOMAIN t = DOMAIN conns \cup {n} /\ n \notin DOMAIN conns /\ t[n].state = s
  BY DEF Extends
<1>2. \A k \in DOMAIN conns : t[k] = conns[k]
  BY DEF Extends
<1>3. States(t) = States(conns) \cup {s}
  BY <1>1, <1>2 DEF States
<1>4. ASSUME NEW S PROVE Some(t, S) <=> Some(conns, S) \/ s \in S
  BY <1>1, <1>2, SomeIs
<1> QED BY <1>3, <1>4

\* Another closed connection fits every entry that has connections.
LEMMA AppendClosed ==
  ASSUME NEW conns \in Connections, NEW c \in Conn, c \notin Ids(conns),
         NEW t, Extends(t, conns, c, "Closed"),
         NEW st \in {"Disabled", "DisabledPendingEnable", "Incoming", "Enabled"}, ConnectionsOk(st, conns)
  PROVE  t \in Connections /\ ConnectionsOk(st, t) /\ (Some(t, {"Open"}) <=> Some(conns, {"Open"}))
<1>2. t \in Connections /\ t # <<>>
  BY DEF Extends
<1>3. States(t) = States(conns) \cup {"Closed"} /\ \A S : Some(t, S) <=> Some(conns, S) \/ "Closed" \in S
  BY ExtendsStates
<1>4. /\ Some(t, {"Open"}) <=> Some(conns, {"Open"})
      /\ Some(t, Active) <=> Some(conns, Active)
      /\ Some(t, {"OpenDesiredByRemote"}) <=> Some(conns, {"OpenDesiredByRemote"})
  <2>1. "Closed" \notin {"Open"} /\ "Closed" \notin Active /\ "Closed" \notin {"OpenDesiredByRemote"}
    BY DEF Active
  <2> QED BY <2>1, <1>3
<1>5. ConnectionsOk(st, t)
  <2>1. CASE st \in {"Disabled", "DisabledPendingEnable"}
    <3>1. States(conns) \subseteq {"Closed", "Closing", "OpeningThenClosing"}
      BY <2>1 DEF ConnectionsOk
    <3>2. States(t) \subseteq {"Closed", "Closing", "OpeningThenClosing"}
      BY <3>1, <1>3
    <3> QED BY <3>2, <2>1, <1>2 DEF ConnectionsOk
  <2>2. CASE st = "Incoming"
    <3>1. States(conns) \subseteq {"Closed", "OpenDesiredByRemote", "Closing", "OpeningThenClosing"} /\ Some(conns, {"OpenDesiredByRemote"})
      BY <2>2 DEF ConnectionsOk
    <3>2. States(t) \subseteq {"Closed", "OpenDesiredByRemote", "Closing", "OpeningThenClosing"}
      BY <3>1, <1>3
    <3> QED BY <3>1, <3>2, <2>2, <1>4 DEF ConnectionsOk
  <2>3. CASE st = "Enabled"
    <3>1. "OpenDesiredByRemote" \notin States(conns) /\ Some(conns, Active)
      BY <2>3 DEF ConnectionsOk
    <3>2. "OpenDesiredByRemote" \notin States(t)
      BY <3>1, <1>3
    <3> QED BY <3>1, <3>2, <2>3, <1>4 DEF ConnectionsOk
  <2> QED BY <2>1, <2>2, <2>3
<1> QED BY <1>2, <1>4, <1>5

\* The first connection of an entry.
LEMMA OneConnection ==
  ASSUME NEW c \in Conn, NEW s \in View, NEW t, t = Added(<<>>, c, s)
  PROVE  /\ t \in Connections /\ t # <<>> /\ States(t) = {s}
         /\ \A S : Some(t, S) <=> s \in S
<1> DEFINE conns == <<>>
<1>1. conns \in Connections /\ c \notin Ids(conns) /\ States(conns) = {} /\ \A S : ~Some(conns, S)
  BY NoConnections DEF Ids, States, Some, Positions
<1>2. t = Added(conns, c, s)
  OBVIOUS
<1> HIDE DEF conns
<1>3. Extends(t, conns, c, s)
  BY <1>1, <1>2, AppendConnection
<1>4. t \in Connections /\ t # <<>>
  BY <1>3 DEF Extends
<1>5. States(t) = States(conns) \cup {s} /\ \A S : Some(t, S) <=> Some(conns, S) \/ s \in S
  BY <1>3, ExtendsStates
<1> QED BY <1>1, <1>4, <1>5

\* What the behaviour makes of a new connection: it asks for a substream exactly
\* when the link is wanted.
LEMMA EstablishedGood ==
  ASSUME EntryInv, NEW c \in Conn, c \notin Ids(peer.connections), NEW o, o = inject_connection_established(c)
  PROVE  \E s \in {"Closed", "Opening"} :
           /\ Sound(o) /\ Managed(o) /\ o.peer.st # "Requested"
           /\ o.peer.connections = Added(peer.connections, c, s)
           /\ o.opened = IF s = "Opening" THEN {c} ELSE {}
<1> DEFINE conns == peer.connections
<1>1. conns \in Connections /\ peer \in Entries /\ ConnectionsOk(peer.st, conns)
  BY PeerIs
<1>2. "Closed" \in View /\ "Opening" \in View
  BY DEF View
<1>3. CASE peer.st \in {"Requested", "PendingRequest"}
  <2> DEFINE s == "Opening"
             t == Added(conns, c, "Opening")
             p == WithConnections(Entry("Enabled", <<>>, 0, FALSE), t)
  <2>1. conns = <<>> /\ api = 0
    BY <1>1, <1>3, NoSink DEF ConnectionsOk
  <2>2. t \in Connections
    <3>1. s \in View /\ t = Added(<<>>, c, s)
      BY <1>2, <2>1
    <3> HIDE DEF s, t
    <3> QED BY <3>1, OneConnection
  <2>3. States(t) = {s} /\ \A S : Some(t, S) <=> s \in S
    <3>1. s \in View /\ t = Added(<<>>, c, s)
      BY <1>2, <2>1
    <3> HIDE DEF s, t
    <3> QED BY <3>1, OneConnection
  <2>5. o = [To(p) EXCEPT !.opened = {c}]
    <3>1. Entry("Enabled", <<>>, 0, FALSE).connections = <<>>
      BY DEF Entry
    <3> QED BY <3>1, <1>3, <2>1 DEF inject_connection_established, Added
  <2>6. p \in Entries /\ p.st = "Enabled" /\ p.connections = t
    <3> HIDE DEF t
    <3> QED BY <2>2 DEF WithConnections, Entry, Entries, Waiting
  <2>7. Some(t, Active) /\ "OpenDesiredByRemote" \notin States(t) /\ ~Some(t, {"Open"})
    BY <2>3 DEF Active
  <2> HIDE DEF t, p
  <2>8. Acts(o, p, {c}, {}, api) /\ NoDelay(o) /\ Tells(o, FALSE, FALSE, FALSE) /\ Untouched(o)
    BY <2>5, ToOpened
  <2>9. ConnectionsOk(p.st, p.connections) /\ p.st \notin Waiting /\ ~is_open(p)
    BY <2>6, <2>7 DEF ConnectionsOk, Waiting, is_open
  <2>10. Sound(o) /\ o.peer = p /\ o.opened = {c}
    BY <2>1, <2>6, <2>8, <2>9 DEF Sound, Acts, NoDelay, Untouched
  <2>11. Managed(o)
    BY <1>3, <2>6, <2>8, <2>10, ManagedQuiet DEF Requesting
  <2>12. o.peer.connections = Added(conns, c, "Opening")
    BY <2>6, <2>10 DEF t
  <2> QED BY <2>6, <2>10, <2>11, <2>12
<1>4. CASE peer.st \in {"None", "Backoff"}
  <2> DEFINE b == peer.st = "Backoff"
             s == "Closed"
             t == Added(conns, c, "Closed")
             p == WithConnections(Entry("Disabled", <<>>, 0, b), t)
  <2>1. conns = <<>> /\ api = 0 /\ b \in BOOLEAN
    BY <1>1, <1>4, NoSink DEF ConnectionsOk
  <2>2. t \in Connections /\ t # <<>>
    <3>1. s \in View /\ t = Added(<<>>, c, s)
      BY <1>2, <2>1
    <3> HIDE DEF s, t
    <3> QED BY <3>1, OneConnection
  <2>3. States(t) = {s}
    <3>1. s \in View /\ t = Added(<<>>, c, s)
      BY <1>2, <2>1
    <3> HIDE DEF s, t
    <3> QED BY <3>1, OneConnection
  <2>5. o = To(p)
    <3>1. Entry("Disabled", <<>>, 0, peer.st = "Backoff").connections = <<>>
      BY DEF Entry
    <3> QED BY <3>1, <1>4, <2>1 DEF inject_connection_established, Added
  <2>6. p \in Entries /\ p.st = "Disabled" /\ p.connections = t
    <3> HIDE DEF t, b
    <3> QED BY <2>1, <2>2 DEF WithConnections, Entry, Entries, Waiting
  <2> HIDE DEF t, p
  <2>7. Acts(o, p, {}, {}, api) /\ NoDelay(o) /\ Tells(o, FALSE, FALSE, FALSE) /\ Untouched(o)
    BY <2>5, ToIs
  <2>8. ConnectionsOk(p.st, p.connections) /\ p.st \notin Waiting /\ ~is_open(p)
    BY <2>2, <2>3, <2>6 DEF ConnectionsOk, Waiting, is_open
  <2>9. Sound(o) /\ o.peer = p /\ o.opened = {}
    BY <2>1, <2>6, <2>7, <2>8 DEF Sound, Acts, NoDelay, Untouched
  <2>10. Managed(o)
    BY <1>4, <2>6, <2>7, <2>9, ManagedQuiet DEF Requesting
  <2>11. o.peer.connections = Added(conns, c, "Closed")
    BY <2>6, <2>9 DEF t
  <2> QED BY <2>6, <2>9, <2>10, <2>11
<1>5. CASE peer.st \in {"Disabled", "DisabledPendingEnable", "Incoming", "Enabled"}
  <2> DEFINE t == Added(conns, c, "Closed")
             p == WithConnections(peer, t)
  <2>1. t \in Connections /\ ConnectionsOk(peer.st, t) /\ (Some(t, {"Open"}) <=> Some(conns, {"Open"}))
    <3>1. Extends(t, conns, c, "Closed")
      BY <1>1, <1>2, AppendConnection
    <3> HIDE DEF t
    <3> QED BY <1>1, <1>5, <3>1, AppendClosed
  <2>2. o = To(p)
    BY <1>5 DEF inject_connection_established, Added
  <2>3. p \in Entries /\ p.st = peer.st /\ p.connections = t /\ p.timer = peer.timer
    <3> HIDE DEF t
    <3> QED BY <1>1, <2>1, WithConnectionsIs
  <2> HIDE DEF t, p
  <2>4. Acts(o, p, {}, {}, api) /\ NoDelay(o) /\ Tells(o, FALSE, FALSE, FALSE) /\ Untouched(o)
    BY <2>2, ToIs
  <2>5. p.st \in Waiting => p.timer \in delays
    BY <2>3, PeerIs
  <2>6. api # 0 <=> is_open(p)
    <3>1. is_open(p) <=> is_open(peer)
      BY <2>1, <2>3 DEF is_open
    <3> QED BY <3>1 DEF EntryInv, EntryOk
  <2>7. Sound(o) /\ o.peer = p /\ o.opened = {}
    BY <2>1, <2>3, <2>4, <2>5, <2>6 DEF Sound, Acts, NoDelay, Untouched
  <2>8. Managed(o)
    BY <2>3, <2>4, <2>7, ManagedQuiet
  <2>9. o.peer.connections = Added(conns, c, "Closed")
    BY <2>3, <2>7 DEF t
  <2> QED BY <1>5, <2>3, <2>7, <2>8, <2>9
<1> QED BY <1>3, <1>4, <1>5, PeerIs

\* A connection whose handler is gone, and of which no event is left, is unknown.
LEMMA FreeIsUnknown ==
  ASSUME IInv, NEW c \in Conn, handler[c] = Gone, from_handler[c] = <<>>
  PROVE  c \notin Ids(peer.connections)
<1> SUFFICES ASSUME NEW k \in DOMAIN peer.connections, peer.connections[k].id = c PROVE FALSE
  BY DEF Ids
<1>1. peer.connections[k].state \in View
  BY PeerIs, ConnectionsAre DEF IInv
<1>2. Wired(peer.connections[k].state, "Gone", to_handler[c], <<>>)
  BY HandlerTypes DEF IInv, WireInv, WireOk
<1>3. Settled(peer.connections[k].state, to_handler[c], "Gone")
  BY <1>1, <1>2, WiredQuiet
<1> QED BY <1>1, <1>3 DEF Settled, View

\* A new connection keeps the invariant, whoever established it.
LEMMA EstablishedKeeps ==
  ASSUME IInv, NEW dialed \in BOOLEAN, connection_established(dialed)
  PROVE  IInv'
<1> DEFINE Free == {c \in Conn : handler[c] = Gone /\ from_handler[c] = <<>>}
           c == Min(Free)
           o == inject_connection_established(c)
           conns == peer.connections
<1>1. EntryInv /\ ManagerInv /\ WireInv /\ expected = TRUE
  BY DEF IInv
<1>2. /\ Free # {} /\ React(o) /\ handler' = [handler EXCEPT ![c] = NewHandler]
      /\ to_handler' = [to_handler EXCEPT ![c] = IF c \in o.opened THEN <<"Open">> ELSE <<>>]
      /\ dialing' = (dialing /\ ~dialed) /\ from_handler' = from_handler
  BY DEF connection_established
<1>3. c \in Free
  BY <1>2, MinIsLeast, IdAssumption
<1>4. c \in Conn /\ handler[c] = Gone /\ from_handler[c] = <<>>
  BY <1>3
<1> HIDE DEF Free, c
<1>5. c \notin Ids(conns)
  BY <1>4, FreeIsUnknown
<1>6. PICK s \in {"Closed", "Opening"} :
           /\ Sound(o) /\ Managed(o) /\ o.peer.st # "Requested"
           /\ o.peer.connections = Added(conns, c, s)
           /\ o.opened = IF s = "Opening" THEN {c} ELSE {}
  BY <1>1, <1>4, <1>5, EstablishedGood
<1> HIDE DEF o
<1>7. peer'.st = o.peer.st /\ peer'.connections = o.peer.connections
  BY <1>1, <1>2, <1>6, ReactPeer
<1>8. EntryInv'
  <2>1. dialing' \in BOOLEAN /\ (o.peer.st = "Requested" => dialing')
    BY <1>2, <1>6
  <2> QED BY <1>1, <1>2, <1>6, <2>1, ReactEntry
<1>9. ManagerInv' /\ expected' = TRUE
  BY <1>1, <1>2, <1>6, <1>7, ManagedKeeps DEF Sound
<1>10. WireInv'
  <2> DEFINE t == Added(conns, c, s)
             to == IF s = "Opening" THEN <<"Open">> ELSE <<>>
  <2>1. Extends(t, conns, c, s)
    <3>1. conns \in Connections /\ s \in View
      BY <1>1, PeerIs DEF View
    <3> HIDE DEF conns
    <3> QED BY <3>1, <1>4, <1>5, AppendConnection
  <2> HIDE DEF t
  <2>2. PICK n \in DOMAIN t : DOMAIN t = DOMAIN conns \cup {n} /\ n \notin DOMAIN conns /\ t[n].id = c /\ t[n].state = s
    BY <2>1 DEF Extends
  <2>3. Ids(t) = Ids(conns) \cup {c} /\ \A k \in DOMAIN conns : t[k] = conns[k]
    BY <2>1 DEF Extends
  <2>4. peer'.connections = t
    BY <1>6, <1>7 DEF t
  <2>5. c \in o.opened <=> s = "Opening"
    BY <1>6
  <2>6. to \in Seq({"Open", "Close"}) /\ to_handler' = [to_handler EXCEPT ![c] = to]
    <3>1. to = IF c \in o.opened THEN <<"Open">> ELSE <<>>
      BY <2>5
    <3>2. <<"Open">> \in Seq({"Open", "Close"}) /\ <<>> \in Seq({"Open", "Close"})
      OBVIOUS
    <3>3. to \in Seq({"Open", "Close"})
      BY <3>2
    <3> HIDE DEF to
    <3> QED BY <1>2, <3>1, <3>3
  <2>7. Settled(s, to, "Closed") /\ s \in View
    BY DEF Settled, View
  <2> HIDE DEF to
  <2>8. Wired(s, "Closed", to, <<>>)
    BY <2>7, QuietWired
  <2>9. /\ handler \in [Conn -> Handlers] /\ to_handler \in [Conn -> Seq({"Open", "Close"})]
        /\ from_handler \in [Conn -> Seq(Event)] /\ (\A d \in Conn : HandlerOk(handler[d]))
        /\ WireOk(conns, handler, to_handler, from_handler)
    BY <1>1 DEF WireInv
  <2>10. NewHandler \in Handlers /\ NewHandler.st = "Closed" /\ HandlerOk(NewHandler)
    BY HandlerTypes DEF HandlerOk, NewHandler
  <2>11. /\ handler' \in [Conn -> Handlers] /\ to_handler' \in [Conn -> Seq({"Open", "Close"})]
        /\ from_handler' \in [Conn -> Seq(Event)] /\ (\A d \in Conn : HandlerOk(handler'[d]))
    BY <1>2, <2>6, <2>9, <2>10
  <2>12. WireOk(t, handler', to_handler', from_handler')
    <3>1. ASSUME NEW k \in DOMAIN t
          PROVE  Wired(t[k].state, handler'[t[k].id].st, to_handler'[t[k].id], from_handler'[t[k].id])
      <4>1. CASE k = n
        <5>1. handler'[c].st = "Closed" /\ to_handler'[c] = to /\ from_handler'[c] = <<>>
          BY <1>2, <1>4, <2>6, <2>9, <2>10
        <5> QED BY <5>1, <4>1, <2>2, <2>8
      <4>2. CASE k # n
        <5>1. k \in DOMAIN conns /\ t[k] = conns[k]
          BY <4>2, <2>2, <2>3
        <5>2. conns[k].id \in Conn /\ conns[k].id # c
          BY <5>1, <1>1, <1>5, PeerIs, ConnectionsAre DEF Ids
        <5>3. Wired(conns[k].state, handler[conns[k].id].st, to_handler[conns[k].id], from_handler[conns[k].id])
          BY <5>1, <2>9 DEF WireOk
        <5>4. /\ handler'[conns[k].id] = handler[conns[k].id] /\ to_handler'[conns[k].id] = to_handler[conns[k].id]
              /\ from_handler'[conns[k].id] = from_handler[conns[k].id]
          BY <5>2, <1>2, <2>6, <2>9
        <5> QED BY <5>1, <5>3, <5>4
      <4> QED BY <4>1, <4>2
    <3>2. ASSUME NEW d \in Conn \ Ids(t)
          PROVE  handler'[d] = Gone /\ to_handler'[d] = <<>> /\ from_handler'[d] = <<>>
      <4>1. d # c /\ d \in Conn \ Ids(conns)
        BY <2>3
      <4>2. handler[d] = Gone /\ to_handler[d] = <<>> /\ from_handler[d] = <<>>
        BY <4>1, <2>9 DEF WireOk
      <4> QED BY <4>1, <4>2, <1>2, <2>6, <2>9
    <3> QED BY <3>1, <3>2 DEF WireOk
  <2> QED BY <2>4, <2>11, <2>12 DEF WireInv
<1> QED BY <1>8, <1>9, <1>10 DEF IInv

-----------------------------------------------------------------------------
(* Events of the handlers *)

\* An entry that has a connection.
LEMMA LiveEntry ==
  ASSUME EntryInv, NEW k \in DOMAIN peer.connections
  PROVE  /\ peer \in Entries /\ peer.connections \in Connections
         /\ peer.st \in {"Disabled", "DisabledPendingEnable", "Incoming", "Enabled"}
         /\ ConnectionsOk(peer.st, peer.connections)
         /\ \A l \in DOMAIN peer.connections :
              /\ peer.connections[l].state \in View
              /\ peer.st \in {"Disabled", "DisabledPendingEnable"} =>
                   peer.connections[l].state \in {"Closed", "Closing", "OpeningThenClosing"}
              /\ peer.st = "Incoming" =>
                   peer.connections[l].state \in {"Closed", "OpenDesiredByRemote", "Closing", "OpeningThenClosing"}
              /\ peer.st = "Enabled" => peer.connections[l].state # "OpenDesiredByRemote"
<1> DEFINE conns == peer.connections
<1>1. peer \in Entries /\ conns \in Connections /\ ConnectionsOk(peer.st, conns)
  BY PeerIs
<1>2. conns # <<>>
  BY <1>1, ConnectionsAre
<1> HIDE DEF conns
<1>3. peer.st \in {"Disabled", "DisabledPendingEnable", "Incoming", "Enabled"}
  BY <1>1, <1>2 DEF ConnectionsOk
<1>4. ASSUME NEW l \in DOMAIN conns
      PROVE  /\ conns[l].state \in View
             /\ peer.st \in {"Disabled", "DisabledPendingEnable"} =>
                  conns[l].state \in {"Closed", "Closing", "OpeningThenClosing"}
             /\ peer.st = "Incoming" =>
                  conns[l].state \in {"Closed", "OpenDesiredByRemote", "Closing", "OpeningThenClosing"}
             /\ peer.st = "Enabled" => conns[l].state # "OpenDesiredByRemote"
  <2>1. conns[l].state \in View /\ conns[l].state \in States(conns)
    BY <1>1, ConnectionsAre DEF States
  <2> QED BY <2>1, <1>1 DEF ConnectionsOk
<1> QED BY <1>1, <1>3, <1>4 DEF conns

\* The same, from the states of the connections one by one.
LEMMA ConnectionsFit ==
  ASSUME NEW t \in Connections, NEW k \in DOMAIN t, NEW st,
         \/ /\ st \in {"Disabled", "DisabledPendingEnable"}
            /\ \A l \in DOMAIN t : t[l].state \in {"Closed", "Closing", "OpeningThenClosing"}
         \/ /\ st = "Incoming" /\ Some(t, {"OpenDesiredByRemote"})
            /\ \A l \in DOMAIN t : t[l].state \in {"Closed", "OpenDesiredByRemote", "Closing", "OpeningThenClosing"}
         \/ /\ st = "Enabled" /\ Some(t, Active)
            /\ \A l \in DOMAIN t : t[l].state # "OpenDesiredByRemote"
  PROVE  ConnectionsOk(st, t)
<1>1. t # <<>>
  BY ConnectionsAre
<1>2. CASE /\ st \in {"Disabled", "DisabledPendingEnable"}
           /\ \A l \in DOMAIN t : t[l].state \in {"Closed", "Closing", "OpeningThenClosing"}
  <2>1. States(t) \subseteq {"Closed", "Closing", "OpeningThenClosing"}
    BY <1>2, StatesAre
  <2> QED BY <1>1, <1>2, <2>1 DEF ConnectionsOk
<1>3. CASE /\ st = "Incoming" /\ Some(t, {"OpenDesiredByRemote"})
           /\ \A l \in DOMAIN t : t[l].state \in {"Closed", "OpenDesiredByRemote", "Closing", "OpeningThenClosing"}
  <2>1. States(t) \subseteq {"Closed", "OpenDesiredByRemote", "Closing", "OpeningThenClosing"}
    BY <1>3, StatesAre
  <2> QED BY <1>3, <2>1 DEF ConnectionsOk
<1>4. CASE /\ st = "Enabled" /\ Some(t, Active)
           /\ \A l \in DOMAIN t : t[l].state # "OpenDesiredByRemote"
  <2>1. "OpenDesiredByRemote" \notin States(t)
    BY <1>4 DEF States
  <2> QED BY <1>4, <2>1 DEF ConnectionsOk
<1> QED BY <1>2, <1>3, <1>4

\* The connection at k is turned into the state s, and nothing else.
Turned(t, conns, k, s) ==
  /\ t \in Connections /\ DOMAIN t = DOMAIN conns
  /\ \A l \in DOMAIN conns : t[l].id = conns[l].id /\ (l # k => t[l].state = conns[l].state)
  /\ t[k].state = s

\* The connection at k turned into the state s.
LEMMA TurnOne ==
  ASSUME NEW conns \in Connections, NEW k \in DOMAIN conns, NEW s \in View
  PROVE  Turned(Turn(conns, {conns[k].id}, s), conns, k, s)
<1> DEFINE C == {conns[k].id}
           t == Turn(conns, C, s)
<1>1. \A l \in DOMAIN conns : conns[l].id \in C <=> l = k
  BY ConnectionsAre
<1> HIDE DEF C
<1>2. /\ t \in Connections /\ DOMAIN t = DOMAIN conns
      /\ \A l \in DOMAIN conns : t[l].id = conns[l].id /\ t[l].state = IF conns[l].id \in C THEN s ELSE conns[l].state
  BY TurnIs
<1> HIDE DEF t
<1>3. Turned(t, conns, k, s)
  BY <1>1, <1>2 DEF Turned
<1> QED BY <1>3 DEF t, C

\* A good outcome that keeps the manager informed.
Fine(o, conns) == Good(o, conns) /\ Managed(o) /\ o.peer.st # "Requested"

\* An event that was taken from a handler has a fine outcome: the invariant is kept.
LEMMA FineKeeps ==
  ASSUME IInv, NEW conns \in Connections, NEW fr \in [Conn -> Seq(Event)],
         WireOk(conns, handler, to_handler, fr), NEW o, React(o), Notify(o), Fine(o, conns),
         handler' = handler, from_handler' = fr, dialing' = dialing
  PROVE  IInv'
<1>1. Good(o, conns) /\ Managed(o) /\ o.peer.st # "Requested"
  BY DEF Fine
<1>2. dialing' \in BOOLEAN /\ (o.peer.st = "Requested" => dialing')
  BY <1>1 DEF IInv, EntryInv
<1>3. WireInv' /\ EntryInv' /\ peer'.st = o.peer.st /\ expected = TRUE /\ ManagerInv /\ o.expected = TRUE
  BY <1>1, <1>2, GoodKeeps
<1>4. ManagerInv' /\ expected' = TRUE
  BY <1>1, <1>3, ManagedKeeps
<1> QED BY <1>3, <1>4 DEF IInv

\* Nothing changes, and the event that is read has changed nothing.
LEMMA KeepFine ==
  ASSUME EntryInv, NEW k \in DOMAIN peer.connections, NEW t, Turned(t, peer.connections, k, peer.connections[k].state)
  PROVE  Fine(Keep, t)
<1>1. Acts(Keep, peer, {}, {}, api) /\ Tells(Keep, FALSE, FALSE, FALSE) /\ Untouched(Keep)
  BY KeepIs
<1>2. Keep.peer = peer
  BY <1>1 DEF Acts
<1>3. Told(t, peer.connections, {}, {})
  BY DEF Told, Turned
<1>4. Good(Keep, t)
  BY <1>3, KeepGood
<1>5. Managed(Keep)
  BY <1>1, <1>2, ManagedQuiet
<1>6. peer.st # "Requested"
  BY LiveEntry
<1> QED BY <1>2, <1>4, <1>5, <1>6 DEF Fine

\* The entry has the connections t, and nothing else changes.
LEMMA StayGood ==
  ASSUME EntryInv, NEW k \in DOMAIN peer.connections, NEW t \in Connections, ConnectionsOk(peer.st, t),
         Some(t, {"Open"}) <=> Some(peer.connections, {"Open"}), NEW o, o = To(WithConnections(peer, t))
  PROVE  /\ Fine(o, t) /\ o.peer.st = peer.st /\ o.peer.connections = t /\ NoDelay(o)
         /\ Tells(o, FALSE, FALSE, FALSE) /\ Untouched(o) /\ DOMAIN o = OutcomeFields
<1> DEFINE p == WithConnections(peer, t)
<1>1. p \in Entries /\ p.st = peer.st /\ p.connections = t /\ p.timer = peer.timer
  BY PeerIs, WithConnectionsIs
<1>2. o = To(p)
  OBVIOUS
<1> HIDE DEF p
<1>3. p.st \in Waiting => p.timer \in delays
  BY <1>1, PeerIs
<1>4. api # 0 <=> is_open(p)
  <2>1. is_open(p) <=> is_open(peer)
    BY <1>1 DEF is_open
  <2> QED BY <2>1 DEF EntryInv, EntryOk
<1>5. /\ Good(o, p.connections) /\ o.peer = p /\ NoDelay(o)
      /\ Tells(o, FALSE, FALSE, FALSE) /\ Untouched(o) /\ DOMAIN o = OutcomeFields
  BY <1>1, <1>2, <1>3, <1>4, ToGood
<1>6. Managed(o)
  BY <1>1, <1>5, ManagedQuiet
<1>7. o.peer.st # "Requested"
  BY <1>1, <1>5, LiveEntry
<1> QED BY <1>1, <1>5, <1>6, <1>7 DEF Fine

\* The connection at k is found where it is.
LEMMA Found ==
  ASSUME EntryInv, NEW k \in DOMAIN peer.connections, NEW c, c = peer.connections[k].id
  PROVE  /\ c \in Ids(peer.connections) /\ c \in Conn
         /\ Position(peer.connections, c) = k /\ StateOf(peer.connections, c) = peer.connections[k].state
         /\ \A S : c \in In(peer.connections, S) <=> peer.connections[k].state \in S
<1>1. peer.connections \in Connections
  BY PeerIs
<1>2. \A S : c \in In(peer.connections, S) <=> peer.connections[k].state \in S
  BY <1>1, InIs
<1>3. c \in Conn
  BY <1>1, ConnectionsAre
<1> QED BY <1>1, <1>2, <1>3, PositionIs

\* What the code asserts is not part of what an outcome does.
LEMMA AssertedFine ==
  ASSUME NEW a, NEW t, Fine(a, t), DOMAIN a = OutcomeFields, NEW b, NEW o, o = [a EXCEPT !.asserted = b]
  PROVE  Fine(o, t)
<1>1. /\ o.peer = a.peer /\ o.opened = a.opened /\ o.closed = a.closed /\ o.api = a.api
      /\ o.armed = a.armed /\ o.delays = a.delays /\ o.dials = a.dials
      /\ o.drops = a.drops /\ o.asks = a.asks /\ o.obsolete = a.obsolete
      /\ o.expected = a.expected /\ o.incoming = a.incoming /\ o.unread = a.unread
  BY DEF OutcomeFields
<1>2. Good(a, t) /\ Managed(a) /\ a.peer.st # "Requested"
  BY DEF Fine
<1>3. Like(o, a) /\ o.expected = TRUE
  BY <1>1, <1>2 DEF Like, Good, Sound
<1>4. Good(o, t)
  BY <1>2, <1>3, LikeGood
<1>5. Managed(o)
  BY <1>1, <1>2 DEF Managed
<1> QED BY <1>1, <1>2, <1>4, <1>5 DEF Fine

\* The remote asks for a substream.
LEMMA OpenDesiredFine ==
  ASSUME EntryInv, NEW k \in DOMAIN peer.connections, NEW c, c = peer.connections[k].id,
         NEW s \in View, Step(peer.connections[k].state, "OpenDesiredByRemote", s),
         NEW t, t = Turn(peer.connections, {c}, s),
         NEW o, o = event_open_desired(c), Deliverable(c, "OpenDesiredByRemote")
  PROVE  Fine(o, t)
<1> DEFINE conns == peer.connections
<1>1. /\ peer \in Entries /\ conns \in Connections
      /\ peer.st \in {"Disabled", "DisabledPendingEnable", "Incoming", "Enabled"}
      /\ ConnectionsOk(peer.st, conns)
  BY LiveEntry
<1>2. Turned(t, conns, k, s)
  BY <1>1, TurnOne
<1>3. c \in Ids(conns) /\ StateOf(conns, c) = conns[k].state
  BY Found
<1>4. CASE conns[k].state # "Closed"
  <2>1. PICK b : o = [Keep EXCEPT !.asserted = b]
    BY <1>3, <1>4 DEF event_open_desired
  <2>2. s = conns[k].state
    BY <1>4 DEF Step
  <2>3. Fine(Keep, t)
    BY <1>2, <2>2, KeepFine
  <2>4. DOMAIN Keep = OutcomeFields
    BY KeepIs DEF Acts
  <2> QED BY <2>1, <2>3, <2>4, AssertedFine
<1>5. CASE conns[k].state = "Closed"
  <2>1. s = "OpenDesiredByRemote"
    BY <1>5 DEF Step
  <2>2. t = Turn(conns, {c}, "OpenDesiredByRemote")
    BY <2>1
  <2>3. /\ t \in Connections /\ DOMAIN t = DOMAIN conns /\ t[k].state = "OpenDesiredByRemote"
        /\ \A l \in DOMAIN conns : t[l].id = conns[l].id /\ (l # k => t[l].state = conns[l].state)
    BY <1>2, <2>1 DEF Turned
  <2>4. Some(t, {"OpenDesiredByRemote"})
    BY <2>3, SomeIs
  <2>5. CASE peer.st = "Disabled"
    <3> DEFINE p == Entry("Incoming", t, 0, peer.backoff)
    <3>1. o = [To(p) EXCEPT !.asks = TRUE]
      BY <1>3, <1>5, <2>2, <2>5 DEF event_open_desired
    <3>2. p \in Entries /\ p.st = "Incoming" /\ p.connections = t
      BY <2>3, PeerIs DEF Entry, Entries, Waiting
    <3> HIDE DEF p
    <3>3. Acts(o, p, {}, {}, api) /\ NoDelay(o) /\ Tells(o, FALSE, TRUE, FALSE) /\ Untouched(o)
      BY <3>1, ToAsks
    <3>4. {e.id : e \in incoming_peers} # Index
      <4>1. event_open_desired(c).asks
        BY <3>3 DEF Tells
      <4> QED BY <4>1 DEF Deliverable
    <3>5. \A l \in DOMAIN t : t[l].state \in {"Closed", "OpenDesiredByRemote", "Closing", "OpeningThenClosing"}
      BY <2>3, <2>5, LiveEntry
    <3>6. ConnectionsOk(p.st, p.connections)
      BY <2>3, <2>4, <3>2, <3>5, ConnectionsFit
    <3>7. api = 0 /\ ~is_open(p) /\ p.st \notin Waiting
      BY <2>5, <3>2, NoSink DEF is_open, Waiting
    <3>8. o.expected = TRUE /\ o.delays = delays /\ o.armed = FALSE /\ Told(t, p.connections, {}, {})
      BY <3>2, <3>3, ToldNothing DEF Untouched, NoDelay
    <3>9. Good(o, t)
      BY <3>2, <3>3, <3>6, <3>7, <3>8, GoodFrom
    <3>10. o.peer.st = "Incoming"
      BY <3>2, <3>3 DEF Acts
    <3>11. Managed(o)
      BY <2>5, <3>3, <3>4, <3>10 DEF Managed, Tells, Untouched, Requesting
    <3> QED BY <3>9, <3>10, <3>11 DEF Fine
  <2>6. CASE peer.st = "Incoming"
    <3>1. o = To(WithConnections(peer, t))
      BY <1>3, <1>5, <2>2, <2>6 DEF event_open_desired
    <3>2. \A l \in DOMAIN t : t[l].state \in {"Closed", "OpenDesiredByRemote", "Closing", "OpeningThenClosing"}
      BY <2>3, <2>6, LiveEntry
    <3>3. ConnectionsOk(peer.st, t)
      BY <2>3, <2>4, <2>6, <3>2, ConnectionsFit
    <3>4. ~Some(t, {"Open"}) /\ ~Some(conns, {"Open"})
      <4>1. \A l \in DOMAIN conns : conns[l].state \in {"Closed", "OpenDesiredByRemote", "Closing", "OpeningThenClosing"}
        BY <2>6, LiveEntry
      <4> QED BY <4>1, <3>2, SomeIs
    <3> QED BY <2>3, <3>1, <3>3, <3>4, StayGood
  <2>7. CASE peer.st \in {"Enabled", "DisabledPendingEnable"}
    <3>1. o = Enable({c})
      BY <1>3, <1>5, <2>7 DEF event_open_desired
    <3>2. Told(t, Turn(conns, {c}, "Opening"), {c}, {})
      <4> DEFINE u == Turn(conns, {c}, "Opening")
      <4>1. Turned(u, conns, k, "Opening")
        <5>1. "Opening" \in View
          BY DEF View
        <5> QED BY <1>1, <5>1, TurnOne
      <4> HIDE DEF u
      <4>2. /\ DOMAIN u = DOMAIN conns /\ u[k].state = "Opening"
            /\ \A l \in DOMAIN conns : u[l].id = conns[l].id /\ (l # k => u[l].state = conns[l].state)
        BY <4>1 DEF Turned
      <4>3. \A l \in DOMAIN conns : conns[l].id \in {c} <=> l = k
        BY <1>1, ConnectionsAre
      <4>4. DOMAIN u = DOMAIN t /\ t[k].state = "OpenDesiredByRemote"
        BY <2>3, <4>2
      <4>5. ASSUME NEW l \in DOMAIN t
            PROVE  /\ u[l].id = t[l].id
                   /\ t[l].id \in {c} => t[l].state = "OpenDesiredByRemote" /\ u[l].state = "Opening"
                   /\ t[l].id \notin {c} => u[l].state = t[l].state
        <5>1. l \in DOMAIN conns /\ t[l].id = conns[l].id /\ u[l].id = conns[l].id
          BY <2>3, <4>2
        <5>2. t[l].id \in {c} <=> l = k
          BY <5>1, <4>3
        <5>3. l # k => t[l].state = conns[l].state /\ u[l].state = conns[l].state
          BY <2>3, <4>2, <5>1
        <5> QED BY <4>2, <4>4, <5>1, <5>2, <5>3
      <4>6. Told(t, u, {c}, {})
        BY <4>4, <4>5 DEF Told
      <4> QED BY <4>6 DEF u
    <3>3. /\ Good(o, t) /\ o.peer.st = "Enabled"
          /\ NoDelay(o) /\ Tells(o, FALSE, FALSE, FALSE) /\ Untouched(o)
      BY <1>5, <2>7, <3>1, <3>2, EnableOneGood
    <3>4. Managed(o)
      BY <2>7, <3>3, ManagedQuiet DEF Requesting
    <3> QED BY <3>3, <3>4 DEF Fine
  <2> QED BY <1>1, <2>5, <2>6, <2>7
<1> QED BY <1>4, <1>5

\* The users hold a sink as long as a connection is open.
LEMMA ReplacementIs ==
  ASSUME NEW rest \in Connections, NEW pos, api # 0
  PROVE  Replacement(rest, pos) # 0 <=> Some(rest, {"Open"})
<1>1. CASE ~Some(rest, {"Open"})
  BY <1>1 DEF Replacement
<1>2. CASE Some(rest, {"Open"})
  <2>1. First(rest, "Open") \in Conn
    BY <1>2, FirstIs, ConnectionsAre
  <2>2. First(rest, "Open") # 0
    BY <2>1, IdAssumption
  <2>3. Replacement(rest, pos) \in {First(rest, "Open"), api}
    BY <1>2 DEF Replacement
  <2> QED BY <1>2, <2>2, <2>3
<1> QED BY <1>1, <1>2

\* The entry of an enabled link with the connections t, of which none is open or
\* opening.
LEMMA NotServing ==
  ASSUME NEW t \in Connections, NEW k \in DOMAIN t, ~Some(t, Active),
         \A l \in DOMAIN t : t[l].state # "OpenDesiredByRemote"
  PROVE  /\ Entry("Disabled", t, 0, FALSE) \in Entries
         /\ Entry("Disabled", t, 0, FALSE).st = "Disabled" /\ Entry("Disabled", t, 0, FALSE).connections = t
         /\ ConnectionsOk("Disabled", t)
<1>1. \A l \in DOMAIN t : t[l].state \in View /\ t[l].state \notin Active
  BY ConnectionsAre, SomeIs
<1>2. \A l \in DOMAIN t : t[l].state \in {"Closed", "Closing", "OpeningThenClosing"}
  BY <1>1 DEF View, Active
<1>3. ConnectionsOk("Disabled", t)
  BY <1>2, ConnectionsFit
<1> QED BY <1>3 DEF Entry, Entries, Waiting

\* The remote wants a substream to be closed.
LEMMA CloseDesiredFine ==
  ASSUME EntryInv, NEW k \in DOMAIN peer.connections, NEW c, c = peer.connections[k].id,
         NEW s \in View, Step(peer.connections[k].state, "CloseDesired", s),
         NEW t, t = Turn(peer.connections, {c}, s),
         NEW o, o = event_close_desired(c), peer.st # "Incoming",
         peer.st = "Enabled" => peer.connections[k].state \notin {"Opening", "OpeningThenClosing"}
  PROVE  Fine(o, t)
<1> DEFINE conns == peer.connections
<1>1. /\ peer \in Entries /\ conns \in Connections
      /\ peer.st \in {"Disabled", "DisabledPendingEnable", "Incoming", "Enabled"}
      /\ ConnectionsOk(peer.st, conns)
  BY LiveEntry
<1>2. s = conns[k].state /\ s \in {"Open", "Closing", "OpeningThenClosing"}
  <2>1. conns[k].state \notin {"OpenDesiredByRemote", "Opening"}
    BY <1>1, LiveEntry
  <2> QED BY <2>1 DEF Step
<1>3. Turned(t, conns, k, s)
  BY <1>1, TurnOne
<1>4. c \in Ids(conns) /\ StateOf(conns, c) = conns[k].state /\ Position(conns, c) = k
  BY Found
<1>5. (s = "Open" => peer.st = "Enabled") /\ (peer.st = "Enabled" => s # "OpeningThenClosing")
  BY <1>1, <1>2, LiveEntry
<1>6. CASE peer.st # "Enabled" \/ s = "Closing"
  <2>1. o = Keep
    BY <1>1, <1>2, <1>4, <1>5, <1>6 DEF event_close_desired
  <2> QED BY <1>2, <1>3, <2>1, KeepFine
<1>7. CASE peer.st = "Enabled" /\ s = "Open"
  <2> DEFINE rest == Turn(conns, {c}, "Closing")
             serving == Some(rest, Active)
             p == IF serving THEN WithConnections(peer, rest) ELSE Entry("Disabled", rest, 0, FALSE)
             sink == Replacement(rest, k)
  <2>1. o = [To(p) EXCEPT !.closed = {c}, !.drops = ~serving, !.api = sink,
                          !.expected = StateOf(conns, c) = "Open"]
    BY <1>2, <1>4, <1>7 DEF event_close_desired
  <2>2. Turned(rest, conns, k, "Closing")
    <3>1. "Closing" \in View
      BY DEF View
    <3> QED BY <1>1, <3>1, TurnOne
  <2>3. serving \in BOOLEAN
    BY DEF Some
  <2> HIDE DEF rest
  <2>4. /\ rest \in Connections /\ DOMAIN rest = DOMAIN conns /\ rest[k].state = "Closing"
        /\ \A l \in DOMAIN conns : rest[l].id = conns[l].id /\ (l # k => rest[l].state = conns[l].state)
    BY <2>2 DEF Turned
  <2>5. \A l \in DOMAIN rest : rest[l].state # "OpenDesiredByRemote"
    BY <1>7, <2>4, LiveEntry
  <2>6. /\ p \in Entries /\ p.connections = rest /\ ConnectionsOk(p.st, rest) /\ p.st \notin Waiting
        /\ serving => p.st = "Enabled"
        /\ ~serving => p.st = "Disabled"
    <3>1. CASE serving
      <4>1. p = WithConnections(peer, rest)
        BY <3>1
      <4>2. p \in Entries /\ p.connections = rest /\ p.st = "Enabled"
        <5> HIDE DEF p
        <5>1. /\ WithConnections(peer, rest) \in Entries /\ WithConnections(peer, rest).connections = rest
              /\ WithConnections(peer, rest).st = peer.st
          BY <1>1, <2>4, WithConnectionsIs
        <5> QED BY <1>7, <4>1, <5>1
      <4>3. ConnectionsOk("Enabled", rest)
        BY <2>4, <2>5, <3>1, ConnectionsFit
      <4> QED BY <3>1, <4>2, <4>3 DEF Waiting
    <3>2. CASE ~serving
      <4>1. p = Entry("Disabled", rest, 0, FALSE)
        BY <3>2
      <4>2. p \in Entries /\ p.connections = rest /\ p.st = "Disabled" /\ ConnectionsOk("Disabled", rest)
        BY <2>4, <2>5, <3>2, <4>1, NotServing
      <4> QED BY <3>2, <4>2 DEF Waiting
    <3> QED BY <3>1, <3>2
  <2>7. sink # 0 <=> is_open(p)
    <3>1. api # 0
      BY <1>2, <1>7, PeerIs
    <3>2. sink # 0 <=> Some(rest, {"Open"})
      BY <2>4, <3>1, ReplacementIs
    <3>3. Some(rest, {"Open"}) => serving
      BY SomeIs DEF Active
    <3> HIDE DEF sink, serving, p
    <3> QED BY <2>6, <3>2, <3>3 DEF is_open
  <2>8. Told(t, rest, {}, {c})
    <3>1. /\ DOMAIN t = DOMAIN conns /\ t[k].state = "Open"
          /\ \A l \in DOMAIN conns : t[l].id = conns[l].id /\ (l # k => t[l].state = conns[l].state)
      BY <1>3, <1>7 DEF Turned
    <3>2. \A l \in DOMAIN conns : conns[l].id \in {c} <=> l = k
      BY <1>1, ConnectionsAre
    <3>3. Shut(t[k].state) = "Closing"
      BY <3>1 DEF Shut
    <3>4. ASSUME NEW l \in DOMAIN t
          PROVE  /\ rest[l].id = t[l].id
                 /\ t[l].id \in {c} => t[l].state = "Open" /\ rest[l].state = Shut(t[l].state)
                 /\ t[l].id \notin {c} => rest[l].state = t[l].state
      <4>1. l \in DOMAIN conns /\ (t[l].id \in {c} <=> l = k)
        BY <3>1, <3>2
      <4>2. rest[l].id = t[l].id /\ (l # k => rest[l].state = t[l].state)
        BY <2>4, <3>1, <4>1
      <4>3. t[k].state = "Open" /\ rest[k].state = Shut(t[k].state)
        BY <2>4, <3>1, <3>3
      <4> QED BY <4>1, <4>2, <4>3
    <3> QED BY <2>4, <3>1, <3>4 DEF Told
  <2> HIDE DEF p, sink, serving
  <2>9. /\ Acts(o, p, {}, {c}, sink) /\ o.armed = FALSE /\ o.delays = delays
        /\ o.drops = ~serving /\ o.asks = FALSE /\ o.obsolete = FALSE
        /\ o.expected = TRUE /\ o.unread = message_queue /\ o.incoming = incoming_peers
    <3> DEFINE a == To(p)
    <3>1. Acts(a, p, {}, {}, api) /\ NoDelay(a) /\ Tells(a, FALSE, FALSE, FALSE) /\ Untouched(a)
      BY ToIs
    <3>2. o = [a EXCEPT !.closed = {c}, !.drops = ~serving, !.api = sink, !.expected = StateOf(conns, c) = "Open"]
      BY <2>1
    <3> HIDE DEF a
    <3>3. DOMAIN a = OutcomeFields
      BY <3>1 DEF Acts
    <3>4. /\ o.peer = a.peer /\ o.opened = a.opened /\ o.closed = {c} /\ o.api = sink
          /\ o.armed = a.armed /\ o.delays = a.delays
          /\ o.drops = ~serving /\ o.asks = a.asks /\ o.obsolete = a.obsolete
          /\ o.expected = (StateOf(conns, c) = "Open") /\ o.incoming = a.incoming /\ o.unread = a.unread
          /\ DOMAIN o = OutcomeFields
      BY <3>2, <3>3 DEF OutcomeFields
    <3> QED BY <1>2, <1>4, <1>7, <3>1, <3>4 DEF Acts, NoDelay, Tells, Untouched
  <2>10. Good(o, t)
    BY <2>6, <2>7, <2>8, <2>9, GoodFrom
  <2>11. o.peer = p
    BY <2>9 DEF Acts
  <2>12. Managed(o)
    <3>1. CASE serving
      BY <1>7, <2>6, <2>9, <2>11, <3>1 DEF Managed, Requesting
    <3>2. CASE ~serving
      BY <1>7, <2>6, <2>9, <2>11, <3>2 DEF Managed, Requesting
    <3> QED BY <3>1, <3>2
  <2>13. o.peer.st # "Requested"
    BY <2>6, <2>11
  <2> QED BY <2>10, <2>12, <2>13 DEF Fine
<1> QED BY <1>1, <1>2, <1>5, <1>6, <1>7

\* A connection that is closing goes on to close.
LEMMA ClosingFits ==
  ASSUME EntryInv, peer.st # "Incoming", NEW k \in DOMAIN peer.connections,
         peer.connections[k].state \in {"Closing", "OpeningThenClosing"},
         NEW s \in {"Closed", "Closing"}, NEW t, Turned(t, peer.connections, k, s)
  PROVE  /\ ConnectionsOk(peer.st, t) /\ peer.st \in {"Disabled", "DisabledPendingEnable", "Enabled"}
         /\ peer.st = "Enabled" => Some(t, Active)
<1> DEFINE conns == peer.connections
<1>1. /\ conns \in Connections
      /\ peer.st \in {"Disabled", "DisabledPendingEnable", "Enabled"}
      /\ ConnectionsOk(peer.st, conns)
  BY LiveEntry
<1>2. /\ t \in Connections /\ DOMAIN t = DOMAIN conns /\ t[k].state = s
      /\ \A l \in DOMAIN conns : l # k => t[l].state = conns[l].state
  BY DEF Turned
<1>3. CASE peer.st \in {"Disabled", "DisabledPendingEnable"}
  <2>1. \A l \in DOMAIN t : t[l].state \in {"Closed", "Closing", "OpeningThenClosing"}
    BY <1>2, <1>3, LiveEntry
  <2>2. ConnectionsOk(peer.st, t)
    BY <1>2, <1>3, <2>1, ConnectionsFit
  <2> QED BY <1>1, <1>3, <2>2
<1>4. CASE peer.st = "Enabled"
  <2>1. \A l \in DOMAIN t : t[l].state # "OpenDesiredByRemote"
    BY <1>2, <1>4, LiveEntry
  <2>2. Some(conns, Active)
    BY <1>1, <1>4 DEF ConnectionsOk
  <2>3. PICK l \in DOMAIN conns : conns[l].state \in Active
    BY <2>2, SomeIs
  <2>4. l # k
    BY <2>3 DEF Active
  <2>5. Some(t, Active)
    BY <1>2, <2>3, <2>4, SomeIs
  <2>6. ConnectionsOk(peer.st, t)
    BY <1>2, <1>4, <2>1, <2>5, ConnectionsFit
  <2> QED BY <1>1, <2>5, <2>6
<1> QED BY <1>1, <1>3, <1>4

\* The connection at k is moved, while the users hold the same sink.
LEMMA MoveFine ==
  ASSUME EntryInv, NEW k \in DOMAIN peer.connections,
         NEW s \in View, peer.connections[k].state # "Open", s # "Open",
         NEW t, Turned(t, peer.connections, k, s), ConnectionsOk(peer.st, t),
         NEW o, o = To(WithConnections(peer, t))
  PROVE  /\ Fine(o, t) /\ o.peer.st = peer.st /\ o.peer.connections = t /\ NoDelay(o)
         /\ Tells(o, FALSE, FALSE, FALSE) /\ Untouched(o) /\ DOMAIN o = OutcomeFields
<1> DEFINE conns == peer.connections
<1>1. /\ t \in Connections /\ DOMAIN t = DOMAIN conns /\ t[k].state = s
      /\ \A l \in DOMAIN conns : l # k => t[l].state = conns[l].state
  BY DEF Turned
<1>2. Some(t, {"Open"}) <=> Some(conns, {"Open"})
  BY <1>1, SomeIs
<1> QED BY <1>1, <1>2, StayGood

\* A substream is closed.
LEMMA CloseResultFine ==
  ASSUME EntryInv, NEW k \in DOMAIN peer.connections, NEW c, c = peer.connections[k].id,
         NEW s \in View, Step(peer.connections[k].state, "CloseResult", s),
         NEW t, t = Turn(peer.connections, {c}, s),
         NEW o, o = event_close_result(c), peer.st # "Incoming"
  PROVE  Fine(o, t)
<1>1. peer.connections[k].state = "Closing" /\ s = "Closed"
  BY DEF Step
<1>2. Turned(t, peer.connections, k, s)
  BY LiveEntry, TurnOne
<1>3. ConnectionsOk(peer.st, t) /\ peer.st \in {"Disabled", "DisabledPendingEnable", "Enabled"}
  BY <1>1, <1>2, ClosingFits
<1>4. o = Move(c, {"Closing"}, "Closed") /\ c \in In(peer.connections, {"Closing"})
  BY <1>1, <1>3, Found DEF event_close_result
<1>5. o = To(WithConnections(peer, t))
  BY <1>1, <1>4 DEF Move
<1> QED BY <1>1, <1>2, <1>3, <1>5, MoveFine

\* A substream that is not wanted any more was opened, or not.
LEMMA OpeningThenClosingFine ==
  ASSUME EntryInv, peer.st # "Incoming", NEW k \in DOMAIN peer.connections, NEW c, c = peer.connections[k].id,
         peer.connections[k].state = "OpeningThenClosing",
         NEW s \in {"Closing"}, NEW t, t = Turn(peer.connections, {c}, s),
         NEW o, o = Move(c, {"OpeningThenClosing"}, "Closing")
  PROVE  /\ Fine(o, t) /\ o.peer.st = peer.st /\ o.peer.connections = t
         /\ peer.st \in {"Disabled", "DisabledPendingEnable", "Enabled"}
         /\ peer.st = "Enabled" => Some(t, Active)
<1>1. s \in View /\ peer.connections[k].state # "Open" /\ s # "Open" /\ c \in In(peer.connections, {"OpeningThenClosing"})
  BY Found DEF View
<1>2. Turned(t, peer.connections, k, s)
  BY <1>1, LiveEntry, TurnOne
<1>3. /\ ConnectionsOk(peer.st, t) /\ peer.st \in {"Disabled", "DisabledPendingEnable", "Enabled"}
      /\ peer.st = "Enabled" => Some(t, Active)
  BY <1>2, ClosingFits
<1>4. Fine(o, t) /\ o.peer.st = peer.st /\ o.peer.connections = t
  <2>1. o = To(WithConnections(peer, t))
    BY <1>1 DEF Move
  <2>2. ConnectionsOk(peer.st, t)
    BY <1>3
  <2>3. Fine(o, t)
    BY <1>1, <1>2, <2>1, <2>2, MoveFine
  <2>4. o.peer.st = peer.st /\ o.peer.connections = t
    <3>1. /\ WithConnections(peer, t).st = peer.st /\ WithConnections(peer, t).connections = t
      BY <1>2, LiveEntry, WithConnectionsIs DEF Turned
    <3> QED BY <2>1, <3>1, ToIs DEF Acts
  <2> QED BY <2>3, <2>4
<1> QED BY <1>3, <1>4

\* A substream is open.
LEMMA OpenResultOkFine ==
  ASSUME EntryInv, NEW k \in DOMAIN peer.connections, NEW c, c = peer.connections[k].id,
         NEW s \in View, Step(peer.connections[k].state, "OpenResultOk", s),
         NEW t, t = Turn(peer.connections, {c}, s),
         NEW o, o = event_open_result_ok(c), peer.st # "Incoming"
  PROVE  Fine(o, t)
<1> DEFINE conns == peer.connections
<1>1. /\ peer \in Entries /\ conns \in Connections
      /\ peer.st \in {"Disabled", "DisabledPendingEnable", "Incoming", "Enabled"}
  BY LiveEntry
<1>2. \A S : c \in In(conns, S) <=> conns[k].state \in S
  BY Found
<1>3. CASE conns[k].state = "OpeningThenClosing" /\ s = "Closing"
  <2>1. peer.st \in {"Disabled", "DisabledPendingEnable", "Enabled"}
    BY <1>1, <1>3, LiveEntry
  <2>2. c \notin In(conns, {"Opening"})
    BY <1>2, <1>3
  <2>3. o = Move(c, {"OpeningThenClosing"}, "Closing")
    BY <2>1, <2>2 DEF event_open_result_ok
  <2> QED BY <1>3, <2>3, OpeningThenClosingFine
<1>4. CASE conns[k].state = "Opening" /\ s = "Open"
  <2> DEFINE p == WithConnections(peer, t)
             sink == IF is_open(peer) THEN api ELSE c
             a == To(p)
  <2>1. peer.st = "Enabled"
    BY <1>1, <1>4, LiveEntry
  <2>2. c \in In(conns, {"Opening"})
    BY <1>2, <1>4
  <2>3. Move(c, {"Opening"}, "Open") = a
    BY <1>4, <2>2 DEF Move
  <2>4. o = [a EXCEPT !.api = sink]
    <3>1. o = [Move(c, {"Opening"}, "Open") EXCEPT !.api = IF is_open(peer) THEN api ELSE c]
      BY <2>1, <2>2 DEF event_open_result_ok
    <3> HIDE DEF a
    <3> QED BY <2>3, <3>1
  <2>5. Turned(t, conns, k, s)
    BY <1>1, TurnOne
  <2>6. /\ t \in Connections /\ DOMAIN t = DOMAIN conns /\ t[k].state = "Open"
        /\ \A l \in DOMAIN conns : l # k => t[l].state = conns[l].state
    BY <1>4, <2>5 DEF Turned
  <2>7. p \in Entries /\ p.st = "Enabled" /\ p.connections = t
    BY <1>1, <2>1, <2>6, WithConnectionsIs
  <2>8. Some(t, Active) /\ Some(t, {"Open"})
    BY <2>6, SomeIs DEF Active
  <2>9. \A l \in DOMAIN t : t[l].state # "OpenDesiredByRemote"
    BY <2>1, <2>6, LiveEntry
  <2> HIDE DEF p
  <2>10. ConnectionsOk(p.st, p.connections)
    BY <2>6, <2>7, <2>8, <2>9, ConnectionsFit
  <2>11. sink # 0
    <3>1. c # 0
      BY Found, IdAssumption
    <3> QED BY <3>1 DEF EntryInv, EntryOk
  <2>12. is_open(p) /\ p.st \notin Waiting
    BY <2>7, <2>8 DEF is_open, Waiting
  <2>13. Acts(a, p, {}, {}, api) /\ NoDelay(a) /\ Tells(a, FALSE, FALSE, FALSE) /\ Untouched(a)
    BY ToIs
  <2> HIDE DEF a, sink
  <2>14. DOMAIN a = OutcomeFields
    BY <2>13 DEF Acts
  <2>15. /\ o.peer = a.peer /\ o.opened = a.opened /\ o.closed = a.closed /\ o.api = sink
         /\ o.armed = a.armed /\ o.delays = a.delays
         /\ o.drops = a.drops /\ o.asks = a.asks /\ o.obsolete = a.obsolete
         /\ o.expected = a.expected /\ o.incoming = a.incoming /\ o.unread = a.unread
         /\ DOMAIN o = OutcomeFields
    BY <2>4, <2>14 DEF OutcomeFields
  <2>16. /\ Acts(o, p, {}, {}, sink) /\ Tells(o, FALSE, FALSE, FALSE) /\ Untouched(o)
         /\ o.armed = FALSE /\ o.delays = delays /\ o.expected = TRUE /\ o.peer = p
    BY <2>13, <2>15 DEF Acts, NoDelay, Tells, Untouched
  <2>17. Told(t, p.connections, {}, {})
    BY <2>7, ToldNothing
  <2>18. Good(o, t)
    BY <2>7, <2>10, <2>11, <2>12, <2>16, <2>17, GoodFrom
  <2>19. Managed(o)
    BY <2>1, <2>7, <2>16, ManagedQuiet
  <2> QED BY <2>7, <2>16, <2>18, <2>19 DEF Fine
<1> QED BY <1>3, <1>4 DEF Step

\* A substream was not opened.
LEMMA OpenResultErrFine ==
  ASSUME EntryInv, NEW k \in DOMAIN peer.connections, NEW c, c = peer.connections[k].id,
         NEW s \in View, Step(peer.connections[k].state, "OpenResultErr", s),
         NEW t, t = Turn(peer.connections, {c}, s),
         NEW o, o = event_open_result_err(c), peer.st # "Incoming"
  PROVE  Fine(o, t)
<1> DEFINE conns == peer.connections
<1>1. /\ peer \in Entries /\ conns \in Connections
      /\ peer.st \in {"Disabled", "DisabledPendingEnable", "Incoming", "Enabled"}
  BY LiveEntry
<1>2. \A S : c \in In(conns, S) <=> conns[k].state \in S
  BY Found
<1>3. CASE conns[k].state = "OpeningThenClosing" /\ s = "Closing"
  <2> DEFINE m == Move(c, {"OpeningThenClosing"}, "Closing")
  <2>1. /\ Fine(m, t) /\ m.peer.st = peer.st /\ m.peer.connections = t
        /\ peer.st \in {"Disabled", "DisabledPendingEnable", "Enabled"}
        /\ peer.st = "Enabled" => Some(t, Active)
    BY <1>3, OpeningThenClosingFine
  <2>2. c \notin In(conns, {"Opening"})
    BY <1>2, <1>3
  <2>3. o = m
    <3> HIDE DEF m
    <3>1. CASE peer.st = "Enabled"
      <4>1. o = IF Some(m.peer.connections, Active) THEN m
                ELSE [m EXCEPT !.peer = Entry("Disabled", m.peer.connections, 0, FALSE), !.drops = TRUE]
        BY <2>2, <3>1 DEF event_open_result_err, m
      <4> QED BY <2>1, <3>1, <4>1
    <3>2. CASE peer.st # "Enabled"
      BY <2>1, <3>2 DEF event_open_result_err, m
    <3> QED BY <3>1, <3>2
  <2> QED BY <2>1, <2>3
<1>4. CASE conns[k].state = "Opening" /\ s = "Closed"
  <2> DEFINE m == Move(c, {"Opening"}, "Closed")
             a == To(WithConnections(peer, t))
             p == Entry("Disabled", t, 0, FALSE)
  <2>1. peer.st = "Enabled"
    BY <1>1, <1>4, LiveEntry
  <2>2. c \in In(conns, {"Opening"})
    BY <1>2, <1>4
  <2>3. m = a
    BY <1>4, <2>2 DEF Move
  <2>4. Turned(t, conns, k, s)
    BY <1>1, TurnOne
  <2>5. /\ t \in Connections /\ DOMAIN t = DOMAIN conns /\ t[k].state = "Closed"
        /\ \A l \in DOMAIN conns : l # k => t[l].state = conns[l].state
    BY <1>4, <2>4 DEF Turned
  <2>6. \A l \in DOMAIN t : t[l].state # "OpenDesiredByRemote"
    BY <2>1, <2>5, LiveEntry
  <2>7. Some(t, {"Open"}) <=> Some(conns, {"Open"})
    BY <1>4, <2>5, SomeIs
  <2>8. Acts(a, WithConnections(peer, t), {}, {}, api) /\ NoDelay(a) /\ Tells(a, FALSE, FALSE, FALSE) /\ Untouched(a)
    BY ToIs
  <2>9. a.peer.connections = t /\ DOMAIN a = OutcomeFields
    <3>1. WithConnections(peer, t).connections = t
      BY <1>1, <2>5, WithConnectionsIs
    <3> HIDE DEF a
    <3> QED BY <2>8, <3>1 DEF Acts
  <2>10. o = IF Some(t, Active) THEN a ELSE [a EXCEPT !.peer = p, !.drops = TRUE]
    <3>1. o = IF Some(m.peer.connections, Active) THEN m
              ELSE [m EXCEPT !.peer = Entry("Disabled", m.peer.connections, 0, FALSE), !.drops = TRUE]
      BY <2>1, <2>2 DEF event_open_result_err
    <3> HIDE DEF m, a
    <3> QED BY <2>3, <2>9, <3>1
  <2>11. CASE Some(t, Active)
    <3>1. ConnectionsOk(peer.st, t)
      BY <2>1, <2>5, <2>6, <2>11, ConnectionsFit
    <3>2. o = To(WithConnections(peer, t))
      BY <2>10, <2>11
    <3> QED BY <2>5, <2>7, <3>1, <3>2, StayGood
  <2>12. CASE ~Some(t, Active)
    <3>1. p \in Entries /\ p.st = "Disabled" /\ p.connections = t /\ ConnectionsOk("Disabled", t)
      BY <2>5, <2>6, <2>12, NotServing
    <3>2. o = [a EXCEPT !.peer = p, !.drops = TRUE]
      BY <2>10, <2>12
    <3> HIDE DEF a, p
    <3>3. /\ o.peer = p /\ o.opened = a.opened /\ o.closed = a.closed /\ o.api = a.api
          /\ o.armed = a.armed /\ o.delays = a.delays
          /\ o.drops = TRUE /\ o.asks = a.asks /\ o.obsolete = a.obsolete
          /\ o.expected = a.expected /\ o.incoming = a.incoming /\ o.unread = a.unread
          /\ DOMAIN o = OutcomeFields
      BY <2>9, <3>2 DEF OutcomeFields
    <3>4. /\ Acts(o, p, {}, {}, api) /\ Tells(o, TRUE, FALSE, FALSE) /\ Untouched(o)
          /\ o.armed = FALSE /\ o.delays = delays /\ o.expected = TRUE
      BY <2>8, <3>3 DEF Acts, NoDelay, Tells, Untouched
    <3>5. api = 0
      <4>1. ~Some(t, {"Open"})
        BY <2>12, SomeIs DEF Active
      <4>2. ~is_open(peer)
        BY <2>7, <4>1 DEF is_open
      <4> QED BY <4>2 DEF EntryInv, EntryOk
    <3>6. ~is_open(p) /\ p.st \notin Waiting /\ Told(t, p.connections, {}, {})
      BY <3>1, ToldNothing DEF is_open, Waiting
    <3>7. ConnectionsOk(p.st, p.connections)
      BY <3>1
    <3>8. Good(o, t)
      BY <3>1, <3>4, <3>5, <3>6, <3>7, GoodFrom
    <3>9. Managed(o)
      BY <2>1, <3>1, <3>3, <3>4, ManagedDrops DEF Requesting
    <3> QED BY <3>1, <3>3, <3>8, <3>9 DEF Fine
  <2> QED BY <2>11, <2>12
<1> QED BY <1>3, <1>4 DEF Step

-----------------------------------------------------------------------------
(* A connection is closed *)

\* The connections of rest are those of conns without the one at k.
Removed(rest, conns, k) ==
  /\ rest \in Connections
  /\ \A j \in DOMAIN rest : \E l \in DOMAIN conns : l # k /\ rest[j] = conns[l]
  /\ \A l \in DOMAIN conns : l # k => \E j \in DOMAIN rest : rest[j] = conns[l]
  /\ Ids(rest) = Ids(conns) \ {conns[k].id}

\* The states of the connections that are left when the one at k is lost.
LEMMA RemovedStates ==
  ASSUME NEW conns, NEW k \in DOMAIN conns, NEW rest, Removed(rest, conns, k), NEW S
  PROVE  /\ Some(rest, S) => Some(conns, S)
         /\ conns[k].state \notin S => (Some(conns, S) => Some(rest, S))
         /\ (\A l \in DOMAIN conns : conns[l].state \in S) => \A j \in DOMAIN rest : rest[j].state \in S
BY SomeIs DEF Removed

\* What the connections that are left fit.
LEMMA RemovedFits ==
  ASSUME EntryInv, NEW k \in DOMAIN peer.connections, NEW rest, Removed(rest, peer.connections, k), rest # <<>>
  PROVE  /\ peer.st \in {"Disabled", "DisabledPendingEnable"} => ConnectionsOk(peer.st, rest)
         /\ peer.st = "Incoming" =>
              IF Some(rest, {"OpenDesiredByRemote"}) THEN ConnectionsOk("Incoming", rest)
              ELSE ConnectionsOk("Disabled", rest)
         /\ peer.st = "Enabled" =>
              IF Some(rest, Active) THEN ConnectionsOk("Enabled", rest) ELSE ConnectionsOk("Disabled", rest)
<1> DEFINE conns == peer.connections
<1>1. rest \in Connections /\ \E j : j \in DOMAIN rest
  BY ConnectionsAre DEF Removed
<1>2. PICK j : j \in DOMAIN rest
  BY <1>1
<1>3. \A i \in DOMAIN rest : \E l \in DOMAIN conns : rest[i] = conns[l]
  BY DEF Removed
<1>4. ASSUME peer.st \in {"Disabled", "DisabledPendingEnable"} PROVE ConnectionsOk(peer.st, rest)
  <2>1. \A i \in DOMAIN rest : rest[i].state \in {"Closed", "Closing", "OpeningThenClosing"}
    BY <1>3, <1>4, LiveEntry
  <2> QED BY <1>1, <1>2, <1>4, <2>1, ConnectionsFit
<1>5. ASSUME peer.st = "Incoming"
      PROVE  IF Some(rest, {"OpenDesiredByRemote"}) THEN ConnectionsOk("Incoming", rest)
             ELSE ConnectionsOk("Disabled", rest)
  <2>1. \A i \in DOMAIN rest : rest[i].state \in {"Closed", "OpenDesiredByRemote", "Closing", "OpeningThenClosing"}
    BY <1>3, <1>5, LiveEntry
  <2>2. CASE Some(rest, {"OpenDesiredByRemote"})
    BY <1>1, <1>2, <2>1, <2>2, ConnectionsFit
  <2>3. CASE ~Some(rest, {"OpenDesiredByRemote"})
    <3>1. \A i \in DOMAIN rest : rest[i].state \in {"Closed", "Closing", "OpeningThenClosing"}
      BY <2>1, <2>3, SomeIs
    <3>2. ConnectionsOk("Disabled", rest)
      BY <1>1, <1>2, <3>1, ConnectionsFit
    <3> QED BY <2>3, <3>2
  <2> QED BY <2>2, <2>3
<1>6. ASSUME peer.st = "Enabled"
      PROVE  IF Some(rest, Active) THEN ConnectionsOk("Enabled", rest) ELSE ConnectionsOk("Disabled", rest)
  <2>1. \A i \in DOMAIN rest : rest[i].state # "OpenDesiredByRemote"
    BY <1>3, <1>6, LiveEntry
  <2>2. CASE Some(rest, Active)
    BY <1>1, <1>2, <2>1, <2>2, ConnectionsFit
  <2>3. CASE ~Some(rest, Active)
    BY <1>1, <1>2, <2>1, <2>3, NotServing
  <2> QED BY <2>2, <2>3
<1> QED BY <1>4, <1>5, <1>6

\* The last connection is lost, and the users hold no sink.
LEMMA ForgetGood ==
  ASSUME api = 0, NEW late \in BOOLEAN, peer.backoff \in BOOLEAN, NEW o, o = Forget(late)
  PROVE  /\ Good(o, <<>>) /\ o.peer.st \in {"Backoff", "None"}
         /\ Tells(o, FALSE, FALSE, FALSE) /\ Untouched(o) /\ DOMAIN o = OutcomeFields
<1> DEFINE p == Entry("Backoff", <<>>, 0, FALSE)
<1>1. CASE o = To(Absent)
  BY <1>1, AbsentGood
<1>2. CASE o = [To(p) EXCEPT !.armed = TRUE]
  <2>1. p \in Entries /\ p.st = "Backoff" /\ p.connections = <<>>
    BY NoConnections DEF Entry, Entries, Waiting
  <2> HIDE DEF p
  <2>2. /\ Acts(o, p, {}, {}, api) /\ o.armed = TRUE /\ o.dials = FALSE /\ o.delays = delays
        /\ Tells(o, FALSE, FALSE, FALSE) /\ Untouched(o)
    BY <1>2, ToArmed
  <2>3. ConnectionsOk(p.st, p.connections) /\ ~is_open(p)
    BY <2>1 DEF ConnectionsOk, is_open
  <2>4. o.expected = TRUE /\ Told(p.connections, p.connections, {}, {})
    BY <2>2, ToldNothing DEF Untouched
  <2>5. Good(o, p.connections)
    BY <2>1, <2>2, <2>3, <2>4, GoodFrom
  <2> QED BY <2>1, <2>2, <2>5 DEF Acts
<1> QED BY <1>1, <1>2 DEF Forget

\* A disabled link loses a connection.
LEMMA ClosedDisabledFine ==
  ASSUME EntryInv, peer.st = "Disabled", NEW k \in DOMAIN peer.connections,
         NEW rest, Removed(rest, peer.connections, k), NEW late \in BOOLEAN, NEW o, o = closed_disabled(rest, late)
  PROVE  Fine(o, rest) /\ DOMAIN o = OutcomeFields
<1>1. api = 0 /\ peer.backoff \in BOOLEAN
  BY NoSink, PeerIs
<1>2. CASE rest = <<>>
  <2>1. o = Forget(late)
    BY <1>2 DEF closed_disabled
  <2>2. /\ Good(o, <<>>) /\ o.peer.st \in {"Backoff", "None"}
        /\ Tells(o, FALSE, FALSE, FALSE) /\ Untouched(o) /\ DOMAIN o = OutcomeFields
    BY <1>1, <2>1, ForgetGood
  <2>3. Managed(o)
    BY <2>2, ManagedQuiet DEF Requesting
  <2> QED BY <1>2, <2>2, <2>3 DEF Fine
<1>3. CASE rest # <<>>
  <2>1. o = To(WithConnections(peer, rest))
    BY <1>3 DEF closed_disabled
  <2>2. ConnectionsOk(peer.st, rest) /\ rest \in Connections
    BY <1>3, RemovedFits DEF Removed
  <2>3. ~Some(peer.connections, {"Open"})
    BY SomeIs, LiveEntry
  <2>4. ~Some(rest, {"Open"})
    BY <2>3, RemovedStates
  <2> QED BY <2>1, <2>2, <2>3, <2>4, StayGood
<1> QED BY <1>2, <1>3

\* A link that waits for a closed connection loses one.
LEMMA ClosedPendingFine ==
  ASSUME EntryInv, peer.st = "DisabledPendingEnable", NEW k \in DOMAIN peer.connections,
         NEW rest, Removed(rest, peer.connections, k), NEW o, o = closed_pending_enable(rest)
  PROVE  Fine(o, rest) /\ DOMAIN o = OutcomeFields
<1>1. api = 0 /\ peer.timer \in delays /\ peer.timer \in DelayId \cup {0}
  BY NoSink, PeerIs DEF Waiting
<1>2. CASE rest = <<>>
  <2> DEFINE p == Entry("Backoff", <<>>, peer.timer, FALSE)
  <2>1. p \in Entries /\ p.st = "Backoff" /\ p.connections = <<>> /\ p.timer = peer.timer
    BY <1>1, NoConnections DEF Entry, Entries, Waiting
  <2>2. o = [To(p) EXCEPT !.drops = TRUE]
    BY <1>2 DEF closed_pending_enable
  <2> HIDE DEF p
  <2>3. Acts(o, p, {}, {}, api) /\ NoDelay(o) /\ Tells(o, TRUE, FALSE, FALSE) /\ Untouched(o)
    BY <2>2, ToDrops
  <2>4. ConnectionsOk(p.st, p.connections) /\ ~is_open(p)
    BY <2>1 DEF ConnectionsOk, is_open
  <2>5. o.expected = TRUE /\ o.armed = FALSE /\ o.delays = delays /\ Told(rest, p.connections, {}, {})
    BY <1>2, <2>1, <2>3, ToldNothing DEF Untouched, NoDelay
  <2>6. Good(o, rest)
    BY <1>1, <2>1, <2>3, <2>4, <2>5, GoodFrom
  <2>7. o.peer = p /\ DOMAIN o = OutcomeFields
    BY <2>3 DEF Acts
  <2>8. Managed(o)
    BY <2>1, <2>3, <2>7, ManagedDrops DEF Requesting
  <2> QED BY <2>1, <2>6, <2>7, <2>8 DEF Fine
<1>3. CASE rest # <<>>
  <2>1. o = To(WithConnections(peer, rest))
    BY <1>3 DEF closed_pending_enable
  <2>2. ConnectionsOk(peer.st, rest) /\ rest \in Connections
    BY <1>3, RemovedFits DEF Removed
  <2>3. ~Some(peer.connections, {"Open"})
    BY SomeIs, LiveEntry
  <2>4. ~Some(rest, {"Open"})
    BY <2>3, RemovedStates
  <2> QED BY <2>1, <2>2, <2>3, <2>4, StayGood
<1> QED BY <1>2, <1>3

\* A link that waits for the manager's answer loses a connection.
LEMMA ClosedIncomingFine ==
  ASSUME EntryInv, ManagerInv, peer.st = "Incoming", NEW k \in DOMAIN peer.connections,
         NEW rest, Removed(rest, peer.connections, k), NEW late \in BOOLEAN, NEW o, o = closed_incoming(rest, late)
  PROVE  Fine(o, rest) /\ DOMAIN o = OutcomeFields
<1> DEFINE none == ~Some(rest, {"OpenDesiredByRemote"})
           a == CASE rest = <<>> -> Forget(late)
                  [] rest # <<>> /\ none -> To(Entry("Disabled", rest, 0, peer.backoff))
                  [] OTHER -> To(WithConnections(peer, rest))
<1>1. o = [a EXCEPT !.obsolete = none, !.expected = none => Alive # {}]
  BY DEF closed_incoming
<1>2. Alive # {} /\ api = 0 /\ peer.backoff \in BOOLEAN
  BY IncomingAlive, NoSink, PeerIs
<1>3. rest = <<>> => none
  BY SomeIs
<1>4. rest \in Connections
  BY DEF Removed
<1>5. /\ Good(a, rest) /\ Tells(a, FALSE, FALSE, FALSE) /\ Untouched(a) /\ DOMAIN a = OutcomeFields
      /\ IF none THEN a.peer.st \in {"Backoff", "None", "Disabled"} ELSE a.peer.st = "Incoming"
  <2>1. CASE rest = <<>>
    <3>1. a = Forget(late)
      BY <2>1
    <3> HIDE DEF a
    <3>2. /\ Good(a, <<>>) /\ a.peer.st \in {"Backoff", "None"}
          /\ Tells(a, FALSE, FALSE, FALSE) /\ Untouched(a) /\ DOMAIN a = OutcomeFields
      BY <1>2, <3>1, ForgetGood
    <3> QED BY <1>3, <2>1, <3>2
  <2>2. CASE rest # <<>> /\ none
    <3> DEFINE p == Entry("Disabled", rest, 0, peer.backoff)
    <3>1. a = To(p)
      BY <2>2
    <3>2. p \in Entries /\ p.st = "Disabled" /\ p.connections = rest
      BY <1>2, <1>4 DEF Entry, Entries, Waiting
    <3> HIDE DEF a, p
    <3>3. ConnectionsOk(p.st, p.connections) /\ p.st \notin Waiting /\ ~is_open(p)
      BY <2>2, <3>2, RemovedFits DEF Waiting, is_open
    <3>4. /\ Good(a, p.connections) /\ a.peer = p
          /\ Tells(a, FALSE, FALSE, FALSE) /\ Untouched(a) /\ DOMAIN a = OutcomeFields
      BY <1>2, <3>1, <3>2, <3>3, ToGood
    <3> QED BY <2>2, <3>2, <3>4
  <2>3. CASE rest # <<>> /\ ~none
    <3>1. a = To(WithConnections(peer, rest))
      BY <2>3
    <3> HIDE DEF a
    <3>2. ConnectionsOk(peer.st, rest)
      BY <2>3, RemovedFits
    <3>3. ~Some(peer.connections, {"Open"})
      BY SomeIs, LiveEntry
    <3>4. ~Some(rest, {"Open"})
      BY <3>3, RemovedStates
    <3>5. /\ Fine(a, rest) /\ a.peer.st = peer.st
          /\ Tells(a, FALSE, FALSE, FALSE) /\ Untouched(a) /\ DOMAIN a = OutcomeFields
      BY <1>4, <3>1, <3>2, <3>3, <3>4, StayGood
    <3> QED BY <2>3, <3>5 DEF Fine
  <2> QED BY <1>3, <2>1, <2>2, <2>3
<1> HIDE DEF a
<1>6. /\ o.peer = a.peer /\ o.opened = a.opened /\ o.closed = a.closed /\ o.api = a.api
      /\ o.armed = a.armed /\ o.delays = a.delays /\ o.dials = a.dials
      /\ o.drops = a.drops /\ o.asks = a.asks /\ o.obsolete = none
      /\ o.expected = (none => Alive # {}) /\ o.incoming = a.incoming /\ o.unread = a.unread
      /\ DOMAIN o = OutcomeFields
  BY <1>1, <1>5 DEF OutcomeFields
<1>7. Like(o, a) /\ o.expected = TRUE
  BY <1>2, <1>6 DEF Like
<1>8. Good(o, rest)
  BY <1>5, <1>7, LikeGood
<1>9. Untouched(o) /\ o.drops = FALSE /\ o.asks = FALSE
  BY <1>5, <1>6, <1>7 DEF Untouched, Tells
<1>10. Managed(o) /\ o.peer.st # "Requested"
  <2>1. CASE none
    <3>1. Tells(o, FALSE, FALSE, TRUE)
      BY <1>6, <1>9, <2>1 DEF Tells
    <3>2. o.peer.st \in {"Backoff", "None", "Disabled"}
      BY <1>5, <1>6, <2>1
    <3> QED BY <1>9, <3>1, <3>2, ManagedObsolete DEF Requesting
  <2>2. CASE ~none
    <3>1. Tells(o, FALSE, FALSE, FALSE)
      BY <1>6, <1>9, <2>2 DEF Tells
    <3>2. o.peer.st = "Incoming"
      BY <1>5, <1>6, <2>2
    <3> QED BY <1>9, <3>1, <3>2, ManagedQuiet
  <2> QED BY <2>1, <2>2
<1> QED BY <1>6, <1>8, <1>10 DEF Fine

\* An Enabled entry that lost a connection becomes p, in the outcome a.
LeftTo(a, p, rest) ==
  /\ DOMAIN a = OutcomeFields /\ a.peer = p /\ a.opened = {} /\ a.closed = {} /\ a.delays = delays
  /\ a.armed \in BOOLEAN /\ a.asks = FALSE /\ a.obsolete = FALSE /\ Untouched(a)
  /\ a.armed \/ (p.st \in Waiting => p.timer \in delays)
  /\ p.connections = rest /\ ConnectionsOk(p.st, rest) /\ p.st # "Requested"
  /\ IF Some(rest, Active) THEN p.st = "Enabled" /\ a.drops = FALSE
     ELSE p.st \in {"Backoff", "Disabled"} /\ a.drops = TRUE

\* An enabled link loses a connection: the sink is replaced, and the manager is told when no
\* open or opening one is left.
LEMMA ClosedEnabledFine ==
  ASSUME EntryInv, peer.st = "Enabled", NEW k \in DOMAIN peer.connections, NEW c, c = peer.connections[k].id,
         NEW rest, Removed(rest, peer.connections, k), NEW o, o = closed_enabled(rest, c)
  PROVE  Fine(o, rest) /\ DOMAIN o = OutcomeFields
<1> DEFINE conns == peer.connections
           back == Entry("Backoff", <<>>, 0, FALSE)
           off == Entry("Disabled", rest, 0, FALSE)
           a == CASE rest = <<>> -> [To(back) EXCEPT !.armed = TRUE, !.drops = TRUE]
                  [] rest # <<>> /\ ~Some(rest, Active) -> [To(off) EXCEPT !.drops = TRUE]
                  [] OTHER -> To(WithConnections(peer, rest))
           sink == IF c \in In(conns, {"Open"}) THEN Replacement(rest, Position(conns, c)) ELSE api
<1>1. o = [a EXCEPT !.api = sink]
  BY DEF closed_enabled
<1>2. rest \in Connections /\ peer \in Entries
  BY LiveEntry DEF Removed
<1>3. rest = <<>> => ~Some(rest, Active)
  BY SomeIs
<1>4. Some(rest, {"Open"}) => Some(rest, Active)
  BY SomeIs DEF Active
<1>5. sink # 0 <=> Some(rest, {"Open"})
  <2>1. CASE conns[k].state = "Open"
    <3>1. c \in In(conns, {"Open"}) /\ api # 0
      BY <2>1, Found, PeerIs
    <3>2. Replacement(rest, Position(conns, c)) # 0 <=> Some(rest, {"Open"})
      BY <1>2, <3>1, ReplacementIs
    <3> QED BY <3>1, <3>2
  <2>2. CASE conns[k].state # "Open"
    <3>1. c \notin In(conns, {"Open"})
      BY <2>2, Found
    <3>2. Some(rest, {"Open"}) <=> Some(conns, {"Open"})
      BY <2>2, RemovedStates
    <3>3. api # 0 <=> Some(conns, {"Open"})
      BY DEF EntryInv, EntryOk, is_open
    <3> QED BY <3>1, <3>2, <3>3
  <2> QED BY <2>1, <2>2
<1>6. PICK p \in Entries : LeftTo(a, p, rest)
  <2>1. CASE rest = <<>>
    <3>1. a = [To(back) EXCEPT !.armed = TRUE, !.drops = TRUE]
      BY <2>1
    <3>2. back \in Entries /\ back.st = "Backoff" /\ back.connections = <<>>
      BY NoConnections DEF Entry, Entries, Waiting
    <3> HIDE DEF a, back
    <3>3. /\ Acts(a, back, {}, {}, api) /\ a.armed = TRUE /\ a.delays = delays
          /\ Tells(a, TRUE, FALSE, FALSE) /\ Untouched(a)
      BY <3>1, ToArmedDrops
    <3>4. ConnectionsOk(back.st, rest)
      BY <2>1, <3>2 DEF ConnectionsOk
    <3>5. /\ DOMAIN a = OutcomeFields /\ a.peer = back /\ a.opened = {} /\ a.closed = {}
          /\ a.drops = TRUE /\ a.asks = FALSE /\ a.obsolete = FALSE
      BY <3>3 DEF Acts, Tells
    <3>6. LeftTo(a, back, rest)
      BY <1>3, <2>1, <3>2, <3>3, <3>4, <3>5 DEF LeftTo
    <3> QED BY <3>2, <3>6
  <2>2. CASE rest # <<>> /\ ~Some(rest, Active)
    <3>1. a = [To(off) EXCEPT !.drops = TRUE]
      BY <2>2
    <3>2. off \in Entries /\ off.st = "Disabled" /\ off.connections = rest
      BY <1>2 DEF Entry, Entries, Waiting
    <3> HIDE DEF a, off
    <3>3. Acts(a, off, {}, {}, api) /\ NoDelay(a) /\ Tells(a, TRUE, FALSE, FALSE) /\ Untouched(a)
      BY <3>1, ToDrops
    <3>4. ConnectionsOk(off.st, rest) /\ off.st \notin Waiting
      BY <2>2, <3>2, RemovedFits DEF Waiting
    <3>5. /\ DOMAIN a = OutcomeFields /\ a.peer = off /\ a.opened = {} /\ a.closed = {}
          /\ a.drops = TRUE /\ a.asks = FALSE /\ a.obsolete = FALSE /\ a.armed = FALSE /\ a.delays = delays
      BY <3>3 DEF Acts, Tells, NoDelay
    <3>6. LeftTo(a, off, rest)
      BY <2>2, <3>2, <3>3, <3>4, <3>5 DEF LeftTo
    <3> QED BY <3>2, <3>6
  <2>3. CASE rest # <<>> /\ Some(rest, Active)
    <3> DEFINE p == WithConnections(peer, rest)
    <3>1. a = To(p)
      BY <2>3
    <3>2. p \in Entries /\ p.st = "Enabled" /\ p.connections = rest
      BY <1>2, WithConnectionsIs
    <3> HIDE DEF a, p
    <3>3. Acts(a, p, {}, {}, api) /\ NoDelay(a) /\ Tells(a, FALSE, FALSE, FALSE) /\ Untouched(a)
      BY <3>1, ToIs
    <3>4. ConnectionsOk(p.st, rest) /\ p.st \notin Waiting
      BY <2>3, <3>2, RemovedFits DEF Waiting
    <3>5. /\ DOMAIN a = OutcomeFields /\ a.peer = p /\ a.opened = {} /\ a.closed = {}
          /\ a.drops = FALSE /\ a.asks = FALSE /\ a.obsolete = FALSE /\ a.armed = FALSE /\ a.delays = delays
      BY <3>3 DEF Acts, Tells, NoDelay
    <3>6. LeftTo(a, p, rest)
      BY <2>3, <3>2, <3>3, <3>4, <3>5 DEF LeftTo
    <3> QED BY <3>2, <3>6
  <2> QED BY <1>3, <2>1, <2>2, <2>3
<1> HIDE DEF a, sink
<1>7. /\ o.peer = a.peer /\ o.opened = a.opened /\ o.closed = a.closed /\ o.api = sink
      /\ o.armed = a.armed /\ o.delays = a.delays
      /\ o.drops = a.drops /\ o.asks = a.asks /\ o.obsolete = a.obsolete
      /\ o.expected = a.expected /\ o.incoming = a.incoming /\ o.unread = a.unread
      /\ DOMAIN o = OutcomeFields
  BY <1>1, <1>6 DEF LeftTo, OutcomeFields
<1>8. Acts(o, p, {}, {}, sink) /\ o.expected = TRUE /\ o.delays = delays /\ o.armed \in BOOLEAN /\ Untouched(o)
  BY <1>6, <1>7 DEF LeftTo, Acts, Untouched
<1>9. sink # 0 <=> is_open(p)
  <2>1. CASE Some(rest, Active)
    BY <1>5, <1>6, <2>1 DEF LeftTo, is_open
  <2>2. CASE ~Some(rest, Active)
    BY <1>4, <1>5, <1>6, <2>2 DEF LeftTo, is_open
  <2> QED BY <2>1, <2>2
<1>10. o.armed \/ (p.st \in Waiting => p.timer \in o.delays)
  BY <1>6, <1>7 DEF LeftTo
<1>11. Told(rest, p.connections, {}, {}) /\ ConnectionsOk(p.st, p.connections)
  BY <1>6, ToldNothing DEF LeftTo
<1>12. Good(o, rest)
  <2>1. p \in Entries /\ o.delays \subseteq delays /\ o.expected = TRUE /\ o.armed \in BOOLEAN
    BY <1>6, <1>8
  <2>2. Acts(o, p, {}, {}, sink)
    BY <1>8
  <2>3. o.peer = p /\ o.opened = {} /\ o.closed = {} /\ o.api = sink
    BY <2>2 DEF Acts
  <2>4. Sound(o)
    BY <1>9, <1>10, <1>11, <2>1, <2>3 DEF Sound
  <2> QED BY <1>11, <2>3, <2>4 DEF Good
<1>13. Managed(o)
  <2>1. CASE Some(rest, Active)
    <3>1. Tells(o, FALSE, FALSE, FALSE) /\ o.peer.st = "Enabled"
      BY <1>6, <1>7, <2>1 DEF LeftTo, Tells
    <3> QED BY <1>8, <3>1, ManagedQuiet
  <2>2. CASE ~Some(rest, Active)
    <3>1. Tells(o, TRUE, FALSE, FALSE) /\ o.peer.st \in {"Backoff", "Disabled"}
      BY <1>6, <1>7, <2>2 DEF LeftTo, Tells
    <3> QED BY <1>8, <3>1, ManagedDrops DEF Requesting
  <2> QED BY <2>1, <2>2
<1> QED BY <1>6, <1>7, <1>12, <1>13 DEF Fine, LeftTo

\* A link loses a connection.
LEMMA ConnectionClosedFine ==
  ASSUME EntryInv, ManagerInv, NEW k \in DOMAIN peer.connections, NEW c, c = peer.connections[k].id,
         NEW late \in BOOLEAN, NEW rest, rest = RemoveAt(peer.connections, k), Removed(rest, peer.connections, k),
         NEW o, o = inject_connection_closed(c, late)
  PROVE  Fine(o, rest)
<1> DEFINE known == c \in Ids(peer.connections)
           a == CASE peer.st = "Disabled" -> closed_disabled(rest, late)
                  [] peer.st = "DisabledPendingEnable" -> closed_pending_enable(rest)
                  [] peer.st = "Incoming" -> closed_incoming(rest, late)
                  [] peer.st = "Enabled" -> closed_enabled(rest, c)
                  [] peer.st = "None" -> Mismatch
                  [] OTHER -> Poison
<1>1. known = TRUE /\ Position(peer.connections, c) = k
  BY Found
<1>2. o = [a EXCEPT !.expected = @ /\ known]
  BY <1>1 DEF inject_connection_closed
<1>3. Fine(a, rest) /\ DOMAIN a = OutcomeFields
  <2>1. CASE peer.st = "Disabled"
    <3>1. a = closed_disabled(rest, late)
      BY <2>1
    <3> QED BY <2>1, <3>1, ClosedDisabledFine
  <2>2. CASE peer.st = "DisabledPendingEnable"
    <3>1. a = closed_pending_enable(rest)
      BY <2>2
    <3> QED BY <2>2, <3>1, ClosedPendingFine
  <2>3. CASE peer.st = "Incoming"
    <3>1. a = closed_incoming(rest, late)
      BY <2>3
    <3> QED BY <2>3, <3>1, ClosedIncomingFine
  <2>4. CASE peer.st = "Enabled"
    <3>1. a = closed_enabled(rest, c)
      BY <2>4
    <3> QED BY <2>4, <3>1, ClosedEnabledFine
  <2> QED BY <2>1, <2>2, <2>3, <2>4, LiveEntry
<1> HIDE DEF a, known
<1>4. /\ o.peer = a.peer /\ o.opened = a.opened /\ o.closed = a.closed /\ o.api = a.api
      /\ o.armed = a.armed /\ o.delays = a.delays /\ o.dials = a.dials
      /\ o.drops = a.drops /\ o.asks = a.asks /\ o.obsolete = a.obsolete
      /\ o.expected = (a.expected /\ known) /\ o.incoming = a.incoming /\ o.unread = a.unread
  BY <1>2, <1>3 DEF OutcomeFields
<1>5. a.expected = TRUE
  BY <1>3 DEF Fine, Good, Sound
<1>6. Like(o, a) /\ o.expected = TRUE
  BY <1>1, <1>4, <1>5 DEF Like
<1>7. Good(o, rest)
  BY <1>3, <1>6, LikeGood DEF Fine
<1>8. Managed(o)
  BY <1>3, <1>4 DEF Fine, Managed
<1>9. o.peer.st # "Requested"
  BY <1>3, <1>4 DEF Fine
<1> QED BY <1>7, <1>8, <1>9 DEF Fine

\* What is left when a connection is gone, with its events, is wired as before.
LEMMA RemovedWired ==
  ASSUME NEW conns \in Connections, NEW k \in DOMAIN conns, NEW c, c = conns[k].id,
         NEW rest, Removed(rest, conns, k), NEW h, NEW to, NEW fr \in [Conn -> Seq(Event)],
         WireOk(conns, h, to, fr), NEW fr2, Reads(fr2, fr, c),
         h[c] = Gone, to[c] = <<>>, fr2[c] = <<>>
  PROVE  WireOk(rest, h, to, fr2)
<1> USE DEF Reads
<1>1. ASSUME NEW j \in DOMAIN rest
      PROVE  Wired(rest[j].state, h[rest[j].id].st, to[rest[j].id], fr2[rest[j].id])
  <2>1. PICK l \in DOMAIN conns : l # k /\ rest[j] = conns[l]
    BY DEF Removed
  <2>2. conns[l].id # c /\ conns[l].id \in Conn
    BY <2>1, ConnectionsAre
  <2>3. fr2[conns[l].id] = fr[conns[l].id]
    BY <2>2
  <2>4. Wired(conns[l].state, h[conns[l].id].st, to[conns[l].id], fr[conns[l].id])
    BY DEF WireOk
  <2> QED BY <2>1, <2>3, <2>4
<1>2. ASSUME NEW d \in Conn \ Ids(rest) PROVE h[d] = Gone /\ to[d] = <<>> /\ fr2[d] = <<>>
  <2>1. d = c \/ d \in Conn \ Ids(conns)
    BY DEF Removed
  <2>2. CASE d # c
    <3>1. h[d] = Gone /\ to[d] = <<>> /\ fr[d] = <<>>
      BY <2>1, <2>2 DEF WireOk
    <3> QED BY <2>2, <3>1
  <2> QED BY <2>1, <2>2
<1> QED BY <1>1, <1>2 DEF WireOk

\* The events that the code is not prepared for.
LEMMA UnfitEvent ==
  ASSUME EntryInv, NEW k \in DOMAIN peer.connections, NEW c, c = peer.connections[k].id,
         NEW e \in {"CloseDesired", "CloseResult", "OpenResultOk", "OpenResultErr"}, e = Head(from_handler[c]),
         NEW s \in View, Step(peer.connections[k].state, e, s),
         \/ peer.st = "Incoming"
         \/ /\ e = "CloseDesired" /\ peer.st = "Enabled"
            /\ peer.connections[k].state \in {"Opening", "OpeningThenClosing"},
         NEW late \in BOOLEAN, NEW o, o = inject_event(c, e, late)
  PROVE  o.expected = FALSE /\ (GivenUp(c) \/ Overlaps(c))
<1> DEFINE v == peer.connections[k].state
<1>1. \A S : c \in In(peer.connections, S) <=> v \in S
  BY Found
<1>2. c \in Ids(peer.connections) /\ StateOf(peer.connections, c) = v /\ Position(peer.connections, c) = k
  BY Found
<1>3. /\ v \in View
      /\ peer.st = "Incoming" => v \in {"Closed", "OpenDesiredByRemote", "Closing", "OpeningThenClosing"}
  BY LiveEntry
<1>4. Mismatch.expected = FALSE /\ Poison.expected = FALSE
  BY DEF Mismatch, Poison, Keep
<1> HIDE DEF v
<1>5. CASE peer.st = "Incoming"
  <2>1. o \in {Mismatch, Poison}
    BY <1>5 DEF inject_event, event_close_desired, event_close_result, event_open_result_ok, event_open_result_err
  <2>2. v \in {"OpenDesiredByRemote", "Closing", "OpeningThenClosing"} /\ (e # "CloseDesired" => v # "OpenDesiredByRemote")
    BY <1>3, <1>5 DEF Step, v
  <2>3. CASE v = "OpenDesiredByRemote"
    BY <1>1, <1>4, <2>1, <2>2, <2>3 DEF GivenUp
  <2>4. CASE v # "OpenDesiredByRemote"
    BY <1>1, <1>4, <1>5, <2>1, <2>2, <2>4 DEF Overlaps
  <2> QED BY <2>3, <2>4
<1>6. CASE e = "CloseDesired" /\ peer.st = "Enabled" /\ v \in {"Opening", "OpeningThenClosing"}
  <2>1. GivenUp(c)
    BY <1>1, <1>6 DEF GivenUp
  <2> DEFINE rest == Turn(peer.connections, {c}, "Closing")
             serving == Some(rest, Active)
             left == IF serving THEN WithConnections(peer, rest) ELSE Entry("Disabled", rest, 0, FALSE)
  <2>2. o = [To(left) EXCEPT !.closed = {c}, !.drops = ~serving,
                              !.api = Replacement(rest, Position(peer.connections, c)),
                              !.expected = StateOf(peer.connections, c) = "Open"]
    BY <1>2, <1>6 DEF inject_event, event_close_desired
  <2> HIDE DEF rest, serving, left
  <2>3. o.expected = (v = "Open")
    BY <1>2, <2>2 DEF To, Keep
  <2> QED BY <1>6, <2>1, <2>3
<1> QED BY <1>5, <1>6 DEF v

\* An event that the code is not prepared for is read from c.
Unfit(c) ==
  /\ expected' = FALSE
  /\ from_handler[c] # <<>> /\ from_handler'[c] = Tail(from_handler[c])
  /\ GivenUp(c) \/ Overlaps(c)

\* An event of a handler keeps the invariant, or is one of those.
LEMMA DeliverKeeps ==
  ASSUME IInv, NEW c \in Conn, deliver(c)
  PROVE  IInv' \/ Unfit(c)
<1> DEFINE conns == peer.connections
           e == Head(from_handler[c])
           fr == from_handler
           fr2 == [fr EXCEPT ![c] = Tail(@)]
<1>1. EntryInv /\ ManagerInv /\ WireInv
  BY DEF IInv
<1>2. /\ fr[c] # <<>> /\ Deliverable(c, e) /\ from_handler' = fr2 /\ handler' = handler /\ dialing' = dialing
  BY DEF deliver
<1>3. PICK late \in BOOLEAN : React(inject_event(c, e, late)) /\ Notify(inject_event(c, e, late))
  BY DEF deliver
<1> DEFINE o == inject_event(c, e, late)
<1>4. PICK k \in DOMAIN conns : conns[k].id = c
  BY <1>1, <1>2, KnownConnection
<1>5. /\ conns \in Connections /\ fr \in [Conn -> Seq(Event)] /\ WireOk(conns, handler, to_handler, fr)
      /\ handler \in [Conn -> Handlers] /\ \A d \in Conn : HandlerOk(handler[d])
  BY <1>1, LiveEntry DEF WireInv
<1>6. /\ fr2 \in [Conn -> Seq(Event)]
      /\ \E s \in Views :
           /\ Step(conns[k].state, e, s)
           /\ s \in View => WireOk(Turn(conns, {c}, s), handler, to_handler, fr2)
           /\ s = "Lost" => handler[c].st = "Gone" /\ to_handler[c] = <<>> /\ fr2[c] = <<>>
  <2> DEFINE x == conns[k].id
  <2>1. x = c /\ fr[conns[k].id] # <<>> /\ Reads(fr2, fr, conns[k].id)
    BY <1>2, <1>4 DEF Reads
  <2> HIDE DEF conns, fr, fr2
  <2>2. fr2 \in [Conn -> Seq(Event)] /\ ReadTo(conns, k, handler, to_handler, fr, fr2)
    <3>1. /\ conns \in Connections /\ fr \in [Conn -> Seq(Event)] /\ k \in DOMAIN conns
          /\ WireOk(conns, handler, to_handler, fr)
      BY <1>4, <1>5
    <3>2. fr[conns[k].id] # <<>> /\ Reads(fr2, fr, conns[k].id)
      BY <2>1
    <3> HIDE DEF x
    <3> QED BY <3>1, <3>2, ReadKeeps
  <2>3. conns[k].id = c /\ e = Head(fr[c])
    BY <1>4 DEF fr, conns
  <2> HIDE DEF e
  <2> QED BY <2>2, <2>3 DEF ReadTo
<1>7. PICK s \in Views :
        /\ Step(conns[k].state, e, s)
        /\ s \in View => WireOk(Turn(conns, {c}, s), handler, to_handler, fr2)
        /\ s = "Lost" => handler[c].st = "Gone" /\ to_handler[c] = <<>> /\ fr2[c] = <<>>
  BY <1>6
<1>8. CASE s = "Lost"
  <2> DEFINE rest == RemoveAt(conns, k)
  <2>1. e = "ConnectionClosed"
    BY <1>5, <1>8, <1>7, LiveEntry DEF Step, View
  <2>2. o = inject_connection_closed(c, late)
    BY <2>1 DEF inject_event
  <2>3. Removed(rest, conns, k)
    BY <1>5, RemoveConnection DEF Removed
  <2> HIDE DEF o
  <2>4. Fine(o, rest)
    <3>1. rest = RemoveAt(peer.connections, k) /\ c = peer.connections[k].id
      BY <1>4
    <3> HIDE DEF rest
    <3> QED BY <1>1, <1>4, <2>2, <2>3, <3>1, ConnectionClosedFine
  <2> HIDE DEF rest, conns, fr2
  <2>5. handler[c] = Gone
    BY <1>5, <1>7, <1>8, HandlerCases
  <2>6. WireOk(rest, handler, to_handler, fr2)
    <3>1. c = conns[k].id /\ Reads(fr2, fr, c)
      BY <1>4 DEF Reads, fr2, conns
    <3>2. to_handler[c] = <<>> /\ fr2[c] = <<>>
      BY <1>7, <1>8
    <3> HIDE DEF fr
    <3>3. /\ conns \in Connections /\ fr \in [Conn -> Seq(Event)] /\ k \in DOMAIN conns
          /\ WireOk(conns, handler, to_handler, fr)
      BY <1>4, <1>5
    <3> QED BY <2>3, <2>5, <3>1, <3>2, <3>3, RemovedWired
  <2>7. rest \in Connections
    BY <2>3 DEF Removed
  <2> QED BY <1>2, <1>3, <1>6, <2>4, <2>6, <2>7, FineKeeps DEF o
<1>9. CASE s \in View
  <2> DEFINE t == Turn(conns, {c}, s)
  <2>1. e # "ConnectionClosed"
    BY <1>7, <1>9 DEF Step, View
  <2>2. t \in Connections
    BY <1>5, <1>9, TurnIs
  <2>3. ASSUME ~(peer.st = "Incoming" /\ e # "OpenDesiredByRemote"),
               ~(e = "CloseDesired" /\ peer.st = "Enabled" /\ conns[k].state \in {"Opening", "OpeningThenClosing"})
        PROVE  Fine(o, t)
    <3>1. c = peer.connections[k].id /\ t = Turn(peer.connections, {c}, s) /\ Step(peer.connections[k].state, e, s)
      BY <1>4, <1>7
    <3> HIDE DEF t, conns
    <3>2. CASE e = "OpenDesiredByRemote"
      <4>1. o = event_open_desired(c)
        BY <3>2 DEF inject_event
      <4> HIDE DEF o, e
      <4> QED BY <1>1, <1>2, <1>4, <1>9, <3>1, <3>2, <4>1, OpenDesiredFine DEF conns
    <3>3. CASE e = "CloseDesired"
      <4>1. o = event_close_desired(c)
        BY <3>3 DEF inject_event
      <4> HIDE DEF o, e
      <4> QED BY <1>1, <1>4, <1>9, <2>3, <3>1, <3>3, <4>1, CloseDesiredFine DEF conns
    <3>4. CASE e = "CloseResult"
      <4>1. o = event_close_result(c)
        BY <3>4 DEF inject_event
      <4> HIDE DEF o, e
      <4> QED BY <1>1, <1>4, <1>9, <2>3, <3>1, <3>4, <4>1, CloseResultFine DEF conns
    <3>5. CASE e = "OpenResultOk"
      <4>1. o = event_open_result_ok(c)
        BY <3>5 DEF inject_event
      <4> HIDE DEF o, e
      <4> QED BY <1>1, <1>4, <1>9, <2>3, <3>1, <3>5, <4>1, OpenResultOkFine DEF conns
    <3>6. CASE e = "OpenResultErr"
      <4>1. o = event_open_result_err(c)
        BY <3>6 DEF inject_event
      <4> HIDE DEF o, e
      <4> QED BY <1>1, <1>4, <1>9, <2>3, <3>1, <3>6, <4>1, OpenResultErrFine DEF conns
    <3>7. e \in {"OpenDesiredByRemote", "CloseDesired", "CloseResult", "OpenResultOk", "OpenResultErr"}
      BY <1>7, <2>1 DEF Step
    <3> QED BY <3>2, <3>3, <3>4, <3>5, <3>6, <3>7
  <2>4. WireOk(t, handler, to_handler, fr2)
    BY <1>7, <1>9
  <2>5. CASE Fine(o, t)
    <3> HIDE DEF t, o, fr2
    <3> QED BY <1>2, <1>3, <1>6, <2>2, <2>4, <2>5, FineKeeps DEF o
  <2>6. CASE \/ peer.st = "Incoming" /\ e # "OpenDesiredByRemote"
             \/ /\ e = "CloseDesired" /\ peer.st = "Enabled"
                /\ conns[k].state \in {"Opening", "OpeningThenClosing"}
    <3>1. e \in {"CloseDesired", "CloseResult", "OpenResultOk", "OpenResultErr"}
      BY <1>7, <2>1, <2>6 DEF Step
    <3>2. o.expected = FALSE /\ (GivenUp(c) \/ Overlaps(c))
      <4>1. c = peer.connections[k].id /\ Step(peer.connections[k].state, e, s) /\ e = Head(from_handler[c])
        BY <1>4, <1>7
      <4>2. o = inject_event(c, e, late)
        OBVIOUS
      <4> HIDE DEF o, e
      <4> QED BY <1>1, <1>4, <1>9, <2>6, <3>1, <4>1, <4>2, UnfitEvent
    <3>3. React(o)
      BY <1>3
    <3> HIDE DEF o
    <3>4. expected' = FALSE
      BY <3>2, <3>3 DEF React
    <3>5. from_handler[c] # <<>> /\ from_handler'[c] = Tail(from_handler[c])
      BY <1>2, <1>5
    <3> QED BY <3>2, <3>4, <3>5 DEF Unfit
  <2> QED BY <2>3, <2>5, <2>6
<1> QED BY <1>8, <1>9 DEF Views

-----------------------------------------------------------------------------
(* The invariant is inductive *)

\* At the start there are no connections.
LEMMA InitWire ==
  ASSUME Init
  PROVE  WireInv
<1>1. Gone \in Handlers /\ HandlerOk(Gone)
  BY DEF Gone, NewHandler, Handlers, HandlerOk
<1>2. <<>> \in Seq({"Open", "Close"}) /\ <<>> \in Seq(Event)
  OBVIOUS
<1>3. /\ handler = [c \in Conn |-> Gone] /\ to_handler = [c \in Conn |-> <<>>]
      /\ from_handler = [c \in Conn |-> <<>>] /\ peer = Absent
  BY DEF Init
<1>4. peer.connections = <<>>
  BY <1>3 DEF Absent, Entry
<1>5. DOMAIN <<>> = {}
  OBVIOUS
<1>6. WireOk(peer.connections, handler, to_handler, from_handler)
  BY <1>3, <1>4, <1>5 DEF WireOk
<1> HIDE DEF Gone
<1> QED BY <1>1, <1>2, <1>3, <1>6 DEF WireInv

\* At the start the manager has asked for the link, or not.
LEMMA InitManager ==
  ASSUME Init
  PROVE  ManagerInv
<1>1. connected \in SUBSET {link} /\ message_queue \in Orders(connected, {})
  BY LinkAssumption DEF Init, ContractInit
<1>2. \/ connected = {} /\ message_queue = <<>>
      \/ connected = {link} /\ message_queue = <<Connect(link)>>
  BY <1>1, OrdersAre
<1>3. peer.st = "None" /\ incoming_peers = {}
  BY DEF Init, Absent, Entry
<1>4. Connect(link) \in Messages /\ Connect(link).type = "Connect"
  BY DEF Messages, Connect
<1>5. DOMAIN <<>> = {} /\ <<>> \in Seq(Messages)
  OBVIOUS
<1>6. AnswerOk(message_queue, incoming_peers)
  <2>1. CASE message_queue = <<>>
    BY <1>5, <2>1 DEF AnswerOk, Answers
  <2>2. CASE message_queue = <<Connect(link)>>
    <3> DEFINE m == Connect(link)
    <3>1. m.type = "Connect"
      BY <1>4
    <3> HIDE DEF m
    <3>2. DOMAIN <<m>> = {1} /\ <<m>>[1] = m
      OBVIOUS
    <3>3. Answers(<<m>>) = {}
      BY <3>1, <3>2 DEF Answers
    <3> QED BY <2>2, <3>3 DEF AnswerOk, m
  <2> QED BY <1>2, <2>1, <2>2
<1>7. WantOk(peer.st, connected, message_queue) /\ message_queue \in Seq(Messages)
  <2>1. CASE connected = {} /\ message_queue = <<>>
    BY <1>3, <1>5, <2>1 DEF WantOk, Wanting, Requesting
  <2>2. CASE connected = {link} /\ message_queue = <<Connect(link)>>
    <3> DEFINE m == Connect(link)
    <3>1. m.type = "Connect" /\ m \in Messages
      BY <1>4
    <3> HIDE DEF m
    <3>2. DOMAIN <<m>> = {1} /\ <<m>>[1] = m /\ <<m>> \in Seq(Messages)
      BY <3>1
    <3>3. Wanting(<<m>>) = {1}
      BY <3>1, <3>2 DEF Wanting
    <3> QED BY <1>3, <2>2, <3>2, <3>3 DEF WantOk, Requesting, m
  <2> QED BY <1>2, <2>1, <2>2
<1>8. QuestionOk(peer.st, incoming_peers)
  BY <1>3 DEF QuestionOk
<1> QED BY <1>1, <1>3, <1>6, <1>7, <1>8 DEF ManagerInv

\* At the start there is no entry.
LEMMA InitEntry ==
  ASSUME Init
  PROVE  EntryInv
<1>1. peer = Absent /\ delays = {} /\ api = 0 /\ dialing = FALSE
  BY DEF Init
<1>2. peer \in Entries /\ peer.st = "None" /\ peer.connections = <<>>
  BY <1>1, NoConnections DEF Absent, Entry, Entries
<1> QED BY <1>1, <1>2 DEF EntryInv, EntryOk, ConnectionsOk, Waiting, is_open

\* The invariant holds at the start.
LEMMA IInvInit == Init => IInv
<1> SUFFICES ASSUME Init PROVE IInv
  OBVIOUS
<1>1. expected = TRUE
  BY DEF Init
<1> QED BY <1>1, InitWire, InitManager, InitEntry DEF IInv

\* A step that changes nothing keeps the invariant.
LEMMA StutterKeeps ==
  ASSUME IInv, UNCHANGED vars
  PROVE  IInv'
<1>1. /\ connected' = connected /\ message_queue' = message_queue /\ peer' = peer
      /\ incoming_peers' = incoming_peers /\ delays' = delays /\ api' = api /\ dialing' = dialing
      /\ expected' = expected /\ handler' = handler /\ to_handler' = to_handler
      /\ from_handler' = from_handler
  BY DEF vars, contractVars, networkVars, handlerVars
<1>2. WireInv'
  BY <1>1 DEF IInv, WireInv
<1>3. EntryInv'
  BY <1>1 DEF IInv, EntryInv
<1>4. ManagerInv'
  BY <1>1 DEF IInv, ManagerInv
<1> QED BY <1>1, <1>2, <1>3, <1>4 DEF IInv

\* Every step keeps the invariant, or reads an event that the code is not prepared for.
LEMMA IInvNext ==
  ASSUME IInv, [Next]_vars
  PROVE  IInv' \/ \E c \in Conn : Unfit(c)
<1>1. CASE poll_message
  BY <1>1, PollMessageKeeps
<1>2. CASE poll_drop
  BY <1>2, PollDropKeeps
<1>3. CASE ManagerConnects
  BY <1>3, ManagerConnectsKeeps
<1>4. CASE disconnect_peer
  BY <1>4, DisconnectKeeps
<1>5. ASSUME NEW t \in DelayId, poll_timer(t) PROVE IInv'
  BY <1>5, PollTimerKeeps
<1>6. CASE dial_elsewhere
  BY <1>6, DialElsewhereKeeps
<1>7. CASE dial_fails
  BY <1>7, DialFailsKeeps
<1>8. ASSUME NEW dialed \in BOOLEAN, connection_established(dialed) PROVE IInv'
  BY <1>8, EstablishedKeeps
<1>9. ASSUME NEW c \in Conn, deliver(c) PROVE IInv' \/ Unfit(c)
  BY <1>9, DeliverKeeps
<1>10. ASSUME NEW c \in Conn, connection_lost(c) PROVE IInv'
  BY <1>10, ConnectionLostKeeps
<1>11. ASSUME NEW c \in Conn, handler_inject_event(c) PROVE IInv'
  BY <1>11, HandlerInjectKeeps
<1>12. ASSUME NEW c \in Conn, outbound_ends(c) PROVE IInv'
  BY <1>12, OutboundEndsKeeps
<1>13. ASSUME NEW c \in Conn, remote_moves(c) PROVE IInv'
  BY <1>13, RemoteMovesKeeps
<1>14. CASE UNCHANGED vars
  BY <1>14, StutterKeeps
<1> QED
  BY <1>1, <1>2, <1>3, <1>4, <1>5, <1>6, <1>7, <1>8, <1>9, <1>10, <1>11, <1>12, <1>13, <1>14 DEF Next

\* A mismatch is not forgotten.
LEMMA MismatchLasts ==
  ASSUME [Next]_vars, expected'
  PROVE  expected
<1>1. ASSUME NEW o, React(o) PROVE expected
  BY <1>1 DEF React
<1>2. ASSUME NEW c, NEW r, NEW queue, Handle(c, r, queue) PROVE expected
  BY <1>2 DEF Handle
<1>3. CASE poll_message
  BY <1>1, <1>3 DEF poll_message, Network
<1>4. CASE poll_drop
  BY <1>4 DEF poll_drop
<1>5. CASE ManagerConnects
  BY <1>5 DEF ManagerConnects, networkVars
<1>6. CASE disconnect_peer
  BY <1>1, <1>6 DEF disconnect_peer, Network
<1>7. ASSUME NEW t \in DelayId, poll_timer(t) PROVE expected
  BY <1>1, <1>7 DEF poll_timer, Network
<1>8. CASE dial_elsewhere
  BY <1>8 DEF dial_elsewhere
<1>9. CASE dial_fails
  BY <1>1, <1>9 DEF dial_fails
<1>10. ASSUME NEW dialed \in BOOLEAN, connection_established(dialed) PROVE expected
  BY <1>1, <1>10 DEF connection_established
<1>11. ASSUME NEW c \in Conn, deliver(c) PROVE expected
  BY <1>1, <1>11 DEF deliver
<1>12. ASSUME NEW c \in Conn, connection_lost(c) PROVE expected
  BY <1>12 DEF connection_lost, networkVars
<1>13. ASSUME NEW c \in Conn, handler_inject_event(c) PROVE expected
  BY <1>2, <1>13 DEF handler_inject_event
<1>14. ASSUME NEW c \in Conn, outbound_ends(c) PROVE expected
  BY <1>2, <1>14 DEF outbound_ends
<1>15. ASSUME NEW c \in Conn, remote_moves(c) PROVE expected
  BY <1>2, <1>15 DEF remote_moves
<1>16. CASE UNCHANGED vars
  BY <1>16 DEF vars, networkVars
<1> QED
  BY <1>3, <1>4, <1>5, <1>6, <1>7, <1>8, <1>9, <1>10, <1>11, <1>12, <1>13, <1>14, <1>15, <1>16 DEF Next

\* The invariant, until the first mismatch.
BeforeInv == expected => IInv

\* Every step keeps it.
LEMMA BeforeInvNext ==
  ASSUME BeforeInv, [Next]_vars
  PROVE  BeforeInv'
<1> SUFFICES ASSUME expected' PROVE IInv'
  BY DEF BeforeInv
<1>1. IInv
  BY MismatchLasts DEF BeforeInv
<1>2. ~\E c \in Conn : Unfit(c)
  BY DEF Unfit
<1> QED BY <1>1, <1>2, IInvNext

\* Until the first mismatch the invariant holds of every state that the behaviour,
\* the handlers, the manager and libp2p reach together, whatever their interleaving.
THEOREM InvariantCorrect == Spec => []BeforeInv
<1>1. Init => BeforeInv
  BY IInvInit DEF BeforeInv
<1>2. BeforeInv /\ [Next]_vars => BeforeInv'
  BY BeforeInvNext
<1> QED BY <1>1, <1>2, PTL DEF Spec

-----------------------------------------------------------------------------
(* What the invariant says *)

\* Agreement, of every state of the invariant.
LEMMA AgreementHolds ==
  ASSUME IInv
  PROVE  Agreement
<1> SUFFICES ASSUME message_queue = <<>>
             PROVE  link \in connected <=> is_requested(peer)
  BY DEF Agreement
<1>1. Wanting(message_queue) = {}
  BY DEF Wanting
<1>2. WantOk(peer.st, connected, message_queue)
  BY DEF IInv, ManagerInv
<1> QED BY <1>1, <1>2 DEF WantOk, is_requested, Requesting

\* ApiFollows, of every state of the invariant.
LEMMA ApiFollowsHolds ==
  ASSUME IInv
  PROVE  ApiFollows
BY DEF IInv, EntryInv, EntryOk, ApiFollows

\* RequestUnderWay, of every state of the invariant.
LEMMA RequestIsUnderWay ==
  ASSUME IInv
  PROVE  RequestUnderWay
<1>1. EntryOk(peer, delays, dialing, api) /\ QuestionOk(peer.st, incoming_peers)
  BY DEF IInv, EntryInv, ManagerInv
<1>2. /\ peer.st \in {"Backoff", "PendingRequest", "DisabledPendingEnable"} => peer.timer \in delays
      /\ peer.st = "Requested" => dialing
  BY <1>1 DEF EntryOk, Waiting
<1>3. /\ peer.st = "Enabled" => Some(peer.connections, Active)
      /\ peer.st = "Incoming" => Some(peer.connections, {"OpenDesiredByRemote"})
  BY <1>1 DEF EntryOk, ConnectionsOk
<1>4. ASSUME peer.st = "Incoming" PROVE Cardinality(Alive) = 1
  <2>1. PICK e \in incoming_peers : e.alive
    BY <1>1, <1>4 DEF QuestionOk
  <2>2. Alive = {e}
    BY <1>1, <2>1 DEF QuestionOk, Alive
  <2> QED BY <2>2, FS_Singleton
<1> QED BY <1>2, <1>3, <1>4 DEF RequestUnderWay

\* HandlersAgree, of every state of the invariant.
LEMMA HandlersDoAgree ==
  ASSUME IInv
  PROVE  HandlersAgree
<1> SUFFICES ASSUME NEW k \in DOMAIN peer.connections,
                    to_handler[peer.connections[k].id] = <<>>, from_handler[peer.connections[k].id] = <<>>
             PROVE  peer.connections[k].state = handler[peer.connections[k].id].st
  BY DEF HandlersAgree
<1> DEFINE c == peer.connections[k].id
           s == peer.connections[k].state
<1>1. Wired(s, handler[c].st, to_handler[c], from_handler[c])
  BY DEF IInv, WireInv, WireOk
<1>2. s \in View
  BY LiveEntry, ConnectionsAre DEF IInv
<1>3. to_handler[c] = <<>> /\ from_handler[c] = <<>>
  OBVIOUS
<1> HIDE DEF c, s
<1>4. PICK q \in Views : Leads(s, <<>>, q) /\ Settled(q, <<>>, handler[c].st)
  BY <1>1, <1>3 DEF Wired
<1>5. q = s
  BY <1>2, <1>4, LeadsNowhere DEF Views
<1>6. s = handler[c].st
  BY <1>2, <1>4, <1>5 DEF Settled, View
<1> QED BY <1>6 DEF c, s

-----------------------------------------------------------------------------
(* The theorems *)

\* However the tasks of the network and of the connections, the manager and
\* libp2p interleave, an event finds an entry of `peers`, a connection or a
\* handler in a state that behaviour.rs or handler.rs does not expect, or a drop
\* is reported of a link that is not connected, in two cases only: the remote has
\* given up a substream before it was answered, or it has asked for one while
\* another connection of the link was closing.
THEOREM MismatchesKnownCorrect == Spec => MismatchesKnown
<1> DEFINE Unready(c) == /\ from_handler[c] # <<>> /\ from_handler'[c] = Tail(from_handler[c])
                         /\ GivenUp(c) \/ Overlaps(c)
           Known == expected /\ ~expected' => \E c \in Conn : Unready(c)
<1>1. BeforeInv /\ [Next]_vars => Known
  <2> SUFFICES ASSUME BeforeInv, [Next]_vars, expected, ~expected' PROVE \E c \in Conn : Unready(c)
    OBVIOUS
  <2>1. IInv /\ ~IInv'
    BY DEF BeforeInv, IInv
  <2>2. PICK c \in Conn : Unfit(c)
    BY <2>1, IInvNext
  <2> QED BY <2>2 DEF Unfit
<1>2. BeforeInv /\ [Next]_vars => [Known]_vars
  BY <1>1
<1> QED BY <1>2, InvariantCorrect, PTL DEF Spec, MismatchesKnown

\* Until a mismatch, and once its messages are read, the manager considers the
\* link connected exactly when the entry is one that is_requested() holds of.
THEOREM AgreementCorrect == Spec => []Agreement
<1>1. BeforeInv => Agreement
  BY AgreementHolds DEF BeforeInv, Agreement
<1> QED BY <1>1, InvariantCorrect, PTL

\* Until a mismatch the users hold some sink exactly as long as a connection of
\* an enabled link is open: each CustomProtocolOpen is followed by its
\* CustomProtocolClosed.
THEOREM ApiFollowsCorrect == Spec => []ApiFollows
<1>1. BeforeInv => ApiFollows
  BY ApiFollowsHolds DEF BeforeInv, ApiFollows
<1> QED BY <1>1, InvariantCorrect, PTL

\* Until a mismatch, what an entry waits for is under way: its delay, the dial, an
\* open or opening substream, exactly one question to the manager; these are the
\* debug_asserts of behaviour.rs about Enabled and Incoming entries.
THEOREM RequestUnderWayCorrect == Spec => []RequestUnderWay
<1>1. BeforeInv => RequestUnderWay
  BY RequestIsUnderWay DEF BeforeInv, RequestUnderWay
<1> QED BY <1>1, InvariantCorrect, PTL

\* Until a mismatch, and once no message between a handler and the behaviour is
\* under way, the ConnectionState that the behaviour keeps is the state of the
\* handler.
THEOREM HandlersAgreeCorrect == Spec => []HandlersAgree
<1>1. BeforeInv => HandlersAgree
  BY HandlersDoAgree DEF BeforeInv, HandlersAgree
<1> QED BY <1>1, InvariantCorrect, PTL
=============================================================================
