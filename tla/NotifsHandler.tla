--------------------------- MODULE NotifsHandler ---------------------------
(***************************************************************************)
(* The handler of one connection, for one notifications protocol           *)
(* (client/network/src/protocol/generic_proto/handler.rs): it opens and    *)
(* closes the substreams when the behaviour asks for it, and says what the *)
(* remote desires.  The handshake and the notifications themselves, and    *)
(* the inbound substream once the handler is opening, are left out: they   *)
(* change no state that the behaviour sees.                                *)
(*                                                                         *)
(* Every operator takes the handler and gives what it becomes, the events  *)
(* it emits, and whether the code was prepared for what it met.            *)
(***************************************************************************)
EXTENDS Naturals, Sequences

\* A new handler.  st is Closed, OpenDesiredByRemote, Opening or Open.
\* pending_opening: a request for an outbound substream that the handler has no
\* use for is under way.  out_substream: the outbound substream of an open
\* handler works.  requests: outbound requests without an outcome.
NewHandler == [st |-> "Closed", pending_opening |-> FALSE, out_substream |-> FALSE, requests |-> 0]

\* h with the state st.
Become(h, st, pending) ==
  [h EXCEPT !.st = st, !.pending_opening = pending, !.out_substream = (st = "Open")]

Emit(h, events) == [handler |-> h, events |-> events, expected |-> TRUE]

Unexpected(h) == [handler |-> h, events |-> <<>>, expected |-> FALSE]

-----------------------------------------------------------------------------
(* What the remote does                                                     *)

\* The remote opens a substream.  In the other states it has no effect, but for
\* the inbound substream itself.
inject_fully_negotiated_inbound(h) ==
  IF h.st = "Closed"
  THEN Emit(Become(h, "OpenDesiredByRemote", h.pending_opening), <<"OpenDesiredByRemote">>)
  ELSE Emit(h, <<>>)

\* A request that nobody waits for has ended.
Unwanted(h) ==
  [Emit([h EXCEPT !.pending_opening = FALSE], <<>>) EXCEPT !.expected = h.pending_opening]

\* An outbound request succeeds.
inject_fully_negotiated_outbound(handler) ==
  LET h == [handler EXCEPT !.requests = @ - 1] IN
  CASE h.st \in {"Closed", "OpenDesiredByRemote"} -> Unwanted(h)
    [] h.st = "Opening" -> Emit(Become(h, "Open", FALSE), <<"OpenResultOk">>)
    [] h.st = "Open"    -> Unexpected(h)

\* An outbound request fails or times out.
inject_dial_upgrade_error(handler) ==
  LET h == [handler EXCEPT !.requests = @ - 1] IN
  CASE h.st \in {"Closed", "OpenDesiredByRemote"} -> Unwanted(h)
    [] h.st = "Opening" -> Emit(Become(h, "Closed", FALSE), <<"OpenResultErr">>)
    [] h.st = "Open"    -> Unexpected(h)

\* The inbound substream ends before the behaviour has decided about it.
poll_inbound_aborted(h) == Emit(Become(h, "Closed", h.pending_opening), <<"CloseDesired">>)

\* The remote closes the outbound substream.
poll_outbound_closed(h) == Emit([h EXCEPT !.out_substream = FALSE], <<"CloseDesired">>)

\* A legacy substream ends after the outbound substream has.
poll_legacy_closed(h) == Emit(h, <<"CloseDesired">>)

-----------------------------------------------------------------------------
(* What the behaviour asks for                                              *)

inject_open(h) ==
  IF h.st \in {"Closed", "OpenDesiredByRemote"}
  THEN Emit([Become(h, "Opening", FALSE) EXCEPT !.requests = IF h.pending_opening THEN @ ELSE @ + 1],
            <<>>)
  ELSE Unexpected(h)

inject_close(h) ==
  CASE h.st = "Open"    -> Emit(Become(h, "Closed", FALSE), <<"CloseResult">>)
    [] h.st = "Opening" -> Emit(Become(h, "Closed", TRUE), <<"OpenResultErr", "CloseResult">>)
    [] OTHER            -> Emit(Become(h, "Closed", h.pending_opening), <<"CloseResult">>)
=============================================================================
