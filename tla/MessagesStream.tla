---------------------------- MODULE MessagesStream ----------------------------
(***************************************************************************)
(* The Anthropic Messages dialect:                                         *)
(* src/internal/serialization/to_anthropic.go and the client's side of it. *)
(***************************************************************************)
EXTENDS ClientMessage

\* open maps a provider's block index to the block announced to the client.
MessagesState(suppress) ==
  [started |-> FALSE, next |-> 0, open |-> <<>>, order |-> <<>>,
   suppress |-> suppress, suppressing |-> None]

MessagesWire(type, index, block, data, reason) ==
  [type |-> type, index |-> index, block |-> block, data |-> data, reason |-> reason]

StopWire(index) == MessagesWire("content_block_stop", index, None, <<>>, None)

OpenAt(s, i) == IF i \in DOMAIN s.open THEN s.open[i] ELSE None

OpenedAt(s, i, kind) ==
  [s EXCEPT !.open = With(@, i, [at |-> s.next, kind |-> kind]),
            !.order = IF i \in DOMAIN s.open THEN @ ELSE Append(@, i),
            !.next = @ + 1]

ClosedAt(s, i) ==
  [s EXCEPT !.open = Without(@, {i}),
            !.order = Picked(@, {k \in DOMAIN @ : @[k] # i})]

\* Slip: the block announced first is left open.
CloseAllButFirst(s) ==
  [k \in 1..(Len(s.order) - 1) |-> StopWire(s.open[s.order[k + 1]].at)]

\* Every open block is stopped, in the order of their announcement.
CloseAllWires(s) == [k \in DOMAIN s.order |-> StopWire(s.open[s.order[k]].at)]
CloseAll(s) == [s EXCEPT !.open = <<>>, !.order = <<>>]

\* Thinking is withheld from clients that did not ask for it: the block, and the
\* deltas at its index until something else arrives there.
Withheld(s, e) ==
  /\ s.suppress
  /\ \/ e.block # None /\ e.block.kind = "thinking"
     \/ s.suppressing = e.index /\ e.delta = "thinking"

Suppressing(s, e) ==
  IF ~s.suppress THEN s
  ELSE IF e.block # None /\ e.block.kind = "thinking" THEN [s EXCEPT !.suppressing = e.index]
  ELSE IF s.suppressing = e.index /\ e.delta # "thinking" THEN [s EXCEPT !.suppressing = None]
  ELSE s

\* A block is announced when its index has no open block of its kind; a block of
\* another kind at the index is stopped first.
Announcement(s, e) ==
  LET old == OpenAt(s, e.index)
      t == IF old = None THEN s ELSE ClosedAt(s, e.index)
  IN IF e.block = None \/ (old # None /\ old.kind = e.block.kind)
     THEN [state |-> s, wire |-> <<>>]
     ELSE [state |-> OpenedAt(t, e.index, e.block.kind),
           wire |-> (IF old = None THEN <<>> ELSE <<StopWire(old.at)>>)
                    \o <<MessagesWire("content_block_start", s.next, e.block, <<>>, None)>>]

\* Deltas go to the block that owns their index.
MessagesDelta(s, e) ==
  LET a == Announcement(Suppressing(s, e), e)
      target == OpenAt(a.state, e.index)
  IN IF Withheld(s, e) THEN [state |-> Suppressing(s, e), wire |-> <<>>]
     ELSE [state |-> a.state,
           wire |-> a.wire \o
                    IF target = None \/ e.delta \notin {"text", "thinking", "arguments"} THEN <<>>
                    ELSE <<MessagesWire("content_block_delta", target.at, e.delta, e.data, None)>>]

MessagesReason(reason) == IF reason \in StopReasons THEN reason ELSE "end_turn"

Terminal(reason) ==
  <<MessagesWire("message_delta", None, None, <<>>, MessagesReason(reason)),
    MessagesWire("message_stop", None, None, <<>>, None)>>

MessagesEvent(s, e) ==
  CASE e.type = "stream_start" ->
         [state |-> [MessagesState(s.suppress) EXCEPT !.started = TRUE],
          wire |-> <<MessagesWire("message_start", None, None, <<>>, None)>>]
    [] e.type = "content_delta" -> MessagesDelta(s, e)
    [] e.type = "content_block_stop" ->
         IF OpenAt(s, e.index) = None THEN [state |-> s, wire |-> <<>>]
         ELSE [state |-> ClosedAt(s, e.index), wire |-> <<StopWire(s.open[e.index].at)>>]
    [] e.type = "stream_end" ->
         [state |-> CloseAll(s), wire |-> CloseAllWires(s) \o Terminal(e.reason)]
    [] OTHER ->
         [state |-> s, wire |-> <<MessagesWire("error", None, None, <<>>, None)>>]

\* What closes a stream without a terminal event; nothing if it never began.
Finalize(s) ==
  IF ~s.started THEN [state |-> s, wire |-> <<>>]
  ELSE [state |-> [CloseAll(s) EXCEPT !.started = FALSE],
        wire |-> CloseAllWires(s) \o Terminal("end_turn")]

\* A whole response as one message.
MessagesResponse(response, suppress) ==
  LET content == SelectSeq(response.content, LAMBDA p : ~(suppress /\ p.kind = "thinking"))
      reason == IF response.reason = "tool_use" /\ Calls(content) = <<>> THEN "end_turn"
                ELSE response.reason
  IN ClosedAll([phase |-> "done", reason |-> MessagesReason(reason), failed |-> FALSE,
                blocks |-> [i \in DOMAIN content |->
                              NewBlock(content[i].kind, content[i].id, content[i].name,
                                       content[i].data)]])

-----------------------------------------------------------------------------
\* The client: blocks are numbered from 0 in the order of their start.
MessagesRead(m, w) ==
  CASE w.type = "message_start" -> Started(m)
    [] w.type = "content_block_start" ->
         IF w.index = Len(m.blocks)
         THEN Opened(m, NewBlock(w.block.kind, w.block.id, w.block.name, <<>>))
         ELSE Break(m)
    [] w.type = "content_block_delta" ->
         LET kind == IF w.block = "arguments" THEN "tool" ELSE w.block
         IN IF w.index + 1 \in DOMAIN m.blocks /\ m.blocks[w.index + 1].kind = kind
            THEN Grown(m, w.index + 1, w.data) ELSE Break(m)
    [] w.type = "content_block_stop" -> Closed(m, w.index + 1)
    [] w.type = "message_delta" ->
         IF m.phase = "open" /\ AllClosed(m)
         THEN [m EXCEPT !.phase = "concluded", !.reason = w.reason] ELSE Break(m)
    [] w.type = "message_stop" ->
         IF m.phase = "concluded" THEN [m EXCEPT !.phase = "done"] ELSE Break(m)
    [] OTHER -> Failed(m)
=============================================================================
