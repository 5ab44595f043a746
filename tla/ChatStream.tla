------------------------------ MODULE ChatStream ------------------------------
(***************************************************************************)
(* The Chat Completions dialect: src/internal/serialization/to_openai.go   *)
(* and the client's side of it.                                            *)
(***************************************************************************)
EXTENDS ClientMessage

ChatState == [next |-> 0, indexOf |-> <<>>, idOf |-> <<>>]

ChatWire(type, index, id, name, data, reason) ==
  [type |-> type, index |-> index, id |-> id, name |-> name, data |-> data, reason |-> reason]

\* Slip: the canonical reason goes out as it is.
ChatReasonAsItIs(reason) == reason

ChatReason(reason) ==
  CASE reason = "max_tokens" -> "length"
    [] reason = "tool_use" -> "tool_calls"
    [] reason = "content_filter" -> "content_filter"
    [] OTHER -> "stop"

Numbered(s, i, id) ==
  [next |-> s.next + 1, indexOf |-> With(s.indexOf, i, s.next), idOf |-> With(s.idOf, i, id)]

\* [state, wire]: a call is announced once per index and identifier, in a chunk
\* without arguments.
ChatDelta(s, e) ==
  LET known == e.index \in DOMAIN s.idOf /\ s.idOf[e.index] = e.block.id
      call == IF e.index \in DOMAIN s.indexOf THEN s.indexOf[e.index] ELSE s.next - 1
      say(w) == [state |-> s, wire |-> <<w>>]
      tool == e.block # None /\ e.block.kind = "tool"
  IN IF tool /\ ~known
     THEN [state |-> Numbered(s, e.index, e.block.id),
           wire |-> <<ChatWire("tool", s.next, e.block.id, e.block.name, <<>>, None)>>]
     ELSE IF e.delta \in {"text", "thinking"} THEN
       say(ChatWire("content", None, None, None, e.data, None))
     ELSE IF e.delta = "arguments" /\ ~(tool /\ e.data = <<>>) THEN
       say(ChatWire("arguments", call, None, None, e.data, None))
     ELSE [state |-> s, wire |-> <<>>]

ChatEvent(s, e) ==
  CASE e.type = "stream_start" ->
         [state |-> ChatState, wire |-> <<ChatWire("role", None, None, None, <<>>, None)>>]
    [] e.type = "content_delta" -> ChatDelta(s, e)
    [] e.type = "stream_end" ->
         [state |-> s, wire |-> <<ChatWire("finish", None, None, None, <<>>, ChatReason(e.reason)),
                                  ChatWire("done", None, None, None, <<>>, None)>>]
    [] e.type = "stream_error" ->
         [state |-> s, wire |-> <<ChatWire("error", None, None, None, <<>>, None)>>]
    [] OTHER -> [state |-> s, wire |-> <<>>]

\* A whole response as one completion.
ChatResponse(response) ==
  LET content == response.content
      text == DataOf(content, "text")
      calls == Calls(content)
      blocks == (IF text = <<>> THEN <<>> ELSE <<NewBlock("text", None, None, text)>>)
                \o [i \in DOMAIN calls |-> NewBlock("tool", calls[i].id, calls[i].name, calls[i].data)]
      reason == IF calls # <<>> THEN "tool_use"
                ELSE IF response.reason = "tool_use" THEN "end_turn" ELSE response.reason
  IN ClosedAll([phase |-> "done", blocks |-> blocks, reason |-> ChatReason(reason), failed |-> FALSE])

-----------------------------------------------------------------------------
\* The client: content is one string, calls are addressed by their number.
ChatRead(m, w) ==
  CASE w.type = "role" -> Started(m)
    [] w.type = "content" ->
         IF CountOf(m, "text") = 0 THEN Opened(m, NewBlock("text", None, None, w.data))
         ELSE Grown(m, NthOf(m, "text", 1), w.data)
    [] w.type = "tool" ->
         IF w.index = CountOf(m, "tool") THEN Opened(m, NewBlock("tool", w.id, w.name, <<>>))
         ELSE Break(m)
    [] w.type = "arguments" ->
         IF w.index \in 0..(CountOf(m, "tool") - 1) THEN Grown(m, NthOf(m, "tool", w.index + 1), w.data)
         ELSE Break(m)
    [] w.type = "finish" ->
         IF m.phase = "open" THEN [ClosedAll(m) EXCEPT !.phase = "concluded", !.reason = w.reason]
         ELSE Break(m)
    [] w.type = "done" -> IF m.phase = "concluded" THEN [m EXCEPT !.phase = "done"] ELSE Break(m)
    [] OTHER -> Failed(m)
=============================================================================
