---------------------------- MODULE ResponsesStream ----------------------------
(***************************************************************************)
(* The Responses dialect: src/internal/serialization/to_responses.go and   *)
(* the client's side of it.                                                *)
(*                                                                         *)
(* The output is a list of items.  All text and thinking goes into one     *)
(* message item, in content blocks numbered in the order of their first    *)
(* announcement; every call is an item of its own.                         *)
(***************************************************************************)
EXTENDS ClientMessage

\* message is the position of the message item; contents maps a provider's block
\* index to its content block, tools to its item; texts holds the content blocks.
ResponsesState ==
  [message |-> None, contents |-> <<>>, texts |-> <<>>, closed |-> {}, tools |-> <<>>,
   items |-> <<>>]

ResponsesWire(type, index, content, item, data, reason) ==
  [type |-> type, index |-> index, content |-> content, item |-> item, data |-> data,
   reason |-> reason]

\* Wire events about the item at an index, and about a content block of the message.
ItemWire(type, index, item) == ResponsesWire(type, index, None, item, <<>>, None)
DataWire(type, index, data) == ResponsesWire(type, index, None, None, data, None)
ContentWire(type, s, content, data) == ResponsesWire(type, s.message, content, None, data, None)

\* Content blocks are numbered by the size of contents; a delta may come for a
\* number that is not announced.
Contents(s) == 0..(Cardinality(DOMAIN s.contents) - 1)
TextAt(s, content) == IF content \in DOMAIN s.texts THEN s.texts[content] ELSE <<>>

MessageItem == Part("message", None, None, <<>>)

\* A block of text or thinking is announced.
TextAnnouncement(s, i) ==
  LET first == s.message = None
      t == IF first THEN [s EXCEPT !.message = Len(s.items), !.items = Append(@, MessageItem)] ELSE s
      known == i \in DOMAIN s.contents
      at == Cardinality(DOMAIN s.contents)
  IN [state |-> IF known THEN t
                ELSE [t EXCEPT !.contents = With(@, i, at)],
      wire |-> (IF first THEN <<ItemWire("output_item.added", t.message, MessageItem)>> ELSE <<>>)
               \o IF known THEN <<>> ELSE <<ContentWire("content_block.added", t, at, <<>>)>>]

CallAnnouncement(s, i, block) ==
  LET item == Part("tool", block.id, block.name, <<>>)
  IN IF i \in DOMAIN s.tools /\ s.items[s.tools[i] + 1].id = block.id
     THEN [state |-> s, wire |-> <<>>]
     ELSE [state |-> [s EXCEPT !.tools = With(@, i, Len(s.items)), !.items = Append(@, item)],
           wire |-> <<ItemWire("output_item.added", Len(s.items), item)>>]

\* A delta, after the announcement.
ResponsesDelta(s, e) ==
  LET a == IF e.block = None THEN [state |-> s, wire |-> <<>>]
           ELSE IF e.block.kind = "tool" THEN CallAnnouncement(s, e.index, e.block)
           ELSE TextAnnouncement(s, e.index)
      t == a.state
      content == IF e.index \in DOMAIN t.contents THEN t.contents[e.index] ELSE 0
      call == e.index \in DOMAIN t.tools
  IN CASE e.delta \in {"text", "thinking"} ->
            [state |-> [t EXCEPT !.texts = With(@, content, TextAt(t, content) \o e.data)],
             wire |-> Append(a.wire, ContentWire("output_text.delta", t, content, e.data))]
       [] e.delta \in {"arguments", "input"} /\ call ->
            [state |-> [t EXCEPT !.items[t.tools[e.index] + 1].data = @ \o e.data],
             wire |-> Append(a.wire, DataWire("arguments.delta", t.tools[e.index], e.data))]
       [] OTHER -> a

\* The end of a content block, unless it was ended before.
ContentDone(s, content) ==
  IF content \in s.closed THEN <<>>
  ELSE <<ContentWire("content_block.done", s, content, TextAt(s, content)),
         ContentWire("output_text.done", s, content, TextAt(s, content))>>

BlockStop(s, i) ==
  IF i \notin DOMAIN s.contents THEN [state |-> s, wire |-> <<>>]
  ELSE [state |-> [s EXCEPT !.closed = @ \cup {s.contents[i]}],
        wire |-> ContentDone(s, s.contents[i])]

\* At the end: open content blocks, then the message item, then every call, each
\* with its complete data, and the whole output once more.
StreamDone(s) ==
  LET item(k) == IF s.items[k].kind = "message" THEN <<>>
                 ELSE <<DataWire("arguments.done", k - 1, s.items[k].data),
                        ItemWire("output_item.done", k - 1, s.items[k])>>
      text == FlattenSeq([k \in 1..Cardinality(Contents(s)) |-> TextAt(s, k - 1)])
      output == [k \in DOMAIN s.items |->
                   IF s.items[k].kind = "message" THEN [s.items[k] EXCEPT !.data = text]
                   ELSE s.items[k]]
  IN FlattenSeq([k \in 1..Cardinality(Contents(s)) |-> ContentDone(s, k - 1)])
     \o (IF s.message = None THEN <<>>
         ELSE <<ItemWire("output_item.done", s.message, output[s.message + 1])>>)
     \o FlattenSeq([k \in DOMAIN s.items |-> item(k)])
     \o <<ResponsesWire("completed", None, None, output, <<>>, "completed")>>

\* An upstream error says nothing to the client in this dialect.
ResponsesEvent(s, e) ==
  CASE e.type = "stream_start" ->
         [state |-> ResponsesState,
          wire |-> <<ResponsesWire("created", None, None, None, <<>>, None)>>]
    [] e.type = "content_delta" -> ResponsesDelta(s, e)
    [] e.type = "content_block_stop" -> BlockStop(s, e.index)
    [] e.type = "stream_end" ->
         [state |-> [s EXCEPT !.closed = Contents(s)], wire |-> StreamDone(s)]
    [] OTHER -> [state |-> s, wire |-> <<>>]

\* A whole response: the message item first, then the calls.
ResponsesStatus(reason) ==
  IF reason \in {"max_tokens", "content_filter"} THEN "incomplete" ELSE "completed"

ResponsesResponse(response) ==
  LET text == SelectSeq(response.content, LAMBDA p : p.kind # "tool")
      calls == Calls(response.content)
  IN ClosedAll([phase |-> "done", reason |-> ResponsesStatus(response.reason), failed |-> FALSE,
                blocks |-> [i \in DOMAIN text |-> NewBlock("text", None, None, text[i].data)]
                           \o [i \in DOMAIN calls |->
                                 NewBlock("tool", calls[i].id, calls[i].name, calls[i].data)]])

-----------------------------------------------------------------------------
\* The client.  A block of its message is a content block or a call; items are
\* addressed by output index, so the client keeps which block it made of which.
ResponsesReader == [items |-> <<>>, contents |-> <<>>]

\* The block an event is about, 0 if there is none.
About(r, w) ==
  LET f == IF w.content = None THEN r.items ELSE r.contents
      i == IF w.content = None THEN w.index ELSE w.content
  IN IF i \in DOMAIN f THEN f[i] ELSE 0

ResponsesNotes(r, m, w) ==
  CASE w.type = "output_item.added" /\ w.item.kind = "tool" ->
         [r EXCEPT !.items = With(@, w.index, Len(m.blocks) + 1)]
    [] w.type = "content_block.added" ->
         [r EXCEPT !.contents = With(@, w.content, Len(m.blocks) + 1)]
    [] OTHER -> r

\* What the final output must be: the calls and all of the text, as they came.
Agrees(m, output) ==
  /\ CallsOf(output) = CallsOf(m.blocks)
  /\ DataOf(output, "message") = DataOf(m.blocks, "text")

ResponsesRead(r, m, w) ==
  LET at == About(r, w)
      same == at \in DOMAIN m.blocks /\ m.blocks[at].data = w.data
  IN CASE w.type = "created" -> Started(m)
       [] w.type = "output_item.added" ->
            IF w.item.kind = "message" THEN m
            ELSE Opened(m, NewBlock("tool", w.item.id, w.item.name, <<>>))
       [] w.type = "content_block.added" -> Opened(m, NewBlock("text", None, None, <<>>))
       [] w.type \in {"output_text.delta", "arguments.delta"} -> Grown(m, at, w.data)
       [] w.type \in {"content_block.done", "arguments.done"} -> IF same THEN m ELSE Break(m)
       [] w.type = "output_text.done" -> IF same THEN Closed(m, at) ELSE Break(m)
       [] w.type = "output_item.done" ->
            IF w.item.kind = "message" THEN m ELSE Closed(m, at)
       [] OTHER ->
            IF m.phase = "open" /\ AllClosed(m) /\ Agrees(m, w.item)
            THEN [m EXCEPT !.phase = "done", !.reason = w.reason] ELSE Break(m)
=============================================================================
