------------------------------ MODULE Upstreams ------------------------------
(***************************************************************************)
(* The parsers of upstream streams: what each makes of one chunk.          *)
(*                                                                         *)
(* A chunk of several choices' worth of fields (text and two tool calls,   *)
(* say) is what the parsers make of the same fields one by one, and is     *)
(* sent as several chunks here, but for a chat chunk with a finish reason: *)
(* its delta, which may be text, a call or arguments, comes with it in     *)
(* index, id, name and data.  Token counts, signatures and the metadata of *)
(* the stream are left out.                                                *)
(***************************************************************************)
EXTENDS Canonical

Chunk(kind, index, id, name, data, reason) ==
  [kind |-> kind, index |-> index, id |-> id, name |-> name, data |-> data, reason |-> reason]

Parsed(p, events) == [parser |-> p, events |-> events]

-----------------------------------------------------------------------------
\* Chat completion chunks.  next is contentBlockIndex; tools maps the provider's
\* tool index to the block index; pendingStop is used by openaicompat alone.
OpenAIParser ==
  [started |-> FALSE, done |-> FALSE, next |-> 0, tools |-> <<>>, thinking |-> FALSE,
   pendingStop |-> None]

OpenAIStopReason(reason) ==
  CASE reason = "length" -> "max_tokens"
    [] reason = "tool_calls" -> "tool_use"
    [] reason = "content_filter" -> "content_filter"
    [] OTHER -> "end_turn"

\* Slip: the stop reason of the upstream is passed on as it is.
NotUpgraded(p, reason) == reason

\* The stop reason once tool calls were seen.
Upgraded(p, reason) == IF p.tools # <<>> THEN "tool_use" ELSE reason

ThinkingIndex == -1

\* The delta of a chunk.
OpenAIDelta(p, c) ==
  CASE c.kind = "reasoning" ->
         Parsed([p EXCEPT !.thinking = TRUE],
                <<ContentDelta(ThinkingIndex, IF p.thinking THEN None ELSE ThinkingPart(<<>>),
                               "thinking", c.data)>>)
    [] c.kind = "text" ->
         Parsed(p, <<ContentDelta(p.next, TextPart(<<>>), "text", c.data)>>)
    [] c.kind = "tool" ->
         Parsed([p EXCEPT !.next = @ + 1, !.tools = With(@, c.index, p.next + 1)],
                <<ContentDelta(p.next + 1, ToolCallPart(c.id, c.name, <<>>), "arguments", <<>>)>>
                \o IF c.data = <<>> THEN <<>>
                   ELSE <<ContentDelta(p.next + 1, None, "arguments", c.data)>>)
    [] c.kind = "arguments" /\ c.index \in DOMAIN p.tools ->
         Parsed(p, <<ContentDelta(p.tools[c.index], None, "arguments", c.data)>>)
    [] OTHER -> Parsed(p, <<>>)

\* The first chunk that is not [DONE] opens the stream.
Opening(p) == IF p.started THEN <<>> ELSE <<StreamStart>>

\* A finish reason is looked at before the delta of its chunk and ends the parsing: what
\* that delta says is lost, and the calls that it opens are not counted.
OpenAIChunk(p, c) ==
  LET q == [p EXCEPT !.started = TRUE]
      d == OpenAIDelta(q, c)
  IN CASE c.kind = "done" ->
            Parsed([p EXCEPT !.done = TRUE], <<StreamEnd(Upgraded(p, "end_turn"))>>)
       [] c.kind = "finish" ->
            Parsed([q EXCEPT !.done = TRUE],
                   Append(Opening(p), StreamEnd(Upgraded(p, OpenAIStopReason(c.reason)))))
       [] OTHER -> Parsed(d.parser, Opening(p) \o d.events)

\* Copilot's copy of the parser has no reasoning.
CopilotChunk(p, c) ==
  IF c.kind = "reasoning" THEN Parsed([p EXCEPT !.started = TRUE], Opening(p))
  ELSE OpenAIChunk(p, c)

\* openaicompat waits for [DONE] before it ends the stream; it passes over the delta that
\* comes with a finish reason too.
CompatChunk(p, c) ==
  LET q == [p EXCEPT !.started = TRUE]
      d == OpenAIDelta(q, c)
  IN CASE c.kind = "done" ->
            Parsed([p EXCEPT !.done = TRUE],
                   <<StreamEnd(IF p.pendingStop # None THEN p.pendingStop
                               ELSE Upgraded(p, "end_turn"))>>)
       [] c.kind = "finish" ->
            Parsed([q EXCEPT !.pendingStop = Upgraded(p, OpenAIStopReason(c.reason))], Opening(p))
       [] OTHER -> Parsed(d.parser, Opening(p) \o d.events)

-----------------------------------------------------------------------------
\* Responses events.  Items carry an output index; arguments and texts come as
\* deltas and once more, complete, in a "done" event.
ResponsesParser ==
  [started |-> FALSE, done |-> FALSE, next |-> 0, tools |-> <<>>, texts |-> <<>>,
   argued |-> {}, spoken |-> {}]

Announce(p, c) ==
  IF c.index \in DOMAIN p.tools THEN Parsed(p, <<>>)
  ELSE Parsed([p EXCEPT !.tools = With(@, c.index, p.next), !.next = @ + 1],
              <<ContentDelta(p.next, ToolCallPart(c.id, c.name, <<>>),
                             ArgumentsKind(c.name), <<>>)>>)

\* Slip: the complete arguments are taken in addition to the deltas.
ArgueTwice(p, c, repeats) ==
  IF c.index \notin DOMAIN p.tools \/ c.data = <<>> THEN Parsed(p, <<>>)
  ELSE Parsed([p EXCEPT !.argued = @ \cup {c.index}],
              <<ContentDelta(p.tools[c.index], None, ArgumentsKind(c.name), c.data)>>)

\* Arguments, unless they repeat what came as deltas.
Argue(p, c, repeats) ==
  IF c.index \notin DOMAIN p.tools \/ c.data = <<>> \/ (repeats /\ c.index \in p.argued)
  THEN Parsed(p, <<>>)
  ELSE Parsed([p EXCEPT !.argued = @ \cup {c.index}],
              <<ContentDelta(p.tools[c.index], None, ArgumentsKind(c.name), c.data)>>)

\* The index of a text block is assigned even when there is no text yet.
Speak(p, c, repeats) ==
  LET new == c.index \notin DOMAIN p.texts
      at == IF new THEN p.next ELSE p.texts[c.index]
      q == [p EXCEPT !.texts = With(@, c.index, at), !.next = IF new THEN @ + 1 ELSE @]
  IN IF c.data = <<>> \/ (repeats /\ c.index \in p.spoken) THEN Parsed(q, <<>>)
     ELSE Parsed([q EXCEPT !.spoken = @ \cup {c.index}],
                 <<ContentDelta(at, IF new THEN TextPart(<<>>) ELSE None, "text", c.data)>>)

\* The completed response lists its calls; what the events before it announced is not asked.
ResponsesStopReason(listed, reason) ==
  IF listed > 0 THEN "tool_use" ELSE IF reason = "length" THEN "max_tokens" ELSE "end_turn"

\* Events of other types, response.incomplete among them, are not handled.
ResponsesChunk(p, c) ==
  CASE c.kind = "created" -> Parsed([p EXCEPT !.started = TRUE], <<StreamStart>>)
    [] c.kind \in {"tool", "tool_done"} /\ c.name # Custom ->
         LET a == Announce(p, c)
             d == Argue(a.parser, c, TRUE)
         IN Parsed(d.parser, a.events \o d.events)
    [] c.kind \in {"arguments", "arguments_done"} /\ c.name # Custom ->
         Argue(p, c, c.kind = "arguments_done")
    [] c.kind \in {"text", "text_done"} -> Speak(p, c, c.kind = "text_done")
    [] c.kind = "finish" /\ c.reason # "incomplete" ->
         Parsed(p, <<StreamEnd(ResponsesStopReason(c.index, c.reason))>>)
    [] c.kind = "failed" -> Parsed(p, <<StreamError>>)
    [] OTHER -> Parsed(p, <<>>)

\* Copilot's copy knows custom tools, whose raw input travels like arguments.
CopilotResponsesChunk(p, c) ==
  CASE c.kind \in {"tool", "tool_done"} ->
         LET a == Announce(p, c)
             d == Argue(a.parser, c, TRUE)
         IN Parsed(d.parser, a.events \o d.events)
    [] c.kind \in {"arguments", "arguments_done"} -> Argue(p, c, c.kind = "arguments_done")
    [] OTHER -> ResponsesChunk(p, c)

-----------------------------------------------------------------------------
\* Gemini: all text goes to block 0, each call arrives complete and gets an
\* index of its own from 1000 up.
GeminiParser == [started |-> FALSE, done |-> FALSE, next |-> 1000]

GeminiStopReason(reason) == IF reason = "length" THEN "max_tokens" ELSE "end_turn"

GeminiChunk(p, c) ==
  LET q == [p EXCEPT !.started = TRUE]
  IN CASE c.kind = "text" ->
            Parsed(q, Append(Opening(p), ContentDelta(0, TextPart(<<>>), "text", c.data)))
       [] c.kind = "tool" ->
            Parsed([q EXCEPT !.next = @ + 1],
                   Append(Opening(p), ContentDelta(p.next, ToolCallPart(c.id, c.name, c.data),
                                                   "arguments", c.data)))
       [] c.kind = "finish" ->
            Parsed([q EXCEPT !.done = TRUE], Append(Opening(p), StreamEnd(GeminiStopReason(c.reason))))
       [] OTHER -> Parsed(p, <<>>)

AntigravityChunk(p, c) == GeminiChunk(p, c)

-----------------------------------------------------------------------------
\* A complete response replayed as a stream, one event per part.
BufferedParser == [started |-> FALSE, done |-> FALSE, next |-> 0]

BufferedPart(p, c) ==
  LET q == [p EXCEPT !.started = TRUE, !.next = @ + 1]
      say(part, delta) == Parsed(q, Append(Opening(p), ContentDelta(p.next, part, delta, c.data)))
  IN CASE c.kind = "text" -> say(TextPart(<<>>), "text")
       [] c.kind = "reasoning" -> say(ThinkingPart(<<>>), "thinking")
       [] c.kind = "tool" -> say(ToolCallPart(c.id, c.name, <<>>), "arguments")
       [] c.kind = "finish" ->
            Parsed([p EXCEPT !.started = TRUE, !.done = TRUE],
                   Append(Opening(p), StreamEnd(IF c.reason = "length" THEN "max_tokens"
                                                ELSE IF c.reason = "tool_calls" THEN "tool_use"
                                                ELSE "end_turn")))
       [] OTHER -> Parsed(p, <<>>)

\* Azure's copy leaves thinking out; the part keeps its index.
AzurePart(p, c) ==
  IF c.kind = "reasoning" THEN Parsed([p EXCEPT !.started = TRUE, !.next = @ + 1], Opening(p))
  ELSE BufferedPart(p, c)

-----------------------------------------------------------------------------
Parser(format) ==
  CASE format \in {"openai", "copilot", "compat"} -> OpenAIParser
    [] format \in {"responses", "copilot_responses"} -> ResponsesParser
    [] format \in {"gemini", "antigravity"} -> GeminiParser
    [] OTHER -> BufferedParser

Parse(format, p, c) ==
  CASE format = "openai" -> OpenAIChunk(p, c)
    [] format = "copilot" -> CopilotChunk(p, c)
    [] format = "compat" -> CompatChunk(p, c)
    [] format = "responses" -> ResponsesChunk(p, c)
    [] format = "copilot_responses" -> CopilotResponsesChunk(p, c)
    [] format = "gemini" -> GeminiChunk(p, c)
    [] format = "antigravity" -> AntigravityChunk(p, c)
    [] format = "azure" -> AzurePart(p, c)
    [] OTHER -> BufferedPart(p, c)

\* The body ended.  A read that fails because the client is gone is no error.
BodyEnded(format, p, broken) ==
  CASE broken -> <<StreamError>>
    [] ~broken /\ format \in {"gemini", "antigravity"} /\ p.started -> <<StreamEnd("end_turn")>>
    [] OTHER -> <<>>
=============================================================================
