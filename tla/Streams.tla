-------------------------------- MODULE Streams --------------------------------
(***************************************************************************)
(* One streamed request, from the upstream's chunks to the client's        *)
(* message, and a later request that its cached answer serves.             *)
(*                                                                         *)
(* Parser, normalizer and handler are goroutines connected by channels.    *)
(* Each reads one channel and is deterministic, so what the handler reads  *)
(* does not depend on how they are scheduled: here a chunk has passed the  *)
(* parser and the normalizer before the handler takes its first event.     *)
(* The handler's own order is kept: it writes all that an event gives it   *)
(* before it takes the next one, and the client may be gone before every   *)
(* write.  Channels are taken to have room: see the README on the limits.  *)
(***************************************************************************)
EXTENDS Upstreams, ToolArguments, ChatStream, MessagesStream, ResponsesStream, CachedResponse

CONSTANTS
  Formats,      \* upstream protocols
  MaxChunks,    \* bound on the chunks with content
  MaxCalls      \* bound on the calls of one answer

ASSUME StreamBounds == MaxChunks \in Nat \ {0} /\ MaxCalls \in Nat

VARIABLES
  format, dialect,
  suppress,     \* thinking is withheld from this client
  said,         \* what the upstream said so far; last is what came with its finish reason
  body,         \* the upstream's body: "open", "eof", "broken", "closed" by the parser
  parser, normalizer,
  ready,        \* events the handler has not taken yet; drained: no more will come
  drained,
  serializer, accumulator,
  outbox,       \* wire events of the event in hand, still to be written
  handler,      \* "serving", "ending" after a terminal event, "done"
  reader, client,  \* what the client read and made of it, until it leaves
  cache,        \* the stored response
  replay        \* the answer a later request was given from the cache

requestVars == <<format, dialect, suppress>>
upstreamVars == <<said, body, parser, normalizer, drained>>
handlerVars == <<serializer, accumulator, handler>>
clientVars == <<reader, client>>
vars == <<requestVars, upstreamVars, ready, handlerVars, outbox, clientVars, cache, replay>>

OpenAIFormats == {"openai", "copilot", "compat"}
ResponsesFormats == {"responses", "copilot_responses"}
GeminiFormats == {"gemini", "antigravity"}
BufferedFormats == {"buffered", "azure"}
Dialects == {"chat", "messages", "responses"}

ASSUME FormatsAssumption ==
  Formats \subseteq OpenAIFormats \cup ResponsesFormats \cup GeminiFormats \cup BufferedFormats

SerializerInit(d, s) ==
  CASE d = "chat" -> ChatState
    [] d = "messages" -> MessagesState(s)
    [] OTHER -> ResponsesState

gone == client.phase = "left"

Serialize(d, s, e) ==
  CASE d = "chat" -> ChatEvent(s, e)
    [] d = "messages" -> MessagesEvent(s, e)
    [] OTHER -> ResponsesEvent(s, e)

Read(d, r, m, w) ==
  CASE d = "chat" -> ChatRead(m, w)
    [] d = "messages" -> MessagesRead(m, w)
    [] OTHER -> ResponsesRead(r, m, w)

Notes(d, r, m, w) == IF d = "responses" THEN ResponsesNotes(r, m, w) ELSE r

StreamsInit ==
  /\ format \in Formats
  /\ dialect \in Dialects
  /\ suppress \in IF dialect = "messages" THEN BOOLEAN ELSE {FALSE}
  /\ said = [text |-> <<>>, thinking |-> <<>>, calls |-> <<>>, sealed |-> 0, closed |-> FALSE,
             chunks |-> 0, reason |-> None, last |-> <<>>]
  /\ body = "open"
  /\ parser = Parser(format) /\ normalizer = NormalizerInit
  /\ ready = <<>> /\ drained = FALSE
  /\ serializer = SerializerInit(dialect, suppress) /\ accumulator = AccumulatorInit
  /\ outbox = <<>> /\ handler = "serving"
  /\ reader = ResponsesReader /\ client = EmptyMessage
  /\ cache = None /\ replay = None

-----------------------------------------------------------------------------
(* What the upstream may say next.  token is what the chunk adds; no chunk *)
(* is empty.                                                               *)

token == said.chunks + 1
Brace == <<token, Blank, Whole>>

ToolNames == {Loose, Strict} \cup
  IF format = "copilot_responses" /\ dialect = "responses" THEN {Custom} ELSE {}

Sealed(call) == call.data # <<>> /\ Last(call.data) = Whole
Unfinished(i) == said.calls[i].name # Custom /\ ~IsComplete(said.calls[i].data)
AllComplete == \A i \in DOMAIN said.calls : ~Unfinished(i)

TextChunks ==
  IF said.closed \/ (format \in OpenAIFormats /\ ~AllComplete) THEN {}
  ELSE {Chunk("text", 0, None, None, <<token>>, None)}

ReasoningChunks ==
  IF format \in OpenAIFormats \cup BufferedFormats /\ AllComplete /\ Len(said.thinking) < 2
  THEN {Chunk("reasoning", 0, None, None, <<token>>, None)} ELSE {}

CallChunks ==
  IF Len(said.calls) = MaxCalls THEN {}
  ELSE {Chunk("tool", Len(said.calls), Len(said.calls) + 1, name, data, None) :
          name \in ToolNames,
          data \in IF format \in GeminiFormats \cup BufferedFormats THEN {Brace} ELSE {<<>>, Brace}}

\* Arguments of several calls may come interleaved.  Chat upstreams are done with
\* their calls when they talk again.
ArgumentChunks ==
  IF format \notin OpenAIFormats \cup ResponsesFormats THEN {}
  ELSE {Chunk("arguments", i - 1, said.calls[i].id, said.calls[i].name, data, None) :
          i \in {j \in DOMAIN said.calls : j > said.sealed /\ ~Sealed(said.calls[j])},
          data \in {<<token>>, Brace}}

\* Responses upstreams repeat what is complete, or say it for the first time.
RepeatChunks ==
  IF format \notin ResponsesFormats THEN {}
  ELSE {Chunk(kind, i - 1, said.calls[i].id, said.calls[i].name,
              IF said.calls[i].data = <<>> THEN Brace ELSE said.calls[i].data, None) :
          kind \in {"tool_done", "arguments_done"},
          i \in {j \in DOMAIN said.calls : ~Unfinished(j)}}
       \cup IF said.closed THEN {}
            ELSE {Chunk("text_done", 0, None, None,
                        IF said.text = <<>> THEN <<token>> ELSE said.text, None)}

\* An upstream stops of itself when its calls are whole.
Stops(whole) ==
  {"length"}
  \cup (IF format \in ResponsesFormats THEN {"incomplete"} ELSE {})
  \cup (IF ~whole THEN {}
        ELSE IF format \in BufferedFormats /\ said.calls # <<>> THEN {"tool_calls"}
        ELSE {"stop"})

\* What a chat upstream may send in one chunk with its finish reason: text, a call, or the
\* arguments with which the last of its calls gets whole.
LastChunks ==
  IF format \notin OpenAIFormats \/ said.chunks = MaxChunks THEN {}
  ELSE {c \in TextChunks \cup CallChunks \cup ArgumentChunks :
          /\ c.data # <<>>
          /\ \A i \in DOMAIN said.calls :
               Unfinished(i) => c.kind = "arguments" /\ c.index = i - 1 /\ c.data = Brace}

\* The end of an answer.  A Responses upstream lists its calls, as many as it announced.
FinishChunks ==
  {Chunk("finish", Len(said.calls), None, None, <<>>, r) : r \in Stops(AllComplete)}
  \cup {Chunk("finish", c.index, c.id, c.name, c.data, r) : c \in LastChunks, r \in Stops(TRUE)}

\* What the answer is after a chunk.  What comes with the finish reason is kept apart.
Heard(c) ==
  LET i == c.index + 1
      counted == [said EXCEPT !.chunks = @ + 1]
  IN CASE c.kind = "text" ->
            [counted EXCEPT !.text = @ \o c.data,
                            !.sealed = IF format \in OpenAIFormats THEN Len(said.calls) ELSE @]
       [] c.kind = "text_done" -> [counted EXCEPT !.text = c.data, !.closed = TRUE]
       [] c.kind = "reasoning" -> [counted EXCEPT !.thinking = @ \o c.data]
       [] c.kind = "tool" ->
            [counted EXCEPT !.calls = Append(@, ToolCallPart(c.id, c.name, c.data))]
       [] c.kind = "arguments" -> [counted EXCEPT !.calls[i].data = @ \o c.data]
       [] c.kind \in {"tool_done", "arguments_done"} -> [counted EXCEPT !.calls[i].data = c.data]
       [] c.kind = "finish" -> [said EXCEPT !.reason = c.reason, !.last = c.data]
       [] OTHER -> said

\* What the normalizer makes of the events of a chunk.
Pass(events) ==
  FoldLeft(LAMBDA r, e : LET s == NormalizeEvent(r.state, e)
                         IN [state |-> s.state, events |-> r.events \o s.events],
           [state |-> normalizer, events |-> <<>>], events)

-----------------------------------------------------------------------------
\* The upstream is heard when the handler is waiting for an event.
Waiting == handler = "serving" /\ ready = <<>> /\ outbox = <<>>

Chunks ==
  IF format \in ResponsesFormats /\ ~parser.started
  THEN {Chunk("created", 0, None, None, <<>>, None)}
  ELSE IF said.reason # None THEN
    IF format = "compat" THEN {Chunk("done", 0, None, None, <<>>, None)} ELSE {}
  ELSE FinishChunks
       \cup (IF said.chunks = MaxChunks THEN {}
             ELSE TextChunks \cup ReasoningChunks \cup CallChunks \cup ArgumentChunks \cup RepeatChunks)
       \cup (IF format \in ResponsesFormats THEN {Chunk("failed", 0, None, None, <<>>, None)} ELSE {})

Hear ==
  /\ Waiting /\ body = "open"
  /\ \E c \in Chunks :
       LET p == Parse(format, parser, c)
           n == Pass(p.events)
       IN /\ said' = Heard(c)
          /\ parser' = p.parser
          /\ normalizer' = n.state
          /\ ready' = n.events
          /\ body' = IF p.parser.done THEN "closed" ELSE body
  /\ UNCHANGED <<requestVars, drained, handlerVars, outbox, clientVars, cache, replay>>

\* The body ends, or cannot be read any further.  A body closed because the client
\* is gone is no error.
EndBody(broken) ==
  /\ Waiting /\ body = "open"
  /\ format \notin BufferedFormats   \* a complete response always ends in StreamEnd
  /\ broken => ~gone
  /\ LET n == Pass(BodyEnded(format, parser, broken))
     IN normalizer' = n.state /\ ready' = n.events
  /\ body' = IF broken THEN "broken" ELSE "eof"
  /\ UNCHANGED <<requestVars, said, parser, drained, handlerVars, outbox, clientVars, cache,
                 replay>>

\* The parser closed its channel: the normalizer lets go of what it holds and closes its own.
Drain ==
  /\ Waiting /\ body # "open" /\ ~drained
  /\ ready' = FlushedAll(normalizer)
  /\ normalizer' = [normalizer EXCEPT !.buffers = <<>>]
  /\ drained' = TRUE
  /\ UNCHANGED <<requestVars, said, body, parser, handlerVars, outbox, clientVars, cache, replay>>

-----------------------------------------------------------------------------
\* The handler takes one event.  After an error the Messages dialect still
\* concludes the message.
Handle ==
  /\ handler = "serving" /\ outbox = <<>> /\ ready # <<>>
  /\ LET e == Head(ready)
         s == Serialize(dialect, serializer, e)
         f == IF dialect = "messages" /\ e.type = "stream_error" THEN Finalize(s.state)
              ELSE [state |-> s.state, wire |-> <<>>]
     IN /\ accumulator' = Observe(accumulator, e)
        /\ serializer' = f.state
        /\ outbox' = s.wire \o f.wire
        /\ handler' = IF e.type \in {"stream_end", "stream_error"} THEN "ending" ELSE "serving"
  /\ ready' = Tail(ready)
  /\ UNCHANGED <<requestVars, upstreamVars, clientVars, cache, replay>>

\* Slip: the handler does not notice that the channel is closed.
HandleClosedIgnored == Waiting /\ drained /\ UNCHANGED vars

\* The channel is closed: no terminal event came.
HandleClosed ==
  /\ Waiting /\ drained
  /\ LET f == IF dialect = "messages" THEN Finalize(serializer)
              ELSE [state |-> serializer, wire |-> <<>>]
     IN serializer' = f.state /\ outbox' = f.wire
  /\ handler' = "ending"
  /\ UNCHANGED <<requestVars, upstreamVars, ready, accumulator, clientVars, cache, replay>>

\* What is written after the client left is lost.
Deliver ==
  /\ outbox # <<>>
  /\ IF gone THEN outbox' = <<>> /\ UNCHANGED clientVars
     ELSE /\ outbox' = Tail(outbox)
          /\ client' = Read(dialect, reader, client, Head(outbox))
          /\ reader' = Notes(dialect, reader, client, Head(outbox))
  /\ UNCHANGED <<requestVars, upstreamVars, ready, handlerVars, cache, replay>>

\* The request ends; an answer that ended is stored.  The store is given the
\* request's context and may refuse when that is canceled.
Complete ==
  /\ handler = "ending" /\ outbox = <<>>
  /\ handler' = "done"
  /\ \/ cache' = Assembled(accumulator)
     \/ gone /\ UNCHANGED cache
  /\ UNCHANGED <<requestVars, upstreamVars, ready, serializer, accumulator, outbox,
                 clientVars, replay>>

Disconnect ==
  /\ ~gone /\ handler # "done"
  /\ client' = [EmptyMessage EXCEPT !.phase = "left"] /\ reader' = ResponsesReader
  /\ UNCHANGED <<requestVars, upstreamVars, ready, handlerVars, outbox, cache, replay>>

\* The handler notices between two events that its client is gone.
Leave ==
  /\ gone /\ handler = "serving" /\ outbox = <<>>
  /\ handler' = "done"
  /\ UNCHANGED <<requestVars, upstreamVars, ready, serializer, accumulator, outbox,
                 clientVars, cache, replay>>

-----------------------------------------------------------------------------
\* The message a streaming client makes of a stored response.
Replaying(d, s, response) ==
  LET step(r, e) ==
        LET x == Serialize(d, r.state, e)
        IN [state |-> x.state,
            got |-> FoldLeft(LAMBDA g, w : [reader |-> Notes(d, g.reader, g.client, w),
                                            client |-> Read(d, g.reader, g.client, w)],
                             r.got, x.wire)]
  IN FoldLeft(step, [state |-> SerializerInit(d, s),
                     got |-> [reader |-> ResponsesReader, client |-> EmptyMessage]],
              SynthesizeStream(response)).got.client

Answered(d, s, response) ==
  CASE d = "chat" -> ChatResponse(response)
    [] d = "messages" -> MessagesResponse(response, s)
    [] OTHER -> ResponsesResponse(response)

\* A later request with the same content, of any dialect, is served from the cache.
Replay ==
  /\ cache # None /\ replay = None
  /\ \E d \in Dialects, streaming \in BOOLEAN :
     \E s \in IF d = "messages" THEN BOOLEAN ELSE {FALSE} :
       /\ (\E i \in DOMAIN cache.content : cache.content[i].name = Custom) => d = "responses"
       /\ LET hit == NormalizeResponse(cache)
          IN replay' = [dialect |-> d, streaming |-> streaming, suppress |-> s,
                        message |-> IF streaming THEN Replaying(d, s, hit) ELSE Answered(d, s, hit)]
  /\ UNCHANGED <<requestVars, upstreamVars, ready, handlerVars, outbox, clientVars, cache>>

\* All is said.
Done == handler = "done" /\ (cache = None \/ replay # None) /\ UNCHANGED vars

StreamsNext ==
  \/ Hear \/ EndBody(TRUE) \/ EndBody(FALSE) \/ Drain
  \/ Handle \/ HandleClosed \/ Deliver \/ Complete
  \/ Disconnect \/ Leave
  \/ Replay \/ Done

\* The gateway's goroutines run; one of these steps at most is enabled.  Nothing is assumed of the upstream or the client.
StreamsSpec ==
  /\ StreamsInit /\ [][StreamsNext]_vars
  /\ WF_vars(Drain \/ Handle \/ HandleClosed \/ Deliver \/ Complete)

-----------------------------------------------------------------------------
(* Properties.                                                             *)

Only(data, kept) == SelectSeq(data, LAMBDA t : t \in kept)

\* The text of a message.  The chat and Responses streams merge thinking into it.
TextOf(m) == Only(DataOf(m.blocks, "text"), ToSet(said.text))
ThinkingOf(m) == DataOf(m.blocks, "thinking")

\* The calls the client is owed: the upstream's, with normalized arguments.
Owed == [i \in DOMAIN said.calls |->
           [said.calls[i] EXCEPT !.data = NormalizeJSON(@, said.calls[i].name)]]

\* The chat stream drops arguments that come together with their announcement.
ArgumentsReach(d) == d = "chat" => format \notin GeminiFormats \cup BufferedFormats

\* The upstream has said that its answer is complete.  Gemini upstreams may hang up instead.
UpstreamConcluded == said.reason # None \/ format \in GeminiFormats
UpstreamFinished == UpstreamConcluded /\ body # "broken"

\* TYPE.  The state of the pipeline has its shape, in every step of every format.
StreamTypeOK ==
  /\ format \in Formats /\ dialect \in Dialects /\ suppress \in BOOLEAN
  /\ said.chunks \in 0..MaxChunks /\ Len(said.calls) \in 0..MaxCalls
  /\ body \in {"open", "eof", "broken", "closed"}
  /\ drained \in BOOLEAN
  /\ handler \in {"serving", "ending", "done"}
  /\ \A i \in DOMAIN ready :
       ready[i].type \in {"stream_start", "content_delta", "content_block_stop", "stream_end",
                          "stream_error"}
  /\ client.phase \in {"idle", "open", "concluded", "done", "left", "broken"}
  /\ client.reason \in {None} \cup
       CASE dialect = "chat" -> {"stop", "length", "tool_calls", "content_filter"}
         [] dialect = "messages" -> StopReasons
         [] OTHER -> {"completed"}

\* ARGUMENTS.  However the deltas of several calls interleave, every call at the client
\* is the upstream's call of that number, and its arguments are a beginning of that
\* call's arguments or their normal form: nothing is lost between, doubled or misrouted.
\* (Arguments in a chat chunk with a finish reason come to no client: see LastDeltaArrives.)
CallsKeepTheirArguments ==
  LET calls == CallsOf(client.blocks)
  IN /\ Len(calls) <= Len(said.calls)
     /\ \A k \in DOMAIN calls :
          /\ calls[k].id = said.calls[k].id /\ calls[k].name = said.calls[k].name
          /\ IsPrefix(calls[k].data, said.calls[k].data) \/ calls[k].data = Owed[k].data

\* ANSWER.  A client that was told the end of its message without an error has all of
\* the text and all of the calls the upstream sent before the chunk with its finish reason
\* (what is in that chunk is lost for certain with the chat parsers: see LastDeltaArrives);
\* and in the chat and Responses dialects the upstream had finished, Gemini upstreams that
\* hang up excepted.
AnswerArrives ==
  client.phase = "done" /\ ~client.failed =>
    /\ dialect # "messages" => UpstreamConcluded
    /\ TextOf(client) = said.text
    /\ ThinkingOf(client) = IF dialect = "messages" /\ ~suppress /\ format \notin {"copilot", "azure"}
                            THEN said.thinking ELSE <<>>
    /\ ArgumentsReach(dialect) => CallsOf(client.blocks) = Owed

\* Only an answer the upstream finished is stored, and it is stored whole, even if its client
\* left before the end, but for what came with a chat upstream's finish reason, which is
\* lost to the cache as it is to the client; arguments that are cut off are stored empty.
OnlyWholeAnswersAreCached ==
  cache # None =>
    /\ UpstreamFinished
    /\ DataOf(cache.content, "text") = said.text
    /\ Calls(cache.content) =
         [i \in DOMAIN Owed |->
            [Owed[i] EXCEPT !.data = DecodeToolArgs(@, Owed[i].name)]]

\* A later request, of whatever dialect and streamed or not, gets the same answer as the one
\* that filled the cache, as a well-formed and finished message.  Streamed chat replays lose
\* arguments: see StreamReplayKeepsArguments.
ReplayIsTheAnswer ==
  replay # None =>
    /\ replay.message.phase = "done" /\ ~replay.message.failed
    /\ TextOf(replay.message) = said.text
    /\ AllComplete /\ ~(replay.dialect = "chat" /\ replay.streaming)
         => CallsOf(replay.message.blocks) = Owed

\* CACHE.  What the response cache stores is the answer that the upstream finished, whole up
\* to the chunk with its finish reason, and what it serves is that answer.
CacheKeepsAnswers == OnlyWholeAnswersAreCached /\ ReplayIsTheAnswer

\* REASON.  A client that was sent calls is told to run them, whatever reason the
\* upstream gave for its stop.  Gemini's reasons are passed on as they are, and a chat
\* upstream that hangs up before its last line is not trusted.  A Responses upstream is
\* taken to list the calls that it announced.
ToldToRunTools ==
  /\ client.phase = "done" /\ ~client.failed /\ CallsOf(client.blocks) # <<>>
  /\ said.reason \notin {None, "length"} /\ body \notin {"eof", "broken"}
  /\ format \notin GeminiFormats
  => client.reason \in {"tool_use", "tool_calls"} \/ dialect = "responses"

\* The message the client makes of the stream, of any dialect, as AssistantMessage has it.
M == INSTANCE AssistantMessage WITH
       phase <- client.phase, blocks <- client.blocks, reason <- client.reason,
       failed <- client.failed,
       Kinds <- {"text", "thinking", "tool"}, Ids <- 1..MaxCalls,
       Names <- {Loose, Strict, Custom}, Tokens <- (1..MaxChunks) \cup {Blank, Whole},
       Reasons <- StopReasons \cup {"stop", "length", "tool_calls", "completed"}

\* PROTOCOL.  Every stream of every dialect is one message: opened once, its blocks
\* opened one after the other and grown only while open, its calls distinct, concluded
\* once with every block closed, and silent after that.
ClientSeesOneMessage == M!MessageSpec

\* END.  When the upstream's body is at its end the request ends; and a Messages client
\* that stays is told the end of a message it was told the start of, whatever happened.
StreamsEnd ==
  body # "open" ~> /\ handler = "done"
                   /\ dialect = "messages" /\ ~gone => client.phase \in {"idle", "done"}

\* A client that was told the end of its message without an error has what the upstream
\* sent together with its finish reason, too: tool calls with their arguments and ordered
\* generated content are preserved, by openspec/specs/cif-translation/spec.md:58 and :33.
LastDeltaArrives ==
  client.phase = "done" /\ ~client.failed =>
    \A t \in ToSet(said.last) : \E i \in DOMAIN client.blocks : t \in ToSet(client.blocks[i].data)

\* A cached call is replayed to a streaming chat client with its arguments: the
\* contract of openspec/specs/cif-translation/spec.md.
StreamReplayKeepsArguments ==
  replay # None /\ AllComplete => CallsOf(replay.message.blocks) = Owed
=============================================================================
