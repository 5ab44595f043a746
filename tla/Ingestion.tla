------------------------------- MODULE Ingestion -------------------------------
(***************************************************************************)
(* The parsers of the three client dialects (src/internal/ingestion): the  *)
(* body of a request becomes a canonical request: a system text, messages, *)
(* tools and the choice of one.  Sampling values, cache directives and     *)
(* schemas are left out.                                                   *)
(***************************************************************************)
EXTENDS Transcripts

CanonicalRequest(system, messages, tools, choice) ==
  [system |-> system, messages |-> messages, tools |-> tools, choice |-> choice]

\* toolCallNamesByID: a call is always in an earlier message than its result.
NameOfCall(id, items) ==
  LET calls == {p \in UNION {Range(items[i].parts) : i \in DOMAIN items} :
                  IsCall(p) /\ p.id = id}
  IN IF calls = {} THEN "" ELSE (CHOOSE p \in calls : TRUE).name

Named(p, items) ==
  IF IsResult(p) /\ p.name = "" THEN [p EXCEPT !.name = NameOfCall(p.id, items)] ELSE p

-----------------------------------------------------------------------------
\* Chat completions: a picture has a URL, and a data: URL is taken apart; a result is of the
\* tool of its call.
ConvertOpenAIContentPart(p) ==
  IF p.kind = "image" /\ p.as = "data" THEN [p EXCEPT !.as = "bytes"] ELSE p

NormalizeOpenAIToolChoice(c) ==
  CASE c.type \in {"none", "auto", "required"} -> Choice(c.type, "")
    [] c.type = "function" /\ c.function # "" -> Choice("function", c.function)
    [] OTHER -> NoChoice

\* Every system or developer message goes into the system text.
ConvertOpenAIMessage(item, items) ==
  Turn(IF item.role = "tool" THEN "user" ELSE item.role,
       IF item.role = "assistant"
       THEN SayIf(Texts(item.parts)) \o SelectSeq(item.parts, IsCall)
       ELSE Mapped(item.parts, LAMBDA p : ConvertOpenAIContentPart(Named(p, items))))

ParseChatCompletions(body) ==
  LET spoken == SelectSeq(body.items, LAMBDA t : t.role # "system")
      system == SelectSeq(body.items, LAMBDA t : t.role = "system")
  IN CanonicalRequest(FlattenSeq(Mapped(system, LAMBDA t : Texts(t.parts))),
                      Mapped(spoken, LAMBDA t : ConvertOpenAIMessage(t, spoken)),
                      body.tools, NormalizeOpenAIToolChoice(body.choice))

\* Messages: system messages stay where they are.  Of a picture that is not
\* base64 only the media type is kept.
ConvertAnthropicBlock(p, items) ==
  IF p.kind = "image" /\ p.as = "url" THEN [p EXCEPT !.as = "nothing"] ELSE Named(p, items)

ConvertAnthropicMessage(t, items) ==
  Turn(t.role, Mapped(t.parts, LAMBDA p : ConvertAnthropicBlock(p, items)))

NormalizeAnthropicToolChoice(c) ==
  CASE c.type \in {"none", "auto"} -> Choice(c.type, "")
    [] c.type = "any" -> Choice("required", "")
    [] c.type = "tool" /\ c.name # "" -> Choice("function", c.name)
    [] OTHER -> NoChoice

ParseAnthropicMessages(body) ==
  CanonicalRequest(body.system,
                   Mapped(body.items, LAMBDA t : ConvertAnthropicMessage(t, body.items)),
                   body.tools, NormalizeAnthropicToolChoice(body.choice))

\* The name of a forced tool is looked for in a function object.
TranslateToolChoice(c) ==
  CASE c.type \in {"none", "auto", "required"} -> Choice(c.type, "")
    [] c.function # "" -> Choice("function", c.function)
    [] OTHER -> NoChoice

\* Slip: a user's item does not end the assistant's message.
NotFlushed(s) == s

Flush(s) == [messages |-> s.messages \o TurnIf("assistant", s.pending), pending |-> <<>>]

\* The assistant's items gather in one message until somebody else speaks; a picture stays
\* a URL, a data: URL too; a result has the name its item gives.
TranslateItem(s, item) ==
  CASE item.role = "additional_tools" -> s
    [] item.role \in {"assistant", "call"} -> [s EXCEPT !.pending = @ \o item.parts]
    [] item.role = "result" ->
         [Flush(s) EXCEPT !.messages = Append(@, Turn("user", item.parts))]
    [] OTHER -> [Flush(s) EXCEPT !.messages = Append(@, item)]

TranslateInput(items) ==
  Flush(FoldLeft(TranslateItem, [messages |-> <<>>, pending |-> <<>>], items)).messages

\* Tools that are declared in an item of the input.
ExtractAdditionalTools(items) ==
  UNION {Range(items[i].parts) : i \in {j \in DOMAIN items : items[j].role = "additional_tools"}}

ParseResponsesPayload(body) ==
  CanonicalRequest(body.system, TranslateInput(body.items),
                   IF body.tools = {} THEN ExtractAdditionalTools(body.items) ELSE body.tools,
                   TranslateToolChoice(body.choice))

Ingested(dialect, body) ==
  CASE dialect = "chat" -> ParseChatCompletions(body)
    [] dialect = "messages" -> ParseAnthropicMessages(body)
    [] IsResponses(dialect) -> ParseResponsesPayload(body)
=============================================================================
