--------------------------------- MODULE Answers ---------------------------------
(***************************************************************************)
(* An upstream's whole answer on its way back: the adapters' parsers and   *)
(* the serializers of the three dialects (src/internal/serialization).     *)
(* Answers that stream are modelled in Streams.                            *)
(***************************************************************************)
EXTENDS Payloads

\* The identifier an upstream of the format gives its call; google and antigravity
\* make one up, azure's is the item's.
GivenId(format, n) == [n |-> n, form |-> IF format = "azure" THEN <<"fc">> ELSE <<"call">>]

\* Chat completions: thinking, the text, the calls.
ParseChatResponse(answer) ==
  SelectSeq(answer, LAMBDA p : p.kind = "thinking") \o SayIf(Texts(answer))
    \o SelectSeq(answer, IsCall)

\* The shared parser (kimi, codex) and copilot's know no thinking.
OpenAIRespToCIF(answer) == SayIf(Texts(answer)) \o SelectSeq(answer, IsCall)

ConvertOpenAIMessageToCIF(answer) ==
  Mapped(OpenAIRespToCIF(answer),
         LAMBDA p : IF IsCall(p) THEN [p EXCEPT !.name = FromUpstream(@)] ELSE p)

\* Responses: the messages and the calls; reasoning items are passed over.
ParseResponsesResponse(answer) == Thoughtless(answer)
ParseCopilotResponses(answer) == Thoughtless(answer)
ResponsesRespToCIF(answer) == Thoughtless(answer)

\* google and antigravity collect their own stream, which has no thinking and one block for
\* all its text, before those of the calls.
CollectStream(answer) == SayIf(Texts(answer)) \o SelectSeq(answer, IsCall)

Heard(format, answer) ==
  CASE format \in {"compat_chat", "glm"} -> ParseChatResponse(answer)
    [] format \in {"shared_chat", "codex"} -> OpenAIRespToCIF(answer)
    [] format = "copilot_chat" -> ConvertOpenAIMessageToCIF(answer)
    [] format = "compat_responses" -> ParseResponsesResponse(answer)
    [] format = "copilot_responses" -> ParseCopilotResponses(answer)
    [] format = "azure" -> ResponsesRespToCIF(answer)
    [] format = "gemini" -> CollectStream(answer)

-----------------------------------------------------------------------------
SerializeToOpenAI(content) ==
  SayIf(Texts(content)) \o Mapped(SelectSeq(content, IsCall), AsFunction)

NormalizeToolUseID(id) ==
  IF id.form # <<>> /\ Head(id.form) = "toolu" THEN id
  ELSE [id EXCEPT !.form = <<"toolu">> \o @]

SerializeToAnthropic(content) ==
  Mapped(content, LAMBDA p :
    IF IsCall(p) THEN [AsFunction(p) EXCEPT !.id = NormalizeToolUseID(@)] ELSE p)

\* Slip: every call is emitted as a function call.
FunctionsOnly(content) ==
  Mapped(SelectSeq(content, IsSpeech), AsText)
    \o Mapped(SelectSeq(content, IsCall), AsFunction)

\* The message first, thinking in its text; then the calls in their kinds.
SerializeToResponses(content) ==
  Mapped(SelectSeq(content, IsSpeech), AsText) \o SelectSeq(content, IsCall)

Serialized(dialect, content) ==
  CASE dialect = "chat" -> SerializeToOpenAI(content)
    [] dialect = "messages" -> SerializeToAnthropic(content)
    [] IsResponses(dialect) -> SerializeToResponses(content)
=============================================================================
