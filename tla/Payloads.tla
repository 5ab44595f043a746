-------------------------------- MODULE Payloads --------------------------------
(***************************************************************************)
(* The payloads the adapters build from a canonical request: the turns in  *)
(* the order the upstream reads them, and the tools it is offered.  A      *)
(* system text stands first, whatever the field that carries it.           *)
(*                                                                         *)
(*   compat_chat       openaicompat: chat completions                      *)
(*   glm               alibaba's glm-5.1, on top of compat_chat            *)
(*   compat_responses  openaicompat: Responses                             *)
(*   shared_chat       kimi                                                *)
(*   codex             codex                                               *)
(*   gemini            google and antigravity                              *)
(*   azure             azure: Responses                                    *)
(*   copilot_chat      copilot: chat completions                           *)
(*   copilot_responses copilot: Responses                                  *)
(***************************************************************************)
EXTENDS Transcripts

Upstream_Formats ==
  {"compat_chat", "glm", "compat_responses", "shared_chat", "codex", "gemini", "azure",
   "copilot_chat", "copilot_responses"}

Payload(turns, offered, choice) == [turns |-> turns, offered |-> offered, choice |-> choice]

SystemFirst(system) == IF system = <<>> THEN <<>> ELSE <<Turn("system", <<Said(system)>>)>>

\* Most formats know functions only: a custom tool is a function of one string.
FunctionTools(tools) == {Tool(t.name, "function") : t \in tools}

AsFunction(p) == IF IsSpeech(p) THEN p ELSE [p EXCEPT !.style = "function"]
AsText(p) == IF p.kind = "thinking" THEN Said(p.data) ELSE p

OfRole(messages, User(_), Assistant(_)) ==
  FlattenSeq(Mapped(messages, LAMBDA t :
    CASE t.role = "user" -> User(Mapped(t.parts, Unnamed))
      [] t.role = "assistant" -> Assistant(t.parts)
      [] OTHER -> <<t>>))

-----------------------------------------------------------------------------
\* Chat completions.  Results go first, one message each, then the user's own parts.
ToolMessages(parts) == Mapped(SelectSeq(parts, IsResult), LAMBDA p : Turn("tool", <<AsFunction(p)>>))

CifUserMsgs(parts) ==
  ToolMessages(parts) \o TurnIf("user", SelectSeq(parts, IsSpeech))

\* One message: the last thinking, the texts joined, the calls.
CifAssistantMsg(parts) ==
  LET thoughts == SelectSeq(parts, LAMBDA p : p.kind = "thinking")
  IN <<Turn("assistant",
            (IF thoughts = <<>> THEN <<>> ELSE <<Last(thoughts)>>)
              \o SayIf(Texts(parts))
              \o Mapped(SelectSeq(parts, IsCall), AsFunction))>>

CifMessagesToOpenAI(messages) == OfRole(messages, CifUserMsgs, CifAssistantMsg)

BuildChatRequest(request) ==
  Payload(SystemFirst(request.system) \o CifMessagesToOpenAI(request.messages),
          FunctionTools(request.tools), request.choice)

\* glm-5.1: no reasoning in the history, the leading system messages in the first user
\* message, and no tools once a result is in the history.
Thoughtless(parts) == SelectSeq(parts, LAMBDA p : p.kind # "thinking")

MergedIntoFirstText(parts, system) ==
  LET texts == {i \in DOMAIN parts : parts[i].kind = "text"}
      first == CHOOSE i \in texts : \A j \in texts : i <= j
  IN IF texts = {} THEN <<Said(system)>> \o parts
     ELSE [parts EXCEPT ![first].data = system \o @]

MergeLeadingSystem(turns) ==
  LET spoken == {i \in DOMAIN turns : turns[i].role # "system"}
      lead == CHOOSE n \in 0..Len(turns) :
                /\ n + 1 \in spoken \cup {Len(turns) + 1}
                /\ \A i \in 1..n : turns[i].role = "system"
      system == FlattenSeq(Mapped(SubSeq(turns, 1, lead), LAMBDA t : Texts(t.parts)))
      rest == SubSeq(turns, lead + 1, Len(turns))
      users == {i \in DOMAIN rest : rest[i].role = "user"}
      first == CHOOSE i \in users : \A j \in users : i <= j
  IN CASE system = <<>> -> rest
       [] system # <<>> /\ users = {} -> <<Turn("user", <<Said(system)>>)>> \o rest
       [] OTHER -> [rest EXCEPT ![first].parts = MergedIntoFirstText(@, system)]

BuildGLM(request) ==
  LET chat == BuildChatRequest(request)
      plain == Mapped(chat.turns, LAMBDA t : Turn(t.role, Thoughtless(t.parts)))
      answered == \E i \in DOMAIN chat.turns : chat.turns[i].role = "tool"
  IN Payload(MergeLeadingSystem(plain), IF answered THEN {} ELSE chat.offered, NoChoice)

\* kimi through the shared converter; codex does the same and leaves the system text out.
CIFMessagesToOpenAI(messages) == OfRole(messages, CifUserMsgs, CifAssistantMsg)

\* The choice goes with it, for the models that do not think: those that do lose it.
BuildKimi(request) ==
  Payload(SystemFirst(request.system) \o CIFMessagesToOpenAI(request.messages),
          FunctionTools(request.tools), request.choice)

BuildCodex(request) ==
  Payload(CIFMessagesToOpenAI(request.messages), FunctionTools(request.tools), NoChoice)

-----------------------------------------------------------------------------
\* copilot: names the API would reject have an alias, one request at a time.
ToUpstream(name) == IF name = "long" THEN "alias" ELSE name
FromUpstream(name) == IF name = "alias" THEN "long" ELSE name

CopilotAssistant(parts) ==
  CifAssistantMsg(Mapped(Thoughtless(parts),
    LAMBDA p : IF IsCall(p) THEN [p EXCEPT !.name = ToUpstream(@)] ELSE p))

ConvertCIFToOpenAI(request) ==
  Payload(SystemFirst(request.system) \o OfRole(request.messages, CifUserMsgs, CopilotAssistant),
          {Tool(ToUpstream(t.name), "function") : t \in request.tools},
          [request.choice EXCEPT !.name = ToUpstream(@)])

-----------------------------------------------------------------------------
\* Responses.  Thinking is text, a picture without a URL is left out.
Shown(parts) ==
  Mapped(SelectSeq(parts, LAMBDA p : p.kind # "image" \/ p.as # "nothing"), AsText)

ResponsesItems(role, parts) == Items(Turn(role, Shown(parts)))

CompatItems(role, parts) == Items(Turn(role, Mapped(Shown(parts), AsFunction)))

BuildResponsesPayload(request) ==
  Payload(SystemFirst(request.system)
            \o OfRole(request.messages, LAMBDA ps : CompatItems("user", ps),
                      LAMBDA ps : CompatItems("assistant", ps)),
          FunctionTools(request.tools), request.choice)

\* copilot keeps the kind of a custom call and of its result.
BuildCopilotResponses(request) ==
  Payload(SystemFirst(request.system)
            \o OfRole(request.messages, LAMBDA ps : ResponsesItems("user", ps),
                      LAMBDA ps : ResponsesItems("assistant", ps)),
          request.tools, request.choice)

\* azure: text, calls and results only, and every identifier begins with fc.
ToolCallID(id) ==
  CASE id.form # <<>> /\ Head(id.form) = "fc" -> id
    [] id.form # <<>> /\ Head(id.form) = "call" -> [id EXCEPT !.form = <<"fc">> \o Tail(@)]
    [] OTHER -> [id EXCEPT !.form = <<"fc">> \o @]

\* Slip: the identifier of a result stays as the client sent it.
SentAsIs(id) == id

\* The call a result is of.
ResultCallID(id) == ToolCallID(id)

AzureItems(role, parts) ==
  LET kept == SelectSeq(parts, LAMBDA p : p.kind \in {"text", "call", "result"})
      Sent(p) == CASE IsCall(p) -> [AsFunction(p) EXCEPT !.id = ToolCallID(@)]
                   [] IsResult(p) -> [AsFunction(p) EXCEPT !.id = ResultCallID(@)]
                   [] OTHER -> p
  IN Items(Turn(role, Mapped(kept, Sent)))

BuildAzure(request) ==
  Payload(SystemFirst(request.system)
            \o OfRole(request.messages, LAMBDA ps : AzureItems("user", ps),
                      LAMBDA ps : AzureItems("assistant", ps)),
          FunctionTools(request.tools), Choice("auto", ""))

-----------------------------------------------------------------------------
\* Gemini: no identifiers; a result goes by its tool's name, the system text is the
\* request's alone, and a picture is sent by its bytes.
GeminiPart(p) ==
  IF IsSpeech(p) THEN AsText(p) ELSE [AsFunction(p) EXCEPT !.id = NoId]

CIFMessagesToGemini(messages) ==
  LET spoken == SelectSeq(messages, LAMBDA t : t.role # "system")
      Kept(p) == p.kind = "image" => p.as = "bytes"
  IN FlattenSeq(Mapped(spoken, LAMBDA t :
       TurnIf(t.role, Mapped(SelectSeq(t.parts, Kept), GeminiPart))))

BuildGemini(request) ==
  Payload(SystemFirst(request.system) \o CIFMessagesToGemini(request.messages),
          FunctionTools(request.tools), NoChoice)

Built(format, request) ==
  CASE format = "compat_chat" -> BuildChatRequest(request)
    [] format = "glm" -> BuildGLM(request)
    [] format = "compat_responses" -> BuildResponsesPayload(request)
    [] format = "shared_chat" -> BuildKimi(request)
    [] format = "codex" -> BuildCodex(request)
    [] format = "gemini" -> BuildGemini(request)
    [] format = "azure" -> BuildAzure(request)
    [] format = "copilot_chat" -> ConvertCIFToOpenAI(request)
    [] format = "copilot_responses" -> BuildCopilotResponses(request)
=============================================================================
