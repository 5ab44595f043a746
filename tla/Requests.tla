-------------------------------- MODULE Requests --------------------------------
(***************************************************************************)
(* A client's conversation through the gateway.  Each of its requests is   *)
(* ingested and built for the upstream dispatch picks, which may be        *)
(* another one each time, so that the history an upstream reads was        *)
(* spoken through other formats.                                           *)
(***************************************************************************)
EXTENDS Ingestion, Answers

CONSTANT MaxAsks   \* requests of one conversation

VARIABLES dialect,     \* of the client
          transcript,  \* the turns the client has
          format,      \* of the upstream that has the request
          reading,     \* the payload it reads
          answer,      \* its last answer
          asks         \* requests sent

requestVars == <<dialect, transcript, format, reading, answer, asks>>

\* The tools the client declares: one whose name some upstream rejects, and a custom one.
Declared ==
  {Tool("plain", "function"), Tool("long", "function")}
    \cup (IF IsResponses(dialect) THEN {Tool("custom", "custom")} ELSE {})

Silent == Payload(<<>>, {}, NoChoice)
AskedChoices ==
  IF asks = 0 THEN {NoChoice, Choice("required", ""), Choice("function", "long")} ELSE {NoChoice}
Asking == format = "none"
Serial == 10 * Len(transcript)

\* Where words may come after a call: an answer is a list of items or of parts.
WordsAnywhere == {"compat_responses", "copilot_responses", "azure", "gemini"}

TalkTypeOK ==
  /\ dialect \in Dialects
  /\ \A i \in DOMAIN transcript : transcript[i].role \in {"system", "user", "assistant"}
  /\ format \in Upstream_Formats \cup {"none"}
  /\ reading.offered \subseteq {Tool(n, s) : n \in {"plain", "long", "alias", "custom"},
                                          s \in {"function", "custom"}}
  /\ asks \in 0..MaxAsks

RequestsInit ==
  /\ dialect \in Dialects
  /\ transcript = <<>>
  /\ format = "none"
  /\ reading = Silent
  /\ answer = <<>>
  /\ asks = 0

OpenCalls ==
  IF transcript = <<>> THEN <<>> ELSE SelectSeq(Last(transcript).parts, IsCall)

\* The client runs the tools it was told to and sends the results in any order.
ResultOf(p) == Result(p.id, p.name, <<p.data[1] + 100>>, p.style)
ResultOrders == {Mapped(OpenCalls, ResultOf), Mapped(Reverse(OpenCalls), ResultOf)}

Speeches(n) ==
  {<<Said(<<n>>)>>, <<Said(<<n>>), Picture(<<n + 1>>, "bytes")>>,
   <<Said(<<n>>), Picture(<<n + 1>>, "url")>>}

\* A system message or none, and what the user says.
NextTurns ==
  LET user == Turn("user", <<>>)
      system == Turn("system", <<Said(<<Serial + 9>>)>>)
  IN IF OpenCalls # <<>>
     THEN {<<Turn("user", r \o s)>> : r \in ResultOrders, s \in {<<>>, <<Said(<<Serial + 1>>)>>}}
     ELSE {p \o <<Turn("user", s)>> : p \in {<<>>, <<system>>}, s \in Speeches(Serial + 1)}

\* A request: written by the client, ingested, built for an upstream.
SendRequest(f) ==
  /\ Asking /\ asks < MaxAsks
  /\ \E turns \in NextTurns : transcript' = transcript \o turns
  /\ \E choice \in AskedChoices :
       LET body == BodyOf(dialect, transcript', Declared, choice)
       IN reading' = Built(f, Ingested(dialect, body))
  /\ format' = f
  /\ asks' = asks + 1
  /\ UNCHANGED <<dialect, answer>>

\* What an upstream may answer: words, thoughts before them, calls of what it is offered; and
\* words after a call too, where the format has a place for them.
AnswersTo(f, offered, n) ==
  LET CallOf(k, t) == Call(GivenId(f, n + k), t.name, <<n + k>>, t.style)
      Of(names) == {t \in offered : t.name \in names}
      words == {<<Said(<<n>>)>>, <<Thought(<<n + 4>>), Said(<<n>>)>>}
      one == {<<CallOf(1, t)>> : t \in offered}
      two == {<<CallOf(1, t), CallOf(2, u)>> : t \in Of({"plain"}),
                                              u \in Of({"plain", "custom"})}
      said == {<<Said(<<n>>), CallOf(1, t)>> : t \in Of({"long", "alias", "custom"})}
      around == {<<Said(<<n>>), CallOf(1, t), Said(<<n + 3>>)>> : t \in Of({"plain", "custom"})}
  IN words \cup one \cup two \cup said \cup (IF f \in WordsAnywhere THEN around ELSE {})

\* The answer is parsed and serialized, and the client keeps it.
Hear ==
  /\ ~Asking /\ asks < MaxAsks
  /\ \E a \in AnswersTo(format, reading.offered, Serial) :
       /\ answer' = a
       /\ transcript' =
            Append(transcript, Turn("assistant", Serialized(dialect, Heard(format, a))))
  /\ format' = "none"
  /\ reading' = Silent
  /\ UNCHANGED <<dialect, asks>>

RequestsNext == Hear \/ \E f \in Upstream_Formats : SendRequest(f)

RequestsSpec == RequestsInit /\ [][RequestsNext]_requestVars

-----------------------------------------------------------------------------
DataOf(parts) == FlattenSeq(Mapped(parts, LAMBDA p : p.data))
PartsOf(turns) == FlattenSeq(Mapped(turns, LAMBDA t : t.parts))
Conversation(turns) == PartsOf(SelectSeq(turns, LAMBDA t : t.role # "system"))
Serials(parts, P(_)) == UNION {Range(parts[i].data) : i \in {j \in DOMAIN parts : P(parts[j])}}

Read == PartsOf(reading.turns)
Order == DataOf(Read)
Place(s) == CHOOSE i \in DOMAIN Order : Order[i] = s
WasRead(s) == s \in Range(Order)

\* A turn as the upstream's format has it: a chat message has its words before its calls.
TurnIn(t) ==
  IF t.role = "assistant" /\ format \notin WordsAnywhere
  THEN SelectSeq(t.parts, IsSpeech) \o SelectSeq(t.parts, IsCall) ELSE t.parts
InTurn == DataOf(FlattenSeq(Mapped(transcript, TurnIn)))

\* What nobody may lose: what was said aloud, the calls and the results.
Essential ==
  Serials(Conversation(transcript), LAMBDA p : p.kind \in {"text", "call", "result"})

WholeInOrder ==
  /\ SelectSeq(Order, LAMBDA s : s \in Essential)
       = SelectSeq(InTurn, LAMBDA s : s \in Essential)
  /\ IsInjective(Order)

\* A picture sent as bytes; azure's payload has none, and a data: URL is no bytes to gemini.
PicturesArrive ==
  \A s \in Serials(PartsOf(transcript), LAMBDA p : p.kind = "image" /\ p.as = "bytes") :
    \/ WasRead(s)
    \/ format = "azure"
    \/ format = "gemini" /\ IsResponses(dialect)

\* Of one turn of the assistant.
SameTurn(p, q) ==
  \E i \in DOMAIN transcript :
    /\ transcript[i].role = "assistant"
    /\ Range(p.data) \cup Range(q.data) \subseteq Range(DataOf(transcript[i].parts))

\* Results come right after the calls, but for what the assistant said after them in the
\* same turn, under the same identifier and of the same kind; where there are no
\* identifiers, under the tool's name.  A Responses client's result has no name to give to
\* gemini.
ResultsFollowCalls ==
  \A j \in DOMAIN Read : IsResult(Read[j]) =>
    \E i \in 1..(j - 1) :
      /\ IsCall(Read[i]) /\ Read[j].data = <<Read[i].data[1] + 100>>
      /\ Read[i].id = Read[j].id /\ Read[i].style = Read[j].style
      /\ \A k \in i..j : IsSpeech(Read[k]) => SameTurn(Read[k], Read[i])
      /\ \A k \in DOMAIN Read \ {i} :
           IsCall(Read[k]) /\ format # "gemini" => Read[k].id # Read[i].id
      /\ format = "gemini" /\ ~IsResponses(dialect) => Read[j].name = Read[i].name

\* The upstream knows the tools of the history and the one it must call; glm is told of
\* none after a result.
Offered == {t.name : t \in reading.offered}
CalledWereOffered ==
  /\ \A i \in DOMAIN Read : IsCall(Read[i]) => Read[i].name \in Offered \/ Offered = {}
  /\ reading.choice.mode = "function" => reading.choice.name \in Offered

\* A system text is read before what the user said after it.  codex does not send the
\* request's own system text, gemini not the messages in the conversation.
SystemsLeadOn ==
  \A i \in DOMAIN transcript : transcript[i].role = "system" =>
    LET s == transcript[i].parts[1].data[1]
        next == transcript[i + 1].parts[1].data[1]
    IN \/ WasRead(s) /\ Place(s) < Place(next)
       \/ format = "codex" /\ (i = 1 \/ dialect = "chat")
       \/ format = "gemini" /\ i # 1 /\ dialect # "chat"

\* READS.  Whichever upstreams spoke before, through whichever dialect, the one that has the
\* request reads the conversation once and in order (the assistant's words before its calls
\* where the format has no other place for them), every result after its call and linked to
\* it, under names and kinds it was offered.
UpstreamReadsTheTranscript ==
  ~Asking => /\ WholeInOrder /\ PicturesArrive /\ ResultsFollowCalls
             /\ CalledWereOffered /\ SystemsLeadOn

\* COMES BACK.  The client reads all the words and calls of the answer in order, unless it
\* reads all its words, in order, before all its calls: a chat message has no other place
\* for them, SerializeToResponses puts the message first (to_responses.go:136-146) and
\* Gemini's texts are collected in one.  Each call is of a tool it declared, in the kind the
\* upstream called it, under an identifier of its own.
AnswersComeBack ==
  Asking /\ transcript # <<>> =>
    LET heard == Last(transcript).parts
        aloud == Serials(answer, LAMBDA p : p.kind # "thinking")
        calls == SelectSeq(heard, IsCall)
        meant == SelectSeq(answer, IsCall)
        all == SelectSeq(Conversation(transcript), IsCall)
    IN /\ SelectSeq(DataOf(heard), LAMBDA s : s \in aloud)
            \in {DataOf(Thoughtless(answer)), Texts(answer) \o DataOf(meant)}
       /\ Len(calls) = Len(meant)
       /\ \A i \in DOMAIN calls :
            /\ \E t \in Declared : t.name = calls[i].name
            /\ meant[i].name \in {calls[i].name, ToUpstream(calls[i].name)}
            /\ calls[i].style = meant[i].style
       /\ \A i, j \in DOMAIN all : i # j => all[i].id # all[j].id
=============================================================================
