------------------------------ MODULE Transcripts ------------------------------
(***************************************************************************)
(* A conversation as the client of one dialect keeps it, and the request   *)
(* body it writes it into.  Clients are outside this repository; what they *)
(* write is what the ingestion of src/internal/ingestion reads.            *)
(*                                                                         *)
(* Data is a sequence of serial numbers, one for each text, picture, call  *)
(* or result of the conversation: joined texts are a longer sequence.  An  *)
(* identifier is a number and the prefixes it was given.                   *)
(***************************************************************************)
EXTENDS Integers, SequencesExt

\* A client of "responses_lite" declares its tools in an item of the input.
Dialects == {"chat", "messages", "responses", "responses_lite"}
IsResponses(dialect) == dialect \in {"responses", "responses_lite"}

NoId == [n |-> 0, form |-> <<>>]

\* Tools, and which of them the model must call: any ("required"), one ("function"), or
\* nothing is said.
Tool(name, style) == [name |-> name, style |-> style]
Choice(mode, name) == [mode |-> mode, name |-> name]
NoChoice == Choice("", "")

\* Parts: cif.CIFTextPart and its siblings.
Said(d) == [kind |-> "text", data |-> d]
Thought(d) == [kind |-> "thinking", data |-> d]
Picture(d, as) == [kind |-> "image", data |-> d, as |-> as]
Call(id, name, d, style) ==
  [kind |-> "call", id |-> id, name |-> name, data |-> d, style |-> style]
Result(id, name, d, style) ==
  [kind |-> "result", id |-> id, name |-> name, data |-> d, style |-> style]

Turn(role, parts) == [role |-> role, parts |-> parts]

IsCall(p) == p.kind = "call"
IsResult(p) == p.kind = "result"
IsSpeech(p) == p.kind \notin {"call", "result"}

Mapped(parts, F(_)) == [i \in DOMAIN parts |-> F(parts[i])]
Texts(parts) == FlattenSeq(Mapped(SelectSeq(parts, LAMBDA p : p.kind = "text"), LAMBDA p : p.data))
SayIf(d) == IF d = <<>> THEN <<>> ELSE <<Said(d)>>
TurnIf(role, parts) == IF parts = <<>> THEN <<>> ELSE <<Turn(role, parts)>>
Alone(role, parts) == Mapped(parts, LAMBDA p : Turn(role, <<p>>))

\* One item for each call or result, and one message for what stands between them.
Items(turn) ==
  LET Add(items, p) ==
        IF ~IsSpeech(p) THEN Append(items, Turn(p.kind, <<p>>))
        ELSE IF items # <<>> /\ Last(items).role = turn.role
             THEN Append(Front(items), Turn(turn.role, Append(Last(items).parts, p)))
             ELSE Append(items, Turn(turn.role, <<p>>))
  IN FoldLeft(Add, <<>>, turn.parts)

Unnamed(p) == IF IsResult(p) THEN [p EXCEPT !.name = ""] ELSE p

\* No dialect's client says which tool a result is of, and only Messages have a field for
\* the bytes of a picture: the others' is a data: URL.
OnWire(dialect, p) ==
  IF p.kind = "image" /\ p.as = "bytes" /\ dialect # "messages"
  THEN [p EXCEPT !.as = "data"] ELSE Unnamed(p)

ChatTurn(t) ==
  Alone("tool", SelectSeq(t.parts, IsResult))
    \o TurnIf(t.role, SelectSeq(t.parts, LAMBDA p : ~IsResult(p)))

WireTurn(dialect, turn) ==
  LET t == Turn(turn.role, Mapped(turn.parts, LAMBDA p : OnWire(dialect, p)))
  IN CASE dialect = "chat" -> ChatTurn(t)
       [] dialect = "messages" -> <<t>>
       [] IsResponses(dialect) -> Items(t)

\* How each dialect writes the choice: its type, and the name inside a function object or
\* beside the type.
WireChoice(dialect, c) ==
  LET type == CASE dialect = "messages" /\ c.mode = "required" -> "any"
                [] dialect = "messages" /\ c.mode = "function" -> "tool"
                [] OTHER -> c.mode
  IN [type |-> type,
      function |-> IF dialect = "chat" THEN c.name ELSE "",
      name |-> IF dialect = "chat" THEN "" ELSE c.name]

\* The body: the system field or the instructions, the messages or the input, the tools.
BodyOf(dialect, transcript, tools, choice) ==
  LET apart == dialect # "chat" /\ transcript # <<>> /\ transcript[1].role = "system"
      rest == IF apart THEN Tail(transcript) ELSE transcript
      lite == dialect = "responses_lite"
      declared == IF lite THEN <<Turn("additional_tools", SetToSeq(tools))>> ELSE <<>>
  IN [system |-> IF apart THEN Texts(transcript[1].parts) ELSE <<>>,
      items |-> declared \o FlattenSeq(Mapped(rest, LAMBDA t : WireTurn(dialect, t))),
      tools |-> IF lite THEN {} ELSE tools,
      choice |-> WireChoice(dialect, choice)]
=============================================================================
