------------------------------ MODULE Canonical ------------------------------
(***************************************************************************)
(* The canonical intermediate format of src/internal/cif/types.go, as far  *)
(* as the streaming path uses it.  Text and arguments are sequences of     *)
(* tokens; a token stands for a piece of text nobody splits.               *)
(*                                                                         *)
(* Blank is the piece of a JSON object that gives an optional property the *)
(* empty string, Whole the brace that completes the object.                *)
(***************************************************************************)
EXTENDS Integers, FiniteSets, SequencesExt

CONSTANTS
  None,
  Blank, Whole,
  Loose,     \* a tool whose schema has optional properties
  Strict,    \* a tool whose arguments are not normalized
  Custom     \* a custom tool: raw input instead of JSON

Tokens == Nat \cup {Blank, Whole}
Names == {Loose, Strict, Custom}

Words == {"text", "thinking", "arguments", "input", "tool",
          "end_turn", "max_tokens", "tool_use", "content_filter",
          "stop", "length", "tool_calls", "incomplete", "completed"}

ASSUME CanonicalAssumption ==
  /\ Loose # Strict /\ Loose # Custom /\ Strict # Custom
  /\ Blank # Whole /\ Blank \notin Nat /\ Whole \notin Nat
  /\ None \notin Int \cup Names \cup Words
  /\ None \notin [kind : Words, id : Int \cup {None}, name : Names \cup {None}, data : Seq(Tokens)]

\* Content parts.  In an announcement the data is what the block carries along.
Part(kind, id, name, data) == [kind |-> kind, id |-> id, name |-> name, data |-> data]
TextPart(data) == Part("text", None, None, data)
ThinkingPart(data) == Part("thinking", None, None, data)
ToolCallPart(id, name, data) == Part("tool", id, name, data)

ArgumentsKind(name) == IF name = Custom THEN "input" ELSE "arguments"

\* Stream events.  The delta of a ContentDelta is its kind, None for a nil Delta.
Event(type, index, block, delta, data, reason) ==
  [type |-> type, index |-> index, block |-> block, delta |-> delta, data |-> data,
   reason |-> reason]

StreamStart == Event("stream_start", None, None, None, <<>>, None)
ContentDelta(index, block, delta, data) ==
  Event("content_delta", index, block, delta, data, None)
ContentBlockStop(index) == Event("content_block_stop", index, None, None, <<>>, None)
StreamEnd(reason) == Event("stream_end", None, None, None, <<>>, reason)
StreamError == Event("stream_error", None, None, None, <<>>, None)

StopReasons == {"end_turn", "max_tokens", "tool_use", "content_filter"}

\* A canonical response, and what a part of it looks like as one event.
Response(content, reason) == [content |-> content, reason |-> reason]

With(f, i, v) == [j \in DOMAIN f \cup {i} |-> IF j = i THEN v ELSE f[j]]
Without(f, S) == [i \in DOMAIN f \ S |-> f[i]]

\* The n-th smallest number of a set, and what a sequence has at a set of positions, in order.
NthSmallest(I, n) == CHOOSE i \in I : Cardinality({j \in I : j <= i}) = n
Picked(s, I) == [n \in 1..Cardinality(I) |-> s[NthSmallest(I, n)]]

PlacesOf(parts, kind) == {i \in DOMAIN parts : parts[i].kind = kind}
Calls(content) == Picked(content, PlacesOf(content, "tool"))
IsComplete(data) == data = <<>> \/ Last(data) = Whole
=============================================================================
