---------------------------- MODULE CachedResponse ----------------------------
(***************************************************************************)
(* How the response cache turns streams into responses and back:           *)
(* src/internal/lib/responsecache/stream.go and the conversions of         *)
(* responsecache.go.                                                       *)
(***************************************************************************)
EXTENDS Canonical

AccumulatorInit == [blocks |-> <<>>, open |-> <<>>, reason |-> None, errored |-> FALSE, ended |-> FALSE]

\* Blocks collect what came in deltas (data) apart from what was announced (args).
Accumulating(kind, id, name) == [kind |-> kind, id |-> id, name |-> name, data |-> <<>>, args |-> <<>>]

OpenBlockAt(a, i) == IF i \in DOMAIN a.open THEN a.blocks[a.open[i]] ELSE None

NewBlockAt(a, i, b) ==
  [a EXCEPT !.blocks = Append(@, b),
            !.open = With(@, i, Len(a.blocks) + 1)]

\* The open block of a kind at an index, made if there is none.
EnsureBlock(a, i, kind) ==
  LET old == OpenBlockAt(a, i)
  IN IF old # None /\ old.kind = kind THEN a ELSE NewBlockAt(a, i, Accumulating(kind, None, None))

\* A call at an index is reused by an announcement that does not contradict it.
EnsureTool(a, i, block) ==
  LET old == OpenBlockAt(a, i)
      fits == /\ old # None /\ old.kind = "tool"
              /\ old.id \in {None, block.id} /\ old.name \in {None, block.name}
      t == IF fits THEN a ELSE NewBlockAt(a, i, Accumulating("tool", None, None))
      k == t.open[i]
      tool == [t.blocks[k] EXCEPT !.id = block.id, !.name = block.name,
                                  !.args = IF block.data = <<>> THEN @ ELSE block.data]
  IN [t EXCEPT !.blocks[k] = tool]

DeltaKind(delta) == IF delta \in {"arguments", "input"} THEN "tool" ELSE delta

ObserveDelta(a, e) ==
  LET t == IF e.block = None THEN a
           ELSE IF e.block.kind = "tool" THEN EnsureTool(a, e.index, e.block)
           ELSE EnsureBlock(a, e.index, e.block.kind)
      u == EnsureBlock(t, e.index, DeltaKind(e.delta))
  IN IF e.delta = None THEN t ELSE [u EXCEPT !.blocks[u.open[e.index]].data = @ \o e.data]

Observe(a, e) ==
  CASE e.type = "content_delta" -> ObserveDelta(a, e)
    [] e.type = "content_block_stop" -> [a EXCEPT !.open = Without(@, {e.index})]
    [] e.type = "stream_end" -> [a EXCEPT !.ended = TRUE, !.reason = e.reason]
    [] e.type = "stream_error" -> [a EXCEPT !.errored = TRUE]
    [] OTHER -> a

\* Arguments that are not a JSON object become the empty object; raw input is kept.
DecodeToolArgs(data, name) == IF name = Custom \/ IsComplete(data) THEN data ELSE <<>>

\* Slip: a stream that did not end is assembled as far as it got.
AssembledEarly(a) ==
  IF a.blocks = <<>> THEN None
  ELSE Response([k \in DOMAIN a.blocks |->
         Part(a.blocks[k].kind, a.blocks[k].id, a.blocks[k].name, a.blocks[k].data)], "end_turn")

\* The assembled response, None if the stream failed, never ended or was empty.
Assembled(a) ==
  IF a.errored \/ ~a.ended \/ a.blocks = <<>> THEN None
  ELSE Response([k \in DOMAIN a.blocks |->
         LET b == a.blocks[k]
         IN Part(b.kind, b.id, b.name,
                 IF b.kind # "tool" THEN b.data
                 ELSE IF b.data = <<>> THEN b.args ELSE DecodeToolArgs(b.data, b.name))], a.reason)

\* Slip: the announcement carries the data, and no delta repeats it.
ReplayedInBlock(part, i) == <<ContentDelta(i, part, None, <<>>), ContentBlockStop(i)>>

\* A response as a stream: for every part one event with its announcement and all
\* of its data, and its stop.
Replayed(part, i) ==
  LET delta == IF part.kind = "tool" THEN ArgumentsKind(part.name) ELSE part.kind
  IN <<ContentDelta(i, [part EXCEPT !.data = <<>>], delta, part.data), ContentBlockStop(i)>>

SynthesizeStream(response) ==
  <<StreamStart>>
  \o FlattenSeq([i \in DOMAIN response.content |-> Replayed(response.content[i], i - 1)])
  \o <<StreamEnd(response.reason)>>

=============================================================================
