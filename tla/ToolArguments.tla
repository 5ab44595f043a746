---------------------------- MODULE ToolArguments ----------------------------
(***************************************************************************)
(* Normalization of tool arguments against the schemas of the request:     *)
(* src/internal/translation/toolarguments/toolarguments.go.                *)
(*                                                                         *)
(* The stream normalizer is a filter between the provider and the handler. *)
(* It holds back the arguments of every tool it may have to change, one    *)
(* buffer per block index, and lets them go in one delta when the call is  *)
(* known to be complete.                                                   *)
(***************************************************************************)
EXTENDS Canonical

Normalizable(name) == name = Loose

NormalizeJSON(data, name) ==
  IF Normalizable(name) /\ IsComplete(data)
  THEN Picked(data, {k \in DOMAIN data : data[k] # Blank})
  ELSE data

NormalizeResponse(response) ==
  [response EXCEPT !.content =
     [i \in DOMAIN @ |-> IF @[i].kind = "tool"
                         THEN [@[i] EXCEPT !.data = NormalizeJSON(@, response.content[i].name)]
                         ELSE @[i]]]

NormalizerInit == [buffers |-> <<>>, passThrough |-> {}, nextOrder |-> 0]

Buffer(name, id, data, order, sawDelta) ==
  [name |-> name, id |-> id, data |-> data, order |-> order, sawDelta |-> sawDelta]

\* What flushing the buffer of an index sends.
Flushed(n, i) ==
  IF i \in DOMAIN n.buffers /\ n.buffers[i].sawDelta
  THEN <<ContentDelta(i, None, "arguments", NormalizeJSON(n.buffers[i].data, n.buffers[i].name))>>
  ELSE <<>>

FlushedAll(n) ==
  FlattenSeq([k \in 1..Cardinality(DOMAIN n.buffers) |->
    Flushed(n, CHOOSE i \in DOMAIN n.buffers :
                 Cardinality({j \in DOMAIN n.buffers :
                                n.buffers[j].order < n.buffers[i].order}) = k - 1)])

\* A block announced at an index: what happens to the buffer there.
Announced(n, e) ==
  LET i == e.index
      old == IF i \in DOMAIN n.buffers THEN n.buffers[i] ELSE None
      out == Flushed(n, i)
      flushed == Without(n.buffers, {i})
      fresh == Buffer(e.block.name, e.block.id, <<>>, n.nextOrder, FALSE)
  IN CASE e.block.kind # "tool" ->
            [state |-> [n EXCEPT !.buffers = flushed, !.passThrough = @ \ {i}], events |-> out]
       [] e.block.kind = "tool" /\ ~Normalizable(e.block.name) ->
            [state |-> [n EXCEPT !.buffers = flushed, !.passThrough = @ \cup {i}], events |-> out]
       [] OTHER ->
            IF old # None /\ (old.name = None \/ (old.name = e.block.name /\ old.id = e.block.id))
            THEN [state |-> [n EXCEPT !.passThrough = @ \ {i},
                                      !.buffers = With(@, i, [old EXCEPT !.name = e.block.name,
                                                                         !.id = e.block.id])],
                  events |-> <<>>]
            ELSE [state |-> [n EXCEPT !.passThrough = @ \ {i},
                                      !.buffers = With(flushed, i, fresh),
                                      !.nextOrder = @ + 1],
                  events |-> out]

\* Slip: the buffer of an index is replaced by each delta instead of growing.
HeldLast(n, e) ==
  LET i == e.index
      old == IF i \in DOMAIN n.buffers THEN n.buffers[i]
             ELSE Buffer(None, None, <<>>, n.nextOrder, FALSE)
  IN IF e.delta # "arguments" \/ i \in n.passThrough
     THEN [state |-> n, events |-> <<e>>]
     ELSE [state |-> [n EXCEPT !.buffers = With(@, i, [old EXCEPT !.data = e.data, !.sawDelta = TRUE])],
           events |-> <<[e EXCEPT !.delta = None, !.data = <<>>]>>]

\* Arguments are taken into the buffer; the event goes on without its delta.
Held(n, e) ==
  LET i == e.index
      known == i \in DOMAIN n.buffers
      old == IF known THEN n.buffers[i] ELSE Buffer(None, None, <<>>, n.nextOrder, FALSE)
  IN IF e.delta # "arguments" \/ i \in n.passThrough
     THEN [state |-> n, events |-> <<e>>]
     ELSE [state |-> [n EXCEPT !.buffers = With(@, i, [old EXCEPT !.data = @ \o e.data,
                                                                  !.sawDelta = TRUE]),
                               !.nextOrder = IF known THEN @ ELSE @ + 1],
           events |-> <<[e EXCEPT !.delta = None, !.data = <<>>]>>]

\* One event of the input; [state, events] is the filter's new state and its output.
NormalizeEvent(n, e) ==
  CASE e.type = "content_delta" ->
         LET a == IF e.block = None THEN [state |-> n, events |-> <<>>] ELSE Announced(n, e)
             d == Held(a.state, e)
         IN [state |-> d.state, events |-> a.events \o d.events]
    [] e.type = "content_block_stop" ->
         [state |-> [n EXCEPT !.buffers = Without(@, {e.index}), !.passThrough = @ \ {e.index}],
          events |-> Append(Flushed(n, e.index), e)]
    [] e.type \in {"stream_end", "stream_error"} ->
         [state |-> [n EXCEPT !.buffers = <<>>], events |-> Append(FlushedAll(n), e)]
    [] OTHER -> [state |-> n, events |-> <<e>>]
=============================================================================
