---------------------------- MODULE ClientMessage ----------------------------
(***************************************************************************)
(* The message a client assembles from what it reads.  The clients are not *)
(* part of this repository; they are modelled after the wire formats the   *)
(* serializers speak.  A message whose protocol is violated is "broken".   *)
(***************************************************************************)
EXTENDS Canonical

EmptyMessage == [phase |-> "idle", blocks |-> <<>>, reason |-> None, failed |-> FALSE]

Break(m) == [m EXCEPT !.phase = "broken"]

Started(m) == IF m.phase = "idle" THEN [m EXCEPT !.phase = "open"] ELSE Break(m)

NewBlock(kind, id, name, data) ==
  [kind |-> kind, id |-> id, name |-> name, data |-> data, open |-> TRUE]

Opened(m, b) ==
  IF m.phase = "open" THEN [m EXCEPT !.blocks = Append(@, b)] ELSE Break(m)

Grown(m, i, data) ==
  IF m.phase = "open" /\ i \in DOMAIN m.blocks /\ m.blocks[i].open
  THEN [m EXCEPT !.blocks[i].data = @ \o data]
  ELSE Break(m)

Closed(m, i) ==
  IF m.phase = "open" /\ i \in DOMAIN m.blocks /\ m.blocks[i].open
  THEN [m EXCEPT !.blocks[i].open = FALSE]
  ELSE Break(m)

AllClosed(m) == \A i \in DOMAIN m.blocks : ~m.blocks[i].open

ClosedAll(m) == [m EXCEPT !.blocks = [i \in DOMAIN @ |-> [@[i] EXCEPT !.open = FALSE]]]

Failed(m) == IF m.phase \in {"idle", "open"} THEN [m EXCEPT !.failed = TRUE] ELSE Break(m)

\* The position of the n-th block of a kind, counted from 1.
NthOf(m, kind, n) == NthSmallest(PlacesOf(m.blocks, kind), n)
CountOf(m, kind) == Cardinality(PlacesOf(m.blocks, kind))

\* What a message says, put together per kind of block.
DataOf(blocks, kind) ==
  FlattenSeq([i \in DOMAIN blocks |-> IF blocks[i].kind = kind THEN blocks[i].data ELSE <<>>])

CallsOf(blocks) ==
  LET calls == Calls(blocks)
  IN [i \in DOMAIN calls |-> ToolCallPart(calls[i].id, calls[i].name, calls[i].data)]
=============================================================================
