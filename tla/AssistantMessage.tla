--------------------------- MODULE AssistantMessage ---------------------------
(***************************************************************************)
(* What every dialect promises the client about one streamed message.      *)
(*                                                                         *)
(* The message begins, consists of blocks that are opened one after the    *)
(* other, grow only at their end and only while they are open, and is      *)
(* concluded once: with a stop reason, when every block is closed.  Two    *)
(* calls never share an identifier.  An error may come at any time before  *)
(* that; nothing is added to a message that failed, though it may still be *)
(* concluded.                                                              *)
(***************************************************************************)
EXTENDS Naturals, Sequences

CONSTANTS
  Kinds,    \* kinds of blocks, "tool" among them
  Ids,      \* identifiers of calls
  Names,    \* names of tools
  Tokens,   \* what text and arguments are made of
  Reasons,  \* stop reasons
  None

VARIABLES phase, blocks, reason, failed

messageVars == <<phase, blocks, reason, failed>>

Phases == {"idle", "open", "concluded", "done", "left"}
Blocks == [kind : Kinds, id : Ids \cup {None}, name : Names \cup {None},
           data : Seq(Tokens), open : BOOLEAN]

MessageInit == phase = "idle" /\ blocks = <<>> /\ reason = None /\ failed = FALSE

Begin ==
  /\ phase = "idle" /\ phase' = "open"
  /\ UNCHANGED <<blocks, reason, failed>>

\* The new block is the last of blocks'.
OpenBlock ==
  /\ phase = "open" /\ ~failed
  /\ blocks' \in Seq(Blocks)
  /\ Len(blocks') = Len(blocks) + 1
  /\ SubSeq(blocks', 1, Len(blocks)) = blocks
  /\ LET new == blocks'[Len(blocks')]
     IN /\ new.open
        /\ new.id # None => \A i \in DOMAIN blocks : blocks[i].id # new.id
  /\ UNCHANGED <<phase, reason, failed>>

Extends(new, old) == Len(new) >= Len(old) /\ SubSeq(new, 1, Len(old)) = old

Grow(i) ==
  /\ phase = "open" /\ ~failed
  /\ blocks[i].open
  /\ blocks' \in Seq(Blocks)
  /\ blocks' = [blocks EXCEPT ![i].data = blocks'[i].data]
  /\ Extends(blocks'[i].data, blocks[i].data)
  /\ UNCHANGED <<phase, reason, failed>>

Close(i) ==
  /\ phase = "open"
  /\ blocks[i].open
  /\ blocks' = [blocks EXCEPT ![i].open = FALSE]
  /\ UNCHANGED <<phase, reason, failed>>

\* Some dialects have no event of their own for the end of a block.
Conclude(r) ==
  /\ phase = "open"
  /\ phase' \in {"concluded", "done"}
  /\ blocks' = [i \in DOMAIN blocks |-> [blocks[i] EXCEPT !.open = FALSE]]
  /\ reason' = r
  /\ UNCHANGED failed

Finish ==
  /\ phase = "concluded" /\ phase' = "done"
  /\ UNCHANGED <<blocks, reason, failed>>

Fail ==
  /\ phase \in {"idle", "open"} /\ failed' = TRUE
  /\ UNCHANGED <<phase, blocks, reason>>

\* The client leaves and drops what it has.
Abandon ==
  /\ phase # "left" /\ phase' = "left"
  /\ blocks' = <<>> /\ reason' = None /\ failed' = FALSE

MessageNext ==
  \/ Begin \/ OpenBlock \/ Finish \/ Fail \/ Abandon
  \/ \E i \in DOMAIN blocks : Grow(i) \/ Close(i)
  \/ \E r \in Reasons : Conclude(r)

MessageSpec == MessageInit /\ [][MessageNext]_messageVars
=============================================================================
