------------------------------- MODULE RedisStore -------------------------------
(***************************************************************************)
(* The Redis side of the response cache (internal/lib/responsecache/       *)
(* redis_store.go): commands under a deadline, a circuit that opens on a   *)
(* failure and lets one probe through after a cooldown, the recovery loop, *)
(* clearing, and closing.  Redis itself is external: it may be out of      *)
(* reach, and it may execute a script whose caller has given up on it.     *)
(* Every critical section of stateMu is one step; clearMu is held by the   *)
(* commands that are past their lock.                                      *)
(***************************************************************************)
EXTENDS Naturals, FiniteSets

CONSTANTS Callers,      \* goroutines with one command each
          Earlier,      \* entries that are there from the start
          MaxOutages    \* how often Redis goes out of reach

\* Every save has a key of its own.
ASSUME RedisAssumption == Callers \cap Earlier = {} /\ MaxOutages \in Nat

Operations == {"read", "save", "clear", "ping"}
Holding == {"sent", "executed", "scanned"}

VARIABLES circuit,    \* available, probing, cooling (nextProbe is in the future), closed
          command,    \* per caller: the operation and where it is
          loop,       \* the recovery loop
          closer,     \* the goroutine that calls Close
          reachable,  \* external: Redis answers
          outages,
          delayed,    \* external: scripts that Redis may execute though nobody waits
          entries,    \* external: saves whose entry is in Redis (each has its own key)
          forgotten   \* history: saves that had succeeded when a clear did

redisVars == <<circuit, command, loop, closer, reachable, outages, delayed, entries, forgotten>>

RedisTypeOK ==
  /\ circuit \in [available : BOOLEAN, probing : BOOLEAN, cooling : BOOLEAN, closed : BOOLEAN]
  /\ command \in [Callers -> [op : Operations,
                              at : Holding \cup {"out", "waiting", "refused", "failed", "succeeded"}]]
  /\ loop \in {"waiting", "pinging", "stopped"}
  /\ closer \in {"out", "stopping", "closed"}
  /\ reachable \in BOOLEAN /\ outages \in 0..MaxOutages
  /\ delayed \subseteq Callers
  /\ {entries, forgotten} \subseteq SUBSET (Callers \cup Earlier)

RedisInit ==
  /\ circuit = [available |-> TRUE, probing |-> FALSE, cooling |-> FALSE, closed |-> FALSE]
  /\ command = [c \in Callers |-> [op |-> "read", at |-> "out"]]
  /\ loop = "waiting" /\ closer = "out"
  /\ reachable = TRUE /\ outages = 0
  /\ delayed = {} /\ entries = Earlier /\ forgotten = {}

\* Scripts reach Redis and answers come back.
Connected == reachable /\ closer # "closed"

\* beginCommand's answer: an open circuit lets one command through after its cooldown.
Admitted == ~circuit.closed /\ (circuit.available \/ (~circuit.probing /\ ~circuit.cooling))
Begun == IF circuit.available THEN circuit ELSE [circuit EXCEPT !.probing = TRUE]

\* Slip: the caller that gave up leaves the probe marked.
FinishedUnmarked(ok, canceled) ==
  IF ~ok /\ canceled THEN circuit
  ELSE [circuit EXCEPT !.available = ok, !.probing = FALSE, !.cooling = ~ok]

\* finishCommand: the circuit takes the outcome of every command, however old it is; a
\* failure whose caller had gone says nothing of Redis and only ends the probe.
Finished(ok, canceled) ==
  IF ~ok /\ canceled THEN [circuit EXCEPT !.probing = FALSE]
  ELSE [circuit EXCEPT !.available = ok, !.probing = FALSE, !.cooling = ~ok]

\* Slip: a clear shares the lock.
LockShared(op) == TRUE

\* clearMu is free for a command: readers share it, a clear has it alone.
LockFree(op) ==
  LET holders == {c \in Callers : command[c].at \in Holding /\ command[c].op # "ping"}
  IN \A c \in holders : "clear" \notin {op, command[c].op}

\* A caller starts a command.  Ping looks at closed only and goes past an open circuit.
Begin(c, op) ==
  LET past == IF op = "ping" THEN ~circuit.closed ELSE Admitted
  IN /\ command[c].at = "out"
     /\ command' = [command EXCEPT ![c] =
          [op |-> op, at |-> IF ~past THEN "refused" ELSE IF op = "ping" THEN "sent" ELSE "waiting"]]
     /\ circuit' = IF past /\ op # "ping" THEN Begun ELSE circuit
     /\ UNCHANGED <<loop, closer, reachable, outages, delayed, entries, forgotten>>

\* It has its lock and sends its first script.
Send(c) ==
  /\ command[c].at = "waiting" /\ LockFree(command[c].op)
  /\ command' = [command EXCEPT ![c].at = "sent"]
  /\ UNCHANGED <<circuit, loop, closer, reachable, outages, delayed, entries, forgotten>>

\* Redis executes the script of a read, a save or a ping.
Execute(c) ==
  /\ command[c].at = "sent" /\ command[c].op # "clear" /\ Connected
  /\ command' = [command EXCEPT ![c].at = "executed"]
  /\ entries' = IF command[c].op = "save" THEN entries \cup {c} ELSE entries
  /\ UNCHANGED <<circuit, loop, closer, reachable, outages, delayed, forgotten>>

\* A clear scans; it deletes what a pass discovers and scans again, until a whole pass
\* discovers nothing.  A pass may miss what is there if it also deletes.
Scan(c) ==
  /\ command[c].at = "sent" /\ command[c].op = "clear" /\ Connected
  /\ IF entries = {}
     THEN /\ command' = [command EXCEPT ![c].at = "scanned"]
          /\ UNCHANGED entries
     ELSE /\ \E found \in SUBSET entries : found # {} /\ entries' = entries \ found
          /\ UNCHANGED command
  /\ UNCHANGED <<circuit, loop, closer, reachable, outages, delayed, forgotten>>

\* The answer arrives.
Succeed(c) ==
  /\ command[c].at \in {"executed", "scanned"} /\ Connected
  /\ circuit' = Finished(TRUE, FALSE)
  /\ command' = [command EXCEPT ![c].at = "succeeded"]
  /\ forgotten' = IF command[c].op # "clear" THEN forgotten
                  ELSE forgotten \cup Earlier \cup {s \in Callers : command[s] = [op |-> "save", at |-> "succeeded"]}
  /\ UNCHANGED <<loop, closer, reachable, outages, delayed, entries>>

\* Or an error does: the deadline, the connection, or the caller's own end.  A script
\* that was sent may still be on its way.
Fail(c) ==
  /\ command[c].at \in Holding
  /\ \E canceled \in BOOLEAN : circuit' = Finished(FALSE, canceled)
  /\ \E onItsWay \in BOOLEAN :
       delayed' = IF onItsWay /\ command[c] = [op |-> "save", at |-> "sent"]
                  THEN delayed \cup {c} ELSE delayed
  /\ command' = [command EXCEPT ![c].at = "failed"]
  /\ UNCHANGED <<loop, closer, reachable, outages, entries, forgotten>>

\* External: Redis executes a script late.
ExecuteLate(c) ==
  /\ c \in delayed /\ reachable
  /\ delayed' = delayed \ {c} /\ entries' = entries \cup {c}
  /\ UNCHANGED <<circuit, command, loop, closer, reachable, outages, forgotten>>

\* The recovery loop probes an open circuit.
Probe ==
  /\ loop = "waiting" /\ ~circuit.available /\ Admitted
  /\ circuit' = Begun /\ loop' = "pinging"
  /\ UNCHANGED <<command, closer, reachable, outages, delayed, entries, forgotten>>

Probed ==
  /\ loop = "pinging"
  /\ circuit' = Finished(reachable, FALSE) /\ loop' = "waiting"
  /\ UNCHANGED <<command, closer, reachable, outages, delayed, entries, forgotten>>

\* nextProbe passes.
Cool ==
  /\ circuit.cooling
  /\ circuit' = [circuit EXCEPT !.cooling = FALSE]
  /\ UNCHANGED <<command, loop, closer, reachable, outages, delayed, entries, forgotten>>

\* Close marks the store, waits for the loop to leave, and closes the client.
Close ==
  /\ closer = "out"
  /\ circuit' = [circuit EXCEPT !.closed = TRUE, !.available = FALSE]
  /\ closer' = "stopping"
  /\ UNCHANGED <<command, loop, reachable, outages, delayed, entries, forgotten>>

LeaveLoop ==
  /\ closer = "stopping" /\ loop = "waiting"
  /\ loop' = "stopped"
  /\ UNCHANGED <<circuit, command, closer, reachable, outages, delayed, entries, forgotten>>

ClientClosed ==
  /\ closer = "stopping" /\ loop = "stopped"
  /\ closer' = "closed"
  /\ UNCHANGED <<circuit, command, loop, reachable, outages, delayed, entries, forgotten>>

\* External: Redis goes out of reach and comes back.
Outage ==
  /\ reachable /\ outages < MaxOutages
  /\ reachable' = FALSE /\ outages' = outages + 1
  /\ UNCHANGED <<circuit, command, loop, closer, delayed, entries, forgotten>>
Reconnect ==
  /\ ~reachable /\ reachable' = TRUE
  /\ UNCHANGED <<circuit, command, loop, closer, outages, delayed, entries, forgotten>>

CommandStep(c) == Send(c) \/ Execute(c) \/ Scan(c) \/ Succeed(c) \/ Fail(c)
LoopStep == Probe \/ Probed \/ LeaveLoop
RedisNext ==
  \/ \E c \in Callers : (\E op \in Operations : Begin(c, op)) \/ CommandStep(c) \/ ExecuteLate(c)
  \/ LoopStep \/ Cool \/ Close \/ ClientClosed \/ Outage \/ Reconnect

\* Commands have deadlines, the loop has a ticker and the cooldown passes.  Nothing says
\* that Redis comes back.
RedisFairness ==
  /\ WF_redisVars(\E c \in Callers : CommandStep(c))
  /\ WF_redisVars(LoopStep) /\ WF_redisVars(Cool) /\ WF_redisVars(ClientClosed)

RedisSpec == RedisInit /\ [][RedisNext]_redisVars /\ RedisFairness

\* CLEAR.  When a clear succeeds, every entry whose save had succeeded is gone, the saves
\* that ran beside it included, and it stays gone.  (A save that was given up on may
\* still arrive later: it never succeeded.)
ClearForgets == entries \cap forgotten = {}

\* CIRCUIT.  Once Redis answers again and keeps answering, the store is used again without
\* a restart: whatever probes were canceled, and however late old failures arrive.
CircuitRecovers == <>[]reachable => <>[](circuit.available \/ circuit.closed)
=============================================================================
