-------------------------- MODULE ResponseCacheProofs --------------------------
(***************************************************************************)
(* What holds for the response cache, for any number of callers, entries   *)
(* and outages of Redis, and of requests and messages:                     *)
(*   - what a clear has removed stays removed;                             *)
(*   - an answer is to the question that was asked, and a conversation     *)
(*     goes where its kept prefix is.                                      *)
(***************************************************************************)
EXTENDS RedisStore, CacheIdentity, SequenceTheorems, WellFoundedInduction, TLAPS

Commands == [op : Operations, at : Holding \cup {"out", "waiting", "refused", "failed", "succeeded"}]
Save(c, place) == command[c].op = "save" /\ command[c].at = place
Locks(c) == command[c].at \in Holding /\ command[c].op # "ping"

\* A save that a clear forgot had succeeded, one that is still on its way was given up on.
ForgottenWereSaved == forgotten \subseteq Earlier \cup {c \in Callers : Save(c, "succeeded")}
DelayedWereGivenUp == \A c \in delayed : Save(c, "failed")

\* clearMu: beside a clear nobody is past the lock.
ClearIsAlone == \A c, d \in Callers : Locks(c) /\ Locks(d) /\ c # d => "clear" \notin {command[c].op, command[d].op}

\* Only a clear scans; after its empty pass only what was given up on can arrive.
ScannedIsEmpty ==
  \A c \in Callers :
    /\ command[c].at = "executed" => command[c].op # "clear"
    /\ command[c].at = "scanned" =>
         command[c].op = "clear" /\ \A e \in entries : e \in Callers /\ Save(e, "failed")

RedisSafe ==
  /\ RedisTypeOK
  /\ ForgottenWereSaved
  /\ DelayedWereGivenUp
  /\ ClearIsAlone
  /\ ScannedIsEmpty
  /\ ClearForgets

LEMMA RedisInitSafe == RedisInit => RedisSafe
  <1> SUFFICES ASSUME RedisInit PROVE RedisSafe
    OBVIOUS
  <1> USE RedisAssumption DEF RedisInit
  <1>1. RedisTypeOK
    <2>1. circuit \in [available : BOOLEAN, probing : BOOLEAN, cooling : BOOLEAN, closed : BOOLEAN]
      OBVIOUS
    <2>2. command \in [Callers -> Commands]
      BY DEF Commands, Operations
    <2>3. reachable \in BOOLEAN
      BY Zenon
    <2>4. outages \in 0..MaxOutages
      OBVIOUS
    <2> QED
      BY <2>1, <2>2, <2>3, <2>4 DEF RedisTypeOK, Commands
  <1>2. \A c \in Callers : command[c].at = "out"
    OBVIOUS
  <1>3. ForgottenWereSaved /\ DelayedWereGivenUp /\ ClearForgets
    BY DEF ForgottenWereSaved, DelayedWereGivenUp, ClearForgets
  <1>4. ClearIsAlone /\ ScannedIsEmpty
    BY <1>2 DEF ClearIsAlone, Locks, Holding, ScannedIsEmpty
  <1> QED
    BY <1>1, <1>3, <1>4 DEF RedisSafe

\* The circuit after a command is a circuit.
Circuits == [available : BOOLEAN, probing : BOOLEAN, cooling : BOOLEAN, closed : BOOLEAN]
LEMMA CircuitTypes ==
  ASSUME circuit \in Circuits
  PROVE  /\ Begun \in Circuits /\ \A ok, canceled \in BOOLEAN : Finished(ok, canceled) \in Circuits
         /\ [circuit EXCEPT !.cooling = FALSE] \in Circuits
         /\ [circuit EXCEPT !.closed = TRUE, !.available = FALSE] \in Circuits
  BY DEF Circuits, Begun, Finished

\* A command that goes on stays the operation it is.
MovesTo(c, place) == command' = [command EXCEPT ![c].at = place]
LEMMA CommandMoves ==
  ASSUME RedisTypeOK, NEW c \in Callers,
         NEW place \in Holding \cup {"out", "waiting", "refused", "failed", "succeeded"}, MovesTo(c, place)
  PROVE  /\ command' \in [Callers -> Commands]
         /\ command'[c].op = command[c].op /\ command'[c].at = place
         /\ \A d \in Callers : d # c => command'[d] = command[d]
  <1>1. command \in [Callers -> Commands]
    BY DEF RedisTypeOK, Commands
  <1>2. ASSUME NEW old \in Commands
        PROVE  LET new == [old EXCEPT !.at = place]
               IN  new \in Commands /\ new.op = old.op /\ new.at = place
    BY DEF Commands
  <1> DEFINE new == [command[c] EXCEPT !.at = place]
  <1>3. new \in Commands /\ new.op = command[c].op /\ new.at = place
    BY <1>1, <1>2
  <1>4. command' = [command EXCEPT ![c] = new]
    BY DEF MovesTo
  <1> HIDE DEF new
  <1> QED
    BY <1>1, <1>3, <1>4

\* Where no command moves and no entry changes, everything stays as it is.
LEMMA RedisFrame ==
  ASSUME RedisSafe, RedisTypeOK', UNCHANGED <<command, delayed, entries, forgotten>>
  PROVE  RedisSafe'
  BY DEF RedisSafe, ForgottenWereSaved, DelayedWereGivenUp, ClearIsAlone, ScannedIsEmpty, ClearForgets, Save, Locks

LEMMA BeginStep ==
  ASSUME RedisSafe, NEW c \in Callers, NEW op \in Operations, Begin(c, op)
  PROVE  RedisSafe'
  <1>1. /\ command[c].at = "out" /\ circuit' \in {circuit, Begun}
        /\ UNCHANGED <<loop, closer, reachable, outages, delayed, entries, forgotten>>
    BY DEF Begin
  <1>2. PICK place \in {"refused", "sent", "waiting"} :
          command' = [command EXCEPT ![c] = [op |-> op, at |-> place]] /\ (place = "sent" => op = "ping")
    BY DEF Begin
  <1>3. command \in [Callers -> Commands] /\ [op |-> op, at |-> place] \in Commands
    BY DEF RedisSafe, RedisTypeOK, Commands, Holding
  <1>4. /\ command' \in [Callers -> Commands]
        /\ command'[c].op = op /\ command'[c].at = place
        /\ \A d \in Callers : d # c => command'[d] = command[d]
    BY <1>2, <1>3
  <1>5. RedisTypeOK'
    BY <1>1, <1>4, CircuitTypes DEF RedisSafe, RedisTypeOK, Commands, Circuits
  <1>6. ForgottenWereSaved' /\ DelayedWereGivenUp' /\ ClearForgets'
    BY <1>1, <1>4 DEF RedisSafe, ForgottenWereSaved, DelayedWereGivenUp, ClearForgets, RedisTypeOK, Save
  <1>7. \A d \in Callers : Locks(d)' => d # c /\ Locks(d)
    BY <1>2, <1>4 DEF Locks, Holding
  <1>8. ClearIsAlone'
    BY <1>4, <1>7 DEF RedisSafe, ClearIsAlone
  <1>9. ScannedIsEmpty'
    BY <1>1, <1>4 DEF RedisSafe, ScannedIsEmpty, Save
  <1> QED
    BY <1>5, <1>6, <1>8, <1>9 DEF RedisSafe

LEMMA SendStep ==
  ASSUME RedisSafe, NEW c \in Callers, Send(c)
  PROVE  RedisSafe'
  <1>1. /\ command[c].at = "waiting" /\ LockFree(command[c].op) /\ MovesTo(c, "sent")
        /\ UNCHANGED <<circuit, loop, closer, reachable, outages, delayed, entries, forgotten>>
    BY DEF Send, MovesTo
  <1>2. /\ command' \in [Callers -> Commands]
        /\ command'[c].op = command[c].op /\ command'[c].at = "sent"
        /\ \A d \in Callers : d # c => command'[d] = command[d]
    BY <1>1, CommandMoves DEF RedisSafe, Holding
  <1>3. RedisTypeOK'
    BY <1>1, <1>2 DEF RedisSafe, RedisTypeOK, Commands
  <1>4. ForgottenWereSaved' /\ DelayedWereGivenUp' /\ ClearForgets'
    BY <1>1, <1>2 DEF RedisSafe, ForgottenWereSaved, DelayedWereGivenUp, ClearForgets, RedisTypeOK, Save
  <1>5. \A d \in Callers : d # c /\ Locks(d) => "clear" \notin {command[c].op, command[d].op}
    BY <1>1 DEF LockFree, Locks
  <1>6. ClearIsAlone'
    BY <1>2, <1>5 DEF RedisSafe, ClearIsAlone, Locks
  <1>7. ScannedIsEmpty'
    BY <1>1, <1>2 DEF RedisSafe, ScannedIsEmpty, Save
  <1> QED
    BY <1>3, <1>4, <1>6, <1>7 DEF RedisSafe

LEMMA ExecuteStep ==
  ASSUME RedisSafe, NEW c \in Callers, Execute(c)
  PROVE  RedisSafe'
  <1>1. /\ command[c].at = "sent" /\ command[c].op # "clear" /\ MovesTo(c, "executed")
        /\ entries' = IF command[c].op = "save" THEN entries \cup {c} ELSE entries
        /\ UNCHANGED <<circuit, loop, closer, reachable, outages, delayed, forgotten>>
    BY DEF Execute, MovesTo
  <1>2. /\ command' \in [Callers -> Commands]
        /\ command'[c].op = command[c].op /\ command'[c].at = "executed"
        /\ \A d \in Callers : d # c => command'[d] = command[d]
    BY <1>1, CommandMoves DEF RedisSafe, Holding
  <1>3. RedisTypeOK'
    <2>1. entries' \subseteq Callers \cup Earlier /\ forgotten' \subseteq Callers \cup Earlier
      BY <1>1 DEF RedisSafe, RedisTypeOK
    <2> QED
      BY <1>1, <1>2, <2>1 DEF RedisSafe, RedisTypeOK, Commands
  <1>4. ForgottenWereSaved' /\ DelayedWereGivenUp'
    BY <1>1, <1>2 DEF RedisSafe, ForgottenWereSaved, DelayedWereGivenUp, RedisTypeOK, Save
  <1>5. ClearForgets'
    BY <1>1, RedisAssumption DEF RedisSafe, ClearForgets, ForgottenWereSaved, Save
  <1>6. ClearIsAlone'
    BY <1>1, <1>2 DEF RedisSafe, ClearIsAlone, Locks, Holding
  <1>7. ScannedIsEmpty'
    <2>1. ASSUME NEW d \in Callers, command[d].at = "scanned"
          PROVE  entries' = entries
      <3>1. Locks(d) /\ command[d].op = "clear" /\ d # c
        BY <1>1, <2>1 DEF RedisSafe, ScannedIsEmpty, Locks, Holding
      <3>2. ~Locks(c)
        BY <3>1 DEF RedisSafe, ClearIsAlone
      <3>3. command[c].op = "ping"
        BY <1>1, <3>2 DEF Locks, Holding
      <3> QED
        BY <1>1, <3>3
    <2> QED
      BY <1>1, <1>2, <2>1 DEF RedisSafe, ScannedIsEmpty, Save
  <1> QED
    BY <1>3, <1>4, <1>5, <1>6, <1>7 DEF RedisSafe

LEMMA ScanStep ==
  ASSUME RedisSafe, NEW c \in Callers, Scan(c)
  PROVE  RedisSafe'
  <1>1. /\ command[c].at = "sent" /\ command[c].op = "clear" /\ entries' \subseteq entries
        /\ UNCHANGED <<circuit, loop, closer, reachable, outages, delayed, forgotten>>
    BY DEF Scan
  <1>2. CASE entries = {} /\ MovesTo(c, "scanned") /\ UNCHANGED entries
    <2>1. /\ command' \in [Callers -> Commands]
          /\ command'[c].op = command[c].op /\ command'[c].at = "scanned"
          /\ \A d \in Callers : d # c => command'[d] = command[d]
      BY <1>2, CommandMoves DEF RedisSafe, Holding
    <2>2. RedisTypeOK'
      BY <1>1, <1>2, <2>1 DEF RedisSafe, RedisTypeOK, Commands
    <2>3. ForgottenWereSaved' /\ DelayedWereGivenUp' /\ ClearForgets'
      BY <1>1, <1>2, <2>1 DEF RedisSafe, ForgottenWereSaved, DelayedWereGivenUp, ClearForgets, RedisTypeOK, Save
    <2>4. ClearIsAlone' /\ ScannedIsEmpty'
      BY <1>1, <1>2, <2>1 DEF RedisSafe, ClearIsAlone, ScannedIsEmpty, Locks, Holding
    <2> QED
      BY <2>2, <2>3, <2>4 DEF RedisSafe
  <1>3. CASE UNCHANGED command
    <2>1. RedisTypeOK'
      <3>1. entries' \subseteq Callers \cup Earlier /\ forgotten' \subseteq Callers \cup Earlier
        BY <1>1 DEF RedisSafe, RedisTypeOK
      <3> QED
        BY <1>1, <1>3, <3>1 DEF RedisSafe, RedisTypeOK
    <2> QED
      BY <1>1, <1>3, <2>1 DEF RedisSafe, ForgottenWereSaved, DelayedWereGivenUp, ClearIsAlone, ScannedIsEmpty,
         ClearForgets, Save, Locks
  <1> QED
    BY <1>2, <1>3 DEF Scan, MovesTo

LEMMA SucceedStep ==
  ASSUME RedisSafe, NEW c \in Callers, Succeed(c)
  PROVE  RedisSafe'
  <1> DEFINE saved == {s \in Callers : command[s] = [op |-> "save", at |-> "succeeded"]}
  <1>1. /\ command[c].at \in {"executed", "scanned"} /\ MovesTo(c, "succeeded")
        /\ circuit' = Finished(TRUE, FALSE)
        /\ forgotten' = IF command[c].op # "clear" THEN forgotten ELSE forgotten \cup Earlier \cup saved
        /\ UNCHANGED <<loop, closer, reachable, outages, delayed, entries>>
    BY DEF Succeed, MovesTo
  <1>2. /\ command' \in [Callers -> Commands]
        /\ command'[c].op = command[c].op /\ command'[c].at = "succeeded"
        /\ \A d \in Callers : d # c => command'[d] = command[d]
    BY <1>1, CommandMoves DEF RedisSafe, Holding
  <1>3. saved \subseteq Callers /\ \A s \in saved : Save(s, "succeeded") /\ s # c
    BY <1>1 DEF Save
  <1> HIDE DEF saved
  <1>4. RedisTypeOK'
    <2>1. entries' \subseteq Callers \cup Earlier /\ forgotten' \subseteq Callers \cup Earlier
      BY <1>1, <1>3 DEF RedisSafe, RedisTypeOK
    <2>2. circuit' \in Circuits
      BY <1>1, CircuitTypes DEF RedisSafe, RedisTypeOK, Circuits
    <2> QED
      BY <1>1, <1>2, <2>1, <2>2 DEF RedisSafe, RedisTypeOK, Commands, Circuits
  <1>5. ForgottenWereSaved' /\ DelayedWereGivenUp'
    BY <1>1, <1>2, <1>3 DEF RedisSafe, ForgottenWereSaved, DelayedWereGivenUp, RedisTypeOK, Save
  <1>6. ClearForgets'
    <2>1. CASE command[c].op # "clear"
      BY <1>1, <2>1 DEF RedisSafe, ClearForgets
    <2>2. CASE command[c].op = "clear"
      <3>1. \A e \in entries : e \in Callers /\ Save(e, "failed")
        BY <1>1, <2>2 DEF RedisSafe, ScannedIsEmpty
      <3>2. \A e \in entries : e \notin saved /\ e \notin Earlier
        BY <1>3, <3>1, RedisAssumption DEF Save
      <3> QED
        BY <1>1, <2>2, <3>2 DEF RedisSafe, ClearForgets
    <2> QED
      BY <2>1, <2>2
  <1>7. ClearIsAlone'
    BY <1>2 DEF RedisSafe, ClearIsAlone, Locks, Holding
  <1>8. ScannedIsEmpty'
    BY <1>1, <1>2 DEF RedisSafe, ScannedIsEmpty, Save
  <1> QED
    BY <1>4, <1>5, <1>6, <1>7, <1>8 DEF RedisSafe

LEMMA FailStep ==
  ASSUME RedisSafe, NEW c \in Callers, Fail(c)
  PROVE  RedisSafe'
  <1>1. /\ command[c].at \in Holding /\ MovesTo(c, "failed")
        /\ UNCHANGED <<loop, closer, reachable, outages, entries, forgotten>>
    BY DEF Fail, MovesTo
  <1>2. circuit' \in Circuits
    <2>1. PICK canceled \in BOOLEAN : circuit' = Finished(FALSE, canceled)
      BY DEF Fail
    <2>2. FALSE \in BOOLEAN
      OBVIOUS
    <2>3. circuit \in Circuits
      BY DEF RedisSafe, RedisTypeOK, Circuits
    <2> QED
      BY <2>1, <2>2, <2>3, CircuitTypes
  <1>3. /\ delayed \subseteq delayed' /\ delayed' \subseteq delayed \cup {c}
        /\ c \in delayed' => c \in delayed \/ command[c] = [op |-> "save", at |-> "sent"]
    BY DEF Fail
  <1>4. /\ command' \in [Callers -> Commands]
        /\ command'[c].op = command[c].op /\ command'[c].at = "failed"
        /\ \A d \in Callers : d # c => command'[d] = command[d]
    BY <1>1, CommandMoves DEF RedisSafe
  <1>5. RedisTypeOK'
    <2>1. delayed' \subseteq Callers
      BY <1>3 DEF RedisSafe, RedisTypeOK
    <2> QED
      BY <1>1, <1>2, <1>4, <2>1 DEF RedisSafe, RedisTypeOK, Commands, Circuits
  <1>6. ForgottenWereSaved' /\ ClearForgets'
    BY <1>1, <1>4 DEF RedisSafe, ForgottenWereSaved, ClearForgets, Save, Holding
  <1>7. DelayedWereGivenUp'
    BY <1>3, <1>4 DEF RedisSafe, RedisTypeOK, DelayedWereGivenUp, Save
  <1>8. ClearIsAlone'
    BY <1>4 DEF RedisSafe, ClearIsAlone, Locks, Holding
  <1>9. ScannedIsEmpty'
    BY <1>1, <1>4 DEF RedisSafe, ScannedIsEmpty, Save
  <1> QED
    BY <1>5, <1>6, <1>7, <1>8, <1>9 DEF RedisSafe

LEMMA ExecuteLateStep ==
  ASSUME RedisSafe, NEW c \in Callers, ExecuteLate(c)
  PROVE  RedisSafe'
  <1>1. /\ c \in delayed /\ delayed' = delayed \ {c} /\ entries' = entries \cup {c}
        /\ UNCHANGED <<circuit, command, loop, closer, reachable, outages, forgotten>>
    BY DEF ExecuteLate
  <1>2. Save(c, "failed")
    BY <1>1 DEF RedisSafe, DelayedWereGivenUp
  <1>3. RedisTypeOK'
    <2>1. /\ delayed' \subseteq Callers
          /\ entries' \subseteq Callers \cup Earlier /\ forgotten' \subseteq Callers \cup Earlier
      BY <1>1 DEF RedisSafe, RedisTypeOK
    <2> QED
      BY <1>1, <2>1 DEF RedisSafe, RedisTypeOK
  <1>4. ForgottenWereSaved' /\ DelayedWereGivenUp' /\ ClearIsAlone'
    BY <1>1 DEF RedisSafe, ForgottenWereSaved, DelayedWereGivenUp, ClearIsAlone, Locks, Save
  <1>5. ScannedIsEmpty' /\ ClearForgets'
    BY <1>1, <1>2, RedisAssumption DEF RedisSafe, ScannedIsEmpty, ClearForgets, ForgottenWereSaved, Save
  <1> QED
    BY <1>3, <1>4, <1>5 DEF RedisSafe

LEMMA RedisSafeStep ==
  ASSUME RedisSafe, [RedisNext]_redisVars
  PROVE  RedisSafe'
  <1>1. ASSUME NEW c \in Callers, (\E op \in Operations : Begin(c, op)) \/ CommandStep(c) \/ ExecuteLate(c)
        PROVE  RedisSafe'
    BY <1>1, BeginStep, SendStep, ExecuteStep, ScanStep, SucceedStep, FailStep, ExecuteLateStep DEF CommandStep
  <1>2. CASE LoopStep \/ Cool \/ Close \/ ClientClosed \/ Outage \/ Reconnect
    <2>1. UNCHANGED <<command, delayed, entries, forgotten>>
      BY <1>2 DEF LoopStep, Probe, Probed, LeaveLoop, Cool, Close, ClientClosed, Outage, Reconnect
    <2>2. circuit' \in Circuits
      <3>1. circuit \in Circuits /\ reachable \in BOOLEAN
        BY DEF RedisSafe, RedisTypeOK, Circuits
      <3> QED
        BY <1>2, <3>1, CircuitTypes
           DEF LoopStep, Probe, Probed, LeaveLoop, Cool, Close, ClientClosed, Outage, Reconnect
    <2>3. reachable' \in BOOLEAN
      <3>1. reachable \in BOOLEAN
        BY DEF RedisSafe, RedisTypeOK
      <3>2. reachable' = TRUE \/ reachable' = FALSE \/ reachable' = reachable
        BY <1>2, Zenon DEF LoopStep, Probe, Probed, LeaveLoop, Cool, Close, ClientClosed, Outage, Reconnect
      <3> QED
        BY <3>1, <3>2, Zenon
    <2>6. outages' \in 0..MaxOutages
      <3>1. outages \in 0..MaxOutages
        BY DEF RedisSafe, RedisTypeOK
      <3>2. outages' = outages \/ (outages < MaxOutages /\ outages' = outages + 1)
        BY <1>2 DEF LoopStep, Probe, Probed, LeaveLoop, Cool, Close, ClientClosed, Outage, Reconnect
      <3> QED
        BY <3>1, <3>2, RedisAssumption
    <2>4. loop' \in {"waiting", "pinging", "stopped"} /\ closer' \in {"out", "stopping", "closed"}
      BY <1>2
         DEF RedisSafe, RedisTypeOK, LoopStep, Probe, Probed, LeaveLoop, Cool, Close, ClientClosed, Outage, Reconnect
    <2>5. RedisTypeOK'
      BY <2>1, <2>2, <2>3, <2>4, <2>6 DEF RedisSafe, RedisTypeOK, Circuits
    <2> QED
      BY <2>1, <2>5, RedisFrame
  <1>3. CASE UNCHANGED redisVars
    BY <1>3, RedisFrame DEF redisVars, RedisSafe, RedisTypeOK
  <1> QED
    BY <1>1, <1>2, <1>3 DEF RedisNext

\* CLEAR.  For any number of commands at the same time, whatever is given up on, delayed or
\* out of reach: what had been saved when a clear succeeded is gone and stays gone.
THEOREM ClearsForget == RedisSpec => [](RedisTypeOK /\ ClearForgets)
  <1>1. RedisSafe => RedisTypeOK /\ ClearForgets
    BY DEF RedisSafe
  <1> QED
    BY RedisInitSafe, RedisSafeStep, <1>1, PTL DEF RedisSpec

-----------------------------------------------------------------------------
\* --- the largest of a set of numbers
\* Every set of numbers up to n has a latest element; whatever is one is the latest.
Before == {ss \in Nat \X Nat : ss[1] < ss[2]}
LEMMA LatestIsLast ==
  ASSUME NEW n \in Nat, NEW T, T \subseteq 1..n, T # {}
  PROVE  Latest(T) \in T /\ \A m \in T : m <= Latest(T)
<1> DEFINE Gaps == {n - m : m \in T}
           R == Before
<1>1. Gaps \subseteq Nat /\ Gaps # {}
  <2>1. \A m \in T : n - m \in Nat
    BY SMT
  <2> QED BY <2>1, Zenon
<1>2. IsWellFoundedOn(R, Nat)
  <2>1. Before = OpToRel(<, Nat)
    BY DEF OpToRel, Before
  <2> QED BY <2>1, NatLessThanWellFounded
<1>3. \E x \in Gaps : \A y \in Gaps : ~(<<y, x>> \in R)
  <2> HIDE DEF Gaps, R
  <2> QED BY <1>1, <1>2, WFMin, Zenon
<1>4. PICK x \in Gaps : \A y \in Gaps : ~(<<y, x>> \in Before)
  BY <1>3
<1>5. PICK m \in T : x = n - m
  BY <1>4
<1>6. ASSUME NEW l \in T PROVE l <= m
  <2>1. <<n - l, n - m>> \notin Before
    BY <1>4, <1>5
  <2>2. ~(n - l < n - m)
    <3>1. n - l \in Nat /\ n - m \in Nat
      BY SMT
    <3> QED BY <2>1, <3>1 DEF Before
  <2> QED BY <2>2, SMT
<1> QED BY <1>6, Zenon DEF Latest

LEMMA LatestIsUnique ==
  ASSUME NEW T, T \subseteq Nat, NEW m \in T, \A l \in T : l <= m
  PROVE  Latest(T) = m
<1>1. \A l, k \in T : (\A i \in T : i <= l) /\ (\A i \in T : i <= k) => l = k
  BY SMT
<1>2. Latest(T) \in T /\ \A l \in T : l <= Latest(T)
  BY Zenon DEF Latest
<1> QED BY <1>1, <1>2, Zenon

-----------------------------------------------------------------------------
\* --- requests
Parts == [says : {0, 1}, mark : BOOLEAN]
Messages == [1..2 -> Parts]
QuestionsOf(texts) ==
  [model : {0, 1}, user : {0, 1}, settings : {0, 1}, budget : {0, 1}, native : {0, 1},
   automatic : BOOLEAN, tools : Parts, system : Parts, messages : texts]
Questions == QuestionsOf(UNION {[1..n -> Messages] : n \in 1..MaxLength})

LEMMA RequestsAreQuestions ==
  ASSUME NEW n \in 1..MaxLength, NEW marks, NEW automatic \in BOOLEAN, NEW other
  PROVE  RequestOf(n, marks, automatic, other) \in Questions
<1>1. \A name : Block(name, marks, other) \in Parts
  BY SMT DEF Block, Parts
<1>2. [i \in 1..n |-> [j \in 1..2 |-> Block(PartNames[i][j], marks, other)]] \in [1..n -> Messages]
  BY <1>1, Zenon DEF Messages
<1>3. \A b \in BOOLEAN : (IF b THEN 1 ELSE 0) \in {0, 1}
  OBVIOUS
<1> DEFINE ms == [i \in 1..n |-> [j \in 1..2 |-> Block(PartNames[i][j], marks, other)]]
<1>4. ms \in UNION {[1..k -> Messages] : k \in 1..MaxLength}
  BY <1>2, Zenon
<1> HIDE DEF ms
<1>5. QuestionsOf(UNION {[1..k -> Messages] : k \in 1..MaxLength}) = Questions
  BY DEF Questions
<1> DEFINE texts == UNION {[1..k -> Messages] : k \in 1..MaxLength}
<1> HIDE DEF texts
<1>6. RequestOf(n, marks, automatic, other) \in QuestionsOf(texts)
  <2>1. ms \in texts
    BY <1>4 DEF texts
  <2>2. Block("tools", marks, other) \in Parts /\ Block("system", marks, other) \in Parts
    BY <1>1
  <2> HIDE DEF Block
  <2> QED BY <2>1, <2>2, SMT DEF RequestOf, QuestionsOf, ms
<1> QED BY <1>5, <1>6 DEF texts

LEMMA QuestionFacts ==
  ASSUME NEW q \in Questions
  PROVE  /\ q.model \in {0, 1} /\ q.user \in {0, 1} /\ q.settings \in {0, 1}
         /\ q.budget \in {0, 1} /\ q.native \in {0, 1} /\ q.automatic \in BOOLEAN
         /\ q.tools \in Parts /\ q.system \in Parts
         /\ q.messages \in Seq(Messages) /\ Len(q.messages) \in 1..MaxLength
         /\ q.messages \in [1..Len(q.messages) -> Messages]
<1> DEFINE texts == UNION {[1..k -> Messages] : k \in 1..MaxLength}
<1>1. q \in QuestionsOf(texts)
  BY DEF Questions
<1>2. \A m \in texts : m \in Seq(Messages) /\ Len(m) \in 1..MaxLength /\ m \in [1..Len(m) -> Messages]
  <2> SUFFICES ASSUME NEW k \in 1..MaxLength, NEW m \in [1..k -> Messages]
               PROVE  m \in Seq(Messages) /\ Len(m) \in 1..MaxLength /\ m \in [1..Len(m) -> Messages]
    BY Zenon
  <2>1. k \in Nat
    BY IdentityAssumption, SMT
  <2>2. m \in Seq(Messages) /\ Len(m) = k
    <3> HIDE DEF Messages
    <3> QED BY <2>1, SMT
  <2> QED BY <2>2, Zenon
<1> HIDE DEF texts
<1> HIDE DEF Parts, Messages
<1>3. q.messages \in texts
  BY <1>1, SMT DEF QuestionsOf
<1>4. /\ q.model \in {0, 1} /\ q.user \in {0, 1} /\ q.settings \in {0, 1}
      /\ q.budget \in {0, 1} /\ q.native \in {0, 1} /\ q.automatic \in BOOLEAN
      /\ q.tools \in Parts /\ q.system \in Parts
  BY <1>1, SMT DEF QuestionsOf
<1> QED BY <1>2, <1>3, <1>4, Zenon

\* Two requests are the same if their fields are.
LEMMA QuestionsDiffer ==
  ASSUME NEW q \in Questions, NEW p \in Questions,
         q.model = p.model, q.user = p.user, q.settings = p.settings, q.budget = p.budget,
         q.native = p.native, q.automatic = p.automatic, q.tools = p.tools, q.system = p.system,
         q.messages = p.messages
  PROVE  q = p
<1> DEFINE texts == UNION {[1..k -> Messages] : k \in 1..MaxLength}
<1>1. q \in QuestionsOf(texts) /\ p \in QuestionsOf(texts)
  BY DEF Questions
<1> HIDE DEF texts
<1> QED BY <1>1, SMT DEF QuestionsOf

\* A block without its marker.
LEMMA PlainParts ==
  ASSUME NEW b \in Parts
  PROVE  Plain(b) \in Parts /\ Plain(b).says = b.says /\ Plain(b).mark = FALSE
<1>1. ASSUME NEW M, NEW d \in [says : {0, 1}, mark : M], NEW f \in M
      PROVE  /\ [d EXCEPT !.mark = f] \in [says : {0, 1}, mark : M]
             /\ [d EXCEPT !.mark = f].says = d.says /\ [d EXCEPT !.mark = f].mark = f
  BY SMT
<1> QED BY <1>1, Zenon DEF Parts, Plain

LEMMA PlainAlike ==
  ASSUME NEW b \in Parts, NEW c \in Parts
  PROVE  Plain(b) = Plain(c) <=> b.says = c.says
<1>1. \A d, e \in Parts : d.says = e.says /\ d.mark = e.mark => d = e
  BY SMT DEF Parts
<1>2. /\ Plain(b).says = b.says /\ Plain(b).mark = FALSE /\ Plain(b) \in Parts
      /\ Plain(c).says = c.says /\ Plain(c).mark = FALSE /\ Plain(c) \in Parts
  BY PlainParts, Zenon
<1> QED BY <1>1, <1>2, Zenon

-----------------------------------------------------------------------------
\* --- the key of an answer
\* What the messages say is all that their key tells.
PlainMessages(m) == [i \in DOMAIN m |-> [j \in DOMAIN m[i] |-> Plain(m[i][j])]]
LEMMA SaidAlike ==
  ASSUME NEW n \in Nat, NEW k \in Nat, NEW v \in [1..n -> Messages], NEW w \in [1..k -> Messages]
  PROVE  SemanticMessages(v) = SemanticMessages(w)
           <=> PlainMessages(v) = PlainMessages(w)
<1>1. \A b, c \in Parts : Plain(b) = Plain(c) <=> b.says = c.says
  BY PlainAlike
<1>2. DOMAIN v = 1..n /\ DOMAIN w = 1..k
  OBVIOUS
<1>3. \A i \in 1..n : DOMAIN v[i] = 1..2 /\ \A j \in 1..2 : v[i][j] \in Parts
  BY SMT DEF Messages
<1>4. \A i \in 1..k : DOMAIN w[i] = 1..2 /\ \A j \in 1..2 : w[i][j] \in Parts
  BY SMT DEF Messages
<1> DEFINE Same == 1..n = 1..k /\ \A i \in 1..n : \A j \in 1..2 : v[i][j].says = w[i][j].says
<1>5. SemanticMessages(v) = [i \in 1..n |-> [j \in 1..2 |-> v[i][j].says]]
  BY <1>2, <1>3, SMT DEF SemanticMessages, Unmarked
<1>6. SemanticMessages(w) = [i \in 1..k |-> [j \in 1..2 |-> w[i][j].says]]
  BY <1>2, <1>4, SMT DEF SemanticMessages, Unmarked
<1>7. PlainMessages(v) = [i \in 1..n |-> [j \in 1..2 |-> Plain(v[i][j])]]
  BY <1>2, <1>3, SMT DEF PlainMessages
<1>8. PlainMessages(w) = [i \in 1..k |-> [j \in 1..2 |-> Plain(w[i][j])]]
  BY <1>2, <1>4, SMT DEF PlainMessages
<1> HIDE DEF SemanticMessages, Plain
<1>9. SemanticMessages(v) = SemanticMessages(w) <=> Same
  <2>1. ASSUME SemanticMessages(v) = SemanticMessages(w) PROVE Same
    <3> DEFINE a == [i \in 1..n |-> [j \in 1..2 |-> v[i][j].says]]
               b == [i \in 1..k |-> [j \in 1..2 |-> w[i][j].says]]
    <3>1. a = b
      BY <1>5, <1>6, <2>1
    <3>2. 1..n = 1..k
      <4>1. DOMAIN a = 1..n /\ DOMAIN b = 1..k
        OBVIOUS
      <4> HIDE DEF a, b
      <4> QED BY <3>1, <4>1
    <3>3. ASSUME NEW i \in 1..n, NEW j \in 1..2 PROVE v[i][j].says = w[i][j].says
      <4>1. a[i][j] = v[i][j].says /\ b[i][j] = w[i][j].says
        BY <3>2
      <4> HIDE DEF a, b
      <4> QED BY <3>1, <4>1
    <3> QED BY <3>2, <3>3
  <2>2. ASSUME Same PROVE SemanticMessages(v) = SemanticMessages(w)
    BY <1>5, <1>6, <2>2
  <2> QED BY <2>1, <2>2
<1>10. PlainMessages(v) = PlainMessages(w) <=> Same
  <2>1. ASSUME PlainMessages(v) = PlainMessages(w) PROVE Same
    <3> DEFINE a == [i \in 1..n |-> [j \in 1..2 |-> Plain(v[i][j])]]
               b == [i \in 1..k |-> [j \in 1..2 |-> Plain(w[i][j])]]
    <3>1. a = b
      BY <1>7, <1>8, <2>1
    <3>2. 1..n = 1..k
      <4>1. DOMAIN a = 1..n /\ DOMAIN b = 1..k
        OBVIOUS
      <4> HIDE DEF a, b
      <4> QED BY <3>1, <4>1
    <3>3. ASSUME NEW i \in 1..n, NEW j \in 1..2 PROVE v[i][j].says = w[i][j].says
      <4>1. a[i][j] = Plain(v[i][j]) /\ b[i][j] = Plain(w[i][j])
        BY <3>2
      <4>2. Plain(v[i][j]) = Plain(w[i][j])
        <5> HIDE DEF a, b
        <5> QED BY <3>1, <4>1
      <4>3. v[i][j] \in Parts /\ w[i][j] \in Parts
        BY <1>3, <1>4, <3>2
      <4> QED BY <1>1, <4>2, <4>3, Zenon
    <3> QED BY <3>2, <3>3
  <2>2. ASSUME Same PROVE PlainMessages(v) = PlainMessages(w)
    <3>1. 1..n = 1..k /\ \A i \in 1..n : \A j \in 1..2 : Plain(v[i][j]) = Plain(w[i][j])
      BY <1>1, <1>3, <1>4, <2>2, Zenon
    <3> QED BY <1>7, <1>8, <3>1
  <2> QED BY <2>1, <2>2
<1> QED BY <1>9, <1>10

\* A request without its markers, field by field.
FieldsAsIn(m, r) ==
  /\ m.model = r.model /\ m.user = r.user /\ m.settings = r.settings /\ m.budget = r.budget
  /\ m.native = 0 /\ m.automatic = FALSE
  /\ m.tools = Plain(r.tools) /\ m.system = Plain(r.system) /\ m.messages = PlainMessages(r.messages)
LEMMA MeaningFacts ==
  ASSUME NEW r \in Questions
  PROVE  /\ Meaning(r) \in Questions
         /\ FieldsAsIn(Meaning(r), r)
<1> DEFINE texts == UNION {[1..k -> Messages] : k \in 1..MaxLength}
           truths == BOOLEAN
           blocks == Parts
           false == FALSE
           tools == Plain(r.tools)
           system == Plain(r.system)
           messages == PlainMessages(r.messages)
           shape == [model : {0, 1}, user : {0, 1}, settings : {0, 1}, budget : {0, 1}, native : {0, 1},
                     automatic : truths, tools : blocks, system : blocks, messages : texts]
<1>1. Questions = shape
  BY DEF Questions, QuestionsOf
<1>2. messages \in texts
  <2>1. Len(r.messages) \in 1..MaxLength /\ r.messages \in [1..Len(r.messages) -> Messages]
    BY QuestionFacts
  <2>2. \A i \in 1..Len(r.messages) : [j \in DOMAIN r.messages[i] |-> Plain(r.messages[i][j])] \in Messages
    <3> SUFFICES ASSUME NEW m \in Messages PROVE [j \in DOMAIN m |-> Plain(m[j])] \in Messages
      BY <2>1
    <3>1. DOMAIN m = 1..2 /\ \A j \in 1..2 : m[j] \in Parts
      BY Zenon DEF Messages
    <3> HIDE DEF Plain
    <3>2. \A j \in 1..2 : Plain(m[j]) \in Parts
      BY <3>1, PlainParts, Zenon
    <3> QED BY <3>1, <3>2, Zenon DEF Messages
  <2>3. PlainMessages(r.messages) \in [1..Len(r.messages) -> Messages]
    BY <2>1, <2>2, Zenon DEF PlainMessages
  <2> QED BY <2>1, <2>3, Zenon
<1>3. tools \in blocks /\ system \in blocks
  BY QuestionFacts, PlainParts, Zenon
<1>4. Meaning(r) = [r EXCEPT !.automatic = false, !.native = 0, !.tools = tools,
                             !.system = system, !.messages = messages]
  BY DEF Meaning, PlainMessages
<1>5. false \in truths /\ r \in shape
  BY <1>1
<1>6. false = FALSE /\ tools = Plain(r.tools) /\ system = Plain(r.system) /\ messages = PlainMessages(r.messages)
  OBVIOUS
<1> HIDE DEF truths, blocks, false, tools, system, messages, texts
<1> DEFINE altered == [r EXCEPT !.automatic = false, !.native = 0, !.tools = tools,
                                !.system = system, !.messages = messages]
<1>7. altered \in shape
  <2>1. \A x \in shape : [x EXCEPT !.automatic = false] \in shape
    BY <1>5, SMT
  <2>2. \A x \in shape : [x EXCEPT !.native = 0] \in shape
    BY SMT
  <2>3. \A x \in shape : [x EXCEPT !.tools = tools] \in shape
    BY <1>3, SMT
  <2>4. \A x \in shape : [x EXCEPT !.system = system] \in shape
    BY <1>3, SMT
  <2>5. \A x \in shape : [x EXCEPT !.messages = messages] \in shape
    BY <1>2, SMT
  <2> HIDE DEF shape
  <2> QED BY <1>5, <2>1, <2>2, <2>3, <2>4, <2>5, Zenon
<1>8. altered.model = r.model /\ altered.user = r.user /\ altered.settings = r.settings
  BY <1>2, <1>3, <1>5, SMT
<1>9. altered.budget = r.budget /\ altered.native = 0 /\ altered.automatic = false
  BY <1>2, <1>3, <1>5, SMT
<1>10. altered.tools = tools /\ altered.system = system /\ altered.messages = messages
  BY <1>2, <1>3, <1>5, SMT
<1>11. Meaning(r) = altered
  BY <1>4
<1> HIDE DEF altered, shape
<1> QED BY <1>1, <1>6, <1>7, <1>8, <1>9, <1>10, <1>11, Zenon DEF FieldsAsIn

\* Two questions have one key if and only if they differ in their markers only.
LEMMA KeyIsTheMeaning ==
  ASSUME NEW q \in Questions, NEW p \in Questions
  PROVE  Key(p) = Key(q) <=> Meaning(p) = Meaning(q)
<1> DEFINE Fields1 == q.model = p.model /\ q.user = p.user /\ q.settings = p.settings /\ q.budget = p.budget
           Same == Fields1 /\ q.tools.says = p.tools.says /\ q.system.says = p.system.says
                     /\ SemanticMessages(q.messages) = SemanticMessages(p.messages)
<1>1. Key(p) = Key(q) <=> Same
  BY SMT DEF Key, Unmarked
<1>2. PlainMessages(q.messages) = PlainMessages(p.messages)
        <=> SemanticMessages(q.messages) = SemanticMessages(p.messages)
  <2>1. Len(q.messages) \in Nat /\ Len(p.messages) \in Nat
    <3>1. Len(q.messages) \in 1..MaxLength /\ Len(p.messages) \in 1..MaxLength
      BY QuestionFacts
    <3> QED BY <3>1, IdentityAssumption, SMT
  <2>2. q.messages \in [1..Len(q.messages) -> Messages] /\ p.messages \in [1..Len(p.messages) -> Messages]
    BY QuestionFacts
  <2> DEFINE v == q.messages
             w == p.messages
             n == Len(v)
             k == Len(w)
  <2>3. n \in Nat /\ k \in Nat /\ v \in [1..n -> Messages] /\ w \in [1..k -> Messages]
    BY <2>1, <2>2
  <2> HIDE DEF v, w, n, k
  <2>4. SemanticMessages(v) = SemanticMessages(w) <=> PlainMessages(v) = PlainMessages(w)
    BY <2>3, SaidAlike
  <2> QED BY <2>4 DEF v, w
<1>3. Meaning(p) = Meaning(q) <=>
        Fields1 /\ Plain(q.tools) = Plain(p.tools) /\ Plain(q.system) = Plain(p.system)
          /\ PlainMessages(q.messages) = PlainMessages(p.messages)
  <2>1. Meaning(p) \in Questions /\ Meaning(q) \in Questions
    BY MeaningFacts, Zenon
  <2> DEFINE mp == Meaning(p)
             mq == Meaning(q)
  <2>4. FieldsAsIn(mp, p) /\ FieldsAsIn(mq, q)
    BY MeaningFacts, Zenon
  <2>5. mp = Meaning(p) /\ mq = Meaning(q)
    OBVIOUS
  <2> HIDE DEF mp, mq
  <2>2. ASSUME Meaning(p) = Meaning(q)
        PROVE  Fields1 /\ Plain(q.tools) = Plain(p.tools) /\ Plain(q.system) = Plain(p.system)
                 /\ PlainMessages(q.messages) = PlainMessages(p.messages)
    BY <2>2, <2>4, <2>5, Zenon DEF FieldsAsIn
  <2>3. ASSUME Fields1, Plain(q.tools) = Plain(p.tools), Plain(q.system) = Plain(p.system),
               PlainMessages(q.messages) = PlainMessages(p.messages)
        PROVE  Meaning(p) = Meaning(q)
    <3>1. mp.model = mq.model /\ mp.user = mq.user /\ mp.settings = mq.settings /\ mp.budget = mq.budget
      BY <2>3, <2>4, Zenon DEF FieldsAsIn
    <3>2. mp.native = mq.native /\ mp.automatic = mq.automatic
      BY <2>4, Zenon DEF FieldsAsIn
    <3>3. mp.tools = mq.tools /\ mp.system = mq.system /\ mp.messages = mq.messages
      BY <2>3, <2>4, Zenon DEF FieldsAsIn
    <3>4. mp \in Questions /\ mq \in Questions
      BY <2>1, <2>5
    <3>5. mp = mq
      BY <3>1, <3>2, <3>3, <3>4, QuestionsDiffer, Zenon
    <3> QED BY <2>5, <3>5
  <2> QED BY <2>2, <2>3, Zenon
<1>4. q.tools \in Parts /\ p.tools \in Parts /\ q.system \in Parts /\ p.system \in Parts
  BY QuestionFacts
<1> QED BY <1>1, <1>2, <1>3, <1>4, PlainAlike, Zenon

-----------------------------------------------------------------------------
\* --- where a request is kept to
\* Two parts to a message: which message the k-th part of all is of, and which part of it.
LEMMA Halved ==
  ASSUME NEW k \in Nat
  PROVE  \E h, r : /\ k = 2 * h + r /\ r \in 0..1 /\ h \in Int
                   /\ h = k \div 2 /\ r = k % 2
<1> DEFINE h == k \div 2
           r == k % 2
<1>1. h \in Int /\ r \in Int /\ r \in 0..1
  BY SMT
<1>2. h = k \div 2 /\ r = k % 2
  OBVIOUS
<1> HIDE DEF h, r
<1>3. k = 2 * h + r
  BY <1>1, <1>2, SMT
<1> QED BY <1>1, <1>2, <1>3, Zenon
LEMMA Halves ==
  ASSUME NEW n \in Nat, NEW k \in 1..2 * n
  PROVE  (k + 1) \div 2 \in 1..n /\ 2 - (k % 2) \in 1..2 /\ k + 2 = 2 * ((k + 1) \div 2) + (2 - (k % 2))
<1> DEFINE l == k + 1
<1>1. k \in Nat /\ l \in Nat /\ l = k + 1
  BY SMT
<1> HIDE DEF l
<1>2. PICK b, c : k = 2 * b + c /\ c \in 0..1 /\ b \in Int /\ b = k \div 2 /\ c = k % 2
  BY <1>1, Halved, Zenon
<1>3. PICK a, d : l = 2 * a + d /\ d \in 0..1 /\ a \in Int /\ a = l \div 2 /\ d = l % 2
  BY <1>1, Halved, Zenon
<1>4. a \in 1..n /\ 2 - c \in 1..2 /\ k + 2 = 2 * a + (2 - c)
  BY <1>1, <1>2, <1>3, SMT
<1>5. a = (k + 1) \div 2 /\ c = k % 2
  BY <1>1, <1>2, <1>3
<1> QED BY <1>4, <1>5, Zenon
LEMMA HalvesBack ==
  ASSUME NEW n \in Nat, NEW i \in 1..n, NEW j \in 1..2
  PROVE  /\ 2 * i + j - 2 \in 1..2 * n
         /\ ((2 * i + j - 2) + 1) \div 2 = i /\ 2 - ((2 * i + j - 2) % 2) = j
         /\ 2 * i + j \in 1..2 + 2 * n /\ ~(2 * i + j <= 2)
<1>1. CASE j = 1
  BY <1>1, SMT
<1>2. CASE j = 2
  BY <1>2, SMT
<1>3. 2 * i + j \in 1..2 + 2 * n /\ ~(2 * i + j <= 2)
  BY SMT
<1> QED BY <1>1, <1>2, <1>3, SMT

\* What is read at each place: the tools, the system text and then part after part.
EveryPlace(n) == \A k \in 3..2 + 2 * n : \E i \in 1..n : \E j \in 1..2 : k = 2 * i + j
PartAfterPart(q, n) == \A i \in 1..n : \A j \in 1..2 : ReadOut(q)[2 * i + j] = q.messages[i][j]
LEMMA ReadOutFacts ==
  ASSUME NEW q \in Questions, NEW n, n = Len(q.messages)
  PROVE  /\ n \in Nat /\ Len(ReadOut(q)) = 2 + 2 * n /\ ReadOut(q) \in Seq(Parts)
         /\ ReadOut(q)[1] = q.tools /\ ReadOut(q)[2] = q.system
         /\ PartAfterPart(q, n)
         /\ EveryPlace(n)
<1>1. n \in Nat /\ q.messages \in [1..n -> Messages] /\ q.tools \in Parts /\ q.system \in Parts
  BY QuestionFacts, IdentityAssumption, SMT
<1> DEFINE v == q.messages
           front == <<q.tools, q.system>>
           rest == [k \in 1..2 * n |-> v[(k + 1) \div 2][2 - (k % 2)]]
<1>2. ReadOut(q) = front \o rest
  BY DEF ReadOut
<1>3. \A i \in 1..n : \A j \in 1..2 : v[i][j] \in Parts
  BY <1>1, Zenon DEF Messages
<1>4. rest \in [1..2 * n -> Parts]
  <2>1. \A k \in 1..2 * n : v[(k + 1) \div 2][2 - (k % 2)] \in Parts
    BY <1>1, <1>3, Halves, Zenon
  <2> QED BY <2>1, Zenon
<1>5. rest \in Seq(Parts) /\ Len(rest) = 2 * n
  <2>1. 2 * n \in Nat
    BY <1>1, SMT
  <2> HIDE DEF rest
  <2> QED BY <1>4, <2>1, SMT
<1>6. front \in Seq(Parts) /\ Len(front) = 2 /\ front[1] = q.tools /\ front[2] = q.system
  <2>1. \A S : \A a, b \in S : <<a, b>> \in Seq(S) /\ Len(<<a, b>>) = 2 /\ <<a, b>>[1] = a /\ <<a, b>>[2] = b
    BY SMT
  <2> QED BY <1>1, <2>1, Zenon
<1>7. \A i \in 1..n : \A j \in 1..2 : rest[2 * i + j - 2] = v[i][j] /\ 2 * i + j - 2 \in 1..2 * n
  <2> SUFFICES ASSUME NEW i \in 1..n, NEW j \in 1..2
               PROVE  rest[2 * i + j - 2] = v[i][j] /\ 2 * i + j - 2 \in 1..2 * n
    BY Zenon
  <2> DEFINE k == 2 * i + j - 2
  <2>1. k \in 1..2 * n /\ (k + 1) \div 2 = i /\ 2 - (k % 2) = j
    BY <1>1, HalvesBack, Zenon
  <2> HIDE DEF k
  <2>2. rest[k] = v[(k + 1) \div 2][2 - (k % 2)]
    BY <2>1, Zenon
  <2>3. rest[k] = v[i][j]
    BY <2>1, <2>2, Zenon
  <2> QED BY <2>1, <2>3 DEF k
<1> HIDE DEF front, rest
<1>8. /\ front \o rest \in Seq(Parts) /\ Len(front \o rest) = 2 + 2 * n
      /\ \A k \in 1..2 + 2 * n : (front \o rest)[k] = IF k <= 2 THEN front[k] ELSE rest[k - 2]
  <2>1. /\ front \o rest \in Seq(Parts)
        /\ Len(front \o rest) = Len(front) + Len(rest)
        /\ \A k \in 1..Len(front) + Len(rest) :
             (front \o rest)[k] = IF k <= Len(front) THEN front[k] ELSE rest[k - Len(front)]
    BY <1>5, <1>6, ConcatProperties, Zenon
  <2>2. Len(front) = 2 /\ Len(rest) = 2 * n
    BY <1>5, <1>6
  <2> QED BY <2>1, <2>2, Zenon
<1>9. ASSUME NEW i \in 1..n, NEW j \in 1..2 PROVE ReadOut(q)[2 * i + j] = v[i][j]
  <2>1. 2 * i + j \in 1..2 + 2 * n /\ ~(2 * i + j <= 2)
    BY <1>1, HalvesBack, Zenon
  <2>2. (front \o rest)[2 * i + j] = rest[2 * i + j - 2]
    <3> DEFINE k == 2 * i + j
    <3>1. k \in 1..2 + 2 * n /\ ~(k <= 2)
      BY <2>1
    <3> HIDE DEF k
    <3>2. (front \o rest)[k] = rest[k - 2]
      BY <1>8, <3>1, Zenon
    <3> QED BY <3>2 DEF k
  <2> QED BY <1>2, <1>7, <2>2, Zenon
<1>10. ASSUME NEW k \in 3..2 + 2 * n PROVE \E i \in 1..n : \E j \in 1..2 : k = 2 * i + j
  <2>1. k - 2 \in 1..2 * n
    BY <1>1, SMT
  <2>2. PICK i \in 1..n : \E j \in 1..2 : (k - 2) + 2 = 2 * i + j
    BY <1>1, <2>1, Halves, Zenon
  <2>3. (k - 2) + 2 = k
    BY <1>1, SMT
  <2> QED BY <2>2, <2>3, Zenon
<1>11. ReadOut(q)[1] = q.tools /\ ReadOut(q)[2] = q.system
  <2>1. 1 \in 1..2 + 2 * n /\ 2 \in 1..2 + 2 * n /\ 1 <= 2 /\ 2 <= 2
    BY <1>1, SMT
  <2> QED BY <1>2, <1>6, <1>8, <2>1, Zenon
<1> QED BY <1>1, <1>2, <1>8, <1>9, <1>10, <1>11, Zenon DEF EveryPlace, PartAfterPart

\* The markers of a message.
LEMMA PartMarks ==
  ASSUME NEW m \in Messages
  PROVE  /\ MarkedParts(m) \subseteq 1..2 /\ MarkedParts(m) = {j \in 1..2 : m[j].mark}
         /\ MarkedParts(m) # {} =>
              Latest(MarkedParts(m)) \in MarkedParts(m) /\ \A j \in MarkedParts(m) : j <= Latest(MarkedParts(m))
<1>1. DOMAIN m = 1..2
  BY DEF Messages
<1>2. MarkedParts(m) = {j \in 1..2 : m[j].mark}
  BY <1>1, Zenon DEF MarkedParts
<1>3. MarkedParts(m) \subseteq 1..2
  BY <1>2, Zenon
<1>4. 2 \in Nat
  OBVIOUS
<1> QED BY <1>2, <1>3, <1>4, LatestIsLast, Zenon

\* What is kept of a message up to its last marker tells where that is, if it has any.
LEMMA TruncatedFacts ==
  ASSUME NEW m \in Messages
  PROVE  /\ MarkedParts(m) = {} => TruncateMessageAtBreakpoint(m) = m
         /\ MarkedParts(m) # {} =>
              /\ TruncateMessageAtBreakpoint(m) = [j \in 1..Latest(MarkedParts(m)) |-> m[j]]
              /\ Latest(MarkedParts(m)) \in 1..2 /\ m[Latest(MarkedParts(m))].mark
<1>1. CASE MarkedParts(m) = {}
  BY <1>1, Zenon DEF TruncateMessageAtBreakpoint
<1>2. CASE MarkedParts(m) # {}
  <2> DEFINE l == Latest(MarkedParts(m))
  <2>1. l \in 1..2 /\ m[l].mark
    BY <1>2, PartMarks, Zenon
  <2>2. TruncateMessageAtBreakpoint(m) = SubSeq(m, 1, l)
    BY <1>2, Zenon DEF TruncateMessageAtBreakpoint
  <2> HIDE DEF l
  <2>3. SubSeq(m, 1, l) = [j \in 1..l |-> m[j]]
    BY <2>1, SMT
  <2> QED BY <1>2, <2>1, <2>2, <2>3, Zenon DEF l
<1> QED BY <1>1, <1>2, Zenon

AlikeTo(l, m, w) == \A j \in 1..l : m[j] = w[j]
LEMMA TruncatedAlike ==
  ASSUME NEW m \in Messages, NEW w \in Messages,
         TruncateMessageAtBreakpoint(m) = TruncateMessageAtBreakpoint(w)
  PROVE  /\ MarkedParts(m) = {} <=> MarkedParts(w) = {}
         /\ MarkedParts(m) = {} => m = w
         /\ MarkedParts(m) # {} => /\ Latest(MarkedParts(m)) = Latest(MarkedParts(w))
                                   /\ AlikeTo(Latest(MarkedParts(m)), m, w)
<1>1. ASSUME NEW a \in Messages, NEW b \in Messages, MarkedParts(a) # {}, MarkedParts(b) = {},
             TruncateMessageAtBreakpoint(a) = TruncateMessageAtBreakpoint(b)
      PROVE  FALSE
  <2> DEFINE l == Latest(MarkedParts(a))
  <2>1. l \in 1..2 /\ a[l].mark /\ [j \in 1..l |-> a[j]] = b
    BY <1>1, TruncatedFacts, Zenon
  <2> HIDE DEF l
  <2>2. a[l] = b[l]
    <3>1. l \in 1..l
      BY <2>1, SMT
    <3> QED BY <2>1, <3>1
  <2>3. ~b[l].mark
    BY <1>1, <2>1, PartMarks, Zenon
  <2> QED BY <2>1, <2>2, <2>3
<1>2. MarkedParts(m) = {} <=> MarkedParts(w) = {}
  BY <1>1, Zenon
<1>3. MarkedParts(m) = {} => m = w
  BY <1>2, TruncatedFacts, Zenon
<1>4. ASSUME MarkedParts(m) # {}
      PROVE  /\ Latest(MarkedParts(m)) = Latest(MarkedParts(w))
             /\ \A j \in 1..Latest(MarkedParts(m)) : m[j] = w[j]
  <2> DEFINE k == Latest(MarkedParts(m))
             l == Latest(MarkedParts(w))
  <2>1. k \in 1..2 /\ l \in 1..2 /\ [j \in 1..k |-> m[j]] = [j \in 1..l |-> w[j]]
    BY <1>2, <1>4, TruncatedFacts, Zenon
  <2> HIDE DEF k, l
  <2>2. 1..k = 1..l /\ \A j \in 1..k : m[j] = w[j]
    <3> DEFINE a == [j \in 1..k |-> m[j]]
               b == [j \in 1..l |-> w[j]]
    <3>1. DOMAIN a = 1..k /\ DOMAIN b = 1..l /\ (\A j \in 1..k : a[j] = m[j]) /\ (\A j \in 1..l : b[j] = w[j])
      OBVIOUS
    <3>2. a = b
      BY <2>1
    <3> HIDE DEF a, b
    <3> QED BY <3>1, <3>2
  <2>3. k = l
    BY <2>1, <2>2, SMT
  <2> QED BY <2>2, <2>3 DEF k, l
<1> QED BY <1>2, <1>3, <1>4, Zenon DEF AlikeTo

\* The messages that have a marker, and the last message of the prefix.
MarkedMessages(q) == {i \in DOMAIN q.messages : MarkedParts(q.messages[i]) # {}}
LEMMA LastMessageIs ==
  ASSUME NEW q \in Questions, NEW n, n = Len(q.messages)
  PROVE  /\ n \in Nat \ {0} /\ \A i \in 1..n : q.messages[i] \in Messages
         /\ MarkedMessages(q) = {i \in 1..n : MarkedParts(q.messages[i]) # {}}
         /\ MarkedMessages(q) # {} => /\ LastMessage(q) \in MarkedMessages(q)
                                      /\ \A i \in MarkedMessages(q) : i <= LastMessage(q)
         /\ MarkedMessages(q) = {} => LastMessage(q) = IF q.automatic THEN n ELSE 0
         /\ LastMessage(q) \in 0..n
<1>1. n \in Nat \ {0} /\ q.messages \in [1..n -> Messages]
  BY QuestionFacts, IdentityAssumption, SMT
<1>2. DOMAIN q.messages = 1..n /\ \A i \in 1..n : q.messages[i] \in Messages
  BY <1>1, Zenon
<1>3. MarkedMessages(q) = {i \in 1..n : MarkedParts(q.messages[i]) # {}}
  BY <1>2, Zenon DEF MarkedMessages
<1>4. MarkedMessages(q) # {} => LastMessage(q) = Latest(MarkedMessages(q))
  BY Zenon DEF LastMessage, MarkedMessages
<1>5. MarkedMessages(q) = {} => LastMessage(q) = IF q.automatic THEN n ELSE 0
  BY Zenon DEF LastMessage, MarkedMessages
<1>6. MarkedMessages(q) # {} => /\ LastMessage(q) \in MarkedMessages(q)
                                /\ \A i \in MarkedMessages(q) : i <= LastMessage(q)
  <2>1. MarkedMessages(q) \subseteq 1..n /\ n \in Nat
    BY <1>1, <1>3, Zenon
  <2> QED BY <1>4, <2>1, LatestIsLast, Zenon
<1>7. LastMessage(q) \in 0..n
  <2>1. 0 \in 0..n /\ n \in 0..n /\ \A i \in 1..n : i \in 0..n
    BY <1>1, SMT
  <2> QED BY <1>3, <1>5, <1>6, <2>1, Zenon
<1> QED BY <1>1, <1>2, <1>3, <1>5, <1>6, <1>7, Zenon

\* Where the markers say that the request is to be kept to.
LEMMA BoundaryIs ==
  ASSUME NEW q \in Questions, NEW n, n = Len(q.messages)
  PROVE  /\ MarkedMessages(q) # {} =>
              Boundary(q) = 2 * LastMessage(q) + Latest(MarkedParts(q.messages[LastMessage(q)]))
         /\ MarkedMessages(q) = {} /\ q.automatic => Boundary(q) = 2 + 2 * n
         /\ MarkedMessages(q) = {} /\ ~q.automatic =>
              Boundary(q) = IF q.system.mark THEN 2 ELSE IF q.tools.mark THEN 1 ELSE 0
<1> DEFINE out == ReadOut(q)
           marked == {k \in DOMAIN out : out[k].mark}
           ms == q.messages
<1>1. /\ n \in Nat \ {0} /\ \A i \in 1..n : ms[i] \in Messages
      /\ MarkedMessages(q) = {i \in 1..n : MarkedParts(ms[i]) # {}}
  BY LastMessageIs, Zenon
<1>2. /\ Len(out) = 2 + 2 * n /\ out \in Seq(Parts) /\ out[1] = q.tools /\ out[2] = q.system
      /\ \A i \in 1..n : \A j \in 1..2 : out[2 * i + j] = ms[i][j]
      /\ \A k \in 3..2 + 2 * n : \E i \in 1..n : \E j \in 1..2 : k = 2 * i + j
  <2>1. /\ Len(out) = 2 + 2 * n /\ out \in Seq(Parts) /\ out[1] = q.tools /\ out[2] = q.system
        /\ PartAfterPart(q, n) /\ EveryPlace(n)
    BY ReadOutFacts, Zenon
  <2> QED BY <2>1, Zenon DEF EveryPlace, PartAfterPart
<1>3. DOMAIN out = 1..2 + 2 * n
  <2> HIDE DEF out
  <2> QED BY <1>2, SMT
<1>4. Boundary(q) = CASE q.automatic /\ (\A k \in marked : k <= 2) -> Len(out)
                      [] ~q.automatic /\ marked = {} -> 0
                      [] OTHER -> Latest(marked)
  BY DEF Boundary
<1>5. \A i \in 1..n : \A j \in 1..2 : 2 * i + j \in marked <=> j \in MarkedParts(ms[i])
  <2> SUFFICES ASSUME NEW i \in 1..n, NEW j \in 1..2
               PROVE  2 * i + j \in marked <=> j \in MarkedParts(ms[i])
    BY Zenon
  <2>1. 2 * i + j \in 1..2 + 2 * n
    BY <1>1, HalvesBack, Zenon
  <2>2. out[2 * i + j] = ms[i][j]
    BY <1>2, Zenon
  <2>3. MarkedParts(ms[i]) = {h \in 1..2 : ms[i][h].mark}
    BY <1>1, PartMarks, Zenon
  <2> HIDE DEF out, ms
  <2> QED BY <1>3, <2>1, <2>2, <2>3, Zenon
<1>6. \A k \in marked : k \in 1..2 \/ \E i \in MarkedMessages(q) : \E j \in MarkedParts(ms[i]) : k = 2 * i + j
  <2> SUFFICES ASSUME NEW k \in marked, k \notin 1..2
               PROVE  \E i \in MarkedMessages(q) : \E j \in MarkedParts(ms[i]) : k = 2 * i + j
    BY Zenon
  <2>1. k \in 1..2 + 2 * n
    BY <1>3, Zenon
  <2>2. k \in 3..2 + 2 * n
    BY <1>1, <2>1, SMT
  <2>3. PICK i \in 1..n, j \in 1..2 : k = 2 * i + j
    BY <1>2, <2>2, Zenon
  <2>4. j \in MarkedParts(ms[i])
    BY <1>5, <2>3, Zenon
  <2> HIDE DEF ms
  <2> QED BY <1>1, <2>3, <2>4, Zenon
<1>7. (1 \in marked <=> q.tools.mark) /\ (2 \in marked <=> q.system.mark)
  <2>1. 1 \in 1..2 + 2 * n /\ 2 \in 1..2 + 2 * n
    BY <1>1, SMT
  <2> HIDE DEF out
  <2> QED BY <1>2, <1>3, <2>1, Zenon
<1>8. marked \subseteq Nat
  <2>1. 1..2 + 2 * n \subseteq Nat
    BY <1>1, SMT
  <2> HIDE DEF out
  <2> QED BY <1>3, <2>1, Zenon
<1>9. Len(out) = 2 + 2 * n
  BY <1>2
<1> HIDE DEF out, marked, ms
<1>10. ASSUME MarkedMessages(q) # {}
       PROVE  Boundary(q) = 2 * LastMessage(q) + Latest(MarkedParts(ms[LastMessage(q)]))
  <2> DEFINE l == LastMessage(q)
             h == Latest(MarkedParts(ms[l]))
  <2>1. l \in MarkedMessages(q) /\ \A i \in MarkedMessages(q) : i <= l
    BY <1>10, LastMessageIs, Zenon
  <2>2. l \in 1..n /\ MarkedParts(ms[l]) # {} /\ ms[l] \in Messages
    BY <1>1, <2>1, Zenon
  <2>3. h \in MarkedParts(ms[l]) /\ (\A j \in MarkedParts(ms[l]) : j <= h) /\ h \in 1..2
    BY <2>2, PartMarks, Zenon
  <2>4. \A i \in MarkedMessages(q) : MarkedParts(ms[i]) \subseteq 1..2 /\ i \in 1..n
    BY <1>1, PartMarks, Zenon
  <2> HIDE DEF l, h
  <2>5. 2 * l + h \in marked
    BY <1>5, <2>2, <2>3, Zenon
  <2>6. 2 * l + h > 2
    BY <1>1, <2>2, <2>3, SMT
  <2>7. ASSUME NEW k \in marked PROVE k <= 2 * l + h
    <3>1. CASE k \in 1..2
      BY <3>1, <1>1, <2>2, <2>3, SMT
    <3>2. ASSUME NEW i \in MarkedMessages(q), NEW j \in MarkedParts(ms[i]), k = 2 * i + j
          PROVE  k <= 2 * l + h
      <4>1. i <= l /\ i \in 1..n /\ j \in 1..2
        BY <2>1, <2>4, <3>2, Zenon
      <4>2. i = l => j <= h
        BY <2>3, <3>2, Zenon
      <4>3. k = 2 * i + j
        BY <3>2
      <4> HIDE DEF MarkedMessages
      <4> QED BY <1>1, <2>2, <2>3, <4>1, <4>2, <4>3, SMT
    <3> QED BY <1>6, <3>1, <3>2, Zenon
  <2>8. Latest(marked) = 2 * l + h
    BY <1>8, <2>5, <2>7, LatestIsUnique, Zenon
  <2>9. ~(\A k \in marked : k <= 2)
    <3>1. ~(2 * l + h <= 2)
      BY <1>1, <2>2, <2>3, SMT
    <3> QED BY <2>5, <3>1, Zenon
  <2>10. marked # {}
    BY <2>5, Zenon
  <2> QED BY <1>4, <2>8, <2>9, <2>10, Zenon DEF l, h
<1>11. ASSUME MarkedMessages(q) = {}
       PROVE  /\ marked \subseteq 1..2 /\ \A k \in marked : k <= 2
  <2>1. marked \subseteq 1..2
    BY <1>6, <1>11, Zenon
  <2>2. \A k \in 1..2 : k <= 2
    BY SMT
  <2> QED BY <2>1, <2>2, Zenon
<1>12. ASSUME MarkedMessages(q) = {}, q.automatic PROVE Boundary(q) = 2 + 2 * n
  BY <1>4, <1>9, <1>11, <1>12, Zenon
<1>13. ASSUME MarkedMessages(q) = {}, ~q.automatic
       PROVE  Boundary(q) = IF q.system.mark THEN 2 ELSE IF q.tools.mark THEN 1 ELSE 0
  <2>1. marked \subseteq 1..2
    BY <1>11, <1>13
  <2>2. CASE q.system.mark
    <3>1. 2 \in marked /\ \A k \in marked : k <= 2
      BY <1>7, <1>11, <1>13, <2>2, Zenon
    <3>2. Latest(marked) = 2
      BY <1>8, <3>1, LatestIsUnique, Zenon
    <3> QED BY <1>4, <1>13, <2>2, <3>1, <3>2, Zenon
  <2>3. CASE ~q.system.mark /\ q.tools.mark
    <3>1. 1 \in marked /\ 2 \notin marked
      BY <1>7, <2>3, Zenon
    <3>2. \A k \in 1..2 : k # 2 => k <= 1
      BY SMT
    <3>3. \A k \in marked : k <= 1
      BY <2>1, <3>1, <3>2, Zenon
    <3>4. Latest(marked) = 1
      BY <1>8, <3>1, <3>3, LatestIsUnique, Zenon
    <3> QED BY <1>4, <1>13, <2>3, <3>1, <3>4, Zenon
  <2>4. CASE ~q.system.mark /\ ~q.tools.mark
    <3>1. 1 \notin marked /\ 2 \notin marked
      BY <1>7, <2>4, Zenon
    <3>2. \A k \in 1..2 : k = 1 \/ k = 2
      BY SMT
    <3>3. marked = {}
      BY <2>1, <3>1, <3>2, Zenon
    <3> QED BY <1>4, <1>13, <2>4, <3>3, Zenon
  <2> QED BY <2>2, <2>3, <2>4, Zenon
<1> QED BY <1>10, <1>12, <1>13, Zenon DEF ms

\* Two requests are read alike up to a place.
LEMMA ReadAlike ==
  ASSUME NEW q \in Questions, NEW p \in Questions, NEW k \in Nat,
         \A i \in 1..k : ReadOut(q)[i] = ReadOut(p)[i]
  PROVE  SameUpTo(k, q, p)
<1> DEFINE a == ReadOut(q)
           b == ReadOut(p)
<1>1. \A i \in 1..k : a[i] = b[i]
  OBVIOUS
<1> HIDE DEF a, b
<1>2. SubSeq(a, 1, k) = [i \in 1..k |-> a[i]] /\ SubSeq(b, 1, k) = [i \in 1..k |-> b[i]]
  BY SMT
<1>3. SubSeq(a, 1, k) = SubSeq(b, 1, k)
  BY <1>1, <1>2
<1> QED BY <1>3 DEF SameUpTo, a, b

\* The key of a prefix, field by field.
Kept(q) == [i \in 1..LastMessage(q) |-> IF i = LastMessage(q) THEN TruncateMessageAtBreakpoint(q.messages[i])
                                        ELSE q.messages[i]]
LEMMA PrefixFields ==
  ASSUME NEW q, NEW p
  PROVE  PromptCachePrefix(p) = PromptCachePrefix(q) <=>
           /\ p.model = q.model /\ p.user = q.user /\ p.tools = q.tools /\ p.system = q.system
           /\ p.automatic = q.automatic /\ p.native = q.native /\ Kept(p) = Kept(q)
<1>1. PromptCachePrefix(p) = [model |-> p.model, user |-> p.user, tools |-> p.tools, system |-> p.system,
        automatic |-> p.automatic, native |-> p.native, messages |-> Kept(p)]
  BY Zenon DEF PromptCachePrefix, Kept
<1>2. PromptCachePrefix(q) = [model |-> q.model, user |-> q.user, tools |-> q.tools, system |-> q.system,
        automatic |-> q.automatic, native |-> q.native, messages |-> Kept(q)]
  BY Zenon DEF PromptCachePrefix, Kept
<1> QED BY <1>1, <1>2, SMT

\* Kept alike: as far, and what is before and at the end.
LEMMA KeptAlike ==
  ASSUME NEW q \in Questions, NEW p \in Questions, Kept(p) = Kept(q)
  PROVE  /\ LastMessage(p) = LastMessage(q)
         /\ \A i \in 1..LastMessage(q) : i # LastMessage(q) => p.messages[i] = q.messages[i]
         /\ LastMessage(q) # 0 => TruncateMessageAtBreakpoint(p.messages[LastMessage(q)])
                                    = TruncateMessageAtBreakpoint(q.messages[LastMessage(q)])
<1> DEFINE k == LastMessage(p)
           l == LastMessage(q)
           of(r, m) == [i \in 1..m |-> IF i = m THEN TruncateMessageAtBreakpoint(r.messages[i]) ELSE r.messages[i]]
<1>1. k \in Nat /\ l \in Nat
  <2>1. k \in 0..Len(p.messages) /\ Len(p.messages) \in Nat
    BY LastMessageIs, Zenon
  <2>2. l \in 0..Len(q.messages) /\ Len(q.messages) \in Nat
    BY LastMessageIs, Zenon
  <2> HIDE DEF k, l
  <2> QED BY <2>1, <2>2, SMT
<1>2. of(p, k) = of(q, l)
  BY Zenon DEF Kept
<1> HIDE DEF k, l
<1>3. DOMAIN of(p, k) = 1..k /\ DOMAIN of(q, l) = 1..l
  BY Zenon
<1>4. 1..k = 1..l
  <2> HIDE DEF of
  <2> QED BY <1>2, <1>3
<1>5. k = l
  BY <1>1, <1>4, SMT
<1>6. \A i \in 1..l : of(p, k)[i] = of(q, l)[i]
  <2> HIDE DEF of
  <2> QED BY <1>2
<1>7. \A i \in 1..l : i # l => of(p, k)[i] = p.messages[i] /\ of(q, l)[i] = q.messages[i]
  BY <1>5, Zenon
<1>8. l # 0 => l \in 1..l
  BY <1>1, SMT
<1>9. l # 0 => /\ of(p, k)[l] = TruncateMessageAtBreakpoint(p.messages[l])
               /\ of(q, l)[l] = TruncateMessageAtBreakpoint(q.messages[l])
  BY <1>5, <1>8, Zenon
<1> HIDE DEF of
<1>10. \A i \in 1..l : i # l => p.messages[i] = q.messages[i]
  BY <1>6, <1>7, Zenon
<1>11. l # 0 => TruncateMessageAtBreakpoint(p.messages[l]) = TruncateMessageAtBreakpoint(q.messages[l])
  BY <1>6, <1>8, <1>9, Zenon
<1> QED BY <1>5, <1>10, <1>11 DEF k, l

\* Whoever has one prefix wants the same kept to the same place.
LEMMA PrefixIsRead ==
  ASSUME NEW q \in Questions, NEW p \in Questions, PromptCachePrefix(p) = PromptCachePrefix(q)
  PROVE  Boundary(p) = Boundary(q) /\ SameUpTo(Boundary(q), q, p)
<1> DEFINE l == LastMessage(q)
           v == p.messages
           w == q.messages
           m == Len(v)
           n == Len(w)
<1>1. p.tools = q.tools /\ p.system = q.system /\ p.automatic = q.automatic /\ Kept(p) = Kept(q)
  BY PrefixFields, Zenon
<1>2. /\ LastMessage(p) = l /\ (\A i \in 1..l : i # l => v[i] = w[i])
      /\ l # 0 => TruncateMessageAtBreakpoint(v[l]) = TruncateMessageAtBreakpoint(w[l])
  BY <1>1, KeptAlike, Zenon
<1>3. /\ m \in Nat \ {0} /\ (\A i \in 1..m : v[i] \in Messages)
      /\ MarkedMessages(p) = {i \in 1..m : MarkedParts(v[i]) # {}}
      /\ MarkedMessages(p) # {} => LastMessage(p) \in MarkedMessages(p)
      /\ MarkedMessages(p) = {} => LastMessage(p) = IF p.automatic THEN m ELSE 0
      /\ LastMessage(p) \in 0..m
  BY LastMessageIs, Zenon
<1>4. /\ n \in Nat \ {0} /\ (\A i \in 1..n : w[i] \in Messages)
      /\ MarkedMessages(q) = {i \in 1..n : MarkedParts(w[i]) # {}}
      /\ MarkedMessages(q) # {} => LastMessage(q) \in MarkedMessages(q)
      /\ MarkedMessages(q) = {} => LastMessage(q) = IF q.automatic THEN n ELSE 0
      /\ LastMessage(q) \in 0..n
  BY LastMessageIs, Zenon
<1>5. /\ MarkedMessages(p) # {} =>
           Boundary(p) = 2 * LastMessage(p) + Latest(MarkedParts(v[LastMessage(p)]))
      /\ MarkedMessages(p) = {} /\ p.automatic => Boundary(p) = 2 + 2 * m
      /\ MarkedMessages(p) = {} /\ ~p.automatic =>
           Boundary(p) = IF p.system.mark THEN 2 ELSE IF p.tools.mark THEN 1 ELSE 0
  BY BoundaryIs, Zenon
<1>6. /\ MarkedMessages(q) # {} => Boundary(q) = 2 * l + Latest(MarkedParts(w[l]))
      /\ MarkedMessages(q) = {} /\ q.automatic => Boundary(q) = 2 + 2 * n
      /\ MarkedMessages(q) = {} /\ ~q.automatic =>
           Boundary(q) = IF q.system.mark THEN 2 ELSE IF q.tools.mark THEN 1 ELSE 0
  BY BoundaryIs, Zenon
<1>7. /\ ReadOut(p)[1] = p.tools /\ ReadOut(p)[2] = p.system
      /\ \A i \in 1..m : \A j \in 1..2 : ReadOut(p)[2 * i + j] = v[i][j]
  <2>1. ReadOut(p)[1] = p.tools /\ ReadOut(p)[2] = p.system /\ PartAfterPart(p, m)
    BY ReadOutFacts, Zenon
  <2> QED BY <2>1, Zenon DEF PartAfterPart
<1>8. /\ ReadOut(q)[1] = q.tools /\ ReadOut(q)[2] = q.system
      /\ \A i \in 1..n : \A j \in 1..2 : ReadOut(q)[2 * i + j] = w[i][j]
  <2>1. ReadOut(q)[1] = q.tools /\ ReadOut(q)[2] = q.system /\ PartAfterPart(q, n)
    BY ReadOutFacts, Zenon
  <2> QED BY <2>1, Zenon DEF PartAfterPart
<1>14. EveryPlace(n)
  BY ReadOutFacts, Zenon
<1> HIDE DEF l, v, w, m, n
<1>9. l # 0 => l \in 1..m /\ l \in 1..n
  BY <1>2, <1>3, <1>4, SMT DEF l
<1>10. MarkedMessages(p) = {} <=> MarkedMessages(q) = {}
  <2>1. 0 \notin 1..m /\ 0 \notin 1..n
    BY SMT
  <2>2. ASSUME MarkedMessages(p) # {} PROVE MarkedMessages(q) # {}
    <3>1. l \in MarkedMessages(p) /\ l # 0
      BY <1>2, <1>3, <2>1, <2>2, Zenon
    <3>2. l \in 1..m /\ l \in 1..n /\ MarkedParts(v[l]) # {}
      BY <1>3, <1>9, <3>1, Zenon
    <3>3. MarkedParts(w[l]) # {}
      BY <1>2, <1>3, <1>4, <3>1, <3>2, TruncatedAlike, Zenon
    <3> QED BY <1>4, <3>2, <3>3, Zenon
  <2>3. ASSUME MarkedMessages(q) # {} PROVE MarkedMessages(p) # {}
    <3>1. l \in MarkedMessages(q) /\ l # 0
      BY <1>4, <2>1, <2>3, Zenon DEF l
    <3>2. l \in 1..m /\ l \in 1..n /\ MarkedParts(w[l]) # {}
      BY <1>4, <1>9, <3>1, Zenon
    <3>3. MarkedParts(v[l]) # {}
      BY <1>2, <1>3, <1>4, <3>1, <3>2, TruncatedAlike, Zenon
    <3> QED BY <1>3, <3>2, <3>3, Zenon
  <2> QED BY <2>2, <2>3, Zenon
<1>11. CASE MarkedMessages(q) # {}
  <2> DEFINE h == Latest(MarkedParts(w[l]))
  <2>1. l \in MarkedMessages(q) /\ l \in 1..n /\ MarkedParts(w[l]) # {}
    BY <1>4, <1>11, Zenon DEF l
  <2>2. l # 0 /\ l \in 1..m
    <3>1. l # 0
      BY <2>1, SMT
    <3> QED BY <1>9, <3>1
  <2>3. /\ Latest(MarkedParts(v[l])) = h /\ (\A j \in 1..h : v[l][j] = w[l][j]) /\ h \in 1..2
    <3>1. v[l] \in Messages /\ w[l] \in Messages
      BY <1>3, <1>4, <2>1, <2>2, Zenon
    <3>2. TruncateMessageAtBreakpoint(w[l]) = TruncateMessageAtBreakpoint(v[l])
      BY <1>2, <2>2, Zenon
    <3>3. Latest(MarkedParts(w[l])) = Latest(MarkedParts(v[l]))
      BY <2>1, <3>1, <3>2, TruncatedAlike, Zenon
    <3>5. AlikeTo(Latest(MarkedParts(w[l])), w[l], v[l])
      BY <2>1, <3>1, <3>2, TruncatedAlike, Zenon
    <3>4. h \in 1..2
      BY <2>1, <3>1, TruncatedFacts, Zenon
    <3> QED BY <3>3, <3>4, <3>5, Zenon DEF AlikeTo
  <2>4. Boundary(q) = 2 * l + h /\ Boundary(p) = 2 * l + h
    BY <1>2, <1>5, <1>6, <1>10, <1>11, <2>3, Zenon
  <2> HIDE DEF h
  <2>5. ASSUME NEW k \in 1..2 * l + h PROVE ReadOut(q)[k] = ReadOut(p)[k]
    <3>1. k = 1 \/ k = 2 \/ k \in 3..2 + 2 * n
      BY <1>4, <2>1, <2>3, SMT
    <3>2. ASSUME k \in 3..2 + 2 * n PROVE ReadOut(q)[k] = ReadOut(p)[k]
      <4>1. PICK i \in 1..n, j \in 1..2 : k = 2 * i + j
        BY <1>14, <3>2, Zenon DEF EveryPlace
      <4>2. i \in 1..l /\ i \in 1..m /\ (i = l => j \in 1..h)
        BY <1>3, <1>4, <2>1, <2>2, <2>3, <2>5, <4>1, SMT
      <4>3. v[i][j] = w[i][j]
        BY <1>2, <2>3, <4>2, Zenon
      <4> QED BY <1>7, <1>8, <4>1, <4>2, <4>3, Zenon
    <3> QED BY <1>1, <1>7, <1>8, <3>1, <3>2, Zenon
  <2>6. 2 * l + h \in Nat
    BY <1>4, <2>1, <2>3, SMT
  <2>7. SameUpTo(2 * l + h, q, p)
    BY <2>5, <2>6, ReadAlike, Zenon
  <2> QED BY <2>4, <2>7, Zenon
<1>12. CASE MarkedMessages(q) = {} /\ q.automatic
  <2>1. l = n /\ l = m /\ l # 0
    <3>1. l = n /\ l = m
      BY <1>1, <1>2, <1>3, <1>4, <1>10, <1>12, Zenon DEF l
    <3> QED BY <1>3, <3>1, SMT
  <2>2. n \in 1..n /\ n = m /\ n \in Nat
    BY <1>4, <2>1, SMT
  <2>3. v[n] = w[n]
    <3>1. v[n] \in Messages /\ w[n] \in Messages /\ MarkedParts(w[n]) = {} /\ n # 0
      BY <1>3, <1>4, <1>12, <2>1, <2>2, Zenon
    <3>2. TruncateMessageAtBreakpoint(w[n]) = TruncateMessageAtBreakpoint(v[n])
      BY <1>2, <2>1, Zenon
    <3> QED BY <3>1, <3>2, TruncatedAlike, Zenon
  <2>4. \A i \in 1..n : v[i] = w[i]
    BY <1>2, <2>1, <2>3, Zenon
  <2>5. Boundary(q) = 2 + 2 * n /\ Boundary(p) = 2 + 2 * n
    BY <1>1, <1>5, <1>6, <1>10, <1>12, <2>2, Zenon
  <2>6. ASSUME NEW k \in 1..2 + 2 * n PROVE ReadOut(q)[k] = ReadOut(p)[k]
    <3>1. k = 1 \/ k = 2 \/ k \in 3..2 + 2 * n
      BY <1>4, SMT
    <3>2. ASSUME k \in 3..2 + 2 * n PROVE ReadOut(q)[k] = ReadOut(p)[k]
      <4>1. PICK i \in 1..n, j \in 1..2 : k = 2 * i + j
        BY <1>14, <3>2, Zenon DEF EveryPlace
      <4>2. ReadOut(q)[2 * i + j] = w[i][j] /\ ReadOut(p)[2 * i + j] = v[i][j]
        BY <1>7, <1>8, <2>2, <4>1, Zenon
      <4> QED BY <2>4, <4>1, <4>2, Zenon
    <3> QED BY <1>1, <1>7, <1>8, <3>1, <3>2, Zenon
  <2>7. 2 + 2 * n \in Nat
    BY <2>2, SMT
  <2>8. SameUpTo(2 + 2 * n, q, p)
    BY <2>6, <2>7, ReadAlike, Zenon
  <2> QED BY <2>5, <2>8, Zenon
<1>13. CASE MarkedMessages(q) = {} /\ ~q.automatic
  <2> DEFINE b == Boundary(q)
  <2>1. Boundary(p) = b
    BY <1>1, <1>5, <1>6, <1>10, <1>13, Zenon
  <2>2. b \in {0, 1, 2}
    BY <1>6, <1>13, Zenon
  <2> HIDE DEF b
  <2>3. b \in Nat /\ \A k \in 1..b : k = 1 \/ k = 2
    BY <2>2, SMT
  <2>4. \A k \in 1..b : ReadOut(q)[k] = ReadOut(p)[k]
    BY <1>1, <1>7, <1>8, <2>3, Zenon
  <2>5. SameUpTo(b, q, p)
    BY <2>3, <2>4, ReadAlike, Zenon
  <2> QED BY <2>1, <2>5 DEF b
<1> QED BY <1>11, <1>12, <1>13, Zenon

-----------------------------------------------------------------------------
\* --- the key of a conversation
LEMMA HasBreakpointIs ==
  ASSUME NEW q \in Questions
  PROVE  RequestHasBreakpoint(q) <=> q.tools.mark \/ q.system.mark \/ MarkedMessages(q) # {}
  BY Zenon DEF RequestHasBreakpoint, MarkedMessages

HeadKey(q) == [model |-> q.model, user |-> q.user, system |-> q.system.says, head |-> q.messages[1]]
LEMMA KeysDiffer ==
  ASSUME NEW q, NEW p
  PROVE  /\ PromptCachePrefix(q) # HeadKey(p)
         /\ HeadKey(q) = HeadKey(p) =>
              q.model = p.model /\ q.user = p.user /\ q.system.says = p.system.says /\ q.messages[1] = p.messages[1]
<1>1. PromptCachePrefix(q) # HeadKey(p)
  <2> DEFINE a == PromptCachePrefix(q)
             b == HeadKey(p)
  <2>1. "head" \notin DOMAIN a
    BY SMT DEF PromptCachePrefix
  <2>2. "head" \in DOMAIN b
    BY SMT DEF HeadKey
  <2> HIDE DEF a, b
  <2>3. a # b
    BY <2>1, <2>2
  <2> QED BY <2>3 DEF a, b
<1>2. HeadKey(q) = HeadKey(p) =>
        q.model = p.model /\ q.user = p.user /\ q.system.says = p.system.says /\ q.messages[1] = p.messages[1]
  BY SMT DEF HeadKey
<1> QED BY <1>1, <1>2, Zenon

\* A pin that is found was recorded for a request whose kept part this one repeats.
LEMMA PinsAreFollowed ==
  ASSUME NEW q \in Questions, NEW p \in Questions, AffinityKey(p) = AffinityKey(q)
  PROVE  /\ p.model = q.model /\ p.user = q.user
         /\ Boundary(p) = Boundary(q) /\ SameUpTo(Boundary(q), q, p)
         /\ Directed(q) \/ (p.messages[1] = q.messages[1] /\ p.system = q.system)
<1>1. /\ AffinityKey(q) = IF Directed(q) THEN PromptCachePrefix(q) ELSE HeadKey(q)
      /\ AffinityKey(p) = IF Directed(p) THEN PromptCachePrefix(p) ELSE HeadKey(p)
  BY Zenon DEF AffinityKey, HeadKey
<1>2. Directed(p) <=> Directed(q)
  BY <1>1, KeysDiffer, Zenon
<1>3. CASE Directed(q)
  <2>1. PromptCachePrefix(p) = PromptCachePrefix(q)
    BY <1>1, <1>2, <1>3, Zenon
  <2>2. p.model = q.model /\ p.user = q.user
    BY <2>1, PrefixFields, Zenon
  <2>3. Boundary(p) = Boundary(q) /\ SameUpTo(Boundary(q), q, p)
    BY <2>1, PrefixIsRead, Zenon
  <2> QED BY <1>3, <2>2, <2>3, Zenon
<1>4. CASE ~Directed(q)
  <2>1. HeadKey(p) = HeadKey(q)
    BY <1>1, <1>2, <1>4, Zenon
  <2>2. p.model = q.model /\ p.user = q.user /\ p.system.says = q.system.says /\ p.messages[1] = q.messages[1]
    BY <2>1, KeysDiffer, Zenon
  <2>3. ASSUME NEW r \in Questions, ~Directed(r)
        PROVE  Boundary(r) = 0 /\ ~r.system.mark
    <3>1. ~r.automatic /\ ~r.system.mark /\ ~r.tools.mark /\ MarkedMessages(r) = {}
      BY <2>3, HasBreakpointIs, Zenon DEF Directed
    <3> QED BY <3>1, BoundaryIs, Zenon
  <2>4. Boundary(p) = 0 /\ Boundary(q) = 0 /\ ~p.system.mark /\ ~q.system.mark
    BY <1>2, <1>4, <2>3, Zenon
  <2>5. p.system = q.system
    <3>1. p.system \in Parts /\ q.system \in Parts
      BY QuestionFacts, Zenon
    <3>2. \A b, c \in Parts : ~b.mark /\ ~c.mark /\ b.says = c.says => b = c
      BY SMT DEF Parts
    <3> QED BY <2>2, <2>4, <3>1, <3>2, Zenon
  <2>6. SameUpTo(0, q, p)
    <3>1. 0 \in Nat /\ \A i \in 1..0 : ReadOut(q)[i] = ReadOut(p)[i]
      BY SMT
    <3> QED BY <3>1, ReadAlike, Zenon
  <2> QED BY <2>2, <2>4, <2>5, <2>6, Zenon
<1> QED BY <1>3, <1>4, Zenon

\* Whoever goes on with a conversation has its key.
LEMMA GoingOnFinds ==
  ASSUME NEW q \in Questions, NEW p \in Questions, GoesOnFrom(q, p), ~q.automatic
  PROVE  AffinityKey(q) = AffinityKey(p)
<1> DEFINE v == p.messages
           w == q.messages
           m == Len(v)
           n == Len(w)
           k == LastMessage(p)
           l == LastMessage(q)
<1>1. /\ q.model = p.model /\ q.user = p.user /\ q.native = p.native /\ q.automatic = p.automatic
      /\ q.tools = p.tools /\ q.system = p.system
  <2> DEFINE texts == UNION {[1..h -> Messages] : h \in 1..MaxLength}
             truths == BOOLEAN
             blocks == Parts
             shape == [model : {0, 1}, user : {0, 1}, settings : {0, 1}, budget : {0, 1}, native : {0, 1},
                       automatic : truths, tools : blocks, system : blocks, messages : texts]
  <2>1. q \in shape /\ p \in shape
    BY DEF Questions, QuestionsOf
  <2>2. [q EXCEPT !.messages = <<>>] = [p EXCEPT !.messages = <<>>]
    BY DEF GoesOnFrom
  <2> HIDE DEF texts, truths, blocks
  <2> DEFINE a == [q EXCEPT !.messages = <<>>]
             b == [p EXCEPT !.messages = <<>>]
  <2>3. a.model = q.model /\ a.user = q.user /\ a.native = q.native /\ a.automatic = q.automatic
          /\ a.tools = q.tools /\ a.system = q.system
    BY <2>1, SMT
  <2>4. b.model = p.model /\ b.user = p.user /\ b.native = p.native /\ b.automatic = p.automatic
          /\ b.tools = p.tools /\ b.system = p.system
    BY <2>1, SMT
  <2>5. a = b
    BY <2>2
  <2> HIDE DEF a, b
  <2> QED BY <2>3, <2>4, <2>5, Zenon
<1>2. /\ m \in Nat \ {0} /\ MarkedMessages(p) = {i \in 1..m : MarkedParts(v[i]) # {}}
      /\ MarkedMessages(p) # {} => k \in MarkedMessages(p) /\ \A i \in MarkedMessages(p) : i <= k
      /\ MarkedMessages(p) = {} => k = IF p.automatic THEN m ELSE 0
      /\ k \in 0..m
  BY LastMessageIs, Zenon
<1>3. /\ n \in Nat \ {0} /\ MarkedMessages(q) = {i \in 1..n : MarkedParts(w[i]) # {}}
      /\ MarkedMessages(q) # {} => l \in MarkedMessages(q) /\ \A i \in MarkedMessages(q) : i <= l
      /\ MarkedMessages(q) = {} => l = IF q.automatic THEN n ELSE 0
      /\ l \in 0..n
  BY LastMessageIs, Zenon
<1>4. m <= n /\ SubSeq(w, 1, m) = v /\ \A i \in m + 1..n : MarkedParts(w[i]) = {}
  BY Zenon DEF GoesOnFrom
<1>5. /\ Kept(p) = [i \in 1..k |-> IF i = k THEN TruncateMessageAtBreakpoint(v[i]) ELSE v[i]]
      /\ Kept(q) = [i \in 1..l |-> IF i = l THEN TruncateMessageAtBreakpoint(w[i]) ELSE w[i]]
  BY Zenon DEF Kept
<1>6. w \in Seq(Messages)
  BY QuestionFacts, Zenon
<1>7. v[1] = w[1] => HeadKey(p) = HeadKey(q)
  BY <1>1, Zenon DEF HeadKey
<1>8. ~p.automatic /\ ~q.automatic
  BY <1>1
<1> HIDE DEF v, w, m, n, k, l
<1>9. \A i \in 1..m : v[i] = w[i]
  <2>1. SubSeq(w, 1, m) = [i \in 1..m |-> w[i]]
    BY <1>2, <1>3, <1>4, <1>6, SMT
  <2>2. v = [i \in 1..m |-> w[i]]
    BY <1>4, <2>1
  <2> QED BY <2>2, Zenon
<1>10. MarkedMessages(q) = MarkedMessages(p)
  <2>1. \A i \in 1..n : i \in 1..m \/ i \in m + 1..n
    BY <1>2, <1>3, SMT
  <2>2. 1..m \subseteq 1..n
    BY <1>2, <1>3, <1>4, SMT
  <2> QED BY <1>2, <1>3, <1>4, <1>9, <2>1, <2>2, Zenon
<1>11. k = l
  <2>1. CASE MarkedMessages(q) = {}
    BY <1>2, <1>3, <1>8, <1>10, <2>1, Zenon
  <2>2. CASE MarkedMessages(q) # {}
    <3>1. k <= l /\ l <= k
      BY <1>2, <1>3, <1>10, <2>2, Zenon
    <3> QED BY <1>2, <1>3, <3>1, SMT
  <2> QED BY <2>1, <2>2
<1>12. Kept(p) = Kept(q)
  <2>1. \A i \in 1..k : v[i] = w[i]
    <3>1. 1..k \subseteq 1..m
      BY <1>2, SMT
    <3> QED BY <1>9, <3>1, Zenon
  <2> QED BY <1>5, <1>11, <2>1, Zenon
<1>13. PromptCachePrefix(p) = PromptCachePrefix(q)
  BY <1>1, <1>12, PrefixFields, Zenon
<1>14. HeadKey(p) = HeadKey(q)
  <2>1. 1 \in 1..m
    BY <1>2, SMT
  <2> QED BY <1>7, <1>9, <2>1, Zenon
<1>15. Directed(p) <=> Directed(q)
  BY <1>1, <1>10, HasBreakpointIs, Zenon DEF Directed
<1> QED BY <1>13, <1>14, <1>15, Zenon DEF AffinityKey, HeadKey

-----------------------------------------------------------------------------
\* --- requests and answers
UsualRequest == usual \in [length : 1..MaxLength, marks : UNION {MarksUpTo(n) : n \in 1..MaxLength},
                           automatic : BOOLEAN, other : {"nothing"}]
\* Whatever is kept is kept under its own key.
AnswersAreFiled == \A e \in inStore : e.from \in Questions /\ e.key = Key(e.from)
PinsAreFiled == \A pin \in pins : pin.from \in Questions /\ pin.key = AffinityKey(pin.from)
\* What a request found, and what it will leave, is for its own keys.
Asks(a) ==
  /\ a.at \in {"out", "calling", "done"} /\ a.header \in Headers
  /\ a.question \in Questions \/ (a.question = NoQuestion /\ a.at # "calling")
  /\ a.key \subseteq {Key(a.question)}
  /\ \A p \in a.served : p \in Questions /\ a.question \in Questions /\ a.header = "none"
                         /\ Key(p) = Key(a.question)
  /\ a.header = "none" => \A p \in a.others : p \in Questions /\ a.question \in Questions
                                              /\ Key(p) # Key(a.question)
  /\ \A p \in a.pinned : p \in Questions /\ a.question \in Questions
                         /\ AffinityKey(p) = AffinityKey(a.question)
IdentityInv ==
  /\ IdentityTypeOK /\ UsualRequest /\ AnswersAreFiled /\ PinsAreFiled
  /\ DOMAIN asked = Askers /\ \A r \in Askers : Asks(asked[r])

\* What the invariant says of those that are under way.
LEMMA QuestionsAreKept == IdentityInv => AnswersKeepTheirQuestions
<1> SUFFICES ASSUME IdentityInv, NEW r \in Askers
             PROVE  LET q == asked[r].question
                    IN /\ \A p \in asked[r].served : Meaning(p) = Meaning(q) /\ asked[r].header = "none"
                       /\ asked[r].header = "none" => \A p \in asked[r].others : Meaning(p) # Meaning(q)
                       /\ \A p \in asked[r].pinned :
                            /\ p.model = q.model /\ p.user = q.user
                            /\ Boundary(p) = Boundary(q) /\ SameUpTo(Boundary(q), q, p)
                            /\ Directed(q) \/ (p.messages[1] = q.messages[1] /\ p.system = q.system)
                       /\ \A s \in Askers : \A pin \in pins :
                            asked[r].at = "calling" /\ GoesOnFrom(q, pin.from) /\ ~q.automatic =>
                              AffinityKey(q) = pin.key
  BY Zenon DEF AnswersKeepTheirQuestions
<1> DEFINE a == asked[r]
           q == a.question
<1>1. Asks(a) /\ PinsAreFiled
  BY DEF IdentityInv
<1> HIDE DEF a
<1>2. ASSUME NEW p \in a.served PROVE Meaning(p) = Meaning(q) /\ a.header = "none"
  BY <1>1, KeyIsTheMeaning, Zenon DEF Asks
<1>3. ASSUME a.header = "none", NEW p \in a.others PROVE Meaning(p) # Meaning(q)
  BY <1>1, <1>3, KeyIsTheMeaning, Zenon DEF Asks
<1>4. ASSUME NEW p \in a.pinned
      PROVE  /\ p.model = q.model /\ p.user = q.user
             /\ Boundary(p) = Boundary(q) /\ SameUpTo(Boundary(q), q, p)
             /\ Directed(q) \/ (p.messages[1] = q.messages[1] /\ p.system = q.system)
  BY <1>1, PinsAreFollowed, Zenon DEF Asks
<1>5. ASSUME NEW pin \in pins, a.at = "calling", GoesOnFrom(q, pin.from), ~q.automatic
      PROVE  AffinityKey(q) = pin.key
  <2>1. q \in Questions /\ pin.from \in Questions /\ pin.key = AffinityKey(pin.from)
    BY <1>1, <1>5, Zenon DEF Asks, PinsAreFiled
  <2> QED BY <1>5, <2>1, GoingOnFinds, Zenon
<1> QED BY <1>2, <1>3, <1>4, <1>5, Zenon DEF a

\* A request's state is made of that of one that has not come.
Found(x, q, header, place) ==
  x.question = q /\ x.header = header /\ x.at = place
Called(q, header, S) ==
  [[NotAsked EXCEPT !.question = q, !.header = header] EXCEPT !.at = "calling", !.pinned = S]
Served(q, header, S) ==
  [[NotAsked EXCEPT !.question = q, !.header = header] EXCEPT !.at = "done", !.served = S]
Missed(q, header, S, K, O) == [Called(q, header, S) EXCEPT !.key = K, !.others = O]
Over == [NotAsked EXCEPT !.at = "done"]
Knows(x, key, served, others, pinned) ==
  x.key = key /\ x.served = served /\ x.others = others /\ x.pinned = pinned
LEMMA StatesOfRequests ==
  ASSUME NEW q, NEW header, NEW K, NEW O, NEW S
  PROVE  /\ Found(Called(q, header, S), q, header, "calling") /\ Knows(Called(q, header, S), {}, {}, {}, S)
         /\ Found(Served(q, header, S), q, header, "done") /\ Knows(Served(q, header, S), {}, S, {}, {})
         /\ Found(Missed(q, header, S, K, O), q, header, "calling")
         /\ Knows(Missed(q, header, S, K, O), K, {}, O, S)
         /\ Found(Over, NoQuestion, "none", "done") /\ Knows(Over, {}, {}, {}, {})
         /\ Found(NotAsked, NoQuestion, "none", "out") /\ Knows(NotAsked, {}, {}, {}, {})
<1> DEFINE n == NotAsked
<1>1. n \in [at : {"out"}, question : {NoQuestion}, header : {"none"}, key : {{}}, served : {{}},
             others : {{}}, pinned : {{}}]
  BY SMT DEF NotAsked
<1> HIDE DEF n
<1> DEFINE begun == [n EXCEPT !.question = q, !.header = header]
           called == [begun EXCEPT !.at = "calling", !.pinned = S]
           served == [begun EXCEPT !.at = "done", !.served = S]
           missed == [called EXCEPT !.key = K, !.others = O]
           over == [n EXCEPT !.at = "done"]
<1>2. Found(called, q, header, "calling") /\ Knows(called, {}, {}, {}, S)
  BY <1>1, SMT DEF Found, Knows
<1>3. Found(served, q, header, "done") /\ Knows(served, {}, S, {}, {})
  BY <1>1, SMT DEF Found, Knows
<1>4. Found(missed, q, header, "calling") /\ Knows(missed, K, {}, O, S)
  BY <1>1, SMT DEF Found, Knows
<1>5. Found(over, NoQuestion, "none", "done") /\ Knows(over, {}, {}, {}, {})
  BY <1>1, SMT DEF Found, Knows
<1>6. Found(n, NoQuestion, "none", "out") /\ Knows(n, {}, {}, {}, {})
  BY <1>1, SMT DEF Found, Knows
<1>7. /\ called = Called(q, header, S) /\ served = Served(q, header, S)
      /\ missed = Missed(q, header, S, K, O) /\ over = Over
  BY DEF n, Called, Served, Missed, Over
<1> HIDE DEF begun, called, served, missed, over
<1> QED BY <1>2, <1>3, <1>4, <1>5, <1>6, <1>7, Zenon DEF n

LEMMA AsksTyped ==
  ASSUME NEW a, Asks(a)
  PROVE  /\ a.at \in {"out", "calling", "done"} /\ a.header \in Headers
         /\ Len(a.question.messages) <= MaxLength
<1>1. CASE a.question \in Questions
  <2>1. Len(a.question.messages) \in 1..MaxLength
    BY <1>1, QuestionFacts, Zenon
  <2>2. Len(a.question.messages) <= MaxLength
    BY <2>1, IdentityAssumption, SMT
  <2> QED BY <2>2 DEF Asks
<1>2. CASE a.question = NoQuestion
  <2>1. NoQuestion.messages = [i \in 1..0 |-> [j \in 1..2 |-> Block(PartNames[i][j], {}, "nothing")]]
    BY SMT DEF NoQuestion, RequestOf
  <2>2. Len(NoQuestion.messages) = 0
    BY <2>1, SMT
  <2>3. 0 <= MaxLength
    BY IdentityAssumption, SMT
  <2> QED BY <1>2, <2>2, <2>3 DEF Asks
<1> QED BY <1>1, <1>2 DEF Asks

LEMMA NobodyAsks == Asks(NotAsked) /\ Asks(Over)
<1>1. "none" \in Headers
  BY DEF Headers
<1>2. ASSUME NEW a, NEW place \in {"out", "done"}, Found(a, NoQuestion, "none", place), Knows(a, {}, {}, {}, {})
      PROVE  Asks(a)
  <2>1. a.at # "calling" /\ a.at \in {"out", "calling", "done"}
    BY <1>2 DEF Found
  <2> QED BY <1>1, <1>2, <2>1, Zenon DEF Asks, Found, Knows
<1> QED BY <1>2, StatesOfRequests, Zenon

LEMMA IdentityStart == IdentityInit => IdentityInv
<1> SUFFICES ASSUME IdentityInit PROVE IdentityInv
  OBVIOUS
<1>1. /\ enabled \in BOOLEAN /\ switches = 0 /\ inStore = {} /\ pins = {}
      /\ asked = [r \in Askers |-> NotAsked]
  BY Zenon DEF IdentityInit
<1>2. DOMAIN asked = Askers /\ \A r \in Askers : Asks(asked[r])
  <2>1. DOMAIN asked = Askers /\ \A r \in Askers : asked[r] = NotAsked
    BY <1>1, Zenon
  <2> QED BY <2>1, NobodyAsks, Zenon
<1>3. IdentityTypeOK
  <2>1. switches \in 0..MaxSwitches
    BY <1>1, IdentityAssumption, SMT
  <2> QED BY <1>1, <1>2, <2>1, AsksTyped, Zenon DEF IdentityTypeOK
<1>4. AnswersAreFiled /\ PinsAreFiled
  BY <1>1, Zenon DEF AnswersAreFiled, PinsAreFiled
<1>5. UsualRequest
  <2>1. PICK n \in 1..MaxLength : usual \in [length : {n}, marks : MarksUpTo(n), automatic : BOOLEAN,
                                             other : {"nothing"}]
    BY Zenon DEF IdentityInit
  <2> DEFINE few == MarksUpTo(n)
             many == UNION {MarksUpTo(k) : k \in 1..MaxLength}
             truths == BOOLEAN
  <2>2. few \subseteq many /\ {n} \subseteq 1..MaxLength
    BY Zenon
  <2>3. usual \in [length : {n}, marks : few, automatic : truths, other : {"nothing"}]
    BY <2>1
  <2> HIDE DEF few, many, truths
  <2>4. usual \in [length : 1..MaxLength, marks : many, automatic : truths, other : {"nothing"}]
    BY <2>2, <2>3, SMT
  <2> QED BY <2>4 DEF UsualRequest, many, truths
<1> QED BY <1>2, <1>3, <1>4, <1>5 DEF IdentityInv

\* A request comes.
LEMMA AskKeeps ==
  ASSUME IdentityInv, NEW r \in Askers, NEW q \in Questions, NEW header \in Headers, AskGateway(r, q, header)
  PROVE  IdentityInv'
<1> DEFINE found == {e \in inStore : e.key = Key(q)}
           from == {e.from : e \in found}
           all == {e.from : e \in inStore}
           followed == {pin.from : pin \in {pin \in pins : pin.key = AffinityKey(q)}}
           key == {Key(q)}
           called == Called(q, header, followed)
           served == Served(q, header, from)
           missed == Missed(q, header, followed, key, all)
           x == CASE ~enabled \/ header = "off" -> called
                  [] enabled /\ header = "none" /\ found # {} -> served
                  [] OTHER -> missed
<1>1. UNCHANGED <<usual, enabled, switches, inStore, pins>> /\ asked' = [asked EXCEPT ![r] = x]
  BY DEF AskGateway, Lookup, Called, Served, Missed
<1>4. x = called \/ (x = served /\ header = "none") \/ (x = missed /\ (header = "none" => found = {}))
  <2>1. enabled \in BOOLEAN
    BY DEF IdentityInv, IdentityTypeOK
  <2> HIDE DEF called, served, missed, found
  <2> QED BY <2>1, Zenon
<1>8. \A p \in from : p \in Questions /\ Key(p) = Key(q)
  BY Zenon DEF IdentityInv, AnswersAreFiled
<1>9. found = {} => \A p \in all : p \in Questions /\ Key(p) # Key(q)
  BY Zenon DEF IdentityInv, AnswersAreFiled
<1>10. \A p \in followed : p \in Questions /\ AffinityKey(p) = AffinityKey(q)
  BY Zenon DEF IdentityInv, PinsAreFiled
<1> HIDE DEF found, from, all, followed, key
<1>5. Found(called, q, header, "calling") /\ Knows(called, {}, {}, {}, followed)
  BY StatesOfRequests, Zenon
<1>6. Found(served, q, header, "done") /\ Knows(served, {}, from, {}, {})
  BY StatesOfRequests, Zenon
<1>7. Found(missed, q, header, "calling") /\ Knows(missed, key, {}, all, followed)
  BY StatesOfRequests, Zenon
<1> HIDE DEF called, served, missed
<1>11. Asks(called)
  BY <1>5, <1>10, Zenon DEF Asks, Found, Knows
<1>12. header = "none" => Asks(served)
  BY <1>6, <1>8, Zenon DEF Asks, Found, Knows
<1>13. (header = "none" => found = {}) => Asks(missed)
  BY <1>7, <1>9, <1>10, Zenon DEF Asks, Found, Knows, key
<1>14. Asks(x)
  <2> HIDE DEF x
  <2> QED BY <1>4, <1>11, <1>12, <1>13, Zenon
<1> HIDE DEF x
<1>15. DOMAIN asked = Askers /\ \A s \in Askers : Asks(asked[s])
  BY DEF IdentityInv
<1>16. DOMAIN asked' = Askers /\ \A s \in Askers : Asks(asked'[s])
  BY <1>1, <1>14, <1>15, Zenon
<1>17. IdentityTypeOK'
  <2>1. \A s \in Askers : /\ asked'[s].at \in {"out", "calling", "done"} /\ asked'[s].header \in Headers
                          /\ Len(asked'[s].question.messages) <= MaxLength
    BY <1>16, AsksTyped, Zenon
  <2> QED BY <1>1, <2>1, Zenon DEF IdentityInv, IdentityTypeOK
<1>18. UsualRequest' /\ AnswersAreFiled' /\ PinsAreFiled'
  BY <1>1, Zenon DEF IdentityInv, UsualRequest, AnswersAreFiled, PinsAreFiled
<1> QED BY <1>16, <1>17, <1>18 DEF IdentityInv

\* The end of a call, whatever it leaves.
LEMMA OverKeeps ==
  ASSUME IdentityInv, NEW r \in Askers, asked' = [asked EXCEPT ![r] = Over],
         UNCHANGED <<usual, enabled, switches>>,
         AnswersAreFiled', PinsAreFiled',
         \A e, f \in inStore' : e # f => e.key # f.key,
         \A p, q \in pins' : p # q => p.key # q.key
  PROVE  IdentityInv'
<1>1. DOMAIN asked = Askers /\ \A s \in Askers : Asks(asked[s])
  BY DEF IdentityInv
<1>2. DOMAIN asked' = Askers /\ \A s \in Askers : Asks(asked'[s])
  BY <1>1, NobodyAsks, Zenon
<1>3. \A s \in Askers : /\ asked'[s].at \in {"out", "calling", "done"} /\ asked'[s].header \in Headers
                        /\ Len(asked'[s].question.messages) <= MaxLength
  BY <1>2, AsksTyped, Zenon
<1>4. IdentityTypeOK'
  BY <1>3, Zenon DEF IdentityInv, IdentityTypeOK
<1>5. UsualRequest'
  BY Zenon DEF IdentityInv, UsualRequest
<1> QED BY <1>2, <1>4, <1>5 DEF IdentityInv

\* An answer that comes is kept under the key of the request, in place of what was there.
LEMMA SucceedKeeps ==
  ASSUME IdentityInv, NEW r \in Askers, NEW whole \in BOOLEAN, CallSucceeds(r, whole)
  PROVE  IdentityInv'
<1> DEFINE q == asked[r].question
           keys == asked[r].key
           k == AffinityKey(q)
           pin == [key |-> k, from |-> q]
           new == {[key |-> h, from |-> q] : h \in keys}
<1>1. /\ asked[r].at = "calling" /\ pins' = {p \in pins : p.key # pin.key} \cup {pin}
      /\ inStore' = IF whole THEN {e \in inStore : e.key \notin keys} \cup new ELSE inStore
      /\ asked' = [asked EXCEPT ![r] = Over] /\ UNCHANGED <<usual, enabled, switches>>
  BY DEF CallSucceeds, Over
<1>2. q \in Questions /\ keys \subseteq {Key(q)}
  BY <1>1, Zenon DEF IdentityInv, Asks
<1>3. /\ AnswersAreFiled /\ PinsAreFiled
      /\ \A e, f \in inStore : e # f => e.key # f.key
      /\ \A p, o \in pins : p # o => p.key # o.key
  BY DEF IdentityInv, IdentityTypeOK
<1>4. pin.key = k /\ pin.from = q
  OBVIOUS
<1>5. \A e \in new : e.from = q /\ e.key = Key(q) /\ e.key \in keys
  <2>1. \A h : [key |-> h, from |-> q].key = h /\ [key |-> h, from |-> q].from = q
    OBVIOUS
  <2> QED BY <1>2, <2>1, Zenon
<1>6. \A e, f \in new : e = f
  BY <1>2, Zenon
<1> HIDE DEF q, keys, pin, new
<1>7. PinsAreFiled'
  BY <1>1, <1>2, <1>3, <1>4, Zenon DEF PinsAreFiled
<1>8. AnswersAreFiled'
  BY <1>1, <1>2, <1>3, <1>5, Zenon DEF AnswersAreFiled
<1>9. \A e, f \in inStore' : e # f => e.key # f.key
  BY <1>1, <1>3, <1>5, <1>6, Zenon
<1>10. \A p, o \in pins' : p # o => p.key # o.key
  BY <1>1, <1>3, Zenon
<1> QED BY <1>1, <1>7, <1>8, <1>9, <1>10, OverKeeps, Zenon

LEMMA FailKeeps ==
  ASSUME IdentityInv, NEW r \in Askers, CallFails(r)
  PROVE  IdentityInv'
<1>1. asked' = [asked EXCEPT ![r] = Over] /\ UNCHANGED <<usual, enabled, switches, inStore, pins>>
  BY DEF CallFails, Over
<1>2. AnswersAreFiled' /\ PinsAreFiled'
  BY <1>1, Zenon DEF IdentityInv, AnswersAreFiled, PinsAreFiled
<1>3. /\ \A e, f \in inStore' : e # f => e.key # f.key
      /\ \A p, o \in pins' : p # o => p.key # o.key
  BY <1>1, Zenon DEF IdentityInv, IdentityTypeOK
<1> QED BY <1>1, <1>2, <1>3, OverKeeps, Zenon

LEMMA IdentityStep == IdentityInv /\ [IdentityNext]_identityVars => IdentityInv'
<1> SUFFICES ASSUME IdentityInv, [IdentityNext]_identityVars PROVE IdentityInv'
  OBVIOUS
<1>1. ASSUME NEW r \in Askers, NEW w \in Wordings, NEW header \in Headers,
             AskGateway(r, RequestOf(w.length, w.marks, w.automatic, w.other), header)
      PROVE  IdentityInv'
  <2>1. w.length \in 1..MaxLength /\ w.automatic \in BOOLEAN
    <3> DEFINE marks == UNION {MarksUpTo(n) : n \in 1..MaxLength}
               truths == BOOLEAN
               lengths == 1..MaxLength
               shape == [length : lengths, marks : marks, automatic : truths, other : {"nothing"}]
    <3>1. usual \in shape
      BY DEF IdentityInv, UsualRequest
    <3>2. usual.automatic \in truths /\ (~usual.automatic) \in truths
      <4>1. usual.automatic \in BOOLEAN
        BY <3>1, Zenon
      <4> QED BY <4>1
    <3> HIDE DEF marks, truths, lengths
    <3>3. usual.length \in lengths /\ usual.automatic \in truths
      BY <3>1, SMT
    <3>4. ASSUME NEW n \in lengths
          PROVE  [usual EXCEPT !.length = n].length \in lengths /\ [usual EXCEPT !.length = n].automatic \in truths
      BY <3>1, SMT
    <3>5. ASSUME NEW m
          PROVE  [usual EXCEPT !.marks = m].length \in lengths /\ [usual EXCEPT !.marks = m].automatic \in truths
      BY <3>1, SMT
    <3>6. ASSUME NEW b \in truths
          PROVE  [usual EXCEPT !.automatic = b].length \in lengths /\ [usual EXCEPT !.automatic = b].automatic \in truths
      BY <3>1, SMT
    <3>7. ASSUME NEW o
          PROVE  [usual EXCEPT !.other = o].length \in lengths /\ [usual EXCEPT !.other = o].automatic \in truths
      BY <3>1, SMT
    <3>8. \/ w = usual \/ (\E n \in lengths : w = [usual EXCEPT !.length = n])
          \/ (\E m : w = [usual EXCEPT !.marks = m])
          \/ w = [usual EXCEPT !.automatic = ~usual.automatic]
          \/ (\E o : w = [usual EXCEPT !.other = o])
      BY Zenon DEF Wordings, lengths
    <3>9. w.length \in lengths /\ w.automatic \in truths
      BY <3>2, <3>3, <3>4, <3>5, <3>6, <3>7, <3>8, Zenon
    <3> QED BY <3>9 DEF lengths, truths
  <2>2. RequestOf(w.length, w.marks, w.automatic, w.other) \in Questions
    BY <2>1, RequestsAreQuestions, Zenon
  <2> QED BY <1>1, <2>2, AskKeeps, Zenon
<1>2. CASE SetResponseCache
  <2>1. /\ UNCHANGED <<usual, inStore, pins, asked>> /\ enabled' = ~enabled
        /\ switches < MaxSwitches /\ switches' = switches + 1
    BY <1>2, Zenon DEF SetResponseCache
  <2>2. IdentityTypeOK /\ UsualRequest /\ AnswersAreFiled /\ PinsAreFiled
    BY DEF IdentityInv
  <2>3. switches' \in 0..MaxSwitches /\ enabled' \in BOOLEAN
    <3>1. switches \in 0..MaxSwitches
      BY <2>2 DEF IdentityTypeOK
    <3>2. switches' \in 0..MaxSwitches
      BY <2>1, <3>1, IdentityAssumption, SMT
    <3> QED BY <2>1, <3>2
  <2>4. IdentityTypeOK'
    BY <2>1, <2>2, <2>3, Zenon DEF IdentityTypeOK
  <2>5. UsualRequest' /\ AnswersAreFiled' /\ PinsAreFiled'
    BY <2>1, <2>2, Zenon DEF UsualRequest, AnswersAreFiled, PinsAreFiled
  <2>6. (DOMAIN asked = Askers)' /\ (\A r \in Askers : Asks(asked[r]))'
    BY <2>1, Zenon DEF IdentityInv
  <2> QED BY <2>4, <2>5, <2>6 DEF IdentityInv
<1>3. CASE UNCHANGED identityVars
  <2>1. UNCHANGED <<usual, enabled, switches, inStore, pins, asked>>
    BY <1>3 DEF identityVars
  <2>2. IdentityTypeOK'
    BY <2>1, Zenon DEF IdentityInv, IdentityTypeOK
  <2>3. UsualRequest' /\ AnswersAreFiled' /\ PinsAreFiled'
    BY <2>1, Zenon DEF IdentityInv, UsualRequest, AnswersAreFiled, PinsAreFiled
  <2>4. (DOMAIN asked = Askers)' /\ (\A r \in Askers : Asks(asked[r]))'
    BY <2>1, Zenon DEF IdentityInv
  <2> QED BY <2>2, <2>3, <2>4 DEF IdentityInv
<1> QED BY <1>1, <1>2, <1>3, SucceedKeeps, FailKeeps, Zenon DEF IdentityNext

\* ANSWERS.  For any number of requests, of messages and of changes of the setting: an answer
\* from the cache is one to the same question but for cache markers, and none is missed for
\* where they stand; a request that wants no cache gets none; and a pin is followed by a
\* request that repeats what the upstream was to keep, up to the place that the client named,
\* and is found by whoever goes on with the conversation (responsecache.go, affinity.go).
THEOREM AnswersAreToTheQuestion == IdentitySpec => [](IdentityTypeOK /\ AnswersKeepTheirQuestions)
<1>1. IdentityInv => IdentityTypeOK /\ AnswersKeepTheirQuestions
  BY QuestionsAreKept DEF IdentityInv
<1> QED BY <1>1, IdentityStart, IdentityStep, PTL DEF IdentitySpec
=============================================================================
