----------------------------- MODULE CacheIdentity -----------------------------
(***************************************************************************)
(* When two requests are the same: the key under which an answer is cached *)
(* (internal/lib/responsecache/responsecache.go, used by                   *)
(* internal/routes/response_cache.go) and the key under which a            *)
(* conversation is pinned to a provider                                    *)
(* (internal/lib/affinity/affinity.go). The first leaves out where the     *)
(* client wants the upstream to keep a prefix; the second is that prefix,  *)
(* or the head of the conversation if the client says nothing. Two         *)
(* requests of a client, which may differ in one thing, come while an      *)
(* operator switches the cache. A key is the record that is hashed, the    *)
(* user's name included (affinity's IncludeUserID). The pin is looked up a *)
(* moment after the cache; here in the same step. External: the store,     *)
(* which answers and keeps what it has; its outages, expiry and clearing   *)
(* are RedisStore's, the bounds of the pins are Affinity's.                *)
(***************************************************************************)
EXTENDS Naturals, Sequences

CONSTANTS MaxAsked,    \* requests, numbered as they come
          MaxLength,   \* messages of a request, of two parts each
          MaxSwitches  \* bound: operator's changes of the setting
ASSUME IdentityAssumption == MaxAsked \in Nat /\ MaxLength \in Nat /\ MaxSwitches \in Nat

\* What may be said differently, and where a marker may stand.
PartNames == <<<<"hello", "there">>, <<"now", "then">>, <<"so", "long">>>>
PartsUpTo(n) == {PartNames[i][j] : i \in 1..n, j \in 1..2}
Fields == {"model", "user", "settings", "budget", "native"}
Blocks == {"tools", "system"}
Headers == {"none", "refresh", "off"}

VARIABLES usual,    \* the client's usual request
          enabled,  \* response_cache.enabled
          switches,
          inStore,  \* the store: under which key, whose answer
          pins,     \* the affinity cache: under which key, for which request
          asked     \* per request, how far it is

identityVars == <<usual, enabled, switches, inStore, pins, asked>>

Askers == 1..MaxAsked

\* A block or part: what it says, and whether it carries a cache marker.
Block(name, marks, other) == [says |-> IF name = other THEN 1 ELSE 0, mark |-> name \in marks]

\* A canonical request of n messages, which says one thing (or nothing) differently.
RequestOf(n, marks, automatic, other) ==
  LET Of(field) == IF field = other THEN 1 ELSE 0
  IN [model |-> Of("model"), user |-> Of("user"), settings |-> Of("settings"),
      budget |-> Of("budget"), native |-> Of("native"), automatic |-> automatic,
      tools |-> Block("tools", marks, other), system |-> Block("system", marks, other),
      messages |-> [i \in 1..n |-> [j \in 1..2 |-> Block(PartNames[i][j], marks, other)]]]

MarkerPlaces(n) == Blocks \cup PartsUpTo(n)
MarksUpTo(n) == {{}} \cup {{place} : place \in MarkerPlaces(n)}
NoQuestion == RequestOf(0, {}, FALSE, "nothing")
NotAsked == [at |-> "out", question |-> NoQuestion, header |-> "none",
             key |-> {},      \* responseCacheState: the key, if the answer may be cached
             served |-> {},   \* whose answer it got from the cache
             others |-> {},   \* history: whose answers were there, when it was not served
             pinned |-> {}]   \* for which requests the pin it found was recorded

IdentityTypeOK ==
  /\ enabled \in BOOLEAN /\ switches \in 0..MaxSwitches
  /\ \A e, f \in inStore : e # f => e.key # f.key
  /\ \A p, q \in pins : p # q => p.key # q.key
  /\ \A r \in Askers :
       /\ asked[r].at \in {"out", "calling", "done"} /\ asked[r].header \in Headers
       /\ Len(asked[r].question.messages) <= MaxLength

\* The plainest request.
Bare == [length |-> 1, marks |-> {}, automatic |-> FALSE, other |-> "nothing"]

IdentityInit ==
  /\ \E n \in 1..MaxLength : usual \in [length : {n}, marks : MarksUpTo(n), automatic : BOOLEAN,
                                       other : {"nothing"}]
  /\ enabled \in BOOLEAN /\ switches = 0
  /\ inStore = {} /\ pins = {} /\ asked = [r \in Askers |-> NotAsked]

\* --- the key of an answer
\* Slip: a block goes into the key with its marker.
MarkedAsItIs(block) == block
\* semanticSystem, semanticTools, semanticContent: without the marker.
Unmarked(block) == block.says

SemanticMessages(messages) == [i \in DOMAIN messages |-> [j \in DOMAIN messages[i] |-> Unmarked(messages[i][j])]]

\* Slip: the thinking budget is not of the request, but of its extensions.
KeyWithoutBudget(q) ==
  [model |-> q.model, system |-> Unmarked(q.system), messages |-> SemanticMessages(q.messages),
   tools |-> Unmarked(q.tools), settings |-> q.settings, user |-> q.user]
\* Key: what may change the answer; settings are the choice of a tool, the sampling values,
\* the response format and the previous response.
Key(q) ==
  [model |-> q.model, system |-> Unmarked(q.system), messages |-> SemanticMessages(q.messages),
   tools |-> Unmarked(q.tools), settings |-> q.settings, user |-> q.user, budget |-> q.budget]

\* --- the key of a conversation
MarkedParts(message) == {j \in DOMAIN message : message[j].mark}
Latest(S) == CHOOSE i \in S : \A j \in S : j <= i

RequestHasBreakpoint(q) ==
  q.tools.mark \/ q.system.mark \/ \E i \in DOMAIN q.messages : MarkedParts(q.messages[i]) # {}

\* The message that the prefix ends with: the last one with a marker, or else the last one
\* if the client wants automatic caching, or none.
LastMessage(q) ==
  LET marked == {i \in DOMAIN q.messages : MarkedParts(q.messages[i]) # {}}
  IN CASE marked # {} -> Latest(marked)
       [] marked = {} /\ q.automatic -> Len(q.messages)
       [] OTHER -> 0

\* Slip: the prefix ends before the part with the marker, which stays out of the key.
TruncatedBefore(message) ==
  IF MarkedParts(message) = {} THEN message ELSE SubSeq(message, 1, Latest(MarkedParts(message)) - 1)
\* The parts of the message up to its last marker.
TruncateMessageAtBreakpoint(message) ==
  IF MarkedParts(message) = {} THEN message ELSE SubSeq(message, 1, Latest(MarkedParts(message)))

PromptCachePrefix(q) ==
  LET last == LastMessage(q)
  IN [model |-> q.model, user |-> q.user, tools |-> q.tools, system |-> q.system,
      automatic |-> q.automatic, native |-> q.native,
      messages |-> [i \in 1..last |-> IF i = last THEN TruncateMessageAtBreakpoint(q.messages[i])
                                      ELSE q.messages[i]]]

\* The prefix, if the client has any cache directive; or else the system text and the first
\* message.
Directed(q) == q.automatic \/ q.native # 0 \/ RequestHasBreakpoint(q)
AffinityKey(q) ==
  IF Directed(q) THEN PromptCachePrefix(q)
  ELSE [model |-> q.model, user |-> q.user, system |-> q.system.says, head |-> q.messages[1]]

\* --- requests
\* The setting and the header decide whether the cache is read and written.
Lookup(r, q, header) ==
  LET found == {e \in inStore : e.key = Key(q)}
      begun == [NotAsked EXCEPT !.question = q, !.header = header]
      pinned == {p.from : p \in {p \in pins : p.key = AffinityKey(q)}}
      called == [begun EXCEPT !.at = "calling", !.pinned = pinned]
  IN asked' = [asked EXCEPT ![r] =
       CASE ~enabled \/ header = "off" -> called
         [] enabled /\ header = "none" /\ found # {} ->
              [begun EXCEPT !.at = "done", !.served = {e.from : e \in found}]
         [] OTHER -> [called EXCEPT !.key = {Key(q)}, !.others = {e.from : e \in inStore}]]

\* A request comes when those before it have come.
AskGateway(r, q, header) ==
  /\ asked[r].at = "out" /\ \A s \in Askers : s < r => asked[s].at # "out"
  /\ Lookup(r, q, header)
  /\ UNCHANGED <<usual, enabled, switches, inStore, pins>>

\* The provider's answer: a whole one is cached, under the key of the beginning; after one
\* that is empty, or has a part that the cache does not know, the conversation is pinned all
\* the same; a failure leaves nothing.
CallSucceeds(r, whole) ==
  LET q == asked[r].question
      pin == [key |-> AffinityKey(q), from |-> q]
  IN /\ asked[r].at = "calling"
     /\ inStore' = IF whole
                   THEN {e \in inStore : e.key \notin asked[r].key}
                          \cup {[key |-> k, from |-> q] : k \in asked[r].key}
                   ELSE inStore
     /\ pins' = {p \in pins : p.key # pin.key} \cup {pin}
     /\ asked' = [asked EXCEPT ![r] = [NotAsked EXCEPT !.at = "done"]]
     /\ UNCHANGED <<usual, enabled, switches>>
CallFails(r) ==
  /\ asked[r].at = "calling" /\ asked' = [asked EXCEPT ![r] = [NotAsked EXCEPT !.at = "done"]]
  /\ UNCHANGED <<usual, enabled, switches, inStore, pins>>

\* An operator switches the cache on or off.
SetResponseCache ==
  /\ switches < MaxSwitches /\ switches' = switches + 1 /\ enabled' = ~enabled
  /\ UNCHANGED <<usual, inStore, pins, asked>>

\* Bound: a request is the client's usual one, but for one thing, and the first is the usual one.
Wordings == {usual}
  \cup {[usual EXCEPT !.length = n] : n \in 1..MaxLength}
  \cup {[usual EXCEPT !.marks = marks] : marks \in MarksUpTo(usual.length)}
  \cup {[usual EXCEPT !.automatic = ~@]}
  \cup {[usual EXCEPT !.other = other] : other \in Fields \cup MarkerPlaces(usual.length)}

IdentityNext ==
  \/ \E r \in Askers :
       \/ \E w \in Wordings, header \in Headers :
            /\ r = 1 => w = usual
            /\ r > 1 => w = usual \/ header = "none"
            /\ AskGateway(r, RequestOf(w.length, w.marks, w.automatic, w.other), header)
       \/ \E whole \in BOOLEAN : CallSucceeds(r, whole)
       \/ CallFails(r)
  \/ SetResponseCache

IdentitySpec == IdentityInit /\ [][IdentityNext]_identityVars

-----------------------------------------------------------------------------
\* A request without its markers, whatever else it may have.
Plain(block) == [block EXCEPT !.mark = FALSE]
Meaning(q) ==
  [q EXCEPT !.automatic = FALSE, !.native = 0, !.tools = Plain(@), !.system = Plain(@),
            !.messages = [i \in DOMAIN @ |-> [j \in DOMAIN @[i] |-> Plain(@[i][j])]]]

\* What the upstream reads, in its order, and where the client wants it kept to: to the last
\* marker, or, if caching is automatic and no message has one, to the end.
ReadOut(q) == <<q.tools, q.system>> \o
  [k \in 1..2 * Len(q.messages) |-> q.messages[(k + 1) \div 2][2 - (k % 2)]]
Boundary(q) == LET marked == {k \in DOMAIN ReadOut(q) : ReadOut(q)[k].mark}
               IN CASE q.automatic /\ \A k \in marked : k <= 2 -> Len(ReadOut(q))
                    [] ~q.automatic /\ marked = {} -> 0
                    [] OTHER -> Latest(marked)
SameUpTo(k, q, p) == SubSeq(ReadOut(q), 1, k) = SubSeq(ReadOut(p), 1, k)

\* The conversation of p goes on, with its markers where they were.
GoesOnFrom(q, p) ==
  /\ [q EXCEPT !.messages = <<>>] = [p EXCEPT !.messages = <<>>]
  /\ Len(p.messages) <= Len(q.messages) /\ SubSeq(q.messages, 1, Len(p.messages)) = p.messages
  /\ \A i \in Len(p.messages) + 1..Len(q.messages) : MarkedParts(q.messages[i]) = {}

\* IDENTITY.  An answer from the cache is one to the same question: whatever else the
\* requests have, they differ in cache markers only; and with the cache on, a question that
\* was answered is not asked again because its markers moved.  A request that wants no cache
\* is not served from it.  A pin is followed only by a request of the same model and user that
\* repeats what the upstream was to keep, or, without a word of that, the system text and the
\* first message; and it is found by whoever goes on with the conversation, unless caching is
\* automatic.
AnswersKeepTheirQuestions ==
  \A r \in Askers :
    LET q == asked[r].question
    IN /\ \A p \in asked[r].served : Meaning(p) = Meaning(q) /\ asked[r].header = "none"
       /\ asked[r].header = "none" => \A p \in asked[r].others : Meaning(p) # Meaning(q)
       /\ \A p \in asked[r].pinned :
            /\ p.model = q.model /\ p.user = q.user
            /\ Boundary(p) = Boundary(q) /\ SameUpTo(Boundary(q), q, p)
            /\ Directed(q) \/ (p.messages[1] = q.messages[1] /\ p.system = q.system)
       /\ \A s \in Askers : \A pin \in pins :
            asked[r].at = "calling" /\ GoesOnFrom(q, pin.from) /\ ~q.automatic =>
              AffinityKey(q) = pin.key
=============================================================================
