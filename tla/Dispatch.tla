------------------------------ MODULE Dispatch ------------------------------
(***************************************************************************)
(* Failover dispatch: how a gateway request becomes a list of attempts     *)
(* (routes/model_resolution.go), how an attempt becomes candidates         *)
(* (lib/modelrouting, providerdispatch/prepare.go), and how they are tried *)
(* in turn (providerdispatch/attempts.go, with the candidate handler and   *)
(* the streaming fallback of routes/chat.go and routes/messages.go).       *)
(*                                                                         *)
(* Requests run concurrently.  They share the affinity cache, the          *)
(* round-robin cursor and the set of active providers, which an operator   *)
(* changes meanwhile; a client may leave at any moment.                    *)
(***************************************************************************)
EXTENDS Affinity

CONSTANTS
  Requests,     \* request goroutines
  Asked,        \* model names clients ask for
  Virtual,      \* the enabled virtual model's name, or None
  Upstreams,    \* its upstreams by priority: sequence of [model, provider]
  RoundRobin,   \* its strategy is round-robin, else priority
  Qualified,    \* for each name: None or the [model, provider] its prefix gives
  Ambiguous,    \* names whose prefix is the alias or name of several instances
  Canonical,    \* NormalizeModelName
  Catalog,      \* the models each instance advertises (enabled ones)
  Rank,         \* priority of each instance, ties broken by instance ID
  Evaluators,   \* System One instances: they serve no generation
  Copilots,     \* GitHub Copilot instances
  Unstable      \* instances an operator switches off and on

ASSUME RoutingAssumption ==
  /\ Qualified \in [Keys -> [model : Keys, provider : Instances] \cup {None}]
  /\ Canonical \in [Keys -> Keys]
  /\ Catalog \in [Instances -> SUBSET Keys]
  /\ Rank \in [Instances -> Nat]
  /\ \A i, j \in Instances : i # j => Rank[i] # Rank[j]
  /\ IsFiniteSet(Instances)
  /\ Upstreams \in Seq([model : Keys, provider : Instances \cup {None}])
  /\ Upstreams # <<>> \/ Virtual = None
  /\ Asked \subseteq Keys /\ Ambiguous \subseteq Keys /\ Unstable \subseteq Instances
  /\ \A m \in Ambiguous : Virtual = None \/ Virtual \notin {m, Canonical[m]}

VARIABLES
  active,       \* the registry's active instances
  cursor,       \* rrState of the virtual model
  pc,           \* where each request is
  asked,        \* the model its client asked for
  stream,       \* whether the client wants a stream
  client,       \* whether the client is still connected
  attempts,     \* attempts left, the current one first
  candidates,   \* prepared candidates left, the current one first
  mode,         \* how the current candidate is called
  previousUnavailable,  \* TryAttempts' flag
  lastErr,      \* TryAttempts' last error
  single,       \* the single-upstream flags of the shared request.Extensions
  result,       \* how the request ended
  \* History.
  plan,         \* the attempts of a request as expanded
  steady,       \* instances active ever since the request's expansion
  tried,        \* <<instance, model>> pairs called for a request
  doomed,       \* calls begun after the client left
  server,       \* which instance answered a model last, while its pin lives
  expected      \* server of the asked model when the request looked it up

requestVars == <<pc, asked, stream, client, attempts, candidates, mode,
                 previousUnavailable, lastErr, single, result>>
historyVars == <<plan, steady, tried, doomed, server, expected>>
vars == <<affinityVars, active, cursor, requestVars, historyVars>>

Generators == Instances \ Evaluators
AttemptSet == [model : Keys, provider : Instances \cup {None}, conditional : BOOLEAN]

TypeOK ==
  /\ AffinityTypeOK
  /\ active \subseteq Instances
  /\ cursor \in 0..Len(Upstreams)
  /\ pc \in [Requests -> {"idle", "prefer", "attempt", "candidate", "calling", "done"}]
  /\ asked \in [Requests -> Keys \cup {None}]
  /\ stream \in [Requests -> BOOLEAN]
  /\ client \in [Requests -> BOOLEAN]
  /\ attempts \in [Requests -> Seq(AttemptSet)]
  /\ candidates \in [Requests -> Seq(Generators)]
  /\ mode \in [Requests -> {"stream", "plain"}]
  /\ previousUnavailable \in [Requests -> BOOLEAN]
  /\ lastErr \in [Requests -> {"none", "notfound", "unsupported", "upstream"}]
  /\ single \in [Requests -> BOOLEAN]
  /\ result \in [Requests -> {"none", "answered", "canceled", "rejected", "unresolved",
                             "failed"}]
  /\ plan \in [Requests -> Seq(AttemptSet)]
  /\ steady \in [Requests -> SUBSET Instances]
  /\ tried \in [Requests -> SUBSET (Instances \X Keys)]
  /\ doomed \in [Requests -> Nat]
  /\ server \in [Keys -> Instances \cup {None}]
  /\ expected \in [Requests -> Instances \cup {None}]

Init ==
  /\ AffinityInit
  /\ active = Instances
  /\ cursor = 0
  /\ pc = [r \in Requests |-> "idle"]
  /\ asked = [r \in Requests |-> None]
  /\ stream = [r \in Requests |-> FALSE]
  /\ client = [r \in Requests |-> TRUE]
  /\ attempts = [r \in Requests |-> <<>>]
  /\ candidates = [r \in Requests |-> <<>>]
  /\ mode = [r \in Requests |-> "plain"]
  /\ previousUnavailable = [r \in Requests |-> TRUE]
  /\ lastErr = [r \in Requests |-> "none"]
  /\ single = [r \in Requests |-> FALSE]
  /\ result = [r \in Requests |-> "none"]
  /\ plan = [r \in Requests |-> <<>>]
  /\ steady = [r \in Requests |-> {}]
  /\ tried = [r \in Requests |-> {}]
  /\ doomed = [r \in Requests |-> 0]
  /\ server = [k \in Keys |-> None]
  /\ expected = [r \in Requests |-> None]

-----------------------------------------------------------------------------
Attempt(m, p, conditional) == [model |-> m, provider |-> p, conditional |-> conditional]

\* Slip: the chosen element changes places with the first one.
SwappedToFront(s, n) ==
  IF n \in 2..Len(s) THEN [s EXCEPT ![1] = s[n], ![n] = s[1]] ELSE s

\* The n-th element first, the others in their order.
ToFront(s, n) ==
  IF n \in 2..Len(s) THEN <<s[n]>> \o SubSeq(s, 1, n - 1) \o SubSeq(s, n + 1, Len(s))
  ELSE s

\* Where a round-robin order starts: rrState modulo the number of upstreams.
Start == cursor % Len(Upstreams)

\* OrderUpstreams: round-robin starts at the cursor and wraps around.
Ordered ==
  IF RoundRobin
  THEN SubSeq(Upstreams, Start + 1, Len(Upstreams)) \o SubSeq(Upstreams, 1, Start)
  ELSE Upstreams

\* The virtual model is meant by its own name or by an alias of it.
IsVirtual(m) == Virtual # None /\ Virtual \in {m, Canonical[m]}

\* resolveRequestedModels: one attempt per upstream of a virtual model;
\* otherwise the name itself and, when its prefix names a provider, the bare
\* model pinned to it as long as nothing serves the full name.
Expanded(m) ==
  IF IsVirtual(m)
  THEN [n \in 1..Len(Upstreams) |->
          Attempt(Ordered[n].model, Ordered[n].provider, FALSE)]
  ELSE IF Qualified[m] = None
  THEN <<Attempt(m, None, FALSE)>>
  ELSE <<Attempt(m, None, FALSE),
         Attempt(Qualified[m].model, Qualified[m].provider, TRUE)>>

\* preferAffinityAttempt: the first attempt pinned to the instance moves to the
\* front, unless it is there already.
Preferred(as, i) ==
  LET there == {n \in 2..Len(as) : as[n].provider = i}
  IN IF i = None \/ there = {} THEN as
     ELSE ToFront(as, CHOOSE n \in there : \A k \in there : n <= k)

\* Slip: the reordered list is not the one that is prepared.
PinnedIgnored(cs, i) == cs

\* moveInstanceToFront.
PinnedFirst(cs, i) ==
  IF \E n \in 1..Len(cs) : cs[n] = i
  THEN ToFront(cs, CHOOSE n \in 1..Len(cs) : cs[n] = i)
  ELSE cs

\* The model a candidate of the attempt is asked for: the alias' canonical name,
\* unless the attempt names a provider.
ModelOf(a) == IF a.provider = None THEN Canonical[a.model] ELSE a.model

\* An instance that may serve attempt a, were it active: the named provider,
\* whatever it advertises, or any that advertises the model.
Eligible(i, a) ==
  /\ i \in Generators
  /\ IF a.provider # None THEN i = a.provider
     ELSE Catalog[i] \cap {a.model, Canonical[a.model]} # {}

\* SortProvidersByPriority.
ByPriority(S) ==
  [n \in 1..Cardinality(S) |->
     CHOOSE i \in S : Cardinality({j \in S : Rank[j] < Rank[i]}) = n - 1]

\* ResolveProvidersForModel: the active eligible instances by priority.
Route(a) == ByPriority({i \in active : Eligible(i, a)})

\* It fails when a System One instance is named, or nothing at all is active.
Unsupported(a) == a.provider \in Evaluators \cap active
Unresolvable(a) == a.provider = None /\ active = {}

Current(r) == Head(attempts[r])

\* The request is over.
EndWith(r, how) ==
  /\ pc' = [pc EXCEPT ![r] = "done"]
  /\ result' = [result EXCEPT ![r] = how]
  /\ attempts' = [attempts EXCEPT ![r] = <<>>]
  /\ candidates' = [candidates EXCEPT ![r] = <<>>]

-----------------------------------------------------------------------------
\* Slip: the cursor grows without wrapping around.
ArriveUnwrapped(r) ==
  /\ pc[r] = "idle"
  /\ \E m \in Asked \ Ambiguous, s \in BOOLEAN :
       /\ asked' = [asked EXCEPT ![r] = m]
       /\ stream' = [stream EXCEPT ![r] = s]
       /\ attempts' = [attempts EXCEPT ![r] = Expanded(m)]
       /\ plan' = [plan EXCEPT ![r] = Expanded(m)]
       /\ cursor' = IF IsVirtual(m) /\ RoundRobin THEN cursor + 1 ELSE cursor
  /\ pc' = [pc EXCEPT ![r] = "prefer"]
  /\ steady' = [steady EXCEPT ![r] = active]
  /\ UNCHANGED <<affinityVars, active, client, candidates, mode, previousUnavailable,
                 lastErr, single, result, tried, doomed, server, expected>>

\* A request is read, parsed and expanded into attempts.
Arrive(r) ==
  /\ pc[r] = "idle"
  /\ \E m \in Asked \ Ambiguous, s \in BOOLEAN :
       /\ asked' = [asked EXCEPT ![r] = m]
       /\ stream' = [stream EXCEPT ![r] = s]
       /\ attempts' = [attempts EXCEPT ![r] = Expanded(m)]
       /\ plan' = [plan EXCEPT ![r] = Expanded(m)]
       /\ cursor' = IF IsVirtual(m) /\ RoundRobin THEN Start + 1 ELSE cursor
  /\ pc' = [pc EXCEPT ![r] = "prefer"]
  /\ steady' = [steady EXCEPT ![r] = active]
  /\ UNCHANGED <<affinityVars, active, client, candidates, mode, previousUnavailable,
                 lastErr, single, result, tried, doomed, server, expected>>

\* An ambiguous prefix is an error, once the affinity lookup is made.
Reject(r) ==
  /\ pc[r] = "idle"
  /\ \E m \in Asked \cap Ambiguous :
       /\ asked' = [asked EXCEPT ![r] = m]
       /\ LookUp(m)
  /\ EndWith(r, "rejected")
  /\ steady' = [steady EXCEPT ![r] = active]
  /\ UNCHANGED <<active, cursor, stream, client, mode, previousUnavailable, lastErr,
                 single, plan, tried, doomed, server, expected>>

\* The instance that served this conversation under the asked name goes first.
Prefer(r) ==
  /\ pc[r] = "prefer"
  /\ LookUp(asked[r])
  /\ attempts' = [attempts EXCEPT ![r] = Preferred(@, Pinned(asked[r]))]
  /\ expected' = [expected EXCEPT ![r] = server[asked[r]]]
  /\ pc' = [pc EXCEPT ![r] = "attempt"]
  /\ UNCHANGED <<active, cursor, asked, stream, client, candidates, mode,
                 previousUnavailable, lastErr, single, result, plan, steady, tried,
                 doomed, server>>

\* The next attempt is taken off the list without a call.
Drop(r, err, unavailable) ==
  /\ attempts' = [attempts EXCEPT ![r] = Tail(@)]
  /\ lastErr' = [lastErr EXCEPT ![r] = err]
  /\ previousUnavailable' = [previousUnavailable EXCEPT ![r] = unavailable]
  /\ UNCHANGED <<active, cursor, pc, asked, stream, client, candidates, mode, single,
                 result, historyVars>>

Trying(r) == pc[r] = "attempt" /\ attempts[r] # <<>>
Skipped(r) == Current(r).conditional /\ ~previousUnavailable[r]

\* OnlyIfPreviousUnavailable, and the previous attempt had candidates.
SkipAttempt(r) ==
  /\ Trying(r) /\ Skipped(r)
  /\ Drop(r, lastErr[r], previousUnavailable[r])
  /\ UNCHANGED affinityVars

\* The attempt names a System One instance: the next one is tried.
UnsupportedAttempt(r) ==
  /\ Trying(r) /\ ~Skipped(r)
  /\ Unsupported(Current(r))
  /\ Drop(r, "unsupported", TRUE)
  /\ UNCHANGED affinityVars

\* Resolution fails for good: TryAttempts returns its error at once.
ResolveFails(r) ==
  /\ Trying(r) /\ ~Skipped(r)
  /\ Unresolvable(Current(r))
  /\ EndWith(r, "unresolved")
  /\ UNCHANGED <<affinityVars, active, cursor, asked, stream, client, mode,
                 previousUnavailable, lastErr, single, historyVars>>

\* Slip: an attempt nobody serves ends the loop.
EmptyAttemptEnds(r) ==
  /\ Trying(r) /\ ~Skipped(r)
  /\ ~Unsupported(Current(r)) /\ ~Unresolvable(Current(r))
  /\ Route(Current(r)) = <<>>
  /\ EndWith(r, "failed")
  /\ UNCHANGED <<affinityVars, active, cursor, asked, stream, client, mode,
                 previousUnavailable, lastErr, single, historyVars>>

\* Nobody serves the attempt: not found, and on to the next.
EmptyAttempt(r) ==
  /\ Trying(r) /\ ~Skipped(r)
  /\ ~Unsupported(Current(r)) /\ ~Unresolvable(Current(r))
  /\ Route(Current(r)) = <<>>
  /\ Drop(r, "notfound", TRUE)
  /\ UNCHANGED affinityVars

\* PrepareCandidates: the route, with the instance pinned under the attempt's
\* model in front.  Every candidate gets a copy of the request, but the copies
\* share Extensions: preparing a Copilot candidate sets the flags for all.
PrepareAttempt(r) ==
  /\ Trying(r) /\ ~Skipped(r)
  /\ ~Unsupported(Current(r)) /\ ~Unresolvable(Current(r))
  /\ Route(Current(r)) # <<>>
  /\ LookUp(Current(r).model)
  /\ candidates' = [candidates EXCEPT ![r] =
                      PinnedFirst(Route(Current(r)), Pinned(Current(r).model))]
  /\ single' = [single EXCEPT ![r] =
                  @ \/ \E n \in 1..Len(Route(Current(r))) : Route(Current(r))[n] \in Copilots]
  /\ previousUnavailable' = [previousUnavailable EXCEPT ![r] = FALSE]
  /\ pc' = [pc EXCEPT ![r] = "candidate"]
  /\ UNCHANGED <<active, cursor, asked, stream, client, attempts, mode, lastErr,
                 result, historyVars>>

\* No attempt is left: the last error is reported.
Exhausted(r) ==
  /\ pc[r] = "attempt" /\ attempts[r] = <<>>
  /\ EndWith(r, "failed")
  /\ UNCHANGED <<affinityVars, active, cursor, asked, stream, client, mode,
                 previousUnavailable, lastErr, single, historyVars>>

\* The handler calls the candidate's adapter, streaming if the client asked so.
Call(r) ==
  /\ pc[r] = "candidate"
  /\ pc' = [pc EXCEPT ![r] = "calling"]
  /\ mode' = [mode EXCEPT ![r] = IF stream[r] THEN "stream" ELSE "plain"]
  /\ tried' = [tried EXCEPT ![r] = @ \cup {<<Head(candidates[r]), ModelOf(Current(r))>>}]
  /\ doomed' = [doomed EXCEPT ![r] = IF client[r] THEN @ ELSE @ + 1]
  /\ UNCHANGED <<affinityVars, active, cursor, asked, stream, client, attempts,
                 candidates, previousUnavailable, lastErr, single, result, plan,
                 steady, server, expected>>

-----------------------------------------------------------------------------
\* The provider answers, or its stream starts: the instance is pinned under the
\* model it was asked for, and the failover is over.
Succeed(r) ==
  LET instance == Head(candidates[r])
      model == ModelOf(Current(r)) IN
  /\ pc[r] = "calling" /\ doomed[r] = 0
  /\ Record(model, instance)
  /\ server' = [k \in Keys |->
                  IF k \in {asked[r], model}
                  THEN IF data'[model] = None THEN None ELSE instance
                  ELSE IF data'[k] = None THEN None ELSE server[k]]
  /\ expected' = [q \in Requests |-> None]
  /\ EndWith(r, "answered")
  /\ UNCHANGED <<active, cursor, asked, stream, client, mode, previousUnavailable,
                 lastErr, single, plan, steady, tried, doomed>>

\* Slip: the candidate is handed back to the loop, which asks for a stream again.
FallBackRestarting(r) ==
  /\ pc[r] = "calling" /\ mode[r] = "stream"
  /\ doomed[r] = 0 /\ ~single[r]
  /\ pc' = [pc EXCEPT ![r] = "candidate"]
  /\ UNCHANGED <<affinityVars, active, cursor, asked, stream, client, attempts,
                 candidates, mode, previousUnavailable, lastErr, single, result,
                 historyVars>>

\* The stream is refused before it starts, with an error that is neither an
\* authentication failure nor the client's departure: the same candidate is
\* asked again without streaming, unless the flags forbid it.
FallBack(r) ==
  /\ pc[r] = "calling" /\ mode[r] = "stream"
  /\ doomed[r] = 0 /\ ~single[r]
  /\ mode' = [mode EXCEPT ![r] = "plain"]
  /\ doomed' = [doomed EXCEPT ![r] = IF client[r] THEN @ ELSE @ + 1]
  /\ UNCHANGED <<affinityVars, active, cursor, pc, asked, stream, client, attempts,
                 candidates, previousUnavailable, lastErr, single, result, plan,
                 steady, tried, server, expected>>

\* An upstream failure that ends a candidate: any failure of a plain call, an
\* authentication failure, or a refused stream that may not fall back.  The next
\* candidate is tried, or the next attempt.
FailCandidate(r) ==
  /\ pc[r] = "calling" /\ doomed[r] = 0
  /\ lastErr' = [lastErr EXCEPT ![r] = "upstream"]
  /\ candidates' = [candidates EXCEPT ![r] = Tail(@)]
  /\ IF Tail(candidates[r]) = <<>>
     THEN /\ attempts' = [attempts EXCEPT ![r] = Tail(@)]
          /\ pc' = [pc EXCEPT ![r] = "attempt"]
     ELSE /\ UNCHANGED attempts
          /\ pc' = [pc EXCEPT ![r] = "candidate"]
  /\ UNCHANGED <<affinityVars, active, cursor, asked, stream, client, mode,
                 previousUnavailable, single, result, historyVars>>

\* Slip: a canceled call is taken for a failure of the provider.
FailOverCanceled(r) ==
  /\ pc[r] = "calling" /\ ~client[r]
  /\ lastErr' = [lastErr EXCEPT ![r] = "upstream"]
  /\ candidates' = [candidates EXCEPT ![r] = Tail(@)]
  /\ IF Tail(candidates[r]) = <<>>
     THEN /\ attempts' = [attempts EXCEPT ![r] = Tail(@)]
          /\ pc' = [pc EXCEPT ![r] = "attempt"]
     ELSE /\ UNCHANGED attempts
          /\ pc' = [pc EXCEPT ![r] = "candidate"]
  /\ UNCHANGED <<affinityVars, active, cursor, asked, stream, client, mode,
                 previousUnavailable, single, result, historyVars>>

\* The call fails with context.Canceled because the client has left: the
\* handler returns an AbortError, which ends the loop.  A call begun on the
\* canceled context cannot end otherwise.
AbortCanceled(r) ==
  /\ pc[r] = "calling" /\ ~client[r]
  /\ EndWith(r, "canceled")
  /\ UNCHANGED <<affinityVars, active, cursor, asked, stream, client, mode,
                 previousUnavailable, lastErr, single, historyVars>>

\* The handler returns; its goroutine serves another request later.
Leave(r) ==
  /\ pc[r] = "done"
  /\ pc' = [pc EXCEPT ![r] = "idle"]
  /\ asked' = [asked EXCEPT ![r] = None]
  /\ stream' = [stream EXCEPT ![r] = FALSE]
  /\ client' = [client EXCEPT ![r] = TRUE]
  /\ mode' = [mode EXCEPT ![r] = "plain"]
  /\ previousUnavailable' = [previousUnavailable EXCEPT ![r] = TRUE]
  /\ lastErr' = [lastErr EXCEPT ![r] = "none"]
  /\ single' = [single EXCEPT ![r] = FALSE]
  /\ result' = [result EXCEPT ![r] = "none"]
  /\ plan' = [plan EXCEPT ![r] = <<>>]
  /\ steady' = [steady EXCEPT ![r] = {}]
  /\ tried' = [tried EXCEPT ![r] = {}]
  /\ doomed' = [doomed EXCEPT ![r] = 0]
  /\ expected' = [expected EXCEPT ![r] = None]
  /\ UNCHANGED <<affinityVars, active, cursor, attempts, candidates, server>>

Step(r) ==
  \/ Prefer(r) \/ SkipAttempt(r) \/ UnsupportedAttempt(r) \/ ResolveFails(r)
  \/ EmptyAttempt(r) \/ PrepareAttempt(r) \/ Exhausted(r) \/ Call(r)
  \/ Succeed(r) \/ FallBack(r) \/ FailCandidate(r) \/ AbortCanceled(r)

-----------------------------------------------------------------------------
\* The client disconnects: the request's context is canceled.
Disconnect(r) ==
  /\ pc[r] \notin {"idle", "done"} /\ client[r]
  /\ client' = [client EXCEPT ![r] = FALSE]
  /\ UNCHANGED <<affinityVars, active, cursor, pc, asked, stream, attempts,
                 candidates, mode, previousUnavailable, lastErr, single, result,
                 historyVars>>

\* An operator switches a provider off, or on again.
Switch(i) ==
  /\ active' = IF i \in active THEN active \ {i} ELSE active \cup {i}
  /\ steady' = [r \in Requests |-> steady[r] \cap active']
  /\ UNCHANGED <<affinityVars, cursor, requestVars, plan, tried, doomed, server, expected>>

\* Time passes for a pin.  The history forgets the pins with it.
Age(k) ==
  /\ Expire(k)
  /\ server' = [m \in Keys |-> None]
  /\ expected' = [r \in Requests |-> None]
  /\ UNCHANGED <<active, cursor, requestVars, plan, steady, tried, doomed>>

Next ==
  \/ \E r \in Requests : Arrive(r) \/ Reject(r) \/ Step(r) \/ Leave(r) \/ Disconnect(r)
  \/ \E i \in Unstable : Switch(i)
  \/ \E k \in Keys : Age(k)

\* Every upstream call ends (the HTTP clients have timeouts) and a runnable
\* goroutine runs; how a call ends is left open.
Fairness == \A r \in Requests : WF_vars(Step(r))

Spec == Init /\ [][Next]_vars

FairSpec == Spec /\ Fairness

-----------------------------------------------------------------------------
(***************************************************************************)
(* A request fails only after everybody who could have served it was       *)
(* asked: each instance that was active from the expansion on and serves   *)
(* an unconditional attempt was called with that attempt's model, whatever *)
(* the operator, the other requests and the affinity cache did meanwhile.  *)
(***************************************************************************)
NoAlternativeForgotten ==
  \A r \in Requests : result[r] \in {"failed", "unresolved"} =>
    \A n \in 1..Len(plan[r]) : ~plan[r][n].conditional =>
      \A i \in steady[r] : Eligible(i, plan[r][n]) => <<i, ModelOf(plan[r][n])>> \in tried[r]

(***************************************************************************)
(* A client's departure costs at most one upstream call on the dead        *)
(* context, however many candidates are left and whether or not the        *)
(* streaming fallback was about to run (AbortError, attempts.go).          *)
(***************************************************************************)
AtMostOneDoomedCall == \A r \in Requests : doomed[r] <= 1

(***************************************************************************)
(* Affinity never reorders the fallback: behind the current candidate, the *)
(* remaining ones are in priority order and none is repeated.              *)
(***************************************************************************)
FallbackKeepsPriority ==
  \A r \in Requests : \A m, n \in 2..Len(candidates[r]) : m < n =>
    Rank[candidates[r][m]] < Rank[candidates[r][n]]

(***************************************************************************)
(* The fallback leaves nobody out, and it keeps to the priorities: the     *)
(* reordering by affinity costs a failed request no alternative and the    *)
(* others no rank.                                                         *)
(***************************************************************************)
FallbackIsComplete == NoAlternativeForgotten /\ FallbackKeepsPriority

\* The first upstream call made for r.
FirstCall(r) ==
  pc[r] = "calling" /\ tried[r] = {<<Head(candidates[r]), ModelOf(Current(r))>>}

\* The instance r should prefer: it answered the asked model last, its pin lives
\* and it was active and eligible all along.
Preference(r) ==
  IF /\ expected[r] \in steady[r]
     /\ \E n \in 1..Len(plan[r]) : Eligible(expected[r], plan[r][n])
  THEN expected[r] ELSE None

(***************************************************************************)
(* A conversation that asks for a model by the name its providers know     *)
(* returns to the instance that served it last.                            *)
(***************************************************************************)
ReturnsToServer ==
  \A r \in Requests :
    (FirstCall(r) /\ Preference(r) # None
     /\ ~IsVirtual(asked[r]) /\ Qualified[asked[r]] = None /\ Canonical[asked[r]] = asked[r])
      => Head(candidates[r]) = Preference(r)

(***************************************************************************)
(* Every request ends: no attempt list, failover or fallback goes on for   *)
(* ever, whatever upstreams answer.                                        *)
(***************************************************************************)
EveryRequestEnds == \A r \in Requests : pc[r] = "prefer" ~> pc[r] = "done"

-----------------------------------------------------------------------------
(***************************************************************************)
(* openspec/specs/routing-failover/spec.md:132 says Copilot's switches are *)
(* "disabled for that candidate only": the call to any other provider may  *)
(* still fall back from streaming.                                         *)
(***************************************************************************)
SwitchesStayWithCopilot ==
  \A r \in Requests :
    (pc[r] = "calling" /\ Head(candidates[r]) \notin Copilots) => ~single[r]

(***************************************************************************)
(* openspec/specs/routing-failover/spec.md:13 has the qualifier removed    *)
(* "only when the complete identifier is unavailable": a conditional       *)
(* attempt is made only if no active provider advertises the full name.    *)
(***************************************************************************)
QualifierIsTheFallback ==
  \A r \in Requests :
    (pc[r] = "calling" /\ Current(r).conditional) =>
      \A i \in steady[r] \cap Generators : asked[r] \notin Catalog[i]

(***************************************************************************)
(* openspec/specs/routing-failover/spec.md:161 has a virtual model's       *)
(* upstream and instance that served the conversation "tried first".       *)
(***************************************************************************)
VirtualReturnsToServer ==
  \A r \in Requests :
    (FirstCall(r) /\ Preference(r) # None /\ asked[r] = Virtual)
      => Head(candidates[r]) = Preference(r)
=============================================================================
