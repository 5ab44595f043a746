----------------------------- MODULE AccountProofs -----------------------------
(***************************************************************************)
(* What holds for the accounts behind the providers, for any number of     *)
(* processes, seats, tokens and faults:                                    *)
(*   - recovering from a denied refresh token never costs a good one;      *)
(*   - a Copilot call is retried and sent on soundly;                      *)
(*   - a sign-in that nobody crossed gets through, or leaves nothing.      *)
(***************************************************************************)
EXTENDS TokenRotation, CopilotCalls, SignIns, FiniteSetTheorems, TLAPS

\* What is known of tokens has been issued.
TokensAreIssued ==
  /\ stored <= issued
  /\ \A p \in Processes : memory[p] <= issued /\ using[p] <= issued

\* A process that recovers has been denied a token which nobody accepts again.
DeniedStaysDead ==
  \A p \in Processes :
    refresh[p] \in {"reloading", "retiring", "rechecking", "forgetting"} => using[p] \notin live

\* A refresh that succeeded has a token to store.
RefreshedHasToken ==
  \A p \in Processes : /\ refresh[p] = "applying" => using[p] # Blank
                       /\ refresh[p] = "saving" => memory[p] # Blank

TokensSafe == TokensTypeOK /\ TokensAreIssued /\ DeniedStaysDead /\ RefreshedHasToken

LEMMA TokensInitSafe == TokensInit => TokensSafe
  BY TokensAssumption DEF TokensInit, TokensSafe, TokensTypeOK, MaybeToken, Tokens, Blank, Steps,
     TokensAreIssued, DeniedStaysDead, RefreshedHasToken

\* One process does one step: the invariant stays, and no token that is accepted is blanked
\* other than by a sign-in's save or a crash.
NothingRetired ==
  /\ stored \in live /\ stored' = Blank => \E p \in Processes : login[p] = "saving" /\ memory[p] = Blank
  /\ \A p \in Processes : memory[p] \in live /\ memory'[p] = Blank => stored = Blank /\ faults' # faults

LEMMA TokensStep ==
  ASSUME TokensSafe, NEW p \in Processes,
         Refresh(p) \/ RefreshStep(p) \/ SignIn(p) \/ SaveSignIn(p) \/ Restart(p)
  PROVE  TokensSafe' /\ NothingRetired
  <1> USE DEF TokensSafe, TokensTypeOK, MaybeToken, Tokens, Blank, Steps, Goto
  <1>1. issued \in Nat /\ MaxTokens \in Nat /\ MaxFaults \in Nat
    BY TokensAssumption
  <1>2. CASE Refresh(p)
    BY <1>1, <1>2 DEF Refresh, TokensAreIssued, DeniedStaysDead, RefreshedHasToken, NothingRetired
  <1>3. CASE Rotate(p)
    <2> USE <1>3 DEF Rotate
    <2>1. /\ issued' \in 1..MaxTokens /\ issued' = issued + 1 /\ live' \subseteq 1..issued'
      <3>1. issued' = issued + 1 /\ issued < MaxTokens /\ live' = (live \ {using[p]}) \cup {issued + 1}
        OBVIOUS
      <3>2. issued' \in 1..MaxTokens
        BY <1>1, <3>1
      <3>3. live' \subseteq 1..(issued + 1)
        <4>1. live \subseteq 1..issued
          OBVIOUS
        <4>2. 1..issued \subseteq 1..(issued + 1) /\ issued + 1 \in 1..(issued + 1)
          BY <1>1
        <4> HIDE DEF TokensSafe, TokensTypeOK, Rotate
        <4> QED
          BY <3>1, <4>1, <4>2
      <3> QED
        BY <3>1, <3>2, <3>3
    <2>2. TokensTypeOK'
      BY <1>1, <2>1
    <2>3. TokensAreIssued'
      BY <1>1 DEF TokensAreIssued
    <2>4. DeniedStaysDead'
      BY <1>1 DEF TokensAreIssued, DeniedStaysDead
    <2>5. RefreshedHasToken' /\ NothingRetired
      BY <1>1 DEF RefreshedHasToken, NothingRetired
    <2> QED
      BY <2>2, <2>3, <2>4, <2>5
  <1>4. CASE Lose(p)
    BY <1>1, <1>4 DEF Lose, TokensAreIssued, DeniedStaysDead, RefreshedHasToken, NothingRetired
  <1>5. CASE Deny(p)
    BY <1>5 DEF Deny, TokensAreIssued, DeniedStaysDead, RefreshedHasToken, NothingRetired
  <1>6. CASE Apply(p)
    BY <1>1, <1>6 DEF Apply, TokensAreIssued, DeniedStaysDead, RefreshedHasToken, NothingRetired
  <1>7. CASE Save(p)
    BY <1>1, <1>7 DEF Save, TokensAreIssued, DeniedStaysDead, RefreshedHasToken, NothingRetired
  <1>8. CASE Reload(p)
    BY <1>1, <1>8 DEF Reload, Newer, TokensAreIssued, DeniedStaysDead, RefreshedHasToken, NothingRetired
  <1>9. CASE Retire(p)
    BY <1>1, <1>9 DEF Retire, Kept, TokensAreIssued, DeniedStaysDead, RefreshedHasToken, NothingRetired
  <1>10. CASE Forget(p)
    BY <1>1, <1>10 DEF Forget, TokensAreIssued, DeniedStaysDead, RefreshedHasToken, NothingRetired
  <1>11. CASE SignIn(p)
    <2> USE <1>11 DEF SignIn
    <2>1. /\ issued' \in 1..MaxTokens /\ issued' = issued + 1 /\ live' \subseteq 1..issued'
      BY <1>1
    <2>2. TokensTypeOK'
      BY <1>1, <2>1
    <2>3. TokensAreIssued'
      BY <1>1 DEF TokensAreIssued
    <2>4. DeniedStaysDead'
      BY <1>1 DEF TokensAreIssued, DeniedStaysDead
    <2>5. RefreshedHasToken' /\ NothingRetired
      BY <1>1 DEF RefreshedHasToken, NothingRetired
    <2> QED
      BY <2>2, <2>3, <2>4, <2>5
  <1>12. CASE SaveSignIn(p)
    BY <1>1, <1>12 DEF SaveSignIn, TokensAreIssued, DeniedStaysDead, RefreshedHasToken, NothingRetired
  <1>13. CASE Restart(p)
    BY <1>1, <1>13 DEF Restart, TokensAreIssued, DeniedStaysDead, RefreshedHasToken, NothingRetired
  <1> QED
    BY <1>2, <1>3, <1>4, <1>5, <1>6, <1>7, <1>8, <1>9, <1>10, <1>11, <1>12, <1>13 DEF RefreshStep

LEMMA TokensSpecSafe == TokensSpec => []TokensSafe
  <1>1. TokensSafe /\ [TokensNext]_tokenVars => TokensSafe'
    <2>1. TokensSafe /\ TokensNext => TokensSafe'
      BY TokensStep DEF TokensNext
    <2>2. TokensSafe /\ UNCHANGED tokenVars => TokensSafe'
      BY DEF tokenVars, TokensSafe, TokensTypeOK, TokensAreIssued, DeniedStaysDead, RefreshedHasToken
    <2> QED
      BY <2>1, <2>2
  <1> QED
    BY TokensInitSafe, <1>1, PTL DEF TokensSpec

\* TOKENS.  For any number of processes, issued tokens and faults: no step of the recovery
\* from a denied refresh token blanks one that the endpoint would still accept.
THEOREM RecoveryCostsNoToken == TokensSpec => NoLiveTokenRetired
  <1>1. TokensSafe /\ [TokensNext]_tokenVars => [NothingRetired]_tokenVars
    BY TokensStep DEF TokensNext
  <1> QED
    BY TokensSpecSafe, <1>1, PTL DEF TokensSpec, NoLiveTokenRetired, NothingRetired

-----------------------------------------------------------------------------
\* What a call is made of.
PassType == [host : Hosts, token : Seats \cup {NoSeat}, current : BOOLEAN, repeats : BOOLEAN, moved : BOOLEAN]
Kinds == {"transport", "auth", "timeout"}
RetriesType == [transport : 0..2, auth : 0..2, timeout : 0..2]
CallType ==
  [at : CallPlaces, served : SUBSET Endpoints, forced : BOOLEAN, known : BOOLEAN, endpoint : Endpoints,
   mayAuth : BOOLEAN, mayTransport : BOOLEAN, gone : BOOLEAN, pass : PassType, cause : Causes,
   retries : RetriesType, transient : BOOLEAN, denied : BOOLEAN]

\* A permission to retry is there until it is used, and a timeout is followed up once.
RetriesAreFew(c) ==
  /\ c.retries.transport <= 1 /\ c.retries.auth <= 1 /\ c.retries.timeout <= 1
  /\ c.mayTransport => c.retries.transport = 0
  /\ c.mayAuth => c.retries.auth = 0
  /\ c.cause # "timeout" => c.retries.timeout = 0
  /\ c.cause = "timeout" => c.endpoint = "responses"
  /\ c.at = "waiting" => c.mayTransport /\ c.endpoint = "chat"
  /\ c.at = "reauthorizing" => c.mayAuth
  /\ c.at = "out" => c.cause = "first" /\ c.retries = NoRetries

\* From the exchange that answers a rejected token on, the token in use is a new one.
PassesAreFresh(c, outcome) ==
  /\ c.at = "reauthorizing" /\ outcome = "renewed" => ~c.denied
  /\ c.cause = "auth" /\ c.at \in {"addressing", "dressing", "renewing"} => ~c.denied
  /\ c.cause = "auth" /\ c.at = "sending" => ~c.pass.repeats

\* A URL that nothing has moved away from has the provider's host, which is the token's.
HostIsTheTokens(c, p, l) ==
  /\ c.at \in {"dressing", "renewing", "sending"} /\ ~c.pass.moved => l /\ c.pass.host = p.host
  /\ c.at = "sending" /\ c.pass.token # NoSeat /\ ~c.pass.moved => c.pass.host = HostOf(c.pass.token)

\* A call that knew the catalog, and found nobody's force, has an endpoint that serves it,
\* from the start.
EndpointServes(c) == c.at \notin {"out", "answered", "failed"} /\ c.known => c.endpoint \in c.served

CallSafe(c, p, l, outcome) ==
  c \in CallType /\ RetriesAreFew(c) /\ PassesAreFresh(c, outcome) /\ HostIsTheTokens(c, p, l) /\ EndpointServes(c)

\* The provider's host is the token's once an exchange of its account has reported it.
ProviderSafe(p, l) == l /\ p.token # NoSeat => p.host = HostOf(p.token)

CopilotSafe ==
  /\ CopilotTypeOK
  /\ ProviderSafe(provider, learned)
  /\ CallSafe(call, provider, learned, refreshing["call"])

\* A retry is counted.
LEMMA RetryCounts ==
  ASSUME NEW c \in CallType, NEW cause \in Kinds
  PROVE  \E r \in RetriesType :
           /\ Retry(c, cause) = [c EXCEPT !.cause = cause, !.retries = r]
           /\ c.retries[cause] = 0 => r[cause] = 1
           /\ \A other \in Kinds : other # cause => r[other] = c.retries[other]
  <1> DEFINE r == [c.retries EXCEPT ![cause] = IF @ < 2 THEN @ + 1 ELSE 2]
  <1>1. c.retries \in RetriesType
    BY DEF CallType
  <1>2. ASSUME NEW q \in RetriesType
        PROVE  LET q2 == [q EXCEPT ![cause] = IF @ < 2 THEN @ + 1 ELSE 2]
               IN  /\ q2 \in RetriesType /\ (q[cause] = 0 => q2[cause] = 1)
                   /\ \A other \in Kinds : other # cause => q2[other] = q[other]
    <2>1. cause = "transport" \/ cause = "auth" \/ cause = "timeout"
      BY DEF Kinds
    <2> QED
      BY <2>1 DEF RetriesType, Kinds
  <1>3. Retry(c, cause) = [c EXCEPT !.cause = cause, !.retries = r]
    BY DEF Retry, CallType
  <1>4. /\ r \in RetriesType /\ (c.retries[cause] = 0 => r[cause] = 1)
        /\ \A other \in Kinds : other # cause => r[other] = c.retries[other]
    BY <1>1, <1>2
  <1> HIDE DEF r
  <1> QED
    BY <1>3, <1>4

\* A call that has ended is as good as none.
LEMMA NoCallSafe ==
  ASSUME NEW p, NEW l, NEW outcome
  PROVE  CallSafe(NoCall, p, l, outcome)
  <1>1. /\ Nothing \in PassType /\ NoRetries \in RetriesType
        /\ {"chat"} \in SUBSET Endpoints /\ "chat" \in Endpoints
    BY DEF Nothing, PassType, NoRetries, RetriesType, Hosts, Endpoints
  <1>2. NoCall \in CallType
    BY <1>1 DEF NoCall, CallType, CallPlaces, Causes
  <1>3. NoCall.at = "out" /\ NoCall.retries = NoRetries /\ NoCall.cause = "first"
    BY DEF NoCall
  <1> QED
    BY <1>2, <1>3 DEF CallSafe, NoRetries, RetriesAreFew, PassesAreFresh, HostIsTheTokens, EndpointServes

LEMMA EndSafe ==
  ASSUME NEW place \in {"answered", "failed"}, NEW p, NEW l, NEW outcome
  PROVE  CallSafe(End(place), p, l, outcome)
  <1>1. NoCall \in CallType
    BY NoCallSafe DEF CallSafe
  <1>2. End(place) \in CallType
    BY <1>1 DEF End, CallType, CallPlaces
  <1>3. /\ End(place).at = place /\ End(place).retries = NoRetries /\ End(place).cause = "first"
    BY DEF End, NoCall
  <1> QED
    BY <1>2, <1>3 DEF CallSafe, NoRetries, RetriesAreFew, PassesAreFresh, HostIsTheTokens, EndpointServes

\* A call that may wait waits, another has failed.
LEMMA WaitSafe ==
  ASSUME NEW c, NEW p, NEW l, NEW outcome, NEW outcome2, CallSafe(c, p, l, outcome),
         c.at \in {"sending", "reauthorizing"}
  PROVE  CallSafe(OrWait(c), p, l, outcome2)
  <1>1. CASE c.endpoint = "chat" /\ c.mayTransport
    <2>1. Nothing \in PassType /\ c \in CallType
      BY DEF Nothing, PassType, Hosts, CallSafe
    <2>2. OrWait(c) = [c EXCEPT !.at = "waiting", !.pass = Nothing]
      BY <1>1 DEF OrWait
    <2> QED
      BY <1>1, <2>1, <2>2 DEF CallSafe, CallType, CallPlaces, RetriesAreFew, PassesAreFresh, HostIsTheTokens, EndpointServes
  <1>2. CASE ~(c.endpoint = "chat" /\ c.mayTransport)
    BY <1>2, EndSafe DEF OrWait, Failed
  <1> QED
    BY <1>1, <1>2

\* Where the call's own steps leave the provider alone, the call is what matters.
LEMMA CallStepSafe ==
  ASSUME CopilotSafe, UNCHANGED <<provider, learned, flight, accountRead, others>>,
         refreshing' \in [Refreshers -> {"idle", "reading", "asking", "joined", "renewed", "refused"}],
         CallSafe(call', provider, learned, refreshing'["call"])
  PROVE  CopilotSafe'
  BY DEF CopilotSafe, CopilotTypeOK, ProviderSafe, CallSafe, CallType

\* A request arrives.
LEMMA BeginCallStep ==
  ASSUME CopilotSafe, NEW model \in Models, NEW dialect \in {"chat", "messages", "responses"},
         NEW gateway \in BOOLEAN, NEW left \in BOOLEAN, NEW early \in BOOLEAN, NEW late \in BOOLEAN,
         BeginCall(model, dialect, gateway, left, early, late)
  PROVE  CopilotSafe'
  <1> DEFINE forced == ForceChatCompletions(model, dialect, gateway, left, early)
             known == early /\ ~left
             endpoint == SelectShape(model, forced, late)
  <1>1. call \in CallType /\ call.at = "out"
    BY DEF CopilotSafe, CallSafe, BeginCall
  <1>2. /\ Serving(model) \in SUBSET Endpoints /\ endpoint \in Endpoints
        /\ forced \in BOOLEAN /\ known \in BOOLEAN
    BY DEF Serving, Endpoints, SelectShape, ForceChatCompletions, Forced, Models
  <1>3. known => endpoint \in Serving(model)
    <2> SUFFICES ASSUME early, ~left PROVE endpoint \in Serving(model)
      OBVIOUS
    <2>1. late
      BY DEF BeginCall
    <2>2. CASE "chat" \in Serving(model)
      BY <2>1, <2>2 DEF SelectShape, ResponsesOnly, Serving
    <2>3. CASE "chat" \notin Serving(model)
      BY <2>1, <2>3 DEF SelectShape, ResponsesOnly, Serving, ForceChatCompletions, Forced, Endpoints, Models
    <2> QED
      BY <2>2, <2>3
  <1>4. call' = [call EXCEPT !.at = "addressing", !.served = Serving(model), !.known = known,
                             !.forced = forced, !.mayAuth = ~gateway, !.endpoint = endpoint]
    BY DEF BeginCall
  <1> HIDE DEF forced, known, endpoint
  <1>5. CallSafe(call', provider, learned, refreshing["call"])
    <2>1. /\ call' \in CallType
          /\ call'.at = "addressing" /\ call'.served = Serving(model) /\ call'.known = known
          /\ call'.endpoint = endpoint /\ call'.mayAuth = ~gateway
          /\ call'.cause = call.cause /\ call'.retries = call.retries
      BY <1>1, <1>2, <1>4 DEF CallType, CallPlaces
    <2>2. call.cause = "first" /\ call.retries = NoRetries
      BY <1>1 DEF CopilotSafe, CallSafe, RetriesAreFew
    <2>3. RetriesAreFew(call') /\ PassesAreFresh(call', refreshing["call"])
      BY <2>1, <2>2 DEF RetriesAreFew, PassesAreFresh, NoRetries
    <2>4. HostIsTheTokens(call', provider, learned) /\ EndpointServes(call')
      BY <1>3, <2>1 DEF HostIsTheTokens, EndpointServes
    <2> QED
      BY <2>1, <2>3, <2>4 DEF CallSafe
  <1> QED
    BY <1>5, CallStepSafe DEF BeginCall, CopilotSafe, CopilotTypeOK

\* The URL is made, and the token is taken or renewed.
LEMMA AddressStep == CopilotSafe /\ Address => CopilotSafe'
  <1> SUFFICES ASSUME CopilotSafe, Address PROVE CopilotSafe'
    OBVIOUS
  <1>1. /\ call \in CallType /\ call.at = "addressing" /\ provider.host \in Hosts /\ learned \in BOOLEAN
        /\ call' = [call EXCEPT !.at = "dressing", !.pass.host = provider.host, !.pass.moved = ~learned]
    BY DEF CopilotSafe, CallSafe, Address, CopilotTypeOK
  <1>2. /\ call' \in CallType /\ call'.at = "dressing"
        /\ call'.pass.host = provider.host /\ call'.pass.moved = ~learned
        /\ call'.cause = call.cause /\ call'.retries = call.retries /\ call'.endpoint = call.endpoint
        /\ call'.mayAuth = call.mayAuth /\ call'.mayTransport = call.mayTransport
        /\ call'.denied = call.denied /\ call'.known = call.known /\ call'.served = call.served
    BY <1>1 DEF CallType, CallPlaces, PassType
  <1>3. CallSafe(call', provider, learned, refreshing["call"])
    BY <1>1, <1>2 DEF CopilotSafe, CallSafe, RetriesAreFew, PassesAreFresh, HostIsTheTokens, EndpointServes
  <1> QED
    BY <1>3, CallStepSafe DEF Address, CopilotSafe, CopilotTypeOK

LEMMA WithTokenSafe ==
  ASSUME CopilotSafe, call.at \in {"dressing", "renewing"}
  PROVE  \A outcome : CallSafe(WithToken(call), provider, learned, outcome)
  <1> DEFINE c == WithToken(call)
  <1>1. call \in CallType /\ provider.token \in Seats \cup {NoSeat}
    BY DEF CopilotSafe, CallSafe, CopilotTypeOK
  <1>2. /\ c \in CallType /\ c.at = "sending" /\ c.pass.token = provider.token
        /\ c.pass.repeats = call.denied /\ c.pass.host = call.pass.host /\ c.pass.moved = call.pass.moved
        /\ c.cause = call.cause /\ c.retries = call.retries /\ c.endpoint = call.endpoint
        /\ c.mayAuth = call.mayAuth /\ c.mayTransport = call.mayTransport
        /\ c.known = call.known /\ c.served = call.served
    BY <1>1 DEF CallType, CallPlaces, PassType, WithToken
  <1> HIDE DEF c
  <1>3. RetriesAreFew(c) /\ EndpointServes(c)
    BY <1>2 DEF CopilotSafe, CallSafe, RetriesAreFew, EndpointServes
  <1>4. \A outcome : PassesAreFresh(c, outcome)
    BY <1>2 DEF CopilotSafe, CallSafe, PassesAreFresh
  <1>5. HostIsTheTokens(c, provider, learned)
    BY <1>2 DEF CopilotSafe, CallSafe, HostIsTheTokens, ProviderSafe
  <1> QED
    BY <1>2, <1>3, <1>4, <1>5 DEF CallSafe, c

LEMMA DressStep == CopilotSafe /\ (Dress \/ Dressed) => CopilotSafe'
  <1> SUFFICES ASSUME CopilotSafe, Dress \/ Dressed PROVE CopilotSafe'
    OBVIOUS
  <1>1. UNCHANGED <<provider, learned, flight, accountRead, others>>
    BY DEF Dress, Dressed
  <1>2. refreshing' \in [Refreshers -> {"idle", "reading", "asking", "joined", "renewed", "refused"}]
    BY DEF Dress, Dressed, CopilotSafe, CopilotTypeOK
  <1>3. CASE call' = WithToken(call)
    BY <1>1, <1>2, <1>3, WithTokenSafe, CallStepSafe DEF Dress, Dressed
  <1>4. CASE call' = [call EXCEPT !.at = "renewing"] /\ call.at = "dressing"
    <2>1. /\ call' \in CallType /\ call'.at = "renewing" /\ call'.pass = call.pass
          /\ call'.cause = call.cause /\ call'.retries = call.retries /\ call'.endpoint = call.endpoint
          /\ call'.mayAuth = call.mayAuth /\ call'.mayTransport = call.mayTransport
          /\ call'.denied = call.denied /\ call'.known = call.known /\ call'.served = call.served
      BY <1>4 DEF CopilotSafe, CallSafe, CallType, CallPlaces
    <2>2. CallSafe(call', provider, learned, refreshing'["call"])
      BY <1>4, <2>1 DEF CopilotSafe, CallSafe, RetriesAreFew, PassesAreFresh, HostIsTheTokens, EndpointServes
    <2> QED
      BY <1>1, <1>2, <2>2, CallStepSafe
  <1> QED
    BY <1>3, <1>4 DEF Dress, Dressed

\* Somebody reads the account and asks for an exchange.
LEMMA AskStep ==
  ASSUME CopilotSafe, NEW x \in Refreshers, ReadAccount(x) \/ AskExchange(x)
  PROVE  CopilotSafe'
  <1>1. /\ UNCHANGED <<provider, learned, call, others>>
        /\ refreshing' = [refreshing EXCEPT ![x] = "asking"] \/ refreshing' = [refreshing EXCEPT ![x] = "joined"]
    BY DEF ReadAccount, AskExchange
  <1>2. CopilotTypeOK'
    <2>1. accountRead' \in [Refreshers -> Seats \cup {NoSeat}]
      BY DEF CopilotSafe, CopilotTypeOK, ReadAccount, AskExchange
    <2>2. flight' \in [seat : Seats \cup {NoSeat}, waits : SUBSET Refreshers]
      BY DEF CopilotSafe, CopilotTypeOK, ReadAccount, AskExchange
    <2> QED
      BY <1>1, <2>1, <2>2 DEF CopilotSafe, CopilotTypeOK
  <1>3. refreshing'["call"] \in {refreshing["call"], "asking", "joined"}
    BY <1>1 DEF CopilotSafe, CopilotTypeOK, Refreshers
  <1>4. CallSafe(call', provider', learned', refreshing'["call"])
    BY <1>1, <1>3 DEF CopilotSafe, CallSafe, PassesAreFresh
  <1> QED
    BY <1>1, <1>2, <1>4 DEF CopilotSafe

\* The exchange is over.  A host that it reports is its account's; without one the host is
\* known only if it was, for the same account.
LEMMA ExchangeStep ==
  ASSUME CopilotSafe, NEW reported \in Reports(flight.seat), Exchange(reported)
  PROVE  CopilotSafe'
  <1> DEFINE host == AdoptedHost(provider, reported)
             told == reported # NoSeat \/ (learned /\ flight.seat = provider.token)
             moved == /\ call.at \in {"dressing", "renewing", "sending"}
                      /\ ~told \/ host # provider.host
  <1>1. /\ call \in CallType /\ flight.seat \in Seats \cup {NoSeat}
        /\ host \in Hosts /\ told \in BOOLEAN
        /\ provider \in [account : Seats, token : Seats \cup {NoSeat}, due : BOOLEAN, host : Hosts]
    BY DEF CopilotSafe, CopilotTypeOK, CallSafe, AdoptedHost, Reports, HostOf, Hosts
  <1>2. told /\ flight.seat # NoSeat => host = HostOf(flight.seat)
    BY DEF CopilotSafe, ProviderSafe, AdoptedHost, Reports
  <1>3. /\ provider' = [provider EXCEPT !.token = flight.seat, !.due = FALSE, !.host = host]
        /\ call' = [call EXCEPT !.denied = FALSE, !.pass.current = FALSE, !.pass.moved = @ \/ moved]
        /\ learned' = told /\ flight' = NoFlight /\ refreshing' = Exchanged(TRUE)
        /\ UNCHANGED <<accountRead, others>>
    BY DEF Exchange
  <1> HIDE DEF host, told, moved
  <1>4. /\ provider' \in [account : Seats, token : Seats \cup {NoSeat}, due : BOOLEAN, host : Hosts]
        /\ provider'.token = flight.seat /\ provider'.host = host
    BY <1>1, <1>3
  <1>5. /\ call' \in CallType /\ call'.at = call.at /\ call'.denied = FALSE
        /\ call'.pass.host = call.pass.host /\ call'.pass.token = call.pass.token
        /\ call'.pass.repeats = call.pass.repeats
        /\ ~call'.pass.moved => ~call.pass.moved /\ ~moved
        /\ call'.cause = call.cause /\ call'.retries = call.retries /\ call'.endpoint = call.endpoint
        /\ call'.mayAuth = call.mayAuth /\ call'.mayTransport = call.mayTransport
        /\ call'.known = call.known /\ call'.served = call.served
    BY <1>1, <1>3 DEF CallType, PassType, moved
  <1>6. CopilotTypeOK'
    <2>1. flight' \in [seat : Seats \cup {NoSeat}, waits : SUBSET Refreshers]
      BY <1>3 DEF NoFlight
    <2>2. refreshing' \in [Refreshers -> {"idle", "reading", "asking", "joined", "renewed", "refused"}]
      BY <1>3 DEF Exchanged, CopilotSafe, CopilotTypeOK
    <2> QED
      BY <1>1, <1>3, <1>4, <1>5, <2>1, <2>2 DEF CopilotSafe, CopilotTypeOK, CallType
  <1>7. ProviderSafe(provider', learned')
    BY <1>2, <1>3, <1>4 DEF ProviderSafe
  <1>8. RetriesAreFew(call') /\ PassesAreFresh(call', refreshing'["call"]) /\ EndpointServes(call')
    BY <1>5 DEF CopilotSafe, CallSafe, RetriesAreFew, PassesAreFresh, EndpointServes
  <1>9. HostIsTheTokens(call', provider', learned')
    BY <1>1, <1>3, <1>4, <1>5 DEF CopilotSafe, CallSafe, HostIsTheTokens, moved
  <1> QED
    BY <1>5, <1>6, <1>7, <1>8, <1>9 DEF CopilotSafe, CallSafe

LEMMA ExchangeFailsStep == CopilotSafe /\ ExchangeFails => CopilotSafe'
  <1> SUFFICES ASSUME CopilotSafe, ExchangeFails PROVE CopilotSafe'
    OBVIOUS
  <1>1. /\ UNCHANGED <<provider, learned, accountRead, call, others>>
        /\ flight' = NoFlight /\ refreshing' = Exchanged(FALSE)
    BY DEF ExchangeFails
  <1>2. /\ flight' \in [seat : Seats \cup {NoSeat}, waits : SUBSET Refreshers]
        /\ refreshing' \in [Refreshers -> {"idle", "reading", "asking", "joined", "renewed", "refused"}]
    BY <1>1 DEF NoFlight, Exchanged, CopilotSafe, CopilotTypeOK
  <1>3. refreshing'["call"] \in {refreshing["call"], "refused"}
    BY <1>1 DEF Exchanged, Refreshers
  <1> QED
    BY <1>1, <1>2, <1>3 DEF CopilotSafe, CopilotTypeOK, CallSafe, PassesAreFresh

\* What others do to the provider beside the call.
LEMMA OthersStep ==
  ASSUME CopilotSafe, Expire \/ OthersRefresh \/ \E seat \in Seats : SetupAuth(seat)
  PROVE  CopilotSafe'
  <1>1. /\ UNCHANGED <<learned, flight, accountRead, call>>
        /\ \/ UNCHANGED provider \/ provider' = [provider EXCEPT !.due = TRUE]
           \/ \E seat \in Seats : provider' = [provider EXCEPT !.account = seat]
        /\ refreshing' = refreshing \/ refreshing' = [refreshing EXCEPT !["other"] = "reading"]
    BY DEF Expire, OthersRefresh, SetupAuth
  <1>2. /\ provider' \in [account : Seats, token : Seats \cup {NoSeat}, due : BOOLEAN, host : Hosts]
        /\ provider'.token = provider.token /\ provider'.host = provider.host
    BY <1>1 DEF CopilotSafe, CopilotTypeOK
  <1>3. /\ refreshing' \in [Refreshers -> {"idle", "reading", "asking", "joined", "renewed", "refused"}]
        /\ refreshing'["call"] = refreshing["call"]
    BY <1>1 DEF CopilotSafe, CopilotTypeOK, Refreshers
  <1>4. CopilotTypeOK' /\ ProviderSafe(provider', learned')
    BY <1>1, <1>2, <1>3 DEF CopilotSafe, CopilotTypeOK, ProviderSafe
  <1>5. CallSafe(call', provider', learned', refreshing'["call"])
    BY <1>1, <1>2, <1>3 DEF CopilotSafe, CallSafe, HostIsTheTokens
  <1> QED
    BY <1>4, <1>5 DEF CopilotSafe

\* The first answer, or an error that nothing follows, ends the call.
LEMMA EndingStep ==
  ASSUME CopilotSafe, NEW place \in {"answered", "failed"}, Respond(End(place))
  PROVE  CopilotSafe'
  BY EndSafe, CallStepSafe DEF Respond, CopilotSafe, CopilotTypeOK

\* A transient failure is waited out, or ends the call.
LEMMA WaitingStep ==
  ASSUME CopilotSafe, NEW c, NEW outcome, CallSafe(c, provider, learned, outcome),
         c.at \in {"sending", "reauthorizing"}, call' = OrWait(c),
         UNCHANGED <<provider, learned, flight, accountRead, others>>,
         refreshing' \in [Refreshers -> {"idle", "reading", "asking", "joined", "renewed", "refused"}]
  PROVE  CopilotSafe'
  BY WaitSafe, CallStepSafe

\* A timeout of a Responses call is followed up once in a pass.
LEMMA TimeOutStep == CopilotSafe /\ TimeOut => CopilotSafe'
  <1> SUFFICES ASSUME CopilotSafe, TimeOut PROVE CopilotSafe'
    OBVIOUS
  <1>1. CASE Respond(Failed)
    BY <1>1, EndingStep DEF Failed
  <1>2. CASE /\ call.endpoint = "responses" /\ call.cause # "timeout"
             /\ Respond([Retry(call, "timeout") EXCEPT !.at = "dressing"])
    <2>1. call \in CallType /\ call.at = "sending" /\ call.retries.timeout = 0
      BY <1>2 DEF TimeOut, Sending, CopilotSafe, CallSafe, RetriesAreFew
    <2>2. PICK r \in RetriesType :
            /\ Retry(call, "timeout") = [call EXCEPT !.cause = "timeout", !.retries = r]
            /\ r.timeout = 1 /\ r.transport = call.retries.transport /\ r.auth = call.retries.auth
      BY <2>1, RetryCounts DEF Kinds
    <2>3. call' = [call EXCEPT !.cause = "timeout", !.retries = r, !.at = "dressing"]
      BY <1>2, <2>1, <2>2 DEF Respond, CallType
    <2>4. /\ call' \in CallType /\ call'.at = "dressing" /\ call'.retries = r /\ call'.cause = "timeout"
          /\ call'.pass = call.pass /\ call'.endpoint = call.endpoint
          /\ call'.mayAuth = call.mayAuth /\ call'.mayTransport = call.mayTransport
          /\ call'.known = call.known /\ call'.served = call.served
      BY <2>1, <2>3 DEF CallType, CallPlaces, Causes
    <2>5. RetriesAreFew(call')
      BY <1>2, <2>1, <2>2, <2>4 DEF CopilotSafe, CallSafe, RetriesAreFew
    <2>6. HostIsTheTokens(call', provider, learned) /\ EndpointServes(call')
      BY <2>1, <2>4 DEF CopilotSafe, CallSafe, HostIsTheTokens, EndpointServes
    <2>7. CallSafe(call', provider, learned, refreshing["call"])
      BY <2>4, <2>5, <2>6 DEF CallSafe, PassesAreFresh
    <2> QED
      BY <1>2, <2>7, CallStepSafe DEF Respond, CopilotSafe, CopilotTypeOK
  <1> QED
    BY <1>1, <1>2 DEF TimeOut

\* The token is rejected.
LEMMA RejectStep ==
  ASSUME CopilotSafe, NEW transient \in BOOLEAN, Reject(transient)
  PROVE  CopilotSafe'
  <1>1. call \in CallType /\ call.at = "sending"
    BY DEF CopilotSafe, CallSafe, Reject, Sending
  <1> DEFINE denied == call.denied \/ call.pass.current
  <1>2. denied \in BOOLEAN /\ Nothing \in PassType
    BY <1>1 DEF CallType, PassType, Nothing, Hosts
  <1>3. CASE call.mayAuth
    <2>1. /\ call' = [call EXCEPT !.at = "reauthorizing", !.denied = denied,
                                  !.transient = transient, !.pass = Nothing]
          /\ refreshing' = [refreshing EXCEPT !["call"] = "reading"]
          /\ UNCHANGED <<provider, learned, flight, accountRead, others>>
      BY <1>3 DEF Reject
    <2>2. /\ refreshing' \in [Refreshers -> {"idle", "reading", "asking", "joined", "renewed", "refused"}]
          /\ refreshing'["call"] = "reading"
      BY <2>1 DEF CopilotSafe, CopilotTypeOK, Refreshers
    <2> HIDE DEF denied
    <2>3. /\ call' \in CallType /\ call'.at = "reauthorizing"
          /\ call'.cause = call.cause /\ call'.retries = call.retries /\ call'.endpoint = call.endpoint
          /\ call'.mayAuth = call.mayAuth /\ call'.mayTransport = call.mayTransport
          /\ call'.known = call.known /\ call'.served = call.served
      BY <1>1, <1>2, <2>1 DEF CallType, CallPlaces
    <2>4. CallSafe(call', provider, learned, refreshing'["call"])
      BY <1>1, <1>3, <2>2, <2>3
         DEF CopilotSafe, CallSafe, RetriesAreFew, PassesAreFresh, HostIsTheTokens, EndpointServes
    <2> QED
      BY <2>1, <2>2, <2>4, CallStepSafe
  <1>4. CASE ~call.mayAuth /\ transient
    <2> DEFINE c == [call EXCEPT !.denied = denied]
    <2>1. Respond(OrWait(c))
      BY <1>4 DEF Reject
    <2> HIDE DEF denied
    <2>2. /\ c \in CallType /\ c.at = "sending" /\ c.pass = call.pass
          /\ c.cause = call.cause /\ c.retries = call.retries /\ c.endpoint = call.endpoint
          /\ c.mayAuth = call.mayAuth /\ c.mayTransport = call.mayTransport
          /\ c.known = call.known /\ c.served = call.served
      BY <1>1, <1>2 DEF CallType
    <2> HIDE DEF c
    <2>3. CallSafe(c, provider, learned, refreshing["call"])
      BY <1>1, <2>2 DEF CopilotSafe, CallSafe, RetriesAreFew, PassesAreFresh, HostIsTheTokens, EndpointServes
    <2> QED
      BY <2>1, <2>2, <2>3, WaitingStep DEF Respond, CopilotSafe, CopilotTypeOK
  <1>5. CASE ~call.mayAuth /\ ~transient
    BY <1>5, EndingStep DEF Reject, Failed
  <1> QED
    BY <1>3, <1>4, <1>5

\* Chat completions do not serve the model.
LEMMA UnsupportedStep == CopilotSafe /\ Unsupported => CopilotSafe'
  <1> SUFFICES ASSUME CopilotSafe, Unsupported PROVE CopilotSafe'
    OBVIOUS
  <1>1. CASE call.forced
    BY <1>1, EndingStep DEF Unsupported, Failed
  <1>2. CASE ~call.forced
    <2> DEFINE mayAuth == call.mayAuth \/ call.retries.auth > 0
    <2>1. call \in CallType /\ call.at = "sending" /\ call.endpoint = "chat" /\ "chat" \notin call.served
      BY DEF CopilotSafe, CallSafe, Unsupported, Sending
    <2>2. mayAuth \in BOOLEAN /\ Nothing \in PassType /\ NoRetries \in RetriesType
      BY <2>1 DEF CallType, PassType, Nothing, Hosts, NoRetries, RetriesType
    <2>3. Respond([call EXCEPT !.endpoint = "responses", !.at = "addressing", !.cause = "endpoint",
                               !.mayAuth = mayAuth, !.retries = NoRetries, !.pass = Nothing])
      BY <1>2 DEF Unsupported
    <2> HIDE DEF mayAuth
    <2>4. /\ call' \in CallType /\ call'.at = "addressing" /\ call'.cause = "endpoint"
          /\ call'.retries = NoRetries /\ call'.known = call.known
      BY <2>1, <2>2, <2>3 DEF Respond, CallType, CallPlaces, Causes, Endpoints
    <2>5. ~call.known
      BY <2>1 DEF CopilotSafe, CallSafe, EndpointServes
    <2>6. CallSafe(call', provider, learned, refreshing["call"])
      BY <2>4, <2>5
         DEF CallSafe, NoRetries, RetriesAreFew, PassesAreFresh, HostIsTheTokens, EndpointServes
    <2> QED
      BY <2>3, <2>6, CallStepSafe DEF Respond, CopilotSafe, CopilotTypeOK
  <1> QED
    BY <1>1, <1>2

\* A rejected token was refreshed, or could not be.
LEMMA ReauthorizedStep == CopilotSafe /\ Reauthorized => CopilotSafe'
  <1> SUFFICES ASSUME CopilotSafe, Reauthorized PROVE CopilotSafe'
    OBVIOUS
  <1>1. /\ call \in CallType /\ call.at = "reauthorizing" /\ refreshing["call"] \in {"renewed", "refused"}
        /\ refreshing' = [refreshing EXCEPT !["call"] = "idle"]
        /\ UNCHANGED <<provider, learned, flight, accountRead, others>>
    BY DEF CopilotSafe, CallSafe, Reauthorized
  <1>2. refreshing' \in [Refreshers -> {"idle", "reading", "asking", "joined", "renewed", "refused"}]
    BY <1>1 DEF CopilotSafe, CopilotTypeOK, Refreshers
  <1>3. CASE refreshing["call"] = "renewed"
    <2>1. call.mayAuth /\ call.retries.auth = 0 /\ ~call.denied
      BY <1>1, <1>3 DEF CopilotSafe, CallSafe, RetriesAreFew, PassesAreFresh
    <2>2. PICK r \in RetriesType :
            /\ Retry(call, "auth") = [call EXCEPT !.cause = "auth", !.retries = r]
            /\ r.auth = 1 /\ r.transport = call.retries.transport
      BY <1>1, <2>1, RetryCounts DEF Kinds
    <2>3. call' = [call EXCEPT !.cause = "auth", !.retries = [r EXCEPT !.timeout = 0], !.at = "addressing",
                               !.mayAuth = FALSE, !.transient = FALSE]
      <3>1. call' = [AuthorizedPass(Retry(call, "auth")) EXCEPT !.retries.timeout = 0, !.transient = FALSE]
        BY <1>3 DEF Reauthorized, Refreshed
      <3> QED
        BY <1>1, <2>2, <3>1 DEF AuthorizedPass, CallType
    <2> DEFINE q == [r EXCEPT !.timeout = 0]
    <2>4. /\ q \in RetriesType
          /\ q.timeout = 0 /\ q.auth = 1 /\ q.transport = call.retries.transport
      BY <2>2 DEF RetriesType
    <2> HIDE DEF q
    <2>5. /\ call' \in CallType /\ call'.at = "addressing" /\ call'.cause = "auth" /\ call'.retries = q
          /\ call'.mayAuth = FALSE /\ call'.mayTransport = call.mayTransport
          /\ call'.endpoint = call.endpoint /\ call'.denied = call.denied
          /\ call'.known = call.known /\ call'.served = call.served
      BY <1>1, <2>3, <2>4 DEF CallType, CallPlaces, Causes, q
    <2>6. RetriesAreFew(call') /\ EndpointServes(call')
      BY <1>1, <2>4, <2>5 DEF CopilotSafe, CallSafe, RetriesAreFew, EndpointServes
    <2>7. CallSafe(call', provider, learned, refreshing'["call"])
      BY <2>1, <2>5, <2>6 DEF CallSafe, PassesAreFresh, HostIsTheTokens
    <2> QED
      BY <1>1, <1>2, <2>7, CallStepSafe
  <1>4. CASE refreshing["call"] = "refused" /\ call.transient
    <2> DEFINE c == [call EXCEPT !.transient = FALSE]
    <2>1. call' = OrWait(c)
      BY <1>4 DEF Reauthorized, Refreshed
    <2>2. /\ c \in CallType /\ c.at = "reauthorizing" /\ c.pass = call.pass
          /\ c.cause = call.cause /\ c.retries = call.retries /\ c.endpoint = call.endpoint
          /\ c.mayAuth = call.mayAuth /\ c.mayTransport = call.mayTransport /\ c.denied = call.denied
          /\ c.known = call.known /\ c.served = call.served
      BY <1>1 DEF CallType
    <2> HIDE DEF c
    <2>3. CallSafe(c, provider, learned, refreshing["call"])
      BY <1>1, <2>2 DEF CopilotSafe, CallSafe, RetriesAreFew, PassesAreFresh, HostIsTheTokens, EndpointServes
    <2> QED
      BY <1>1, <1>2, <2>1, <2>2, <2>3, WaitingStep
  <1>5. CASE refreshing["call"] = "refused" /\ ~call.transient
    <2>1. call' = End("failed")
      BY <1>5 DEF Reauthorized, Refreshed, Failed
    <2> QED
      BY <1>1, <1>2, <2>1, EndSafe, CallStepSafe
  <1> QED
    BY <1>1, <1>3, <1>4, <1>5

\* The wait is over.
LEMMA WaitedOutStep == CopilotSafe /\ WaitedOut => CopilotSafe'
  <1> SUFFICES ASSUME CopilotSafe, WaitedOut PROVE CopilotSafe'
    OBVIOUS
  <1>1. CASE Respond(Failed)
    BY <1>1, EndingStep DEF Failed
  <1>2. CASE Respond(TransportPass(Retry(call, "transport")))
    <2>1. /\ call \in CallType /\ call.at = "waiting" /\ call.retries.transport = 0
          /\ call.endpoint = "chat" /\ call.retries.timeout = 0
      BY DEF CopilotSafe, CallSafe, WaitedOut, RetriesAreFew
    <2>2. PICK r \in RetriesType :
            /\ Retry(call, "transport") = [call EXCEPT !.cause = "transport", !.retries = r]
            /\ r.transport = 1 /\ r.auth = call.retries.auth /\ r.timeout = call.retries.timeout
      BY <2>1, RetryCounts DEF Kinds
    <2>3. call' = [call EXCEPT !.cause = "transport", !.retries = r, !.at = "addressing", !.mayTransport = FALSE]
      BY <1>2, <2>1, <2>2 DEF Respond, TransportPass, CallType
    <2>4. /\ call' \in CallType /\ call'.at = "addressing" /\ call'.retries = r /\ call'.cause = "transport"
          /\ call'.endpoint = call.endpoint /\ call'.mayAuth = call.mayAuth /\ call'.mayTransport = FALSE
          /\ call'.known = call.known /\ call'.served = call.served
      BY <2>1, <2>3 DEF CallType, CallPlaces, Causes
    <2>5. CallSafe(call', provider, learned, refreshing["call"])
      BY <2>1, <2>2, <2>4
         DEF CopilotSafe, CallSafe, RetriesAreFew, PassesAreFresh, HostIsTheTokens, EndpointServes
    <2> QED
      BY <1>2, <2>5, CallStepSafe DEF Respond, CopilotSafe, CopilotTypeOK
  <1> QED
    BY <1>1, <1>2 DEF WaitedOut

\* The client goes.
LEMMA LeaveStep == CopilotSafe /\ Leave => CopilotSafe'
  <1> SUFFICES ASSUME CopilotSafe, Leave PROVE CopilotSafe'
    OBVIOUS
  <1>1. call \in CallType /\ Respond([call EXCEPT !.gone = TRUE])
    BY DEF CopilotSafe, CallSafe, Leave
  <1>2. /\ call' \in CallType /\ call'.at = call.at /\ call'.pass = call.pass
        /\ call'.cause = call.cause /\ call'.retries = call.retries /\ call'.endpoint = call.endpoint
        /\ call'.mayAuth = call.mayAuth /\ call'.mayTransport = call.mayTransport
        /\ call'.denied = call.denied /\ call'.known = call.known /\ call'.served = call.served
    BY <1>1 DEF Respond, CallType
  <1>3. CallSafe(call', provider, learned, refreshing["call"])
    BY <1>2 DEF CopilotSafe, CallSafe, RetriesAreFew, PassesAreFresh, HostIsTheTokens, EndpointServes
  <1> QED
    BY <1>1, <1>3, CallStepSafe DEF Respond, CopilotSafe, CopilotTypeOK

LEMMA CopilotInitSafe == CopilotInit => CopilotSafe
  <1> SUFFICES ASSUME CopilotInit PROVE CopilotSafe
    OBVIOUS
  <1>1. PICK seat \in Seats : Loaded(seat)
    BY DEF CopilotInit
  <1>2. HostOf(seat) \in Hosts /\ Public \in Hosts
    BY DEF HostOf, Hosts
  <1>3. /\ provider \in [account : Seats, token : Seats \cup {NoSeat}, due : BOOLEAN, host : Hosts]
        /\ learned \in BOOLEAN /\ ProviderSafe(provider, learned)
    <2>1. provider \in [account : Seats, token : Seats \cup {NoSeat}, due : BOOLEAN, host : Hosts]
      <3>1. \/ provider = [account |-> seat, token |-> seat, due |-> FALSE, host |-> Public]
            \/ provider = [account |-> seat, token |-> seat, due |-> FALSE, host |-> HostOf(seat)]
            \/ provider \in [account : {seat}, token : {seat, NoSeat}, due : {TRUE}, host : {Public}]
        BY <1>1, Zenon DEF Loaded
      <3>2. {TRUE} \subseteq BOOLEAN
        BY Zenon
      <3>3. CASE provider \in [account : {seat}, token : {seat, NoSeat}, due : {TRUE}, host : {Public}]
        BY <1>2, <3>2, <3>3
      <3>4. CASE provider = [account |-> seat, token |-> seat, due |-> FALSE, host |-> Public]
        BY <1>2, <3>4
      <3>5. CASE provider = [account |-> seat, token |-> seat, due |-> FALSE, host |-> HostOf(seat)]
        BY <1>2, <3>5
      <3> QED
        BY <3>1, <3>3, <3>4, <3>5
    <2>2. learned \in BOOLEAN
      BY <1>1, Zenon DEF Loaded
    <2>3. ~learned \/ provider = [account |-> seat, token |-> seat, due |-> FALSE, host |-> HostOf(seat)]
      BY <1>1, Zenon DEF Loaded
    <2> QED
      BY <2>1, <2>2, <2>3 DEF ProviderSafe
  <1>4. CallSafe(call, provider, learned, refreshing["call"])
    BY NoCallSafe DEF CopilotInit
  <1>5. CopilotTypeOK
    BY <1>3, <1>4 DEF CopilotInit, CopilotTypeOK, NoFlight, CallSafe, CallType
  <1> QED
    BY <1>3, <1>4, <1>5 DEF CopilotSafe

LEMMA CopilotStepSafe ==
  ASSUME CopilotSafe, [CopilotNext]_copilotVars
  PROVE  CopilotSafe'
  <1>1. CASE UNCHANGED copilotVars
    BY <1>1 DEF copilotVars, CopilotSafe, CopilotTypeOK
  <1>2. CASE Accept \/ Refuse \/ Abandoned
    BY <1>2, EndingStep DEF Accept, Refuse, Abandoned, Failed
  <1>3. CASE Unavailable
    BY <1>3, WaitingStep DEF Unavailable, Sending, Respond, CopilotSafe, CopilotTypeOK
  <1>4. CASE \E x \in Refreshers : ReadAccount(x) \/ AskExchange(x)
    BY <1>4, AskStep
  <1>5. "call" \in Refreshers /\ "other" \in Refreshers /\ TRUE \in BOOLEAN /\ FALSE \in BOOLEAN
    BY DEF Refreshers
  <1>6. CASE \/ TimeOut \/ Reject(TRUE) \/ Reject(FALSE) \/ Unsupported \/ Reauthorized \/ WaitedOut
             \/ Leave \/ Address \/ Dress \/ Dressed \/ ExchangeFails
             \/ \E reported \in Reports(flight.seat) : Exchange(reported)
    BY <1>5, <1>6, TimeOutStep, RejectStep, UnsupportedStep, ReauthorizedStep, WaitedOutStep, LeaveStep,
       AddressStep, DressStep, ExchangeStep, ExchangeFailsStep
  <1>7. CASE Expire \/ OthersRefresh \/ \E seat \in Seats : SetupAuth(seat)
    BY <1>7, OthersStep
  <1>8. CASE \E model \in Models, dialect \in {"chat", "messages", "responses"},
                gateway, left, early, late \in BOOLEAN : BeginCall(model, dialect, gateway, left, early, late)
    BY <1>8, BeginCallStep
  <1> QED
    BY <1>1, <1>2, <1>3, <1>4, <1>5, <1>6, <1>7, <1>8 DEF CopilotNext, CallStep

\* COPILOT.  Whatever the accounts and their hosts, however many refreshes and sign-ins
\* happen beside a call: no failure is retried twice on an endpoint, a rejected token is
\* not presented again; a token goes to its own host, once an exchange of its account has
\* reported that and while it stays as the URL has it; and a model that the catalog had goes
\* to an endpoint that serves it, unless another candidate of the request has forced one.
THEOREM CallsAreRetriedSoundly == CopilotSpec => [](CopilotTypeOK /\ CopilotCallsAreSound)
  <1>1. CopilotSafe => CopilotTypeOK /\ CopilotCallsAreSound
    <2> SUFFICES ASSUME CopilotSafe PROVE CopilotCallsAreSound
      BY DEF CopilotSafe
    <2>1. \A c \in DOMAIN NoRetries : call.retries[c] <= 1
      BY DEF CopilotSafe, CallSafe, RetriesAreFew, NoRetries
    <2>2. call.at = "sending" =>
            /\ call.cause = "auth" => ~call.pass.repeats
            /\ call.pass.token # NoSeat /\ ~call.pass.moved => call.pass.host = HostOf(call.pass.token)
      BY DEF CopilotSafe, CallSafe, PassesAreFresh, HostIsTheTokens
    <2>3. CataloguedModelsAreServed
      BY DEF CopilotSafe, CallSafe, EndpointServes, CataloguedModelsAreServed
    <2> QED
      BY <2>1, <2>2, <2>3 DEF CopilotCallsAreSound
  <1> QED
    BY CopilotInitSafe, CopilotStepSafe, <1>1, PTL DEF CopilotSpec

-----------------------------------------------------------------------------
(***************************************************************************)
(* Sign-ins, for any number of operators, instances and visits.  What is   *)
(* promised of a sign-in that nobody crossed depends on what all others    *)
(* may do to its instance, its provider object, the one active flow and    *)
(* the outcomes that are kept to be polled.  The invariant says, besides   *)
(* types:                                                                  *)
(*   - PlacedWell: what a sign-in holds at each place, whether it was      *)
(*     crossed or not; its object is its own, or belongs to its instance;  *)
(*   - KeptWhole: nobody else is under way at the instance of one that was *)
(*     not crossed, and what it has stored there is still there;           *)
(*   - FlowKept: the active flow is truly its sign-in's, by name and       *)
(*     status, and no two creations share a name unless both were crossed; *)
(*   - ResultKept, LoginKept: outcomes are true, and a login flow that     *)
(*     began as its own finds no other's under its name;                   *)
(*   - RegistryKept: a provider object is in the registry only under the   *)
(*     id its creator took.                                                *)
(* A step of one sign-in is one of StepKeeps, the beginning one of         *)
(* BeginsWell, a client's one of PollsKeep and a deletion's one of         *)
(* DeletionKeeps; each action has a lemma that shows it to be one.         *)
(***************************************************************************)
Through == {"finishing", "done"}
\* Whose provider object can be in the registry under an id: its creator has got so far.
Belongs(o, i) == IF o = Founder THEN i = 1
                 ELSE signIn[o].id = i /\ signIn[o].at \in Through
Redirects == {"queued", "listening", "redirecting", "exchanging"}
Named == Redirects \cup {"reserving", "saving", "registering", "undoing", "finishing", "done"}
Reserved == {"saving", "registering", "undoing", "finishing", "done", "failed"}

\* Where a sign-in may be, and what it holds there.
PlacedWell(s) ==
  /\ SignInAt(s, "out") => signIn[s] = NoSignIn /\ loginFlow[s].at = "none"
  /\ signIn[s].at \in {"coding", "polling"} => kind = "device"
  /\ signIn[s].at \in Redirects => kind \in {"openai", "antigravity"}
  /\ \/ signIn[s].at \in Named
     \/ ~SignInAt(s, "out") /\ (~signIn[s].new \/ kind # "device")
     => signIn[s].id \in Instances
  /\ signIn[s].at \in {"coding", "polling"} /\ signIn[s].new => signIn[s].id = NoInstance
  /\ signIn[s].bare => ~signIn[s].new
  /\ SignInAt(s, "coding") => ~signIn[s].bare /\ ~signIn[s].canceled
  /\ signIn[s].at \in {"reserving", "undoing"} => signIn[s].new
  /\ signIn[s].created => /\ signIn[s].new /\ signIn[s].at \in Reserved
                         /\ signIn[s].id \in Instances
  /\ UnderWay(s) /\ signIn[s].new => signIn[s].object = {s}
  /\ ~signIn[s].new => \A o \in signIn[s].object : Belongs(o, signIn[s].id)
  /\ ~UnderWay(s) => signIn[s].object = {}
  /\ loginFlow[s].at = "pending" => signIn[s].at \notin {"out", "coding", "refused"} /\ ~signIn[s].bare

\* Others keep off an undisturbed sign-in's instance, and what it has done there stays.
KeptWhole(s) ==
  Undisturbed(s) =>
  /\ signIn[s].id \notin deleting
  /\ \A t \in SignIns : t # s /\ signIn[t].id = signIn[s].id /\ signIn[s].id # NoInstance => ~UnderWay(t)
  /\ UnderWay(s) /\ ~signIn[s].new =>
       signIn[s].object = instances[signIn[s].id] /\ signIn[s].object # {}
  /\ signIn[s].existed => signIn[s].id \in instanceRows /\ ~signIn[s].created
  /\ SignInAt(s, "registering") /\ kind # "antigravity" => \A o \in signIn[s].object : carried[o] = {s}
  /\ signIn[s].at \in Through \cup {"registering"} =>
       \/ signIn[s].lost /\ kind # "antigravity"
       \/ signIn[s].id \in instanceRows /\ credentials[signIn[s].id] = {s}
  /\ signIn[s].at \in Through => \E o \in instances[signIn[s].id] : carried[o] = {s}
  /\ SignInAt(s, "failed") /\ signIn[s].created =>
       /\ credentials[signIn[s].id] = {}
       /\ signIn[s].id \in instanceRows => instances[signIn[s].id] # {}

Flows == [of : SignIns, id : 1..PendingInstance, status : {"awaiting_user", "error", "complete"}]
FlowKept(a) ==
  /\ a \in Flows /\ kind = "device"
  /\ ~signIn[a.of].bare /\ ~signIn[a.of].canceled /\ signIn[a.of].at \notin {"out", "coding", "refused"}
  /\ a.id = PendingInstance => signIn[a.of].new
  /\ a.status = "awaiting_user" => UnderWay(a.of) /\ a.id = FlowName(a.of)
  /\ Undisturbed(a.of) =>
       /\ a.status = "error" => SignInAt(a.of, "failed") /\ a.id = FlowName(a.of)
       /\ a.status = "complete" => SignInAt(a.of, "done") /\ a.id = signIn[a.of].id
  \* Two creations have one name.
  /\ \A t \in SignIns : t # a.of /\ UnderWay(t) /\ signIn[t].new /\ signIn[a.of].new =>
       {t, a.of} \subseteq disturbed

Results == [of : SignIns, error : BOOLEAN]
ResultKept(r) ==
  /\ r \in Results
  /\ SignInAt(r.of, IF r.error THEN "failed" ELSE "done")

LoginKept(s) ==
  loginFlow[s].own /\ Undisturbed(s) =>
  /\ loginFlow[s].at = "complete" => SignInAt(s, "done")
  /\ loginFlow[s].at = "error" => SignInAt(s, "failed")
  /\ loginFlow[s].at = "pending" /\ kind # "device" =>
       loginFlow[s].id = signIn[s].id /\ \A r \in outcomes[signIn[s].id] : r.of = s
  /\ loginFlow[s].at = "pending" /\ kind = "device" =>
       /\ \/ loginFlow[s].id = PendingInstance /\ signIn[s].new
          \/ loginFlow[s].id = signIn[s].id /\ signIn[s].id # NoInstance
       /\ \A a \in activeFlow : a.of # s =>
            /\ signIn[s].new => ~signIn[a.of].new
            /\ loginFlow[s].id = signIn[s].id => a.id # signIn[s].id

SignInRecords ==
  [at : SignInPlaces, id : Instances \cup {NoInstance}, new : BOOLEAN, bare : BOOLEAN,
   object : Nobodys, created : BOOLEAN, canceled : BOOLEAN, existed : BOOLEAN, lost : BOOLEAN,
   over : BOOLEAN]
SignInTypes ==
  /\ kind \in SignInKinds
  /\ signIn \in [SignIns -> SignInRecords]
  /\ instanceRows \subseteq Instances /\ deleting \subseteq Instances
  /\ credentials \in [Instances -> Nobodys] /\ instances \in [Instances -> Nobodys]
  /\ carried \in [Owners -> Nobodys]
  /\ outcomes \in [Instances -> SUBSET Results]
  /\ loginFlow \in [SignIns -> [at : Told, id : 0..PendingInstance, own : BOOLEAN]]
  /\ visits \in 0..MaxVisits /\ disturbed \subseteq SignIns
  /\ \A a, b \in activeFlow : a = b
  /\ \A i \in Instances : \A r, q \in outcomes[i] : r = q
  /\ kind \notin {"openai", "antigravity"} => \A i \in Instances : outcomes[i] = {}

RegistryKept == \A i \in Instances : \A o \in instances[i] : Belongs(o, i)

SignInSafe ==
  /\ SignInTypes /\ RegistryKept
  /\ \A s \in SignIns : PlacedWell(s) /\ KeptWhole(s) /\ LoginKept(s)
  /\ \A a \in activeFlow : FlowKept(a)
  /\ \A i \in Instances : \A r \in outcomes[i] : ResultKept(r)

\* A sign-in t of whose record nothing changes but that it may be over or canceled.
Same(t) ==
  /\ signIn'[t].at = signIn[t].at /\ signIn'[t].id = signIn[t].id
  /\ signIn'[t].new = signIn[t].new /\ signIn'[t].bare = signIn[t].bare
  /\ signIn'[t].object = signIn[t].object /\ signIn'[t].created = signIn[t].created
  /\ signIn'[t].existed = signIn[t].existed /\ signIn'[t].lost = signIn[t].lost
  /\ signIn[t].over => signIn'[t].over
  /\ SignInAt(t, "out") => signIn'[t] = signIn[t]
OthersSame(s) == \A t \in SignIns \ {s} : Same(t)

\* What the invariant says of t alone is kept by a step that does not touch t's instance.
LEMMA KeptCore ==
  ASSUME SignInSafe, NEW t \in SignIns, Same(t), disturbed \subseteq disturbed', kind' = kind,
         Undisturbed(t)' => \A u \in SignIns \ {t} :
           signIn'[u].id = signIn[t].id /\ signIn[t].id # NoInstance => ~UnderWay(u)',
         Undisturbed(t)' => signIn[t].id \notin deleting',
         Undisturbed(t)' /\ signIn[t].id \in Instances =>
           /\ instances'[signIn[t].id] = instances[signIn[t].id]
           /\ credentials'[signIn[t].id] = credentials[signIn[t].id]
           /\ signIn[t].id \in instanceRows => signIn[t].id \in instanceRows'
           /\ signIn[t].id \in instanceRows' =>
                signIn[t].id \in instanceRows \/ instances[signIn[t].id] # {}
           /\ \A o \in instances[signIn[t].id] : carried'[o] = carried[o],
         Undisturbed(t)' => \A o \in signIn[t].object : carried'[o] = carried[o]
  PROVE  KeptWhole(t)'
  <1> SUFFICES ASSUME Undisturbed(t)' PROVE KeptWhole(t)'
    BY DEF KeptWhole
  <1>1. Undisturbed(t)
    BY DEF Undisturbed, Same
  <1>2. KeptWhole(t) /\ PlacedWell(t)
    BY DEF SignInSafe
  <1>3. ~SignInAt(t, "out") /\ (signIn[t].at \in Named \/ ~signIn[t].new) => signIn[t].id \in Instances
    BY <1>2 DEF PlacedWell
  <1>4. signIn[t].id \in Instances \cup {NoInstance} /\ instanceRows \subseteq Instances /\ 0 \notin Instances
    BY DEF SignInSafe, SignInTypes, SignInRecords, Instances
  <1>5. (UnderWay(t)' = UnderWay(t)) /\ \A p : SignInAt(t, p)' = SignInAt(t, p)
    BY DEF UnderWay, SignInAt, Same
  <1>6. UnderWay(t) \/ signIn[t].at \in {"done", "failed", "refused", "out"}
    BY DEF UnderWay, AtRest
  <1>7. signIn[t].created => signIn[t].id \in Instances
    BY <1>2 DEF PlacedWell
  <1>8. signIn[t].existed => signIn[t].id \in Instances
    BY <1>1, <1>2, <1>4 DEF KeptWhole
  <1>9. UnderWay(t) => ~SignInAt(t, "out")
    BY DEF UnderWay, SignInAt, AtRest
  <1>10. signIn[t].at \in Through \cup {"registering"} => signIn[t].id \in Instances
    BY <1>3 DEF Through, Named, SignInAt
  <1>11. signIn'[t].id \notin deleting'
    BY DEF Same
  <1>12. \A u \in SignIns : u # t /\ signIn'[u].id = signIn'[t].id /\ signIn'[t].id # NoInstance => ~UnderWay(u)'
    BY DEF Same
  <1>13. UnderWay(t)' /\ ~signIn'[t].new =>
           signIn'[t].object = instances'[signIn'[t].id] /\ signIn'[t].object # {}
    BY <1>1, <1>2, <1>3, <1>5, <1>9 DEF KeptWhole, Same
  <1>14. signIn'[t].existed => signIn'[t].id \in instanceRows' /\ ~signIn'[t].created
    BY <1>1, <1>2, <1>8 DEF KeptWhole, Same
  <1>15. SignInAt(t, "registering")' /\ kind' # "antigravity" =>
           \A o \in signIn'[t].object : carried'[o] = {t}
    BY <1>1, <1>2, <1>5 DEF KeptWhole, Same
  <1>16. signIn'[t].at \in Through \cup {"registering"} =>
           \/ signIn'[t].lost /\ kind' # "antigravity"
           \/ signIn'[t].id \in instanceRows' /\ credentials'[signIn'[t].id] = {t}
    BY <1>1, <1>2, <1>10 DEF KeptWhole, Same
  <1>17. signIn'[t].at \in Through => \E o \in instances'[signIn'[t].id] : carried'[o] = {t}
    BY <1>1, <1>2, <1>10 DEF KeptWhole, Same
  <1>18. SignInAt(t, "failed")' /\ signIn'[t].created =>
           /\ credentials'[signIn'[t].id] = {}
           /\ signIn'[t].id \in instanceRows' => instances'[signIn'[t].id] # {}
    BY <1>1, <1>2, <1>5, <1>7 DEF KeptWhole, Same
  <1> QED
    BY <1>11, <1>12, <1>13, <1>14, <1>15, <1>16, <1>17, <1>18 DEF KeptWhole, SignInAt, Through

\* Where a sign-in stands stays right while its own record and its login flow do.
LEMMA PlacedCore ==
  ASSUME SignInSafe, NEW t \in SignIns, Same(t), kind' = kind,
         loginFlow'[t].at = "pending" =>
           loginFlow[t].at = "pending" \/ (signIn[t].at \notin {"out", "coding", "refused"} /\ ~signIn[t].bare),
         SignInAt(t, "out") => loginFlow'[t] = loginFlow[t],
         SignInAt(t, "coding") /\ signIn'[t].canceled => signIn[t].canceled,
         \A o \in SignIns : signIn[o].at \in Through => signIn'[o].at \in Through /\ signIn'[o].id = signIn[o].id
  PROVE  PlacedWell(t)'
  <1>1. PlacedWell(t) /\ signIn[t] \in SignInRecords
    BY DEF SignInSafe, SignInTypes
  <1>2. \A o \in signIn[t].object : o \in Owners
    BY <1>1 DEF SignInRecords, Nobodys
  <1>3. \A o \in Owners, i \in Instances : Belongs(o, i) => Belongs(o, i)'
    BY DEF Belongs, Owners
  <1>4. (UnderWay(t)' = UnderWay(t)) /\ \A p : SignInAt(t, p)' = SignInAt(t, p)
    BY DEF UnderWay, SignInAt, Same
  <1>5. ~signIn[t].new /\ ~SignInAt(t, "out") => signIn[t].id \in Instances
    BY <1>1 DEF PlacedWell
  <1>6. SignInAt(t, "out") => signIn[t].new
    BY <1>1 DEF PlacedWell, NoSignIn
  <1>7. ~signIn[t].new => \A o \in signIn[t].object : Belongs(o, signIn[t].id)
    BY <1>1 DEF PlacedWell
  <1>8. (~signIn[t].new => \A o \in signIn[t].object : Belongs(o, signIn[t].id))'
    <2> SUFFICES ASSUME ~signIn'[t].new, NEW o \in signIn'[t].object
                 PROVE  Belongs(o, signIn[t].id)'
      OBVIOUS
    <2> DEFINE i == signIn[t].id
    <2>1. i \in Instances /\ o \in signIn[t].object /\ i' = i
      BY <1>5, <1>6 DEF Same
    <2>2. Belongs(o, i)
      BY <1>7, <2>1 DEF Same
    <2>3. (IF o = Founder THEN i = 1 ELSE signIn[o].id = i /\ signIn[o].at \in Through)'
      BY <1>2, <2>1, <2>2 DEF Belongs, Owners, Through
    <2> QED
      BY <2>3 DEF Belongs
  <1>9. (/\ SignInAt(t, "out") => signIn[t] = NoSignIn /\ loginFlow[t].at = "none"
         /\ signIn[t].at \in {"coding", "polling"} => kind = "device"
         /\ signIn[t].at \in Redirects => kind \in {"openai", "antigravity"}
         /\ \/ signIn[t].at \in Named
            \/ ~SignInAt(t, "out") /\ (~signIn[t].new \/ kind # "device")
            => signIn[t].id \in Instances
         /\ signIn[t].at \in {"coding", "polling"} /\ signIn[t].new => signIn[t].id = NoInstance)'
    BY <1>1, <1>4 DEF PlacedWell, Same, SignInAt, Named, Redirects, Instances, NoInstance, NoSignIn
  <1>10. (/\ signIn[t].bare => ~signIn[t].new
          /\ SignInAt(t, "coding") => ~signIn[t].bare /\ ~signIn[t].canceled
          /\ signIn[t].at \in {"reserving", "undoing"} => signIn[t].new
          /\ signIn[t].created => /\ signIn[t].new /\ signIn[t].at \in Reserved
                                  /\ signIn[t].id \in Instances
          /\ UnderWay(t) /\ signIn[t].new => signIn[t].object = {t}
          /\ ~UnderWay(t) => signIn[t].object = {}
          /\ loginFlow[t].at = "pending" =>
               signIn[t].at \notin {"out", "coding", "refused"} /\ ~signIn[t].bare)'
    BY <1>1, <1>4 DEF PlacedWell, Same, Reserved, Instances, SignInAt
  <1> QED
    BY <1>8, <1>9, <1>10 DEF PlacedWell

\* A creation's name is no instance's, and the missing id is neither.
LEMMA NamesDiffer == /\ PendingInstance \notin Instances /\ NoInstance \notin Instances
                     /\ NoInstance # PendingInstance
  BY SignInsAssumption DEF PendingInstance, Instances, NoInstance

\* The flow keeps while its own sign-in goes on and no creation begins.
LEMMA FlowCore ==
  ASSUME SignInSafe, NEW a \in activeFlow, kind' = kind, disturbed \subseteq disturbed',
         signIn'[a.of].new = signIn[a.of].new, signIn'[a.of].bare = signIn[a.of].bare,
         signIn[a.of].over => signIn'[a.of].over,
         signIn'[a.of].canceled => signIn[a.of].canceled,
         UnderWay(a.of)' = UnderWay(a.of), signIn'[a.of].at \notin {"out", "coding", "refused"},
         ~UnderWay(a.of) => signIn'[a.of].at = signIn[a.of].at,
         ~UnderWay(a.of) \/ ~signIn[a.of].new => signIn'[a.of].id = signIn[a.of].id,
         \A t \in SignIns \ {a.of} : UnderWay(t)' /\ signIn'[t].new => UnderWay(t) /\ signIn[t].new
  PROVE  FlowKept(a)'
  <1>1. FlowKept(a) /\ a.of \in SignIns
    BY DEF SignInSafe, FlowKept, Flows
  <1>2. FlowName(a.of)' = FlowName(a.of) \/ (UnderWay(a.of) /\ signIn[a.of].new)
    BY DEF FlowName
  <1>3. signIn[a.of].new => FlowName(a.of)' = FlowName(a.of)
    BY DEF FlowName, PendingInstance
  <1>4. Undisturbed(a.of)' => Undisturbed(a.of)
    BY DEF Undisturbed
  <1>5. a.status = "awaiting_user" => UnderWay(a.of)' /\ a.id = FlowName(a.of)'
    BY <1>1, <1>2, <1>3 DEF FlowKept
  <1>6. Undisturbed(a.of)' =>
         /\ a.status = "error" => SignInAt(a.of, "failed")' /\ a.id = FlowName(a.of)'
         /\ a.status = "complete" => SignInAt(a.of, "done")' /\ a.id = signIn'[a.of].id
    BY <1>1, <1>2, <1>3, <1>4 DEF FlowKept, SignInAt, UnderWay, AtRest
  <1>7. \A t \in SignIns : t # a.of /\ UnderWay(t)' /\ signIn'[t].new /\ signIn'[a.of].new =>
          {t, a.of} \subseteq disturbed'
    BY <1>1 DEF FlowKept
  <1> QED
    BY <1>1, <1>5, <1>6, <1>7 DEF FlowKept, Flows, PendingInstance, SignIns

\* A login flow that is not touched goes on to be told of its own sign-in.
LEMMA LoginCore ==
  ASSUME SignInSafe, NEW t \in SignIns, kind' = kind, disturbed \subseteq disturbed',
         loginFlow'[t] = loginFlow[t], signIn[t].over => signIn'[t].over,
         signIn[t].at \in {"done", "failed"} => signIn'[t].at = signIn[t].at,
         loginFlow[t].at = "pending" =>
           /\ signIn'[t].new = signIn[t].new
           /\ signIn'[t].id # PendingInstance
           /\ signIn'[t].id = signIn[t].id \/ (kind = "device" /\ signIn[t].id = NoInstance /\ signIn[t].new)
           /\ kind # "device" /\ Undisturbed(t)' /\ loginFlow[t].own =>
                \A r \in outcomes'[signIn[t].id] : r \in outcomes[signIn[t].id] \/ r.of = t
           /\ kind = "device" /\ Undisturbed(t)' /\ loginFlow[t].own =>
                \A a \in activeFlow' : a.of # t =>
                  /\ signIn[t].new => ~signIn'[a.of].new
                  /\ loginFlow[t].id = signIn[t].id => a.id # signIn[t].id
  PROVE  LoginKept(t)'
  <1> SUFFICES ASSUME loginFlow[t].own, Undisturbed(t)' PROVE LoginKept(t)'
    BY DEF LoginKept
  <1>1. Undisturbed(t) /\ LoginKept(t) /\ PlacedWell(t)
    BY DEF Undisturbed, SignInSafe
  <1>2. signIn[t] \in SignInRecords
    BY DEF SignInSafe, SignInTypes
  <1>3. /\ loginFlow[t].at = "complete" => SignInAt(t, "done")'
        /\ loginFlow[t].at = "error" => SignInAt(t, "failed")'
    BY <1>1 DEF LoginKept, SignInAt
  <1> QED
    BY <1>1, <1>3, NamesDiffer DEF LoginKept, PendingInstance

\* Two sign-ins of which one is under way and the other undisturbed share no object.
LEMMA Apart ==
  ASSUME SignInSafe, NEW s \in SignIns, NEW t \in SignIns, s # t, UnderWay(s), Undisturbed(t)
  PROVE  /\ signIn[t].id # NoInstance => signIn[s].id # signIn[t].id
         /\ \A o \in signIn[s].object : o \notin signIn[t].object
         /\ signIn[t].id \in Instances => \A o \in signIn[s].object : o \notin instances[signIn[t].id]
         /\ signIn[s].id \in Instances => \A o \in instances[signIn[s].id] : o \notin signIn[t].object
         /\ signIn[s].id \in Instances /\ signIn[t].id \in Instances =>
              \A o \in instances[signIn[s].id] : o \notin instances[signIn[t].id]
  <1>1. PlacedWell(s) /\ PlacedWell(t) /\ KeptWhole(t) /\ RegistryKept
    BY DEF SignInSafe
  <1>2. signIn[t].id # NoInstance => signIn[s].id # signIn[t].id
    BY <1>1 DEF KeptWhole
  <1>3. signIn[s].object \subseteq Owners /\ signIn[t].object \subseteq Owners /\ Founder \notin SignIns
        /\ instances \in [Instances -> Nobodys]
    BY DEF SignInSafe, SignInTypes, SignInRecords, Nobodys, Founder, SignIns
  <1>4. \A i \in Instances : instances[i] \subseteq Owners
    BY <1>3 DEF Nobodys
  <1> DEFINE Holds(u, o) == o = u \/ (Belongs(o, signIn[u].id) /\ signIn[u].id \in Instances)
  <1>5. \A o \in signIn[s].object : Holds(s, o)
    BY <1>1 DEF PlacedWell, UnderWay, AtRest, SignInAt
  <1>6. \A o \in signIn[t].object : Holds(t, o)
    BY <1>1 DEF PlacedWell, UnderWay, AtRest, SignInAt
  <1>7. \A i \in Instances : \A o \in instances[i] : Belongs(o, i)
    BY <1>1 DEF RegistryKept
  <1>8. \A o \in Owners, i \in Instances, j \in Instances : Belongs(o, i) /\ Belongs(o, j) => i = j
    BY DEF Belongs
  <1>9. \A u \in SignIns, i \in Instances : Belongs(u, i) => signIn[u].id = i
    BY <1>3 DEF Belongs
  <1>10. \A i \in Instances : i # NoInstance
    BY NamesDiffer
  <1>11. \A o : Holds(s, o) /\ Holds(t, o) /\ o \in Owners => FALSE
    BY <1>2, <1>8, <1>9, <1>10
  <1>12. ASSUME signIn[t].id \in Instances, NEW o \in Owners, Holds(s, o), Belongs(o, signIn[t].id) PROVE FALSE
    BY <1>2, <1>8, <1>9, <1>10, <1>12
  <1>13. ASSUME signIn[s].id \in Instances, NEW o \in Owners, Holds(t, o), Belongs(o, signIn[s].id) PROVE FALSE
    BY <1>2, <1>8, <1>9, <1>10, <1>13
  <1>14. \A o \in signIn[s].object : o \notin signIn[t].object
    BY <1>3, <1>5, <1>6, <1>11
  <1>15. signIn[t].id \in Instances => \A o \in signIn[s].object : o \notin instances[signIn[t].id]
    BY <1>3, <1>5, <1>7, <1>12
  <1>16. signIn[s].id \in Instances => \A o \in instances[signIn[s].id] : o \notin signIn[t].object
    BY <1>3, <1>6, <1>7, <1>13
  <1>17. signIn[s].id \in Instances /\ signIn[t].id \in Instances =>
              \A o \in instances[signIn[s].id] : o \notin instances[signIn[t].id]
    BY <1>2, <1>4, <1>7, <1>8, <1>10
  <1> QED
    BY <1>2, <1>14, <1>15, <1>16, <1>17

\* A step of a sign-in under way writes at its own instance and to its own objects.
LEMMA OthersKept ==
  ASSUME SignInSafe, NEW s \in SignIns, UnderWay(s), OthersSame(s), disturbed \subseteq disturbed',
         kind' = kind, deleting' = deleting,
         signIn'[s].id = signIn[s].id
           \/ \A t \in SignIns \ {s} : signIn[t].id = signIn'[s].id => signIn'[t].over,
         \A i \in Instances : i # signIn[s].id =>
           /\ instances'[i] = instances[i] /\ credentials'[i] = credentials[i]
           /\ i \in instanceRows => i \in instanceRows'
           /\ i \in instanceRows' => i \in instanceRows \/ instances[i] # {},
         \A o \in Owners : \/ carried'[o] = carried[o]
                           \/ o \in signIn[s].object
                           \/ signIn[s].id \in Instances /\ o \in instances[signIn[s].id]
  PROVE  \A t \in SignIns \ {s} : KeptWhole(t)'
  <1> SUFFICES ASSUME NEW t \in SignIns, t # s PROVE KeptWhole(t)'
    OBVIOUS
  <1>1. Same(t) /\ (Undisturbed(t)' => Undisturbed(t))
    BY DEF OthersSame, Same, Undisturbed
  <1>2. signIn[t].object \subseteq Owners /\ \A i \in Instances : instances[i] \subseteq Owners
    <2>1. signIn[t] \in SignInRecords /\ \A i \in Instances : instances[i] \in Nobodys
      BY DEF SignInSafe, SignInTypes
    <2>2. \A o \in Nobodys : o \subseteq Owners
      BY DEF Nobodys
    <2> QED
      BY <2>1, <2>2 DEF SignInRecords
  <1>3. Undisturbed(t)' => KeptWhole(t)
    BY DEF SignInSafe
  <1>4. Undisturbed(t)' => signIn[t].id \notin deleting'
    BY <1>1, <1>3 DEF KeptWhole
  <1>5. ASSUME Undisturbed(t)', NEW u \in SignIns \ {t}, signIn'[u].id = signIn[t].id,
               signIn[t].id # NoInstance
        PROVE  ~UnderWay(u)'
    <2>1. CASE u # s
      BY <1>1, <1>3, <1>5, <2>1 DEF KeptWhole, OthersSame, Same, UnderWay
    <2>2. CASE u = s
      BY <1>1, <1>3, <1>5, <2>2, Apart DEF KeptWhole, OthersSame, Same, UnderWay, Undisturbed
    <2> QED
      BY <2>1, <2>2
  <1>6. Undisturbed(t)' => /\ signIn[t].id \in Instances => signIn[t].id # signIn[s].id
                           /\ \A o \in signIn[t].object : carried'[o] = carried[o]
                           /\ signIn[t].id \in Instances => \A o \in instances[signIn[t].id] : carried'[o] = carried[o]
    BY <1>1, <1>2, Apart, NamesDiffer
  <1> QED
    BY <1>1, <1>4, <1>5, <1>6, KeptCore

NoneCanceled == \A t \in SignIns : signIn'[t].canceled => signIn[t].canceled

\* A step of one sign-in leaves the others where they are.
LEMMA OthersPlaced ==
  ASSUME SignInSafe, NEW s \in SignIns, OthersSame(s), NoneCanceled, kind' = kind, loginFlow' = loginFlow,
         signIn[s].at \in Through => signIn'[s].at \in Through /\ signIn'[s].id = signIn[s].id
  PROVE  \A t \in SignIns \ {s} : PlacedWell(t)'
  <1>1. \A o \in SignIns : signIn[o].at \in Through => signIn'[o].at \in Through /\ signIn'[o].id = signIn[o].id
    BY DEF OthersSame, Same
  <1> QED
    BY <1>1, PlacedCore DEF OthersSame, NoneCanceled

\* What a step of sign-in s that goes on, or ends, leaves of its record.
Onward(s) ==
  /\ signIn'[s].new = signIn[s].new /\ signIn'[s].bare = signIn[s].bare
  /\ signIn[s].over => signIn'[s].over
  /\ \/ signIn'[s].id = signIn[s].id
     \/ kind = "device" /\ signIn[s].id = NoInstance /\ signIn[s].new /\ signIn'[s].id \in Instances

\* The flow of another sign-in.
LEMMA OthersFlow ==
  ASSUME SignInSafe, NEW s \in SignIns, UnderWay(s), OthersSame(s), Onward(s), NoneCanceled,
         NEW a \in activeFlow, a.of # s, kind' = kind, disturbed \subseteq disturbed'
  PROVE  FlowKept(a)'
  <1>1. FlowKept(a) /\ a.of \in SignIns \ {s}
    BY DEF SignInSafe, FlowKept, Flows
  <1>2. Same(a.of)
    BY <1>1 DEF OthersSame
  <1>3. \A t \in SignIns \ {a.of} : UnderWay(t)' /\ signIn'[t].new => UnderWay(t) /\ signIn[t].new
    BY DEF OthersSame, Same, Onward, UnderWay
  <1>4. UnderWay(a.of)' = UnderWay(a.of)
    BY <1>2 DEF UnderWay, Same
  <1>5. signIn'[a.of].at \notin {"out", "coding", "refused"}
    BY <1>1, <1>2 DEF FlowKept, Same
  <1> QED
    BY <1>1, <1>2, <1>3, <1>4, <1>5, FlowCore DEF Same, NoneCanceled

\* The flow of a sign-in that goes on.
LEMMA OwnFlow ==
  ASSUME SignInSafe, NEW s \in SignIns, UnderWay(s), UnderWay(s)', OthersSame(s), Onward(s), NoneCanceled,
         signIn'[s].at # "coding",
         NEW a \in activeFlow, a.of = s, kind' = kind, disturbed \subseteq disturbed'
  PROVE  FlowKept(a)'
  <1>1. \A t \in SignIns \ {a.of} : UnderWay(t)' /\ signIn'[t].new => UnderWay(t) /\ signIn[t].new
    BY DEF OthersSame, Same, UnderWay
  <1>2. signIn'[s].at \notin {"out", "coding", "refused"}
    BY DEF UnderWay, AtRest
  <1>3. ~signIn[s].new => signIn'[s].id = signIn[s].id
    BY DEF Onward
  <1> QED
    BY <1>1, <1>2, <1>3, FlowCore DEF Onward, NoneCanceled

\* The flow of whoever has the name of a sign-in that ends.
LEMMA MarkedFlow ==
  ASSUME SignInSafe, NEW s \in SignIns, UnderWay(s), OthersSame(s), Onward(s), NoneCanceled,
         signIn'[s].id = signIn[s].id, kind' = kind, disturbed \subseteq disturbed',
         NEW status \in {"error", "complete"},
         signIn'[s].at = IF status = "error" THEN "failed" ELSE "done",
         ~signIn[s].bare, kind = "device", status = "complete" => signIn[s].id \in Instances,
         NEW b \in Marked(s, status)
  PROVE  FlowKept(b)'
  <1>1. PICK a \in activeFlow :
          b = IF a.id # FlowName(s) THEN a
              ELSE [a EXCEPT !.status = status,
                             !.id = IF status = "complete" THEN signIn[s].id ELSE a.id]
    BY DEF Marked
  <1>2. FlowKept(a) /\ a \in Flows /\ a.of \in SignIns
    BY DEF SignInSafe, FlowKept, Flows
  <1>3. PlacedWell(s) /\ PlacedWell(a.of)
    BY <1>2 DEF SignInSafe
  <1>4. Undisturbed(a.of)' => Undisturbed(a.of)
    BY <1>2 DEF Undisturbed, OthersSame, Same, Onward
  <1>5. CASE a.of # s /\ a.id # FlowName(s)
    BY <1>1, <1>5, OthersFlow
  <1>6. ~UnderWay(s)' /\ (Undisturbed(s) => ~SignInAt(s, "failed") /\ ~SignInAt(s, "done"))
    BY DEF UnderWay, AtRest, SignInAt
  <1>7. \A t \in SignIns : t # a.of /\ UnderWay(t)' /\ signIn'[t].new /\ signIn'[a.of].new =>
          {t, a.of} \subseteq disturbed'
    BY <1>2, <1>6 DEF FlowKept, OthersSame, Same, UnderWay, Onward
  <1>8. CASE a.of = s /\ a.id # FlowName(s)
    <2>1. b = a /\ a.status # "awaiting_user" /\ ~Undisturbed(s)
      BY <1>1, <1>2, <1>6, <1>8 DEF FlowKept, Flows
    <2>2. ~Undisturbed(a.of)'
      BY <1>4, <1>8, <2>1
    <2> QED
      BY <1>2, <1>7, <1>8, <2>1, <2>2 DEF FlowKept, Onward, NoneCanceled, Flows, PendingInstance, SignIns
  <1>9. CASE a.id = FlowName(s)
    <2>1. b.of = a.of /\ b.status = status /\ b.id = (IF status = "complete" THEN signIn[s].id ELSE a.id)
          /\ b \in Flows
      <3> DEFINE i == IF status = "complete" THEN signIn[s].id ELSE a.id
      <3>1. i \in 1..PendingInstance
        BY <1>2, SignInsAssumption DEF Flows, Instances, PendingInstance
      <3> HIDE DEF i
      <3>2. b = [a EXCEPT !.status = status, !.id = i]
        BY <1>1, <1>9 DEF i
      <3>3. a \in [of : SignIns, id : 1..PendingInstance, status : {"awaiting_user", "error", "complete"}]
        BY <1>2 DEF Flows
      <3>4. b.of = a.of /\ b.status = status /\ b.id = i /\ b \in Flows
        BY <3>1, <3>2, <3>3 DEF Flows
      <3> QED
        BY <3>4 DEF i
    <2>2. b.id = PendingInstance => signIn[a.of].new
      BY <1>2, <2>1, NamesDiffer DEF FlowKept
    <2>3. CASE a.of = s
      <3>1. SignInAt(s, IF status = "error" THEN "failed" ELSE "done")'
        BY DEF SignInAt
      <3>2. status = "error" => a.id = FlowName(s)'
        BY <1>9 DEF FlowName, Onward, PendingInstance
      <3> QED
        BY <1>2, <1>7, <2>1, <2>2, <2>3, <3>1, <3>2 DEF FlowKept, Onward, NoneCanceled, Flows, PendingInstance, SignIns
    <2>4. CASE a.of # s
      <3>1. ~Undisturbed(a.of)
        <4> SUFFICES ASSUME Undisturbed(a.of) PROVE FALSE
          OBVIOUS
        <4>1. KeptWhole(a.of)
          BY <1>2 DEF SignInSafe
        <4>2. signIn[a.of].id # NoInstance => signIn[s].id # signIn[a.of].id
          BY <1>2, <2>4, Apart
        <4>3. a.id = FlowName(a.of) \/ (a.id = signIn[a.of].id /\ SignInAt(a.of, "done"))
          BY <1>2 DEF FlowKept, Flows
        <4>4. SignInAt(a.of, "done") => signIn[a.of].id \in Instances
          BY <1>3 DEF PlacedWell, SignInAt, Named
        <4>5. UnderWay(s) /\ signIn[s].new /\ signIn[a.of].new => a.of \in disturbed
          BY <1>2, <2>4 DEF FlowKept
        <4>6. \A u \in {s, a.of} : ~signIn[u].new /\ ~SignInAt(u, "out") => signIn[u].id \in Instances
          BY <1>3 DEF PlacedWell
        <4>7. ~SignInAt(s, "out") /\ ~SignInAt(a.of, "out")
          BY <1>2 DEF FlowKept, UnderWay, AtRest, SignInAt
        <4> QED
          BY <1>9, <4>2, <4>3, <4>4, <4>5, <4>6, <4>7, NamesDiffer DEF FlowName, Undisturbed
      <3>2. ~Undisturbed(a.of)'
        BY <1>4, <3>1
      <3>3. Same(a.of)
        BY <1>2, <2>4 DEF OthersSame
      <3> QED
        BY <1>2, <1>7, <2>1, <2>2, <3>2, <3>3 DEF FlowKept, Same, NoneCanceled, Flows, PendingInstance, SignIns
    <2> QED
      BY <2>3, <2>4
  <1> QED
    BY <1>5, <1>8, <1>9

\* What clients were told, and will be told, while sign-in s goes on or ends.
LEMMA LoginsKept ==
  ASSUME SignInSafe, NEW s \in SignIns, UnderWay(s), OthersSame(s), Onward(s), loginFlow' = loginFlow,
         kind' = kind, disturbed \subseteq disturbed', signIn' \in [SignIns -> SignInRecords],
         \A i \in Instances : \A r \in outcomes'[i] : r \in outcomes[i] \/ (r.of = s /\ i = signIn[s].id),
         \A b \in activeFlow' :
           \/ b \in activeFlow
           \/ \E a \in activeFlow : b.of = a.of /\ a.id = FlowName(s) /\ b.id \in {a.id, signIn[s].id}
  PROVE  \A t \in SignIns : LoginKept(t)'
  <1> SUFFICES ASSUME NEW t \in SignIns PROVE LoginKept(t)'
    OBVIOUS
  <1>1. PlacedWell(t) /\ LoginKept(t) /\ PlacedWell(s) /\ signIn[t] \in SignInRecords /\ signIn'[t] \in SignInRecords
    BY DEF SignInSafe, SignInTypes
  <1>2. /\ signIn[t].over => signIn'[t].over
        /\ signIn[t].at \in {"done", "failed"} => signIn'[t].at = signIn[t].at
        /\ signIn'[t].new = signIn[t].new
        /\ \/ signIn'[t].id = signIn[t].id
           \/ kind = "device" /\ signIn[t].id = NoInstance /\ signIn[t].new
    BY DEF OthersSame, Same, Onward, UnderWay, AtRest
  <1>3. signIn'[t].id # PendingInstance /\ signIn[t].id # PendingInstance
    BY <1>1, NamesDiffer DEF SignInRecords, PendingInstance
  <1>4. ASSUME loginFlow[t].at = "pending", kind # "device", Undisturbed(t)', loginFlow[t].own,
               NEW r \in outcomes'[signIn[t].id]
        PROVE  r \in outcomes[signIn[t].id] \/ r.of = t
    <2>1. signIn[t].id \in Instances
      BY <1>1, <1>4 DEF PlacedWell, SignInAt
    <2>2. Undisturbed(t)
      BY <1>2, <1>4 DEF Undisturbed
    <2>3. s # t => signIn[s].id # signIn[t].id
      BY <2>1, <2>2, Apart, NamesDiffer
    <2> QED
      BY <1>4, <2>1, <2>3
  <1>5. ASSUME loginFlow[t].at = "pending", kind = "device", Undisturbed(t)', loginFlow[t].own,
               NEW b \in activeFlow', b.of # t
        PROVE  /\ signIn[t].new => ~signIn'[b.of].new
               /\ loginFlow[t].id = signIn[t].id => b.id # signIn[t].id
    <2>1. Undisturbed(t)
      BY <1>2, <1>5 DEF Undisturbed
    <2>2. PICK a \in activeFlow : \/ b = a
                                  \/ b.of = a.of /\ a.id = FlowName(s) /\ b.id \in {a.id, signIn[s].id}
      BY <1>5
    <2>3. FlowKept(a) /\ a.of \in SignIns /\ a.of = b.of
      BY <2>2 DEF SignInSafe, FlowKept, Flows
    <2>4. signIn'[b.of].new = signIn[b.of].new
      BY <2>3 DEF OthersSame, Same, Onward
    <2>5. /\ signIn[t].new => ~signIn[a.of].new
          /\ loginFlow[t].id = signIn[t].id => a.id # signIn[t].id
      BY <1>1, <1>5, <2>1, <2>3 DEF LoginKept
    <2>6. loginFlow[t].id = signIn[t].id => signIn[t].id # NoInstance
      BY <1>1, <1>3, <1>5, <2>1 DEF LoginKept
    <2>7. s # t /\ signIn[t].id # NoInstance => signIn[s].id # signIn[t].id
      BY <2>1, Apart
    <2>8. ASSUME s = t, a.id = FlowName(s), loginFlow[t].id = signIn[t].id PROVE FALSE
      <3>1. CASE signIn[t].new
        BY <2>3, <2>5, <2>8, <3>1 DEF FlowKept, FlowName
      <3>2. CASE ~signIn[t].new
        BY <2>5, <2>8, <3>2 DEF FlowName
      <3> QED
        BY <3>1, <3>2
    <2> QED
      BY <2>2, <2>3, <2>4, <2>5, <2>6, <2>7, <2>8
  <1> QED
    BY <1>2, <1>3, <1>4, <1>5, LoginCore

\* Outcomes that are there to be polled stay true while their sign-ins are over.
LEMMA ResultsKept ==
  ASSUME SignInSafe, NEW s \in SignIns, UnderWay(s), OthersSame(s),
         \A i \in Instances : \A r \in outcomes'[i] :
           \/ r \in outcomes[i]
           \/ r \in Results /\ r.of = s /\ signIn'[s].at = (IF r.error THEN "failed" ELSE "done")
  PROVE  \A i \in Instances : \A r \in outcomes'[i] : ResultKept(r)'
  <1> SUFFICES ASSUME NEW i \in Instances, NEW r \in outcomes'[i] PROVE ResultKept(r)'
    OBVIOUS
  <1>1. CASE r \in outcomes[i]
    <2>1. ResultKept(r) /\ r.of \in SignIns
      BY <1>1 DEF SignInSafe, ResultKept, Results
    <2>2. r.of # s
      BY <2>1 DEF ResultKept, UnderWay, AtRest, SignInAt
    <2> QED
      BY <2>1, <2>2 DEF ResultKept, OthersSame, Same, SignInAt, Results, SignIns
  <1>2. CASE r \notin outcomes[i]
    BY <1>2 DEF ResultKept, SignInAt, Results, SignIns
  <1> QED
    BY <1>1, <1>2

\* What a step of sign-in s does to the flow of device codes and to the outcomes.
FlowGoesOn(s) ==
  \/ /\ activeFlow' = activeFlow
     /\ \/ UnderWay(s)' /\ signIn'[s].at # "coding"
        \/ \A a \in activeFlow : a.of # s
  \/ \E status \in {"error", "complete"} :
       /\ activeFlow' = Marked(s, status) /\ signIn'[s].id = signIn[s].id
       /\ signIn'[s].at = (IF status = "error" THEN "failed" ELSE "done")
       /\ status = "complete" => signIn[s].id \in Instances
OutcomesGoOn(s) ==
  \/ outcomes' = outcomes
  \/ /\ kind \in {"openai", "antigravity"} /\ signIn[s].id \in Instances
     /\ \E e \in BOOLEAN : /\ outcomes' = [outcomes EXCEPT ![signIn[s].id] = {[of |-> s, error |-> e]}]
                           /\ signIn'[s].at = (IF e THEN "failed" ELSE "done")

\* There is at most one flow, and it stays true of its sign-in.
LEMMA FlowsKept ==
  ASSUME SignInSafe, NEW s \in SignIns, UnderWay(s), OthersSame(s), Onward(s), NoneCanceled,
         FlowGoesOn(s), kind' = kind, disturbed \subseteq disturbed'
  PROVE  /\ \A b \in activeFlow' : FlowKept(b)'
         /\ \A a, b \in activeFlow' : a = b
         /\ \A b \in activeFlow' :
              \/ b \in activeFlow
              \/ \E a \in activeFlow : b.of = a.of /\ a.id = FlowName(s) /\ b.id \in {a.id, signIn[s].id}
  <1>1. \A a, b \in activeFlow : a = b
    BY DEF SignInSafe, SignInTypes
  <1>2. \A a \in activeFlow : a \in Flows /\ kind = "device" /\ (a.of = s => ~signIn[s].bare)
    BY DEF SignInSafe, FlowKept
  <1>3. CASE activeFlow' = activeFlow /\ ((UnderWay(s)' /\ signIn'[s].at # "coding") \/ \A a \in activeFlow : a.of # s)
    BY <1>1, <1>3, OthersFlow, OwnFlow
  <1>4. ASSUME NEW status \in {"error", "complete"},
               activeFlow' = Marked(s, status), signIn'[s].id = signIn[s].id,
               signIn'[s].at = (IF status = "error" THEN "failed" ELSE "done"),
               status = "complete" => signIn[s].id \in Instances
        PROVE  /\ \A b \in activeFlow' : FlowKept(b)'
               /\ \A a, b \in activeFlow' : a = b
               /\ \A b \in activeFlow' :
                    \/ b \in activeFlow
                    \/ \E a \in activeFlow : b.of = a.of /\ a.id = FlowName(s) /\ b.id \in {a.id, signIn[s].id}
    <2>1. CASE kind # "device" \/ signIn[s].bare
      <3>1. activeFlow' = activeFlow /\ \A a \in activeFlow : a.of # s
        BY <1>2, <1>4, <2>1 DEF Marked
      <3> QED
        BY <1>1, <3>1, OthersFlow
    <2>2. CASE kind = "device" /\ ~signIn[s].bare
      <3>1. \A b \in activeFlow' : FlowKept(b)'
        BY <1>4, <2>2, MarkedFlow
      <3>2. \A a, b \in activeFlow' : a = b
        BY <1>1, <1>4, <2>2 DEF Marked
      <3>3. ASSUME NEW b \in activeFlow'
            PROVE  \/ b \in activeFlow
                   \/ \E a \in activeFlow : b.of = a.of /\ a.id = FlowName(s) /\ b.id \in {a.id, signIn[s].id}
        <4>1. PICK a \in activeFlow :
                b = IF a.id # FlowName(s) THEN a
                    ELSE [a EXCEPT !.status = status,
                                   !.id = IF status = "complete" THEN signIn[s].id ELSE a.id]
          BY <1>4, <2>2, <3>3 DEF Marked
        <4> DEFINE i == IF status = "complete" THEN signIn[s].id ELSE a.id
        <4>2. a.id = FlowName(s) => b = [a EXCEPT !.status = status, !.id = i]
          BY <4>1
        <4>3. i \in {a.id, signIn[s].id}
          OBVIOUS
        <4> HIDE DEF i
        <4>4. a \in [of : SignIns, id : 1..PendingInstance, status : {"awaiting_user", "error", "complete"}]
          BY <1>2 DEF Flows
        <4>5. a.id = FlowName(s) => b.of = a.of /\ b.id = i
          BY <4>2, <4>4
        <4> QED
          BY <4>1, <4>3, <4>5
      <3> QED
        BY <3>1, <3>2, <3>3
    <2> QED
      BY <2>1, <2>2
  <1> QED
    BY <1>3, <1>4 DEF FlowGoesOn

StepFrame == /\ kind' = kind /\ loginFlow' = loginFlow /\ deleting' = deleting /\ visits' = visits
             /\ disturbed' = disturbed \cup Crossing'

\* A step of a sign-in that is under way.
LEMMA StepKeeps ==
  ASSUME SignInSafe, NEW s \in SignIns, UnderWay(s), OthersSame(s), Onward(s), NoneCanceled,
         StepFrame, FlowGoesOn(s), OutcomesGoOn(s),
         signIn' \in [SignIns -> SignInRecords], instanceRows' \subseteq Instances,
         credentials' \in [Instances -> Nobodys], instances' \in [Instances -> Nobodys],
         carried' \in [Owners -> Nobodys],
         signIn'[s].id = signIn[s].id
           \/ \A t \in SignIns \ {s} : signIn[t].id = signIn'[s].id => signIn'[t].over,
         \A i \in Instances : i # signIn[s].id =>
           /\ instances'[i] = instances[i] /\ credentials'[i] = credentials[i]
           /\ i \in instanceRows => i \in instanceRows'
           /\ i \in instanceRows' => i \in instanceRows \/ instances[i] # {},
         \A o \in Owners : \/ carried'[o] = carried[o]
                           \/ o \in signIn[s].object
                           \/ signIn[s].id \in Instances /\ o \in instances[signIn[s].id],
         signIn[s].at \in Through => signIn'[s].at \in Through /\ signIn'[s].id = signIn[s].id,
         \A i \in Instances : \A o \in instances'[i] : o \in instances[i] \/ Belongs(o, i)',
         PlacedWell(s)', KeptWhole(s)'
  PROVE  SignInSafe'
  <1>1. disturbed \subseteq disturbed' /\ disturbed' \subseteq SignIns /\ kind' = kind
    BY DEF StepFrame, SignInSafe, SignInTypes, Crossing
  <1>2. \A t \in SignIns : PlacedWell(t)'
    BY OthersPlaced DEF StepFrame
  <1>3. \A t \in SignIns : KeptWhole(t)'
    BY <1>1, OthersKept DEF StepFrame
  <1>4. /\ \A b \in activeFlow' : FlowKept(b)'
        /\ \A a, b \in activeFlow' : a = b
        /\ \A b \in activeFlow' :
             \/ b \in activeFlow
             \/ \E a \in activeFlow : b.of = a.of /\ a.id = FlowName(s) /\ b.id \in {a.id, signIn[s].id}
    BY <1>1, FlowsKept
  <1> DEFINE Good ==
        /\ outcomes' \in [Instances -> SUBSET Results]
        /\ \A i \in Instances : \A r, q \in outcomes'[i] : r = q
        /\ kind \notin {"openai", "antigravity"} => \A i \in Instances : outcomes'[i] = {}
        /\ \A i \in Instances : \A r \in outcomes'[i] :
             \/ r \in outcomes[i]
             \/ /\ r \in Results /\ r.of = s /\ i = signIn[s].id
                /\ signIn'[s].at = (IF r.error THEN "failed" ELSE "done")
  <1>5. Good
    <2>1. /\ outcomes \in [Instances -> SUBSET Results]
          /\ \A i \in Instances : \A r, q \in outcomes[i] : r = q
          /\ kind \notin {"openai", "antigravity"} => \A i \in Instances : outcomes[i] = {}
      BY DEF SignInSafe, SignInTypes
    <2>2. CASE outcomes' = outcomes
      BY <2>1, <2>2
    <2>3. ASSUME kind \in {"openai", "antigravity"}, signIn[s].id \in Instances, NEW e \in BOOLEAN,
                 outcomes' = [outcomes EXCEPT ![signIn[s].id] = {[of |-> s, error |-> e]}],
                 signIn'[s].at = (IF e THEN "failed" ELSE "done")
          PROVE  Good
      <3> DEFINE q == [of |-> s, error |-> e]
      <3>1. q \in Results /\ q.of = s /\ q.error = e
        BY DEF Results
      <3> HIDE DEF q
      <3>2. outcomes' = [outcomes EXCEPT ![signIn[s].id] = {q}]
        BY <2>3 DEF q
      <3> QED
        BY <2>1, <2>3, <3>1, <3>2
    <2> QED
      BY <2>2, <2>3 DEF OutcomesGoOn
  <1>6. \A t \in SignIns : LoginKept(t)'
    BY <1>1, <1>4, <1>5, LoginsKept DEF StepFrame
  <1>7. \A i \in Instances : \A r \in outcomes'[i] : ResultKept(r)'
    BY <1>5, ResultsKept
  <1>8. RegistryKept'
    <2>1. \A o \in SignIns : signIn[o].at \in Through => signIn'[o].at \in Through /\ signIn'[o].id = signIn[o].id
      BY DEF OthersSame, Same
    <2>2. \A o \in Owners, i \in Instances : Belongs(o, i) => Belongs(o, i)'
      BY <2>1 DEF Belongs, Owners
    <2>3. \A i \in Instances : \A o \in instances[i] : Belongs(o, i) /\ o \in Owners
      <3>1. \A i \in Instances : instances[i] \in Nobodys
        BY DEF SignInSafe, SignInTypes
      <3> QED
        BY <3>1 DEF SignInSafe, RegistryKept, Nobodys
    <2>4. \A i \in Instances : \A o \in instances'[i] : Belongs(o, i)'
      BY <2>2, <2>3
    <2> QED
      BY <2>4 DEF RegistryKept, Instances
  <1>9. SignInTypes'
    <2>1. kind' \in SignInKinds /\ deleting' \subseteq Instances /\ visits' \in 0..MaxVisits
          /\ loginFlow' \in [SignIns -> [at : Told, id : 0..PendingInstance, own : BOOLEAN]]
      BY DEF SignInSafe, SignInTypes, StepFrame
    <2> QED
      BY <1>1, <1>4, <1>5, <2>1 DEF SignInTypes, SignIns, Instances, SignInRecords, Owners, Results,
         SignInKinds, Nobodys, Founder, SignInPlaces, AtRest, NoInstance, Told, PendingInstance
  <1> QED
    BY <1>2, <1>3, <1>4, <1>6, <1>7, <1>8, <1>9 DEF SignInSafe, SignIns, Instances

\* One field of a record.
LEMMA RecordAt ==
  ASSUME NEW r \in SignInRecords, NEW v \in SignInPlaces
  PROVE  /\ [r EXCEPT !.at = v] \in SignInRecords /\ [r EXCEPT !.at = v].at = v
         /\ [r EXCEPT !.at = v].id = r.id /\ [r EXCEPT !.at = v].new = r.new
         /\ [r EXCEPT !.at = v].bare = r.bare /\ [r EXCEPT !.at = v].object = r.object
         /\ [r EXCEPT !.at = v].created = r.created /\ [r EXCEPT !.at = v].canceled = r.canceled
         /\ [r EXCEPT !.at = v].existed = r.existed /\ [r EXCEPT !.at = v].lost = r.lost
         /\ [r EXCEPT !.at = v].over = r.over
  BY DEF SignInRecords

LEMMA RecordId ==
  ASSUME NEW r \in SignInRecords, NEW v \in Instances \cup {NoInstance}
  PROVE  /\ [r EXCEPT !.id = v] \in SignInRecords /\ [r EXCEPT !.id = v].id = v
         /\ [r EXCEPT !.id = v].at = r.at /\ [r EXCEPT !.id = v].new = r.new
         /\ [r EXCEPT !.id = v].bare = r.bare /\ [r EXCEPT !.id = v].object = r.object
         /\ [r EXCEPT !.id = v].created = r.created /\ [r EXCEPT !.id = v].canceled = r.canceled
         /\ [r EXCEPT !.id = v].existed = r.existed /\ [r EXCEPT !.id = v].lost = r.lost
         /\ [r EXCEPT !.id = v].over = r.over
  BY DEF SignInRecords

LEMMA RecordNew ==
  ASSUME NEW r \in SignInRecords, NEW v \in BOOLEAN
  PROVE  /\ [r EXCEPT !.new = v] \in SignInRecords /\ [r EXCEPT !.new = v].new = v
         /\ [r EXCEPT !.new = v].at = r.at /\ [r EXCEPT !.new = v].id = r.id
         /\ [r EXCEPT !.new = v].bare = r.bare /\ [r EXCEPT !.new = v].object = r.object
         /\ [r EXCEPT !.new = v].created = r.created /\ [r EXCEPT !.new = v].canceled = r.canceled
         /\ [r EXCEPT !.new = v].existed = r.existed /\ [r EXCEPT !.new = v].lost = r.lost
         /\ [r EXCEPT !.new = v].over = r.over
  BY DEF SignInRecords

LEMMA RecordBare ==
  ASSUME NEW r \in SignInRecords, NEW v \in BOOLEAN
  PROVE  /\ [r EXCEPT !.bare = v] \in SignInRecords /\ [r EXCEPT !.bare = v].bare = v
         /\ [r EXCEPT !.bare = v].at = r.at /\ [r EXCEPT !.bare = v].id = r.id
         /\ [r EXCEPT !.bare = v].new = r.new /\ [r EXCEPT !.bare = v].object = r.object
         /\ [r EXCEPT !.bare = v].created = r.created /\ [r EXCEPT !.bare = v].canceled = r.canceled
         /\ [r EXCEPT !.bare = v].existed = r.existed /\ [r EXCEPT !.bare = v].lost = r.lost
         /\ [r EXCEPT !.bare = v].over = r.over
  BY DEF SignInRecords

LEMMA RecordObject ==
  ASSUME NEW r \in SignInRecords, NEW v \in Nobodys
  PROVE  /\ [r EXCEPT !.object = v] \in SignInRecords /\ [r EXCEPT !.object = v].object = v
         /\ [r EXCEPT !.object = v].at = r.at /\ [r EXCEPT !.object = v].id = r.id
         /\ [r EXCEPT !.object = v].new = r.new /\ [r EXCEPT !.object = v].bare = r.bare
         /\ [r EXCEPT !.object = v].created = r.created /\ [r EXCEPT !.object = v].canceled = r.canceled
         /\ [r EXCEPT !.object = v].existed = r.existed /\ [r EXCEPT !.object = v].lost = r.lost
         /\ [r EXCEPT !.object = v].over = r.over
  BY DEF SignInRecords

LEMMA RecordCreated ==
  ASSUME NEW r \in SignInRecords, NEW v \in BOOLEAN
  PROVE  /\ [r EXCEPT !.created = v] \in SignInRecords /\ [r EXCEPT !.created = v].created = v
         /\ [r EXCEPT !.created = v].at = r.at /\ [r EXCEPT !.created = v].id = r.id
         /\ [r EXCEPT !.created = v].new = r.new /\ [r EXCEPT !.created = v].bare = r.bare
         /\ [r EXCEPT !.created = v].object = r.object /\ [r EXCEPT !.created = v].canceled = r.canceled
         /\ [r EXCEPT !.created = v].existed = r.existed /\ [r EXCEPT !.created = v].lost = r.lost
         /\ [r EXCEPT !.created = v].over = r.over
  BY DEF SignInRecords

LEMMA RecordCanceled ==
  ASSUME NEW r \in SignInRecords, NEW v \in BOOLEAN
  PROVE  /\ [r EXCEPT !.canceled = v] \in SignInRecords /\ [r EXCEPT !.canceled = v].canceled = v
         /\ [r EXCEPT !.canceled = v].at = r.at /\ [r EXCEPT !.canceled = v].id = r.id
         /\ [r EXCEPT !.canceled = v].new = r.new /\ [r EXCEPT !.canceled = v].bare = r.bare
         /\ [r EXCEPT !.canceled = v].object = r.object /\ [r EXCEPT !.canceled = v].created = r.created
         /\ [r EXCEPT !.canceled = v].existed = r.existed /\ [r EXCEPT !.canceled = v].lost = r.lost
         /\ [r EXCEPT !.canceled = v].over = r.over
  BY DEF SignInRecords

LEMMA RecordExisted ==
  ASSUME NEW r \in SignInRecords, NEW v \in BOOLEAN
  PROVE  /\ [r EXCEPT !.existed = v] \in SignInRecords /\ [r EXCEPT !.existed = v].existed = v
         /\ [r EXCEPT !.existed = v].at = r.at /\ [r EXCEPT !.existed = v].id = r.id
         /\ [r EXCEPT !.existed = v].new = r.new /\ [r EXCEPT !.existed = v].bare = r.bare
         /\ [r EXCEPT !.existed = v].object = r.object /\ [r EXCEPT !.existed = v].created = r.created
         /\ [r EXCEPT !.existed = v].canceled = r.canceled /\ [r EXCEPT !.existed = v].lost = r.lost
         /\ [r EXCEPT !.existed = v].over = r.over
  BY DEF SignInRecords

LEMMA RecordLost ==
  ASSUME NEW r \in SignInRecords, NEW v \in BOOLEAN
  PROVE  /\ [r EXCEPT !.lost = v] \in SignInRecords /\ [r EXCEPT !.lost = v].lost = v
         /\ [r EXCEPT !.lost = v].at = r.at /\ [r EXCEPT !.lost = v].id = r.id
         /\ [r EXCEPT !.lost = v].new = r.new /\ [r EXCEPT !.lost = v].bare = r.bare
         /\ [r EXCEPT !.lost = v].object = r.object /\ [r EXCEPT !.lost = v].created = r.created
         /\ [r EXCEPT !.lost = v].canceled = r.canceled /\ [r EXCEPT !.lost = v].existed = r.existed
         /\ [r EXCEPT !.lost = v].over = r.over
  BY DEF SignInRecords

LEMMA RecordOver ==
  ASSUME NEW r \in SignInRecords, NEW v \in BOOLEAN
  PROVE  /\ [r EXCEPT !.over = v] \in SignInRecords /\ [r EXCEPT !.over = v].over = v
         /\ [r EXCEPT !.over = v].at = r.at /\ [r EXCEPT !.over = v].id = r.id
         /\ [r EXCEPT !.over = v].new = r.new /\ [r EXCEPT !.over = v].bare = r.bare
         /\ [r EXCEPT !.over = v].object = r.object /\ [r EXCEPT !.over = v].created = r.created
         /\ [r EXCEPT !.over = v].canceled = r.canceled /\ [r EXCEPT !.over = v].existed = r.existed
         /\ [r EXCEPT !.over = v].lost = r.lost
  BY DEF SignInRecords

\* Others' records stay.
LEMMA OneRecord ==
  ASSUME signIn \in [SignIns -> SignInRecords], NEW s \in SignIns, NEW r \in SignInRecords,
         signIn' = [signIn EXCEPT ![s] = r], r.canceled => signIn[s].canceled
  PROVE  /\ signIn' \in [SignIns -> SignInRecords] /\ signIn'[s] = r
         /\ OthersSame(s) /\ NoneCanceled
  <1>1. signIn' \in [SignIns -> SignInRecords] /\ signIn'[s] = r /\ \A t \in SignIns \ {s} : signIn'[t] = signIn[t]
    OBVIOUS
  <1> QED
    BY <1>1 DEF OthersSame, Same, NoneCanceled

\* A sign-in that moves on keeps the rest of its record.
LEMMA Moved ==
  ASSUME signIn \in [SignIns -> SignInRecords], NEW s \in SignIns, NEW p \in SignInPlaces, MoveTo(s, p)
  PROVE  /\ signIn' \in [SignIns -> SignInRecords] /\ OthersSame(s) /\ NoneCanceled
         /\ signIn'[s].at = p /\ signIn'[s].id = signIn[s].id /\ signIn'[s].new = signIn[s].new
         /\ signIn'[s].bare = signIn[s].bare /\ signIn'[s].object = signIn[s].object
         /\ signIn'[s].created = signIn[s].created /\ signIn'[s].existed = signIn[s].existed
         /\ signIn'[s].lost = signIn[s].lost /\ signIn'[s].over = signIn[s].over
  <1> DEFINE r == [signIn[s] EXCEPT !.at = p]
  <1>1. signIn[s] \in SignInRecords
    OBVIOUS
  <1>2. /\ r \in SignInRecords /\ r.at = p /\ r.id = signIn[s].id /\ r.new = signIn[s].new
        /\ r.bare = signIn[s].bare /\ r.object = signIn[s].object /\ r.created = signIn[s].created
        /\ r.existed = signIn[s].existed /\ r.lost = signIn[s].lost /\ r.over = signIn[s].over
        /\ r.canceled = signIn[s].canceled
    BY <1>1, RecordAt
  <1>3. signIn' = [signIn EXCEPT ![s] = r]
    BY DEF MoveTo
  <1> HIDE DEF r
  <1>4. signIn' \in [SignIns -> SignInRecords] /\ signIn'[s] = r /\ OthersSame(s) /\ NoneCanceled
    BY <1>2, <1>3, OneRecord
  <1> QED
    BY <1>2, <1>4

\* A sign-in that ends lets go of its object and keeps the rest of its record.
LEMMA EndedWell ==
  ASSUME signIn \in [SignIns -> SignInRecords], NEW s \in SignIns, NEW p \in SignInPlaces, Ended(s, p)
  PROVE  /\ signIn' \in [SignIns -> SignInRecords] /\ OthersSame(s) /\ NoneCanceled
         /\ signIn'[s].at = p /\ signIn'[s].id = signIn[s].id /\ signIn'[s].new = signIn[s].new
         /\ signIn'[s].bare = signIn[s].bare /\ signIn'[s].object = {}
         /\ signIn'[s].created = signIn[s].created /\ signIn'[s].existed = signIn[s].existed
         /\ signIn'[s].lost = signIn[s].lost /\ signIn'[s].over = signIn[s].over
  <1> DEFINE q == [signIn[s] EXCEPT !.at = p]
             r == [q EXCEPT !.object = {}]
             e == [r EXCEPT !.canceled = FALSE]
  <1>1. signIn[s] \in SignInRecords /\ {} \in Nobodys
    BY DEF Nobodys
  <1>2. /\ q \in SignInRecords /\ q.at = p /\ q.id = signIn[s].id /\ q.new = signIn[s].new
        /\ q.bare = signIn[s].bare /\ q.created = signIn[s].created
        /\ q.existed = signIn[s].existed /\ q.lost = signIn[s].lost /\ q.over = signIn[s].over
    BY <1>1, RecordAt
  <1>3. e = [signIn[s] EXCEPT !.at = p, !.object = {}, !.canceled = FALSE]
    BY <1>1 DEF SignInRecords
  <1>4. signIn' = [signIn EXCEPT ![s] = e]
    BY <1>3 DEF Ended
  <1> HIDE DEF q
  <1>5. /\ r \in SignInRecords /\ r.at = p /\ r.id = signIn[s].id /\ r.new = signIn[s].new
        /\ r.bare = signIn[s].bare /\ r.created = signIn[s].created /\ r.object = {}
        /\ r.existed = signIn[s].existed /\ r.lost = signIn[s].lost /\ r.over = signIn[s].over
    BY <1>1, <1>2, RecordObject
  <1> HIDE DEF r
  <1>6. /\ e \in SignInRecords /\ e.at = p /\ e.id = signIn[s].id /\ e.new = signIn[s].new
        /\ e.bare = signIn[s].bare /\ e.created = signIn[s].created /\ e.object = {}
        /\ e.existed = signIn[s].existed /\ e.lost = signIn[s].lost /\ e.over = signIn[s].over
        /\ ~e.canceled
    BY <1>5, RecordCanceled
  <1> HIDE DEF e
  <1>7. signIn' \in [SignIns -> SignInRecords] /\ signIn'[s] = e /\ OthersSame(s) /\ NoneCanceled
    BY <1>4, <1>6, OneRecord
  <1> QED
    BY <1>6, <1>7

\* What the invariant says of sign-in s, and of the variables' types.
LEMMA Facts ==
  ASSUME SignInSafe, NEW s \in SignIns
  PROVE  /\ PlacedWell(s) /\ KeptWhole(s) /\ LoginKept(s)
         /\ signIn \in [SignIns -> SignInRecords] /\ signIn[s] \in SignInRecords
         /\ signIn[s].object \subseteq Owners /\ signIn[s].id \in Instances \cup {NoInstance}
         /\ instanceRows \subseteq Instances /\ credentials \in [Instances -> Nobodys]
         /\ instances \in [Instances -> Nobodys] /\ carried \in [Owners -> Nobodys]
         /\ \A i \in Instances : instances[i] \subseteq Owners
  <1>1. /\ PlacedWell(s) /\ KeptWhole(s) /\ LoginKept(s)
        /\ signIn \in [SignIns -> SignInRecords]
        /\ instanceRows \subseteq Instances /\ credentials \in [Instances -> Nobodys]
        /\ instances \in [Instances -> Nobodys] /\ carried \in [Owners -> Nobodys]
    BY DEF SignInSafe, SignInTypes
  <1>2. signIn[s] \in SignInRecords
    BY <1>1
  <1>3. signIn[s].object \in Nobodys /\ signIn[s].id \in Instances \cup {NoInstance}
    BY <1>2 DEF SignInRecords
  <1>4. \A o \in Nobodys : o \subseteq Owners
    BY DEF Nobodys
  <1> QED
    BY <1>1, <1>2, <1>3, <1>4

\* Whose object belongs under an id goes on to do so.
LEMMA BelongsStays ==
  ASSUME NEW s \in SignIns, OthersSame(s),
         signIn[s].at \in Through => signIn'[s].at \in Through /\ signIn'[s].id = signIn[s].id,
         NEW o \in Owners, NEW i \in Instances, Belongs(o, i)
  PROVE  Belongs(o, i)'
  <1>1. \A t \in SignIns : signIn[t].at \in Through => signIn'[t].at \in Through /\ signIn'[t].id = signIn[t].id
    BY DEF OthersSame, Same
  <1> QED
    BY <1>1 DEF Belongs, Owners

\* Nobody else is at the instance of a sign-in that goes on undisturbed.
LEMMA Alone ==
  ASSUME SignInSafe, NEW s \in SignIns, UnderWay(s), OthersSame(s), Onward(s), StepFrame,
         UnderWay(s)' \/ signIn'[s].id = signIn[s].id, Undisturbed(s)'
  PROVE  /\ Undisturbed(s)
         /\ signIn'[s].id \notin deleting'
         /\ \A t \in SignIns : t # s /\ signIn'[t].id = signIn'[s].id /\ signIn'[s].id # NoInstance =>
              ~UnderWay(t)'
  <1>1. Undisturbed(s) /\ KeptWhole(s)
    BY DEF Undisturbed, Onward, StepFrame, SignInSafe
  <1>2. CASE UnderWay(s)'
    <2>1. s \notin Crossing'
      BY DEF Undisturbed, StepFrame
    <2>2. signIn'[s].id \notin deleting'
      BY <1>2, <2>1 DEF Crossing, SignIns
    <2>3. \A t \in SignIns \ {s} :
            ~(UnderWay(t)' /\ signIn'[s].id = signIn'[t].id /\ signIn'[s].id # NoInstance)
      BY <1>2, <2>1 DEF Crossing, SignIns, NoInstance
    <2> QED
      BY <1>1, <2>2, <2>3
  <1>3. CASE ~UnderWay(s)' /\ signIn'[s].id = signIn[s].id
    BY <1>1, <1>3 DEF KeptWhole, StepFrame, OthersSame, Same, UnderWay
  <1> QED
    BY <1>2, <1>3

\* What is left to show of a sign-in that goes on or ends: that it holds and has done what it should.
SoFarGood(s) ==
  /\ UnderWay(s) /\ ~signIn[s].new =>
       signIn[s].object = instances[signIn[s].id] /\ signIn[s].object # {}
  /\ signIn[s].existed => signIn[s].id \in instanceRows /\ ~signIn[s].created
  /\ SignInAt(s, "registering") /\ kind # "antigravity" => \A o \in signIn[s].object : carried[o] = {s}
  /\ signIn[s].at \in Through \cup {"registering"} =>
       \/ signIn[s].lost /\ kind # "antigravity"
       \/ signIn[s].id \in instanceRows /\ credentials[signIn[s].id] = {s}
  /\ signIn[s].at \in Through => \E o \in instances[signIn[s].id] : carried[o] = {s}
  /\ SignInAt(s, "failed") /\ signIn[s].created =>
       /\ credentials[signIn[s].id] = {}
       /\ signIn[s].id \in instanceRows => instances[signIn[s].id] # {}

\* What the invariant says of an undisturbed sign-in's own doings.
LEMMA KeptGood == ASSUME NEW s, KeptWhole(s), Undisturbed(s) PROVE SoFarGood(s)
  BY DEF KeptWhole, SoFarGood

\* It is enough to show the sign-in's own doings: nobody else is at its instance.
LEMMA GoodKept ==
  ASSUME SignInSafe, NEW s \in SignIns, UnderWay(s), OthersSame(s), Onward(s), StepFrame,
         UnderWay(s)' \/ signIn'[s].id = signIn[s].id,
         Undisturbed(s) /\ Undisturbed(s)' /\ SoFarGood(s) => SoFarGood(s)'
  PROVE  KeptWhole(s)'
  <1> SUFFICES ASSUME Undisturbed(s)' PROVE KeptWhole(s)'
    BY DEF KeptWhole
  <1>1. /\ Undisturbed(s) /\ signIn'[s].id \notin deleting'
        /\ \A t \in SignIns : t # s /\ signIn'[t].id = signIn'[s].id /\ signIn'[s].id # NoInstance =>
             ~UnderWay(t)'
    BY Alone
  <1>2. SoFarGood(s)'
    BY <1>1, KeptGood DEF SignInSafe
  <1> QED
    BY <1>1, <1>2 DEF KeptWhole, SoFarGood, SignInAt, UnderWay, Through, SignIns, NoInstance

\* An object that is given credentials holds those of the sign-in it is for.
LEMMA GivenAway ==
  ASSUME SignInSafe, NEW s \in SignIns
  PROVE  /\ Given(s) \in [Owners -> Nobodys]
         /\ \A o \in Owners : Given(s)[o] = carried[o] \/ o \in signIn[s].object
         /\ \A o \in signIn[s].object : Given(s)[o] = {s}
  <1>1. carried \in [Owners -> Nobodys] /\ signIn[s].object \subseteq Owners
    BY Facts
  <1>2. {s} \in Nobodys
    BY DEF Nobodys, Owners
  <1> QED
    BY <1>1, <1>2 DEF Given

\* Where a sign-in may go, and what it may take along.
LEMMA PlacedGood ==
  ASSUME SignInSafe, NEW s \in SignIns, UnderWay(s), OthersSame(s), Onward(s), StepFrame,
         signIn'[s].at \notin {"out", "coding"},
         SignInAt(s, "refused")' => SignInAt(s, "coding"),
         SignInAt(s, "polling")' => SignInAt(s, "coding"),
         signIn'[s].at \in Redirects => signIn[s].at \in Redirects,
         signIn'[s].at \in Named => signIn'[s].id \in Instances,
         SignInAt(s, "polling")' => signIn'[s].id = signIn[s].id,
         signIn'[s].at \in {"reserving", "undoing"} => signIn[s].new,
         signIn'[s].created => signIn[s].new /\ signIn'[s].at \in Reserved /\ signIn'[s].id \in Instances,
         UnderWay(s)' => \/ signIn'[s].object = signIn[s].object
                         \/ ~signIn[s].new /\ signIn'[s].object = instances[signIn[s].id],
         ~UnderWay(s)' => signIn'[s].object = {},
         signIn[s].at \in Through => signIn'[s].at \in Through /\ signIn'[s].id = signIn[s].id
  PROVE  PlacedWell(s)'
  <1>1. /\ PlacedWell(s) /\ signIn[s].object \subseteq Owners /\ RegistryKept
        /\ \A i \in Instances : instances[i] \subseteq Owners
    BY Facts DEF SignInSafe
  <1>2. ~SignInAt(s, "out") /\ kind' = kind /\ loginFlow' = loginFlow
    BY DEF UnderWay, AtRest, SignInAt, StepFrame
  <1>3. ~signIn[s].new \/ kind # "device" => signIn[s].id \in Instances /\ signIn'[s].id = signIn[s].id
    BY <1>1, <1>2, NamesDiffer DEF PlacedWell, Onward
  <1>4. (~signIn[s].new => \A o \in signIn[s].object : Belongs(o, signIn[s].id))'
    <2> SUFFICES ASSUME ~signIn'[s].new, NEW o \in signIn'[s].object PROVE Belongs(o, signIn[s].id)'
      OBVIOUS
    <2> DEFINE i == signIn[s].id
    <2>1. i \in Instances /\ i' = i /\ ~signIn[s].new
      BY <1>3 DEF Onward
    <2>2. o \in Owners /\ Belongs(o, i)
      BY <1>1, <2>1 DEF PlacedWell, RegistryKept
    <2> HIDE DEF i
    <2>3. Belongs(o, i)'
      BY <2>1, <2>2, BelongsStays DEF Belongs
    <2> QED
      BY <2>1, <2>3 DEF i
  <1>5. (UnderWay(s) /\ signIn[s].new => signIn[s].object = {s})'
    BY <1>1 DEF PlacedWell, Onward
  <1>6. (/\ SignInAt(s, "out") => signIn[s] = NoSignIn /\ loginFlow[s].at = "none"
         /\ signIn[s].at \in {"coding", "polling"} => kind = "device"
         /\ signIn[s].at \in Redirects => kind \in {"openai", "antigravity"}
         /\ signIn[s].at \in {"coding", "polling"} /\ signIn[s].new => signIn[s].id = NoInstance)'
    BY <1>1, <1>2 DEF PlacedWell, SignInAt, NoInstance, Onward, Redirects
  <1>7. (\/ signIn[s].at \in Named
         \/ ~SignInAt(s, "out") /\ (~signIn[s].new \/ kind # "device")
         => signIn[s].id \in Instances)'
    BY <1>2, <1>3 DEF Named, Redirects, Instances, Onward
  <1>8. (/\ signIn[s].bare => ~signIn[s].new
         /\ SignInAt(s, "coding") => ~signIn[s].bare /\ ~signIn[s].canceled
         /\ signIn[s].at \in {"reserving", "undoing"} => signIn[s].new
         /\ signIn[s].created => /\ signIn[s].new /\ signIn[s].at \in Reserved
                                 /\ signIn[s].id \in Instances
         /\ ~UnderWay(s) => signIn[s].object = {})'
    BY <1>1 DEF PlacedWell, Onward, Reserved, Instances, SignInAt
  <1>9. (loginFlow[s].at = "pending" => signIn[s].at \notin {"out", "coding", "refused"} /\ ~signIn[s].bare)'
    BY <1>1, <1>2 DEF PlacedWell, Onward, SignInAt
  <1> QED
    BY <1>4, <1>5, <1>6, <1>7, <1>8, <1>9 DEF PlacedWell

\* A sign-in fails, or is refused a code, that has made no row.
LEMMA Quits ==
  ASSUME SignInSafe, NEW s \in SignIns, UnderWay(s), StepFrame, NEW p \in {"failed", "refused"},
         Ended(s, p), p = "refused" => SignInAt(s, "coding"), signIn[s].at \notin Through,
         ~signIn[s].created,
         FlowGoesOn(s), OutcomesGoOn(s), instanceRows' = instanceRows, instances' = instances,
         credentials' \in [Instances -> Nobodys],
         \A i \in Instances : i # signIn[s].id => credentials'[i] = credentials[i],
         carried' \in [Owners -> Nobodys],
         \A o \in Owners : carried'[o] = carried[o] \/ o \in signIn[s].object
  PROVE  SignInSafe'
  <1>1. /\ PlacedWell(s) /\ signIn \in [SignIns -> SignInRecords] /\ instanceRows \subseteq Instances
        /\ instances \in [Instances -> Nobodys] /\ p \in SignInPlaces
    BY Facts DEF SignInPlaces, AtRest
  <1>2. /\ signIn' \in [SignIns -> SignInRecords] /\ OthersSame(s) /\ NoneCanceled
        /\ signIn'[s].at = p /\ signIn'[s].id = signIn[s].id /\ signIn'[s].new = signIn[s].new
        /\ signIn'[s].bare = signIn[s].bare /\ signIn'[s].object = {}
        /\ signIn'[s].created = signIn[s].created /\ signIn'[s].existed = signIn[s].existed
        /\ signIn'[s].lost = signIn[s].lost /\ signIn'[s].over = signIn[s].over
    BY <1>1, EndedWell
  <1>3. Onward(s) /\ ~UnderWay(s)'
    BY <1>2 DEF Onward, UnderWay, AtRest
  <1>4. p \notin {"out", "coding", "polling", "reserving", "undoing", "registering"} /\ p \notin Named /\ p \notin Through
        /\ p \notin Redirects
    BY DEF Named, Redirects, Through
  <1>5. PlacedWell(s)'
    BY <1>2, <1>3, <1>4, PlacedGood DEF SignInAt
  <1>6. SoFarGood(s) => SoFarGood(s)'
    BY <1>2, <1>3, <1>4 DEF SoFarGood, SignInAt
  <1>7. KeptWhole(s)'
    BY <1>2, <1>3, <1>6, GoodKept
  <1> QED
    BY <1>1, <1>2, <1>3, <1>5, <1>7, StepKeeps

\* A sign-in moves on without a change to what is stored.
LEMMA MovesOn ==
  ASSUME SignInSafe, NEW s \in SignIns, UnderWay(s), StepFrame,
         NEW p \in {"polling", "listening", "exchanging", "reserving", "saving"}, MoveTo(s, p),
         signIn[s].at \notin Through \cup {"registering"},
         p = "polling" => SignInAt(s, "coding"), p \in Redirects => signIn[s].at \in Redirects,
         p # "polling" => signIn[s].id \in Instances, p = "reserving" => signIn[s].new,
         ~signIn[s].created,
         FlowGoesOn(s), OutcomesGoOn(s), instanceRows' = instanceRows, instances' = instances,
         credentials' = credentials, carried' \in [Owners -> Nobodys],
         \A o \in Owners : carried'[o] = carried[o] \/ o \in signIn[s].object
  PROVE  SignInSafe'
  <1>1. /\ PlacedWell(s) /\ signIn \in [SignIns -> SignInRecords] /\ instanceRows \subseteq Instances
        /\ instances \in [Instances -> Nobodys] /\ credentials \in [Instances -> Nobodys]
        /\ p \in SignInPlaces
    BY Facts DEF SignInPlaces
  <1>2. /\ signIn' \in [SignIns -> SignInRecords] /\ OthersSame(s) /\ NoneCanceled
        /\ signIn'[s].at = p /\ signIn'[s].id = signIn[s].id /\ signIn'[s].new = signIn[s].new
        /\ signIn'[s].bare = signIn[s].bare /\ signIn'[s].object = signIn[s].object
        /\ signIn'[s].created = signIn[s].created /\ signIn'[s].existed = signIn[s].existed
        /\ signIn'[s].lost = signIn[s].lost /\ signIn'[s].over = signIn[s].over
    BY <1>1, Moved
  <1>3. Onward(s) /\ UnderWay(s)'
    BY <1>2 DEF Onward, UnderWay, AtRest
  <1>4. p \notin {"out", "coding", "refused", "undoing", "registering", "failed"} /\ p \notin Through
        /\ "polling" \notin Named
    BY DEF Through, Named, Redirects
  <1>5. PlacedWell(s)'
    BY <1>2, <1>3, <1>4, PlacedGood DEF SignInAt
  <1>6. SoFarGood(s) => SoFarGood(s)'
    BY <1>2, <1>3, <1>4 DEF SoFarGood, SignInAt
  <1>7. KeptWhole(s)'
    BY <1>2, <1>3, <1>6, GoodKept
  <1> QED
    BY <1>1, <1>2, <1>3, <1>4, <1>5, <1>7, StepKeeps

Recorded == disturbed' = disturbed \cup Crossing'

\* A failure that is left to be polled is this sign-in's.
LEMMA FailureKeptGoesOn ==
  ASSUME SignInSafe, NEW s \in SignIns, outcomes' = FailureKept(s), signIn'[s].at = "failed",
         kind = "openai" => signIn[s].id \in Instances
  PROVE  OutcomesGoOn(s)
  BY DEF FailureKept, OutcomesGoOn

\* Only device codes have a flow.
LEMMA NoFlow ==
  ASSUME SignInSafe, NEW s \in SignIns, kind # "device" \/ signIn[s].at \in {"out", "coding", "refused"} \/ signIn[s].canceled
  PROVE  \A a \in activeFlow : a.of # s
  BY DEF SignInSafe, FlowKept

\* The redirect of an OAuth sign-in is awaited, comes, or does not.
LEMMA RedirectsKeep ==
  ASSUME SignInSafe, NEW s \in SignIns, Recorded, signIn[s].at \in Redirects,
         NEW p \in {"listening", "exchanging"}, (MoveTo(s, p) /\ UNCHANGED outcomes) \/ Fails(s),
         UNCHANGED <<kind, storedVars, activeFlow, loginFlow, deletionVars>>
  PROVE  SignInSafe'
  <1>1. /\ PlacedWell(s) /\ signIn \in [SignIns -> SignInRecords]
        /\ credentials \in [Instances -> Nobodys] /\ carried \in [Owners -> Nobodys]
    BY Facts
  <1>2. /\ UnderWay(s) /\ kind \in {"openai", "antigravity"} /\ ~signIn[s].created
        /\ signIn[s].id \in Instances /\ signIn[s].at \notin Through \cup {"registering"}
    BY <1>1 DEF PlacedWell, UnderWay, AtRest, Redirects, Named, Reserved, Through
  <1>3. StepFrame /\ storedVars' = storedVars /\ activeFlow' = activeFlow /\ \A a \in activeFlow : a.of # s
    BY <1>2, NoFlow DEF StepFrame, Recorded, deletionVars
  <1>4. FlowGoesOn(s)
    BY <1>3 DEF FlowGoesOn
  <1>5. CASE MoveTo(s, p) /\ UNCHANGED outcomes
    <2>1. OutcomesGoOn(s)
      BY <1>5 DEF OutcomesGoOn
    <2> QED
      BY <1>1, <1>2, <1>3, <1>4, <1>5, <2>1, MovesOn DEF storedVars
  <1>6. CASE Fails(s)
    <2>1. signIn'[s].at = "failed"
      BY <1>1, <1>6, EndedWell DEF Fails, SignInPlaces, AtRest
    <2>2. OutcomesGoOn(s)
      BY <1>2, <1>6, <2>1, FailureKeptGoesOn DEF Fails
    <2> QED
      BY <1>1, <1>2, <1>3, <1>4, <1>6, <2>2, Quits DEF storedVars, Fails
  <1> QED
    BY <1>5, <1>6

\* Listening, the callback and the redirect to the server.
LEMMA RedirectSafe ==
  ASSUME SignInSafe, NEW s \in SignIns, Recorded, Listen(s) \/ CallBack(s) \/ Redirected(s)
  PROVE  SignInSafe'
  <1>1. CASE Listen(s)
    BY <1>1, RedirectsKeep DEF Listen, SignInAt, Redirects
  <1>2. CASE CallBack(s)
    BY <1>2, RedirectsKeep DEF CallBack, SignInAt, Redirects
  <1>3. CASE Redirected(s)
    BY <1>3, RedirectsKeep DEF Redirected, SignInAt, Redirects
  <1> QED
    BY <1>1, <1>2, <1>3

\* The code is exchanged; a renewal takes the object that is registered.
LEMMA ExchangesSafe ==
  ASSUME SignInSafe, NEW s \in SignIns, Recorded, Exchanges(s)
  PROVE  SignInSafe'
  <1>1. /\ PlacedWell(s) /\ signIn \in [SignIns -> SignInRecords] /\ signIn[s] \in SignInRecords
        /\ credentials \in [Instances -> Nobodys] /\ carried \in [Owners -> Nobodys]
        /\ instances \in [Instances -> Nobodys] /\ instanceRows \subseteq Instances
    BY Facts
  <1>2. /\ UnderWay(s) /\ kind \in {"openai", "antigravity"} /\ ~signIn[s].created
        /\ signIn[s].id \in Instances /\ signIn[s].at \notin Through \cup {"registering"}
        /\ SignInAt(s, "exchanging")
    BY <1>1 DEF Exchanges, SignInAt, PlacedWell, UnderWay, AtRest, Redirects, Named, Reserved, Through
  <1>3. StepFrame /\ storedVars' = storedVars /\ activeFlow' = activeFlow /\ \A a \in activeFlow : a.of # s
    BY <1>2, NoFlow DEF StepFrame, Recorded, deletionVars, Exchanges
  <1>4. FlowGoesOn(s)
    BY <1>3 DEF FlowGoesOn
  <1>5. CASE signIn[s].new /\ MoveTo(s, "reserving") /\ UNCHANGED outcomes
    <2>1. OutcomesGoOn(s)
      BY <1>5 DEF OutcomesGoOn
    <2>2. "reserving" \notin Redirects
      BY DEF Redirects
    <2> QED
      BY <1>1, <1>2, <1>3, <1>4, <1>5, <2>1, <2>2, MovesOn DEF storedVars
  <1>6. ASSUME ~signIn[s].new, kind = "openai" => instances[signIn[s].id] # {},
               signIn' = [signIn EXCEPT ![s].at = "saving", ![s].object = instances[signIn[s].id]],
               UNCHANGED outcomes
        PROVE  SignInSafe'
    <2> DEFINE q == [signIn[s] EXCEPT !.at = "saving"]
               r == [q EXCEPT !.object = instances[signIn[s].id]]
    <2> "saving" \in SignInPlaces
      BY DEF SignInPlaces
    <2>1. /\ q \in SignInRecords /\ q.at = "saving" /\ q.id = signIn[s].id /\ q.new = signIn[s].new
          /\ q.bare = signIn[s].bare /\ q.created = signIn[s].created /\ q.canceled = signIn[s].canceled
          /\ q.existed = signIn[s].existed /\ q.lost = signIn[s].lost /\ q.over = signIn[s].over
      BY <1>1, RecordAt
    <2>2. signIn' = [signIn EXCEPT ![s] = r]
      BY <1>1, <1>6 DEF SignInRecords
    <2> HIDE DEF q
    <2>3. /\ r \in SignInRecords /\ r.at = "saving" /\ r.id = signIn[s].id /\ r.new = signIn[s].new
          /\ r.bare = signIn[s].bare /\ r.created = signIn[s].created /\ r.canceled = signIn[s].canceled
          /\ r.object = instances[signIn[s].id]
          /\ r.existed = signIn[s].existed /\ r.lost = signIn[s].lost /\ r.over = signIn[s].over
      BY <1>1, <1>2, <2>1, RecordObject
    <2> HIDE DEF r
    <2>4. signIn' \in [SignIns -> SignInRecords] /\ signIn'[s] = r /\ OthersSame(s) /\ NoneCanceled
      BY <1>1, <2>2, <2>3, OneRecord
    <2>5. Onward(s) /\ UnderWay(s)'
      BY <2>3, <2>4 DEF Onward, UnderWay, AtRest
    <2>6. PlacedWell(s)'
      BY <1>2, <1>3, <1>6, <2>3, <2>4, <2>5, PlacedGood DEF SignInAt, Redirects, Through
    <2>7. SoFarGood(s) => SoFarGood(s)'
      <3>1. instances' = instances /\ instanceRows' = instanceRows /\ kind' = kind
        BY <1>3 DEF storedVars, StepFrame
      <3>2. /\ signIn'[s].at = "saving" /\ signIn'[s].id = signIn[s].id /\ signIn'[s].new = signIn[s].new
            /\ signIn'[s].object = instances[signIn[s].id] /\ signIn'[s].existed = signIn[s].existed
            /\ signIn'[s].created = signIn[s].created
        BY <2>3, <2>4
      <3> SUFFICES ASSUME SoFarGood(s) PROVE SoFarGood(s)'
        OBVIOUS
      <3>3. signIn'[s].object = instances'[signIn'[s].id] /\ signIn'[s].object # {}
        BY <1>2, <1>6, <3>1, <3>2 DEF SoFarGood
      <3>4. signIn'[s].existed => signIn'[s].id \in instanceRows' /\ ~signIn'[s].created
        BY <3>1, <3>2 DEF SoFarGood
      <3>5. signIn'[s].at \notin Through \cup {"registering", "failed"}
        BY <3>2 DEF Through
      <3> QED
        BY <3>3, <3>4, <3>5 DEF SoFarGood, SignInAt
    <2>8. KeptWhole(s)'
      BY <1>2, <1>3, <2>4, <2>5, <2>7, GoodKept
    <2>9. OutcomesGoOn(s)
      BY <1>6 DEF OutcomesGoOn
    <2> QED
      BY <1>1, <1>2, <1>3, <1>4, <2>3, <2>4, <2>5, <2>6, <2>8, <2>9, StepKeeps DEF storedVars
  <1>7. CASE Fails(s)
    <2>1. signIn'[s].at = "failed"
      BY <1>1, <1>7, EndedWell DEF Fails, SignInPlaces, AtRest
    <2>2. OutcomesGoOn(s)
      BY <1>2, <1>7, <2>1, FailureKeptGoesOn DEF Fails
    <2> QED
      BY <1>1, <1>2, <1>3, <1>4, <1>7, <2>2, Quits DEF storedVars, Fails
  <1> QED
    BY <1>5, <1>6, <1>7 DEF Exchanges

\* What a step of a sign-in changes of its record.
LEMMA Replaced ==
  ASSUME SignInSafe, NEW s \in SignIns, UnderWay(s), NEW r \in SignInRecords,
         signIn' = [signIn EXCEPT ![s] = r], r.canceled = signIn[s].canceled,
         r.new = signIn[s].new, r.bare = signIn[s].bare, r.over = signIn[s].over,
         r.at \notin AtRest, r.id = signIn[s].id
  PROVE  /\ signIn' \in [SignIns -> SignInRecords] /\ signIn'[s] = r
         /\ OthersSame(s) /\ NoneCanceled /\ Onward(s) /\ UnderWay(s)'
  <1>1. signIn \in [SignIns -> SignInRecords]
    BY Facts
  <1>2. signIn' \in [SignIns -> SignInRecords] /\ signIn'[s] = r /\ OthersSame(s) /\ NoneCanceled
    BY <1>1, OneRecord
  <1> QED
    BY <1>2 DEF Onward, UnderWay

\* The parent row is reserved, and it is known whether this creation made it.
LEMMA ReserveSafe ==
  ASSUME SignInSafe, NEW s \in SignIns, Recorded, Reserve(s)
  PROVE  SignInSafe'
  <1>1. /\ PlacedWell(s) /\ signIn \in [SignIns -> SignInRecords] /\ signIn[s] \in SignInRecords
        /\ credentials \in [Instances -> Nobodys] /\ carried \in [Owners -> Nobodys]
        /\ instances \in [Instances -> Nobodys] /\ instanceRows \subseteq Instances
    BY Facts
  <1>2. /\ UnderWay(s) /\ signIn[s].new /\ signIn[s].id \in Instances
        /\ signIn[s].at \notin Through \cup Redirects /\ SignInAt(s, "reserving")
    BY <1>1 DEF Reserve, SignInAt, PlacedWell, UnderWay, AtRest, Redirects, Named, Reserved, Through
  <1>3. /\ StepFrame /\ credentials' = credentials /\ instances' = instances /\ carried' = carried
        /\ instanceRows' = instanceRows \cup {signIn[s].id} /\ activeFlow' = activeFlow /\ outcomes' = outcomes
    BY DEF Reserve, StepFrame, Recorded, deletionVars, pollVars
  <1> DEFINE q == [signIn[s] EXCEPT !.at = "saving"]
             made == signIn[s].id \notin instanceRows
             r == [q EXCEPT !.created = made]
  <1> "saving" \in SignInPlaces
    BY DEF SignInPlaces
  <1>4. /\ q \in SignInRecords /\ q.at = "saving" /\ q.id = signIn[s].id /\ q.new = signIn[s].new
        /\ q.bare = signIn[s].bare /\ q.object = signIn[s].object /\ q.canceled = signIn[s].canceled
        /\ q.existed = signIn[s].existed /\ q.lost = signIn[s].lost /\ q.over = signIn[s].over
    BY <1>1, RecordAt
  <1>5. signIn' = [signIn EXCEPT ![s] = r]
    BY <1>1 DEF SignInRecords, Reserve
  <1> made \in BOOLEAN
    OBVIOUS
  <1> HIDE DEF q, made
  <1>6. /\ r \in SignInRecords /\ r.created = made /\ r.at = q.at /\ r.id = q.id /\ r.new = q.new
        /\ r.bare = q.bare /\ r.object = q.object /\ r.canceled = q.canceled /\ r.existed = q.existed
        /\ r.lost = q.lost /\ r.over = q.over
    BY <1>4, RecordCreated
  <1> HIDE DEF r
  <1>7. /\ signIn' \in [SignIns -> SignInRecords] /\ signIn'[s] = r
        /\ OthersSame(s) /\ NoneCanceled /\ Onward(s) /\ UnderWay(s)'
    BY <1>2, <1>4, <1>5, <1>6, Replaced DEF AtRest
  <1>8. PlacedWell(s)'
    BY <1>2, <1>3, <1>4, <1>6, <1>7, PlacedGood DEF SignInAt, Redirects, Through, Reserved
  <1>9. SoFarGood(s) => SoFarGood(s)'
    <2> SUFFICES ASSUME SoFarGood(s) PROVE SoFarGood(s)'
      OBVIOUS
    <2>1. signIn'[s].existed => signIn'[s].id \in instanceRows' /\ ~signIn'[s].created
      BY <1>3, <1>4, <1>6, <1>7 DEF SoFarGood, made
    <2>2. signIn'[s].at \notin Through \cup {"registering", "failed"} /\ signIn'[s].new
      BY <1>2, <1>4, <1>6, <1>7 DEF Through
    <2> QED
      BY <2>1, <2>2 DEF SoFarGood, SignInAt
  <1>10. KeptWhole(s)'
    BY <1>2, <1>3, <1>7, <1>9, GoodKept
  <1>11. FlowGoesOn(s) /\ OutcomesGoOn(s)
    BY <1>3, <1>4, <1>6, <1>7 DEF FlowGoesOn, OutcomesGoOn
  <1> QED
    BY <1>1, <1>2, <1>3, <1>4, <1>6, <1>7, <1>8, <1>10, <1>11, StepKeeps

\* The record of a sign-in of which at most the place and what is lost change.
OnlyMoved(s, r, place) ==
  /\ r \in SignInRecords /\ r.at = place /\ r.id = signIn[s].id /\ r.new = signIn[s].new
  /\ r.bare = signIn[s].bare /\ r.object = signIn[s].object /\ r.created = signIn[s].created
  /\ r.canceled = signIn[s].canceled /\ r.existed = signIn[s].existed /\ r.over = signIn[s].over

\* The fields of a record that has moved.
LEMMA MovedRecord ==
  ASSUME SignInSafe, NEW s \in SignIns, NEW p \in SignInPlaces, MoveTo(s, p)
  PROVE  \E r : /\ OnlyMoved(s, r, p) /\ signIn' = [signIn EXCEPT ![s] = r] /\ r.lost = signIn[s].lost
  <1> DEFINE r == [signIn[s] EXCEPT !.at = p]
  <1>1. signIn[s] \in SignInRecords
    BY Facts
  <1>2. OnlyMoved(s, r, p) /\ r.lost = signIn[s].lost
    BY <1>1, RecordAt DEF OnlyMoved
  <1>3. signIn' = [signIn EXCEPT ![s] = r]
    BY DEF MoveTo
  <1> QED
    BY <1>2, <1>3

\* The fields of a record that has moved with its save lost.
LEMMA LostRecord ==
  ASSUME SignInSafe, NEW s \in SignIns, NEW p \in SignInPlaces,
         signIn' = [signIn EXCEPT ![s].at = p, ![s].lost = TRUE]
  PROVE  \E r : /\ OnlyMoved(s, r, p) /\ signIn' = [signIn EXCEPT ![s] = r] /\ r.lost = TRUE
  <1> DEFINE q == [signIn[s] EXCEPT !.at = p]
             r == [q EXCEPT !.lost = TRUE]
  <1>1. signIn[s] \in SignInRecords /\ signIn \in [SignIns -> SignInRecords]
    BY Facts
  <1>2. OnlyMoved(s, q, p)
    BY <1>1, RecordAt DEF OnlyMoved
  <1>3. signIn' = [signIn EXCEPT ![s] = r]
    BY <1>1 DEF SignInRecords
  <1> HIDE DEF q
  <1>4. /\ r \in SignInRecords /\ r.lost = TRUE /\ r.at = q.at /\ r.id = q.id /\ r.new = q.new
        /\ r.bare = q.bare /\ r.object = q.object /\ r.canceled = q.canceled /\ r.existed = q.existed
        /\ r.created = q.created /\ r.over = q.over
    BY <1>2, RecordLost DEF OnlyMoved
  <1> HIDE DEF r
  <1>5. OnlyMoved(s, r, p)
    BY <1>2, <1>4 DEF OnlyMoved
  <1> QED
    BY <1>3, <1>4, <1>5

\* A save that goes through, or is left out, or whose failure is not minded: on to the registry.
LEMMA SavedSafe ==
  ASSUME SignInSafe, NEW s \in SignIns, Recorded, SignInAt(s, "saving"),
         NEW r, OnlyMoved(s, r, "registering"), signIn' = [signIn EXCEPT ![s] = r],
         \/ r.lost /\ kind # "antigravity"
         \/ signIn[s].id \in instanceRows /\ credentials'[signIn[s].id] = {s},
         credentials' \in [Instances -> Nobodys],
         \A i \in Instances : i # signIn[s].id => credentials'[i] = credentials[i],
         carried' = Remembered(s),
         UNCHANGED <<kind, instanceRows, instances, pollVars, deletionVars>>
  PROVE  SignInSafe'
  <1>1. /\ PlacedWell(s) /\ carried \in [Owners -> Nobodys] /\ signIn[s].object \subseteq Owners
        /\ instances \in [Instances -> Nobodys] /\ instanceRows \subseteq Instances
    BY Facts
  <1>2. /\ UnderWay(s) /\ signIn[s].id \in Instances /\ signIn[s].at \notin Through
        /\ SignInAt(s, "saving")
    BY <1>1 DEF SignInAt, PlacedWell, UnderWay, AtRest, Redirects, Named, Through
  <1>3. /\ StepFrame /\ instances' = instances /\ instanceRows' = instanceRows /\ kind' = kind
        /\ activeFlow' = activeFlow /\ outcomes' = outcomes
    BY DEF StepFrame, Recorded, deletionVars, pollVars
  <1>4. r \in SignInRecords /\ r.at \notin AtRest
    BY DEF OnlyMoved, AtRest
  <1>5. /\ signIn' \in [SignIns -> SignInRecords] /\ signIn'[s] = r
        /\ OthersSame(s) /\ NoneCanceled /\ Onward(s) /\ UnderWay(s)'
    BY <1>2, <1>4, Replaced DEF OnlyMoved
  <1>6. /\ signIn'[s].at = "registering" /\ signIn'[s].id = signIn[s].id /\ signIn'[s].new = signIn[s].new
        /\ signIn'[s].object = signIn[s].object /\ signIn'[s].existed = signIn[s].existed
        /\ signIn'[s].created = signIn[s].created
    BY <1>5 DEF OnlyMoved
  <1>7. "registering" \notin Redirects \cup Through /\ "registering" \in Reserved
    BY DEF Redirects, Through, Reserved
  <1>8. PlacedWell(s)'
    <2>1. signIn'[s].created => signIn[s].new /\ signIn'[s].at \in Reserved /\ signIn'[s].id \in Instances
      BY <1>1, <1>2, <1>6, <1>7 DEF PlacedWell
    <2> QED
      BY <1>2, <1>3, <1>5, <1>6, <1>7, <2>1, PlacedGood DEF SignInAt
  <1>9. /\ Given(s) \in [Owners -> Nobodys]
        /\ \A o \in Owners : Given(s)[o] = carried[o] \/ o \in signIn[s].object
        /\ \A o \in signIn[s].object : Given(s)[o] = {s}
    BY GivenAway
  <1>10. /\ carried' \in [Owners -> Nobodys]
         /\ \A o \in Owners : carried'[o] = carried[o] \/ o \in signIn[s].object
         /\ kind # "antigravity" => \A o \in signIn[s].object : carried'[o] = {s}
    BY <1>1, <1>9 DEF Remembered
  <1>11. SoFarGood(s) => SoFarGood(s)'
    <2> SUFFICES ASSUME SoFarGood(s) PROVE SoFarGood(s)'
      OBVIOUS
    <2>1. ~signIn'[s].new => signIn'[s].object = instances'[signIn'[s].id] /\ signIn'[s].object # {}
      BY <1>2, <1>3, <1>6 DEF SoFarGood
    <2>2. signIn'[s].existed => signIn'[s].id \in instanceRows' /\ ~signIn'[s].created
      BY <1>3, <1>6 DEF SoFarGood
    <2>3. kind' # "antigravity" => \A o \in signIn'[s].object : carried'[o] = {s}
      BY <1>3, <1>6, <1>10
    <2>4. \/ signIn'[s].lost /\ kind' # "antigravity"
          \/ signIn'[s].id \in instanceRows' /\ credentials'[signIn'[s].id] = {s}
      BY <1>3, <1>5, <1>6
    <2>5. signIn'[s].at \notin Through \cup {"failed"}
      BY <1>6, <1>7
    <2> QED
      BY <2>1, <2>2, <2>3, <2>4, <2>5 DEF SoFarGood, SignInAt
  <1>12. KeptWhole(s)'
    BY <1>2, <1>3, <1>5, <1>11, GoodKept
  <1>13. FlowGoesOn(s) /\ OutcomesGoOn(s)
    BY <1>3, <1>5, <1>6 DEF FlowGoesOn, OutcomesGoOn
  <1> QED
    BY <1>1, <1>2, <1>3, <1>5, <1>6, <1>8, <1>10, <1>12, <1>13, StepKeeps

\* The credentials are saved under their parent row.
LEMMA SaveSafe ==
  ASSUME SignInSafe, NEW s \in SignIns, Recorded, SaveCredentials(s)
  PROVE  SignInSafe'
  <1>1. credentials \in [Instances -> Nobodys] /\ {s} \in Nobodys /\ "registering" \in SignInPlaces
    BY Facts DEF Nobodys, Owners, SignInPlaces
  <1>2. CASE /\ Saves(s) /\ signIn[s].id \in instanceRows
             /\ credentials' = [credentials EXCEPT ![signIn[s].id] = {s}]
             /\ MoveTo(s, "registering")
    <2>1. PICK r : /\ OnlyMoved(s, r, "registering") /\ signIn' = [signIn EXCEPT ![s] = r]
      BY <1>1, <1>2, MovedRecord
    <2>2. signIn[s].id \in Instances
      BY <1>2, Facts
    <2>3. /\ credentials' \in [Instances -> Nobodys] /\ credentials'[signIn[s].id] = {s}
          /\ \A i \in Instances : i # signIn[s].id => credentials'[i] = credentials[i]
      BY <1>1, <1>2, <2>2
    <2> QED
      BY <1>2, <2>1, <2>3, SavedSafe DEF SaveCredentials
  <1>3. CASE /\ ~Saves(s) /\ UNCHANGED credentials
             /\ signIn' = [signIn EXCEPT ![s].at = "registering", ![s].lost = TRUE]
    <2>1. PICK r : OnlyMoved(s, r, "registering") /\ signIn' = [signIn EXCEPT ![s] = r] /\ r.lost = TRUE
      BY <1>1, <1>3, LostRecord
    <2>2. kind # "antigravity" /\ credentials' = credentials
      BY <1>3 DEF Saves
    <2> QED
      BY <1>1, <2>1, <2>2, SavedSafe DEF SaveCredentials
  <1> QED
    BY <1>2, <1>3 DEF SaveCredentials

\* A save that fails: a creation is to be undone, a renewal ends or goes on.
LEMMA SaveFailsSafe ==
  ASSUME SignInSafe, NEW s \in SignIns, Recorded, SaveFails(s)
  PROVE  SignInSafe'
  <1>1. /\ PlacedWell(s) /\ credentials \in [Instances -> Nobodys] /\ {s} \in Nobodys
        /\ carried \in [Owners -> Nobodys] /\ signIn[s].object \subseteq Owners
        /\ instances \in [Instances -> Nobodys] /\ instanceRows \subseteq Instances
        /\ {"registering", "undoing", "failed"} \subseteq SignInPlaces
        /\ signIn \in [SignIns -> SignInRecords]
    BY Facts DEF Nobodys, Owners, SignInPlaces, AtRest
  <1>2. /\ UnderWay(s) /\ SignInAt(s, "saving") /\ signIn[s].id \in Instances /\ signIn[s].at \notin Through
    BY <1>1 DEF SaveFails, PlacedWell, UnderWay, AtRest, SignInAt, Named, Through
  <1>3. /\ StepFrame /\ instances' = instances /\ instanceRows' = instanceRows /\ kind' = kind
        /\ activeFlow' = activeFlow
    BY DEF SaveFails, StepFrame, Recorded, deletionVars
  <1>4. /\ credentials' \in [Instances -> Nobodys]
        /\ \A i \in Instances : i # signIn[s].id => credentials'[i] = credentials[i]
    BY <1>1 DEF SaveFails
  <1>5. CASE signIn[s].new /\ MoveTo(s, "undoing") /\ UNCHANGED <<outcomes, carried>>
    <2>1. PICK r : OnlyMoved(s, r, "undoing") /\ signIn' = [signIn EXCEPT ![s] = r]
      BY <1>1, <1>5, MovedRecord
    <2>2. r \in SignInRecords /\ r.at \notin AtRest
      BY <2>1 DEF OnlyMoved, AtRest
    <2>3. /\ signIn' \in [SignIns -> SignInRecords] /\ signIn'[s] = r
          /\ OthersSame(s) /\ NoneCanceled /\ Onward(s) /\ UnderWay(s)'
      BY <1>2, <2>1, <2>2, Replaced DEF OnlyMoved
    <2>4. /\ signIn'[s].at = "undoing" /\ signIn'[s].id = signIn[s].id /\ signIn'[s].new = signIn[s].new
          /\ signIn'[s].object = signIn[s].object /\ signIn'[s].existed = signIn[s].existed
          /\ signIn'[s].created = signIn[s].created
      BY <2>1, <2>3 DEF OnlyMoved
    <2>5. "undoing" \notin Redirects \cup Through /\ "undoing" \in Reserved
      BY DEF Redirects, Through, Reserved
    <2>6. PlacedWell(s)'
      BY <1>2, <1>3, <1>5, <2>3, <2>4, <2>5, PlacedGood DEF SignInAt
    <2>7. SoFarGood(s) => SoFarGood(s)'
      BY <1>3, <1>5, <2>4, <2>5 DEF SoFarGood, SignInAt
    <2>8. KeptWhole(s)'
      BY <1>2, <1>3, <2>3, <2>7, GoodKept
    <2>9. FlowGoesOn(s) /\ OutcomesGoOn(s) /\ carried' = carried
      BY <1>3, <1>5, <2>3, <2>4 DEF FlowGoesOn, OutcomesGoOn
    <2> QED
      BY <1>1, <1>2, <1>3, <1>4, <2>3, <2>4, <2>6, <2>8, <2>9, StepKeeps
  <1>6. CASE /\ ~signIn[s].new /\ kind = "device" /\ UNCHANGED outcomes
             /\ carried' = Remembered(s)
             /\ signIn' = [signIn EXCEPT ![s].at = "registering", ![s].lost = TRUE]
    <2>1. PICK r : OnlyMoved(s, r, "registering") /\ signIn' = [signIn EXCEPT ![s] = r] /\ r.lost = TRUE
      BY <1>1, <1>6, LostRecord
    <2>2. UNCHANGED <<kind, instanceRows, instances, pollVars, deletionVars>>
      BY <1>6 DEF SaveFails, pollVars
    <2> QED
      BY <1>2, <1>4, <1>6, <2>1, <2>2, SavedSafe
  <1>7. CASE /\ ~signIn[s].new /\ kind # "device" /\ Fails(s)
             /\ carried' = Remembered(s) \/ (kind = "key" /\ UNCHANGED carried)
    <2>1. ~signIn[s].created /\ signIn[s].at # "coding"
      BY <1>1, <1>2, <1>7 DEF PlacedWell, SignInAt
    <2>2. signIn'[s].at = "failed"
      BY <1>1, <1>7, EndedWell DEF Fails
    <2>3. FlowGoesOn(s) /\ OutcomesGoOn(s)
      BY <1>2, <1>3, <1>7, <2>2, FailureKeptGoesOn, NoFlow DEF FlowGoesOn, Fails
    <2>4. carried' \in [Owners -> Nobodys] /\ \A o \in Owners : carried'[o] = carried[o] \/ o \in signIn[s].object
      BY <1>1, <1>7, GivenAway DEF Remembered
    <2> QED
      BY <1>2, <1>3, <1>4, <1>7, <2>1, <2>3, <2>4, Quits DEF Fails
  <1> QED
    BY <1>5, <1>6, <1>7 DEF SaveFails

\* The object is registered, and the rows of all that are registered are saved.
LEMMA RegisterSafe ==
  ASSUME SignInSafe, NEW s \in SignIns, Recorded, RegisterProvider(s)
  PROVE  SignInSafe'
  <1> DEFINE i == signIn[s].id
             put == /\ Registers(s) \/ kind = "key"
                    /\ instances' = [instances EXCEPT ![i] = signIn[s].object]
                    /\ instanceRows' = instanceRows \cup {j \in Instances : instances'[j] # {}}
                    /\ carried' = ReadBack(s, signIn[s].object)
             kept == /\ ~Registers(s) /\ UNCHANGED <<instances, instanceRows>>
                     /\ carried' = ReadBack(s, instances[i])
  <1>1. /\ PlacedWell(s) /\ credentials \in [Instances -> Nobodys] /\ signIn[s] \in SignInRecords
        /\ carried \in [Owners -> Nobodys] /\ signIn[s].object \subseteq Owners
        /\ instances \in [Instances -> Nobodys] /\ instanceRows \subseteq Instances
        /\ "finishing" \in SignInPlaces /\ \A j \in Instances : instances[j] \subseteq Owners
    BY Facts DEF SignInPlaces
  <1>2. /\ UnderWay(s) /\ SignInAt(s, "registering") /\ i \in Instances /\ signIn[s].at \notin Through
        /\ signIn[s].object \in Nobodys
    BY <1>1 DEF RegisterProvider, PlacedWell, UnderWay, AtRest, SignInAt, Named, Through, SignInRecords
  <1>3. /\ StepFrame /\ credentials' = credentials /\ kind' = kind
        /\ activeFlow' = activeFlow /\ outcomes' = outcomes
    BY DEF RegisterProvider, StepFrame, Recorded, deletionVars, pollVars
  <1>4. PICK r : OnlyMoved(s, r, "finishing") /\ signIn' = [signIn EXCEPT ![s] = r] /\ r.lost = signIn[s].lost
    BY <1>1, MovedRecord DEF RegisterProvider
  <1>5. r \in SignInRecords /\ r.at \notin AtRest
    BY <1>4 DEF OnlyMoved, AtRest
  <1>6. /\ signIn' \in [SignIns -> SignInRecords] /\ signIn'[s] = r
        /\ OthersSame(s) /\ NoneCanceled /\ Onward(s) /\ UnderWay(s)'
    BY <1>2, <1>4, <1>5, Replaced DEF OnlyMoved
  <1>7. /\ signIn'[s].at = "finishing" /\ signIn'[s].id = i /\ signIn'[s].new = signIn[s].new
        /\ signIn'[s].object = signIn[s].object /\ signIn'[s].existed = signIn[s].existed
        /\ signIn'[s].created = signIn[s].created /\ signIn'[s].lost = signIn[s].lost
    BY <1>4, <1>6 DEF OnlyMoved
  <1>8. "finishing" \notin Redirects /\ "finishing" \in Reserved /\ "finishing" \in Through
    BY DEF Redirects, Through, Reserved
  <1>9. put \/ kept
    BY DEF RegisterProvider
  <1>10. /\ instances' \in [Instances -> Nobodys] /\ instanceRows' \subseteq Instances
         /\ instanceRows \subseteq instanceRows'
         /\ \A j \in Instances : j # i =>
              /\ instances'[j] = instances[j]
              /\ j \in instanceRows' => j \in instanceRows \/ instances[j] # {}
    <2>1. CASE put
      BY <1>1, <1>2, <2>1
    <2>2. CASE kept
      BY <1>1, <2>2
    <2> QED
      BY <1>9, <2>1, <2>2
  <1> DEFINE held == IF put THEN signIn[s].object ELSE instances[i]
  <1>11. carried' = ReadBack(s, held) /\ held \subseteq Owners
    BY <1>1, <1>2, <1>9
  <1>12. credentials[i] \in Nobodys
    BY <1>1, <1>2
  <1>13. held = signIn[s].object \/ held = instances[i]
    OBVIOUS
  <1> HIDE DEF held, put, kept
  <1>14. /\ carried' \in [Owners -> Nobodys]
         /\ \A o \in Owners : carried'[o] = carried[o] \/ o \in held
         /\ kind # "antigravity" => carried' = carried
         /\ credentials[i] = {s} /\ kind = "antigravity" => \A o \in held : carried'[o] = {s}
    BY <1>1, <1>11, <1>12 DEF ReadBack
  <1>15. PlacedWell(s)'
    <2>1. signIn'[s].created => signIn[s].new /\ signIn'[s].at \in Reserved /\ signIn'[s].id \in Instances
      BY <1>1, <1>2, <1>7, <1>8 DEF PlacedWell
    <2> QED
      BY <1>2, <1>3, <1>6, <1>7, <1>8, <2>1, PlacedGood DEF SignInAt
  <1>16. \A j \in Instances : \A o \in instances'[j] : o \in instances[j] \/ Belongs(o, j)'
    <2> SUFFICES ASSUME NEW j \in Instances, NEW o \in instances'[j], o \notin instances[j]
                 PROVE  Belongs(o, j)'
      OBVIOUS
    <2>1. j = i /\ o \in signIn[s].object
      BY <1>1, <1>2, <1>9, <1>10 DEF put, kept
    <2>2. CASE signIn[s].new
      <3>1. o = s /\ Founder \notin SignIns
        BY <1>1, <1>2, <2>1, <2>2 DEF PlacedWell, Founder, SignIns
      <3> QED
        BY <1>7, <1>8, <2>1, <3>1 DEF Belongs
    <2>3. CASE ~signIn[s].new
      <3>1. o \in Owners /\ Belongs(o, j)
        BY <1>1, <2>1, <2>3 DEF PlacedWell
      <3> QED
        BY <1>2, <1>6, <3>1, BelongsStays
    <2> QED
      BY <2>2, <2>3
  <1>17. Undisturbed(s) /\ Undisturbed(s)' /\ SoFarGood(s) => SoFarGood(s)'
    <2> SUFFICES ASSUME SoFarGood(s) PROVE SoFarGood(s)'
      OBVIOUS
    <2>1. signIn[s].object # {}
      BY <1>1, <1>2 DEF PlacedWell, SoFarGood
    <2>2. ~signIn[s].new => signIn[s].object = instances[i]
      BY <1>2 DEF SoFarGood
    <2>3. instances'[i] = signIn[s].object /\ held = signIn[s].object
      <3>1. CASE put
        BY <1>1, <1>2, <3>1 DEF put, held
      <3>2. CASE kept /\ ~put
        BY <1>2, <2>2, <3>2 DEF kept, held, Registers
      <3> QED
        BY <1>9, <3>1, <3>2
    <2>4. \/ signIn[s].lost /\ kind # "antigravity"
          \/ i \in instanceRows /\ credentials[i] = {s}
      BY <1>2 DEF SoFarGood, SignInAt
    <2>5. \A o \in signIn[s].object : carried'[o] = {s}
      BY <1>2, <1>14, <2>3, <2>4 DEF SoFarGood
    <2>6. \E o \in instances'[i] : carried'[o] = {s}
      BY <2>1, <2>3, <2>5
    <2>7. signIn'[s].existed => signIn'[s].id \in instanceRows' /\ ~signIn'[s].created
      BY <1>7, <1>10 DEF SoFarGood
    <2>8. \/ signIn'[s].lost /\ kind' # "antigravity"
          \/ signIn'[s].id \in instanceRows' /\ credentials'[signIn'[s].id] = {s}
      BY <1>3, <1>7, <1>10, <2>4
    <2> QED
      BY <1>7, <2>1, <2>3, <2>6, <2>7, <2>8 DEF SoFarGood, SignInAt
  <1>18. KeptWhole(s)'
    BY <1>2, <1>3, <1>6, <1>17, GoodKept
  <1>19. FlowGoesOn(s) /\ OutcomesGoOn(s)
    BY <1>3, <1>6, <1>7 DEF FlowGoesOn, OutcomesGoOn
  <1>20. \A o \in Owners : \/ carried'[o] = carried[o]
                           \/ o \in signIn[s].object
                           \/ signIn[s].id \in Instances /\ o \in instances[signIn[s].id]
    BY <1>2, <1>13, <1>14
  <1> QED
    BY <1>1, <1>2, <1>3, <1>6, <1>7, <1>10, <1>14, <1>15, <1>16, <1>18, <1>19, <1>20, StepKeeps

\* How a sign-in ends.
LEMMA EndedSafe ==
  ASSUME SignInSafe, NEW s \in SignIns, UnderWay(s), NEW p \in {"failed", "done"}, Ended(s, p)
  PROVE  /\ signIn' \in [SignIns -> SignInRecords] /\ OthersSame(s) /\ NoneCanceled
         /\ Onward(s) /\ ~UnderWay(s)'
         /\ signIn'[s].at = p /\ signIn'[s].id = signIn[s].id /\ signIn'[s].new = signIn[s].new
         /\ signIn'[s].object = {} /\ signIn'[s].created = signIn[s].created
         /\ signIn'[s].existed = signIn[s].existed /\ signIn'[s].lost = signIn[s].lost
  <1>1. signIn \in [SignIns -> SignInRecords] /\ p \in SignInPlaces
    BY Facts DEF SignInPlaces, AtRest
  <1>2. /\ signIn' \in [SignIns -> SignInRecords] /\ OthersSame(s) /\ NoneCanceled
        /\ signIn'[s].at = p /\ signIn'[s].id = signIn[s].id /\ signIn'[s].new = signIn[s].new
        /\ signIn'[s].bare = signIn[s].bare /\ signIn'[s].object = {}
        /\ signIn'[s].created = signIn[s].created /\ signIn'[s].existed = signIn[s].existed
        /\ signIn'[s].lost = signIn[s].lost /\ signIn'[s].over = signIn[s].over
    BY <1>1, EndedWell
  <1>3. Onward(s) /\ ~UnderWay(s)'
    BY <1>2 DEF Onward, UnderWay, AtRest
  <1> QED
    BY <1>2, <1>3

\* The rollback takes the row that this creation made, and no other.
LEMMA UndoSafe ==
  ASSUME SignInSafe, NEW s \in SignIns, Recorded, Undo(s)
  PROVE  SignInSafe'
  <1>1. /\ PlacedWell(s) /\ credentials \in [Instances -> Nobodys] /\ {} \in Nobodys
        /\ carried \in [Owners -> Nobodys] /\ signIn[s].object \subseteq Owners
        /\ instances \in [Instances -> Nobodys] /\ instanceRows \subseteq Instances
    BY Facts DEF Nobodys
  <1>2. /\ UnderWay(s) /\ SignInAt(s, "undoing") /\ signIn[s].id \in Instances /\ signIn[s].new
        /\ signIn[s].at \notin Through
    BY <1>1 DEF Undo, PlacedWell, UnderWay, AtRest, SignInAt, Named, Through
  <1>3. /\ StepFrame /\ instances' = instances /\ carried' = carried /\ kind' = kind
        /\ activeFlow' = Marked(s, "error") /\ outcomes' = FailureKept(s)
        /\ instanceRows' = instanceRows \ Undone(s)
        /\ credentials' = [i \in Instances |-> IF i \in Undone(s) THEN {} ELSE credentials[i]]
    BY DEF Undo, StepFrame, Recorded, deletionVars, Fails
  <1>4. /\ signIn' \in [SignIns -> SignInRecords] /\ OthersSame(s) /\ NoneCanceled
        /\ Onward(s) /\ ~UnderWay(s)'
        /\ signIn'[s].at = "failed" /\ signIn'[s].id = signIn[s].id /\ signIn'[s].new = signIn[s].new
        /\ signIn'[s].object = {} /\ signIn'[s].created = signIn[s].created
        /\ signIn'[s].existed = signIn[s].existed /\ signIn'[s].lost = signIn[s].lost
    BY <1>2, EndedSafe DEF Undo, Fails
  <1>5. /\ signIn[s].created => Undone(s) = {signIn[s].id}
        /\ ~signIn[s].created => Undone(s) = {}
    BY DEF Undone
  <1>6. /\ credentials' \in [Instances -> Nobodys] /\ instanceRows' \subseteq Instances
        /\ \A i \in Instances : i # signIn[s].id =>
             credentials'[i] = credentials[i] /\ (i \in instanceRows <=> i \in instanceRows')
    BY <1>1, <1>3, <1>5
  <1>7. /\ signIn[s].created => signIn[s].id \notin instanceRows' /\ credentials'[signIn[s].id] = {}
        /\ ~signIn[s].created => instanceRows' = instanceRows
    BY <1>2, <1>3, <1>5
  <1>8. "failed" \notin Named \cup Redirects \cup Through /\ "failed" \in Reserved
    BY DEF Named, Redirects, Through, Reserved
  <1>9. PlacedWell(s)'
    <2>1. signIn'[s].created => signIn[s].new /\ signIn'[s].at \in Reserved /\ signIn'[s].id \in Instances
      BY <1>2, <1>4, <1>8
    <2> QED
      BY <1>2, <1>3, <1>4, <1>8, <2>1, PlacedGood DEF SignInAt
  <1>10. SoFarGood(s) => SoFarGood(s)'
    <2> SUFFICES ASSUME SoFarGood(s) PROVE SoFarGood(s)'
      OBVIOUS
    <2>1. signIn'[s].existed => signIn'[s].id \in instanceRows' /\ ~signIn'[s].created
      BY <1>4, <1>7 DEF SoFarGood
    <2>2. signIn'[s].created => credentials'[signIn'[s].id] = {} /\ signIn'[s].id \notin instanceRows'
      BY <1>4, <1>7
    <2>3. signIn'[s].at \notin Through \cup {"registering"}
      BY <1>4, <1>8
    <2> QED
      BY <1>4, <2>1, <2>2, <2>3 DEF SoFarGood, SignInAt
  <1>11. KeptWhole(s)'
    BY <1>2, <1>3, <1>4, <1>10, GoodKept
  <1>12. FlowGoesOn(s)
    BY <1>3, <1>4 DEF FlowGoesOn
  <1>13. OutcomesGoOn(s)
    BY <1>2, <1>3, <1>4, FailureKeptGoesOn
  <1> QED
    BY <1>1, <1>2, <1>3, <1>4, <1>6, <1>9, <1>11, <1>12, <1>13, StepKeeps

\* A sign-in that got through leaves its outcome.
LEMMA FinishSafe ==
  ASSUME SignInSafe, NEW s \in SignIns, Recorded, Finish(s)
  PROVE  SignInSafe'
  <1>1. /\ PlacedWell(s) /\ credentials \in [Instances -> Nobodys]
        /\ carried \in [Owners -> Nobodys] /\ signIn[s].object \subseteq Owners
        /\ instances \in [Instances -> Nobodys] /\ instanceRows \subseteq Instances
    BY Facts
  <1>2. /\ UnderWay(s) /\ SignInAt(s, "finishing") /\ signIn[s].id \in Instances
        /\ signIn[s].at \in Through
    BY <1>1 DEF Finish, PlacedWell, UnderWay, AtRest, SignInAt, Named, Through
  <1>3. /\ StepFrame /\ instances' = instances /\ carried' = carried /\ kind' = kind
        /\ instanceRows' = instanceRows /\ credentials' = credentials
        /\ activeFlow' = Marked(s, "complete")
    BY DEF Finish, StepFrame, Recorded, deletionVars, storedVars
  <1>4. /\ signIn' \in [SignIns -> SignInRecords] /\ OthersSame(s) /\ NoneCanceled
        /\ Onward(s) /\ ~UnderWay(s)'
        /\ signIn'[s].at = "done" /\ signIn'[s].id = signIn[s].id /\ signIn'[s].new = signIn[s].new
        /\ signIn'[s].object = {} /\ signIn'[s].created = signIn[s].created
        /\ signIn'[s].existed = signIn[s].existed /\ signIn'[s].lost = signIn[s].lost
    BY <1>2, EndedSafe DEF Finish
  <1>5. "done" \notin Redirects /\ "done" \in Through /\ "done" \in Reserved
    BY DEF Redirects, Through, Reserved
  <1>6. PlacedWell(s)'
    <2>1. signIn'[s].created => signIn[s].new /\ signIn'[s].at \in Reserved /\ signIn'[s].id \in Instances
      BY <1>1, <1>2, <1>4, <1>5 DEF PlacedWell
    <2> QED
      BY <1>2, <1>3, <1>4, <1>5, <2>1, PlacedGood DEF SignInAt
  <1>7. SoFarGood(s) => SoFarGood(s)'
    BY <1>2, <1>3, <1>4 DEF SoFarGood, SignInAt
  <1>8. KeptWhole(s)'
    BY <1>2, <1>3, <1>4, <1>7, GoodKept
  <1>9. FlowGoesOn(s)
    BY <1>2, <1>3, <1>4 DEF FlowGoesOn
  <1>10. OutcomesGoOn(s)
    BY <1>2, <1>4 DEF OutcomesGoOn, Finish
  <1> QED
    BY <1>1, <1>2, <1>3, <1>4, <1>5, <1>6, <1>8, <1>9, <1>10, StepKeeps

\* Whoever signed in to instance i before sign-in s.
LEMMA TakenOverWell ==
  ASSUME SignInSafe, NEW s \in SignIns, NEW i \in Instances, NEW r \in SignInRecords, NEW ins,
         ins = [signIn EXCEPT ![s] = r], signIn' = TakenOver(i, s, ins)
  PROVE  /\ signIn' \in [SignIns -> SignInRecords] /\ signIn'[s] = r /\ OthersSame(s)
         /\ \A t \in SignIns \ {s} : /\ signIn'[t].canceled = signIn[t].canceled
                                     /\ signIn[t].id = i => signIn'[t].over
  <1>1. signIn \in [SignIns -> SignInRecords]
    BY Facts
  <1>2. signIn' = [t \in SignIns |-> IF t # s /\ ins[t].id = i THEN [ins[t] EXCEPT !.over = TRUE] ELSE ins[t]]
    BY DEF TakenOver
  <1>3. signIn'[s] = r
    BY <1>1, <1>2
  <1>4. ASSUME NEW t \in SignIns \ {s}
        PROVE  /\ Same(t) /\ signIn'[t] \in SignInRecords /\ signIn'[t].canceled = signIn[t].canceled
               /\ signIn[t].id = i => signIn'[t].over
    <2>1. ins[t] = signIn[t] /\ signIn[t] \in SignInRecords /\ PlacedWell(t)
      BY <1>1, Facts
    <2>2. CASE signIn[t].id = i
      <3> DEFINE q == [signIn[t] EXCEPT !.over = TRUE]
      <3>1. signIn'[t] = q
        BY <1>2, <2>1, <2>2
      <3>2. /\ q \in SignInRecords /\ q.over = TRUE /\ q.at = signIn[t].at /\ q.id = signIn[t].id
            /\ q.new = signIn[t].new /\ q.bare = signIn[t].bare /\ q.object = signIn[t].object
            /\ q.canceled = signIn[t].canceled /\ q.existed = signIn[t].existed
            /\ q.created = signIn[t].created /\ q.lost = signIn[t].lost
        BY <2>1, RecordOver
      <3> HIDE DEF q
      <3>3. ~SignInAt(t, "out")
        BY <2>1, <2>2, NamesDiffer DEF PlacedWell, NoSignIn
      <3> QED
        BY <3>1, <3>2, <3>3 DEF Same
    <2>3. CASE signIn[t].id # i
      BY <1>2, <2>1, <2>3 DEF Same
    <2> QED
      BY <2>2, <2>3
  <1>5. signIn' \in [SignIns -> SignInRecords]
    BY <1>2, <1>3, <1>4
  <1> QED
    BY <1>3, <1>4, <1>5 DEF OthersSame

\* GitHub answers a device flow with an account, or with an error.
LEMMA PolledSafe ==
  ASSUME SignInSafe, NEW s \in SignIns, Recorded, Polled(s)
  PROVE  SignInSafe'
  <1>1. /\ PlacedWell(s) /\ credentials \in [Instances -> Nobodys] /\ signIn[s] \in SignInRecords
        /\ carried \in [Owners -> Nobodys] /\ signIn[s].object \subseteq Owners
        /\ instances \in [Instances -> Nobodys] /\ instanceRows \subseteq Instances
        /\ signIn \in [SignIns -> SignInRecords]
    BY Facts
  <1>2. /\ UnderWay(s) /\ SignInAt(s, "polling") /\ kind = "device" /\ ~signIn[s].created
        /\ signIn[s].at \notin Through \cup {"registering"} \cup Redirects /\ ~SignInAt(s, "out")
        /\ ~signIn[s].new => signIn[s].id \in Instances
        /\ signIn[s].new => signIn[s].id = NoInstance
    BY <1>1 DEF Polled, PlacedWell, UnderWay, AtRest, SignInAt, Reserved, Through, Redirects
  <1>3. /\ StepFrame /\ instances' = instances /\ credentials' = credentials /\ kind' = kind
        /\ instanceRows' = instanceRows /\ outcomes' = outcomes
    BY DEF Polled, StepFrame, Recorded, deletionVars
  <1>4. /\ Given(s) \in [Owners -> Nobodys]
        /\ \A o \in Owners : Given(s)[o] = carried[o] \/ o \in signIn[s].object
    BY GivenAway
  <1>5. OutcomesGoOn(s)
    BY <1>3 DEF OutcomesGoOn
  <1>6. ASSUME carried' = Given(s), UNCHANGED activeFlow, signIn[s].new, NEW i \in Accounts,
               signIn' = TakenOver(i, s, [signIn EXCEPT ![s].at = "reserving", ![s].id = i,
                                                        ![s].existed = i \in instanceRows])
        PROVE  SignInSafe'
    <2> DEFINE q == [signIn[s] EXCEPT !.at = "reserving"]
               p == [q EXCEPT !.id = i]
               was == i \in instanceRows
               r == [p EXCEPT !.existed = was]
               ins == [signIn EXCEPT ![s].at = "reserving", ![s].id = i, ![s].existed = i \in instanceRows]
    <2>1. i \in Instances /\ "reserving" \in SignInPlaces /\ was \in BOOLEAN /\ i # NoInstance
      BY NamesDiffer DEF Accounts, SignInPlaces
    <2>2. /\ q \in SignInRecords /\ q.at = "reserving" /\ q.id = signIn[s].id /\ q.new = signIn[s].new
          /\ q.bare = signIn[s].bare /\ q.object = signIn[s].object /\ q.created = signIn[s].created
          /\ q.canceled = signIn[s].canceled /\ q.existed = signIn[s].existed
          /\ q.lost = signIn[s].lost /\ q.over = signIn[s].over
      BY <1>1, <2>1, RecordAt
    <2>3. ins = [signIn EXCEPT ![s] = r]
      BY <1>1 DEF SignInRecords
    <2>4. signIn' = TakenOver(i, s, ins)
      BY <1>6
    <2> HIDE DEF ins, q, was
    <2>5. /\ p \in SignInRecords /\ p.at = q.at /\ p.id = i /\ p.new = q.new
          /\ p.bare = q.bare /\ p.object = q.object /\ p.created = q.created
          /\ p.canceled = q.canceled /\ p.existed = q.existed
          /\ p.lost = q.lost /\ p.over = q.over
      BY <2>1, <2>2, RecordId
    <2> HIDE DEF p
    <2>6. /\ r \in SignInRecords /\ r.at = p.at /\ r.id = p.id /\ r.new = p.new
          /\ r.bare = p.bare /\ r.object = p.object /\ r.created = p.created
          /\ r.canceled = p.canceled /\ r.existed = was
          /\ r.lost = p.lost /\ r.over = p.over
      BY <2>1, <2>5, RecordExisted
    <2> HIDE DEF r
    <2>7. /\ signIn' \in [SignIns -> SignInRecords] /\ signIn'[s] = r /\ OthersSame(s)
          /\ \A t \in SignIns \ {s} : /\ signIn'[t].canceled = signIn[t].canceled
                                      /\ signIn[t].id = i => signIn'[t].over
      BY <2>1, <2>3, <2>4, <2>6, TakenOverWell
    <2>8. /\ signIn'[s].at = "reserving" /\ signIn'[s].id = i /\ signIn'[s].new = signIn[s].new
          /\ signIn'[s].bare = signIn[s].bare /\ signIn'[s].object = signIn[s].object
          /\ signIn'[s].created = signIn[s].created /\ signIn'[s].canceled = signIn[s].canceled
          /\ signIn'[s].existed = was /\ signIn'[s].over = signIn[s].over
      BY <2>2, <2>5, <2>6, <2>7
    <2>9. NoneCanceled /\ Onward(s) /\ UnderWay(s)'
      BY <1>2, <1>6, <2>1, <2>7, <2>8 DEF NoneCanceled, Onward, UnderWay, AtRest
    <2>10. "reserving" \notin Redirects \cup Through
      BY DEF Redirects, Through
    <2>11. PlacedWell(s)'
      BY <1>2, <1>3, <1>6, <2>1, <2>7, <2>8, <2>9, <2>10, PlacedGood DEF SignInAt
    <2>12. SoFarGood(s) => SoFarGood(s)'
      <3>1. signIn'[s].existed => signIn'[s].id \in instanceRows' /\ ~signIn'[s].created
        BY <1>2, <1>3, <2>8 DEF was
      <3> QED
        BY <1>6, <2>8, <2>10, <3>1 DEF SoFarGood, SignInAt
    <2>13. KeptWhole(s)'
      BY <1>2, <1>3, <2>7, <2>9, <2>12, GoodKept
    <2>14. FlowGoesOn(s)
      BY <1>6, <2>8, <2>9 DEF FlowGoesOn
    <2>15. \A t \in SignIns \ {s} : signIn[t].id = signIn'[s].id => signIn'[t].over
      BY <2>7, <2>8
    <2>16. /\ carried' \in [Owners -> Nobodys]
           /\ \A o \in Owners : carried'[o] = carried[o] \/ o \in signIn[s].object
      BY <1>4, <1>6
    <2> QED
      BY <1>1, <1>2, <1>3, <1>5, <2>7, <2>9, <2>11, <2>13, <2>14, <2>15, <2>16, StepKeeps
  <1>7. CASE carried' = Given(s) /\ UNCHANGED activeFlow /\ ~signIn[s].new /\ MoveTo(s, "saving")
    <2>1. signIn'[s].at = "saving"
      BY <1>1, <1>7, Moved DEF SignInPlaces
    <2>2. FlowGoesOn(s)
      BY <1>7, <2>1 DEF FlowGoesOn, UnderWay, AtRest
    <2>3. "saving" \notin Redirects
      BY DEF Redirects
    <2> QED
      BY <1>2, <1>3, <1>4, <1>5, <1>7, <2>2, <2>3, MovesOn
  <1>8. CASE /\ Ended(s, "failed")
             /\ activeFlow' = IF signIn[s].canceled THEN activeFlow ELSE Marked(s, "error")
             /\ \/ UNCHANGED carried
                \/ ~signIn[s].new /\ carried' = Given(s)
    <2>1. signIn'[s].at = "failed" /\ signIn'[s].id = signIn[s].id
      BY <1>2, <1>8, EndedSafe
    <2>2. FlowGoesOn(s)
      BY <1>8, <2>1, NoFlow DEF FlowGoesOn
    <2>3. carried' \in [Owners -> Nobodys] /\ \A o \in Owners : carried'[o] = carried[o] \/ o \in signIn[s].object
      BY <1>1, <1>4, <1>8
    <2> QED
      BY <1>1, <1>2, <1>3, <1>5, <1>8, <2>2, <2>3, Quits
  <1> QED
    BY <1>6, <1>7, <1>8 DEF Polled

\* GitHub gives no code.
LEMMA RefusedSafe ==
  ASSUME SignInSafe, NEW s \in SignIns, Recorded, SignInAt(s, "coding"), Ended(s, "refused"),
         UNCHANGED <<activeFlow, kind, storedVars, outcomes, loginFlow, deletionVars>>
  PROVE  SignInSafe'
  <1>1. /\ PlacedWell(s) /\ credentials \in [Instances -> Nobodys] /\ carried \in [Owners -> Nobodys]
    BY Facts
  <1>2. /\ UnderWay(s) /\ ~signIn[s].created /\ signIn[s].at \notin Through
    BY <1>1 DEF PlacedWell, UnderWay, AtRest, SignInAt, Reserved, Through
  <1>3. StepFrame
    BY DEF StepFrame, Recorded, deletionVars
  <1>4. FlowGoesOn(s) /\ OutcomesGoOn(s)
    BY NoFlow DEF FlowGoesOn, OutcomesGoOn, SignInAt
  <1> QED
    BY <1>1, <1>2, <1>3, <1>4, Quits DEF storedVars

\* Registered objects go on to belong where they are.
LEMMA RegistryStays ==
  ASSUME SignInSafe, instances' = instances,
         \A t \in SignIns : signIn[t].at \in Through => signIn'[t].at \in Through /\ signIn'[t].id = signIn[t].id
  PROVE  RegistryKept'
  <1>1. \A o \in Owners, i \in Instances : Belongs(o, i) => Belongs(o, i)'
    BY DEF Belongs, Owners
  <1>2. \A i \in Instances : \A o \in instances[i] : Belongs(o, i) /\ o \in Owners
    <2>1. \A i \in Instances : instances[i] \in Nobodys
      BY DEF SignInSafe, SignInTypes
    <2> QED
      BY <2>1 DEF SignInSafe, RegistryKept, Nobodys
  <1> QED
    BY <1>1, <1>2 DEF RegistryKept, Instances

\* Types, conjunct by conjunct.
LEMMA TypesStay ==
  ASSUME kind' \in SignInKinds, signIn' \in [SignIns -> SignInRecords],
         instanceRows' \subseteq Instances, deleting' \subseteq Instances,
         credentials' \in [Instances -> Nobodys], instances' \in [Instances -> Nobodys],
         carried' \in [Owners -> Nobodys], outcomes' \in [Instances -> SUBSET Results],
         loginFlow' \in [SignIns -> [at : Told, id : 0..PendingInstance, own : BOOLEAN]],
         visits' \in 0..MaxVisits, disturbed' \subseteq SignIns,
         \A a, b \in activeFlow' : a = b,
         \A i \in Instances : \A r, q \in outcomes'[i] : r = q,
         kind' \notin {"openai", "antigravity"} => \A i \in Instances : outcomes'[i] = {}
  PROVE  SignInTypes'
  BY DEF SignInTypes, SignIns, Instances, SignInRecords, Owners, Results, SignInKinds, Nobodys, Founder,
     SignInPlaces, AtRest, NoInstance, Told, PendingInstance

\* GitHub gives a code, and the flow becomes the active one.
LEMMA GotCodeSafe ==
  ASSUME SignInSafe, NEW s \in SignIns, Recorded, SignInAt(s, "coding"), MoveTo(s, "polling"),
         activeFlow' = {[of |-> s, id |-> FlowName(s), status |-> "awaiting_user"]},
         UNCHANGED <<kind, storedVars, outcomes, loginFlow, deletionVars>>
  PROVE  SignInSafe'
  <1>1. /\ PlacedWell(s) /\ signIn \in [SignIns -> SignInRecords] /\ "polling" \in SignInPlaces
        /\ signIn[s] \in SignInRecords
    BY Facts DEF SignInPlaces
  <1>2. /\ UnderWay(s) /\ ~signIn[s].created /\ signIn[s].at \notin Through \cup {"registering", "failed"}
        /\ kind = "device" /\ ~signIn[s].bare /\ ~signIn[s].canceled
        /\ ~signIn[s].new => signIn[s].id \in Instances
        /\ loginFlow[s].at # "pending"
    BY <1>1 DEF PlacedWell, UnderWay, AtRest, SignInAt, Reserved, Through
  <1>3. /\ StepFrame /\ kind' = kind /\ storedVars' = storedVars /\ outcomes' = outcomes
        /\ loginFlow' = loginFlow /\ deleting' = deleting
        /\ disturbed \subseteq disturbed' /\ disturbed' \subseteq SignIns
    BY DEF StepFrame, Recorded, deletionVars, SignInSafe, SignInTypes, Crossing
  <1>4. /\ signIn' \in [SignIns -> SignInRecords] /\ OthersSame(s) /\ NoneCanceled
        /\ signIn'[s].at = "polling" /\ signIn'[s].id = signIn[s].id /\ signIn'[s].new = signIn[s].new
        /\ signIn'[s].bare = signIn[s].bare /\ signIn'[s].object = signIn[s].object
        /\ signIn'[s].created = signIn[s].created /\ signIn'[s].existed = signIn[s].existed
        /\ signIn'[s].lost = signIn[s].lost /\ signIn'[s].over = signIn[s].over
    BY <1>1, Moved
  <1>5. Onward(s) /\ UnderWay(s)'
    BY <1>4 DEF Onward, UnderWay, AtRest
  <1>6. "polling" \notin Named \cup Redirects \cup Through
    BY DEF Named, Redirects, Through
  <1>7. \A t \in SignIns : PlacedWell(t)'
    <2>1. PlacedWell(s)'
      BY <1>2, <1>3, <1>4, <1>5, <1>6, PlacedGood DEF SignInAt
    <2> QED
      BY <1>2, <1>3, <1>4, <2>1, OthersPlaced
  <1>8. \A t \in SignIns : KeptWhole(t)'
    <2>1. SoFarGood(s) => SoFarGood(s)'
      BY <1>2, <1>3, <1>4, <1>6 DEF SoFarGood, SignInAt, storedVars
    <2>2. KeptWhole(s)'
      BY <1>2, <1>3, <1>4, <1>5, <2>1, GoodKept
    <2> QED
      BY <1>2, <1>3, <1>4, <2>2, OthersKept DEF storedVars
  <1>9. RegistryKept'
    <2>1. \A t \in SignIns : signIn[t].at \in Through => signIn'[t].at \in Through /\ signIn'[t].id = signIn[t].id
      BY <1>2, <1>4 DEF OthersSame, Same
    <2> QED
      BY <1>3, <2>1, RegistryStays DEF storedVars
  <1>10. \A i \in Instances : \A r \in outcomes'[i] : ResultKept(r)'
    BY <1>2, <1>3, <1>4, ResultsKept
  <1>11. PICK f : f = [of |-> s, id |-> FlowName(s), status |-> "awaiting_user"]
    OBVIOUS
  <1>12. /\ f.of = s /\ f.id = FlowName(s) /\ f.status = "awaiting_user" /\ f \in Flows
         /\ \A a \in activeFlow' : a = f
    <2>1. FlowName(s) \in 1..PendingInstance
      BY <1>2, SignInsAssumption DEF FlowName, PendingInstance, Instances
    <2> QED
      BY <1>11, <2>1 DEF Flows
  <1>13. \A t \in SignIns \ {s} : signIn'[t].new /\ ~signIn'[t].bare /\ signIn[s].new /\ IsOpen(t)' =>
           {s, t} \subseteq disturbed'
    <2> SUFFICES ASSUME NEW t \in SignIns \ {s}, signIn'[t].new, ~signIn'[t].bare, signIn[s].new, IsOpen(t)'
                 PROVE  {s, t} \subseteq disturbed'
      OBVIOUS
    <2>1. SameName(s, t)' /\ SameName(t, s)'
      BY <1>2, <1>3, <1>4, <1>5 DEF SameName, IsOpen
    <2>2. s \in Crossing' /\ t \in Crossing'
      BY <2>1 DEF Crossing, SignIns
    <2> QED
      BY <2>2 DEF Recorded
  <1>14. FlowKept(f)'
    <2>1. f.id = PendingInstance => signIn[s].new
      BY <1>2, <1>12, NamesDiffer DEF FlowName
    <2>2. f.id = FlowName(s)'
      BY <1>4, <1>12 DEF FlowName, PendingInstance
    <2>3. \A t \in SignIns : t # s /\ UnderWay(t)' /\ signIn'[t].new /\ signIn'[s].new => {t, s} \subseteq disturbed'
      BY <1>4, <1>7, <1>13 DEF IsOpen, PlacedWell
    <2>4. ~signIn'[s].canceled
      BY <1>2, <1>4 DEF NoneCanceled
    <2> QED
      BY <1>2, <1>3, <1>4, <1>5, <1>12, <2>1, <2>2, <2>3, <2>4 DEF FlowKept, Flows, PendingInstance, SignIns
  <1>15. ASSUME NEW t \in SignIns PROVE LoginKept(t)'
    <2>1. PlacedWell(t)' /\ KeptWhole(t)' /\ PlacedWell(t) /\ signIn'[t] \in SignInRecords
      BY <1>4, <1>7, <1>8, Facts
    <2>2. /\ signIn[t].over => signIn'[t].over
          /\ signIn[t].at \in {"done", "failed"} => signIn'[t].at = signIn[t].at
          /\ signIn'[t].new = signIn[t].new /\ signIn'[t].id = signIn[t].id
      BY <1>2, <1>4 DEF OthersSame, Same, Through, SignInAt
    <2>3. signIn'[t].id # PendingInstance
      BY <2>1, NamesDiffer DEF SignInRecords, PendingInstance
    <2>4. ASSUME loginFlow[t].at = "pending", Undisturbed(t)', NEW a \in activeFlow', a.of # t
          PROVE  /\ signIn[t].new => ~signIn'[a.of].new
                 /\ loginFlow[t].id = signIn[t].id => a.id # signIn[t].id
      <3>1. a = f /\ t # s /\ t \notin disturbed'
        BY <1>2, <1>12, <2>4 DEF Undisturbed
      <3>2. IsOpen(t)' /\ ~signIn'[t].bare
        BY <1>3, <2>1, <2>4 DEF IsOpen, PlacedWell
      <3>3. signIn[t].new => ~signIn[s].new
        BY <1>13, <2>2, <3>1, <3>2
      <3>4. ~signIn[s].new => signIn[s].id # signIn[t].id
        BY <1>2, <1>4, <1>5, <2>1, <2>2, <2>4, <3>1, NamesDiffer DEF KeptWhole
      <3>5. f.id # signIn[t].id
        BY <1>12, <2>2, <2>3, <3>4 DEF FlowName
      <3> QED
        BY <1>4, <1>12, <3>1, <3>3, <3>5
    <2> QED
      BY <1>2, <1>3, <2>2, <2>3, <2>4, LoginCore
  <1>16. SignInTypes'
    <2>1. \A a, b \in activeFlow' : a = b
      BY <1>12
    <2>2. SignInTypes
      BY DEF SignInSafe
    <2> QED
      BY <1>3, <1>4, <2>1, <2>2, TypesStay DEF SignInTypes, StepFrame, storedVars
  <1>17. \A a \in activeFlow' : FlowKept(a)'
    BY <1>12, <1>14
  <1> QED
    BY <1>7, <1>8, <1>9, <1>10, <1>15, <1>16, <1>17 DEF SignInSafe, SignIns, Instances

\* The record of a sign-in that begins.
LEMMA FreshRecord ==
  /\ NoSignIn \in SignInRecords /\ NoSignIn.at = "out" /\ NoSignIn.id = NoInstance
  /\ NoSignIn.new /\ ~NoSignIn.bare /\ NoSignIn.object = {} /\ ~NoSignIn.created
  /\ ~NoSignIn.canceled /\ ~NoSignIn.existed /\ ~NoSignIn.lost /\ ~NoSignIn.over
  BY DEF NoSignIn, SignInRecords, SignInPlaces, AtRest, Nobodys

\* The record of a sign-in that begins.
BeginsAs(r, i, new, place, was, o) ==
  r = [NoSignIn EXCEPT !.at = place, !.id = i, !.new = new, !.existed = was, !.object = o]
LEMMA BegunRecord ==
  ASSUME NEW i \in Instances, NEW new \in BOOLEAN, NEW place \in SignInPlaces, NEW was \in BOOLEAN,
         NEW o \in Nobodys, NEW r,
         BeginsAs(r, i, new, place, was, o)
  PROVE  /\ r \in SignInRecords /\ r.at = place /\ r.id = i /\ r.new = new /\ r.existed = was /\ r.object = o
         /\ ~r.bare /\ ~r.created /\ ~r.canceled /\ ~r.lost /\ ~r.over
  <1> DEFINE none == NoSignIn
             a == [none EXCEPT !.at = place]
             b == [a EXCEPT !.id = i]
             c == [b EXCEPT !.new = new]
             d == [c EXCEPT !.existed = was]
             e == [d EXCEPT !.object = o]
  <1>1. /\ none \in SignInRecords /\ ~none.bare /\ ~none.created
        /\ ~none.canceled /\ ~none.lost /\ ~none.over
    BY FreshRecord
  <1>2. r = [none EXCEPT !.at = place, !.id = i, !.new = new, !.existed = was, !.object = o]
    BY DEF BeginsAs
  <1> HIDE DEF none
  <1>3. r = e
    BY <1>1, <1>2 DEF SignInRecords
  <1>4. /\ a \in SignInRecords /\ a.at = place /\ a.bare = none.bare /\ a.created = none.created
        /\ a.canceled = none.canceled /\ a.lost = none.lost /\ a.over = none.over
    BY <1>1, RecordAt
  <1> HIDE DEF a
  <1>5. /\ b \in SignInRecords /\ b.at = a.at /\ b.id = i /\ b.bare = a.bare /\ b.created = a.created
        /\ b.canceled = a.canceled /\ b.lost = a.lost /\ b.over = a.over
    BY <1>4, RecordId
  <1> HIDE DEF b
  <1>6. /\ c \in SignInRecords /\ c.at = b.at /\ c.id = b.id /\ c.new = new /\ c.bare = b.bare
        /\ c.created = b.created /\ c.canceled = b.canceled /\ c.lost = b.lost /\ c.over = b.over
    BY <1>5, RecordNew
  <1> HIDE DEF c
  <1>7. /\ d \in SignInRecords /\ d.at = c.at /\ d.id = c.id /\ d.new = c.new /\ d.existed = was
        /\ d.bare = c.bare /\ d.created = c.created /\ d.canceled = c.canceled /\ d.lost = c.lost
        /\ d.over = c.over
    BY <1>6, RecordExisted
  <1> HIDE DEF d
  <1>8. /\ e \in SignInRecords /\ e.at = d.at /\ e.id = d.id /\ e.new = d.new /\ e.existed = d.existed
        /\ e.object = o /\ e.bare = d.bare /\ e.created = d.created /\ e.canceled = d.canceled
        /\ e.lost = d.lost /\ e.over = d.over
    BY <1>7, RecordObject
  <1> HIDE DEF e
  <1>9. r \in SignInRecords /\ r.at = place /\ r.id = i /\ r.object = o
    BY <1>3, <1>4, <1>5, <1>6, <1>7, <1>8
  <1>10. r.new = new /\ r.existed = was
    BY <1>3, <1>6, <1>7, <1>8
  <1>11. ~r.bare /\ ~r.created
    BY <1>1, <1>3, <1>4, <1>5, <1>6, <1>7, <1>8
  <1>12. ~r.canceled /\ ~r.lost /\ ~r.over
    BY <1>1, <1>3, <1>4, <1>5, <1>6, <1>7, <1>8
  <1> QED
    BY <1>9, <1>10, <1>11, <1>12

\* A sign-in s begins, and whoever signed in to its instance before is told so.
LEMMA BeginsWell ==
  ASSUME SignInSafe, NEW s \in SignIns, SignInAt(s, "out"), Recorded,
         UNCHANGED <<kind, storedVars, outcomes, loginFlow, deletionVars>>,
         signIn' \in [SignIns -> SignInRecords], OthersSame(s),
         \A t \in SignIns \ {s} :
           /\ signIn[t].id = signIn'[s].id /\ signIn'[s].id # NoInstance => signIn'[t].over
           /\ SignInAt(t, "coding") /\ signIn'[t].canceled => signIn[t].canceled,
         \/ activeFlow' = {}
         \/ /\ activeFlow' = activeFlow /\ (kind = "device" => ~signIn'[s].new)
            /\ \A t \in SignIns \ {s} : signIn'[t].canceled => signIn[t].canceled,
         UnderWay(s)', PlacedWell(s)', SoFarGood(s)'
  PROVE  SignInSafe'
  <1>1. /\ PlacedWell(s) /\ signIn[s] = NoSignIn /\ loginFlow[s].at = "none"
        /\ ~signIn[s].over /\ signIn[s].at = "out" /\ ~UnderWay(s)
    BY Facts, FreshRecord DEF PlacedWell, SignInAt, UnderWay, AtRest
  <1>2. /\ kind' = kind /\ storedVars' = storedVars /\ outcomes' = outcomes /\ loginFlow' = loginFlow
        /\ deleting' = deleting /\ visits' = visits
        /\ disturbed \subseteq disturbed' /\ disturbed' \subseteq SignIns
    BY DEF Recorded, deletionVars, SignInSafe, SignInTypes, Crossing
  <1>3. \A t \in SignIns : signIn[t].at \in Through => signIn'[t].at \in Through /\ signIn'[t].id = signIn[t].id
    BY <1>1 DEF OthersSame, Same, Through
  <1>4. \A t \in SignIns : PlacedWell(t)'
    <2>1. ASSUME NEW t \in SignIns \ {s} PROVE PlacedWell(t)'
      BY <1>2, <1>3, PlacedCore DEF OthersSame
    <2> QED
      BY <2>1
  <1>5. KeptWhole(s)'
    <2> SUFFICES ASSUME Undisturbed(s)' PROVE KeptWhole(s)'
      BY DEF KeptWhole
    <2>1. s \notin Crossing'
      BY DEF Undisturbed, Recorded
    <2>2. signIn'[s].id \notin deleting'
      BY <2>1 DEF Crossing, SignIns
    <2>3. \A t \in SignIns \ {s} :
            ~(UnderWay(t)' /\ signIn'[s].id = signIn'[t].id /\ signIn'[s].id # NoInstance)
      BY <2>1 DEF Crossing, SignIns, NoInstance
    <2> QED
      BY <2>2, <2>3 DEF KeptWhole, SoFarGood, SignInAt, UnderWay, Through, SignIns, NoInstance
  <1>6. ASSUME NEW t \in SignIns \ {s} PROVE KeptWhole(t)'
    <2>1. Same(t) /\ KeptWhole(t) /\ (Undisturbed(t)' => Undisturbed(t)) /\ signIn[t].object \subseteq Owners
      BY <1>2, Facts DEF OthersSame, Same, Undisturbed
    <2>2. ASSUME Undisturbed(t)', NEW u \in SignIns \ {t}, signIn'[u].id = signIn[t].id,
                 signIn[t].id # NoInstance
          PROVE  ~UnderWay(u)'
      <3>1. u # s
        BY <2>2 DEF Undisturbed
      <3> QED
        BY <2>1, <2>2, <3>1 DEF KeptWhole, OthersSame, Same, UnderWay
    <2>3. Undisturbed(t)' => signIn[t].id \notin deleting'
      BY <1>2, <2>1 DEF KeptWhole
    <2> QED
      BY <1>2, <2>1, <2>2, <2>3, KeptCore DEF storedVars
  <1>7. \A a \in activeFlow : a.of \in SignIns \ {s} /\ FlowKept(a) /\ kind = "device" /\ Same(a.of)
    BY <1>1 DEF SignInSafe, FlowKept, Flows, OthersSame
  <1>8. ASSUME NEW t \in SignIns PROVE LoginKept(t)'
    <2>1. /\ signIn[t].over => signIn'[t].over
          /\ signIn[t].at \in {"done", "failed"} => signIn'[t].at = signIn[t].at
          /\ loginFlow[t].at = "pending" => signIn'[t].new = signIn[t].new /\ signIn'[t].id = signIn[t].id
      BY <1>1 DEF OthersSame, Same
    <2>2. signIn'[t].id # PendingInstance
      <3>1. signIn'[t] \in SignInRecords
        OBVIOUS
      <3> QED
        BY <3>1, NamesDiffer DEF SignInRecords, PendingInstance
    <2>3. ASSUME kind = "device", loginFlow[t].at = "pending", Undisturbed(t)', loginFlow[t].own,
                 NEW a \in activeFlow', a.of # t
          PROVE  /\ signIn[t].new => ~signIn'[a.of].new
                 /\ loginFlow[t].id = signIn[t].id => a.id # signIn[t].id
      <3>1. a \in activeFlow /\ signIn'[a.of].new = signIn[a.of].new
        BY <1>7, <2>3 DEF Same
      <3>2. Undisturbed(t) /\ LoginKept(t)
        BY <1>2, <2>1, <2>3, Facts DEF Undisturbed
      <3> QED
        BY <2>3, <3>1, <3>2 DEF LoginKept
    <2> QED
      BY <1>2, <2>1, <2>2, <2>3, LoginCore
  <1>9. ASSUME NEW a \in activeFlow' PROVE FlowKept(a)'
    <2>1. /\ a \in activeFlow /\ activeFlow' = activeFlow /\ (kind = "device" => ~signIn'[s].new)
          /\ \A t \in SignIns \ {s} : signIn'[t].canceled => signIn[t].canceled
      BY <1>9
    <2>2. /\ Same(a.of) /\ UnderWay(a.of)' = UnderWay(a.of) /\ FlowKept(a) /\ a.of \in SignIns \ {s}
          /\ ~signIn'[s].new
      BY <1>7, <2>1 DEF Same, UnderWay
    <2>3. \A t \in SignIns \ {a.of} : UnderWay(t)' /\ signIn'[t].new => UnderWay(t) /\ signIn[t].new
      BY <2>2 DEF OthersSame, Same, UnderWay
    <2>4. signIn'[a.of].at \notin {"out", "coding", "refused"}
      BY <2>2 DEF FlowKept, Same
    <2> QED
      BY <1>2, <2>1, <2>2, <2>3, <2>4, FlowCore DEF Same
  <1>10. ASSUME NEW i \in Instances, NEW r \in outcomes'[i] PROVE ResultKept(r)'
    <2>1. ResultKept(r) /\ r.of \in SignIns
      BY <1>2, <1>10 DEF SignInSafe, ResultKept, Results
    <2>2. r.of # s
      BY <1>1, <2>1 DEF ResultKept, SignInAt
    <2> QED
      BY <2>1, <2>2 DEF ResultKept, OthersSame, Same, SignInAt, Results, SignIns
  <1>11. RegistryKept'
    BY <1>2, <1>3, RegistryStays DEF storedVars
  <1>12. SignInTypes'
    <2>1. SignInTypes
      BY DEF SignInSafe
    <2>2. \A a, b \in activeFlow' : a = b
      BY <2>1 DEF SignInTypes
    <2> QED
      BY <1>2, <2>1, <2>2, TypesStay DEF SignInTypes, storedVars
  <1> QED
    BY <1>4, <1>5, <1>6, <1>8, <1>9, <1>10, <1>11, <1>12 DEF SignInSafe, SignIns, Instances

\* Only the place, the instance and the object of the record tell where a sign-in that begins is.
LEMMA BegunPlaced ==
  ASSUME SignInSafe, NEW s \in SignIns, SignInAt(s, "out"),
         UNCHANGED <<kind, storedVars, loginFlow>>, OthersSame(s),
         signIn'[s].at \in {"reserving", "saving", "coding", "polling", "queued", "redirecting"},
         signIn'[s].at \in {"coding", "polling"} => kind = "device",
         signIn'[s].at \in {"queued", "redirecting"} => kind \in {"openai", "antigravity"},
         SignInAt(s, "reserving")' => signIn'[s].new,
         \/ signIn'[s].id \in Instances /\ (kind = "device" => ~signIn'[s].new)
         \/ signIn'[s].id = NoInstance /\ signIn'[s].new /\ SignInAt(s, "coding")',
         signIn'[s].bare => ~signIn'[s].new /\ SignInAt(s, "polling")',
         ~signIn'[s].created, ~signIn'[s].canceled,
         signIn'[s].new => signIn'[s].object = {s},
         ~signIn'[s].new => signIn'[s].object = instances[signIn'[s].id]
  PROVE  PlacedWell(s)' /\ UnderWay(s)'
  <1>1. /\ PlacedWell(s) /\ RegistryKept /\ \A i \in Instances : instances[i] \subseteq Owners
        /\ signIn[s].at \notin Through /\ loginFlow[s].at = "none" /\ loginFlow' = loginFlow /\ kind' = kind
    BY Facts DEF SignInSafe, PlacedWell, SignInAt, Through
  <1>2. UnderWay(s)' /\ ~SignInAt(s, "out")'
    BY DEF UnderWay, AtRest, SignInAt
  <1>3. (~signIn[s].new => \A o \in signIn[s].object : Belongs(o, signIn[s].id))'
    <2> SUFFICES ASSUME ~signIn'[s].new, NEW o \in signIn'[s].object PROVE Belongs(o, signIn[s].id)'
      OBVIOUS
    <2>1. PICK i \in Instances : i = signIn'[s].id
      BY DEF SignInAt
    <2>2. o \in Owners /\ Belongs(o, i)
      BY <1>1, <2>1 DEF RegistryKept
    <2>3. Belongs(o, i)'
      BY <1>1, <2>2, BelongsStays
    <2> QED
      BY <2>1, <2>3 DEF Belongs
  <1>4. (/\ signIn[s].at \in {"coding", "polling"} => kind = "device"
         /\ signIn[s].at \in Redirects => kind \in {"openai", "antigravity"}
         /\ \/ signIn[s].at \in Named
            \/ ~SignInAt(s, "out") /\ (~signIn[s].new \/ kind # "device")
            => signIn[s].id \in Instances
         /\ signIn[s].at \in {"coding", "polling"} /\ signIn[s].new => signIn[s].id = NoInstance)'
    BY <1>1 DEF Redirects, Named, SignInAt, Instances, NoInstance
  <1>5. (/\ signIn[s].bare => ~signIn[s].new
         /\ SignInAt(s, "coding") => ~signIn[s].bare /\ ~signIn[s].canceled
         /\ signIn[s].at \in {"reserving", "undoing"} => signIn[s].new
         /\ signIn[s].created => /\ signIn[s].new /\ signIn[s].at \in Reserved
                                 /\ signIn[s].id \in Instances
         /\ UnderWay(s) /\ signIn[s].new => signIn[s].object = {s}
         /\ loginFlow[s].at = "pending" => signIn[s].at \notin {"out", "coding", "refused"} /\ ~signIn[s].bare)'
    BY <1>1 DEF SignInAt
  <1> QED
    BY <1>2, <1>3, <1>4, <1>5 DEF PlacedWell

\* A sign-in begins that is for an instance.
LEMMA BegunSafe ==
  ASSUME SignInSafe, NEW s \in SignIns, SignInAt(s, "out"), Recorded, NEW i \in Instances,
         NEW new \in BOOLEAN, NEW bare \in BOOLEAN,
         NEW place \in {"reserving", "saving", "coding", "polling", "queued", "redirecting"},
         \/ signIn' = SignInBegun(s, i, new, place, signIn) /\ ~bare
         \/ signIn' = [SignInBegun(s, i, new, place, signIn) EXCEPT ![s].bare = bare],
         UNCHANGED <<kind, storedVars, pollVars, deletionVars>>,
         place \in {"coding", "polling"} => kind = "device",
         place \in {"queued", "redirecting"} => kind \in {"openai", "antigravity"},
         place = "reserving" => new, kind = "device" => ~new, ~new => instances[i] # {},
         bare => ~new /\ place = "polling"
  PROVE  SignInSafe'
  <1> DEFINE was == i \in instanceRows
             o == IF new THEN {s} ELSE instances[i]
  <1>1. /\ signIn \in [SignIns -> SignInRecords] /\ instances \in [Instances -> Nobodys]
        /\ {s} \in Nobodys /\ was \in BOOLEAN /\ place \in SignInPlaces /\ i # NoInstance
    BY Facts, NamesDiffer DEF Nobodys, Owners, SignInPlaces
  <1>2. o \in Nobodys
    BY <1>1
  <1>3. PICK r : r = [NoSignIn EXCEPT !.at = place, !.id = i, !.new = new, !.existed = was, !.object = o]
    OBVIOUS
  <1> DEFINE begun == TakenOver(i, s, [signIn EXCEPT ![s] = r])
             b == [r EXCEPT !.bare = bare]
  <1>4. SignInBegun(s, i, new, place, signIn) = begun
    BY <1>1, <1>3 DEF SignInBegun
  <1>5. /\ new => o = {s}
        /\ ~new => o = instances[i]
        /\ was => i \in instanceRows
    OBVIOUS
  <1> HIDE DEF was, o
  <1>6. /\ r \in SignInRecords /\ r.at = place /\ r.id = i /\ r.new = new /\ r.existed = was /\ r.object = o
        /\ ~r.bare /\ ~r.created /\ ~r.canceled /\ ~r.lost /\ ~r.over
    <2>1. BeginsAs(r, i, new, place, was, o)
      BY <1>3 DEF BeginsAs
    <2> QED
      BY <1>1, <1>2, <2>1, BegunRecord
  <1>7. /\ b \in SignInRecords /\ b.at = r.at /\ b.id = r.id /\ b.new = r.new /\ b.existed = r.existed
        /\ b.object = r.object /\ b.bare = bare /\ b.created = r.created /\ b.canceled = r.canceled
        /\ b.lost = r.lost /\ b.over = r.over
    BY <1>6, RecordBare
  <1>8. [begun EXCEPT ![s].bare = bare] = TakenOver(i, s, [signIn EXCEPT ![s] = b])
    BY <1>1, <1>6, <1>7 DEF TakenOver
  <1> HIDE DEF b
  <1>9. PICK q \in SignInRecords :
          /\ signIn' = TakenOver(i, s, [signIn EXCEPT ![s] = q])
          /\ (q = r /\ ~bare) \/ q = b
    <2>1. CASE signIn' = SignInBegun(s, i, new, place, signIn) /\ ~bare
      <3>1. signIn' = TakenOver(i, s, [signIn EXCEPT ![s] = r])
        BY <1>4, <2>1
      <3> QED
        BY <1>6, <2>1, <3>1
    <2>2. CASE signIn' = [SignInBegun(s, i, new, place, signIn) EXCEPT ![s].bare = bare]
      <3>1. signIn' = [begun EXCEPT ![s].bare = bare]
        BY <1>4, <2>2
      <3>2. signIn' = TakenOver(i, s, [signIn EXCEPT ![s] = b])
        BY <1>8, <3>1
      <3> QED
        BY <1>7, <3>2
    <2> QED
      BY <2>1, <2>2
  <1>10. /\ q.at = place /\ q.id = i /\ q.new = new /\ q.existed = was /\ q.object = o
        /\ ~q.created /\ ~q.canceled
    BY <1>6, <1>7, <1>9
  <1>11. q.bare => bare
    BY <1>6, <1>7, <1>9
  <1>12. /\ signIn' \in [SignIns -> SignInRecords] /\ signIn'[s] = q /\ OthersSame(s)
         /\ \A t \in SignIns \ {s} : /\ signIn'[t].canceled = signIn[t].canceled
                                     /\ signIn[t].id = i => signIn'[t].over
    <2> DEFINE ins == [signIn EXCEPT ![s] = q]
    <2>1. ins = [signIn EXCEPT ![s] = q]
      OBVIOUS
    <2>2. signIn' = TakenOver(i, s, ins)
      BY <1>9
    <2> HIDE DEF ins
    <2> QED
      BY <2>1, <2>2, TakenOverWell
  <1>13. PlacedWell(s)' /\ UnderWay(s)'
    BY <1>5, <1>10, <1>11, <1>12, BegunPlaced DEF SignInAt, pollVars
  <1>14. SoFarGood(s)'
    <2>1. ~signIn'[s].new => signIn'[s].object = instances'[signIn'[s].id] /\ signIn'[s].object # {}
      BY <1>5, <1>10, <1>12 DEF storedVars
    <2>2. signIn'[s].existed => signIn'[s].id \in instanceRows' /\ ~signIn'[s].created
      BY <1>5, <1>10, <1>12 DEF storedVars
    <2>3. signIn'[s].at \notin Through \cup {"registering", "failed"}
      BY <1>10, <1>12 DEF Through
    <2> QED
      BY <2>1, <2>2, <2>3 DEF SoFarGood, SignInAt
  <1>15. activeFlow' = activeFlow /\ (kind = "device" => ~signIn'[s].new)
    BY <1>10, <1>12 DEF pollVars
  <1>16. UNCHANGED <<kind, storedVars, outcomes, loginFlow, deletionVars>>
    BY DEF pollVars
  <1>17. \A t \in SignIns \ {s} :
           /\ signIn[t].id = signIn'[s].id /\ signIn'[s].id # NoInstance => signIn'[t].over
           /\ signIn'[t].canceled => signIn[t].canceled
    BY <1>10, <1>12
  <1> QED
    BY <1>12, <1>13, <1>14, <1>15, <1>16, <1>17, BeginsWell

\* The context of the active flow's sign-in is canceled, and nothing else changes.
LEMMA CanceledWell ==
  ASSUME SignInSafe, NEW ins \in [SignIns -> SignInRecords], signIn' = Canceled(ins)
  PROVE  /\ signIn' \in [SignIns -> SignInRecords]
         /\ \A t \in SignIns :
              /\ signIn'[t].at = ins[t].at /\ signIn'[t].id = ins[t].id
              /\ signIn'[t].new = ins[t].new /\ signIn'[t].bare = ins[t].bare
              /\ signIn'[t].object = ins[t].object /\ signIn'[t].created = ins[t].created
              /\ signIn'[t].existed = ins[t].existed /\ signIn'[t].lost = ins[t].lost
              /\ signIn'[t].over = ins[t].over
              /\ t \notin {a.of : a \in activeFlow} => signIn'[t] = ins[t]
  <1>1. signIn' = [t \in SignIns |-> IF t \in {a.of : a \in activeFlow}
                                     THEN [ins[t] EXCEPT !.canceled = TRUE] ELSE ins[t]]
    BY DEF Canceled
  <1>2. ASSUME NEW t \in SignIns
        PROVE  /\ signIn'[t].at = ins[t].at /\ signIn'[t].id = ins[t].id
               /\ signIn'[t].new = ins[t].new /\ signIn'[t].bare = ins[t].bare
               /\ signIn'[t].object = ins[t].object /\ signIn'[t].created = ins[t].created
               /\ signIn'[t].existed = ins[t].existed /\ signIn'[t].lost = ins[t].lost
               /\ signIn'[t].over = ins[t].over /\ signIn'[t] \in SignInRecords
               /\ t \notin {a.of : a \in activeFlow} => signIn'[t] = ins[t]
    <2>1. PICK r \in SignInRecords : r = ins[t]
      OBVIOUS
    <2> DEFINE q == [r EXCEPT !.canceled = TRUE]
    <2>2. signIn'[t] = IF t \in {a.of : a \in activeFlow} THEN q ELSE r
      BY <1>1, <2>1
    <2>3. /\ q \in SignInRecords /\ q.at = r.at /\ q.id = r.id /\ q.new = r.new /\ q.bare = r.bare
          /\ q.object = r.object /\ q.created = r.created /\ q.existed = r.existed
          /\ q.lost = r.lost /\ q.over = r.over
      BY <2>1, RecordCanceled
    <2> HIDE DEF q
    <2> QED
      BY <2>1, <2>2, <2>3
  <1>3. signIn' \in [SignIns -> SignInRecords]
    <2>1. \A t \in SignIns : signIn'[t] \in SignInRecords
      BY <1>2
    <2> QED
      BY <1>1, <2>1
  <1> QED
    BY <1>2, <1>3

\* A creation or a renewal begins that knows its instance.
LEMMA CreateSafe ==
  ASSUME SignInSafe, NEW s \in SignIns, Recorded,
         CreateOfKey(s) \/ CreateNumbered(s) \/ RenewWithKey(s) \/ \E new \in BOOLEAN : StartOAuth(s, new)
  PROVE  SignInSafe'
  <1>1. NextInstanceID \subseteq Instances /\ Accounts \subseteq Instances /\ Registered \subseteq Instances
        /\ \A i \in Registered : instances[i] # {}
    BY SignInsAssumption DEF NextInstanceID, Accounts, Registered, Instances
  <1>2. SignInAt(s, "out")
    BY DEF CreateOfKey, CreateNumbered, RenewWithKey, StartOAuth, CreateWith, Starts
  <1>3. CASE CreateOfKey(s) \/ CreateNumbered(s)
    <2>1. PICK i \in Instances : signIn' = SignInBegun(s, i, TRUE, "reserving", signIn)
      BY <1>1, <1>3 DEF CreateOfKey, CreateNumbered, CreateWith
    <2>2. kind # "device" /\ UNCHANGED <<kind, storedVars, pollVars, deletionVars>>
      BY <1>3 DEF CreateOfKey, CreateNumbered, CreateWith
    <2> QED
      BY <1>2, <2>1, <2>2, BegunSafe
  <1>4. CASE RenewWithKey(s)
    <2>1. PICK i \in Registered : signIn' = SignInBegun(s, i, FALSE, "saving", signIn)
      BY <1>4 DEF RenewWithKey
    <2>2. UNCHANGED <<kind, storedVars, pollVars, deletionVars>> /\ i \in Instances /\ instances[i] # {}
      BY <1>1, <1>4, <2>1 DEF RenewWithKey
    <2> QED
      BY <1>2, <2>1, <2>2, BegunSafe
  <1>5. ASSUME NEW new \in BOOLEAN, StartOAuth(s, new) PROVE SignInSafe'
    <2> DEFINE place == IF kind = "openai" THEN "queued" ELSE "redirecting"
    <2>1. PICK i \in IF new THEN NextInstanceID ELSE Registered :
            signIn' = SignInBegun(s, i, new, place, signIn)
      BY <1>5 DEF StartOAuth
    <2>2. kind \in {"openai", "antigravity"} /\ UNCHANGED <<kind, storedVars, pollVars, deletionVars>>
          /\ i \in Instances /\ (~new => instances[i] # {})
      BY <1>1, <1>5, <2>1 DEF StartOAuth
    <2>3. place \in {"queued", "redirecting"}
      OBVIOUS
    <2> HIDE DEF place
    <2> QED
      BY <1>2, <2>1, <2>2, <2>3, BegunSafe
  <1> QED
    BY <1>3, <1>4, <1>5

\* A creation by device code makes the active flow forgotten.
LEMMA StartsAnew ==
  ASSUME SignInSafe, NEW s \in SignIns, Recorded, SignInAt(s, "out"), kind = "device", activeFlow' = {},
         signIn' = Canceled([signIn EXCEPT ![s].at = "coding", ![s].object = {s}, ![s].bare = FALSE]),
         UNCHANGED <<kind, storedVars, outcomes, loginFlow, deletionVars>>
  PROVE  SignInSafe'
  <1> DEFINE none == NoSignIn
             p == [none EXCEPT !.at = "coding"]
             q == [p EXCEPT !.object = {s}]
             r == [q EXCEPT !.bare = FALSE]
             ins == [signIn EXCEPT ![s].at = "coding", ![s].object = {s}, ![s].bare = FALSE]
  <1>1. /\ signIn \in [SignIns -> SignInRecords] /\ signIn[s] = none /\ {s} \in Nobodys
        /\ "coding" \in SignInPlaces
    BY Facts DEF PlacedWell, Nobodys, Owners, SignInPlaces
  <1>2. /\ none \in SignInRecords /\ none.id = NoInstance /\ none.new /\ ~none.created /\ ~none.canceled
        /\ ~none.existed
    BY FreshRecord
  <1> HIDE DEF none
  <1>3. ins = [signIn EXCEPT ![s] = r]
    BY <1>1, <1>2 DEF SignInRecords
  <1>4. signIn' = Canceled(ins)
    OBVIOUS
  <1> HIDE DEF ins
  <1>5. /\ p \in SignInRecords /\ p.at = "coding" /\ p.id = none.id /\ p.new = none.new
        /\ p.created = none.created /\ p.canceled = none.canceled /\ p.existed = none.existed
    BY <1>1, <1>2, RecordAt
  <1> HIDE DEF p
  <1>6. /\ q \in SignInRecords /\ q.object = {s} /\ q.at = p.at /\ q.id = p.id /\ q.new = p.new
        /\ q.created = p.created /\ q.canceled = p.canceled /\ q.existed = p.existed
    BY <1>1, <1>5, RecordObject
  <1> HIDE DEF q
  <1>7. /\ r \in SignInRecords /\ ~r.bare /\ r.object = q.object /\ r.at = q.at /\ r.id = q.id /\ r.new = q.new
        /\ r.created = q.created /\ r.canceled = q.canceled /\ r.existed = q.existed
    BY <1>6, RecordBare
  <1> HIDE DEF r
  <1>8. ins \in [SignIns -> SignInRecords] /\ ins[s] = r /\ \A t \in SignIns \ {s} : ins[t] = signIn[t]
    BY <1>1, <1>3, <1>7
  <1>9. \A a \in activeFlow : a.of # s /\ ~SignInAt(a.of, "coding") /\ ~SignInAt(a.of, "out")
    BY NoFlow DEF SignInAt, SignInSafe, FlowKept
  <1>10. signIn'[s] = r /\ signIn' \in [SignIns -> SignInRecords]
    BY <1>4, <1>8, <1>9, CanceledWell
  <1>11. OthersSame(s) /\ \A t \in SignIns \ {s} : SignInAt(t, "coding") => signIn'[t] = signIn[t]
    <2>1. ASSUME NEW t \in SignIns \ {s} PROVE Same(t) /\ (SignInAt(t, "coding") => signIn'[t] = signIn[t])
      <3>1. /\ signIn'[t].at = ins[t].at /\ signIn'[t].id = ins[t].id
            /\ signIn'[t].new = ins[t].new /\ signIn'[t].bare = ins[t].bare
            /\ signIn'[t].object = ins[t].object /\ signIn'[t].created = ins[t].created
            /\ signIn'[t].existed = ins[t].existed /\ signIn'[t].lost = ins[t].lost
            /\ signIn'[t].over = ins[t].over
            /\ t \notin {a.of : a \in activeFlow} => signIn'[t] = ins[t]
        BY <1>4, <1>8, CanceledWell
      <3>2. ins[t] = signIn[t]
        BY <1>8
      <3>3. SignInAt(t, "coding") \/ SignInAt(t, "out") => signIn'[t] = signIn[t]
        BY <1>9, <3>1, <3>2
      <3> QED
        BY <3>1, <3>2, <3>3 DEF Same
    <2> QED
      BY <2>1 DEF OthersSame
  <1>12. /\ signIn'[s].at = "coding" /\ signIn'[s].id = NoInstance /\ signIn'[s].object = {s}
         /\ signIn'[s].new /\ ~signIn'[s].bare /\ ~signIn'[s].created /\ ~signIn'[s].canceled
         /\ ~signIn'[s].existed
    BY <1>2, <1>5, <1>6, <1>7, <1>10
  <1>13. PlacedWell(s)' /\ UnderWay(s)'
    BY <1>11, <1>12, BegunPlaced DEF SignInAt
  <1>14. SoFarGood(s)'
    BY <1>12 DEF SoFarGood, SignInAt, Through
  <1> QED
    BY <1>10, <1>11, <1>12, <1>13, <1>14, BeginsWell

\* A device flow or a renewal with a GitHub token begins.
LEMMA StartDeviceSafe ==
  ASSUME SignInSafe, NEW s \in SignIns, Recorded, NEW new \in BOOLEAN, NEW bare \in BOOLEAN,
         StartDevice(s, new, bare)
  PROVE  SignInSafe'
  <1> DEFINE place == IF bare THEN "polling" ELSE "coding"
  <1>1. /\ SignInAt(s, "out") /\ kind = "device" /\ (bare => ~new)
        /\ UNCHANGED <<kind, storedVars, outcomes, loginFlow, deletionVars>>
    BY DEF StartDevice, Starts
  <1>2. CASE new
    <2>1. bare = FALSE /\ place = "coding"
      BY <1>1, <1>2
    <2> QED
      BY <1>1, <1>2, <2>1, StartsAnew DEF StartDevice
  <1>3. CASE ~new
    <2>1. PICK i \in Registered :
            signIn' = [SignInBegun(s, i, new, place, signIn) EXCEPT ![s].bare = bare]
      BY <1>3 DEF StartDevice
    <2>2. i \in Instances /\ instances[i] # {}
      BY <2>1 DEF Registered
    <2>3. place \in {"coding", "polling"} /\ (bare => place = "polling")
      OBVIOUS
    <2>4. UNCHANGED <<kind, storedVars, pollVars, deletionVars>>
      BY <1>1, <1>3 DEF StartDevice, pollVars
    <2> HIDE DEF place
    <2> QED
      BY <1>1, <1>3, <2>1, <2>2, <2>3, <2>4, BegunSafe
  <1> QED
    BY <1>2, <1>3

\* A step of a client's touches no instance.
LEMMA PollsKeep ==
  ASSUME SignInSafe, \A t \in SignIns : Same(t), Recorded, UNCHANGED <<kind, storedVars, deleting>>,
         signIn' \in [SignIns -> SignInRecords], visits' \in 0..MaxVisits,
         activeFlow' = {} \/ UNCHANGED <<activeFlow, signIn>>,
         \A t \in SignIns : SignInAt(t, "coding") => signIn'[t] = signIn[t],
         outcomes' \in [Instances -> SUBSET Results],
         \A i \in Instances : outcomes'[i] \subseteq outcomes[i],
         loginFlow' \in [SignIns -> [at : Told, id : 0..PendingInstance, own : BOOLEAN]],
         \A t \in SignIns :
           \/ loginFlow'[t] = loginFlow[t]
           \/ /\ LoginKept(t)' /\ ~SignInAt(t, "out")
              /\ loginFlow'[t].at = "pending" =>
                   signIn[t].at \notin {"out", "coding", "refused"} /\ ~signIn[t].bare
  PROVE  SignInSafe'
  <1>1. /\ kind' = kind /\ storedVars' = storedVars /\ deleting' = deleting
        /\ disturbed \subseteq disturbed' /\ disturbed' \subseteq SignIns
    BY DEF Recorded, SignInSafe, SignInTypes, Crossing
  <1>2. \A t \in SignIns : signIn[t].at \in Through => signIn'[t].at \in Through /\ signIn'[t].id = signIn[t].id
    BY DEF Same
  <1>3. ASSUME NEW t \in SignIns PROVE PlacedWell(t)'
    <2>1. /\ loginFlow'[t].at = "pending" =>
               loginFlow[t].at = "pending" \/ (signIn[t].at \notin {"out", "coding", "refused"} /\ ~signIn[t].bare)
          /\ SignInAt(t, "out") => loginFlow'[t] = loginFlow[t]
          /\ SignInAt(t, "coding") /\ signIn'[t].canceled => signIn[t].canceled
      OBVIOUS
    <2> QED
      BY <1>1, <1>2, <2>1, PlacedCore
  <1>4. ASSUME NEW t \in SignIns PROVE KeptWhole(t)'
    <2>1. Same(t) /\ KeptWhole(t) /\ (Undisturbed(t)' => Undisturbed(t)) /\ signIn[t].object \subseteq Owners
      BY <1>1, Facts DEF Same, Undisturbed
    <2>2. Undisturbed(t)' => \A u \in SignIns \ {t} :
            signIn'[u].id = signIn[t].id /\ signIn[t].id # NoInstance => ~UnderWay(u)'
      BY <2>1 DEF KeptWhole, Same, UnderWay
    <2>3. Undisturbed(t)' => signIn[t].id \notin deleting'
      BY <1>1, <2>1 DEF KeptWhole
    <2> QED
      BY <1>1, <2>1, <2>2, <2>3, KeptCore DEF storedVars
  <1>5. \A a \in activeFlow : a.of \in SignIns /\ FlowKept(a)
    BY DEF SignInSafe, FlowKept, Flows
  <1>6. ASSUME NEW t \in SignIns PROVE LoginKept(t)'
    <2> SUFFICES ASSUME loginFlow'[t] = loginFlow[t] PROVE LoginKept(t)'
      OBVIOUS
    <2>1. PlacedWell(t) /\ signIn[t] \in SignInRecords /\ LoginKept(t) /\ Same(t)
      BY Facts
    <2>2. signIn'[t].id # PendingInstance
      BY <2>1, NamesDiffer DEF SignInRecords, PendingInstance, Same
    <2>3. ASSUME kind # "device", loginFlow[t].at = "pending"
          PROVE  \A r \in outcomes'[signIn[t].id] : r \in outcomes[signIn[t].id] \/ r.of = t
      <3>1. signIn[t].id \in Instances
        BY <2>1, <2>3 DEF PlacedWell, SignInAt
      <3> QED
        BY <3>1
    <2>4. ASSUME kind = "device", loginFlow[t].at = "pending", Undisturbed(t)', loginFlow[t].own,
                 NEW a \in activeFlow', a.of # t
          PROVE  /\ signIn[t].new => ~signIn'[a.of].new
                 /\ loginFlow[t].id = signIn[t].id => a.id # signIn[t].id
      <3>1. a \in activeFlow /\ signIn'[a.of].new = signIn[a.of].new
        BY <1>5, <2>4 DEF Same
      <3>2. Undisturbed(t)
        BY <1>1, <2>1, <2>4 DEF Undisturbed, Same
      <3> QED
        BY <2>1, <2>4, <3>1, <3>2 DEF LoginKept
    <2> QED
      BY <1>1, <2>1, <2>2, <2>3, <2>4, LoginCore DEF Same
  <1>7. ASSUME NEW a \in activeFlow' PROVE FlowKept(a)'
    <2>1. activeFlow' = activeFlow /\ signIn' = signIn
      BY <1>7
    <2>2. FlowKept(a) /\ a.of \in SignIns
      BY <1>5, <1>7, <2>1
    <2>3. UnderWay(a.of)' = UnderWay(a.of) /\ signIn'[a.of].at \notin {"out", "coding", "refused"}
      BY <2>1, <2>2 DEF UnderWay, FlowKept
    <2>4. \A t \in SignIns \ {a.of} : UnderWay(t)' /\ signIn'[t].new => UnderWay(t) /\ signIn[t].new
      BY <2>1 DEF UnderWay
    <2> QED
      BY <1>1, <1>7, <2>1, <2>2, <2>3, <2>4, FlowCore
  <1>8. ASSUME NEW i \in Instances, NEW r \in outcomes'[i] PROVE ResultKept(r)'
    <2>1. ResultKept(r) /\ r.of \in SignIns
      BY <1>8 DEF SignInSafe, ResultKept, Results
    <2> QED
      BY <2>1 DEF ResultKept, Same, SignInAt, Results, SignIns
  <1>9. RegistryKept'
    BY <1>1, <1>2, RegistryStays DEF storedVars
  <1>10. SignInTypes'
    <2>1. SignInTypes
      BY DEF SignInSafe
    <2>2. \A a, b \in activeFlow' : a = b
      BY <2>1 DEF SignInTypes
    <2>3. /\ \A i \in Instances : \A r, q \in outcomes'[i] : r = q
          /\ kind \notin {"openai", "antigravity"} => \A i \in Instances : outcomes'[i] = {}
      <3>1. /\ \A i \in Instances : \A r, q \in outcomes[i] : r = q
            /\ kind \notin {"openai", "antigravity"} => \A i \in Instances : outcomes[i] = {}
        BY <2>1 DEF SignInTypes
      <3> QED
        BY <3>1
    <2> QED
      BY <1>1, <2>1, <2>2, <2>3, TypesStay DEF SignInTypes, storedVars
  <1> QED
    BY <1>3, <1>4, <1>6, <1>7, <1>8, <1>9, <1>10 DEF SignInSafe, SignIns, Instances

\* A step that leaves all records alone.
LEMMA Unmoved ==
  ASSUME SignInSafe, signIn' = signIn
  PROVE  /\ \A t \in SignIns : Same(t)
         /\ signIn' \in [SignIns -> SignInRecords]
         /\ \A t \in SignIns : SignInAt(t, "coding") => signIn'[t] = signIn[t]
  BY DEF Same, SignInSafe, SignInTypes

\* A flow is canceled, if there is one.
LEMMA CanceledSame ==
  ASSUME SignInSafe, signIn' = Canceled(signIn)
  PROVE  /\ \A t \in SignIns : Same(t)
         /\ signIn' \in [SignIns -> SignInRecords]
         /\ \A t \in SignIns : SignInAt(t, "coding") => signIn'[t] = signIn[t]
  <1>1. signIn \in [SignIns -> SignInRecords]
    BY DEF SignInSafe, SignInTypes
  <1>2. \A t \in SignIns : SignInAt(t, "coding") \/ SignInAt(t, "out") => t \notin {a.of : a \in activeFlow}
    BY DEF SignInSafe, FlowKept, SignInAt
  <1>3. /\ signIn' \in [SignIns -> SignInRecords]
        /\ \A t \in SignIns :
             /\ signIn'[t].at = signIn[t].at /\ signIn'[t].id = signIn[t].id
             /\ signIn'[t].new = signIn[t].new /\ signIn'[t].bare = signIn[t].bare
             /\ signIn'[t].object = signIn[t].object /\ signIn'[t].created = signIn[t].created
             /\ signIn'[t].existed = signIn[t].existed /\ signIn'[t].lost = signIn[t].lost
             /\ signIn'[t].over = signIn[t].over
             /\ t \notin {a.of : a \in activeFlow} => signIn'[t] = signIn[t]
    BY <1>1, CanceledWell
  <1>4. \A t \in SignIns : SignInAt(t, "coding") \/ SignInAt(t, "out") => signIn'[t] = signIn[t]
    BY <1>2, <1>3
  <1> QED
    BY <1>3, <1>4 DEF Same

LEMMA PollTypes ==
  ASSUME SignInSafe
  PROVE  /\ visits \in 0..MaxVisits /\ outcomes \in [Instances -> SUBSET Results]
         /\ loginFlow \in [SignIns -> [at : Told, id : 0..PendingInstance, own : BOOLEAN]]
         /\ Visit => visits' \in 0..MaxVisits
  BY SignInsAssumption DEF SignInSafe, SignInTypes, Visit

\* The older routes tell of a flow or an outcome once, or cancel the flow.
LEMMA VisitsSafe ==
  ASSUME SignInSafe, Recorded, GetAuthStatus \/ CancelAuth \/ \E i \in Instances : OAuthStatus(i)
  PROVE  SignInSafe'
  <1>1. CASE GetAuthStatus
    BY <1>1, Unmoved, PollTypes, PollsKeep DEF GetAuthStatus
  <1>2. CASE CancelAuth
    BY <1>2, CanceledSame, PollTypes, PollsKeep DEF CancelAuth
  <1>3. ASSUME NEW i \in Instances, OAuthStatus(i) PROVE SignInSafe'
    <2>1. /\ outcomes' \in [Instances -> SUBSET Results]
          /\ \A j \in Instances : outcomes'[j] \subseteq outcomes[j]
      BY <1>3, PollTypes DEF OAuthStatus
    <2> QED
      BY <1>3, <2>1, Unmoved, PollTypes, PollsKeep DEF OAuthStatus
  <1> QED
    BY <1>1, <1>2, <1>3

\* A client is told of the outcome of its own sign-in.
LEMMA LoginStatusSafe ==
  ASSUME SignInSafe, NEW s \in SignIns, Recorded, LoginStatus(s)
  PROVE  SignInSafe'
  <1>1. /\ PlacedWell(s) /\ LoginKept(s) /\ loginFlow[s].at = "pending"
        /\ UNCHANGED <<kind, signIn, storedVars, activeFlow, outcomes, deletionVars>>
        /\ disturbed \subseteq disturbed'
    BY Facts DEF LoginStatus, Recorded
  <1>2. PICK told \in StatusOf(s) \cup {"gone"} : loginFlow' = [loginFlow EXCEPT ![s].at = told]
    BY DEF LoginStatus
  <1>3. \A a \in activeFlow : FlowKept(a) /\ a \in Flows
    BY DEF SignInSafe, FlowKept
  <1>4. told \in {"error", "complete", "gone"}
    BY <1>2, <1>3 DEF StatusOf, FlowOf, Flows
  <1> DEFINE q == [loginFlow[s] EXCEPT !.at = told]
  <1>5. /\ loginFlow' = [loginFlow EXCEPT ![s] = q]
        /\ loginFlow[s] \in [at : Told, id : 0..PendingInstance, own : BOOLEAN]
        /\ loginFlow \in [SignIns -> [at : Told, id : 0..PendingInstance, own : BOOLEAN]]
    BY <1>2, PollTypes
  <1>6. /\ q \in [at : Told, id : 0..PendingInstance, own : BOOLEAN]
        /\ q.at = told /\ q.own = loginFlow[s].own
    BY <1>4, <1>5 DEF Told
  <1> HIDE DEF q
  <1>7. /\ loginFlow' \in [SignIns -> [at : Told, id : 0..PendingInstance, own : BOOLEAN]]
        /\ loginFlow'[s] = q /\ \A t \in SignIns \ {s} : loginFlow'[t] = loginFlow[t]
    BY <1>5, <1>6
  <1>8. ASSUME loginFlow[s].own, Undisturbed(s), told # "gone"
         PROVE  /\ told = "complete" => SignInAt(s, "done")
                /\ told = "error" => SignInAt(s, "failed")
    <2>1. CASE kind # "device"
      <3>1. signIn[s].id \in Instances /\ loginFlow[s].id = signIn[s].id
        BY <1>1, <1>8, <2>1 DEF PlacedWell, LoginKept, SignInAt
      <3>2. PICK r \in outcomes[signIn[s].id] : told = IF r.error THEN "error" ELSE "complete"
        BY <1>2, <1>8, <2>1, <3>1 DEF StatusOf
      <3>3. r.of = s
        BY <1>1, <1>8, <2>1, <3>2 DEF LoginKept
      <3>4. ResultKept(r)
        BY <3>1, <3>2 DEF SignInSafe
      <3> QED
        BY <3>2, <3>3, <3>4 DEF ResultKept
    <2>2. CASE kind = "device"
      <3>1. PICK a \in FlowOf(s) : told = a.status /\ a.status # "awaiting_user"
        BY <1>2, <1>8, <2>2 DEF StatusOf
      <3>2. a \in activeFlow /\ loginFlow[s].id \in {a.id, NoInstance} /\ FlowKept(a)
        BY <1>3, <3>1 DEF FlowOf
      <3>3. /\ \/ loginFlow[s].id = PendingInstance /\ signIn[s].new
               \/ loginFlow[s].id = signIn[s].id /\ signIn[s].id # NoInstance
            /\ a.of # s =>
                 /\ signIn[s].new => ~signIn[a.of].new
                 /\ loginFlow[s].id = signIn[s].id => a.id # signIn[s].id
        BY <1>1, <1>8, <2>2, <3>2 DEF LoginKept
      <3>4. a.of = s
        BY <3>2, <3>3, NamesDiffer DEF FlowKept
      <3> QED
        BY <1>8, <3>1, <3>2, <3>4 DEF FlowKept
    <2> QED
      BY <2>1, <2>2
  <1>9. LoginKept(s)'
    <2>1. Undisturbed(s)' => Undisturbed(s)
      BY <1>1 DEF Undisturbed
    <2>2. /\ loginFlow'[s].at = told /\ loginFlow'[s].own = loginFlow[s].own
          /\ \A p : SignInAt(s, p)' = SignInAt(s, p)
      BY <1>1, <1>6, <1>7 DEF SignInAt
    <2> QED
      BY <1>4, <1>8, <2>1, <2>2 DEF LoginKept
  <1>10. ~SignInAt(s, "out")
    BY <1>1 DEF PlacedWell, SignInAt
  <1>11. \A t \in SignIns :
           \/ loginFlow'[t] = loginFlow[t]
           \/ /\ LoginKept(t)' /\ ~SignInAt(t, "out")
              /\ loginFlow'[t].at = "pending" =>
                   signIn[t].at \notin {"out", "coding", "refused"} /\ ~signIn[t].bare
    BY <1>4, <1>6, <1>7, <1>9, <1>10
  <1> QED
    BY <1>1, <1>7, <1>11, Unmoved, PollTypes, PollsKeep DEF deletionVars

\* A client cancels its login flow.
LEMMA LoginCancelSafe ==
  ASSUME SignInSafe, NEW s \in SignIns, Recorded, LoginCancel(s)
  PROVE  SignInSafe'
  <1>1. /\ PlacedWell(s) /\ LoginKept(s) /\ loginFlow[s].at = "pending"
        /\ UNCHANGED <<kind, storedVars, outcomes, deletionVars>>
        /\ loginFlow' = [loginFlow EXCEPT ![s].at = "gone"]
    BY Facts DEF LoginCancel
  <1>2. /\ \A t \in SignIns : Same(t)
        /\ signIn' \in [SignIns -> SignInRecords]
        /\ \A t \in SignIns : SignInAt(t, "coding") => signIn'[t] = signIn[t]
        /\ activeFlow' = {} \/ UNCHANGED <<activeFlow, signIn>>
    <2>1. CASE signIn' = Canceled(signIn) /\ activeFlow' = {}
      BY <2>1, CanceledSame
    <2>2. CASE UNCHANGED <<signIn, activeFlow>>
      BY <2>2, Unmoved
    <2> QED
      BY <2>1, <2>2 DEF LoginCancel
  <1> DEFINE q == [loginFlow[s] EXCEPT !.at = "gone"]
  <1>3. /\ loginFlow' = [loginFlow EXCEPT ![s] = q]
        /\ loginFlow[s] \in [at : Told, id : 0..PendingInstance, own : BOOLEAN]
        /\ loginFlow \in [SignIns -> [at : Told, id : 0..PendingInstance, own : BOOLEAN]]
    BY <1>1, PollTypes
  <1>4. q \in [at : Told, id : 0..PendingInstance, own : BOOLEAN] /\ q.at = "gone"
    BY <1>3 DEF Told
  <1> HIDE DEF q
  <1>5. /\ loginFlow' \in [SignIns -> [at : Told, id : 0..PendingInstance, own : BOOLEAN]]
        /\ loginFlow'[s] = q /\ \A t \in SignIns \ {s} : loginFlow'[t] = loginFlow[t]
    BY <1>3, <1>4
  <1>6. LoginKept(s)' /\ ~SignInAt(s, "out")
    BY <1>1, <1>4, <1>5 DEF LoginKept, PlacedWell, SignInAt
  <1>7. \A t \in SignIns :
          \/ loginFlow'[t] = loginFlow[t]
          \/ /\ LoginKept(t)' /\ ~SignInAt(t, "out")
             /\ loginFlow'[t].at = "pending" =>
                  signIn[t].at \notin {"out", "coding", "refused"} /\ ~signIn[t].bare
    BY <1>4, <1>5, <1>6
  <1> QED
    BY <1>1, <1>2, <1>5, <1>7, PollTypes, PollsKeep DEF deletionVars

\* A client is given a login flow, named for what is active by then.
LEMMA LoginSafe ==
  ASSUME SignInSafe, NEW s \in SignIns, Recorded, Login(s)
  PROVE  SignInSafe'
  <1> DEFINE active == {a.id : a \in activeFlow}
             id == IF kind # "device" THEN signIn[s].id
                   ELSE CHOOSE a \in active \cup {NoInstance} : active # {} => a \in active
             own == IF kind = "device" THEN \E a \in activeFlow : a.of = s
                    ELSE \A r \in outcomes[id] : r.of = s
             q == [at |-> "pending", id |-> id, own |-> own]
  <1>1. /\ PlacedWell(s) /\ kind \in {"device", "openai", "antigravity"} /\ ~signIn[s].bare /\ Visit
        /\ signIn[s].at \notin {"out", "refused", "coding"}
        /\ loginFlow' = [loginFlow EXCEPT ![s] = q]
        /\ UNCHANGED <<kind, signIn, storedVars, activeFlow, outcomes, deleting>>
        /\ disturbed \subseteq disturbed'
    BY Facts DEF Login, Recorded
  <1>2. ~SignInAt(s, "out")
    BY <1>1 DEF SignInAt
  <1>3. kind # "device" => id = signIn[s].id /\ signIn[s].id \in Instances
    BY <1>1, <1>2 DEF PlacedWell
  <1>4. kind = "device" => IF activeFlow = {} THEN id = NoInstance ELSE id \in active
    OBVIOUS
  <1>5. \A a \in activeFlow : FlowKept(a) /\ a \in Flows /\ \A b \in activeFlow : a = b
    BY DEF SignInSafe, FlowKept, SignInTypes
  <1>6. id \in 0..PendingInstance
    <2>1. CASE kind # "device"
      BY <1>3, <2>1, SignInsAssumption DEF Instances, PendingInstance
    <2>2. CASE kind = "device"
      <3>1. \A a \in active : a \in 0..PendingInstance
        BY <1>5, SignInsAssumption DEF Flows, PendingInstance
      <3> QED
        BY <1>4, <2>2, <3>1, SignInsAssumption DEF NoInstance, PendingInstance
    <2> QED
      BY <2>1, <2>2
  <1>7. own \in BOOLEAN
    OBVIOUS
  <1>8. kind = "device" /\ own =>
          /\ \E a \in activeFlow : a.of = s /\ id = a.id
          /\ \A a \in activeFlow : a.of = s
    BY <1>4, <1>5
  <1>9. kind # "device" /\ own => \A r \in outcomes[signIn[s].id] : r.of = s
    BY <1>3
  <1> HIDE DEF id, own
  <1>10. q \in [at : Told, id : 0..PendingInstance, own : BOOLEAN] /\ q.at = "pending" /\ q.id = id
    BY <1>6, <1>7 DEF Told
  <1>11. q.own => own
    OBVIOUS
  <1> HIDE DEF q
  <1>12. /\ loginFlow' \in [SignIns -> [at : Told, id : 0..PendingInstance, own : BOOLEAN]]
         /\ loginFlow'[s] = q /\ \A t \in SignIns \ {s} : loginFlow'[t] = loginFlow[t]
    BY <1>1, <1>10, PollTypes
  <1>13. ASSUME own, Undisturbed(s)
         PROVE  /\ kind # "device" => id = signIn[s].id /\ \A r \in outcomes[signIn[s].id] : r.of = s
                /\ kind = "device" =>
                     /\ \/ id = PendingInstance /\ signIn[s].new
                        \/ id = signIn[s].id /\ signIn[s].id # NoInstance
                     /\ \A a \in activeFlow : a.of = s
    <2>1. kind # "device" => id = signIn[s].id /\ \A r \in outcomes[signIn[s].id] : r.of = s
      BY <1>3, <1>9, <1>13
    <2>2. ASSUME kind = "device"
          PROVE  /\ \/ id = PendingInstance /\ signIn[s].new
                    \/ id = signIn[s].id /\ signIn[s].id # NoInstance
                 /\ \A a \in activeFlow : a.of = s
      <3>1. PICK a \in activeFlow : a.of = s /\ id = a.id
        BY <1>8, <1>13, <2>2
      <3>2. FlowKept(a) /\ a \in Flows
        BY <1>5, <3>1
      <3>3. a.id = FlowName(s) \/ (a.id = signIn[s].id /\ SignInAt(s, "done"))
        BY <1>13, <3>1, <3>2 DEF FlowKept, Flows
      <3>4. SignInAt(s, "done") \/ ~signIn[s].new => signIn[s].id \in Instances
        BY <1>1, <1>2 DEF PlacedWell, SignInAt, Named
      <3> QED
        BY <1>8, <1>13, <2>2, <3>1, <3>3, <3>4, NamesDiffer DEF FlowName
    <2> QED
      BY <2>1, <2>2
  <1>14. LoginKept(s)'
    <2>1. /\ Undisturbed(s)' => Undisturbed(s)
          /\ kind' = kind /\ signIn' = signIn /\ activeFlow' = activeFlow /\ outcomes' = outcomes
      BY <1>1 DEF Undisturbed
    <2>2. loginFlow'[s].at = "pending" /\ loginFlow'[s].id = id /\ (loginFlow'[s].own => own)
      BY <1>10, <1>11, <1>12
    <2> QED
      BY <1>13, <2>1, <2>2 DEF LoginKept, PendingInstance, NoInstance
  <1>15. \A t \in SignIns :
           \/ loginFlow'[t] = loginFlow[t]
           \/ /\ LoginKept(t)' /\ ~SignInAt(t, "out")
              /\ loginFlow'[t].at = "pending" =>
                   signIn[t].at \notin {"out", "coding", "refused"} /\ ~signIn[t].bare
    BY <1>1, <1>2, <1>12, <1>14
  <1> QED
    BY <1>1, <1>12, <1>15, Unmoved, PollTypes, PollsKeep

\* A deletion of instance i disturbs every sign-in to i, and touches no other instance.
LEMMA DeletionKeeps ==
  ASSUME SignInSafe, NEW i \in Instances, \A t \in SignIns : Same(t), Recorded,
         UNCHANGED <<kind, carried, activeFlow, outcomes, loginFlow>>,
         signIn' \in [SignIns -> SignInRecords], visits' \in 0..MaxVisits,
         \A t \in SignIns : signIn'[t].canceled = signIn[t].canceled,
         i \in deleting \/ \A t \in SignIns : signIn[t].id = i => signIn'[t].over,
         deleting' \subseteq deleting \cup {i},
         instanceRows' \subseteq instanceRows, instanceRows \subseteq instanceRows' \cup {i},
         credentials' = [credentials EXCEPT ![i] = {}],
         instances' = instances \/ instances' = [instances EXCEPT ![i] = {}]
  PROVE  SignInSafe'
  <1>1. /\ kind' = kind /\ carried' = carried /\ activeFlow' = activeFlow /\ outcomes' = outcomes
        /\ loginFlow' = loginFlow /\ SignInTypes
        /\ disturbed \subseteq disturbed' /\ disturbed' \subseteq SignIns
    BY DEF Recorded, SignInSafe, SignInTypes, Crossing
  <1>2. \A t \in SignIns : signIn[t].at \in Through => signIn'[t].at \in Through /\ signIn'[t].id = signIn[t].id
    BY DEF Same
  <1>3. /\ credentials' \in [Instances -> Nobodys] /\ instances' \in [Instances -> Nobodys]
        /\ instanceRows' \subseteq Instances /\ deleting' \subseteq Instances
        /\ \A j \in Instances \ {i} : credentials'[j] = credentials[j] /\ instances'[j] = instances[j]
        /\ \A j \in Instances : instances'[j] \subseteq instances[j]
    <2>1. /\ {} \in Nobodys /\ credentials \in [Instances -> Nobodys]
          /\ instances \in [Instances -> Nobodys] /\ instanceRows \subseteq Instances
          /\ deleting \subseteq Instances
      BY <1>1 DEF SignInTypes, Nobodys
    <2>2. /\ credentials' \in [Instances -> Nobodys]
          /\ \A j \in Instances \ {i} : credentials'[j] = credentials[j]
      BY <2>1
    <2>3. /\ instances' \in [Instances -> Nobodys]
          /\ \A j \in Instances \ {i} : instances'[j] = instances[j]
          /\ instances'[i] = instances[i] \/ instances'[i] = {}
      BY <2>1
    <2> QED
      BY <2>1, <2>2, <2>3
  <1>4. ASSUME NEW t \in SignIns PROVE PlacedWell(t)'
    BY <1>1, <1>2, PlacedCore
  <1>5. ASSUME NEW t \in SignIns, Undisturbed(t)' PROVE Undisturbed(t) /\ signIn[t].id # i
    BY <1>1, <1>5 DEF Undisturbed, Same, SignInSafe, KeptWhole
  <1>6. ASSUME NEW t \in SignIns PROVE KeptWhole(t)'
    <2>1. Same(t) /\ KeptWhole(t)
      BY DEF SignInSafe
    <2>2. Undisturbed(t)' => \A u \in SignIns \ {t} :
            signIn'[u].id = signIn[t].id /\ signIn[t].id # NoInstance => ~UnderWay(u)'
      BY <1>5, <2>1 DEF KeptWhole, Same, UnderWay
    <2>3. Undisturbed(t)' => signIn[t].id \notin deleting'
      BY <1>5, <2>1 DEF KeptWhole
    <2>4. Undisturbed(t)' /\ signIn[t].id \in Instances =>
            /\ instances'[signIn[t].id] = instances[signIn[t].id]
            /\ credentials'[signIn[t].id] = credentials[signIn[t].id]
            /\ signIn[t].id \in instanceRows => signIn[t].id \in instanceRows'
            /\ signIn[t].id \in instanceRows' =>
                 signIn[t].id \in instanceRows \/ instances[signIn[t].id] # {}
            /\ \A o \in instances[signIn[t].id] : carried'[o] = carried[o]
      BY <1>1, <1>3, <1>5
    <2> QED
      BY <1>1, <2>1, <2>2, <2>3, <2>4, KeptCore
  <1>7. \A a \in activeFlow : a.of \in SignIns /\ FlowKept(a)
    BY DEF SignInSafe, FlowKept, Flows
  <1>8. ASSUME NEW t \in SignIns PROVE LoginKept(t)'
    <2>1. PlacedWell(t) /\ signIn[t] \in SignInRecords /\ LoginKept(t) /\ Same(t)
      BY Facts
    <2>2. signIn'[t].id # PendingInstance
      BY <2>1, NamesDiffer DEF SignInRecords, PendingInstance, Same
    <2>3. ASSUME kind # "device", loginFlow[t].at = "pending"
          PROVE  \A r \in outcomes'[signIn[t].id] : r \in outcomes[signIn[t].id] \/ r.of = t
      BY <1>1
    <2>4. ASSUME kind = "device", loginFlow[t].at = "pending", Undisturbed(t)', loginFlow[t].own,
                 NEW a \in activeFlow', a.of # t
          PROVE  /\ signIn[t].new => ~signIn'[a.of].new
                 /\ loginFlow[t].id = signIn[t].id => a.id # signIn[t].id
      <3>1. a \in activeFlow /\ signIn'[a.of].new = signIn[a.of].new
        BY <1>1, <1>7, <2>4 DEF Same
      <3>2. Undisturbed(t)
        BY <1>5, <2>4
      <3> QED
        BY <2>1, <2>4, <3>1, <3>2 DEF LoginKept
    <2> QED
      BY <1>1, <2>1, <2>2, <2>3, <2>4, LoginCore DEF Same
  <1>9. ASSUME NEW a \in activeFlow' PROVE FlowKept(a)'
    <2>1. FlowKept(a) /\ a.of \in SignIns /\ a \in activeFlow /\ Same(a.of)
      BY <1>1, <1>7, <1>9
    <2>2. UnderWay(a.of)' = UnderWay(a.of) /\ signIn'[a.of].at \notin {"out", "coding", "refused"}
      BY <2>1 DEF UnderWay, FlowKept, Same
    <2>3. \A t \in SignIns \ {a.of} : UnderWay(t)' /\ signIn'[t].new => UnderWay(t) /\ signIn[t].new
      BY DEF UnderWay, Same
    <2> QED
      BY <1>1, <2>1, <2>2, <2>3, FlowCore DEF Same
  <1>10. ASSUME NEW j \in Instances, NEW r \in outcomes'[j] PROVE ResultKept(r)'
    <2>1. ResultKept(r) /\ r.of \in SignIns
      BY <1>1, <1>10 DEF SignInSafe, ResultKept, Results
    <2> QED
      BY <2>1 DEF ResultKept, Same, SignInAt, Results, SignIns
  <1>11. RegistryKept'
    <2>1. \A o \in Owners, j \in Instances : Belongs(o, j) => Belongs(o, j)'
      BY <1>2 DEF Belongs, Owners
    <2>2. \A j \in Instances : \A o \in instances'[j] : Belongs(o, j) /\ o \in Owners
      <3>1. \A j \in Instances : instances[j] \in Nobodys
        BY <1>1 DEF SignInTypes
      <3> QED
        BY <1>3, <3>1 DEF SignInSafe, RegistryKept, Nobodys
    <2> QED
      BY <2>1, <2>2 DEF RegistryKept, Instances
  <1>12. SignInTypes'
    BY <1>1, <1>3, TypesStay DEF SignInTypes
  <1> QED
    BY <1>4, <1>6, <1>8, <1>9, <1>10, <1>11, <1>12 DEF SignInSafe, SignIns, Instances

\* A provider leaves the registry, and with it its tokens.
LEMMA RemoveProviderSafe ==
  ASSUME SignInSafe, NEW i \in Instances, Recorded, RemoveProvider(i)
  PROVE  SignInSafe'
  <1>1. signIn \in [SignIns -> SignInRecords]
    BY DEF SignInSafe, SignInTypes
  <1>2. ASSUME NEW t \in SignIns
        PROVE  /\ Same(t) /\ signIn'[t] \in SignInRecords /\ signIn'[t].canceled = signIn[t].canceled
               /\ signIn[t].id = i => signIn'[t].over
    <2> DEFINE v == signIn[t].over \/ signIn[t].id = i
               q == [signIn[t] EXCEPT !.over = v]
    <2>1. signIn[t] \in SignInRecords /\ PlacedWell(t)
      BY Facts
    <2>2. signIn'[t] = q
      BY <2>1 DEF RemoveProvider, SignInRecords
    <2>3. v \in BOOLEAN /\ (signIn[t].over \/ signIn[t].id = i => v)
      OBVIOUS
    <2>4. SignInAt(t, "out") => q = signIn[t]
      <3> SUFFICES ASSUME SignInAt(t, "out") PROVE q = signIn[t]
        OBVIOUS
      <3>1. ~signIn[t].over /\ signIn[t].id = NoInstance /\ signIn[t].over = FALSE
        BY <2>1 DEF PlacedWell, NoSignIn
      <3>2. v = FALSE
        BY <3>1, NamesDiffer
      <3> QED
        BY <2>1, <3>1, <3>2 DEF SignInRecords
    <2> HIDE DEF v
    <2>5. /\ q \in SignInRecords /\ (q.over = v) /\ q.at = signIn[t].at /\ q.id = signIn[t].id
          /\ q.new = signIn[t].new /\ q.bare = signIn[t].bare /\ q.object = signIn[t].object
          /\ q.canceled = signIn[t].canceled /\ q.existed = signIn[t].existed
          /\ q.created = signIn[t].created /\ q.lost = signIn[t].lost
      BY <2>1, <2>3, RecordOver
    <2> HIDE DEF q
    <2> QED
      BY <2>2, <2>3, <2>4, <2>5 DEF Same
  <1>3. signIn' \in [SignIns -> SignInRecords]
    BY <1>2 DEF RemoveProvider
  <1> QED
    BY <1>2, <1>3, PollTypes, DeletionKeeps DEF RemoveProvider, pollVars

\* The rows of a provider that is deleted go.
LEMMA DeleteRowsSafe ==
  ASSUME SignInSafe, NEW i \in Instances, Recorded, DeleteRows(i)
  PROVE  SignInSafe'
  <1>1. /\ signIn' \in [SignIns -> SignInRecords] /\ \A t \in SignIns : Same(t)
        /\ \A t \in SignIns : signIn'[t].canceled = signIn[t].canceled
    BY Unmoved DEF DeleteRows
  <1> QED
    BY <1>1, PollTypes, DeletionKeeps DEF DeleteRows, pollVars

\* The invariant holds at first.
LEMMA SignInsBegin == SignInsInit => SignInSafe
  <1> SUFFICES ASSUME SignInsInit PROVE SignInSafe
    OBVIOUS
  <1>1. NoSignIn \in SignInRecords /\ {} \in Nobodys /\ {Founder} \in Nobodys
    BY DEF NoSignIn, SignInRecords, SignInPlaces, AtRest, Nobodys, Owners
  <1>2. /\ signIn \in [SignIns -> SignInRecords] /\ \A s \in SignIns : signIn[s] = NoSignIn
        /\ \A s \in SignIns : signIn[s].at = "out" /\ signIn[s].new /\ ~signIn[s].bare
             /\ ~signIn[s].created /\ ~signIn[s].existed /\ signIn[s].id = NoInstance
             /\ signIn[s].object = {}
    BY <1>1 DEF SignInsInit, NoSignIn
  <1>3. instanceRows \subseteq {1} /\ 1 \in Instances /\ Founder \in Owners
    BY SignInsAssumption DEF SignInsInit, Instances, Owners
  <1>4. /\ credentials \in [Instances -> Nobodys] /\ instances \in [Instances -> Nobodys]
        /\ carried \in [Owners -> Nobodys]
        /\ \A i \in Instances : \A o \in instances[i] : o = Founder /\ i = 1
    BY <1>1, <1>3 DEF SignInsInit
  <1>5. /\ outcomes \in [Instances -> SUBSET Results] /\ \A i \in Instances : outcomes[i] = {}
        /\ activeFlow = {} /\ deleting = {} /\ disturbed = {}
    BY DEF SignInsInit
  <1>6. /\ loginFlow \in [SignIns -> [at : Told, id : 0..PendingInstance, own : BOOLEAN]]
        /\ \A s \in SignIns : loginFlow[s].at = "none" /\ ~loginFlow[s].own
    <2> DEFINE n == [at |-> "none", id |-> NoInstance, own |-> FALSE]
    <2>1. n \in [at : Told, id : 0..PendingInstance, own : BOOLEAN] /\ n.at = "none" /\ ~n.own
      BY SignInsAssumption DEF Told, NoInstance, PendingInstance
    <2>2. loginFlow = [s \in SignIns |-> n]
      BY DEF SignInsInit
    <2> HIDE DEF n
    <2> QED
      BY <2>1, <2>2
  <1>7. SignInTypes
    <2>1. kind \in SignInKinds /\ instanceRows \subseteq Instances
      BY <1>3 DEF SignInsInit
    <2>2. visits \in 0..MaxVisits
      BY SignInsAssumption DEF SignInsInit
    <2>3. deleting \subseteq Instances /\ disturbed \subseteq SignIns
      BY <1>5
    <2> QED
      BY <1>2, <1>4, <1>5, <1>6, <2>1, <2>2, <2>3 DEF SignInTypes
  <1>8. RegistryKept
    BY <1>4 DEF RegistryKept, Belongs
  <1>9. ASSUME NEW s \in SignIns PROVE PlacedWell(s) /\ KeptWhole(s) /\ LoginKept(s)
    <2>1. ~UnderWay(s) /\ \A p : SignInAt(s, p) <=> (p = "out")
      BY <1>2 DEF UnderWay, AtRest, SignInAt
    <2>2. PlacedWell(s)
      BY <1>2, <1>6, <2>1 DEF PlacedWell, Named, Redirects, Reserved
    <2>3. KeptWhole(s)
      BY <1>2, <1>5, <2>1 DEF KeptWhole, Through
    <2>4. LoginKept(s)
      BY <1>6 DEF LoginKept
    <2> QED
      BY <2>2, <2>3, <2>4
  <1> QED
    BY <1>5, <1>7, <1>8, <1>9 DEF SignInSafe

\* Every step keeps it.
LEMMA SignInsGoOn == SignInSafe /\ [SignInsNext]_signInVars => SignInSafe'
  <1> SUFFICES ASSUME SignInSafe, [SignInsNext]_signInVars PROVE SignInSafe'
    OBVIOUS
  <1>1. CASE UNCHANGED signInVars
    <2>1. /\ \A s \in SignIns : (PlacedWell(s) /\ KeptWhole(s) /\ LoginKept(s))'
      BY <1>1 DEF signInVars, SignInSafe, PlacedWell, KeptWhole, LoginKept, SignInAt, UnderWay, Undisturbed,
         Belongs, Instances, NoInstance, SignIns, PendingInstance
    <2>2. RegistryKept' /\ SignInTypes'
      BY <1>1, TypesStay DEF signInVars, SignInSafe, RegistryKept, SignInTypes, Belongs, Instances
    <2>3. \A a \in activeFlow' : FlowKept(a)'
      BY <1>1 DEF signInVars, SignInSafe, FlowKept, SignInAt, UnderWay, Undisturbed, FlowName, Flows,
         PendingInstance, SignIns
    <2>4. \A i \in Instances : \A r \in outcomes'[i] : ResultKept(r)'
      BY <1>1 DEF signInVars, SignInSafe, ResultKept, SignInAt, Results, SignIns
    <2> QED
      BY <2>1, <2>2, <2>3, <2>4 DEF SignInSafe, SignIns, Instances
  <1>2. CASE SignInsNext
    <2> Recorded
      BY <1>2 DEF SignInsNext, Recorded
    <2>1. ASSUME NEW s \in SignIns, SignInStep(s) PROVE SignInSafe'
      <3>1. CASE GotCode(s)
        <4>1. SignInAt(s, "coding")
          BY <3>1 DEF GotCode
        <4> QED
          BY <3>1, <4>1, GotCodeSafe, RefusedSafe DEF GotCode
      <3>2. CASE Polled(s)
        BY <3>2, PolledSafe
      <3>3. CASE Listen(s) \/ CallBack(s) \/ Redirected(s)
        BY <3>3, RedirectSafe
      <3>4. CASE Exchanges(s)
        BY <3>4, ExchangesSafe
      <3>5. CASE Reserve(s)
        BY <3>5, ReserveSafe
      <3>6. CASE SaveCredentials(s)
        BY <3>6, SaveSafe
      <3>7. CASE SaveFails(s)
        BY <3>7, SaveFailsSafe
      <3>8. CASE RegisterProvider(s)
        BY <3>8, RegisterSafe
      <3>9. CASE Undo(s)
        BY <3>9, UndoSafe
      <3>10. CASE Finish(s)
        BY <3>10, FinishSafe
      <3> QED
        BY <2>1, <3>1, <3>2, <3>3, <3>4, <3>5, <3>6, <3>7, <3>8, <3>9, <3>10 DEF SignInStep
    <2>2. ASSUME NEW s \in SignIns, Login(s) \/ LoginStatus(s) \/ LoginCancel(s) PROVE SignInSafe'
      BY <2>2, LoginSafe, LoginStatusSafe, LoginCancelSafe
    <2>3. ASSUME NEW s \in SignIns, NEW new \in BOOLEAN,
                 \/ CreateOfKey(s) \/ CreateNumbered(s) \/ RenewWithKey(s)
                 \/ StartOAuth(s, new)
                 \/ \E bare \in BOOLEAN : StartDevice(s, new, bare)
          PROVE  SignInSafe'
      BY <2>3, CreateSafe, StartDeviceSafe
    <2>4. ASSUME GetAuthStatus \/ CancelAuth \/ \E i \in Instances : OAuthStatus(i) PROVE SignInSafe'
      BY <2>4, VisitsSafe
    <2>5. ASSUME NEW i \in Instances, RemoveProvider(i) \/ DeleteRows(i) PROVE SignInSafe'
      BY <2>5, RemoveProviderSafe, DeleteRowsSafe
    <2> QED
      BY <1>2, <2>1, <2>2, <2>3, <2>4, <2>5 DEF SignInsNext, SignInsStep
  <1> QED
    BY <1>1, <1>2

\* A set whose members are all one has at most one.
LEMMA AtMostOne == ASSUME NEW S, \A a, b \in S : a = b PROVE Cardinality(S) <= 1
  <1>1. CASE S = {}
    BY <1>1, FS_EmptySet
  <1>2. CASE S # {}
    <2>1. PICK x : x \in S
      BY <1>2
    <2>2. S = {x}
      BY <2>1
    <2> QED
      BY <2>2, FS_Singleton
  <1> QED
    BY <1>1, <1>2

\* It implies what is promised.
LEMMA SafeSignIns == SignInSafe => SignInsTypeOK /\ SignInsAreWhole
  <1> SUFFICES ASSUME SignInSafe PROVE SignInsTypeOK /\ SignInsAreWhole
    OBVIOUS
  <1>1. SignInsTypeOK
    <2>1. Cardinality(activeFlow) <= 1 /\ \A i \in Instances : Cardinality(outcomes[i]) <= 1
      BY AtMostOne DEF SignInSafe, SignInTypes
    <2> QED
      BY <2>1 DEF SignInSafe, SignInTypes, SignInsTypeOK, SignInRecords
  <1>2. ASSUME NEW s \in SignIns, Undisturbed(s)
        PROVE  /\ SignInAt(s, "done") =>
                    /\ \E o \in instances[signIn[s].id] : carried[o] = {s}
                    /\ signIn[s].lost \/ (signIn[s].id \in instanceRows /\ credentials[signIn[s].id] = {s})
               /\ (SignInAt(s, "failed") /\ signIn[s].created) =>
                    /\ instances[signIn[s].id] # {s} /\ credentials[signIn[s].id] = {}
                    /\ signIn[s].id \in instanceRows => instances[signIn[s].id] # {}
               /\ (SignInAt(s, "failed") /\ signIn[s].existed) => signIn[s].id \in instanceRows
               /\ loginFlow[s].own => /\ loginFlow[s].at = "complete" => SignInAt(s, "done")
                                      /\ loginFlow[s].at = "error" => SignInAt(s, "failed")
    <2>1. PlacedWell(s) /\ KeptWhole(s) /\ LoginKept(s) /\ RegistryKept
      BY DEF SignInSafe
    <2>2. SignInAt(s, "failed") /\ signIn[s].created => s \notin instances[signIn[s].id]
      BY <2>1 DEF PlacedWell, RegistryKept, Belongs, Founder, SignIns, SignInAt, Through
    <2> QED
      BY <1>2, <2>1, <2>2 DEF KeptWhole, LoginKept, SignInAt, Through
  <1> QED
    BY <1>1, <1>2 DEF SignInsAreWhole, ToldOfTheirOwn

(***************************************************************************)
(* SIGN-INS, for any number of operators, instances and visits: a sign-in  *)
(* that nobody crossed and that got through is the one its provider works  *)
(* with; one that failed leaves nothing it made and takes nothing that was *)
(* there; and clients are told of their own (admin_providers.go,           *)
(* admin_provider_login.go, admin_openai_oauth.go,                         *)
(* admin_antigravity_oauth.go, provider_instance_reservation.go).          *)
(***************************************************************************)
THEOREM SignInsGetThrough == SignInsSpec => [](SignInsTypeOK /\ SignInsAreWhole)
  BY SignInsBegin, SignInsGoOn, SafeSignIns, PTL DEF SignInsSpec
=================================================================================
