------------------------------ MODULE CopilotCalls ------------------------------
(***************************************************************************)
(* One call to GitHub Copilot (internal/providers/copilot): which of the   *)
(* two upstream endpoints it goes to, with which host and token, and what  *)
(* each failure leads to, beside a provider whose token is exchanged,      *)
(* whose catalog is discovered and whose account is changed by others.     *)
(* External: GitHub's token exchange, the upstream and its catalog, the    *)
(* clock.  A stream that has begun is never sent again: a call ends with   *)
(* its first accepted answer.                                              *)
(***************************************************************************)
EXTENDS Naturals

CONSTANTS Seats,       \* GitHub accounts
          Enterprise,  \* those of Seats whose upstream has a host of its own
          Public,      \* the public host
          NoSeat,      \* nobody's token
          MaxOthers    \* bound: refreshes and sign-ins beside the call

Hosts == Enterprise \cup {Public}
HostOf(seat) == IF seat \in Enterprise THEN seat ELSE Public
\* What an exchange reports: the account's host, or none, as for personal seats.
Reports(seat) == {HostOf(seat), NoSeat}

\* Models by what the code knows of their names, and the endpoints that serve them: a
\* plain one, GPT-5 and its mini, one of the adapter's and one of the executor's
\* responses-only names, and one that only the catalog tells to be responses-only.
Models == {"plain", "gpt-5", "gpt-5-mini", "grok", "mai", "unnamed"}
Endpoints == {"chat", "responses"}
Serving(model) == CASE model = "plain" -> {"chat"}
                    [] model = "gpt-5-mini" -> Endpoints
                    [] OTHER -> {"responses"}

VARIABLES provider,  \* the shared provider: account, token, whether it is due, and host
          learned,   \* history: the host is one reported for the token's account
          flight,    \* the exchange in flight: for which account, and who waits for it
          refreshing,   \* per refresher, where its RefreshToken is
          accountRead,  \* per refresher, the account RefreshToken has read
          call,      \* the call
          others     \* refreshes and sign-ins beside it so far

copilotVars == <<provider, learned, flight, refreshing, accountRead, call, others>>

\* The call, and whoever else refreshes: another request, model discovery, a sign-in.
Refreshers == {"call", "other"}
NoFlight == [seat |-> NoSeat, waits |-> {}]

CallPlaces == {"out", "addressing", "dressing", "renewing", "sending",
           "waiting", "reauthorizing", "answered", "failed"}
Causes == {"first", "transport", "auth", "timeout", "endpoint"}
CopilotTypeOK ==
  /\ provider \in [account : Seats, token : Seats \cup {NoSeat}, due : BOOLEAN, host : Hosts]
  /\ learned \in BOOLEAN
  /\ flight \in [seat : Seats \cup {NoSeat}, waits : SUBSET Refreshers]
  /\ refreshing \in [Refreshers -> {"idle", "reading", "asking", "joined", "renewed", "refused"}]
  /\ accountRead \in [Refreshers -> Seats \cup {NoSeat}]
  /\ call.at \in CallPlaces /\ call.cause \in Causes /\ call.endpoint \in Endpoints

\* The provider after LoadFromDB: a saved token that is still good is taken as it is, as is
\* the host with a refresh that reports none; of another the refresh has succeeded, or failed.
Loaded(seat) ==
  \/ /\ provider = [account |-> seat, token |-> seat, due |-> FALSE, host |-> Public]
     /\ learned = FALSE
  \/ /\ provider = [account |-> seat, token |-> seat, due |-> FALSE, host |-> HostOf(seat)]
     /\ learned = TRUE
  \/ /\ provider \in [account : {seat}, token : {seat, NoSeat}, due : {TRUE}, host : {Public}]
     /\ learned = FALSE

NoRetries == [transport |-> 0, auth |-> 0, timeout |-> 0]
\* What a pass presents.
Nothing == [host |-> Public, token |-> NoSeat,
            current |-> FALSE,  \* history: the token is still the one in use,
            repeats |-> FALSE,  \* and this call has had it rejected;
            moved |-> FALSE]    \* the host may not be the token's: it has changed, or is a guess
NoCall ==
  [at |-> "out", served |-> {"chat"}, forced |-> FALSE, known |-> FALSE,
   endpoint |-> "chat", mayAuth |-> TRUE, mayTransport |-> TRUE, gone |-> FALSE,
   pass |-> Nothing, cause |-> "first", retries |-> NoRetries, transient |-> FALSE,
   denied |-> FALSE]  \* history: this call has had the token in use rejected

CopilotInit ==
  /\ \E seat \in Seats : Loaded(seat)
  /\ flight = NoFlight
  /\ refreshing = [x \in Refreshers |-> "idle"] /\ accountRead = [x \in Refreshers |-> NoSeat]
  /\ call = NoCall /\ others = 0

\* --- which endpoint
\* shouldForceChatCompletions: the gateway keeps a call on chat completions unless the
\* client speaks Responses, the catalog or the name says that the model is responses-only,
\* or the model is of the GPT-5 family.
ResponsesOnly(model) == "chat" \notin Serving(model)
\* Slip: the executor does not ask the catalog.
ForcedByName(model, dialect, catalog) ==
  dialect # "responses" /\ model \notin {"grok", "mai", "gpt-5", "gpt-5-mini"}
Forced(model, dialect, catalog) ==
  /\ dialect # "responses"
  /\ model \notin {"grok", "mai", "gpt-5", "gpt-5-mini"}
  /\ ~(catalog /\ ResponsesOnly(model))

\* selectShape: the adapter's name list, the force, the catalog, the family.
SelectShape(model, forced, catalog) ==
  IF \/ model = "grok"
     \/ ~forced /\ catalog /\ ResponsesOnly(model)
     \/ ~forced /\ ~catalog /\ model = "gpt-5"
  THEN "responses" ELSE "chat"

\* ApplyGitHubCopilotSingleUpstreamMode: the force is set in what all candidates of a
\* request share and never cleared: one that a Copilot candidate of another model has
\* left there holds.
ForceChatCompletions(model, dialect, gateway, left, catalog) ==
  left \/ (gateway /\ Forced(model, dialect, catalog))

\* A request arrives, through the gateway's executor or by the provider's interface.  The
\* gateway's calls never refresh a rejected token.  The executor asks the catalog first
\* and the adapter later: discovery publishes it once and never takes it back.  For a
\* client that speaks Responses no candidate leaves a force.
BeginCall(model, dialect, gateway, left, early, late) ==
  /\ call.at = "out" /\ (early => late) /\ (left => gateway /\ dialect # "responses")
  /\ LET forced == ForceChatCompletions(model, dialect, gateway, left, early)
     IN call' = [call EXCEPT !.at = "addressing", !.served = Serving(model), !.known = early /\ ~left,
                             !.forced = forced, !.mayAuth = ~gateway,
                             !.endpoint = SelectShape(model, forced, late)]
  /\ UNCHANGED <<provider, learned, flight, refreshing, accountRead, others>>

\* --- host and token
\* The URL is made of the base URL of the moment, before the headers.
Address ==
  /\ call.at = "addressing"
  /\ call' = [call EXCEPT !.at = "dressing", !.pass.host = provider.host,
                          !.pass.moved = ~learned]
  /\ UNCHANGED <<provider, learned, flight, refreshing, accountRead, others>>

\* The headers take the token in use.
WithToken(c) == [c EXCEPT !.at = "sending", !.pass.token = provider.token,
                          !.pass.current = TRUE, !.pass.repeats = c.denied]
\* GetToken: a token that is missing or due is refreshed first, and taken as it is when
\* that fails.
NeedsRefresh == provider.token = NoSeat \/ provider.due
Dress ==
  /\ call.at = "dressing"
  /\ IF NeedsRefresh
     THEN /\ call' = [call EXCEPT !.at = "renewing"] /\ refreshing' = [refreshing EXCEPT !["call"] = "reading"]
     ELSE call' = WithToken(call) /\ UNCHANGED refreshing
  /\ UNCHANGED <<provider, learned, flight, accountRead, others>>
Dressed ==
  /\ call.at = "renewing" /\ refreshing["call"] \in {"renewed", "refused"}
  /\ call' = WithToken(call) /\ refreshing' = [refreshing EXCEPT !["call"] = "idle"]
  /\ UNCHANGED <<provider, learned, flight, accountRead, others>>

\* RefreshToken: the account is read, and then one exchange at a time is made for all.
ReadAccount(x) ==
  /\ refreshing[x] = "reading"
  /\ accountRead' = [accountRead EXCEPT ![x] = provider.account]
  /\ refreshing' = [refreshing EXCEPT ![x] = "asking"]
  /\ UNCHANGED <<provider, learned, flight, call, others>>
AskExchange(x) ==
  /\ refreshing[x] = "asking"
  /\ flight' = [seat |-> IF flight.waits = {} THEN accountRead[x] ELSE flight.seat,
                waits |-> flight.waits \cup {x}]
  /\ refreshing' = [refreshing EXCEPT ![x] = "joined"] /\ accountRead' = [accountRead EXCEPT ![x] = NoSeat]
  /\ UNCHANGED <<provider, learned, call, others>>

\* Slip: the exchange's host is taken only with the first token.
HostKept(p, reported) == IF p.token = NoSeat /\ reported # NoSeat THEN reported ELSE p.host
\* The host that the exchange reports is adopted; where it reports none, the last one stays,
\* that of the account before it included.
AdoptedHost(p, reported) == IF reported = NoSeat THEN p.host ELSE reported
Exchanged(ok) ==
  [x \in Refreshers |-> IF x \notin flight.waits THEN refreshing[x]
                        ELSE IF x = "other" THEN "idle"
                        ELSE IF ok THEN "renewed" ELSE "refused"]
Exchange(reported) ==
  /\ flight.waits # {}
  /\ LET host == AdoptedHost(provider, reported)
         told == reported # NoSeat \/ (learned /\ flight.seat = provider.token)
     IN /\ provider' = [provider EXCEPT !.token = flight.seat, !.due = FALSE, !.host = host]
        /\ learned' = told
        /\ call' = [call EXCEPT !.denied = FALSE, !.pass.current = FALSE,
                                !.pass.moved = @ \/ /\ call.at \in {"dressing", "renewing", "sending"}
                                                    /\ ~told \/ host # provider.host]
  /\ flight' = NoFlight /\ refreshing' = Exchanged(TRUE)
  /\ UNCHANGED <<accountRead, others>>
ExchangeFails ==
  /\ flight.waits # {}
  /\ flight' = NoFlight /\ refreshing' = Exchanged(FALSE)
  /\ UNCHANGED <<provider, learned, accountRead, call, others>>

\* --- the answer
End(place) == [NoCall EXCEPT !.at = place]
Failed == End("failed")
\* Who waits or starts over has nothing to present.
Retry(c, cause) == [c EXCEPT !.cause = cause, !.retries[cause] = IF @ < 2 THEN @ + 1 ELSE 2]

\* A transient failure of a chat call is sent again once, after a short wait.
\* Slip: a retry after a wait may be followed by another.
OrWaitAgain(c) ==
  IF c.endpoint = "chat" THEN [c EXCEPT !.at = "waiting", !.pass = Nothing] ELSE Failed
OrWait(c) ==
  IF c.endpoint = "chat" /\ c.mayTransport THEN [c EXCEPT !.at = "waiting", !.pass = Nothing]
  ELSE Failed

Sending == call.at = "sending" /\ ~call.gone
Respond(next) == call' = next /\ UNCHANGED <<provider, learned, flight, refreshing, accountRead, others>>

Accept == Sending /\ call.endpoint \in call.served /\ Respond(End("answered"))
\* A reset connection, an unexpected end, a 502, 503 or 504.
Unavailable == Sending /\ Respond(OrWait(call))
\* Any other error, or a timeout that took its budget.
Refuse == Sending /\ Respond(Failed)
\* A timeout: that of a Responses call, if it is no stream and early in its budget, is sent
\* again, once in a pass, to the same URL with new headers.
TimeOut ==
  /\ Sending
  /\ \/ /\ call.endpoint = "responses" /\ call.cause # "timeout"
        /\ Respond([Retry(call, "timeout") EXCEPT !.at = "dressing"])
     \/ Respond(Failed)
\* The token is rejected; the status may be a 503 whose body says so.
Reject(transient) ==
  /\ Sending
  /\ IF call.mayAuth
     THEN /\ call' = [call EXCEPT !.at = "reauthorizing", !.denied = @ \/ call.pass.current,
                                  !.transient = transient, !.pass = Nothing]
          /\ refreshing' = [refreshing EXCEPT !["call"] = "reading"]
          /\ UNCHANGED <<provider, learned, flight, accountRead, others>>
     ELSE LET c == [call EXCEPT !.denied = @ \/ call.pass.current]
          IN Respond(IF transient THEN OrWait(c) ELSE Failed)
\* Chat completions do not serve the model: the Responses endpoint is tried, with an auth
\* retry of its own, unless the gateway has forced the endpoint.
Unsupported ==
  /\ Sending /\ call.endpoint = "chat" /\ "chat" \notin call.served
  /\ Respond(IF call.forced THEN Failed
             ELSE [call EXCEPT !.endpoint = "responses", !.at = "addressing", !.cause = "endpoint",
                               !.mayAuth = call.mayAuth \/ call.retries.auth > 0,
                               !.retries = NoRetries, !.pass = Nothing])
\* The client has gone: the request does not leave.
Abandoned == call.at = "sending" /\ call.gone /\ Respond(Failed)

\* Slip: a pass after a refresh may wait and send again, and so on.
NewPass(c) == [c EXCEPT !.at = "addressing", !.mayAuth = FALSE, !.mayTransport = TRUE]
\* The pass after a refresh keeps what is left of the transport retry.
AuthorizedPass(c) == [c EXCEPT !.at = "addressing", !.mayAuth = FALSE]

\* Slip: a refresh that failed is taken for one that did not.
Reached(outcome) == outcome \in {"renewed", "refused"}
\* refreshTokenForRetry.
Refreshed(outcome) == outcome = "renewed"

Reauthorized ==
  /\ call.at = "reauthorizing" /\ refreshing["call"] \in {"renewed", "refused"}
  /\ call' = IF Refreshed(refreshing["call"])
             THEN [AuthorizedPass(Retry(call, "auth")) EXCEPT !.retries.timeout = 0, !.transient = FALSE]
             ELSE IF call.transient THEN OrWait([call EXCEPT !.transient = FALSE]) ELSE Failed
  /\ refreshing' = [refreshing EXCEPT !["call"] = "idle"]
  /\ UNCHANGED <<provider, learned, flight, accountRead, others>>

\* Slip: a pass after a wait may refresh and send again, and so on.
WaitedPass(c) == [c EXCEPT !.at = "addressing", !.mayTransport = FALSE, !.mayAuth = TRUE]
\* The pass after a wait keeps what is left of the auth retry.
TransportPass(c) == [c EXCEPT !.at = "addressing", !.mayTransport = FALSE]

\* waitBeforeTransportRetry, which the client's going ends.
WaitedOut ==
  /\ call.at = "waiting"
  /\ \/ Respond(TransportPass(Retry(call, "transport")))
     \/ call.gone /\ Respond(Failed)

CallStep == \/ Address \/ Dress \/ Dressed \/ Accept \/ Unavailable \/ Refuse \/ TimeOut
            \/ Reject(TRUE) \/ Reject(FALSE) \/ Unsupported \/ Abandoned \/ Reauthorized \/ WaitedOut
            \/ ReadAccount("call") \/ AskExchange("call")

\* --- others
\* The client goes; nothing looks at that but a request that is sent and a wait.
Leave ==
  /\ call.at \in {"sending", "waiting"} /\ ~call.gone
  /\ Respond([call EXCEPT !.gone = TRUE])
\* The token comes close to its end.
Expire ==
  /\ provider.token # NoSeat /\ ~provider.due /\ provider' = [provider EXCEPT !.due = TRUE]
  /\ UNCHANGED <<learned, flight, refreshing, accountRead, call, others>>
\* Another call refreshes a due token; or SetupAuth takes an account and refreshes.
OthersRefresh ==
  /\ refreshing["other"] = "idle" /\ NeedsRefresh /\ others < MaxOthers /\ others' = others + 1
  /\ refreshing' = [refreshing EXCEPT !["other"] = "reading"]
  /\ UNCHANGED <<provider, learned, flight, accountRead, call>>
SetupAuth(seat) ==
  /\ refreshing["other"] = "idle" /\ others < MaxOthers /\ others' = others + 1
  /\ provider' = [provider EXCEPT !.account = seat]
  /\ refreshing' = [refreshing EXCEPT !["other"] = "reading"]
  /\ UNCHANGED <<learned, flight, accountRead, call>>

CopilotNext ==
  \/ \E model \in Models, dialect \in {"chat", "messages", "responses"},
        gateway, left, early, late \in BOOLEAN : BeginCall(model, dialect, gateway, left, early, late)
  \/ \E reported \in Reports(flight.seat) : Exchange(reported)
  \/ CallStep \/ ExchangeFails \/ Leave \/ Expire
  \/ OthersRefresh \/ ReadAccount("other") \/ AskExchange("other")
  \/ \E seat \in Seats : SetupAuth(seat)

CopilotSpec == CopilotInit /\ [][CopilotNext]_copilotVars

\* Once the catalog is known no call is sent to an endpoint that does not serve its model,
\* unless another candidate of its request had forced the endpoint before.
CataloguedModelsAreServed ==
  call.at = "sending" /\ call.known => call.endpoint \in call.served

\* COPILOT.  No failure is retried twice on an endpoint, whatever the order in which
\* failures of different kinds come; a call that is sent again because its token was
\* rejected presents another one; and a token goes to the host of its own account, unless
\* the host has changed since the URL was made, or no exchange of this process has reported
\* one for the account that it has now (the host before it stays then, token.go:94-99).
\* The executor, which asks the catalog first, and the adapter, which asks it later, never
\* send a call where its model is not served, whatever the client speaks, unless another
\* candidate of the request has left its force behind (executor.go:107-118).
CopilotCallsAreSound ==
  /\ \A kind \in DOMAIN NoRetries : call.retries[kind] <= 1
  /\ call.at = "sending" =>
       /\ call.cause = "auth" => ~call.pass.repeats
       /\ call.pass.token # NoSeat /\ ~call.pass.moved => call.pass.host = HostOf(call.pass.token)
  /\ CataloguedModelsAreServed
=============================================================================
