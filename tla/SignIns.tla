-------------------------------- MODULE SignIns --------------------------------
(***************************************************************************)
(* Signing in to providers (internal/routes/admin_providers.go,            *)
(* admin_provider_login.go, admin_openai_oauth.go,                         *)
(* admin_antigravity_oauth.go, provider_instance_reservation.go): an       *)
(* operator's sign-in creates a provider instance or renews the            *)
(* credentials of one: at once with a key, by GitHub's device code or a    *)
(* GitHub token, by a redirect to a listener (OpenAI) or by one to the     *)
(* server (Antigravity), beside other sign-ins and deletions, and a client *)
(* polls how it went.                                                      *)
(* External: the browsers, GitHub and the OAuth servers, the clock.  The   *)
(* registry's background save is RegistrySaves': here a provider that is   *)
(* registered has its row at once.                                         *)
(***************************************************************************)
EXTENDS Naturals, FiniteSets

CONSTANTS MaxSignIns,    \* sign-ins, one operator's each, numbered as they start
          MaxInstances,  \* bound: instance ids
          MaxVisits      \* bound: login flows, polls and cancels by older routes, deletions
ASSUME SignInsAssumption ==
  MaxSignIns \in Nat /\ MaxInstances \in Nat \ {0} /\ MaxVisits \in Nat

Instances == 1..MaxInstances
SignIns == 1..MaxSignIns
Founder == 0  \* whoever signed in to the provider that was there before
Owners == SignIns \cup {Founder}
NoInstance == 0
PendingInstance == MaxInstances + 1   \* "copilot-pending": a creation whose account is not known yet
\* Ways to sign in; those with a key that is not saved by SetupAuth are Codex's.
SignInKinds == {"key", "codex", "device", "openai", "antigravity"}

VARIABLES kind,         \* the way of this behaviour's sign-ins
          signIn,       \* per sign-in: where it is, and for which instance
          instanceRows, \* provider_instances
          credentials,  \* tokens: per instance, {} or whose credentials are stored
          instances,    \* the registry: {} or the provider object, named for its creator
          carried,       \* per provider object, whose credentials it holds
          activeFlow,   \* activeAuthFlow, {} for nil
          outcomes,     \* openaiOAuthResults, agOAuthResults: {} or the last sign-in's
          loginFlow,    \* per sign-in, its providerLoginFlow and what its client was told
          visits,       \* login flows, older polls and cancels, and deletions so far
          deleting,     \* the ids of deletions whose rows have still to go
          disturbed       \* history: sign-ins that others got in the way of

signInVars == <<kind, signIn, instanceRows, credentials, instances, carried, activeFlow,
                outcomes, loginFlow, visits, deleting, disturbed>>

AtRest == {"out", "refused", "done", "failed"}
SignInPlaces == AtRest \cup {"coding", "polling", "queued", "listening", "redirecting", "exchanging",
                     "reserving", "saving", "registering", "undoing", "finishing"}
Told == {"none", "pending", "complete", "error", "gone"}
Nobodys == {{}} \cup {{o} : o \in Owners}
SignInsTypeOK ==
  /\ kind \in SignInKinds
  /\ signIn \in [SignIns -> [at : SignInPlaces, id : Instances \cup {NoInstance},
                             new : BOOLEAN, bare : BOOLEAN, object : Nobodys,
                             created : BOOLEAN, canceled : BOOLEAN, existed : BOOLEAN, lost : BOOLEAN, over : BOOLEAN]]
  /\ instanceRows \subseteq Instances /\ deleting \subseteq Instances
  /\ credentials \in [Instances -> Nobodys] /\ instances \in [Instances -> Nobodys]
  /\ carried \in [Owners -> Nobodys]
  /\ Cardinality(activeFlow) <= 1 /\ \A i \in Instances : Cardinality(outcomes[i]) <= 1
  /\ loginFlow \in [SignIns -> [at : Told, id : 0..PendingInstance, own : BOOLEAN]]
  /\ visits \in 0..MaxVisits /\ disturbed \subseteq SignIns

NoSignIn == [at |-> "out", id |-> NoInstance, new |-> TRUE,
             bare |-> FALSE,    \* no flow is kept, and a renewal registers nothing
             object |-> {},     \* the provider object that is signed in
             created |-> FALSE, \* the reservation made the row
             canceled |-> FALSE,
             existed |-> FALSE, \* history: the instance was there before
             lost |-> FALSE,    \* history: a save failed, or was left out
             over |-> FALSE]    \* history: somebody else has begun to sign in since, or deleted it

SignInsInit ==
  /\ kind \in SignInKinds
  /\ signIn = [s \in SignIns |-> NoSignIn]
  /\ instanceRows \in {{}, {1}} /\ deleting = {} /\ visits = 0 /\ disturbed = {}
  /\ credentials = [i \in Instances |-> IF i \in instanceRows THEN {Founder} ELSE {}]
  /\ instances = credentials
  /\ carried = [o \in Owners |-> IF o = Founder THEN {Founder} ELSE {}]
  /\ activeFlow = {} /\ outcomes = [i \in Instances |-> {}]
  /\ loginFlow = [s \in SignIns |-> [at |-> "none", id |-> NoInstance, own |-> FALSE]]

storedVars == <<instanceRows, credentials, instances, carried>>
pollVars == <<activeFlow, outcomes, loginFlow>>
deletionVars == <<visits, deleting>>

SignInAt(s, place) == signIn[s].at = place
Starts(s) == SignInAt(s, "out") /\ \A t \in SignIns : t < s => ~SignInAt(t, "out")
MoveTo(s, place) == signIn' = [signIn EXCEPT ![s].at = place]
UnderWay(s) == signIn[s].at \notin AtRest
\* A sign-in that is over has let go of its object and its context.
Ended(s, place) ==
  signIn' = [signIn EXCEPT ![s] = [@ EXCEPT !.at = place, !.object = {}, !.canceled = FALSE]]

\* --- beginning
\* NextInstanceID: the plain id, or else the first number that is not registered.
NextInstanceID ==
  IF \A i \in Instances : instances[i] = {} THEN {1}
  ELSE {i \in Instances : /\ i > 1 /\ instances[i] = {}
                          /\ \A j \in 2..(i - 1) : instances[j] # {}}

\* An id that is made of an account or a key may be one that there is.
Accounts == Instances \ {MaxInstances}
\* The providers that there are.
Registered == {i \in Instances : instances[i] # {}}

\* Whoever signs in to instance i comes after those that did before.
TakenOver(i, s, ins) == [t \in SignIns |-> IF t # s /\ ins[t].id = i THEN [ins[t] EXCEPT !.over = TRUE]
                                           ELSE ins[t]]
\* Sign-in s is for instance i, which its creation reserves later on.
SignInBegun(s, i, new, place, ins) ==
  TakenOver(i, s, [ins EXCEPT ![s] =
    [NoSignIn EXCEPT !.at = place, !.id = i, !.new = new, !.existed = i \in instanceRows,
                     !.object = IF new THEN {s} ELSE instances[i]]])
\* A creation of any kind cancels the active flow and forgets it.
Canceled(ins) == [t \in SignIns |-> IF t \in {a.of : a \in activeFlow}
                                    THEN [ins[t] EXCEPT !.canceled = TRUE] ELSE ins[t]]

\* handleAuthAndCreateProvider with a key: the id is made of it (Alibaba, ModelScope, an
\* endpoint that is OpenAI-compatible; with a GitHub token of the account), or is the next
\* number (Azure, Google, Kimi, TypeSafe, Codex).
CreateWith(s, ids) ==
  /\ Starts(s)
  /\ \E i \in ids : signIn' = SignInBegun(s, i, TRUE, "reserving", signIn)
  /\ UNCHANGED <<kind, storedVars, pollVars, deletionVars>>
CreateOfKey(s) == kind = "key" /\ CreateWith(s, Accounts)
CreateNumbered(s) == kind \in {"key", "codex"} /\ CreateWith(s, NextInstanceID)
\* handleProviderAuth with a key.
RenewWithKey(s) ==
  /\ kind \in {"key", "codex"} /\ Starts(s)
  /\ \E i \in Registered : signIn' = SignInBegun(s, i, FALSE, "saving", signIn)
  /\ UNCHANGED <<kind, storedVars, pollVars, deletionVars>>

\* A device flow asks GitHub for a code first.  A renewal with a GitHub token, or with a code
\* that the caller got before (handleCompleteDeviceCode), goes straight to GitHub and keeps no
\* flow.
StartDevice(s, new, bare) ==
  /\ kind = "device" /\ Starts(s) /\ (bare => ~new)
  /\ LET place == IF bare THEN "polling" ELSE "coding"
     IN \/ /\ new /\ activeFlow' = {}
           /\ signIn' = Canceled([signIn EXCEPT ![s].at = place, ![s].object = {s}, ![s].bare = bare])
        \/ /\ ~new /\ UNCHANGED activeFlow
           /\ \E i \in Registered :
                signIn' = [SignInBegun(s, i, FALSE, place, signIn) EXCEPT ![s].bare = bare]
  /\ UNCHANGED <<kind, storedVars, outcomes, loginFlow, deletionVars>>

\* handleOpenAIStartOAuth and handleAntigravityStartOAuth take the id at once.
StartOAuth(s, new) ==
  /\ kind \in {"openai", "antigravity"} /\ Starts(s)
  /\ \E i \in IF new THEN NextInstanceID ELSE Registered :
       signIn' = SignInBegun(s, i, new, IF kind = "openai" THEN "queued" ELSE "redirecting", signIn)
  /\ UNCHANGED <<kind, storedVars, pollVars, deletionVars>>

\* --- the active flow of device codes
\* The name a sign-in has in its flow until it is done.
FlowName(s) == IF signIn[s].new THEN PendingInstance ELSE signIn[s].id

\* With the code the flow becomes the active one, whoever's was, and GitHub is polled;
\* without, the operator is told so.
GotCode(s) ==
  /\ SignInAt(s, "coding")
  /\ \/ /\ MoveTo(s, "polling")
        /\ activeFlow' = {[of |-> s, id |-> FlowName(s), status |-> "awaiting_user"]}
     \/ Ended(s, "refused") /\ UNCHANGED activeFlow
  /\ UNCHANGED <<kind, storedVars, outcomes, loginFlow, deletionVars>>

\* Slip: the end of a sign-in is marked on whatever flow is active.
MarkedWhoever(s, status) ==
  IF kind # "device" \/ signIn[s].bare THEN activeFlow
  ELSE {[a EXCEPT !.status = status] : a \in activeFlow}
\* The end of sign-in s, marked if the active flow has its name, whosever it is.
Marked(s, status) ==
  IF kind # "device" \/ signIn[s].bare THEN activeFlow
  ELSE {IF a.id # FlowName(s) THEN a
        ELSE [a EXCEPT !.status = status,
                       !.id = IF status = "complete" THEN signIn[s].id ELSE a.id] : a \in activeFlow}

\* --- the operator agrees, or not
\* The object that sign-in s is for holds its credentials.
Given(s) == [o \in Owners |-> IF o \in signIn[s].object THEN {s} ELSE carried[o]]
\* PollAndCompleteDeviceCodeFlow, SetupAuth: the object takes the account before its tokens
\* are fetched, which may fail.  A creation goes on to the account's instance.  A canceled
\* flow polls on; only its failure is not told.
Polled(s) ==
  /\ SignInAt(s, "polling")
  /\ \/ /\ carried' = Given(s)
        /\ UNCHANGED activeFlow
        /\ \/ /\ signIn[s].new
              /\ \E i \in Accounts :
                   signIn' = TakenOver(i, s, [signIn EXCEPT ![s].at = "reserving", ![s].id = i,
                                                            ![s].existed = i \in instanceRows])
           \/ ~signIn[s].new /\ MoveTo(s, "saving")
     \/ /\ Ended(s, "failed")
        /\ activeFlow' = IF signIn[s].canceled THEN activeFlow ELSE Marked(s, "error")
        /\ \/ UNCHANGED carried
           \/ ~signIn[s].new /\ carried' = Given(s)
  /\ UNCHANGED <<kind, instanceRows, credentials, instances, outcomes, loginFlow, deletionVars>>

\* What an OAuth sign-in that failed leaves to be polled.  Antigravity's leaves nothing: the
\* operator reads it in the browser.
FailureKept(s) ==
  IF kind = "openai" THEN [outcomes EXCEPT ![signIn[s].id] = {[of |-> s, error |-> TRUE]}]
  ELSE outcomes
Fails(s) == Ended(s, "failed") /\ outcomes' = FailureKept(s)

\* ListenForCallback: one at a time has the port, unless some other program has it.
Listen(s) ==
  /\ SignInAt(s, "queued") /\ \A t \in SignIns : ~SignInAt(t, "listening")
  /\ (MoveTo(s, "listening") /\ UNCHANGED outcomes) \/ Fails(s)
  /\ UNCHANGED <<kind, storedVars, activeFlow, loginFlow, deletionVars>>
\* A browser comes back: this sign-in's, agreed or denied, or another's, which ends the one
\* that listens; or none comes in time.
CallBack(s) ==
  /\ SignInAt(s, "listening")
  /\ (MoveTo(s, "exchanging") /\ UNCHANGED outcomes) \/ Fails(s)
  /\ UNCHANGED <<kind, storedVars, activeFlow, loginFlow, deletionVars>>
\* handleAntigravityOAuthCallback: a redirect to the server's own route takes its state once.
Redirected(s) ==
  /\ SignInAt(s, "redirecting")
  /\ (MoveTo(s, "exchanging") /\ UNCHANGED outcomes) \/ Fails(s)
  /\ UNCHANGED <<kind, storedVars, activeFlow, loginFlow, deletionVars>>
\* The code is exchanged for tokens; OpenAI's renewal needs its provider by then, and
\* either renews the object that is registered.
Exchanges(s) ==
  LET i == signIn[s].id
  IN /\ SignInAt(s, "exchanging")
     /\ \/ /\ signIn[s].new /\ MoveTo(s, "reserving") /\ UNCHANGED outcomes
        \/ /\ ~signIn[s].new /\ (kind = "openai" => instances[i] # {})
           /\ signIn' = [signIn EXCEPT ![s].at = "saving", ![s].object = instances[i]]
           /\ UNCHANGED outcomes
        \/ Fails(s)
  /\ UNCHANGED <<kind, storedVars, activeFlow, loginFlow, deletionVars>>

\* --- createProvider
\* reserveProviderInstance: the parent row, if there is none.
Reserve(s) ==
  /\ SignInAt(s, "reserving")
  /\ signIn' = [signIn EXCEPT ![s].at = "saving", ![s].created = signIn[s].id \notin instanceRows]
  /\ instanceRows' = instanceRows \cup {signIn[s].id}
  /\ UNCHANGED <<kind, credentials, instances, carried, pollVars, deletionVars>>

\* The object is told its credentials when they are saved, Antigravity's reads them back.
Remembered(s) == IF kind = "antigravity" THEN carried ELSE Given(s)

\* SetupAuth, SaveToDB, ApplyTokens, TokenStore.Save: the credentials need their parent row.
\* Codex keeps a renewed key only in carried.
Saves(s) == kind # "codex" \/ signIn[s].new
SaveCredentials(s) ==
  /\ SignInAt(s, "saving")
  /\ \/ /\ Saves(s) /\ signIn[s].id \in instanceRows
        /\ credentials' = [credentials EXCEPT ![signIn[s].id] = {s}]
        /\ MoveTo(s, "registering")
     \/ /\ ~Saves(s) /\ UNCHANGED credentials
        /\ signIn' = [signIn EXCEPT ![s].at = "registering", ![s].lost = TRUE]
  /\ carried' = Remembered(s)
  /\ UNCHANGED <<kind, instanceRows, instances, pollVars, deletionVars>>
\* A save that fails ends a creation, which is undone, and a renewal, unless it is that of a
\* Copilot account, which goes on as if nothing had happened.  Of a key's two saves the first
\* may have gone through.
SaveFails(s) ==
  /\ SignInAt(s, "saving") /\ Saves(s)
  /\ \/ UNCHANGED credentials
     \/ /\ kind = "key" /\ signIn[s].id \in instanceRows
        /\ credentials' = [credentials EXCEPT ![signIn[s].id] = {s}]
  /\ \/ signIn[s].new /\ MoveTo(s, "undoing") /\ UNCHANGED <<outcomes, carried>>
     \/ /\ ~signIn[s].new /\ kind = "device" /\ UNCHANGED outcomes
        /\ carried' = Remembered(s)
        /\ signIn' = [signIn EXCEPT ![s].at = "registering", ![s].lost = TRUE]
     \/ /\ ~signIn[s].new /\ kind # "device" /\ Fails(s)
        /\ carried' = Remembered(s) \/ (kind = "key" /\ UNCHANGED carried)
  /\ UNCHANGED <<kind, instanceRows, instances, activeFlow, loginFlow, deletionVars>>

\* Register puts this object into the registry, whatever is there, and has the rows of all
\* that are in it saved.  Creations register, and renewals by flow and of some keys.
Registers(s) == signIn[s].new \/ (kind = "device" /\ ~signIn[s].bare)
\* ApplyTokenFromDB: Antigravity's object, or the one registered, takes what is stored.
ReadBack(s, object) ==
  IF kind # "antigravity" \/ credentials[signIn[s].id] = {} THEN carried
  ELSE [o \in Owners |-> IF o \in object THEN credentials[signIn[s].id] ELSE carried[o]]
RegisterProvider(s) ==
  /\ SignInAt(s, "registering")
  /\ \/ /\ Registers(s) \/ kind = "key"
        /\ instances' = [instances EXCEPT ![signIn[s].id] = signIn[s].object]
        /\ instanceRows' = instanceRows \cup {i \in Instances : instances'[i] # {}}
        /\ carried' = ReadBack(s, signIn[s].object)
     \/ /\ ~Registers(s) /\ UNCHANGED <<instances, instanceRows>>
        /\ carried' = ReadBack(s, instances[signIn[s].id])
  /\ MoveTo(s, "finishing")
  /\ UNCHANGED <<kind, credentials, pollVars, deletionVars>>

\* Slip: the rollback also takes a row that was there before.
UndoneAnyway(s) == {signIn[s].id}
\* rollback: only the row that this creation made goes, and with it what hangs on it.
Undone(s) == IF signIn[s].created THEN {signIn[s].id} ELSE {}
Undo(s) ==
  /\ SignInAt(s, "undoing") /\ Fails(s)
  /\ instanceRows' = instanceRows \ Undone(s)
  /\ credentials' = [i \in Instances |-> IF i \in Undone(s) THEN {} ELSE credentials[i]]
  /\ activeFlow' = Marked(s, "error")
  /\ UNCHANGED <<kind, instances, carried, loginFlow, deletionVars>>

\* The sign-in got through, and that is left to be polled.
Finish(s) ==
  /\ SignInAt(s, "finishing") /\ Ended(s, "done")
  /\ outcomes' = IF kind \in {"openai", "antigravity"}
                 THEN [outcomes EXCEPT ![signIn[s].id] = {[of |-> s, error |-> FALSE]}]
                 ELSE outcomes
  /\ activeFlow' = Marked(s, "complete")
  /\ UNCHANGED <<kind, storedVars, loginFlow, deletionVars>>

\* --- the client: login flows, and the older routes
Visit == visits < MaxVisits /\ visits' = visits + 1
\* handleProviderLogin makes a login flow when the handler has answered; the name of a device
\* flow is that of whichever is active by then, or empty.
Login(s) ==
  LET active == {a.id : a \in activeFlow}
      id == IF kind # "device" THEN signIn[s].id
            ELSE CHOOSE a \in active \cup {NoInstance} : active # {} => a \in active
      own == IF kind = "device" THEN \E a \in activeFlow : a.of = s
             ELSE \A r \in outcomes[id] : r.of = s
  IN /\ kind \in {"device", "openai", "antigravity"} /\ ~signIn[s].bare
     /\ Visit
     /\ loginFlow[s].at = "none" /\ signIn[s].at \notin {"out", "refused", "coding"}
     /\ loginFlow' = [loginFlow EXCEPT ![s] = [at |-> "pending", id |-> id, own |-> own]]
     /\ UNCHANGED <<kind, signIn, storedVars, activeFlow, outcomes, deleting>>

\* The active flow that a login flow stands for, by its name: an empty name is anybody's.
FlowOf(s) == {a \in activeFlow : loginFlow[s].id \in {a.id, NoInstance}}
\* What handleProviderLoginStatus finds for a login flow.
StatusOf(s) ==
  IF kind = "device" THEN {a.status : a \in FlowOf(s)} \ {"awaiting_user"}
  ELSE {IF r.error THEN "error" ELSE "complete" : r \in outcomes[loginFlow[s].id]}
\* An answer ends the login flow; ten minutes end it as well.
LoginStatus(s) ==
  /\ loginFlow[s].at = "pending"
  /\ \E told \in StatusOf(s) \cup {"gone"} : loginFlow' = [loginFlow EXCEPT ![s].at = told]
  /\ UNCHANGED <<kind, signIn, storedVars, activeFlow, outcomes, deletionVars>>
\* handleProviderLoginCancel: an OAuth sign-in goes on.
LoginCancel(s) ==
  /\ loginFlow[s].at = "pending" /\ loginFlow' = [loginFlow EXCEPT ![s].at = "gone"]
  /\ IF kind = "device" /\ FlowOf(s) # {} THEN signIn' = Canceled(signIn) /\ activeFlow' = {}
     ELSE UNCHANGED <<signIn, activeFlow>>
  /\ UNCHANGED <<kind, storedVars, outcomes, deletionVars>>

\* handleGetAuthStatus forgets a flow that is over when it has told of it.
GetAuthStatus ==
  /\ \E a \in activeFlow : a.status # "awaiting_user"
  /\ Visit /\ activeFlow' = {}
  /\ UNCHANGED <<kind, signIn, storedVars, outcomes, loginFlow, deleting>>
\* handleCancelAuth cancels one that is not.
CancelAuth ==
  /\ \E a \in activeFlow : a.status = "awaiting_user"
  /\ Visit /\ signIn' = Canceled(signIn) /\ activeFlow' = {}
  /\ UNCHANGED <<kind, storedVars, outcomes, loginFlow, deleting>>
\* The oauth-status routes tell an outcome once.
OAuthStatus(i) ==
  /\ outcomes[i] # {} /\ Visit /\ outcomes' = [outcomes EXCEPT ![i] = {}]
  /\ UNCHANGED <<kind, signIn, storedVars, activeFlow, loginFlow, deleting>>

\* --- handleDeleteProvider: out of the registry, with its tokens, and then the rows.
RemoveProvider(i) ==
  /\ instances[i] # {} /\ Visit /\ deleting' = deleting \cup {i}
  /\ instances' = [instances EXCEPT ![i] = {}] /\ credentials' = [credentials EXCEPT ![i] = {}]
  /\ signIn' = [s \in SignIns |-> [signIn[s] EXCEPT !.over = @ \/ signIn[s].id = i]]
  /\ UNCHANGED <<kind, instanceRows, carried, pollVars>>
DeleteRows(i) ==
  /\ i \in deleting /\ deleting' = deleting \ {i}
  /\ instanceRows' = instanceRows \ {i} /\ credentials' = [credentials EXCEPT ![i] = {}]
  /\ UNCHANGED <<kind, signIn, instances, carried, pollVars, visits>>

\* --- the whole
SignInStep(s) ==
  \/ GotCode(s) \/ Polled(s) \/ Listen(s) \/ CallBack(s) \/ Redirected(s) \/ Exchanges(s)
  \/ Reserve(s) \/ SaveCredentials(s) \/ SaveFails(s) \/ RegisterProvider(s) \/ Undo(s) \/ Finish(s)
SignInsStep ==
  \/ \E s \in SignIns : \/ SignInStep(s) \/ Login(s) \/ LoginStatus(s) \/ LoginCancel(s)
                        \/ CreateOfKey(s) \/ CreateNumbered(s) \/ RenewWithKey(s)
                        \/ \E new \in BOOLEAN : \/ StartOAuth(s, new)
                                                \/ \E bare \in BOOLEAN : StartDevice(s, new, bare)
  \/ GetAuthStatus \/ CancelAuth
  \/ \E i \in Instances : OAuthStatus(i) \/ RemoveProvider(i) \/ DeleteRows(i)

\* Two sign-ins to one instance at once, or a sign-in to one that is being deleted; and two
\* creations by device flow, which have one name, until their clients know.
IsOpen(s) == UnderWay(s) \/ loginFlow[s].at = "pending"
SameName(s, t) == /\ kind = "device" /\ IsOpen(s) /\ IsOpen(t) /\ signIn[s].new /\ signIn[t].new
                  /\ ~signIn[s].bare /\ ~signIn[t].bare
Crossing ==
  {s \in SignIns : \/ UnderWay(s) /\ signIn[s].id \in deleting
                   \/ \E t \in SignIns \ {s} :
                        \/ /\ UnderWay(s) /\ UnderWay(t)
                           /\ signIn[s].id = signIn[t].id /\ signIn[s].id # NoInstance
                        \/ SameName(s, t)}
SignInsNext == SignInsStep /\ disturbed' = disturbed \cup Crossing'
SignInsSpec == SignInsInit /\ [][SignInsNext]_signInVars

\* --- what must hold
\* Undisturbed: nobody else signed in to this instance or deleted it meanwhile or since.
Undisturbed(s) == s \notin disturbed /\ ~signIn[s].over

\* Whoever polls a login flow that began as its own is told of its own sign-in: complete only
\* when that got through, and of an error only when it failed.
ToldOfTheirOwn ==
  \A s \in SignIns : (Undisturbed(s) /\ loginFlow[s].own) =>
    /\ loginFlow[s].at = "complete" => SignInAt(s, "done")
    /\ loginFlow[s].at = "error" => SignInAt(s, "failed")

\* SIGN-INS.  A sign-in that got through is the one the provider works with, in the registry,
\* in its object and, if it could be saved, in the database, whatever else goes on; a creation
\* that failed leaves no provider, no credentials and no row, except that others' saves write
\* the row of a provider that others have registered under its id; a failed one never takes an
\* instance away that was there before (admin-api/spec.md:48-58,
\* provider_instance_reservation.go); and operators are told what became of theirs.
SignInsAreWhole ==
  /\ \A s \in SignIns : Undisturbed(s) =>
       /\ SignInAt(s, "done") =>
            /\ \E o \in instances[signIn[s].id] : carried[o] = {s}
            /\ signIn[s].lost \/ (signIn[s].id \in instanceRows /\ credentials[signIn[s].id] = {s})
       /\ (SignInAt(s, "failed") /\ signIn[s].created) =>
            /\ instances[signIn[s].id] # {s} /\ credentials[signIn[s].id] = {}
            /\ signIn[s].id \in instanceRows => instances[signIn[s].id] # {}
       /\ (SignInAt(s, "failed") /\ signIn[s].existed) => signIn[s].id \in instanceRows
  /\ ToldOfTheirOwn
=============================================================================
