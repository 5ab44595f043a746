------------------------------ MODULE TokenRotation ------------------------------
(***************************************************************************)
(* Single-use OAuth refresh tokens (internal/providers/openai/provider.go, *)
(* internal/database/store_tokens.go): several processes share one stored  *)
(* token, each keeps a copy in memory, and an exchange consumes the token  *)
(* it presents.  A process that presented a consumed one looks whether     *)
(* another has stored a newer one, and otherwise retires the stored one.   *)
(* Refreshes of one process run one at a time (refreshGroup); a browser    *)
(* sign-in runs beside them.  External: the token endpoint and SQLite.     *)
(***************************************************************************)
EXTENDS Naturals

CONSTANTS Processes,   \* gateway processes with this provider instance
          MaxTokens,   \* bound: refresh tokens the endpoint issues
          MaxFaults    \* bound: lost answers and crashes

ASSUME TokensAssumption == MaxTokens \in Nat \ {0} /\ MaxFaults \in Nat

Blank == 0
Tokens == 1..MaxTokens
MaybeToken == Tokens \cup {Blank}
Steps == {"idle", "exchanging", "retrying", "applying", "saving", "reloading", "retiring",
          "rechecking", "forgetting"}

VARIABLES issued,    \* external: tokens issued so far
          live,      \* external: tokens the endpoint still accepts
          stored,    \* the row's refresh_token
          memory,    \* per process, p.refreshToken
          refresh,   \* per process, where its refresh is
          using,     \* per process, the token its refresh presents, was denied or has got
          login,     \* per process, where a sign-in is
          faults

tokenVars == <<issued, live, stored, memory, refresh, using, login, faults>>

TokensTypeOK ==
  /\ issued \in 1..MaxTokens /\ live \subseteq 1..issued
  /\ stored \in MaybeToken
  /\ memory \in [Processes -> MaybeToken]
  /\ refresh \in [Processes -> Steps] /\ using \in [Processes -> MaybeToken]
  /\ login \in [Processes -> {"out", "saving"}]
  /\ faults \in 0..MaxFaults

\* Every process has loaded the row.
TokensInit ==
  /\ issued = 1 /\ live = {1} /\ stored = 1
  /\ memory = [p \in Processes |-> 1]
  /\ refresh = [p \in Processes |-> "idle"] /\ using = [p \in Processes |-> Blank]
  /\ login = [p \in Processes |-> "out"]
  /\ faults = 0

Goto(p, step) == refresh' = [refresh EXCEPT ![p] = step]

\* RefreshToken presents the token in memory, if there is one.
Refresh(p) ==
  /\ refresh[p] = "idle" /\ memory[p] # Blank
  /\ Goto(p, "exchanging") /\ using' = [using EXCEPT ![p] = memory[p]]
  /\ UNCHANGED <<issued, live, stored, memory, login, faults>>

\* The endpoint takes a live token, once, and answers with its successor.
Rotate(p) ==
  /\ refresh[p] \in {"exchanging", "retrying"} /\ using[p] \in live /\ issued < MaxTokens
  /\ issued' = issued + 1
  /\ live' = (live \ {using[p]}) \cup {issued + 1}
  /\ Goto(p, "applying") /\ using' = [using EXCEPT ![p] = issued + 1]
  /\ UNCHANGED <<stored, memory, login, faults>>

\* The answer is lost: whether the endpoint has rotated or not, the refresh fails.
Lose(p) ==
  /\ refresh[p] \in {"exchanging", "retrying"} /\ faults < MaxFaults
  /\ faults' = faults + 1
  /\ live' \in {live, live \ {using[p]}}
  /\ Goto(p, "idle")
  /\ UNCHANGED <<issued, stored, memory, using, login>>

\* A consumed token is denied: the first time the row is looked at, a retry gives up.
Deny(p) ==
  /\ refresh[p] \in {"exchanging", "retrying"} /\ using[p] \notin live
  /\ Goto(p, IF refresh[p] = "exchanging" THEN "reloading" ELSE "idle")
  /\ UNCHANGED <<issued, live, stored, memory, using, login, faults>>

\* ApplyTokens: memory first, then the row, with what memory holds by then.
Apply(p) ==
  /\ refresh[p] = "applying"
  /\ memory' = [memory EXCEPT ![p] = using[p]]
  /\ Goto(p, "saving")
  /\ UNCHANGED <<issued, live, stored, using, login, faults>>
Save(p) ==
  /\ refresh[p] = "saving"
  /\ stored' = memory[p]
  /\ Goto(p, "idle")
  /\ UNCHANGED <<issued, live, memory, using, login, faults>>

\* recoverRotatedRefreshToken: another token in the row is tried once;
Newer(p) == stored \notin {Blank, using[p]}
Reload(p) ==
  /\ refresh[p] \in {"reloading", "rechecking"}
  /\ IF Newer(p)
     THEN Goto(p, "retrying") /\ using' = [using EXCEPT ![p] = stored]
     ELSE /\ Goto(p, IF refresh[p] = "reloading" THEN "retiring" ELSE "forgetting")
          /\ UNCHANGED using
  /\ UNCHANGED <<issued, live, stored, memory, login, faults>>

\* Slip: the token is cleared without comparing it.
KeptNothing(p) == Blank

\* ClearRefreshTokenIfMatches: what the row keeps when process p retires its token.
Kept(p) == IF stored = using[p] THEN Blank ELSE stored

\* the denied token is retired where the row still has it, and if the row has changed
\* meanwhile it is looked at again;
Retire(p) ==
  /\ refresh[p] = "retiring"
  /\ stored' = Kept(p)
  /\ Goto(p, IF stored = using[p] THEN "forgetting" ELSE "rechecking")
  /\ UNCHANGED <<issued, live, memory, using, login, faults>>

\* memory forgets it, unless a sign-in has replaced it.
Forget(p) ==
  /\ refresh[p] = "forgetting"
  /\ memory' = [memory EXCEPT ![p] = IF @ = using[p] THEN Blank ELSE @]
  /\ Goto(p, "idle")
  /\ UNCHANGED <<issued, live, stored, using, login, faults>>

\* completeOpenAIOAuth: a sign-in brings a token of its own and applies it.
SignIn(p) ==
  /\ login[p] = "out" /\ issued < MaxTokens
  /\ issued' = issued + 1 /\ live' = live \cup {issued + 1}
  /\ memory' = [memory EXCEPT ![p] = issued + 1]
  /\ login' = [login EXCEPT ![p] = "saving"]
  /\ UNCHANGED <<stored, refresh, using, faults>>
SaveSignIn(p) ==
  /\ login[p] = "saving"
  /\ stored' = memory[p]
  /\ login' = [login EXCEPT ![p] = "out"]
  /\ UNCHANGED <<issued, live, memory, refresh, using, faults>>

\* A process dies and its successor loads the row.
Restart(p) ==
  /\ faults < MaxFaults /\ faults' = faults + 1
  /\ memory' = [memory EXCEPT ![p] = stored]
  /\ Goto(p, "idle") /\ login' = [login EXCEPT ![p] = "out"]
  /\ UNCHANGED <<issued, live, stored, using>>

RefreshStep(p) == \/ Rotate(p) \/ Lose(p) \/ Deny(p) \/ Apply(p) \/ Save(p)
                  \/ Reload(p) \/ Retire(p) \/ Forget(p)
TokensNext == \E p \in Processes : \/ Refresh(p) \/ RefreshStep(p) \/ SignIn(p) \/ SaveSignIn(p)
                                   \/ Restart(p)

TokensSpec == TokensInit /\ [][TokensNext]_tokenVars

\* TOKENS.  Recovering from a denied token never costs a good one: whatever the other
\* processes, sign-ins and lost answers do meanwhile, a token that the endpoint would still
\* accept is never blanked, in the row or in memory; except by the save of a sign-in whose
\* own token was denied and forgotten before the save, and by a crash.
NoLiveTokenRetired ==
  [][/\ stored \in live /\ stored' = Blank
          => \E p \in Processes : login[p] = "saving" /\ memory[p] = Blank
     /\ \A p \in Processes :
          memory[p] \in live /\ memory'[p] = Blank => stored = Blank /\ faults' # faults]_tokenVars
=============================================================================
