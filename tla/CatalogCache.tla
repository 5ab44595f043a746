---------------------------- MODULE CatalogCache ----------------------------
(***************************************************************************)
(* The provider catalog cache of src/internal/lib/catalogcache/cache.go    *)
(* with the version fence of src/internal/lib/catalogstate/state.go, for   *)
(* one key (provider instance and type).                                   *)
(*                                                                         *)
(* Get looks the key up under c.mu.  It answers from a live entry, waits   *)
(* for an entry somebody else is filling, or installs a pending entry and  *)
(* fetches with no lock held.  Meanwhile the account behind the provider   *)
(* may be replaced: the stores write the new credentials and then call     *)
(* catalogstate.Invalidate.  catalogstate has a lock of its own, read once *)
(* in each critical section of Get, so that each section is one step.      *)
(***************************************************************************)
EXTENDS Naturals

CONSTANTS
  Callers,      \* goroutines calling Get
  Ttl,          \* c.ttl
  MaxStale,     \* c.maxStale
  Retry,        \* RetryInterval
  MaxTime,      \* bound on the clock
  MaxEpoch,     \* bound on the number of changes
  None          \* no entry, no catalog

ASSUME DurationsAssumption ==
  /\ Ttl \in Nat \ {0} /\ Retry \in Nat \ {0} /\ MaxStale \in Nat
  /\ MaxTime \in Nat /\ MaxEpoch \in Nat

VARIABLES
  now,         \* the clock
  version,     \* catalogstate's version of the instance
  saving,      \* credentials are written, Invalidate is still to come
  entry,       \* c.entries[k]
  pc,          \* where each caller is
  mine,        \* version of the pending entry each caller is filling
  waitsFor,    \* whose discovery each caller waits for
  got,         \* what each caller's fetch returned
  answer,      \* what Get returned to each caller
  \* History: changes are numbered by epochs; a catalog carries the epoch at
  \* which its fetch read the provider.
  epoch,
  retired,     \* catalogs of earlier epochs must not be served any more
  outdated,    \* catalogs of earlier epochs must not pass for fresh
  asked        \* retired and outdated when the caller called Get

cacheVars == <<entry, pc, mine, waitsFor, got, answer, asked>>
vars == <<now, version, saving, cacheVars, epoch, retired, outdated>>

Times == 0..(MaxTime + IF Ttl > Retry THEN Ttl ELSE Retry)
Epochs == 0..MaxEpoch
Versions == [lifecycle : Nat, refresh : Nat]
Catalogs == [epoch : Epochs, born : 0..MaxTime]
MaybeCatalog == Catalogs \cup {None}

\* "fallback" is a degraded catalog the provider itself substituted.
Results == [kind : {"pending", "fresh", "last-good", "fallback", "error"},
            catalog : MaybeCatalog]
Outcomes == {"ok", "transient", "hard", "fallback"}
Fetching == {"fetch", "fetched"}

\* An open entry is being filled by its owner; the owner fills one at a time,
\* so that version and owner stand for the identity of the entry object.
EntryObjects == [version : Versions, open : BOOLEAN, owner : Callers,
                 good : MaybeCatalog, result : Results, next : Times]

\* None is no catalog, no entry, no version and no caller.
ASSUME NoneIsNothing ==
  /\ None \notin Catalogs /\ None \notin EntryObjects
  /\ None \notin Versions /\ None \notin Callers

TypeOK ==
  /\ now \in 0..MaxTime
  /\ version \in Versions
  /\ saving \in BOOLEAN
  /\ entry \in EntryObjects \cup {None}
  /\ pc \in [Callers -> {"idle", "lookup", "wait", "returned"} \cup Fetching]
  /\ mine \in [Callers -> Versions \cup {None}]
  /\ waitsFor \in [Callers -> Callers \cup {None}]
  /\ got \in [Callers -> [outcome : Outcomes, epoch : Epochs]]
  /\ answer \in [Callers -> Results]
  /\ epoch \in Epochs /\ retired \in Epochs /\ outdated \in Epochs
  /\ asked \in [Callers -> [served : Epochs, fresh : Epochs]]

-----------------------------------------------------------------------------
Error == [kind |-> "error", catalog |-> None]
Nothing == [kind |-> "pending", catalog |-> None]
NoFetch == [outcome |-> "transient", epoch |-> 0]
Unasked == [served |-> 0, fresh |-> 0]

Init ==
  /\ now = 0
  /\ version = [lifecycle |-> 0, refresh |-> 0]
  /\ saving = FALSE
  /\ entry = None
  /\ pc = [c \in Callers |-> "idle"]
  /\ mine = [c \in Callers |-> None]
  /\ waitsFor = [c \in Callers |-> None]
  /\ got = [c \in Callers |-> NoFetch]
  /\ answer = [c \in Callers |-> Nothing]
  /\ epoch = 0 /\ retired = 0 /\ outdated = 0
  /\ asked = [c \in Callers |-> Unasked]

-----------------------------------------------------------------------------
\* now.Before(fetched.Add(maxStale)): a good catalog may still be reused.
Reusable(good) == good # None /\ now < good.born + MaxStale

\* Slip: a refresh does not make the entries of before outdated.
CurrentLifecycle ==
  entry # None /\ entry.version.lifecycle = version.lifecycle

\* There is an entry and it belongs to the version that is current.
Current == entry # None /\ entry.version = version

\* A filled entry of this version whose time has not come: Get answers it.
Live == Current /\ ~entry.open /\ now < entry.next

\* Slip: a live entry is served whatever the age of its catalog.
ServedAnyAge == entry.result

\* A last-good answer is refused once the catalog is older than maxStale,
\* though the entry itself is still live.
Served ==
  IF entry.result.kind = "last-good" /\ ~Reusable(entry.good)
  THEN Error
  ELSE entry.result

\* What a new pending entry takes over from the entry it replaces.
Inherited ==
  IF entry # None /\ entry.version.lifecycle = version.lifecycle
  THEN entry.good
  ELSE None

\* The pending entry c installs.
Pending(c) ==
  [version |-> version, open |-> TRUE, owner |-> c, good |-> Inherited,
   result |-> Nothing, next |-> 0]

\* Slip: the backoff is added to the TTL instead of replacing it.
FilledLate(fetched) ==
  [entry EXCEPT !.open = FALSE, !.good = None, !.next = now + Ttl + Retry,
                !.result = Error]

\* How a completed fetch fills the pending entry.
Filled(fetched) ==
  LET keep == fetched.outcome = "transient" /\ Reusable(entry.good)
      catalog == [epoch |-> fetched.epoch, born |-> now]
      good == CASE fetched.outcome = "ok" -> catalog
                [] keep -> entry.good
                [] OTHER -> None
      kind == CASE fetched.outcome = "ok" -> "fresh"
                [] keep -> "last-good"
                [] fetched.outcome = "fallback" -> "fallback"
                [] OTHER -> "error"
  IN [version |-> entry.version, open |-> FALSE, owner |-> entry.owner,
      good |-> good,
      result |-> [kind |-> kind,
                  catalog |-> IF kind = "fallback" THEN catalog ELSE good],
      next |-> now + (IF fetched.outcome = "ok" THEN Ttl ELSE Retry)]

\* c's pending entry is still the one in the map.
Installed(c) == entry # None /\ entry.open /\ entry.owner = c

\* The discovery of c is over: its waiters, whose done channel is closed, look
\* the key up again, and Get returns to c.
Finish(c, result) ==
  /\ pc' = [d \in Callers |-> IF d = c THEN "returned"
                              ELSE IF waitsFor[d] = c THEN "lookup" ELSE pc[d]]
  /\ waitsFor' = [d \in Callers |-> IF waitsFor[d] = c THEN None ELSE waitsFor[d]]
  /\ mine' = [mine EXCEPT ![c] = None]
  /\ got' = [got EXCEPT ![c] = NoFetch]
  /\ answer' = [answer EXCEPT ![c] = result]

-----------------------------------------------------------------------------
Call(c) ==
  /\ pc[c] = "idle"
  /\ pc' = [pc EXCEPT ![c] = "lookup"]
  /\ asked' = [asked EXCEPT ![c] = [served |-> retired, fresh |-> outdated]]
  /\ UNCHANGED <<now, version, saving, entry, mine, waitsFor, got, answer,
                 epoch, retired, outdated>>

\* A live entry: answer from it.
Hit(c) ==
  /\ pc[c] = "lookup"
  /\ Live
  /\ pc' = [pc EXCEPT ![c] = "returned"]
  /\ answer' = [answer EXCEPT ![c] = Served]
  /\ UNCHANGED <<now, version, saving, entry, mine, waitsFor, got, asked,
                 epoch, retired, outdated>>

\* Somebody is filling the entry of this version: wait for its done channel.
Join(c) ==
  /\ pc[c] = "lookup"
  /\ Current /\ entry.open
  /\ pc' = [pc EXCEPT ![c] = "wait"]
  /\ waitsFor' = [waitsFor EXCEPT ![c] = entry.owner]
  /\ UNCHANGED <<now, version, saving, entry, mine, got, answer, asked, epoch,
                 retired, outdated>>

\* Slip: a pending entry does not stop the next caller from fetching too.
InstallAlways(c) ==
  /\ pc[c] = "lookup"
  /\ ~Live
  /\ entry' = Pending(c)
  /\ mine' = [mine EXCEPT ![c] = version]
  /\ pc' = [pc EXCEPT ![c] = "fetch"]
  /\ UNCHANGED <<now, version, saving, waitsFor, got, answer, asked, epoch,
                 retired, outdated>>

\* No usable entry: install a pending one and leave the lock to fetch.
Install(c) ==
  /\ pc[c] = "lookup"
  /\ ~Live /\ ~(Current /\ entry.open)
  /\ entry' = Pending(c)
  /\ mine' = [mine EXCEPT ![c] = version]
  /\ pc' = [pc EXCEPT ![c] = "fetch"]
  /\ UNCHANGED <<now, version, saving, waitsFor, got, answer, asked, epoch,
                 retired, outdated>>

\* The provider answers with the account it has now, or fails: TransientError,
\* any other error (or no usable models), or its own degraded fallback.  From
\* a failure that is not transient on, a new epoch counts.
Fetch(c) ==
  /\ pc[c] = "fetch"
  /\ \E outcome \in Outcomes :
       LET e == IF outcome \in {"hard", "fallback"} THEN epoch + 1 ELSE epoch IN
       /\ e <= MaxEpoch
       /\ epoch' = e
       /\ got' = [got EXCEPT ![c] = [outcome |-> outcome, epoch |-> e]]
  /\ pc' = [pc EXCEPT ![c] = "fetched"]
  /\ UNCHANGED <<now, version, saving, entry, mine, waitsFor, answer, asked,
                 retired, outdated>>

\* Slip: the abandoned entry's done channel is never closed.
DiscardSilently(c) ==
  /\ pc[c] = "fetched"
  /\ ~(mine[c] = version /\ Installed(c))
  /\ pc' = [pc EXCEPT ![c] = "returned"]
  /\ answer' = [answer EXCEPT ![c] = Error]
  /\ UNCHANGED <<now, version, saving, entry, mine, waitsFor, got, asked,
                 epoch, retired, outdated>>

\* The instance changed, or the entry was replaced: nothing is published, the
\* waiters are released and the caller is told to retry.
Discard(c) ==
  /\ pc[c] = "fetched"
  /\ ~(mine[c] = version /\ Installed(c))
  /\ entry' = IF Installed(c) THEN [entry EXCEPT !.open = FALSE] ELSE entry
  /\ Finish(c, Error)
  /\ UNCHANGED <<now, version, saving, asked, epoch, retired, outdated>>

\* Slip: only the entry's identity is compared, and its version brought up to
\* date, so that data of the old account is published under the new version.
PublishUnfenced(c) ==
  /\ pc[c] = "fetched"
  /\ Installed(c)
  /\ entry' = [Filled(got[c]) EXCEPT !.version = version]
  /\ Finish(c, Filled(got[c]).result)
  /\ UNCHANGED <<now, version, saving, asked, epoch, retired, outdated>>

\* The entry is filled and its waiters are released.  A failure that is not
\* transient retires the catalogs read before it.
Publish(c) ==
  /\ pc[c] = "fetched"
  /\ mine[c] = version /\ Installed(c)
  /\ entry' = Filled(got[c])
  /\ Finish(c, Filled(got[c]).result)
  /\ retired' = IF got[c].outcome \in {"hard", "fallback"} /\ got[c].epoch > retired
                THEN got[c].epoch ELSE retired
  /\ UNCHANGED <<now, version, saving, asked, epoch, outdated>>

\* The caller has used the answer.
Leave(c) ==
  /\ pc[c] = "returned"
  /\ pc' = [pc EXCEPT ![c] = "idle"]
  /\ answer' = [answer EXCEPT ![c] = Nothing]
  /\ asked' = [asked EXCEPT ![c] = Unasked]
  /\ UNCHANGED <<now, version, saving, entry, mine, waitsFor, got, epoch,
                 retired, outdated>>

Step(c) ==
  Hit(c) \/ Join(c) \/ Install(c) \/ Fetch(c) \/ Discard(c) \/ Publish(c)

-----------------------------------------------------------------------------
\* TokenStore.Save, Delete and their config counterparts: the row is written,
SaveAccount ==
  /\ ~saving /\ epoch < MaxEpoch
  /\ saving' = TRUE
  /\ epoch' = epoch + 1
  /\ UNCHANGED <<now, version, cacheVars, retired, outdated>>

\* and then the instance's catalogs are retired.
Invalidate ==
  /\ saving
  /\ saving' = FALSE
  /\ version' = [version EXCEPT !.lifecycle = @ + 1]
  /\ retired' = epoch
  /\ outdated' = epoch
  /\ UNCHANGED <<now, cacheVars, epoch>>

\* An operator asks for discovery; last-good data stays usable.
Refresh ==
  /\ epoch < MaxEpoch
  /\ epoch' = epoch + 1
  /\ version' = [version EXCEPT !.refresh = @ + 1]
  /\ outdated' = epoch + 1
  /\ UNCHANGED <<now, saving, cacheVars, retired>>

Tick ==
  /\ now < MaxTime
  /\ now' = now + 1
  /\ UNCHANGED <<version, saving, cacheVars, epoch, retired, outdated>>

Next ==
  \/ \E c \in Callers : Call(c) \/ Step(c) \/ Leave(c)
  \/ SaveAccount \/ Invalidate \/ Refresh \/ Tick

\* Every fetch ends (the HTTP clients have timeouts) and a runnable goroutine
\* runs.  Nothing obliges a caller to call, an operator to act or time to pass.
Fairness == \A c \in Callers : WF_vars(Step(c))

Spec == Init /\ [][Next]_vars

FairSpec == Spec /\ Fairness

-----------------------------------------------------------------------------
Returned(c, kinds) == pc[c] = "returned" /\ answer[c].kind \in kinds

(***************************************************************************)
(* No answer outlives its account.  A catalog read before the credentials  *)
(* were replaced, or before a published failure that is not transient, is  *)
(* returned to no caller that called Get after Invalidate, or after that   *)
(* failure: neither from the entry, nor as last-good, nor by a fetch that  *)
(* started before and ends late (lines 82, 91 and 111).                    *)
(***************************************************************************)
NothingRetired ==
  \A c \in Callers : Returned(c, {"fresh", "last-good"}) =>
    answer[c].catalog.epoch >= asked[c].served

(***************************************************************************)
(* After a refresh only last-good data may be older than the refresh: what *)
(* is returned as current was read from the provider after it.             *)
(***************************************************************************)
FreshIsNew ==
  \A c \in Callers : Returned(c, {"fresh", "fallback"}) =>
    answer[c].catalog.epoch >= asked[c].fresh

(***************************************************************************)
(* A fresh answer is younger than ttl and a last-good one younger than     *)
(* maxStale when it is returned, though last-good data is handed from      *)
(* entry to entry and served during the backoff (lines 71, 72 and 105).    *)
(***************************************************************************)
StaleIsBounded ==
  [][\A c \in Callers :
       (pc[c] # "returned" /\ pc'[c] = "returned") =>
         LET given == answer'[c] IN
         /\ given.kind = "fresh" => now < given.catalog.born + Ttl
         /\ given.kind = "last-good" => now < given.catalog.born + MaxStale]_vars

(***************************************************************************)
(* Callers coalesce: two discoveries run side by side only for different   *)
(* versions of the instance.                                               *)
(***************************************************************************)
OneFetchPerVersion ==
  \A c, d \in Callers :
    (c # d /\ pc[c] \in Fetching /\ pc[d] \in Fetching) =>
      mine[c] # mine[d]

(***************************************************************************)
(* Get returns: whoever waits for another's discovery is released, also    *)
(* when that discovery is overtaken by an invalidation (line 92).          *)
(***************************************************************************)
EveryGetReturns == \A c \in Callers : pc[c] = "lookup" ~> pc[c] = "returned"
=============================================================================
