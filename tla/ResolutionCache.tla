----------------------------- MODULE ResolutionCache -----------------------------
(***************************************************************************)
(* The snapshots of the database that request routing reads                *)
(* (internal/database/model_resolution_cache.go): virtual models with      *)
(* their upstreams, provider instances, model states.  The three caches    *)
(* are the same code over different tables; a behaviour is about one.      *)
(* A request that finds the snapshot invalid loads it, table by table and  *)
(* without a transaction, under the cache's mutex; a writer of a table     *)
(* invalidates it after its write (store_virtual.go,                       *)
(* store_provider_instances.go, store_model_state.go).  A table is reduced *)
(* to the number of writes it has seen.                                    *)
(***************************************************************************)
EXTENDS Naturals, Sequences

CONSTANTS MaxReaders,  \* requests that resolve a model, once each, numbered as they begin
          Writers,     \* bound: writes that have not invalidated yet
          MaxWrites    \* bound: writes to a table

ASSUME ResolutionAssumption == {MaxReaders, MaxWrites} \subseteq Nat

Tables == {"virtual_models", "virtual_model_upstreams", "provider_instances",
           "provider_model_states"}
Readers == 1..MaxReaders
Versions == [Tables -> 0..MaxWrites]

\* The tables of each cache, in the order its load reads them and a request asks for them.
Caches == {<<"virtual_models", "virtual_model_upstreams">>, <<"provider_instances">>,
           <<"provider_model_states">>}

VARIABLES cached,     \* the cache this behaviour is about
          database,   \* the tables
          loaded, snapshot,
          loader,     \* who holds the mutex for a load: {} or one request
          building,   \* the maps a load has filled
          reader,     \* per request: where it is, the call and the table it is at
          got,        \* per request: what its calls were answered
          floor,      \* history: the writes that were finished when its call began
          failed,     \* history: the calls that could not load
          writer,     \* writes that have not invalidated yet: the database they left
          finished    \* history: the writes whose invalidation is over

resolutionVars == <<cached, database, loaded, snapshot, loader, building, reader, got, floor,
                    failed, writer, finished>>

Untouched == [t \in Tables |-> 0]
CachedTables == {cached[i] : i \in DOMAIN cached}

ResolutionTypeOK ==
  /\ cached \in Caches
  /\ {database, snapshot, building, finished} \subseteq Versions
  /\ loaded \in BOOLEAN
  /\ loader \in {{}} \cup {{r} : r \in Readers}
  /\ reader \in [Readers -> [at : {"asking", "locking", "loading", "reading", "done"},
                             call : 1..3, table : 1..3]]
  /\ got \in [Readers -> Versions] /\ floor \in [Readers -> Versions]
  /\ failed \in [Readers -> SUBSET Tables]
  /\ \A w \in Writers : writer[w] \in {<<>>} \cup {<<v>> : v \in Versions}

ResolutionInit ==
  /\ cached \in Caches
  /\ database = Untouched /\ snapshot = Untouched /\ building = Untouched /\ finished = Untouched
  /\ loaded \in BOOLEAN
  /\ loader = {}
  /\ reader = [r \in Readers |-> [at |-> "asking", call |-> 1, table |-> 1]]
  /\ got = [r \in Readers |-> Untouched] /\ floor = [r \in Readers |-> Untouched]
  /\ failed = [r \in Readers |-> {}]
  /\ writer = [w \in Writers |-> <<>>]

\* Request r is at this point of a call about this table.
At(r, place) == reader[r].at = place
Asked(r) == cached[reader[r].call]
Go(r, place) == reader' = [reader EXCEPT ![r].at = place]

\* A call looks at the flag; a valid snapshot is not loaded.
Ask(r) ==
  /\ At(r, "asking") /\ loader = {}
  /\ \A q \in Readers : q < r => ~(At(q, "asking") /\ reader[q].call = 1)
  /\ Go(r, IF loaded THEN "reading" ELSE "locking")
  /\ floor' = [floor EXCEPT ![r][Asked(r)] = finished[Asked(r)]]
  /\ UNCHANGED <<cached, database, loaded, snapshot, loader, building, got, failed, writer, finished>>

\* With the mutex it looks again: somebody may have loaded it.
Lock(r) ==
  /\ At(r, "locking") /\ loader = {}
  /\ IF loaded THEN Go(r, "reading") /\ UNCHANGED loader
     ELSE /\ reader' = [reader EXCEPT ![r].at = "loading", ![r].table = 1]
          /\ loader' = {r}
  /\ UNCHANGED <<cached, database, loaded, snapshot, building, got, floor, failed, writer, finished>>

\* The load reads the next table into maps of its own;
LoadTable(r) ==
  LET t == cached[reader[r].table]
  IN /\ At(r, "loading") /\ reader[r].table \in DOMAIN cached
     /\ building' = [building EXCEPT ![t] = database[t]]
     /\ reader' = [reader EXCEPT ![r].table = @ + 1]
     /\ UNCHANGED <<cached, database, loaded, snapshot, loader, got, floor, failed, writer, finished>>

\* publishes them when all are read;
Publish(r) ==
  /\ At(r, "loading") /\ reader[r].table \notin DOMAIN cached
  /\ snapshot' = building /\ loaded' = TRUE /\ loader' = {} /\ building' = Untouched
  /\ Go(r, "reading")
  /\ UNCHANGED <<cached, database, got, floor, failed, writer, finished>>

\* and publishes nothing when a query fails: the call goes on with the old maps.
FailLoad(r) ==
  /\ At(r, "loading") /\ reader[r].table \in DOMAIN cached
  /\ loader' = {} /\ building' = Untouched
  /\ failed' = [failed EXCEPT ![r] = @ \cup {Asked(r)}]
  /\ Go(r, "reading")
  /\ UNCHANGED <<cached, database, loaded, snapshot, got, floor, writer, finished>>

\* The call reads its map, and the request makes its next call.
Answer(r) ==
  /\ At(r, "reading") /\ loader = {}
  /\ got' = [got EXCEPT ![r][Asked(r)] = snapshot[Asked(r)]]
  /\ reader' = [reader EXCEPT ![r] =
       IF reader[r].call = Len(cached) THEN [@ EXCEPT !.at = "done"]
       ELSE [@ EXCEPT !.at = "asking", !.call = reader[r].call + 1]]
  /\ UNCHANGED <<cached, database, loaded, snapshot, loader, building, floor, failed, writer, finished>>

\* A store writes one table, or two in a transaction,
Commit(w) ==
  /\ writer[w] = <<>> /\ w = CHOOSE v \in Writers : writer[v] = <<>>
  /\ \E tables \in SUBSET CachedTables :
       /\ tables # {} /\ \A t \in tables : database[t] < MaxWrites
       /\ database' = [t \in Tables |-> IF t \in tables THEN database[t] + 1 ELSE database[t]]
  /\ writer' = [writer EXCEPT ![w] = <<database'>>]
  /\ UNCHANGED <<cached, loaded, snapshot, loader, building, reader, got, floor, failed, finished>>

Later(v, u) == [t \in Tables |-> IF v[t] > u[t] THEN v[t] ELSE u[t]]

\* Slip: the flag is cleared without the mutex, also while a load is under way.
InvalidateAtOnce(w) ==
  /\ writer[w] # <<>>
  /\ loaded' = FALSE
  /\ finished' = Later(finished, writer[w][1])
  /\ writer' = [writer EXCEPT ![w] = <<>>]
  /\ UNCHANGED <<cached, database, snapshot, loader, building, reader, got, floor, failed>>

\* and then marks the snapshot invalid, with the mutex.
Invalidate(w) ==
  /\ writer[w] # <<>> /\ loader = {}
  /\ loaded' = FALSE
  /\ finished' = Later(finished, writer[w][1])
  /\ writer' = [writer EXCEPT ![w] = <<>>]
  /\ UNCHANGED <<cached, database, snapshot, loader, building, reader, got, floor, failed>>

ReaderStep(r) ==
  Ask(r) \/ Lock(r) \/ LoadTable(r) \/ Publish(r) \/ FailLoad(r) \/ Answer(r)
ResolutionNext == (\E r \in Readers : ReaderStep(r)) \/ (\E w \in Writers : Commit(w) \/ Invalidate(w))

ResolutionSpec == ResolutionInit /\ [][ResolutionNext]_resolutionVars

\* SNAPSHOT.  A call that begins after a write of the admin API is finished answers from a
\* snapshot that has this write, although loads run beside writes and read their tables
\* one after the other; except a call whose own load failed.
AnswersAreCurrent ==
  \A r \in Readers, i \in DOMAIN cached :
    /\ i < reader[r].call \/ (i = reader[r].call /\ reader[r].at = "done")
    /\ cached[i] \notin failed[r]
    => got[r][cached[i]] >= floor[r][cached[i]]
=============================================================================
