------------------------------ MODULE StorageProofs ------------------------------
(***************************************************************************)
(* Proofs about the modules of what is stored and cached:                  *)
(*   - the snapshots that request routing reads (ResolutionCache) are      *)
(*     current, for any number of requests, writers and writes;            *)
(*   - the rows of the providers are those of the registry once everything *)
(*     is saved (RegistrySaves), for any number of providers and admins;   *)
(*   - a virtual model and its upstreams are of one request, and upstreams *)
(*     take turns (VirtualModels), for any number of requests.             *)
(***************************************************************************)
EXTENDS ResolutionCache, RegistrySaves, VirtualModels, FiniteSetTheorems, TLAPS

-----------------------------------------------------------------------------
\* --- ResolutionCache

\* A write is known by the database that it left, until it has invalidated.
Pending == {<<>>} \cup {<<v>> : v \in Versions}

Places == {"asking", "locking", "loading", "reading", "done"}
ReaderRecords == [at : Places, call : 1..3, table : 1..3]

\* No write is ahead of the tables.
WritesAreThere ==
  \A t \in Tables : /\ finished[t] <= database[t]
                    /\ \A w \in Writers : writer[w] # <<>> => writer[w][1][t] <= database[t]

\* A valid snapshot has every write that is finished.
ValidHasFinished == loaded => \A t \in CachedTables : snapshot[t] >= finished[t]

\* The mutex is with the request that loads.
LoaderLoads == \A r \in Readers : At(r, "loading") <=> loader = {r}

\* What the load has read has every write that is finished: none finishes beside it.
LoadHasFinished ==
  \A r \in Readers : At(r, "loading") =>
    \A i \in DOMAIN cached : i < reader[r].table => building[cached[i]] >= finished[cached[i]]

\* What a call has to know was finished, and is in the snapshot when it comes to read it.
FloorsAreFinished == \A r \in Readers, t \in Tables : floor[r][t] <= finished[t]
ReadersFind ==
  \A r \in Readers : At(r, "reading") /\ Asked(r) \notin failed[r] =>
    snapshot[Asked(r)] >= floor[r][Asked(r)]

CallsAreAsked == \A r \in Readers : reader[r].call \in DOMAIN cached

ResolutionSafe ==
  /\ ResolutionTypeOK /\ writer \in [Writers -> Pending]
  /\ WritesAreThere /\ ValidHasFinished /\ LoaderLoads /\ LoadHasFinished
  /\ FloorsAreFinished /\ ReadersFind /\ CallsAreAsked
  /\ AnswersAreCurrent

\* The tables of a cache are one or two, and different.
LEMMA CachesAre ==
  ASSUME cached \in Caches
  PROVE  /\ Len(cached) \in {1, 2} /\ DOMAIN cached = 1..Len(cached)
         /\ \A i \in DOMAIN cached : cached[i] \in Tables
         /\ \A i, j \in DOMAIN cached : cached[i] = cached[j] => i = j
  BY DEF Caches, Tables

\* One entry of a table of tables changes.
Enters(f, g, r, t, n) == g = [f EXCEPT ![r][t] = n]
LEMMA EntryChanges ==
  ASSUME NEW f \in [Readers -> Versions], NEW r \in Readers, NEW t \in Tables, NEW n \in 0..MaxWrites,
         NEW g, Enters(f, g, r, t, n)
  PROVE  /\ g \in [Readers -> Versions] /\ g[r][t] = n
         /\ \A q \in Readers, u \in Tables : q # r \/ u # t => g[q][u] = f[q][u]
  <1>1. [f[r] EXCEPT ![t] = n] \in Versions
    BY DEF Versions
  <1>2. g[r] = [f[r] EXCEPT ![t] = n] /\ g \in [Readers -> Versions]
    BY <1>1 DEF Enters
  <1> QED
    BY <1>2 DEF Versions, Enters

LEMMA ResolutionInitSafe == ResolutionInit => ResolutionSafe
  <1> SUFFICES ASSUME ResolutionInit PROVE ResolutionSafe
    OBVIOUS
  <1>1. Untouched \in Versions
    BY ResolutionAssumption DEF Untouched, Versions
  <1>2. ResolutionTypeOK /\ writer \in [Writers -> Pending]
    BY <1>1 DEF ResolutionInit, ResolutionTypeOK, Pending
  <1>3. WritesAreThere /\ ValidHasFinished /\ FloorsAreFinished
    <2>1. CachedTables \subseteq Tables
      BY CachesAre DEF CachedTables, ResolutionInit
    <2> QED
      BY <2>1 DEF ResolutionInit, WritesAreThere, ValidHasFinished, FloorsAreFinished, Untouched
  <1>4. LoaderLoads /\ LoadHasFinished /\ ReadersFind
    BY DEF ResolutionInit, LoaderLoads, LoadHasFinished, ReadersFind, At
  <1>5. CallsAreAsked /\ AnswersAreCurrent
    BY CachesAre DEF ResolutionInit, CallsAreAsked, AnswersAreCurrent
  <1> QED
    BY <1>2, <1>3, <1>4, <1>5 DEF ResolutionSafe

LEMMA AskStep ==
  ASSUME ResolutionSafe, NEW r \in Readers, Ask(r)
  PROVE  ResolutionSafe'
  <1> DEFINE t == Asked(r)
  <1>1. /\ At(r, "asking") /\ loader = {}
        /\ floor' = [floor EXCEPT ![r][t] = finished[t]]
        /\ UNCHANGED <<cached, database, loaded, snapshot, loader, building, got, failed, writer, finished>>
    BY DEF Ask
  <1>2. t \in CachedTables /\ t \in Tables /\ finished[t] \in 0..MaxWrites
    BY CachesAre DEF Asked, CachedTables, ResolutionSafe, ResolutionTypeOK, CallsAreAsked, Versions
  <1> HIDE DEF t
  <1>3. /\ floor' \in [Readers -> Versions] /\ floor'[r][t] = finished[t]
        /\ \A q \in Readers, u \in Tables : q # r \/ u # t => floor'[q][u] = floor[q][u]
    <2>1. floor \in [Readers -> Versions]
      BY DEF ResolutionSafe, ResolutionTypeOK
    <2>2. Enters(floor, floor', r, t, finished[t])
      BY <1>1 DEF Enters
    <2> QED
      BY <1>2, <2>1, <2>2, EntryChanges
  <1>4. /\ reader' \in [Readers -> ReaderRecords]
        /\ \A q \in Readers : q # r => reader'[q] = reader[q]
        /\ reader'[r].at = (IF loaded THEN "reading" ELSE "locking")
        /\ reader'[r].call = reader[r].call /\ reader'[r].table = reader[r].table
    BY DEF Ask, Go, ResolutionSafe, ResolutionTypeOK, ReaderRecords, Places
  <1>5. ResolutionTypeOK' /\ (writer \in [Writers -> Pending])'
    BY <1>1, <1>3, <1>4 DEF ResolutionSafe, ResolutionTypeOK, ReaderRecords, Places
  <1>6. WritesAreThere' /\ ValidHasFinished' /\ LoaderLoads' /\ LoadHasFinished' /\ CallsAreAsked'
    BY <1>1, <1>4 DEF ResolutionSafe, WritesAreThere, ValidHasFinished, LoaderLoads, LoadHasFinished,
       CallsAreAsked, At, CachedTables
  <1>7. FloorsAreFinished'
    BY <1>1, <1>3, <1>2 DEF ResolutionSafe, FloorsAreFinished
  <1>8. ReadersFind'
    <2>1. snapshot[t] \in Nat /\ finished[t] \in Nat
      BY <1>2 DEF ResolutionSafe, ResolutionTypeOK, Versions
    <2>2. loaded => snapshot[t] >= finished[t]
      BY <1>2 DEF ResolutionSafe, ValidHasFinished
    <2>3. \A q \in Readers : q # r => (At(q, "reading") /\ Asked(q) \notin failed[q] =>
                                        snapshot[Asked(q)] >= floor[q][Asked(q)])'
      <3>1. \A q \in Readers : Asked(q) \in Tables
        BY CachesAre DEF Asked, ResolutionSafe, ResolutionTypeOK, CallsAreAsked
      <3> QED
        BY <1>1, <1>3, <1>4, <3>1 DEF ResolutionSafe, ReadersFind, At, Asked
    <2>4. Asked(r)' = t
      BY <1>1, <1>4 DEF t, Asked
    <2> QED
      BY <1>1, <1>3, <1>4, <2>2, <2>3, <2>4 DEF ReadersFind, At
  <1>9. AnswersAreCurrent'
    <2> SUFFICES ASSUME NEW q \in Readers, NEW i \in DOMAIN cached,
                        i < reader'[q].call \/ (i = reader'[q].call /\ reader'[q].at = "done"),
                        cached[i] \notin failed[q]
                 PROVE  got[q][cached[i]] >= floor'[q][cached[i]]
      BY <1>1 DEF AnswersAreCurrent
    <2>1. i < reader[q].call \/ (i = reader[q].call /\ reader[q].at = "done")
      BY <1>4
    <2>2. got[q][cached[i]] >= floor[q][cached[i]]
      BY <2>1 DEF ResolutionSafe, AnswersAreCurrent
    <2>3. cached[i] \in Tables /\ (q = r => cached[i] # t)
      <3>1. q = r => i < reader[r].call
        BY <1>4
      <3>2. reader[r].call \in DOMAIN cached /\ reader[r].call \in Nat
        BY DEF ResolutionSafe, ResolutionTypeOK, CallsAreAsked
      <3> QED
        BY <3>1, <3>2, CachesAre DEF t, Asked, ResolutionSafe, ResolutionTypeOK
    <2> QED
      BY <1>3, <2>2, <2>3
  <1> QED
    BY <1>5, <1>6, <1>7, <1>8, <1>9 DEF ResolutionSafe

\* Steps of request r that leave what was asked and answered, and the writes, alone.
LEMMA LockStep ==
  ASSUME ResolutionSafe, NEW r \in Readers, Lock(r)
  PROVE  ResolutionSafe'
  <1>1. /\ At(r, "locking") /\ loader = {}
        /\ loader' = (IF loaded THEN {} ELSE {r})
        /\ UNCHANGED <<cached, database, loaded, snapshot, building, got, floor, failed, writer, finished>>
    BY DEF Lock
  <1>2. /\ reader' \in [Readers -> ReaderRecords]
        /\ \A q \in Readers : q # r => reader'[q] = reader[q]
        /\ reader'[r].call = reader[r].call
        /\ loaded => reader'[r].at = "reading"
        /\ ~loaded => reader'[r].at = "loading" /\ reader'[r].table = 1
    <2>1. CASE loaded
      <3>1. reader' = [reader EXCEPT ![r].at = "reading"]
        BY <2>1 DEF Lock, Go
      <3> QED
        BY <2>1, <3>1 DEF ResolutionSafe, ResolutionTypeOK, ReaderRecords, Places
    <2>2. CASE ~loaded
      BY <2>2 DEF Lock, ResolutionSafe, ResolutionTypeOK, ReaderRecords, Places
    <2> QED
      BY <2>1, <2>2
  <1>3. ResolutionTypeOK' /\ (writer \in [Writers -> Pending])'
    BY <1>1, <1>2 DEF ResolutionSafe, ResolutionTypeOK, ReaderRecords, Places
  <1>4. WritesAreThere' /\ ValidHasFinished' /\ CallsAreAsked' /\ FloorsAreFinished' /\ AnswersAreCurrent'
    BY <1>1, <1>2 DEF ResolutionSafe, WritesAreThere, ValidHasFinished, CallsAreAsked, FloorsAreFinished,
       AnswersAreCurrent, CachedTables, At
  <1>5. LoaderLoads'
    BY <1>1, <1>2 DEF ResolutionSafe, LoaderLoads, At
  <1>6. LoadHasFinished'
    BY <1>1, <1>2, CachesAre DEF ResolutionSafe, ResolutionTypeOK, LoaderLoads, LoadHasFinished, At
  <1>7. ReadersFind'
    <2>1. Asked(r) \in Tables /\ Asked(r) \in CachedTables
      BY CachesAre DEF Asked, ResolutionSafe, ResolutionTypeOK, CallsAreAsked, CachedTables
    <2>2. {snapshot[Asked(r)], finished[Asked(r)], floor[r][Asked(r)]} \subseteq Nat
      BY <2>1 DEF ResolutionSafe, ResolutionTypeOK, Versions
    <2>3. loaded => snapshot[Asked(r)] >= floor[r][Asked(r)]
      BY <2>1, <2>2 DEF ResolutionSafe, ValidHasFinished, FloorsAreFinished
    <2> QED
      BY <1>1, <1>2, <2>3 DEF ResolutionSafe, ReadersFind, At, Asked
  <1> QED
    BY <1>3, <1>4, <1>5, <1>6, <1>7 DEF ResolutionSafe

LEMMA LoadTableStep ==
  ASSUME ResolutionSafe, NEW r \in Readers, LoadTable(r)
  PROVE  ResolutionSafe'
  <1> DEFINE i == reader[r].table
  <1>1. /\ At(r, "loading") /\ i \in DOMAIN cached /\ building' = [building EXCEPT ![cached[i]] = database[cached[i]]]
        /\ reader' = [reader EXCEPT ![r].table = @ + 1]
        /\ UNCHANGED <<cached, database, loaded, snapshot, loader, got, floor, failed, writer, finished>>
    BY DEF LoadTable
  <1>2. /\ cached[i] \in Tables /\ i \in 1..2
        /\ \A j \in DOMAIN cached : j < i + 1 => j < i \/ j = i
    BY <1>1, CachesAre DEF ResolutionSafe, ResolutionTypeOK
  <1>3. /\ reader' \in [Readers -> ReaderRecords]
        /\ \A q \in Readers : q # r => reader'[q] = reader[q]
        /\ reader'[r].call = reader[r].call /\ reader'[r].at = "loading" /\ reader'[r].table = i + 1
    BY <1>1, <1>2 DEF ResolutionSafe, ResolutionTypeOK, ReaderRecords, Places, At
  <1>4. /\ building' \in Versions
        /\ \A t \in Tables : building'[t] = IF t = cached[i] THEN database[t] ELSE building[t]
    BY <1>1, <1>2 DEF ResolutionSafe, ResolutionTypeOK, Versions
  <1>5. ResolutionTypeOK' /\ (writer \in [Writers -> Pending])'
    BY <1>1, <1>3, <1>4 DEF ResolutionSafe, ResolutionTypeOK, ReaderRecords, Places
  <1>6. WritesAreThere' /\ ValidHasFinished' /\ CallsAreAsked' /\ FloorsAreFinished' /\ AnswersAreCurrent'
    BY <1>1, <1>3 DEF ResolutionSafe, WritesAreThere, ValidHasFinished, CallsAreAsked, FloorsAreFinished,
       AnswersAreCurrent, CachedTables, At
  <1>7. LoaderLoads' /\ ReadersFind'
    BY <1>1, <1>3 DEF ResolutionSafe, LoaderLoads, ReadersFind, At, Asked
  <1>8. LoadHasFinished'
    <2>1. \A q \in Readers : q # r => ~At(q, "loading")
      BY <1>1 DEF ResolutionSafe, LoaderLoads
    <2>2. \A j \in DOMAIN cached : j < i => building[cached[j]] >= finished[cached[j]]
      BY <1>1 DEF ResolutionSafe, LoadHasFinished
    <2>3. database[cached[i]] >= finished[cached[i]]
      BY <1>2 DEF ResolutionSafe, ResolutionTypeOK, WritesAreThere, Versions
    <2>4. \A j \in DOMAIN cached : j < i + 1 => building'[cached[j]] >= finished[cached[j]]
      BY <1>2, <1>4, <2>2, <2>3, CachesAre DEF ResolutionSafe, ResolutionTypeOK
    <2> HIDE DEF i
    <2> QED
      BY <1>1, <1>3, <2>1, <2>4 DEF LoadHasFinished, At
  <1> QED
    BY <1>5, <1>6, <1>7, <1>8 DEF ResolutionSafe

LEMMA PublishStep ==
  ASSUME ResolutionSafe, NEW r \in Readers, Publish(r)
  PROVE  ResolutionSafe'
  <1>1. /\ At(r, "loading") /\ reader[r].table \notin DOMAIN cached
        /\ snapshot' = building /\ loaded' = TRUE /\ loader' = {} /\ building' = Untouched
        /\ UNCHANGED <<cached, database, got, floor, failed, writer, finished>>
    BY DEF Publish
  <1>2. /\ reader' \in [Readers -> ReaderRecords]
        /\ \A q \in Readers : q # r => reader'[q] = reader[q]
        /\ reader'[r].call = reader[r].call /\ reader'[r].at = "reading"
    BY DEF Publish, Go, ResolutionSafe, ResolutionTypeOK, ReaderRecords, Places
  <1>3. ResolutionTypeOK' /\ (writer \in [Writers -> Pending])'
    <2>1. Untouched \in Versions
      BY ResolutionAssumption DEF Untouched, Versions
    <2>2. loaded' \in BOOLEAN
      BY <1>1, Zenon
    <2> QED
      BY <1>1, <1>2, <2>1, <2>2 DEF ResolutionSafe, ResolutionTypeOK, ReaderRecords, Places
  <1>4. WritesAreThere' /\ CallsAreAsked' /\ FloorsAreFinished' /\ AnswersAreCurrent'
    BY <1>1, <1>2 DEF ResolutionSafe, WritesAreThere, CallsAreAsked, FloorsAreFinished, AnswersAreCurrent, At
  <1>5. LoaderLoads' /\ LoadHasFinished'
    BY <1>1, <1>2 DEF ResolutionSafe, LoaderLoads, LoadHasFinished, At
  <1>6. \A t \in CachedTables : t \in Tables /\ building[t] >= finished[t]
    <2>1. \A i \in DOMAIN cached : i < reader[r].table
      BY <1>1, CachesAre DEF ResolutionSafe, ResolutionTypeOK
    <2> QED
      BY <1>1, <2>1, CachesAre DEF ResolutionSafe, ResolutionTypeOK, LoadHasFinished, CachedTables
  <1>7. ValidHasFinished'
    BY <1>1, <1>6 DEF ValidHasFinished, CachedTables
  <1>8. ReadersFind'
    <2> SUFFICES ASSUME NEW q \in Readers PROVE building[Asked(q)] >= floor[q][Asked(q)]
      BY <1>1, <1>2 DEF ReadersFind, Asked
    <2>1. Asked(q) \in CachedTables
      BY DEF Asked, ResolutionSafe, CallsAreAsked, CachedTables
    <2>2. {building[Asked(q)], finished[Asked(q)], floor[q][Asked(q)]} \subseteq Nat
      BY <1>6, <2>1 DEF ResolutionSafe, ResolutionTypeOK, Versions
    <2> QED
      BY <1>6, <2>1, <2>2 DEF ResolutionSafe, FloorsAreFinished
  <1> QED
    BY <1>3, <1>4, <1>5, <1>7, <1>8 DEF ResolutionSafe

LEMMA FailLoadStep ==
  ASSUME ResolutionSafe, NEW r \in Readers, FailLoad(r)
  PROVE  ResolutionSafe'
  <1>1. /\ At(r, "loading") /\ loader' = {} /\ building' = Untouched
        /\ failed' = [failed EXCEPT ![r] = @ \cup {Asked(r)}]
        /\ UNCHANGED <<cached, database, loaded, snapshot, got, floor, writer, finished>>
    BY DEF FailLoad
  <1>2. /\ reader' \in [Readers -> ReaderRecords]
        /\ \A q \in Readers : q # r => reader'[q] = reader[q]
        /\ reader'[r].call = reader[r].call /\ reader'[r].at = "reading"
    BY DEF FailLoad, Go, ResolutionSafe, ResolutionTypeOK, ReaderRecords, Places
  <1>3. /\ failed' \in [Readers -> SUBSET Tables] /\ Asked(r) \in failed'[r]
        /\ \A q \in Readers : failed[q] \subseteq failed'[q]
    <2>1. Asked(r) \in Tables
      BY CachesAre DEF Asked, ResolutionSafe, ResolutionTypeOK, CallsAreAsked
    <2> QED
      BY <1>1, <2>1 DEF ResolutionSafe, ResolutionTypeOK
  <1>4. ResolutionTypeOK' /\ (writer \in [Writers -> Pending])'
    <2>1. Untouched \in Versions
      BY ResolutionAssumption DEF Untouched, Versions
    <2> QED
      BY <1>1, <1>2, <1>3, <2>1 DEF ResolutionSafe, ResolutionTypeOK, ReaderRecords, Places
  <1>5. WritesAreThere' /\ ValidHasFinished' /\ CallsAreAsked' /\ FloorsAreFinished'
    BY <1>1, <1>2 DEF ResolutionSafe, WritesAreThere, ValidHasFinished, CallsAreAsked, FloorsAreFinished,
       CachedTables
  <1>6. LoaderLoads' /\ LoadHasFinished'
    BY <1>1, <1>2 DEF ResolutionSafe, LoaderLoads, LoadHasFinished, At
  <1>7. ReadersFind'
    BY <1>1, <1>2, <1>3 DEF ResolutionSafe, ReadersFind, At, Asked
  <1>8. AnswersAreCurrent'
    BY <1>1, <1>2, <1>3 DEF ResolutionSafe, AnswersAreCurrent, At
  <1> QED
    BY <1>4, <1>5, <1>6, <1>7, <1>8 DEF ResolutionSafe

LEMMA AnswerStep ==
  ASSUME ResolutionSafe, NEW r \in Readers, Answer(r)
  PROVE  ResolutionSafe'
  <1> DEFINE k == reader[r].call
  <1> DEFINE t == cached[k]
  <1>1. /\ At(r, "reading") /\ loader = {} /\ got' = [got EXCEPT ![r][t] = snapshot[t]]
        /\ UNCHANGED <<cached, database, loaded, snapshot, loader, building, floor, failed, writer, finished>>
    BY DEF Answer, Asked
  <1>2. /\ k \in 1..Len(cached) /\ Len(cached) \in {1, 2} /\ DOMAIN cached = 1..Len(cached)
        /\ t \in Tables /\ snapshot[t] \in 0..MaxWrites
        /\ \A i \in DOMAIN cached : i # k => cached[i] # t /\ cached[i] \in Tables
    BY CachesAre DEF ResolutionSafe, ResolutionTypeOK, CallsAreAsked, Versions
  <1>3. /\ got' \in [Readers -> Versions] /\ got'[r][t] = snapshot[t]
        /\ \A q \in Readers, u \in Tables : q # r \/ u # t => got'[q][u] = got[q][u]
    <2>1. got \in [Readers -> Versions]
      BY DEF ResolutionSafe, ResolutionTypeOK
    <2>2. Enters(got, got', r, t, snapshot[t])
      BY <1>1 DEF Enters
    <2> QED
      BY <1>2, <2>1, <2>2, EntryChanges
  <1>4. /\ reader' \in [Readers -> ReaderRecords]
        /\ \A q \in Readers : q # r => reader'[q] = reader[q]
        /\ reader'[r].at = (IF k = Len(cached) THEN "done" ELSE "asking")
        /\ reader'[r].call = (IF k = Len(cached) THEN k ELSE k + 1)
    <2>1. CASE k = Len(cached)
      BY <1>2, <2>1 DEF Answer, ResolutionSafe, ResolutionTypeOK, ReaderRecords, Places
    <2>2. CASE k # Len(cached)
      <3>1. reader' = [reader EXCEPT ![r] = [@ EXCEPT !.at = "asking", !.call = k + 1]]
        BY <2>2 DEF Answer
      <3>2. k + 1 \in 1..3
        BY <1>2, <2>2
      <3> QED
        BY <2>2, <3>1, <3>2 DEF ResolutionSafe, ResolutionTypeOK, ReaderRecords, Places
    <2> QED
      BY <2>1, <2>2
  <1>5. ResolutionTypeOK' /\ (writer \in [Writers -> Pending])'
    BY <1>1, <1>3, <1>4 DEF ResolutionSafe, ResolutionTypeOK, ReaderRecords, Places
  <1>6. WritesAreThere' /\ ValidHasFinished' /\ FloorsAreFinished'
    BY <1>1 DEF ResolutionSafe, WritesAreThere, ValidHasFinished, FloorsAreFinished, CachedTables
  <1>7. LoaderLoads' /\ LoadHasFinished' /\ ReadersFind' /\ CallsAreAsked'
    BY <1>1, <1>2, <1>4 DEF ResolutionSafe, LoaderLoads, LoadHasFinished, ReadersFind, CallsAreAsked, At, Asked
  <1>8. t \notin failed[r] => snapshot[t] >= floor[r][t]
    BY <1>1 DEF ResolutionSafe, ReadersFind, Asked
  <1>9. AnswersAreCurrent'
    <2> SUFFICES ASSUME NEW q \in Readers, NEW i \in DOMAIN cached,
                        i < reader'[q].call \/ (i = reader'[q].call /\ reader'[q].at = "done"),
                        cached[i] \notin failed[q]
                 PROVE  got'[q][cached[i]] >= floor[q][cached[i]]
      BY <1>1 DEF AnswersAreCurrent
    <2>1. CASE q = r /\ i = k
      BY <1>3, <1>8, <2>1
    <2>2. CASE q = r /\ i # k
      <3>1. i < k
        BY <1>2, <1>4, <2>2
      <3> HIDE DEF t
      <3> QED
        BY <1>2, <1>3, <2>2, <3>1 DEF ResolutionSafe, AnswersAreCurrent
    <2>3. CASE q # r
      BY <1>2, <1>3, <1>4, <2>3, CachesAre DEF ResolutionSafe, ResolutionTypeOK, AnswersAreCurrent
    <2> QED
      BY <2>1, <2>2, <2>3
  <1> QED
    BY <1>5, <1>6, <1>7, <1>9 DEF ResolutionSafe

LEMMA CommitStep ==
  ASSUME ResolutionSafe, NEW w \in Writers, Commit(w)
  PROVE  ResolutionSafe'
  <1>1. /\ writer' = [writer EXCEPT ![w] = <<database'>>]
        /\ UNCHANGED <<cached, loaded, snapshot, loader, building, reader, got, floor, failed, finished>>
    BY DEF Commit
  <1>2. PICK tables \in SUBSET CachedTables :
          /\ \A t \in tables : database[t] < MaxWrites
          /\ database' = [t \in Tables |-> IF t \in tables THEN database[t] + 1 ELSE database[t]]
    BY DEF Commit
  <1>3. database' \in Versions /\ \A t \in Tables : database[t] <= database'[t]
    BY <1>2, ResolutionAssumption DEF ResolutionSafe, ResolutionTypeOK, Versions
  <1>4. ResolutionTypeOK' /\ (writer \in [Writers -> Pending])'
    <2>1. (writer \in [Writers -> Pending])'
      BY <1>1, <1>3 DEF ResolutionSafe, Pending
    <2>2. \A v \in Writers : writer'[v] \in {<<>>} \cup {<<u>> : u \in Versions}
      BY <2>1 DEF Pending
    <2> QED
      BY <1>1, <1>3, <2>1, <2>2 DEF ResolutionSafe, ResolutionTypeOK
  <1>5. WritesAreThere'
    <2> SUFFICES ASSUME NEW t \in Tables
                 PROVE  /\ finished[t] <= database'[t]
                        /\ \A v \in Writers : writer'[v] # <<>> => writer'[v][1][t] <= database'[t]
      BY <1>1 DEF WritesAreThere
    <2>1. {finished[t], database[t], database'[t]} \subseteq Nat
      BY <1>3 DEF ResolutionSafe, ResolutionTypeOK, Versions
    <2>2. finished[t] <= database[t] /\ \A v \in Writers : writer[v] # <<>> => writer[v][1][t] <= database[t]
      BY DEF ResolutionSafe, WritesAreThere
    <2>3. writer'[w][1][t] <= database'[t]
      BY <1>1, <2>1 DEF ResolutionSafe
    <2>4. ASSUME NEW v \in Writers, v # w, writer[v] # <<>>
          PROVE  writer[v][1][t] <= database'[t]
      <3>1. writer[v][1][t] \in Nat
        BY <2>4 DEF ResolutionSafe, Pending, Versions
      <3> QED
        BY <1>3, <2>1, <2>2, <2>4, <3>1
    <2>5. \A v \in Writers : v # w => writer'[v] = writer[v]
      BY <1>1 DEF ResolutionSafe
    <2> QED
      BY <1>3, <2>1, <2>2, <2>3, <2>4, <2>5
  <1>6. /\ ValidHasFinished' /\ LoaderLoads' /\ LoadHasFinished' /\ FloorsAreFinished'
        /\ ReadersFind' /\ CallsAreAsked' /\ AnswersAreCurrent'
    BY <1>1 DEF ResolutionSafe, ValidHasFinished, LoaderLoads, LoadHasFinished, FloorsAreFinished,
       ReadersFind, CallsAreAsked, AnswersAreCurrent, CachedTables, At, Asked
  <1> QED
    BY <1>4, <1>5, <1>6 DEF ResolutionSafe

LEMMA InvalidateStep ==
  ASSUME ResolutionSafe, NEW w \in Writers, Invalidate(w)
  PROVE  ResolutionSafe'
  <1>1. /\ writer[w] # <<>> /\ loader = {} /\ loaded' = FALSE
        /\ finished' = Later(finished, writer[w][1]) /\ writer' = [writer EXCEPT ![w] = <<>>]
        /\ UNCHANGED <<cached, database, snapshot, loader, building, reader, got, floor, failed>>
    BY DEF Invalidate
  <1>2. writer[w][1] \in Versions /\ finished \in Versions /\ database \in Versions
    BY <1>1 DEF ResolutionSafe, ResolutionTypeOK, Pending
  <1>3. /\ finished' \in Versions
        /\ \A t \in Tables : finished[t] <= finished'[t] /\ finished'[t] <= database[t]
    BY <1>1, <1>2 DEF Later, Versions, ResolutionSafe, WritesAreThere
  <1>4. ResolutionTypeOK' /\ (writer \in [Writers -> Pending])'
    <2>1. (writer \in [Writers -> Pending])'
      BY <1>1 DEF ResolutionSafe, Pending
    <2>2. \A v \in Writers : writer'[v] \in {<<>>} \cup {<<u>> : u \in Versions}
      BY <2>1 DEF Pending
    <2>3. loaded' \in BOOLEAN
      BY <1>1, Zenon
    <2>4. UNCHANGED <<cached, database, snapshot, loader, building, reader, got, floor, failed>>
      BY <1>1
    <2> QED
      BY <1>3, <2>1, <2>2, <2>3, <2>4 DEF ResolutionSafe, ResolutionTypeOK
  <1>5. WritesAreThere'
    BY <1>1, <1>3 DEF ResolutionSafe, WritesAreThere
  <1>6. ValidHasFinished' /\ LoadHasFinished'
    BY <1>1 DEF ResolutionSafe, ValidHasFinished, LoaderLoads, LoadHasFinished, At
  <1>7. FloorsAreFinished'
    <2> SUFFICES ASSUME NEW q \in Readers, NEW t \in Tables PROVE floor[q][t] <= finished'[t]
      BY <1>1 DEF FloorsAreFinished
    <2>1. {floor[q][t], finished[t], finished'[t]} \subseteq Nat
      BY <1>3 DEF ResolutionSafe, ResolutionTypeOK, Versions
    <2> QED
      BY <1>3, <2>1 DEF ResolutionSafe, FloorsAreFinished
  <1>8. LoaderLoads' /\ ReadersFind' /\ CallsAreAsked' /\ AnswersAreCurrent'
    BY <1>1 DEF ResolutionSafe, LoaderLoads, ReadersFind, CallsAreAsked, AnswersAreCurrent, At, Asked
  <1> QED
    BY <1>4, <1>5, <1>6, <1>7, <1>8 DEF ResolutionSafe

LEMMA ResolutionSafeStep ==
  ASSUME ResolutionSafe, [ResolutionNext]_resolutionVars
  PROVE  ResolutionSafe'
  <1>1. CASE UNCHANGED resolutionVars
    BY <1>1 DEF resolutionVars, ResolutionSafe, ResolutionTypeOK, WritesAreThere, ValidHasFinished,
       LoaderLoads, LoadHasFinished, FloorsAreFinished, ReadersFind, CallsAreAsked, AnswersAreCurrent,
       CachedTables, At, Asked
  <1>2. ASSUME NEW r \in Readers, ReaderStep(r) PROVE ResolutionSafe'
    BY <1>2, AskStep, LockStep, LoadTableStep, PublishStep, FailLoadStep, AnswerStep DEF ReaderStep
  <1>3. ASSUME NEW w \in Writers, Commit(w) \/ Invalidate(w) PROVE ResolutionSafe'
    BY <1>3, CommitStep, InvalidateStep
  <1> QED
    BY <1>1, <1>2, <1>3 DEF ResolutionNext

\* SNAPSHOT.  For any number of requests, of writers and of writes: a call that begins after
\* a write is finished answers from a snapshot that has this write, unless its load failed.
THEOREM SnapshotsAreCurrent == ResolutionSpec => [](ResolutionTypeOK /\ AnswersAreCurrent)
  <1>1. ResolutionSafe => ResolutionTypeOK /\ AnswersAreCurrent
    BY DEF ResolutionSafe
  <1> QED
    BY ResolutionInitSafe, ResolutionSafeStep, <1>1, PTL DEF ResolutionSpec

-----------------------------------------------------------------------------
\* --- RegistrySaves

\* What a save, an admin request and the start-up have in hand.
Copies == [at : {"writing"}, registered : SUBSET Ids, active : SUBSET Ids, left : SUBSET Ids]
Deletion(id) == [at |-> "deleting", id |-> id]
Deletions == [at : {"deleting"}, id : Ids]
Chores == {Idle} \cup Deletions \cup [at : {"ranking"}, id : Ids, row : BOOLEAN]
            \cup [at : {"scheduling"}, then : {Idle} \cup Deletions]
Entries == [id : Ids, activated : BOOLEAN, at : {"register", "activate", "schedule"}]

RegistryShape ==
  /\ registered \subseteq Ids /\ active \subseteq Ids /\ crossed \subseteq Ids
  /\ primary \in Ids \cup {Nobody}
  /\ rows \in [Ids -> BOOLEAN \cup {Nobody}]
  /\ scheduled \in Nat /\ changes \in 0..MaxChanges
  /\ saver \in [Savers -> {Free} \cup Copies]
  /\ \A w \in Writing : saver[w].left \subseteq saver[w].registered
  /\ admin \in [Admins -> Chores]
  /\ waiting \in BOOLEAN
  /\ restore \in Seq(Entries)

\* Start-up: the rows are as they were read until they are registered, each once, and
\* nobody but saves of what is registered is at work.
Restores(id) == \E i \in DOMAIN restore : restore[i].id = id
RestoreIsAlone ==
  restore # <<>> => /\ \A a \in Admins : admin[a] = Idle
                    /\ \A w \in Writing : saver[w].registered \subseteq registered
RestoreFollowsRows ==
  /\ \A i, j \in DOMAIN restore : restore[i].id = restore[j].id => i = j
  /\ \A i \in DOMAIN restore :
       IF restore[i].at = "register"
       THEN restore[i].id \notin registered /\ rows[restore[i].id] = restore[i].activated
       ELSE restore[i].id \in registered

\* A copy whose rows did not cross others is the only one.
CopiesAreAlone ==
  \A w \in Writing : \A id \in saver[w].registered \ crossed : Writing = {w}

\* The row of a provider is written, or is being written, or is going to be.
SavePending == scheduled > 0 \/ \E a \in Admins : admin[a].at = "scheduling"
BeingWritten(id) == \E w \in Writing : id \in saver[w].left /\ (id \in saver[w].active <=> id \in active)
RowStays(id) == /\ rows[id] = (id \in active)
                /\ \A w \in Writing : id \notin saver[w].left
RegisteredRows ==
  \A id \in registered \ crossed : SavePending \/ Restores(id) \/ BeingWritten(id) \/ RowStays(id)

\* What is not registered has no row, or the row is going to be deleted, or registered;
\* and nobody writes one.
DeletionPending(id) ==
  \E a \in Admins : \/ admin[a] = Deletion(id)
                    \/ admin[a].at = "scheduling" /\ admin[a].then = Deletion(id)
UnregisteredRows ==
  \A id \in Ids \ (registered \cup crossed) :
    /\ rows[id] = Nobody \/ DeletionPending(id) \/ Restores(id)
    /\ \A w \in Writing : id \notin saver[w].registered

RegistrySafe ==
  /\ RegistryShape /\ PrimaryIsActive
  /\ RestoreIsAlone /\ RestoreFollowsRows /\ CopiesAreAlone
  /\ RegisteredRows /\ UnregisteredRows

LEMMA ShapeIsTyped == RegistryShape => RegistryTypeOK
  <1> SUFFICES ASSUME RegistryShape PROVE RegistryTypeOK
    OBVIOUS
  <1>1. \A w \in Savers : \/ saver[w] = Free
                          \/ /\ saver[w].at = "writing" /\ saver[w].active \subseteq Ids
                             /\ saver[w].left \subseteq saver[w].registered
                             /\ saver[w].registered \subseteq Ids
    BY DEF RegistryShape, Copies, Writing
  <1>2. \A a \in Admins : admin[a].at \in {"idle", "scheduling", "deleting", "ranking"}
    BY DEF RegistryShape, Chores, Deletions, Idle
  <1>3. \A i \in DOMAIN restore : /\ restore[i].id \in Ids /\ restore[i].activated \in BOOLEAN
                                  /\ restore[i].at \in {"register", "activate", "schedule"}
    <2>1. \A i \in DOMAIN restore : restore[i] \in Entries
      BY DEF RegistryShape
    <2> QED
      BY <2>1 DEF Entries
  <1> QED
    BY <1>1, <1>2, <1>3 DEF RegistryShape, RegistryTypeOK

\* What a process finds to restore: every row, once.
LEMMA FoundIsAll ==
  ASSUME rows \in [Ids -> BOOLEAN \cup {Nobody}], NEW r \in Found(rows)
  PROVE  /\ r \in Seq(Entries)
         /\ \A i, j \in DOMAIN r : r[i].id = r[j].id => i = j
         /\ \A i \in DOMAIN r : r[i].at = "register" /\ rows[r[i].id] = r[i].activated
         /\ \A id \in Ids : rows[id] = Nobody \/ \E i \in DOMAIN r : r[i].id = id
  <1> DEFINE ids == {id \in Ids : rows[id] # Nobody}
             n == Cardinality(ids)
  <1>1. IsFiniteSet(ids) /\ n \in Nat
    BY RegistryAssumption, FS_Subset, FS_CardinalityType
  <1>2. PICK o \in [1..n -> ids] :
          /\ ids = {o[i] : i \in DOMAIN o}
          /\ r = [i \in DOMAIN o |-> [id |-> o[i], activated |-> rows[o[i]], at |-> "register"]]
    BY DEF Found
  <1>3. o \in Injection(1..n, ids)
    <2>1. IsFiniteSet(1..n) /\ Cardinality(1..n) = n
      BY <1>1, FS_Interval
    <2>2. o \in Surjection(1..n, ids)
      BY <1>2 DEF Surjection
    <2> QED
      BY <2>1, <2>2, FS_SurjSameCardinalityImpliesInj
  <1>4. \A i, j \in 1..n : o[i] = o[j] => i = j
    BY <1>3 DEF Injection, IsInjective
  <1>5. \A i \in 1..n : o[i] \in Ids /\ rows[o[i]] \in BOOLEAN
    BY <1>2
  <1> HIDE DEF n, ids
  <1>6. /\ DOMAIN r = 1..n
        /\ \A i \in 1..n : r[i] = [id |-> o[i], activated |-> rows[o[i]], at |-> "register"]
    BY <1>2
  <1>7. \A i \in 1..n : r[i] \in Entries
    BY <1>5, <1>6 DEF Entries
  <1>8. r \in Seq(Entries)
    <2>1. r \in [1..n -> Entries]
      BY <1>2, <1>6, <1>7
    <2> QED
      BY <1>1, <2>1
  <1>9. \A id \in Ids : rows[id] = Nobody \/ \E i \in DOMAIN r : r[i].id = id
    BY <1>2, <1>6 DEF ids
  <1> QED
    BY <1>4, <1>6, <1>8, <1>9

LEMMA SomethingIsFound == Found(rows) # {}
  <1> DEFINE ids == {id \in Ids : rows[id] # Nobody}
             n == Cardinality(ids)
  <1>1. ExistsBijection(1..n, ids)
    BY RegistryAssumption, FS_Subset, FS_CardinalityType
  <1>2. PICK o \in Bijection(1..n, ids) : TRUE
    BY <1>1 DEF ExistsBijection
  <1>3. o \in [1..n -> ids] /\ ids = {o[i] : i \in DOMAIN o}
    BY <1>2 DEF Bijection, Injection, Surjection
  <1>4. [i \in DOMAIN o |-> [id |-> o[i], activated |-> rows[o[i]], at |-> "register"]] \in Found(rows)
    BY <1>3 DEF Found
  <1> QED
    BY <1>4

\* A process that has just begun.
Fresh ==
  /\ rows \in [Ids -> BOOLEAN \cup {Nobody}] /\ changes \in 0..MaxChanges
  /\ registered = {} /\ active = {} /\ primary = Nobody /\ scheduled = 0
  /\ saver = [w \in Savers |-> Free] /\ admin = [a \in Admins |-> Idle]
  /\ waiting = FALSE /\ restore \in Found(rows) /\ crossed = {}

LEMMA FreshIsSafe == Fresh => RegistrySafe
  <1> SUFFICES ASSUME Fresh PROVE RegistrySafe
    OBVIOUS
  <1> USE DEF Fresh
  <1>1. Writing = {}
    BY DEF Writing, Free
  <1>2. RegistryShape
    <2>1. waiting \in BOOLEAN
      BY Zenon DEF Fresh
    <2>2. restore \in Seq(Entries)
      BY FoundIsAll
    <2> QED
      BY <1>1, <2>1, <2>2 DEF RegistryShape, Chores
  <1>3. PrimaryIsActive
    BY DEF PrimaryIsActive
  <1>4. RestoreIsAlone /\ CopiesAreAlone /\ RegisteredRows
    BY <1>1 DEF RestoreIsAlone, CopiesAreAlone, RegisteredRows
  <1>5. RestoreFollowsRows
    BY FoundIsAll DEF RestoreFollowsRows
  <1>6. UnregisteredRows
    <2>1. \A id \in Ids : rows[id] = Nobody \/ Restores(id)
      BY FoundIsAll DEF Restores
    <2> QED
      BY <1>1, <2>1 DEF UnregisteredRows
  <1> QED
    BY <1>2, <1>3, <1>4, <1>5, <1>6 DEF RegistrySafe

LEMMA RegistryInitSafe == RegistryInit => RegistrySafe
  <1> SUFFICES ASSUME RegistryInit PROVE RegistrySafe
    OBVIOUS
  <1>1. rows \in [Ids -> BOOLEAN \cup {Nobody}]
    BY DEF RegistryInit
  <1>2. restore \in Found(rows)
    BY SomethingIsFound DEF RegistryInit
  <1>3. changes \in 0..MaxChanges
    BY RegistryAssumption DEF RegistryInit
  <1>4. Fresh
    BY <1>1, <1>2, <1>3 DEF RegistryInit, Fresh
  <1> QED
    BY <1>4, FreshIsSafe

LEMMA CrashStep ==
  ASSUME RegistrySafe, Crash
  PROVE  RegistrySafe'
  <1>1. (rows \in [Ids -> BOOLEAN \cup {Nobody}])' /\ (changes \in 0..MaxChanges)'
    BY RegistryAssumption DEF Crash, RegistrySafe, RegistryShape
  <1>2. (restore \in Found(rows))'
    <2>1. restore' \in Found(rows) /\ rows' = rows
      BY DEF Crash
    <2> QED
      BY <2>1 DEF Found
  <1>3. Fresh'
    BY <1>1, <1>2 DEF Crash, Fresh
  <1> QED
    BY <1>3, FreshIsSafe, PTL

\* --- an admin's change
LEMMA ChangeIsSafe ==
  ASSUME RegistrySafe, NEW a \in Admins, admin[a] = Idle, restore = <<>>,
         NEW then \in {Idle} \cup Deletions,
         admin' = [admin EXCEPT ![a] = [at |-> "scheduling", then |-> then]],
         UNCHANGED <<rows, scheduled, saver, waiting, restore>>,
         changes' \in 0..MaxChanges, registered' \subseteq Ids, active' \subseteq Ids,
         crossed' \subseteq Ids, primary' \in Ids \cup {Nobody}, PrimaryIsActive', CopiesAreAlone',
         \A id \in Ids \ (registered' \cup crossed') :
           \/ id \notin registered \cup crossed
           \/ then = Deletion(id) /\ \A w \in Writing : id \notin saver[w].registered
  PROVE  RegistrySafe'
  <1>1. Writing' = Writing
    BY DEF Writing
  <1>2. /\ admin' \in [Admins -> Chores]
        /\ admin'[a].at = "scheduling" /\ admin'[a].then = then
        /\ \A b \in Admins : b # a => admin'[b] = admin[b]
    BY DEF RegistrySafe, RegistryShape, Chores
  <1>3. RegistryShape'
    BY <1>1, <1>2 DEF RegistrySafe, RegistryShape
  <1>4. RestoreIsAlone' /\ RestoreFollowsRows'
    BY DEF RestoreIsAlone, RestoreFollowsRows
  <1>5. RegisteredRows'
    BY <1>2 DEF RegisteredRows, SavePending
  <1>6. UnregisteredRows'
    <2> SUFFICES ASSUME NEW id \in Ids, id \notin registered', id \notin crossed'
                 PROVE  /\ rows[id] = Nobody \/ DeletionPending(id)' \/ Restores(id)
                        /\ \A w \in Writing : id \notin saver[w].registered
      BY <1>1 DEF UnregisteredRows, Restores
    <2>1. CASE id \notin registered \cup crossed
      <3>1. DeletionPending(id) => DeletionPending(id)'
        BY <1>2 DEF DeletionPending, Deletion, Idle
      <3> QED
        BY <2>1, <3>1 DEF RegistrySafe, UnregisteredRows
    <2>2. CASE then = Deletion(id) /\ \A w \in Writing : id \notin saver[w].registered
      BY <1>2, <2>2 DEF DeletionPending
    <2> QED
      BY <2>1, <2>2
  <1> QED
    BY <1>3, <1>4, <1>5, <1>6 DEF RegistrySafe

\* The primary provider stays one of the active ones.
LEMMA ActivateKeepsPrimary ==
  ASSUME RegistrySafe, NEW id \in Ids, NEW replace \in BOOLEAN, Activate(id, replace), UNCHANGED registered
  PROVE  PrimaryIsActive' /\ active' \subseteq Ids /\ primary' \in Ids \cup {Nobody}
  <1>1. active' = active \cup {id} /\ primary' \in {id, primary} /\ id \in registered /\ id # Nobody
    BY RegistryAssumption DEF Activate
  <1>2. primary' = Nobody => FALSE
    BY <1>1 DEF Activate
  <1> QED
    BY <1>1, <1>2 DEF RegistrySafe, RegistryShape, PrimaryIsActive

LEMMA DeactivateKeepsPrimary ==
  ASSUME RegistrySafe, NEW id \in Ids, registered' \in {registered, registered \ {id}},
         Deactivate(id, registered')
  PROVE  PrimaryIsActive' /\ active' \subseteq Ids /\ primary' \in Ids \cup {Nobody}
  <1>1. active' = active \ {id} /\ active' \subseteq registered' /\ active' \cap registered' = active'
    BY DEF Deactivate, RegistrySafe, PrimaryIsActive
  <1>2. CASE primary # id
    BY <1>1, <1>2 DEF Deactivate, RegistrySafe, RegistryShape, PrimaryIsActive
  <1>3. CASE primary = id
    <2>1. primary' \in (IF active' = {} THEN {Nobody} ELSE active')
      BY <1>1, <1>3 DEF Deactivate
    <2> QED
      BY <1>1, <2>1, RegistryAssumption DEF RegistrySafe, RegistryShape, PrimaryIsActive
  <1> QED
    BY <1>2, <1>3

LEMMA ChangeStep ==
  ASSUME RegistrySafe, NEW a \in Admins, Change(a)
  PROVE  RegistrySafe'
  <1>1. /\ admin[a] = Idle /\ restore = <<>> /\ changes < MaxChanges /\ changes' = changes + 1
        /\ UNCHANGED <<rows, scheduled, saver, waiting, restore>>
    BY DEF Change, FirstIdle
  <1>2. changes' \in 0..MaxChanges
    BY <1>1, RegistryAssumption DEF RegistrySafe, RegistryShape
  <1>3. Writing' = Writing
    BY <1>1 DEF Writing
  <1>4. ASSUME NEW id \in Ids, registered' = registered \cup {id},
               admin' = [admin EXCEPT ![a] = [at |-> "scheduling", then |-> Idle]],
               UNCHANGED <<active, primary, crossed>>
        PROVE  RegistrySafe'
    <2>1. registered' \subseteq Ids /\ PrimaryIsActive' /\ CopiesAreAlone'
      BY <1>1, <1>3, <1>4 DEF RegistrySafe, RegistryShape, PrimaryIsActive, CopiesAreAlone
    <2>2. /\ active' \subseteq Ids /\ crossed' \subseteq Ids /\ primary' \in Ids \cup {Nobody}
          /\ \A i \in Ids \ (registered' \cup crossed') : i \notin registered \cup crossed
      BY <1>4 DEF RegistrySafe, RegistryShape
    <2> QED
      BY <1>1, <1>2, <1>4, <2>1, <2>2, ChangeIsSafe
  <1>5. ASSUME NEW id \in Ids, \/ \E replace \in BOOLEAN : Activate(id, replace)
                               \/ Deactivate(id, registered),
               admin' = [admin EXCEPT ![a] = [at |-> "scheduling", then |-> Idle]],
               UNCHANGED <<registered, crossed>>
        PROVE  RegistrySafe'
    <2>1. active' \subseteq Ids /\ primary' \in Ids \cup {Nobody} /\ PrimaryIsActive'
      <3>1. ASSUME NEW replace \in BOOLEAN, Activate(id, replace)
            PROVE  active' \subseteq Ids /\ primary' \in Ids \cup {Nobody} /\ PrimaryIsActive'
        BY <1>5, <3>1, ActivateKeepsPrimary
      <3>2. CASE Deactivate(id, registered)
        <4>1. Deactivate(id, registered') /\ registered' \in {registered, registered \ {id}}
          BY <1>5, <3>2
        <4> QED
          BY <4>1, DeactivateKeepsPrimary
      <3> QED
        BY <1>5, <3>1, <3>2
    <2>2. CopiesAreAlone' /\ registered' \subseteq Ids /\ crossed' \subseteq Ids
      BY <1>1, <1>3, <1>5 DEF RegistrySafe, RegistryShape, CopiesAreAlone
    <2>3. \A i \in Ids \ (registered' \cup crossed') : i \notin registered \cup crossed
      BY <1>5
    <2> QED
      BY <1>1, <1>2, <1>5, <2>1, <2>2, <2>3, ChangeIsSafe
  <1>6. ASSUME NEW id \in Ids, registered' = registered \ {id}, Deactivate(id, registered'),
               admin' = [admin EXCEPT ![a] =
                 [at |-> "scheduling", then |-> [at |-> "deleting", id |-> id]]],
               crossed' = IF \E w \in Writing : id \in saver[w].registered
                          THEN crossed \cup {id} ELSE crossed \ {id}
        PROVE  RegistrySafe'
    <2>1. active' \subseteq Ids /\ primary' \in Ids \cup {Nobody} /\ PrimaryIsActive'
      BY <1>6, DeactivateKeepsPrimary
    <2>2. registered' \subseteq Ids /\ crossed' \subseteq Ids /\ CopiesAreAlone'
      BY <1>1, <1>3, <1>6 DEF RegistrySafe, RegistryShape, CopiesAreAlone
    <2>3. \A i \in Ids \ (registered' \cup crossed') :
             \/ i \notin registered \cup crossed
             \/ Deletion(id) = Deletion(i) /\ \A w \in Writing : i \notin saver[w].registered
      BY <1>6
    <2>4. Deletion(id) \in {Idle} \cup Deletions /\ Deletion(id) = [at |-> "deleting", id |-> id]
      BY DEF Deletion, Deletions
    <2> QED
      BY <1>1, <1>2, <1>6, <2>1, <2>2, <2>3, <2>4, ChangeIsSafe
  <1> QED
    BY <1>4, <1>5, <1>6 DEF Change

\* --- what an admin's request has still to do
LEMMA BusyAdmin ==
  ASSUME RegistrySafe, NEW a \in Admins, admin[a] # Idle
  PROVE  restore = <<>>
  BY DEF RegistrySafe, RestoreIsAlone

LEMMA ScheduleSaveStep ==
  ASSUME RegistrySafe, NEW a \in Admins, ScheduleSave(a)
  PROVE  RegistrySafe'
  <1>1. /\ admin[a].at = "scheduling" /\ scheduled' = scheduled + 1
        /\ admin' = [admin EXCEPT ![a] = admin[a].then]
        /\ UNCHANGED <<registered, active, primary, rows, saver, waiting, restore, changes, crossed>>
    BY DEF ScheduleSave, Schedule
  <1>2. restore = <<>> /\ Writing' = Writing
    BY <1>1, BusyAdmin DEF Idle, Writing
  <1>3. /\ admin[a].then \in {Idle} \cup Deletions /\ admin' \in [Admins -> Chores]
        /\ admin'[a] = admin[a].then /\ \A b \in Admins : b # a => admin'[b] = admin[b]
    <2>1. admin[a].then \in {Idle} \cup Deletions
      BY <1>1 DEF RegistrySafe, RegistryShape, Chores, Idle, Deletions
    <2> QED
      BY <1>1, <2>1 DEF RegistrySafe, RegistryShape, Chores
  <1>4. RegistryShape'
    BY <1>1, <1>2, <1>3 DEF RegistrySafe, RegistryShape
  <1>5. PrimaryIsActive' /\ RestoreIsAlone' /\ RestoreFollowsRows' /\ CopiesAreAlone'
    BY <1>1, <1>2 DEF RegistrySafe, PrimaryIsActive, RestoreIsAlone, RestoreFollowsRows, CopiesAreAlone
  <1>6. RegisteredRows'
    BY <1>1 DEF RegistrySafe, RegistryShape, RegisteredRows, SavePending
  <1>7. UnregisteredRows'
    <2>1. ASSUME NEW id \in Ids, DeletionPending(id) PROVE DeletionPending(id)'
      BY <1>1, <1>3, <2>1 DEF DeletionPending, Deletion
    <2> QED
      BY <1>1, <1>2, <2>1 DEF RegistrySafe, UnregisteredRows, Restores
  <1> QED
    BY <1>4, <1>5, <1>6, <1>7 DEF RegistrySafe

\* A row of an id changes, whose writes then have crossed or which nobody needs.
LEMMA RowChanges ==
  ASSUME RegistrySafe, NEW a \in Admins, admin[a] # Idle, admin[a].at # "scheduling",
         NEW id \in Ids, NEW value \in BOOLEAN \cup {Nobody}, rows' = [rows EXCEPT ![id] = value],
         admin' = [admin EXCEPT ![a] = Idle],
         crossed' \in {crossed, crossed \cup {id}},
         id \notin crossed' => rows'[id] = rows[id] \/ (id \notin registered /\ value = Nobody),
         admin[a].at = "deleting" => admin[a] = Deletion(id) /\ value = Nobody,
         UNCHANGED <<registered, active, primary, scheduled, saver, waiting, restore, changes>>
  PROVE  RegistrySafe'
  <1>1. restore = <<>> /\ Writing' = Writing
    BY BusyAdmin DEF Writing
  <1>2. /\ admin' \in [Admins -> Chores] /\ admin'[a] = Idle
        /\ \A b \in Admins : b # a => admin'[b] = admin[b]
    BY DEF RegistrySafe, RegistryShape, Chores
  <1>3. /\ rows' \in [Ids -> BOOLEAN \cup {Nobody}] /\ rows'[id] = value
        /\ \A i \in Ids : i # id => rows'[i] = rows[i]
    BY DEF RegistrySafe, RegistryShape
  <1>4. RegistryShape'
    BY <1>1, <1>2, <1>3 DEF RegistrySafe, RegistryShape
  <1>5. PrimaryIsActive' /\ RestoreIsAlone' /\ RestoreFollowsRows' /\ CopiesAreAlone'
    BY <1>1 DEF RegistrySafe, PrimaryIsActive, RestoreIsAlone, RestoreFollowsRows, CopiesAreAlone
  <1>6. SavePending => SavePending'
    BY <1>2 DEF SavePending
  <1>7. RegisteredRows'
    <2> SUFFICES ASSUME NEW i \in registered, i \notin crossed'
                 PROVE  SavePending' \/ Restores(i)' \/ BeingWritten(i)' \/ RowStays(i)'
      BY DEF RegisteredRows
    <2>1. SavePending \/ Restores(i) \/ BeingWritten(i) \/ RowStays(i)
      BY DEF RegistrySafe, RegisteredRows
    <2>2. i \in Ids /\ rows'[i] = rows[i]
      BY <1>3 DEF RegistrySafe, RegistryShape
    <2>3. BeingWritten(i) => BeingWritten(i)'
      BY <1>1 DEF BeingWritten
    <2>4. RowStays(i) => RowStays(i)'
      BY <1>1, <2>2 DEF RowStays
    <2> QED
      BY <1>1, <1>6, <2>1, <2>3, <2>4 DEF Restores
  <1>8. UnregisteredRows'
    <2> SUFFICES ASSUME NEW i \in Ids, i \notin registered, i \notin crossed'
                 PROVE  /\ rows'[i] = Nobody \/ DeletionPending(i)'
                        /\ \A w \in Writing : i \notin saver[w].registered
      BY <1>1 DEF UnregisteredRows
    <2>1. /\ rows[i] = Nobody \/ DeletionPending(i)
          /\ \A w \in Writing : i \notin saver[w].registered
      BY <1>1 DEF RegistrySafe, UnregisteredRows, Restores
    <2>2. CASE admin[a] = Deletion(i)
      BY <1>3, <2>1, <2>2 DEF Deletion
    <2>3. CASE admin[a] # Deletion(i)
      <3>1. DeletionPending(i) => DeletionPending(i)'
        BY <1>2, <2>3 DEF DeletionPending
      <3>2. rows'[i] = rows[i] \/ rows'[i] = Nobody
        BY <1>3
      <3> QED
        BY <2>1, <3>1, <3>2
    <2> QED
      BY <2>1, <2>2, <2>3
  <1> QED
    BY <1>4, <1>5, <1>7, <1>8 DEF RegistrySafe

LEMMA DeleteRowStep ==
  ASSUME RegistrySafe, NEW a \in Admins, DeleteRow(a)
  PROVE  RegistrySafe'
  <1> DEFINE id == admin[a].id
  <1>1. /\ admin[a].at = "deleting" /\ rows' = [rows EXCEPT ![id] = Nobody]
        /\ crossed' = (IF id \in registered THEN crossed \cup {id} ELSE crossed)
        /\ admin' = [admin EXCEPT ![a] = Idle]
        /\ UNCHANGED <<registered, active, primary, scheduled, saver, waiting, restore, changes>>
    BY DEF DeleteRow
  <1>2. id \in Ids /\ admin[a] = Deletion(id) /\ admin[a] # Idle
    BY <1>1 DEF RegistrySafe, RegistryShape, Chores, Idle, Deletions, Deletion
  <1> HIDE DEF id
  <1>3. /\ crossed' \in {crossed, crossed \cup {id}} /\ Nobody \in BOOLEAN \cup {Nobody}
        /\ id \notin crossed' => id \notin registered
        /\ admin[a].at # "scheduling"
    BY <1>1
  <1> QED
    BY <1>1, <1>2, <1>3, RowChanges

LEMMA WriteRankStep ==
  ASSUME RegistrySafe, NEW a \in Admins, WriteRank(a)
  PROVE  RegistrySafe'
  <1> DEFINE id == admin[a].id
             row == admin[a].row
  <1>1. /\ admin[a].at = "ranking" /\ rows' = [rows EXCEPT ![id] = row]
        /\ crossed' = (IF rows[id] # row THEN crossed \cup {id} ELSE crossed)
        /\ admin' = [admin EXCEPT ![a] = Idle]
        /\ UNCHANGED <<registered, active, primary, scheduled, saver, waiting, restore, changes>>
    BY DEF WriteRank
  <1>2. id \in Ids /\ row \in BOOLEAN \cup {Nobody} /\ admin[a] # Idle
    BY <1>1 DEF RegistrySafe, RegistryShape, Chores, Idle, Deletions
  <1> HIDE DEF id, row
  <1>3. /\ crossed' \in {crossed, crossed \cup {id}}
        /\ admin[a].at # "scheduling" /\ admin[a].at # "deleting"
    BY <1>1
  <1>4. id \notin crossed' => rows'[id] = rows[id]
    BY <1>1, <1>2 DEF RegistrySafe, RegistryShape
  <1> QED
    BY <1>1, <1>2, <1>3, <1>4, RowChanges

LEMMA ReadRowStep ==
  ASSUME RegistrySafe, NEW a \in Admins, ReadRow(a)
  PROVE  RegistrySafe'
  <1>1. /\ admin[a] = Idle /\ restore = <<>> /\ changes' \in 0..MaxChanges
        /\ UNCHANGED <<registered, active, primary, rows, scheduled, saver, waiting, restore, crossed>>
    BY RegistryAssumption DEF ReadRow, FirstIdle, RegistrySafe, RegistryShape
  <1>2. PICK id \in Ids : /\ rows[id] # Nobody
                          /\ admin' = [admin EXCEPT ![a] = [at |-> "ranking", id |-> id, row |-> rows[id]]]
    BY DEF ReadRow
  <1>3. /\ admin' \in [Admins -> Chores] /\ admin'[a].at = "ranking"
        /\ \A b \in Admins : b # a => admin'[b] = admin[b]
    <2>1. rows[id] \in BOOLEAN
      BY <1>2 DEF RegistrySafe, RegistryShape
    <2>2. [at |-> "ranking", id |-> id, row |-> rows[id]] \in Chores
      BY <2>1 DEF Chores
    <2> QED
      BY <1>2, <2>2 DEF RegistrySafe, RegistryShape
  <1>4. Writing' = Writing
    BY <1>1 DEF Writing
  <1>5. RegistryShape'
    BY <1>1, <1>3, <1>4 DEF RegistrySafe, RegistryShape
  <1>6. PrimaryIsActive' /\ RestoreIsAlone' /\ RestoreFollowsRows' /\ CopiesAreAlone'
    BY <1>1, <1>4 DEF RegistrySafe, PrimaryIsActive, RestoreIsAlone, RestoreFollowsRows, CopiesAreAlone
  <1>7. RegisteredRows'
    <2>1. SavePending => SavePending'
      BY <1>1, <1>3 DEF SavePending, Idle
    <2> QED
      BY <1>1, <1>4, <2>1 DEF RegistrySafe, RegisteredRows, Restores, BeingWritten, RowStays
  <1>8. UnregisteredRows'
    <2>1. ASSUME NEW i \in Ids, DeletionPending(i) PROVE DeletionPending(i)'
      BY <1>1, <1>3, <2>1 DEF DeletionPending, Deletion, Idle
    <2> QED
      BY <1>1, <1>4, <2>1 DEF RegistrySafe, UnregisteredRows, Restores
  <1> QED
    BY <1>5, <1>6, <1>7, <1>8 DEF RegistrySafe

\* --- saves
LEMMA SnapshotStep ==
  ASSUME RegistrySafe, NEW w \in Savers, Snapshot(w)
  PROVE  RegistrySafe'
  <1> DEFINE copy == [at |-> "writing", registered |-> registered, active |-> active, left |-> registered]
             copied == UNION {saver[v].registered : v \in Writing}
  <1>1. /\ scheduled > 0 /\ scheduled' = scheduled - 1
        /\ saver[w] = Free /\ saver' = [saver EXCEPT ![w] = copy]
        /\ crossed' = (IF Writing = {} THEN crossed \ registered ELSE crossed \cup registered \cup copied)
        /\ UNCHANGED <<registered, active, primary, rows, admin, waiting, restore, changes>>
    <2>1. saver[w] = Free
      <3>1. \E v \in Savers : saver[v] = Free
        BY DEF Snapshot, RegistrySafe, RegistryShape, Writing, Copies
      <3> QED
        BY <3>1 DEF Snapshot
    <2> QED
      BY <2>1 DEF Snapshot
  <1>2. copied \subseteq Ids /\ \A v \in Writing : saver[v].registered \subseteq copied
    BY DEF RegistrySafe, RegistryShape, Writing, Copies, Free
  <1>3. copy \in Copies /\ copy.registered = registered /\ copy.left = registered /\ copy.active = active
    BY DEF Copies, RegistrySafe, RegistryShape
  <1> HIDE DEF copied, copy
  <1>4. /\ saver' \in [Savers -> {Free} \cup Copies] /\ saver'[w] = copy
        /\ \A v \in Savers : v # w => saver'[v] = saver[v]
    BY <1>1, <1>3 DEF RegistrySafe, RegistryShape
  <1>5. w \notin Writing /\ Writing' = Writing \cup {w} /\ \A v \in Writing : v \in Savers /\ saver'[v] = saver[v]
    BY <1>1, <1>3, <1>4 DEF Writing, Free, Copies
  <1>6. RegistryShape'
    <2>1. scheduled' \in Nat /\ crossed' \subseteq Ids
      BY <1>1, <1>2 DEF RegistrySafe, RegistryShape
    <2> QED
      BY <1>1, <1>3, <1>4, <1>5, <2>1 DEF RegistrySafe, RegistryShape
  <1>7. PrimaryIsActive' /\ RestoreFollowsRows'
    BY <1>1 DEF RegistrySafe, PrimaryIsActive, RestoreFollowsRows
  <1>8. RestoreIsAlone'
    BY <1>1, <1>3, <1>4, <1>5 DEF RegistrySafe, RestoreIsAlone
  <1>9. CopiesAreAlone'
    <2>1. CASE Writing = {}
      BY <1>5, <2>1 DEF CopiesAreAlone
    <2>2. CASE Writing # {}
      <3>1. \A v \in Writing' : saver'[v].registered \subseteq crossed'
        BY <1>1, <1>2, <1>3, <1>4, <1>5, <2>2
      <3> QED
        BY <3>1 DEF CopiesAreAlone
    <2> QED
      BY <2>1, <2>2
  <1>10. RegisteredRows'
    <2>1. CASE Writing = {}
      <3>1. \A id \in registered : BeingWritten(id)'
        BY <1>1, <1>3, <1>4, <1>5 DEF BeingWritten
      <3> QED
        BY <1>1, <3>1 DEF RegisteredRows
    <2>2. CASE Writing # {}
      BY <1>1, <2>2 DEF RegisteredRows
    <2> QED
      BY <2>1, <2>2
  <1>11. UnregisteredRows'
    <2>1. \A id \in Ids : DeletionPending(id) => DeletionPending(id)'
      BY <1>1 DEF DeletionPending
    <2>2. Ids \ (registered' \cup crossed') \subseteq Ids \ (registered \cup crossed)
      BY <1>1
    <2> QED
      BY <1>1, <1>3, <1>4, <1>5, <2>1, <2>2 DEF RegistrySafe, UnregisteredRows, Restores
  <1> QED
    BY <1>6, <1>7, <1>8, <1>9, <1>10, <1>11 DEF RegistrySafe

LEMMA WriteRowStep ==
  ASSUME RegistrySafe, NEW w \in Savers, WriteRow(w)
  PROVE  RegistrySafe'
  <1>1. PICK id \in saver[w].left :
          /\ saver' = [saver EXCEPT ![w].left = @ \ {id}]
          /\ \/ rows' = [rows EXCEPT ![id] = Written(w, id)] /\ UNCHANGED <<crossed, changes>>
             \/ /\ changes < MaxChanges /\ changes' = changes + 1
                /\ crossed' = crossed \cup {id} /\ UNCHANGED rows
    BY DEF WriteRow
  <1>2. /\ saver[w].at = "writing" /\ w \in Writing
        /\ UNCHANGED <<registered, active, primary, scheduled, admin, waiting, restore>>
    BY DEF WriteRow, Writing
  <1>3. saver[w] \in Copies /\ id \in saver[w].registered /\ id \in Ids
    BY <1>2 DEF RegistrySafe, RegistryShape, Copies, Free
  <1>4. /\ saver' \in [Savers -> {Free} \cup Copies]
        /\ saver'[w].at = "writing" /\ saver'[w].registered = saver[w].registered
        /\ saver'[w].active = saver[w].active /\ saver'[w].left = saver[w].left \ {id}
        /\ \A v \in Savers : v # w => saver'[v] = saver[v]
    BY <1>1, <1>3 DEF RegistrySafe, RegistryShape, Copies
  <1>5. Writing' = Writing /\ Writing \subseteq Savers
    BY <1>2, <1>4 DEF Writing
  <1>6. \A v \in Writing : /\ saver'[v].registered = saver[v].registered /\ saver'[v].active = saver[v].active
                           /\ saver'[v].left \subseteq saver[v].left
                           /\ \A i : i # id /\ i \in saver[v].left => i \in saver'[v].left
    BY <1>4, <1>5
  <1>7. /\ rows' \in [Ids -> BOOLEAN \cup {Nobody}] /\ crossed \subseteq crossed'
        /\ crossed' \subseteq Ids /\ changes' \in 0..MaxChanges
        /\ \A i \in Ids : i # id => rows'[i] = rows[i]
    <2>1. Written(w, id) \in BOOLEAN
      BY DEF Written
    <2>2. rows' \in [Ids -> BOOLEAN \cup {Nobody}] /\ \A i \in Ids : i # id => rows'[i] = rows[i]
      BY <1>1, <1>3, <2>1 DEF RegistrySafe, RegistryShape
    <2>3. crossed \subseteq crossed' /\ crossed' \subseteq Ids /\ changes' \in 0..MaxChanges
      BY <1>1, <1>3, RegistryAssumption DEF RegistrySafe, RegistryShape
    <2> QED
      BY <2>2, <2>3
  <1>8. RegistryShape'
    BY <1>2, <1>4, <1>5, <1>6, <1>7 DEF RegistrySafe, RegistryShape
  <1>9. PrimaryIsActive' /\ RestoreIsAlone' /\ CopiesAreAlone'
    BY <1>2, <1>5, <1>6, <1>7 DEF RegistrySafe, PrimaryIsActive, RestoreIsAlone, CopiesAreAlone
  <1>10. RestoreFollowsRows'
    <2> SUFFICES ASSUME restore # <<>>, NEW i \in DOMAIN restore, restore[i].at = "register"
                 PROVE  rows'[restore[i].id] = rows[restore[i].id]
      BY <1>2 DEF RegistrySafe, RestoreFollowsRows
    <2>1. id \in registered
      BY <1>2, <1>3 DEF RegistrySafe, RestoreIsAlone
    <2>2. restore[i].id \in Ids /\ restore[i].id \notin registered
      <3>1. restore[i] \in Entries
        BY DEF RegistrySafe, RegistryShape
      <3> QED
        BY <3>1 DEF Entries, RegistrySafe, RestoreFollowsRows
    <2> QED
      BY <1>7, <2>1, <2>2
  <1>11. RegisteredRows'
    <2> SUFFICES ASSUME NEW i \in registered, i \notin crossed', ~SavePending, ~Restores(i)
                 PROVE  BeingWritten(i)' \/ RowStays(i)'
      BY <1>2 DEF RegisteredRows, SavePending, Restores
    <2>1. i \notin crossed /\ i \in Ids /\ (BeingWritten(i) \/ RowStays(i))
      BY <1>7 DEF RegistrySafe, RegistryShape, RegisteredRows
    <2>2. CASE i # id
      <3>1. BeingWritten(i) => BeingWritten(i)'
        BY <1>2, <1>5, <1>6, <2>2 DEF BeingWritten
      <3>2. RowStays(i) => RowStays(i)'
        BY <1>2, <1>5, <1>6, <1>7, <2>1, <2>2 DEF RowStays
      <3> QED
        BY <2>1, <3>1, <3>2
    <2>3. CASE i = id
      <3>1. Writing = {w}
        BY <1>2, <1>3, <2>1, <2>3 DEF RegistrySafe, CopiesAreAlone
      <3>2. id \in saver[w].active <=> id \in active
        BY <1>2, <2>1, <2>3, <3>1 DEF BeingWritten, RowStays
      <3>3. rows'[id] = (id \in saver[w].active)
        BY <1>1, <1>3, <2>3 DEF Written, RegistrySafe, RegistryShape
      <3>4. rows'[id] = (id \in active')
        BY <1>2, <3>2, <3>3
      <3>5. \A v \in Writing' : id \notin saver'[v].left
        BY <1>4, <1>5, <3>1
      <3> QED
        BY <2>3, <3>4, <3>5 DEF RowStays
    <2> QED
      BY <2>2, <2>3
  <1>12. UnregisteredRows'
    <2>1. \A i \in Ids : DeletionPending(i) => DeletionPending(i)'
      BY <1>2 DEF DeletionPending
    <2>2. \A i \in Ids \ (registered \cup crossed) : i # id
      BY <1>2, <1>3 DEF RegistrySafe, UnregisteredRows
    <2> QED
      BY <1>2, <1>5, <1>6, <1>7, <2>1, <2>2 DEF RegistrySafe, UnregisteredRows, Restores
  <1> QED
    BY <1>8, <1>9, <1>10, <1>11, <1>12 DEF RegistrySafe

LEMMA FinishSaveStep ==
  ASSUME RegistrySafe, NEW w \in Savers, FinishSave(w)
  PROVE  RegistrySafe'
  <1>1. /\ saver[w].at = "writing" /\ saver[w].left = {} /\ saver' = [saver EXCEPT ![w] = Free]
        /\ UNCHANGED <<registered, active, primary, rows, scheduled, admin, waiting, restore, changes, crossed>>
    BY DEF FinishSave
  <1>2. /\ saver' \in [Savers -> {Free} \cup Copies] /\ Writing' = Writing \ {w} /\ w \in Writing
        /\ \A v \in Writing : v # w => saver'[v] = saver[v]
    BY <1>1 DEF RegistrySafe, RegistryShape, Writing, Free
  <1>3. RegistryShape' /\ PrimaryIsActive' /\ RestoreFollowsRows'
    BY <1>1, <1>2 DEF RegistrySafe, RegistryShape, PrimaryIsActive, RestoreFollowsRows
  <1>4. RestoreIsAlone' /\ CopiesAreAlone'
    BY <1>1, <1>2 DEF RegistrySafe, RestoreIsAlone, CopiesAreAlone
  <1>5. RegisteredRows'
    <2>1. \A id \in Ids : BeingWritten(id) => BeingWritten(id)'
      BY <1>1, <1>2 DEF BeingWritten
    <2>2. \A id \in Ids : RowStays(id) => RowStays(id)'
      BY <1>1, <1>2 DEF RowStays
    <2> QED
      BY <1>1, <2>1, <2>2 DEF RegistrySafe, RegistryShape, RegisteredRows, SavePending, Restores
  <1>6. UnregisteredRows'
    <2>1. \A i \in Ids : DeletionPending(i) => DeletionPending(i)'
      BY <1>1 DEF DeletionPending
    <2> QED
      BY <1>1, <1>2, <2>1 DEF RegistrySafe, UnregisteredRows, Restores
  <1> QED
    BY <1>3, <1>4, <1>5, <1>6 DEF RegistrySafe

\* --- the rest
LEMMA HeadAndTail ==
  ASSUME NEW S, NEW s \in Seq(S), s # <<>>, NEW next, NEW rest, next = Head(s), rest = Tail(s)
  PROVE  /\ s \in Seq(S) /\ next = s[1] /\ next \in S /\ 1 \in DOMAIN s
         /\ rest \in Seq(S)
         /\ \A i \in DOMAIN rest : i + 1 \in DOMAIN s /\ rest[i] = s[i + 1] /\ i \in Nat /\ i >= 1
         /\ \A i \in DOMAIN s : i # 1 => i - 1 \in DOMAIN rest /\ rest[i - 1] = s[i]
  <1>1. /\ Len(s) \in Nat /\ Len(s) # 0 /\ DOMAIN s = 1..Len(s) /\ rest \in Seq(S)
        /\ Len(rest) = Len(s) - 1 /\ DOMAIN rest = 1..Len(rest) /\ next = s[1]
    OBVIOUS
  <1>2. \A i \in 1..Len(s) : s[i] \in S
    OBVIOUS
  <1>3. \A i \in 1..(Len(s) - 1) : rest[i] = s[i + 1]
    OBVIOUS
  <1>4. next \in S /\ 1 \in DOMAIN s
    BY <1>1, <1>2
  <1>5. \A i \in DOMAIN rest : i + 1 \in DOMAIN s /\ rest[i] = s[i + 1] /\ i \in Nat /\ i >= 1
    BY <1>1, <1>3
  <1>6. ASSUME NEW i \in DOMAIN s, i # 1 PROVE i - 1 \in DOMAIN rest /\ rest[i - 1] = s[i]
    <2>1. i - 1 \in 1..(Len(s) - 1) /\ (i - 1) + 1 = i
      BY <1>1, <1>6
    <2> QED
      BY <1>1, <1>3, <2>1
  <1> QED
    BY <1>1, <1>4, <1>5, <1>6

LEMMA RestoreStep ==
  ASSUME RegistrySafe, Restore
  PROVE  RegistrySafe'
  <1>0. PICK next, rest : next = Head(restore) /\ rest = Tail(restore)
    OBVIOUS
  <1>1. /\ restore # <<>> /\ UNCHANGED <<rows, saver, admin, waiting, changes, crossed>>
        /\ Writing' = Writing
    BY DEF Restore, Writing
  <1>2. /\ restore \in Seq(Entries) /\ next = restore[1] /\ next \in Entries /\ 1 \in DOMAIN restore
        /\ rest \in Seq(Entries)
        /\ \A i \in DOMAIN rest : i + 1 \in DOMAIN restore /\ rest[i] = restore[i + 1] /\ i \in Nat /\ i >= 1
        /\ \A i \in DOMAIN restore : i # 1 => i - 1 \in DOMAIN rest /\ rest[i - 1] = restore[i]
    <2>1. restore \in Seq(Entries) /\ restore # <<>>
      BY <1>1 DEF RegistrySafe, RegistryShape
    <2> QED
      BY <1>0, <2>1, HeadAndTail
  <1>3. /\ \A i, j \in DOMAIN restore : restore[i].id = restore[j].id => i = j
        /\ \A i \in DOMAIN restore :
             IF restore[i].at = "register"
             THEN restore[i].id \notin registered /\ rows[restore[i].id] = restore[i].activated
             ELSE restore[i].id \in registered
    BY DEF RegistrySafe, RestoreFollowsRows
  <1>4. \A i \in DOMAIN rest : restore[i + 1].id # next.id
    <2>1. \A i \in DOMAIN rest : i + 1 # 1 /\ i + 1 \in DOMAIN restore
      BY <1>2
    <2> QED
      BY <1>2, <1>3, <2>1
  <1>5. \A w \in Writing : saver[w].registered \subseteq registered
    BY <1>1 DEF RegistrySafe, RestoreIsAlone
  <1>6. /\ \A id \in Ids : DeletionPending(id) <=> DeletionPending(id)'
        /\ \A a \in Admins : admin[a] = Idle
    BY <1>1 DEF DeletionPending, RegistrySafe, RestoreIsAlone
  <1>7. next.id \in Ids /\ next.activated \in BOOLEAN /\ next.at \in {"register", "activate", "schedule"}
    BY <1>2 DEF Entries
  <1>8. /\ \A id : Restores(id) /\ id # next.id => \E i \in DOMAIN rest : rest[i].id = id
    BY <1>2 DEF Restores
  \* The first entry is done, or goes on with its next step.
  <1>9. ASSUME NEW entry \in Entries, restore' = <<entry>> \o rest, entry.id = next.id
        PROVE  /\ restore' \in Seq(Entries) /\ \A id : Restores(id) => Restores(id)'
               /\ DOMAIN restore' = DOMAIN restore /\ restore'[1] = entry
               /\ \A i \in DOMAIN restore : i # 1 => restore'[i] = restore[i]
    <2>1. /\ restore' \in Seq(Entries) /\ DOMAIN restore' = DOMAIN restore /\ restore'[1] = entry
          /\ \A i \in DOMAIN restore : i # 1 => restore'[i] = restore[i]
      BY <1>0, <1>1, <1>2, <1>9
    <2> QED
      BY <1>2, <1>9, <2>1 DEF Restores
  <1>10. CASE next.at = "register" /\ next.activated
    <2>1. /\ registered' = registered \cup {next.id}
          /\ restore' = <<[next EXCEPT !.at = "activate"]>> \o rest
          /\ UNCHANGED <<active, primary, scheduled>>
      BY <1>0, <1>10 DEF Restore
    <2>2. [next EXCEPT !.at = "activate"] \in Entries /\ [next EXCEPT !.at = "activate"].id = next.id
          /\ [next EXCEPT !.at = "activate"].at = "activate"
      BY <1>2 DEF Entries
    <2>3. /\ restore' \in Seq(Entries) /\ \A id : Restores(id) => Restores(id)'
          /\ DOMAIN restore' = DOMAIN restore /\ restore'[1] = [next EXCEPT !.at = "activate"]
          /\ \A i \in DOMAIN restore : i # 1 => restore'[i] = restore[i]
      BY <1>9, <2>1, <2>2
    <2>4. RegistryShape' /\ PrimaryIsActive' /\ RestoreIsAlone' /\ CopiesAreAlone'
      BY <1>1, <1>5, <1>6, <1>7, <2>1, <2>3
         DEF RegistrySafe, RegistryShape, PrimaryIsActive, RestoreIsAlone, CopiesAreAlone
    <2>5. RestoreFollowsRows'
      <3>1. \A i \in DOMAIN restore : restore'[i].id = restore[i].id
        BY <1>2, <2>2, <2>3
      <3>2. \A i \in DOMAIN restore : i # 1 => restore[i].id # next.id
        BY <1>2, <1>3
      <3>3. \A i, j \in DOMAIN restore' : restore'[i].id = restore'[j].id => i = j
        BY <1>3, <2>3, <3>1
      <3>4. ASSUME NEW i \in DOMAIN restore
            PROVE  IF restore'[i].at = "register"
                   THEN restore'[i].id \notin registered' /\ rows'[restore'[i].id] = restore'[i].activated
                   ELSE restore'[i].id \in registered'
        <4>1. CASE i = 1
          BY <2>1, <2>2, <2>3, <4>1
        <4>2. CASE i # 1
          BY <1>1, <1>3, <2>1, <2>3, <3>2, <4>2
        <4> QED
          BY <4>1, <4>2
      <3> QED
        BY <2>3, <3>3, <3>4 DEF RestoreFollowsRows
    <2>6. RegisteredRows'
      <3>1. Restores(next.id)
        BY <1>2 DEF Restores
      <3> QED
        BY <1>1, <2>1, <2>3, <3>1 DEF RegistrySafe, RegisteredRows, SavePending, BeingWritten, RowStays
    <2>7. UnregisteredRows'
      BY <1>1, <1>6, <2>1, <2>3 DEF RegistrySafe, UnregisteredRows
    <2> QED
      BY <2>4, <2>5, <2>6, <2>7 DEF RegistrySafe
  <1>11. CASE next.at = "register" /\ ~next.activated
    <2>1. /\ registered' = registered \cup {next.id} /\ restore' = rest
          /\ UNCHANGED <<active, primary, scheduled>>
      BY <1>0, <1>11 DEF Restore
    <2>2. RegistryShape' /\ PrimaryIsActive' /\ RestoreIsAlone' /\ CopiesAreAlone'
      BY <1>1, <1>2, <1>5, <1>6, <1>7, <2>1
         DEF RegistrySafe, RegistryShape, PrimaryIsActive, RestoreIsAlone, CopiesAreAlone
    <2>3. RestoreFollowsRows'
      <3>1. \A i \in DOMAIN restore' : i + 1 \in DOMAIN restore /\ restore'[i] = restore[i + 1] /\ i \in Nat
        BY <1>2, <2>1
      <3>2. \A i, j \in DOMAIN restore' : restore'[i].id = restore'[j].id => i = j
        BY <1>3, <3>1
      <3>3. ASSUME NEW i \in DOMAIN restore'
            PROVE  IF restore'[i].at = "register"
                   THEN restore'[i].id \notin registered' /\ rows'[restore'[i].id] = restore'[i].activated
                   ELSE restore'[i].id \in registered'
        BY <1>1, <1>3, <1>4, <2>1, <3>1
      <3> QED
        BY <3>2, <3>3 DEF RestoreFollowsRows
    <2>4. RegisteredRows'
      <3>1. next.id \notin registered /\ rows[next.id] = next.activated
        BY <1>2, <1>3, <1>11
      <3>2. next.id \notin active /\ \A w \in Writing : next.id \notin saver[w].left
        BY <1>5, <3>1 DEF RegistrySafe, RegistryShape, PrimaryIsActive
      <3>3. rows[next.id] = (next.id \in active)
        <4>1. next.activated = FALSE
          <5>1. next.activated \in BOOLEAN /\ ~next.activated
            BY <1>7, <1>11
          <5> QED
            BY <5>1, Zenon
        <4>2. (next.id \in active) = FALSE
          BY <3>2
        <4> QED
          <5>1. rows[next.id] = FALSE
            BY <3>1, <4>1
          <5> QED
            BY <4>2, <5>1
      <3>4. RowStays(next.id)'
        BY <1>1, <2>1, <3>2, <3>3 DEF RowStays
      <3>5. \A id \in registered : id # next.id /\ (Restores(id) => Restores(id)')
        BY <1>8, <2>1, <3>1 DEF Restores
      <3> QED
        <4>1. \A id \in registered \ crossed : SavePending \/ Restores(id) \/ BeingWritten(id) \/ RowStays(id)
          BY DEF RegistrySafe, RegisteredRows
        <4>2. \A id : (SavePending => SavePending') /\ (BeingWritten(id) => BeingWritten(id)') /\ (RowStays(id) => RowStays(id)')
          BY <1>1, <2>1 DEF SavePending, BeingWritten, RowStays
        <4> QED
          <5> SUFFICES ASSUME NEW id \in registered', id \notin crossed'
                       PROVE  SavePending' \/ Restores(id)' \/ BeingWritten(id)' \/ RowStays(id)'
            BY DEF RegisteredRows
          <5>1. CASE id = next.id
            BY <3>4, <5>1
          <5>2. CASE id # next.id
            <6>1. id \in registered /\ id \notin crossed
              BY <1>1, <2>1, <5>2
            <6> QED
              BY <3>5, <4>1, <4>2, <6>1
          <5> QED
            BY <5>1, <5>2
    <2>5. UnregisteredRows'
      BY <1>1, <1>6, <1>8, <2>1 DEF RegistrySafe, UnregisteredRows, Restores
    <2> QED
      BY <2>2, <2>3, <2>4, <2>5 DEF RegistrySafe
  <1>12. CASE next.at = "activate"
    <2>1. /\ Activate(next.id, FALSE) /\ UNCHANGED <<registered, scheduled>>
          /\ restore' = <<[next EXCEPT !.at = "schedule"]>> \o rest
      BY <1>0, <1>12 DEF Restore
    <2>2. [next EXCEPT !.at = "schedule"] \in Entries /\ [next EXCEPT !.at = "schedule"].id = next.id
          /\ [next EXCEPT !.at = "schedule"].at = "schedule"
      BY <1>2 DEF Entries
    <2>3. /\ restore' \in Seq(Entries) /\ \A id : Restores(id) => Restores(id)'
          /\ DOMAIN restore' = DOMAIN restore /\ restore'[1] = [next EXCEPT !.at = "schedule"]
          /\ \A i \in DOMAIN restore : i # 1 => restore'[i] = restore[i]
      BY <1>9, <2>1, <2>2
    <2>4. PrimaryIsActive' /\ active' \subseteq Ids /\ primary' \in Ids \cup {Nobody}
      <3>1. FALSE \in BOOLEAN
        OBVIOUS
      <3> QED
        BY <1>7, <2>1, <3>1, ActivateKeepsPrimary
    <2>5. active' = active \cup {next.id}
      BY <2>1 DEF Activate
    <2>6. RegistryShape' /\ RestoreIsAlone' /\ CopiesAreAlone'
      <3>1. RestoreIsAlone' /\ CopiesAreAlone'
        BY <1>1, <1>5, <1>6, <2>1 DEF RegistrySafe, RestoreIsAlone, CopiesAreAlone
      <3> QED
        BY <1>1, <2>1, <2>3, <2>4, <3>1 DEF RegistrySafe, RegistryShape
    <2>7. RestoreFollowsRows'
      <3>1. \A i \in DOMAIN restore : restore'[i].id = restore[i].id
        BY <1>2, <2>2, <2>3
      <3>2. \A i, j \in DOMAIN restore' : restore'[i].id = restore'[j].id => i = j
        BY <1>3, <2>3, <3>1
      <3>3. ASSUME NEW i \in DOMAIN restore
            PROVE  IF restore'[i].at = "register"
                   THEN restore'[i].id \notin registered' /\ rows'[restore'[i].id] = restore'[i].activated
                   ELSE restore'[i].id \in registered'
        <4>1. CASE i = 1
          BY <1>2, <1>3, <1>12, <2>1, <2>2, <2>3, <4>1
        <4>2. CASE i # 1
          BY <1>1, <1>3, <2>1, <2>3, <4>2
        <4> QED
          BY <4>1, <4>2
      <3> QED
        BY <2>3, <3>2, <3>3 DEF RestoreFollowsRows
    <2>8. RegisteredRows'
      <3>1. Restores(next.id)
        BY <1>2 DEF Restores
      <3>2. \A id : id # next.id => (id \in active' <=> id \in active)
        BY <2>5
      <3>3. \A id : id # next.id /\ BeingWritten(id) => BeingWritten(id)'
        BY <1>1, <3>2 DEF BeingWritten
      <3>4. \A id : id # next.id /\ RowStays(id) => RowStays(id)'
        BY <1>1, <3>2 DEF RowStays
      <3> QED
        BY <1>1, <2>1, <2>3, <3>1, <3>3, <3>4 DEF RegistrySafe, RegisteredRows, SavePending
    <2>9. UnregisteredRows'
      BY <1>1, <1>6, <2>1, <2>3 DEF RegistrySafe, UnregisteredRows
    <2> QED
      BY <2>4, <2>6, <2>7, <2>8, <2>9 DEF RegistrySafe
  <1>13. CASE next.at = "schedule"
    <2>1. /\ scheduled' = scheduled + 1 /\ restore' = rest /\ UNCHANGED <<registered, active, primary>>
      BY <1>0, <1>13 DEF Restore, Schedule
    <2>2. next.id \in registered
      BY <1>2, <1>3, <1>13
    <2>3. RegistryShape' /\ PrimaryIsActive' /\ RestoreIsAlone' /\ CopiesAreAlone'
      BY <1>1, <1>2, <1>5, <1>6, <2>1
         DEF RegistrySafe, RegistryShape, PrimaryIsActive, RestoreIsAlone, CopiesAreAlone
    <2>4. RestoreFollowsRows'
      <3>1. \A i \in DOMAIN restore' : i + 1 \in DOMAIN restore /\ restore'[i] = restore[i + 1] /\ i \in Nat
        BY <1>2, <2>1
      <3>2. \A i, j \in DOMAIN restore' : restore'[i].id = restore'[j].id => i = j
        BY <1>3, <3>1
      <3>3. ASSUME NEW i \in DOMAIN restore'
            PROVE  IF restore'[i].at = "register"
                   THEN restore'[i].id \notin registered' /\ rows'[restore'[i].id] = restore'[i].activated
                   ELSE restore'[i].id \in registered'
        BY <1>1, <1>3, <2>1, <3>1
      <3> QED
        BY <3>2, <3>3 DEF RestoreFollowsRows
    <2>5. RegisteredRows'
      BY <2>1 DEF RegistrySafe, RegistryShape, RegisteredRows, SavePending
    <2>6. UnregisteredRows'
      BY <1>1, <1>6, <1>8, <2>1, <2>2 DEF RegistrySafe, UnregisteredRows, Restores
    <2> QED
      BY <2>3, <2>4, <2>5, <2>6 DEF RegistrySafe
  <1> QED
    BY <1>7, <1>10, <1>11, <1>12, <1>13

LEMMA WaitFrame ==
  ASSUME RegistrySafe, waiting' \in BOOLEAN,
         UNCHANGED <<registered, active, primary, rows, scheduled, saver, admin, restore, changes, crossed>>
  PROVE  RegistrySafe'
  <1>1. Writing' = Writing
    BY DEF Writing
  <1>2. RegistryShape' /\ PrimaryIsActive' /\ RestoreIsAlone' /\ RestoreFollowsRows' /\ CopiesAreAlone'
    BY <1>1 DEF RegistrySafe, RegistryShape, PrimaryIsActive, RestoreIsAlone, RestoreFollowsRows, CopiesAreAlone
  <1>3. RegisteredRows'
    BY <1>1 DEF RegistrySafe, RegisteredRows, SavePending, Restores, BeingWritten, RowStays
  <1>4. UnregisteredRows'
    BY <1>1 DEF RegistrySafe, UnregisteredRows, Restores, DeletionPending
  <1> QED
    BY <1>2, <1>3, <1>4 DEF RegistrySafe

LEMMA RegistrySafeStep ==
  ASSUME RegistrySafe, [RegistryNext]_registryVars
  PROVE  RegistrySafe'
  <1>1. CASE UNCHANGED registryVars
    <2>1. waiting' \in BOOLEAN
      <3>1. waiting \in BOOLEAN
        BY DEF RegistrySafe, RegistryShape
      <3> QED
        BY <1>1, <3>1 DEF registryVars
    <2> QED
      BY <1>1, <2>1, WaitFrame DEF registryVars
  <1>2. CASE Wait \/ Waited
    <2>1. waiting' \in BOOLEAN
      BY <1>2, Zenon DEF Wait, Waited
    <2> QED
      BY <1>2, <2>1, WaitFrame DEF Wait, Waited
  <1>3. ASSUME NEW a \in Admins, Change(a) \/ ReadRow(a) \/ ScheduleSave(a) \/ DeleteRow(a) \/ WriteRank(a)
        PROVE  RegistrySafe'
    BY <1>3, ChangeStep, ReadRowStep, ScheduleSaveStep, DeleteRowStep, WriteRankStep
  <1>4. ASSUME NEW w \in Savers, Snapshot(w) \/ WriteRow(w) \/ FinishSave(w)
        PROVE  RegistrySafe'
    BY <1>4, SnapshotStep, WriteRowStep, FinishSaveStep
  <1> QED
    BY <1>1, <1>2, <1>3, <1>4, RestoreStep, CrashStep DEF RegistryNext, RegistryStep

LEMMA SafeRowsFollow == RegistrySafe => RegistryTypeOK /\ RowsFollowTheRegistry
  <1> SUFFICES ASSUME RegistrySafe PROVE RegistryTypeOK /\ RowsFollowTheRegistry
    OBVIOUS
  <1>1. ASSUME Settled, NEW id \in Ids, id \notin crossed
        PROVE  rows[id] = IF id \in registered THEN id \in active ELSE Nobody
    <2>1. /\ scheduled = 0 /\ Writing = {} /\ restore = <<>> /\ \A a \in Admins : admin[a] = Idle
      BY <1>1 DEF Settled
    <2>2. ~SavePending /\ ~Restores(id) /\ ~BeingWritten(id) /\ ~DeletionPending(id)
      BY <2>1 DEF SavePending, Restores, BeingWritten, DeletionPending, Deletion, Idle
    <2>3. CASE id \in registered
      <3>1. rows[id] = (id \in active)
        BY <1>1, <2>2, <2>3 DEF RegistrySafe, RegisteredRows, RowStays
      <3> QED
        BY <2>3, <3>1, Zenon
    <2>4. CASE id \notin registered
      BY <1>1, <2>2, <2>4 DEF RegistrySafe, UnregisteredRows
    <2> QED
      BY <2>3, <2>4
  <1> QED
    BY <1>1, ShapeIsTyped DEF RegistrySafe, RowsFollowTheRegistry

\* ROWS.  For any number of instances, admin requests, saves, crashes and failed writes: when
\* everything is saved, the rows say which providers there are and which are active, but
\* for ids whose last writes crossed; and the primary provider is always an active one.
THEOREM RowsAreTheRegistry == RegistrySpec => [](RegistryTypeOK /\ RowsFollowTheRegistry)
  BY RegistryInitSafe, RegistrySafeStep, SafeRowsFollow, PTL DEF RegistrySpec

-----------------------------------------------------------------------------
\* --- VirtualModels

RequestRecords ==
  [at : {"out", "writing", "upstreams", "migrating", "reading", "listing", "done"}, verb : Verbs,
   id : VirtualIds, row : VirtualIds, to : VirtualIds, many : Counts, alone : BOOLEAN,
   told : Seq(Nat)]

VirtualShape ==
  /\ modelRows \in [VirtualIds -> Numbers]
  /\ upstreamRows \in [VirtualIds -> [by : Numbers, many : Counts]]
  /\ rotation \in [VirtualIds -> 0..MaxUpstreams]
  /\ turns \in [VirtualIds -> Seq(Nat)]
  /\ request \in [Operators -> RequestRecords]
  /\ torn \subseteq VirtualIds

\* A model's upstreams go with it, and are of the request that wrote it unless it is torn.
RowsWhole ==
  \A id \in VirtualIds :
    /\ modelRows[id] = 0 => upstreamRows[id] = NoUpstreams
    /\ modelRows[id] # 0 /\ id \notin torn => upstreamRows[id].by = modelRows[id]

\* Turns that follow each other around a list, and one that follows them.
AroundTheList(s, n, many) ==
  /\ \A i \in 1..n : s[i] \in Nat /\ s[i] < many
  /\ \A i, j \in 1..n : i <= j => \/ s[j] + i = s[i] + j
                               \/ s[j] + i + many = s[i] + j
Follows(index, s, n, many) ==
  \A i \in 1..n : \/ index + i = s[i] + n + 1
                  \/ index + i + many = s[i] + n + 1
ShiftedBy(before, next, longer, m) == \A i \in 1..m : next[i] = longer[i + before]
\* The cursor is behind the last turn.
TakesTurns(last, many, cursor) ==
  last # <<>> =>
    /\ Len(last) <= many /\ cursor = last[Len(last)] + 1
    /\ AroundTheList(last, Len(last), many)
TurnsGoOn == \A id \in VirtualIds : TakesTurns(turns[id], upstreamRows[id].many, rotation[id])

Live(r) == r.at \notin {"out", "done"}
Edits(r) == r.verb \in {"create", "update"}

\* Where a request is says what it does, and with which row.
Fits(r) ==
  /\ r.at = "writing" => r.verb # "show"
  /\ r.at = "upstreams" => Edits(r)
  /\ r.at = "migrating" => r.verb = "rename"
  /\ r.at = "reading" => r.verb \in {"create", "update", "rename"}
  /\ r.at = "listing" => Len(r.told) = 1
  /\ r.at \in {"writing", "upstreams", "migrating", "reading"} => Folded(r.row) = Folded(r.id)
  /\ r.at \in {"writing", "upstreams"} /\ r.verb = "create" => r.row = r.id

\* What a request that nobody crosses knows of the rows.
Knows(r, o, models) ==
  /\ r.at = "writing" /\ r.verb = "create" =>
       \A id \in VirtualIds : Folded(id) = Folded(r.id) => models[id] = 0
  /\ r.at = "writing" /\ r.verb = "update" => models[r.row] # 0
  /\ r.at \in {"upstreams", "reading"} /\ Edits(r) => models[r.row] = o
  /\ r.at \in {"writing", "upstreams", "reading"} /\ Edits(r) /\ r.row # r.id => models[r.id] = 0
  /\ r.at = "listing" => r.told = <<models[r.row]>> /\ (Edits(r) => models[r.row] = o)

\* What a request is told that nobody crossed.
ToldWhole(r, o) ==
  /\ Len(r.told) <= 2
  /\ r.at = "done" /\ r.alone /\ r.told # <<>> =>
       /\ r.told[1] = r.told[2]
       /\ Edits(r) => r.told[1] = o

\* Two requests for one id have crossed, and know nothing.
Apart ==
  \A o, p \in Operators :
    o # p /\ Live(request[o]) /\ Live(request[p]) /\ request[o].alone =>
      About(request[o]) \cap About(request[p]) = {}

RequestsFit ==
  \A o \in Operators :
    /\ Fits(request[o]) /\ ToldWhole(request[o], o)
    /\ Live(request[o]) /\ request[o].alone => Knows(request[o], o, modelRows)

VirtualSafe == VirtualShape /\ RowsWhole /\ TurnsGoOn /\ Apart /\ RequestsFit

\* What a request knows is in the rows of the ids that it is about.
LEMMA KnowsItsIds ==
  ASSUME NEW r \in RequestRecords, NEW o, Fits(r), NEW models, NEW other, Knows(r, o, models),
         \A id \in VirtualIds : Folded(id) \in About(r) => other[id] = models[id]
  PROVE  Knows(r, o, other)
  <1>1. /\ r.id \in VirtualIds /\ r.row \in VirtualIds
        /\ Folded(r.id) \in About(r) /\ Folded(r.row) \in About(r)
    BY DEF RequestRecords, About
  <1>2. other[r.id] = models[r.id] /\ other[r.row] = models[r.row]
    BY <1>1
  <1>3. ASSUME NEW id \in VirtualIds, Folded(id) = Folded(r.id)
        PROVE  other[id] = models[id]
    BY <1>1, <1>3
  <1> QED
    BY <1>2, <1>3 DEF Knows

\* A request goes on, and writes no rows but of ids that it is about.
LEMMA RequestGoesOn ==
  ASSUME VirtualSafe, NEW o \in Operators, Live(request[o]),
         NEW r \in RequestRecords, request' = [request EXCEPT ![o] = r],
         \A id \in VirtualIds : Folded(id) \notin About(request[o]) => modelRows'[id] = modelRows[id],
         Live(r) => About(r) \subseteq About(request[o]) /\ r.alone = request[o].alone,
         Fits(r), ToldWhole(r, o),
         Live(r) /\ request[o].alone => Knows(r, o, modelRows')
  PROVE  request' \in [Operators -> RequestRecords] /\ Apart' /\ RequestsFit'
  <1>1. request \in [Operators -> RequestRecords]
    BY DEF VirtualSafe, VirtualShape
  <1>2. /\ request' \in [Operators -> RequestRecords] /\ request'[o] = r
        /\ \A p \in Operators : p # o => request'[p] = request[p]
    BY <1>1
  <1>3. ASSUME NEW p \in Operators, NEW q \in Operators, p # q,
               Live(request'[p]), Live(request'[q]), request'[p].alone
        PROVE  About(request'[p]) \cap About(request'[q]) = {}
    <2>1. Live(request[p]) /\ Live(request[q]) /\ request[p].alone
      BY <1>2, <1>3
    <2>2. About(request'[p]) \subseteq About(request[p]) /\ About(request'[q]) \subseteq About(request[q])
      BY <1>2, <1>3
    <2>3. About(request[p]) \cap About(request[q]) = {}
      BY <1>3, <2>1 DEF VirtualSafe, Apart
    <2> QED
      BY <2>2, <2>3
  <1>4. ASSUME NEW p \in Operators
        PROVE  /\ Fits(request'[p]) /\ ToldWhole(request'[p], p)
               /\ Live(request'[p]) /\ request'[p].alone => Knows(request'[p], p, modelRows')
    <2>1. CASE p = o
      BY <1>2, <2>1
    <2>2. CASE p # o
      <3>1. request'[p] = request[p] /\ request[p] \in RequestRecords
        BY <1>1, <1>2, <2>2
      <3>2. /\ Fits(request[p]) /\ ToldWhole(request[p], p)
            /\ Live(request[p]) /\ request[p].alone => Knows(request[p], p, modelRows)
        BY DEF VirtualSafe, RequestsFit
      <3>3. ASSUME Live(request[p]), request[p].alone
            PROVE  Knows(request[p], p, modelRows')
        <4>1. About(request[p]) \cap About(request[o]) = {}
          BY <2>2, <3>3 DEF VirtualSafe, Apart
        <4>2. \A id \in VirtualIds : Folded(id) \in About(request[p]) => modelRows'[id] = modelRows[id]
          BY <4>1
        <4> QED
          BY <3>1, <3>2, <3>3, <4>2, KnowsItsIds
      <3> QED
        BY <3>1, <3>2, <3>3
    <2> QED
      BY <2>1, <2>2
  <1> QED
    BY <1>2, <1>3, <1>4 DEF Apart, RequestsFit
LEMMA Moved ==
  ASSUME NEW r \in RequestRecords,
         NEW place \in {"out", "writing", "upstreams", "migrating", "reading", "listing", "done"},
         NEW moved, moved = [r EXCEPT !.at = place]
  PROVE  /\ moved \in RequestRecords /\ moved.at = place /\ moved.verb = r.verb
         /\ moved.id = r.id /\ moved.row = r.row /\ moved.to = r.to /\ moved.alone = r.alone
         /\ moved.told = r.told /\ moved.many = r.many /\ About(moved) = About(r)
  BY DEF RequestRecords, About

LEMMA NoRequestIsOne == NoRequest \in RequestRecords
  <1>1. "team" \in VirtualIds /\ "show" \in Verbs /\ 0 \in Counts /\ TRUE \in BOOLEAN /\ <<>> \in Seq(Nat)
    BY VirtualAssumption DEF VirtualIds, Verbs, Counts
  <1> QED
    BY <1>1 DEF NoRequest, RequestRecords

\* A request that nobody answers more.
LEMMA NothingTold ==
  ASSUME NEW r, r = [NoRequest EXCEPT !.at = "done"]
  PROVE  r \in RequestRecords /\ ~Live(r) /\ Fits(r) /\ \A o : ToldWhole(r, o)
  <1>3. r \in RequestRecords /\ r.at = "done" /\ r.told = NoRequest.told
    BY NoRequestIsOne, Moved
  <1>4. NoRequest.told = <<>>
    BY DEF NoRequest
  <1> QED
    BY <1>3, <1>4 DEF Live, Fits, ToldWhole

LEMMA RequestEnds ==
  ASSUME VirtualSafe, NEW o \in Operators, Live(request[o]), Ends(o),
         \A id \in VirtualIds : Folded(id) \notin About(request[o]) => modelRows'[id] = modelRows[id]
  PROVE  request' \in [Operators -> RequestRecords] /\ Apart' /\ RequestsFit'
  <1> DEFINE r == [NoRequest EXCEPT !.at = "done"]
  <1>1. r \in RequestRecords /\ ~Live(r) /\ Fits(r) /\ \A p : ToldWhole(r, p)
    BY NothingTold
  <1>2. request' = [request EXCEPT ![o] = r]
    BY DEF Ends
  <1> HIDE DEF r
  <1> QED
    BY <1>1, <1>2, RequestGoesOn

LEMMA RequestOf ==
  ASSUME VirtualSafe, NEW o \in Operators
  PROVE  /\ request[o] \in RequestRecords /\ request[o].id \in VirtualIds /\ request[o].row \in VirtualIds
         /\ request[o].to \in VirtualIds /\ request[o].many \in Counts /\ o \in Numbers /\ o # 0
         /\ Folded(request[o].id) \in About(request[o]) /\ Folded(request[o].row) \in About(request[o])
         /\ Fits(request[o])
         /\ Live(request[o]) /\ request[o].alone => Knows(request[o], o, modelRows)
  <1>1. request[o] \in RequestRecords
    BY DEF VirtualSafe, VirtualShape
  <1>2. o \in Numbers /\ o # 0
    BY VirtualAssumption DEF Operators, Numbers
  <1> QED
    BY <1>1, <1>2 DEF RequestRecords, About, VirtualSafe, RequestsFit

\* A request that steps without an end: GoesOn.
LEMMA GoesOnSafely ==
  ASSUME VirtualSafe, NEW o \in Operators, Live(request[o]),
         NEW place \in {"writing", "upstreams", "migrating", "reading"},
         request' = [request EXCEPT ![o].at = place],
         \A id \in VirtualIds : Folded(id) \notin About(request[o]) => modelRows'[id] = modelRows[id],
         \A r \in RequestRecords :
           /\ r.at = place /\ r.verb = request[o].verb /\ r.id = request[o].id /\ r.row = request[o].row
           => Fits(r) /\ (request[o].alone => Knows(r, o, modelRows'))
  PROVE  request' \in [Operators -> RequestRecords] /\ Apart' /\ RequestsFit'
  <1>1. PICK r : r = [request[o] EXCEPT !.at = place]
    OBVIOUS
  <1>2. request[o] \in RequestRecords
    BY RequestOf
  <1>3. /\ r \in RequestRecords /\ r.at = place /\ r.verb = request[o].verb /\ r.id = request[o].id
        /\ r.row = request[o].row /\ r.alone = request[o].alone /\ About(r) = About(request[o])
    BY <1>1, <1>2, Moved
  <1>4. request' = [request EXCEPT ![o] = r]
    BY <1>1
  <1>5. Fits(r) /\ (request[o].alone => Knows(r, o, modelRows'))
    BY <1>3
  <1>6. ToldWhole(r, o)
    <2>1. ToldWhole(request[o], o) /\ r.told = request[o].told
      BY <1>1, <1>2, Moved DEF VirtualSafe, RequestsFit
    <2> QED
      BY <1>3, <2>1 DEF ToldWhole
  <1> QED
    BY <1>3, <1>4, <1>5, <1>6, RequestGoesOn

LEMMA CreateModelStep ==
  ASSUME VirtualSafe, NEW o \in Operators, CreateModel(o)
  PROVE  VirtualSafe'
  <1> DEFINE id == request[o].id
  <1>1. /\ request[o].at = "writing" /\ request[o].verb = "create" /\ Live(request[o])
        /\ UNCHANGED <<upstreamRows, rotation, turns>>
    BY DEF CreateModel, RequestAt, Live
  <1>2. id \in VirtualIds /\ request[o].row = id
    BY <1>1, RequestOf DEF Fits
  <1>3. CASE modelRows[id] = 0
    <2>1. modelRows' = [modelRows EXCEPT ![id] = o] /\ GoesOn(o, "upstreams") /\ torn' = torn \cup {id}
      BY <1>2, <1>3 DEF CreateModel, Half
    <2>2. /\ modelRows' \in [VirtualIds -> Numbers] /\ modelRows'[id] = o
          /\ \A x \in VirtualIds : x # id => modelRows'[x] = modelRows[x]
      BY <1>2, <2>1, RequestOf DEF VirtualSafe, VirtualShape
    <2>3. \A x \in VirtualIds : Folded(x) \notin About(request[o]) => modelRows'[x] = modelRows[x]
      BY <2>2, RequestOf
    <2>4. ASSUME NEW r \in RequestRecords, r.at = "upstreams", r.verb = request[o].verb,
                 r.id = request[o].id, r.row = request[o].row
          PROVE  Fits(r) /\ Knows(r, o, modelRows')
      BY <1>1, <1>2, <2>2, <2>4 DEF Fits, Knows, Edits
    <2>5. request' \in [Operators -> RequestRecords] /\ Apart' /\ RequestsFit'
      BY <1>1, <2>1, <2>3, <2>4, GoesOnSafely DEF GoesOn
    <2>6. VirtualShape'
      BY <1>1, <1>2, <2>1, <2>2, <2>5 DEF VirtualSafe, VirtualShape
    <2>7. RowsWhole'
      BY <1>1, <1>2, <2>1, <2>2, RequestOf DEF VirtualSafe, RowsWhole
    <2>8. TurnsGoOn'
      BY <1>1 DEF VirtualSafe, TurnsGoOn
    <2> QED
      BY <2>5, <2>6, <2>7, <2>8 DEF VirtualSafe
  <1>4. CASE modelRows[id] # 0
    <2>1. Ends(o) /\ UNCHANGED <<modelRows, torn>>
      BY <1>4 DEF CreateModel
    <2>2. request' \in [Operators -> RequestRecords] /\ Apart' /\ RequestsFit'
      BY <1>1, <2>1, RequestEnds
    <2> QED
      BY <1>1, <2>1, <2>2 DEF VirtualSafe, VirtualShape, RowsWhole, TurnsGoOn
  <1> QED
    BY <1>3, <1>4

LEMMA UpdateModelStep ==
  ASSUME VirtualSafe, NEW o \in Operators, UpdateModel(o)
  PROVE  VirtualSafe'
  <1> DEFINE row == request[o].row
  <1>1. /\ request[o].at = "writing" /\ request[o].verb = "update" /\ Live(request[o])
        /\ UNCHANGED <<upstreamRows, rotation, turns>>
        /\ modelRows' = [modelRows EXCEPT ![row] = IF @ = 0 THEN 0 ELSE o]
        /\ torn' = torn \cup {row} /\ GoesOn(o, "upstreams")
    BY DEF UpdateModel, RequestAt, Live, Half
  <1>2. row \in VirtualIds
    BY RequestOf
  <1>3. /\ modelRows' \in [VirtualIds -> Numbers] /\ modelRows'[row] = IF modelRows[row] = 0 THEN 0 ELSE o
        /\ \A x \in VirtualIds : x # row => modelRows'[x] = modelRows[x]
    <2>1. 0 \in Numbers /\ o \in Numbers
      BY RequestOf, VirtualAssumption DEF Numbers
    <2> QED
      BY <1>1, <1>2, <2>1 DEF VirtualSafe, VirtualShape
  <1>4. \A x \in VirtualIds : Folded(x) \notin About(request[o]) => modelRows'[x] = modelRows[x]
    BY <1>3, RequestOf
  <1>5. ASSUME NEW r \in RequestRecords, r.at = "upstreams", r.verb = request[o].verb,
               r.id = request[o].id, r.row = request[o].row
        PROVE  Fits(r) /\ (request[o].alone => Knows(r, o, modelRows'))
    <2>1. Fits(r)
      BY <1>1, <1>5, RequestOf DEF Fits, Edits
    <2>2. ASSUME request[o].alone
          PROVE  Knows(r, o, modelRows')
      <3>1. modelRows[row] # 0 /\ (row # request[o].id => modelRows[request[o].id] = 0)
        BY <1>1, <2>2, RequestOf DEF Knows, Edits
      <3>2. modelRows'[row] = o /\ (row # request[o].id => modelRows'[request[o].id] = 0)
        BY <1>3, <3>1, RequestOf
      <3> QED
        BY <1>1, <1>5, <3>2 DEF Knows
    <2> QED
      BY <2>1, <2>2
  <1>6. request' \in [Operators -> RequestRecords] /\ Apart' /\ RequestsFit'
    BY <1>1, <1>4, <1>5, GoesOnSafely DEF GoesOn
  <1>7. VirtualShape'
    BY <1>1, <1>2, <1>3, <1>6 DEF VirtualSafe, VirtualShape
  <1>8. RowsWhole'
    BY <1>1, <1>2, <1>3, RequestOf DEF VirtualSafe, RowsWhole
  <1>9. TurnsGoOn'
    BY <1>1 DEF VirtualSafe, TurnsGoOn
  <1> QED
    BY <1>6, <1>7, <1>8, <1>9 DEF VirtualSafe

LEMMA SaveUpstreamsStep ==
  ASSUME VirtualSafe, NEW o \in Operators, SaveUpstreams(o)
  PROVE  VirtualSafe'
  <1> DEFINE id == request[o].id
  <1>1. request[o].at = "upstreams" /\ Live(request[o]) /\ UNCHANGED <<modelRows, rotation>>
    BY DEF SaveUpstreams, RequestAt, Live
  <1>2. id \in VirtualIds /\ Edits(request[o])
    BY <1>1, RequestOf DEF Fits
  <1>3. CASE request[o].many > 0 /\ modelRows[id] = 0
    <2>1. Ends(o) /\ UNCHANGED <<upstreamRows, turns, torn>>
      BY <1>3 DEF SaveUpstreams
    <2>2. request' \in [Operators -> RequestRecords] /\ Apart' /\ RequestsFit'
      BY <1>1, <2>1, RequestEnds
    <2> QED
      BY <1>1, <2>1, <2>2 DEF VirtualSafe, VirtualShape, RowsWhole, TurnsGoOn
  <1>4. CASE ~(request[o].many > 0 /\ modelRows[id] = 0)
    <2>1. /\ upstreamRows' = [upstreamRows EXCEPT ![id] = Replaced(o, id)]
          /\ turns' = [turns EXCEPT ![id] = <<>>]
          /\ torn' = IF Undivided(o) THEN torn \ {id} ELSE torn \cup {id}
          /\ GoesOn(o, "reading")
      BY <1>4 DEF SaveUpstreams
    <2>2. Replaced(o, id) \in [by : Numbers, many : Counts]
      BY RequestOf, VirtualAssumption DEF Replaced, NoUpstreams, Numbers, Counts
    <2>3. /\ upstreamRows' \in [VirtualIds -> [by : Numbers, many : Counts]]
          /\ upstreamRows'[id] = Replaced(o, id)
          /\ \A x \in VirtualIds : x # id => upstreamRows'[x] = upstreamRows[x]
      BY <1>2, <2>1, <2>2 DEF VirtualSafe, VirtualShape
    <2>4. /\ turns' \in [VirtualIds -> Seq(Nat)] /\ turns'[id] = <<>>
          /\ \A x \in VirtualIds : x # id => turns'[x] = turns[x]
      BY <1>2, <2>1 DEF VirtualSafe, VirtualShape
    <2>5. ASSUME NEW r \in RequestRecords, r.at = "reading", r.verb = request[o].verb,
                 r.id = request[o].id, r.row = request[o].row
          PROVE  Fits(r) /\ (request[o].alone => Knows(r, o, modelRows'))
      BY <1>1, <1>2, <2>5, RequestOf DEF Fits, Knows, Edits
    <2>6. request' \in [Operators -> RequestRecords] /\ Apart' /\ RequestsFit'
      BY <1>1, <2>1, <2>5, GoesOnSafely DEF GoesOn
    <2>7. VirtualShape'
      BY <1>1, <1>2, <2>1, <2>3, <2>4, <2>6 DEF VirtualSafe, VirtualShape
    <2>8. ASSUME NEW x \in VirtualIds
          PROVE  /\ modelRows'[x] = 0 => upstreamRows'[x] = NoUpstreams
                 /\ modelRows'[x] # 0 /\ x \notin torn' => upstreamRows'[x].by = modelRows'[x]
      <3>1. CASE x = id
        <4>1. modelRows[x] # 0 /\ x \notin torn' => modelRows[x] = o
          BY <1>1, <1>2, <2>1, <3>1, RequestOf DEF Undivided, Knows
        <4> QED
          BY <1>1, <2>3, <3>1, <4>1 DEF Replaced
      <3>2. CASE x # id
        BY <1>1, <2>1, <2>3, <3>2 DEF VirtualSafe, RowsWhole
      <3> QED
        BY <3>1, <3>2
    <2>9. TurnsGoOn'
      <3>1. TakesTurns(turns'[id], upstreamRows'[id].many, rotation'[id])
        BY <2>4 DEF TakesTurns
      <3> QED
        BY <1>1, <2>3, <2>4, <3>1 DEF VirtualSafe, TurnsGoOn
    <2> QED
      BY <2>6, <2>7, <2>8, <2>9 DEF VirtualSafe, RowsWhole
  <1> QED
    BY <1>3, <1>4

LEMMA DeleteModelStep ==
  ASSUME VirtualSafe, NEW o \in Operators, DeleteModel(o)
  PROVE  VirtualSafe'
  <1> DEFINE id == request[o].id
  <1>1. /\ Live(request[o]) /\ Ends(o) /\ UNCHANGED <<rotation, torn>>
        /\ modelRows' = [modelRows EXCEPT ![id] = 0] /\ upstreamRows' = [upstreamRows EXCEPT ![id] = NoUpstreams]
        /\ turns' = [turns EXCEPT ![id] = <<>>]
    BY DEF DeleteModel, RequestAt, Live, Cascaded
  <1>2. id \in VirtualIds /\ 0 \in Numbers /\ NoUpstreams \in [by : Numbers, many : Counts]
    BY RequestOf, VirtualAssumption DEF NoUpstreams, Numbers, Counts
  <1>3. /\ modelRows' \in [VirtualIds -> Numbers] /\ modelRows'[id] = 0
        /\ upstreamRows' \in [VirtualIds -> [by : Numbers, many : Counts]]
        /\ upstreamRows'[id] = NoUpstreams
        /\ turns' \in [VirtualIds -> Seq(Nat)] /\ turns'[id] = <<>>
    BY <1>1, <1>2 DEF VirtualSafe, VirtualShape
  <1>4. \A x \in VirtualIds : x # id => /\ modelRows'[x] = modelRows[x] /\ turns'[x] = turns[x]
                                        /\ upstreamRows'[x] = upstreamRows[x]
    BY <1>1, <1>2 DEF VirtualSafe, VirtualShape
  <1>5. \A x \in VirtualIds : Folded(x) \notin About(request[o]) => modelRows'[x] = modelRows[x]
    BY <1>4, RequestOf
  <1>6. request' \in [Operators -> RequestRecords] /\ Apart' /\ RequestsFit'
    BY <1>1, <1>5, RequestEnds
  <1>7. VirtualShape'
    BY <1>1, <1>3, <1>6 DEF VirtualSafe, VirtualShape
  <1>8. RowsWhole'
    BY <1>1, <1>3, <1>4 DEF VirtualSafe, RowsWhole
  <1>9. TurnsGoOn'
    BY <1>1, <1>3, <1>4 DEF VirtualSafe, TurnsGoOn, TakesTurns
  <1> QED
    BY <1>6, <1>7, <1>8, <1>9 DEF VirtualSafe

LEMMA RenameModelStep ==
  ASSUME VirtualSafe, NEW o \in Operators, RenameModel(o)
  PROVE  VirtualSafe'
  <1>0. PICK id, to : id = request[o].id /\ to = request[o].to
    OBVIOUS
  <1>1. /\ request[o].at = "writing" /\ request[o].verb = "rename" /\ Live(request[o])
        /\ UNCHANGED <<rotation, turns>>
    BY DEF RenameModel, RequestAt, Live
  <1>2. /\ id \in VirtualIds /\ to \in VirtualIds /\ 0 \in Numbers
        /\ NoUpstreams \in [by : Numbers, many : Counts]
    BY <1>0, RequestOf, VirtualAssumption DEF NoUpstreams, Numbers, Counts
  <1>3. CASE modelRows[id] = 0 \/ modelRows[to] # 0 \/ upstreamRows[id].many > 0
    <2>1. Ends(o) /\ UNCHANGED <<modelRows, upstreamRows, torn>>
      BY <1>0, <1>3 DEF RenameModel
    <2>2. request' \in [Operators -> RequestRecords] /\ Apart' /\ RequestsFit'
      BY <1>1, <2>1, RequestEnds
    <2> QED
      BY <1>1, <2>1, <2>2 DEF VirtualSafe, VirtualShape, RowsWhole, TurnsGoOn
  <1>4. CASE ~(modelRows[id] = 0 \/ modelRows[to] # 0 \/ upstreamRows[id].many > 0)
    <2>1. /\ modelRows' = [modelRows EXCEPT ![to] = modelRows[id], ![id] = 0]
          /\ upstreamRows' = [upstreamRows EXCEPT ![to] = upstreamRows[id], ![id] = NoUpstreams]
          /\ torn' = IF id \in torn THEN torn \cup {to} ELSE torn
          /\ request' = [request EXCEPT ![o].at = "migrating"]
      BY <1>0, <1>4 DEF RenameModel
    <2>2. id # to /\ modelRows[id] # 0 /\ modelRows[to] = 0
      BY <1>4
    <2>3. /\ modelRows' \in [VirtualIds -> Numbers] /\ modelRows'[id] = 0 /\ modelRows'[to] = modelRows[id]
          /\ \A x \in VirtualIds : x # id /\ x # to => modelRows'[x] = modelRows[x]
      BY <1>2, <2>1, <2>2 DEF VirtualSafe, VirtualShape
    <2>4. /\ upstreamRows' \in [VirtualIds -> [by : Numbers, many : Counts]]
          /\ upstreamRows'[id] = NoUpstreams /\ upstreamRows'[to] = upstreamRows[id]
          /\ \A x \in VirtualIds : x # id /\ x # to => upstreamRows'[x] = upstreamRows[x]
      BY <1>2, <2>1, <2>2 DEF VirtualSafe, VirtualShape
    <2>5. Folded(to) \in About(request[o])
      BY <1>0, <1>1 DEF About
    <2>6. \A x \in VirtualIds : Folded(x) \notin About(request[o]) => modelRows'[x] = modelRows[x]
      BY <1>0, <2>3, <2>5, RequestOf
    <2>7. ASSUME NEW r \in RequestRecords, r.at = "migrating", r.verb = request[o].verb,
                 r.id = request[o].id, r.row = request[o].row
          PROVE  Fits(r) /\ (request[o].alone => Knows(r, o, modelRows'))
      BY <1>1, <2>7, RequestOf DEF Fits, Knows, Edits
    <2>8. request' \in [Operators -> RequestRecords] /\ Apart' /\ RequestsFit'
      BY <1>1, <2>1, <2>6, <2>7, GoesOnSafely
    <2>9. VirtualShape'
      BY <1>1, <1>2, <2>1, <2>3, <2>4, <2>8 DEF VirtualSafe, VirtualShape
    <2>10. RowsWhole'
      BY <1>2, <2>1, <2>2, <2>3, <2>4 DEF VirtualSafe, RowsWhole
    <2>11. TurnsGoOn'
      <3>1. upstreamRows[to].many = 0 /\ upstreamRows[id].many = 0
        <4>1. upstreamRows[to] = NoUpstreams
          BY <1>2, <2>2 DEF VirtualSafe, RowsWhole
        <4>2. upstreamRows[id].many \in Nat
          BY <1>2, VirtualAssumption DEF VirtualSafe, VirtualShape, Counts
        <4> QED
          BY <1>4, <4>1, <4>2 DEF NoUpstreams
      <3>2. NoUpstreams.many = 0
        BY DEF NoUpstreams
      <3>3. \A x \in VirtualIds : upstreamRows'[x].many = upstreamRows[x].many
        BY <2>4, <3>1, <3>2
      <3> QED
        BY <1>1, <3>3 DEF VirtualSafe, TurnsGoOn
    <2> QED
      BY <2>8, <2>9, <2>10, <2>11 DEF VirtualSafe
  <1> QED
    BY <1>3, <1>4

LEMMA BothEmptied ==
  ASSUME NEW S, NEW none \in S, NEW f \in [VirtualIds -> S], NEW id \in VirtualIds, NEW to \in VirtualIds,
         NEW g, g = [f EXCEPT ![to] = none, ![id] = none]
  PROVE  /\ g \in [VirtualIds -> S] /\ g[id] = none /\ g[to] = none
         /\ \A x \in VirtualIds : x # id /\ x # to => g[x] = f[x]
  OBVIOUS

LEMMA MigrateRoundRobinCursorStep ==
  ASSUME VirtualSafe, NEW o \in Operators, MigrateRoundRobinCursor(o)
  PROVE  VirtualSafe'
  <1>0. PICK id, to : id = request[o].id /\ to = request[o].to
    OBVIOUS
  <1>1. /\ request[o].at = "migrating" /\ Live(request[o]) /\ UNCHANGED <<modelRows, upstreamRows, torn>>
        /\ rotation' = IF rotation[id] = 0 THEN rotation ELSE [rotation EXCEPT ![to] = rotation[id], ![id] = 0]
        /\ turns' = [turns EXCEPT ![to] = <<>>, ![id] = <<>>]
        /\ request' = [request EXCEPT ![o].at = "reading"]
    BY <1>0 DEF MigrateRoundRobinCursor, RequestAt, Live
  <1>2. id \in VirtualIds /\ to \in VirtualIds /\ 0 \in 0..MaxUpstreams
    BY <1>0, RequestOf, VirtualAssumption
  <1>3. /\ rotation' \in [VirtualIds -> 0..MaxUpstreams]
        /\ \A x \in VirtualIds : x # id /\ x # to => rotation'[x] = rotation[x]
    BY <1>1, <1>2 DEF VirtualSafe, VirtualShape
  <1>4. /\ turns' \in [VirtualIds -> Seq(Nat)] /\ turns'[id] = <<>> /\ turns'[to] = <<>>
        /\ \A x \in VirtualIds : x # id /\ x # to => turns'[x] = turns[x]
    <2>1. turns \in [VirtualIds -> Seq(Nat)]
      BY DEF VirtualSafe, VirtualShape
    <2>2. <<>> \in Seq(Nat)
      OBVIOUS
    <2> QED
      BY <1>1, <1>2, <2>1, <2>2, BothEmptied, Zenon
  <1>5. ASSUME NEW r \in RequestRecords, r.at = "reading", r.verb = request[o].verb,
               r.id = request[o].id, r.row = request[o].row
        PROVE  Fits(r) /\ (request[o].alone => Knows(r, o, modelRows'))
    <2>1. r.verb = "rename" /\ Folded(r.row) = Folded(r.id)
      BY <1>1, <1>5, RequestOf DEF Fits
    <2> QED
      BY <1>5, <2>1 DEF Fits, Knows, Edits
  <1>6. request' \in [Operators -> RequestRecords] /\ Apart' /\ RequestsFit'
    BY <1>1, <1>5, GoesOnSafely
  <1>7. VirtualShape'
    BY <1>1, <1>3, <1>4, <1>6 DEF VirtualSafe, VirtualShape
  <1>8. RowsWhole'
    BY <1>1 DEF VirtualSafe, RowsWhole
  <1>9. TurnsGoOn'
    BY <1>1, <1>3, <1>4 DEF VirtualSafe, TurnsGoOn, TakesTurns
  <1> QED
    BY <1>6, <1>7, <1>8, <1>9 DEF VirtualSafe

LEMMA StatementFailsStep ==
  ASSUME VirtualSafe, NEW o \in Operators, StatementFails(o)
  PROVE  VirtualSafe'
  <1>1. /\ Live(request[o]) /\ Ends(o) /\ UNCHANGED <<modelRows, upstreamRows, rotation, turns, torn>>
    BY DEF StatementFails, Live
  <1>2. request' \in [Operators -> RequestRecords] /\ Apart' /\ RequestsFit'
    BY <1>1, RequestEnds
  <1> QED
    BY <1>1, <1>2 DEF VirtualSafe, VirtualShape, RowsWhole, TurnsGoOn

LEMMA Getting ==
  ASSUME NEW id \in VirtualIds, Get(id) # {}, NEW row, row = CHOOSE x \in Get(id) : TRUE
  PROVE  row \in VirtualIds /\ Folded(row) = Folded(id) /\ row \in Get(id)
  <1>1. row \in Get(id)
    OBVIOUS
  <1> QED
    BY <1>1 DEF Get

LEMMA ReadModelStep ==
  ASSUME VirtualSafe, NEW o \in Operators, ReadModel(o)
  PROVE  VirtualSafe'
  <1>0. PICK id : id = IF request[o].verb = "rename" THEN request[o].to ELSE request[o].id
    OBVIOUS
  <1>1. /\ request[o].at = "reading" /\ Live(request[o])
        /\ UNCHANGED <<modelRows, upstreamRows, rotation, turns, torn>>
    BY DEF ReadModel, RequestAt, Live
  <1>2. id \in VirtualIds /\ Folded(id) \in About(request[o])
    BY <1>0, RequestOf DEF About
  <1>3. request' \in [Operators -> RequestRecords] /\ Apart' /\ RequestsFit'
    <2>1. CASE Get(id) = {}
      <3>1. Ends(o)
        BY <1>0, <2>1 DEF ReadModel
      <3> QED
        BY <1>1, <3>1, RequestEnds
    <2>2. CASE Get(id) # {}
      <3>1. PICK row : row = CHOOSE x \in Get(id) : TRUE
        OBVIOUS
      <3>2. PICK r : r = [request[o] EXCEPT !.at = "listing", !.row = row, !.told = <<modelRows[row]>>]
        OBVIOUS
      <3>3. request' = [request EXCEPT ![o] = r]
        BY <1>0, <2>2, <3>1, <3>2 DEF ReadModel
      <3>4. row \in VirtualIds /\ Folded(row) = Folded(id) /\ row \in Get(id)
        BY <1>2, <2>2, <3>1, Getting
      <3>5. modelRows[row] \in Numbers
        BY <3>4 DEF VirtualSafe, VirtualShape
      <3>6. <<modelRows[row]>> \in Seq(Nat) /\ Len(<<modelRows[row]>>) = 1
        BY <3>5, VirtualAssumption DEF Numbers
      <3>7. /\ r \in RequestRecords /\ r.at = "listing" /\ r.row = row /\ r.told = <<modelRows[row]>>
            /\ r.verb = request[o].verb /\ r.id = request[o].id /\ r.to = request[o].to
            /\ r.alone = request[o].alone
        BY <3>2, <3>4, <3>6, RequestOf DEF RequestRecords
      <3>8. About(r) \subseteq About(request[o])
        BY <1>2, <3>4, <3>7 DEF About
      <3>9. Fits(r) /\ ToldWhole(r, o)
        BY <3>6, <3>7 DEF Fits, ToldWhole
      <3>10. ASSUME request[o].alone, Edits(r)
             PROVE  modelRows[row] = o
        <4>1. /\ modelRows[request[o].row] = o /\ o # 0
              /\ request[o].row # id => modelRows[id] = 0
              /\ Folded(request[o].row) = Folded(id) /\ request[o].row \in VirtualIds
          BY <1>0, <1>1, <3>7, <3>10, RequestOf DEF Knows, Edits, Fits
        <4>2. CASE request[o].row = id
          BY <3>4, <4>1, <4>2 DEF Get
        <4>3. CASE request[o].row # id
          <5>1. modelRows[row] # 0 /\ row # id
            BY <3>4, <4>1, <4>3 DEF Get
          <5> QED
            BY <1>2, <3>4, <4>1, <4>3, <5>1 DEF VirtualIds, Folded
        <4> QED
          BY <4>2, <4>3
      <3>11. request[o].alone => Knows(r, o, modelRows')
        BY <1>1, <3>7, <3>10 DEF Knows
      <3> QED
        BY <1>1, <3>3, <3>7, <3>8, <3>9, <3>11, RequestGoesOn
    <2> QED
      BY <2>1, <2>2
  <1> QED
    BY <1>1, <1>3 DEF VirtualSafe, VirtualShape, RowsWhole, TurnsGoOn

LEMMA ToldMore ==
  ASSUME NEW s \in Seq(Nat), NEW n \in Nat
  PROVE  /\ Append(s, n) \in Seq(Nat) /\ Len(Append(s, n)) = Len(s) + 1
         /\ \A i \in 1..Len(s) : Append(s, n)[i] = s[i]
         /\ Append(s, n)[Len(s) + 1] = n
  OBVIOUS

LEMMA ReadUpstreamsStep ==
  ASSUME VirtualSafe, NEW o \in Operators, ReadUpstreams(o)
  PROVE  VirtualSafe'
  <1>0. PICK row : row = request[o].row
    OBVIOUS
  <1>1. /\ request[o].at = "listing" /\ Live(request[o])
        /\ UNCHANGED <<modelRows, upstreamRows, rotation, turns, torn>>
    BY DEF ReadUpstreams, RequestAt, Live
  <1>2. request[o].told \in Seq(Nat) /\ Len(request[o].told) = 1
    BY <1>1, RequestOf DEF Fits, RequestRecords
  <1>3. row \in VirtualIds /\ upstreamRows[row].by \in Nat
    BY <1>0, RequestOf, VirtualAssumption DEF VirtualSafe, VirtualShape, Numbers
  <1>4. PICK told : told = Append(request[o].told, upstreamRows[row].by)
    OBVIOUS
  <1>5. PICK r : r = [NoRequest EXCEPT !.at = "done", !.verb = request[o].verb, !.told = told,
                                       !.alone = request[o].alone /\ row \notin torn]
    OBVIOUS
  <1>6. request' = [request EXCEPT ![o] = r]
    BY <1>0, <1>4, <1>5 DEF ReadUpstreams, GetForVModel
  <1>7. NoRequest \in RequestRecords
    BY NoRequestIsOne
  <1>8. told \in Seq(Nat) /\ Len(told) = 2 /\ told[1] = request[o].told[1] /\ told[2] = upstreamRows[row].by
    <2>1. PICK length : length = Len(request[o].told)
      OBVIOUS
    <2>2. /\ told \in Seq(Nat) /\ Len(told) = length + 1 /\ told[length + 1] = upstreamRows[row].by
          /\ \A i \in 1..length : told[i] = request[o].told[i]
      BY <1>2, <1>3, <1>4, <2>1, ToldMore
    <2> QED
      BY <1>2, <2>1, <2>2
  <1>9. request[o].alone \in BOOLEAN /\ request[o].verb \in Verbs
    BY RequestOf DEF RequestRecords
  <1>10. (request[o].alone /\ row \notin torn) \in BOOLEAN
    OBVIOUS
  <1>11. /\ r \in RequestRecords /\ r.at = "done" /\ r.verb = request[o].verb /\ r.told = told
         /\ r.alone = (request[o].alone /\ row \notin torn)
    BY <1>5, <1>7, <1>8, <1>9, <1>10 DEF RequestRecords
  <1>12. ASSUME r.alone
         PROVE  told[1] = told[2] /\ (Edits(r) => told[1] = o)
    <2>1. request[o].alone /\ row \notin torn
      BY <1>11, <1>12
    <2>2. request[o].told = <<modelRows[row]>> /\ (Edits(request[o]) => modelRows[row] = o)
      BY <1>0, <1>1, <2>1, RequestOf DEF Knows
    <2>3. request[o].told[1] = modelRows[row]
      BY <2>2
    <2>4. upstreamRows[row].by = modelRows[row]
      BY <1>3, <2>1 DEF VirtualSafe, RowsWhole, NoUpstreams
    <2> QED
      BY <1>8, <1>11, <2>2, <2>3, <2>4 DEF Edits
  <1>13. ~Live(r) /\ Fits(r) /\ ToldWhole(r, o)
    <2>1. Len(r.told) <= 2
      <3>1. r.told = told
        BY <1>11
      <3>2. Len(told) <= 2
        BY <1>8
      <3> QED
        BY <3>1, <3>2
    <2>2. ~Live(r) /\ Fits(r)
      BY <1>11 DEF Live, Fits
    <2>3. r.alone => r.told[1] = r.told[2] /\ (Edits(r) => r.told[1] = o)
      BY <1>11, <1>12
    <2> QED
      BY <2>1, <2>2, <2>3 DEF ToldWhole
  <1>14. request' \in [Operators -> RequestRecords] /\ Apart' /\ RequestsFit'
    BY <1>1, <1>6, <1>11, <1>13, RequestGoesOn
  <1> QED
    BY <1>1, <1>14 DEF VirtualSafe, VirtualShape, RowsWhole, TurnsGoOn

\* A request begins, or is refused, and those that it crosses know of it.
AsItWas(r, before) ==
  /\ r.at = before.at /\ r.verb = before.verb /\ r.id = before.id /\ r.row = before.row
  /\ r.to = before.to /\ r.told = before.told /\ (r.alone => before.alone)

LEMMA RequestBegins ==
  ASSUME VirtualSafe, NEW o \in Operators, request' \in [Operators -> RequestRecords],
         UNCHANGED <<modelRows, upstreamRows, rotation, turns, torn>>,
         \A p \in Operators : p # o => AsItWas(request'[p], request[p]),
         Fits(request'[o]), ToldWhole(request'[o], o),
         Live(request'[o]) => Knows(request'[o], o, modelRows),
         \A p \in Operators :
           /\ p # o /\ Live(request'[o]) /\ Live(request[p])
           /\ About(request[p]) \cap About(request'[o]) # {}
           => ~request'[o].alone /\ ~request'[p].alone
  PROVE  VirtualSafe'
  <1>1. ASSUME NEW p \in Operators, p # o
        PROVE  /\ About(request'[p]) = About(request[p]) /\ (Live(request'[p]) <=> Live(request[p]))
               /\ request'[p].alone => request[p].alone
               /\ Fits(request'[p]) /\ ToldWhole(request'[p], p)
               /\ Live(request'[p]) /\ request'[p].alone => Knows(request'[p], p, modelRows')
    <2>1. AsItWas(request'[p], request[p])
      BY <1>1
    <2>2. /\ Fits(request[p]) /\ ToldWhole(request[p], p)
          /\ Live(request[p]) /\ request[p].alone => Knows(request[p], p, modelRows)
      BY DEF VirtualSafe, RequestsFit
    <2>3. /\ About(request'[p]) = About(request[p]) /\ (Live(request'[p]) <=> Live(request[p]))
          /\ request'[p].alone => request[p].alone
      BY <2>1 DEF AsItWas, About, Live
    <2>4. Fits(request'[p]) /\ ToldWhole(request'[p], p)
      BY <2>1, <2>2 DEF AsItWas, Fits, ToldWhole, Edits
    <2>5. Knows(request[p], p, modelRows) => Knows(request'[p], p, modelRows')
      BY <2>1 DEF AsItWas, Knows, Edits
    <2> QED
      BY <2>2, <2>3, <2>4, <2>5
  <1>2. Apart'
    <2>1. ASSUME NEW p \in Operators, NEW q \in Operators, p # q,
                 Live(request'[p]), Live(request'[q]), request'[p].alone
          PROVE  About(request'[p]) \cap About(request'[q]) = {}
      <3>1. CASE p # o /\ q # o
        BY <1>1, <2>1, <3>1 DEF VirtualSafe, Apart
      <3>2. CASE p = o
        <4>1. q # o /\ About(request'[q]) = About(request[q]) /\ Live(request[q])
          BY <1>1, <2>1, <3>2
        <4> QED
          BY <2>1, <3>2, <4>1
      <3>3. CASE q = o
        <4>1. p # o /\ About(request'[p]) = About(request[p]) /\ Live(request[p])
          BY <1>1, <2>1, <3>3
        <4> QED
          BY <2>1, <3>3, <4>1
      <3> QED
        BY <3>1, <3>2, <3>3
    <2> QED
      BY <2>1 DEF Apart
  <1>3. RequestsFit'
    BY <1>1 DEF RequestsFit
  <1> QED
    BY <1>2, <1>3 DEF VirtualSafe, VirtualShape, RowsWhole, TurnsGoOn

LEMMA RefuseRequestStep ==
  ASSUME VirtualSafe, NEW o \in Operators, NEW verb \in Verbs, NEW id \in VirtualIds,
         RefuseRequest(o, verb, id)
  PROVE  VirtualSafe'
  <1>1. PICK r : r = [NoRequest EXCEPT !.at = "done"]
    OBVIOUS
  <1>2. r \in RequestRecords /\ ~Live(r) /\ Fits(r) /\ ToldWhole(r, o)
    BY <1>1, NothingTold
  <1>3. request' = [request EXCEPT ![o] = r] /\ UNCHANGED <<modelRows, upstreamRows, rotation, turns, torn>>
    BY <1>1 DEF RefuseRequest, Ends
  <1>4. request \in [Operators -> RequestRecords]
    BY DEF VirtualSafe, VirtualShape
  <1>5. /\ request' \in [Operators -> RequestRecords] /\ request'[o] = r
        /\ \A p \in Operators : p # o => request'[p] = request[p]
    BY <1>2, <1>3, <1>4
  <1>6. \A p \in Operators : p # o => AsItWas(request'[p], request[p])
    BY <1>5 DEF AsItWas
  <1> QED
    BY <1>2, <1>3, <1>5, <1>6, RequestBegins

LEMMA BeginRequestStep ==
  ASSUME VirtualSafe, NEW o \in Operators, NEW verb \in Verbs, NEW id \in VirtualIds, NEW to \in VirtualIds,
         NEW many \in Counts, BeginRequest(o, verb, id, to, many)
  PROVE  VirtualSafe'
  <1> DEFINE found == IF verb \in {"create", "rename", "delete"} \/ Get(id) = {} THEN {id} ELSE Get(id)
             place == IF verb = "show" THEN "listing" ELSE "writing"
             row == CHOOSE x \in found : TRUE
             asked == [NoRequest EXCEPT !.at = place, !.verb = verb, !.id = id, !.to = to, !.many = many,
                                        !.row = row]
             meeting == {p \in Operators \ {o} : Ongoing(p) /\ About(request[p]) \cap About(asked) # {}}
             told == IF place = "listing" THEN <<modelRows[asked.row]>> ELSE <<>>
             r == [asked EXCEPT !.alone = meeting = {}, !.told = told]
  <1>1. found = IF verb \in {"create", "rename", "delete"} \/ Get(id) = {} THEN {id} ELSE Get(id)
    OBVIOUS
  <1>2. place = IF verb = "show" THEN "listing" ELSE "writing"
    OBVIOUS
  <1>3. row = CHOOSE x \in found : TRUE
    OBVIOUS
  <1>4. asked = [NoRequest EXCEPT !.at = place, !.verb = verb, !.id = id, !.to = to, !.many = many, !.row = row]
    OBVIOUS
  <1>5. meeting = {p \in Operators \ {o} : Ongoing(p) /\ About(request[p]) \cap About(asked) # {}}
    OBVIOUS
  <1>6. told = IF place = "listing" THEN <<modelRows[asked.row]>> ELSE <<>>
    OBVIOUS
  <1>7. r = [asked EXCEPT !.alone = (meeting = {}), !.told = told]
    OBVIOUS
  <1>8. /\ Accepted(verb, id) /\ UNCHANGED <<modelRows, upstreamRows, rotation, turns, torn>>
        /\ request' = [p \in Operators |-> IF p = o THEN r
                                           ELSE [request[p] EXCEPT !.alone = @ /\ p \notin meeting]]
    BY Zenon DEF BeginRequest
  <1> HIDE DEF found, place, row, asked, meeting, told, r
  <1>9. row \in VirtualIds /\ Folded(row) = Folded(id) /\ row \in found
    <2>1. \A x \in found : x \in VirtualIds /\ Folded(x) = Folded(id)
      BY <1>1 DEF Get
    <2>2. found # {}
      BY <1>1
    <2>3. row \in found
      BY <1>3, <2>2
    <2> QED
      BY <2>1, <2>3
  <1>10. /\ asked \in RequestRecords /\ asked.at = place /\ asked.verb = verb /\ asked.id = id /\ asked.to = to
         /\ asked.row = row
    <2>1. place \in {"out", "writing", "upstreams", "migrating", "reading", "listing", "done"}
      BY <1>2
    <2> QED
      BY <1>4, <1>9, <2>1, NoRequestIsOne DEF RequestRecords
  <1>11. told \in Seq(Nat) /\ Len(told) <= 1 /\ (place = "listing" => Len(told) = 1)
    <2>1. modelRows[row] \in Nat
      BY <1>9, VirtualAssumption DEF VirtualSafe, VirtualShape, Numbers
    <2>2. CASE place = "listing"
      <3>1. told = <<modelRows[row]>>
        BY <1>6, <1>10, <2>2
      <3> QED
        BY <2>1, <3>1
    <2>3. CASE place # "listing"
      <3>1. told = <<>>
        BY <1>6, <2>3
      <3> QED
        BY <2>3, <3>1
    <2> QED
      BY <2>2, <2>3
  <1>12. /\ r \in RequestRecords /\ r.at = place /\ r.verb = verb /\ r.id = id /\ r.to = to /\ r.row = row
         /\ r.told = told /\ About(r) = About(asked)
    <2>1. (meeting = {}) \in BOOLEAN
      OBVIOUS
    <2> QED
      BY <1>7, <1>10, <1>11, <2>1 DEF RequestRecords, About
  <1>13. r.alone = (meeting = {})
    BY <1>7, <1>10 DEF RequestRecords
  <1>14. Fits(r)
    <2>1. verb = "create" => row = id
      BY <1>1, <1>9
    <2> QED
      BY <1>2, <1>9, <1>11, <1>12, <2>1 DEF Fits
  <1>15. ToldWhole(r, o)
    <2>1. Len(told) <= 2
      BY <1>11
    <2> QED
      BY <1>2, <1>12, <2>1 DEF ToldWhole
  <1>16. Knows(r, o, modelRows)
    <2>1. CASE verb = "create"
      <3>1. Get(id) = {} /\ row = id
        BY <1>1, <1>8, <1>9, <2>1 DEF Accepted
      <3>2. \A x \in VirtualIds : Folded(x) = Folded(id) => modelRows[x] = 0
        BY <3>1 DEF Get
      <3> QED
        BY <1>2, <1>12, <2>1, <3>1, <3>2 DEF Knows, Edits
    <2>2. CASE verb = "update"
      <3>1. Get(id) # {} /\ row \in Get(id)
        BY <1>1, <1>8, <1>9, <2>2 DEF Accepted
      <3>2. modelRows[row] # 0 /\ (row # id => modelRows[id] = 0)
        BY <3>1 DEF Get
      <3> QED
        BY <1>2, <1>12, <2>2, <3>2 DEF Knows, Edits
    <2>3. CASE verb \notin {"create", "update"}
      <3>1. place = "listing" => told = <<modelRows[row]>>
        BY <1>6, <1>10
      <3> QED
        BY <1>2, <1>12, <2>3, <3>1 DEF Knows, Edits
    <2> QED
      BY <2>1, <2>2, <2>3
  <1>17. ASSUME NEW p \in Operators, p # o
         PROVE  /\ request'[p] \in RequestRecords /\ AsItWas(request'[p], request[p])
                /\ p \in meeting => ~request'[p].alone
    <2>1. request'[p] = [request[p] EXCEPT !.alone = @ /\ p \notin meeting]
      BY <1>8, <1>17
    <2>2. (request[p].alone /\ p \notin meeting) \in BOOLEAN
      OBVIOUS
    <2> QED
      BY <2>1, <2>2, RequestOf DEF RequestRecords, AsItWas
  <1>18. request'[o] = r
    BY <1>8
  <1>19. request' \in [Operators -> RequestRecords]
    BY <1>8, <1>12, <1>17, <1>18
  <1>20. ASSUME NEW p \in Operators, p # o, Live(request[p]), About(request[p]) \cap About(r) # {}
         PROVE  ~r.alone /\ ~request'[p].alone
    <2>1. p \in meeting
      BY <1>5, <1>12, <1>20 DEF Ongoing, RequestAt, Live
    <2> QED
      BY <1>13, <1>17, <1>20, <2>1
  <1> QED
    BY <1>8, <1>14, <1>15, <1>16, <1>17, <1>18, <1>19, <1>20, RequestBegins

\* --- the turns at the upstreams

LEMMA ModuloBelow ==
  ASSUME NEW c \in Nat, NEW m \in Nat, m > 0
  PROVE  /\ c % m \in Nat /\ c % m < m
         /\ c < m => c % m = c
         /\ c = m => c % m = 0
  OBVIOUS

\* The upstream at the cursor follows the one that was last.
LEMMA NextFollows ==
  ASSUME NEW many \in Nat, NEW n \in Nat, n >= 1, n <= many, NEW last, AroundTheList(last, n, many),
         NEW index, index = IF last[n] + 1 = many THEN 0 ELSE last[n] + 1
  PROVE  Follows(index, last, n, many)
  <1>1. n \in 1..n
    OBVIOUS
  <1>2. last[n] \in Nat /\ last[n] < many
    BY <1>1 DEF AroundTheList
  <1>3. ASSUME NEW i \in 1..n
        PROVE  \/ index + i = last[i] + n + 1
               \/ index + i + many = last[i] + n + 1
    <2>1. last[i] \in Nat /\ last[i] < many
      BY DEF AroundTheList
    <2>2. last[n] + i = last[i] + n \/ last[n] + i + many = last[i] + n
      BY <1>1 DEF AroundTheList
    <2> QED
      BY <1>2, <2>1, <2>2
  <1> QED
    BY <1>3 DEF Follows

LEMMA TurnsOfAList ==
  ASSUME NEW many \in Nat, many > 0, NEW last \in Seq(Nat), NEW cursor \in Nat, TakesTurns(last, many, cursor),
         NEW index, index = cursor % many
  PROVE  /\ index \in Nat /\ index < many /\ Len(last) <= many
         /\ Follows(index, last, Len(last), many)
         /\ AroundTheList(last, Len(last), many)
  <1>1. index \in Nat /\ index < many
    OBVIOUS
  <1>2. PICK n \in Nat : n = Len(last)
    OBVIOUS
  <1>3. CASE last = <<>>
    <2>1. n = 0
      BY <1>2, <1>3
    <2>2. 1..n = {} /\ n <= many
      BY <2>1
    <2>3. Follows(index, last, n, many) /\ AroundTheList(last, n, many)
      BY <2>2, Zenon DEF Follows, AroundTheList
    <2> QED
      BY <1>1, <1>2, <2>2, <2>3
  <1>4. CASE last # <<>>
    <2>1. n >= 1
      BY <1>2, <1>4
    <2>2. n <= many /\ cursor = last[n] + 1 /\ AroundTheList(last, n, many)
      BY <1>2, <1>4, Zenon DEF TakesTurns
    <2>3. n \in 1..n
      BY <2>1
    <2>4. last[n] \in Nat /\ last[n] < many
      BY <2>2, <2>3, Zenon DEF AroundTheList
    <2>5. index = IF last[n] + 1 = many THEN 0 ELSE last[n] + 1
      <3>1. cursor = last[n] + 1
        BY <2>2
      <3>2. cursor < many => index = cursor
        BY ModuloBelow
      <3>3. cursor = many => index = 0
        BY ModuloBelow
      <3> QED
        BY <2>4, <3>1, <3>2, <3>3
    <2>6. Follows(index, last, n, many)
      BY <2>1, <2>2, <2>5, NextFollows
    <2> QED
      BY <1>1, <1>2, <2>2, <2>6
  <1> QED
    BY <1>3, <1>4

LEMMA Shorter ==
  ASSUME NEW s \in Seq(Nat), NEW first \in {1, 2}, Len(s) >= 1, NEW next, next = SubSeq(s, first, Len(s))
  PROVE  /\ next \in Seq(Nat) /\ Len(next) = Len(s) + 1 - first
         /\ \A i \in 1..Len(s) + 1 - first : next[i] = s[i + first - 1]
  <1>1. PICK n \in Nat : n = Len(s) /\ n >= 1
    OBVIOUS
  <1>2. \A i \in first..n : s[i] \in Nat
    BY <1>1
  <1>3. next = [i \in 1..n + 1 - first |-> s[i + first - 1]]
    BY <1>1
  <1>4. n + 1 - first \in Nat /\ \A i \in 1..n + 1 - first : i + first - 1 \in first..n
    BY <1>1
  <1>5. next \in Seq(Nat) /\ Len(next) = n + 1 - first
    BY <1>2, <1>3, <1>4
  <1> QED
    BY <1>1, <1>3, <1>4, <1>5

\* The list of the last turns with one more, of which the first goes when there are too many.
LEMMA TurnsWithOneMore ==
  ASSUME NEW many \in Nat, NEW n \in Nat, NEW index \in Nat, index < many,
         NEW last, AroundTheList(last, n, many), Follows(index, last, n, many),
         NEW longer, longer[n + 1] = index, \A i \in 1..n : longer[i] = last[i]
  PROVE  AroundTheList(longer, n + 1, many)
  <1>1. \A i \in 1..(n + 1) : i = n + 1 \/ i \in 1..n
    OBVIOUS
  <1>2. ASSUME NEW i \in 1..(n + 1)
        PROVE  longer[i] \in Nat /\ longer[i] < many
    BY <1>1 DEF AroundTheList
  <1>3. ASSUME NEW i \in 1..(n + 1), NEW j \in 1..(n + 1), i <= j
        PROVE  \/ longer[j] + i = longer[i] + j
               \/ longer[j] + i + many = longer[i] + j
    <2>1. CASE j \in 1..n
      <3>1. i \in 1..n
        BY <1>3, <2>1
      <3> QED
        BY <1>3, <2>1, <3>1 DEF AroundTheList
    <2>2. CASE j = n + 1 /\ i \in 1..n
      <3>1. PICK x \in Nat : x = last[i] /\ longer[i] = x /\ longer[j] = index
        BY <2>2 DEF AroundTheList
      <3>2. index + i = x + n + 1 \/ index + i + many = x + n + 1
        BY <2>2, <3>1 DEF Follows
      <3>3. index + i = x + j \/ index + i + many = x + j
        BY <2>2, <3>2
      <3> QED
        BY <3>1, <3>3
    <2>3. CASE j = n + 1 /\ i = n + 1
      <3>1. longer[i] = index /\ longer[j] = index
        BY <2>3
      <3>2. index + i = index + j
        BY <2>3
      <3> QED
        BY <3>1, <3>2
    <2> QED
      BY <1>1, <2>1, <2>2, <2>3
  <1> QED
    BY <1>2, <1>3 DEF AroundTheList

LEMMA TurnsWithoutTheFirst ==
  ASSUME NEW many \in Nat, NEW n \in Nat, NEW longer, AroundTheList(longer, n + 1, many),
         NEW m \in Nat, NEW before \in 0..1, m + before = n + 1,
         NEW next, ShiftedBy(before, next, longer, m)
  PROVE  AroundTheList(next, m, many)
  <1>1. \A i \in 1..m : i + before \in 1..(n + 1)
    OBVIOUS
  <1>2. \A i \in 1..m : next[i] \in Nat /\ next[i] < many
    BY <1>1 DEF AroundTheList, ShiftedBy
  <1>3. ASSUME NEW i \in 1..m, NEW j \in 1..m, i <= j
        PROVE  \/ next[j] + i = next[i] + j
               \/ next[j] + i + many = next[i] + j
    <2>1. PICK x, y : x = longer[i + before] /\ y = longer[j + before]
      OBVIOUS
    <2>2. i + before \in 1..(n + 1) /\ j + before \in 1..(n + 1) /\ i + before <= j + before
      BY <1>1, <1>3
    <2>3. y + (i + before) = x + (j + before) \/ y + (i + before) + many = x + (j + before)
      BY <2>1, <2>2 DEF AroundTheList
    <2>4. x \in Nat /\ y \in Nat /\ next[i] = x /\ next[j] = y
      BY <2>1, <2>2 DEF AroundTheList, ShiftedBy
    <2>5. y + i = x + j \/ y + i + many = x + j
      BY <2>3, <2>4
    <2> QED
      BY <2>4, <2>5
  <1> QED
    BY <1>2, <1>3 DEF AroundTheList

LEMMA TurnIsTaken ==
  ASSUME NEW many \in Nat, NEW last \in Seq(Nat), NEW index \in Nat, index < many, Len(last) <= many,
         AroundTheList(last, Len(last), many), Follows(index, last, Len(last), many),
         NEW next, next = SubSeq(Append(last, index), IF Len(Append(last, index)) > many THEN 2 ELSE 1,
                                 Len(Append(last, index)))
  PROVE  next \in Seq(Nat) /\ TakesTurns(next, many, index + 1)
  <1>1. PICK n \in Nat : n = Len(last)
    OBVIOUS
  <1>2. n <= many /\ AroundTheList(last, n, many) /\ Follows(index, last, n, many)
    BY <1>1, Zenon
  <1>3. PICK longer : longer = Append(last, index)
    OBVIOUS
  <1>4. /\ longer \in Seq(Nat) /\ Len(longer) = n + 1 /\ longer[n + 1] = index
        /\ \A i \in 1..n : longer[i] = last[i]
    BY <1>1, <1>3, ToldMore, Zenon
  <1>6. AroundTheList(longer, n + 1, many)
    BY <1>2, <1>4, TurnsWithOneMore
  <1>7. PICK before \in 0..1 : before = IF n + 1 > many THEN 1 ELSE 0
    OBVIOUS
  <1>8. PICK m \in Nat : m + before = n + 1
    <2>1. n + 1 - before \in Nat /\ (n + 1 - before) + before = n + 1
      OBVIOUS
    <2> QED
      BY <2>1
  <1>9. next \in Seq(Nat) /\ Len(next) = m /\ DOMAIN next = 1..m /\ \A i \in 1..m : next[i] = longer[i + before]
    <2>1. PICK first \in {1, 2} : first = 1 + before
      OBVIOUS
    <2>2. first = IF Len(longer) > many THEN 2 ELSE 1
      BY <1>4, <1>7, <2>1
    <2>3. next = SubSeq(longer, first, Len(longer)) /\ Len(longer) >= 1
      BY <1>3, <1>4, <2>2
    <2>4. /\ next \in Seq(Nat) /\ Len(next) = Len(longer) + 1 - first
          /\ \A i \in 1..Len(longer) + 1 - first : next[i] = longer[i + first - 1]
      BY <1>4, <2>3, Shorter, Zenon
    <2>5. Len(longer) + 1 - first = m
      BY <1>4, <1>8, <2>1
    <2>6. next \in Seq(Nat) /\ Len(next) = m /\ \A i \in 1..m : next[i] = longer[i + first - 1]
      BY <2>4, <2>5
    <2>7. \A i \in 1..m : i + first - 1 = i + before
      BY <2>1
    <2>8. DOMAIN next = 1..m
      BY <2>6
    <2> QED
      BY <2>6, <2>7, <2>8
  <1>10. m <= many /\ m \in 1..m /\ m + before = n + 1
    BY <1>2, <1>7, <1>8
  <1>11. AroundTheList(next, m, many)
    <2>1. ShiftedBy(before, next, longer, m)
      BY <1>9, Zenon DEF ShiftedBy
    <2> QED
      BY <1>6, <1>10, <2>1, TurnsWithoutTheFirst
  <1>12. Len(next) <= many /\ index + 1 = next[Len(next)] + 1
    <2>1. next[m] = index
      BY <1>4, <1>9, <1>10
    <2>2. next[Len(next)] = index
      BY <1>9, <2>1
    <2>3. Len(next) <= many
      BY <1>9, <1>10
    <2> QED
      BY <2>2, <2>3
  <1>13. TakesTurns(next, many, index + 1)
    BY <1>9, <1>11, <1>12, Zenon DEF TakesTurns
  <1> QED
    BY <1>9, <1>13

LEMMA OrderUpstreamsStep ==
  ASSUME VirtualSafe, NEW id \in VirtualIds, OrderUpstreams(id)
  PROVE  VirtualSafe'
  <1>1. PICK many, index, next :
          /\ many = upstreamRows[id].many /\ index = rotation[id] % many
          /\ next = SubSeq(Append(turns[id], index), IF Len(Append(turns[id], index)) > many THEN 2 ELSE 1,
                           Len(Append(turns[id], index)))
    OBVIOUS
  <1>2. /\ many > 0 /\ rotation' = [rotation EXCEPT ![id] = index + 1]
        /\ turns' = [turns EXCEPT ![id] = next]
        /\ UNCHANGED <<modelRows, upstreamRows, request, torn>>
    BY <1>1 DEF OrderUpstreams, NextCursor
  <1>3. /\ many \in Nat /\ many <= MaxUpstreams /\ rotation[id] \in Nat /\ turns[id] \in Seq(Nat)
        /\ TakesTurns(turns[id], many, rotation[id])
    BY <1>1, VirtualAssumption DEF VirtualSafe, VirtualShape, TurnsGoOn, Counts
  <1>4. next \in Seq(Nat) /\ TakesTurns(next, many, index + 1) /\ index \in Nat /\ index + 1 <= many
    <2>1. /\ index \in Nat /\ index < many /\ Len(turns[id]) <= many
          /\ Follows(index, turns[id], Len(turns[id]), many) /\ AroundTheList(turns[id], Len(turns[id]), many)
      BY <1>1, <1>2, <1>3, TurnsOfAList, Zenon
    <2>2. next \in Seq(Nat) /\ TakesTurns(next, many, index + 1)
      BY <1>1, <1>3, <2>1, TurnIsTaken, Zenon
    <2>3. index + 1 <= many
      BY <1>3, <2>1
    <2> QED
      BY <2>1, <2>2, <2>3
  <1>5. index + 1 \in 0..MaxUpstreams
    BY <1>3, <1>4, VirtualAssumption
  <1>6. /\ rotation' \in [VirtualIds -> 0..MaxUpstreams] /\ rotation'[id] = index + 1
        /\ \A x \in VirtualIds : x # id => rotation'[x] = rotation[x]
    BY <1>2, <1>5 DEF VirtualSafe, VirtualShape
  <1>7. /\ turns' \in [VirtualIds -> Seq(Nat)] /\ turns'[id] = next
        /\ \A x \in VirtualIds : x # id => turns'[x] = turns[x]
    BY <1>2, <1>4 DEF VirtualSafe, VirtualShape
  <1>8. TurnsGoOn'
    <2>1. TakesTurns(turns'[id], upstreamRows'[id].many, rotation'[id])
      BY <1>1, <1>2, <1>4, <1>6, <1>7
    <2>2. \A x \in VirtualIds : x # id => TakesTurns(turns'[x], upstreamRows'[x].many, rotation'[x])
      BY <1>2, <1>6, <1>7 DEF VirtualSafe, TurnsGoOn
    <2> QED
      BY <2>1, <2>2 DEF TurnsGoOn
  <1>9. VirtualShape'
    BY <1>2, <1>6, <1>7 DEF VirtualSafe, VirtualShape
  <1>10. RowsWhole' /\ Apart' /\ RequestsFit'
    BY <1>2 DEF VirtualSafe, RowsWhole, Apart, RequestsFit
  <1> QED
    BY <1>8, <1>9, <1>10 DEF VirtualSafe

LEMMA VirtualInitSafe == VirtualInit => VirtualSafe
  <1> SUFFICES ASSUME VirtualInit PROVE VirtualSafe
    OBVIOUS
  <1>1. 0 \in Numbers /\ 1 \in Numbers /\ 0 \in Counts /\ 0 \in 0..MaxUpstreams
    BY VirtualAssumption DEF Numbers, Counts
  <1>2. modelRows \in [VirtualIds -> Numbers]
    BY <1>1 DEF VirtualInit
  <1>3. PICK many \in Counts :
          upstreamRows = [id \in VirtualIds |-> [by |-> modelRows[id],
                                                 many |-> IF modelRows[id] = 0 THEN 0 ELSE many]]
    BY DEF VirtualInit
  <1>4. /\ upstreamRows \in [VirtualIds -> [by : Numbers, many : Counts]]
        /\ \A id \in VirtualIds : upstreamRows[id].by = modelRows[id]
        /\ \A id \in VirtualIds : modelRows[id] = 0 => upstreamRows[id] = NoUpstreams
    BY <1>1, <1>2, <1>3 DEF NoUpstreams
  <1>5. /\ rotation \in [VirtualIds -> 0..MaxUpstreams] /\ torn = {}
        /\ turns \in [VirtualIds -> Seq(Nat)] /\ \A id \in VirtualIds : turns[id] = <<>>
    BY <1>1 DEF VirtualInit
  <1>6. \A o \in Operators : request[o] = NoRequest
    BY DEF VirtualInit
  <1>7. request \in [Operators -> RequestRecords]
    BY NoRequestIsOne DEF VirtualInit
  <1>8. NoRequest.at = "out" /\ NoRequest.told = <<>>
    BY DEF NoRequest
  <1>9. RequestsFit /\ Apart
    <2>1. ~Live(NoRequest) /\ Fits(NoRequest)
      BY <1>8 DEF Live, Fits
    <2>2. \A o : ToldWhole(NoRequest, o)
      BY <1>8 DEF ToldWhole
    <2> QED
      BY <1>6, <2>1, <2>2 DEF RequestsFit, Apart
  <1> QED
    BY <1>2, <1>4, <1>5, <1>7, <1>9 DEF VirtualSafe, VirtualShape, RowsWhole, TurnsGoOn, TakesTurns

LEMMA VirtualSafeStep ==
  ASSUME VirtualSafe, [VirtualNext]_virtualVars
  PROVE  VirtualSafe'
  <1>1. CASE UNCHANGED virtualVars
    BY <1>1 DEF virtualVars, VirtualSafe, VirtualShape, RowsWhole, TurnsGoOn, Apart, RequestsFit
  <1>2. ASSUME NEW o \in Operators, NEW verb \in Verbs, NEW id \in VirtualIds,
               RefuseRequest(o, verb, id)
               \/ \E to \in VirtualIds, many \in Counts : BeginRequest(o, verb, id, to, many)
        PROVE  VirtualSafe'
    BY <1>2, BeginRequestStep, RefuseRequestStep
  <1>3. ASSUME NEW o \in Operators,
               \/ CreateModel(o) \/ UpdateModel(o) \/ SaveUpstreams(o) \/ DeleteModel(o) \/ RenameModel(o)
               \/ MigrateRoundRobinCursor(o) \/ StatementFails(o) \/ ReadModel(o) \/ ReadUpstreams(o)
        PROVE  VirtualSafe'
    BY <1>3, CreateModelStep, UpdateModelStep, SaveUpstreamsStep, DeleteModelStep, RenameModelStep,
       MigrateRoundRobinCursorStep, StatementFailsStep, ReadModelStep, ReadUpstreamsStep
  <1> QED
    BY <1>1, <1>2, <1>3, OrderUpstreamsStep DEF VirtualNext

LEMMA SafeModelsAreWhole == VirtualSafe => VirtualTypeOK /\ VirtualModelsAreWhole
  <1> SUFFICES ASSUME VirtualSafe PROVE VirtualTypeOK /\ VirtualModelsAreWhole
    OBVIOUS
  <1>1. ASSUME NEW id \in VirtualIds
        PROVE  /\ Len(turns[id]) <= MaxUpstreams
               /\ \A i, j \in DOMAIN turns[id] : i # j => turns[id][i] # turns[id][j]
    <2>1. PICK last \in Seq(Nat) : last = turns[id]
      BY DEF VirtualSafe, VirtualShape
    <2>2. PICK many \in Nat : many = upstreamRows[id].many /\ many <= MaxUpstreams
      BY VirtualAssumption DEF VirtualSafe, VirtualShape, Counts
    <2>3. PICK n \in Nat : n = Len(last) /\ DOMAIN last = 1..n
      OBVIOUS
    <2>4. CASE last = <<>>
      <3>1. n = 0
        BY <2>3, <2>4
      <3>2. 1..n = {}
        BY <3>1
      <3>3. Len(last) <= MaxUpstreams
        BY <2>3, <3>1, VirtualAssumption
      <3> QED
        BY <2>1, <2>3, <3>2, <3>3
    <2>5. CASE last # <<>>
      <3>1. TakesTurns(last, many, rotation[id])
        BY <2>1, <2>2 DEF VirtualSafe, TurnsGoOn
      <3>2. n <= many /\ AroundTheList(last, n, many)
        BY <2>3, <2>5, <3>1, Zenon DEF TakesTurns
      <3>3. ASSUME NEW i \in 1..n, NEW j \in 1..n, i < j
            PROVE  last[i] # last[j]
        <4>1. last[j] + i = last[i] + j \/ last[j] + i + many = last[i] + j
          BY <3>2, <3>3 DEF AroundTheList
        <4>2. last[i] \in Nat /\ last[j] \in Nat /\ j < i + many
          BY <3>2 DEF AroundTheList
        <4> QED
          BY <3>3, <4>1, <4>2
      <3>4. \A i, j \in 1..n : i # j => last[i] # last[j]
        <4>1. \A i, j \in 1..n : i # j => i < j \/ j < i
          OBVIOUS
        <4> QED
          BY <3>3, <4>1
      <3>5. Len(last) <= MaxUpstreams
        BY <2>2, <2>3, <3>2, VirtualAssumption
      <3> QED
        BY <2>1, <2>3, <3>4, <3>5
    <2> QED
      BY <2>4, <2>5
  <1>2. ASSUME NEW o \in Operators
        PROVE  /\ request[o].at \in {"out", "writing", "upstreams", "migrating", "reading", "listing", "done"}
               /\ request[o].verb \in Verbs /\ {request[o].id, request[o].row, request[o].to} \subseteq VirtualIds
               /\ request[o].many \in Counts
               /\ ToldWhole(request[o], o)
    BY DEF VirtualSafe, VirtualShape, RequestRecords, RequestsFit
  <1>3. VirtualTypeOK
    BY <1>1, <1>2 DEF VirtualTypeOK, VirtualSafe, VirtualShape, ToldWhole
  <1>4. VirtualModelsAreWhole
    BY <1>1, <1>2 DEF VirtualModelsAreWhole, VirtualSafe, RowsWhole, ToldWhole, Edits
  <1> QED
    BY <1>3, <1>4

\* VIRTUAL MODELS.  For any number of requests and upstreams: unless requests for one id crossed,
\* one failed half-way or spelled the id differently, a model's row and its upstreams are of one
\* request, and so is what an operator is told; upstreams go with their model; and while a list
\* stays as it is, no upstream has a second turn before every other has had one.
THEOREM ModelsAreWhole == VirtualSpec => [](VirtualTypeOK /\ VirtualModelsAreWhole)
  BY VirtualInitSafe, VirtualSafeStep, SafeModelsAreWhole, PTL DEF VirtualSpec
================================================================================
