------------------------- MODULE CatalogCacheProofs -------------------------
(***************************************************************************)
(* The catalog cache's safety properties, for any callers, durations and   *)
(* numbers of changes.  The inductive invariant says what fences a late    *)
(* discovery: versions only grow, the discovery of the current version     *)
(* owns the entry, and whatever carries the current version was read from  *)
(* the provider after the changes that made this version.                  *)
(***************************************************************************)
EXTENDS CatalogCache, TLAPS

\* No version in use is ahead of the instance's, and only fetchers hold one.
Fence ==
  /\ retired <= epoch /\ outdated <= epoch
  /\ \A c \in Callers : pc[c] \in Fetching =>
       /\ mine[c] # None
       /\ mine[c].lifecycle <= version.lifecycle
       /\ mine[c].refresh <= version.refresh
  /\ \A c \in Callers : pc[c] = "fetched" => got[c].epoch <= epoch
  /\ entry # None => /\ entry.version.lifecycle <= version.lifecycle
                     /\ entry.version.refresh <= version.refresh

\* An open entry is its owner's, and the discovery of the current version has
\* its entry in the map.
Ownership ==
  /\ \A c \in Callers : Installed(c) => /\ pc[c] \in Fetching
                                        /\ mine[c] = entry.version
  /\ \A c \in Callers : (pc[c] \in Fetching /\ mine[c] = version) => Installed(c)

\* What a filled entry serves.
Contents ==
  entry # None =>
    /\ entry.open => entry.result.kind = "pending"
    /\ entry.result.kind \in {"fresh", "last-good"} =>
         entry.good # None /\ entry.result.catalog = entry.good
    /\ entry.result.kind = "fresh" => entry.next = entry.good.born + Ttl
    /\ entry.result.kind = "fallback" => entry.result.catalog # None

\* Data of the current account and version.
GoodIsOurs ==
  (entry # None /\ entry.version.lifecycle = version.lifecycle
   /\ entry.good # None) => entry.good.epoch >= retired

ResultIsNew ==
  (Current /\ entry.result.kind \in {"fresh", "fallback"}) =>
    entry.result.catalog.epoch >= outdated

FetchedIsNew ==
  \A c \in Callers : (pc[c] = "fetched" /\ mine[c] = version) =>
    got[c].epoch >= retired /\ got[c].epoch >= outdated

AskedBefore ==
  \A c \in Callers : asked[c].served <= retired /\ asked[c].fresh <= outdated

\* A returned catalog is there.
Answered ==
  \A c \in Callers :
    Returned(c, {"fresh", "last-good", "fallback"}) => answer[c].catalog # None

\* Only a waiter waits for somebody.
WaitersWait == \A c \in Callers : waitsFor[c] # None => pc[c] = "wait"

Structure ==
  /\ Fence /\ Ownership /\ OneFetchPerVersion /\ Contents
  /\ GoodIsOurs /\ ResultIsNew /\ FetchedIsNew

Answers == AskedBefore /\ Answered /\ NothingRetired /\ FreshIsNew

Safe == TypeOK /\ Structure /\ WaitersWait /\ Answers

-----------------------------------------------------------------------------
LEMMA InitSafe == Init => Safe
  <1> SUFFICES ASSUME Init PROVE Safe
    OBVIOUS
  <1> USE DEF Structure, Answers
  <1>1. TypeOK
    <2>1. /\ 0 \in Epochs /\ 0 \in 0..MaxTime /\ 0 \in Nat
          /\ Unasked \in [served : Epochs, fresh : Epochs]
          /\ NoFetch \in [outcome : Outcomes, epoch : Epochs]
          /\ Nothing \in Results
      BY DurationsAssumption DEF Epochs, Unasked, NoFetch, Outcomes, Nothing,
         Results, MaybeCatalog
    <2> QED
      BY <2>1 DEF Init, TypeOK, Versions
  <1>2. \A c \in Callers : pc[c] = "idle" /\ asked[c] = Unasked
    BY DEF Init
  <1>3. Fence /\ Ownership /\ OneFetchPerVersion
    BY <1>2 DEF Init, Fence, Ownership, OneFetchPerVersion, Installed, Fetching
  <1>4. Contents /\ GoodIsOurs /\ ResultIsNew /\ FetchedIsNew
    BY <1>2 DEF Init, Contents, GoodIsOurs, ResultIsNew, FetchedIsNew, Current
  <1>5. AskedBefore
    <2>1. retired = 0 /\ outdated = 0
      BY DEF Init
    <2>2. ASSUME NEW c \in Callers
          PROVE  asked[c].served <= retired /\ asked[c].fresh <= outdated
      <3>1. asked[c] = [served |-> 0, fresh |-> 0]
        BY <1>2 DEF Unasked
      <3>2. asked[c].served = 0 /\ asked[c].fresh = 0
        BY <3>1
      <3> QED
        BY <2>1, <3>2
    <2> QED
      BY <2>2 DEF AskedBefore
  <1>6. Answered /\ NothingRetired /\ FreshIsNew
    BY <1>2 DEF Answered, NothingRetired, FreshIsNew, Returned
  <1>7. WaitersWait
    BY DEF Init, WaitersWait
  <1> QED
    BY <1>1, <1>3, <1>4, <1>5, <1>6, <1>7 DEF Safe

-----------------------------------------------------------------------------
\* What filling the pending entry does to it.
LEMMA FilledFacts ==
  ASSUME TypeOK, entry \in EntryObjects, NEW f \in [outcome : Outcomes, epoch : Epochs]
  PROVE  LET new == Filled(f) IN
         /\ new \in EntryObjects
         /\ new.version = entry.version /\ ~new.open /\ new.owner = entry.owner
         /\ new.good # None =>
              \/ new.good = [epoch |-> f.epoch, born |-> now] /\ f.outcome = "ok"
              \/ new.good = entry.good /\ Reusable(entry.good)
         /\ f.outcome \in {"hard", "fallback"} => new.good = None
         /\ new.result.kind \in {"fresh", "last-good"} =>
              new.good # None /\ new.result.catalog = new.good
         /\ new.result.kind = "fresh" =>
              /\ f.outcome = "ok" /\ new.next = now + Ttl
              /\ new.good = [epoch |-> f.epoch, born |-> now]
         /\ new.result.kind = "last-good" => Reusable(entry.good) /\ new.good = entry.good
         /\ new.result.kind = "fallback" =>
              new.result.catalog = [epoch |-> f.epoch, born |-> now]
  <1> DEFINE catalog == [epoch |-> f.epoch, born |-> now]
             keep == f.outcome = "transient" /\ Reusable(entry.good)
             new == Filled(f)
  <1>1. catalog \in Catalogs /\ catalog # None
    BY NoneIsNothing DEF TypeOK, Catalogs
  <1>2. now + Ttl \in Times /\ now + Retry \in Times
    BY DurationsAssumption DEF TypeOK, Times
  <1>3. /\ entry.good \in MaybeCatalog /\ entry.version \in Versions
        /\ entry.owner \in Callers
    BY DEF EntryObjects
  <1>4. CASE f.outcome = "ok"
    <2>1. new = [version |-> entry.version, open |-> FALSE, owner |-> entry.owner,
                 good |-> catalog,
                 result |-> [kind |-> "fresh", catalog |-> catalog],
                 next |-> now + Ttl]
      BY <1>4 DEF Filled
    <2> QED
      BY <1>1, <1>2, <1>3, <1>4, <2>1 DEF EntryObjects, Results, MaybeCatalog
  <1>5. CASE keep
    <2>1. new = [version |-> entry.version, open |-> FALSE, owner |-> entry.owner,
                 good |-> entry.good,
                 result |-> [kind |-> "last-good", catalog |-> entry.good],
                 next |-> now + Retry]
      BY <1>5 DEF Filled
    <2>2. entry.good # None
      BY <1>5 DEF Reusable
    <2> QED
      BY <1>2, <1>3, <1>5, <2>1, <2>2 DEF EntryObjects, Results
  <1>6. CASE f.outcome = "fallback"
    <2>1. new = [version |-> entry.version, open |-> FALSE, owner |-> entry.owner,
                 good |-> None,
                 result |-> [kind |-> "fallback", catalog |-> catalog],
                 next |-> now + Retry]
      BY <1>6 DEF Filled
    <2> QED
      BY <1>1, <1>2, <1>3, <1>6, <2>1 DEF EntryObjects, Results, MaybeCatalog
  <1>7. CASE f.outcome = "hard" \/ (f.outcome = "transient" /\ ~keep)
    <2>1. new = [version |-> entry.version, open |-> FALSE, owner |-> entry.owner,
                 good |-> None,
                 result |-> [kind |-> "error", catalog |-> None],
                 next |-> now + Retry]
      BY <1>7 DEF Filled
    <2> QED
      BY <1>2, <1>3, <1>7, <2>1 DEF EntryObjects, Results, MaybeCatalog
  <1> QED
    BY <1>4, <1>5, <1>6, <1>7 DEF Outcomes

LEMMA TypeStep == Safe /\ [Next]_vars => TypeOK'
  <1> SUFFICES ASSUME Safe, [Next]_vars PROVE TypeOK'
    OBVIOUS
  <1> USE DurationsAssumption, NoneIsNothing
  <1>0. TypeOK
    BY DEF Safe
  <1> USE DEF cacheVars
  <1>1. ASSUME NEW c \in Callers, Call(c) PROVE TypeOK'
    BY <1>0, <1>1 DEF TypeOK, Call
  <1>2. ASSUME NEW c \in Callers, Hit(c) PROVE TypeOK'
    <2>1. Served \in Results
      BY <1>0, <1>2 DEF TypeOK, Hit, Live, Current, Served, EntryObjects, Error,
         Results, MaybeCatalog
    <2> QED
      BY <1>0, <1>2, <2>1 DEF TypeOK, Hit
  <1>3. ASSUME NEW c \in Callers, Join(c) PROVE TypeOK'
    BY <1>0, <1>3 DEF TypeOK, Join, Current, EntryObjects
  <1>4. ASSUME NEW c \in Callers, Install(c) PROVE TypeOK'
    <2>1. Inherited \in MaybeCatalog
      BY <1>0 DEF TypeOK, Inherited, EntryObjects, MaybeCatalog
    <2>2. Pending(c) \in EntryObjects
      BY <1>0, <2>1 DEF TypeOK, Pending, EntryObjects, Nothing, Results,
         MaybeCatalog, Times
    <2> QED
      BY <1>0, <1>4, <2>2 DEF TypeOK, Install, Fetching
  <1>5. ASSUME NEW c \in Callers, Fetch(c) PROVE TypeOK'
    BY <1>0, <1>5 DEF TypeOK, Fetch, Fetching, Epochs
  <1>6. ASSUME NEW c \in Callers, Discard(c) PROVE TypeOK'
    <2>1. entry' \in EntryObjects \cup {None}
      BY <1>0, <1>6 DEF TypeOK, Discard, EntryObjects, Installed
    <2>2. Error \in Results /\ NoFetch \in [outcome : Outcomes, epoch : Epochs]
      BY DEF Error, Results, MaybeCatalog, NoFetch, Outcomes, Epochs
    <2> QED
      BY <1>0, <1>6, <2>1, <2>2 DEF TypeOK, Discard, Finish
  <1>7. ASSUME NEW c \in Callers, Publish(c) PROVE TypeOK'
    <2>1. entry \in EntryObjects
      BY <1>0, <1>7 DEF TypeOK, Publish, Installed
    <2>2. got[c] \in [outcome : Outcomes, epoch : Epochs]
      BY <1>0 DEF TypeOK
    <2>3. Filled(got[c]) \in EntryObjects
      BY <1>0, <2>1, <2>2, FilledFacts
    <2>4. Filled(got[c]).result \in Results
      BY <2>3 DEF EntryObjects
    <2>5. NoFetch \in [outcome : Outcomes, epoch : Epochs]
      BY DEF NoFetch, Outcomes, Epochs
    <2> QED
      BY <1>0, <1>7, <2>2, <2>3, <2>4, <2>5 DEF TypeOK, Publish, Finish
  <1>8. ASSUME NEW c \in Callers, Leave(c) PROVE TypeOK'
    BY <1>0, <1>8 DEF TypeOK, Leave, Nothing, Results, MaybeCatalog, Unasked, Epochs
  <1>9. CASE SaveAccount
    BY <1>0, <1>9 DEF TypeOK, SaveAccount, Epochs
  <1>10. CASE Invalidate
    <2>1. version' \in Versions
      BY <1>0, <1>10 DEF TypeOK, Invalidate, Versions
    <2> QED
      BY <1>0, <1>10, <2>1 DEF TypeOK, Invalidate
  <1>11. CASE Refresh
    BY <1>0, <1>11 DEF TypeOK, Refresh, Versions, Epochs
  <1>12. CASE Tick
    BY <1>0, <1>12 DEF TypeOK, Tick
  <1>13. CASE UNCHANGED vars
    BY <1>0, <1>13 DEF TypeOK, vars
  <1> QED
    BY <1>1, <1>2, <1>3, <1>4, <1>5, <1>6, <1>7, <1>8, <1>9, <1>10, <1>11,
       <1>12, <1>13 DEF Next, Step

-----------------------------------------------------------------------------
\* A step that leaves the entry, the discoveries and the history alone.
LEMMA StructureFrame ==
  ASSUME Safe, UNCHANGED <<version, entry, mine, got, epoch, retired, outdated>>,
         \A d \in Callers : /\ (pc'[d] \in Fetching) <=> (pc[d] \in Fetching)
                            /\ pc'[d] = "fetched" => pc[d] = "fetched"
  PROVE  Structure'
  <1>1. \A d \in Callers : Installed(d)' <=> Installed(d)
    BY DEF Installed
  <1>2. Current' <=> Current
    BY DEF Current
  <1>3. Fence'
    BY DEF Safe, Structure, Fence
  <1>4. Ownership'
    BY <1>1 DEF Safe, Structure, Ownership
  <1>5. OneFetchPerVersion'
    BY DEF Safe, Structure, OneFetchPerVersion
  <1>6. Contents'
    BY DEF Safe, Structure, Contents
  <1>7. GoodIsOurs'
    BY DEF Safe, Structure, GoodIsOurs
  <1>8. ResultIsNew'
    BY <1>2 DEF Safe, Structure, ResultIsNew
  <1>9. FetchedIsNew'
    BY DEF Safe, Structure, FetchedIsNew
  <1> QED
    BY <1>3, <1>4, <1>5, <1>6, <1>7, <1>8, <1>9 DEF Structure

\* Answers given before stay right while the caller looks at them.
LEMMA AnswersFrame ==
  ASSUME Safe, TypeOK', retired <= retired', outdated <= outdated', NEW who,
         \A d \in Callers :
           \/ asked'[d] = asked[d]
           \/ /\ asked'[d].served <= retired' /\ asked'[d].fresh <= outdated'
              /\ pc'[d] # "returned",
         \A d \in Callers : (pc'[d] = "returned" /\ d # who) =>
           pc[d] = "returned" /\ answer'[d] = answer[d],
         \A d \in Callers : (d = who /\ pc'[d] = "returned") =>
           /\ answer'[d].kind \in {"fresh", "last-good", "fallback"} =>
                answer'[d].catalog # None
           /\ answer'[d].kind \in {"fresh", "last-good"} =>
                answer'[d].catalog.epoch >= asked[d].served
           /\ answer'[d].kind \in {"fresh", "fallback"} =>
                answer'[d].catalog.epoch >= asked[d].fresh
  PROVE  Answers'
  <1>1. AskedBefore'
    <2> SUFFICES ASSUME NEW d \in Callers
                 PROVE  asked'[d].served <= retired' /\ asked'[d].fresh <= outdated'
      BY DEF AskedBefore
    <2>1. asked[d].served <= retired /\ asked[d].fresh <= outdated
      BY DEF Safe, Answers, AskedBefore
    <2>2. /\ asked[d].served \in Nat /\ asked[d].fresh \in Nat
          /\ retired \in Nat /\ outdated \in Nat /\ retired' \in Nat /\ outdated' \in Nat
      BY DEF Safe, TypeOK, Epochs
    <2> QED
      BY <2>1, <2>2
  <1>2. Answered'
    BY DEF Safe, Answers, Answered, Returned
  <1>3. NothingRetired'
    BY DEF Safe, Answers, NothingRetired, Returned
  <1>4. FreshIsNew'
    BY DEF Safe, Answers, FreshIsNew, Returned
  <1> QED
    BY <1>1, <1>2, <1>3, <1>4 DEF Answers

\* The steps of a caller that leave the map and the history alone.
LEMMA QuietSteps ==
  ASSUME Safe, NEW c \in Callers, Call(c) \/ Hit(c) \/ Join(c) \/ Leave(c)
  PROVE  Safe'
  <1>0. TypeOK /\ TypeOK'
    BY TypeStep DEF Safe, Next, Step
  <1>1. UNCHANGED <<version, entry, mine, got, epoch, retired, outdated>>
    BY DEF Call, Hit, Join, Leave
  <1>2. /\ \A d \in Callers : d # c => pc'[d] = pc[d] /\ answer'[d] = answer[d]
                                                  /\ asked'[d] = asked[d]
        /\ pc[c] \notin Fetching /\ pc'[c] \notin Fetching
    BY <1>0 DEF Call, Hit, Join, Leave, TypeOK, Fetching
  <1>3. Structure'
    BY <1>1, <1>2, StructureFrame DEF Fetching
  <1>4. WaitersWait'
    BY <1>0 DEF Call, Hit, Join, Leave, Safe, TypeOK, WaitersWait
  <1>5. retired <= retired' /\ outdated <= outdated'
    BY <1>0, <1>1 DEF TypeOK, Epochs
  <1>6. CASE Call(c)
    <2>1. asked'[c].served <= retired' /\ asked'[c].fresh <= outdated'
      BY <1>0, <1>1, <1>6 DEF Call, TypeOK, Epochs
    <2>2. pc'[c] # "returned"
      BY <1>0, <1>6 DEF Call, TypeOK
    <2> QED
      BY <1>0, <1>2, <1>3, <1>4, <1>5, <2>1, <2>2, AnswersFrame DEF Safe
  <1>7. CASE Leave(c)
    <2>1. asked'[c].served = 0 /\ asked'[c].fresh = 0 /\ pc'[c] # "returned"
      BY <1>0, <1>7 DEF Leave, TypeOK, Unasked
    <2>2. asked'[c].served <= retired' /\ asked'[c].fresh <= outdated'
      BY <1>0, <2>1 DEF TypeOK, Epochs
    <2> QED
      BY <1>0, <1>2, <1>3, <1>4, <1>5, <2>1, <2>2, AnswersFrame DEF Safe
  <1>8. CASE Join(c)
    <2>1. pc'[c] # "returned" /\ UNCHANGED asked
      BY <1>0, <1>8 DEF Join, TypeOK
    <2> QED
      BY <1>0, <1>2, <1>3, <1>4, <1>5, <2>1, AnswersFrame DEF Safe
  <1>9. CASE Hit(c)
    <2>1. /\ answer'[c] = Served /\ UNCHANGED asked
          /\ Current /\ ~entry.open /\ entry \in EntryObjects
      BY <1>0, <1>9 DEF Hit, Live, Current, TypeOK
    <2>2. Served = Error \/ Served = entry.result
      BY DEF Served
    <2>3. CASE Served = Error
      BY <1>0, <1>2, <1>3, <1>4, <1>5, <2>1, <2>3, AnswersFrame DEF Safe, Error
    <2>4. CASE Served = entry.result
      <3>1. entry # None /\ entry.version.lifecycle = version.lifecycle
        BY <2>1 DEF Current
      <3>2. entry.result.kind \in {"fresh", "last-good"} =>
              /\ entry.result.catalog # None /\ entry.result.catalog \in Catalogs
              /\ entry.result.catalog.epoch >= retired
        BY <2>1, <3>1 DEF Safe, Structure, Contents, GoodIsOurs, EntryObjects, MaybeCatalog
      <3>3. entry.result.kind \in {"fresh", "fallback"} =>
              /\ entry.result.catalog # None /\ entry.result.catalog \in Catalogs
              /\ entry.result.catalog.epoch >= outdated
        BY <2>1, <3>1, <3>2 DEF Safe, Structure, Contents, ResultIsNew, EntryObjects,
           Results, MaybeCatalog
      <3>4. /\ asked[c].served <= retired /\ asked[c].fresh <= outdated
            /\ asked[c].served \in Nat /\ asked[c].fresh \in Nat
            /\ retired \in Nat /\ outdated \in Nat
        BY <1>0 DEF Safe, Answers, AskedBefore, TypeOK, Epochs
      <3>5. entry.result.kind \in {"fresh", "last-good", "fallback"} =>
              entry.result.catalog # None /\ entry.result.catalog.epoch \in Nat
        BY <3>2, <3>3 DEF Catalogs, Epochs
      <3>6. entry.result.kind \in {"fresh", "last-good"} =>
              entry.result.catalog.epoch >= asked[c].served
        BY <3>2, <3>4, <3>5
      <3>7. entry.result.kind \in {"fresh", "fallback"} =>
              entry.result.catalog.epoch >= asked[c].fresh
        BY <3>3, <3>4, <3>5
      <3> QED
        BY <1>0, <1>2, <1>3, <1>4, <1>5, <2>1, <2>4, <3>5, <3>6, <3>7,
           AnswersFrame DEF Safe
    <2> QED
      BY <2>2, <2>3, <2>4
  <1> QED
    BY <1>6, <1>7, <1>8, <1>9

\* A discovery of the version in use is the only one, and owns the entry.
LEMMA NobodyFetchesThis ==
  ASSUME Safe, NEW c \in Callers, Install(c), NEW d \in Callers, pc[d] \in Fetching
  PROVE  mine[d] # version
  <1>1. SUFFICES ASSUME mine[d] = version PROVE FALSE
    OBVIOUS
  <1>2. Installed(d) /\ mine[d] = entry.version
    BY <1>1 DEF Safe, Structure, Ownership
  <1> QED
    BY <1>1, <1>2 DEF Install, Current, Installed

LEMMA InstallStep ==
  ASSUME Safe, NEW c \in Callers, Install(c)
  PROVE  Safe'
  <1>0. TypeOK /\ TypeOK'
    BY TypeStep DEF Safe, Next, Step
  <1>1. /\ entry' = Pending(c) /\ mine'[c] = version /\ pc'[c] = "fetch"
        /\ pc[c] = "lookup"
        /\ \A d \in Callers : d # c => pc'[d] = pc[d] /\ mine'[d] = mine[d]
        /\ UNCHANGED <<version, got, waitsFor, answer, asked, epoch, retired, outdated>>
    BY <1>0 DEF Install, TypeOK
  <1>2. /\ entry'.version = version /\ entry'.open /\ entry'.owner = c
        /\ entry'.good = Inherited /\ entry'.result.kind = "pending"
        /\ entry' # None
    <2>1. Inherited \in MaybeCatalog
      BY <1>0 DEF TypeOK, Inherited, EntryObjects, MaybeCatalog
    <2>2. Pending(c) \in EntryObjects
      BY <1>0, <2>1, DurationsAssumption DEF TypeOK, Pending, EntryObjects, Nothing,
         Results, MaybeCatalog, Times
    <2> QED
      BY <1>1, <2>2, NoneIsNothing DEF Pending, Nothing
  <1>3. \A d \in Callers : (d # c /\ pc'[d] \in Fetching) =>
          pc[d] \in Fetching /\ mine'[d] = mine[d] /\ mine[d] # version
    BY <1>1, NobodyFetchesThis
  <1>4. Fence'
    BY <1>0, <1>1, <1>2, <1>3, NoneIsNothing DEF Safe, Structure, Fence, TypeOK, Versions
  <1>5. Ownership'
    <2>1. \A d \in Callers : Installed(d)' <=> d = c
      BY <1>2 DEF Installed
    <2> QED
      BY <1>1, <1>2, <1>3, <2>1 DEF Ownership, Fetching
  <1>6. OneFetchPerVersion'
    BY <1>1, <1>3 DEF Safe, Structure, OneFetchPerVersion, Fetching
  <1>7. Contents' /\ ResultIsNew'
    BY <1>2 DEF Contents, ResultIsNew
  <1>8. GoodIsOurs'
    BY <1>1, <1>2 DEF Safe, Structure, GoodIsOurs, Inherited
  <1>9. FetchedIsNew'
    BY <1>1 DEF Safe, Structure, FetchedIsNew
  <1>10. WaitersWait'
    BY <1>1 DEF Safe, WaitersWait
  <1>11. Answers'
    <2>1. retired <= retired' /\ outdated <= outdated'
      BY <1>0, <1>1 DEF TypeOK, Epochs
    <2> QED
      BY <1>0, <1>1, <2>1, AnswersFrame
  <1> QED
    BY <1>0, <1>4, <1>5, <1>6, <1>7, <1>8, <1>9, <1>10, <1>11 DEF Safe, Structure

LEMMA FetchStep ==
  ASSUME Safe, NEW c \in Callers, Fetch(c)
  PROVE  Safe'
  <1>0. TypeOK /\ TypeOK'
    BY TypeStep DEF Safe, Next, Step
  <1>1. /\ pc[c] = "fetch" /\ pc'[c] = "fetched"
        /\ \A d \in Callers : d # c => pc'[d] = pc[d] /\ got'[d] = got[d]
        /\ UNCHANGED <<version, entry, mine, waitsFor, answer, asked, retired, outdated>>
    BY <1>0 DEF Fetch, TypeOK
  <1>2. got'[c].epoch = epoch' /\ epoch <= epoch'
    BY <1>0 DEF Fetch, TypeOK, Epochs, Outcomes
  <1>3. /\ epoch \in Nat /\ epoch' \in Nat /\ retired \in Nat /\ outdated \in Nat
        /\ retired <= epoch /\ outdated <= epoch
    BY <1>0 DEF TypeOK, Epochs, Safe, Structure, Fence
  <1>4. \A d \in Callers : /\ (pc'[d] \in Fetching) <=> (pc[d] \in Fetching)
                           /\ Installed(d)' <=> Installed(d)
    BY <1>1 DEF Fetching, Installed
  <1>5. Fence'
    <2>1. \A d \in Callers : pc'[d] = "fetched" => got'[d].epoch <= epoch'
      <3>1. \A d \in Callers : got[d].epoch \in Nat
        BY <1>0 DEF TypeOK, Epochs
      <3> QED
        BY <1>1, <1>2, <1>3, <3>1 DEF Safe, Structure, Fence
    <2>2. retired' <= epoch' /\ outdated' <= epoch'
      BY <1>1, <1>2, <1>3
    <2> QED
      BY <1>1, <1>4, <2>1, <2>2 DEF Safe, Structure, Fence
  <1>6. Ownership' /\ OneFetchPerVersion' /\ Contents' /\ GoodIsOurs'
    BY <1>1, <1>4 DEF Safe, Structure, Ownership, OneFetchPerVersion, Contents, GoodIsOurs
  <1>7. ResultIsNew'
    BY <1>1 DEF Safe, Structure, ResultIsNew, Current
  <1>8. FetchedIsNew'
    BY <1>1, <1>2, <1>3 DEF Safe, Structure, FetchedIsNew
  <1>9. WaitersWait'
    BY <1>1 DEF Safe, WaitersWait
  <1>10. Answers'
    BY <1>0, <1>1, <1>3, AnswersFrame
  <1> QED
    BY <1>0, <1>5, <1>6, <1>7, <1>8, <1>9, <1>10 DEF Safe, Structure

\* Ending a discovery, with or without publishing, disturbs no other one.
LEMMA FinishFrame ==
  ASSUME Safe, NEW c \in Callers, pc[c] = "fetched", NEW result, Finish(c, result)
  PROVE  /\ pc'[c] = "returned" /\ answer'[c] = result
         /\ \A d \in Callers : d # c =>
              /\ (pc'[d] \in Fetching) <=> (pc[d] \in Fetching)
              /\ pc'[d] = "fetched" => pc[d] = "fetched"
              /\ pc'[d] = "returned" => pc[d] = "returned"
              /\ mine'[d] = mine[d] /\ got'[d] = got[d] /\ answer'[d] = answer[d]
         /\ WaitersWait'
  <1>1. \A d \in Callers : d # c =>
          /\ mine'[d] = mine[d] /\ got'[d] = got[d] /\ answer'[d] = answer[d]
    BY DEF Finish, Safe, TypeOK
  <1>2. pc'[c] = "returned" /\ answer'[c] = result
    BY DEF Finish, Safe, TypeOK
  <1>3. \A d \in Callers : d # c =>
          pc'[d] = IF waitsFor[d] = c THEN "lookup" ELSE pc[d]
    BY DEF Finish
  <1>4. \A d \in Callers : waitsFor[d] = c => pc[d] = "wait"
    BY NoneIsNothing DEF Safe, WaitersWait
  <1>5. \A d \in Callers : waitsFor'[d] = IF waitsFor[d] = c THEN None ELSE waitsFor[d]
    BY DEF Finish
  <1>6. WaitersWait'
    BY <1>2, <1>3, <1>5 DEF Safe, WaitersWait
  <1>7. \A d \in Callers : d # c =>
              /\ (pc'[d] \in Fetching) <=> (pc[d] \in Fetching)
              /\ pc'[d] = "fetched" => pc[d] = "fetched"
              /\ pc'[d] = "returned" => pc[d] = "returned"
    BY <1>3, <1>4 DEF Fetching
  <1> QED
    BY <1>1, <1>2, <1>6, <1>7

LEMMA DiscardStep ==
  ASSUME Safe, NEW c \in Callers, Discard(c)
  PROVE  Safe'
  <1>0. TypeOK /\ TypeOK'
    BY TypeStep DEF Safe, Next, Step
  <1>1. /\ pc[c] = "fetched" /\ Finish(c, Error)
        /\ entry' = IF Installed(c) THEN [entry EXCEPT !.open = FALSE] ELSE entry
        /\ UNCHANGED <<version, asked, epoch, retired, outdated>>
    BY DEF Discard
  <1>2. /\ pc'[c] = "returned" /\ answer'[c] = Error
        /\ \A d \in Callers : d # c =>
              /\ (pc'[d] \in Fetching) <=> (pc[d] \in Fetching)
              /\ pc'[d] = "fetched" => pc[d] = "fetched"
              /\ pc'[d] = "returned" => pc[d] = "returned"
              /\ mine'[d] = mine[d] /\ got'[d] = got[d] /\ answer'[d] = answer[d]
        /\ WaitersWait'
    BY <1>1, FinishFrame
  <1>3. /\ entry = None => entry' = None
        /\ entry # None => /\ entry' # None
                           /\ entry'.version = entry.version /\ entry'.good = entry.good
                           /\ entry'.result = entry.result /\ entry'.next = entry.next
                           /\ entry'.owner = entry.owner
                           /\ entry'.open => entry.open
    <2>1. entry # None => entry \in EntryObjects
      BY <1>0 DEF TypeOK
    <2>2. entry' # None \/ entry' = entry
      BY <1>0, <1>1, <2>1, NoneIsNothing DEF Installed, EntryObjects
    <2> QED
      BY <1>1, <2>1, <2>2 DEF Installed, EntryObjects
  <1>4. \A d \in Callers : Installed(d)' <=> Installed(d) /\ d # c
    <2>1. CASE Installed(c)
      <3>1. entry \in EntryObjects
        BY <1>0, <2>1 DEF TypeOK, Installed
      <3>2. ~entry'.open
        BY <1>1, <2>1, <3>1 DEF EntryObjects
      <3> QED
        BY <2>1, <3>2 DEF Installed
    <2>2. CASE ~Installed(c)
      BY <1>1, <2>2 DEF Installed
    <2> QED
      BY <2>1, <2>2
  <1>5. pc'[c] \notin Fetching
    BY <1>2 DEF Fetching
  <1>6. Fence'
    BY <1>1, <1>2, <1>3, <1>5 DEF Safe, Structure, Fence
  <1>7. Ownership'
    <2>1. \A d \in Callers : Installed(d)' => pc'[d] \in Fetching /\ mine'[d] = entry'.version
      BY <1>2, <1>3, <1>4 DEF Safe, Structure, Ownership, Installed
    <2>2. \A d \in Callers : (pc'[d] \in Fetching /\ mine'[d] = version') => Installed(d)'
      BY <1>1, <1>2, <1>4, <1>5 DEF Safe, Structure, Ownership
    <2> QED
      BY <2>1, <2>2 DEF Ownership
  <1>8. OneFetchPerVersion'
    BY <1>2, <1>5 DEF Safe, Structure, OneFetchPerVersion
  <1>9. Contents' /\ GoodIsOurs'
    BY <1>1, <1>3 DEF Safe, Structure, Contents, GoodIsOurs
  <1>10. ResultIsNew'
    BY <1>1, <1>3 DEF Safe, Structure, ResultIsNew, Current
  <1>11. FetchedIsNew'
    BY <1>1, <1>2 DEF Safe, Structure, FetchedIsNew
  <1>12. Answers'
    <2>1. retired <= retired' /\ outdated <= outdated'
      BY <1>0, <1>1 DEF TypeOK, Epochs
    <2>2. answer'[c].kind = "error"
      BY <1>2 DEF Error
    <2> QED
      BY <1>0, <1>1, <1>2, <2>1, <2>2, AnswersFrame
  <1> QED
    BY <1>0, <1>2, <1>6, <1>7, <1>8, <1>9, <1>10, <1>11, <1>12 DEF Safe, Structure

LEMMA PublishStep ==
  ASSUME Safe, NEW c \in Callers, Publish(c)
  PROVE  Safe'
  <1> DEFINE f == got[c]
             new == Filled(f)
  <1>0. TypeOK /\ TypeOK'
    BY TypeStep DEF Safe, Next, Step
  <1>1. /\ pc[c] = "fetched" /\ mine[c] = version /\ Installed(c)
        /\ entry' = new /\ Finish(c, new.result)
        /\ UNCHANGED <<version, asked, epoch, outdated, now>>
        /\ retired' = IF f.outcome \in {"hard", "fallback"} /\ f.epoch > retired
                      THEN f.epoch ELSE retired
    BY DEF Publish
  <1>2. /\ pc'[c] = "returned" /\ answer'[c] = new.result
        /\ \A d \in Callers : d # c =>
              /\ (pc'[d] \in Fetching) <=> (pc[d] \in Fetching)
              /\ pc'[d] = "fetched" => pc[d] = "fetched"
              /\ pc'[d] = "returned" => pc[d] = "returned"
              /\ mine'[d] = mine[d] /\ got'[d] = got[d] /\ answer'[d] = answer[d]
        /\ WaitersWait'
    BY <1>1, FinishFrame
  <1>3. /\ entry \in EntryObjects /\ f \in [outcome : Outcomes, epoch : Epochs]
        /\ entry # None /\ entry.version = version
    BY <1>0, <1>1 DEF TypeOK, Installed, Safe, Structure, Ownership
  <1>4. /\ new \in EntryObjects
        /\ new.version = entry.version /\ ~new.open
        /\ new.good # None =>
             \/ new.good = [epoch |-> f.epoch, born |-> now] /\ f.outcome = "ok"
             \/ new.good = entry.good /\ Reusable(entry.good)
        /\ f.outcome \in {"hard", "fallback"} => new.good = None
        /\ new.result.kind \in {"fresh", "last-good"} =>
             new.good # None /\ new.result.catalog = new.good
        /\ new.result.kind = "fresh" =>
             /\ f.outcome = "ok" /\ new.next = now + Ttl
             /\ new.good = [epoch |-> f.epoch, born |-> now]
        /\ new.result.kind = "fallback" =>
             new.result.catalog = [epoch |-> f.epoch, born |-> now]
    BY <1>0, <1>3, FilledFacts
  <1> HIDE DEF new
  <1>5. new # None /\ new.good \in MaybeCatalog
    BY <1>4, NoneIsNothing DEF EntryObjects
  <1>6. /\ f.epoch \in Nat /\ retired \in Nat /\ outdated \in Nat /\ epoch \in Nat
        /\ f.epoch >= retired /\ f.epoch >= outdated /\ f.epoch <= MaxEpoch
    BY <1>0, <1>1, <1>3 DEF TypeOK, Epochs, Safe, Structure, FetchedIsNew
  <1>7. retired <= retired' /\ retired' \in Nat
    BY <1>1, <1>6
  <1>8. new.good # None => new.good.epoch >= retired
    <2>1. entry.good # None => entry.good.epoch >= retired
      BY <1>3 DEF Safe, Structure, GoodIsOurs
    <2>2. [epoch |-> f.epoch, born |-> now].epoch = f.epoch
      OBVIOUS
    <2> QED
      BY <1>4, <1>6, <2>1, <2>2
  <1>9. new.good # None => retired' = retired
    BY <1>1, <1>4
  <1>10. new.result.kind \in {"fresh", "fallback"} => new.result.catalog.epoch = f.epoch
    BY <1>4
  <1>11. pc'[c] \notin Fetching
    BY <1>2 DEF Fetching
  <1>12. \A d \in Callers : d # c /\ pc[d] \in Fetching => mine[d] # version
    BY <1>1 DEF Safe, Structure, OneFetchPerVersion, Fetching
  <1>13. Fence'
    <2>1. retired' <= epoch'
      <3>1. f.epoch <= epoch
        BY <1>1 DEF Safe, Structure, Fence
      <3> QED
        BY <1>1, <1>6, <3>1 DEF Safe, Structure, Fence
    <2> QED
      BY <1>1, <1>2, <1>3, <1>4, <1>11, <2>1 DEF Safe, Structure, Fence
  <1>14. Ownership'
    <2>1. \A d \in Callers : ~Installed(d)'
      BY <1>1, <1>4 DEF Installed
    <2> QED
      BY <1>1, <1>2, <1>11, <1>12, <2>1 DEF Ownership
  <1>15. OneFetchPerVersion'
    BY <1>2, <1>11 DEF Safe, Structure, OneFetchPerVersion
  <1>16. Contents'
    <2>1. new.result.kind = "fresh" => new.good.born = now
      BY <1>4
    <2>2. new.result.kind = "fallback" => new.result.catalog # None
      <3>1. [epoch |-> f.epoch, born |-> now] \in Catalogs
        BY <1>0, <1>3 DEF Catalogs, TypeOK
      <3> QED
        BY <1>4, <3>1, NoneIsNothing
    <2> QED
      BY <1>1, <1>4, <2>1, <2>2 DEF Contents
  <1>17. GoodIsOurs'
    BY <1>1, <1>8, <1>9 DEF GoodIsOurs
  <1>18. ResultIsNew'
    BY <1>1, <1>6, <1>10 DEF ResultIsNew
  <1>19. FetchedIsNew'
    BY <1>1, <1>2, <1>11, <1>12 DEF FetchedIsNew, Fetching
  <1>20. Answers'
    <2>1. /\ asked[c].served <= retired /\ asked[c].fresh <= outdated
          /\ asked[c].served \in Nat /\ asked[c].fresh \in Nat
      BY <1>0 DEF Safe, Answers, AskedBefore, TypeOK, Epochs
    <2>2. new.result.kind \in {"fresh", "last-good", "fallback"} =>
            new.result.catalog # None
      BY <1>1, <1>5, <1>16 DEF Contents
    <2>3. new.result.kind \in {"fresh", "last-good"} =>
            new.result.catalog.epoch >= asked[c].served
      <3>1. new.result.kind \in {"fresh", "last-good"} =>
              new.result.catalog \in Catalogs /\ new.result.catalog.epoch >= retired
        BY <1>4, <1>5, <1>8 DEF MaybeCatalog
      <3> QED
        BY <2>1, <1>6, <3>1 DEF Catalogs, Epochs
    <2>4. new.result.kind \in {"fresh", "fallback"} =>
            new.result.catalog.epoch >= asked[c].fresh
      BY <1>6, <1>10, <2>1
    <2>5. outdated <= outdated'
      BY <1>1, <1>6
    <2> QED
      BY <1>0, <1>1, <1>2, <1>7, <2>2, <2>3, <2>4, <2>5, AnswersFrame
  <1> QED
    BY <1>0, <1>2, <1>13, <1>14, <1>15, <1>16, <1>17, <1>18, <1>19, <1>20
       DEF Safe, Structure
-----------------------------------------------------------------------------
\* The environment's steps leave the callers alone.
LEMMA EnvironmentAnswers ==
  ASSUME Safe, TypeOK', UNCHANGED cacheVars, retired <= retired', outdated <= outdated'
  PROVE  WaitersWait' /\ Answers'
  <1>1. UNCHANGED <<pc, waitsFor, answer, asked>>
    BY DEF cacheVars
  <1>2. Answers'
    <2>1. \A d \in Callers : pc'[d] = "returned" =>
            pc[d] = "returned" /\ answer'[d] = answer[d]
      BY <1>1
    <2>2. \A d \in Callers : d # None
      BY NoneIsNothing
    <2> QED
      BY <1>1, <2>1, <2>2, AnswersFrame
  <1> QED
    BY <1>1, <1>2 DEF Safe, WaitersWait

LEMMA SaveAccountStep == Safe /\ SaveAccount => Safe'
  <1> SUFFICES ASSUME Safe, SaveAccount PROVE Safe'
    OBVIOUS
  <1>0. TypeOK /\ TypeOK'
    BY TypeStep DEF Safe, Next
  <1>1. /\ UNCHANGED <<version, entry, pc, mine, got, retired, outdated>>
        /\ UNCHANGED cacheVars /\ epoch' = epoch + 1
    BY DEF SaveAccount, cacheVars
  <1>2. /\ epoch \in Nat /\ retired \in Nat /\ outdated \in Nat
        /\ \A d \in Callers : got[d].epoch \in Nat
    BY <1>0 DEF TypeOK, Epochs
  <1>3. Fence'
    BY <1>1, <1>2 DEF Safe, Structure, Fence
  <1>4. Ownership' /\ OneFetchPerVersion' /\ Contents' /\ GoodIsOurs'
    BY <1>1 DEF Safe, Structure, Ownership, Installed, OneFetchPerVersion, Contents,
       GoodIsOurs
  <1>5. ResultIsNew' /\ FetchedIsNew'
    BY <1>1 DEF Safe, Structure, ResultIsNew, Current, FetchedIsNew
  <1>6. WaitersWait' /\ Answers'
    BY <1>0, <1>1, <1>2, EnvironmentAnswers
  <1> QED
    BY <1>0, <1>3, <1>4, <1>5, <1>6 DEF Safe, Structure

\* Once the version has moved on, nothing carries the current one.
LEMMA NewVersionStep ==
  ASSUME Safe, Invalidate \/ Refresh
  PROVE  Safe'
  <1>0. TypeOK /\ TypeOK'
    BY TypeStep DEF Safe, Next
  <1>1. UNCHANGED <<entry, pc, mine, got>> /\ UNCHANGED cacheVars
    BY DEF Invalidate, Refresh, cacheVars
  <1>2. /\ version.lifecycle \in Nat /\ version.refresh \in Nat
        /\ version'.lifecycle \in Nat /\ version'.refresh \in Nat
        /\ version.lifecycle <= version'.lifecycle
        /\ version.refresh <= version'.refresh
        /\ \/ version.lifecycle < version'.lifecycle
           \/ version.refresh < version'.refresh
    <2>1. version.lifecycle \in Nat /\ version.refresh \in Nat
      BY <1>0 DEF TypeOK, Versions
    <2>2. CASE Invalidate
      <3>1. version' = [version EXCEPT !.lifecycle = @ + 1]
        BY <2>2 DEF Invalidate
      <3>2. version'.lifecycle = version.lifecycle + 1 /\ version'.refresh = version.refresh
        BY <1>0, <3>1 DEF TypeOK, Versions
      <3> QED
        BY <2>1, <3>2
    <2>3. CASE Refresh
      <3>1. version' = [version EXCEPT !.refresh = @ + 1]
        BY <2>3 DEF Refresh
      <3>2. version'.lifecycle = version.lifecycle /\ version'.refresh = version.refresh + 1
        BY <1>0, <3>1 DEF TypeOK, Versions
      <3> QED
        BY <2>1, <3>2
    <2> QED
      BY <2>2, <2>3
  <1>3. /\ epoch \in Nat /\ epoch' \in Nat /\ retired \in Nat /\ retired' \in Nat
        /\ outdated \in Nat /\ outdated' \in Nat
        /\ retired <= epoch /\ outdated <= epoch /\ epoch <= epoch'
        /\ retired' <= epoch' /\ outdated' <= epoch'
        /\ retired <= retired' /\ outdated <= outdated'
    BY <1>0 DEF Invalidate, Refresh, TypeOK, Epochs, Safe, Structure, Fence
  <1>4. ASSUME NEW c \in Callers, pc[c] \in Fetching
        PROVE  /\ mine[c] # None /\ mine[c] \in Versions
               /\ mine[c].lifecycle <= version.lifecycle
               /\ mine[c].refresh <= version.refresh
               /\ mine[c].lifecycle <= version'.lifecycle
               /\ mine[c].refresh <= version'.refresh
               /\ mine[c] # version'
    <2>1. /\ mine[c] # None /\ mine[c].lifecycle <= version.lifecycle
          /\ mine[c].refresh <= version.refresh
      BY <1>4 DEF Safe, Structure, Fence
    <2>2. mine[c] \in Versions
      BY <1>0, <2>1 DEF TypeOK
    <2> QED
      BY <1>2, <2>1, <2>2 DEF Versions
  <1>5. ASSUME entry # None
        PROVE  /\ entry.version.lifecycle <= version'.lifecycle
               /\ entry.version.refresh <= version'.refresh
               /\ entry.version # version'
    <2>1. /\ entry.version.lifecycle <= version.lifecycle
          /\ entry.version.refresh <= version.refresh
      BY <1>5 DEF Safe, Structure, Fence
    <2>2. entry.version \in Versions
      BY <1>0, <1>5 DEF TypeOK, EntryObjects
    <2> QED
      BY <1>2, <2>1, <2>2 DEF Versions
  <1>6. Fence'
    <2>1. \A c \in Callers : pc[c] = "fetched" => got[c].epoch <= epoch'
      <3>1. \A c \in Callers : got[c].epoch \in Nat
        BY <1>0 DEF TypeOK, Epochs
      <3> QED
        BY <1>3, <3>1 DEF Safe, Structure, Fence
    <2> QED
      BY <1>1, <1>3, <1>4, <1>5, <2>1 DEF Fence
  <1>7. Ownership'
    <2>1. \A c \in Callers : Installed(c)' <=> Installed(c)
      BY <1>1 DEF Installed
    <2> QED
      BY <1>1, <1>4, <2>1 DEF Safe, Structure, Ownership
  <1>8. OneFetchPerVersion' /\ Contents'
    BY <1>1 DEF Safe, Structure, OneFetchPerVersion, Contents
  <1>9. GoodIsOurs'
    <2>1. CASE Invalidate
      <3>1. entry # None => entry.version.lifecycle # version'.lifecycle
        <4> SUFFICES ASSUME entry # None
                     PROVE  entry.version.lifecycle # version'.lifecycle
          OBVIOUS
        <4>1. entry.version \in Versions
          BY <1>0 DEF TypeOK, EntryObjects
        <4>2. entry.version.lifecycle <= version.lifecycle
          BY DEF Safe, Structure, Fence
        <4>3. version'.lifecycle = version.lifecycle + 1
          BY <1>0, <2>1 DEF Invalidate, TypeOK, Versions
        <4> QED
          BY <1>2, <4>1, <4>2, <4>3 DEF Versions
      <3> QED
        BY <1>1, <3>1 DEF GoodIsOurs
    <2>2. CASE Refresh
      <3>1. version'.lifecycle = version.lifecycle /\ retired' = retired
        BY <1>0, <2>2 DEF Refresh, TypeOK, Versions
      <3> QED
        BY <1>1, <3>1 DEF Safe, Structure, GoodIsOurs
    <2> QED
      BY <2>1, <2>2
  <1>10. ResultIsNew' /\ FetchedIsNew'
    BY <1>1, <1>4, <1>5 DEF ResultIsNew, Current, FetchedIsNew, Fetching
  <1>11. WaitersWait' /\ Answers'
    BY <1>0, <1>1, <1>3, EnvironmentAnswers
  <1> QED
    BY <1>0, <1>6, <1>7, <1>8, <1>9, <1>10, <1>11 DEF Safe, Structure

LEMMA TickStep == Safe /\ (Tick \/ UNCHANGED vars) => Safe'
  <1> SUFFICES ASSUME Safe, Tick \/ UNCHANGED vars PROVE Safe'
    OBVIOUS
  <1>0. TypeOK /\ TypeOK'
    BY TypeStep DEF Safe, Next
  <1>1. /\ UNCHANGED <<version, entry, pc, mine, got, epoch, retired, outdated>>
        /\ UNCHANGED cacheVars
    BY DEF Tick, vars, cacheVars
  <1>2. Structure'
    BY <1>1, StructureFrame
  <1>3. retired <= retired' /\ outdated <= outdated'
    BY <1>0, <1>1 DEF TypeOK, Epochs
  <1>4. WaitersWait' /\ Answers'
    BY <1>0, <1>1, <1>3, EnvironmentAnswers
  <1> QED
    BY <1>0, <1>2, <1>4 DEF Safe

LEMMA SafeStep == Safe /\ [Next]_vars => Safe'
  BY QuietSteps, InstallStep, FetchStep, DiscardStep, PublishStep, SaveAccountStep,
     NewVersionStep, TickStep DEF Next, Step

\* An answer is young enough at the step that gives it.
LEMMA AnswerIsYoung ==
  ASSUME Safe, [Next]_vars, NEW c \in Callers, pc[c] # "returned", pc'[c] = "returned"
  PROVE  /\ answer'[c].kind = "fresh" => now < answer'[c].catalog.born + Ttl
         /\ answer'[c].kind = "last-good" => now < answer'[c].catalog.born + MaxStale
  <1>0. TypeOK
    BY DEF Safe
  <1>1. CASE Hit(c)
    <2>1. /\ answer'[c] = Served /\ now < entry.next /\ entry # None
      BY <1>0, <1>1 DEF Hit, Live, Current, TypeOK
    <2>2. /\ entry.result.kind \in {"fresh", "last-good"} =>
               entry.result.catalog = entry.good
          /\ entry.result.kind = "fresh" => entry.next = entry.good.born + Ttl
      BY <2>1 DEF Safe, Structure, Contents
    <2> QED
      BY <2>1, <2>2 DEF Served, Error, Reusable
  <1>2. CASE Publish(c)
    <2>1. /\ entry \in EntryObjects /\ got[c] \in [outcome : Outcomes, epoch : Epochs]
          /\ answer'[c] = Filled(got[c]).result
      BY <1>0, <1>2 DEF Publish, Installed, Finish, TypeOK
    <2>2. /\ Filled(got[c]).result.kind \in {"fresh", "last-good"} =>
               Filled(got[c]).result.catalog = Filled(got[c]).good
          /\ Filled(got[c]).result.kind = "fresh" =>
               Filled(got[c]).good = [epoch |-> got[c].epoch, born |-> now]
          /\ Filled(got[c]).result.kind = "last-good" =>
               Reusable(entry.good) /\ Filled(got[c]).good = entry.good
      BY <1>0, <2>1, FilledFacts
    <2>3. now < now + Ttl
      BY <1>0, DurationsAssumption DEF TypeOK
    <2> QED
      BY <2>1, <2>2, <2>3 DEF Reusable
  <1>3. CASE Discard(c)
    <2>1. answer'[c] = Error
      BY <1>0, <1>3 DEF Discard, Finish, TypeOK
    <2> QED
      BY <2>1 DEF Error
  <1>4. ASSUME NEW d \in Callers, Discard(d) \/ Publish(d), d # c PROVE FALSE
    <2>1. pc[d] = "fetched" /\ \E result : Finish(d, result)
      BY <1>4 DEF Discard, Publish
    <2> QED
      BY <1>4, <2>1, FinishFrame
  <1>5. ASSUME NEW d \in Callers, Call(d) \/ Hit(d) \/ Join(d) \/ Install(d)
                                  \/ Fetch(d) \/ Leave(d)
        PROVE  Hit(c)
    BY <1>0, <1>5 DEF Call, Hit, Join, Install, Fetch, Leave, TypeOK
  <1>6. CASE SaveAccount \/ Invalidate \/ Refresh \/ Tick \/ UNCHANGED vars
    BY <1>6 DEF SaveAccount, Invalidate, Refresh, Tick, vars, cacheVars
  <1> QED
    BY <1>1, <1>2, <1>3, <1>4, <1>5, <1>6 DEF Next, Step

-----------------------------------------------------------------------------
\* The invariant that carries the others holds in every reachable state.
THEOREM SpecSafe == Spec => []Safe
  BY InitSafe, SafeStep, PTL DEF Spec

\* Type correctness of the cache, of the callers and of the history.
THEOREM CatalogType == Spec => []TypeOK
  <1>1. Safe => TypeOK
    BY DEF Safe
  <1> QED
    BY <1>1, SpecSafe, PTL

\* No Get hands out a catalog of an account that was replaced, or of before a
\* published hard failure, when the caller called after that: whatever the
\* number of callers and changes and the interleaving of Get and Invalidate.
THEOREM NoRetiredCatalog == Spec => []NothingRetired
  <1>1. Safe => NothingRetired
    BY DEF Safe, Answers
  <1> QED
    BY <1>1, SpecSafe, PTL

\* What Get returns as current was read after the last refresh before the call.
THEOREM FreshAfterRefresh == Spec => []FreshIsNew
  <1>1. Safe => FreshIsNew
    BY DEF Safe, Answers
  <1> QED
    BY <1>1, SpecSafe, PTL

\* Callers coalesce: no two discoveries of one version run side by side.
THEOREM CallersCoalesce == Spec => []OneFetchPerVersion
  <1>1. Safe => OneFetchPerVersion
    BY DEF Safe, Structure
  <1> QED
    BY <1>1, SpecSafe, PTL

\* Fresh answers are younger than ttl and last-good ones younger than maxStale
\* at the step that returns them.
THEOREM AnswersAreYoung == Spec => StaleIsBounded
  <1>1. Safe /\ [Next]_vars =>
          [\A c \in Callers :
             (pc[c] # "returned" /\ pc'[c] = "returned") =>
               LET given == answer'[c] IN
               /\ given.kind = "fresh" => now < given.catalog.born + Ttl
               /\ given.kind = "last-good" => now < given.catalog.born + MaxStale]_vars
    BY AnswerIsYoung
  <1> QED
    BY <1>1, SpecSafe, PTL DEF Spec, StaleIsBounded
=============================================================================
