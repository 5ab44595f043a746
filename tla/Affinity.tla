------------------------------ MODULE Affinity ------------------------------
(***************************************************************************)
(* The channel affinity cache of src/internal/lib/affinity/affinity.go: a  *)
(* bounded map from a conversation's stable head to the provider instance  *)
(* that served it last.  Every operation runs under c.mu and is one step.  *)
(*                                                                         *)
(* The requests of this model share one conversation head and one user, so *)
(* that the hash of the head is told apart by the model name alone.  Time  *)
(* is abstracted: an entry's expiry may pass at any moment.                *)
(***************************************************************************)
EXTENDS Naturals, Sequences, FiniteSets

CONSTANTS
  Keys,         \* model names hashed into a key
  Instances,    \* provider instance IDs
  MaxEntries,   \* c.cfg.MaxEntries
  OrderBound,   \* bound of the model: no entry expires while order is longer
  None          \* no entry

ASSUME EntriesAssumption == MaxEntries \in Nat \ {0} /\ OrderBound \in Nat

\* None is no instance and no cache entry.
ASSUME NoneAssumption ==
  /\ None \notin Instances
  /\ None \notin [instance : Instances, expired : BOOLEAN]

VARIABLES
  data,     \* c.data
  order     \* c.order, oldest insertion first

affinityVars == <<data, order>>

Entries == [instance : Instances, expired : BOOLEAN]

Cached(d) == {k \in Keys : d[k] # None}

(***************************************************************************)
(* The map stays within its capacity, although keys deleted on expiry stay *)
(* in order and come back a second time, so that eviction pops keys which  *)
(* free nothing (lines 291 and 321); and every entry can still be evicted: *)
(* its key is somewhere in order, however expiry, re-recording and         *)
(* eviction interleave.                                                    *)
(***************************************************************************)
CacheBounded ==
  /\ Cardinality(Cached(data)) <= MaxEntries
  /\ \A k \in Cached(data) : \E n \in 1..Len(order) : order[n] = k

\* The values of the cache, within its bound.
AffinityTypeOK ==
  /\ data \in [Keys -> Entries \cup {None}]
  /\ order \in Seq(Keys)
  /\ CacheBounded

AffinityInit == data = [k \in Keys |-> None] /\ order = <<>>

-----------------------------------------------------------------------------
\* Lookup's answer: the pinned instance, unless there is none or it expired.
Pinned(k) ==
  IF data[k] # None /\ ~data[k].expired THEN data[k].instance ELSE None

\* Lookup's effect: an expired entry leaves the map, and stays in order.
LookUp(k) ==
  /\ data' = IF data[k] # None /\ data[k].expired
             THEN [data EXCEPT ![k] = None] ELSE data
  /\ UNCHANGED order

\* The keys of the first n elements of o.
Oldest(o, n) == {o[i] : i \in 1..n}

\* evictLocked pops keys off order until the map fits or order is empty.
Fits(d, o, n) == Cardinality(Cached(d) \ Oldest(o, n)) <= MaxEntries

Pops(d, o) ==
  CHOOSE n \in 0..Len(o) :
    /\ Fits(d, o, n) \/ n = Len(o)
    /\ \A m \in 0..(n - 1) : ~Fits(d, o, m)

Evicted(d, o) ==
  LET n == Pops(d, o)
  IN [map |-> [k \in Keys |-> IF k \in Oldest(o, n) THEN None ELSE d[k]],
      queue |-> SubSeq(o, n + 1, Len(o))]

\* Slip: the key is queued for eviction only when it replaces an entry.
RecordUnqueued(k, i) ==
  LET stored == [data EXCEPT ![k] = [instance |-> i, expired |-> FALSE]]
      queued == IF data[k] # None THEN Append(order, k) ELSE order
      result == Evicted(stored, queued)
  IN data' = result.map /\ order' = result.queue

\* Record: a key that is not in the map is appended to order, a new entry is
\* stored with a new expiry, and the map is cut down to its size.
Record(k, i) ==
  LET stored == [data EXCEPT ![k] = [instance |-> i, expired |-> FALSE]]
      queued == IF data[k] = None THEN Append(order, k) ELSE order
      result == Evicted(stored, queued)
  IN data' = result.map /\ order' = result.queue

\* The entry's expiresAt passes; the entry stays until it is looked up.
Expire(k) ==
  /\ data[k] # None /\ ~data[k].expired
  /\ Len(order) <= OrderBound
  /\ data' = [data EXCEPT ![k].expired = TRUE]
  /\ UNCHANGED order
=============================================================================
