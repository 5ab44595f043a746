------------------------------ MODULE StreamProofs ------------------------------
(***************************************************************************)
(* A streamed answer of any number of chunks and calls, of every upstream  *)
(* format and for every dialect.  The invariant, StreamSafe, says along    *)
(* the pipeline:                                                           *)
(*   - UpstreamFine: what was said is well formed, the parser knows each   *)
(*     call that was made, and one that waits for [DONE] remembers a       *)
(*     reason that is right;                                               *)
(*   - ReadyFine: of the events the handler has yet to take only the last  *)
(*     ends the stream; its reason is that of a turn of tools if calls     *)
(*     were made; and a body the parser closed has left such an event;     *)
(*   - HandlerFine: nothing concludes a message while the handler serves,  *)
(*     and what it has yet to write tells the client nothing but what      *)
(*     Verdict allows;                                                     *)
(*   - ClientFine: nor does what the client has read, and a client of an   *)
(*     answer without calls has none;                                      *)
(*   - StoreFine: what is accumulated ends with the upstream's answer.     *)
(* Parsing, normalizing, serializing and reading are functions of the      *)
(* state.  Each has its own lemmas here, the functions that fold over      *)
(* sequences among them, and the steps of the request rest on these.       *)
(***************************************************************************)
EXTENDS Streams, FiniteSetTheorems, SequenceTheorems, WellFoundedInduction, TLAPS

Less == {ss \in Nat \X Nat : ss[1] < ss[2]}
\* What holds of 0 and of n + 1 with n holds of every natural number.
LEMMA NaturalsAreReached ==
  ASSUME NEW T, 0 \in T, \A n \in Nat : n \in T => n + 1 \in T
  PROVE  Nat \subseteq T
<1> DEFINE R == Less
           Rest == {n \in Nat : n \notin T}
<1>1. IsWellFoundedOn(R, Nat)
  <2>1. Less = OpToRel(<, Nat)
    BY DEF OpToRel, Less
  <2> QED BY <2>1, NatLessThanWellFounded
<1>2. SUFFICES ASSUME Rest # {} PROVE FALSE
  BY Zenon
<1>3. \E x \in Rest : \A y \in Rest : ~(<<y, x>> \in R)
  <2>1. Rest \subseteq Nat
    OBVIOUS
  <2> HIDE DEF Rest, R
  <2> QED BY <1>1, <1>2, <2>1, WFMin, Zenon
<1>4. PICK x \in Rest : \A y \in Rest : ~(<<y, x>> \in Less)
  BY <1>3
<1>5. x \in Nat /\ x # 0 /\ x - 1 \in Nat /\ x = (x - 1) + 1
  BY SMT
<1>6. <<x - 1, x>> \in Less
  <2>1. x - 1 < x
    BY <1>5
  <2> QED BY <1>5, <2>1 DEF Less
<1>7. x - 1 \in T
  BY <1>4, <1>5, <1>6, Zenon
<1> QED
  BY <1>5, <1>7

(* Sequences put together, and folds.                                      *)
Flattening(seqs, n, f) ==
  f = [i \in 1..n |-> IF i = 1 THEN seqs[i] ELSE f[i - 1] \o seqs[i]]

\* A sequence of sequences can be put together from the left, one after the other,
LEMMA FlatteningExists ==
  ASSUME NEW seqs, NEW n \in Nat
  PROVE  \E f : Flattening(seqs, n, f)
<1> DEFINE T == {k \in Nat : \E f : Flattening(seqs, k, f)}
<1>1. 0 \in T
  <2>1. Flattening(seqs, 0, [i \in 1..0 |-> seqs[i]])
    BY SMT DEF Flattening
  <2> QED BY <2>1
<1>2. ASSUME NEW k \in Nat, k \in T PROVE k + 1 \in T
  <2>1. PICK f : Flattening(seqs, k, f)
    BY <1>2
  <2> DEFINE last == IF k + 1 = 1 THEN seqs[k + 1] ELSE f[k] \o seqs[k + 1]
             g == [i \in 1..(k + 1) |-> IF i = k + 1 THEN last ELSE f[i]]
  <2>2. g = [i \in 1..(k + 1) |-> IF i = 1 THEN seqs[i] ELSE g[i - 1] \o seqs[i]]
    <3> SUFFICES ASSUME NEW i \in 1..(k + 1)
                 PROVE  g[i] = IF i = 1 THEN seqs[i] ELSE g[i - 1] \o seqs[i]
      BY Zenon
    <3>1. CASE i = k + 1
      <4>1. i - 1 = k /\ (i # 1 => i - 1 \in 1..(k + 1) /\ i - 1 # k + 1)
        BY <3>1, SMT
      <4>2. g[i] = last
        BY <3>1
      <4>3. i # 1 => g[i - 1] = f[k]
        BY <4>1, Zenon
      <4> QED BY <3>1, <4>1, <4>2, <4>3, Zenon
    <3>2. CASE i # k + 1
      <4>1. i \in 1..k /\ i # k + 1 /\ (i # 1 => i - 1 \in 1..(k + 1) /\ i - 1 # k + 1)
        BY <3>2, SMT
      <4>2. g[i] = f[i]
        BY <4>1
      <4>3. f[i] = IF i = 1 THEN seqs[i] ELSE f[i - 1] \o seqs[i]
        BY <2>1, <4>1, Zenon DEF Flattening
      <4>4. i # 1 => g[i - 1] = f[i - 1]
        BY <4>1, Zenon
      <4> QED BY <4>2, <4>3, <4>4, Zenon
    <3> QED BY <3>1, <3>2
  <2>3. Flattening(seqs, k + 1, g)
    BY <2>2, Zenon DEF Flattening
  <2> HIDE DEF g
  <2> QED BY <2>3
<1> HIDE DEF T
<1>3. Nat \subseteq T
  BY <1>1, <1>2, NaturalsAreReached
<1> QED BY <1>3 DEF T

\* so that FlattenSeq, which the library defines by such a function, has the type it should.
LEMMA FlatType ==
  ASSUME NEW S, NEW seqs \in Seq(Seq(S))
  PROVE  FlattenSeq(seqs) \in Seq(S)
<1>1. CASE Len(seqs) = 0
  <2>1. seqs = <<>>
    BY <1>1
  <2>2. FlattenSeq(seqs) = <<>>
    BY <1>1, <2>1, Zenon DEF FlattenSeq
  <2> QED BY <2>2
<1>2. CASE Len(seqs) # 0
  <2> DEFINE n == Len(seqs)
             f == CHOOSE h : h = [i \in 1..n |-> IF i = 1 THEN seqs[i] ELSE h[i - 1] \o seqs[i]]
  <2>1. FlattenSeq(seqs) = f[n]
    BY <1>2, Zenon DEF FlattenSeq
  <2>2. n \in Nat /\ n >= 1
    BY <1>2
  <2>3. \E h : h = [i \in 1..n |-> IF i = 1 THEN seqs[i] ELSE h[i - 1] \o seqs[i]]
    BY <2>2, FlatteningExists, Zenon DEF Flattening
  <2>4. f = [i \in 1..n |-> IF i = 1 THEN seqs[i] ELSE f[i - 1] \o seqs[i]]
    BY <2>3, Zenon
  <2> HIDE DEF f
  <2> DEFINE T == {k \in Nat : k + 1 \in 1..n => f[k + 1] \in Seq(S)}
  <2>5. 0 \in T
    <3>1. 1 \in 1..n
      BY <2>2
    <3>2. f[1] = seqs[1]
      BY <2>4, <3>1, Zenon
    <3> QED BY <3>1, <3>2
  <2>6. ASSUME NEW k \in Nat, k \in T PROVE k + 1 \in T
    <3> SUFFICES ASSUME k + 2 \in 1..n PROVE f[k + 2] \in Seq(S)
      OBVIOUS
    <3>1. k + 1 \in 1..n /\ k + 2 # 1 /\ (k + 2) - 1 = k + 1
      BY SMT
    <3>2. f[k + 2] = f[k + 1] \o seqs[k + 2]
      BY <2>4, <3>1, Zenon
    <3>3. f[k + 1] \in Seq(S) /\ seqs[k + 2] \in Seq(S)
      BY <2>6, <3>1
    <3> QED BY <3>2, <3>3
  <2> HIDE DEF T
  <2>7. Nat \subseteq T
    BY <2>5, <2>6, NaturalsAreReached
  <2>8. n - 1 \in T /\ (n - 1) + 1 = n /\ n \in 1..n
    BY <2>2, <2>7
  <2>9. f[n] \in Seq(S)
    BY <2>8 DEF T
  <2> QED BY <2>1, <2>9
<1> QED BY <1>1, <1>2

(* The fold of Pass, run from the left.                                    *)
PassOne(r, e) == LET s == NormalizeEvent(r.state, e)
                 IN [state |-> s.state, events |-> r.events \o s.events]
Passing(events, D, it) ==
  it = [s \in SUBSET D |->
          IF s = {} THEN [state |-> normalizer, events |-> <<>>]
          ELSE PassOne(it[s \ {Max(s)}], events[Max(s)])]

\* The greatest index of a sequence is its length.
LEMMA MaxIsLast ==
  ASSUME NEW k \in Nat, NEW s \in SUBSET (1..k), k \in s
  PROVE  Max(s) = k
<1>1. \A m \in s : k >= m
  BY SMT
<1>2. \A m \in s : (\A l \in s : m >= l) => m = k
  BY SMT
<1>3. \E m \in s : \A l \in s : m >= l
  BY <1>1
<1> QED BY <1>2, <1>3, Zenon DEF Max

\* The fold of Pass can be run from the left, and what it leads to keeps to any property
LEMMA PassingExists ==
  ASSUME NEW events, NEW n \in Nat
  PROVE  \E it : Passing(events, 1..n, it)
<1> DEFINE T == {k \in Nat : \E it : Passing(events, 1..k, it)}
           base == [state |-> normalizer, events |-> <<>>]
<1>1. 0 \in T
  <2> DEFINE g == [s \in SUBSET (1..0) |-> base]
  <2>1. \A s \in SUBSET (1..0) : s = {}
    BY SMT
  <2>2. g = [s \in SUBSET (1..0) |-> IF s = {} THEN base ELSE PassOne(g[s \ {Max(s)}], events[Max(s)])]
    BY <2>1, Zenon
  <2>3. Passing(events, 1..0, g)
    BY <2>2, Zenon DEF Passing
  <2> HIDE DEF g
  <2> QED BY <2>3
<1>2. ASSUME NEW k \in Nat, k \in T PROVE k + 1 \in T
  <2>1. PICK it : Passing(events, 1..k, it)
    BY <1>2
  <2> DEFINE g == [s \in SUBSET (1..(k + 1)) |->
                     IF k + 1 \in s THEN PassOne(it[s \ {k + 1}], events[k + 1]) ELSE it[s]]
  <2>2. g = [s \in SUBSET (1..(k + 1)) |->
               IF s = {} THEN base ELSE PassOne(g[s \ {Max(s)}], events[Max(s)])]
    <3> SUFFICES ASSUME NEW s \in SUBSET (1..(k + 1))
                 PROVE  g[s] = IF s = {} THEN base ELSE PassOne(g[s \ {Max(s)}], events[Max(s)])
      BY Zenon
    <3>1. CASE k + 1 \in s
      <4>1. Max(s) = k + 1
        BY <3>1, MaxIsLast
      <4>2. s # {} /\ s \ {k + 1} \in SUBSET (1..(k + 1)) /\ k + 1 \notin s \ {k + 1}
        BY <3>1
      <4>3. g[s \ {k + 1}] = it[s \ {k + 1}]
        BY <4>2, Zenon
      <4>4. g[s] = PassOne(it[s \ {k + 1}], events[k + 1])
        BY <3>1, Zenon
      <4> QED BY <4>1, <4>2, <4>3, <4>4, Zenon
    <3>2. CASE k + 1 \notin s
      <4>1. s \in SUBSET (1..k)
        BY <3>2, SMT
      <4>2. g[s] = it[s]
        BY <3>2, Zenon
      <4>3. it[s] = IF s = {} THEN base ELSE PassOne(it[s \ {Max(s)}], events[Max(s)])
        BY <2>1, <4>1, Zenon DEF Passing
      <4>4. s \ {Max(s)} \in SUBSET (1..(k + 1)) /\ k + 1 \notin s \ {Max(s)}
        BY <3>2, Zenon
      <4>5. g[s \ {Max(s)}] = it[s \ {Max(s)}]
        BY <4>4, Zenon
      <4> QED BY <4>2, <4>3, <4>5, Zenon
    <3> QED BY <3>1, <3>2
  <2>3. Passing(events, 1..(k + 1), g)
    BY <2>2, Zenon DEF Passing
  <2> HIDE DEF g
  <2> QED BY <2>3
<1> HIDE DEF T
<1>3. Nat \subseteq T
  BY <1>1, <1>2, NaturalsAreReached
<1> QED BY <1>3 DEF T

\* that the first state has and every event keeps.
LEMMA PassUnfolds ==
  ASSUME NEW E, NEW events \in Seq(E)
  PROVE  \E h : /\ h[0] = [state |-> normalizer, events |-> <<>>]
                /\ \A k \in 1..Len(events) : h[k] = PassOne(h[k - 1], events[k])
                /\ Pass(events) = h[Len(events)]
<1> DEFINE n == Len(events)
           base == [state |-> normalizer, events |-> <<>>]
           it == CHOOSE f : f = [s \in SUBSET (DOMAIN events) |->
                    IF s = {} THEN base ELSE PassOne(f[s \ {Max(s)}], events[Max(s)])]
<1>1. n \in Nat /\ DOMAIN events = 1..n
  BY SMT
<1>2. Pass(events) = it[DOMAIN events]
  BY Zenon DEF Pass, FoldLeft, MapThenFoldSet, PassOne
<1>3. \E f : f = [s \in SUBSET (DOMAIN events) |->
                    IF s = {} THEN base ELSE PassOne(f[s \ {Max(s)}], events[Max(s)])]
  <2>1. PICK f : Passing(events, 1..n, f)
    BY <1>1, PassingExists
  <2>2. Passing(events, DOMAIN events, f)
    BY <1>1, <2>1, Zenon
  <2> QED BY <2>2, Zenon DEF Passing
<1>4. it = [s \in SUBSET (DOMAIN events) |->
              IF s = {} THEN base ELSE PassOne(it[s \ {Max(s)}], events[Max(s)])]
  BY <1>3, Zenon
<1> HIDE DEF it
<1> DEFINE h == [k \in 0..n |-> it[1..k]]
<1>5. h[0] = base
  <2>1. 1..0 = {} /\ 0 \in 0..n
    BY <1>1, SMT
  <2>2. it[{}] = base
    BY <1>4, Zenon
  <2> QED BY <2>1, <2>2, Zenon
<1>6. ASSUME NEW k \in 1..n PROVE h[k] = PassOne(h[k - 1], events[k])
  <2>1. k \in 0..n /\ k - 1 \in 0..n /\ k \in 1..k /\ k \in Nat
    BY <1>1, SMT
  <2>2. 1..k \subseteq 1..n
    BY <1>1, SMT
  <2>3. 1..k \in SUBSET (DOMAIN events) /\ 1..k # {}
    BY <1>1, <2>1, <2>2, Zenon
  <2>4. Max(1..k) = k
    BY <2>1, MaxIsLast
  <2>5. (1..k) \ {k} = 1..(k - 1)
    BY SMT
  <2>6. it[1..k] = PassOne(it[(1..k) \ {Max(1..k)}], events[Max(1..k)])
    BY <1>4, <2>3, Zenon
  <2> QED BY <2>1, <2>4, <2>5, <2>6, Zenon
<1>7. Pass(events) = h[n]
  BY <1>1, <1>2, SMT
<1> HIDE DEF h
<1> QED BY <1>5, <1>6, <1>7

-----------------------------------------------------------------------------
(* What the parts of the pipeline hold.                                    *)
Data == Seq(Tokens)
Keys == {D \in SUBSET Int : IsFiniteSet(D)}
Maps(V) == UNION {[D -> V] : D \in Keys}

AnnouncedOf(calls) ==
  UNION {[kind : {"tool"}, id : {i}, name : {calls[i].name}, data : Data] : i \in DOMAIN calls}
Plain == [kind : {"text", "thinking"}, id : {None}, name : {None}, data : {<<>>}]
PartsOf(calls) == Plain \cup AnnouncedOf(calls)

Deltas(calls) ==
  [type : {"content_delta"}, index : Int, block : {None} \cup PartsOf(calls),
   delta : {None, "text", "thinking", "arguments", "input"}, data : Data, reason : {None}]
Bare(type) == [type : {type}, index : {None}, block : {None}, delta : {None}, data : {<<>>}, reason : {None}]
Ends == [type : {"stream_end"}, index : {None}, block : {None}, delta : {None}, data : {<<>>}, reason : StopReasons]
Events(calls) == Deltas(calls) \cup Bare("stream_start") \cup Bare("stream_error") \cup Ends

CallParts == [kind : {"tool"}, id : Nat, name : Names, data : Data]

Buffers == Maps([name : Names \cup {None}, id : Nat \cup {None}, data : Data, order : Nat, sawDelta : BOOLEAN])
Normalizers == [buffers : Buffers, passThrough : SUBSET Int, nextOrder : Nat]

\* Maps from finite sets of numbers: what they are, how they are made, extended and cut.
LEMMA MapIs ==
  ASSUME NEW V, NEW f \in Maps(V)
  PROVE  DOMAIN f \subseteq Int /\ IsFiniteSet(DOMAIN f) /\ f \in [DOMAIN f -> V]
  BY Zenon DEF Maps, Keys

LEMMA IsMap ==
  ASSUME NEW V, NEW D, D \subseteq Int, IsFiniteSet(D), NEW f \in [D -> V]
  PROVE  f \in Maps(V)
  BY Zenon DEF Maps, Keys

LEMMA WithMap ==
  ASSUME NEW V, NEW f \in Maps(V), NEW i \in Int, NEW v \in V
  PROVE  /\ With(f, i, v) \in Maps(V) /\ DOMAIN With(f, i, v) = DOMAIN f \cup {i}
         /\ With(f, i, v)[i] = v
         /\ \A j \in DOMAIN f : j # i => With(f, i, v)[j] = f[j]
<1>1. DOMAIN f \subseteq Int /\ IsFiniteSet(DOMAIN f) /\ f \in [DOMAIN f -> V]
  BY MapIs
<1>2. With(f, i, v) = [j \in DOMAIN f \cup {i} |-> IF j = i THEN v ELSE f[j]]
  BY Zenon DEF With
<1>3. IsFiniteSet(DOMAIN f \cup {i}) /\ DOMAIN f \cup {i} \subseteq Int
  BY <1>1, FS_AddElement
<1>4. With(f, i, v) \in [DOMAIN f \cup {i} -> V]
  BY <1>1, <1>2, SMT
<1>5. With(f, i, v) \in Maps(V)
  BY <1>3, <1>4, IsMap
<1> QED BY <1>2, <1>5

LEMMA WithoutMap ==
  ASSUME NEW V, NEW f \in Maps(V), NEW S
  PROVE  /\ Without(f, S) \in Maps(V) /\ DOMAIN Without(f, S) = DOMAIN f \ S
         /\ \A j \in DOMAIN f \ S : Without(f, S)[j] = f[j]
<1>1. DOMAIN f \subseteq Int /\ IsFiniteSet(DOMAIN f) /\ f \in [DOMAIN f -> V]
  BY MapIs
<1>2. Without(f, S) = [j \in DOMAIN f \ S |-> f[j]]
  BY Zenon DEF Without
<1>3. IsFiniteSet(DOMAIN f \ S) /\ DOMAIN f \ S \subseteq Int
  BY <1>1, FS_Subset
<1>4. Without(f, S) \in [DOMAIN f \ S -> V]
  BY <1>1, <1>2, SMT
<1>5. Without(f, S) \in Maps(V)
  BY <1>3, <1>4, IsMap
<1> QED BY <1>2, <1>5

LEMMA EmptyMap == ASSUME NEW V PROVE <<>> \in Maps(V) /\ DOMAIN <<>> = {}
<1>1. <<>> \in [{} -> V]
  BY SMT
<1>2. IsFiniteSet({}) /\ {} \subseteq Int
  BY FS_EmptySet
<1> QED BY <1>1, <1>2, IsMap

-----------------------------------------------------------------------------
(* What a sequence has at a set of positions.                              *)
UpTo(I, i) == {j \in I : j <= i}

\* Counting a set of places upwards meets each of its numbers once,
LEMMA UpToCounts ==
  ASSUME NEW I, IsFiniteSet(I), I \subseteq Int
  PROVE  /\ Cardinality(I) \in Nat
         /\ \A i \in I : Cardinality(UpTo(I, i)) \in 1..Cardinality(I)
         /\ \A i, k \in I : i < k => Cardinality(UpTo(I, i)) < Cardinality(UpTo(I, k))
<1>1. Cardinality(I) \in Nat
  BY FS_CardinalityType
<1>2. ASSUME NEW i \in I PROVE Cardinality(UpTo(I, i)) \in 1..Cardinality(I)
  <2>1. UpTo(I, i) \subseteq I /\ i \in UpTo(I, i)
    BY SMT DEF UpTo
  <2>2. IsFiniteSet(UpTo(I, i)) /\ Cardinality(UpTo(I, i)) <= Cardinality(I)
    BY <2>1, FS_Subset
  <2>3. Cardinality(UpTo(I, i)) \in Nat /\ Cardinality(UpTo(I, i)) # 0
    BY <2>1, <2>2, FS_CardinalityType, FS_EmptySet
  <2> QED BY <1>1, <2>2, <2>3
<1>3. ASSUME NEW i \in I, NEW k \in I, i < k PROVE Cardinality(UpTo(I, i)) < Cardinality(UpTo(I, k))
  <2>1. i \in Int /\ k \in Int
    OBVIOUS
  <2>2. \A j \in I : j \in Int /\ (j <= i => j <= k)
    BY <1>3, <2>1, SMT
  <2>3. k <= k /\ ~(k <= i)
    BY <1>3, <2>1, SMT
  <2>4. UpTo(I, i) \subseteq UpTo(I, k) /\ k \in UpTo(I, k) /\ k \notin UpTo(I, i)
    BY <2>2, <2>3, Zenon DEF UpTo
  <2>5. IsFiniteSet(UpTo(I, k))
    BY FS_Subset DEF UpTo
  <2>6. UpTo(I, i) # UpTo(I, k)
    BY <2>4, Zenon
  <2>7. Cardinality(UpTo(I, i)) < Cardinality(UpTo(I, k)) \/ UpTo(I, i) = UpTo(I, k)
    BY <2>4, <2>5, FS_Subset, FS_CardinalityType
  <2> QED BY <2>6, <2>7
<1> QED BY <1>1, <1>2, <1>3

\* so the n-th smallest place is one of them
LEMMA NthIs ==
  ASSUME NEW I, IsFiniteSet(I), I \subseteq Int
  PROVE  /\ Cardinality(I) \in Nat
         /\ \A n \in 1..Cardinality(I) : /\ NthSmallest(I, n) \in I
                                         /\ Cardinality(UpTo(I, NthSmallest(I, n))) = n
         /\ \A m, n \in 1..Cardinality(I) : m < n => NthSmallest(I, m) < NthSmallest(I, n)
         /\ \A i \in I : /\ Cardinality(UpTo(I, i)) \in 1..Cardinality(I)
                         /\ NthSmallest(I, Cardinality(UpTo(I, i))) = i
<1> DEFINE c == Cardinality(I)
           f == [i \in I |-> Cardinality(UpTo(I, i))]
<1>1. c \in Nat
  BY UpToCounts
<1>2. \A i \in I : f[i] \in 1..c
  BY UpToCounts
<1>3. \A i, k \in I : i < k => f[i] < f[k]
  BY UpToCounts
<1>4. \A i, k \in I : f[i] = f[k] => i = k
  <2> HIDE DEF f
  <2>1. \A i, k \in I : i \in Int /\ k \in Int /\ f[i] \in Int /\ f[k] \in Int
    BY <1>1, <1>2
  <2> QED BY <1>3, <2>1, SMT
<1>5. f \in Surjection(I, 1..c)
  <2>1. f \in Injection(I, 1..c)
    BY <1>2, <1>4 DEF Injection, IsInjective
  <2>2. IsFiniteSet(1..c) /\ Cardinality(1..c) = c
    BY <1>1, FS_Interval
  <2> QED BY <2>1, <2>2, FS_Injection
<1>6. \A n \in 1..c : \E i \in I : f[i] = n
  BY <1>5 DEF Surjection
<1>7. ASSUME NEW n \in 1..c PROVE NthSmallest(I, n) \in I /\ f[NthSmallest(I, n)] = n
  <2>1. \E i \in I : Cardinality({j \in I : j <= i}) = n
    BY <1>6 DEF UpTo
  <2>2. NthSmallest(I, n) \in I /\ Cardinality({j \in I : j <= NthSmallest(I, n)}) = n
    BY <2>1, Zenon DEF NthSmallest
  <2> QED BY <2>2 DEF UpTo
<1>8. ASSUME NEW m \in 1..c, NEW n \in 1..c, m < n PROVE NthSmallest(I, m) < NthSmallest(I, n)
  <2>1. NthSmallest(I, m) \in I /\ NthSmallest(I, n) \in I /\ f[NthSmallest(I, m)] = m /\ f[NthSmallest(I, n)] = n
    BY <1>7
  <2>2. PICK a \in I : a = NthSmallest(I, m)
    BY <2>1
  <2>3. PICK b \in I : b = NthSmallest(I, n)
    BY <2>1
  <2>4. f[a] = m /\ f[b] = n /\ a \in Int /\ b \in Int /\ (b < a => f[b] < f[a]) /\ (a = b => f[a] = f[b])
    BY <1>3, <2>1, <2>2, <2>3
  <2> HIDE DEF f, c
  <2>5. m \in Int /\ n \in Int
    BY <1>1, SMT
  <2>6. a < b
    BY <1>8, <2>4, <2>5, SMT
  <2> QED BY <2>2, <2>3, <2>6
<1>9. ASSUME NEW i \in I PROVE f[i] \in 1..c /\ NthSmallest(I, f[i]) = i
  BY <1>2, <1>4, <1>7
<1>10. \A i \in I : f[i] = Cardinality(UpTo(I, i))
  OBVIOUS
<1> HIDE DEF f
<1> QED BY <1>1, <1>7, <1>8, <1>9, <1>10

\* and what is picked from a sequence is made of its elements.
LEMMA PickedIs ==
  ASSUME NEW S, NEW s \in Seq(S), NEW I, I \subseteq DOMAIN s
  PROVE  /\ Picked(s, I) \in Seq(S) /\ Cardinality(I) \in Nat /\ Len(Picked(s, I)) = Cardinality(I)
         /\ \A n \in 1..Cardinality(I) : Picked(s, I)[n] = s[NthSmallest(I, n)] /\ NthSmallest(I, n) \in I
<1>1. IsFiniteSet(I) /\ I \subseteq Int /\ I \subseteq 1..Len(s)
  <2>1. DOMAIN s = 1..Len(s) /\ Len(s) \in Nat
    OBVIOUS
  <2>2. IsFiniteSet(1..Len(s))
    BY <2>1, FS_Interval
  <2>3. 1..Len(s) \subseteq Int
    BY <2>1, SMT
  <2> QED BY <2>1, <2>2, <2>3, FS_Subset
<1> DEFINE c == Cardinality(I)
<1>2. c \in Nat /\ \A n \in 1..c : NthSmallest(I, n) \in I
  BY <1>1, NthIs
<1>3. \A n \in 1..c : s[NthSmallest(I, n)] \in S
  BY <1>1, <1>2
<1>4. Picked(s, I) = [n \in 1..c |-> s[NthSmallest(I, n)]]
  BY DEF Picked
<1> HIDE DEF c
<1>5. Picked(s, I) \in [1..c -> S]
  BY <1>3, <1>4
<1> QED BY <1>2, <1>4, <1>5 DEF c

-----------------------------------------------------------------------------
(* The normalizer.                                                         *)
Flushes ==
  [type : {"content_delta"}, index : Int, block : {None}, delta : {"arguments"}, data : Data, reason : {None}]

\* Normalized arguments are data.
LEMMA NormalizeJSONType ==
  ASSUME NEW data \in Data, NEW name
  PROVE  NormalizeJSON(data, name) \in Data
<1>1. {k \in DOMAIN data : data[k] # Blank} \subseteq DOMAIN data /\ data \in Seq(Tokens)
  BY DEF Data
<1>2. Picked(data, {k \in DOMAIN data : data[k] # Blank}) \in Seq(Tokens)
  BY <1>1, PickedIs
<1> QED BY <1>2, Zenon DEF NormalizeJSON, Data

\* What the normalizer lets go of are deltas of arguments, for one call
LEMMA FlushedType ==
  ASSUME NEW n \in Normalizers, NEW i
  PROVE  Flushed(n, i) \in Seq(Flushes)
<1>1. CASE i \in DOMAIN n.buffers /\ n.buffers[i].sawDelta
  <2> DEFINE V == [name : Names \cup {None}, id : Nat \cup {None}, data : Data, order : Nat, sawDelta : BOOLEAN]
  <2>1. n.buffers \in Maps(V)
    BY DEF Normalizers, Buffers
  <2>2. i \in Int /\ n.buffers[i] \in V
    <3> HIDE DEF V
    <3> QED BY <1>1, <2>1, MapIs
  <2>3. i \in Int /\ n.buffers[i].data \in Data
    BY <2>2
  <2>4. PICK d \in Data : d = NormalizeJSON(n.buffers[i].data, n.buffers[i].name)
    BY <2>3, NormalizeJSONType
  <2>5. Flushed(n, i) = <<ContentDelta(i, None, "arguments", d)>>
    BY <1>1, <2>4, Zenon DEF Flushed
  <2>6. ContentDelta(i, None, "arguments", d) \in Flushes
    BY <2>3 DEF ContentDelta, Event, Flushes
  <2> QED BY <2>5, <2>6
<1>2. CASE ~(i \in DOMAIN n.buffers /\ n.buffers[i].sawDelta)
  <2>1. Flushed(n, i) = <<>>
    BY <1>2, Zenon DEF Flushed
  <2> QED BY <2>1
<1> QED BY <1>1, <1>2

\* and for all of them.
LEMMA FlushedAllType ==
  ASSUME NEW n \in Normalizers
  PROVE  FlushedAll(n) \in Seq(Flushes)
<1> DEFINE c == Cardinality(DOMAIN n.buffers)
           Which(k) == CHOOSE i \in DOMAIN n.buffers :
                         Cardinality({j \in DOMAIN n.buffers : n.buffers[j].order < n.buffers[i].order}) = k - 1
           parts == [k \in 1..c |-> Flushed(n, Which(k))]
<1>1. c \in Nat
  BY MapIs, FS_CardinalityType DEF Normalizers, Buffers
<1>2. \A k \in 1..c : Flushed(n, Which(k)) \in Seq(Flushes)
  BY FlushedType
<1>3. parts \in Seq(Seq(Flushes))
  <2> HIDE DEF c, Which
  <2> QED BY <1>1, <1>2
<1>4. FlushedAll(n) = FlattenSeq(parts)
  BY Zenon DEF FlushedAll
<1> QED BY <1>3, <1>4, FlatType

LEMMA FlushesAreEvents == ASSUME NEW calls PROVE Flushes \subseteq Deltas(calls) /\ Flushes \subseteq Events(calls)
  BY DEF Flushes, Deltas, Events

LEMMA SeqOfMore == ASSUME NEW S, NEW T, S \subseteq T, NEW s \in Seq(S) PROVE s \in Seq(T)
<1>1. \A k \in 1..Len(s) : s[k] \in T
  OBVIOUS
<1>2. s \in [1..Len(s) -> T] /\ Len(s) \in Nat
  BY <1>1
<1> QED BY <1>2

LEMMA FlushOut ==
  ASSUME NEW n \in Normalizers, NEW i, NEW calls
  PROVE  Flushed(n, i) \in Seq(Deltas(calls)) /\ FlushedAll(n) \in Seq(Deltas(calls))
<1>1. Flushed(n, i) \in Seq(Flushes) /\ FlushedAll(n) \in Seq(Flushes) /\ Flushes \subseteq Deltas(calls)
  BY FlushedType, FlushedAllType, FlushesAreEvents
<1> HIDE DEF Flushes, Deltas
<1> QED BY <1>1, SeqOfMore

\* What an event of the parser's becomes: only the end of a stream becomes an end.
LEMMA AnnouncedType ==
  ASSUME NEW calls, NEW n \in Normalizers, NEW e \in Deltas(calls), e.block # None,
         \A i \in DOMAIN calls : i \in Nat /\ calls[i].name \in Names
  PROVE  Announced(n, e).state \in Normalizers /\ Announced(n, e).events \in Seq(Deltas(calls))
<1> DEFINE i == e.index
           V == [name : Names \cup {None}, id : Nat \cup {None}, data : Data, order : Nat, sawDelta : BOOLEAN]
           old == IF i \in DOMAIN n.buffers THEN n.buffers[i] ELSE None
           flushed == Without(n.buffers, {i})
           fresh == Buffer(e.block.name, e.block.id, <<>>, n.nextOrder, FALSE)
<1>1. i \in Int /\ e.block \in PartsOf(calls)
  BY DEF Deltas
<1>2. n.buffers \in Maps(V) /\ flushed \in Maps(V) /\ n.passThrough \in SUBSET Int /\ n.nextOrder \in Nat
  BY WithoutMap DEF Normalizers, Buffers
<1>3. Flushed(n, i) \in Seq(Deltas(calls))
  BY FlushOut
<1>4. CASE e.block.kind # "tool"
  <2>1. Announced(n, e) = [state |-> [n EXCEPT !.buffers = flushed, !.passThrough = @ \ {i}], events |-> Flushed(n, i)]
    BY <1>4 DEF Announced
  <2> HIDE DEF flushed, i, V
  <2>2. [n EXCEPT !.buffers = flushed, !.passThrough = @ \ {i}] \in Normalizers
    BY <1>2 DEF Normalizers, Buffers, V
  <2> QED BY <1>3, <2>1, <2>2
<1>5. CASE e.block.kind = "tool" /\ ~Normalizable(e.block.name)
  <2>1. Announced(n, e) = [state |-> [n EXCEPT !.buffers = flushed, !.passThrough = @ \cup {i}], events |-> Flushed(n, i)]
    BY <1>5 DEF Announced
  <2> HIDE DEF flushed, i, V
  <2>2. [n EXCEPT !.buffers = flushed, !.passThrough = @ \cup {i}] \in Normalizers
    BY <1>1, <1>2 DEF Normalizers, Buffers, V
  <2> QED BY <1>3, <2>1, <2>2
<1>6. CASE e.block.kind = "tool" /\ Normalizable(e.block.name)
  <2>1. e.block.name \in Names /\ e.block.id \in Nat
    BY <1>1, <1>6 DEF PartsOf, Plain, AnnouncedOf
  <2>2. CASE old # None /\ (old.name = None \/ (old.name = e.block.name /\ old.id = e.block.id))
    <3> DEFINE new == [old EXCEPT !.name = e.block.name, !.id = e.block.id]
    <3>1. Announced(n, e) = [state |-> [n EXCEPT !.passThrough = @ \ {i}, !.buffers = With(@, i, new)],
                             events |-> <<>>]
      BY <1>6, <2>2 DEF Announced
    <3>2. old \in V
      BY <1>2, <2>2, MapIs
    <3>3. new \in V
      BY <2>1, <3>2
    <3>4. With(n.buffers, i, new) \in Maps(V)
      <4> HIDE DEF V, new, i
      <4> QED BY <1>1, <1>2, <3>3, WithMap
    <3> HIDE DEF flushed, i, V, new
    <3>5. [n EXCEPT !.passThrough = @ \ {i}, !.buffers = With(@, i, new)] \in Normalizers
      BY <1>2, <3>4 DEF Normalizers, Buffers, V
    <3> QED BY <3>1, <3>5
  <2>3. CASE ~(old # None /\ (old.name = None \/ (old.name = e.block.name /\ old.id = e.block.id)))
    <3>1. Announced(n, e) = [state |-> [n EXCEPT !.passThrough = @ \ {i}, !.buffers = With(flushed, i, fresh),
                                                 !.nextOrder = @ + 1],
                             events |-> Flushed(n, i)]
      BY <1>6, <2>3 DEF Announced
    <3>2. fresh \in V
      <4>1. <<>> \in Data
        BY DEF Data
      <4> QED BY <1>2, <2>1, <4>1 DEF Buffer
    <3>3. With(flushed, i, fresh) \in Maps(V)
      <4> HIDE DEF V, fresh, i, flushed
      <4> QED BY <1>1, <1>2, <3>2, WithMap
    <3> HIDE DEF flushed, i, V, fresh
    <3>4. [[n EXCEPT !.passThrough = @ \ {i}] EXCEPT !.buffers = With(flushed, i, fresh)] \in Normalizers
      <4>1. [n EXCEPT !.passThrough = @ \ {i}] \in Normalizers
        BY <1>2 DEF Normalizers, Buffers
      <4> DEFINE n1 == [n EXCEPT !.passThrough = @ \ {i}]
      <4> HIDE DEF n1
      <4>2. [n1 EXCEPT !.buffers = With(flushed, i, fresh)] \in Normalizers
        BY <3>3, <4>1 DEF Normalizers, Buffers, V, n1
      <4> QED BY <4>2 DEF n1
    <3> DEFINE n2 == [[n EXCEPT !.passThrough = @ \ {i}] EXCEPT !.buffers = With(flushed, i, fresh)]
    <3>5. n2.nextOrder = n.nextOrder
      BY DEF Normalizers
    <3>6. [n EXCEPT !.passThrough = @ \ {i}, !.buffers = With(flushed, i, fresh), !.nextOrder = @ + 1]
          = [n2 EXCEPT !.nextOrder = n.nextOrder + 1]
      BY DEF Normalizers
    <3>7. n2 \in Normalizers
      BY <3>4
    <3> HIDE DEF n2
    <3>8. [n2 EXCEPT !.nextOrder = n.nextOrder + 1] \in Normalizers
      BY <1>2, <3>7 DEF Normalizers
    <3> QED BY <1>3, <3>1, <3>6, <3>8
  <2> QED BY <2>2, <2>3
<1> QED BY <1>4, <1>5, <1>6

\* What is held back stays a delta of a call, or nothing.
LEMMA HeldType ==
  ASSUME NEW calls, NEW n \in Normalizers, NEW e \in Deltas(calls)
  PROVE  Held(n, e).state \in Normalizers /\ Held(n, e).events \in Seq(Deltas(calls))
<1> DEFINE i == e.index
           V == [name : Names \cup {None}, id : Nat \cup {None}, data : Data, order : Nat, sawDelta : BOOLEAN]
           old == IF i \in DOMAIN n.buffers THEN n.buffers[i] ELSE Buffer(None, None, <<>>, n.nextOrder, FALSE)
           next == IF i \in DOMAIN n.buffers THEN n.nextOrder ELSE n.nextOrder + 1
           new == [old EXCEPT !.data = @ \o e.data, !.sawDelta = TRUE]
<1>1. i \in Int /\ e.data \in Data
  BY DEF Deltas
<1>2. n.buffers \in Maps(V) /\ n.passThrough \in SUBSET Int /\ n.nextOrder \in Nat
  BY DEF Normalizers, Buffers
<1>3. CASE e.delta # "arguments" \/ i \in n.passThrough
  BY <1>3 DEF Held
<1>4. CASE ~(e.delta # "arguments" \/ i \in n.passThrough)
  <2>1. Held(n, e) = [state |-> [n EXCEPT !.buffers = With(@, i, new), !.nextOrder = next],
                      events |-> <<[e EXCEPT !.delta = None, !.data = <<>>]>>]
    BY <1>4 DEF Held
  <2>2. old \in V
    <3>1. <<>> \in Data
      BY DEF Data
    <3> QED BY <1>2, <3>1, MapIs DEF Buffer
  <2>3. new \in V
    <3>1. \A x, y \in Data : x \o y \in Data
      BY DEF Data
    <3> HIDE DEF old
    <3> QED BY <1>1, <2>2, <3>1
  <2>4. With(n.buffers, i, new) \in Maps(V)
    <3> HIDE DEF V, new, i
    <3> QED BY <1>1, <1>2, <2>3, WithMap
  <2>5. next \in Nat
    BY <1>2
  <2>6. [e EXCEPT !.delta = None, !.data = <<>>] \in Deltas(calls)
    <3>1. <<>> \in Data
      BY DEF Data
    <3> DEFINE e1 == [e EXCEPT !.delta = None]
    <3>2. e1 \in Deltas(calls)
      BY DEF Deltas
    <3>3. [e EXCEPT !.delta = None, !.data = <<>>] = [e1 EXCEPT !.data = <<>>]
      BY DEF Deltas
    <3> HIDE DEF e1
    <3>4. [e1 EXCEPT !.data = <<>>] \in Deltas(calls)
      BY <3>1, <3>2 DEF Deltas
    <3> QED BY <3>3, <3>4
  <2> HIDE DEF i, V, new, next
  <2>7. [n EXCEPT !.buffers = With(@, i, new), !.nextOrder = next] \in Normalizers
    BY <2>4, <2>5 DEF Normalizers, Buffers, V
  <2> HIDE DEF Deltas
  <2> QED BY <2>1, <2>6, <2>7
<1> QED BY <1>3, <1>4

-----------------------------------------------------------------------------
EndTypes == {"stream_end", "stream_error"}
CallsFine(calls) == calls \in Seq(CallParts) /\ \A i \in DOMAIN calls : calls[i].id = i
Quiet(q) == \A k \in DOMAIN q : q[k].type \notin EndTypes
Tidy(q, calls) == /\ q \in Seq(Events(calls))
                  /\ \A k \in 1..(Len(q) - 1) : q[k].type \notin EndTypes

\* The kinds of event and what tells them apart.
LEMMA EventKinds ==
  ASSUME NEW calls, NEW e \in Events(calls)
  PROVE  /\ e.type \in {"content_delta", "stream_start", "stream_end", "stream_error"}
         /\ e.type = "content_delta" => e \in Deltas(calls)
         /\ e.type = "stream_end" => e \in Ends
         /\ e \in Deltas(calls) => e.type = "content_delta"
  BY DEF Events, Deltas, Bare, Ends

\* Every call has a name.
LEMMA CallsAreNamed ==
  ASSUME NEW calls, CallsFine(calls)
  PROVE  \A i \in DOMAIN calls : i \in Nat /\ calls[i].name \in Names
<1>1. DOMAIN calls \subseteq Nat /\ \A i \in DOMAIN calls : calls[i] \in CallParts
  BY DEF CallsFine
<1>2. \A x \in CallParts : x.name \in Names
  BY DEF CallParts
<1> QED BY <1>1, <1>2

\* No event but an end becomes an end,
LEMMA NormalizesQuiet ==
  ASSUME NEW calls, CallsFine(calls), NEW n \in Normalizers, NEW e \in Events(calls), e.type \notin EndTypes
  PROVE  /\ NormalizeEvent(n, e).state \in Normalizers
         /\ NormalizeEvent(n, e).events \in Seq(Events(calls))
         /\ Quiet(NormalizeEvent(n, e).events)
<1>1. \A i \in DOMAIN calls : i \in Nat /\ calls[i].name \in Names
  BY CallsAreNamed
<1>2. CASE e.type = "content_delta"
  <2>1. e \in Deltas(calls)
    BY <1>2, EventKinds
  <2> DEFINE a == IF e.block = None THEN [state |-> n, events |-> <<>>] ELSE Announced(n, e)
             d == Held(a.state, e)
  <2>2. NormalizeEvent(n, e) = [state |-> d.state, events |-> a.events \o d.events]
    BY <1>2 DEF NormalizeEvent
  <2>3. a.state \in Normalizers /\ a.events \in Seq(Deltas(calls))
    <3>1. CASE e.block = None
      BY <3>1
    <3>2. CASE e.block # None
      <4>1. Announced(n, e).state \in Normalizers /\ Announced(n, e).events \in Seq(Deltas(calls))
        BY <1>1, <2>1, <3>2, AnnouncedType
      <4> QED BY <3>2, <4>1, Zenon
    <3> QED BY <3>1, <3>2
  <2> HIDE DEF a
  <2>4. d.state \in Normalizers /\ d.events \in Seq(Deltas(calls))
    BY <2>1, <2>3, HeldType
  <2> HIDE DEF d
  <2>5. a.events \o d.events \in Seq(Deltas(calls))
    <3> HIDE DEF Deltas
    <3> QED BY <2>3, <2>4
  <2>6. Deltas(calls) \subseteq Events(calls)
    BY DEF Events
  <2>7. a.events \o d.events \in Seq(Events(calls))
    BY <2>5, <2>6, SeqOfMore
  <2>8. Quiet(a.events \o d.events)
    <3>1. \A x \in Deltas(calls) : x.type \notin EndTypes
      BY DEF Deltas, EndTypes
    <3> DEFINE z == a.events \o d.events
    <3> HIDE DEF z, Deltas
    <3>2. z \in Seq(Deltas(calls))
      BY <2>5 DEF z
    <3>3. Quiet(z)
      BY <3>1, <3>2 DEF Quiet
    <3> QED BY <3>3 DEF z
  <2> QED BY <2>2, <2>4, <2>7, <2>8
<1>3. CASE e.type = "stream_start"
  <2>1. NormalizeEvent(n, e) = [state |-> n, events |-> <<e>>]
    BY <1>3 DEF NormalizeEvent
  <2>2. <<e>> \in Seq(Events(calls)) /\ Quiet(<<e>>)
    <3> HIDE DEF Events
    <3> QED BY DEF Quiet
  <2> QED BY <2>1, <2>2
<1> QED BY <1>2, <1>3, EventKinds DEF EndTypes

\* and an end stays the last of what it becomes.
LEMMA NormalizesTerminal ==
  ASSUME NEW calls, CallsFine(calls), NEW n \in Normalizers, NEW e \in Events(calls), e.type \in EndTypes
  PROVE  /\ NormalizeEvent(n, e).state \in Normalizers
         /\ \E x \in Seq(Events(calls)) : Quiet(x) /\ NormalizeEvent(n, e).events = Append(x, e)
<1>1. NormalizeEvent(n, e) = [state |-> [n EXCEPT !.buffers = <<>>], events |-> Append(FlushedAll(n), e)]
  BY DEF NormalizeEvent, EndTypes
<1>2. <<>> \in Buffers
  BY EmptyMap DEF Buffers
<1>3. [n EXCEPT !.buffers = <<>>] \in Normalizers
  BY <1>2 DEF Normalizers
<1>4. FlushedAll(n) \in Seq(Deltas(calls))
  BY FlushOut
<1>5. FlushedAll(n) \in Seq(Events(calls))
  <2>1. Deltas(calls) \subseteq Events(calls)
    BY DEF Events
  <2> QED BY <1>4, <2>1, SeqOfMore
<1>6. Quiet(FlushedAll(n))
  <2>1. \A x \in Deltas(calls) : x.type \notin EndTypes
    BY DEF Deltas, EndTypes
  <2> QED BY <1>4, <2>1 DEF Quiet
<1> QED BY <1>1, <1>3, <1>5, <1>6

\* What comes out of the normalizer for the events of a chunk.
LEMMA PassIsTidy ==
  ASSUME NEW calls, CallsFine(calls), normalizer \in Normalizers, NEW events, Tidy(events, calls)
  PROVE  /\ Pass(events).state \in Normalizers
         /\ Tidy(Pass(events).events, calls)
         /\ Quiet(events) => Quiet(Pass(events).events)
         /\ ~Quiet(events) => /\ Len(events) # 0 /\ Len(Pass(events).events) # 0
                              /\ Last(Pass(events).events) = Last(events)
<1> DEFINE E == Events(calls)
           N == Len(events)
<1>1. events \in Seq(E) /\ N \in Nat
  BY DEF Tidy
<1> HIDE DEF E
<1>2. PICK h : /\ h[0] = [state |-> normalizer, events |-> <<>>]
               /\ \A k \in 1..N : h[k] = PassOne(h[k - 1], events[k])
               /\ Pass(events) = h[N]
  BY <1>1, PassUnfolds
<1> DEFINE Fine(k) == h[k].state \in Normalizers /\ h[k].events \in Seq(E) /\ Quiet(h[k].events)
           T == {k \in Nat : k <= N /\ (k = N => Quiet(events)) => Fine(k)}
<1>3. ASSUME NEW k \in 1..N, Fine(k - 1)
      PROVE  h[k] = [state |-> NormalizeEvent(h[k - 1].state, events[k]).state,
                     events |-> h[k - 1].events \o NormalizeEvent(h[k - 1].state, events[k]).events]
  BY <1>2 DEF PassOne
<1>4. 0 \in T
  <2>1. <<>> \in Seq(E) /\ Quiet(<<>>)
    BY DEF Quiet
  <2>2. h[0].state = normalizer /\ h[0].events = <<>>
    BY <1>2
  <2> QED BY <2>1, <2>2
<1>5. ASSUME NEW k \in Nat, k \in T PROVE k + 1 \in T
  <2> SUFFICES ASSUME k + 1 <= N, k + 1 = N => Quiet(events) PROVE Fine(k + 1)
    OBVIOUS
  <2>1. Fine(k)
    BY <1>1, <1>5
  <2>2. k + 1 \in 1..N /\ (k + 1) - 1 = k
    BY <1>1
  <2>3. events[k + 1] \in E /\ events[k + 1].type \notin EndTypes
    <3>1. CASE k + 1 = N
      BY <1>1, <2>2, <3>1 DEF Quiet
    <3>2. CASE k + 1 # N
      BY <1>1, <2>2, <3>2 DEF Tidy
    <3> QED BY <3>1, <3>2
  <2>4. PICK n \in Normalizers : n = h[k].state
    BY <2>1
  <2>5. PICK e \in E : e = events[k + 1]
    BY <2>3
  <2>6. NormalizeEvent(n, e).state \in Normalizers /\ NormalizeEvent(n, e).events \in Seq(E) /\ Quiet(NormalizeEvent(n, e).events)
    BY <2>3, <2>5, NormalizesQuiet DEF E
  <2>7. h[k + 1] = [state |-> NormalizeEvent(n, e).state, events |-> h[k].events \o NormalizeEvent(n, e).events]
    BY <1>3, <2>1, <2>2, <2>4, <2>5
  <2> DEFINE x == NormalizeEvent(n, e).events
             y == h[k].events
  <2>8. x \in Seq(E) /\ y \in Seq(E) /\ Quiet(x) /\ Quiet(y)
    BY <2>1, <2>6
  <2> HIDE DEF x, y
  <2>9. y \o x \in Seq(E) /\ Quiet(y \o x)
    BY <2>8 DEF Quiet
  <2> QED BY <2>6, <2>7, <2>9 DEF x, y
<1> HIDE DEF T
<1>6. Nat \subseteq T
  BY <1>4, <1>5, NaturalsAreReached
<1>7. CASE Quiet(events)
  <2>1. Fine(N)
    BY <1>1, <1>6, <1>7 DEF T
  <2> QED BY <1>2, <1>7, <2>1 DEF Tidy, Quiet, E
<1>8. CASE ~Quiet(events)
  <2>1. N # 0 /\ events[N].type \in EndTypes /\ events[N] \in E /\ N \in 1..N
    BY <1>1, <1>8 DEF Quiet, Tidy
  <2>2. Fine(N - 1)
    <3>1. N - 1 \in T /\ N - 1 <= N /\ N - 1 # N
      BY <1>1, <1>6, <2>1
    <3> QED BY <3>1 DEF T
  <2>3. PICK n \in Normalizers : n = h[N - 1].state
    BY <2>2
  <2>4. PICK e \in E : e = events[N]
    BY <2>1
  <2>5. PICK x \in Seq(E) : Quiet(x) /\ NormalizeEvent(n, e).events = Append(x, e)
    BY <2>1, <2>4, NormalizesTerminal DEF E
  <2>6. NormalizeEvent(n, e).state \in Normalizers
    BY <2>1, <2>4, NormalizesTerminal DEF E
  <2>7. h[N] = [state |-> NormalizeEvent(n, e).state, events |-> h[N - 1].events \o Append(x, e)]
    BY <1>3, <2>1, <2>2, <2>3, <2>4, <2>5
  <2> DEFINE y == h[N - 1].events
  <2>8. y \in Seq(E) /\ Quiet(y)
    BY <2>2
  <2>9. h[N].state = NormalizeEvent(n, e).state /\ h[N].events = y \o Append(x, e)
    <3> DEFINE a == NormalizeEvent(n, e).state
               b == h[N - 1].events \o Append(x, e)
    <3>1. h[N] = [state |-> a, events |-> b]
      BY <2>7
    <3> HIDE DEF a, b
    <3>2. h[N].state = a /\ h[N].events = b
      BY <3>1
    <3> QED BY <3>2 DEF a, b
  <2> HIDE DEF y
  <2>10. y \o Append(x, e) \in Seq(E) /\ Len(y \o Append(x, e)) = Len(y) + Len(x) + 1
    BY <2>5, <2>8
  <2>11. \A k \in 1..(Len(y) + Len(x)) : (y \o Append(x, e))[k].type \notin EndTypes
    BY <2>5, <2>8 DEF Quiet
  <2>12. (y \o Append(x, e))[Len(y) + Len(x) + 1] = e
    BY <2>5, <2>8
  <2>13. Pass(events).events = y \o Append(x, e) /\ Pass(events).state = NormalizeEvent(n, e).state
    BY <1>2, <2>9
  <2> DEFINE z == y \o Append(x, e)
  <2>14. z \in Seq(E) /\ Len(z) # 0 /\ Last(z) = e /\ \A k \in 1..(Len(z) - 1) : z[k].type \notin EndTypes
    <3>1. Len(y) \in Nat /\ Len(x) \in Nat
      BY <2>5, <2>8
    <3> QED BY <2>10, <2>11, <2>12, <3>1 DEF Last
  <2>15. Last(events) = e
    BY <2>4 DEF Last
  <2> HIDE DEF z
  <2>16. Pass(events).events = z
    BY <2>13 DEF z
  <2> QED BY <1>8, <2>1, <2>6, <2>13, <2>14, <2>15, <2>16 DEF Tidy, E
<1> QED BY <1>7, <1>8
-----------------------------------------------------------------------------
Flowing(calls) == Deltas(calls) \cup Bare("stream_start")
Ending == Ends \cup Bare("stream_error")

\* Events that flow do not end the stream,
LEMMA FlowIs ==
  ASSUME NEW calls, NEW q \in Seq(Flowing(calls))
  PROVE  Tidy(q, calls) /\ Quiet(q)
<1>1. \A x \in Flowing(calls) : x \in Events(calls) /\ x.type \notin EndTypes
  BY DEF Flowing, Events, Deltas, Bare, EndTypes
<1> HIDE DEF Flowing, Events
<1>2. \A k \in 1..Len(q) : q[k] \in Flowing(calls)
  OBVIOUS
<1>3. q \in Seq(Events(calls))
  <2>1. Flowing(calls) \subseteq Events(calls)
    BY <1>1
  <2> QED BY <2>1, SeqOfMore
<1>4. DOMAIN q = 1..Len(q) /\ Len(q) \in Nat
  OBVIOUS
<1> QED BY <1>1, <1>2, <1>3, <1>4 DEF Tidy, Quiet

\* and one that does comes last.
LEMMA EndIs ==
  ASSUME NEW calls, NEW x \in Seq(Flowing(calls)), NEW e \in Ending
  PROVE  /\ Tidy(Append(x, e), calls) /\ ~Quiet(Append(x, e)) /\ Last(Append(x, e)) = e
         /\ e \in Events(calls) /\ e.type \in EndTypes
<1>1. e \in Events(calls) /\ e.type \in EndTypes
  BY DEF Ending, Ends, Bare, Events, EndTypes
<1>2. x \in Seq(Events(calls)) /\ Quiet(x) /\ Len(x) \in Nat
  BY FlowIs DEF Tidy
<1> DEFINE z == Append(x, e)
<1>3. Len(z) = Len(x) + 1 /\ z \in Seq(Events(calls)) /\ z[Len(x) + 1] = e /\ \A k \in 1..Len(x) : z[k] = x[k]
  BY <1>1, <1>2
<1> HIDE DEF z
<1>4. \A k \in 1..Len(x) : x[k].type \notin EndTypes
  BY <1>2 DEF Quiet
<1>5. Tidy(z, calls)
  <2>1. \A k \in 1..(Len(z) - 1) : z[k].type \notin EndTypes
    BY <1>2, <1>3, <1>4
  <2> QED BY <1>3, <2>1 DEF Tidy
<1>6. ~Quiet(z)
  <2>1. Len(x) + 1 \in DOMAIN z
    BY <1>2, <1>3
  <2> QED BY <1>1, <1>3, <2>1 DEF Quiet
<1>7. Last(z) = e
  BY <1>3 DEF Last
<1> QED BY <1>1, <1>5, <1>6, <1>7 DEF z

\* A delta of a part that belongs to the answer is an event that flows.
LEMMA DeltaIs ==
  ASSUME NEW calls, NEW index \in Int, NEW block \in {None} \cup PartsOf(calls),
         NEW delta \in {None, "text", "thinking", "arguments", "input"}, NEW data \in Data
  PROVE  ContentDelta(index, block, delta, data) \in Flowing(calls)
  BY DEF ContentDelta, Event, Flowing, Deltas

LEMMA PartIs ==
  ASSUME NEW calls
  PROVE  /\ TextPart(<<>>) \in PartsOf(calls) /\ ThinkingPart(<<>>) \in PartsOf(calls)
         /\ \A i \in DOMAIN calls, d \in Data : ToolCallPart(i, calls[i].name, d) \in PartsOf(calls)
<1>1. TextPart(<<>>) \in PartsOf(calls) /\ ThinkingPart(<<>>) \in PartsOf(calls)
  BY DEF TextPart, ThinkingPart, Part, PartsOf, Plain
<1>2. ASSUME NEW i \in DOMAIN calls, NEW d \in Data PROVE ToolCallPart(i, calls[i].name, d) \in AnnouncedOf(calls)
  BY DEF ToolCallPart, Part, AnnouncedOf
<1> QED BY <1>1, <1>2 DEF PartsOf

(* What the upstream said.                                                 *)
UpstreamReasons == {"length", "incomplete", "tool_calls", "stop"}
Saids == [text : Data, thinking : Data, calls : Seq(CallParts), sealed : Nat, closed : BOOLEAN,
          chunks : 0..MaxChunks, reason : {None} \cup UpstreamReasons, last : Data]
SaidFine(f, s) ==
  /\ s \in Saids /\ CallsFine(s.calls) /\ Len(s.calls) <= MaxCalls
  /\ f # "copilot_responses" => \A i \in DOMAIN s.calls : s.calls[i].name # Custom
EndOK(f, s, r) ==
  f \notin GeminiFormats => s.reason # None /\ (s.calls # <<>> /\ s.reason # "length" => r = "tool_use")

ContentFine(f, s, c) ==
  \/ c.kind = "text" /\ c.index = 0
  \/ c.kind = "reasoning" /\ f \in OpenAIFormats \cup BufferedFormats
  \/ /\ c.kind = "tool" /\ c.index = Len(s.calls) /\ c.id = c.index + 1 /\ c.name \in Names
     /\ Len(s.calls) # MaxCalls /\ (f # "copilot_responses" => c.name # Custom)
  \/ /\ c.kind = "arguments" /\ f \in OpenAIFormats \cup ResponsesFormats
     /\ c.index \in Nat /\ c.index + 1 \in DOMAIN s.calls /\ c.name = s.calls[c.index + 1].name
     /\ c.id = s.calls[c.index + 1].id
  \/ /\ c.kind \in {"tool_done", "arguments_done"} /\ f \in ResponsesFormats
     /\ c.index \in Nat /\ c.index + 1 \in DOMAIN s.calls /\ c.name = s.calls[c.index + 1].name
     /\ c.id = s.calls[c.index + 1].id
  \/ c.kind = "text_done" /\ c.index = 0 /\ f \in ResponsesFormats
ChunkFine(f, s, c) ==
  \/ c.kind = "created" /\ f \in ResponsesFormats
  \/ c.kind = "done" /\ f = "compat" /\ s.reason # None
  \/ /\ s.reason = None
     /\ \/ /\ c.kind = "finish" /\ c.reason \in UpstreamReasons /\ c.data \in Data
           /\ f \in ResponsesFormats => c.index = Len(s.calls)
           /\ f \in BufferedFormats /\ s.calls # <<>> => c.reason \in {"length", "tool_calls"}
        \/ c.kind = "failed" /\ f \in ResponsesFormats
        \/ s.chunks # MaxChunks /\ c.data \in Data /\ ContentFine(f, s, c)

\* None is not a reason, a place or a name.
LEMMA NoneIsNew == None \notin UpstreamReasons /\ None \notin StopReasons /\ None \notin Int /\ None \notin Names
  BY CanonicalAssumption DEF UpstreamReasons, StopReasons, Words

\* What an upstream may say next continues what it said.
LEMMA ChunksAreFine ==
  ASSUME SaidFine(format, said), NEW c \in Chunks
  PROVE  ChunkFine(format, said, c)
<1>1. said \in Saids /\ said.calls \in Seq(CallParts) /\ said.text \in Data /\ token \in Nat
  BY StreamBounds DEF SaidFine, Saids, token
<1>2. <<>> \in Data /\ Brace \in Data /\ <<token>> \in Data
  BY <1>1 DEF Data, Tokens, Brace
<1>3. CASE c = Chunk("created", 0, None, None, <<>>, None) /\ format \in ResponsesFormats
  BY <1>3 DEF Chunk, ChunkFine
<1>4. CASE c = Chunk("done", 0, None, None, <<>>, None) /\ format = "compat" /\ said.reason # None
  BY <1>4 DEF Chunk, ChunkFine
<1>5. CASE said.reason = None /\ c \in FinishChunks
  <2> DEFINE free == Stops(TRUE)
             due == Stops(AllComplete)
  <2>1. \A r \in free \cup due :
          /\ r \in UpstreamReasons
          /\ format \in BufferedFormats /\ said.calls # <<>> => r \in {"length", "tool_calls"}
    BY DEF Stops, UpstreamReasons, ResponsesFormats, BufferedFormats
  <2>2. LastChunks \subseteq TextChunks \cup CallChunks \cup ArgumentChunks
    BY DEF LastChunks
  <2>3. FinishChunks = {Chunk("finish", Len(said.calls), None, None, <<>>, r) : r \in due}
                       \cup {Chunk("finish", d.index, d.id, d.name, d.data, r) : d \in LastChunks, r \in free}
    BY DEF FinishChunks
  <2> HIDE DEF free, due
  <2>4. CASE c \in {Chunk("finish", Len(said.calls), None, None, <<>>, r) : r \in due}
    <3>1. PICK r \in due : c = Chunk("finish", Len(said.calls), None, None, <<>>, r)
      BY <2>4
    <3>2. c.kind = "finish" /\ c.index = Len(said.calls) /\ c.data = <<>> /\ c.reason = r
      BY <3>1 DEF Chunk
    <3> QED BY <1>2, <1>5, <2>1, <3>2 DEF ChunkFine
  <2>5. CASE c \in {Chunk("finish", d.index, d.id, d.name, d.data, r) : d \in LastChunks, r \in free}
    <3>1. PICK d \in LastChunks, r \in free : c = Chunk("finish", d.index, d.id, d.name, d.data, r)
      BY <2>5
    <3>2. d.data \in {<<>>, <<token>>, Brace}
      BY <2>2 DEF TextChunks, CallChunks, ArgumentChunks, Chunk
    <3>3. c.kind = "finish" /\ c.data \in Data /\ c.reason = r
      BY <1>2, <3>1, <3>2 DEF Chunk
    <3>4. format \notin ResponsesFormats /\ format \notin BufferedFormats
      BY <3>1 DEF LastChunks, OpenAIFormats, ResponsesFormats, BufferedFormats
    <3> QED BY <1>5, <2>1, <3>3, <3>4 DEF ChunkFine
  <2> QED BY <1>5, <2>3, <2>4, <2>5
<1>6. CASE said.reason = None /\ c = Chunk("failed", 0, None, None, <<>>, None) /\ format \in ResponsesFormats
  BY <1>6 DEF Chunk, ChunkFine
<1>7. CASE said.reason = None /\ said.chunks # MaxChunks
           /\ c \in TextChunks \cup ReasoningChunks \cup CallChunks \cup ArgumentChunks \cup RepeatChunks
  <2> SUFFICES c.data \in Data /\ ContentFine(format, said, c)
    BY <1>7 DEF ChunkFine
  <2>1. CASE c \in TextChunks
    <3>1. c = Chunk("text", 0, None, None, <<token>>, None)
      BY <2>1 DEF TextChunks
    <3> QED BY <1>2, <3>1 DEF Chunk, ContentFine
  <2>2. CASE c \in ReasoningChunks
    <3>1. c = Chunk("reasoning", 0, None, None, <<token>>, None) /\ format \in OpenAIFormats \cup BufferedFormats
      BY <2>2 DEF ReasoningChunks
    <3> QED BY <1>2, <3>1 DEF Chunk, ContentFine
  <2>3. CASE c \in CallChunks
    <3>1. PICK name \in ToolNames, data \in {<<>>, Brace} :
             c = Chunk("tool", Len(said.calls), Len(said.calls) + 1, name, data, None)
      BY <2>3 DEF CallChunks
    <3>2. Len(said.calls) # MaxCalls
      BY <2>3 DEF CallChunks
    <3>3. name \in Names /\ (format # "copilot_responses" => name # Custom)
      BY CanonicalAssumption DEF ToolNames, Names
    <3>4. c.kind = "tool" /\ c.index = Len(said.calls) /\ c.id = c.index + 1 /\ c.name = name /\ c.data = data
      BY <3>1 DEF Chunk
    <3>5. c.data \in Data
      BY <1>2, <3>4
    <3> QED BY <3>2, <3>3, <3>4, <3>5, Zenon DEF ContentFine
  <2>4. CASE c \in ArgumentChunks
    <3>1. PICK i \in DOMAIN said.calls, data \in {<<token>>, Brace} :
             c = Chunk("arguments", i - 1, said.calls[i].id, said.calls[i].name, data, None)
      BY <2>4 DEF ArgumentChunks
    <3>2. format \in OpenAIFormats \cup ResponsesFormats
      BY <2>4 DEF ArgumentChunks
    <3>3. i - 1 \in Nat /\ (i - 1) + 1 = i
      BY <1>1
    <3>4. c.kind = "arguments" /\ c.index = i - 1 /\ c.id = said.calls[i].id /\ c.name = said.calls[i].name /\ c.data = data
      BY <3>1 DEF Chunk
    <3>5. c.data \in Data
      BY <1>2, <3>4
    <3> QED BY <3>2, <3>3, <3>4, <3>5, Zenon DEF ContentFine
  <2>5. CASE c \in RepeatChunks
    <3>1. format \in ResponsesFormats
      BY <2>5 DEF RepeatChunks
    <3>2. CASE \E kind \in {"tool_done", "arguments_done"}, i \in DOMAIN said.calls :
             c = Chunk(kind, i - 1, said.calls[i].id, said.calls[i].name,
                       IF said.calls[i].data = <<>> THEN Brace ELSE said.calls[i].data, None)
      <4>1. PICK kind \in {"tool_done", "arguments_done"}, i \in DOMAIN said.calls :
             c = Chunk(kind, i - 1, said.calls[i].id, said.calls[i].name,
                       IF said.calls[i].data = <<>> THEN Brace ELSE said.calls[i].data, None)
        BY <3>2
      <4>2. i - 1 \in Nat /\ (i - 1) + 1 = i
        BY <1>1
      <4>3. said.calls[i].data \in Data
        <5>1. said.calls[i] \in CallParts
          BY <1>1
        <5> QED BY <5>1 DEF CallParts
      <4>4. c.kind = kind /\ c.index = i - 1 /\ c.id = said.calls[i].id /\ c.name = said.calls[i].name
            /\ (c.data = Brace \/ c.data = said.calls[i].data)
        BY <4>1 DEF Chunk
      <4>5. c.data \in Data
        BY <1>2, <4>3, <4>4
      <4> QED BY <3>1, <4>2, <4>4, <4>5, Zenon DEF ContentFine
    <3>3. CASE c = Chunk("text_done", 0, None, None, IF said.text = <<>> THEN <<token>> ELSE said.text, None)
      BY <1>1, <1>2, <3>1, <3>3 DEF Chunk, ContentFine
    <3>4. \/ \E kind \in {"tool_done", "arguments_done"}, i \in DOMAIN said.calls :
             c = Chunk(kind, i - 1, said.calls[i].id, said.calls[i].name,
                       IF said.calls[i].data = <<>> THEN Brace ELSE said.calls[i].data, None)
          \/ c = Chunk("text_done", 0, None, None, IF said.text = <<>> THEN <<token>> ELSE said.text, None)
      BY <2>5, <3>1 DEF RepeatChunks
    <3> QED BY <3>2, <3>3, <3>4
  <2> QED BY <1>7, <2>1, <2>2, <2>3, <2>4, <2>5
<1> QED BY <1>3, <1>4, <1>5, <1>6, <1>7 DEF Chunks
-----------------------------------------------------------------------------
\* What is said after a chunk, as far as a parser is concerned.
Follows(s, c, s1) ==
  /\ s1.reason = IF c.kind = "finish" THEN c.reason ELSE s.reason
  /\ c.kind = "tool" => Len(s1.calls) = Len(s.calls) + 1 /\ s1.calls[Len(s.calls) + 1].name = c.name
  /\ c.kind # "tool" => Len(s1.calls) = Len(s.calls)

\* A new call, and arguments for one that is there, leave the calls well formed.
LEMMA CallsGrow ==
  ASSUME NEW calls, CallsFine(calls), NEW name \in Names, NEW data \in Data
  PROVE  /\ CallsFine(Append(calls, ToolCallPart(Len(calls) + 1, name, data)))
         /\ Len(Append(calls, ToolCallPart(Len(calls) + 1, name, data))) = Len(calls) + 1
         /\ Append(calls, ToolCallPart(Len(calls) + 1, name, data))[Len(calls) + 1].name = name
         /\ \A i \in DOMAIN calls : Append(calls, ToolCallPart(Len(calls) + 1, name, data))[i] = calls[i]
<1> DEFINE x == ToolCallPart(Len(calls) + 1, name, data)
<1>1. calls \in Seq(CallParts) /\ Len(calls) \in Nat /\ \A i \in 1..Len(calls) : calls[i].id = i
  BY DEF CallsFine
<1>2. x \in CallParts /\ x.id = Len(calls) + 1 /\ x.name = name
  BY <1>1 DEF ToolCallPart, Part, CallParts
<1> HIDE DEF x
<1> DEFINE z == Append(calls, x)
<1>3. z \in Seq(CallParts) /\ Len(z) = Len(calls) + 1 /\ z[Len(calls) + 1] = x /\ \A i \in 1..Len(calls) : z[i] = calls[i]
  <2> HIDE DEF CallParts
  <2> QED BY <1>1, <1>2
<1> HIDE DEF z
<1>4. \A i \in 1..Len(z) : z[i].id = i
  <2> SUFFICES ASSUME NEW i \in 1..Len(z) PROVE z[i].id = i
    OBVIOUS
  <2>1. CASE i = Len(calls) + 1
    BY <1>2, <1>3, <2>1
  <2>2. CASE i # Len(calls) + 1
    <3>1. i \in 1..Len(calls)
      BY <1>1, <1>3, <2>2
    <3> QED BY <1>1, <1>3, <3>1
  <2> QED BY <2>1, <2>2
<1>5. CallsFine(z)
  BY <1>3, <1>4 DEF CallsFine
<1> QED BY <1>2, <1>3, <1>5 DEF z, x

LEMMA CallsChange ==
  ASSUME NEW calls, CallsFine(calls), NEW i \in DOMAIN calls, NEW data \in Data
  PROVE  /\ CallsFine([calls EXCEPT ![i].data = data])
         /\ Len([calls EXCEPT ![i].data = data]) = Len(calls)
         /\ \A j \in DOMAIN calls : [calls EXCEPT ![i].data = data][j].name = calls[j].name
<1>1. calls \in Seq(CallParts) /\ Len(calls) \in Nat /\ DOMAIN calls = 1..Len(calls)
  BY DEF CallsFine
<1> DEFINE x == [calls[i] EXCEPT !.data = data]
           z == [calls EXCEPT ![i] = x]
<1>2. calls[i] \in CallParts
  BY <1>1
<1>3. x \in CallParts /\ x.id = calls[i].id /\ x.name = calls[i].name
  BY <1>2 DEF CallParts
<1>4. z = [calls EXCEPT ![i].data = data]
  OBVIOUS
<1> HIDE DEF x, CallParts
<1>5. z \in Seq(CallParts) /\ Len(z) = Len(calls) /\ DOMAIN z = DOMAIN calls
      /\ \A j \in DOMAIN calls : z[j] = IF j = i THEN x ELSE calls[j]
  BY <1>1, <1>3
<1> HIDE DEF z
<1>6. \A j \in DOMAIN calls : z[j].id = j /\ z[j].name = calls[j].name
  BY <1>3, <1>5 DEF CallsFine
<1>7. CallsFine(z)
  BY <1>5, <1>6 DEF CallsFine
<1> QED BY <1>4, <1>5, <1>6, <1>7

\* What was heard stays well formed, and follows from what was said and the chunk.
LEMMA HeardIs ==
  ASSUME SaidFine(format, said), NEW c, ChunkFine(format, said, c)
  PROVE  SaidFine(format, Heard(c)) /\ Follows(said, c, Heard(c))
<1> DEFINE i == c.index + 1
           counted == [said EXCEPT !.chunks = @ + 1]
<1>1. said \in Saids /\ CallsFine(said.calls) /\ Len(said.calls) <= MaxCalls /\ Len(said.calls) \in Nat
      /\ said.calls \in Seq(CallParts)
  BY DEF SaidFine, CallsFine
<1>2. \A x, y \in Data : x \o y \in Data
  BY DEF Data
<1>3. CASE c.kind \in {"created", "failed", "done"}
  <2>1. Heard(c) = said
    BY <1>3 DEF Heard
  <2> QED BY <1>3, <2>1 DEF Follows
<1>4. CASE c.kind = "finish"
  <2>1. /\ Heard(c) = [said EXCEPT !.reason = c.reason, !.last = c.data]
        /\ c.reason \in UpstreamReasons /\ c.data \in Data
    BY <1>4 DEF Heard, ChunkFine, ContentFine
  <2> DEFINE h == [said EXCEPT !.reason = c.reason, !.last = c.data]
  <2>2. h \in Saids /\ h.calls = said.calls /\ h.reason = c.reason
    BY <1>1, <2>1 DEF Saids
  <2> HIDE DEF h
  <2>3. SaidFine(format, h)
    BY <2>2 DEF SaidFine
  <2>4. Follows(said, c, h)
    BY <1>4, <2>2 DEF Follows
  <2> QED BY <2>1, <2>3, <2>4 DEF h
<1>5. CASE c.kind \notin {"created", "failed", "done", "finish"}
  <2>1. said.chunks # MaxChunks /\ c.data \in Data /\ ContentFine(format, said, c)
    BY <1>5 DEF ChunkFine
  <2>2. counted \in Saids /\ counted.calls = said.calls /\ counted.reason = said.reason
        /\ counted.text = said.text /\ counted.thinking = said.thinking
    BY <1>1, <2>1, StreamBounds DEF Saids
  <2> HIDE DEF counted
  <2>3. CASE c.kind = "text"
    <3> DEFINE x == IF format \in OpenAIFormats THEN Len(said.calls) ELSE counted.sealed
               d == said.text \o c.data
               h1 == [counted EXCEPT !.text = d]
               h == [h1 EXCEPT !.sealed = x]
    <3>1. x \in Nat /\ d \in Data
      BY <1>2, <1>1, <2>1, <2>2 DEF Saids
    <3> HIDE DEF x, d
    <3>2. h1 \in Saids /\ h1.calls = said.calls /\ h1.reason = said.reason
      BY <2>2, <3>1 DEF Saids
    <3>3. [counted EXCEPT !.text = d, !.sealed = x] = h
      BY <2>2 DEF Saids
    <3> HIDE DEF h1
    <3>4. h \in Saids /\ h.calls = said.calls /\ h.reason = said.reason
      BY <3>1, <3>2 DEF Saids
    <3>5. Heard(c) = h
      BY <2>2, <2>3, <3>3 DEF Heard, counted, x, d
    <3> HIDE DEF h
    <3> QED BY <2>3, <3>4, <3>5, <1>1 DEF SaidFine, Follows
  <2>4. CASE c.kind = "text_done"
    <3> DEFINE h1 == [counted EXCEPT !.text = c.data]
               h == [h1 EXCEPT !.closed = TRUE]
    <3>1. h1 \in Saids /\ h1.calls = said.calls /\ h1.reason = said.reason
      BY <2>1, <2>2 DEF Saids
    <3>2. [counted EXCEPT !.text = c.data, !.closed = TRUE] = h
      BY <2>2 DEF Saids
    <3> HIDE DEF h1
    <3>3. h \in Saids /\ h.calls = said.calls /\ h.reason = said.reason
      BY <3>1 DEF Saids
    <3>4. Heard(c) = h
      BY <2>4, <3>2 DEF Heard, counted
    <3> HIDE DEF h
    <3> QED BY <2>4, <3>3, <3>4, <1>1 DEF SaidFine, Follows
  <2>5. CASE c.kind = "reasoning"
    <3> DEFINE d == said.thinking \o c.data
               h == [counted EXCEPT !.thinking = d]
    <3>1. d \in Data
      BY <1>2, <1>1, <2>1, <2>2 DEF Saids
    <3> HIDE DEF d
    <3>2. h \in Saids /\ h.calls = said.calls /\ h.reason = said.reason
      BY <2>2, <3>1 DEF Saids
    <3>3. Heard(c) = h
      BY <2>2, <2>5 DEF Heard, counted, d
    <3> HIDE DEF h
    <3> QED BY <2>5, <3>2, <3>3, <1>1 DEF SaidFine, Follows
  <2>6. CASE c.kind = "tool"
    <3>1. c.id = Len(said.calls) + 1 /\ c.name \in Names /\ Len(said.calls) # MaxCalls
          /\ (format # "copilot_responses" => c.name # Custom)
      BY <2>1, <2>6 DEF ContentFine
    <3> DEFINE z == Append(said.calls, ToolCallPart(Len(said.calls) + 1, c.name, c.data))
               h == [counted EXCEPT !.calls = z]
    <3>2. Heard(c) = h
      BY <2>2, <2>6, <3>1 DEF Heard, counted
    <3>3. CallsFine(z) /\ Len(z) = Len(said.calls) + 1 /\ z[Len(said.calls) + 1].name = c.name
          /\ \A j \in DOMAIN said.calls : z[j] = said.calls[j]
      BY <1>1, <2>1, <3>1, CallsGrow
    <3> HIDE DEF z
    <3>4. h \in Saids /\ h.calls = z /\ h.reason = said.reason
      BY <2>2, <3>3 DEF Saids, CallsFine
    <3> HIDE DEF h
    <3>5. Len(z) <= MaxCalls
      BY <1>1, <3>1, <3>3, StreamBounds
    <3>6. ASSUME format # "copilot_responses", NEW j \in DOMAIN z PROVE z[j].name # Custom
      <4>1. DOMAIN z = 1..(Len(said.calls) + 1)
        BY <3>3 DEF CallsFine
      <4>2. CASE j = Len(said.calls) + 1
        BY <3>1, <3>3, <3>6, <4>2
      <4>3. CASE j # Len(said.calls) + 1
        <5>1. j \in DOMAIN said.calls
          BY <1>1, <4>1, <4>3
        <5> QED BY <3>3, <3>6, <5>1 DEF SaidFine
      <4> QED BY <4>2, <4>3
    <3>7. SaidFine(format, h)
      BY <3>3, <3>4, <3>5, <3>6 DEF SaidFine
    <3>8. Follows(said, c, h)
      BY <2>6, <3>3, <3>4 DEF Follows
    <3> QED BY <3>2, <3>7, <3>8
  <2>7. CASE c.kind \in {"arguments", "tool_done", "arguments_done"}
    <3>1. i \in DOMAIN said.calls
      BY <2>1, <2>7 DEF ContentFine
    <3>2. said.calls[i] \in CallParts
      BY <1>1, <3>1
    <3> DEFINE d == IF c.kind = "arguments" THEN said.calls[i].data \o c.data ELSE c.data
               z == [said.calls EXCEPT ![i].data = d]
               h == [counted EXCEPT !.calls = z]
    <3>3. d \in Data
      <4>1. said.calls[i].data \in Data
        BY <3>2 DEF CallParts
      <4> QED BY <1>2, <2>1, <4>1
    <3>4. Heard(c) = h
      BY <2>2, <2>7, <3>1 DEF Heard, counted
    <3> HIDE DEF d, i
    <3>5. CallsFine(z) /\ Len(z) = Len(said.calls) /\ \A j \in DOMAIN said.calls : z[j].name = said.calls[j].name
      BY <1>1, <3>3, <3>1, CallsChange
    <3> HIDE DEF z
    <3>6. h \in Saids /\ h.calls = z /\ h.reason = said.reason
      BY <2>2, <3>5 DEF Saids, CallsFine
    <3> HIDE DEF h
    <3>7. DOMAIN z = DOMAIN said.calls
      BY <1>1, <3>5 DEF CallsFine
    <3>8. SaidFine(format, h)
      BY <1>1, <3>5, <3>6, <3>7 DEF SaidFine
    <3>9. Follows(said, c, h)
      BY <2>7, <3>5, <3>6 DEF Follows
    <3> QED BY <3>4, <3>8, <3>9
  <2> QED BY <2>1, <2>3, <2>4, <2>5, <2>6, <2>7 DEF ContentFine
<1> QED BY <1>3, <1>4, <1>5
-----------------------------------------------------------------------------
(* The parsers.                                                            *)
Places == Nat
OpenAIParsers ==
  [started : BOOLEAN, done : BOOLEAN, next : Nat, tools : Maps(Places), thinking : BOOLEAN,
   pendingStop : {None} \cup StopReasons]
ResponsesParsers ==
  [started : BOOLEAN, done : BOOLEAN, next : Nat, tools : Maps(Places), texts : Maps(Places),
   argued : SUBSET Int, spoken : SUBSET Int]
CountingParsers == [started : BOOLEAN, done : BOOLEAN, next : Nat]

Numbers(calls) == 0..(Len(calls) - 1)
ParserFine(f, p, s) ==
  /\ f \in OpenAIFormats => /\ p \in OpenAIParsers /\ DOMAIN p.tools = Numbers(s.calls)
                            /\ f = "compat" /\ s.reason # None
                                 => p.pendingStop # None /\ EndOK(f, s, p.pendingStop)
  /\ f \in ResponsesFormats => p \in ResponsesParsers /\ DOMAIN p.tools = Numbers(s.calls)
  /\ f \in GeminiFormats \cup BufferedFormats => p \in CountingParsers

\* The events of a chunk: some that flow, and perhaps one that ends the stream, rightly.
ParsedFine(f, s, r) ==
  /\ ParserFine(f, r.parser, s)
  /\ \/ r.events \in Seq(Flowing(s.calls)) /\ ~r.parser.done
     \/ \E x \in Seq(Flowing(s.calls)), e \in Ending :
          /\ r.events = Append(x, e)
          /\ e \in Ends => EndOK(f, s, e.reason)
          /\ e \notin Ends => ~r.parser.done /\ s.reason = None

\* No format is of two families.
LEMMA FormatsDiffer ==
  /\ \A f \in OpenAIFormats : f \notin ResponsesFormats /\ f \notin GeminiFormats \cup BufferedFormats
  /\ \A f \in ResponsesFormats : f \notin OpenAIFormats /\ f \notin GeminiFormats \cup BufferedFormats
  /\ \A f \in GeminiFormats \cup BufferedFormats : f \notin OpenAIFormats /\ f \notin ResponsesFormats
  /\ \A f \in GeminiFormats : f \notin BufferedFormats
  BY DEF OpenAIFormats, ResponsesFormats, GeminiFormats, BufferedFormats

LEMMA EndsAre ==
  ASSUME NEW r \in StopReasons
  PROVE  StreamEnd(r) \in Ends /\ StreamEnd(r) \in Ending /\ StreamEnd(r).reason = r
  BY DEF StreamEnd, Event, Ends, Ending

LEMMA ErrorIs == StreamError \in Ending /\ StreamError \notin Ends
  BY DEF StreamError, Event, Ends, Ending, Bare

LEMMA StartFlows == ASSUME NEW calls PROVE StreamStart \in Flowing(calls)
  BY DEF StreamStart, Event, Flowing, Bare

\* Steps that add nothing but flowing events, or end with one that closes the stream.
LEMMA FlowParsed ==
  ASSUME NEW f, NEW s, NEW p, ParserFine(f, p, s), ~p.done, NEW events \in Seq(Flowing(s.calls))
  PROVE  ParsedFine(f, s, Parsed(p, events))
  BY DEF ParsedFine, Parsed

LEMMA EndParsed ==
  ASSUME NEW f, NEW s, NEW p, ParserFine(f, p, s), NEW x \in Seq(Flowing(s.calls)),
         NEW r \in StopReasons, EndOK(f, s, r)
  PROVE  ParsedFine(f, s, Parsed(p, Append(x, StreamEnd(r))))
<1>1. StreamEnd(r) \in Ends /\ StreamEnd(r) \in Ending /\ StreamEnd(r).reason = r
  BY EndsAre
<1>2. Parsed(p, Append(x, StreamEnd(r))).parser = p /\ Parsed(p, Append(x, StreamEnd(r))).events = Append(x, StreamEnd(r))
  BY DEF Parsed
<1> QED BY <1>1, <1>2, Zenon DEF ParsedFine

LEMMA OpeningFlows ==
  ASSUME NEW calls, NEW p
  PROVE  Opening(p) \in Seq(Flowing(calls))
<1>1. StreamStart \in Flowing(calls)
  BY StartFlows
<1> HIDE DEF Flowing
<1>2. <<>> \in Seq(Flowing(calls)) /\ <<StreamStart>> \in Seq(Flowing(calls))
  BY <1>1
<1> QED BY <1>2, Zenon DEF Opening

\* The reasons of chat upstreams are translated to stop reasons.
LEMMA OpenAIReasons ==
  ASSUME NEW p, NEW r
  PROVE  /\ OpenAIStopReason(r) \in StopReasons
         /\ Upgraded(p, OpenAIStopReason(r)) \in StopReasons /\ Upgraded(p, "end_turn") \in StopReasons
  BY DEF OpenAIStopReason, Upgraded, StopReasons

\* A parser that knows a call announces the end as the end of a turn of tools.
LEMMA ToolsAreSeen ==
  ASSUME NEW f, NEW s, SaidFine(f, s), NEW tools, DOMAIN tools = Numbers(s.calls), s.calls # <<>>
  PROVE  tools # <<>>
<1>1. s.calls \in Seq(CallParts) /\ Len(s.calls) # 0
  BY DEF SaidFine, CallsFine
<1>2. 0 \in DOMAIN tools
  BY <1>1 DEF Numbers
<1> QED BY <1>2

\* A place for one more call is a place for every call.
LEMMA WithPlace ==
  ASSUME NEW m \in Maps(Places), NEW k \in Int, NEW v \in Nat
  PROVE  With(m, k, v) \in Maps(Places) /\ DOMAIN With(m, k, v) = DOMAIN m \cup {k}
<1>1. v \in Places
  BY DEF Places
<1>2. With(m, k, v) \in Maps(Places)
  BY <1>1, WithMap
<1>3. DOMAIN With(m, k, v) = DOMAIN m \cup {k}
  BY Zenon DEF With
<1> QED BY <1>2, <1>3

\* Chat upstreams: a chunk of content is an event that flows.
LEMMA OpenAIDeltaIs ==
  ASSUME NEW f, NEW s, NEW s1, NEW c, NEW p \in OpenAIParsers, SaidFine(f, s), SaidFine(f, s1),
         Follows(s, c, s1), DOMAIN p.tools = Numbers(s.calls), c.data \in Data, ContentFine(f, s, c),
         f \in OpenAIFormats
  PROVE  /\ OpenAIDelta(p, c).parser \in OpenAIParsers
         /\ DOMAIN OpenAIDelta(p, c).parser.tools = Numbers(s1.calls)
         /\ OpenAIDelta(p, c).parser.done = p.done
         /\ OpenAIDelta(p, c).events \in Seq(Flowing(s1.calls))
<1> DEFINE F == Flowing(s1.calls)
<1>1. /\ Len(s.calls) \in Nat /\ Len(s1.calls) \in Nat /\ s1.calls \in Seq(CallParts) /\ <<>> \in Data /\ ThinkingIndex \in Int
      /\ p.next \in Nat /\ p.tools \in Maps(Places) /\ DOMAIN s1.calls = 1..Len(s1.calls)
  BY DEF SaidFine, CallsFine, Data, ThinkingIndex, OpenAIParsers
<1>2. CASE c.kind = "reasoning"
  <2> DEFINE b == IF p.thinking THEN None ELSE ThinkingPart(<<>>)
             q == [p EXCEPT !.thinking = TRUE]
             e == ContentDelta(ThinkingIndex, b, "thinking", c.data)
  <2>1. OpenAIDelta(p, c) = Parsed(q, <<e>>)
    BY <1>2 DEF OpenAIDelta
  <2>2. q \in OpenAIParsers /\ q.tools = p.tools /\ q.done = p.done
    BY DEF OpenAIParsers
  <2>3. e \in F
    <3>1. b \in {None} \cup PartsOf(s1.calls)
      BY PartIs
    <3> HIDE DEF b
    <3> QED BY <1>1, <3>1, DeltaIs
  <2>4. Numbers(s1.calls) = Numbers(s.calls)
    BY <1>2 DEF Follows, Numbers
  <2> HIDE DEF q, e, F
  <2>5. <<e>> \in Seq(F)
    BY <2>3
  <2> QED BY <2>1, <2>2, <2>4, <2>5 DEF Parsed, F
<1>3. CASE c.kind = "text"
  <2> DEFINE e == ContentDelta(p.next, TextPart(<<>>), "text", c.data)
  <2>1. OpenAIDelta(p, c) = Parsed(p, <<e>>)
    BY <1>3 DEF OpenAIDelta
  <2>2. e \in F
    <3>1. TextPart(<<>>) \in {None} \cup PartsOf(s1.calls) /\ p.next \in Int
      BY <1>1, PartIs
    <3> QED BY <3>1, DeltaIs
  <2>3. Numbers(s1.calls) = Numbers(s.calls)
    BY <1>3 DEF Follows, Numbers
  <2> HIDE DEF e, F
  <2>4. <<e>> \in Seq(F)
    BY <2>2
  <2> QED BY <2>1, <2>3, <2>4 DEF Parsed, F
<1>4. CASE c.kind = "tool"
  <2> DEFINE t == With(p.tools, c.index, p.next + 1)
             q0 == [p EXCEPT !.next = p.next + 1]
             q == [q0 EXCEPT !.tools = t]
             e == ContentDelta(p.next + 1, ToolCallPart(c.id, c.name, <<>>), "arguments", <<>>)
             d == ContentDelta(p.next + 1, None, "arguments", c.data)
             rest == IF c.data = <<>> THEN <<>> ELSE <<d>>
  <2>1. c.index = Len(s.calls) /\ c.id = c.index + 1 /\ c.name \in Names
    BY <1>4 DEF ContentFine
  <2>2. Len(s1.calls) = Len(s.calls) + 1 /\ s1.calls[Len(s.calls) + 1].name = c.name
    BY <1>4 DEF Follows
  <2>3. OpenAIDelta(p, c) = Parsed([p EXCEPT !.next = p.next + 1, !.tools = t], <<e>> \o rest)
    BY <1>4 DEF OpenAIDelta, OpenAIParsers
  <2>4. [p EXCEPT !.next = p.next + 1, !.tools = t] = q
    BY DEF OpenAIParsers
  <2>5. t \in Maps(Places) /\ DOMAIN t = DOMAIN p.tools \cup {c.index}
    <3>1. c.index \in Int /\ p.next + 1 \in Nat
      BY <1>1, <2>1
    <3> QED BY <1>1, <3>1, WithPlace, Zenon
  <2> HIDE DEF t
  <2>6. q0 \in OpenAIParsers /\ q0.done = p.done
    BY <1>1 DEF OpenAIParsers
  <2> HIDE DEF q0
  <2>7. q \in OpenAIParsers /\ q.tools = t /\ q.done = p.done
    BY <2>5, <2>6 DEF OpenAIParsers
  <2>8. DOMAIN t = Numbers(s1.calls)
    BY <1>1, <2>1, <2>2, <2>5 DEF Numbers
  <2>9. e \in F
    <3>1. Len(s.calls) + 1 \in DOMAIN s1.calls
      BY <1>1, <2>2
    <3>2. ToolCallPart(c.id, c.name, <<>>) \in PartsOf(s1.calls)
      BY <1>1, <2>1, <2>2, <3>1, PartIs
    <3>3. ToolCallPart(c.id, c.name, <<>>) \in {None} \cup PartsOf(s1.calls) /\ p.next + 1 \in Int
      BY <1>1, <3>2
    <3> QED BY <1>1, <3>3, DeltaIs
  <2>10. d \in F
    <3>1. None \in {None} \cup PartsOf(s1.calls) /\ p.next + 1 \in Int
      BY <1>1
    <3> QED BY <3>1, DeltaIs
  <2> HIDE DEF q, e, d, F
  <2>11. <<e>> \o rest \in Seq(F)
    BY <2>9, <2>10
  <2> QED BY <2>3, <2>4, <2>7, <2>8, <2>11 DEF Parsed, F
<1>5. CASE c.kind = "arguments"
  <2>1. c.index \in Nat /\ c.index + 1 \in DOMAIN s.calls
    BY <1>5 DEF ContentFine
  <2>2. c.index \in DOMAIN p.tools
    <3>1. DOMAIN s.calls = 1..Len(s.calls)
      BY DEF SaidFine, CallsFine
    <3> QED BY <1>1, <2>1, <3>1 DEF Numbers
  <2> DEFINE e == ContentDelta(p.tools[c.index], None, "arguments", c.data)
  <2>3. OpenAIDelta(p, c) = Parsed(p, <<e>>)
    BY <1>5, <2>2 DEF OpenAIDelta
  <2>4. e \in F
    <3>1. None \in {None} \cup PartsOf(s1.calls) /\ p.tools[c.index] \in Int
      BY <1>1, <2>2, MapIs DEF Places
    <3> QED BY <3>1, DeltaIs
  <2>5. Numbers(s1.calls) = Numbers(s.calls)
    BY <1>5 DEF Follows, Numbers
  <2> HIDE DEF e, F
  <2>6. <<e>> \in Seq(F)
    BY <2>4
  <2> QED BY <2>3, <2>5, <2>6 DEF Parsed, F
<1> QED BY <1>2, <1>3, <1>4, <1>5, FormatsDiffer DEF ContentFine

\* A parser that has started is a parser of the same calls.
LEMMA StartedParser ==
  ASSUME NEW p \in OpenAIParsers
  PROVE  /\ [p EXCEPT !.started = TRUE] \in OpenAIParsers
         /\ [p EXCEPT !.started = TRUE].tools = p.tools /\ [p EXCEPT !.started = TRUE].done = p.done
         /\ [p EXCEPT !.started = TRUE].pendingStop = p.pendingStop
  BY DEF OpenAIParsers

\* The end that a chat upstream's last words make.
LEMMA OpenAIEndIs ==
  ASSUME NEW f \in OpenAIFormats, NEW s, SaidFine(f, s), s.reason # None, NEW p \in OpenAIParsers,
         DOMAIN p.tools = Numbers(s.calls), NEW r \in {"end_turn"} \cup {OpenAIStopReason(x) : x \in UpstreamReasons},
         s.reason # "length" \/ r \in StopReasons
  PROVE  Upgraded(p, r) \in StopReasons /\ EndOK(f, s, Upgraded(p, r))
<1>1. s.calls # <<>> => p.tools # <<>>
  BY ToolsAreSeen
<1>2. r \in StopReasons
  BY OpenAIReasons DEF StopReasons
<1>3. Upgraded(p, r) \in StopReasons
  BY <1>2 DEF Upgraded, StopReasons
<1>4. s.calls # <<>> => Upgraded(p, r) = "tool_use"
  BY <1>1 DEF Upgraded
<1> QED BY <1>3, <1>4 DEF EndOK

\* A chat upstream's chunk, parsed.
LEMMA OpenAIParses ==
  ASSUME NEW f \in OpenAIFormats, NEW s, NEW s1, NEW p, NEW c, SaidFine(f, s), SaidFine(f, s1),
         ChunkFine(f, s, c), Follows(s, c, s1), ParserFine(f, p, s), ~p.done
  PROVE  ParsedFine(f, s1, Parse(f, p, c))
<1> DEFINE F == Flowing(s1.calls)
           q == [p EXCEPT !.started = TRUE]
           d == OpenAIDelta(q, c)
<1>1. /\ p \in OpenAIParsers /\ DOMAIN p.tools = Numbers(s.calls)
      /\ f = "compat" /\ s.reason # None => p.pendingStop # None /\ EndOK(f, s, p.pendingStop)
  BY DEF ParserFine
<1>2. q \in OpenAIParsers /\ q.tools = p.tools /\ q.done = p.done /\ q.pendingStop = p.pendingStop
  BY <1>1, StartedParser
<1>3. Opening(p) \in Seq(F)
  BY OpeningFlows
<1>4. f \notin ResponsesFormats /\ f \notin GeminiFormats \cup BufferedFormats
  BY FormatsDiffer
<1>5. \A p1 : /\ p1 \in OpenAIParsers /\ DOMAIN p1.tools = Numbers(s1.calls)
              /\ f = "compat" /\ s1.reason # None => p1.pendingStop # None /\ EndOK(f, s1, p1.pendingStop)
              => ParserFine(f, p1, s1)
  BY <1>4 DEF ParserFine
<1>6. CASE c.kind = "done"
  <2>1. f = "compat" /\ s.reason # None
    BY <1>4, <1>6 DEF ChunkFine, ContentFine
  <2>2. s1.reason = s.reason /\ Numbers(s1.calls) = Numbers(s.calls)
    BY <1>6 DEF Follows, Numbers
  <2> DEFINE p1 == [p EXCEPT !.done = TRUE]
  <2>3. p1 \in OpenAIParsers /\ p1.tools = p.tools /\ p1.pendingStop = p.pendingStop
    BY <1>1 DEF OpenAIParsers
  <2>4. p.pendingStop # None /\ p.pendingStop \in StopReasons
    BY <1>1, <2>1 DEF OpenAIParsers
  <2>5. Parse(f, p, c) = Parsed(p1, <<StreamEnd(p.pendingStop)>>)
    BY <1>6, <2>1, <2>4 DEF Parse, CompatChunk
  <2>6. EndOK(f, s1, p.pendingStop)
    <3>1. s1.calls # <<>> => s.calls # <<>>
      <4>1. Len(s1.calls) = Len(s.calls) /\ s.calls \in Seq(CallParts) /\ s1.calls \in Seq(CallParts)
        BY <1>6 DEF Follows, SaidFine, CallsFine
      <4> HIDE DEF CallParts
      <4> QED BY <4>1
    <3> QED BY <1>1, <2>1, <2>2, <3>1 DEF EndOK
  <2> HIDE DEF p1
  <2>7. ParserFine(f, p1, s1)
    BY <1>1, <1>5, <2>2, <2>3, <2>4, <2>6
  <2>8. <<>> \in Seq(F) /\ Append(<<>>, StreamEnd(p.pendingStop)) = <<StreamEnd(p.pendingStop)>>
    OBVIOUS
  <2>9. ParsedFine(f, s1, Parsed(p1, Append(<<>>, StreamEnd(p.pendingStop))))
    BY <2>4, <2>6, <2>7, <2>8, EndParsed
  <2> QED BY <2>5, <2>8, <2>9
<1>7. CASE c.kind = "finish"
  <2>1. c.reason \in UpstreamReasons /\ s1.reason = c.reason /\ s1.reason # None
    <3>1. c.reason \in UpstreamReasons /\ s1.reason = c.reason
      BY <1>7, FormatsDiffer DEF ChunkFine, ContentFine, Follows
    <3>2. None \notin UpstreamReasons
      BY NoneIsNew
    <3> QED BY <3>1, <3>2
  <2>2. Numbers(s1.calls) = Numbers(s.calls)
    BY <1>7 DEF Follows, Numbers
  <2> DEFINE r == Upgraded(p, OpenAIStopReason(c.reason))
  <2>3. r \in StopReasons /\ EndOK(f, s1, r)
    <3>1. DOMAIN p.tools = Numbers(s1.calls)
      BY <1>1, <2>2
    <3>2. OpenAIStopReason(c.reason) \in StopReasons
      BY OpenAIReasons
    <3>3. OpenAIStopReason(c.reason) \in {"end_turn"} \cup {OpenAIStopReason(x) : x \in UpstreamReasons}
      BY <2>1
    <3> QED BY <1>1, <2>1, <3>1, <3>2, <3>3, OpenAIEndIs
  <2> HIDE DEF r
  <2>4. CASE f = "compat"
    <3> DEFINE p1 == [q EXCEPT !.pendingStop = r]
    <3>1. p1 \in OpenAIParsers /\ p1.tools = p.tools /\ p1.pendingStop = r /\ p1.done = p.done
      BY <1>2, <2>3 DEF OpenAIParsers
    <3>2. Parse(f, p, c) = Parsed(p1, Opening(p))
      <4>1. Parse(f, p, c) = CompatChunk(p, c)
        BY <2>4 DEF Parse
      <4>2. CompatChunk(p, c) = Parsed([q EXCEPT !.pendingStop = r], Opening(p))
        BY <1>7 DEF CompatChunk, r
      <4> QED BY <4>1, <4>2
    <3>3. r # None
      BY <2>3, NoneIsNew
    <3> HIDE DEF p1
    <3>4. ParserFine(f, p1, s1)
      BY <1>1, <1>5, <2>2, <2>3, <3>1, <3>3
    <3> QED BY <1>3, <3>1, <3>2, <3>4, FlowParsed
  <2>5. CASE f # "compat"
    <3> DEFINE p1 == [q EXCEPT !.done = TRUE]
    <3>1. p1 \in OpenAIParsers /\ p1.tools = p.tools
      BY <1>2 DEF OpenAIParsers
    <3>2. Parse(f, p, c) = Parsed(p1, Append(Opening(p), StreamEnd(r)))
      BY <1>7, <2>5 DEF Parse, OpenAIChunk, CopilotChunk, r, OpenAIFormats
    <3> HIDE DEF p1
    <3>3. ParserFine(f, p1, s1)
      BY <1>1, <1>5, <2>2, <2>5, <3>1
    <3>4. ParsedFine(f, s1, Parsed(p1, Append(Opening(p), StreamEnd(r))))
      BY <1>3, <2>3, <3>3, EndParsed
    <3> QED BY <3>2, <3>4
  <2> QED BY <2>4, <2>5
<1>8. CASE c.kind \notin {"done", "finish"}
  <2>1. c.data \in Data /\ ContentFine(f, s, c) /\ s.reason = None
    BY <1>4, <1>8 DEF ChunkFine
  <2>2. s1.reason = None
    BY <1>8, <2>1 DEF Follows
  <2>3. /\ d.parser \in OpenAIParsers /\ DOMAIN d.parser.tools = Numbers(s1.calls)
        /\ d.parser.done = q.done /\ d.events \in Seq(F)
    <3>1. DOMAIN q.tools = Numbers(s.calls)
      BY <1>1, <1>2
    <3> HIDE DEF q, F
    <3>2. /\ OpenAIDelta(q, c).parser \in OpenAIParsers /\ DOMAIN OpenAIDelta(q, c).parser.tools = Numbers(s1.calls)
          /\ OpenAIDelta(q, c).parser.done = q.done /\ OpenAIDelta(q, c).events \in Seq(Flowing(s1.calls))
      BY <1>2, <2>1, <3>1, OpenAIDeltaIs
    <3> QED BY <3>2 DEF F
  <2>4. ParserFine(f, d.parser, s1) /\ ~d.parser.done
    BY <1>2, <1>5, <2>2, <2>3
  <2>5. Opening(p) \o d.events \in Seq(F)
    <3> HIDE DEF F, d
    <3> QED BY <1>3, <2>3
  <2>6. ParsedFine(f, s1, Parsed(d.parser, Opening(p) \o d.events))
    BY <2>4, <2>5, FlowParsed
  <2>7. CASE f = "copilot" /\ c.kind = "reasoning"
    <3>1. Parse(f, p, c) = Parsed(q, Opening(p))
      BY <2>7 DEF Parse, CopilotChunk
    <3>2. Numbers(s1.calls) = Numbers(s.calls)
      BY <2>7 DEF Follows, Numbers
    <3> HIDE DEF q
    <3>3. ParserFine(f, q, s1)
      BY <1>1, <1>2, <1>5, <2>2, <3>2
    <3> QED BY <1>2, <1>3, <3>1, <3>3, FlowParsed
  <2>8. CASE ~(f = "copilot" /\ c.kind = "reasoning")
    <3>1. Parse(f, p, c) = Parsed(d.parser, Opening(p) \o d.events)
      BY <1>8, <2>8 DEF Parse, CopilotChunk, CompatChunk, OpenAIChunk, OpenAIFormats
    <3> QED BY <2>6, <3>1
  <2> QED BY <2>7, <2>8
<1> QED BY <1>6, <1>7, <1>8

(* Responses events.                                                       *)
LEMMA AnnounceIs ==
  ASSUME NEW f, NEW s, NEW s1, NEW c, NEW p \in ResponsesParsers, SaidFine(f, s), SaidFine(f, s1),
         Follows(s, c, s1), DOMAIN p.tools = Numbers(s.calls), ContentFine(f, s, c),
         c.kind \in {"tool", "tool_done"}
  PROVE  /\ Announce(p, c).parser \in ResponsesParsers
         /\ DOMAIN Announce(p, c).parser.tools = Numbers(s1.calls)
         /\ Announce(p, c).parser.done = p.done
         /\ Announce(p, c).events \in Seq(Flowing(s1.calls))
<1> DEFINE F == Flowing(s1.calls)
<1>1. /\ Len(s.calls) \in Nat /\ Len(s1.calls) \in Nat /\ <<>> \in Data
      /\ p.next \in Nat /\ p.tools \in Maps(Places) /\ DOMAIN s1.calls = 1..Len(s1.calls)
      /\ DOMAIN s.calls = 1..Len(s.calls)
  BY DEF SaidFine, CallsFine, Data, ResponsesParsers
<1>2. CASE c.kind = "tool_done"
  <2>1. c.index \in DOMAIN p.tools
    BY <1>1, <1>2 DEF ContentFine, Numbers
  <2>2. Announce(p, c) = Parsed(p, <<>>)
    BY <2>1 DEF Announce
  <2>3. Numbers(s1.calls) = Numbers(s.calls)
    BY <1>2 DEF Follows, Numbers
  <2> QED BY <2>2, <2>3 DEF Parsed
<1>3. CASE c.kind = "tool"
  <2>1. c.index = Len(s.calls) /\ c.id = c.index + 1 /\ c.name \in Names
    BY <1>3 DEF ContentFine
  <2>2. Len(s1.calls) = Len(s.calls) + 1 /\ s1.calls[Len(s.calls) + 1].name = c.name
    BY <1>3 DEF Follows
  <2>3. c.index \notin DOMAIN p.tools
    BY <1>1, <2>1 DEF Numbers
  <2> DEFINE t == With(p.tools, c.index, p.next)
             q0 == [p EXCEPT !.tools = t]
             q == [q0 EXCEPT !.next = p.next + 1]
             e == ContentDelta(p.next, ToolCallPart(c.id, c.name, <<>>), ArgumentsKind(c.name), <<>>)
  <2>4. t \in Maps(Places) /\ DOMAIN t = DOMAIN p.tools \cup {c.index}
    <3>1. c.index \in Int
      BY <1>1, <2>1
    <3> QED BY <1>1, <3>1, WithPlace, Zenon
  <2>5. Announce(p, c) = Parsed([p EXCEPT !.tools = t, !.next = p.next + 1], <<e>>)
    BY <2>3 DEF Announce, ResponsesParsers
  <2>6. [p EXCEPT !.tools = t, !.next = p.next + 1] = q
    BY DEF ResponsesParsers
  <2> HIDE DEF t
  <2>7. q0 \in ResponsesParsers /\ q0.tools = t /\ q0.done = p.done
    BY <2>4 DEF ResponsesParsers
  <2> HIDE DEF q0
  <2>8. q \in ResponsesParsers /\ q.tools = t /\ q.done = p.done
    BY <1>1, <2>7 DEF ResponsesParsers
  <2>9. DOMAIN t = Numbers(s1.calls)
    BY <1>1, <2>1, <2>2, <2>4 DEF Numbers
  <2>10. e \in F
    <3>1. Len(s.calls) + 1 \in DOMAIN s1.calls
      BY <1>1, <2>2
    <3>2. ToolCallPart(c.id, c.name, <<>>) \in PartsOf(s1.calls)
      BY <1>1, <2>1, <2>2, <3>1, PartIs
    <3>3. ToolCallPart(c.id, c.name, <<>>) \in {None} \cup PartsOf(s1.calls) /\ p.next \in Int
      BY <1>1, <3>2
    <3>4. ArgumentsKind(c.name) \in {None, "text", "thinking", "arguments", "input"}
      BY DEF ArgumentsKind
    <3> QED BY <1>1, <3>3, <3>4, DeltaIs
  <2> HIDE DEF q, e, F
  <2>11. <<e>> \in Seq(F)
    BY <2>10
  <2> QED BY <2>5, <2>6, <2>8, <2>9, <2>11 DEF Parsed, F
<1> QED BY <1>2, <1>3

\* Arguments go to the place of their call,
LEMMA ArgueIs ==
  ASSUME NEW calls, NEW c, NEW repeats \in BOOLEAN, NEW p \in ResponsesParsers, c.index \in Nat, c.data \in Data
  PROVE  \E q \in ResponsesParsers, ev \in Seq(Flowing(calls)) :
           Argue(p, c, repeats) = Parsed(q, ev) /\ q.tools = p.tools /\ q.done = p.done
<1> DEFINE F == Flowing(calls)
<1>1. CASE c.index \notin DOMAIN p.tools \/ c.data = <<>> \/ (repeats /\ c.index \in p.argued)
  <2>1. Argue(p, c, repeats) = Parsed(p, <<>>)
    BY <1>1, Zenon DEF Argue
  <2> HIDE DEF F
  <2>2. <<>> \in Seq(F)
    OBVIOUS
  <2> QED BY <2>1, <2>2 DEF F
<1>2. CASE ~(c.index \notin DOMAIN p.tools \/ c.data = <<>> \/ (repeats /\ c.index \in p.argued))
  <2> DEFINE q == [p EXCEPT !.argued = @ \cup {c.index}]
             e == ContentDelta(p.tools[c.index], None, ArgumentsKind(c.name), c.data)
  <2>1. Argue(p, c, repeats) = Parsed(q, <<e>>)
    BY <1>2, Zenon DEF Argue
  <2>2. q \in ResponsesParsers /\ q.tools = p.tools /\ q.done = p.done
    BY DEF ResponsesParsers
  <2>3. e \in F
    <3>1. p.tools \in Maps(Places) /\ c.index \in DOMAIN p.tools
      BY <1>2 DEF ResponsesParsers
    <3>2. None \in {None} \cup PartsOf(calls) /\ p.tools[c.index] \in Int
      BY <3>1, MapIs DEF Places
    <3>3. ArgumentsKind(c.name) \in {None, "text", "thinking", "arguments", "input"}
      BY DEF ArgumentsKind
    <3> QED BY <3>2, <3>3, DeltaIs
  <2> HIDE DEF q, e, F
  <2>4. <<e>> \in Seq(F)
    BY <2>3
  <2> QED BY <2>1, <2>2, <2>4 DEF F
<1> QED BY <1>1, <1>2

\* and texts to the place of their item.
LEMMA SpeakIs ==
  ASSUME NEW calls, NEW c, NEW repeats, NEW p \in ResponsesParsers, c.index \in Nat, c.data \in Data
  PROVE  /\ Speak(p, c, repeats).parser \in ResponsesParsers
         /\ Speak(p, c, repeats).parser.tools = p.tools
         /\ Speak(p, c, repeats).parser.done = p.done
         /\ Speak(p, c, repeats).events \in Seq(Flowing(calls))
<1> DEFINE F == Flowing(calls)
           new == c.index \notin DOMAIN p.texts
           at == IF new THEN p.next ELSE p.texts[c.index]
           n == IF new THEN p.next + 1 ELSE p.next
           t == With(p.texts, c.index, at)
           q0 == [p EXCEPT !.texts = t]
           q == [q0 EXCEPT !.next = n]
           Q == [p EXCEPT !.texts = With(@, c.index, at), !.next = IF new THEN @ + 1 ELSE @]
           q1 == [Q EXCEPT !.spoken = @ \cup {c.index}]
           b == IF new THEN TextPart(<<>>) ELSE None
           e == ContentDelta(at, b, "text", c.data)
<1>1. Speak(p, c, repeats) = IF c.data = <<>> \/ (repeats /\ c.index \in p.spoken) THEN Parsed(Q, <<>>)
                             ELSE Parsed(q1, <<e>>)
  BY DEF Speak
<1>2. p.texts \in Maps(Places) /\ p.next \in Nat
  BY DEF ResponsesParsers
<1>3. at \in Nat /\ n \in Nat
  BY <1>2, MapIs DEF Places
<1>4. t \in Maps(Places)
  <2> HIDE DEF at
  <2>1. c.index \in Int
    OBVIOUS
  <2> QED BY <1>2, <1>3, <2>1, WithPlace, Zenon
<1>5. Q = q
  <2> HIDE DEF at, new
  <2> QED BY DEF ResponsesParsers
<1>6. e \in F
  <2>1. b \in {None} \cup PartsOf(calls) /\ at \in Int
    <3>1. TextPart(<<>>) \in PartsOf(calls)
      BY PartIs
    <3> QED BY <1>3, <3>1
  <2> HIDE DEF b, at
  <2> QED BY <2>1, DeltaIs
<1> HIDE DEF t, n
<1>7. q0 \in ResponsesParsers /\ q0.tools = p.tools /\ q0.done = p.done
  BY <1>4 DEF ResponsesParsers
<1> HIDE DEF q0
<1>8. q \in ResponsesParsers /\ q.tools = p.tools /\ q.done = p.done
  BY <1>3, <1>7 DEF ResponsesParsers
<1>9. Q \in ResponsesParsers /\ Q.tools = p.tools /\ Q.done = p.done
  BY <1>5, <1>8, Zenon
<1> HIDE DEF q, Q
<1>10. q1 \in ResponsesParsers /\ q1.tools = p.tools /\ q1.done = p.done
  BY <1>9 DEF ResponsesParsers
<1> HIDE DEF q1, e, F, new, at
<1>11. <<e>> \in Seq(F) /\ <<>> \in Seq(F)
  BY <1>6
<1>12. CASE c.data = <<>> \/ (repeats /\ c.index \in p.spoken)
  <2>1. Speak(p, c, repeats) = Parsed(Q, <<>>)
    BY <1>1, <1>12
  <2> QED BY <1>9, <1>11, <2>1 DEF Parsed, F
<1>13. CASE ~(c.data = <<>> \/ (repeats /\ c.index \in p.spoken))
  <2>1. Speak(p, c, repeats) = Parsed(q1, <<e>>)
    BY <1>1, <1>13
  <2> QED BY <1>10, <1>11, <2>1 DEF Parsed, F
<1> QED BY <1>12, <1>13
\* The end that response.completed makes.
LEMMA ResponsesEndIs ==
  ASSUME NEW f \in ResponsesFormats, NEW s, SaidFine(f, s), s.reason # None, NEW r
  PROVE  /\ ResponsesStopReason(Len(s.calls), r) \in StopReasons
         /\ EndOK(f, s, ResponsesStopReason(Len(s.calls), r))
<1>1. s.calls # <<>> => Len(s.calls) > 0
  BY DEF SaidFine, CallsFine
<1>2. ResponsesStopReason(Len(s.calls), r) \in StopReasons
  BY DEF ResponsesStopReason, StopReasons
<1>3. s.calls # <<>> => ResponsesStopReason(Len(s.calls), r) = "tool_use"
  BY <1>1 DEF ResponsesStopReason
<1> QED BY <1>2, <1>3 DEF EndOK

\* A Responses upstream's event, parsed.
LEMMA ResponsesParses ==
  ASSUME NEW f \in ResponsesFormats, NEW s, NEW s1, NEW p, NEW c, SaidFine(f, s), SaidFine(f, s1),
         ChunkFine(f, s, c), Follows(s, c, s1), ParserFine(f, p, s), ~p.done
  PROVE  ParsedFine(f, s1, Parse(f, p, c))
<1> DEFINE F == Flowing(s1.calls)
<1>1. p \in ResponsesParsers /\ DOMAIN p.tools = Numbers(s.calls)
  BY DEF ParserFine
<1>2. f \notin OpenAIFormats /\ f \notin GeminiFormats \cup BufferedFormats
  BY FormatsDiffer
<1>3. \A p1 : p1 \in ResponsesParsers /\ DOMAIN p1.tools = Numbers(s1.calls) => ParserFine(f, p1, s1)
  BY <1>2 DEF ParserFine
<1>4. c.kind # "tool" => Numbers(s1.calls) = Numbers(s.calls)
  BY DEF Follows, Numbers
<1>5. <<>> \in Seq(F)
  OBVIOUS
<1>6. f \in {"responses", "copilot_responses"}
  BY DEF ResponsesFormats
<1>7. c.kind # "reasoning" /\ c.kind # "done"
  BY <1>2, <1>6 DEF ChunkFine, ContentFine
<1>8. CASE c.kind \in {"tool", "tool_done", "arguments", "arguments_done"}
  <2>1. c.data \in Data /\ ContentFine(f, s, c) /\ c.index \in Nat
    <3>1. c.data \in Data /\ ContentFine(f, s, c)
      BY <1>8 DEF ChunkFine
    <3>2. Len(s.calls) \in Nat
      BY DEF SaidFine, CallsFine
    <3> QED BY <1>8, <3>1, <3>2 DEF ContentFine
  <2>2. f = "responses" => c.name # Custom
    <3>1. f = "responses" => \A i \in DOMAIN s.calls : s.calls[i].name # Custom
      BY DEF SaidFine
    <3> QED BY <1>8, <2>1, <3>1 DEF ContentFine
  <2>3. CASE c.kind \in {"tool", "tool_done"}
    <3> DEFINE a == Announce(p, c)
               d == Argue(a.parser, c, TRUE)
    <3>1. /\ a.parser \in ResponsesParsers /\ DOMAIN a.parser.tools = Numbers(s1.calls)
          /\ a.parser.done = p.done /\ a.events \in Seq(F)
      BY <1>1, <2>1, <2>3, AnnounceIs
    <3> HIDE DEF a, F
    <3>2. PICK q \in ResponsesParsers : q = a.parser
      BY <3>1
    <3>3. PICK repeats \in BOOLEAN : repeats = TRUE
      OBVIOUS
    <3>4. d = Argue(q, c, repeats)
      BY <3>2, <3>3, Zenon
    <3>5. PICK q1 \in ResponsesParsers, ev \in Seq(F) :
             Argue(q, c, repeats) = Parsed(q1, ev) /\ q1.tools = q.tools /\ q1.done = q.done
      BY <2>1, ArgueIs DEF F
    <3>6. d.parser = q1 /\ d.events = ev
      <4> HIDE DEF d
      <4> QED BY <3>4, <3>5 DEF Parsed
    <3> HIDE DEF d
    <3>7. d.parser \in ResponsesParsers /\ DOMAIN d.parser.tools = Numbers(s1.calls) /\ ~d.parser.done /\ d.events \in Seq(F)
      BY <3>1, <3>2, <3>5, <3>6
    <3>8. a.events \o d.events \in Seq(F)
      BY <3>1, <3>7
    <3>9. Parse(f, p, c) = Parsed(d.parser, a.events \o d.events)
      BY <1>6, <2>2, <2>3 DEF Parse, ResponsesChunk, CopilotResponsesChunk, a, d
    <3> QED BY <1>3, <3>7, <3>8, <3>9, FlowParsed DEF F
  <2>4. CASE c.kind \in {"arguments", "arguments_done"}
    <3> DEFINE d == Argue(p, c, c.kind = "arguments_done")
    <3>1. PICK repeats \in BOOLEAN : repeats = (c.kind = "arguments_done")
      OBVIOUS
    <3>2. PICK q1 \in ResponsesParsers, ev \in Seq(F) :
             Argue(p, c, repeats) = Parsed(q1, ev) /\ q1.tools = p.tools /\ q1.done = p.done
      BY <1>1, <2>1, ArgueIs
    <3>3. d.parser \in ResponsesParsers /\ d.parser.tools = p.tools /\ d.parser.done = p.done /\ d.events \in Seq(F)
      BY <3>1, <3>2 DEF Parsed
    <3>4. Parse(f, p, c) = d
      BY <1>6, <2>2, <2>4 DEF Parse, ResponsesChunk, CopilotResponsesChunk
    <3>5. d = Parsed(d.parser, d.events)
      BY DEF Argue, Parsed
    <3> HIDE DEF d
    <3>6. DOMAIN d.parser.tools = Numbers(s1.calls)
      BY <1>1, <1>4, <2>4, <3>3
    <3> QED BY <1>3, <3>3, <3>4, <3>5, <3>6, FlowParsed
  <2> QED BY <1>8, <2>3, <2>4
<1>9. CASE c.kind \notin {"tool", "tool_done", "arguments", "arguments_done"}
  <2>1. Parse(f, p, c) = ResponsesChunk(p, c)
    BY <1>6, <1>9 DEF Parse, CopilotResponsesChunk
  <2>2. ParserFine(f, p, s1)
    BY <1>1, <1>3, <1>4, <1>9
  <2>3. CASE c.kind = "created"
    <3> DEFINE q == [p EXCEPT !.started = TRUE]
    <3>1. q \in ResponsesParsers /\ q.tools = p.tools /\ q.done = p.done
      BY <1>1 DEF ResponsesParsers
    <3>2. Parse(f, p, c) = Parsed(q, <<StreamStart>>)
      BY <2>1, <2>3 DEF ResponsesChunk
    <3>3. StreamStart \in F
      BY StartFlows
    <3> HIDE DEF q, F
    <3>4. <<StreamStart>> \in Seq(F)
      BY <3>3
    <3>5. ParserFine(f, q, s1)
      BY <1>1, <1>3, <1>4, <2>3, <3>1
    <3> QED BY <3>1, <3>2, <3>4, <3>5, FlowParsed DEF F
  <2>4. CASE c.kind \in {"text", "text_done"}
    <3> DEFINE d == Speak(p, c, c.kind = "text_done")
    <3>1. c.data \in Data /\ c.index \in Nat
      BY <2>4 DEF ChunkFine, ContentFine
    <3>2. d.parser \in ResponsesParsers /\ d.parser.tools = p.tools /\ d.parser.done = p.done /\ d.events \in Seq(F)
      BY <1>1, <3>1, SpeakIs
    <3>3. Parse(f, p, c) = d
      BY <2>1, <2>4 DEF ResponsesChunk
    <3>4. d = Parsed(d.parser, d.events)
      BY DEF Speak, Parsed
    <3> HIDE DEF d
    <3>5. DOMAIN d.parser.tools = Numbers(s1.calls)
      BY <1>1, <1>4, <2>4, <3>2
    <3> QED BY <1>3, <3>2, <3>3, <3>4, <3>5, FlowParsed
  <2>5. CASE c.kind = "finish"
    <3>1. c.reason \in UpstreamReasons /\ s1.reason = c.reason /\ s1.reason # None
      <4>1. c.reason \in UpstreamReasons /\ s1.reason = c.reason
        BY <2>5 DEF ChunkFine, ContentFine, Follows
      <4> QED BY <4>1, NoneIsNew
    <3>2. CASE c.reason = "incomplete"
      <4>1. Parse(f, p, c) = Parsed(p, <<>>)
        BY <2>1, <2>5, <3>2 DEF ResponsesChunk
      <4> QED BY <1>5, <2>2, <4>1, FlowParsed
    <3>3. CASE c.reason # "incomplete"
      <4> DEFINE r == ResponsesStopReason(c.index, c.reason)
      <4>1. Parse(f, p, c) = Parsed(p, <<StreamEnd(r)>>)
        BY <2>1, <2>5, <3>3 DEF ResponsesChunk
      <4>2. c.index = Len(s1.calls)
        BY <2>5 DEF ChunkFine, ContentFine, Follows
      <4>3. r \in StopReasons /\ EndOK(f, s1, r)
        BY <3>1, <4>2, ResponsesEndIs
      <4> HIDE DEF r
      <4>4. <<StreamEnd(r)>> = Append(<<>>, StreamEnd(r))
        OBVIOUS
      <4>5. ParsedFine(f, s1, Parsed(p, Append(<<>>, StreamEnd(r))))
        BY <1>5, <2>2, <4>3, EndParsed
      <4> QED BY <4>1, <4>4, <4>5
    <3> QED BY <3>2, <3>3
  <2>6. CASE c.kind = "failed"
    <3>1. Parse(f, p, c) = Parsed(p, <<StreamError>>)
      BY <2>1, <2>6 DEF ResponsesChunk
    <3>2. s1.reason = None
      BY <2>6 DEF ChunkFine, ContentFine, Follows
    <3>3. <<StreamError>> = Append(<<>>, StreamError)
      OBVIOUS
    <3>4. StreamError \in Ending /\ StreamError \notin Ends
      BY ErrorIs
    <3>5. Parse(f, p, c).parser = p /\ Parse(f, p, c).events = Append(<<>>, StreamError)
      BY <3>1, <3>3 DEF Parsed
    <3> QED BY <1>5, <2>2, <3>2, <3>4, <3>5, Zenon DEF ParsedFine
  <2> QED BY <1>7, <1>9, <2>3, <2>4, <2>5, <2>6 DEF ChunkFine, ContentFine
<1> QED BY <1>8, <1>9

(* Gemini's chunks and complete responses.                                 *)
LEMMA CountingParses ==
  ASSUME NEW f \in GeminiFormats \cup BufferedFormats, NEW s, NEW s1, NEW p, NEW c, SaidFine(f, s), SaidFine(f, s1),
         ChunkFine(f, s, c), Follows(s, c, s1), ParserFine(f, p, s), ~p.done
  PROVE  ParsedFine(f, s1, Parse(f, p, c))
<1> DEFINE F == Flowing(s1.calls)
           q == [p EXCEPT !.started = TRUE]
           m == [q EXCEPT !.next = @ + 1]
           end == [q EXCEPT !.done = TRUE]
<1>1. p \in CountingParsers /\ p.next \in Nat /\ p.next \in Int
  BY DEF ParserFine, CountingParsers
<1>2. f \notin OpenAIFormats /\ f \notin ResponsesFormats /\ (f \in GeminiFormats => f \notin BufferedFormats)
  BY FormatsDiffer
<1>3. \A p1 \in CountingParsers : ParserFine(f, p1, s1)
  BY <1>2 DEF ParserFine
<1>4. q \in CountingParsers /\ ~q.done /\ m \in CountingParsers /\ ~m.done /\ end \in CountingParsers
      /\ m = [p EXCEPT !.started = TRUE, !.next = @ + 1] /\ end = [p EXCEPT !.started = TRUE, !.done = TRUE]
  <2>1. q \in CountingParsers /\ ~q.done
    BY <1>1 DEF CountingParsers
  <2>2. m = [p EXCEPT !.started = TRUE, !.next = @ + 1] /\ end = [p EXCEPT !.started = TRUE, !.done = TRUE]
    BY <1>1 DEF CountingParsers
  <2> HIDE DEF q
  <2>3. m \in CountingParsers /\ ~m.done
    BY <2>1 DEF CountingParsers
  <2>4. end \in CountingParsers
    BY <2>1 DEF CountingParsers
  <2> QED BY <2>1, <2>2, <2>3, <2>4
<1>5. Opening(p) \in Seq(F) /\ <<>> \in Seq(F)
  <2>1. Opening(p) \in Seq(F)
    BY OpeningFlows
  <2> QED BY <2>1
<1>6. \A e \in F : Append(Opening(p), e) \in Seq(F)
  <2> HIDE DEF F
  <2> QED BY <1>5
<1>7. c.kind \in {"text", "reasoning", "tool", "finish"} /\ (c.kind = "reasoning" => f \in BufferedFormats)
  BY <1>2, FormatsDiffer DEF ChunkFine, ContentFine, GeminiFormats, BufferedFormats
<1>8. f \in {"gemini", "antigravity"} \/ f \in {"buffered", "azure"}
  BY DEF GeminiFormats, BufferedFormats
<1>9. CASE c.kind = "finish"
  <2>1. c.reason \in UpstreamReasons /\ s1.reason = c.reason /\ s1.reason # None
    <3>1. c.reason \in UpstreamReasons /\ s1.reason = c.reason
      BY <1>9 DEF ChunkFine, ContentFine, Follows
    <3> QED BY <3>1, NoneIsNew
  <2>2. PICK r \in StopReasons : /\ Parse(f, p, c) = Parsed(end, Append(Opening(p), StreamEnd(r)))
                                 /\ c.reason = "tool_calls" /\ f \in BufferedFormats => r = "tool_use"
    <3>1. CASE f \in {"gemini", "antigravity"}
      <4>1. Parse(f, p, c) = Parsed(end, Append(Opening(p), StreamEnd(GeminiStopReason(c.reason))))
        BY <1>9, <3>1 DEF Parse, GeminiChunk, AntigravityChunk
      <4>2. GeminiStopReason(c.reason) \in StopReasons
        BY DEF GeminiStopReason, StopReasons
      <4>3. f \notin BufferedFormats
        BY <3>1 DEF BufferedFormats
      <4> QED BY <4>1, <4>2, <4>3
    <3>2. CASE f \in {"buffered", "azure"}
      <4> DEFINE r == IF c.reason = "length" THEN "max_tokens" ELSE IF c.reason = "tool_calls" THEN "tool_use" ELSE "end_turn"
      <4>1. Parse(f, p, c) = Parsed([p EXCEPT !.started = TRUE, !.done = TRUE], Append(Opening(p), StreamEnd(r)))
        BY <1>9, <3>2 DEF Parse, BufferedPart, AzurePart
      <4>2. r \in StopReasons /\ (c.reason = "tool_calls" => r = "tool_use")
        BY DEF StopReasons
      <4> HIDE DEF r, end
      <4> QED BY <1>4, <4>1, <4>2
    <3> QED BY <1>8, <3>1, <3>2
  <2>3. EndOK(f, s1, r)
    <3>1. f \in GeminiFormats \/ f \in BufferedFormats
      OBVIOUS
    <3>2. f \in BufferedFormats /\ s.calls # <<>> => c.reason \in {"length", "tool_calls"}
      BY <1>9 DEF ChunkFine, ContentFine
    <3>3. s1.calls # <<>> => s.calls # <<>>
      <4>1. Len(s1.calls) = Len(s.calls) /\ s.calls \in Seq(CallParts) /\ s1.calls \in Seq(CallParts)
        BY <1>9 DEF Follows, SaidFine, CallsFine
      <4> HIDE DEF CallParts
      <4> QED BY <4>1
    <3> QED BY <2>1, <2>2, <3>1, <3>2, <3>3 DEF EndOK
  <2>4. ParserFine(f, end, s1)
    BY <1>3, <1>4
  <2> HIDE DEF end
  <2>5. ParsedFine(f, s1, Parsed(end, Append(Opening(p), StreamEnd(r))))
    BY <1>5, <2>3, <2>4, EndParsed
  <2> QED BY <2>2, <2>5
<1>10. CASE c.kind # "finish"
  <2>1. c.data \in Data /\ ContentFine(f, s, c)
    BY <1>7, <1>10 DEF ChunkFine
  <2>2. TextPart(<<>>) \in PartsOf(s1.calls) /\ ThinkingPart(<<>>) \in PartsOf(s1.calls)
    BY PartIs
  <2>3. CASE c.kind = "tool"
    <3>1. c.index = Len(s.calls) /\ c.id = c.index + 1 /\ Len(s1.calls) = Len(s.calls) + 1
          /\ s1.calls[Len(s.calls) + 1].name = c.name
      BY <2>1, <2>3 DEF ContentFine, Follows
    <3>2. Len(s.calls) \in Nat /\ DOMAIN s1.calls = 1..Len(s1.calls) /\ <<>> \in Data
      BY DEF SaidFine, CallsFine, Data
    <3>3. Len(s.calls) + 1 \in DOMAIN s1.calls
      BY <3>1, <3>2
    <3>4. ToolCallPart(c.id, c.name, c.data) \in PartsOf(s1.calls) /\ ToolCallPart(c.id, c.name, <<>>) \in PartsOf(s1.calls)
      BY <2>1, <3>1, <3>2, <3>3, PartIs
    <3> DEFINE e1 == ContentDelta(p.next, ToolCallPart(c.id, c.name, c.data), "arguments", c.data)
               e2 == ContentDelta(p.next, ToolCallPart(c.id, c.name, <<>>), "arguments", c.data)
    <3>5. e1 \in F /\ e2 \in F
      <4>1. e1 \in F
        BY <1>1, <2>1, <3>4, DeltaIs
      <4>2. e2 \in F
        BY <1>1, <2>1, <3>4, DeltaIs
      <4> QED BY <4>1, <4>2
    <3>6. \/ Parse(f, p, c) = Parsed(m, Append(Opening(p), e1))
          \/ Parse(f, p, c) = Parsed(m, Append(Opening(p), e2))
      <4>1. CASE f \in {"gemini", "antigravity"}
        BY <2>3, <4>1 DEF Parse, GeminiChunk, AntigravityChunk
      <4>2. CASE f \in {"buffered", "azure"}
        <5>1. Parse(f, p, c) = Parsed([p EXCEPT !.started = TRUE, !.next = @ + 1], Append(Opening(p), e2))
          BY <2>3, <4>2 DEF Parse, BufferedPart, AzurePart
        <5> HIDE DEF e1, e2, m
        <5> QED BY <1>4, <5>1
      <4> QED BY <1>8, <4>1, <4>2
    <3> HIDE DEF e1, e2, m, F
    <3>7. Append(Opening(p), e1) \in Seq(F) /\ Append(Opening(p), e2) \in Seq(F)
      BY <1>6, <3>5
    <3>8. ParserFine(f, m, s1) /\ ~m.done /\ ParserFine(f, q, s1) /\ ~q.done
      BY <1>3, <1>4
    <3> QED BY <3>6, <3>7, <3>8, FlowParsed DEF F
  <2>4. CASE c.kind = "text"
    <3> DEFINE e1 == ContentDelta(0, TextPart(<<>>), "text", c.data)
               e2 == ContentDelta(p.next, TextPart(<<>>), "text", c.data)
    <3>1. e1 \in F /\ e2 \in F
      <4>1. e1 \in F
        BY <1>1, <2>1, <2>2, DeltaIs
      <4>2. e2 \in F
        BY <1>1, <2>1, <2>2, DeltaIs
      <4> QED BY <4>1, <4>2
    <3>2. \/ Parse(f, p, c) = Parsed(q, Append(Opening(p), e1))
          \/ Parse(f, p, c) = Parsed(m, Append(Opening(p), e2))
      <4>1. CASE f \in {"gemini", "antigravity"}
        BY <2>4, <4>1 DEF Parse, GeminiChunk, AntigravityChunk
      <4>2. CASE f \in {"buffered", "azure"}
        <5>1. Parse(f, p, c) = Parsed([p EXCEPT !.started = TRUE, !.next = @ + 1], Append(Opening(p), e2))
          BY <2>4, <4>2 DEF Parse, BufferedPart, AzurePart
        <5> HIDE DEF e1, e2, m
        <5> QED BY <1>4, <5>1
      <4> QED BY <1>8, <4>1, <4>2
    <3> HIDE DEF e1, e2, m, q, F
    <3>3. Append(Opening(p), e1) \in Seq(F) /\ Append(Opening(p), e2) \in Seq(F)
      BY <1>6, <3>1
    <3>4. ParserFine(f, m, s1) /\ ~m.done /\ ParserFine(f, q, s1) /\ ~q.done
      BY <1>3, <1>4
    <3> QED BY <3>2, <3>3, <3>4, FlowParsed DEF F
  <2>5. CASE c.kind = "reasoning"
    <3> DEFINE e2 == ContentDelta(p.next, ThinkingPart(<<>>), "thinking", c.data)
    <3>1. e2 \in F
      BY <1>1, <2>1, <2>2, DeltaIs
    <3>2. \/ Parse(f, p, c) = Parsed(m, Opening(p))
          \/ Parse(f, p, c) = Parsed(m, Append(Opening(p), e2))
      <4>1. f \in {"buffered", "azure"}
        BY <1>7, <2>5 DEF BufferedFormats
      <4>2. \/ Parse(f, p, c) = Parsed([p EXCEPT !.started = TRUE, !.next = @ + 1], Opening(p))
            \/ Parse(f, p, c) = Parsed([p EXCEPT !.started = TRUE, !.next = @ + 1], Append(Opening(p), e2))
        BY <2>5, <4>1 DEF Parse, BufferedPart, AzurePart
      <4> HIDE DEF e2, m
      <4> QED BY <1>4, <4>2
    <3> HIDE DEF e2, m, F
    <3>3. Append(Opening(p), e2) \in Seq(F)
      BY <1>6, <3>1
    <3> QED BY <1>3, <1>4, <1>5, <3>2, <3>3, FlowParsed DEF F
  <2> QED BY <1>7, <1>10, <2>3, <2>4, <2>5
<1> QED BY <1>9, <1>10
\* PARSERS.  Whatever the format, a chunk that continues what was said becomes events that flow,
\* and perhaps one end, last and for the right reason; and the parser knows the calls that were made.
LEMMA Parses ==
  ASSUME NEW f \in Formats, NEW s, NEW s1, NEW p, NEW c, SaidFine(f, s), SaidFine(f, s1),
         ChunkFine(f, s, c), Follows(s, c, s1), ParserFine(f, p, s), ~p.done
  PROVE  ParsedFine(f, s1, Parse(f, p, c))
<1>1. CASE f \in OpenAIFormats
  BY <1>1, OpenAIParses
<1>2. CASE f \in ResponsesFormats
  BY <1>2, ResponsesParses
<1>3. CASE f \in GeminiFormats \cup BufferedFormats
  BY <1>3, CountingParses
<1> QED BY <1>1, <1>2, <1>3, FormatsAssumption

-----------------------------------------------------------------------------
(* What the handler writes.                                                *)
Kinds == {"text", "thinking", "tool"}
Concluding == {"finish", "message_delta", "completed"}
Silent(q) == \A k \in DOMAIN q : q[k].type \notin Concluding
Tells(q, r) == \A k \in DOMAIN q : q[k].type \in Concluding => q[k].reason = r

Chats == [next : Nat, indexOf : Maps(Places), idOf : Maps(Places)]
ChatReasons == {"stop", "length", "tool_calls", "content_filter"}
ChatWires(calls) ==
  [type : {"role", "done", "error"}, index : {None}, id : {None}, name : {None}, data : {<<>>}, reason : {None}]
  \cup [type : {"content", "arguments"}, index : Int \cup {None}, id : {None}, name : {None}, data : Data, reason : {None}]
  \cup (UNION {[type : {"tool"}, index : Int, id : {i}, name : {calls[i].name}, data : {<<>>}, reason : {None}] : i \in DOMAIN calls})
  \cup [type : {"finish"}, index : {None}, id : {None}, name : {None}, data : {<<>>}, reason : ChatReasons]

\* One wire event that concludes nothing.
LEMMA OneSilent ==
  ASSUME NEW W, NEW w \in W, w.type \notin Concluding
  PROVE  <<w>> \in Seq(W) /\ Silent(<<w>>)
  BY DEF Silent

\* The announcement of a call is that of a call that was made.
LEMMA ToolBlock ==
  ASSUME NEW calls, CallsFine(calls), NEW b \in PartsOf(calls), b.kind = "tool"
  PROVE  /\ b.id \in DOMAIN calls /\ b.id \in Nat /\ b.name = calls[b.id].name /\ b.name \in Names /\ b.data \in Data
         /\ calls # <<>>
<1>1. b \in AnnouncedOf(calls)
  BY DEF PartsOf, Plain
<1>2. PICK i \in DOMAIN calls : b.id = i /\ b.name = calls[i].name /\ b.data \in Data
  BY <1>1 DEF AnnouncedOf
<1>3. i \in Nat /\ calls[i].name \in Names
  BY CallsAreNamed
<1>4. calls # <<>>
  BY <1>2
<1> QED BY <1>2, <1>3, <1>4

\* The chat stream: wire events of a delta,
LEMMA ChatDeltaIs ==
  ASSUME NEW calls, CallsFine(calls), NEW s \in Chats, NEW e \in Deltas(calls)
  PROVE  /\ ChatDelta(s, e).state \in Chats
         /\ ChatDelta(s, e).wire \in Seq(ChatWires(calls)) /\ Silent(ChatDelta(s, e).wire)
<1> DEFINE W == ChatWires(calls)
           known == e.index \in DOMAIN s.idOf /\ s.idOf[e.index] = e.block.id
           call == IF e.index \in DOMAIN s.indexOf THEN s.indexOf[e.index] ELSE s.next - 1
           tool == e.block # None /\ e.block.kind = "tool"
<1>1. /\ e.index \in Int /\ e.data \in Data /\ s.next \in Nat /\ s.indexOf \in Maps(Places) /\ s.idOf \in Maps(Places)
      /\ e.block \in {None} \cup PartsOf(calls)
  BY DEF Deltas, Chats
<1>2. call \in Int
  BY <1>1, MapIs DEF Places
<1>3. <<>> \in Seq(W) /\ Silent(<<>>)
  BY DEF Silent
<1>4. ASSUME tool, ~known
      PROVE  /\ ChatDelta(s, e).state \in Chats
             /\ ChatDelta(s, e).wire \in Seq(W) /\ Silent(ChatDelta(s, e).wire)
  <2>1. e.block.id \in DOMAIN calls /\ e.block.id \in Nat /\ e.block.name = calls[e.block.id].name
    BY <1>1, <1>4, ToolBlock
  <2> DEFINE w == ChatWire("tool", s.next, e.block.id, e.block.name, <<>>, None)
             m1 == With(s.indexOf, e.index, s.next)
             m2 == With(s.idOf, e.index, e.block.id)
  <2>2. m1 \in Maps(Places)
    BY <1>1, WithPlace
  <2>3. m2 \in Maps(Places)
    <3>1. PICK i \in Nat : i = e.block.id
      BY <2>1
    <3>2. With(s.idOf, e.index, i) \in Maps(Places)
      BY <1>1, WithPlace
    <3> QED BY <3>1, <3>2
  <2>4. ChatDelta(s, e) = [state |-> Numbered(s, e.index, e.block.id), wire |-> <<w>>]
    BY <1>4 DEF ChatDelta
  <2>5. Numbered(s, e.index, e.block.id) \in Chats
    <3>1. Numbered(s, e.index, e.block.id) = [next |-> s.next + 1, indexOf |-> m1, idOf |-> m2]
      BY DEF Numbered
    <3> HIDE DEF m1, m2
    <3> QED BY <1>1, <2>2, <2>3, <3>1 DEF Chats
  <2>6. w \in W
    <3>1. PICK i \in DOMAIN calls : i = e.block.id
      BY <2>1
    <3>2. w = [type |-> "tool", index |-> s.next, id |-> i, name |-> calls[i].name, data |-> <<>>, reason |-> None]
      BY <2>1, <3>1 DEF ChatWire
    <3>3. w \in [type : {"tool"}, index : Int, id : {i}, name : {calls[i].name}, data : {<<>>}, reason : {None}]
      BY <1>1, <3>2
    <3> HIDE DEF w
    <3> QED BY <3>3 DEF ChatWires
  <2>7. w.type \notin Concluding
    BY DEF ChatWire, Concluding
  <2> HIDE DEF w, m1, m2, W
  <2>8. <<w>> \in Seq(W) /\ Silent(<<w>>)
    BY <2>6, <2>7, OneSilent
  <2> QED BY <2>4, <2>5, <2>8 DEF W
<1>5. ASSUME ~(tool /\ ~known)
      PROVE  /\ ChatDelta(s, e).state \in Chats
             /\ ChatDelta(s, e).wire \in Seq(W) /\ Silent(ChatDelta(s, e).wire)
  <2> DEFINE w1 == ChatWire("content", None, None, None, e.data, None)
             w2 == ChatWire("arguments", call, None, None, e.data, None)
  <2>1. \/ ChatDelta(s, e) = [state |-> s, wire |-> <<>>]
        \/ ChatDelta(s, e) = [state |-> s, wire |-> <<w1>>]
        \/ ChatDelta(s, e) = [state |-> s, wire |-> <<w2>>]
    BY <1>5 DEF ChatDelta
  <2>2. w1 \in W
    BY <1>1 DEF ChatWire, ChatWires
  <2>3. w2 \in W
    <3> HIDE DEF call
    <3> QED BY <1>1, <1>2 DEF ChatWire, ChatWires
  <2>4. w1.type \notin Concluding /\ w2.type \notin Concluding
    BY DEF ChatWire, Concluding
  <2> HIDE DEF w1, w2, W
  <2>5. <<w1>> \in Seq(W) /\ Silent(<<w1>>)
    BY <2>2, <2>4, OneSilent
  <2>6. <<w2>> \in Seq(W) /\ Silent(<<w2>>)
    BY <2>3, <2>4, OneSilent
  <2>7. \E q : q \in Seq(W) /\ Silent(q) /\ ChatDelta(s, e) = [state |-> s, wire |-> q]
    BY <1>3, <2>1, <2>5, <2>6, Zenon DEF W
  <2> HIDE DEF call, tool, known
  <2> QED BY <2>7 DEF W
<1> QED BY <1>4, <1>5

\* and of any event.  Only an end concludes, with the reason it gives.
LEMMA ChatEventIs ==
  ASSUME NEW calls, CallsFine(calls), NEW s \in Chats, NEW e \in Events(calls)
  PROVE  /\ ChatEvent(s, e).state \in Chats /\ ChatEvent(s, e).wire \in Seq(ChatWires(calls))
         /\ e.type # "stream_end" => Silent(ChatEvent(s, e).wire)
         /\ Tells(ChatEvent(s, e).wire, ChatReason(e.reason))
<1> DEFINE W == ChatWires(calls)
<1>1. \A q : Silent(q) => Tells(q, ChatReason(e.reason))
  BY DEF Silent, Tells, Concluding, Concluding
<1>2. CASE e.type = "stream_start"
  <2> DEFINE w == ChatWire("role", None, None, None, <<>>, None)
  <2>1. ChatEvent(s, e) = [state |-> ChatState, wire |-> <<w>>]
    BY <1>2 DEF ChatEvent
  <2>2. ChatState \in Chats
    BY EmptyMap DEF ChatState, Chats
  <2>3. w \in W /\ w.type \notin Concluding
    BY DEF ChatWire, ChatWires, Concluding
  <2> HIDE DEF w, W
  <2>4. <<w>> \in Seq(W) /\ Silent(<<w>>)
    BY <2>3, OneSilent
  <2> QED BY <1>1, <2>1, <2>2, <2>4 DEF W
<1>3. CASE e.type = "content_delta"
  <2>1. ChatEvent(s, e) = ChatDelta(s, e) /\ e \in Deltas(calls)
    BY <1>3, EventKinds DEF ChatEvent
  <2> QED BY <1>1, <2>1, ChatDeltaIs
<1>4. CASE e.type = "stream_end"
  <2> DEFINE w1 == ChatWire("finish", None, None, None, <<>>, ChatReason(e.reason))
             w2 == ChatWire("done", None, None, None, <<>>, None)
  <2>1. ChatEvent(s, e) = [state |-> s, wire |-> <<w1, w2>>]
    BY <1>4 DEF ChatEvent
  <2>2. ChatReason(e.reason) \in ChatReasons
    BY DEF ChatReason, ChatReasons
  <2>3. w1 \in W
    <3>1. PICK r \in ChatReasons : r = ChatReason(e.reason)
      BY <2>2
    <3>2. w1 = [type |-> "finish", index |-> None, id |-> None, name |-> None, data |-> <<>>, reason |-> r]
      BY <3>1 DEF ChatWire
    <3>3. w1 \in [type : {"finish"}, index : {None}, id : {None}, name : {None}, data : {<<>>}, reason : ChatReasons]
      BY <3>1, <3>2
    <3> HIDE DEF w1
    <3> QED BY <3>3, Zenon DEF ChatWires
  <2>4. w2 \in W
    BY DEF ChatWire, ChatWires
  <2>5. w1.reason = ChatReason(e.reason) /\ w2.type \notin Concluding
    BY DEF ChatWire, Concluding
  <2> HIDE DEF w1, w2, W
  <2>6. <<w1, w2>> \in Seq(W) /\ Tells(<<w1, w2>>, ChatReason(e.reason))
    BY <2>3, <2>4, <2>5 DEF Tells
  <2> QED BY <1>4, <2>1, <2>6 DEF W
<1>5. CASE e.type = "stream_error"
  <2> DEFINE w == ChatWire("error", None, None, None, <<>>, None)
  <2>1. ChatEvent(s, e) = [state |-> s, wire |-> <<w>>]
    BY <1>5 DEF ChatEvent
  <2>2. w \in W /\ w.type \notin Concluding
    BY DEF ChatWire, ChatWires, Concluding
  <2> HIDE DEF w, W
  <2>3. <<w>> \in Seq(W) /\ Silent(<<w>>)
    BY <2>2, OneSilent
  <2> QED BY <1>1, <2>1, <2>3 DEF W
<1> QED BY <1>2, <1>3, <1>4, <1>5, EventKinds

\* Wire events put together conclude what their parts do.
LEMMA SilentTogether ==
  ASSUME NEW W, NEW p \in Seq(W), NEW q \in Seq(W), Silent(p)
  PROVE  /\ p \o q \in Seq(W) /\ (Silent(q) => Silent(p \o q))
         /\ \A r : Tells(q, r) => Tells(p \o q, r)
<1>1. /\ p \o q \in Seq(W) /\ Len(p \o q) = Len(p) + Len(q) /\ Len(p) \in Nat /\ Len(q) \in Nat
      /\ \A k \in 1..(Len(p) + Len(q)) : (p \o q)[k] = IF k <= Len(p) THEN p[k] ELSE q[k - Len(p)]
  OBVIOUS
<1> DEFINE pq == p \o q
<1>2. \A k \in DOMAIN pq : (k \in DOMAIN p /\ pq[k] = p[k]) \/ (k - Len(p) \in DOMAIN q /\ pq[k] = q[k - Len(p)])
  BY <1>1
<1> HIDE DEF pq
<1>3. Silent(q) => Silent(pq)
  BY <1>2, Zenon DEF Silent
<1>4. \A r : Tells(q, r) => Tells(pq, r)
  BY <1>2, Zenon DEF Silent, Tells
<1> QED BY <1>1, <1>3, <1>4 DEF pq

-----------------------------------------------------------------------------
(* The Messages dialect.                                                   *)
Openings == [at : Nat, kind : Kinds]
MessagesStates ==
  {s \in [started : BOOLEAN, next : Nat, open : Maps(Openings), order : Seq(Int), suppress : BOOLEAN,
          suppressing : Int \cup {None}] :
     \A k \in DOMAIN s.order : s.order[k] \in DOMAIN s.open}
Signs == [type : {"message_start", "error", "message_stop"}, index : {None}, block : {None}, data : {<<>>}, reason : {None}]
BlockStarts(calls) ==
  [type : {"content_block_start"}, index : Nat, block : PartsOf(calls), data : {<<>>}, reason : {None}]
BlockDeltas ==
  [type : {"content_block_delta"}, index : Nat, block : {"text", "thinking", "arguments"}, data : Data, reason : {None}]
BlockStops == [type : {"content_block_stop"}, index : Nat, block : {None}, data : {<<>>}, reason : {None}]
MessageDeltas == [type : {"message_delta"}, index : {None}, block : {None}, data : {<<>>}, reason : StopReasons]
MessagesWires(calls) == Signs \cup BlockStarts(calls) \cup BlockDeltas \cup BlockStops \cup MessageDeltas

\* The Messages stream: wire events and their kinds.
LEMMA MessagesWireIs ==
  ASSUME NEW calls
  PROVE  /\ \A w \in MessagesWires(calls) : w.type \in Concluding => w.type = "message_delta"
         /\ \A i \in Nat : StopWire(i) \in MessagesWires(calls) /\ StopWire(i).type \notin Concluding
         /\ \A i \in Nat, b \in PartsOf(calls) :
              LET w == MessagesWire("content_block_start", i, b, <<>>, None)
              IN w \in MessagesWires(calls) /\ w.type \notin Concluding
         /\ \A i \in Nat, b \in {"text", "thinking", "arguments"}, d \in Data :
              LET w == MessagesWire("content_block_delta", i, b, d, None)
              IN w \in MessagesWires(calls) /\ w.type \notin Concluding
         /\ \A t \in {"message_start", "error", "message_stop"} :
              LET w == MessagesWire(t, None, None, <<>>, None)
              IN w \in MessagesWires(calls) /\ w.type \notin Concluding
         /\ \A r \in StopReasons : MessagesWire("message_delta", None, None, <<>>, r) \in MessagesWires(calls)
<1>1. \A w \in MessagesWires(calls) : w.type \in Concluding => w.type = "message_delta"
  BY DEF MessagesWires, Signs, BlockStarts, BlockDeltas, BlockStops, MessageDeltas, Concluding
<1>2. ASSUME NEW i \in Nat PROVE StopWire(i) \in BlockStops /\ StopWire(i).type \notin Concluding
  BY DEF StopWire, MessagesWire, BlockStops, Concluding
<1>3. ASSUME NEW i \in Nat, NEW b \in PartsOf(calls), NEW w, w = MessagesWire("content_block_start", i, b, <<>>, None)
      PROVE  w \in BlockStarts(calls) /\ w.type \notin Concluding
  BY <1>3 DEF MessagesWire, BlockStarts, Concluding
<1>4. ASSUME NEW i \in Nat, NEW b \in {"text", "thinking", "arguments"}, NEW d \in Data, NEW w,
             w = MessagesWire("content_block_delta", i, b, d, None)
      PROVE  w \in BlockDeltas /\ w.type \notin Concluding
  BY <1>4 DEF MessagesWire, BlockDeltas, Concluding
<1>5. ASSUME NEW t \in {"message_start", "error", "message_stop"}, NEW w, w = MessagesWire(t, None, None, <<>>, None)
      PROVE  w \in Signs /\ w.type \notin Concluding
  BY <1>5 DEF MessagesWire, Signs, Concluding
<1>6. ASSUME NEW r \in StopReasons PROVE MessagesWire("message_delta", None, None, <<>>, r) \in MessageDeltas
  BY DEF MessagesWire, MessageDeltas
<1>7. \A w : w \in Signs \/ w \in BlockStarts(calls) \/ w \in BlockDeltas \/ w \in BlockStops \/ w \in MessageDeltas
               => w \in MessagesWires(calls)
  BY Zenon DEF MessagesWires
<1> QED BY <1>1, <1>2, <1>3, <1>4, <1>5, <1>6, <1>7, Zenon

\* The fields of a state, and back.
LEMMA MessagesStateIs ==
  ASSUME NEW s
  PROVE  s \in MessagesStates
           <=> /\ s \in [started : BOOLEAN, next : Nat, open : Maps(Openings), order : Seq(Int), suppress : BOOLEAN,
                         suppressing : Int \cup {None}]
               /\ \A k \in DOMAIN s.order : s.order[k] \in DOMAIN s.open
  BY DEF MessagesStates

\* Blocks opened, closed one by one and closed all together leave the state well formed.
LEMMA OpenAtIs ==
  ASSUME NEW s \in MessagesStates, NEW i
  PROVE  /\ i \in DOMAIN s.open => i \in Int /\ s.open[i].at \in Nat
         /\ OpenAt(s, i) # None => i \in DOMAIN s.open /\ OpenAt(s, i).at \in Nat
<1>1. s.open \in Maps(Openings)
  BY MessagesStateIs
<1>2. i \in DOMAIN s.open => i \in Int /\ s.open[i] \in Openings
  BY <1>1, MapIs
<1>3. i \in DOMAIN s.open => s.open[i].at \in Nat
  BY <1>2 DEF Openings
<1>4. OpenAt(s, i) # None => i \in DOMAIN s.open /\ OpenAt(s, i) = s.open[i]
  BY Zenon DEF OpenAt
<1> QED BY <1>2, <1>3, <1>4

LEMMA OpenedAtIs ==
  ASSUME NEW s \in MessagesStates, NEW i \in Int, NEW kind \in Kinds
  PROVE  OpenedAt(s, i, kind) \in MessagesStates
<1> DEFINE open == With(s.open, i, [at |-> s.next, kind |-> kind])
           order == IF i \in DOMAIN s.open THEN s.order ELSE Append(s.order, i)
           s1 == [s EXCEPT !.open = open]
           s2 == [s1 EXCEPT !.order = order]
           s3 == [s2 EXCEPT !.next = s.next + 1]
           R == [started : BOOLEAN, next : Nat, open : Maps(Openings), order : Seq(Int), suppress : BOOLEAN,
                 suppressing : Int \cup {None}]
<1>1. s \in R /\ s.next \in Nat /\ s.open \in Maps(Openings) /\ s.order \in Seq(Int)
      /\ \A k \in DOMAIN s.order : s.order[k] \in DOMAIN s.open
  BY MessagesStateIs
<1>2. open \in Maps(Openings) /\ DOMAIN open = DOMAIN s.open \cup {i}
  <2>1. PICK o \in Openings : o = [at |-> s.next, kind |-> kind]
    BY <1>1 DEF Openings
  <2>2. open = With(s.open, i, o)
    BY <2>1
  <2>3. With(s.open, i, o) \in Maps(Openings)
    BY <1>1, WithMap
  <2>4. DOMAIN With(s.open, i, o) = DOMAIN s.open \cup {i}
    BY Zenon DEF With
  <2> QED BY <2>2, <2>3, <2>4, Zenon
<1>3. order \in Seq(Int) /\ \A k \in DOMAIN order : order[k] \in DOMAIN s.open \cup {i}
  <2>1. /\ Append(s.order, i) \in Seq(Int)
        /\ \A k \in DOMAIN Append(s.order, i) : Append(s.order, i)[k] = i \/ (k \in DOMAIN s.order /\ Append(s.order, i)[k] = s.order[k])
    BY <1>1
  <2> QED BY <1>1, <2>1, Zenon
<1>4. OpenedAt(s, i, kind) = s3
  BY <1>1 DEF OpenedAt
<1> HIDE DEF open, order
<1>5. s1 \in R /\ s1.open = open /\ s1.next = s.next
  BY <1>1, <1>2
<1> HIDE DEF s1
<1>6. s2 \in R /\ s2.open = open /\ s2.order = order
  BY <1>3, <1>5
<1> HIDE DEF s2
<1>7. s3 \in R /\ s3.open = open /\ s3.order = order
  <2>1. s.next + 1 \in Nat
    BY <1>1
  <2> QED BY <1>6, <2>1
<1> HIDE DEF s3
<1> QED BY <1>2, <1>3, <1>4, <1>7, MessagesStateIs

LEMMA ClosedAtIs ==
  ASSUME NEW s \in MessagesStates, NEW i
  PROVE  ClosedAt(s, i) \in MessagesStates /\ ClosedAt(s, i).next = s.next
<1> DEFINE I == {k \in DOMAIN s.order : s.order[k] # i}
           open == Without(s.open, {i})
           order == Picked(s.order, I)
           s1 == [s EXCEPT !.open = open]
           s2 == [s1 EXCEPT !.order = order]
           R == [started : BOOLEAN, next : Nat, open : Maps(Openings), order : Seq(Int), suppress : BOOLEAN,
                 suppressing : Int \cup {None}]
<1>1. s \in R /\ s.next \in Nat /\ s.open \in Maps(Openings) /\ s.order \in Seq(Int)
      /\ \A k \in DOMAIN s.order : s.order[k] \in DOMAIN s.open
  BY MessagesStateIs
<1>2. open \in Maps(Openings) /\ DOMAIN open = DOMAIN s.open \ {i}
  <2>1. open \in Maps(Openings)
    BY <1>1, WithoutMap
  <2>2. DOMAIN open = DOMAIN s.open \ {i}
    BY Zenon DEF Without
  <2> QED BY <2>1, <2>2
<1>3. /\ order \in Seq(Int) /\ Cardinality(I) \in Nat /\ Len(order) = Cardinality(I)
      /\ \A n \in 1..Cardinality(I) : order[n] = s.order[NthSmallest(I, n)] /\ NthSmallest(I, n) \in I
  <2>1. I \subseteq DOMAIN s.order
    OBVIOUS
  <2> HIDE DEF I
  <2> QED BY <1>1, <2>1, PickedIs
<1>4. \A k \in DOMAIN order : order[k] \in DOMAIN s.open \ {i}
  <2>1. DOMAIN order = 1..Cardinality(I)
    <3> HIDE DEF order, I
    <3> QED BY <1>3
  <2>2. \A k \in I : s.order[k] \in DOMAIN s.open \ {i}
    BY <1>1
  <2> HIDE DEF order, I
  <2> QED BY <1>3, <2>1, <2>2
<1>5. ClosedAt(s, i) = s2
  BY <1>1 DEF ClosedAt
<1> HIDE DEF open, order
<1>6. s1 \in R /\ s1.open = open /\ s1.next = s.next
  BY <1>1, <1>2
<1> HIDE DEF s1
<1>7. s2 \in R /\ s2.open = open /\ s2.order = order /\ s2.next = s.next
  BY <1>3, <1>6
<1> HIDE DEF s2
<1> QED BY <1>2, <1>4, <1>5, <1>7, MessagesStateIs

LEMMA CloseAllIs ==
  ASSUME NEW calls, NEW s \in MessagesStates
  PROVE  /\ CloseAll(s) \in MessagesStates
         /\ CloseAllWires(s) \in Seq(MessagesWires(calls)) /\ Silent(CloseAllWires(s))
<1> DEFINE W == MessagesWires(calls)
           s1 == [s EXCEPT !.open = <<>>]
           s2 == [s1 EXCEPT !.order = <<>>]
           R == [started : BOOLEAN, next : Nat, open : Maps(Openings), order : Seq(Int), suppress : BOOLEAN,
                 suppressing : Int \cup {None}]
<1>1. s \in R /\ s.order \in Seq(Int) /\ \A k \in DOMAIN s.order : s.order[k] \in DOMAIN s.open
  BY MessagesStateIs
<1>2. CloseAll(s) \in MessagesStates
  <2>1. CloseAll(s) = s2
    BY <1>1 DEF CloseAll
  <2>2. <<>> \in Maps(Openings) /\ <<>> \in Seq(Int) /\ DOMAIN <<>> = {}
    BY EmptyMap
  <2>3. s1 \in R
    BY <1>1, <2>2
  <2> HIDE DEF s1
  <2>4. s2 \in R /\ s2.order = <<>>
    BY <2>2, <2>3
  <2> HIDE DEF s2
  <2> QED BY <2>1, <2>2, <2>4, MessagesStateIs
<1>3. \A k \in DOMAIN s.order : StopWire(s.open[s.order[k]].at) \in W /\ StopWire(s.open[s.order[k]].at).type \notin Concluding
  BY <1>1, OpenAtIs, MessagesWireIs
<1>4. CloseAllWires(s) = [k \in DOMAIN s.order |-> StopWire(s.open[s.order[k]].at)]
  BY Zenon DEF CloseAllWires
<1> HIDE DEF W
<1>5. DOMAIN s.order = 1..Len(s.order) /\ Len(s.order) \in Nat
  BY <1>1
<1>6. CloseAllWires(s) \in Seq(W)
  BY <1>3, <1>4, <1>5
<1>7. Silent(CloseAllWires(s))
  BY <1>3, <1>4, Zenon DEF Silent
<1> QED BY <1>2, <1>6, <1>7 DEF W

\* Thinking that is withheld.
LEMMA SuppressingIs ==
  ASSUME NEW s \in MessagesStates, NEW e, e.index \in Int
  PROVE  Suppressing(s, e) \in MessagesStates
<1> DEFINE R == [started : BOOLEAN, next : Nat, open : Maps(Openings), order : Seq(Int), suppress : BOOLEAN,
                 suppressing : Int \cup {None}]
<1>1. s \in R /\ \A k \in DOMAIN s.order : s.order[k] \in DOMAIN s.open
  BY MessagesStateIs
<1>2. ASSUME NEW x \in Int \cup {None} PROVE [s EXCEPT !.suppressing = x] \in MessagesStates
  <2> DEFINE t == [s EXCEPT !.suppressing = x]
  <2>1. t \in R /\ t.order = s.order /\ t.open = s.open
    BY <1>1
  <2> HIDE DEF t
  <2>2. \A k \in DOMAIN t.order : t.order[k] \in DOMAIN t.open
    BY <1>1, <2>1
  <2>3. t \in MessagesStates
    BY <2>1, <2>2, MessagesStateIs
  <2> QED BY <2>3 DEF t
<1>3. e.index \in Int \cup {None} /\ None \in Int \cup {None}
  OBVIOUS
<1> HIDE DEF R
<1> QED BY <1>2, <1>3, Zenon DEF Suppressing

\* The wire events of an announcement, of a delta
LEMMA AnnouncementIs ==
  ASSUME NEW calls, NEW s \in MessagesStates, NEW e \in Deltas(calls)
  PROVE  /\ Announcement(s, e).state \in MessagesStates
         /\ Announcement(s, e).wire \in Seq(MessagesWires(calls)) /\ Silent(Announcement(s, e).wire)
<1> DEFINE W == MessagesWires(calls)
           old == OpenAt(s, e.index)
           t == IF old = None THEN s ELSE ClosedAt(s, e.index)
           stop == StopWire(old.at)
           start == MessagesWire("content_block_start", s.next, e.block, <<>>, None)
           first == IF old = None THEN <<>> ELSE <<stop>>
<1>1. e.index \in Int /\ e.block \in {None} \cup PartsOf(calls) /\ s.next \in Nat
  BY MessagesStateIs DEF Deltas
<1>2. CASE e.block = None \/ (old # None /\ old.kind = e.block.kind)
  <2>1. Announcement(s, e) = [state |-> s, wire |-> <<>>]
    BY <1>2, Zenon DEF Announcement
  <2>2. <<>> \in Seq(W) /\ Silent(<<>>)
    BY DEF Silent
  <2> QED BY <2>1, <2>2
<1>3. CASE ~(e.block = None \/ (old # None /\ old.kind = e.block.kind))
  <2>1. Announcement(s, e) = [state |-> OpenedAt(t, e.index, e.block.kind), wire |-> first \o <<start>>]
    BY <1>3, Zenon DEF Announcement
  <2>2. e.block \in PartsOf(calls) /\ e.block.kind \in Kinds
    <3>1. e.block \in PartsOf(calls)
      BY <1>1, <1>3
    <3> QED BY <3>1 DEF PartsOf, Plain, AnnouncedOf, Kinds
  <2>3. t \in MessagesStates
    BY ClosedAtIs, Zenon
  <2>4. OpenedAt(t, e.index, e.block.kind) \in MessagesStates
    <3> HIDE DEF t
    <3> QED BY <1>1, <2>2, <2>3, OpenedAtIs
  <2>5. start \in W /\ start.type \notin Concluding
    BY <1>1, <2>2, MessagesWireIs, Zenon
  <2>6. old # None => stop \in W /\ stop.type \notin Concluding
    BY OpenAtIs, MessagesWireIs, Zenon
  <2> HIDE DEF start, stop, W, old, t
  <2>7. <<start>> \in Seq(W) /\ Silent(<<start>>)
    BY <2>5, OneSilent
  <2>8. first \in Seq(W) /\ Silent(first)
    <3>1. old # None => <<stop>> \in Seq(W) /\ Silent(<<stop>>)
      BY <2>6, OneSilent
    <3>2. <<>> \in Seq(W) /\ Silent(<<>>)
      BY DEF Silent
    <3> QED BY <3>1, <3>2, Zenon
  <2> HIDE DEF first
  <2>9. first \o <<start>> \in Seq(W) /\ Silent(first \o <<start>>)
    BY <2>7, <2>8, SilentTogether
  <2> DEFINE q == first \o <<start>>
  <2> HIDE DEF q
  <2>10. Announcement(s, e) = [state |-> OpenedAt(t, e.index, e.block.kind), wire |-> q]
    BY <2>1 DEF q
  <2> QED BY <2>4, <2>9, <2>10 DEF q, W
<1> QED BY <1>2, <1>3

LEMMA MessagesDeltaIs ==
  ASSUME NEW calls, NEW s \in MessagesStates, NEW e \in Deltas(calls)
  PROVE  /\ MessagesDelta(s, e).state \in MessagesStates
         /\ MessagesDelta(s, e).wire \in Seq(MessagesWires(calls)) /\ Silent(MessagesDelta(s, e).wire)
<1> DEFINE W == MessagesWires(calls)
           u == Suppressing(s, e)
           a == Announcement(u, e)
           target == OpenAt(a.state, e.index)
           w == MessagesWire("content_block_delta", target.at, e.delta, e.data, None)
           rest == IF target = None \/ e.delta \notin {"text", "thinking", "arguments"} THEN <<>> ELSE <<w>>
<1>1. e.index \in Int /\ e.data \in Data
  BY DEF Deltas
<1>2. u \in MessagesStates
  BY <1>1, SuppressingIs
<1>3. <<>> \in Seq(W) /\ Silent(<<>>)
  BY DEF Silent
<1> HIDE DEF u
<1>4. a.state \in MessagesStates /\ a.wire \in Seq(W) /\ Silent(a.wire)
  BY <1>2, AnnouncementIs
<1>5. CASE Withheld(s, e)
  <2>1. MessagesDelta(s, e) = [state |-> u, wire |-> <<>>]
    BY <1>5, Zenon DEF MessagesDelta, u
  <2> QED BY <1>2, <1>3, <2>1
<1>6. CASE ~Withheld(s, e)
  <2>1. MessagesDelta(s, e) = [state |-> a.state, wire |-> a.wire \o rest]
    BY <1>6, Zenon DEF MessagesDelta, u
  <2>2. ASSUME target # None, e.delta \in {"text", "thinking", "arguments"}
        PROVE  w \in W /\ w.type \notin Concluding
    <3>1. target.at \in Nat
      BY <1>4, <2>2, OpenAtIs, Zenon
    <3> HIDE DEF target
    <3> QED BY <1>1, <2>2, <3>1, MessagesWireIs, Zenon
  <2> HIDE DEF W, a, target, w
  <2>3. rest \in Seq(W) /\ Silent(rest)
    <3>1. CASE target = None \/ e.delta \notin {"text", "thinking", "arguments"}
      BY <1>3, <3>1, Zenon
    <3>2. CASE ~(target = None \/ e.delta \notin {"text", "thinking", "arguments"})
      <4>1. <<w>> \in Seq(W) /\ Silent(<<w>>)
        BY <2>2, <3>2, OneSilent
      <4>2. rest = <<w>>
        BY <3>2, Zenon
      <4> QED BY <4>1, <4>2
    <3> QED BY <3>1, <3>2
  <2> HIDE DEF rest
  <2>4. a.wire \o rest \in Seq(W) /\ Silent(a.wire \o rest)
    BY <1>4, <2>3, SilentTogether
  <2>5. MessagesDelta(s, e).state = a.state /\ MessagesDelta(s, e).wire = a.wire \o rest
    BY <2>1
  <2> QED BY <1>4, <2>4, <2>5 DEF W
<1> QED BY <1>5, <1>6

\* The end of a message tells one reason.
LEMMA TerminalIs ==
  ASSUME NEW calls, NEW r
  PROVE  Terminal(r) \in Seq(MessagesWires(calls)) /\ Tells(Terminal(r), MessagesReason(r)) /\ MessagesReason(r) \in StopReasons
<1> DEFINE W == MessagesWires(calls)
           w1 == MessagesWire("message_delta", None, None, <<>>, MessagesReason(r))
           w2 == MessagesWire("message_stop", None, None, <<>>, None)
<1>1. MessagesReason(r) \in StopReasons
  BY DEF MessagesReason, StopReasons
<1>2. w1 \in W /\ w1.reason = MessagesReason(r)
  <2>1. w1 \in W
    BY <1>1, MessagesWireIs, Zenon
  <2> QED BY <2>1 DEF MessagesWire
<1>3. w2 \in W /\ w2.type \notin Concluding
  <2>1. "message_stop" \in {"message_start", "error", "message_stop"}
    OBVIOUS
  <2> QED BY <2>1, MessagesWireIs, Zenon
<1>4. Terminal(r) = <<w1, w2>>
  BY DEF Terminal
<1> HIDE DEF W, w1, w2
<1>5. <<w1, w2>> \in Seq(W) /\ Tells(<<w1, w2>>, MessagesReason(r))
  BY <1>2, <1>3 DEF Tells
<1> QED BY <1>1, <1>4, <1>5 DEF W

\* Wire events of any event.  Only an end concludes, with the reason it gives.
LEMMA MessagesEventIs ==
  ASSUME NEW calls, NEW s \in MessagesStates, NEW e \in Events(calls)
  PROVE  /\ MessagesEvent(s, e).state \in MessagesStates /\ MessagesEvent(s, e).wire \in Seq(MessagesWires(calls))
         /\ e.type # "stream_end" => Silent(MessagesEvent(s, e).wire)
         /\ Tells(MessagesEvent(s, e).wire, MessagesReason(e.reason))
<1> DEFINE W == MessagesWires(calls)
<1>1. \A q : Silent(q) => Tells(q, MessagesReason(e.reason))
  BY DEF Silent, Tells
<1>2. CASE e.type = "stream_start"
  <2> DEFINE w == MessagesWire("message_start", None, None, <<>>, None)
             t == MessagesState(s.suppress)
             t1 == [t EXCEPT !.started = TRUE]
             R == [started : BOOLEAN, next : Nat, open : Maps(Openings), order : Seq(Int), suppress : BOOLEAN,
                   suppressing : Int \cup {None}]
  <2>1. MessagesEvent(s, e) = [state |-> t1, wire |-> <<w>>]
    BY <1>2 DEF MessagesEvent
  <2>2. t1 \in MessagesStates
    <3>1. s.suppress \in BOOLEAN /\ <<>> \in Maps(Openings) /\ <<>> \in Seq(Int)
      BY MessagesStateIs, EmptyMap
    <3>2. t \in R /\ t.order = <<>>
      BY <3>1 DEF MessagesState
    <3> HIDE DEF t
    <3>3. t1 \in R /\ t1.order = <<>>
      BY <3>2
    <3> HIDE DEF t1
    <3> QED BY <3>3, MessagesStateIs
  <2>3. w \in W /\ w.type \notin Concluding
    <3>1. "message_start" \in {"message_start", "error", "message_stop"}
      OBVIOUS
    <3> QED BY <3>1, MessagesWireIs, Zenon
  <2> HIDE DEF w, W, t1
  <2>4. <<w>> \in Seq(W) /\ Silent(<<w>>)
    BY <2>3, OneSilent
  <2> QED BY <1>1, <2>1, <2>2, <2>4 DEF W
<1>3. CASE e.type = "content_delta"
  <2>1. MessagesEvent(s, e) = MessagesDelta(s, e) /\ e \in Deltas(calls)
    BY <1>3, EventKinds DEF MessagesEvent
  <2> QED BY <1>1, <2>1, MessagesDeltaIs
<1>4. CASE e.type = "stream_end"
  <2> DEFINE q == CloseAllWires(s) \o Terminal(e.reason)
  <2>1. MessagesEvent(s, e) = [state |-> CloseAll(s), wire |-> q]
    BY <1>4 DEF MessagesEvent
  <2>2. CloseAll(s) \in MessagesStates /\ CloseAllWires(s) \in Seq(W) /\ Silent(CloseAllWires(s))
    BY CloseAllIs
  <2>3. Terminal(e.reason) \in Seq(W) /\ Tells(Terminal(e.reason), MessagesReason(e.reason))
    BY TerminalIs
  <2> HIDE DEF W
  <2>4. q \in Seq(W) /\ Tells(q, MessagesReason(e.reason))
    BY <2>2, <2>3, SilentTogether
  <2> HIDE DEF q
  <2> QED BY <1>4, <2>1, <2>2, <2>4 DEF W
<1>5. CASE e.type = "stream_error"
  <2> DEFINE w == MessagesWire("error", None, None, <<>>, None)
  <2>1. MessagesEvent(s, e) = [state |-> s, wire |-> <<w>>]
    BY <1>5 DEF MessagesEvent
  <2>2. w \in W /\ w.type \notin Concluding
    <3>1. "error" \in {"message_start", "error", "message_stop"}
      OBVIOUS
    <3> QED BY <3>1, MessagesWireIs, Zenon
  <2> HIDE DEF w, W
  <2>3. <<w>> \in Seq(W) /\ Silent(<<w>>)
    BY <2>2, OneSilent
  <2> QED BY <1>1, <2>1, <2>3 DEF W
<1> QED BY <1>2, <1>3, <1>4, <1>5, EventKinds

\* A message the upstream did not end is ended as the end of a turn.
LEMMA FinalizeIs ==
  ASSUME NEW calls, NEW s \in MessagesStates
  PROVE  /\ Finalize(s).state \in MessagesStates /\ Finalize(s).wire \in Seq(MessagesWires(calls))
         /\ Tells(Finalize(s).wire, "end_turn")
<1> DEFINE W == MessagesWires(calls)
<1>1. CASE ~s.started
  <2>1. Finalize(s) = [state |-> s, wire |-> <<>>]
    BY <1>1, Zenon DEF Finalize
  <2>2. <<>> \in Seq(W) /\ Tells(<<>>, "end_turn")
    BY DEF Tells
  <2> QED BY <2>1, <2>2
<1>2. CASE s.started
  <2> DEFINE q == CloseAllWires(s) \o Terminal("end_turn")
             c == CloseAll(s)
             t == [c EXCEPT !.started = FALSE]
             R == [started : BOOLEAN, next : Nat, open : Maps(Openings), order : Seq(Int), suppress : BOOLEAN,
                   suppressing : Int \cup {None}]
  <2>1. Finalize(s) = [state |-> t, wire |-> q]
    BY <1>2, Zenon DEF Finalize
  <2>2. c \in MessagesStates /\ CloseAllWires(s) \in Seq(W) /\ Silent(CloseAllWires(s))
    BY CloseAllIs
  <2>3. Terminal("end_turn") \in Seq(W) /\ Tells(Terminal("end_turn"), MessagesReason("end_turn"))
    BY TerminalIs
  <2>4. MessagesReason("end_turn") = "end_turn"
    BY DEF MessagesReason, StopReasons
  <2> HIDE DEF W, c
  <2>5. q \in Seq(W) /\ Tells(q, "end_turn")
    BY <2>2, <2>3, <2>4, SilentTogether
  <2>6. t \in MessagesStates
    <3>1. c \in R /\ \A k \in DOMAIN c.order : c.order[k] \in DOMAIN c.open
      BY <2>2, MessagesStateIs
    <3>2. t \in R /\ t.order = c.order /\ t.open = c.open
      BY <3>1
    <3> HIDE DEF t
    <3> QED BY <3>1, <3>2, MessagesStateIs
  <2> HIDE DEF q, t
  <2> QED BY <2>1, <2>5, <2>6 DEF W
<1> QED BY <1>1, <1>2

-----------------------------------------------------------------------------
(* The Responses dialect.                                                  *)
OutputItems == [kind : {"message", "tool"}, id : Nat \cup {None}, name : Names \cup {None}, data : Data]
ResponsesFields ==
  [message : Nat \cup {None}, contents : Maps(Places), texts : Maps(Data), closed : SUBSET Nat,
   tools : Maps(Places), items : Seq(OutputItems)]
ResponsesStates == {s \in ResponsesFields : s.message # None => s.message + 1 \in DOMAIN s.items}
ItemWires ==
  [type : {"output_item.added", "output_item.done"}, index : Nat \cup {None}, content : {None}, item : OutputItems,
   data : {<<>>}, reason : {None}]
DataWires ==
  [type : {"created", "content_block.added", "output_text.delta", "arguments.delta", "content_block.done",
           "output_text.done", "arguments.done"},
   index : Nat \cup {None}, content : Nat \cup {None}, item : {None}, data : Data, reason : {None}]
OpenWires == ItemWires \cup DataWires
CompletedWires ==
  [type : {"completed"}, index : {None}, content : {None}, item : Seq(OutputItems), data : {<<>>},
   reason : {"completed"}]
ResponsesWires == OpenWires \cup CompletedWires

\* The Responses stream: only response.completed concludes.
LEMMA OpenWiresAreSilent ==
  ASSUME NEW q \in Seq(OpenWires)
  PROVE  q \in Seq(ResponsesWires) /\ Silent(q)
<1>1. \A w \in OpenWires : w.type \notin Concluding
  BY DEF OpenWires, ItemWires, DataWires, Concluding
<1>2. OpenWires \subseteq ResponsesWires
  BY DEF ResponsesWires
<1> HIDE DEF OpenWires
<1>3. q \in Seq(ResponsesWires)
  BY <1>2, SeqOfMore
<1>4. \A k \in DOMAIN q : q[k] \in OpenWires
  OBVIOUS
<1> QED BY <1>1, <1>3, <1>4 DEF Silent

LEMMA ItemWireIs ==
  ASSUME NEW t \in {"output_item.added", "output_item.done"}, NEW i \in Nat \cup {None}, NEW item \in OutputItems
  PROVE  <<ItemWire(t, i, item)>> \in Seq(OpenWires)
<1> DEFINE w == ItemWire(t, i, item)
<1>1. w = [type |-> t, index |-> i, content |-> None, item |-> item, data |-> <<>>, reason |-> None]
  BY DEF ItemWire, ResponsesWire
<1>2. w \in ItemWires
  BY <1>1 DEF ItemWires
<1> HIDE DEF w
<1>3. w \in OpenWires
  BY <1>2, Zenon DEF OpenWires
<1> HIDE DEF OpenWires
<1>4. <<w>> \in Seq(OpenWires)
  BY <1>3
<1> QED BY <1>4 DEF w

DataTypes == {"created", "content_block.added", "output_text.delta", "arguments.delta", "content_block.done",
              "output_text.done", "arguments.done"}

LEMMA DataWireIs ==
  ASSUME NEW t \in DataTypes, NEW i \in Nat \cup {None}, NEW c \in Nat \cup {None}, NEW d \in Data
  PROVE  /\ ResponsesWire(t, i, c, None, d, None) \in OpenWires
         /\ <<ResponsesWire(t, i, c, None, d, None)>> \in Seq(OpenWires)
<1> DEFINE w == ResponsesWire(t, i, c, None, d, None)
<1>1. w = [type |-> t, index |-> i, content |-> c, item |-> None, data |-> d, reason |-> None]
  BY DEF ResponsesWire
<1>2. w \in DataWires
  BY <1>1 DEF DataWires, DataTypes
<1> HIDE DEF w
<1>3. w \in OpenWires
  BY <1>2, Zenon DEF OpenWires
<1> HIDE DEF OpenWires
<1>4. <<w>> \in Seq(OpenWires)
  BY <1>3
<1> QED BY <1>3, <1>4 DEF w

LEMMA ResponsesStateIs ==
  ASSUME NEW s
  PROVE  s \in ResponsesStates <=> s \in ResponsesFields /\ (s.message # None => s.message + 1 \in DOMAIN s.items)
  BY DEF ResponsesStates

LEMMA ResponsesFieldsAre ==
  ASSUME NEW s \in ResponsesStates
  PROVE  /\ s.message \in Nat \cup {None} /\ s.contents \in Maps(Places) /\ s.texts \in Maps(Data)
         /\ s.closed \subseteq Nat /\ s.tools \in Maps(Places) /\ s.items \in Seq(OutputItems)
         /\ Len(s.items) \in Nat /\ DOMAIN s.items = 1..Len(s.items)
         /\ Cardinality(DOMAIN s.contents) \in Nat
         /\ \A i \in DOMAIN s.contents : s.contents[i] \in Nat
         /\ \A i \in DOMAIN s.tools : s.tools[i] \in Nat
<1>1. /\ s.message \in Nat \cup {None} /\ s.contents \in Maps(Places) /\ s.texts \in Maps(Data)
      /\ s.closed \subseteq Nat /\ s.tools \in Maps(Places) /\ s.items \in Seq(OutputItems)
  BY ResponsesStateIs DEF ResponsesFields
<1>2. Len(s.items) \in Nat /\ DOMAIN s.items = 1..Len(s.items)
  BY <1>1
<1>3. Cardinality(DOMAIN s.contents) \in Nat
  BY <1>1, MapIs, FS_CardinalityType
<1>4. \A i \in DOMAIN s.contents : s.contents[i] \in Nat
  BY <1>1, MapIs DEF Places
<1>5. \A i \in DOMAIN s.tools : s.tools[i] \in Nat
  BY <1>1, MapIs DEF Places
<1> QED BY <1>1, <1>2, <1>3, <1>4, <1>5

\* The place of a text, and the wire events that announce it.
LEMMA TextAtIs ==
  ASSUME NEW s \in ResponsesStates, NEW c
  PROVE  TextAt(s, c) \in Data
<1>1. s.texts \in Maps(Data)
  BY ResponsesFieldsAre
<1>2. c \in DOMAIN s.texts => s.texts[c] \in Data
  BY <1>1, MapIs
<1>3. <<>> \in Data
  BY DEF Data
<1> QED BY <1>2, <1>3, Zenon DEF TextAt

LEMMA TextAnnouncementIs ==
  ASSUME NEW s \in ResponsesStates, NEW i \in Int
  PROVE  TextAnnouncement(s, i).state \in ResponsesStates /\ TextAnnouncement(s, i).wire \in Seq(OpenWires)
<1> DEFINE first == s.message = None
           n == Len(s.items)
           items == Append(s.items, MessageItem)
           s1 == [s EXCEPT !.message = n]
           s2 == [s1 EXCEPT !.items = items]
           t == IF first THEN [s EXCEPT !.message = n, !.items = Append(@, MessageItem)] ELSE s
           at == Cardinality(DOMAIN s.contents)
           u == [t EXCEPT !.contents = With(@, i, at)]
           w1 == IF first THEN <<ItemWire("output_item.added", t.message, MessageItem)>> ELSE <<>>
           w2 == IF i \in DOMAIN s.contents THEN <<>> ELSE <<ContentWire("content_block.added", t, at, <<>>)>>
<1>1. /\ s \in ResponsesFields /\ n \in Nat /\ s.items \in Seq(OutputItems) /\ at \in Nat /\ s.contents \in Maps(Places)
      /\ (s.message # None => s.message + 1 \in DOMAIN s.items)
  BY ResponsesFieldsAre, ResponsesStateIs
<1>2. MessageItem \in OutputItems
  BY DEF MessageItem, Part, OutputItems, Data
<1>3. items \in Seq(OutputItems) /\ n + 1 \in DOMAIN items
  <2> HIDE DEF OutputItems
  <2> QED BY <1>1, <1>2
<1>4. TextAnnouncement(s, i) = [state |-> IF i \in DOMAIN s.contents THEN t ELSE u, wire |-> w1 \o w2]
  BY DEF TextAnnouncement
<1>5. first => t = s2
  BY <1>1 DEF ResponsesFields
<1>6. ~first => t = s
  OBVIOUS
<1> HIDE DEF items
<1>7. s1 \in ResponsesFields /\ s1.message = n
  BY <1>1 DEF ResponsesFields
<1> HIDE DEF s1
<1>8. s2 \in ResponsesFields /\ s2.message = n /\ s2.items = items
  BY <1>3, <1>7 DEF ResponsesFields
<1> HIDE DEF s2
<1>9. s2 \in ResponsesStates
  BY <1>3, <1>8, ResponsesStateIs
<1>10. t \in ResponsesStates /\ t.message \in Nat \cup {None}
  <2>1. t \in ResponsesStates
    BY <1>5, <1>6, <1>9, Zenon
  <2> HIDE DEF t
  <2> QED BY <2>1, ResponsesFieldsAre
<1>11. w1 \in Seq(OpenWires)
  <2>1. "output_item.added" \in {"output_item.added", "output_item.done"}
    OBVIOUS
  <2> HIDE DEF t, OpenWires
  <2>2. <<ItemWire("output_item.added", t.message, MessageItem)>> \in Seq(OpenWires)
    BY <1>2, <1>10, <2>1, ItemWireIs
  <2> QED BY <2>2
<1> HIDE DEF t
<1>12. w2 \in Seq(OpenWires)
  <2>1. "content_block.added" \in DataTypes /\ <<>> \in Data /\ at \in Nat \cup {None}
    BY <1>1 DEF DataTypes, Data
  <2>2. <<ResponsesWire("content_block.added", t.message, at, None, <<>>, None)>> \in Seq(OpenWires)
    BY <1>10, <2>1, DataWireIs
  <2>3. ContentWire("content_block.added", t, at, <<>>) = ResponsesWire("content_block.added", t.message, at, None, <<>>, None)
    BY Zenon DEF ContentWire
  <2> HIDE DEF OpenWires
  <2> QED BY <2>2, <2>3
<1>13. u \in ResponsesStates
  <2>1. t \in ResponsesFields /\ (t.message # None => t.message + 1 \in DOMAIN t.items)
    BY <1>10, ResponsesStateIs
  <2>2. t.contents \in Maps(Places)
    BY <1>10, ResponsesFieldsAre
  <2>3. With(t.contents, i, at) \in Maps(Places)
    BY <1>1, <2>2, WithPlace
  <2>4. u \in ResponsesFields /\ u.message = t.message /\ u.items = t.items
    BY <2>1, <2>3 DEF ResponsesFields
  <2> HIDE DEF u
  <2> QED BY <2>1, <2>4, ResponsesStateIs
<1> HIDE DEF w1, w2, u, OpenWires
<1>14. w1 \o w2 \in Seq(OpenWires)
  BY <1>11, <1>12
<1> QED BY <1>4, <1>10, <1>13, <1>14

\* The wire events that announce a call.
LEMMA CallAnnouncementIs ==
  ASSUME NEW calls, CallsFine(calls), NEW s \in ResponsesStates, NEW i \in Int, NEW b \in PartsOf(calls), b.kind = "tool"
  PROVE  CallAnnouncement(s, i, b).state \in ResponsesStates /\ CallAnnouncement(s, i, b).wire \in Seq(OpenWires)
<1> DEFINE n == Len(s.items)
           item == Part("tool", b.id, b.name, <<>>)
           items == Append(s.items, item)
           tools == With(s.tools, i, n)
           s1 == [s EXCEPT !.tools = tools]
           s2 == [s1 EXCEPT !.items = items]
           w == ItemWire("output_item.added", n, item)
<1>1. /\ s \in ResponsesFields /\ n \in Nat /\ s.items \in Seq(OutputItems) /\ s.tools \in Maps(Places)
      /\ (s.message # None => s.message + 1 \in DOMAIN s.items)
  BY ResponsesFieldsAre, ResponsesStateIs
<1>2. item \in OutputItems
  <2>1. b.id \in Nat /\ b.name \in Names
    BY ToolBlock
  <2> QED BY <2>1 DEF Part, OutputItems, Data
<1>3. items \in Seq(OutputItems) /\ DOMAIN s.items \subseteq DOMAIN items
  <2> HIDE DEF OutputItems, item
  <2> QED BY <1>1, <1>2
<1>4. tools \in Maps(Places)
  BY <1>1, WithPlace
<1>5. \/ CallAnnouncement(s, i, b) = [state |-> s, wire |-> <<>>]
      \/ CallAnnouncement(s, i, b) = [state |-> s2, wire |-> <<w>>]
  <2>1. [s EXCEPT !.tools = With(@, i, Len(s.items)), !.items = Append(@, item)] = s2
    <3> HIDE DEF item
    <3> QED BY <1>1 DEF ResponsesFields
  <2> HIDE DEF s2
  <2> QED BY <2>1, Zenon DEF CallAnnouncement
<1> HIDE DEF items, tools
<1>6. s1 \in ResponsesFields /\ s1.message = s.message
  BY <1>1, <1>4 DEF ResponsesFields
<1> HIDE DEF s1
<1>7. s2 \in ResponsesFields /\ s2.message = s.message /\ s2.items = items
  BY <1>3, <1>6 DEF ResponsesFields
<1> HIDE DEF s2
<1>8. s2 \in ResponsesStates
  BY <1>1, <1>3, <1>7, ResponsesStateIs
<1>9. <<w>> \in Seq(OpenWires)
  <2>1. "output_item.added" \in {"output_item.added", "output_item.done"} /\ n \in Nat \cup {None}
    BY <1>1
  <2> HIDE DEF item, n
  <2> QED BY <1>2, <2>1, ItemWireIs
<1>10. <<>> \in Seq(OpenWires)
  OBVIOUS
<1> HIDE DEF w, OpenWires, n, item
<1>11. \E x \in ResponsesStates, q \in Seq(OpenWires) : CallAnnouncement(s, i, b) = [state |-> x, wire |-> q]
  BY <1>5, <1>8, <1>9, <1>10, Zenon
<1> QED BY <1>11

\* Text and arguments that are added to what is kept for the end.
LEMMA MoreText ==
  ASSUME NEW t \in ResponsesStates, NEW c \in Nat, NEW d \in Data
  PROVE  [t EXCEPT !.texts = With(@, c, TextAt(t, c) \o d)] \in ResponsesStates
<1> DEFINE more == TextAt(t, c) \o d
           texts == With(t.texts, c, more)
           u == [t EXCEPT !.texts = texts]
<1>1. t \in ResponsesFields /\ (t.message # None => t.message + 1 \in DOMAIN t.items) /\ t.texts \in Maps(Data)
  BY ResponsesStateIs, ResponsesFieldsAre
<1>2. more \in Data
  <2>1. TextAt(t, c) \in Data
    BY TextAtIs
  <2> QED BY <2>1 DEF Data
<1> HIDE DEF more
<1>3. texts \in Maps(Data)
  <2>1. c \in Int
    OBVIOUS
  <2> QED BY <1>1, <1>2, <2>1, WithMap
<1>4. [t EXCEPT !.texts = With(@, c, TextAt(t, c) \o d)] = u
  BY DEF more
<1> HIDE DEF texts
<1>5. u \in ResponsesFields /\ u.message = t.message /\ u.items = t.items
  BY <1>1, <1>3 DEF ResponsesFields
<1> HIDE DEF u
<1> QED BY <1>1, <1>4, <1>5, ResponsesStateIs

LEMMA SeqExcept ==
  ASSUME NEW S, NEW q \in Seq(S), NEW k, NEW x, k \in DOMAIN q => x \in S
  PROVE  [q EXCEPT ![k] = x] \in Seq(S) /\ DOMAIN [q EXCEPT ![k] = x] = DOMAIN q
<1>1. CASE k \in DOMAIN q
  <2>1. x \in S /\ Len(q) \in Nat /\ DOMAIN q = 1..Len(q) /\ q \in [1..Len(q) -> S]
    BY <1>1
  <2>2. [q EXCEPT ![k] = x] \in [1..Len(q) -> S]
    BY <1>1, <2>1
  <2> QED BY <2>1, <2>2
<1>2. CASE k \notin DOMAIN q
  <2>1. [q EXCEPT ![k] = x] = q
    BY <1>2
  <2> QED BY <2>1
<1> QED BY <1>1, <1>2

LEMMA MoreArguments ==
  ASSUME NEW t \in ResponsesStates, NEW k \in Nat, NEW d \in Data
  PROVE  [t EXCEPT !.items[k].data = @ \o d] \in ResponsesStates
<1> DEFINE item == [t.items[k] EXCEPT !.data = t.items[k].data \o d]
           items == [t.items EXCEPT ![k] = item]
           u == [t EXCEPT !.items = items]
<1>1. t \in ResponsesFields /\ (t.message # None => t.message + 1 \in DOMAIN t.items) /\ t.items \in Seq(OutputItems)
  BY ResponsesStateIs, ResponsesFieldsAre
<1>2. k \in DOMAIN t.items => item \in OutputItems
  <2>1. ASSUME NEW x \in OutputItems PROVE [x EXCEPT !.data = x.data \o d] \in OutputItems
    <3>1. x.data \o d \in Data
      <4>1. x.data \in Data
        BY DEF OutputItems
      <4> QED BY <4>1 DEF Data
    <3> QED BY <3>1 DEF OutputItems
  <2>2. k \in DOMAIN t.items => t.items[k] \in OutputItems
    BY <1>1
  <2> QED BY <2>1, <2>2
<1>3. [t EXCEPT !.items[k].data = @ \o d] = u
  BY <1>1 DEF ResponsesFields
<1> HIDE DEF item
<1>4. items \in Seq(OutputItems) /\ DOMAIN items = DOMAIN t.items
  BY <1>1, <1>2, SeqExcept
<1> HIDE DEF items
<1>5. u \in ResponsesFields /\ u.message = t.message /\ u.items = items
  BY <1>1, <1>4 DEF ResponsesFields
<1> HIDE DEF u
<1> QED BY <1>1, <1>3, <1>4, <1>5, ResponsesStateIs

LEMMA AppendWire ==
  ASSUME NEW W, NEW q \in Seq(W), NEW w \in W
  PROVE  Append(q, w) \in Seq(W)
  OBVIOUS

\* Wire events of a delta, of the end of a block and of the stream,
LEMMA ResponsesDeltaIs ==
  ASSUME NEW calls, CallsFine(calls), NEW s \in ResponsesStates, NEW e \in Deltas(calls)
  PROVE  ResponsesDelta(s, e).state \in ResponsesStates /\ ResponsesDelta(s, e).wire \in Seq(OpenWires)
<1> DEFINE a == IF e.block = None THEN [state |-> s, wire |-> <<>>]
                ELSE IF e.block.kind = "tool" THEN CallAnnouncement(s, e.index, e.block)
                ELSE TextAnnouncement(s, e.index)
           t == a.state
           content == IF e.index \in DOMAIN t.contents THEN t.contents[e.index] ELSE 0
           call == e.index \in DOMAIN t.tools
           r1 == [state |-> [t EXCEPT !.texts = With(@, content, TextAt(t, content) \o e.data)],
                  wire |-> Append(a.wire, ContentWire("output_text.delta", t, content, e.data))]
           r2 == [state |-> [t EXCEPT !.items[t.tools[e.index] + 1].data = @ \o e.data],
                  wire |-> Append(a.wire, DataWire("arguments.delta", t.tools[e.index], e.data))]
<1>1. e.index \in Int /\ e.data \in Data /\ e.block \in {None} \cup PartsOf(calls)
      /\ e.delta \in {None, "text", "thinking", "arguments", "input"}
  BY DEF Deltas
<1>2. \/ e.delta \in {"text", "thinking"} /\ ResponsesDelta(s, e) = r1
      \/ e.delta \in {"arguments", "input"} /\ call /\ ResponsesDelta(s, e) = r2
      \/ ResponsesDelta(s, e) = a
  BY Zenon DEF ResponsesDelta
<1>3. t \in ResponsesStates /\ a.wire \in Seq(OpenWires)
  <2>1. CASE e.block = None
    <3>1. a = [state |-> s, wire |-> <<>>]
      BY <2>1
    <3>2. <<>> \in Seq(OpenWires)
      OBVIOUS
    <3> HIDE DEF a, OpenWires
    <3> QED BY <3>1, <3>2
  <2>2. CASE e.block # None /\ e.block.kind = "tool"
    <3>1. a = CallAnnouncement(s, e.index, e.block)
      BY <2>2
    <3> QED BY <1>1, <2>2, <3>1, CallAnnouncementIs, Zenon
  <2>3. CASE e.block # None /\ e.block.kind # "tool"
    <3>1. a = TextAnnouncement(s, e.index)
      BY <2>3
    <3> QED BY <1>1, <3>1, TextAnnouncementIs, Zenon
  <2> QED BY <2>1, <2>2, <2>3
<1> HIDE DEF a
<1>4. t.message \in Nat \cup {None} /\ content \in Nat /\ (call => t.tools[e.index] \in Nat)
  BY <1>3, ResponsesFieldsAre
<1> HIDE DEF t, content
<1>5. ASSUME e.delta \in {"text", "thinking"} PROVE r1.state \in ResponsesStates /\ r1.wire \in Seq(OpenWires)
  <2>1. [t EXCEPT !.texts = With(@, content, TextAt(t, content) \o e.data)] \in ResponsesStates
    BY <1>1, <1>3, <1>4, MoreText
  <2>2. ContentWire("output_text.delta", t, content, e.data) \in OpenWires
    <3>1. "output_text.delta" \in DataTypes /\ content \in Nat \cup {None}
      BY <1>4 DEF DataTypes
    <3>2. ResponsesWire("output_text.delta", t.message, content, None, e.data, None) \in OpenWires
      BY <1>1, <1>4, <3>1, DataWireIs
    <3> QED BY <3>2, Zenon DEF ContentWire
  <2>3. Append(a.wire, ContentWire("output_text.delta", t, content, e.data)) \in Seq(OpenWires)
    BY <1>3, <2>2, AppendWire
  <2> QED BY <2>1, <2>3
<1>6. ASSUME call PROVE r2.state \in ResponsesStates /\ r2.wire \in Seq(OpenWires)
  <2>1. PICK k \in Nat : k = t.tools[e.index]
    BY <1>4, <1>6
  <2>2. [t EXCEPT !.items[k + 1].data = @ \o e.data] \in ResponsesStates
    <3>1. k + 1 \in Nat
      OBVIOUS
    <3> QED BY <1>1, <1>3, <3>1, MoreArguments
  <2>3. DataWire("arguments.delta", k, e.data) \in OpenWires
    <3>1. "arguments.delta" \in DataTypes /\ None \in Nat \cup {None} /\ k \in Nat \cup {None}
      BY DEF DataTypes
    <3>2. ResponsesWire("arguments.delta", k, None, None, e.data, None) \in OpenWires
      BY <1>1, <3>1, DataWireIs
    <3> QED BY <3>2, Zenon DEF DataWire
  <2>4. Append(a.wire, DataWire("arguments.delta", k, e.data)) \in Seq(OpenWires)
    BY <1>3, <2>3, AppendWire
  <2>5. r2 = [state |-> [t EXCEPT !.items[k + 1].data = @ \o e.data],
              wire |-> Append(a.wire, DataWire("arguments.delta", k, e.data))]
    BY <2>1, Zenon
  <2> HIDE DEF r2
  <2> QED BY <2>2, <2>4, <2>5
<1>7. a.state \in ResponsesStates
  BY <1>3 DEF t
<1> HIDE DEF r1, r2, call
<1> QED BY <1>2, <1>3, <1>5, <1>6, <1>7, Zenon

LEMMA ContentDoneIs ==
  ASSUME NEW s \in ResponsesStates, NEW c \in Nat
  PROVE  ContentDone(s, c) \in Seq(OpenWires)
<1> DEFINE w1 == ContentWire("content_block.done", s, c, TextAt(s, c))
           w2 == ContentWire("output_text.done", s, c, TextAt(s, c))
<1>1. TextAt(s, c) \in Data /\ s.message \in Nat \cup {None} /\ c \in Nat \cup {None}
      /\ "content_block.done" \in DataTypes /\ "output_text.done" \in DataTypes
  BY TextAtIs, ResponsesFieldsAre DEF DataTypes
<1>2. w1 \in OpenWires
  BY <1>1, DataWireIs, Zenon DEF ContentWire
<1>3. w2 \in OpenWires
  BY <1>1, DataWireIs, Zenon DEF ContentWire
<1>4. ContentDone(s, c) = IF c \in s.closed THEN <<>> ELSE <<w1, w2>>
  BY DEF ContentDone
<1> HIDE DEF w1, w2, OpenWires
<1>5. <<w1, w2>> \in Seq(OpenWires) /\ <<>> \in Seq(OpenWires)
  BY <1>2, <1>3
<1> QED BY <1>4, <1>5, Zenon

LEMMA StreamDoneIs ==
  ASSUME NEW s \in ResponsesStates
  PROVE  StreamDone(s) \in Seq(ResponsesWires) /\ Tells(StreamDone(s), "completed")
<1> DEFINE item(k) == IF s.items[k].kind = "message" THEN <<>>
                      ELSE <<DataWire("arguments.done", k - 1, s.items[k].data),
                             ItemWire("output_item.done", k - 1, s.items[k])>>
           texts == [k \in 1..Cardinality(Contents(s)) |-> TextAt(s, k - 1)]
           text == FlattenSeq(texts)
           output == [k \in DOMAIN s.items |->
                        IF s.items[k].kind = "message" THEN [s.items[k] EXCEPT !.data = text] ELSE s.items[k]]
           contents == [k \in 1..Cardinality(Contents(s)) |-> ContentDone(s, k - 1)]
           items == [k \in DOMAIN s.items |-> item(k)]
           message == IF s.message = None THEN <<>>
                      ELSE <<ItemWire("output_item.done", s.message, output[s.message + 1])>>
           last == ResponsesWire("completed", None, None, output, <<>>, "completed")
<1>1. StreamDone(s) = FlattenSeq(contents) \o message \o FlattenSeq(items) \o <<last>>
  BY DEF StreamDone
<1>2. Cardinality(Contents(s)) \in Nat
  <2>1. Cardinality(DOMAIN s.contents) \in Nat
    BY ResponsesFieldsAre
  <2>2. IsFiniteSet(0..(Cardinality(DOMAIN s.contents) - 1))
    <3>1. PICK n \in Int : n = Cardinality(DOMAIN s.contents) - 1
      BY <2>1
    <3>2. IsFiniteSet(0..n)
      BY FS_Interval
    <3> QED BY <3>1, <3>2
  <2> QED BY <2>2, FS_CardinalityType DEF Contents
<1>3. FlattenSeq(contents) \in Seq(OpenWires)
  <2> DEFINE n == Cardinality(Contents(s))
  <2>1. \A k \in 1..n : ContentDone(s, k - 1) \in Seq(OpenWires)
    <3>1. \A k \in 1..n : k - 1 \in Nat
      <4> HIDE DEF n
      <4> QED OBVIOUS
    <3> QED BY <3>1, ContentDoneIs
  <2> HIDE DEF n, OpenWires
  <2>2. contents \in Seq(Seq(OpenWires))
    <3>1. contents = [k \in 1..n |-> ContentDone(s, k - 1)]
      BY DEF n
    <3>2. n \in Nat
      BY <1>2 DEF n
    <3> HIDE DEF contents
    <3> QED BY <2>1, <3>1, <3>2
  <2> HIDE DEF contents
  <2> QED BY <2>2, FlatType
<1>4. text \in Data
  <2> DEFINE n == Cardinality(Contents(s))
  <2>1. \A k \in 1..n : TextAt(s, k - 1) \in Seq(Tokens)
    BY TextAtIs DEF Data
  <2> HIDE DEF n
  <2>2. texts \in Seq(Seq(Tokens))
    <3>1. texts = [k \in 1..n |-> TextAt(s, k - 1)]
      BY DEF n
    <3>2. n \in Nat
      BY <1>2 DEF n
    <3> HIDE DEF texts
    <3> QED BY <2>1, <3>1, <3>2
  <2> HIDE DEF texts
  <2>3. text \in Seq(Tokens)
    BY <2>2, FlatType
  <2> QED BY <2>3 DEF Data
<1> HIDE DEF text
<1>5. /\ s.items \in Seq(OutputItems) /\ Len(s.items) \in Nat /\ DOMAIN s.items = 1..Len(s.items)
      /\ s.message \in Nat \cup {None} /\ (s.message # None => s.message + 1 \in DOMAIN s.items)
  BY ResponsesFieldsAre, ResponsesStateIs
<1>6. output \in Seq(OutputItems) /\ DOMAIN output = DOMAIN s.items
  <2>1. ASSUME NEW x \in OutputItems PROVE [x EXCEPT !.data = text] \in OutputItems
    BY <1>4 DEF OutputItems
  <2> HIDE DEF OutputItems
  <2> QED BY <1>5, <2>1
<1>7. message \in Seq(OpenWires)
  <2>1. ASSUME s.message # None PROVE <<ItemWire("output_item.done", s.message, output[s.message + 1])>> \in Seq(OpenWires)
    <3>1. "output_item.done" \in {"output_item.added", "output_item.done"}
      OBVIOUS
    <3>2. output[s.message + 1] \in OutputItems
      <4> HIDE DEF output, OutputItems
      <4> QED BY <1>5, <1>6, <2>1
    <3> HIDE DEF output
    <3> QED BY <1>5, <3>1, <3>2, ItemWireIs
  <2>2. <<>> \in Seq(OpenWires)
    OBVIOUS
  <2> QED BY <2>1, <2>2, Zenon
<1>8. FlattenSeq(items) \in Seq(OpenWires)
  <2>1. ASSUME NEW k \in DOMAIN s.items PROVE item(k) \in Seq(OpenWires)
    <3> DEFINE w1 == DataWire("arguments.done", k - 1, s.items[k].data)
               w2 == ItemWire("output_item.done", k - 1, s.items[k])
    <3>1. s.items[k] \in OutputItems /\ k - 1 \in Nat \cup {None}
      <4> HIDE DEF OutputItems
      <4> QED BY <1>5
    <3>2. s.items[k].data \in Data /\ "arguments.done" \in DataTypes /\ None \in Nat \cup {None}
      BY <3>1 DEF OutputItems, DataTypes
    <3>3. <<w1>> \in Seq(OpenWires)
      BY <3>1, <3>2, DataWireIs, Zenon DEF DataWire
    <3>4. <<w2>> \in Seq(OpenWires)
      <4>1. "output_item.done" \in {"output_item.added", "output_item.done"}
        OBVIOUS
      <4> QED BY <3>1, <4>1, ItemWireIs, Zenon
    <3>5. item(k) = IF s.items[k].kind = "message" THEN <<>> ELSE <<w1, w2>>
      OBVIOUS
    <3> HIDE DEF w1, w2, OpenWires, item
    <3>6. <<w1, w2>> \in Seq(OpenWires) /\ <<>> \in Seq(OpenWires)
      BY <3>3, <3>4
    <3> QED BY <3>5, <3>6, Zenon
  <2> HIDE DEF item, OpenWires
  <2>2. items \in Seq(Seq(OpenWires))
    BY <1>5, <2>1
  <2> HIDE DEF items
  <2> QED BY <2>2, FlatType
<1>9. last \in ResponsesWires /\ last.reason = "completed"
  <2>1. last = [type |-> "completed", index |-> None, content |-> None, item |-> output, data |-> <<>>, reason |-> "completed"]
    BY DEF ResponsesWire
  <2> HIDE DEF output
  <2>2. last \in CompletedWires /\ last.reason = "completed"
    BY <1>6, <2>1 DEF CompletedWires
  <2> HIDE DEF last
  <2> QED BY <2>2, Zenon DEF ResponsesWires
<1> DEFINE p1 == FlattenSeq(contents)
           p2 == FlattenSeq(items)
           q == p1 \o message \o p2
<1> HIDE DEF contents, items, message, last, p1, p2
<1>10. q \in Seq(OpenWires)
  <2> HIDE DEF OpenWires
  <2>1. p1 \in Seq(OpenWires) /\ p2 \in Seq(OpenWires)
    BY <1>3, <1>8 DEF p1, p2
  <2> QED BY <1>7, <2>1
<1>11. q \in Seq(ResponsesWires) /\ Silent(q)
  BY <1>10, OpenWiresAreSilent
<1>12. <<last>> \in Seq(ResponsesWires) /\ Tells(<<last>>, "completed")
  <2> HIDE DEF ResponsesWires
  <2> QED BY <1>9 DEF Tells
<1>13. q \o <<last>> \in Seq(ResponsesWires) /\ Tells(q \o <<last>>, "completed")
  <2> HIDE DEF ResponsesWires, q
  <2> QED BY <1>11, <1>12, SilentTogether
<1> QED BY <1>1, <1>13 DEF p1, p2

\* and of any event.
LEMMA ResponsesEventIs ==
  ASSUME NEW calls, CallsFine(calls), NEW s \in ResponsesStates, NEW e \in Events(calls)
  PROVE  /\ ResponsesEvent(s, e).state \in ResponsesStates /\ ResponsesEvent(s, e).wire \in Seq(ResponsesWires)
         /\ e.type # "stream_end" => Silent(ResponsesEvent(s, e).wire)
         /\ Tells(ResponsesEvent(s, e).wire, "completed")
<1>1. \A q : Silent(q) => Tells(q, "completed")
  BY DEF Silent, Tells
<1>2. CASE e.type = "stream_start"
  <2> DEFINE w == ResponsesWire("created", None, None, None, <<>>, None)
             t == ResponsesState
  <2>1. ResponsesEvent(s, e) = [state |-> t, wire |-> <<w>>]
    BY <1>2 DEF ResponsesEvent
  <2>2. t \in ResponsesStates
    <3>1. <<>> \in Maps(Places) /\ <<>> \in Maps(Data) /\ <<>> \in Seq(OutputItems)
      BY EmptyMap
    <3>2. t = [message |-> None, contents |-> <<>>, texts |-> <<>>, closed |-> {}, tools |-> <<>>, items |-> <<>>]
      BY DEF ResponsesState
    <3> HIDE DEF t
    <3>3. t \in ResponsesFields /\ t.message = None
      BY <3>1, <3>2 DEF ResponsesFields
    <3> QED BY <3>3, ResponsesStateIs
  <2>3. <<w>> \in Seq(OpenWires)
    <3>1. "created" \in DataTypes /\ None \in Nat \cup {None} /\ <<>> \in Data
      BY DEF DataTypes, Data
    <3> QED BY <3>1, DataWireIs, Zenon
  <2>4. <<w>> \in Seq(ResponsesWires) /\ Silent(<<w>>)
    BY <2>3, OpenWiresAreSilent
  <2> HIDE DEF w, t
  <2> QED BY <1>1, <2>1, <2>2, <2>4
<1>3. CASE e.type = "content_delta"
  <2>1. ResponsesEvent(s, e) = ResponsesDelta(s, e) /\ e \in Deltas(calls)
    BY <1>3, EventKinds DEF ResponsesEvent
  <2>2. ResponsesDelta(s, e).state \in ResponsesStates /\ ResponsesDelta(s, e).wire \in Seq(OpenWires)
    BY <2>1, ResponsesDeltaIs
  <2> QED BY <1>1, <2>1, <2>2, OpenWiresAreSilent
<1>4. CASE e.type = "stream_end"
  <2> DEFINE t == [s EXCEPT !.closed = Contents(s)]
  <2>1. ResponsesEvent(s, e) = [state |-> t, wire |-> StreamDone(s)]
    BY <1>4 DEF ResponsesEvent
  <2>2. t \in ResponsesStates
    <3>1. s \in ResponsesFields /\ (s.message # None => s.message + 1 \in DOMAIN s.items)
      BY ResponsesStateIs
    <3>2. Contents(s) \in SUBSET Nat
      <4>1. Cardinality(DOMAIN s.contents) \in Nat
        BY ResponsesFieldsAre
      <4> QED BY <4>1 DEF Contents
    <3>3. t \in ResponsesFields /\ t.message = s.message /\ t.items = s.items
      BY <3>1, <3>2 DEF ResponsesFields
    <3> HIDE DEF t
    <3> QED BY <3>1, <3>3, ResponsesStateIs
  <2> HIDE DEF t
  <2> QED BY <1>4, <2>1, <2>2, StreamDoneIs
<1>5. CASE e.type = "stream_error"
  <2>1. ResponsesEvent(s, e) = [state |-> s, wire |-> <<>>]
    BY <1>5 DEF ResponsesEvent
  <2>2. <<>> \in Seq(ResponsesWires) /\ Silent(<<>>)
    BY DEF Silent
  <2> QED BY <1>1, <2>1, <2>2
<1> QED BY <1>2, <1>3, <1>4, <1>5, EventKinds

-----------------------------------------------------------------------------
(* The client.                                                             *)
ClientPhases == {"idle", "open", "concluded", "done", "left", "broken"}
BlocksOf(K) == [kind : K, id : Nat \cup {None}, name : Names \cup {None}, data : Data, open : BOOLEAN]
Clients(R, K) == [phase : ClientPhases, blocks : Seq(BlocksOf(K)), reason : {None} \cup R, failed : BOOLEAN]
Settled(m) == m.phase \in {"concluded", "done"}
KindsOf(calls) == IF calls = <<>> THEN {"text", "thinking"} ELSE Kinds

\* What a client may make of a wire event.
ReadsOn(R, K, m, m1, w) ==
  /\ m1 \in Clients(R, K)
  /\ Settled(m1) => \/ Settled(m) /\ m1.reason = m.reason
                    \/ w.type \in Concluding /\ m1.reason = w.reason

\* A client that breaks, begins or fails has not been told the end.
LEMMA UnsettledIs ==
  ASSUME NEW R, NEW K, NEW m \in Clients(R, K)
  PROVE  /\ Break(m) \in Clients(R, K) /\ ~Settled(Break(m))
         /\ Started(m) \in Clients(R, K) /\ ~Settled(Started(m))
         /\ Failed(m) \in Clients(R, K) /\ ~Settled(Failed(m))
<1> DEFINE B == Seq(BlocksOf(K))
<1>1. m \in [phase : ClientPhases, blocks : B, reason : {None} \cup R, failed : BOOLEAN]
  BY DEF Clients
<1> HIDE DEF B
<1>2. Break(m) \in [phase : ClientPhases, blocks : B, reason : {None} \cup R, failed : BOOLEAN] /\ ~Settled(Break(m))
  BY <1>1 DEF Break, ClientPhases, Settled
<1>3. /\ Started(m) \in [phase : ClientPhases, blocks : B, reason : {None} \cup R, failed : BOOLEAN]
      /\ ~Settled(Started(m))
  <2>1. CASE m.phase = "idle"
    <3>1. Started(m) = [m EXCEPT !.phase = "open"]
      BY <2>1 DEF Started
    <3> QED BY <1>1, <3>1 DEF ClientPhases, Settled
  <2>2. CASE m.phase # "idle"
    <3>1. Started(m) = Break(m)
      BY <2>2 DEF Started
    <3> QED BY <1>2, <3>1
  <2> QED BY <2>1, <2>2
<1>4. /\ Failed(m) \in [phase : ClientPhases, blocks : B, reason : {None} \cup R, failed : BOOLEAN]
      /\ ~Settled(Failed(m))
  <2>1. CASE m.phase \in {"idle", "open"}
    <3>1. Failed(m) = [m EXCEPT !.failed = TRUE]
      BY <2>1 DEF Failed
    <3> QED BY <1>1, <2>1, <3>1 DEF ClientPhases, Settled
  <2>2. CASE m.phase \notin {"idle", "open"}
    <3>1. Failed(m) = Break(m)
      BY <2>2 DEF Failed
    <3> QED BY <1>2, <3>1
  <2> QED BY <2>1, <2>2
<1> QED BY <1>2, <1>3, <1>4 DEF Clients, B

\* Blocks of the client's that are opened or grow.
LEMMA WithBlocks ==
  ASSUME NEW R, NEW K, NEW m \in Clients(R, K), NEW q \in Seq(BlocksOf(K))
  PROVE  [m EXCEPT !.blocks = q] \in Clients(R, K) /\ [m EXCEPT !.blocks = q].phase = m.phase
<1> DEFINE B == Seq(BlocksOf(K))
<1>1. m \in [phase : ClientPhases, blocks : B, reason : {None} \cup R, failed : BOOLEAN] /\ q \in B
  BY DEF Clients
<1> HIDE DEF B
<1>2. /\ [m EXCEPT !.blocks = q] \in [phase : ClientPhases, blocks : B, reason : {None} \cup R, failed : BOOLEAN]
      /\ [m EXCEPT !.blocks = q].phase = m.phase
  BY <1>1
<1> QED BY <1>2 DEF Clients, B

LEMMA OpenedIs ==
  ASSUME NEW R, NEW K, NEW m \in Clients(R, K), NEW b \in BlocksOf(K)
  PROVE  Opened(m, b) \in Clients(R, K) /\ ~Settled(Opened(m, b))
<1>1. m.blocks \in Seq(BlocksOf(K))
  BY DEF Clients
<1>2. CASE m.phase = "open"
  <2> DEFINE q == Append(m.blocks, b)
  <2>1. q \in Seq(BlocksOf(K))
    BY <1>1, AppendWire
  <2>2. Opened(m, b) = [m EXCEPT !.blocks = q]
    BY <1>2 DEF Opened
  <2> HIDE DEF q
  <2>3. Opened(m, b) \in Clients(R, K) /\ Opened(m, b).phase = "open"
    BY <1>2, <2>1, <2>2, WithBlocks
  <2> QED BY <2>3 DEF Settled
<1>3. CASE m.phase # "open"
  <2>1. Opened(m, b) = Break(m)
    BY <1>3 DEF Opened
  <2> QED BY <2>1, UnsettledIs
<1> QED BY <1>2, <1>3

LEMMA GrownIs ==
  ASSUME NEW R, NEW K, NEW m \in Clients(R, K), NEW i, NEW d \in Data
  PROVE  /\ Grown(m, i, d) \in Clients(R, K) /\ ~Settled(Grown(m, i, d))
         /\ Closed(m, i) \in Clients(R, K) /\ ~Settled(Closed(m, i))
<1> DEFINE ok == m.phase = "open" /\ i \in DOMAIN m.blocks /\ m.blocks[i].open
           b1 == [m.blocks[i] EXCEPT !.data = m.blocks[i].data \o d]
           b2 == [m.blocks[i] EXCEPT !.open = FALSE]
           q1 == [m.blocks EXCEPT ![i] = b1]
           q2 == [m.blocks EXCEPT ![i] = b2]
<1>1. m.blocks \in Seq(BlocksOf(K))
  BY DEF Clients
<1>2. ASSUME ok PROVE b1 \in BlocksOf(K) /\ b2 \in BlocksOf(K)
  <2>1. PICK b \in BlocksOf(K) : b = m.blocks[i]
    <3>1. m.blocks[i] \in BlocksOf(K)
      <4> HIDE DEF BlocksOf
      <4> QED BY <1>1, <1>2
    <3> QED BY <3>1
  <2>2. b.data \o d \in Data
    <3>1. b.data \in Data
      BY DEF BlocksOf
    <3> QED BY <3>1 DEF Data
  <2>3. [b EXCEPT !.data = b.data \o d] \in BlocksOf(K) /\ [b EXCEPT !.open = FALSE] \in BlocksOf(K)
    BY <2>2 DEF BlocksOf
  <2> QED BY <2>1, <2>3
<1>3. ASSUME ok PROVE q1 \in Seq(BlocksOf(K)) /\ q2 \in Seq(BlocksOf(K))
  <2>1. b1 \in BlocksOf(K) /\ b2 \in BlocksOf(K)
    BY <1>2, <1>3
  <2> HIDE DEF b1, b2
  <2>2. q1 \in Seq(BlocksOf(K))
    BY <1>1, <2>1, SeqExcept
  <2>3. q2 \in Seq(BlocksOf(K))
    BY <1>1, <2>1, SeqExcept
  <2> QED BY <2>2, <2>3
<1>4. CASE ok
  <2>1. Grown(m, i, d) = [m EXCEPT !.blocks = q1]
    BY <1>4 DEF Grown, Clients
  <2>2. Closed(m, i) = [m EXCEPT !.blocks = q2]
    BY <1>4 DEF Closed, Clients
  <2> HIDE DEF q1, q2
  <2>3. Grown(m, i, d) \in Clients(R, K) /\ Grown(m, i, d).phase = "open"
    BY <1>3, <1>4, <2>1, WithBlocks
  <2>4. Closed(m, i) \in Clients(R, K) /\ Closed(m, i).phase = "open"
    BY <1>3, <1>4, <2>2, WithBlocks
  <2> QED BY <2>3, <2>4 DEF Settled
<1>5. CASE ~ok
  <2>1. Grown(m, i, d) = Break(m) /\ Closed(m, i) = Break(m)
    BY <1>5, Zenon DEF Grown, Closed
  <2> QED BY <2>1, UnsettledIs
<1> QED BY <1>4, <1>5

\* A client that is told the end.
LEMMA PhaseIs ==
  ASSUME NEW R, NEW K, NEW m \in Clients(R, K), NEW phase \in ClientPhases
  PROVE  \E x \in Clients(R, K) : [m EXCEPT !.phase = phase] = x /\ x.reason = m.reason
<1> DEFINE B == Seq(BlocksOf(K))
           S == {None} \cup R
           x == [m EXCEPT !.phase = phase]
<1>1. m \in [phase : ClientPhases, blocks : B, reason : S, failed : BOOLEAN]
  BY DEF Clients
<1> HIDE DEF B, S
<1>2. x \in [phase : ClientPhases, blocks : B, reason : S, failed : BOOLEAN] /\ x.reason = m.reason
  BY <1>1
<1> HIDE DEF x
<1>3. x \in Clients(R, K)
  BY <1>2 DEF Clients, B, S
<1> QED BY <1>2, <1>3 DEF x

Settle(m, phase, r) == [m EXCEPT !.phase = phase, !.reason = r]

LEMMA ConcludedIs ==
  ASSUME NEW R, NEW K, NEW m \in Clients(R, K), NEW phase \in ClientPhases, NEW r \in R
  PROVE  \E y \in Clients(R, K) : Settle(m, phase, r) = y /\ y.reason = r
<1> DEFINE B == Seq(BlocksOf(K))
           S == {None} \cup R
           x == [m EXCEPT !.phase = phase]
           y == [x EXCEPT !.reason = r]
<1>1. m \in [phase : ClientPhases, blocks : B, reason : S, failed : BOOLEAN] /\ r \in S
  BY DEF Clients
<1> HIDE DEF B, S
<1>2. x \in [phase : ClientPhases, blocks : B, reason : S, failed : BOOLEAN]
  BY <1>1
<1>3. Settle(m, phase, r) = y
  BY <1>1 DEF Settle
<1> HIDE DEF x
<1>4. y \in [phase : ClientPhases, blocks : B, reason : S, failed : BOOLEAN] /\ y.reason = r
  BY <1>1, <1>2
<1> HIDE DEF y
<1>5. y \in Clients(R, K)
  BY <1>4 DEF Clients, B, S
<1> QED BY <1>3, <1>4, <1>5

LEMMA ClosedAllIs ==
  ASSUME NEW R, NEW K, NEW m \in Clients(R, K)
  PROVE  ClosedAll(m) \in Clients(R, K) /\ ClosedAll(m).phase = m.phase
<1> DEFINE q == [i \in DOMAIN m.blocks |-> [m.blocks[i] EXCEPT !.open = FALSE]]
<1>1. m.blocks \in Seq(BlocksOf(K))
  BY DEF Clients
<1>2. \A b \in BlocksOf(K) : [b EXCEPT !.open = FALSE] \in BlocksOf(K)
  BY DEF BlocksOf
<1>3. q \in Seq(BlocksOf(K))
  <2> HIDE DEF BlocksOf
  <2> QED BY <1>1, <1>2
<1>4. ClosedAll(m) = [m EXCEPT !.blocks = q]
  BY DEF ClosedAll, Clients
<1> HIDE DEF q
<1> QED BY <1>3, <1>4, WithBlocks

LEMMA NewBlockIs ==
  ASSUME NEW K, NEW kind \in K, NEW id \in Nat \cup {None}, NEW name \in Names \cup {None}, NEW data \in Data
  PROVE  NewBlock(kind, id, name, data) \in BlocksOf(K)
  BY DEF NewBlock, BlocksOf

\* A client that has not been told the end is told it by a wire event that concludes, and no other.
LEMMA UnsettledReads ==
  ASSUME NEW R, NEW K, NEW m, NEW w, NEW m1 \in Clients(R, K), ~Settled(m1)
  PROVE  ReadsOn(R, K, m, m1, w)
  BY DEF ReadsOn

LEMMA KindsAre ==
  ASSUME NEW calls
  PROVE  /\ "text" \in KindsOf(calls) /\ "thinking" \in KindsOf(calls) /\ KindsOf(calls) \subseteq Kinds
         /\ calls # <<>> => "tool" \in KindsOf(calls)
  BY DEF KindsOf, Kinds

\* A chat client reads,
LEMMA ChatReadIs ==
  ASSUME NEW calls, CallsFine(calls), NEW m \in Clients(ChatReasons, KindsOf(calls)), NEW w \in ChatWires(calls)
  PROVE  ReadsOn(ChatReasons, KindsOf(calls), m, ChatRead(m, w), w)
<1> DEFINE R == ChatReasons
           K == KindsOf(calls)
           m1 == ChatRead(m, w)
<1>1. /\ Break(m) \in Clients(R, K) /\ ~Settled(Break(m))
      /\ Started(m) \in Clients(R, K) /\ ~Settled(Started(m))
      /\ Failed(m) \in Clients(R, K) /\ ~Settled(Failed(m))
  BY UnsettledIs
<1>2. w.type \in {"role", "done", "error", "content", "arguments", "tool", "finish"}
  BY DEF ChatWires
<1>3. w.data \in Data
  <2>1. <<>> \in Data
    BY DEF Data
  <2> QED BY <2>1 DEF ChatWires
<1>4. CASE w.type = "role"
  <2>1. m1 = Started(m)
    BY <1>4 DEF ChatRead
  <2> HIDE DEF m1, R, K
  <2> QED BY <1>1, <2>1, UnsettledReads DEF m1, R, K
<1>5. CASE w.type = "content"
  <2>1. \/ m1 = Opened(m, NewBlock("text", None, None, w.data))
        \/ m1 = Grown(m, NthOf(m, "text", 1), w.data)
    BY <1>5 DEF ChatRead
  <2>2. NewBlock("text", None, None, w.data) \in BlocksOf(K)
    BY <1>3, KindsAre, NewBlockIs
  <2>3. /\ Opened(m, NewBlock("text", None, None, w.data)) \in Clients(R, K)
        /\ ~Settled(Opened(m, NewBlock("text", None, None, w.data)))
    BY <2>2, OpenedIs
  <2>4. Grown(m, NthOf(m, "text", 1), w.data) \in Clients(R, K) /\ ~Settled(Grown(m, NthOf(m, "text", 1), w.data))
    BY <1>3, GrownIs
  <2> HIDE DEF m1, R, K
  <2>5. m1 \in Clients(R, K) /\ ~Settled(m1)
    BY <2>1, <2>3, <2>4, Zenon
  <2> QED BY <2>5, UnsettledReads DEF m1, R, K
<1>6. CASE w.type = "tool"
  <2>1. \/ m1 = Opened(m, NewBlock("tool", w.id, w.name, <<>>))
        \/ m1 = Break(m)
    BY <1>6 DEF ChatRead
  <2>2. NewBlock("tool", w.id, w.name, <<>>) \in BlocksOf(K)
    <3>1. PICK i \in DOMAIN calls : w.id = i /\ w.name = calls[i].name
      BY <1>6 DEF ChatWires
    <3>2. w.id \in Nat /\ w.name \in Names /\ calls # <<>>
      BY <3>1, CallsAreNamed
    <3>3. "tool" \in K /\ w.id \in Nat \cup {None} /\ w.name \in Names \cup {None} /\ <<>> \in Data
      BY <3>2, KindsAre DEF Data
    <3> HIDE DEF K
    <3> QED BY <3>3, NewBlockIs
  <2>3. /\ Opened(m, NewBlock("tool", w.id, w.name, <<>>)) \in Clients(R, K)
        /\ ~Settled(Opened(m, NewBlock("tool", w.id, w.name, <<>>)))
    BY <2>2, OpenedIs
  <2> HIDE DEF m1, R, K
  <2>4. m1 \in Clients(R, K) /\ ~Settled(m1)
    BY <1>1, <2>1, <2>3, Zenon
  <2> QED BY <2>4, UnsettledReads DEF m1, R, K
<1>7. CASE w.type = "arguments"
  <2>1. \/ m1 = Grown(m, NthOf(m, "tool", w.index + 1), w.data)
        \/ m1 = Break(m)
    BY <1>7 DEF ChatRead
  <2>2. /\ Grown(m, NthOf(m, "tool", w.index + 1), w.data) \in Clients(R, K)
        /\ ~Settled(Grown(m, NthOf(m, "tool", w.index + 1), w.data))
    BY <1>3, GrownIs
  <2> HIDE DEF m1, R, K
  <2>3. m1 \in Clients(R, K) /\ ~Settled(m1)
    BY <1>1, <2>1, <2>2, Zenon
  <2> QED BY <2>3, UnsettledReads DEF m1, R, K
<1>8. CASE w.type = "finish"
  <2>1. w.reason \in R /\ w.type \in Concluding
    BY <1>8 DEF ChatWires, Concluding
  <2>2. \/ m1 = Settle(ClosedAll(m), "concluded", w.reason)
        \/ m1 = Break(m)
    BY <1>8 DEF ChatRead, Settle
  <2>3. PICK c \in Clients(R, K) : c = ClosedAll(m)
    BY ClosedAllIs
  <2>4. "concluded" \in ClientPhases
    BY DEF ClientPhases
  <2>5. PICK y \in Clients(R, K) : Settle(c, "concluded", w.reason) = y /\ y.reason = w.reason
    <3> HIDE DEF R, K
    <3>1. PICK x \in R : x = w.reason
      BY <2>1
    <3>2. \E y \in Clients(R, K) : Settle(c, "concluded", x) = y /\ y.reason = x
      BY <2>4, ConcludedIs
    <3> QED BY <3>1, <3>2
  <2> HIDE DEF m1, R, K
  <2>6. CASE m1 = Settle(c, "concluded", w.reason)
    <3>1. m1 \in Clients(R, K) /\ m1.reason = w.reason
      BY <2>5, <2>6
    <3> QED BY <2>1, <3>1 DEF ReadsOn, m1, R, K
  <2>7. CASE m1 = Break(m)
    BY <1>1, <2>7, UnsettledReads DEF m1, R, K
  <2> QED BY <2>2, <2>3, <2>6, <2>7, Zenon
<1>9. CASE w.type = "done"
  <2>1. \/ m.phase = "concluded" /\ m1 = [m EXCEPT !.phase = "done"]
        \/ m1 = Break(m)
    BY <1>9 DEF ChatRead
  <2>2. "done" \in ClientPhases /\ "stop" \in R
    BY DEF ClientPhases, ChatReasons
  <2>3. PICK y \in Clients(R, K) : [m EXCEPT !.phase = "done"] = y /\ y.reason = m.reason
    BY <2>2, PhaseIs
  <2> HIDE DEF m1, R, K
  <2>4. CASE m.phase = "concluded" /\ m1 = [m EXCEPT !.phase = "done"]
    <3>1. m1 \in Clients(R, K) /\ m1.reason = m.reason /\ Settled(m)
      BY <2>3, <2>4 DEF Settled
    <3> QED BY <3>1 DEF ReadsOn, m1, R, K
  <2>5. CASE m1 = Break(m)
    BY <1>1, <2>5, UnsettledReads DEF m1, R, K
  <2> QED BY <2>1, <2>4, <2>5
<1>10. CASE w.type = "error"
  <2>1. m1 = Failed(m)
    BY <1>10 DEF ChatRead
  <2> HIDE DEF m1, R, K
  <2> QED BY <1>1, <2>1, UnsettledReads DEF m1, R, K
<1> QED BY <1>2, <1>4, <1>5, <1>6, <1>7, <1>8, <1>9, <1>10

\* a Messages client,
LEMMA MessagesReadIs ==
  ASSUME NEW calls, CallsFine(calls), NEW m \in Clients(StopReasons, KindsOf(calls)), NEW w \in MessagesWires(calls)
  PROVE  ReadsOn(StopReasons, KindsOf(calls), m, MessagesRead(m, w), w)
<1> DEFINE R == StopReasons
           K == KindsOf(calls)
           m1 == MessagesRead(m, w)
<1>1. /\ Break(m) \in Clients(R, K) /\ ~Settled(Break(m))
      /\ Started(m) \in Clients(R, K) /\ ~Settled(Started(m))
      /\ Failed(m) \in Clients(R, K) /\ ~Settled(Failed(m))
  BY UnsettledIs
<1>2. w.type \in {"message_start", "error", "message_stop", "content_block_start", "content_block_delta",
                  "content_block_stop", "message_delta"}
  BY DEF MessagesWires, Signs, BlockStarts, BlockDeltas, BlockStops, MessageDeltas
<1>3. CASE w.type = "message_start"
  <2>1. m1 = Started(m)
    BY <1>3 DEF MessagesRead
  <2> HIDE DEF m1, R, K
  <2> QED BY <1>1, <2>1, UnsettledReads DEF m1, R, K
<1>4. CASE w.type = "content_block_start"
  <2>1. \/ m1 = Opened(m, NewBlock(w.block.kind, w.block.id, w.block.name, <<>>))
        \/ m1 = Break(m)
    BY <1>4 DEF MessagesRead
  <2>2. NewBlock(w.block.kind, w.block.id, w.block.name, <<>>) \in BlocksOf(K)
    <3>1. w.block \in PartsOf(calls)
      BY <1>4 DEF MessagesWires, Signs, BlockStarts, BlockDeltas, BlockStops, MessageDeltas
    <3>2. CASE w.block.kind = "tool"
      <4>1. w.block.id \in Nat /\ w.block.name \in Names /\ calls # <<>>
        BY <3>1, <3>2, ToolBlock
      <4>2. w.block.kind \in K
        BY <3>2, <4>1, KindsAre
      <4>3. w.block.id \in Nat \cup {None} /\ w.block.name \in Names \cup {None} /\ <<>> \in Data
        BY <4>1 DEF Data
      <4> HIDE DEF K
      <4> QED BY <4>2, <4>3, NewBlockIs
    <3>3. CASE w.block.kind # "tool"
      <4>1. w.block \in Plain
        BY <3>1, <3>3 DEF PartsOf, AnnouncedOf
      <4>2. w.block.kind \in K
        BY <4>1, KindsAre DEF Plain
      <4>3. w.block.id \in Nat \cup {None} /\ w.block.name \in Names \cup {None} /\ <<>> \in Data
        BY <4>1 DEF Plain, Data
      <4> HIDE DEF K
      <4> QED BY <4>2, <4>3, NewBlockIs
    <3> QED BY <3>2, <3>3
  <2>3. /\ Opened(m, NewBlock(w.block.kind, w.block.id, w.block.name, <<>>)) \in Clients(R, K)
        /\ ~Settled(Opened(m, NewBlock(w.block.kind, w.block.id, w.block.name, <<>>)))
    BY <2>2, OpenedIs
  <2> HIDE DEF m1, R, K
  <2>4. m1 \in Clients(R, K) /\ ~Settled(m1)
    BY <1>1, <2>1, <2>3, Zenon
  <2> QED BY <2>4, UnsettledReads DEF m1, R, K
<1>5. CASE w.type = "content_block_delta"
  <2>1. w.data \in Data
    BY <1>5 DEF MessagesWires, Signs, BlockStarts, BlockDeltas, BlockStops, MessageDeltas
  <2>2. \/ m1 = Grown(m, w.index + 1, w.data)
        \/ m1 = Break(m)
    BY <1>5, Zenon DEF MessagesRead
  <2>3. Grown(m, w.index + 1, w.data) \in Clients(R, K) /\ ~Settled(Grown(m, w.index + 1, w.data))
    BY <2>1, GrownIs
  <2> HIDE DEF m1, R, K
  <2>4. m1 \in Clients(R, K) /\ ~Settled(m1)
    BY <1>1, <2>2, <2>3, Zenon
  <2> QED BY <2>4, UnsettledReads DEF m1, R, K
<1>6. CASE w.type = "content_block_stop"
  <2>1. m1 = Closed(m, w.index + 1)
    BY <1>6 DEF MessagesRead
  <2>2. Closed(m, w.index + 1) \in Clients(R, K) /\ ~Settled(Closed(m, w.index + 1))
    <3>1. <<>> \in Data
      BY DEF Data
    <3> QED BY <3>1, GrownIs
  <2> HIDE DEF m1, R, K
  <2> QED BY <2>1, <2>2, UnsettledReads DEF m1, R, K
<1>7. CASE w.type = "message_delta"
  <2>1. w.reason \in R /\ w.type \in Concluding
    BY <1>7 DEF MessagesWires, Signs, BlockStarts, BlockDeltas, BlockStops, MessageDeltas, Concluding
  <2>2. \/ m1 = Settle(m, "concluded", w.reason)
        \/ m1 = Break(m)
    BY <1>7 DEF MessagesRead, Settle
  <2>3. "concluded" \in ClientPhases
    BY DEF ClientPhases
  <2>4. PICK y \in Clients(R, K) : Settle(m, "concluded", w.reason) = y /\ y.reason = w.reason
    <3>1. PICK x \in R : x = w.reason
      BY <2>1
    <3>2. \E y \in Clients(R, K) : Settle(m, "concluded", x) = y /\ y.reason = x
      BY <2>3, ConcludedIs
    <3> QED BY <3>1, <3>2
  <2> HIDE DEF m1, R, K
  <2>5. CASE m1 = Settle(m, "concluded", w.reason)
    <3>1. m1 \in Clients(R, K) /\ m1.reason = w.reason
      BY <2>4, <2>5
    <3> QED BY <2>1, <3>1 DEF ReadsOn, m1, R, K
  <2>6. CASE m1 = Break(m)
    BY <1>1, <2>6, UnsettledReads DEF m1, R, K
  <2> QED BY <2>2, <2>5, <2>6, Zenon
<1>8. CASE w.type = "message_stop"
  <2>1. \/ m.phase = "concluded" /\ m1 = [m EXCEPT !.phase = "done"]
        \/ m1 = Break(m)
    BY <1>8 DEF MessagesRead
  <2>2. "done" \in ClientPhases /\ "end_turn" \in R
    BY DEF ClientPhases, StopReasons
  <2>3. PICK y \in Clients(R, K) : [m EXCEPT !.phase = "done"] = y /\ y.reason = m.reason
    BY <2>2, PhaseIs
  <2> HIDE DEF m1, R, K
  <2>4. CASE m.phase = "concluded" /\ m1 = [m EXCEPT !.phase = "done"]
    <3>1. m1 \in Clients(R, K) /\ m1.reason = m.reason /\ Settled(m)
      BY <2>3, <2>4 DEF Settled
    <3> QED BY <3>1 DEF ReadsOn, m1, R, K
  <2>5. CASE m1 = Break(m)
    BY <1>1, <2>5, UnsettledReads DEF m1, R, K
  <2> QED BY <2>1, <2>4, <2>5
<1>9. CASE w.type = "error"
  <2>1. m1 = Failed(m)
    BY <1>9 DEF MessagesRead
  <2> HIDE DEF m1, R, K
  <2> QED BY <1>1, <2>1, UnsettledReads DEF m1, R, K
<1> QED BY <1>2, <1>3, <1>4, <1>5, <1>6, <1>7, <1>8, <1>9

\* and a Responses client.
LEMMA ResponsesReadIs ==
  ASSUME NEW r, NEW m \in Clients({"completed"}, Kinds), NEW w \in ResponsesWires
  PROVE  ReadsOn({"completed"}, Kinds, m, ResponsesRead(r, m, w), w)
<1> DEFINE R == {"completed"}
           K == Kinds
           at == About(r, w)
           same == at \in DOMAIN m.blocks /\ m.blocks[at].data = w.data
           m1 == ResponsesRead(r, m, w)
<1>1. /\ Break(m) \in Clients(R, K) /\ ~Settled(Break(m))
      /\ Started(m) \in Clients(R, K) /\ ~Settled(Started(m))
  BY UnsettledIs
<1>2. ReadsOn(R, K, m, m, w)
  BY DEF ReadsOn
<1>3. w \in ItemWires \/ w \in DataWires \/ w \in CompletedWires
  BY DEF ResponsesWires, OpenWires
<1>4. w.data \in Data /\ <<>> \in Data
  <2>1. <<>> \in Data
    BY DEF Data
  <2> QED BY <1>3, <2>1 DEF ItemWires, DataWires, CompletedWires
<1>5. /\ Grown(m, at, w.data) \in Clients(R, K) /\ ~Settled(Grown(m, at, w.data))
      /\ Closed(m, at) \in Clients(R, K) /\ ~Settled(Closed(m, at))
  <2> HIDE DEF at
  <2> QED BY <1>4, GrownIs
<1>6. "text" \in K /\ "tool" \in K
  BY DEF Kinds
<1>7. CASE w.type = "output_item.added"
  <2> DEFINE b == NewBlock("tool", w.item.id, w.item.name, <<>>)
  <2>1. m1 = m \/ m1 = Opened(m, b)
    BY <1>7 DEF ResponsesRead
  <2>2. b \in BlocksOf(K)
    <3>1. w.item.id \in Nat \cup {None} /\ w.item.name \in Names \cup {None}
      BY <1>3, <1>7 DEF ItemWires, DataWires, CompletedWires, OutputItems
    <3> HIDE DEF K
    <3> QED BY <1>4, <1>6, <3>1, NewBlockIs
  <2> HIDE DEF b
  <2>3. Opened(m, b) \in Clients(R, K) /\ ~Settled(Opened(m, b))
    BY <2>2, OpenedIs
  <2> HIDE DEF m1, R, K
  <2> QED BY <1>2, <2>1, <2>3, UnsettledReads, Zenon DEF m1, R, K
<1>8. CASE w.type = "content_block.added"
  <2> DEFINE b == NewBlock("text", None, None, <<>>)
  <2>1. m1 = Opened(m, b)
    BY <1>8 DEF ResponsesRead
  <2>2. b \in BlocksOf(K)
    <3> HIDE DEF K
    <3> QED BY <1>4, <1>6, NewBlockIs
  <2> HIDE DEF b
  <2>3. Opened(m, b) \in Clients(R, K) /\ ~Settled(Opened(m, b))
    BY <2>2, OpenedIs
  <2> HIDE DEF m1, R, K
  <2> QED BY <2>1, <2>3, UnsettledReads, Zenon DEF m1, R, K
<1>9. CASE w.type \in {"created", "output_text.delta", "arguments.delta", "content_block.done", "arguments.done",
                       "output_text.done", "output_item.done"}
  <2>1. m1 \in {Started(m), Grown(m, at, w.data), Closed(m, at), Break(m), m}
    BY <1>9, Zenon DEF ResponsesRead
  <2> HIDE DEF m1, R, K, at
  <2>2. m1 = m \/ (m1 \in Clients(R, K) /\ ~Settled(m1))
    BY <1>1, <1>5, <2>1
  <2> QED BY <1>2, <2>2, UnsettledReads, Zenon DEF m1, R, K
<1>10. CASE w.type = "completed"
  <2>1. w.reason = "completed" /\ w.type \in Concluding /\ "completed" \in R
    BY <1>3, <1>10 DEF ItemWires, DataWires, CompletedWires, Concluding
  <2>2. m1 = Settle(m, "done", w.reason) \/ m1 = Break(m)
    BY <1>10, Zenon DEF ResponsesRead, Settle
  <2>3. "done" \in ClientPhases
    BY DEF ClientPhases
  <2>4. PICK y \in Clients(R, K) : Settle(m, "done", w.reason) = y /\ y.reason = w.reason
    <3>1. PICK x \in R : x = w.reason
      BY <2>1
    <3>2. \E y \in Clients(R, K) : Settle(m, "done", x) = y /\ y.reason = x
      BY <2>3, ConcludedIs
    <3> QED BY <3>1, <3>2
  <2> HIDE DEF m1, R, K
  <2>5. CASE m1 = Settle(m, "done", w.reason)
    <3>1. m1 \in Clients(R, K) /\ m1.reason = w.reason
      BY <2>4, <2>5
    <3> QED BY <2>1, <3>1 DEF ReadsOn, m1, R, K
  <2>6. CASE m1 = Break(m)
    BY <1>1, <2>6, UnsettledReads DEF m1, R, K
  <2> QED BY <2>2, <2>5, <2>6, Zenon
<1>11. w.type \in {"output_item.added", "content_block.added", "created", "output_text.delta", "arguments.delta",
                  "content_block.done", "arguments.done", "output_text.done", "output_item.done", "completed"}
  BY <1>3 DEF ItemWires, DataWires, CompletedWires
<1> QED BY <1>7, <1>8, <1>9, <1>10, <1>11

-----------------------------------------------------------------------------
(* The accumulator: what it observes does not end it, but for the end itself. *)
IsAcc(a) ==
  a = [blocks |-> a.blocks, open |-> a.open, reason |-> a.reason, errored |-> a.errored, ended |-> a.ended]
Keeps(a, b) == IsAcc(b) /\ b.ended = a.ended

LEMMA KeepsOn ==
  ASSUME NEW a, NEW b, NEW c, Keeps(a, b), Keeps(b, c)
  PROVE  Keeps(a, c)
  BY DEF Keeps

LEMMA AccBlocks ==
  ASSUME NEW a, IsAcc(a), NEW q
  PROVE  Keeps(a, [a EXCEPT !.blocks = q]) /\ Keeps(a, [a EXCEPT !.open = q])
<1>1. [a EXCEPT !.blocks = q] =
        [blocks |-> q, open |-> a.open, reason |-> a.reason, errored |-> a.errored, ended |-> a.ended]
  BY DEF IsAcc
<1>2. [a EXCEPT !.open = q] =
        [blocks |-> a.blocks, open |-> q, reason |-> a.reason, errored |-> a.errored, ended |-> a.ended]
  BY DEF IsAcc
<1>3. Keeps(a, [blocks |-> q, open |-> a.open, reason |-> a.reason, errored |-> a.errored, ended |-> a.ended])
  BY DEF Keeps, IsAcc
<1>4. Keeps(a, [blocks |-> a.blocks, open |-> q, reason |-> a.reason, errored |-> a.errored, ended |-> a.ended])
  BY DEF Keeps, IsAcc
<1> QED BY <1>1, <1>2, <1>3, <1>4

\* A new block, and one that is there, of text or of a call.
LEMMA NewBlockKeeps ==
  ASSUME NEW a, IsAcc(a), NEW i, NEW b
  PROVE  Keeps(a, NewBlockAt(a, i, b))
<1> DEFINE q == Append(a.blocks, b)
           o == With(a.open, i, Len(a.blocks) + 1)
           m == [a EXCEPT !.blocks = q]
<1>1. NewBlockAt(a, i, b) = [m EXCEPT !.open = o]
  BY DEF NewBlockAt, IsAcc
<1>2. Keeps(a, m)
  <2> HIDE DEF q
  <2> QED BY AccBlocks
<1>3. Keeps(m, [m EXCEPT !.open = o])
  <2>1. IsAcc(m)
    BY <1>2 DEF Keeps
  <2> HIDE DEF m, o
  <2> QED BY <2>1, AccBlocks
<1> HIDE DEF m, o
<1> QED BY <1>1, <1>2, <1>3, KeepsOn

LEMMA EnsureBlockKeeps ==
  ASSUME NEW a, IsAcc(a), NEW i, NEW kind
  PROVE  Keeps(a, EnsureBlock(a, i, kind))
<1>1. Keeps(a, a)
  BY DEF Keeps
<1>2. EnsureBlock(a, i, kind) = a \/ EnsureBlock(a, i, kind) = NewBlockAt(a, i, Accumulating(kind, None, None))
  BY Zenon DEF EnsureBlock
<1> QED BY <1>1, <1>2, NewBlockKeeps

LEMMA EnsureToolKeeps ==
  ASSUME NEW a, IsAcc(a), NEW i, NEW block
  PROVE  Keeps(a, EnsureTool(a, i, block))
<1>1. Keeps(a, a)
  BY DEF Keeps
<1> DEFINE r == NewBlockAt(a, i, Accumulating("tool", None, None))
<1>2. ASSUME NEW t, Keeps(a, t), NEW k, NEW b
      PROVE  Keeps(a, [t EXCEPT !.blocks[k] = b])
  <2> DEFINE u == [t EXCEPT !.blocks[k] = b]
  <2>1. IsAcc(t)
    BY <1>2 DEF Keeps
  <2>2. PICK q : u = [t EXCEPT !.blocks = q]
    OBVIOUS
  <2> HIDE DEF u
  <2>3. Keeps(t, u)
    BY <2>1, <2>2, AccBlocks
  <2>4. Keeps(a, u)
    BY <1>2, <2>3, KeepsOn
  <2> QED BY <2>4 DEF u
<1>3. Keeps(a, r)
  BY NewBlockKeeps
<1> DEFINE old == OpenBlockAt(a, i)
           fits == /\ old # None /\ old.kind = "tool"
                   /\ old.id \in {None, block.id} /\ old.name \in {None, block.name}
           t == IF fits THEN a ELSE r
           k == t.open[i]
           b == [t.blocks[k] EXCEPT !.id = block.id, !.name = block.name,
                                    !.args = IF block.data = <<>> THEN @ ELSE block.data]
<1>4. EnsureTool(a, i, block) = [t EXCEPT !.blocks[k] = b]
  BY Zenon DEF EnsureTool
<1>5. Keeps(a, t)
  <2> HIDE DEF r, fits
  <2> QED BY <1>1, <1>3
<1> HIDE DEF t, b, k
<1> QED BY <1>2, <1>4, <1>5

\* A delta does not end what is accumulated;
LEMMA ObserveDeltaKeeps ==
  ASSUME NEW a, IsAcc(a), NEW e
  PROVE  Keeps(a, ObserveDelta(a, e))
<1> DEFINE t == IF e.block = None THEN a
                ELSE IF e.block.kind = "tool" THEN EnsureTool(a, e.index, e.block)
                ELSE EnsureBlock(a, e.index, e.block.kind)
           u == EnsureBlock(t, e.index, DeltaKind(e.delta))
           x == [u EXCEPT !.blocks[u.open[e.index]].data = @ \o e.data]
<1>1. Keeps(a, t)
  <2>1. Keeps(a, a)
    BY DEF Keeps
  <2> QED BY <2>1, EnsureToolKeeps, EnsureBlockKeeps
<1>2. ObserveDelta(a, e) = IF e.delta = None THEN t ELSE x
  BY Zenon DEF ObserveDelta
<1> HIDE DEF t
<1>3. Keeps(t, u)
  <2>1. IsAcc(t)
    BY <1>1 DEF Keeps
  <2> QED BY <2>1, EnsureBlockKeeps
<1> HIDE DEF u
<1>4. Keeps(u, x)
  <2>1. IsAcc(u)
    BY <1>3 DEF Keeps
  <2>2. x = [blocks |-> x.blocks, open |-> u.open, reason |-> u.reason, errored |-> u.errored, ended |-> u.ended]
    BY <2>1 DEF IsAcc
  <2> HIDE DEF x
  <2> QED BY <2>2 DEF Keeps, IsAcc
<1> HIDE DEF x
<1> QED BY <1>1, <1>2, <1>3, <1>4, KeepsOn

\* only the end of the stream does,
LEMMA ObserveIs ==
  ASSUME NEW a, IsAcc(a), NEW calls, NEW e \in Events(calls)
  PROVE  IsAcc(Observe(a, e)) /\ (Observe(a, e).ended => a.ended \/ e.type = "stream_end")
<1>1. CASE e.type = "content_delta"
  <2>1. Observe(a, e) = ObserveDelta(a, e)
    BY <1>1 DEF Observe
  <2> QED BY <2>1, ObserveDeltaKeeps DEF Keeps
<1>2. CASE e.type = "stream_end"
  <2>1. Observe(a, e) = [a EXCEPT !.ended = TRUE, !.reason = e.reason]
    BY <1>2 DEF Observe
  <2> QED BY <1>2, <2>1 DEF IsAcc
<1>3. CASE e.type = "stream_error"
  <2>1. Observe(a, e) = [a EXCEPT !.errored = TRUE]
    BY <1>3 DEF Observe
  <2> QED BY <2>1 DEF IsAcc
<1>4. CASE e.type = "stream_start"
  <2>1. Observe(a, e) = a
    BY <1>4 DEF Observe
  <2> QED BY <2>1
<1> QED BY <1>1, <1>2, <1>3, <1>4, EventKinds

\* and only what has ended is assembled.
LEMMA AssembledIs ==
  ASSUME NEW a, Assembled(a) # None
  PROVE  a.ended
  BY DEF Assembled

-----------------------------------------------------------------------------
(* Whatever the dialect.                                                   *)
Told(d, r) ==
  CASE d = "chat" -> ChatReason(r)
    [] d = "messages" -> MessagesReason(r)
    [] OTHER -> "completed"
Reasons(d) ==
  CASE d = "chat" -> ChatReasons
    [] d = "messages" -> StopReasons
    [] OTHER -> {"completed"}
SerializerStates(d) ==
  CASE d = "chat" -> Chats
    [] d = "messages" -> MessagesStates
    [] OTHER -> ResponsesStates
WiresOf(d, calls) ==
  CASE d = "chat" -> ChatWires(calls)
    [] d = "messages" -> MessagesWires(calls)
    [] OTHER -> ResponsesWires
KindsFor(d, calls) == IF d = "responses" THEN Kinds ELSE KindsOf(calls)
ClientsOf(d, calls) == Clients(Reasons(d), KindsFor(d, calls))

\* What a serializer makes of an event, whatever its dialect, and a client of what it reads.
LEMMA SerializerStarts ==
  ASSUME NEW d \in Dialects, NEW s \in BOOLEAN
  PROVE  SerializerInit(d, s) \in SerializerStates(d)
<1>1. \A V : <<>> \in Maps(V)
  BY EmptyMap
<1>2. CASE d = "chat"
  <2>1. ChatState \in Chats
    BY <1>1 DEF ChatState, Chats
  <2> QED BY <1>2, <2>1 DEF SerializerInit, SerializerStates
<1>3. CASE d = "messages"
  <2>1. <<>> \in Maps(Openings) /\ <<>> \in Seq(Int) /\ DOMAIN <<>> = {}
    BY <1>1
  <2>2. MessagesState(s) \in MessagesStates
    <3> DEFINE m == MessagesState(s)
    <3>1. m \in [started : BOOLEAN, next : Nat, open : Maps(Openings), order : Seq(Int), suppress : BOOLEAN,
                 suppressing : Int \cup {None}]
      <4> HIDE DEF Openings
      <4> QED BY <2>1 DEF MessagesState
    <3>2. m.order = <<>>
      BY DEF MessagesState
    <3> HIDE DEF m
    <3> QED BY <2>1, <3>1, <3>2 DEF MessagesStates, m
  <2> QED BY <1>3, <2>2 DEF SerializerInit, SerializerStates
<1>4. CASE d = "responses"
  <2>1. <<>> \in Maps(Places) /\ <<>> \in Maps(Data) /\ <<>> \in Seq(OutputItems)
    BY <1>1
  <2>2. ResponsesState \in ResponsesFields /\ ResponsesState.message = None
    <3> HIDE DEF OutputItems, Places, Data
    <3> QED BY <2>1 DEF ResponsesState, ResponsesFields
  <2>3. ResponsesState \in ResponsesStates
    BY <2>2 DEF ResponsesStates
  <2> QED BY <1>4, <2>3 DEF SerializerInit, SerializerStates
<1> QED BY <1>2, <1>3, <1>4 DEF Dialects

LEMMA SerializeIs ==
  ASSUME NEW calls, CallsFine(calls), NEW d \in Dialects, NEW s \in SerializerStates(d), NEW e \in Events(calls)
  PROVE  /\ Serialize(d, s, e).state \in SerializerStates(d)
         /\ Serialize(d, s, e).wire \in Seq(WiresOf(d, calls))
         /\ e.type # "stream_end" => Silent(Serialize(d, s, e).wire)
         /\ Tells(Serialize(d, s, e).wire, Told(d, e.reason))
<1>1. CASE d = "chat"
  <2>1. /\ Serialize(d, s, e) = ChatEvent(s, e) /\ SerializerStates(d) = Chats /\ WiresOf(d, calls) = ChatWires(calls)
        /\ Told(d, e.reason) = ChatReason(e.reason)
    BY <1>1 DEF Serialize, SerializerStates, WiresOf, Told
  <2> QED BY <2>1, ChatEventIs
<1>2. CASE d = "messages"
  <2>1. /\ Serialize(d, s, e) = MessagesEvent(s, e) /\ SerializerStates(d) = MessagesStates
        /\ WiresOf(d, calls) = MessagesWires(calls) /\ Told(d, e.reason) = MessagesReason(e.reason)
    BY <1>2 DEF Serialize, SerializerStates, WiresOf, Told
  <2> QED BY <2>1, MessagesEventIs
<1>3. CASE d = "responses"
  <2>1. /\ Serialize(d, s, e) = ResponsesEvent(s, e) /\ SerializerStates(d) = ResponsesStates
        /\ WiresOf(d, calls) = ResponsesWires /\ Told(d, e.reason) = "completed"
    BY <1>3 DEF Serialize, SerializerStates, WiresOf, Told
  <2> QED BY <2>1, ResponsesEventIs
<1> QED BY <1>1, <1>2, <1>3 DEF Dialects

LEMMA ReadIs ==
  ASSUME NEW calls, CallsFine(calls), NEW d \in Dialects, NEW r, NEW m \in ClientsOf(d, calls), NEW w \in WiresOf(d, calls)
  PROVE  ReadsOn(Reasons(d), KindsFor(d, calls), m, Read(d, r, m, w), w)
<1>1. CASE d = "chat"
  <2>1. /\ Read(d, r, m, w) = ChatRead(m, w) /\ Reasons(d) = ChatReasons /\ WiresOf(d, calls) = ChatWires(calls)
        /\ KindsFor(d, calls) = KindsOf(calls)
    BY <1>1 DEF Read, Reasons, WiresOf, KindsFor
  <2>2. m \in Clients(ChatReasons, KindsOf(calls))
    BY <2>1 DEF ClientsOf
  <2> QED BY <2>1, <2>2, ChatReadIs
<1>2. CASE d = "messages"
  <2>1. /\ Read(d, r, m, w) = MessagesRead(m, w) /\ Reasons(d) = StopReasons /\ WiresOf(d, calls) = MessagesWires(calls)
        /\ KindsFor(d, calls) = KindsOf(calls)
    BY <1>2 DEF Read, Reasons, WiresOf, KindsFor
  <2>2. m \in Clients(StopReasons, KindsOf(calls))
    BY <2>1 DEF ClientsOf
  <2> QED BY <2>1, <2>2, MessagesReadIs
<1>3. CASE d = "responses"
  <2>1. /\ Read(d, r, m, w) = ResponsesRead(r, m, w) /\ Reasons(d) = {"completed"} /\ WiresOf(d, calls) = ResponsesWires
        /\ KindsFor(d, calls) = Kinds
    BY <1>3 DEF Read, Reasons, WiresOf, KindsFor
  <2>2. m \in Clients({"completed"}, Kinds)
    BY <2>1 DEF ClientsOf
  <2> QED BY <2>1, <2>2, ResponsesReadIs
<1> QED BY <1>1, <1>2, <1>3 DEF Dialects

\* A client that has read nothing, or left.
LEMMA EmptyClients ==
  ASSUME NEW R, NEW K
  PROVE  /\ EmptyMessage \in Clients(R, K) /\ ~Settled(EmptyMessage)
         /\ [EmptyMessage EXCEPT !.phase = "left"] \in Clients(R, K)
         /\ ~Settled([EmptyMessage EXCEPT !.phase = "left"])
<1>1. <<>> \in Seq(BlocksOf(K))
  OBVIOUS
<1> HIDE DEF BlocksOf
<1> QED BY <1>1 DEF EmptyMessage, Clients, ClientPhases, Settled

\* A client of few calls is one of more.
LEMMA ClientsGrow ==
  ASSUME NEW d, NEW calls, NEW calls1, calls1 = <<>> => calls = <<>>, NEW m \in ClientsOf(d, calls)
  PROVE  m \in ClientsOf(d, calls1)
<1>1. KindsFor(d, calls) \subseteq KindsFor(d, calls1)
  BY DEF KindsFor, KindsOf, Kinds
<1>2. PICK K, L : K = KindsFor(d, calls) /\ L = KindsFor(d, calls1)
  OBVIOUS
<1>3. BlocksOf(K) \subseteq BlocksOf(L)
  BY <1>1, <1>2 DEF BlocksOf
<1> DEFINE A == Seq(BlocksOf(K))
           B == Seq(BlocksOf(L))
<1>4. A \subseteq B
  <2> HIDE DEF BlocksOf
  <2> QED BY <1>3, SeqOfMore
<1> HIDE DEF A, B
<1>5. PICK R : R = Reasons(d)
  OBVIOUS
<1>6. m \in [phase : ClientPhases, blocks : A, reason : {None} \cup R, failed : BOOLEAN]
  BY <1>2, <1>5 DEF ClientsOf, Clients, A
<1>7. m \in [phase : ClientPhases, blocks : B, reason : {None} \cup R, failed : BOOLEAN]
  BY <1>4, <1>6
<1> QED BY <1>2, <1>5, <1>7 DEF ClientsOf, Clients, B

\* A client of no calls has none.
LEMMA NoCallsRead ==
  ASSUME NEW d \in {"chat", "messages"}, NEW calls, NEW m \in ClientsOf(d, calls), CallsOf(m.blocks) # <<>>
  PROVE  calls # <<>>
<1> SUFFICES ASSUME calls = <<>> PROVE FALSE
  OBVIOUS
<1>1. m.blocks \in Seq(BlocksOf({"text", "thinking"}))
  BY DEF ClientsOf, Clients, KindsFor, KindsOf
<1>2. PlacesOf(m.blocks, "tool") = {}
  <2>1. \A i \in DOMAIN m.blocks : m.blocks[i] \in BlocksOf({"text", "thinking"})
    <3> HIDE DEF BlocksOf
    <3> QED BY <1>1
  <2>2. \A b \in BlocksOf({"text", "thinking"}) : b.kind # "tool"
    BY DEF BlocksOf
  <2> QED BY <2>1, <2>2 DEF PlacesOf
<1>3. Calls(m.blocks) = <<>>
  <2>1. Cardinality({}) = 0
    BY FS_EmptySet
  <2>2. Calls(m.blocks) = [n \in 1..0 |-> m.blocks[NthSmallest({}, n)]]
    BY <1>2, <2>1, Zenon DEF Calls, Picked
  <2> QED BY <2>2
<1> QED BY <1>3 DEF CallsOf

\* A turn that ends with tools is told as one.
LEMMA ToolsAreTold ==
  ASSUME NEW d \in {"chat", "messages"}
  PROVE  Told(d, "tool_use") \in {"tool_use", "tool_calls"}
  BY DEF Told, ChatReason, MessagesReason, StopReasons

\* Every reason that is told is a reason of the dialect's.
LEMMA ReasonsAreTold ==
  ASSUME NEW d \in Dialects, NEW r
  PROVE  Told(d, r) \in Reasons(d)
<1>1. CASE d = "chat"
  BY <1>1 DEF Told, Reasons, ChatReason, ChatReasons
<1>2. CASE d = "messages"
  BY <1>2 DEF Told, Reasons, MessagesReason, StopReasons
<1>3. CASE d = "responses"
  BY <1>3 DEF Told, Reasons
<1> QED BY <1>1, <1>2, <1>3 DEF Dialects

-----------------------------------------------------------------------------
(* The inductive invariant.                                                *)
\* What a client may be told to be the reason of the end.
Verdict(d, f, s, b, r) ==
  /\ d # "messages" => s.reason # None \/ f \in GeminiFormats
  /\ /\ d # "responses" /\ s.reason \notin {None, "length"} /\ s.calls # <<>>
     /\ f \notin GeminiFormats /\ b \notin {"eof", "broken"}
     => r \in {"tool_use", "tool_calls"}
Finished(f, s, b) == b # "broken" /\ (s.reason # None \/ f \in GeminiFormats)

RequestFine == format \in Formats /\ dialect \in Dialects /\ suppress \in BOOLEAN
UpstreamFine ==
  /\ SaidFine(format, said) /\ ParserFine(format, parser, said) /\ normalizer \in Normalizers
  /\ body \in {"open", "eof", "broken", "closed"} /\ drained \in BOOLEAN
  /\ body = "open" => ~parser.done /\ ~drained
ReadyFine ==
  /\ Tidy(ready, said.calls)
  /\ \A k \in DOMAIN ready :
       /\ ready[k].type = "stream_end" => EndOK(format, said, ready[k].reason) /\ body # "broken"
       /\ ready[k].type = "stream_error" => body = "broken" \/ said.reason = None
  /\ body = "closed" /\ handler = "serving" => Len(ready) # 0 /\ Last(ready).type = "stream_end"
HandlerFine ==
  /\ handler \in {"serving", "ending", "done"} /\ serializer \in SerializerStates(dialect)
  /\ outbox \in Seq(WiresOf(dialect, said.calls))
  /\ handler = "serving" => Silent(outbox)
  /\ \A k \in DOMAIN outbox :
       outbox[k].type \in Concluding => Verdict(dialect, format, said, body, outbox[k].reason)
ClientFine ==
  /\ client \in ClientsOf(dialect, said.calls)
  /\ handler = "serving" => ~Settled(client)
  /\ Settled(client) => Verdict(dialect, format, said, body, client.reason)
StoreFine ==
  /\ IsAcc(accumulator)
  /\ accumulator.ended => handler # "serving" /\ Finished(format, said, body)
  /\ cache # None => handler # "serving" /\ Finished(format, said, body)

StreamSafe == RequestFine /\ UpstreamFine /\ ReadyFine /\ HandlerFine /\ ClientFine /\ StoreFine

-----------------------------------------------------------------------------
(* The first state.                                                        *)
LEMMA ParserStarts ==
  ASSUME NEW f \in Formats, NEW s, s.calls = <<>>, s.reason = None
  PROVE  ParserFine(f, Parser(f), s) /\ ~Parser(f).done
<1>1. <<>> \in Maps(Places) /\ DOMAIN <<>> = {} /\ Len(<<>>) = 0
  BY EmptyMap
<1>2. Numbers(s.calls) = {}
  BY <1>1 DEF Numbers
<1>3. OpenAIParser \in OpenAIParsers /\ OpenAIParser.tools = <<>> /\ ~OpenAIParser.done
  <2> HIDE DEF Places
  <2> QED BY <1>1 DEF OpenAIParser, OpenAIParsers
<1>4. ResponsesParser \in ResponsesParsers /\ ResponsesParser.tools = <<>> /\ ~ResponsesParser.done
  <2> HIDE DEF Places
  <2> QED BY <1>1 DEF ResponsesParser, ResponsesParsers
<1>5. /\ GeminiParser \in CountingParsers /\ ~GeminiParser.done
      /\ BufferedParser \in CountingParsers /\ ~BufferedParser.done
  BY DEF GeminiParser, BufferedParser, CountingParsers
<1>6. CASE f \in OpenAIFormats
  <2>1. Parser(f) = OpenAIParser
    BY <1>6 DEF Parser, OpenAIFormats
  <2> QED BY <1>1, <1>2, <1>3, <1>6, <2>1, FormatsDiffer DEF ParserFine
<1>7. CASE f \in ResponsesFormats
  <2>1. Parser(f) = ResponsesParser
    BY <1>7 DEF Parser, ResponsesFormats
  <2> QED BY <1>1, <1>2, <1>4, <1>7, <2>1, FormatsDiffer DEF ParserFine
<1>8. CASE f \in GeminiFormats \cup BufferedFormats
  <2>1. Parser(f) \in {GeminiParser, BufferedParser}
    BY <1>8 DEF Parser, GeminiFormats, BufferedFormats
  <2> QED BY <1>5, <1>8, <2>1, FormatsDiffer DEF ParserFine
<1> QED BY <1>6, <1>7, <1>8, FormatsAssumption

\* No events, in good order.
LEMMA NothingTidy ==
  ASSUME NEW calls
  PROVE  Tidy(<<>>, calls) /\ Quiet(<<>>) /\ <<>> \in Seq(Events(calls))
  BY DEF Tidy, Quiet

\* The request starts with the invariant.
LEMMA StreamStarts ==
  ASSUME StreamsInit
  PROVE  StreamSafe
<1>1. RequestFine
  BY DEF StreamsInit, RequestFine
<1>2. said.calls = <<>> /\ said.reason = None
  BY DEF StreamsInit
<1>3. UpstreamFine
  <2>1. <<>> \in Data /\ <<>> \in Seq(CallParts) /\ DOMAIN <<>> = {} /\ Len(<<>>) = 0
    BY DEF Data
  <2>2. said \in Saids
    <3>1. 0 \in 0..MaxChunks
      BY StreamBounds
    <3> HIDE DEF CallParts, Data
    <3> QED BY <2>1, <3>1 DEF StreamsInit, Saids
  <2>3. SaidFine(format, said)
    BY <1>2, <2>1, <2>2, StreamBounds DEF SaidFine, CallsFine
  <2>4. normalizer \in Normalizers
    <3>1. <<>> \in Buffers
      BY EmptyMap DEF Buffers
    <3> QED BY <3>1 DEF StreamsInit, NormalizerInit, Normalizers
  <2>5. ParserFine(format, parser, said) /\ ~parser.done
    BY <1>1, <1>2, ParserStarts DEF StreamsInit, RequestFine
  <2> QED BY <2>3, <2>4, <2>5 DEF UpstreamFine, StreamsInit
<1>4. ReadyFine
  BY NothingTidy DEF StreamsInit, ReadyFine
<1>5. HandlerFine
  <2>1. serializer \in SerializerStates(dialect)
    BY <1>1, SerializerStarts DEF StreamsInit, RequestFine
  <2>2. outbox = <<>> /\ handler = "serving"
    BY DEF StreamsInit
  <2> QED BY <2>1, <2>2 DEF HandlerFine, Silent
<1>6. ClientFine
  <2>1. client = EmptyMessage
    BY DEF StreamsInit
  <2> QED BY <2>1, EmptyClients DEF ClientFine, ClientsOf
<1>7. StoreFine
  BY DEF StreamsInit, StoreFine, IsAcc, AccumulatorInit
<1> QED BY <1>1, <1>3, <1>4, <1>5, <1>6, <1>7 DEF StreamSafe

-----------------------------------------------------------------------------
(* The steps.                                                              *)
LEMMA EndsAreLast ==
  ASSUME NEW calls, NEW q, Tidy(q, calls), NEW k \in DOMAIN q, q[k].type \in EndTypes
  PROVE  Len(q) # 0 /\ k = Len(q) /\ Last(q) = q[k] /\ ~Quiet(q)
<1>1. q \in Seq(Events(calls)) /\ Len(q) \in Nat /\ k \in 1..Len(q)
  BY DEF Tidy
<1>2. k = Len(q)
  BY <1>1 DEF Tidy
<1> QED BY <1>1, <1>2 DEF Last, Quiet

\* Nothing to write.
LEMMA NoneRead ==
  ASSUME NEW d, NEW calls
  PROVE  <<>> \in Seq(WiresOf(d, calls)) /\ Silent(<<>>)
<1> HIDE DEF WiresOf
<1> QED BY DEF Silent

\* What goes through the normalizer keeps its ends.
LEMMA PassKeepsEnds ==
  ASSUME NEW calls, CallsFine(calls), normalizer \in Normalizers, NEW events,
         \/ events \in Seq(Flowing(calls))
         \/ \E x \in Seq(Flowing(calls)), e \in Ending : events = Append(x, e)
  PROVE  /\ Pass(events).state \in Normalizers
         /\ Tidy(Pass(events).events, calls)
         /\ \A k \in DOMAIN Pass(events).events :
              Pass(events).events[k].type \in EndTypes =>
                /\ Last(events) = Pass(events).events[k]
                /\ ~Quiet(events)
         /\ ~Quiet(events) => /\ Len(Pass(events).events) # 0
                              /\ Last(Pass(events).events) = Last(events)
<1>1. Tidy(events, calls)
  <2>1. CASE events \in Seq(Flowing(calls))
    BY <2>1, FlowIs
  <2>2. ASSUME NEW x \in Seq(Flowing(calls)), NEW e \in Ending, events = Append(x, e)
        PROVE  Tidy(events, calls)
    <3>1. Tidy(Append(x, e), calls)
      BY EndIs
    <3> QED BY <2>2, <3>1
  <2> QED BY <2>1, <2>2
<1>2. PICK q : q = Pass(events).events
  OBVIOUS
<1>3. /\ Pass(events).state \in Normalizers /\ Tidy(q, calls)
      /\ Quiet(events) => Quiet(q)
      /\ ~Quiet(events) => Len(q) # 0 /\ Last(q) = Last(events)
  BY <1>1, <1>2, PassIsTidy
<1>4. \A k \in DOMAIN q : q[k].type \in EndTypes => Last(events) = q[k] /\ ~Quiet(events)
  BY <1>3, EndsAreLast
<1> QED BY <1>2, <1>3, <1>4

\* A chunk is heard.  Its events are parsed and normalized, and the end among them is right.
LEMMA HearKeeps ==
  ASSUME StreamSafe, Hear
  PROVE  StreamSafe'
<1>1. RequestFine /\ UpstreamFine /\ ReadyFine /\ HandlerFine /\ ClientFine /\ StoreFine
  BY DEF StreamSafe
<1>2. /\ handler = "serving" /\ ready = <<>> /\ outbox = <<>> /\ body = "open"
      /\ UNCHANGED <<format, dialect, suppress, drained, serializer, accumulator, handler, outbox, reader, client, cache>>
  BY DEF Hear, Waiting, requestVars, handlerVars, clientVars
<1>3. PICK c \in Chunks :
        /\ said' = Heard(c)
        /\ parser' = Parse(format, parser, c).parser
        /\ normalizer' = Pass(Parse(format, parser, c).events).state
        /\ ready' = Pass(Parse(format, parser, c).events).events
        /\ body' = IF Parse(format, parser, c).parser.done THEN "closed" ELSE body
  BY DEF Hear
<1>4. PICK s, p, n : s = Heard(c) /\ p = Parse(format, parser, c) /\ n = Pass(p.events)
  OBVIOUS
<1>5. said' = s /\ parser' = p.parser /\ normalizer' = n.state /\ ready' = n.events
      /\ body' = IF p.parser.done THEN "closed" ELSE body
  BY <1>3, <1>4
<1>6. SaidFine(format, said) /\ ParserFine(format, parser, said) /\ normalizer \in Normalizers /\ ~parser.done
      /\ format \in Formats /\ dialect \in Dialects /\ ~drained /\ drained \in BOOLEAN
  BY <1>1, <1>2 DEF UpstreamFine, RequestFine
<1>7. SaidFine(format, s) /\ Follows(said, c, s) /\ ChunkFine(format, said, c)
  BY <1>4, <1>6, ChunksAreFine, HeardIs
<1>8. ParsedFine(format, s, p)
  BY <1>4, <1>6, <1>7, Parses
<1>9. CallsFine(s.calls)
  BY <1>7 DEF SaidFine
<1>10. \/ p.events \in Seq(Flowing(s.calls))
      \/ \E x \in Seq(Flowing(s.calls)), e \in Ending : p.events = Append(x, e)
  BY <1>8 DEF ParsedFine
<1>11. /\ n.state \in Normalizers /\ Tidy(n.events, s.calls)
       /\ \A k \in DOMAIN n.events : n.events[k].type \in EndTypes =>
            Last(p.events) = n.events[k] /\ ~Quiet(p.events)
       /\ ~Quiet(p.events) => Len(n.events) # 0 /\ Last(n.events) = Last(p.events)
  BY <1>4, <1>6, <1>9, <1>10, PassKeepsEnds
<1>12. ASSUME p.events \in Seq(Flowing(s.calls)), ~p.parser.done
       PROVE  ReadyFine' /\ UpstreamFine'
  <2>1. Quiet(p.events)
    BY <1>12, FlowIs
  <2>2. ReadyFine'
    BY <1>2, <1>5, <1>11, <1>12, <2>1 DEF ReadyFine, EndTypes
  <2>3. UpstreamFine'
    <3>1. ParserFine(format, p.parser, s)
      BY <1>8 DEF ParsedFine
    <3>2. body' = "open"
      BY <1>2, <1>5, <1>12
    <3>3. SaidFine(format, said)' /\ ParserFine(format, parser, said)' /\ (normalizer \in Normalizers)'
      BY <1>2, <1>5, <1>7, <1>11, <3>1
    <3> QED BY <1>2, <1>5, <1>6, <1>12, <3>2, <3>3 DEF UpstreamFine
  <2> QED BY <2>2, <2>3
<1>13. ASSUME NEW x \in Seq(Flowing(s.calls)), NEW e \in Ending, p.events = Append(x, e),
              e \in Ends => EndOK(format, s, e.reason),
              e \notin Ends => ~p.parser.done /\ s.reason = None
       PROVE  ReadyFine' /\ UpstreamFine'
  <2>1. ~Quiet(p.events) /\ Last(p.events) = e
    BY <1>13, EndIs
  <2>2. (e.type = "stream_end" <=> e \in Ends) /\ (e.type = "stream_error" <=> e \notin Ends)
    BY DEF Ending, Ends, Bare
  <2>3. body' \in {"open", "closed"} /\ (body' = "closed" <=> p.parser.done)
    BY <1>2, <1>5
  <2>4. ReadyFine'
    <3>1. \A k \in DOMAIN n.events : n.events[k].type \in EndTypes => n.events[k] = e
      BY <1>11, <2>1
    <3>2. Tidy(ready', said'.calls)
      BY <1>5, <1>11
    <3>3. \A k \in DOMAIN ready' :
             /\ ready'[k].type = "stream_end" => EndOK(format, said, ready[k].reason)' /\ body' # "broken"
             /\ ready'[k].type = "stream_error" => body' = "broken" \/ said'.reason = None
      <4> SUFFICES ASSUME NEW k \in DOMAIN n.events
                   PROVE  /\ n.events[k].type = "stream_end" => EndOK(format, s, n.events[k].reason) /\ body' # "broken"
                          /\ n.events[k].type = "stream_error" => s.reason = None
        BY <1>2, <1>5 DEF EndOK
      <4>1. n.events[k].type \in EndTypes => n.events[k] = e
        BY <3>1
      <4> QED BY <1>13, <2>2, <2>3, <4>1 DEF EndTypes
    <3>4. body' = "closed" => Len(ready') # 0 /\ Last(ready').type = "stream_end"
      BY <1>5, <1>11, <1>13, <2>1, <2>2, <2>3
    <3> QED BY <3>2, <3>3, <3>4 DEF ReadyFine
  <2>5. UpstreamFine'
    <3>1. ParserFine(format, p.parser, s)
      BY <1>8 DEF ParsedFine
    <3>2. SaidFine(format, said)' /\ ParserFine(format, parser, said)' /\ (normalizer \in Normalizers)'
      BY <1>2, <1>5, <1>7, <1>11, <3>1
    <3> QED BY <1>2, <1>5, <1>6, <2>3, <3>2 DEF UpstreamFine
  <2> QED BY <2>4, <2>5
<1>14. ReadyFine' /\ UpstreamFine'
  <2>1. CASE p.events \in Seq(Flowing(s.calls)) /\ ~p.parser.done
    BY <1>12, <2>1
  <2>2. CASE \E x \in Seq(Flowing(s.calls)), e \in Ending :
               /\ p.events = Append(x, e)
               /\ e \in Ends => EndOK(format, s, e.reason)
               /\ e \notin Ends => ~p.parser.done /\ s.reason = None
    <3>1. PICK x \in Seq(Flowing(s.calls)), e \in Ending :
            /\ p.events = Append(x, e)
            /\ e \in Ends => EndOK(format, s, e.reason)
            /\ e \notin Ends => ~p.parser.done /\ s.reason = None
      BY <2>2
    <3> QED BY <1>13, <3>1
  <2> QED BY <1>8, <2>1, <2>2 DEF ParsedFine
<1>15. RequestFine'
  BY <1>1, <1>2 DEF RequestFine
<1>16. HandlerFine'
  <2>1. <<>> \in Seq(WiresOf(dialect', said'.calls))
    BY NoneRead
  <2>2. outbox' = <<>> /\ handler' = handler /\ serializer' \in SerializerStates(dialect')
    BY <1>1, <1>2 DEF HandlerFine
  <2> QED BY <1>2, <2>1, <2>2 DEF HandlerFine, Silent
<1>17. ClientFine'
  <2>1. client \in ClientsOf(dialect, said.calls) /\ ~Settled(client)
    BY <1>1, <1>2 DEF ClientFine
  <2>2. s.calls = <<>> => said.calls = <<>>
    <3>1. Len(s.calls) \in {Len(said.calls), Len(said.calls) + 1} /\ said.calls \in Seq(CallParts) /\ Len(said.calls) \in Nat
      BY <1>6, <1>7 DEF Follows, SaidFine, CallsFine
    <3> HIDE DEF CallParts
    <3> QED BY <3>1
  <2>3. client \in ClientsOf(dialect, s.calls)
    BY <2>1, <2>2, ClientsGrow
  <2> QED BY <1>2, <1>5, <2>1, <2>3 DEF ClientFine
<1>18. StoreFine'
  BY <1>1, <1>2 DEF StoreFine
<1> QED BY <1>14, <1>15, <1>16, <1>17, <1>18 DEF StreamSafe

\* The body ends, or breaks: only Gemini's parser makes an end of it.
LEMMA EndBodyKeeps ==
  ASSUME StreamSafe, NEW broken \in BOOLEAN, EndBody(broken)
  PROVE  StreamSafe'
<1>1. RequestFine /\ UpstreamFine /\ ReadyFine /\ HandlerFine /\ ClientFine /\ StoreFine
  BY DEF StreamSafe
<1>2. /\ handler = "serving" /\ ready = <<>> /\ outbox = <<>> /\ body = "open"
      /\ UNCHANGED <<format, dialect, suppress, said, parser, drained, serializer, accumulator, handler, outbox, reader,
                     client, cache>>
      /\ body' = IF broken THEN "broken" ELSE "eof"
  BY DEF EndBody, Waiting, requestVars, handlerVars, clientVars
<1>3. PICK q, n : q = BodyEnded(format, parser, broken) /\ n = Pass(q)
  OBVIOUS
<1>4. normalizer' = n.state /\ ready' = n.events
  BY <1>3 DEF EndBody
<1>5. SaidFine(format, said) /\ ParserFine(format, parser, said) /\ normalizer \in Normalizers /\ CallsFine(said.calls)
      /\ drained \in BOOLEAN
  BY <1>1 DEF UpstreamFine, SaidFine
<1>6. \/ q = <<>>
      \/ q = Append(<<>>, StreamError) /\ broken
      \/ q = Append(<<>>, StreamEnd("end_turn")) /\ ~broken /\ format \in GeminiFormats
  <2>1. \A x : Append(<<>>, x) = <<x>>
    OBVIOUS
  <2>2. CASE broken
    BY <1>3, <2>1, <2>2 DEF BodyEnded
  <2>3. CASE ~broken /\ format \in {"gemini", "antigravity"} /\ parser.started
    BY <1>3, <2>1, <2>3 DEF BodyEnded, GeminiFormats
  <2>4. CASE ~broken /\ ~(format \in {"gemini", "antigravity"} /\ parser.started)
    BY <1>3, <2>4 DEF BodyEnded
  <2> QED BY <2>2, <2>3, <2>4
<1>7. /\ <<>> \in Seq(Flowing(said.calls))
      /\ StreamError \in Ending /\ StreamError.type = "stream_error"
      /\ StreamEnd("end_turn") \in Ending /\ StreamEnd("end_turn").type = "stream_end"
  <2>1. <<>> \in Seq(Flowing(said.calls))
    <3> HIDE DEF Flowing
    <3> QED OBVIOUS
  <2>2. "end_turn" \in StopReasons
    BY DEF StopReasons
  <2> QED BY <2>1, <2>2, ErrorIs, EndsAre DEF StreamError, StreamEnd, Event
<1>8. /\ n.state \in Normalizers /\ Tidy(n.events, said.calls)
      /\ \A k \in DOMAIN n.events : n.events[k].type \in EndTypes => Last(q) = n.events[k] /\ ~Quiet(q)
  <2>1. \/ q \in Seq(Flowing(said.calls))
        \/ \E x \in Seq(Flowing(said.calls)), e \in Ending : q = Append(x, e)
    <3>1. PICK a, b : a = StreamError /\ b = StreamEnd("end_turn")
      OBVIOUS
    <3>2. q = <<>> \/ q = Append(<<>>, a) \/ q = Append(<<>>, b)
      BY <1>6, <3>1
    <3>3. a \in Ending /\ b \in Ending
      BY <1>7, <3>1
    <3> HIDE DEF Flowing, Ending
    <3> QED BY <1>7, <3>2, <3>3
  <2> QED BY <1>3, <1>5, <2>1, PassKeepsEnds
<1>9. \A k \in DOMAIN n.events :
        /\ n.events[k].type = "stream_end" => ~broken /\ format \in GeminiFormats
        /\ n.events[k].type = "stream_error" => broken
  <2> SUFFICES ASSUME NEW k \in DOMAIN n.events, n.events[k].type \in EndTypes
               PROVE  \/ n.events[k].type = "stream_end" /\ ~broken /\ format \in GeminiFormats
                      \/ n.events[k].type = "stream_error" /\ broken
    BY DEF EndTypes
  <2>1. Last(q) = n.events[k] /\ q # <<>>
    BY <1>8, NothingTidy
  <2>2. \A x : Last(Append(<<>>, x)) = x
    BY DEF Last
  <2> QED BY <1>6, <1>7, <2>1, <2>2
<1>10. UpstreamFine'
  <2>1. SaidFine(format, said)' /\ ParserFine(format, parser, said)' /\ (normalizer \in Normalizers)'
    BY <1>2, <1>4, <1>5, <1>8
  <2> QED BY <1>2, <1>5, <2>1 DEF UpstreamFine
<1>11. ReadyFine'
  <2>1. Tidy(ready', said'.calls)
    BY <1>2, <1>4, <1>8
  <2>2. \A k \in DOMAIN ready' :
          /\ ready'[k].type = "stream_end" => EndOK(format, said, ready[k].reason)' /\ body' # "broken"
          /\ ready'[k].type = "stream_error" => body' = "broken" \/ said'.reason = None
    BY <1>2, <1>4, <1>9 DEF EndOK
  <2> QED BY <1>2, <2>1, <2>2 DEF ReadyFine
<1>12. RequestFine' /\ StoreFine'
  BY <1>1, <1>2 DEF RequestFine, StoreFine
<1>13. HandlerFine'
  <2>1. <<>> \in Seq(WiresOf(dialect', said'.calls))
    BY NoneRead
  <2>2. outbox' = <<>> /\ handler' = handler /\ serializer' \in SerializerStates(dialect')
    BY <1>1, <1>2 DEF HandlerFine
  <2> QED BY <1>2, <2>1, <2>2 DEF HandlerFine, Silent
<1>14. ClientFine'
  BY <1>1, <1>2 DEF ClientFine
<1> QED BY <1>10, <1>11, <1>12, <1>13, <1>14 DEF StreamSafe

\* The normalizer lets go of what it holds.  A parser that closed the body has left an end.
LEMMA DrainKeeps ==
  ASSUME StreamSafe, Drain
  PROVE  StreamSafe'
<1>1. RequestFine /\ UpstreamFine /\ ReadyFine /\ HandlerFine /\ ClientFine /\ StoreFine
  BY DEF StreamSafe
<1>2. /\ handler = "serving" /\ ready = <<>> /\ outbox = <<>> /\ body # "open"
      /\ UNCHANGED <<format, dialect, suppress, said, body, parser, serializer, accumulator, handler, outbox, reader,
                     client, cache>>
      /\ ready' = FlushedAll(normalizer) /\ normalizer' = [normalizer EXCEPT !.buffers = <<>>] /\ drained' = TRUE
  BY DEF Drain, Waiting, requestVars, handlerVars, clientVars
<1>3. SaidFine(format, said) /\ ParserFine(format, parser, said) /\ normalizer \in Normalizers
      /\ body \in {"open", "eof", "broken", "closed"}
  BY <1>1 DEF UpstreamFine
<1>4. body # "closed"
  BY <1>1, <1>2 DEF ReadyFine
<1>5. Tidy(ready', said.calls) /\ Quiet(ready')
  <2>1. PICK q : q = FlushedAll(normalizer)
    OBVIOUS
  <2>2. q \in Seq(Deltas(said.calls))
    BY <1>3, <2>1, FlushOut
  <2>3. Deltas(said.calls) \subseteq Flowing(said.calls)
    BY DEF Flowing
  <2>4. q \in Seq(Flowing(said.calls))
    BY <2>2, <2>3, SeqOfMore
  <2> QED BY <1>2, <2>1, <2>4, FlowIs
<1>6. ReadyFine'
  BY <1>2, <1>4, <1>5 DEF ReadyFine, Quiet, EndTypes
<1>7. UpstreamFine'
  <2>1. normalizer' \in Normalizers
    <3>1. <<>> \in Buffers
      BY EmptyMap DEF Buffers
    <3> HIDE DEF Buffers
    <3> QED BY <1>2, <1>3, <3>1 DEF Normalizers
  <2>2. SaidFine(format, said)' /\ ParserFine(format, parser, said)'
    BY <1>2, <1>3
  <2> QED BY <1>2, <1>3, <2>1, <2>2 DEF UpstreamFine
<1>8. RequestFine' /\ StoreFine' /\ HandlerFine' /\ ClientFine'
  BY <1>1, <1>2 DEF RequestFine, StoreFine, HandlerFine, ClientFine
<1> QED BY <1>6, <1>7, <1>8 DEF StreamSafe

\* The first of some events in good order, and the others.
LEMMA Takes ==
  ASSUME NEW calls, NEW q, Tidy(q, calls), q # <<>>
  PROVE  /\ Head(q) \in Events(calls) /\ Head(q) = q[1] /\ 1 \in DOMAIN q
         /\ Tidy(Tail(q), calls)
         /\ \A k \in DOMAIN Tail(q) : k + 1 \in DOMAIN q /\ Tail(q)[k] = q[k + 1]
         /\ Len(q) # 0 /\ Head(q).type \notin EndTypes /\ Last(q).type \in EndTypes
              => Len(Tail(q)) # 0 /\ Last(Tail(q)) = Last(q)
<1> DEFINE E == Events(calls)
<1>1. q \in Seq(E) /\ Len(q) \in Nat /\ \A k \in 1..(Len(q) - 1) : q[k].type \notin EndTypes
  BY DEF Tidy
<1> HIDE DEF E
<1>2. PICK t : t = Tail(q)
  OBVIOUS
<1>3. t \in Seq(E) /\ Len(t) = Len(q) - 1 /\ Len(q) \in Nat \ {0} /\ \A k \in 1..Len(t) : t[k] = q[k + 1]
  BY <1>1, <1>2
<1>4. Head(q) \in E /\ Head(q) = q[1] /\ 1 \in DOMAIN q
  BY <1>1, <1>3
<1>5. Tidy(t, calls)
  <2>1. \A k \in 1..(Len(t) - 1) : t[k].type \notin EndTypes
    BY <1>1, <1>3
  <2> QED BY <1>3, <2>1 DEF Tidy, E
<1>6. \A k \in DOMAIN t : k + 1 \in DOMAIN q /\ t[k] = q[k + 1]
  BY <1>1, <1>3
<1>7. ASSUME Head(q).type \notin EndTypes, Last(q).type \in EndTypes
      PROVE  Len(t) # 0 /\ Last(t) = Last(q)
  <2>1. Len(q) # 1
    BY <1>4, <1>7 DEF Last
  <2>2. Len(t) # 0 /\ t[Len(t)] = q[Len(q)]
    BY <1>3, <2>1
  <2> QED BY <2>2 DEF Last
<1> QED BY <1>2, <1>4, <1>5, <1>6, <1>7 DEF E

LEMMA FinalizeWires ==
  ASSUME NEW calls, NEW d, d = "messages", NEW s \in SerializerStates(d)
  PROVE  /\ Finalize(s).state \in SerializerStates(d) /\ Finalize(s).wire \in Seq(WiresOf(d, calls))
         /\ Tells(Finalize(s).wire, "end_turn")
<1>1. SerializerStates(d) = MessagesStates /\ WiresOf(d, calls) = MessagesWires(calls)
  BY DEF SerializerStates, WiresOf
<1> QED BY <1>1, FinalizeIs

\* The handler takes an event.  What it writes concludes only with an end, for the reason it gives,
\* or after an error, which the upstream did not conclude or which broke its body.
LEMMA HandleKeeps ==
  ASSUME StreamSafe, Handle
  PROVE  StreamSafe'
<1>1. RequestFine /\ UpstreamFine /\ ReadyFine /\ HandlerFine /\ ClientFine /\ StoreFine
  BY DEF StreamSafe
<1>2. PICK e, s : e = Head(ready) /\ s = Serialize(dialect, serializer, e)
  OBVIOUS
<1>3. PICK f : f = IF dialect = "messages" /\ e.type = "stream_error" THEN Finalize(s.state)
                   ELSE [state |-> s.state, wire |-> <<>>]
  OBVIOUS
<1>4. /\ handler = "serving" /\ outbox = <<>> /\ ready # <<>>
      /\ UNCHANGED <<format, dialect, suppress, said, body, parser, normalizer, drained, reader, client, cache>>
      /\ accumulator' = Observe(accumulator, e) /\ serializer' = f.state /\ outbox' = s.wire \o f.wire
      /\ handler' = IF e.type \in {"stream_end", "stream_error"} THEN "ending" ELSE "serving"
      /\ ready' = Tail(ready)
  BY <1>2, <1>3 DEF Handle, requestVars, upstreamVars, clientVars
<1>5. /\ SaidFine(format, said) /\ CallsFine(said.calls) /\ dialect \in Dialects /\ Tidy(ready, said.calls)
      /\ serializer \in SerializerStates(dialect)
  BY <1>1 DEF UpstreamFine, SaidFine, RequestFine, ReadyFine, HandlerFine
<1>6. PICK t : t = Tail(ready)
  OBVIOUS
<1>7. /\ e \in Events(said.calls) /\ e = ready[1] /\ 1 \in DOMAIN ready
      /\ Tidy(t, said.calls)
      /\ \A k \in DOMAIN t : k + 1 \in DOMAIN ready /\ t[k] = ready[k + 1]
      /\ Len(ready) # 0 /\ e.type \notin EndTypes /\ Last(ready).type \in EndTypes => Len(t) # 0 /\ Last(t) = Last(ready)
  BY <1>2, <1>4, <1>5, <1>6, Takes
<1>8. /\ e.type = "stream_end" => EndOK(format, said, e.reason) /\ body # "broken"
      /\ e.type = "stream_error" => body = "broken" \/ said.reason = None
  BY <1>1, <1>7 DEF ReadyFine
<1>9. ReadyFine'
  <2>1. \A k \in DOMAIN t :
          /\ t[k].type = "stream_end" => EndOK(format, said, t[k].reason) /\ body # "broken"
          /\ t[k].type = "stream_error" => body = "broken" \/ said.reason = None
    BY <1>1, <1>7 DEF ReadyFine
  <2>2. body = "closed" /\ handler' = "serving" => Len(t) # 0 /\ Last(t).type = "stream_end"
    BY <1>1, <1>4, <1>7 DEF ReadyFine, EndTypes
  <2>3. ready' = t /\ UNCHANGED <<format, said, body>>
    BY <1>4, <1>6
  <2>4. \A k \in DOMAIN ready' :
          /\ ready'[k].type = "stream_end" => EndOK(format, said, ready[k].reason)' /\ body' # "broken"
          /\ ready'[k].type = "stream_error" => body' = "broken" \/ said'.reason = None
    BY <2>1, <2>3 DEF EndOK
  <2> QED BY <1>7, <2>2, <2>3, <2>4 DEF ReadyFine
<1>10. PICK W : W = WiresOf(dialect, said.calls)
  OBVIOUS
<1>11. /\ s.state \in SerializerStates(dialect) /\ s.wire \in Seq(W)
       /\ e.type # "stream_end" => Silent(s.wire)
       /\ Tells(s.wire, Told(dialect, e.reason))
  BY <1>2, <1>5, <1>7, <1>10, SerializeIs
<1>12. /\ f.state \in SerializerStates(dialect) /\ f.wire \in Seq(W)
       /\ Tells(f.wire, "end_turn")
       /\ ~(dialect = "messages" /\ e.type = "stream_error") => f.wire = <<>>
  <2>1. CASE dialect = "messages" /\ e.type = "stream_error"
    <3>1. f = Finalize(s.state)
      BY <1>3, <2>1
    <3> QED BY <1>10, <1>11, <2>1, <3>1, FinalizeWires
  <2>2. CASE ~(dialect = "messages" /\ e.type = "stream_error")
    <3>1. f = [state |-> s.state, wire |-> <<>>]
      BY <1>3, <2>2
    <3>2. f.state = s.state /\ f.wire = <<>>
      BY <3>1
    <3> QED BY <1>11, <2>2, <3>2 DEF Tells
  <2> QED BY <2>1, <2>2
<1>13. PICK w : w = s.wire \o f.wire
  OBVIOUS
<1>14. w \in Seq(W) /\ (handler' = "serving" => Silent(w))
  <2>1. CASE e.type = "stream_end"
    <3>1. s.wire \o f.wire \in Seq(W)
      <4> HIDE DEF Serialize
      <4> QED BY <1>11, <1>12
    <3> QED BY <1>4, <1>13, <2>1, <3>1
  <2>2. CASE e.type # "stream_end"
    <3>1. Silent(<<>>)
      BY NoneRead
    <3>2. handler' = "serving" => f.wire = <<>>
      BY <1>4, <1>12
    <3> QED BY <1>11, <1>12, <1>13, <2>2, <3>1, <3>2, SilentTogether
  <2> QED BY <2>1, <2>2
<1>15. \A k \in DOMAIN w : w[k].type \in Concluding => Verdict(dialect, format, said, body, w[k].reason)
  <2>1. CASE e.type = "stream_end"
    <3>1. f.wire = <<>> /\ w = s.wire
      <4>1. f.wire = <<>>
        BY <1>12, <2>1
      <4>2. s.wire \o <<>> = s.wire
        BY <1>11
      <4> QED BY <1>13, <4>1, <4>2
    <3>2. PICK told : told = Told(dialect, e.reason)
      OBVIOUS
    <3>3. Tells(w, told)
      BY <1>11, <3>1, <3>2
    <3>4. Verdict(dialect, format, said, body, told)
      <4>1. dialect # "messages" => said.reason # None \/ format \in GeminiFormats
        BY <1>8, <2>1 DEF EndOK
      <4>2. ASSUME dialect # "responses", said.reason \notin {None, "length"}, said.calls # <<>>, format \notin GeminiFormats
            PROVE  told \in {"tool_use", "tool_calls"}
        <5>1. e.reason = "tool_use"
          BY <1>8, <2>1, <4>2 DEF EndOK
        <5>2. dialect \in {"chat", "messages"}
          BY <1>5, <4>2 DEF Dialects
        <5> QED BY <3>2, <5>1, <5>2, ToolsAreTold
      <4> QED BY <4>1, <4>2 DEF Verdict
    <3> QED BY <3>3, <3>4 DEF Tells
  <2>2. CASE e.type = "stream_error"
    <3>1. Tells(w, "end_turn")
      BY <1>11, <1>12, <1>13, <2>2, SilentTogether
    <3>2. CASE dialect = "messages"
      <4>1. Verdict(dialect, format, said, body, "end_turn")
        BY <1>8, <2>2, <3>2 DEF Verdict
      <4> QED BY <3>1, <4>1 DEF Tells
    <3>3. CASE dialect # "messages"
      <4>1. f.wire = <<>> /\ Silent(<<>>)
        BY <1>12, <3>3, NoneRead
      <4>2. Silent(w)
        BY <1>11, <1>12, <1>13, <2>2, <4>1, SilentTogether
      <4> QED BY <4>2 DEF Silent
    <3> QED BY <3>2, <3>3
  <2>3. CASE e.type \notin {"stream_end", "stream_error"}
    <3>1. Silent(w)
      BY <1>4, <1>14, <2>3
    <3> QED BY <3>1 DEF Silent
  <2> QED BY <2>1, <2>2, <2>3
<1>16. HandlerFine'
  <2>1. handler' \in {"serving", "ending", "done"} /\ (serializer \in SerializerStates(dialect))'
    BY <1>4, <1>12
  <2>2. outbox' = w /\ UNCHANGED <<format, dialect, said, body>>
    BY <1>4, <1>13
  <2>3. (outbox \in Seq(WiresOf(dialect, said.calls)))'
    BY <1>10, <1>14, <2>2
  <2> QED BY <1>14, <1>15, <2>1, <2>2, <2>3 DEF HandlerFine
<1>17. ClientFine'
  BY <1>1, <1>4 DEF ClientFine
<1>18. StoreFine'
  <2>1. IsAcc(accumulator) /\ ~accumulator.ended /\ cache = None
    BY <1>1, <1>4 DEF StoreFine
  <2>2. IsAcc(Observe(accumulator, e)) /\ (Observe(accumulator, e).ended => accumulator.ended \/ e.type = "stream_end")
    BY <1>7, <2>1, ObserveIs
  <2>3. e.type = "stream_end" => handler' # "serving" /\ Finished(format, said, body)
    BY <1>4, <1>8 DEF EndOK, Finished
  <2>4. UNCHANGED <<format, said, body, cache>> /\ accumulator' = Observe(accumulator, e)
    BY <1>4
  <2> QED BY <2>1, <2>2, <2>3, <2>4 DEF StoreFine
<1>19. RequestFine' /\ UpstreamFine'
  BY <1>1, <1>4 DEF RequestFine, UpstreamFine
<1> QED BY <1>9, <1>16, <1>17, <1>18, <1>19 DEF StreamSafe

\* The handler ends without an end: the body is at its end, or broken.
LEMMA HandleClosedKeeps ==
  ASSUME StreamSafe, HandleClosed
  PROVE  StreamSafe'
<1>1. RequestFine /\ UpstreamFine /\ ReadyFine /\ HandlerFine /\ ClientFine /\ StoreFine
  BY DEF StreamSafe
<1>2. PICK f : f = IF dialect = "messages" THEN Finalize(serializer) ELSE [state |-> serializer, wire |-> <<>>]
  OBVIOUS
<1>3. /\ handler = "serving" /\ ready = <<>> /\ outbox = <<>> /\ drained
      /\ UNCHANGED <<format, dialect, suppress, said, body, parser, normalizer, drained, ready, accumulator, reader,
                     client, cache>>
      /\ serializer' = f.state /\ outbox' = f.wire /\ handler' = "ending"
  BY <1>2 DEF HandleClosed, Waiting, requestVars, upstreamVars, clientVars
<1>4. body \in {"eof", "broken"}
  <2>1. body # "open" /\ body \in {"open", "eof", "broken", "closed"}
    BY <1>1, <1>3 DEF UpstreamFine
  <2>2. body # "closed"
    BY <1>1, <1>3 DEF ReadyFine
  <2> QED BY <2>1, <2>2
<1>5. serializer \in SerializerStates(dialect) /\ dialect \in Dialects
  BY <1>1 DEF HandlerFine, RequestFine
<1>6. PICK W : W = WiresOf(dialect, said.calls)
  OBVIOUS
<1>7. /\ f.state \in SerializerStates(dialect) /\ f.wire \in Seq(W)
      /\ \A k \in DOMAIN f.wire :
           f.wire[k].type \in Concluding => Verdict(dialect, format, said, body, f.wire[k].reason)
  <2>1. CASE dialect = "messages"
    <3>1. f = Finalize(serializer)
      BY <1>2, <2>1
    <3>2. f.state \in SerializerStates(dialect) /\ f.wire \in Seq(W) /\ Tells(f.wire, "end_turn")
      BY <1>5, <1>6, <2>1, <3>1, FinalizeWires
    <3>3. Verdict(dialect, format, said, body, "end_turn")
      BY <1>4, <2>1 DEF Verdict
    <3> QED BY <3>2, <3>3 DEF Tells
  <2>2. CASE dialect # "messages"
    <3>1. f = [state |-> serializer, wire |-> <<>>]
      BY <1>2, <2>2
    <3>2. f.state = serializer /\ f.wire = <<>>
      BY <3>1
    <3> QED BY <1>5, <3>2
  <2> QED BY <2>1, <2>2
<1>8. HandlerFine'
  <2>1. handler' = "ending" /\ (serializer \in SerializerStates(dialect))'
    BY <1>3, <1>7
  <2>2. (outbox \in Seq(WiresOf(dialect, said.calls)))'
    BY <1>3, <1>6, <1>7
  <2>3. outbox' = f.wire /\ UNCHANGED <<format, dialect, said, body>>
    BY <1>3
  <2> QED BY <1>7, <2>1, <2>2, <2>3 DEF HandlerFine
<1>9. ReadyFine'
  BY <1>1, <1>3 DEF ReadyFine
<1>10. RequestFine' /\ UpstreamFine' /\ ClientFine' /\ StoreFine'
  BY <1>1, <1>3 DEF RequestFine, UpstreamFine, ClientFine, StoreFine
<1> QED BY <1>8, <1>9, <1>10 DEF StreamSafe

\* The client reads what concludes, and nothing but that tells it the end.
LEMMA DeliverKeeps ==
  ASSUME StreamSafe, Deliver
  PROVE  StreamSafe'
<1>1. RequestFine /\ UpstreamFine /\ ReadyFine /\ HandlerFine /\ ClientFine /\ StoreFine
  BY DEF StreamSafe
<1>2. /\ outbox # <<>>
      /\ UNCHANGED <<format, dialect, suppress, said, body, parser, normalizer, drained, ready, serializer, accumulator,
                     handler, cache>>
  BY DEF Deliver, requestVars, upstreamVars, handlerVars
<1>3. RequestFine' /\ UpstreamFine' /\ ReadyFine' /\ StoreFine'
  BY <1>1, <1>2 DEF RequestFine, UpstreamFine, ReadyFine, StoreFine
<1>4. /\ dialect \in Dialects /\ CallsFine(said.calls)
      /\ handler \in {"serving", "ending", "done"} /\ serializer \in SerializerStates(dialect)
      /\ outbox \in Seq(WiresOf(dialect, said.calls))
  BY <1>1 DEF RequestFine, UpstreamFine, SaidFine, HandlerFine
<1>5. CASE gone
  <2>1. outbox' = <<>> /\ client' = client
    BY <1>5 DEF Deliver, clientVars
  <2>2. <<>> \in Seq(WiresOf(dialect', said'.calls))
    BY NoneRead
  <2>3. HandlerFine'
    BY <1>2, <1>4, <2>1, <2>2 DEF HandlerFine, Silent
  <2>4. ClientFine'
    BY <1>1, <1>2, <2>1 DEF ClientFine
  <2> QED BY <1>3, <2>3, <2>4 DEF StreamSafe
<1>6. CASE ~gone
  <2>1. PICK W, w, t, m : /\ W = WiresOf(dialect, said.calls) /\ w = Head(outbox) /\ t = Tail(outbox)
                          /\ m = Read(dialect, reader, client, w)
    OBVIOUS
  <2>2. outbox' = t /\ client' = m
    BY <1>6, <2>1 DEF Deliver
  <2>3. /\ w \in W /\ w = outbox[1] /\ 1 \in DOMAIN outbox /\ t \in Seq(W)
        /\ \A k \in DOMAIN t : k + 1 \in DOMAIN outbox /\ t[k] = outbox[k + 1]
    <3>1. outbox \in Seq(W) /\ outbox # <<>>
      BY <1>2, <1>4, <2>1
    <3> QED BY <2>1, <3>1
  <2>4. /\ handler = "serving" => Silent(outbox)
        /\ \A k \in DOMAIN outbox :
             outbox[k].type \in Concluding => Verdict(dialect, format, said, body, outbox[k].reason)
    BY <1>1 DEF HandlerFine
  <2>5. HandlerFine'
    <3>1. handler = "serving" => Silent(t)
      BY <2>3, <2>4 DEF Silent
    <3>2. \A k \in DOMAIN t : t[k].type \in Concluding => Verdict(dialect, format, said, body, t[k].reason)
      BY <2>3, <2>4
    <3>3. (outbox \in Seq(WiresOf(dialect, said.calls)))' /\ (serializer \in SerializerStates(dialect))'
      BY <1>2, <1>4, <2>1, <2>2, <2>3
    <3> QED BY <1>2, <1>4, <2>2, <3>1, <3>2, <3>3 DEF HandlerFine
  <2>6. ClientFine'
    <3>1. PICK R, K : R = Reasons(dialect) /\ K = KindsFor(dialect, said.calls)
      OBVIOUS
    <3>2. client \in ClientsOf(dialect, said.calls)
      BY <1>1 DEF ClientFine
    <3>3. ReadsOn(R, K, client, m, w)
      BY <1>4, <2>1, <2>3, <3>1, <3>2, ReadIs
    <3>4. /\ m \in ClientsOf(dialect, said.calls)
          /\ Settled(m) => \/ Settled(client) /\ m.reason = client.reason
                           \/ w.type \in Concluding /\ m.reason = w.reason
      BY <3>1, <3>3 DEF ReadsOn, ClientsOf
    <3>5. handler = "serving" => ~Settled(m)
      BY <1>1, <2>3, <2>4, <3>4 DEF ClientFine, Silent
    <3>6. Settled(m) => Verdict(dialect, format, said, body, m.reason)
      BY <1>1, <2>3, <2>4, <3>4 DEF ClientFine
    <3>7. (client \in ClientsOf(dialect, said.calls))'
      BY <1>2, <2>2, <3>4
    <3> QED BY <1>2, <2>2, <3>5, <3>6, <3>7 DEF ClientFine
  <2> QED BY <1>3, <2>5, <2>6 DEF StreamSafe
<1> QED BY <1>5, <1>6

\* What is stored has ended.
LEMMA CompleteKeeps ==
  ASSUME StreamSafe, Complete
  PROVE  StreamSafe'
<1>1. RequestFine /\ UpstreamFine /\ ReadyFine /\ HandlerFine /\ ClientFine /\ StoreFine
  BY DEF StreamSafe
<1>2. /\ handler = "ending" /\ handler' = "done"
      /\ UNCHANGED <<format, dialect, suppress, said, body, parser, normalizer, drained, ready, serializer, accumulator,
                     outbox, reader, client>>
      /\ cache' = Assembled(accumulator) \/ cache' = cache
  BY DEF Complete, requestVars, upstreamVars, clientVars
<1>3. StoreFine'
  <2>1. Assembled(accumulator) # None => Finished(format, said, body)
    BY <1>1, AssembledIs DEF StoreFine
  <2> QED BY <1>1, <1>2, <2>1 DEF StoreFine
<1>4. RequestFine' /\ UpstreamFine' /\ ReadyFine' /\ HandlerFine' /\ ClientFine'
  BY <1>1, <1>2 DEF RequestFine, UpstreamFine, ReadyFine, HandlerFine, ClientFine
<1> QED BY <1>3, <1>4 DEF StreamSafe

\* The client leaves, and the handler notices.
LEMMA DisconnectKeeps ==
  ASSUME StreamSafe, Disconnect
  PROVE  StreamSafe'
<1>1. RequestFine /\ UpstreamFine /\ ReadyFine /\ HandlerFine /\ ClientFine /\ StoreFine
  BY DEF StreamSafe
<1>2. /\ client' = [EmptyMessage EXCEPT !.phase = "left"]
      /\ UNCHANGED <<format, dialect, suppress, said, body, parser, normalizer, drained, ready, serializer, accumulator,
                     handler, outbox, cache>>
  BY DEF Disconnect, requestVars, upstreamVars, handlerVars
<1>3. PICK m : m = [EmptyMessage EXCEPT !.phase = "left"]
  OBVIOUS
<1>4. m \in ClientsOf(dialect, said.calls) /\ ~Settled(m)
  BY <1>3, EmptyClients DEF ClientsOf
<1>5. ClientFine'
  BY <1>2, <1>3, <1>4 DEF ClientFine
<1>6. RequestFine' /\ UpstreamFine' /\ ReadyFine' /\ HandlerFine' /\ StoreFine'
  BY <1>1, <1>2 DEF RequestFine, UpstreamFine, ReadyFine, HandlerFine, StoreFine
<1> QED BY <1>5, <1>6 DEF StreamSafe

LEMMA LeaveKeeps ==
  ASSUME StreamSafe, Leave
  PROVE  StreamSafe'
<1>1. RequestFine /\ UpstreamFine /\ ReadyFine /\ HandlerFine /\ ClientFine /\ StoreFine
  BY DEF StreamSafe
<1>2. /\ handler = "serving" /\ handler' = "done"
      /\ UNCHANGED <<format, dialect, suppress, said, body, parser, normalizer, drained, ready, serializer, accumulator,
                     outbox, reader, client, cache>>
  BY DEF Leave, requestVars, upstreamVars, clientVars
<1>3. RequestFine' /\ UpstreamFine' /\ ReadyFine' /\ HandlerFine' /\ ClientFine' /\ StoreFine'
  BY <1>1, <1>2 DEF RequestFine, UpstreamFine, ReadyFine, HandlerFine, ClientFine, StoreFine
<1> QED BY <1>3 DEF StreamSafe

\* Nothing else touches the stream.
LEMMA RestKeeps ==
  ASSUME StreamSafe, Replay \/ UNCHANGED vars
  PROVE  StreamSafe'
<1>1. RequestFine /\ UpstreamFine /\ ReadyFine /\ HandlerFine /\ ClientFine /\ StoreFine
  BY DEF StreamSafe
<1>2. UNCHANGED <<format, dialect, suppress, said, body, parser, normalizer, drained, ready, serializer, accumulator,
                  handler, outbox, reader, client, cache>>
  BY DEF Replay, vars, requestVars, upstreamVars, handlerVars, clientVars
<1>3. RequestFine' /\ UpstreamFine' /\ ReadyFine' /\ HandlerFine' /\ ClientFine' /\ StoreFine'
  BY <1>1, <1>2 DEF RequestFine, UpstreamFine, ReadyFine, HandlerFine, ClientFine, StoreFine
<1> QED BY <1>3 DEF StreamSafe

\* Every step keeps the invariant.
LEMMA StreamSteps ==
  ASSUME StreamSafe, [StreamsNext]_vars
  PROVE  StreamSafe'
<1>1. CASE \E broken \in BOOLEAN : EndBody(broken)
  BY <1>1, EndBodyKeeps
<1>2. CASE Done
  BY <1>2, RestKeeps DEF Done
<1>3. CASE UNCHANGED vars
  BY <1>3, RestKeeps
<1> QED BY <1>1, <1>2, <1>3, HearKeeps, DrainKeeps, HandleKeeps, HandleClosedKeeps, DeliverKeeps, CompleteKeeps,
           DisconnectKeeps, LeaveKeeps, RestKeeps DEF StreamsNext

LEMMA StreamsAreSafe == StreamsSpec => []StreamSafe
  BY StreamStarts, StreamSteps, PTL DEF StreamsSpec

(***************************************************************************)
(* The pipeline's state keeps its shape with every upstream format and     *)
(* client dialect, for answers of any number of chunks and calls: the      *)
(* events the handler is to take, the phase of the client's message and    *)
(* the reasons it may be told, each a reason its dialect has.              *)
(***************************************************************************)
THEOREM StreamsKeepTheirTypes == StreamsSpec => []StreamTypeOK
<1>1. StreamSafe => StreamTypeOK
  <2> SUFFICES ASSUME StreamSafe PROVE StreamTypeOK
    OBVIOUS
  <2>1. /\ format \in Formats /\ dialect \in Dialects /\ suppress \in BOOLEAN
        /\ body \in {"open", "eof", "broken", "closed"} /\ drained \in BOOLEAN
        /\ handler \in {"serving", "ending", "done"}
    BY DEF StreamSafe, RequestFine, UpstreamFine, HandlerFine
  <2>2. said.chunks \in 0..MaxChunks /\ Len(said.calls) \in 0..MaxCalls
    <3>1. said \in Saids /\ said.calls \in Seq(CallParts) /\ Len(said.calls) <= MaxCalls
      BY DEF StreamSafe, UpstreamFine, SaidFine, CallsFine
    <3> HIDE DEF CallParts
    <3> QED BY <3>1, StreamBounds DEF Saids
  <2>3. \A i \in DOMAIN ready :
          ready[i].type \in {"stream_start", "content_delta", "content_block_stop", "stream_end", "stream_error"}
    <3>1. ready \in Seq(Events(said.calls))
      BY DEF StreamSafe, ReadyFine, Tidy
    <3>2. \A i \in DOMAIN ready : ready[i] \in Events(said.calls)
      <4> HIDE DEF Events
      <4> QED BY <3>1
    <3> QED BY <3>2, EventKinds
  <2>4. client.phase \in ClientPhases /\ client.reason \in {None} \cup Reasons(dialect)
    <3>1. client \in ClientsOf(dialect, said.calls)
      BY DEF StreamSafe, ClientFine
    <3> QED BY <3>1 DEF ClientsOf, Clients
  <2>5. Reasons(dialect) = CASE dialect = "chat" -> {"stop", "length", "tool_calls", "content_filter"}
                             [] dialect = "messages" -> StopReasons
                             [] OTHER -> {"completed"}
    BY DEF Reasons, ChatReasons
  <2> QED BY <2>1, <2>2, <2>3, <2>4, <2>5 DEF StreamTypeOK, ClientPhases
<1> QED BY <1>1, StreamsAreSafe, PTL

(***************************************************************************)
(* A client that was sent a call and told that its message ended is told   *)
(* to run its tools, whatever the upstream gave as the reason of its stop  *)
(* and however many chunks and calls there were.  The parser's upgrade of  *)
(* the reason, the events that overtake it in the normalizer, and the two  *)
(* ways a handler ends a message are what could break it.                  *)
(***************************************************************************)
THEOREM ClientsRunTheirTools == StreamsSpec => []ToldToRunTools
<1>1. StreamSafe => ToldToRunTools
  <2> SUFFICES ASSUME StreamSafe, client.phase = "done", CallsOf(client.blocks) # <<>>,
                      said.reason \notin {None, "length"}, body \notin {"eof", "broken"}, format \notin GeminiFormats,
                      dialect # "responses"
               PROVE  client.reason \in {"tool_use", "tool_calls"}
    BY DEF ToldToRunTools
  <2>1. client \in ClientsOf(dialect, said.calls) /\ Verdict(dialect, format, said, body, client.reason)
        /\ dialect \in {"chat", "messages"}
    BY DEF StreamSafe, ClientFine, RequestFine, Settled, Dialects
  <2>2. said.calls # <<>>
    BY <2>1, NoCallsRead
  <2> QED BY <2>1, <2>2 DEF Verdict
<1> QED BY <1>1, StreamsAreSafe, PTL

(***************************************************************************)
(* What the response cache stores comes from a stream that was not broken  *)
(* and whose upstream said that it had finished, even if its client left   *)
(* before the end: the first part of OnlyWholeAnswersAreCached.            *)
(***************************************************************************)
THEOREM OnlyFinishedAnswersAreStored == StreamsSpec => [](cache # None => UpstreamFinished)
<1>1. StreamSafe => (cache # None => UpstreamFinished)
  BY DEF StreamSafe, StoreFine, Finished, UpstreamFinished, UpstreamConcluded
<1> QED BY <1>1, StreamsAreSafe, PTL

(***************************************************************************)
(* A client of the chat or Responses dialect is told the end of its message *)
(* only when the upstream had concluded its answer, whatever error, loss or *)
(* cut came in between: the first part of AnswerArrives.                   *)
(***************************************************************************)
THEOREM EndsAreTheUpstreams ==
  StreamsSpec => [](client.phase \in {"concluded", "done"} /\ dialect # "messages" => UpstreamConcluded)
<1>1. StreamSafe => (client.phase \in {"concluded", "done"} /\ dialect # "messages" => UpstreamConcluded)
  BY DEF StreamSafe, ClientFine, Settled, Verdict, UpstreamConcluded
<1> QED BY <1>1, StreamsAreSafe, PTL
=============================================================================
