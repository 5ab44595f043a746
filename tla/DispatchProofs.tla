---------------------------- MODULE DispatchProofs ----------------------------
(***************************************************************************)
(* Proofs about failover dispatch and the affinity cache, for any number   *)
(* of requests, models, providers and upstreams and any capacity of the    *)
(* cache: no alternative of a failed request is forgotten, a client that   *)
(* leaves costs at most one call, and a conversation returns to its        *)
(* server.                                                                 *)
(***************************************************************************)
EXTENDS Dispatch, FiniteSetTheorems, SequenceTheorems, WellFoundedInduction, TLAPS
-----------------------------------------------------------------------------
\* --- what is known of one request
Elements(s) == {s[n] : n \in DOMAIN s}

\* A name that means itself: it is not virtual, not qualified and not an alias.
Plain(m) == ~IsVirtual(m) /\ Qualified[m] = None /\ Canonical[m] = m

UnderWay(r) == pc[r] \in {"prefer", "attempt", "candidate", "calling"}
Prepared(r) == pc[r] \in {"candidate", "calling"}

\* Everybody who may serve attempt a was asked for its model.
Served(r, a) == \A i \in steady[r] : Eligible(i, a) => <<i, ModelOf(a)>> \in tried[r]

\* The request is somewhere in its life.
Lives(r) ==
  /\ pc[r] # "done" => result[r] = "none"
  /\ pc[r] # "idle" => asked[r] \in Keys
  /\ pc[r] = "idle" => expected[r] = None /\ tried[r] = {}
  /\ Prepared(r) => attempts[r] # <<>> /\ candidates[r] # <<>>
  /\ pc[r] = "calling" => <<Head(candidates[r]), ModelOf(Current(r))>> \in tried[r]

\* A call on a dead context is the last one.
DoomedIsLast(r) ==
  doomed[r] <= 1 /\ (doomed[r] > 0 => pc[r] \in {"calling", "done"})

\* An attempt is still to be made, or everybody who may serve it was asked; and who may
\* serve the current one was asked or is a candidate.
NothingForgotten(r) ==
  /\ UnderWay(r) => \A n \in DOMAIN plan[r] :
       plan[r][n].conditional \/ plan[r][n] \in Elements(attempts[r]) \/ Served(r, plan[r][n])
  /\ Prepared(r) => \A i \in steady[r] : Eligible(i, Current(r)) =>
       i \in Elements(candidates[r]) \/ <<i, ModelOf(Current(r))>> \in tried[r]
  /\ result[r] \in {"failed", "unresolved"} =>
       \A n \in DOMAIN plan[r] : plan[r][n].conditional \/ Served(r, plan[r][n])

\* Nobody is a candidate twice, and behind the first the priorities hold.
InOrder(cs) ==
  \A m, n \in DOMAIN cs : m < n => cs[m] # cs[n] /\ (m # 1 => Rank[cs[m]] < Rank[cs[n]])
CandidatesInOrder(r) == InOrder(candidates[r])

\* A plain name has one attempt, in which nobody is called twice; the instance that is to
\* be preferred comes first.
PlainIsServed(r) ==
  UnderWay(r) /\ Plain(asked[r]) =>
    /\ plan[r] = <<Attempt(asked[r], None, FALSE)>>
    /\ attempts[r] \in {<<>>, plan[r]}
    /\ pc[r] \in {"prefer", "attempt"} /\ attempts[r] # <<>> => tried[r] = {}
    /\ pc[r] = "prefer" => attempts[r] # <<>>
    /\ pc[r] = "candidate" => \A n \in DOMAIN candidates[r] : <<candidates[r][n], asked[r]>> \notin tried[r]
    /\ pc[r] = "calling" => \A n \in DOMAIN candidates[r] : n # 1 => <<candidates[r][n], asked[r]>> \notin tried[r]
    /\ pc[r] = "candidate" /\ tried[r] = {} /\ Preference(r) # None => Head(candidates[r]) = Preference(r)
    /\ FirstCall(r) /\ Preference(r) # None => Head(candidates[r]) = Preference(r)

RequestSafe(r) ==
  Lives(r) /\ DoomedIsLast(r) /\ NothingForgotten(r) /\ CandidatesInOrder(r) /\ PlainIsServed(r)

\* --- what is known of what they share
SteadyIsActive == \A r \in Requests : steady[r] \subseteq active
ServerIsPinned == \A k \in Keys : server[k] # None /\ Plain(k) => Pinned(k) = server[k]
ExpectedIsPinned ==
  \A r \in Requests : expected[r] # None /\ Plain(asked[r]) => Pinned(asked[r]) = expected[r]

DispatchSafe ==
  /\ TypeOK
  /\ \A r \in Requests : RequestSafe(r)
  /\ SteadyIsActive /\ ServerIsPinned /\ ExpectedIsPinned

-----------------------------------------------------------------------------
\* --- numbers and lists
\* Every set of numbers has a least element.
Less == {ss \in Nat \X Nat : ss[1] < ss[2]}
LEMMA LessIsWellFounded == IsWellFoundedOn(Less, Nat)
  <1>1. Less = OpToRel(<, Nat)
    BY DEF OpToRel, Less
  <1> QED
    BY <1>1, NatLessThanWellFounded
LEMMA LeastExists ==
  ASSUME NEW T, T \subseteq Nat, T # {}
  PROVE  \E n \in T : \A m \in T : n <= m
  <1>1. \E n \in T : \A m \in T : ~(<<m, n>> \in Less)
    <2> DEFINE R == Less
               S == Nat
    <2>1. IsWellFoundedOn(R, S) /\ T \subseteq S
      BY LessIsWellFounded
    <2> HIDE DEF R, S
    <2>2. \E x \in T : \A y \in T : ~(<<y, x>> \in R)
      BY <2>1, WFMin, Zenon
    <2> QED
      BY <2>2 DEF R
  <1>2. PICK n \in T : \A m \in T : ~(<<m, n>> \in Less)
    BY <1>1
  <1>3. ASSUME NEW m \in T, m < n PROVE <<m, n>> \in Less
    <2>1. m \in Nat /\ n \in Nat
      OBVIOUS
    <2>2. <<m, n>> \in Nat \X Nat
      BY <2>1
    <2>3. <<m, n>>[1] < <<m, n>>[2]
      BY <1>3
    <2> QED
      BY <2>2, <2>3, Zenon DEF Less
  <1>4. \A m \in T : ~(m < n)
    BY <1>2, <1>3
  <1>5. \A m \in T : n <= m
    <2>1. n \in Nat /\ \A m \in T : m \in Nat
      OBVIOUS
    <2> QED
      BY <1>4, <2>1
  <1> QED
    BY <1>5

LEMMA ToFrontMoves ==
  ASSUME NEW S, NEW s \in Seq(S), NEW n \in DOMAIN s
  PROVE  /\ ToFront(s, n) \in Seq(S) /\ Len(ToFront(s, n)) = Len(s)
         /\ ToFront(s, n)[1] = s[n]
         /\ \A k \in DOMAIN s : k # 1 => ToFront(s, n)[k] = IF k <= n THEN s[k - 1] ELSE s[k]
  <1>1. n \in Nat /\ Len(s) \in Nat /\ n >= 1 /\ n <= Len(s) /\ DOMAIN s = 1..Len(s)
    OBVIOUS
  <1>2. CASE n = 1
    BY <1>1, <1>2 DEF ToFront
  <1>3. CASE n # 1
    <2> DEFINE a == SubSeq(s, 1, n - 1)
               b == SubSeq(s, n + 1, Len(s))
    <2>1. ToFront(s, n) = <<s[n]>> \o a \o b
      <3>1. n \in 2..Len(s)
        BY <1>1, <1>3
      <3> QED
        BY <3>1 DEF ToFront
    <2>2. a \in Seq(S) /\ Len(a) = n - 1 /\ \A k \in 1..(n - 1) : a[k] = s[k]
      BY <1>1, <1>3
    <2>3. b \in Seq(S) /\ Len(b) = Len(s) - n /\ \A k \in 1..(Len(s) - n) : b[k] = s[k + n]
      BY <1>1, <1>3
    <2> HIDE DEF a, b
    <2>4. <<s[n]>> \in Seq(S) /\ Len(<<s[n]>>) = 1 /\ <<s[n]>>[1] = s[n]
      OBVIOUS
    <2> DEFINE c == <<s[n]>> \o a
    <2>5. c \in Seq(S) /\ Len(c) = n /\ c[1] = s[n] /\ \A k \in 2..n : c[k] = s[k - 1]
      BY <1>1, <2>2, <2>4
    <2> HIDE DEF c
    <2>6. ToFront(s, n) = c \o b
      BY <2>1 DEF c
    <2>7. /\ c \o b \in Seq(S) /\ Len(c \o b) = Len(s)
          /\ \A k \in 1..Len(s) : (c \o b)[k] = IF k <= n THEN c[k] ELSE b[k - n]
      <3>1. Len(c) + Len(b) = Len(s)
        BY <1>1, <2>3, <2>5
      <3> QED
        BY <2>3, <2>5, <3>1, ConcatProperties
    <2>8. ASSUME NEW k \in 1..Len(s), k > n PROVE b[k - n] = s[k]
      <3>1. k - n \in 1..(Len(s) - n) /\ (k - n) + n = k
        BY <1>1, <2>8
      <3> QED
        BY <2>3, <3>1
    <2>9. ASSUME NEW k \in 1..Len(s), k # 1
          PROVE  ToFront(s, n)[k] = IF k <= n THEN s[k - 1] ELSE s[k]
      BY <1>1, <2>5, <2>6, <2>7, <2>8, <2>9
    <2>10. ToFront(s, n)[1] = s[n]
      BY <1>1, <2>5, <2>6, <2>7
    <2> QED
      BY <1>1, <2>6, <2>7, <2>9, <2>10
  <1> QED
    BY <1>2, <1>3

LEMMA ToFrontKeeps ==
  ASSUME NEW S, NEW s \in Seq(S), NEW n \in DOMAIN s
  PROVE  ToFront(s, n) \in Seq(S) /\ Elements(ToFront(s, n)) = Elements(s) /\ Len(ToFront(s, n)) = Len(s)
  <1> DEFINE t == ToFront(s, n)
  <1>1. /\ t \in Seq(S) /\ Len(t) = Len(s) /\ DOMAIN t = DOMAIN s /\ t[1] = s[n]
        /\ \A k \in DOMAIN s : k # 1 => t[k] = IF k <= n THEN s[k - 1] ELSE s[k]
    BY ToFrontMoves
  <1> HIDE DEF t
  <1>2. DOMAIN s = 1..Len(s) /\ Len(s) \in Nat /\ n \in 1..Len(s)
    OBVIOUS
  <1>3. \A k \in DOMAIN t : t[k] \in Elements(s)
    BY <1>1, <1>2 DEF Elements
  <1>4. ASSUME NEW k \in DOMAIN s PROVE s[k] \in Elements(t)
    <2>1. CASE k = n
      BY <1>1, <1>2, <2>1 DEF Elements
    <2>2. CASE k < n
      <3>1. k + 1 \in DOMAIN s /\ k + 1 # 1 /\ k + 1 <= n /\ k + 1 - 1 = k
        BY <1>2, <2>2
      <3>2. t[k + 1] = s[k]
        BY <1>1, <3>1
      <3> QED
        BY <1>1, <3>1, <3>2 DEF Elements
    <2>3. CASE k > n
      BY <1>1, <1>2, <2>3 DEF Elements
    <2> QED
      BY <1>2, <2>1, <2>2, <2>3
  <1> QED
    BY <1>1, <1>2, <1>3, <1>4 DEF Elements, t

LEMMA PreferredKeeps ==
  ASSUME NEW S, NEW listed \in Seq(S), NEW i
  PROVE  Preferred(listed, i) \in Seq(S) /\ Elements(Preferred(listed, i)) = Elements(listed)
         /\ (Len(listed) = 1 => Preferred(listed, i) = listed)
  <1>0. Len(listed) \in Nat
    OBVIOUS
  <1> DEFINE there == {n \in 2..Len(listed) : listed[n].provider = i}
  <1>1. CASE i = None \/ there = {}
    BY <1>1 DEF Preferred
  <1>2. CASE i # None /\ there # {}
    <2>1. \E n \in there : \A k \in there : n <= k
      <3>1. there \subseteq Nat
        <4>1. \A n \in 2..Len(listed) : n \in Nat
          BY <1>0
        <4> QED
          BY <4>1, Zenon
      <3> QED
        BY <1>2, <3>1, LeastExists, Zenon
    <2> DEFINE first == CHOOSE n \in there : \A k \in there : n <= k
    <2>2. first \in there
      BY <2>1, Zenon
    <2>3. first \in 2..Len(listed)
      BY <2>2
    <2>5. first \in DOMAIN listed /\ Len(listed) # 1
      <3> HIDE DEF first
      <3> QED
        BY <2>3
    <2>4. Preferred(listed, i) = ToFront(listed, first)
      BY <1>2 DEF Preferred
    <2> HIDE DEF first
    <2> QED
      BY <2>4, <2>5, ToFrontKeeps
  <1> QED
    BY <1>1, <1>2

-----------------------------------------------------------------------------
\* --- instances by their priority
Lower(S, i) == {j \in S : Rank[j] < Rank[i]}

LEMMA LowerCounts ==
  ASSUME NEW S \in SUBSET Instances
  PROVE  /\ IsFiniteSet(S) /\ Cardinality(S) \in Nat
         /\ \A i \in S : /\ Cardinality(Lower(S, i)) \in 0..(Cardinality(S) - 1)
                         /\ \A k \in S : Rank[i] < Rank[k] => Cardinality(Lower(S, i)) < Cardinality(Lower(S, k))
  <1>1. IsFiniteSet(S) /\ Cardinality(S) \in Nat
    BY RoutingAssumption, FS_Subset, FS_CardinalityType
  <1>2. ASSUME NEW i \in S
        PROVE  /\ IsFiniteSet(Lower(S, i)) /\ Cardinality(Lower(S, i)) \in Nat
               /\ IsFiniteSet(Lower(S, i) \cup {i})
               /\ Cardinality(Lower(S, i) \cup {i}) = Cardinality(Lower(S, i)) + 1
    <2>1. i \in Instances /\ Rank[i] \in Nat
      BY RoutingAssumption
    <2>2. Lower(S, i) \subseteq S /\ i \notin Lower(S, i)
      BY <2>1 DEF Lower
    <2>3. IsFiniteSet(Lower(S, i)) /\ Cardinality(Lower(S, i)) \in Nat
      BY <1>1, <2>2, FS_Subset, FS_CardinalityType
    <2> QED
      BY <2>2, <2>3, FS_AddElement
  <1>3. ASSUME NEW i \in S PROVE Cardinality(Lower(S, i)) + 1 <= Cardinality(S)
    <2>1. Lower(S, i) \cup {i} \subseteq S
      BY DEF Lower
    <2>2. Cardinality(Lower(S, i) \cup {i}) <= Cardinality(S)
      BY <1>1, <2>1, FS_Subset
    <2> QED
      BY <1>2, <2>2
  <1>4. ASSUME NEW i \in S, NEW k \in S, Rank[i] < Rank[k]
        PROVE  Cardinality(Lower(S, i)) < Cardinality(Lower(S, k))
    <2>1. Lower(S, i) \cup {i} \subseteq Lower(S, k)
      <3>1. \A j \in S : Rank[j] \in Nat
        BY RoutingAssumption
      <3> QED
        BY <1>4, <3>1 DEF Lower
    <2>2. Cardinality(Lower(S, i) \cup {i}) <= Cardinality(Lower(S, k))
      BY <1>2, <2>1, FS_Subset
    <2> HIDE DEF Lower
    <2>3. {Cardinality(Lower(S, i)), Cardinality(Lower(S, k))} \subseteq Nat
      BY <1>2
    <2>4. Cardinality(Lower(S, i) \cup {i}) = Cardinality(Lower(S, i)) + 1
      BY <1>2
    <2> QED
      BY <2>2, <2>3, <2>4
  <1>5. ASSUME NEW i \in S PROVE Cardinality(Lower(S, i)) \in 0..(Cardinality(S) - 1)
    <2>1. Cardinality(Lower(S, i)) \in Nat /\ Cardinality(Lower(S, i)) + 1 <= Cardinality(S)
      BY <1>2, <1>3
    <2> QED
      BY <1>1, <2>1
  <1> QED
    BY <1>1, <1>4, <1>5

LEMMA ByPriorityIsSorted ==
  ASSUME NEW S \in SUBSET Instances
  PROVE  /\ ByPriority(S) \in Seq(S) /\ Elements(ByPriority(S)) = S
         /\ \A m, n \in DOMAIN ByPriority(S) :
              m < n => Rank[ByPriority(S)[m]] < Rank[ByPriority(S)[n]]
  <1> DEFINE c == Cardinality(S)
             f == [i \in S |-> Cardinality(Lower(S, i))]
             s == ByPriority(S)
  <1>1. IsFiniteSet(S) /\ c \in Nat
    BY LowerCounts
  <1>2. f \in Injection(S, 0..(c - 1))
    <2>1. f \in [S -> 0..(c - 1)]
      BY LowerCounts
    <2>2. ASSUME NEW i \in S, NEW k \in S, i # k PROVE f[i] # f[k]
      <3>1. /\ Rank[i] \in Nat /\ Rank[k] \in Nat /\ Rank[i] # Rank[k]
        BY <2>2, RoutingAssumption
      <3>2. f[i] \in Nat /\ f[k] \in Nat
        BY <2>1
      <3>3. (Rank[i] < Rank[k] => f[i] < f[k]) /\ (Rank[k] < Rank[i] => f[k] < f[i])
        BY LowerCounts
      <3> HIDE DEF f
      <3> QED
        BY <3>1, <3>2, <3>3
    <2> QED
      BY <2>1, <2>2 DEF Injection, IsInjective
  <1>3. f \in Surjection(S, 0..(c - 1))
    <2>1. IsFiniteSet(0..(c - 1)) /\ Cardinality(0..(c - 1)) = c
      <3>1. Cardinality(0..(c - 1)) = IF 0 <= c - 1 THEN (c - 1) - 0 + 1 ELSE 0
        BY <1>1, FS_Interval
      <3> QED
        BY <1>1, <3>1, FS_Interval
    <2> QED
      BY <1>1, <1>2, <2>1, FS_Injection
  <1>4. \A n \in 1..c : \E i \in S : f[i] = n - 1
    <2>1. \A n \in 1..c : n - 1 \in 0..(c - 1)
      BY <1>1
    <2> QED
      BY <1>3, <2>1 DEF Surjection
  <1>5. \A i, k \in S : f[i] = f[k] => i = k
    BY <1>2 DEF Injection, IsInjective
  <1>6. DOMAIN s = 1..c /\ \A n \in 1..c : s[n] \in S /\ f[s[n]] = n - 1
    <2>1. s = [n \in 1..c |-> CHOOSE i \in S : Cardinality(Lower(S, i)) = n - 1]
      BY DEF ByPriority, Lower
    <2>2. \A n \in 1..c : \E i \in S : Cardinality(Lower(S, i)) = n - 1
      BY <1>4
    <2> HIDE DEF s, c
    <2>3. \A n \in 1..c : s[n] \in S /\ Cardinality(Lower(S, s[n])) = n - 1
      BY <2>1, <2>2
    <2> QED
      BY <2>1, <2>3
  <1>7. s \in Seq(S)
    <2>1. s \in [1..c -> S]
      BY <1>6 DEF ByPriority
    <2> HIDE DEF s, c, f
    <2> QED
      BY <1>1, <2>1
  <1>8. Elements(s) = S
    <2> SUFFICES ASSUME NEW i \in S PROVE i \in Elements(s)
      BY <1>6 DEF Elements
    <2>1. f[i] \in 0..(c - 1)
      BY <1>2 DEF Injection
    <2>2. f[i] + 1 \in 1..c /\ (f[i] + 1) - 1 = f[i]
      BY <1>1, <2>1
    <2> HIDE DEF f, s, c
    <2>3. s[f[i] + 1] = i
      BY <1>5, <1>6, <2>2
    <2> QED
      BY <1>6, <2>2, <2>3 DEF Elements
  <1>9. ASSUME NEW m \in DOMAIN s, NEW n \in DOMAIN s, m < n PROVE Rank[s[m]] < Rank[s[n]]
    <2>1. s[m] \in S /\ s[n] \in S /\ f[s[m]] < f[s[n]]
      <3> HIDE DEF f, s, c
      <3>1. m \in 1..c /\ n \in 1..c /\ m - 1 < n - 1
        BY <1>1, <1>6, <1>9
      <3>2. f[s[m]] = m - 1 /\ f[s[n]] = n - 1 /\ s[m] \in S /\ s[n] \in S
        BY <1>6, <3>1
      <3> QED
        BY <3>1, <3>2
    <2>2. Rank[s[n]] < Rank[s[m]] => f[s[n]] < f[s[m]]
      BY <2>1, LowerCounts
    <2>3. f[s[m]] \in Nat /\ f[s[n]] \in Nat
      BY <1>2, <2>1 DEF Injection
    <2>4. Rank[s[m]] \in Nat /\ Rank[s[n]] \in Nat /\ (s[m] # s[n] => Rank[s[m]] # Rank[s[n]])
      BY <2>1, RoutingAssumption
    <2> HIDE DEF f, s, c
    <2> QED
      BY <2>1, <2>2, <2>3, <2>4
  <1> QED
    BY <1>7, <1>8, <1>9

\* The pinned instance comes first, the others by their priority.
LEMMA PinnedFirstOrders ==
  ASSUME NEW S \in SUBSET Instances, NEW i, NEW cs, cs = PinnedFirst(ByPriority(S), i)
  PROVE  /\ cs \in Seq(S) /\ Elements(cs) = S /\ InOrder(cs)
         /\ i \in S => Head(cs) = i
  <1> DEFINE s == ByPriority(S)
  <1>1. /\ s \in Seq(S) /\ Elements(s) = S
        /\ \A m, n \in DOMAIN s : m < n => Rank[s[m]] < Rank[s[n]]
    BY ByPriorityIsSorted
  <1>2. /\ Len(s) \in Nat /\ DOMAIN s = 1..Len(s)
        /\ \A n \in DOMAIN s : s[n] \in S /\ Rank[s[n]] \in Nat
    BY <1>1, RoutingAssumption
  <1>3. \A m, n \in DOMAIN s : s[m] = s[n] => m = n
    <2> HIDE DEF s
    <2> SUFFICES ASSUME NEW m \in DOMAIN s, NEW n \in DOMAIN s, s[m] = s[n], m # n PROVE FALSE
      OBVIOUS
    <2>1. m < n \/ n < m
      BY <1>2
    <2>2. Rank[s[m]] < Rank[s[m]]
      BY <1>1, <2>1
    <2> QED
      BY <1>2, <2>2
  <1>4. CASE i \notin S
    <2>1. cs = s
      BY <1>1, <1>2, <1>4 DEF PinnedFirst
    <2> HIDE DEF s
    <2> QED
      BY <1>1, <1>2, <1>3, <1>4, <2>1 DEF InOrder
  <1>5. CASE i \in S
    <2> DEFINE p == CHOOSE n \in 1..Len(s) : s[n] = i
    <2>1. \E n \in 1..Len(s) : s[n] = i
      BY <1>1, <1>2, <1>5 DEF Elements
    <2>2. p \in 1..Len(s) /\ s[p] = i
      BY <2>1
    <2>3. cs = ToFront(s, p)
      BY <2>1 DEF PinnedFirst
    <2> HIDE DEF s, p
    <2>4. /\ cs \in Seq(S) /\ Len(cs) = Len(s) /\ Elements(cs) = S /\ cs[1] = s[p]
          /\ \A k \in DOMAIN s : k # 1 => cs[k] = IF k <= p THEN s[k - 1] ELSE s[k]
      <3>1. s \in Seq(S) /\ p \in DOMAIN s
        BY <1>1, <1>2, <2>2
      <3>2. /\ ToFront(s, p) \in Seq(S) /\ Len(ToFront(s, p)) = Len(s) /\ ToFront(s, p)[1] = s[p]
            /\ \A k \in DOMAIN s : k # 1 => ToFront(s, p)[k] = IF k <= p THEN s[k - 1] ELSE s[k]
        BY <3>1, ToFrontMoves
      <3>3. Elements(ToFront(s, p)) = Elements(s)
        BY <3>1, ToFrontKeeps
      <3> QED
        BY <1>1, <2>3, <3>2, <3>3, Zenon
    <2>5. DOMAIN cs = 1..Len(s) /\ Head(cs) = i
      BY <1>2, <2>2, <2>4
    <2>6. InOrder(cs)
      <3> SUFFICES ASSUME NEW m \in 1..Len(s), NEW n \in 1..Len(s), m < n
                   PROVE  cs[m] # cs[n] /\ (m # 1 => Rank[cs[m]] < Rank[cs[n]])
        BY <2>5 DEF InOrder
      <3> DEFINE at(k) == IF k <= p THEN k - 1 ELSE k
      <3>0. ASSUME NEW k \in 1..Len(s), k # 1
            PROVE  at(k) \in DOMAIN s /\ cs[k] = s[at(k)] /\ at(k) # p
        <4>1. k \in DOMAIN s /\ cs[k] = IF k <= p THEN s[k - 1] ELSE s[k]
          BY <1>2, <2>4, <3>0
        <4>2. /\ p \in Nat /\ k \in Nat /\ Len(s) \in Nat /\ k <= Len(s) /\ k >= 2
          BY <1>2, <2>2, <3>0
        <4>3. CASE k <= p
          <5>1. k - 1 \in 1..Len(s) /\ k - 1 # p
            BY <4>2, <4>3
          <5> QED
            BY <1>2, <4>1, <4>3, <5>1
        <4>4. CASE ~(k <= p)
          <5>1. k # p
            BY <4>2, <4>4
          <5> QED
            BY <1>2, <4>1, <4>4, <5>1
        <4> QED
          BY <4>3, <4>4
      <3>1. at(n) \in DOMAIN s /\ cs[n] = s[at(n)] /\ at(n) # p
        <4>1. n # 1
          BY <1>2
        <4> QED
          BY <3>0, <4>1
      <3>2. m # 1 => at(m) \in DOMAIN s /\ cs[m] = s[at(m)] /\ at(m) < at(n)
        <4>1. p \in Nat /\ m \in Nat /\ n \in Nat
          BY <1>2, <2>2
        <4>2. at(m) < at(n)
          BY <3>1, <4>1, <2>2, <1>2
        <4> QED
          BY <3>0, <4>2
      <3> HIDE DEF at
      <3>3. CASE m = 1
        BY <1>2, <1>3, <2>2, <2>4, <3>1, <3>3
      <3>4. CASE m # 1
        <4>1. Rank[s[at(m)]] < Rank[s[at(n)]]
          BY <1>1, <3>1, <3>2, <3>4
        <4>2. s[at(m)] # s[at(n)]
          BY <1>2, <3>1, <3>2, <3>4, <4>1
        <4> QED
          BY <3>1, <3>2, <3>4, <4>1, <4>2
      <3> QED
        BY <3>3, <3>4
    <2> QED
      BY <2>4, <2>5, <2>6
  <1> QED
    BY <1>4, <1>5

-----------------------------------------------------------------------------
\* --- the affinity cache

\* What a lookup and an expiry leave: every entry, or none.
LEMMA CachedIsFinite ==
  ASSUME NEW d, NEW o \in Seq(Keys), \A k \in Cached(d) : \E n \in 1..Len(o) : o[n] = k
  PROVE  IsFiniteSet(Cached(d)) /\ Cardinality(Cached(d)) \in Nat
  <1>1. IsFiniteSet(Elements(o))
    <2>1. IsFiniteSet(1..Len(o))
      BY FS_Interval
    <2>2. o \in Surjection(1..Len(o), Elements(o))
      BY DEF Surjection, Elements
    <2> QED
      BY <2>1, <2>2, FS_Surjection
  <1>2. Cached(d) \subseteq Elements(o)
    BY DEF Elements
  <1> QED
    BY <1>1, <1>2, FS_Subset, FS_CardinalityType

LEMMA FewerCached ==
  ASSUME AffinityTypeOK, data' \in [Keys -> Entries \cup {None}], UNCHANGED order,
         \A k \in Keys : data'[k] # None => data[k] # None
  PROVE  AffinityTypeOK'
  <1>1. Cached(data') \subseteq Cached(data)
    BY DEF Cached
  <1>2. IsFiniteSet(Cached(data)) /\ Cardinality(Cached(data)) \in Nat
    BY CachedIsFinite DEF AffinityTypeOK, CacheBounded
  <1>3. Cardinality(Cached(data')) <= Cardinality(Cached(data)) /\ Cardinality(Cached(data')) \in Nat
    BY <1>1, <1>2, FS_Subset, FS_CardinalityType
  <1>4. Cardinality(Cached(data')) <= MaxEntries
    BY <1>2, <1>3, EntriesAssumption DEF AffinityTypeOK, CacheBounded
  <1>5. \A k \in Cached(data') : \E n \in 1..Len(order') : order'[n] = k
    BY <1>1 DEF AffinityTypeOK, CacheBounded
  <1> QED
    BY <1>4, <1>5 DEF AffinityTypeOK, CacheBounded

LEMMA LookUpKeeps ==
  ASSUME AffinityTypeOK, NEW k \in Keys, LookUp(k)
  PROVE  AffinityTypeOK' /\ \A j \in Keys : Pinned(j)' = Pinned(j)
  <1>1. /\ data' \in [Keys -> Entries \cup {None}] /\ order' = order
        /\ \A j \in Keys : data'[j] = IF j = k /\ data[k] # None /\ data[k].expired THEN None ELSE data[j]
    BY DEF LookUp, AffinityTypeOK
  <1>2. AffinityTypeOK'
    BY <1>1, FewerCached
  <1>3. \A j \in Keys : Pinned(j)' = Pinned(j)
    BY <1>1 DEF Pinned
  <1> QED
    BY <1>2, <1>3

LEMMA ExpireKeeps ==
  ASSUME AffinityTypeOK, NEW k \in Keys, Expire(k)
  PROVE  AffinityTypeOK'
  <1>1. data[k] \in Entries /\ order' = order /\ data' = [data EXCEPT ![k].expired = TRUE]
    BY DEF Expire, AffinityTypeOK
  <1>2. [data[k] EXCEPT !.expired = TRUE] \in Entries
    <2>1. TRUE \in BOOLEAN
      OBVIOUS
    <2> QED
      BY <1>1, <2>1 DEF Entries
  <1>3. data' \in [Keys -> Entries \cup {None}] /\ \A j \in Keys : j # k => data'[j] = data[j]
    BY <1>1, <1>2 DEF AffinityTypeOK
  <1>4. data[k] # None
    BY DEF Expire
  <1>5. \A j \in Keys : data'[j] # None => data[j] # None
    BY <1>3, <1>4
  <1> QED
    BY <1>1, <1>3, <1>5, FewerCached

\* Every entry can still be evicted: its key is queued.
Queued(d, o) == \A k \in Cached(d) : \E n \in 1..Len(o) : o[n] = k

\* Eviction leaves a map that fits, each of its keys still queued.
LEMMA EvictedFits ==
  ASSUME NEW d \in [Keys -> Entries \cup {None}], NEW o \in Seq(Keys), Queued(d, o),
         NEW e, e = Evicted(d, o)
  PROVE  /\ e.map \in [Keys -> Entries \cup {None}] /\ e.queue \in Seq(Keys)
         /\ \A k \in Keys : e.map[k] \in {None, d[k]}
         /\ Cardinality(Cached(e.map)) <= MaxEntries
         /\ Queued(e.map, e.queue)
  <1>1. Len(o) \in Nat /\ \A n \in 1..Len(o) : o[n] \in Keys
    OBVIOUS
  <1>2. \E n \in 0..Len(o) : (Fits(d, o, n) \/ n = Len(o)) /\ \A m \in 0..(n - 1) : ~Fits(d, o, m)
    <2> DEFINE T == {n \in 0..Len(o) : Fits(d, o, n) \/ n = Len(o)}
    <2>1. Len(o) \in T
      BY <1>1
    <2>2. T \subseteq Nat
      <3>1. 0..Len(o) \subseteq Nat
        BY <1>1
      <3> QED
        BY <3>1, Zenon
    <2>3. PICK n \in T : \A m \in T : n <= m
      BY <2>1, <2>2, LeastExists, Zenon
    <2>4. n \in 0..Len(o) /\ (Fits(d, o, n) \/ n = Len(o))
      BY <2>3
    <2>5. ASSUME NEW m \in 0..(n - 1), Fits(d, o, m) PROVE FALSE
      <3>1. m \in 0..Len(o) /\ m < n
        BY <1>1, <2>4
      <3>2. m \in T
        BY <2>5, <3>1
      <3>3. n <= m
        BY <2>3, <3>2
      <3> QED
        BY <1>1, <2>4, <3>1, <3>3
    <2> QED
      BY <2>4, <2>5, Zenon
  <1>3. PICK n : n = Pops(d, o)
    OBVIOUS
  <1>4. n \in 0..Len(o) /\ (Fits(d, o, n) \/ n = Len(o))
    BY <1>2, <1>3, Zenon DEF Pops
  <1>5. /\ e.map = [k \in Keys |-> IF k \in Oldest(o, n) THEN None ELSE d[k]]
        /\ e.queue = SubSeq(o, n + 1, Len(o))
    BY <1>3 DEF Evicted
  <1>6. Cached(e.map) = Cached(d) \ Oldest(o, n)
    BY <1>5 DEF Cached
  <1>7. Cardinality(Cached(e.map)) <= MaxEntries
    <2>1. CASE Fits(d, o, n)
      BY <1>6, <2>1 DEF Fits
    <2>2. CASE n = Len(o)
      <3>1. Cached(e.map) = {}
        BY <1>6, <2>2 DEF Oldest, Queued
      <3> QED
        BY <3>1, FS_EmptySet, EntriesAssumption
    <2> QED
      BY <1>4, <2>1, <2>2
  <1>8. /\ e.queue \in Seq(Keys) /\ Len(e.queue) = Len(o) - n
        /\ \A j \in 1..(Len(o) - n) : e.queue[j] = o[j + n]
    <2>1. /\ SubSeq(o, n + 1, Len(o)) \in Seq(Keys) /\ Len(SubSeq(o, n + 1, Len(o))) = Len(o) - n
          /\ \A j \in 1..(Len(o) - n) : SubSeq(o, n + 1, Len(o))[j] = o[j + n]
      BY <1>1, <1>4
    <2> QED
      BY <1>5, <2>1
  <1>9. ASSUME NEW k \in Cached(e.map) PROVE \E j \in 1..Len(e.queue) : e.queue[j] = k
    <2>1. k \in Cached(d) /\ k \notin Oldest(o, n)
      BY <1>6
    <2>2. PICK j \in 1..Len(o) : o[j] = k
      BY <2>1 DEF Queued
    <2>3. j \notin 1..n
      BY <2>1, <2>2 DEF Oldest
    <2>4. j - n \in 1..(Len(o) - n) /\ (j - n) + n = j
      BY <1>1, <1>4, <2>3
    <2> QED
      BY <1>8, <2>2, <2>4
  <1>10. e.map \in [Keys -> Entries \cup {None}] /\ \A k \in Keys : e.map[k] \in {None, d[k]}
    BY <1>5
  <1> QED
    BY <1>7, <1>8, <1>9, <1>10 DEF Queued

\* What a record leaves: the new pin, unless it was evicted, and the others.
LEMMA RecordKeeps ==
  ASSUME AffinityTypeOK, NEW k \in Keys, NEW i \in Instances, Record(k, i)
  PROVE  /\ AffinityTypeOK'
         /\ \A j \in Keys : Pinned(j)' = Pinned(j) \/ data'[j] = None \/ j = k
         /\ data'[k] # None => Pinned(k)' = i
  <1> DEFINE new == [instance |-> i, expired |-> FALSE]
             stored == [data EXCEPT ![k] = new]
             queued == IF data[k] = None THEN Append(order, k) ELSE order
             e == Evicted(stored, queued)
  <1>1. new \in Entries
    <2>1. FALSE \in BOOLEAN
      OBVIOUS
    <2> QED
      BY <2>1 DEF Entries
  <1>2. stored \in [Keys -> Entries \cup {None}]
    BY <1>1 DEF AffinityTypeOK
  <1>3. queued \in Seq(Keys) /\ Queued(stored, queued)
    <2>1. order \in Seq(Keys) /\ Len(order) \in Nat
      BY DEF AffinityTypeOK
    <2>2. \A j \in Cached(data) : \E n \in 1..Len(order) : order[n] = j
      BY DEF AffinityTypeOK, CacheBounded
    <2>3. \A j \in Cached(stored) : j = k \/ j \in Cached(data)
      BY DEF Cached, AffinityTypeOK
    <2>4. CASE data[k] = None
      <3>1. queued = Append(order, k)
        BY <2>4
      <3>2. /\ Append(order, k) \in Seq(Keys) /\ Len(Append(order, k)) = Len(order) + 1
            /\ Append(order, k)[Len(order) + 1] = k
            /\ \A n \in 1..Len(order) : Append(order, k)[n] = order[n]
        BY <2>1
      <3> HIDE DEF queued, stored
      <3>3. ASSUME NEW j \in Cached(stored) PROVE \E n \in 1..Len(queued) : queued[n] = j
        <4>1. CASE j = k
          <5>1. Len(order) + 1 \in 1..Len(queued)
            BY <2>1, <3>1, <3>2
          <5> QED
            BY <3>1, <3>2, <4>1, <5>1
        <4>2. CASE j # k
          <5>1. PICK n \in 1..Len(order) : order[n] = j
            BY <2>2, <2>3, <4>2
          <5>2. n \in 1..Len(queued)
            BY <2>1, <3>1, <3>2
          <5> QED
            BY <3>1, <3>2, <5>1, <5>2
        <4> QED
          BY <4>1, <4>2
      <3> QED
        BY <3>1, <3>2, <3>3 DEF Queued
    <2>5. CASE data[k] # None
      <3>1. k \in Cached(data) /\ queued = order
        BY <2>5 DEF Cached
      <3> QED
        BY <2>1, <2>2, <2>3, <3>1 DEF Queued
    <2> QED
      BY <2>4, <2>5
  <1>4. data' = e.map /\ order' = e.queue
    BY DEF Record
  <1>5. \A j \in Keys : stored[j] = IF j = k THEN new ELSE data[j]
    BY DEF AffinityTypeOK
  <1> HIDE DEF stored, queued, e
  <1>6. /\ e.map \in [Keys -> Entries \cup {None}] /\ e.queue \in Seq(Keys)
        /\ \A j \in Keys : e.map[j] \in {None, stored[j]}
        /\ Cardinality(Cached(e.map)) <= MaxEntries
        /\ Queued(e.map, e.queue)
    <2>1. e = Evicted(stored, queued)
      BY DEF e
    <2>2. /\ stored \in [Keys -> Entries \cup {None}] /\ queued \in Seq(Keys)
          /\ Queued(stored, queued)
      BY <1>2, <1>3
    <2>3. e.map \in [Keys -> Entries \cup {None}] /\ e.queue \in Seq(Keys)
      BY <2>1, <2>2, EvictedFits, Zenon
    <2>4. \A j \in Keys : e.map[j] \in {None, stored[j]}
      BY <2>1, <2>2, EvictedFits, Zenon
    <2>5. Cardinality(Cached(e.map)) <= MaxEntries
      BY <2>1, <2>2, EvictedFits, Zenon
    <2>6. Queued(e.map, e.queue)
      BY <2>1, <2>2, EvictedFits, Zenon
    <2> QED
      BY <2>3, <2>4, <2>5, <2>6
  <1>7. AffinityTypeOK'
    BY <1>4, <1>6 DEF AffinityTypeOK, CacheBounded, Queued
  <1>8. \A j \in Keys : Pinned(j)' = Pinned(j) \/ data'[j] = None \/ j = k
    BY <1>4, <1>5, <1>6 DEF Pinned
  <1>9. data'[k] # None => Pinned(k)' = i
    <2>1. data'[k] # None => data'[k] = new
      BY <1>4, <1>5, <1>6
    <2>2. new.instance = i /\ new.expired = FALSE
      OBVIOUS
    <2> QED
      BY <2>1, <2>2 DEF Pinned
  <1> QED
    BY <1>7, <1>8, <1>9

-----------------------------------------------------------------------------
\* --- attempts and candidates
LEMMA ShortLists ==
  ASSUME NEW S, NEW a \in S, NEW b \in S
  PROVE  <<a>> \in Seq(S) /\ <<a, b>> \in Seq(S)
  OBVIOUS

LEMMA OneElement ==
  ASSUME NEW a
  PROVE  /\ <<a>> # <<>> /\ Tail(<<a>>) = <<>> /\ Head(<<a>>) = a
         /\ Elements(<<a>>) = {a} /\ DOMAIN <<a>> = {1} /\ Len(<<a>>) = 1
  BY DEF Elements

LEMMA EmptyList ==
  ASSUME NEW S, NEW s \in Seq(S)
  PROVE  s = <<>> <=> Elements(s) = {}
  BY DEF Elements

LEMMA StartIsAnIndex ==
  ASSUME cursor \in 0..Len(Upstreams), Upstreams # <<>>
  PROVE  Start \in 0..(Len(Upstreams) - 1)
  <1>1. Len(Upstreams) \in Nat /\ Len(Upstreams) # 0
    BY RoutingAssumption
  <1> QED
    BY <1>1 DEF Start

LEMMA OrderedIsUpstreams ==
  ASSUME cursor \in 0..Len(Upstreams), Upstreams # <<>>
  PROVE  Ordered \in Seq([model : Keys, provider : Instances \cup {None}]) /\ Len(Ordered) = Len(Upstreams)
  <1> DEFINE Upstream == [model : Keys, provider : Instances \cup {None}]
  <1>1. Upstreams \in Seq(Upstream) /\ Len(Upstreams) \in Nat
    BY RoutingAssumption
  <1>2. Start \in 0..(Len(Upstreams) - 1)
    BY StartIsAnIndex
  <1> HIDE DEF Upstream
  <1>3. /\ SubSeq(Upstreams, Start + 1, Len(Upstreams)) \in Seq(Upstream)
        /\ Len(SubSeq(Upstreams, Start + 1, Len(Upstreams))) = Len(Upstreams) - Start
    BY <1>1, <1>2
  <1>4. /\ SubSeq(Upstreams, 1, Start) \in Seq(Upstream)
        /\ Len(SubSeq(Upstreams, 1, Start)) = Start
    BY <1>1, <1>2
  <1>5. Ordered \in Seq(Upstream) /\ Len(Ordered) = Len(Upstreams)
    BY <1>1, <1>2, <1>3, <1>4 DEF Ordered
  <1> QED
    BY <1>5 DEF Upstream

\* A request's attempts, and where the next one of a virtual model starts.
LEMMA ExpandedIsAList ==
  ASSUME cursor \in 0..Len(Upstreams), NEW m \in Keys
  PROVE  /\ Expanded(m) \in Seq(AttemptSet)
         /\ Plain(m) => Expanded(m) = <<Attempt(m, None, FALSE)>>
         /\ IsVirtual(m) => Start + 1 \in 0..Len(Upstreams)
  <1>1. FALSE \in BOOLEAN /\ TRUE \in BOOLEAN
    OBVIOUS
  <1>2. Attempt(m, None, FALSE) \in AttemptSet
    BY <1>1 DEF Attempt, AttemptSet
  <1>3. CASE IsVirtual(m)
    <2>1. Upstreams # <<>> /\ Len(Upstreams) \in Nat
      BY <1>3, RoutingAssumption DEF IsVirtual
    <2>2. \A n \in 1..Len(Upstreams) : Ordered[n] \in [model : Keys, provider : Instances \cup {None}]
      <3> DEFINE Upstream == [model : Keys, provider : Instances \cup {None}]
      <3>1. Ordered \in Seq(Upstream) /\ Len(Ordered) = Len(Upstreams)
        BY <2>1, OrderedIsUpstreams
      <3> HIDE DEF Upstream
      <3>2. \A n \in 1..Len(Upstreams) : Ordered[n] \in Upstream
        BY <2>1, <3>1
      <3> QED
        BY <3>2 DEF Upstream
    <2>3. \A n \in 1..Len(Upstreams) : Attempt(Ordered[n].model, Ordered[n].provider, FALSE) \in AttemptSet
      BY <1>1, <2>2 DEF Attempt, AttemptSet
    <2>4. Expanded(m) \in [1..Len(Upstreams) -> AttemptSet]
      BY <1>3, <2>3 DEF Expanded
    <2>5. Start + 1 \in 0..Len(Upstreams)
      BY <2>1, StartIsAnIndex
    <2> QED
      BY <1>3, <2>1, <2>4, <2>5 DEF Plain
  <1>4. CASE ~IsVirtual(m) /\ Qualified[m] = None
    <2>1. Expanded(m) = <<Attempt(m, None, FALSE)>>
      BY <1>4, Zenon DEF Expanded
    <2> QED
      BY <1>2, <1>4, <2>1, ShortLists, Zenon
  <1>5. CASE ~IsVirtual(m) /\ Qualified[m] # None
    <2>1. Qualified[m] \in [model : Keys, provider : Instances]
      BY <1>5, RoutingAssumption
    <2>2. Attempt(Qualified[m].model, Qualified[m].provider, TRUE) \in AttemptSet
      BY <1>1, <2>1 DEF Attempt, AttemptSet
    <2>3. Expanded(m) = <<Attempt(m, None, FALSE), Attempt(Qualified[m].model, Qualified[m].provider, TRUE)>>
      BY <1>5, Zenon DEF Expanded
    <2>4. Expanded(m) \in Seq(AttemptSet)
      BY <1>2, <2>2, <2>3, ShortLists, Zenon
    <2> QED
      BY <1>5, <2>4, Zenon DEF Plain
  <1> QED
    BY <1>3, <1>4, <1>5

\* The candidates of an attempt: every active instance that may serve it, the pinned one
\* first, the others by their priority.
LEMMA CandidatesServe ==
  ASSUME active \subseteq Instances, NEW a, NEW i, NEW cs, cs = PinnedFirst(Route(a), i)
  PROVE  /\ cs \in Seq(Generators) /\ InOrder(cs)
         /\ Elements(cs) = {j \in active : Eligible(j, a)}
         /\ cs = <<>> <=> Route(a) = <<>>
         /\ i \in active /\ Eligible(i, a) => Head(cs) = i
  <1> DEFINE S == {j \in active : Eligible(j, a)}
  <1>1. S \in SUBSET Instances /\ S \subseteq Generators
    BY DEF Eligible
  <1>2. Route(a) = ByPriority(S)
    BY DEF Route
  <1> HIDE DEF S
  <1>3. cs \in Seq(S) /\ Elements(cs) = S /\ InOrder(cs) /\ (i \in S => Head(cs) = i)
    BY <1>1, <1>2, PinnedFirstOrders
  <1>4. ByPriority(S) \in Seq(S) /\ Elements(ByPriority(S)) = S
    BY <1>1, ByPriorityIsSorted
  <1>5. (cs = <<>> <=> S = {}) /\ (Route(a) = <<>> <=> S = {})
    BY <1>2, <1>3, <1>4, EmptyList, Zenon
  <1>6. cs = <<>> <=> Route(a) = <<>>
    BY <1>5, Zenon
  <1>7. cs \in Seq(Generators)
    BY <1>1, <1>3
  <1> QED
    BY <1>3, <1>6, <1>7 DEF S

-----------------------------------------------------------------------------
\* --- a step leaves the other requests safe
LEMMA TailOf ==
  ASSUME NEW S, NEW s \in Seq(S), s # <<>>
  PROVE  /\ Tail(s) \in Seq(S) /\ Head(s) \in S /\ Head(s) = s[1] /\ 1 \in DOMAIN s
         /\ Elements(s) = Elements(Tail(s)) \cup {Head(s)}
         /\ \A n \in DOMAIN Tail(s) : n \in Nat /\ n + 1 \in DOMAIN s /\ n + 1 # 1 /\ Tail(s)[n] = s[n + 1]
         /\ Len(s) = 1 <=> Tail(s) = <<>>
  <1>1. /\ Len(s) \in Nat /\ Len(s) # 0 /\ DOMAIN s = 1..Len(s) /\ Tail(s) \in Seq(S)
        /\ Len(Tail(s)) = Len(s) - 1 /\ DOMAIN Tail(s) = 1..Len(Tail(s)) /\ Head(s) = s[1]
        /\ \A n \in 1..Len(s) : s[n] \in S
        /\ \A n \in 1..(Len(s) - 1) : Tail(s)[n] = s[n + 1]
    OBVIOUS
  <1>2. 1 \in DOMAIN s /\ Head(s) \in S
    BY <1>1
  <1>3. ASSUME NEW n \in DOMAIN Tail(s) PROVE n \in Nat /\ n + 1 \in DOMAIN s /\ n + 1 # 1 /\ Tail(s)[n] = s[n + 1]
    BY <1>1
  <1>4. ASSUME NEW n \in DOMAIN s, n # 1 PROVE s[n] \in Elements(Tail(s))
    <2>1. n - 1 \in DOMAIN Tail(s) /\ (n - 1) + 1 = n
      BY <1>1, <1>4
    <2> QED
      BY <1>3, <2>1 DEF Elements
  <1>5. Elements(s) = Elements(Tail(s)) \cup {Head(s)}
    <2>1. ASSUME NEW x \in Elements(s) PROVE x \in Elements(Tail(s)) \cup {Head(s)}
      <3>1. PICK n \in DOMAIN s : x = s[n]
        BY DEF Elements
      <3> QED
        BY <1>1, <1>4, <3>1
    <2>2. ASSUME NEW x \in Elements(Tail(s)) PROVE x \in Elements(s)
      <3>1. PICK n \in DOMAIN Tail(s) : x = Tail(s)[n]
        BY DEF Elements
      <3> QED
        BY <1>3, <3>1 DEF Elements
    <2>3. Head(s) \in Elements(s)
      BY <1>1, <1>2 DEF Elements
    <2> QED
      BY <2>1, <2>2, <2>3
  <1>6. Len(s) = 1 <=> Tail(s) = <<>>
    <2>1. Len(s) = 1 <=> Len(Tail(s)) = 0
      BY <1>1
    <2>2. Tail(s) = <<>> <=> Len(Tail(s)) = 0
      BY <1>1, EmptySeq, Zenon
    <2> QED
      BY <2>1, <2>2
  <1> QED
    BY <1>1, <1>2, <1>3, <1>5, <1>6

\* Nothing happens to request q, unless it is the operator's switch or an expiry.
Undisturbed(q) ==
  /\ pc'[q] = pc[q] /\ asked'[q] = asked[q] /\ attempts'[q] = attempts[q]
  /\ candidates'[q] = candidates[q] /\ result'[q] = result[q] /\ plan'[q] = plan[q]
  /\ tried'[q] = tried[q] /\ doomed'[q] = doomed[q]
  /\ steady'[q] \subseteq steady[q]
  /\ expected'[q] = expected[q] \/ expected'[q] = None

LEMMA UndisturbedIsSafe ==
  ASSUME NEW q, RequestSafe(q), Undisturbed(q)
  PROVE  RequestSafe(q)'
  <1>1. Preference(q)' = None \/ Preference(q)' = Preference(q)
    BY DEF Undisturbed, Preference
  <1>2. FirstCall(q)' = FirstCall(q) /\ Current(q)' = Current(q)
    BY DEF Undisturbed, FirstCall, Current
  <1>3. (UnderWay(q)' <=> UnderWay(q)) /\ (Prepared(q)' <=> Prepared(q))
    BY DEF Undisturbed, UnderWay, Prepared
  <1>4. Lives(q)'
    BY <1>2, <1>3 DEF Undisturbed, RequestSafe, Lives
  <1>5. DoomedIsLast(q)'
    BY DEF Undisturbed, RequestSafe, DoomedIsLast
  <1>6. \A a : Served(q, a) => Served(q, a)'
    BY DEF Undisturbed, Served
  <1>7. NothingForgotten(q)'
    BY <1>2, <1>3, <1>6 DEF Undisturbed, RequestSafe, NothingForgotten
  <1>8. CandidatesInOrder(q)'
    BY DEF Undisturbed, RequestSafe, CandidatesInOrder
  <1>9. PlainIsServed(q)'
    BY <1>1, <1>2, <1>3 DEF Undisturbed, RequestSafe, PlainIsServed
  <1> QED
    BY <1>4, <1>5, <1>7, <1>8, <1>9 DEF RequestSafe

LEMMA OthersAreSafe ==
  ASSUME DispatchSafe, NEW r \in Requests, RequestSafe(r)',
         \A q \in Requests \ {r} : Undisturbed(q)
  PROVE  \A q \in Requests : RequestSafe(q)'
  BY UndisturbedIsSafe DEF DispatchSafe

\* --- what the client, the operator and time do
LEMMA DisconnectKeeps ==
  ASSUME DispatchSafe, NEW r \in Requests, Disconnect(r)
  PROVE  DispatchSafe'
  <1>1. TypeOK'
    <2>1. FALSE \in BOOLEAN
      OBVIOUS
    <2> QED
      BY <2>1 DEF DispatchSafe, TypeOK, Disconnect, AffinityTypeOK, CacheBounded, affinityVars, historyVars
  <1>2. \A q \in Requests : Undisturbed(q)
    BY DEF Disconnect, Undisturbed, historyVars
  <1>3. \A q \in Requests : RequestSafe(q)'
    BY <1>2, UndisturbedIsSafe DEF DispatchSafe
  <1>4. (SteadyIsActive /\ ServerIsPinned /\ ExpectedIsPinned)'
    BY DEF DispatchSafe, SteadyIsActive, ServerIsPinned, ExpectedIsPinned, Pinned, Disconnect,
           affinityVars, historyVars
  <1> QED
    BY <1>1, <1>3, <1>4 DEF DispatchSafe

LEMMA SwitchKeeps ==
  ASSUME DispatchSafe, NEW i \in Unstable, Switch(i)
  PROVE  DispatchSafe'
  <1>1. active' \subseteq Instances /\ \A q \in Requests : steady'[q] = steady[q] \cap active'
    BY RoutingAssumption DEF Switch, DispatchSafe, TypeOK
  <1>2. TypeOK'
    BY <1>1 DEF DispatchSafe, TypeOK, Switch, AffinityTypeOK, CacheBounded, affinityVars, requestVars
  <1>3. \A q \in Requests : Undisturbed(q)
    BY <1>1 DEF Switch, Undisturbed, requestVars
  <1>4. \A q \in Requests : RequestSafe(q)'
    BY <1>3, UndisturbedIsSafe DEF DispatchSafe
  <1>5. (SteadyIsActive /\ ServerIsPinned /\ ExpectedIsPinned)'
    BY <1>1 DEF DispatchSafe, SteadyIsActive, ServerIsPinned, ExpectedIsPinned, Pinned, Switch,
                affinityVars, requestVars
  <1> QED
    BY <1>2, <1>4, <1>5 DEF DispatchSafe

LEMMA AgeKeeps ==
  ASSUME DispatchSafe, NEW k \in Keys, Age(k)
  PROVE  DispatchSafe'
  <1>1. AffinityTypeOK'
    BY ExpireKeeps DEF Age, DispatchSafe, TypeOK
  <1>2. (\A q \in Requests : expected'[q] = None) /\ \A m \in Keys : server'[m] = None
    BY DEF Age
  <1>3. TypeOK'
    BY <1>1 DEF DispatchSafe, TypeOK, Age, requestVars
  <1>4. \A q \in Requests : Undisturbed(q)
    BY <1>2 DEF Age, Undisturbed, requestVars
  <1>5. \A q \in Requests : RequestSafe(q)'
    BY <1>4, UndisturbedIsSafe DEF DispatchSafe
  <1>6. (SteadyIsActive /\ ServerIsPinned /\ ExpectedIsPinned)'
    BY <1>2 DEF DispatchSafe, SteadyIsActive, ServerIsPinned, ExpectedIsPinned, Age, requestVars
  <1> QED
    BY <1>3, <1>5, <1>6 DEF DispatchSafe

-----------------------------------------------------------------------------
\* --- requests arrive and leave
LEMMA AffinityStays ==
  ASSUME AffinityTypeOK, UNCHANGED affinityVars
  PROVE  AffinityTypeOK' /\ \A k : Pinned(k)' = Pinned(k)
  BY DEF AffinityTypeOK, CacheBounded, affinityVars, Pinned

\* What holds of the shared state when a request's step only drops what it expects.
LEMMA PinsStay ==
  ASSUME DispatchSafe, NEW r \in Requests,
         \A q \in Requests \ {r} : Undisturbed(q),
         \A k \in Keys : Pinned(k)' = Pinned(k), UNCHANGED <<active, server>>,
         steady'[r] \subseteq active, asked'[r] \in Keys \cup {None},
         expected'[r] = None \/ (asked'[r] \in Keys /\ expected'[r] = server[asked'[r]])
           \/ (asked'[r] = asked[r] /\ asked[r] \in Keys /\ expected'[r] = expected[r])
  PROVE  (SteadyIsActive /\ ServerIsPinned /\ ExpectedIsPinned)'
  <1>1. SteadyIsActive'
    BY DEF DispatchSafe, SteadyIsActive, Undisturbed
  <1>2. ServerIsPinned'
    BY DEF DispatchSafe, ServerIsPinned
  <1>3. ASSUME NEW q \in Requests, NEW k, k = asked'[q], expected'[q] # None, Plain(k)
        PROVE  k \in Keys /\ Pinned(k) = expected'[q]
    <2>1. CASE q = r
      <3>1. CASE k \in Keys /\ expected'[q] = server[k]
        BY <1>3, <3>1 DEF DispatchSafe, ServerIsPinned
      <3>2. CASE k = asked[q] /\ k \in Keys /\ expected'[q] = expected[q]
        BY <1>3, <3>2 DEF DispatchSafe, ExpectedIsPinned
      <3> QED
        BY <1>3, <2>1, <3>1, <3>2
    <2>2. CASE q # r
      <3>1. expected'[q] = expected[q] /\ k = asked[q]
        BY <1>3, <2>2 DEF Undisturbed
      <3>2. RequestSafe(q)
        BY DEF DispatchSafe
      <3>3. k \in Keys
        BY <1>3, <3>1, <3>2 DEF RequestSafe, Lives, DispatchSafe, TypeOK
      <3> QED
        BY <1>3, <3>1, <3>3 DEF DispatchSafe, ExpectedIsPinned
    <2> QED
      BY <2>1, <2>2
  <1>4. ExpectedIsPinned'
    BY <1>3 DEF ExpectedIsPinned, Pinned
  <1> QED
    BY <1>1, <1>2, <1>4

LEMMA ArriveKeeps ==
  ASSUME DispatchSafe, NEW r \in Requests, Arrive(r)
  PROVE  DispatchSafe'
  <1>1. PICK m \in Asked \ Ambiguous, s \in BOOLEAN :
          /\ asked' = [asked EXCEPT ![r] = m]
          /\ stream' = [stream EXCEPT ![r] = s]
          /\ attempts' = [attempts EXCEPT ![r] = Expanded(m)]
          /\ plan' = [plan EXCEPT ![r] = Expanded(m)]
          /\ cursor' = IF IsVirtual(m) /\ RoundRobin THEN Start + 1 ELSE cursor
    BY DEF Arrive
  <1>2. m \in Keys
    BY RoutingAssumption
  <1>3. PICK x : x = Expanded(m)
    OBVIOUS
  <1>4. /\ x \in Seq(AttemptSet)
        /\ Plain(m) => x = <<Attempt(m, None, FALSE)>>
        /\ IsVirtual(m) => Start + 1 \in 0..Len(Upstreams)
    <2>1. cursor \in 0..Len(Upstreams)
      BY DEF DispatchSafe, TypeOK
    <2> QED
      BY <1>2, <1>3, <2>1, ExpandedIsAList
  <1>5. /\ pc[r] = "idle" /\ pc'[r] = "prefer" /\ asked'[r] = m /\ attempts'[r] = x /\ plan'[r] = x
        /\ steady'[r] = active /\ candidates'[r] = candidates[r] /\ result'[r] = result[r]
        /\ tried'[r] = tried[r] /\ doomed'[r] = doomed[r] /\ expected'[r] = expected[r]
    BY <1>1, <1>3 DEF Arrive, DispatchSafe, TypeOK
  <1>6. TypeOK'
    <2>1. AffinityTypeOK'
      BY AffinityStays DEF DispatchSafe, TypeOK, Arrive
    <2>2. cursor' \in 0..Len(Upstreams)
      BY <1>1, <1>4 DEF DispatchSafe, TypeOK
    <2>3. attempts' \in [Requests -> Seq(AttemptSet)] /\ plan' \in [Requests -> Seq(AttemptSet)]
      BY <1>1, <1>3, <1>4 DEF DispatchSafe, TypeOK
    <2> QED
      BY <1>1, <1>2, <2>1, <2>2, <2>3 DEF DispatchSafe, TypeOK, Arrive
  <1>7. \A q \in Requests \ {r} : Undisturbed(q)
    BY <1>1 DEF Arrive, Undisturbed, DispatchSafe, TypeOK
  <1>8. RequestSafe(r)'
    <2>0. RequestSafe(r) /\ doomed[r] \in Nat
      BY DEF DispatchSafe, TypeOK
    <2>1. result[r] = "none" /\ doomed[r] = 0 /\ tried[r] = {} /\ expected[r] = None
      BY <1>5, <2>0 DEF RequestSafe, Lives, DoomedIsLast
    <2>2. Lives(r)' /\ DoomedIsLast(r)'
      BY <1>2, <1>5, <2>1 DEF Lives, DoomedIsLast, Prepared
    <2>3. NothingForgotten(r)'
      BY <1>5, <2>1 DEF NothingForgotten, Prepared, Elements
    <2>4. CandidatesInOrder(r)'
      BY <1>5 DEF DispatchSafe, RequestSafe, CandidatesInOrder
    <2>5. PlainIsServed(r)'
      <3>1. CASE ~Plain(m)
        BY <1>5, <3>1 DEF PlainIsServed
      <3>2. CASE Plain(m)
        <4>1. x = <<Attempt(m, None, FALSE)>> /\ x # <<>>
          BY <1>4, <3>2, OneElement, Zenon
        <4>2. ~FirstCall(r)'
          BY <1>5 DEF FirstCall
        <4> QED
          BY <1>5, <2>1, <4>1, <4>2 DEF PlainIsServed
      <3> QED
        BY <3>1, <3>2
    <2> QED
      BY <2>2, <2>3, <2>4, <2>5 DEF RequestSafe
  <1>9. (SteadyIsActive /\ ServerIsPinned /\ ExpectedIsPinned)'
    <2>1. (\A k \in Keys : Pinned(k)' = Pinned(k)) /\ UNCHANGED <<active, server>>
      BY AffinityStays DEF DispatchSafe, TypeOK, Arrive
    <2>2. expected[r] = None
      BY <1>5 DEF DispatchSafe, RequestSafe, Lives
    <2> QED
      BY <1>2, <1>5, <1>7, <2>1, <2>2, PinsStay
  <1> QED
    BY <1>6, <1>7, <1>8, <1>9, OthersAreSafe DEF DispatchSafe

LEMMA RejectKeeps ==
  ASSUME DispatchSafe, NEW r \in Requests, Reject(r)
  PROVE  DispatchSafe'
  <1>1. PICK m \in Asked \cap Ambiguous : asked' = [asked EXCEPT ![r] = m] /\ LookUp(m)
    BY DEF Reject
  <1>2. m \in Keys /\ AffinityTypeOK
    BY RoutingAssumption DEF DispatchSafe, TypeOK
  <1>3. AffinityTypeOK' /\ \A k \in Keys : Pinned(k)' = Pinned(k)
    BY <1>1, <1>2, LookUpKeeps
  <1>4. /\ pc[r] = "idle" /\ pc'[r] = "done" /\ asked'[r] = m /\ result'[r] = "rejected"
        /\ candidates'[r] = <<>> /\ steady'[r] = active /\ doomed'[r] = doomed[r]
        /\ expected'[r] = expected[r]
    BY <1>1 DEF Reject, EndWith, DispatchSafe, TypeOK
  <1>5. TypeOK'
    <2>1. /\ attempts' \in [Requests -> Seq(AttemptSet)] /\ candidates' \in [Requests -> Seq(Generators)]
      <3>1. <<>> \in Seq(AttemptSet) /\ <<>> \in Seq(Generators)
        BY EmptySeq, Zenon
      <3> QED
        BY <3>1 DEF Reject, EndWith, DispatchSafe, TypeOK
    <2> QED
      BY <1>1, <1>2, <1>3, <2>1 DEF Reject, EndWith, DispatchSafe, TypeOK
  <1>6. \A q \in Requests \ {r} : Undisturbed(q)
    BY <1>1 DEF Reject, EndWith, Undisturbed, DispatchSafe, TypeOK
  <1>7. RequestSafe(r) /\ doomed[r] \in Nat
    BY DEF DispatchSafe, TypeOK
  <1>8. RequestSafe(r)'
    <2>1. Lives(r)' /\ DoomedIsLast(r)' /\ NothingForgotten(r)'
      BY <1>2, <1>4, <1>7 DEF RequestSafe, Lives, DoomedIsLast, NothingForgotten, UnderWay, Prepared
    <2>2. CandidatesInOrder(r)' /\ PlainIsServed(r)'
      BY <1>4 DEF CandidatesInOrder, InOrder, PlainIsServed, UnderWay
    <2> QED
      BY <2>1, <2>2 DEF RequestSafe
  <1>9. (SteadyIsActive /\ ServerIsPinned /\ ExpectedIsPinned)'
    <2>1. UNCHANGED <<active, server>> /\ expected'[r] = None
      BY <1>4, <1>7 DEF Reject, RequestSafe, Lives
    <2> QED
      BY <1>2, <1>3, <1>4, <1>6, <2>1, PinsStay
  <1> QED
    BY <1>5, <1>6, <1>8, <1>9, OthersAreSafe DEF DispatchSafe

LEMMA LeaveKeeps ==
  ASSUME DispatchSafe, NEW r \in Requests, Leave(r)
  PROVE  DispatchSafe'
  <1>1. AffinityTypeOK' /\ \A k \in Keys : Pinned(k)' = Pinned(k)
    BY AffinityStays DEF Leave, DispatchSafe, TypeOK
  <1>2. /\ pc'[r] = "idle" /\ asked'[r] = None /\ result'[r] = "none" /\ steady'[r] = {}
        /\ tried'[r] = {} /\ doomed'[r] = 0 /\ expected'[r] = None /\ candidates'[r] = candidates[r]
    BY DEF Leave, DispatchSafe, TypeOK
  <1>3. TypeOK'
    <2>1. TRUE \in BOOLEAN /\ FALSE \in BOOLEAN
      OBVIOUS
    <2>2. plan' \in [Requests -> Seq(AttemptSet)]
      <3>1. <<>> \in Seq(AttemptSet)
        BY EmptySeq, Zenon
      <3> QED
        BY <3>1 DEF Leave, DispatchSafe, TypeOK
    <2> QED
      BY <1>1, <2>1, <2>2 DEF Leave, DispatchSafe, TypeOK
  <1>4. \A q \in Requests \ {r} : Undisturbed(q)
    BY DEF Leave, Undisturbed, DispatchSafe, TypeOK
  <1>5. RequestSafe(r)'
    <2>1. Lives(r)' /\ DoomedIsLast(r)' /\ NothingForgotten(r)'
      BY <1>2 DEF Lives, DoomedIsLast, NothingForgotten, UnderWay, Prepared
    <2>2. CandidatesInOrder(r)' /\ PlainIsServed(r)'
      BY <1>2 DEF CandidatesInOrder, PlainIsServed, UnderWay, DispatchSafe, RequestSafe
    <2> QED
      BY <2>1, <2>2 DEF RequestSafe
  <1>6. (SteadyIsActive /\ ServerIsPinned /\ ExpectedIsPinned)'
    <2>1. UNCHANGED <<active, server>>
      BY DEF Leave
    <2> QED
      BY <1>1, <1>2, <1>4, <2>1, PinsStay
  <1> QED
    BY <1>3, <1>4, <1>5, <1>6, OthersAreSafe DEF DispatchSafe

\* --- the attempts of a request
LEMMA PreferKeeps ==
  ASSUME DispatchSafe, NEW r \in Requests, Prefer(r)
  PROVE  DispatchSafe'
  <1>1. /\ pc[r] = "prefer" /\ RequestSafe(r) /\ AffinityTypeOK /\ attempts[r] \in Seq(AttemptSet)
        /\ LookUp(asked[r])
    BY DEF Prefer, DispatchSafe, TypeOK
  <1>2. asked[r] \in Keys
    BY <1>1 DEF RequestSafe, Lives
  <1>3. AffinityTypeOK' /\ \A k \in Keys : Pinned(k)' = Pinned(k)
    BY <1>1, <1>2, LookUpKeeps
  <1>4. PICK x : x = Preferred(attempts[r], Pinned(asked[r]))
    OBVIOUS
  <1>5. /\ x \in Seq(AttemptSet) /\ Elements(x) = Elements(attempts[r])
        /\ Len(attempts[r]) = 1 => x = attempts[r]
    BY <1>1, <1>4, PreferredKeeps, Zenon
  <1>6. /\ pc'[r] = "attempt" /\ asked'[r] = asked[r] /\ attempts'[r] = x /\ plan'[r] = plan[r]
        /\ steady'[r] = steady[r] /\ candidates'[r] = candidates[r] /\ result'[r] = result[r]
        /\ tried'[r] = tried[r] /\ doomed'[r] = doomed[r] /\ expected'[r] = server[asked[r]]
    BY <1>4 DEF Prefer, DispatchSafe, TypeOK
  <1>7. TypeOK'
    <2>1. attempts' \in [Requests -> Seq(AttemptSet)]
      BY <1>4, <1>5 DEF Prefer, DispatchSafe, TypeOK
    <2> QED
      BY <1>2, <1>3, <2>1 DEF Prefer, DispatchSafe, TypeOK
  <1>8. \A q \in Requests \ {r} : Undisturbed(q)
    BY DEF Prefer, Undisturbed, DispatchSafe, TypeOK
  <1>9. RequestSafe(r)'
    <2>1. Lives(r)' /\ DoomedIsLast(r)'
      BY <1>1, <1>6 DEF RequestSafe, Lives, DoomedIsLast, Prepared, DispatchSafe, TypeOK
    <2>2. \A a : Served(r, a)' <=> Served(r, a)
      BY <1>6 DEF Served
    <2>3. NothingForgotten(r)'
      BY <1>1, <1>5, <1>6, <2>2 DEF RequestSafe, NothingForgotten, UnderWay, Prepared
    <2>4. CandidatesInOrder(r)'
      BY <1>1, <1>6 DEF RequestSafe, CandidatesInOrder
    <2>5. PlainIsServed(r)'
      <3>1. CASE ~Plain(asked[r])
        BY <1>6, <3>1 DEF PlainIsServed
      <3>2. CASE Plain(asked[r])
        <4>1. /\ plan[r] = <<Attempt(asked[r], None, FALSE)>> /\ attempts[r] = plan[r] /\ tried[r] = {}
          BY <1>1, <3>2 DEF RequestSafe, PlainIsServed, UnderWay
        <4>2. x = plan[r]
          BY <1>5, <4>1, OneElement, Zenon
        <4>3. ~FirstCall(r)'
          BY <1>6 DEF FirstCall
        <4> QED
          BY <1>6, <4>1, <4>2, <4>3 DEF PlainIsServed
      <3> QED
        BY <3>1, <3>2
    <2> QED
      BY <2>1, <2>3, <2>4, <2>5 DEF RequestSafe
  <1>10. (SteadyIsActive /\ ServerIsPinned /\ ExpectedIsPinned)'
    <2>1. UNCHANGED <<active, server>> /\ steady[r] \subseteq active
      BY DEF Prefer, DispatchSafe, SteadyIsActive
    <2> QED
      BY <1>2, <1>3, <1>6, <1>8, <2>1, PinsStay
  <1> QED
    BY <1>7, <1>8, <1>9, <1>10, OthersAreSafe DEF DispatchSafe

\* What a request tries that still has an attempt.
LEMMA AttemptTried ==
  ASSUME DispatchSafe, NEW r \in Requests, Trying(r)
  PROVE  /\ attempts[r] \in Seq(AttemptSet) /\ Current(r) \in AttemptSet
         /\ Tail(attempts[r]) \in Seq(AttemptSet)
         /\ Elements(attempts[r]) = Elements(Tail(attempts[r])) \cup {Current(r)}
         /\ Plain(asked[r]) => /\ Current(r) = Attempt(asked[r], None, FALSE)
                               /\ plan[r] = <<Current(r)>> /\ attempts[r] = plan[r] /\ Tail(attempts[r]) = <<>>
                               /\ tried[r] = {}
  <1>1. attempts[r] \in Seq(AttemptSet) /\ attempts[r] # <<>> /\ pc[r] = "attempt" /\ RequestSafe(r)
    BY DEF DispatchSafe, TypeOK, Trying
  <1>2. /\ Current(r) \in AttemptSet /\ Tail(attempts[r]) \in Seq(AttemptSet)
        /\ Elements(attempts[r]) = Elements(Tail(attempts[r])) \cup {Current(r)}
    BY <1>1, TailOf, Zenon DEF Current
  <1>3. ASSUME Plain(asked[r])
        PROVE  /\ Current(r) = Attempt(asked[r], None, FALSE)
               /\ plan[r] = <<Current(r)>> /\ attempts[r] = plan[r] /\ Tail(attempts[r]) = <<>>
               /\ tried[r] = {}
    <2>1. plan[r] = <<Attempt(asked[r], None, FALSE)>> /\ attempts[r] = plan[r] /\ tried[r] = {}
      BY <1>1, <1>3 DEF RequestSafe, PlainIsServed, UnderWay
    <2>2. Current(r) = Attempt(asked[r], None, FALSE) /\ Tail(attempts[r]) = <<>>
      BY <2>1, OneElement, Zenon DEF Current
    <2> QED
      BY <2>1, <2>2
  <1> QED
    BY <1>1, <1>2, <1>3

\* An attempt may be dropped when it is conditional, or everybody who may serve it was asked.
LEMMA DropKeeps ==
  ASSUME DispatchSafe, NEW r \in Requests, Trying(r), UNCHANGED affinityVars,
         NEW err \in {"none", "notfound", "unsupported", "upstream"}, NEW unavailable \in BOOLEAN,
         Drop(r, err, unavailable), Current(r).conditional \/ Served(r, Current(r))
  PROVE  DispatchSafe'
  <1>1. pc[r] = "attempt" /\ RequestSafe(r)
    BY DEF DispatchSafe, Trying
  <1>2. AffinityTypeOK' /\ \A k : Pinned(k)' = Pinned(k)
    BY AffinityStays DEF DispatchSafe, TypeOK
  <1>3. PICK x : x = Tail(attempts[r])
    OBVIOUS
  <1>4. /\ x \in Seq(AttemptSet) /\ Elements(attempts[r]) = Elements(x) \cup {Current(r)}
        /\ Plain(asked[r]) => x = <<>> /\ plan[r] = <<Attempt(asked[r], None, FALSE)>>
    BY <1>3, AttemptTried
  <1>5. /\ pc'[r] = "attempt" /\ asked'[r] = asked[r] /\ attempts'[r] = x /\ plan'[r] = plan[r]
        /\ steady'[r] = steady[r] /\ candidates'[r] = candidates[r] /\ result'[r] = result[r]
        /\ tried'[r] = tried[r] /\ doomed'[r] = doomed[r] /\ expected'[r] = expected[r]
    BY <1>1, <1>3 DEF Drop, DispatchSafe, TypeOK, historyVars
  <1>6. TypeOK'
    <2>1. attempts' \in [Requests -> Seq(AttemptSet)]
      BY <1>3, <1>4 DEF Drop, DispatchSafe, TypeOK
    <2> QED
      BY <1>2, <2>1 DEF Drop, DispatchSafe, TypeOK, historyVars
  <1>7. \A q \in Requests \ {r} : Undisturbed(q)
    BY DEF Drop, Undisturbed, DispatchSafe, TypeOK, historyVars
  <1>8. RequestSafe(r)'
    <2>1. Lives(r)' /\ DoomedIsLast(r)'
      BY <1>1, <1>5 DEF RequestSafe, Lives, DoomedIsLast, Prepared
    <2>2. \A a : Served(r, a)' <=> Served(r, a)
      BY <1>5 DEF Served
    <2>3. NothingForgotten(r)'
      BY <1>1, <1>4, <1>5, <2>2 DEF RequestSafe, NothingForgotten, UnderWay, Prepared
    <2>4. CandidatesInOrder(r)'
      BY <1>1, <1>5 DEF RequestSafe, CandidatesInOrder
    <2>5. PlainIsServed(r)'
      <3>1. ~FirstCall(r)'
        BY <1>5 DEF FirstCall
      <3> QED
        BY <1>4, <1>5, <3>1 DEF PlainIsServed
    <2> QED
      BY <2>1, <2>3, <2>4, <2>5 DEF RequestSafe
  <1>9. (SteadyIsActive /\ ServerIsPinned /\ ExpectedIsPinned)'
    <2>1. UNCHANGED <<active, server>> /\ steady[r] \subseteq active
      BY DEF Drop, DispatchSafe, SteadyIsActive, historyVars
    <2>2. asked[r] \in Keys
      BY <1>1 DEF RequestSafe, Lives
    <2> QED
      BY <1>2, <1>5, <1>7, <2>1, <2>2, PinsStay
  <1> QED
    BY <1>6, <1>7, <1>8, <1>9, OthersAreSafe DEF DispatchSafe

LEMMA SkipAttemptKeeps ==
  ASSUME DispatchSafe, NEW r \in Requests, SkipAttempt(r)
  PROVE  DispatchSafe'
  <1>1. /\ Trying(r) /\ Current(r).conditional /\ UNCHANGED affinityVars
        /\ Drop(r, lastErr[r], previousUnavailable[r])
    BY DEF SkipAttempt, Skipped
  <1>2. /\ lastErr[r] \in {"none", "notfound", "unsupported", "upstream"}
        /\ previousUnavailable[r] \in BOOLEAN
    BY DEF DispatchSafe, TypeOK
  <1> QED
    BY <1>1, <1>2, DropKeeps, Zenon

LEMMA UnsupportedAttemptKeeps ==
  ASSUME DispatchSafe, NEW r \in Requests, UnsupportedAttempt(r)
  PROVE  DispatchSafe'
  <1>1. /\ Trying(r) /\ Unsupported(Current(r)) /\ UNCHANGED affinityVars
        /\ Drop(r, "unsupported", TRUE)
    BY DEF UnsupportedAttempt
  <1>2. Served(r, Current(r))
    <2>1. Current(r).provider \in Evaluators /\ Current(r).provider # None
      BY <1>1, NoneAssumption DEF Unsupported, DispatchSafe, TypeOK
    <2> QED
      BY <2>1 DEF Served, Eligible, Generators
  <1>3. "unsupported" \in {"none", "notfound", "unsupported", "upstream"} /\ TRUE \in BOOLEAN
    OBVIOUS
  <1> QED
    BY <1>1, <1>2, <1>3, DropKeeps, Zenon

LEMMA EmptyAttemptKeeps ==
  ASSUME DispatchSafe, NEW r \in Requests, EmptyAttempt(r)
  PROVE  DispatchSafe'
  <1>1. /\ Trying(r) /\ Route(Current(r)) = <<>> /\ UNCHANGED affinityVars
        /\ Drop(r, "notfound", TRUE)
    BY DEF EmptyAttempt
  <1>2. Served(r, Current(r))
    <2>1. active \subseteq Instances /\ steady[r] \subseteq active
      BY DEF DispatchSafe, TypeOK, SteadyIsActive
    <2>2. PICK cs : cs = PinnedFirst(Route(Current(r)), None)
      OBVIOUS
    <2>3. cs = <<>> <=> Route(Current(r)) = <<>>
      BY <2>1, <2>2, CandidatesServe
    <2>4. Elements(cs) = {j \in active : Eligible(j, Current(r))}
      BY <2>1, <2>2, CandidatesServe
    <2>5. {j \in active : Eligible(j, Current(r))} = {}
      BY <1>1, <2>3, <2>4 DEF Elements
    <2> QED
      BY <2>1, <2>5 DEF Served
  <1>3. "notfound" \in {"none", "notfound", "unsupported", "upstream"} /\ TRUE \in BOOLEAN
    OBVIOUS
  <1> QED
    BY <1>1, <1>2, <1>3, DropKeeps, Zenon

LEMMA PrepareAttemptKeeps ==
  ASSUME DispatchSafe, NEW r \in Requests, PrepareAttempt(r)
  PROVE  DispatchSafe'
  <1>1. /\ Trying(r) /\ pc[r] = "attempt" /\ attempts[r] # <<>> /\ Route(Current(r)) # <<>>
        /\ LookUp(Current(r).model) /\ RequestSafe(r) /\ AffinityTypeOK
        /\ active \subseteq Instances /\ steady[r] \subseteq active
    BY DEF PrepareAttempt, Trying, DispatchSafe, TypeOK, SteadyIsActive
  <1>2. Current(r).model \in Keys /\ asked[r] \in Keys
    BY <1>1, AttemptTried DEF AttemptSet, RequestSafe, Lives
  <1>3. AffinityTypeOK' /\ \A k \in Keys : Pinned(k)' = Pinned(k)
    BY <1>1, <1>2, LookUpKeeps
  <1>4. PICK a, i, x : a = Current(r) /\ i = Pinned(a.model) /\ x = PinnedFirst(Route(a), i)
    OBVIOUS
  <1>5. /\ x \in Seq(Generators) /\ InOrder(x) /\ Elements(x) = {j \in active : Eligible(j, a)}
        /\ x = <<>> <=> Route(a) = <<>>
        /\ i \in active /\ Eligible(i, a) => Head(x) = i
    BY <1>1, <1>4, CandidatesServe
  <1>6. /\ pc'[r] = "candidate" /\ asked'[r] = asked[r] /\ attempts'[r] = attempts[r] /\ plan'[r] = plan[r]
        /\ steady'[r] = steady[r] /\ candidates'[r] = x /\ result'[r] = result[r]
        /\ tried'[r] = tried[r] /\ doomed'[r] = doomed[r] /\ expected'[r] = expected[r]
        /\ Current(r)' = Current(r)
    BY <1>4 DEF PrepareAttempt, DispatchSafe, TypeOK, historyVars, Current
  <1>7. TypeOK'
    <2>1. candidates' \in [Requests -> Seq(Generators)]
      BY <1>4, <1>5 DEF PrepareAttempt, DispatchSafe, TypeOK
    <2>2. FALSE \in BOOLEAN
      OBVIOUS
    <2>3. single' \in [Requests -> BOOLEAN]
      <3>1. PICK b : b = \E n \in 1..Len(Route(Current(r))) : Route(Current(r))[n] \in Copilots
        OBVIOUS
      <3>2. single' = [single EXCEPT ![r] = single[r] \/ b]
        BY <3>1, Zenon DEF PrepareAttempt
      <3>3. (single[r] \/ b) \in BOOLEAN
        BY Zenon
      <3>4. single \in [Requests -> BOOLEAN]
        BY DEF DispatchSafe, TypeOK
      <3> QED
        BY <3>2, <3>3, <3>4, Zenon
    <2> QED
      BY <1>3, <2>1, <2>2, <2>3 DEF PrepareAttempt, DispatchSafe, TypeOK, historyVars
  <1>8. \A q \in Requests \ {r} : Undisturbed(q)
    BY DEF PrepareAttempt, Undisturbed, DispatchSafe, TypeOK, historyVars
  <1>9. RequestSafe(r)'
    <2>1. Lives(r)' /\ DoomedIsLast(r)'
      BY <1>1, <1>4, <1>5, <1>6 DEF RequestSafe, Lives, DoomedIsLast, Prepared
    <2>2. \A b : Served(r, b)' <=> Served(r, b)
      BY <1>6 DEF Served
    <2>3. NothingForgotten(r)'
      <3>1. \A j \in steady[r] : Eligible(j, Current(r)) => j \in Elements(x)
        BY <1>1, <1>4, <1>5
      <3> QED
        BY <1>1, <1>6, <2>2, <3>1 DEF RequestSafe, NothingForgotten, UnderWay, Prepared
    <2>4. CandidatesInOrder(r)'
      BY <1>5, <1>6 DEF CandidatesInOrder
    <2>5. PlainIsServed(r)'
      <3>1. CASE ~Plain(asked[r])
        BY <1>6, <3>1 DEF PlainIsServed
      <3>2. CASE Plain(asked[r])
        <4>1. /\ a = Attempt(asked[r], None, FALSE) /\ plan[r] = <<Attempt(asked[r], None, FALSE)>>
              /\ attempts[r] = plan[r] /\ tried[r] = {}
          BY <1>1, <1>4, <3>2, AttemptTried
        <4>2. ASSUME Preference(r)' # None PROVE Head(x) = Preference(r)'
          <5>1. /\ expected[r] \in steady[r] /\ Preference(r)' = expected[r]
                /\ \E n \in 1..Len(plan[r]) : Eligible(expected[r], plan[r][n])
            BY <1>6, <4>2 DEF Preference
          <5>2. Eligible(expected[r], a)
            <6>1. \A n \in 1..Len(plan[r]) : plan[r][n] = a
              <7>1. \A z : \A n \in 1..Len(<<z>>) : <<z>>[n] = z
                OBVIOUS
              <7> QED
                BY <4>1, <7>1, Zenon
            <6> QED
              BY <5>1, <6>1
          <5>3. a.model = asked[r]
            BY <4>1 DEF Attempt
          <5>4. expected[r] # None
            BY <4>2, <5>1
          <5>5. i = expected[r]
            BY <1>4, <3>2, <5>3, <5>4 DEF DispatchSafe, ExpectedIsPinned
          <5> QED
            BY <1>1, <1>5, <5>1, <5>2, <5>5
        <4>3. ~FirstCall(r)'
          BY <1>6 DEF FirstCall
        <4>4. candidates[r]' = x /\ tried[r]' = {} /\ pc[r]' = "candidate" /\ plan[r]' = plan[r] /\ attempts[r]' = plan[r]
          BY <1>6, <4>1
        <4> QED
          BY <1>6, <4>1, <4>2, <4>3, <4>4 DEF PlainIsServed
      <3> QED
        BY <3>1, <3>2
    <2> QED
      BY <2>1, <2>3, <2>4, <2>5 DEF RequestSafe
  <1>10. (SteadyIsActive /\ ServerIsPinned /\ ExpectedIsPinned)'
    <2>1. UNCHANGED <<active, server>>
      BY DEF PrepareAttempt, historyVars
    <2> QED
      BY <1>1, <1>2, <1>3, <1>6, <1>8, <2>1, PinsStay
  <1> QED
    BY <1>7, <1>8, <1>9, <1>10, OthersAreSafe DEF DispatchSafe

-----------------------------------------------------------------------------
\* --- how a request ends without an answer
\* An end with an error, when nobody was forgotten.
LEMMA EndKeeps ==
  ASSUME DispatchSafe, NEW r \in Requests, UnderWay(r),
         NEW how \in {"canceled", "unresolved", "failed"}, EndWith(r, how),
         UNCHANGED <<affinityVars, active, cursor, asked, stream, client, mode,
                     previousUnavailable, lastErr, single, historyVars>>,
         how = "canceled" \/ \A n \in DOMAIN plan[r] : plan[r][n].conditional \/ Served(r, plan[r][n])
  PROVE  DispatchSafe'
  <1>1. RequestSafe(r) /\ asked[r] \in Keys /\ steady[r] \subseteq active
    BY DEF DispatchSafe, SteadyIsActive, RequestSafe, Lives, UnderWay
  <1>2. AffinityTypeOK' /\ \A k : Pinned(k)' = Pinned(k)
    BY AffinityStays DEF DispatchSafe, TypeOK
  <1>3. /\ pc'[r] = "done" /\ asked'[r] = asked[r] /\ result'[r] = how /\ plan'[r] = plan[r]
        /\ steady'[r] = steady[r] /\ candidates'[r] = <<>>
        /\ tried'[r] = tried[r] /\ doomed'[r] = doomed[r] /\ expected'[r] = expected[r]
    BY DEF EndWith, DispatchSafe, TypeOK, historyVars
  <1>4. TypeOK'
    <2>1. /\ attempts' \in [Requests -> Seq(AttemptSet)] /\ candidates' \in [Requests -> Seq(Generators)]
      <3>1. <<>> \in Seq(AttemptSet) /\ <<>> \in Seq(Generators)
        BY EmptySeq, Zenon
      <3> QED
        BY <3>1 DEF EndWith, DispatchSafe, TypeOK
    <2> QED
      BY <1>2, <2>1 DEF EndWith, DispatchSafe, TypeOK, historyVars
  <1>5. \A q \in Requests \ {r} : Undisturbed(q)
    BY DEF EndWith, Undisturbed, DispatchSafe, TypeOK, historyVars
  <1>6. RequestSafe(r)'
    <2>1. Lives(r)' /\ DoomedIsLast(r)'
      BY <1>1, <1>3 DEF RequestSafe, Lives, DoomedIsLast, Prepared
    <2>2. \A a : Served(r, a)' <=> Served(r, a)
      BY <1>3 DEF Served
    <2>3. NothingForgotten(r)'
      BY <1>3, <2>2 DEF NothingForgotten, UnderWay, Prepared
    <2>4. CandidatesInOrder(r)' /\ PlainIsServed(r)'
      BY <1>3 DEF CandidatesInOrder, InOrder, PlainIsServed, UnderWay
    <2> QED
      BY <2>1, <2>3, <2>4 DEF RequestSafe
  <1>7. (SteadyIsActive /\ ServerIsPinned /\ ExpectedIsPinned)'
    <2>1. UNCHANGED <<active, server>>
      BY DEF historyVars
    <2> QED
      BY <1>1, <1>2, <1>3, <1>5, <2>1, PinsStay
  <1> QED
    BY <1>4, <1>5, <1>6, <1>7, OthersAreSafe DEF DispatchSafe

LEMMA ResolveFailsKeeps ==
  ASSUME DispatchSafe, NEW r \in Requests, ResolveFails(r)
  PROVE  DispatchSafe'
  <1>1. /\ UnderWay(r) /\ EndWith(r, "unresolved") /\ active = {}
        /\ UNCHANGED <<affinityVars, active, cursor, asked, stream, client, mode,
                       previousUnavailable, lastErr, single, historyVars>>
    BY DEF ResolveFails, Trying, UnderWay, Unresolvable
  <1>2. \A a : Served(r, a)
    BY <1>1 DEF DispatchSafe, SteadyIsActive, Served
  <1>3. "unresolved" \in {"canceled", "unresolved", "failed"}
    OBVIOUS
  <1> QED
    BY <1>1, <1>2, <1>3, EndKeeps, Zenon

LEMMA ExhaustedKeeps ==
  ASSUME DispatchSafe, NEW r \in Requests, Exhausted(r)
  PROVE  DispatchSafe'
  <1>1. /\ UnderWay(r) /\ EndWith(r, "failed") /\ attempts[r] = <<>>
        /\ UNCHANGED <<affinityVars, active, cursor, asked, stream, client, mode,
                       previousUnavailable, lastErr, single, historyVars>>
    BY DEF Exhausted, UnderWay
  <1>2. \A n \in DOMAIN plan[r] : plan[r][n].conditional \/ Served(r, plan[r][n])
    <2>1. Elements(attempts[r]) = {}
      BY <1>1 DEF Elements
    <2>2. NothingForgotten(r)
      BY DEF DispatchSafe, RequestSafe
    <2> QED
      BY <1>1, <2>1, <2>2 DEF NothingForgotten
  <1>3. "failed" \in {"canceled", "unresolved", "failed"}
    OBVIOUS
  <1> QED
    BY <1>1, <1>2, <1>3, EndKeeps, Zenon

LEMMA AbortCanceledKeeps ==
  ASSUME DispatchSafe, NEW r \in Requests, AbortCanceled(r)
  PROVE  DispatchSafe'
  <1>1. /\ UnderWay(r) /\ EndWith(r, "canceled")
        /\ UNCHANGED <<affinityVars, active, cursor, asked, stream, client, mode,
                       previousUnavailable, lastErr, single, historyVars>>
    BY DEF AbortCanceled, UnderWay
  <1>2. "canceled" \in {"canceled", "unresolved", "failed"}
    OBVIOUS
  <1> QED
    BY <1>1, <1>2, EndKeeps, Zenon

-----------------------------------------------------------------------------
\* --- candidates are called
\* What a request calls or is about to call.
LEMMA CandidateTried ==
  ASSUME DispatchSafe, NEW r \in Requests, Prepared(r)
  PROVE  /\ candidates[r] \in Seq(Generators) /\ candidates[r] # <<>>
         /\ Head(candidates[r]) \in Instances /\ Head(candidates[r]) = candidates[r][1]
         /\ 1 \in DOMAIN candidates[r] /\ DOMAIN candidates[r] \subseteq Nat
         /\ attempts[r] \in Seq(AttemptSet) /\ attempts[r] # <<>> /\ ModelOf(Current(r)) \in Keys
         /\ Plain(asked[r]) => /\ Current(r) = Attempt(asked[r], None, FALSE)
                               /\ plan[r] = <<Current(r)>> /\ attempts[r] = plan[r] /\ Tail(attempts[r]) = <<>>
                               /\ ModelOf(Current(r)) = asked[r]
  <1>1. /\ candidates[r] \in Seq(Generators) /\ candidates[r] # <<>>
        /\ attempts[r] \in Seq(AttemptSet) /\ attempts[r] # <<>> /\ RequestSafe(r) /\ UnderWay(r)
    BY DEF DispatchSafe, TypeOK, RequestSafe, Lives, Prepared, UnderWay
  <1>2. /\ Head(candidates[r]) \in Generators /\ Head(candidates[r]) = candidates[r][1]
        /\ 1 \in DOMAIN candidates[r] /\ Current(r) \in AttemptSet
    BY <1>1, TailOf, Zenon DEF Current
  <1>3. DOMAIN candidates[r] \subseteq Nat
    BY <1>1
  <1>4. ModelOf(Current(r)) \in Keys
    BY <1>2, RoutingAssumption DEF AttemptSet, ModelOf
  <1>5. ASSUME Plain(asked[r])
        PROVE  /\ Current(r) = Attempt(asked[r], None, FALSE)
               /\ plan[r] = <<Current(r)>> /\ attempts[r] = plan[r] /\ Tail(attempts[r]) = <<>>
               /\ ModelOf(Current(r)) = asked[r]
    <2>1. plan[r] = <<Attempt(asked[r], None, FALSE)>> /\ attempts[r] = plan[r]
      BY <1>1, <1>5 DEF RequestSafe, PlainIsServed
    <2>2. Current(r) = Attempt(asked[r], None, FALSE) /\ Tail(attempts[r]) = <<>>
      BY <2>1, OneElement, Zenon DEF Current
    <2>3. ModelOf(Current(r)) = asked[r]
      BY <1>5, <2>2 DEF ModelOf, Attempt, Plain
    <2> QED
      BY <2>1, <2>2, <2>3
  <1> QED
    BY <1>1, <1>2, <1>3, <1>4, <1>5 DEF Generators

LEMMA CallKeeps ==
  ASSUME DispatchSafe, NEW r \in Requests, Call(r)
  PROVE  DispatchSafe'
  <1>1. pc[r] = "candidate" /\ RequestSafe(r) /\ Prepared(r) /\ UnderWay(r) /\ asked[r] \in Keys
    BY DEF Call, DispatchSafe, RequestSafe, Lives, Prepared, UnderWay
  <1>2. AffinityTypeOK' /\ \A k : Pinned(k)' = Pinned(k)
    BY AffinityStays DEF Call, DispatchSafe, TypeOK
  <1>3. PICK call : call = <<Head(candidates[r]), ModelOf(Current(r))>>
    OBVIOUS
  <1>4. call \in Instances \X Keys
    BY <1>1, <1>3, CandidateTried
  <1>5. /\ pc'[r] = "calling" /\ asked'[r] = asked[r] /\ attempts'[r] = attempts[r] /\ plan'[r] = plan[r]
        /\ steady'[r] = steady[r] /\ candidates'[r] = candidates[r] /\ result'[r] = result[r]
        /\ tried'[r] = tried[r] \cup {call} /\ expected'[r] = expected[r]
        /\ doomed'[r] = IF client[r] THEN doomed[r] ELSE doomed[r] + 1
    BY <1>3 DEF Call, DispatchSafe, TypeOK
  <1>6. Current(r)' = Current(r)
    BY <1>5 DEF Current
  <1>7. TypeOK'
    <2>1. tried' \in [Requests -> SUBSET (Instances \X Keys)]
      BY <1>3, <1>4 DEF Call, DispatchSafe, TypeOK
    <2> QED
      BY <1>2, <2>1 DEF Call, DispatchSafe, TypeOK
  <1>8. \A q \in Requests \ {r} : Undisturbed(q)
    BY DEF Call, Undisturbed, DispatchSafe, TypeOK
  <1>9. RequestSafe(r)'
    <2>1. Lives(r)'
      BY <1>1, <1>3, <1>5, <1>6 DEF RequestSafe, Lives, Prepared
    <2>2. DoomedIsLast(r)'
      <3>1. doomed[r] = 0
        BY <1>1 DEF RequestSafe, DoomedIsLast, DispatchSafe, TypeOK
      <3> QED
        BY <1>5, <3>1 DEF DoomedIsLast
    <2>3. NothingForgotten(r)'
      <3>1. \A a : Served(r, a) => Served(r, a)'
        BY <1>5 DEF Served
      <3> QED
        BY <1>1, <1>5, <1>6, <3>1 DEF RequestSafe, NothingForgotten, UnderWay, Prepared
    <2>4. CandidatesInOrder(r)'
      BY <1>1, <1>5 DEF RequestSafe, CandidatesInOrder
    <2>5. PlainIsServed(r)'
      <3>1. CASE ~Plain(asked[r])
        BY <1>5, <3>1 DEF PlainIsServed
      <3>2. CASE Plain(asked[r])
        <4>1. /\ plan[r] = <<Attempt(asked[r], None, FALSE)>> /\ attempts[r] = plan[r]
              /\ call = <<candidates[r][1], asked[r]>>
              /\ 1 \in DOMAIN candidates[r] /\ DOMAIN candidates[r] \subseteq Nat
          BY <1>1, <1>3, <3>2, CandidateTried
        <4>2. \A n \in DOMAIN candidates[r] : <<candidates[r][n], asked[r]>> \notin tried[r]
          BY <1>1, <3>2 DEF RequestSafe, PlainIsServed
        <4>3. ASSUME NEW n \in DOMAIN candidates[r], n # 1
              PROVE  <<candidates[r][n], asked[r]>> \notin tried'[r]
          <5>1. 1 < n
            <6>1. DOMAIN candidates[r] = 1..Len(candidates[r]) /\ Len(candidates[r]) \in Nat
              BY <1>1, CandidateTried
            <6> QED
              BY <4>3, <6>1
          <5>2. candidates[r][1] # candidates[r][n]
            BY <1>1, <4>1, <5>1 DEF RequestSafe, CandidatesInOrder, InOrder
          <5> QED
            BY <1>5, <4>1, <4>2, <5>2
        <4>4. Preference(r)' = Preference(r)
          BY <1>5 DEF Preference
        <4>5. ASSUME FirstCall(r)', Preference(r)' # None PROVE Head(candidates[r]) = Preference(r)'
          <5>1. tried'[r] = {call}
            BY <1>3, <1>5, <1>6, <4>5 DEF FirstCall
          <5>2. call \notin tried[r]
            BY <4>1, <4>2
          <5>3. tried[r] = {}
            BY <1>5, <5>1, <5>2
          <5> QED
            BY <1>1, <3>2, <4>4, <4>5, <5>3 DEF RequestSafe, PlainIsServed
        <4> QED
          BY <1>5, <4>1, <4>3, <4>5 DEF PlainIsServed
      <3> QED
        BY <3>1, <3>2
    <2> QED
      BY <2>1, <2>2, <2>3, <2>4, <2>5 DEF RequestSafe
  <1>10. (SteadyIsActive /\ ServerIsPinned /\ ExpectedIsPinned)'
    <2>1. UNCHANGED <<active, server>> /\ steady[r] \subseteq active
      BY DEF Call, DispatchSafe, SteadyIsActive
    <2> QED
      BY <1>1, <1>2, <1>5, <1>8, <2>1, PinsStay
  <1> QED
    BY <1>7, <1>8, <1>9, <1>10, OthersAreSafe DEF DispatchSafe

LEMMA FallBackKeeps ==
  ASSUME DispatchSafe, NEW r \in Requests, FallBack(r)
  PROVE  DispatchSafe'
  <1>1. pc[r] = "calling" /\ doomed[r] = 0 /\ RequestSafe(r) /\ asked[r] \in Keys
    BY DEF FallBack, DispatchSafe, RequestSafe, Lives
  <1>2. AffinityTypeOK' /\ \A k : Pinned(k)' = Pinned(k)
    BY AffinityStays DEF FallBack, DispatchSafe, TypeOK
  <1>3. /\ pc'[r] = pc[r] /\ asked'[r] = asked[r] /\ attempts'[r] = attempts[r] /\ plan'[r] = plan[r]
        /\ steady'[r] = steady[r] /\ candidates'[r] = candidates[r] /\ result'[r] = result[r]
        /\ tried'[r] = tried[r] /\ expected'[r] = expected[r]
        /\ doomed'[r] \in {0, 1}
    BY <1>1 DEF FallBack, DispatchSafe, TypeOK
  <1>4. TypeOK'
    BY <1>2 DEF FallBack, DispatchSafe, TypeOK
  <1>5. \A q \in Requests \ {r} : Undisturbed(q)
    BY DEF FallBack, Undisturbed, DispatchSafe, TypeOK
  <1>6. RequestSafe(r)'
    <2>1. DoomedIsLast(r)'
      BY <1>1, <1>3 DEF DoomedIsLast
    <2>2. Preference(r)' = Preference(r) /\ Current(r)' = Current(r) /\ FirstCall(r)' = FirstCall(r)
      BY <1>3 DEF Preference, Current, FirstCall
    <2>3. Lives(r)' /\ CandidatesInOrder(r)'
      BY <1>1, <1>3, <2>2 DEF RequestSafe, Lives, Prepared, CandidatesInOrder
    <2>4. NothingForgotten(r)'
      <3>1. \A a : Served(r, a)' <=> Served(r, a)
        BY <1>3 DEF Served
      <3> QED
        BY <1>1, <1>3, <2>2, <3>1 DEF RequestSafe, NothingForgotten, UnderWay, Prepared
    <2>5. PlainIsServed(r)'
      BY <1>1, <1>3, <2>2 DEF RequestSafe, PlainIsServed, UnderWay
    <2> QED
      BY <2>1, <2>3, <2>4, <2>5 DEF RequestSafe
  <1>7. (SteadyIsActive /\ ServerIsPinned /\ ExpectedIsPinned)'
    <2>1. UNCHANGED <<active, server>> /\ steady[r] \subseteq active
      BY DEF FallBack, DispatchSafe, SteadyIsActive
    <2> QED
      BY <1>1, <1>2, <1>3, <1>5, <2>1, PinsStay
  <1> QED
    BY <1>4, <1>5, <1>6, <1>7, OthersAreSafe DEF DispatchSafe

LEMMA FailCandidateKeeps ==
  ASSUME DispatchSafe, NEW r \in Requests, FailCandidate(r)
  PROVE  DispatchSafe'
  <1>1. /\ pc[r] = "calling" /\ doomed[r] = 0 /\ RequestSafe(r) /\ Prepared(r) /\ asked[r] \in Keys
    BY DEF FailCandidate, DispatchSafe, RequestSafe, Lives, Prepared
  <1>2. AffinityTypeOK' /\ \A k : Pinned(k)' = Pinned(k)
    BY AffinityStays DEF FailCandidate, DispatchSafe, TypeOK
  <1>3. PICK x, y, call :
          x = Tail(candidates[r]) /\ y = Tail(attempts[r]) /\ call = <<Head(candidates[r]), ModelOf(Current(r))>>
    OBVIOUS
  <1>4. /\ x \in Seq(Generators) /\ Elements(candidates[r]) = Elements(x) \cup {Head(candidates[r])}
        /\ \A n \in DOMAIN x : n \in Nat /\ n + 1 \in DOMAIN candidates[r] /\ n + 1 # 1 /\ x[n] = candidates[r][n + 1]
    <2>1. candidates[r] \in Seq(Generators) /\ candidates[r] # <<>>
      BY <1>1, CandidateTried, Zenon
    <2>2. x \in Seq(Generators) /\ Elements(candidates[r]) = Elements(x) \cup {Head(candidates[r])}
      BY <1>3, <2>1, TailOf, Zenon
    <2>3. \A n \in DOMAIN x : n \in Nat /\ n + 1 \in DOMAIN candidates[r] /\ n + 1 # 1 /\ x[n] = candidates[r][n + 1]
      BY <1>3, <2>1, TailOf
    <2> QED
      BY <2>2, <2>3
  <1>5. y \in Seq(AttemptSet) /\ Elements(attempts[r]) = Elements(y) \cup {Current(r)}
    BY <1>1, <1>3, CandidateTried, TailOf, Zenon DEF Current
  <1>6. call \in tried[r]
    BY <1>1, <1>3 DEF RequestSafe, Lives
  <1>7. /\ asked'[r] = asked[r] /\ plan'[r] = plan[r] /\ steady'[r] = steady[r] /\ candidates'[r] = x
        /\ result'[r] = result[r] /\ tried'[r] = tried[r] /\ expected'[r] = expected[r] /\ doomed'[r] = 0
    BY <1>1, <1>3 DEF FailCandidate, DispatchSafe, TypeOK, historyVars
  <1>8. /\ x = <<>> => pc'[r] = "attempt" /\ attempts'[r] = y
        /\ x # <<>> => pc'[r] = "candidate" /\ attempts'[r] = attempts[r]
    BY <1>3 DEF FailCandidate, DispatchSafe, TypeOK
  <1>9. TypeOK'
    <2>1. candidates' \in [Requests -> Seq(Generators)]
      BY <1>3, <1>4 DEF FailCandidate, DispatchSafe, TypeOK
    <2>2. attempts' \in [Requests -> Seq(AttemptSet)] /\ pc' \in [Requests -> {"idle", "prefer", "attempt", "candidate", "calling", "done"}]
      BY <1>3, <1>5 DEF FailCandidate, DispatchSafe, TypeOK
    <2> QED
      BY <1>2, <2>1, <2>2 DEF FailCandidate, DispatchSafe, TypeOK, historyVars
  <1>10. \A q \in Requests \ {r} : Undisturbed(q)
    BY DEF FailCandidate, Undisturbed, DispatchSafe, TypeOK, historyVars
  <1>11. \A a : Served(r, a)' <=> Served(r, a)
    BY <1>7 DEF Served
  <1>12. RequestSafe(r)'
    <2>1. DoomedIsLast(r)' /\ Lives(r)'
      BY <1>1, <1>7, <1>8 DEF RequestSafe, DoomedIsLast, Lives, Prepared
    <2>2. CandidatesInOrder(r)'
      <3> SUFFICES ASSUME NEW m \in DOMAIN x, NEW n \in DOMAIN x, m < n
                   PROVE  x[m] # x[n] /\ Rank[x[m]] < Rank[x[n]]
        BY <1>7 DEF CandidatesInOrder, InOrder
      <3>1. m + 1 < n + 1
        BY <1>4
      <3> QED
        BY <1>1, <1>4, <3>1 DEF RequestSafe, CandidatesInOrder, InOrder
    <2>3. NothingForgotten(r)'
      <3>1. CASE x = <<>>
        <4>0. Elements(x) = {}
          BY <3>1 DEF Elements
        <4>1. Elements(candidates[r]) = {Head(candidates[r])}
          BY <1>4, <4>0
        <4>2. Served(r, Current(r))
          BY <1>1, <1>3, <1>6, <4>1 DEF RequestSafe, NothingForgotten, Served
        <4> QED
          BY <1>1, <1>5, <1>7, <1>8, <1>11, <3>1, <4>2
             DEF RequestSafe, NothingForgotten, UnderWay, Prepared, Lives
      <3>2. CASE x # <<>>
        <4>1. Current(r)' = Current(r)
          BY <1>8, <3>2 DEF Current
        <4>2. \A i \in steady[r] : Eligible(i, Current(r)) =>
                i \in Elements(x) \/ <<i, ModelOf(Current(r))>> \in tried[r]
          BY <1>1, <1>3, <1>4, <1>6 DEF RequestSafe, NothingForgotten
        <4> QED
          BY <1>1, <1>7, <1>8, <1>11, <3>2, <4>1, <4>2
             DEF RequestSafe, NothingForgotten, UnderWay, Prepared, Lives
      <3> QED
        BY <3>1, <3>2
    <2>4. PlainIsServed(r)'
      <3>1. CASE ~Plain(asked[r])
        BY <1>7, <3>1 DEF PlainIsServed
      <3>2. CASE Plain(asked[r])
        <4>1. plan[r] = <<Attempt(asked[r], None, FALSE)>> /\ attempts[r] = plan[r] /\ y = <<>>
          BY <1>1, <1>3, <3>2, CandidateTried
        <4>2. ~FirstCall(r)' /\ tried[r] # {}
          BY <1>6, <1>8 DEF FirstCall
        <4>3. \A n \in DOMAIN x : <<x[n], asked[r]>> \notin tried[r]
          BY <1>1, <1>4, <3>2 DEF RequestSafe, PlainIsServed, UnderWay
        <4> QED
          BY <1>7, <1>8, <4>1, <4>2, <4>3 DEF PlainIsServed
      <3> QED
        BY <3>1, <3>2
    <2> QED
      BY <2>1, <2>2, <2>3, <2>4 DEF RequestSafe
  <1>13. (SteadyIsActive /\ ServerIsPinned /\ ExpectedIsPinned)'
    <2>1. UNCHANGED <<active, server>> /\ steady[r] \subseteq active
      BY DEF FailCandidate, DispatchSafe, SteadyIsActive, historyVars
    <2> QED
      BY <1>1, <1>2, <1>7, <1>10, <2>1, PinsStay
  <1> QED
    BY <1>9, <1>10, <1>12, <1>13, OthersAreSafe DEF DispatchSafe

LEMMA SucceedKeeps ==
  ASSUME DispatchSafe, NEW r \in Requests, Succeed(r)
  PROVE  DispatchSafe'
  <1>1. /\ pc[r] = "calling" /\ doomed[r] = 0 /\ RequestSafe(r) /\ Prepared(r) /\ asked[r] \in Keys
        /\ AffinityTypeOK
    BY DEF Succeed, DispatchSafe, TypeOK, RequestSafe, Lives, Prepared
  <1>2. PICK i, m : i = Head(candidates[r]) /\ m = ModelOf(Current(r))
    OBVIOUS
  <1>3. i \in Instances /\ m \in Keys /\ (Plain(asked[r]) => m = asked[r])
    BY <1>1, <1>2, CandidateTried
  <1>4. /\ Record(m, i) /\ EndWith(r, "answered") /\ expected' = [q \in Requests |-> None]
        /\ server' = [k \in Keys |->
                        IF k \in {asked[r], m} THEN IF data'[m] = None THEN None ELSE i
                        ELSE IF data'[k] = None THEN None ELSE server[k]]
        /\ UNCHANGED <<active, cursor, asked, stream, client, mode, previousUnavailable,
                       lastErr, single, plan, steady, tried, doomed>>
    BY <1>2 DEF Succeed
  <1>5. /\ AffinityTypeOK'
        /\ \A j \in Keys : Pinned(j)' = Pinned(j) \/ data'[j] = None \/ j = m
        /\ data'[m] # None => Pinned(m)' = i
    BY <1>1, <1>3, <1>4, RecordKeeps
  <1>6. /\ pc'[r] = "done" /\ asked'[r] = asked[r] /\ result'[r] = "answered" /\ candidates'[r] = <<>>
        /\ doomed'[r] = 0
    BY <1>1, <1>4 DEF EndWith, DispatchSafe, TypeOK
  <1>7. TypeOK'
    <2>1. /\ attempts' \in [Requests -> Seq(AttemptSet)] /\ candidates' \in [Requests -> Seq(Generators)]
      <3>1. <<>> \in Seq(AttemptSet) /\ <<>> \in Seq(Generators)
        BY EmptySeq, Zenon
      <3> QED
        BY <1>4, <3>1 DEF EndWith, DispatchSafe, TypeOK
    <2>2. server' \in [Keys -> Instances \cup {None}]
      <3>1. \A k \in Keys : server[k] \in Instances \cup {None}
        BY DEF DispatchSafe, TypeOK
      <3> QED
        BY <1>3, <1>4, <3>1
    <2> QED
      BY <1>4, <1>5, <2>1, <2>2 DEF EndWith, DispatchSafe, TypeOK
  <1>8. \A q \in Requests \ {r} : Undisturbed(q)
    BY <1>4 DEF EndWith, Undisturbed, DispatchSafe, TypeOK
  <1>9. RequestSafe(r)'
    <2>1. Lives(r)' /\ DoomedIsLast(r)' /\ NothingForgotten(r)'
      BY <1>1, <1>6 DEF Lives, DoomedIsLast, NothingForgotten, UnderWay, Prepared
    <2>2. CandidatesInOrder(r)' /\ PlainIsServed(r)'
      BY <1>6 DEF CandidatesInOrder, InOrder, PlainIsServed, UnderWay
    <2> QED
      BY <2>1, <2>2 DEF RequestSafe
  <1>10. SteadyIsActive' /\ ExpectedIsPinned'
    BY <1>4 DEF DispatchSafe, SteadyIsActive, ExpectedIsPinned
  <1>11. ServerIsPinned'
    <2> SUFFICES ASSUME NEW k \in Keys, server'[k] # None, Plain(k)
                 PROVE  Pinned(k)' = server'[k]
      BY DEF ServerIsPinned
    <2>1. CASE k = m
      BY <1>4, <1>5, <2>1
    <2>2. CASE k # m
      <3>1. k # asked[r]
        BY <1>3, <2>2
      <3>2. data'[k] # None /\ server'[k] = server[k]
        BY <1>4, <2>2, <3>1
      <3> QED
        BY <1>5, <2>2, <3>2 DEF DispatchSafe, ServerIsPinned
    <2> QED
      BY <2>1, <2>2
  <1> QED
    BY <1>7, <1>8, <1>9, <1>10, <1>11, OthersAreSafe DEF DispatchSafe

-----------------------------------------------------------------------------
\* --- the specification
LEMMA DispatchStarts == Init => DispatchSafe
  <1> SUFFICES ASSUME Init PROVE DispatchSafe
    OBVIOUS
  <1>1. AffinityTypeOK
    <2>1. Cached(data) = {}
      BY DEF Init, AffinityInit, Cached
    <2>2. Cardinality(Cached(data)) = 0
      BY <2>1, FS_EmptySet
    <2>3. order \in Seq(Keys) /\ data \in [Keys -> Entries \cup {None}]
      BY DEF Init, AffinityInit
    <2> QED
      BY <2>1, <2>2, <2>3, EntriesAssumption DEF AffinityTypeOK, CacheBounded
  <1>2. TypeOK
    <2>1. /\ attempts \in [Requests -> Seq(AttemptSet)] /\ plan \in [Requests -> Seq(AttemptSet)]
          /\ candidates \in [Requests -> Seq(Generators)]
      <3>1. <<>> \in Seq(AttemptSet) /\ <<>> \in Seq(Generators)
        BY EmptySeq, Zenon
      <3> QED
        BY <3>1 DEF Init
    <2>2. TRUE \in BOOLEAN /\ FALSE \in BOOLEAN
      OBVIOUS
    <2>3. cursor \in 0..Len(Upstreams)
      BY RoutingAssumption DEF Init
    <2> QED
      BY <1>1, <2>1, <2>2, <2>3 DEF Init, TypeOK
  <1>3. ASSUME NEW r \in Requests PROVE RequestSafe(r)
    <2>1. /\ pc[r] = "idle" /\ result[r] = "none" /\ expected[r] = None /\ tried[r] = {}
          /\ doomed[r] = 0 /\ candidates[r] = <<>>
      BY DEF Init
    <2> QED
      BY <2>1 DEF RequestSafe, Lives, DoomedIsLast, NothingForgotten, CandidatesInOrder, InOrder,
                  PlainIsServed, UnderWay, Prepared
  <1>4. SteadyIsActive /\ ServerIsPinned /\ ExpectedIsPinned
    BY DEF Init, SteadyIsActive, ServerIsPinned, ExpectedIsPinned
  <1> QED
    BY <1>2, <1>3, <1>4 DEF DispatchSafe

LEMMA DispatchStays == DispatchSafe /\ [Next]_vars => DispatchSafe'
  <1> SUFFICES ASSUME DispatchSafe, [Next]_vars PROVE DispatchSafe'
    OBVIOUS
  <1>1. ASSUME NEW r \in Requests, Arrive(r) \/ Reject(r) \/ Leave(r) \/ Disconnect(r)
        PROVE  DispatchSafe'
    BY <1>1, ArriveKeeps, RejectKeeps, LeaveKeeps, DisconnectKeeps
  <1>2. ASSUME NEW r \in Requests, Step(r) PROVE DispatchSafe'
    <2>1. CASE Prefer(r) \/ SkipAttempt(r) \/ UnsupportedAttempt(r) \/ EmptyAttempt(r) \/ PrepareAttempt(r)
      BY <2>1, PreferKeeps, SkipAttemptKeeps, UnsupportedAttemptKeeps, EmptyAttemptKeeps, PrepareAttemptKeeps
    <2>2. CASE ResolveFails(r) \/ Exhausted(r) \/ AbortCanceled(r)
      BY <2>2, ResolveFailsKeeps, ExhaustedKeeps, AbortCanceledKeeps
    <2>3. CASE Call(r) \/ Succeed(r) \/ FallBack(r) \/ FailCandidate(r)
      BY <2>3, CallKeeps, SucceedKeeps, FallBackKeeps, FailCandidateKeeps
    <2> QED
      BY <1>2, <2>1, <2>2, <2>3 DEF Step
  <1>3. ASSUME NEW i \in Unstable, Switch(i) PROVE DispatchSafe'
    BY <1>3, SwitchKeeps
  <1>4. ASSUME NEW k \in Keys, Age(k) PROVE DispatchSafe'
    BY <1>4, AgeKeeps
  <1>5. CASE UNCHANGED vars
    <2>1. UNCHANGED <<affinityVars, active, cursor, requestVars, historyVars>>
      BY <1>5 DEF vars
    <2>2. TypeOK'
      BY <2>1 DEF DispatchSafe, TypeOK, AffinityTypeOK, CacheBounded, affinityVars, requestVars, historyVars
    <2>3. \A q \in Requests : Undisturbed(q)
      BY <2>1 DEF Undisturbed, requestVars, historyVars
    <2>4. \A q \in Requests : RequestSafe(q)'
      BY <2>3, UndisturbedIsSafe DEF DispatchSafe
    <2>5. (SteadyIsActive /\ ServerIsPinned /\ ExpectedIsPinned)'
      BY <2>1 DEF DispatchSafe, SteadyIsActive, ServerIsPinned, ExpectedIsPinned, Pinned,
                  affinityVars, requestVars, historyVars
    <2> QED
      BY <2>2, <2>4, <2>5 DEF DispatchSafe
  <1> QED
    BY <1>1, <1>2, <1>3, <1>4, <1>5 DEF Next

LEMMA DispatchIsSafe == Spec => []DispatchSafe
  BY DispatchStarts, DispatchStays, PTL DEF Spec

(***************************************************************************)
(* A request's plan, candidates, context and result, its position in the   *)
(* walk over them and the pins of the affinity cache keep to their types,  *)
(* and the cache to its capacity, for any number of requests and instances *)
(* and whatever the operator changes meanwhile.                            *)
(***************************************************************************)
THEOREM DispatchType == Spec => []TypeOK
  <1>1. DispatchSafe => TypeOK
    BY DEF DispatchSafe
  <1> QED
    BY <1>1, DispatchIsSafe, PTL

(***************************************************************************)
(* A client that leaves costs at most one call on the dead context,        *)
(* however many requests, candidates and upstreams there are.              *)
(***************************************************************************)
THEOREM DepartureCostsOneCall == Spec => []AtMostOneDoomedCall
  <1>1. DispatchSafe => AtMostOneDoomedCall
    BY DEF DispatchSafe, RequestSafe, DoomedIsLast, AtMostOneDoomedCall
  <1> QED
    BY <1>1, DispatchIsSafe, PTL

(***************************************************************************)
(* TryAttempts forgets no alternative and keeps to the priorities: when a  *)
(* request fails, every instance active since the expansion that serves an *)
(* unconditional attempt was called for it, whatever the operator, the     *)
(* other requests and the pins did; and affinity moves one candidate only. *)
(***************************************************************************)
THEOREM NobodyIsForgotten == Spec => []FallbackIsComplete
  <1>1. DispatchSafe => NoAlternativeForgotten
    <2> SUFFICES ASSUME DispatchSafe, NEW r \in Requests, result[r] \in {"failed", "unresolved"},
                        NEW n \in 1..Len(plan[r]), ~plan[r][n].conditional
                 PROVE  \A i \in steady[r] : Eligible(i, plan[r][n]) => <<i, ModelOf(plan[r][n])>> \in tried[r]
      BY DEF NoAlternativeForgotten
    <2>1. NothingForgotten(r) /\ n \in DOMAIN plan[r]
      BY DEF DispatchSafe, RequestSafe, TypeOK
    <2> QED
      BY <2>1 DEF NothingForgotten, Served
  <1>2. DispatchSafe => FallbackKeepsPriority
    <2> SUFFICES ASSUME DispatchSafe, NEW r \in Requests,
                        NEW m \in 2..Len(candidates[r]), NEW n \in 2..Len(candidates[r]), m < n
                 PROVE  Rank[candidates[r][m]] < Rank[candidates[r][n]]
      BY DEF FallbackKeepsPriority
    <2>1. CandidatesInOrder(r) /\ candidates[r] \in Seq(Generators)
      BY DEF DispatchSafe, RequestSafe, TypeOK
    <2>2. m \in DOMAIN candidates[r] /\ n \in DOMAIN candidates[r] /\ m # 1
      BY <2>1
    <2> QED
      BY <2>1, <2>2 DEF CandidatesInOrder, InOrder
  <1> QED
    BY <1>1, <1>2, DispatchIsSafe, PTL DEF FallbackIsComplete

(***************************************************************************)
(* Preparation consults the pin the last answer recorded: a conversation   *)
(* that asks for a model by the name its providers know returns to its     *)
(* server, unless the pin expired, was evicted, or another request has     *)
(* recorded one since it was looked up.                                    *)
(***************************************************************************)
THEOREM ConversationsReturn == Spec => []ReturnsToServer
  <1>1. DispatchSafe => ReturnsToServer
    <2> SUFFICES ASSUME DispatchSafe, NEW r \in Requests, FirstCall(r), Preference(r) # None,
                        ~IsVirtual(asked[r]), Qualified[asked[r]] = None, Canonical[asked[r]] = asked[r]
                 PROVE  Head(candidates[r]) = Preference(r)
      BY DEF ReturnsToServer
    <2>1. PlainIsServed(r) /\ UnderWay(r) /\ Plain(asked[r])
      BY DEF DispatchSafe, RequestSafe, UnderWay, FirstCall, Plain
    <2> QED
      BY <2>1 DEF PlainIsServed
  <1> QED
    BY <1>1, DispatchIsSafe, PTL
=============================================================================
