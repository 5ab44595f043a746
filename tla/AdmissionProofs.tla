---------------------------- MODULE AdmissionProofs ----------------------------
(***************************************************************************)
(* The rate limiter's safety properties, for any set of requests and any   *)
(* interval, and those of admission, which has it behind a semaphore.  The *)
(* pacer's inductive invariant adds to its three properties what relates   *)
(* the ghosts to the code's state:                                         *)
(*   - AgesCovered: lastGranted is the latest admission, so that a due     *)
(*     interval is due for every earlier admission;                        *)
(*   - AheadInOrder: the queue keeps arrival order under cancellations;    *)
(*   - IdleIsNotAhead: nobody is recorded as queued before it arrived.     *)
(* Of admission two things are shown, for any number of slots: the         *)
(* middleware does nothing to the pacer that the pacer does not do by      *)
(* itself, so that whatever is proved of the rate limiter alone holds      *)
(* behind the concurrency limit; and the semaphore counts the requests     *)
(* inside.  The second needs that the set of them is finite, which it is   *)
(* because each of them took a slot.                                       *)
(***************************************************************************)
EXTENDS Admission, FiniteSetTheorems, SequenceTheorems, TLAPS

\* --- the pacer alone
AgesCovered == \A r \in Requests : pc[r] = "granted" => sinceGrant <= age[r]

AheadInOrder ==
  \A i, j \in 1..Len(queue) : queue[j] \in ahead[queue[i]] => j < i

IdleIsNotAhead ==
  \A r, s \in Requests : pc[r] = "idle" => r \notin ahead[s]

Safe ==
  /\ TypeOK
  /\ SpacedGrants
  /\ QueueIsWaiters
  /\ NoOvertaking
  /\ AgesCovered
  /\ AheadInOrder
  /\ IdleIsNotAhead

-----------------------------------------------------------------------------
\* What cutting the i-th reservation out of the queue leaves.
LEMMA WithoutIsSeq ==
  ASSUME NEW S, NEW q \in Seq(S), NEW i \in 1..Len(q)
  PROVE  /\ Without(q, i) \in Seq(S)
         /\ Len(Without(q, i)) = Len(q) - 1
         /\ \A j \in 1..(Len(q) - 1) :
              Without(q, i)[j] = IF j < i THEN q[j] ELSE q[j + 1]
  <1>1. Len(q) \in Nat /\ Len(q) - 1 \in Nat
    OBVIOUS
  <1>2. \A j \in 1..(Len(q) - 1) :
          (IF j < i THEN q[j] ELSE q[j + 1]) \in S
    BY <1>1
  <1>3. Without(q, i) \in [1..(Len(q) - 1) -> S]
    BY <1>2 DEF Without
  <1> QED
    BY <1>1, <1>3 DEF Without

\* The i-th reservation is gone; every other one is kept.
LEMMA WithoutRange ==
  ASSUME NEW S, NEW q \in Seq(S), NEW i \in 1..Len(q),
         \A j, k \in 1..Len(q) : q[j] = q[k] => j = k
  PROVE  {Without(q, i)[j] : j \in 1..(Len(q) - 1)}
           = {q[j] : j \in 1..Len(q)} \ {q[i]}
  <1> DEFINE w == Without(q, i)
  <1>1. \A j \in 1..(Len(q) - 1) : w[j] = IF j < i THEN q[j] ELSE q[j + 1]
    BY WithoutIsSeq
  <1>2. ASSUME NEW j \in 1..(Len(q) - 1)
        PROVE  w[j] \in {q[k] : k \in 1..Len(q)} \ {q[i]}
    <2>1. CASE j < i
      BY <1>1, <2>1
    <2>2. CASE ~(j < i)
      BY <1>1, <2>2
    <2> QED
      BY <2>1, <2>2
  <1>3. ASSUME NEW k \in 1..Len(q), q[k] # q[i]
        PROVE  \E j \in 1..(Len(q) - 1) : w[j] = q[k]
    <2>1. CASE k < i
      BY <1>1, <2>1
    <2>2. CASE k > i
      <3>1. k - 1 \in 1..(Len(q) - 1) /\ ~(k - 1 < i) /\ (k - 1) + 1 = k
        BY <2>2
      <3> QED
        BY <1>1, <3>1
    <2> QED
      BY <1>3, <2>1, <2>2
  <1>4. \A j \in 1..(Len(q) - 1) : w[j] \in {q[k] : k \in 1..Len(q)} \ {q[i]}
    BY <1>2
  <1>5. \A k \in 1..Len(q) : q[k] # q[i] => \E j \in 1..(Len(q) - 1) : w[j] = q[k]
    BY <1>3
  <1> HIDE DEF w
  <1>6. {w[j] : j \in 1..(Len(q) - 1)} = {q[k] : k \in 1..Len(q)} \ {q[i]}
    <2> DEFINE L == {w[j] : j \in 1..(Len(q) - 1)}
               R == {q[k] : k \in 1..Len(q)} \ {q[i]}
    <2>1. ASSUME NEW x \in L PROVE x \in R
      BY <1>4, <2>1
    <2>2. ASSUME NEW x \in R PROVE x \in L
      <3>1. PICK k \in 1..Len(q) : x = q[k] /\ q[k] # q[i]
        BY <2>2
      <3>2. PICK j \in 1..(Len(q) - 1) : w[j] = q[k]
        BY <1>5, <3>1
      <3> QED
        BY <3>1, <3>2
    <2> QED
      BY <2>1, <2>2
  <1> QED
    BY <1>6 DEF w

-----------------------------------------------------------------------------
LEMMA InitSafe == Init => Safe
  <1> SUFFICES ASSUME Init PROVE Safe
    OBVIOUS
  <1>1. TypeOK
    BY IntervalAssumption DEF Init, TypeOK, Waiting, Ended
  <1>2. Len(queue) = 0 /\ Queued = {}
    BY DEF Init, Queued
  <1> QED
    BY <1>1, <1>2 DEF Init, Safe, SpacedGrants, QueueIsWaiters, NoOvertaking,
       AgesCovered, AheadInOrder, IdleIsNotAhead, Waiting

\* A step that touches neither the queue nor the admissions keeps Safe.
LEMMA LocalStep ==
  ASSUME Safe, TypeOK', UNCHANGED <<queue, ahead, sinceGrant, age>>,
         NEW r \in Requests, NEW to,
         pc' = [pc EXCEPT ![r] = to],
         to # "granted", to # "idle", pc[r] # "granted",
         (pc[r] \in Waiting) <=> (to \in Waiting)
  PROVE  Safe'
  <1>1. \A s \in Requests : (pc'[s] = "granted") <=> (pc[s] = "granted")
    BY DEF Safe, TypeOK
  <1>2. \A s \in Requests : (pc'[s] \in Waiting) <=> (pc[s] \in Waiting)
    BY DEF Safe, TypeOK
  <1>3. \A s \in Requests : pc'[s] = "idle" => pc[s] = "idle"
    BY DEF Safe, TypeOK
  <1>4. Queued' = Queued
    BY DEF Queued
  <1>5. SpacedGrants'
    BY <1>1 DEF Safe, SpacedGrants
  <1>6. QueueIsWaiters'
    BY <1>2, <1>4 DEF Safe, QueueIsWaiters
  <1>7. NoOvertaking'
    BY <1>1, <1>4 DEF Safe, NoOvertaking
  <1>8. AgesCovered'
    BY <1>1 DEF Safe, AgesCovered
  <1>9. AheadInOrder'
    BY DEF Safe, AheadInOrder
  <1>10. IdleIsNotAhead'
    BY <1>3 DEF Safe, IdleIsNotAhead
  <1> QED
    BY <1>5, <1>6, <1>7, <1>8, <1>9, <1>10 DEF Safe

-----------------------------------------------------------------------------
\* A caller in the loop has a reservation: the queue is not empty.
LEMMA LoopIsQueued ==
  ASSUME Safe, NEW r \in Requests, pc[r] \in Waiting
  PROVE  /\ queue # <<>>
         /\ \E i \in 1..Len(queue) : queue[i] = r
         /\ Position(r) \in 1..Len(queue)
         /\ queue[Position(r)] = r
  <1>1. r \in Queued
    BY DEF Safe, QueueIsWaiters
  <1>2. PICK i \in 1..Len(queue) : queue[i] = r
    BY <1>1 DEF Queued
  <1>3. queue # <<>>
    BY <1>2 DEF Safe, TypeOK
  <1>4. Position(r) \in 1..Len(queue) /\ queue[Position(r)] = r
    BY <1>2 DEF Position
  <1> QED
    BY <1>2, <1>3, <1>4

\* The type invariant, one step per action.
LEMMA TypeStep == Safe /\ [Next]_vars => TypeOK'
  <1> SUFFICES ASSUME Safe, [Next]_vars PROVE TypeOK'
    OBVIOUS
  <1> USE IntervalAssumption DEF TypeOK, Waiting, Ended
  <1> TypeOK
    BY DEF Safe
  <1>1. CASE Tick
    BY <1>1 DEF Tick, Older
  <1>2. ASSUME NEW r \in Requests, EndContext(r) PROVE TypeOK'
    BY <1>2 DEF EndContext
  <1>3. ASSUME NEW r \in Requests, AdmitAtOnce(r) PROVE TypeOK'
    BY <1>3 DEF AdmitAtOnce, Admit, Queued
  <1>4. ASSUME NEW r \in Requests, Reject(r) PROVE TypeOK'
    BY <1>4 DEF Reject
  <1>5. ASSUME NEW r \in Requests, Reserve(r) PROVE TypeOK'
    BY <1>5 DEF Reserve, NotifyLocked, Queued
  <1>6. ASSUME NEW r \in Requests, AdmitFirst(r) PROVE TypeOK'
    <2>1. queue # <<>>
      BY <1>6, LoopIsQueued DEF AdmitFirst
    <2>2. Tail(queue) \in Seq(Requests)
      BY <2>1
    <2> QED
      BY <1>6, <2>2 DEF AdmitFirst, Admit, NotifyLocked
  <1>7. ASSUME NEW r \in Requests, KeepWaiting(r) PROVE TypeOK'
    BY <1>7 DEF KeepWaiting
  <1>8. ASSUME NEW r \in Requests, StartTimer(r) PROVE TypeOK'
    BY <1>8 DEF StartTimer
  <1>9. ASSUME NEW r \in Requests, Wake(r) PROVE TypeOK'
    BY <1>9 DEF Wake
  <1>10. ASSUME NEW r \in Requests, SeeCancel(r) PROVE TypeOK'
    BY <1>10 DEF SeeCancel
  <1>11. ASSUME NEW r \in Requests, CancelReservation(r) PROVE TypeOK'
    <2>1. Position(r) \in 1..Len(queue)
      BY <1>11, LoopIsQueued DEF CancelReservation
    <2>2. Without(queue, Position(r)) \in Seq(Requests)
      BY <2>1, WithoutIsSeq
    <2> QED
      BY <1>11, <2>2 DEF CancelReservation, NotifyLocked
  <1>12. CASE UNCHANGED vars
    BY <1>12 DEF vars
  <1> QED
    BY <1>1, <1>2, <1>3, <1>4, <1>5, <1>6, <1>7, <1>8, <1>9, <1>10, <1>11,
       <1>12 DEF Next, Step

-----------------------------------------------------------------------------
\* Admission, by either path: the interval is due for every earlier admission.
LEMMA AdmitKeepsSpacing ==
  ASSUME Safe, NEW r \in Requests, Due, Admit(r)
  PROVE  SpacedGrants' /\ AgesCovered'
  <1> USE IntervalAssumption DEF Safe, TypeOK
  <1>1. \A s \in Requests : pc'[s] = "granted" => s = r \/ pc[s] = "granted"
    BY DEF Admit
  <1>2. \A s \in Requests : s # r => age'[s] = age[s]
    BY DEF Admit
  <1>3. \A s \in Requests : pc[s] = "granted" => age[s] = Interval
    BY DEF AgesCovered, Due
  <1>4. SpacedGrants'
    BY <1>1, <1>2, <1>3 DEF SpacedGrants
  <1>5. sinceGrant' = 0 /\ \A s \in Requests : age'[s] \in Nat
    BY DEF Admit
  <1>6. AgesCovered'
    BY <1>5 DEF AgesCovered
  <1> QED
    BY <1>4, <1>6

LEMMA SafeStep == Safe /\ [Next]_vars => Safe'
  <1> SUFFICES ASSUME Safe, [Next]_vars PROVE Safe'
    OBVIOUS
  <1> USE IntervalAssumption
  <1>0. TypeOK'
    BY TypeStep
  <1>1. CASE Tick
    <2>1. UNCHANGED <<queue, pc, ahead>> /\ Queued' = Queued
      BY <1>1 DEF Tick, Queued
    <2>2. SpacedGrants'
      <3>1. \A r \in Requests : age[r] = Interval => age'[r] = Interval
        BY <1>1 DEF Tick, Older
      <3> QED
        BY <2>1, <3>1 DEF Safe, SpacedGrants
    <2>3. AgesCovered'
      BY <1>1, <2>1 DEF Tick, Older, Safe, TypeOK, AgesCovered
    <2> QED
      BY <1>0, <2>1, <2>2, <2>3 DEF Safe, QueueIsWaiters, NoOvertaking,
         AheadInOrder, IdleIsNotAhead
  <1>2. ASSUME NEW r \in Requests, EndContext(r) PROVE Safe'
    <2>1. UNCHANGED <<queue, pc, ahead, age, sinceGrant>> /\ Queued' = Queued
      BY <1>2 DEF EndContext, Queued
    <2> QED
      BY <1>0, <2>1 DEF Safe, SpacedGrants, AgesCovered, QueueIsWaiters,
         NoOvertaking, AheadInOrder, IdleIsNotAhead
  <1>3. ASSUME NEW r \in Requests, AdmitAtOnce(r) PROVE Safe'
    <2>1. Queued = {} /\ Queued' = {} /\ Len(queue) = 0 /\ Len(queue') = 0
      BY <1>3 DEF AdmitAtOnce, Queued
    <2>2. SpacedGrants' /\ AgesCovered'
      BY <1>3, AdmitKeepsSpacing DEF AdmitAtOnce
    <2>3. QueueIsWaiters'
      BY <1>3, <2>1 DEF AdmitAtOnce, Admit, Safe, TypeOK, QueueIsWaiters, Waiting
    <2>4. NoOvertaking' /\ AheadInOrder'
      BY <2>1 DEF NoOvertaking, AheadInOrder
    <2>5. IdleIsNotAhead'
      BY <1>3, <2>1 DEF AdmitAtOnce, Admit, Safe, TypeOK, IdleIsNotAhead
    <2> QED
      BY <1>0, <2>2, <2>3, <2>4, <2>5 DEF Safe
  <1>4. ASSUME NEW r \in Requests, Reject(r) PROVE Safe'
    BY <1>0, <1>4, LocalStep, Zenon DEF Reject, Waiting
  <1>5. ASSUME NEW r \in Requests, Reserve(r) PROVE Safe'
    <2> DEFINE n == Len(queue)
    <2>1. /\ queue' = Append(queue, r) /\ queue \in Seq(Requests)
          /\ pc[r] = "idle" /\ pc' = [pc EXCEPT ![r] = "loop"]
          /\ ahead' = [ahead EXCEPT ![r] = Queued]
          /\ UNCHANGED <<age, sinceGrant>>
      BY <1>5 DEF Reserve, Safe, TypeOK
    <2>2. /\ n \in Nat /\ Len(queue') = n + 1 /\ queue'[n + 1] = r
          /\ \A i \in 1..n : queue'[i] = queue[i] /\ queue[i] \in Requests
      BY <2>1
    <2>3. Queued' = Queued \cup {r}
      BY <2>2 DEF Queued
    <2>4. r \notin Queued /\ \A i \in 1..n : queue[i] \in Queued /\ queue[i] # r
      BY <2>1 DEF Safe, QueueIsWaiters, Queued, Waiting
    <2>5. \A s \in Requests : /\ (pc'[s] = "granted") <=> (pc[s] = "granted")
                              /\ s # r => pc'[s] = pc[s] /\ ahead'[s] = ahead[s]
      BY <2>1 DEF Safe, TypeOK
    <2>6. SpacedGrants' /\ AgesCovered'
      BY <2>1, <2>5 DEF Safe, SpacedGrants, AgesCovered
    <2>7. QueueIsWaiters'
      <3>1. \A i, j \in 1..Len(queue') : queue'[i] = queue'[j] => i = j
        BY <2>2, <2>4 DEF Safe, QueueIsWaiters
      <3>2. Queued' = {s \in Requests : pc'[s] \in Waiting}
        BY <2>1, <2>3, <2>5 DEF Safe, TypeOK, QueueIsWaiters, Waiting
      <3> QED
        BY <3>1, <3>2 DEF QueueIsWaiters
    <2>8. NoOvertaking'
      <3>1. \A s \in Requests : r \notin ahead[s]
        BY <2>1 DEF Safe, IdleIsNotAhead
      <3> QED
        BY <2>1, <2>3, <2>5, <3>1 DEF Safe, NoOvertaking
    <2>9. AheadInOrder'
      <3> SUFFICES ASSUME NEW i \in 1..(n + 1), NEW j \in 1..(n + 1),
                          queue'[j] \in ahead'[queue'[i]]
                   PROVE  j < i
        BY <2>2 DEF AheadInOrder
      <3>1. CASE i = n + 1
        <4>1. ahead'[queue'[i]] = Queued
          BY <2>1, <2>2, <3>1 DEF Safe, TypeOK
        <4> QED
          BY <2>2, <2>4, <3>1, <4>1
      <3>2. CASE i # n + 1
        <4>1. i \in 1..n /\ queue'[i] = queue[i] /\ queue[i] # r
          BY <2>2, <2>4, <3>2
        <4>2. ahead'[queue'[i]] = ahead[queue[i]]
          BY <2>2, <2>5, <4>1
        <4>3. r \notin ahead[queue[i]]
          BY <2>1, <2>2, <4>1 DEF Safe, IdleIsNotAhead
        <4>4. j \in 1..n /\ queue'[j] = queue[j]
          BY <2>2, <4>2, <4>3
        <4> QED
          BY <4>1, <4>2, <4>4 DEF Safe, AheadInOrder
      <3> QED
        BY <3>1, <3>2
    <2>10. IdleIsNotAhead'
      BY <2>1, <2>4, <2>5 DEF Safe, TypeOK, IdleIsNotAhead, QueueIsWaiters, Waiting
    <2> QED
      BY <1>0, <2>6, <2>7, <2>8, <2>9, <2>10 DEF Safe
  <1>6. ASSUME NEW r \in Requests, AdmitFirst(r) PROVE Safe'
    <2> DEFINE n == Len(queue)
    <2>1. /\ queue' = Tail(queue) /\ queue \in Seq(Requests) /\ queue # <<>>
          /\ Head(queue) = r /\ Due /\ Admit(r) /\ ahead' = ahead
      BY <1>6, LoopIsQueued DEF AdmitFirst, Safe, TypeOK, Waiting
    <2>2. /\ n \in Nat /\ n > 0 /\ queue[1] = r /\ Len(queue') = n - 1
          /\ \A i \in 1..(n - 1) : queue'[i] = queue[i + 1]
      BY <2>1
    <2>3. Queued' = Queued \ {r}
      <3>1. ASSUME NEW q \in Queued' PROVE q \in Queued \ {r}
        <4>1. PICK i \in 1..(n - 1) : queue[i + 1] = q
          BY <2>2 DEF Queued
        <4>2. q # r
          BY <2>2, <4>1 DEF Safe, QueueIsWaiters
        <4> QED
          BY <2>2, <4>1, <4>2 DEF Queued
      <3>2. ASSUME NEW q \in Queued \ {r} PROVE q \in Queued'
        <4>1. PICK k \in 1..n : queue[k] = q
          BY DEF Queued
        <4>2. k - 1 \in 1..(n - 1) /\ queue'[k - 1] = q
          BY <2>2, <3>2, <4>1
        <4> QED
          BY <2>2, <4>2 DEF Queued
      <3> QED
        BY <3>1, <3>2
    <2>4. /\ pc' = [pc EXCEPT ![r] = "granted"]
          /\ \A s \in Requests : s # r => pc'[s] = pc[s]
          /\ pc'[r] = "granted"
      BY <2>1 DEF Admit, Safe, TypeOK
    <2>5. SpacedGrants' /\ AgesCovered'
      BY <2>1, AdmitKeepsSpacing
    <2>6. QueueIsWaiters'
      <3>1. \A i, j \in 1..Len(queue') : queue'[i] = queue'[j] => i = j
        BY <2>2 DEF Safe, QueueIsWaiters
      <3>2. Queued' = {s \in Requests : pc'[s] \in Waiting}
        BY <2>3, <2>4 DEF Safe, QueueIsWaiters, Waiting
      <3> QED
        BY <3>1, <3>2 DEF QueueIsWaiters
    <2>7. NoOvertaking'
      <3>1. ahead[r] \cap Queued = {}
        BY <2>2 DEF Safe, AheadInOrder, Queued
      <3> QED
        BY <2>1, <2>3, <2>4, <3>1 DEF Safe, NoOvertaking
    <2>8. AheadInOrder'
      BY <2>1, <2>2 DEF Safe, AheadInOrder
    <2>9. IdleIsNotAhead'
      BY <2>1, <2>4 DEF Safe, IdleIsNotAhead
    <2> QED
      BY <1>0, <2>5, <2>6, <2>7, <2>8, <2>9 DEF Safe
  <1>7. ASSUME NEW r \in Requests, KeepWaiting(r) PROVE Safe'
    BY <1>0, <1>7, LocalStep DEF KeepWaiting, Waiting
  <1>8. ASSUME NEW r \in Requests, StartTimer(r) PROVE Safe'
    BY <1>0, <1>8, LocalStep DEF StartTimer, Waiting
  <1>9. ASSUME NEW r \in Requests, Wake(r) PROVE Safe'
    BY <1>0, <1>9, LocalStep DEF Wake, Waiting
  <1>10. ASSUME NEW r \in Requests, SeeCancel(r) PROVE Safe'
    BY <1>0, <1>10, LocalStep DEF SeeCancel, Waiting
  <1>11. ASSUME NEW r \in Requests, CancelReservation(r) PROVE Safe'
    <2> DEFINE n == Len(queue)
               p == Position(r)
    <2>1. /\ queue' = Without(queue, p) /\ queue \in Seq(Requests)
          /\ pc' = [pc EXCEPT ![r] = "canceled"] /\ pc[r] = "canceling"
          /\ UNCHANGED <<age, ahead, sinceGrant>>
      BY <1>11 DEF CancelReservation, Safe, TypeOK
    <2>2. n \in Nat /\ p \in 1..n /\ queue[p] = r
      BY <2>1, LoopIsQueued DEF Waiting
    <2>3. /\ Len(queue') = n - 1
          /\ \A i \in 1..(n - 1) :
               queue'[i] = IF i < p THEN queue[i] ELSE queue[i + 1]
      BY <2>1, <2>2, WithoutIsSeq
    <2>4. Queued' = Queued \ {r}
      <3>1. \A j, k \in 1..Len(queue) : queue[j] = queue[k] => j = k
        BY DEF Safe, QueueIsWaiters
      <3>2. {Without(queue, p)[j] : j \in 1..(n - 1)} = Queued \ {queue[p]}
        BY <2>1, <2>2, <3>1, WithoutRange DEF Queued
      <3>3. Queued' = {Without(queue, p)[j] : j \in 1..(n - 1)}
        BY <2>1, <2>3 DEF Queued
      <3> QED
        BY <2>2, <3>2, <3>3
    <2>5. /\ \A s \in Requests : s # r => pc'[s] = pc[s]
          /\ pc'[r] = "canceled"
      BY <2>1 DEF Safe, TypeOK
    <2>6. SpacedGrants' /\ AgesCovered'
      BY <2>1, <2>5 DEF Safe, SpacedGrants, AgesCovered
    <2>7. QueueIsWaiters'
      <3>1. \A i, j \in 1..Len(queue') : queue'[i] = queue'[j] => i = j
        BY <2>2, <2>3 DEF Safe, QueueIsWaiters
      <3>2. Queued' = {s \in Requests : pc'[s] \in Waiting}
        BY <2>4, <2>5 DEF Safe, QueueIsWaiters, Waiting
      <3> QED
        BY <3>1, <3>2 DEF QueueIsWaiters
    <2>8. NoOvertaking'
      BY <2>1, <2>4, <2>5 DEF Safe, NoOvertaking
    <2>9. AheadInOrder'
      BY <2>1, <2>2, <2>3 DEF Safe, AheadInOrder
    <2>10. IdleIsNotAhead'
      BY <2>1, <2>5 DEF Safe, IdleIsNotAhead
    <2> QED
      BY <1>0, <2>6, <2>7, <2>8, <2>9, <2>10 DEF Safe
  <1>12. CASE UNCHANGED vars
    <2>1. Queued' = Queued
      BY <1>12 DEF vars, Queued
    <2> QED
      BY <1>0, <1>12, <2>1 DEF vars, Safe, SpacedGrants, AgesCovered,
         QueueIsWaiters, NoOvertaking, AheadInOrder, IdleIsNotAhead
  <1> QED
    BY <1>1, <1>2, <1>3, <1>4, <1>5, <1>6, <1>7, <1>8, <1>9, <1>10, <1>11,
       <1>12 DEF Next, Step

-----------------------------------------------------------------------------
(***************************************************************************)
(* The strengthened invariant holds in every reachable state.              *)
(***************************************************************************)
THEOREM SpecSafe == Spec => []Safe
  BY InitSafe, SafeStep, PTL DEF Spec

(***************************************************************************)
(* Type correctness of the rate limiter's state.                           *)
(***************************************************************************)
THEOREM RateLimiterType == Spec => []TypeOK
  <1>1. Safe => TypeOK
    BY DEF Safe
  <1> QED
    BY <1>1, SpecSafe, PTL

(***************************************************************************)
(* At most one admission per interval, for any number of callers and any   *)
(* interleaving of the two admission paths with cancellations.             *)
(***************************************************************************)
THEOREM GrantsAreSpaced == Spec => []SpacedGrants
  <1>1. Safe => SpacedGrants
    BY DEF Safe
  <1> QED
    BY <1>1, SpecSafe, PTL

(***************************************************************************)
(* The queue holds exactly the callers that wait, each once.               *)
(***************************************************************************)
THEOREM QueueHoldsTheWaiters == Spec => []QueueIsWaiters
  <1>1. Safe => QueueIsWaiters
    BY DEF Safe
  <1> QED
    BY <1>1, SpecSafe, PTL

(***************************************************************************)
(* Reservations are served in arrival order: no later arrival overtakes.   *)
(***************************************************************************)
THEOREM NobodyOvertakes == Spec => []NoOvertaking
  <1>1. Safe => NoOvertaking
    BY DEF Safe
  <1> QED
    BY <1>1, SpecSafe, PTL

\* --- the pacer behind the semaphore
Holders == {r \in Requests : stage[r] \in {"inside", "returning"}}

\* Whoever still waits in the pacer is inside.
WaitersAreInside == \A r \in Requests : pc[r] \in Waiting => stage[r] = "inside"

AdmissionSafe ==
  /\ Safe
  /\ AdmissionTypeOK
  /\ IsFiniteSet(Holders) /\ SlotsAreHeld
  /\ WaitersAreInside

-----------------------------------------------------------------------------
\* The steps that only the middleware makes.
Middleware(r) == Acquire(r) \/ Saturated(r) \/ Decline(r) \/ Finish(r) \/ Release(r)

\* Every step is the pacer's own, or leaves the pacer alone.
LEMMA AdmissionStepPaces == [AdmissionNext]_avars => [Next]_vars
  <1> SUFFICES ASSUME AdmissionNext PROVE [Next]_vars
    BY DEF avars
  <1>1. ASSUME NEW r \in Requests, Middleware(r) PROVE UNCHANGED vars
    BY <1>1 DEF Middleware, Acquire, Saturated, Decline, Finish, Release
  <1>2. ASSUME NEW r \in Requests, Pace(r) PROVE Next
    BY <1>2 DEF Pace, Next
  <1>3. ASSUME Outside PROVE Next
    BY <1>3 DEF Outside, Next
  <1> QED
    BY <1>1, <1>2, <1>3 DEF AdmissionNext, Middleware

LEMMA AdmissionInitSafe == AdmissionInit => AdmissionSafe
  <1> SUFFICES ASSUME AdmissionInit PROVE AdmissionSafe
    OBVIOUS
  <1>1. Safe
    BY InitSafe DEF AdmissionInit
  <1>2. Holders = {}
    BY DEF AdmissionInit, Holders
  <1>3. IsFiniteSet(Holders) /\ SlotsAreHeld
    BY <1>2, FS_EmptySet DEF AdmissionInit, SlotsAreHeld, Holders
  <1>4. AdmissionTypeOK
    BY <1>1, LimitAssumption DEF AdmissionInit, AdmissionTypeOK, Safe
  <1>5. WaitersAreInside
    BY DEF AdmissionInit, Init, WaitersAreInside, Waiting
  <1> QED
    BY <1>1, <1>3, <1>4, <1>5 DEF AdmissionSafe

\* A step that lets nobody in or out keeps the count.
LEMMA CountFrame ==
  ASSUME AdmissionSafe, inFlight' = inFlight,
         \A r \in Requests : stage'[r] \in {"inside", "returning"}
                               <=> stage[r] \in {"inside", "returning"}
  PROVE  IsFiniteSet(Holders') /\ SlotsAreHeld'
  <1>1. Holders' = Holders
    BY DEF Holders
  <1> QED
    BY <1>1 DEF AdmissionSafe, SlotsAreHeld, Holders

LEMMA AcquireStep ==
  ASSUME AdmissionSafe, NEW r \in Requests, Acquire(r)
  PROVE  IsFiniteSet(Holders') /\ SlotsAreHeld' /\ inFlight' \in 0..Limit
  <1>1. Holders' = Holders \cup {r} /\ r \notin Holders
    BY DEF AdmissionSafe, AdmissionTypeOK, Acquire, Holders
  <1>2. IsFiniteSet(Holders) /\ inFlight = Cardinality(Holders) /\ inFlight \in 0..Limit
    BY DEF AdmissionSafe, AdmissionTypeOK, SlotsAreHeld, Holders
  <1>3. IsFiniteSet(Holders') /\ Cardinality(Holders') = Cardinality(Holders) + 1
    BY <1>1, <1>2, FS_AddElement
  <1>4. SlotsAreHeld'
    BY <1>2, <1>3 DEF Acquire, SlotsAreHeld, Holders
  <1> QED
    BY <1>2, <1>3, <1>4, LimitAssumption DEF Acquire

LEMMA ReleaseStep ==
  ASSUME AdmissionSafe, NEW r \in Requests, Release(r)
  PROVE  IsFiniteSet(Holders') /\ SlotsAreHeld' /\ inFlight' \in 0..Limit
  <1>1. Holders' = Holders \ {r} /\ r \in Holders
    BY DEF AdmissionSafe, AdmissionTypeOK, Release, Holders
  <1>2. IsFiniteSet(Holders) /\ inFlight = Cardinality(Holders) /\ inFlight \in 0..Limit
    BY DEF AdmissionSafe, AdmissionTypeOK, SlotsAreHeld, Holders
  <1>3. IsFiniteSet(Holders') /\ Cardinality(Holders') = Cardinality(Holders) - 1
    BY <1>1, <1>2, FS_RemoveElement
  <1>4. Cardinality(Holders') \in Nat
    BY <1>3, FS_CardinalityType
  <1>5. SlotsAreHeld'
    BY <1>2, <1>3 DEF Release, SlotsAreHeld, Holders
  <1> QED
    BY <1>2, <1>3, <1>4, <1>5, LimitAssumption DEF Release

LEMMA AdmissionSafeStep == AdmissionSafe /\ [AdmissionNext]_avars => AdmissionSafe'
  <1> SUFFICES ASSUME AdmissionSafe, [AdmissionNext]_avars PROVE AdmissionSafe'
    OBVIOUS
  <1>1. Safe' /\ TypeOK'
    BY AdmissionStepPaces, SafeStep DEF AdmissionSafe, Safe
  <1> USE <1>1 DEF AdmissionSafe, AdmissionTypeOK, WaitersAreInside, Waiting
  <1>2. ASSUME NEW r \in Requests, Acquire(r) PROVE AdmissionSafe'
    BY <1>2, AcquireStep DEF Acquire, vars
  <1>3. ASSUME NEW r \in Requests, Saturated(r) PROVE AdmissionSafe'
    <2>1. IsFiniteSet(Holders') /\ SlotsAreHeld'
      BY <1>3, CountFrame DEF Saturated
    <2> QED
      BY <1>3, <2>1 DEF Saturated, vars
  <1>4. ASSUME NEW r \in Requests, Pace(r) PROVE AdmissionSafe'
    <2>1. IsFiniteSet(Holders') /\ SlotsAreHeld'
      BY <1>4, CountFrame DEF Pace
    <2>2. stage[r] = "inside" /\ UNCHANGED <<inFlight, stage>>
      BY <1>4 DEF Pace
    <2>3. \A s \in Requests : s # r => pc'[s] = pc[s]
      BY <1>4 DEF Pace, Step, AdmitAtOnce, Reject, Reserve, AdmitFirst, KeepWaiting, StartTimer,
         Wake, SeeCancel, CancelReservation, Admit, Safe, TypeOK
    <2> QED
      BY <2>1, <2>2, <2>3
  <1>5. ASSUME NEW r \in Requests, Decline(r) \/ Finish(r) PROVE AdmissionSafe'
    <2>1. IsFiniteSet(Holders') /\ SlotsAreHeld'
      BY <1>5, CountFrame DEF Decline, Finish
    <2> QED
      BY <1>5, <2>1 DEF Decline, Finish, vars
  <1>6. ASSUME NEW r \in Requests, Release(r) PROVE AdmissionSafe'
    BY <1>6, ReleaseStep DEF Release, vars
  <1>7. CASE Outside /\ UNCHANGED <<inFlight, stage>>
    <2>1. IsFiniteSet(Holders') /\ SlotsAreHeld'
      BY <1>7, CountFrame
    <2>2. pc' = pc
      BY <1>7 DEF Outside, Tick, EndContext
    <2> QED
      BY <1>7, <2>1, <2>2
  <1>8. CASE UNCHANGED avars
    <2>1. IsFiniteSet(Holders') /\ SlotsAreHeld'
      BY <1>8, CountFrame DEF avars
    <2> QED
      BY <1>8, <2>1 DEF avars, vars
  <1> QED
    BY <1>2, <1>3, <1>4, <1>5, <1>6, <1>7, <1>8 DEF AdmissionNext

-----------------------------------------------------------------------------
(***************************************************************************)
(* Behind the middleware the rate limiter runs as it does alone: every     *)
(* behaviour of admission is one of CheckAndWait's (chat.go calls it as    *)
(* the handler's first act).                                               *)
(***************************************************************************)
THEOREM AdmissionPaces == AdmissionSpec => Spec
  <1>1. AdmissionInit => Init
    BY DEF AdmissionInit
  <1> QED
    BY <1>1, AdmissionStepPaces, PTL DEF AdmissionSpec, Spec

LEMMA AdmissionSpecSafe == AdmissionSpec => []AdmissionSafe
  BY AdmissionInitSafe, AdmissionSafeStep, PTL DEF AdmissionSpec

(***************************************************************************)
(* Type correctness; in particular the semaphore never holds more than its *)
(* capacity and never receives from an empty channel.                      *)
(***************************************************************************)
THEOREM AdmissionType == AdmissionSpec => []AdmissionTypeOK
  <1>1. AdmissionSafe => AdmissionTypeOK
    BY DEF AdmissionSafe
  <1> QED
    BY <1>1, AdmissionSpecSafe, PTL

(***************************************************************************)
(* A slot is held by exactly the requests inside the chain, however their  *)
(* pacing, refusals and cancellations interleave.                          *)
(***************************************************************************)
THEOREM SlotsAreCounted == AdmissionSpec => []SlotsAreHeld
  <1>1. AdmissionSafe => SlotsAreHeld
    BY DEF AdmissionSafe
  <1> QED
    BY <1>1, AdmissionSpecSafe, PTL

(***************************************************************************)
(* The concurrency limit bounds the pacer's queue: whoever is queued holds *)
(* a slot, so that at most Limit reservations stand in it.                 *)
(***************************************************************************)
THEOREM QueueIsBounded == AdmissionSpec => [](Len(queue) <= Limit)
  <1>1. AdmissionSafe => Len(queue) <= Limit
    <2> SUFFICES ASSUME AdmissionSafe PROVE Len(queue) <= Limit
      OBVIOUS
    <2>1. queue \in Seq(Requests) /\ QueueIsWaiters
      BY DEF AdmissionSafe, Safe, TypeOK
    <2>2. \A i \in 1..Len(queue) : queue[i] \in Holders
      BY <2>1 DEF AdmissionSafe, WaitersAreInside, QueueIsWaiters, Queued, Holders
    <2>3. queue \in [1..Len(queue) -> Holders]
      BY <2>1, <2>2
    <2>4. queue \in Injection(1..Len(queue), Holders)
      BY <2>1, <2>3 DEF Injection, IsInjective, QueueIsWaiters
    <2>5. Len(queue) \in Nat
      BY <2>1
    <2>6. Cardinality(1..Len(queue)) = Len(queue)
      <3>1. PICK n \in Nat : n = Len(queue)
        BY <2>5
      <3>2. Cardinality(1..n) = IF 1 <= n THEN n - 1 + 1 ELSE 0
        BY FS_Interval
      <3> QED
        BY <3>1, <3>2
    <2>7. Cardinality(1..Len(queue)) <= Cardinality(Holders)
      BY <2>4, FS_Injection DEF AdmissionSafe
    <2>8. Cardinality(Holders) <= Limit
      BY LimitAssumption DEF AdmissionSafe, AdmissionTypeOK, SlotsAreHeld, Holders
    <2>9. Cardinality(Holders) \in Nat
      BY FS_CardinalityType DEF AdmissionSafe
    <2> QED
      BY <2>5, <2>6, <2>7, <2>8, <2>9, LimitAssumption
  <1> QED
    BY <1>1, AdmissionSpecSafe, PTL

(***************************************************************************)
(* The pacer's guarantees, behind the middleware: grants keep the interval *)
(* and come in the order of arrival, and the queue is exactly the waiters. *)
(***************************************************************************)
THEOREM PacingBehindTheLimit ==
  AdmissionSpec => [](SpacedGrants /\ QueueIsWaiters /\ NoOvertaking)
  <1>1. Safe => SpacedGrants /\ QueueIsWaiters /\ NoOvertaking
    BY DEF Safe
  <1> QED
    BY <1>1, AdmissionPaces, SpecSafe, PTL
================================================================================
