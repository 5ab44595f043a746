------------------------------ MODULE ServerProofs ------------------------------
(***************************************************************************)
(* What holds around the life of a server process, for any number of       *)
(* managers, records, buffers and workers, and for any number of server    *)
(* processes and stop commands:                                            *)
(*   - the asynchronous writers lose nothing that they accepted;           *)
(*   - the lifecycle file names the server that serves;                    *)
(*   - opening the database of an earlier release loses nothing.           *)
(***************************************************************************)
EXTENDS AsyncWorkers, ServerLifecycle, Migrations, SequenceTheorems, WellFoundedInduction, TLAPS

Inside(m) == manager[m] \in {"stopping", "starting"}

\* lifecycle is a mutex, and managers come in the order of their numbers; so that whoever
\* has not returned is numbered above the generations that were made.
ManagersInOrder ==
  /\ \A m, n \in Managers : Inside(m) /\ Inside(n) => m = n
  /\ \A m, n \in Managers : n < m /\ manager[n] = "out" => manager[m] = "out"
  /\ \A m \in Managers : manager[m] # "returned" => starts < m

\* Enqueuers see the latest generation, which is open, or nothing; nothing while a manager
\* is inside.
CurrentIsOpen ==
  current # 0 => /\ current = starts /\ ~LifecycleHeld
                 /\ \A p \in Pools : ~channels[current][p].closed

\* A generation has workers when it has been made; only they have records.
WorkersOfGenerations ==
  /\ \A w \in Workers : worker[w] = "none" <=> w[1] > starts
  /\ \A w \in Workers : held[w] # 0 => worker[w] = "running"
  /\ \A g \in Generations, p \in Pools :
       g > starts => channels[g][p].items = <<>> /\ ~channels[g][p].closed

\* A worker returns from a closed channel that is empty, and stays so.
ReturnedIsDone ==
  \A w \in Workers : worker[w] = "returned" =>
    channels[w[1]][w[2]].closed /\ channels[w[1]][w[2]].items = <<>>

\* Where an accepted record is.
InChannel(g, r) == \E i \in DOMAIN channels[g][r[1]].items : channels[g][r[1]].items[i] = r[2]
InHand(g, r) == \E w \in Workers : w[1] = g /\ w[2] = r[1] /\ held[w] = r[2]

OnTheWay(r) == \E g \in Generations : /\ g = current \/ LifecycleHeld
                                      /\ InChannel(g, r) \/ InHand(g, r)
NoneLost == \A r \in Records : fate[r] # "panicked" /\ (fate[r] = "accepted" => OnTheWay(r))

WorkersSafe ==
  /\ WorkersTypeOK
  /\ ManagersInOrder
  /\ CurrentIsOpen
  /\ WorkersOfGenerations
  /\ ReturnedIsDone
  /\ NoneLost

-----------------------------------------------------------------------------
\* The items of one channel are replaced.
Replaces(h, k, s) == channels' = [channels EXCEPT ![h][k].items = s]

LEMMA ItemsReplaced ==
  ASSUME WorkersTypeOK, NEW h \in Generations, NEW k \in Pools, NEW s \in Seq(1..MaxRecords), Replaces(h, k, s)
  PROVE  /\ channels' \in [Generations -> [Pools -> [items : Seq(1..MaxRecords), closed : BOOLEAN]]]
         /\ channels'[h][k].items = s
         /\ \A g \in Generations, p \in Pools :
              /\ channels'[g][p].closed = channels[g][p].closed
              /\ ~(g = h /\ p = k) => channels'[g][p] = channels[g][p]
  <1> DEFINE Channel == [items : Seq(1..MaxRecords), closed : BOOLEAN]
             r == channels[h][k]
             r2 == [r EXCEPT !.items = s]
             c2 == [channels[h] EXCEPT ![k] = r2]
  <1>1. /\ channels \in [Generations -> [Pools -> Channel]]
        /\ channels[h] \in [Pools -> Channel] /\ r \in Channel
    BY DEF WorkersTypeOK
  <1>2. r2 \in Channel /\ r2.items = s /\ r2.closed = r.closed
    <2> HIDE DEF r
    <2> QED
      BY <1>1
  <1>3. channels' = [channels EXCEPT ![h] = c2]
    BY DEF Replaces
  <1> HIDE DEF r2, Channel
  <1>4. c2 \in [Pools -> Channel] /\ c2[k] = r2 /\ \A p \in Pools : p # k => c2[p] = channels[h][p]
    BY <1>1, <1>2
  <1> HIDE DEF c2
  <1>5. /\ channels' \in [Generations -> [Pools -> Channel]]
        /\ channels'[h] = c2 /\ \A g \in Generations : g # h => channels'[g] = channels[g]
    BY <1>1, <1>3, <1>4
  <1> QED
    BY <1>2, <1>4, <1>5 DEF Channel

\* What sending to and receiving from a channel leaves in it.
LEMMA AppendedItem ==
  ASSUME NEW S, NEW s \in Seq(S), NEW x \in S
  PROVE  /\ Append(s, x) \in Seq(S) /\ Len(Append(s, x)) = Len(s) + 1
         /\ \A i \in DOMAIN s : i \in DOMAIN Append(s, x) /\ Append(s, x)[i] = s[i]
         /\ \E i \in DOMAIN Append(s, x) : Append(s, x)[i] = x
  <1>1. DOMAIN s = 1..Len(s) /\ DOMAIN Append(s, x) = 1..(Len(s) + 1) /\ Len(s) \in Nat
    OBVIOUS
  <1>2. Len(s) + 1 \in DOMAIN Append(s, x) /\ Append(s, x)[Len(s) + 1] = x
    BY <1>1
  <1>3. \A i \in DOMAIN s : i \in DOMAIN Append(s, x) /\ Append(s, x)[i] = s[i]
    BY <1>1
  <1> QED BY <1>1, <1>2, <1>3

LEMMA TakenItem ==
  ASSUME NEW S, NEW s \in Seq(S), s # <<>>
  PROVE  /\ Tail(s) \in Seq(S) /\ Len(Tail(s)) = Len(s) - 1 /\ Head(s) \in S
         /\ \A i \in DOMAIN s : s[i] # Head(s) => \E j \in DOMAIN Tail(s) : Tail(s)[j] = s[i]
  <1>1. DOMAIN s = 1..Len(s) /\ Len(s) \in Nat /\ Len(s) # 0 /\ Tail(s) \in Seq(S) /\ Len(Tail(s)) = Len(s) - 1 
    OBVIOUS
  <1>2. Head(s) = s[1] /\ Head(s) \in S
    BY <1>1
  <1>3. ASSUME NEW i \in DOMAIN s, s[i] # Head(s) PROVE \E j \in DOMAIN Tail(s) : Tail(s)[j] = s[i]
    <2>1. i # 1 /\ i \in 1..Len(s)
      BY <1>1, <1>2, <1>3
    <2>2. i - 1 \in 1..(Len(s) - 1) /\ Tail(s)[i - 1] = s[i]
      BY <1>1, <2>1
    <2>3. DOMAIN Tail(s) = 1..(Len(s) - 1)
      BY <1>1
    <2> QED BY <2>2, <2>3
  <1> QED BY <1>1, <1>2, <1>3

-----------------------------------------------------------------------------
LEMMA WorkersInitSafe == WorkersInit => WorkersSafe
  <1> SUFFICES ASSUME WorkersInit PROVE WorkersSafe
    OBVIOUS
  <1> USE WorkersAssumption DEF WorkersInit
  <1>1. WorkersTypeOK
    BY DEF WorkersTypeOK
  <1>2. ManagersInOrder
    BY DEF ManagersInOrder, Inside, Managers
  <1>3. CurrentIsOpen /\ NoneLost
    BY DEF CurrentIsOpen, NoneLost
  <1>4. WorkersOfGenerations /\ ReturnedIsDone
    BY DEF WorkersOfGenerations, ReturnedIsDone, Workers, Generations, Managers
  <1> QED
    BY <1>1, <1>2, <1>3, <1>4 DEF WorkersSafe

\* A request offers a record.
LEMMA EnqueueStep ==
  ASSUME WorkersSafe, NEW r \in Records, Enqueue(r)
  PROVE  WorkersSafe'
  <1> DEFINE channel == channels[current][r[1]]
             sent == current # 0 /\ ~channel.closed /\ HasRoom(channel)
  <1>1. r[1] \in Pools /\ r[2] \in 1..MaxRecords
    BY DEF Records
  <1>2. /\ current \in {0} \cup Generations
        /\ channels \in [Generations -> [Pools -> [items : Seq(1..MaxRecords), closed : BOOLEAN]]]
    BY DEF WorkersSafe, WorkersTypeOK
  <1>3. UNCHANGED <<current, starts, worker, held, manager>>
    BY DEF Enqueue
  <1>4. current # 0 => ~channel.closed
    BY <1>1 DEF WorkersSafe, CurrentIsOpen
  <1>5. /\ fate[r] = "new"
        /\ fate' = [fate EXCEPT ![r] = IF current = 0 THEN "refused"
                                       ELSE IF sent THEN "accepted" ELSE "dropped"]
        /\ channels' = IF sent THEN [channels EXCEPT ![current][r[1]].items = Append(@, r[2])]
                               ELSE channels
    BY <1>4 DEF Enqueue
  <1> HIDE DEF sent, channel
  <1>6. CASE ~sent
    <2>1. channels' = channels /\ fate' \in [Records -> {"new", "refused", "dropped", "accepted",
            "written", "failed", "panicked"}]
          /\ \A q \in Records : fate'[q] # "panicked" /\ (fate'[q] = "accepted" => fate[q] = "accepted")
      BY <1>5, <1>6 DEF WorkersSafe, WorkersTypeOK, NoneLost
    <2>2. WorkersTypeOK' /\ ManagersInOrder' /\ CurrentIsOpen'
      BY <1>3, <2>1 DEF WorkersSafe, WorkersTypeOK, ManagersInOrder, Inside, CurrentIsOpen, LifecycleHeld
    <2>3. WorkersOfGenerations' /\ ReturnedIsDone'
      BY <1>3, <2>1 DEF WorkersSafe, WorkersOfGenerations, ReturnedIsDone
    <2>4. \A q \in Records : OnTheWay(q) => OnTheWay(q)'
      BY <1>3, <2>1 DEF OnTheWay, InChannel, InHand, LifecycleHeld
    <2>5. NoneLost'
      BY <2>1, <2>4 DEF WorkersSafe, NoneLost
    <2> QED
      BY <2>2, <2>3, <2>5 DEF WorkersSafe
  <1>7. CASE sent
    <2> DEFINE items == Append(channel.items, r[2])
    <2>1. /\ current \in Generations /\ Len(channel.items) < Buffer
          /\ channel.items \in Seq(1..MaxRecords) /\ Buffer \in Nat
      BY <1>1, <1>2, <1>7, WorkersAssumption DEF sent, HasRoom, channel
    <2>2. Replaces(current, r[1], items)
      BY <1>5, <1>7 DEF channel, Replaces
    <2>3. /\ items \in Seq(1..MaxRecords) /\ Len(items) = Len(channel.items) + 1
          /\ \A i \in DOMAIN channel.items : i \in DOMAIN items /\ items[i] = channel.items[i]
          /\ \E i \in DOMAIN items : items[i] = r[2]
      BY <1>1, <2>1, AppendedItem
    <2> HIDE DEF items
    <2>4. /\ channels' \in [Generations -> [Pools -> [items : Seq(1..MaxRecords), closed : BOOLEAN]]]
          /\ channels'[current][r[1]].items = items
          /\ \A g \in Generations, p \in Pools :
               /\ channels'[g][p].closed = channels[g][p].closed
               /\ ~(g = current /\ p = r[1]) => channels'[g][p] = channels[g][p]
      <3>1. WorkersTypeOK /\ items \in Seq(1..MaxRecords)
        BY <2>3 DEF WorkersSafe
      <3> QED
        BY <1>1, <2>1, <2>2, <3>1, ItemsReplaced
    <2>5. \A g \in Generations, p \in Pools : channels'[g][p].closed = channels[g][p].closed
      BY <2>4
    <2>6. /\ fate' \in [Records -> {"new", "refused", "dropped", "accepted", "written", "failed", "panicked"}]
          /\ \A q \in Records : q # r => fate'[q] = fate[q]
          /\ fate'[r] # "panicked"
      BY <1>5, <1>7 DEF WorkersSafe, WorkersTypeOK, sent
    <2>7. WorkersTypeOK'
      <3>1. \A g \in Generations, p \in Pools : Len(channels[g][p].items) <= Buffer
        BY DEF WorkersSafe, WorkersTypeOK
      <3>2. Len(items) <= Buffer
        BY <2>1, <2>3
      <3>3. \A g \in Generations, p \in Pools : Len(channels'[g][p].items) <= Buffer
        BY <2>4, <3>1, <3>2
      <3> QED
        BY <1>3, <2>4, <2>6, <3>3 DEF WorkersSafe, WorkersTypeOK
    <2>8. ManagersInOrder'
      BY <1>3 DEF WorkersSafe, ManagersInOrder, Inside
    <2>9. CurrentIsOpen'
      BY <1>3, <2>1, <2>5 DEF WorkersSafe, CurrentIsOpen, LifecycleHeld
    <2>10. WorkersOfGenerations'
      <3>1. current = starts /\ starts \in Nat
        BY <2>1 DEF WorkersSafe, CurrentIsOpen, Generations, Managers
      <3> QED
        BY <1>3, <2>4, <3>1 DEF WorkersSafe, WorkersOfGenerations, Generations, Managers
    <2>11. ReturnedIsDone'
      <3>1. \A w \in Workers : w[1] \in Generations /\ w[2] \in Pools
        BY DEF Workers
      <3>2. ~channels[current][r[1]].closed
        BY <1>4, <1>7 DEF sent, channel
      <3> QED
        BY <1>3, <2>4, <2>5, <3>1, <3>2 DEF WorkersSafe, ReturnedIsDone
    <2>12. NoneLost'
      <3>1. \A q \in Records : fate[q] # "panicked"
        BY DEF WorkersSafe, NoneLost
      <3>0. \A q \in Records : fate'[q] # "panicked"
        BY <2>6, <3>1
      <3>2. ASSUME NEW q \in Records, fate'[q] = "accepted"
            PROVE  \E g \in Generations : /\ g = current' \/ LifecycleHeld'
                                          /\ InChannel(g, q)' \/ InHand(g, q)'
        <4>1. CASE q = r
          <5>1. InChannel(current, r)'
            BY <1>3, <2>3, <2>4 DEF InChannel
          <5> QED
            BY <1>3, <2>1, <4>1, <5>1
        <4>2. CASE q # r
          <5>1. PICK g \in Generations : /\ g = current \/ LifecycleHeld
                                         /\ InChannel(g, q) \/ InHand(g, q)
            BY <2>6, <3>2, <4>2 DEF WorkersSafe, NoneLost, OnTheWay
          <5>2. InChannel(g, q) => InChannel(g, q)'
            <6>1. q[1] \in Pools
              BY DEF Records
            <6>2. CASE g = current /\ q[1] = r[1]
              BY <2>3, <2>4, <6>2 DEF InChannel, channel
            <6>3. CASE ~(g = current /\ q[1] = r[1])
              <7>1. channels'[g][q[1]] = channels[g][q[1]]
                BY <2>4, <6>1, <6>3
              <7> QED
                BY <7>1 DEF InChannel
            <6> QED
              BY <6>2, <6>3
          <5>3. InHand(g, q) => InHand(g, q)'
            BY <1>3 DEF InHand
          <5>4. LifecycleHeld' <=> LifecycleHeld
            BY <1>3 DEF LifecycleHeld
          <5> QED
            BY <1>3, <5>1, <5>2, <5>3, <5>4
        <4> QED
          BY <4>1, <4>2
      <3> QED
        BY <3>0, <3>2 DEF NoneLost, OnTheWay
    <2> QED
      BY <2>7, <2>8, <2>9, <2>10, <2>11, <2>12 DEF WorkersSafe
  <1> QED
    BY <1>6, <1>7

\* A worker receives a record.
LEMMA TakeStep ==
  ASSUME WorkersSafe, NEW w \in Workers, Take(w)
  PROVE  WorkersSafe'
  <1> DEFINE channel == channels[w[1]][w[2]]
             items == Tail(channel.items)
  <1>1. /\ \A v \in Workers : v[1] \in Generations /\ v[2] \in Pools
        /\ channels \in [Generations -> [Pools -> [items : Seq(1..MaxRecords), closed : BOOLEAN]]]
    BY DEF WorkersSafe, WorkersTypeOK, Workers
  <1>2. /\ UNCHANGED <<current, starts, worker, manager, fate>>
        /\ worker[w] = "running" /\ held[w] = 0 /\ channel.items # <<>>
        /\ held' = [held EXCEPT ![w] = Head(channel.items)]
        /\ channels' = [channels EXCEPT ![w[1]][w[2]].items = items]
    BY DEF Take
  <1>0. channel.items \in Seq(1..MaxRecords)
    BY <1>1
  <1> HIDE DEF channel
  <1>3. /\ channel.items \in Seq(1..MaxRecords)
        /\ items \in Seq(1..MaxRecords) /\ Len(items) = Len(channel.items) - 1
        /\ Head(channel.items) \in 1..MaxRecords
        /\ \A i \in DOMAIN channel.items :
             channel.items[i] # Head(channel.items) => \E j \in DOMAIN items : items[j] = channel.items[i]
    BY <1>0, <1>2, TakenItem
  <1> HIDE DEF items
  <1>4. /\ channels' \in [Generations -> [Pools -> [items : Seq(1..MaxRecords), closed : BOOLEAN]]]
        /\ channels'[w[1]][w[2]].items = items
        /\ \A g \in Generations, p \in Pools :
             /\ channels'[g][p].closed = channels[g][p].closed
             /\ ~(g = w[1] /\ p = w[2]) => channels'[g][p] = channels[g][p]
    <2>1. WorkersTypeOK /\ items \in Seq(1..MaxRecords) /\ w[1] \in Generations /\ w[2] \in Pools
      BY <1>1, <1>3 DEF WorkersSafe
    <2>2. Replaces(w[1], w[2], items)
      BY <1>2 DEF Replaces
    <2> QED
      BY <2>1, <2>2, ItemsReplaced
  <1>5. \A g \in Generations, p \in Pools : channels'[g][p].closed = channels[g][p].closed
    BY <1>4
  <1>6. /\ held' \in [Workers -> 0..MaxRecords] /\ held'[w] = Head(channel.items)
        /\ \A v \in Workers : v # w => held'[v] = held[v]
    BY <1>2, <1>3 DEF WorkersSafe, WorkersTypeOK
  <1>7. WorkersTypeOK'
    <2>1. \A g \in Generations, p \in Pools : Len(channels[g][p].items) <= Buffer
      BY DEF WorkersSafe, WorkersTypeOK
    <2>2. Len(channel.items) <= Buffer /\ Len(channel.items) \in Nat /\ Buffer \in Nat
      BY <1>1, <1>3, <2>1, WorkersAssumption DEF channel
    <2>3. Len(items) <= Buffer
      BY <1>3, <2>2
    <2>4. \A g \in Generations, p \in Pools : Len(channels'[g][p].items) <= Buffer
      BY <1>4, <2>1, <2>3
    <2> QED
      BY <1>2, <1>4, <1>6, <2>4 DEF WorkersSafe, WorkersTypeOK
  <1>8. ManagersInOrder'
    BY <1>2 DEF WorkersSafe, ManagersInOrder, Inside
  <1>9. CurrentIsOpen'
    BY <1>2, <1>5 DEF WorkersSafe, WorkersTypeOK, CurrentIsOpen, LifecycleHeld
  <1>10. WorkersOfGenerations'
    BY <1>1, <1>2, <1>4, <1>6 DEF WorkersSafe, WorkersOfGenerations
  <1>11. ReturnedIsDone'
    <2>1. channels[w[1]][w[2]].items # <<>>
      BY <1>2 DEF channel
    <2>2. ASSUME NEW v \in Workers, worker[v] = "returned"
          PROVE  channels'[v[1]][v[2]].closed /\ channels'[v[1]][v[2]].items = <<>>
      <3>1. channels[v[1]][v[2]].closed /\ channels[v[1]][v[2]].items = <<>>
        BY <2>2 DEF WorkersSafe, ReturnedIsDone
      <3>2. ~(v[1] = w[1] /\ v[2] = w[2])
        BY <2>1, <3>1
      <3>3. channels'[v[1]][v[2]] = channels[v[1]][v[2]]
        BY <1>1, <1>4, <3>2
      <3> QED
        BY <3>1, <3>3
    <2> QED
      BY <1>2, <2>2 DEF ReturnedIsDone
  <1>12. NoneLost'
    <2>1. \A q \in Records : fate'[q] # "panicked"
      BY <1>2 DEF WorkersSafe, NoneLost
    <2>2. ASSUME NEW q \in Records, fate'[q] = "accepted"
          PROVE  \E g \in Generations : /\ g = current' \/ LifecycleHeld'
                                        /\ InChannel(g, q)' \/ InHand(g, q)'
      <3>1. PICK g \in Generations : /\ g = current \/ LifecycleHeld
                                     /\ InChannel(g, q) \/ InHand(g, q)
        BY <1>2, <2>2 DEF WorkersSafe, NoneLost, OnTheWay
      <3>2. q[1] \in Pools /\ q[2] # 0
        BY DEF Records
      <3>3. ASSUME InChannel(g, q) PROVE InChannel(g, q)' \/ InHand(g, q)'
        <4>1. CASE g = w[1] /\ q[1] = w[2]
          <5>1. PICK i \in DOMAIN channel.items : channel.items[i] = q[2]
            BY <3>3, <4>1 DEF InChannel, channel
          <5>2. CASE q[2] = Head(channel.items)
            BY <1>6, <4>1, <5>2 DEF InHand
          <5>3. CASE q[2] # Head(channel.items)
            <6>1. PICK j \in DOMAIN items : items[j] = q[2]
              BY <1>3, <5>1, <5>3
            <6> QED
              BY <1>4, <4>1, <6>1 DEF InChannel
          <5> QED
            BY <5>2, <5>3
        <4>2. CASE ~(g = w[1] /\ q[1] = w[2])
          <5>1. channels'[g][q[1]] = channels[g][q[1]]
            BY <1>4, <3>2, <4>2
          <5> QED
            BY <3>3, <5>1 DEF InChannel
        <4> QED
          BY <4>1, <4>2
      <3>4. InHand(g, q) => InHand(g, q)'
        BY <1>2, <1>6, <3>2 DEF InHand
      <3>5. LifecycleHeld' <=> LifecycleHeld
        BY <1>2 DEF LifecycleHeld
      <3> QED
        BY <1>2, <3>1, <3>3, <3>4, <3>5
    <2> QED
      BY <2>1, <2>2 DEF NoneLost, OnTheWay
  <1> QED
    BY <1>7, <1>8, <1>9, <1>10, <1>11, <1>12 DEF WorkersSafe

\* A worker hands its record to the database.
LEMMA WriteStep ==
  ASSUME WorkersSafe, NEW w \in Workers, Write(w)
  PROVE  WorkersSafe'
  <1> USE WorkersAssumption
  <1> DEFINE done == <<w[2], held[w]>>
  <1>1. w[1] \in Generations /\ w[2] \in Pools /\ held[w] \in 0..MaxRecords /\ held[w] # 0
    BY DEF WorkersSafe, WorkersTypeOK, Workers, Write
  <1>2. UNCHANGED <<current, starts, channels, worker, manager>>
    BY DEF Write
  <1>3. PICK end \in {"written", "failed"} : fate' = [fate EXCEPT ![done] = end]
    BY DEF Write
  <1>4. /\ fate' \in [Records -> {"new", "refused", "dropped", "accepted", "written", "failed", "panicked"}]
        /\ \A q \in Records : q # done => fate'[q] = fate[q]
        /\ done \in Records /\ fate'[done] = end
    BY <1>1, <1>3 DEF WorkersSafe, WorkersTypeOK, Records
  <1>5. /\ held' \in [Workers -> 0..MaxRecords] /\ held'[w] = 0
        /\ \A v \in Workers : v # w => held'[v] = held[v]
    BY DEF WorkersSafe, WorkersTypeOK, Write
  <1>6. WorkersTypeOK'
    BY <1>2, <1>4, <1>5 DEF WorkersSafe, WorkersTypeOK
  <1>7. ManagersInOrder' /\ CurrentIsOpen' /\ ReturnedIsDone'
    BY <1>2 DEF WorkersSafe, ManagersInOrder, Inside, CurrentIsOpen, LifecycleHeld, ReturnedIsDone
  <1>8. WorkersOfGenerations'
    BY <1>2, <1>5 DEF WorkersSafe, WorkersOfGenerations
  <1>9. NoneLost'
    <2>1. \A q \in Records : fate'[q] # "panicked"
      BY <1>4 DEF WorkersSafe, NoneLost
    <2>2. ASSUME NEW q \in Records, fate'[q] = "accepted"
          PROVE  \E g \in Generations : /\ g = current' \/ LifecycleHeld'
                                        /\ InChannel(g, q)' \/ InHand(g, q)'
      <3>1. q # done /\ fate[q] = "accepted"
        BY <1>4, <2>2
      <3>2. PICK g \in Generations : /\ g = current \/ LifecycleHeld
                                     /\ InChannel(g, q) \/ InHand(g, q)
        BY <3>1 DEF WorkersSafe, NoneLost, OnTheWay
      <3>3. q = <<q[1], q[2]>>
        BY DEF Records
      <3>4. InHand(g, q) => InHand(g, q)'
        BY <1>5, <3>1, <3>3 DEF InHand
      <3>5. (InChannel(g, q)' <=> InChannel(g, q)) /\ (LifecycleHeld' <=> LifecycleHeld)
        BY <1>2 DEF InChannel, LifecycleHeld
      <3> QED
        BY <1>2, <3>2, <3>4, <3>5
    <2> QED
      BY <2>1, <2>2 DEF NoneLost, OnTheWay
  <1> QED
    BY <1>6, <1>7, <1>8, <1>9 DEF WorkersSafe

\* A worker returns.
LEMMA ReturnStep ==
  ASSUME WorkersSafe, NEW w \in Workers, Return(w)
  PROVE  WorkersSafe'
  <1>1. UNCHANGED <<current, starts, channels, held, manager, fate>>
    BY DEF Return
  <1>2. /\ worker' \in [Workers -> {"none", "running", "returned"}] /\ worker'[w] = "returned"
        /\ \A v \in Workers : v # w => worker'[v] = worker[v]
        /\ worker[w] = "running" /\ held[w] = 0
        /\ channels[w[1]][w[2]].closed /\ channels[w[1]][w[2]].items = <<>>
    BY DEF WorkersSafe, WorkersTypeOK, Return
  <1>3. WorkersTypeOK'
    BY <1>1, <1>2 DEF WorkersSafe, WorkersTypeOK
  <1>4. ManagersInOrder' /\ CurrentIsOpen' /\ NoneLost'
    BY <1>1 DEF WorkersSafe, ManagersInOrder, Inside, CurrentIsOpen, LifecycleHeld, NoneLost, OnTheWay, InChannel, InHand
  <1>5. WorkersOfGenerations' /\ ReturnedIsDone'
    BY <1>1, <1>2 DEF WorkersSafe, WorkersOfGenerations, ReturnedIsDone
  <1> QED
    BY <1>3, <1>4, <1>5 DEF WorkersSafe

\* A manager enters and closes the running generation.
LEMMA EnterStep ==
  ASSUME WorkersSafe, NEW m \in Managers, NEW doing \in {"stopping", "starting"}, Enter(m, doing)
  PROVE  WorkersSafe'
  <1> USE WorkersAssumption
  <1>1. /\ UNCHANGED <<starts, worker, held, fate>> /\ current' = 0 /\ ~LifecycleHeld
        /\ manager[m] = "out" /\ \A n \in Managers : n < m => manager[n] # "out"
        /\ manager' = [manager EXCEPT ![m] = doing]
        /\ channels' = IF current = 0 THEN channels
                       ELSE [channels EXCEPT ![current] = Closed(@)]
    BY DEF Enter
  <1>2. /\ manager' \in [Managers -> {"out", "stopping", "starting", "returned"}]
        /\ manager'[m] = doing
        /\ \A n \in Managers : n # m => manager'[n] = manager[n]
    BY <1>1 DEF WorkersSafe, WorkersTypeOK
  <1>3. current \in {0} \cup Generations /\ (current # 0 => current = starts)
        /\ starts \in Nat /\ Generations \subseteq Nat
    BY DEF WorkersSafe, WorkersTypeOK, CurrentIsOpen, Generations, Managers
  <1>4. /\ channels' \in [Generations -> [Pools -> [items : Seq(1..MaxRecords), closed : BOOLEAN]]]
        /\ \A g \in Generations, p \in Pools :
             /\ channels'[g][p].items = channels[g][p].items
             /\ channels[g][p].closed => channels'[g][p].closed
             /\ g > starts => channels'[g][p] = channels[g][p]
    <2>1. channels \in [Generations -> [Pools -> [items : Seq(1..MaxRecords), closed : BOOLEAN]]]
      BY DEF WorkersSafe, WorkersTypeOK
    <2>2. CASE current = 0
      BY <1>1, <2>1, <2>2
    <2>3. CASE current # 0
      <3>1. current \in Generations /\ channels' = [channels EXCEPT ![current] = Closed(channels[current])]
        BY <1>1, <1>3, <2>3
      <3>2. ASSUME NEW g \in Generations, NEW p \in Pools
            PROVE  LET closed == [channels[g][p] EXCEPT !.closed = TRUE]
                   IN  /\ closed \in [items : Seq(1..MaxRecords), closed : BOOLEAN]
                       /\ closed.closed /\ closed.items = channels[g][p].items
        <4>1. channels[g][p] \in [items : Seq(1..MaxRecords), closed : BOOLEAN]
          BY <2>1
        <4>2. ASSUME NEW c \in [items : Seq(1..MaxRecords), closed : BOOLEAN]
              PROVE  LET closed == [c EXCEPT !.closed = TRUE]
                     IN  /\ closed \in [items : Seq(1..MaxRecords), closed : BOOLEAN]
                         /\ closed.closed /\ closed.items = c.items
          OBVIOUS
        <4> QED
          BY <4>1, <4>2
      <3>3. /\ Closed(channels[current]) \in [Pools -> [items : Seq(1..MaxRecords), closed : BOOLEAN]]
            /\ \A p \in Pools : /\ Closed(channels[current])[p].closed
                                /\ Closed(channels[current])[p].items = channels[current][p].items
        BY <3>1, <3>2 DEF Closed
      <3>4. /\ channels' \in [Generations -> [Pools -> [items : Seq(1..MaxRecords), closed : BOOLEAN]]]
            /\ channels'[current] = Closed(channels[current])
            /\ \A g \in Generations : g # current => channels'[g] = channels[g]
        BY <2>1, <3>1, <3>3
      <3>5. ASSUME NEW g \in Generations, NEW p \in Pools
            PROVE  /\ channels'[g][p].items = channels[g][p].items
                   /\ channels[g][p].closed => channels'[g][p].closed
                   /\ g > starts => channels'[g][p] = channels[g][p]
        <4>1. CASE g = current
          <5>1. ~(g > starts)
            BY <1>3, <2>3, <4>1
          <5> QED
            BY <3>3, <3>4, <4>1, <5>1
        <4>2. CASE g # current
          BY <3>4, <4>2
        <4> QED
          BY <4>1, <4>2
      <3> QED
        BY <3>4, <3>5
    <2> QED
      BY <2>2, <2>3
  <1>5. \A w \in Workers : w[1] \in Generations /\ w[2] \in Pools
    BY DEF Workers
  <1>6. WorkersTypeOK'
    BY <1>1, <1>2, <1>4 DEF WorkersSafe, WorkersTypeOK
  <1>7. ManagersInOrder'
    BY <1>1, <1>2 DEF WorkersSafe, ManagersInOrder, Inside, LifecycleHeld, Managers
  <1>8. CurrentIsOpen' /\ WorkersOfGenerations' /\ ReturnedIsDone'
    BY <1>1, <1>4, <1>5 DEF WorkersSafe, CurrentIsOpen, WorkersOfGenerations, ReturnedIsDone
  <1>9. NoneLost'
    <2>1. LifecycleHeld'
      BY <1>2 DEF LifecycleHeld
    <2>2. \A q \in Records : q[1] \in Pools
      BY DEF Records
    <2> QED
      BY <1>1, <1>4, <2>1, <2>2 DEF WorkersSafe, NoneLost, OnTheWay, InChannel, InHand
  <1> QED
    BY <1>6, <1>7, <1>8, <1>9 DEF WorkersSafe

\* When the workers have returned nothing that was accepted is still on its way.
LEMMA NothingLeft ==
  ASSUME WorkersSafe, Drained
  PROVE  \A r \in Records : fate[r] # "accepted"
  <1> USE WorkersAssumption
  <1> SUFFICES ASSUME NEW r \in Records, fate[r] = "accepted" PROVE FALSE
    OBVIOUS
  <1>1. PICK g \in Generations : InChannel(g, r) \/ InHand(g, r)
    BY DEF WorkersSafe, NoneLost, OnTheWay
  <1>2. r[1] \in Pools /\ r[2] # 0
    BY DEF Records
  <1>3. ~InHand(g, r)
    BY <1>2 DEF WorkersSafe, WorkersOfGenerations, Drained, InHand
  <1>4. channels[g][r[1]].items = <<>>
    <2>1. <<g, r[1], 1>> \in Workers
      BY <1>2 DEF Workers
    <2>2. CASE worker[<<g, r[1], 1>>] = "none"
      BY <1>2, <2>1, <2>2 DEF WorkersSafe, WorkersOfGenerations
    <2>3. CASE worker[<<g, r[1], 1>>] = "returned"
      BY <2>1, <2>3 DEF WorkersSafe, ReturnedIsDone
    <2> QED
      BY <2>1, <2>2, <2>3 DEF Drained
  <1> QED
    BY <1>1, <1>3, <1>4 DEF InChannel

\* A stop is over.
LEMMA StoppedStep ==
  ASSUME WorkersSafe, NEW m \in Managers, Stopped(m)
  PROVE  WorkersSafe'
  <1>1. /\ UNCHANGED <<current, starts, channels, worker, held, fate>> /\ Drained
        /\ manager[m] = "stopping" /\ manager' = [manager EXCEPT ![m] = "returned"]
    BY DEF Stopped
  <1>2. /\ manager' \in [Managers -> {"out", "stopping", "starting", "returned"}]
        /\ manager'[m] = "returned"
        /\ \A n \in Managers : n # m => manager'[n] = manager[n]
    BY <1>1 DEF WorkersSafe, WorkersTypeOK
  <1>3. WorkersTypeOK'
    BY <1>1, <1>2 DEF WorkersSafe, WorkersTypeOK
  <1>4. ManagersInOrder'
    BY <1>1, <1>2 DEF WorkersSafe, ManagersInOrder, Inside
  <1>5. CurrentIsOpen'
    BY <1>1 DEF WorkersSafe, CurrentIsOpen, LifecycleHeld
  <1>6. WorkersOfGenerations' /\ ReturnedIsDone'
    BY <1>1 DEF WorkersSafe, WorkersOfGenerations, ReturnedIsDone
  <1>7. NoneLost'
    BY <1>1, NothingLeft DEF WorkersSafe, NoneLost
  <1> QED
    BY <1>3, <1>4, <1>5, <1>6, <1>7 DEF WorkersSafe

\* A start makes the next generation.
LEMMA StartedStep ==
  ASSUME WorkersSafe, NEW m \in Managers, Started(m)
  PROVE  WorkersSafe'
  <1> USE WorkersAssumption
  <1>1. /\ UNCHANGED <<channels, held, fate>> /\ Drained
        /\ manager[m] = "starting" /\ manager' = [manager EXCEPT ![m] = "returned"]
        /\ starts' = starts + 1 /\ current' = starts + 1
        /\ worker' = [w \in Workers |-> IF w[1] = starts + 1 THEN "running" ELSE worker[w]]
    BY DEF Started
  <1>2. /\ manager' \in [Managers -> {"out", "stopping", "starting", "returned"}]
        /\ manager'[m] = "returned"
        /\ \A n \in Managers : n # m => manager'[n] = manager[n]
    BY <1>1 DEF WorkersSafe, WorkersTypeOK
  <1>3. starts \in Nat /\ Managers \subseteq Nat /\ m \in Nat /\ starts < m /\ starts + 1 \in Generations
    BY <1>1 DEF WorkersSafe, WorkersTypeOK, ManagersInOrder, Generations, Managers
  <1>4. \A w \in Workers : w[1] \in Generations /\ w[2] \in Pools
    BY DEF Workers
  <1>5. WorkersTypeOK'
    BY <1>1, <1>2, <1>3 DEF WorkersSafe, WorkersTypeOK
  <1>6. \A n \in Managers : manager'[n] \notin {"stopping", "starting"}
    BY <1>1, <1>2 DEF WorkersSafe, ManagersInOrder, Inside
  <1>7. ManagersInOrder'
    <2>1. \A n, k \in Managers : k < n /\ manager'[k] = "out" => manager'[n] = "out"
      BY <1>1, <1>2 DEF WorkersSafe, ManagersInOrder
    <2>2. ASSUME NEW n \in Managers, manager'[n] # "returned"
          PROVE  starts + 1 < n
      <3>1. n # m /\ manager[n] = "out"
        BY <1>2, <1>6, <2>2
      <3>2. ~(n < m)
        BY <1>1, <3>1 DEF WorkersSafe, ManagersInOrder
      <3> QED
        BY <1>3, <3>1, <3>2
    <2> QED
      BY <1>1, <1>6, <2>1, <2>2 DEF ManagersInOrder, Inside
  <1>8. CurrentIsOpen'
    BY <1>1, <1>3, <1>6 DEF WorkersSafe, WorkersOfGenerations, CurrentIsOpen, LifecycleHeld
  <1>9. WorkersOfGenerations'
    <2>1. Generations \subseteq Nat
      BY DEF Generations, Managers
    <2>2. \A w \in Workers : held[w] = 0
      BY <1>1 DEF WorkersSafe, WorkersOfGenerations, Drained
    <2>3. ASSUME NEW w \in Workers
          PROVE  worker'[w] = "none" <=> w[1] > starts + 1
      <3>1. w[1] \in Nat /\ (worker[w] = "none" <=> w[1] > starts)
        BY <1>4, <2>1 DEF WorkersSafe, WorkersOfGenerations
      <3>2. worker'[w] = IF w[1] = starts + 1 THEN "running" ELSE worker[w]
        BY <1>1
      <3> QED
        BY <1>3, <3>1, <3>2
    <2>4. \A g \in Generations : g > starts + 1 => g > starts
      BY <1>3, <2>1
    <2> QED
      BY <1>1, <2>2, <2>3, <2>4 DEF WorkersSafe, WorkersOfGenerations
  <1>10. ReturnedIsDone'
    BY <1>1 DEF WorkersSafe, ReturnedIsDone
  <1>11. NoneLost'
    BY <1>1, NothingLeft DEF WorkersSafe, NoneLost
  <1> QED
    BY <1>5, <1>7, <1>8, <1>9, <1>10, <1>11 DEF WorkersSafe

LEMMA WorkersSafeStep ==
  ASSUME WorkersSafe, [WorkersNext]_workerVars
  PROVE  WorkersSafe'
  <1>1. CASE WorkersNext
    BY <1>1, EnqueueStep, TakeStep, WriteStep, ReturnStep, EnterStep, StoppedStep, StartedStep
       DEF WorkersNext, WorkerStep
  <1>2. CASE UNCHANGED workerVars
    BY <1>2 DEF workerVars, WorkersSafe, WorkersTypeOK, ManagersInOrder, Inside, CurrentIsOpen, LifecycleHeld,
       WorkersOfGenerations, ReturnedIsDone, NoneLost, OnTheWay, InChannel, InHand
  <1> QED
    BY <1>1, <1>2

\* WRITERS.  However many managers stop and restart the pools while requests enqueue, and
\* whatever the buffers and the number of workers: nobody sends on a closed channel, and a
\* record that was accepted is in the running pool, or is waited for, until it was handed
\* to the database.
THEOREM WritersLoseNothing == WorkersSpec => [](WorkersTypeOK /\ AcceptedRecordsAreWritten)
  <1>1. WorkersSafe => WorkersTypeOK /\ AcceptedRecordsAreWritten
    BY DEF WorkersSafe, NoneLost, OnTheWay, InChannel, InHand, AcceptedRecordsAreWritten
  <1> QED
    BY WorkersInitSafe, WorkersSafeStep, <1>1, PTL DEF WorkersSpec

-----------------------------------------------------------------------------
\* A process that has ended does not come back.
Ended(s) == server[s] \in {"gone", "killed"}

\* The file names a server that served; only after that can it be removed by its owner.
ClaimIsServed ==
  \A s \in Servers : claim = s =>
    server[s] \in {"serving", "closing", "unclaiming", "draining", "gone", "killed"}

\* What a remover has judged: the claim of a dead process, none, or its own.
JudgedDead(x) == seen[x] # NoClaim => Ended(seen[x])
RemoversHaveJudged ==
  /\ \A s \in Servers : /\ server[s] = "removing" => JudgedDead(s)
                        /\ server[s] = "unclaiming" => seen[s] = s
  /\ \A c \in Stops : /\ stop[c] = "removing" => JudgedDead(c)
                      /\ stop[c] = "signalling" => seen[c] \in Servers

LinkingIsEarly == \A s \in Servers : server[s] \in {"down", "linking"} => attempts[s] <= 1

LifecycleSafe ==
  /\ LifecycleTypeOK
  /\ ClaimIsServed
  /\ RemoversHaveJudged
  /\ LinkingIsEarly
  /\ ServingIsClaimed

LEMMA LifecycleInitSafe == LifecycleInit => LifecycleSafe
  <1> SUFFICES ASSUME LifecycleInit PROVE LifecycleSafe
    OBVIOUS
  <1> USE DEF LifecycleInit
  <1>1. LifecycleTypeOK
    <2>1. claim \in Claims /\ seen \in [Servers \cup Stops -> Claims]
      BY DEF Claims
    <2>2. server \in [Servers -> Places] /\ attempts \in [Servers -> 0..2]
      BY DEF Places
    <2>3. stop \in [Stops -> {"out", "signalling", "waiting", "removing", "returned"}]
      OBVIOUS
    <2>4. raced \in BOOLEAN
      BY Zenon
    <2> QED
      BY <2>1, <2>2, <2>3, <2>4 DEF LifecycleTypeOK
  <1>2. \A s \in Servers : server[s] = "down" /\ attempts[s] = 0
    OBVIOUS
  <1>3. LinkingIsEarly /\ ServingIsClaimed
    BY <1>2 DEF LinkingIsEarly, ServingIsClaimed
  <1>4. ClaimIsServed
    BY LifecycleAssumption DEF ClaimIsServed
  <1>5. RemoversHaveJudged
    BY DEF RemoversHaveJudged, JudgedDead
  <1> QED
    BY <1>1, <1>3, <1>4, <1>5 DEF LifecycleSafe

\* The steps of a server, and of a stop command.
LEMMA LifecycleServerStep ==
  ASSUME LifecycleSafe, NEW s \in Servers, ServerStep(s) \/ Start(s) \/ Shutdown(s) \/ Kill(s)
  PROVE  LifecycleSafe'
  <1> USE LifecycleAssumption DEF LifecycleSafe, Ended, JudgedDead
  <1>1. CASE Start(s)
    BY <1>1 DEF Start, LifecycleTypeOK, Places, Alive, ClaimIsServed, RemoversHaveJudged, LinkingIsEarly,
       ServingIsClaimed, Claims
  <1>2. CASE Link(s)
    <2> USE <1>2 DEF Link, Linked
    <2>1. claim # s /\ claim \in Claims /\ claim' \in Claims
      BY DEF ClaimIsServed, LifecycleTypeOK, Claims
    <2>2. LifecycleTypeOK' /\ LinkingIsEarly'
      BY <2>1 DEF LifecycleTypeOK, Places, Alive, LinkingIsEarly
    <2>3. ClaimIsServed'
      BY <2>1 DEF LifecycleTypeOK, ClaimIsServed
    <2>4. RemoversHaveJudged'
      BY DEF LifecycleTypeOK, RemoversHaveJudged, Claims
    <2>5. ServingIsClaimed'
      BY <2>1 DEF LifecycleTypeOK, ServingIsClaimed
    <2> QED
      BY <2>2, <2>3, <2>4, <2>5
  <1>3. CASE ReadClaim(s)
    <2> USE <1>3 DEF ReadClaim
    <2>1. ~Managed /\ claim # NoClaim => Ended(claim)
      BY DEF Managed, ClaimIsServed, LifecycleTypeOK, Claims, Alive
    <2>2. LifecycleTypeOK' /\ LinkingIsEarly'
      BY DEF LifecycleTypeOK, Places, Alive, LinkingIsEarly
    <2>3. ClaimIsServed' /\ ServingIsClaimed'
      BY DEF LifecycleTypeOK, ClaimIsServed, ServingIsClaimed
    <2>4. RemoversHaveJudged'
      BY <2>1 DEF LifecycleTypeOK, RemoversHaveJudged, Claims
    <2> QED
      BY <2>2, <2>3, <2>4
  <1>4. CASE RemoveStale(s)
    <2> USE <1>4 DEF RemoveStale, Unlink
    <2>1. LifecycleTypeOK' /\ LinkingIsEarly'
      BY DEF LifecycleTypeOK, Places, Alive, LinkingIsEarly, Claims
    <2>2. ClaimIsServed'
      BY DEF ClaimIsServed
    <2>3. RemoversHaveJudged'
      BY DEF LifecycleTypeOK, RemoversHaveJudged, Claims
    <2>4. ServingIsClaimed'
      BY DEF LifecycleTypeOK, ServingIsClaimed, RemoversHaveJudged, Claims
    <2> QED
      BY <2>1, <2>2, <2>3, <2>4
  <1>5. CASE Shutdown(s)
    BY <1>5 DEF Shutdown, LifecycleTypeOK, Places, Alive, ClaimIsServed, RemoversHaveJudged, LinkingIsEarly,
       ServingIsClaimed, Claims
  <1>6. CASE CloseRead(s)
    <2> USE <1>6 DEF CloseRead
    <2>1. LifecycleTypeOK' /\ LinkingIsEarly'
      BY DEF LifecycleTypeOK, Places, Alive, LinkingIsEarly, Claims
    <2>2. ClaimIsServed' /\ ServingIsClaimed'
      BY DEF LifecycleTypeOK, ClaimIsServed, ServingIsClaimed
    <2>3. RemoversHaveJudged'
      BY DEF LifecycleTypeOK, RemoversHaveJudged, Claims
    <2> QED
      BY <2>1, <2>2, <2>3
  <1>7. CASE CloseRemove(s)
    <2> USE <1>7 DEF CloseRemove, Unlink
    <2>1. LifecycleTypeOK' /\ LinkingIsEarly'
      BY DEF LifecycleTypeOK, Places, Alive, LinkingIsEarly, Claims
    <2>2. ClaimIsServed'
      BY DEF ClaimIsServed
    <2>3. RemoversHaveJudged'
      BY DEF LifecycleTypeOK, RemoversHaveJudged, Claims
    <2>4. ServingIsClaimed'
      BY DEF LifecycleTypeOK, ServingIsClaimed, RemoversHaveJudged, Claims
    <2> QED
      BY <2>1, <2>2, <2>3, <2>4
  <1>8. CASE Exit(s)
    BY <1>8 DEF Exit, LifecycleTypeOK, Places, Alive, ClaimIsServed, RemoversHaveJudged, LinkingIsEarly,
       ServingIsClaimed, Claims
  <1>9. CASE Kill(s)
    <2> USE <1>9 DEF Kill
    <2>1. LifecycleTypeOK' /\ LinkingIsEarly'
      BY DEF LifecycleTypeOK, Places, Alive, LinkingIsEarly, Claims
    <2>2. ClaimIsServed' /\ ServingIsClaimed'
      BY DEF LifecycleTypeOK, ClaimIsServed, ServingIsClaimed
    <2>3. RemoversHaveJudged'
      BY DEF LifecycleTypeOK, RemoversHaveJudged, Claims
    <2> QED
      BY <2>1, <2>2, <2>3
  <1> QED
    BY <1>1, <1>2, <1>3, <1>4, <1>5, <1>6, <1>7, <1>8, <1>9 DEF ServerStep

LEMMA LifecycleStopStep ==
  ASSUME LifecycleSafe, NEW c \in Stops, StopRead(c) \/ StopStep(c)
  PROVE  LifecycleSafe'
  <1> USE LifecycleAssumption DEF LifecycleSafe, Ended, JudgedDead
  <1>1. ~Managed /\ claim # NoClaim => Ended(claim)
    BY DEF Managed, ClaimIsServed, LifecycleTypeOK, Claims, Alive
  <1>2. CASE StopRead(c)
    BY <1>1, <1>2 DEF StopRead, Managed, LifecycleTypeOK, ClaimIsServed, RemoversHaveJudged, LinkingIsEarly,
       ServingIsClaimed, Claims
  <1>3. CASE StopSignal(c)
    <2> USE <1>3 DEF StopSignal
    <2>1. seen[c] \in Servers
      BY DEF RemoversHaveJudged
    <2>2. LifecycleTypeOK' /\ LinkingIsEarly'
      BY <2>1 DEF LifecycleTypeOK, Places, Alive, LinkingIsEarly
    <2>3. ClaimIsServed' /\ ServingIsClaimed'
      BY <2>1 DEF LifecycleTypeOK, ClaimIsServed, ServingIsClaimed
    <2>4. RemoversHaveJudged'
      BY <2>1 DEF LifecycleTypeOK, RemoversHaveJudged, Claims
    <2> QED
      BY <2>2, <2>3, <2>4
  <1>4. CASE StopPoll(c)
    BY <1>1, <1>4 DEF StopPoll, LifecycleTypeOK, ClaimIsServed, RemoversHaveJudged, LinkingIsEarly,
       ServingIsClaimed, Claims
  <1>5. CASE StopRemove(c)
    <2> USE <1>5 DEF StopRemove, Unlink
    <2>1. LifecycleTypeOK' /\ LinkingIsEarly' /\ ClaimIsServed'
      BY DEF LifecycleTypeOK, LinkingIsEarly, ClaimIsServed, Claims
    <2>2. RemoversHaveJudged'
      BY DEF LifecycleTypeOK, RemoversHaveJudged, Claims
    <2>3. ServingIsClaimed'
      BY DEF LifecycleTypeOK, ServingIsClaimed, RemoversHaveJudged, Claims
    <2> QED
      BY <2>1, <2>2, <2>3
  <1>6. CASE StopTimeout(c)
    BY <1>6 DEF StopTimeout, LifecycleTypeOK, ClaimIsServed, RemoversHaveJudged, LinkingIsEarly, ServingIsClaimed
  <1> QED
    BY <1>2, <1>3, <1>4, <1>5, <1>6 DEF StopStep

LEMMA LifecycleSafeStep ==
  ASSUME LifecycleSafe, [LifecycleNext]_lifecycleVars
  PROVE  LifecycleSafe'
  <1>1. CASE LifecycleNext
    BY <1>1, LifecycleServerStep, LifecycleStopStep DEF LifecycleNext
  <1>2. CASE UNCHANGED lifecycleVars
    BY <1>2 DEF lifecycleVars, LifecycleSafe, LifecycleTypeOK, ClaimIsServed, RemoversHaveJudged, JudgedDead,
       Ended, LinkingIsEarly, ServingIsClaimed
  <1> QED
    BY <1>1, <1>2

\* CLAIM.  However many servers are started, killed and stopped, by however many stop
\* commands: as long as no removal has hit another claim than the one it had judged, the
\* file names the server that serves.
THEOREM TheServerHasTheClaim == LifecycleSpec => [](LifecycleTypeOK /\ ServingIsClaimed)
  <1>1. LifecycleSafe => LifecycleTypeOK /\ ServingIsClaimed
    BY DEF LifecycleSafe
  <1> QED
    BY LifecycleInitSafe, LifecycleSafeStep, <1>1, PTL DEF LifecycleSpec

\* CLAIM.  Hence two servers serve at the same time only after such a removal.
THEOREM OneServerServes ==
  LifecycleSpec => [](~raced => \A s, t \in Servers : server[s] = "serving" /\ server[t] = "serving" => s = t)
  <1>1. ServingIsClaimed =>
          (~raced => \A s, t \in Servers : server[s] = "serving" /\ server[t] = "serving" => s = t)
    BY DEF ServingIsClaimed
  <1> QED
    BY TheServerHasTheClaim, <1>1, PTL

-----------------------------------------------------------------------------
\* --- opening the database
\* Past createTables.
Prepared == {"checking", "migrating", "recording"}
AtWork == {"migrating", "recording"}
OldColumn == <<"tokens", "provider_id">>

\* What statement s leaves behind for good, unless it is about a table that goes away.
Lasts(s) ==
  /\ s.do = "add" /\ s.table # "tokens" => <<s.table, s.column>> \in columns
  /\ s.do = "update" => <<s.table, s.column>> \notin awaiting
  /\ s.do = "create" /\ s.table \notin {"tokens_v5", "response_cache"} => s.table \in tables

\* Statements before the k-th of version v.
LastsBefore(v, k) == \A i \in 1..Len(migrations[v]) : i < k => Lasts(migrations[v][i])

\* Versions are recorded in their order, and a process is past what is recorded only.
InOrder ==
  /\ \A v \in recorded, u \in SchemaVersions : u < v => u \in recorded
  /\ \A o \in Openers :
       /\ opener[o] = "open" => recorded = SchemaVersions
       /\ opener[o] \in Busy => \A u \in SchemaVersions : u < at[o][1] => u \in recorded
       /\ opener[o] \in AtWork => at[o][1] \in SchemaVersions
       /\ opener[o] = "migrating" => at[o][2] \in 1..Len(migrations[at[o][1]])

\* Until the rebuild is recorded a process is alone with the database.
OneAtATime ==
  5 \notin recorded \/ ~overlapped =>
    \A o, p \in Openers : opener[o] \in Busy /\ opener[p] \in Busy => o = p
\* Whoever is alone with a version, it has not been recorded yet.
NotYetRecorded ==
  \A o \in Openers : opener[o] \in AtWork /\ (at[o][1] <= 5 \/ ~overlapped) => at[o][1] \notin recorded

\* What recorded versions did is there, and what a process has done of its own.
EffectsLast ==
  /\ \A v \in recorded : LastsBefore(v, 7)
  /\ \A o \in Openers : /\ opener[o] = "migrating" => LastsBefore(at[o][1], at[o][2])
                        /\ opener[o] = "recording" => LastsBefore(at[o][1], 7)

\* createTables has made every table; a request log without the column that v7 indexes is
\* one of an earlier release.
TablesThere ==
  /\ \A o \in Openers : opener[o] \in Prepared \cup {"open"} => CoreTables \ {"tokens"} \subseteq tables
  /\ "request_logs" \in tables /\ 7 \notin recorded => <<"request_logs", "client">> \in columns

\* The tokens table as v5 leaves it.
Rebuilt == /\ "tokens" \in tables /\ "tokens_v5" \notin tables
           /\ kept["tokens"] = original /\ OldColumn \notin columns

\* Before the k-th statement of the rebuild, whatever an earlier one was killed at.
Rebuilding(k) ==
  /\ k \in {1, 2, 3} <=> "tokens" \in tables
  /\ k \in {2, 3, 4} => "tokens_v5" \in tables
  /\ k \in {3, 4} => kept["tokens_v5"] = original
  /\ k = 4 => OldColumn \notin columns

\* The credentials are in the table or all in its copy, and never less than the process that
\* rebuilds them relies on.
TokensKept ==
  /\ kept["tokens"] \subseteq original /\ kept["tokens_v5"] \subseteq original
  /\ kept["tokens"] = original \/ (kept["tokens_v5"] = original /\ "tokens_v5" \in tables)
  /\ 5 \in recorded => Rebuilt
  /\ \A o \in Openers :
       /\ opener[o] = "checking" \/ (opener[o] \in AtWork /\ at[o][1] # 5) => "tokens" \in tables
       /\ opener[o] = "migrating" /\ at[o][1] = 5 => Rebuilding(at[o][2])
       /\ opener[o] = "recording" /\ at[o][1] = 5 => Rebuilt

\* A process alone with the database fails nowhere, and the old cache does not come back.
NeverRefusedAlone ==
  ~overlapped => /\ \A o \in Openers :
                      /\ opener[o] # "failed"
                      /\ opener[o] = "recording" /\ at[o][1] = 17 => "response_cache" \notin tables
                 /\ 17 \in recorded => "response_cache" \notin tables

MigrationsInv ==
  /\ MigrationsTypeOK /\ InOrder /\ OneAtATime /\ NotYetRecorded
  /\ EffectsLast /\ TablesThere /\ TokensKept /\ NeverRefusedAlone

\* What UPDATEs set although no migration adds it.
NeverAdded == {<<"provider_instances", "provider_id">>, <<"chat_sessions", "api_shape">>}

\* What matters about statement s, the i-th of version v: where in the order it stands and
\* what went before it.
Scripted(v, i, s) ==
  /\ s.do \in {"add", "update", "create", "drop_if_exists", "drop", "copy", "rename", "index"}
  /\ s.do = "add" =>
       /\ s.table \in CoreTables \cup {"access_tokens"}
       /\ s.table = "tokens" => v = 3 /\ s.column = "provider_id"
       /\ s.table = "access_tokens" => v = 10
       /\ <<s.table, s.column>> \notin NeverAdded
  /\ s.do = "update" =>
       /\ s.table \in CoreTables \ {"tokens"}
       /\ \/ <<s.table, s.column>> \in NeverAdded
          \/ v \in {4, 6} /\ i = 2 /\ migrations[v][1] = Add(s.table, s.column)
          \/ v = 13 /\ migrations[12][1] = Add(s.table, s.column)
  /\ s.do = "create" =>
       /\ s.table \in {"request_logs", "access_tokens", "response_cache", "tokens_v5"}
       /\ s.table = "request_logs" => v = 7
       /\ s.table = "access_tokens" => v = 9
       /\ s.table = "tokens_v5" => v = 5 /\ i = 1
       /\ s.table = "response_cache" => v = 15
  /\ s.do = "drop_if_exists" => v = 17 /\ s.table = "response_cache"
  /\ s.do = "drop" => v = 5 /\ i = 3 /\ s.table = "tokens"
  /\ s.do = "copy" => v = 5 /\ i = 2 /\ s.table = "tokens_v5"
  /\ s.do = "rename" => v = 5 /\ i = 4 /\ s.table = "tokens_v5"
  /\ s.do = "index" => /\ s.table = "request_logs" /\ s.column = "client"
                       /\ v = 7 \/ (v = 8 /\ i = 2 /\ migrations[8][1] = Add("request_logs", "client"))
  /\ v = 5 => /\ i = 1 => s.do = "create" /\ s.table = "tokens_v5"
              /\ i = 2 => s.do = "copy"
              /\ i = 3 => s.do = "drop"
              /\ i = 4 => s.do = "rename"
  /\ v = 9 => s.do = "create" /\ s.table = "access_tokens"
  /\ v = 17 => s.do = "drop_if_exists"

\* There are seventeen versions.
LEMMA VersionsAre == Len(migrations) = 17 /\ SchemaVersions = 1..17
  BY SMT DEF SchemaVersions, migrations

LEMMA VersionsRange == SchemaVersions = 1..17
  BY VersionsAre, Zenon

\* How many statements each version has.
LEMMA Lengths ==
  /\ Len(migrations[1]) = 1 /\ Len(migrations[2]) = 1 /\ Len(migrations[3]) = 1 /\ Len(migrations[4]) = 2
  /\ Len(migrations[5]) = 4 /\ Len(migrations[6]) = 2 /\ Len(migrations[7]) = 2 /\ Len(migrations[8]) = 2
  /\ Len(migrations[9]) = 1 /\ Len(migrations[10]) = 1 /\ Len(migrations[11]) = 1 /\ Len(migrations[12]) = 1
  /\ Len(migrations[13]) = 2 /\ Len(migrations[14]) = 1 /\ Len(migrations[15]) = 1 /\ Len(migrations[16]) = 5
  /\ Len(migrations[17]) = 1
  BY SMT DEF migrations, Rebuild

\* Every statement of every migration stands where Scripted says.
LEMMA TheScript ==
  ASSUME NEW v \in SchemaVersions, NEW i \in 1..Len(migrations[v])
  PROVE  Scripted(v, i, migrations[v][i])
<1>1. CASE v = 1
  <2>1. /\ migrations[1][1] = Add("provider_instances", "subtitle")
    BY SMT DEF migrations, Rebuild
  <2>2. /\ Scripted(1, 1, Add("provider_instances", "subtitle"))
    BY SMT DEF Scripted, NeverAdded, CoreTables, Add
  <2>3. i \in {1}
    BY <1>1, Lengths, SMT
  <2> QED BY <1>1, <2>1, <2>2, <2>3, Zenon
<1>2. CASE v = 2
  <2>1. /\ migrations[2][1] = Add("virtual_model_upstreams", "provider_id")
    BY SMT DEF migrations, Rebuild
  <2>2. /\ Scripted(2, 1, Add("virtual_model_upstreams", "provider_id"))
    BY SMT DEF Scripted, NeverAdded, CoreTables, Add
  <2>3. i \in {1}
    BY <1>2, Lengths, SMT
  <2> QED BY <1>2, <2>1, <2>2, <2>3, Zenon
<1>3. CASE v = 3
  <2>1. /\ migrations[3][1] = Add("tokens", "provider_id")
    BY SMT DEF migrations, Rebuild
  <2>2. /\ Scripted(3, 1, Add("tokens", "provider_id"))
    BY SMT DEF Scripted, NeverAdded, CoreTables, Add
  <2>3. i \in {1}
    BY <1>3, Lengths, SMT
  <2> QED BY <1>3, <2>1, <2>2, <2>3, Zenon
<1>4. CASE v = 4
  <2>1. /\ migrations[4][1] = Add("provider_models_cache", "updated_at")
        /\ migrations[4][2] = Fill("provider_models_cache", "updated_at")
    BY SMT DEF migrations, Rebuild
  <2>2. Scripted(4, 1, Add("provider_models_cache", "updated_at"))
    BY SMT DEF Scripted, NeverAdded, CoreTables, Add
  <2>3. Scripted(4, 2, Fill("provider_models_cache", "updated_at"))
    BY <2>1, SMT DEF Scripted, NeverAdded, CoreTables, Fill
  <2>4. i \in {1, 2}
    BY <1>4, Lengths, SMT
  <2> QED BY <1>4, <2>1, <2>2, <2>3, <2>4, Zenon
<1>5. CASE v = 5
  <2>1. /\ migrations[5][1] = Create("tokens_v5")
        /\ migrations[5][2] = Copy("tokens_v5")
        /\ migrations[5][3] = Drop("tokens")
        /\ migrations[5][4] = Rename("tokens_v5")
    BY SMT DEF migrations, Rebuild
  <2>2. /\ Scripted(5, 1, Create("tokens_v5"))
        /\ Scripted(5, 2, Copy("tokens_v5"))
        /\ Scripted(5, 3, Drop("tokens"))
        /\ Scripted(5, 4, Rename("tokens_v5"))
    BY SMT DEF Scripted, NeverAdded, CoreTables, Create, Copy, Drop, Rename
  <2>3. i \in {1, 2, 3, 4}
    BY <1>5, Lengths, SMT
  <2> QED BY <1>5, <2>1, <2>2, <2>3, Zenon
<1>6. CASE v = 6
  <2>1. /\ migrations[6][1] = Add("virtual_model_upstreams", "updated_at")
        /\ migrations[6][2] = Fill("virtual_model_upstreams", "updated_at")
    BY SMT DEF migrations, Rebuild
  <2>2. Scripted(6, 1, Add("virtual_model_upstreams", "updated_at"))
    BY SMT DEF Scripted, NeverAdded, CoreTables, Add
  <2>3. Scripted(6, 2, Fill("virtual_model_upstreams", "updated_at"))
    BY <2>1, SMT DEF Scripted, NeverAdded, CoreTables, Fill
  <2>4. i \in {1, 2}
    BY <1>6, Lengths, SMT
  <2> QED BY <1>6, <2>1, <2>2, <2>3, <2>4, Zenon
<1>7. CASE v = 7
  <2>1. /\ migrations[7][1] = Create("request_logs")
        /\ migrations[7][2] = Index("request_logs", "client")
    BY SMT DEF migrations, Rebuild
  <2>2. /\ Scripted(7, 1, Create("request_logs"))
        /\ Scripted(7, 2, Index("request_logs", "client"))
    BY SMT DEF Scripted, NeverAdded, CoreTables, Create, Index
  <2>3. i \in {1, 2}
    BY <1>7, Lengths, SMT
  <2> QED BY <1>7, <2>1, <2>2, <2>3, Zenon
<1>8. CASE v = 8
  <2>1. /\ migrations[8][1] = Add("request_logs", "client")
        /\ migrations[8][2] = Index("request_logs", "client")
    BY SMT DEF migrations, Rebuild
  <2>2. Scripted(8, 1, Add("request_logs", "client"))
    BY SMT DEF Scripted, NeverAdded, CoreTables, Add
  <2>3. Scripted(8, 2, Index("request_logs", "client"))
    BY <2>1, SMT DEF Scripted, NeverAdded, CoreTables, Index
  <2>4. i \in {1, 2}
    BY <1>8, Lengths, SMT
  <2> QED BY <1>8, <2>1, <2>2, <2>3, <2>4, Zenon
<1>9. CASE v = 9
  <2>1. /\ migrations[9][1] = Create("access_tokens")
    BY SMT DEF migrations, Rebuild
  <2>2. /\ Scripted(9, 1, Create("access_tokens"))
    BY SMT DEF Scripted, NeverAdded, CoreTables, Create
  <2>3. i \in {1}
    BY <1>9, Lengths, SMT
  <2> QED BY <1>9, <2>1, <2>2, <2>3, Zenon
<1>10. CASE v = 10
  <2>1. /\ migrations[10][1] = Add("access_tokens", "token_plaintext")
    BY SMT DEF migrations, Rebuild
  <2>2. /\ Scripted(10, 1, Add("access_tokens", "token_plaintext"))
    BY SMT DEF Scripted, NeverAdded, CoreTables, Add
  <2>3. i \in {1}
    BY <1>10, Lengths, SMT
  <2> QED BY <1>10, <2>1, <2>2, <2>3, Zenon
<1>11. CASE v = 11
  <2>1. /\ migrations[11][1] = Fill("provider_instances", "provider_id")
    BY SMT DEF migrations, Rebuild
  <2>2. /\ Scripted(11, 1, Fill("provider_instances", "provider_id"))
    BY SMT DEF Scripted, NeverAdded, CoreTables, Fill
  <2>3. i \in {1}
    BY <1>11, Lengths, SMT
  <2> QED BY <1>11, <2>1, <2>2, <2>3, Zenon
<1>12. CASE v = 12
  <2>1. /\ migrations[12][1] = Add("chat_sessions", "agent_backend")
    BY SMT DEF migrations, Rebuild
  <2>2. /\ Scripted(12, 1, Add("chat_sessions", "agent_backend"))
    BY SMT DEF Scripted, NeverAdded, CoreTables, Add
  <2>3. i \in {1}
    BY <1>12, Lengths, SMT
  <2> QED BY <1>12, <2>1, <2>2, <2>3, Zenon
<1>13. CASE v = 13
  <2>1. /\ migrations[13][1] = Fill("chat_sessions", "api_shape")
        /\ migrations[13][2] = Fill("chat_sessions", "agent_backend")
        /\ migrations[12][1] = Add("chat_sessions", "agent_backend")
    BY SMT DEF migrations, Rebuild
  <2>2. /\ Scripted(13, 1, Fill("chat_sessions", "api_shape"))
        /\ Scripted(13, 2, Fill("chat_sessions", "agent_backend"))
    BY <2>1, SMT DEF Scripted, NeverAdded, CoreTables, Fill
  <2>3. i \in {1, 2}
    BY <1>13, Lengths, SMT
  <2> QED BY <1>13, <2>1, <2>2, <2>3, Zenon
<1>14. CASE v = 14
  <2>1. /\ migrations[14][1] = Add("provider_models_cache", "provider_id")
    BY SMT DEF migrations, Rebuild
  <2>2. /\ Scripted(14, 1, Add("provider_models_cache", "provider_id"))
    BY SMT DEF Scripted, NeverAdded, CoreTables, Add
  <2>3. i \in {1}
    BY <1>14, Lengths, SMT
  <2> QED BY <1>14, <2>1, <2>2, <2>3, Zenon
<1>15. CASE v = 15
  <2>1. /\ migrations[15][1] = Create("response_cache")
    BY SMT DEF migrations, Rebuild
  <2>2. /\ Scripted(15, 1, Create("response_cache"))
    BY SMT DEF Scripted, NeverAdded, CoreTables, Create
  <2>3. i \in {1}
    BY <1>15, Lengths, SMT
  <2> QED BY <1>15, <2>1, <2>2, <2>3, Zenon
<1>16. CASE v = 16
  <2>1. /\ migrations[16][1] = Add("request_logs", "uncached")
        /\ migrations[16][2] = Add("request_logs", "cache_read")
        /\ migrations[16][3] = Add("request_logs", "cache_write")
        /\ migrations[16][4] = Add("request_logs", "cache_write_5m")
        /\ migrations[16][5] = Add("request_logs", "cache_write_1h")
    BY SMT DEF migrations, Rebuild
  <2>2. /\ Scripted(16, 1, Add("request_logs", "uncached"))
        /\ Scripted(16, 2, Add("request_logs", "cache_read"))
        /\ Scripted(16, 3, Add("request_logs", "cache_write"))
        /\ Scripted(16, 4, Add("request_logs", "cache_write_5m"))
        /\ Scripted(16, 5, Add("request_logs", "cache_write_1h"))
    BY SMT DEF Scripted, NeverAdded, CoreTables, Add
  <2>3. i \in {1, 2, 3, 4, 5}
    BY <1>16, Lengths, SMT
  <2> QED BY <1>16, <2>1, <2>2, <2>3, Zenon
<1>17. CASE v = 17
  <2>1. /\ migrations[17][1] = DropIfThere("response_cache")
    BY SMT DEF migrations, Rebuild
  <2>2. /\ Scripted(17, 1, DropIfThere("response_cache"))
    BY SMT DEF Scripted, NeverAdded, CoreTables, DropIfThere
  <2>3. i \in {1}
    BY <1>17, Lengths, SMT
  <2> QED BY <1>17, <2>1, <2>2, <2>3, Zenon
<1> QED BY VersionsAre, <1>1, <1>2, <1>3, <1>4, <1>5, <1>6, <1>7, <1>8, <1>9, <1>10, <1>11, <1>12, <1>13, <1>14, <1>15, <1>16, <1>17, SMT

\* The fields of an ALTER TABLE.
LEMMA AddIs == \A t, c : Add(t, c).do = "add" /\ Add(t, c).table = t /\ Add(t, c).column = c
  BY SMT DEF Add

\* No version has more than five statements.
LEMMA LengthIs == \A v \in SchemaVersions : DOMAIN migrations[v] = 1..Len(migrations[v]) /\ Len(migrations[v]) \in 1..5
<1>1. \A v \in 1..17 : Len(migrations[v]) \in 1..5
  BY Lengths, SMT
<1>2. \A v \in 1..17 : DOMAIN migrations[v] = 1..Len(migrations[v])
  BY SMT DEF migrations, Rebuild
<1> QED BY VersionsAre, <1>1, <1>2, Zenon

\* StatementsOf, Touched, Added and Filled, by version and place.
LEMMA StatementsAre ==
  ASSUME NEW versions, versions \subseteq SchemaVersions, NEW s
  PROVE  s \in StatementsOf(versions) <=>
           \E v \in versions : \E i \in 1..Len(migrations[v]) : s = migrations[v][i]
<1>1. s \in StatementsOf(versions) <=>
        \E v \in versions : s \in {migrations[v][i] : i \in DOMAIN migrations[v]}
  BY Zenon DEF StatementsOf
<1>2. \A v \in versions : DOMAIN migrations[v] = 1..Len(migrations[v])
  BY LengthIs, Zenon
<1> QED BY <1>1, <1>2, Zenon

\* A statement of these versions does this to that column.
Scheduled(versions, verb, c) ==
  \E v \in versions : \E i \in 1..Len(migrations[v]) :
    migrations[v][i].do = verb /\ c = <<migrations[v][i].table, migrations[v][i].column>>

LEMMA TouchedIs ==
  ASSUME NEW versions, versions \subseteq SchemaVersions, NEW verb, NEW c
  PROVE  c \in Touched(versions, verb) <=> Scheduled(versions, verb, c)
<1>1. c \in Touched(versions, verb) <=>
        \E s \in StatementsOf(versions) : s.do = verb /\ c = <<s.table, s.column>>
  BY Zenon DEF Touched
<1>2. \A s : s \in StatementsOf(versions) <=>
        \E v \in versions : \E i \in 1..Len(migrations[v]) : s = migrations[v][i]
  BY StatementsAre, Zenon
<1>3. ASSUME c \in Touched(versions, verb)
      PROVE  \E v \in versions : \E i \in 1..Len(migrations[v]) :
               migrations[v][i].do = verb /\ c = <<migrations[v][i].table, migrations[v][i].column>>
  <2>1. PICK s \in StatementsOf(versions) : s.do = verb /\ c = <<s.table, s.column>>
    BY <1>1, <1>3, Zenon
  <2>2. PICK v \in versions : \E i \in 1..Len(migrations[v]) : s = migrations[v][i]
    BY <1>2, <2>1, Zenon
  <2>3. PICK i \in 1..Len(migrations[v]) : s = migrations[v][i]
    BY <2>2, Zenon
  <2> QED BY <2>1, <2>3, Zenon
<1>4. ASSUME NEW v \in versions, NEW i \in 1..Len(migrations[v]), migrations[v][i].do = verb,
             c = <<migrations[v][i].table, migrations[v][i].column>>
      PROVE  c \in Touched(versions, verb)
  <2>1. migrations[v][i] \in StatementsOf(versions)
    BY <1>2, Zenon
  <2> QED BY <1>1, <1>4, <2>1, Zenon
<1> QED BY <1>3, <1>4, Zenon DEF Scheduled

LEMMA AddedAndFilled ==
  ASSUME NEW versions, versions \subseteq SchemaVersions, NEW c
  PROVE  /\ c \in Added(versions) <=> Scheduled(versions, "add", c)
         /\ c \in Filled(versions) <=> Scheduled(versions, "update", c)
  BY TouchedIs DEF Added, Filled

\* v8 adds the column that v7 and v8 index.
LEMMA ClientIsAdded == <<"request_logs", "client">> \in Added(SchemaVersions)
<1>1. /\ migrations[8][1].do = "add"
      /\ migrations[8][1].table = "request_logs" /\ migrations[8][1].column = "client"
  BY SMT DEF migrations, Add
<1>2. 8 \in SchemaVersions /\ 1 \in 1..Len(migrations[8])
  BY VersionsAre, Lengths, SMT
<1>3. SchemaVersions \subseteq SchemaVersions
  OBVIOUS
<1> QED BY <1>1, <1>2, <1>3, AddedAndFilled, SMT DEF Scheduled

-----------------------------------------------------------------------------
\* Where a process can be.
LEMMA PlacesAre ==
  /\ (1..Len(migrations) + 1) \X (1..6) = (1..18) \X (1..6)
  /\ \A v \in 1..18, k \in 1..6 : <<v, k>> \in (1..18) \X (1..6)
  /\ \A x \in (1..18) \X (1..6) : /\ x[1] \in 1..18 /\ x[2] \in 1..6
                                  /\ \A k \in 1..6 : [x EXCEPT ![2] = k] = <<x[1], k>>
<1>1. 1..Len(migrations) + 1 = 1..18
  BY VersionsAre, SMT
<1>2. (1..Len(migrations) + 1) \X (1..6) = (1..18) \X (1..6)
  BY <1>1, Zenon
<1>3. \A v \in 1..18, k \in 1..6 : <<v, k>> \in (1..18) \X (1..6)
  BY SMT
<1>4. \A x \in (1..18) \X (1..6) : /\ x[1] \in 1..18 /\ x[2] \in 1..6
                                  /\ \A k \in 1..6 : [x EXCEPT ![2] = k] = <<x[1], k>>
  BY SMT
<1> QED BY <1>2, <1>3, <1>4, Zenon

LEMMA ScheduledIn ==
  ASSUME NEW versions, NEW v \in versions, NEW i \in 1..Len(migrations[v])
  PROVE  Scheduled(versions, migrations[v][i].do, <<migrations[v][i].table, migrations[v][i].column>>)
  BY Zenon DEF Scheduled

\* A new database and one of any earlier release start the invariant.
LEMMA MigrationsStart == MigrationsInit => MigrationsInv
<1> SUFFICES ASSUME MigrationsInit PROVE MigrationsInv
  OBVIOUS
<1>1. SchemaVersions = 1..17 /\ Releases \subseteq 0..17 /\ MaxKills \in Nat
  BY VersionsAre, MigrationsAssumption, SMT
<1>2. /\ kept = [t \in {"tokens", "tokens_v5"} |-> IF t = "tokens" THEN original ELSE {}]
      /\ opener = [o \in Openers |-> "out"] /\ at = [o \in Openers |-> <<1, 1>>]
      /\ kills = 0 /\ overlapped = FALSE
  BY Zenon DEF MigrationsInit
<1>3. \A o \in Openers : opener[o] = "out"
  BY <1>2, Zenon
<1>4. kept["tokens"] = original /\ kept["tokens_v5"] = {}
  BY <1>2, Zenon
<1>5. <<1, 1>> \in (1..Len(migrations) + 1) \X (1..6)
  <2>1. <<1, 1>> \in (1..18) \X (1..6)
    BY SMT
  <2> QED BY <2>1, PlacesAre, Zenon
<1>6. at \in [Openers -> (1..Len(migrations) + 1) \X (1..6)]
  BY <1>2, <1>5, Zenon
<1>7. /\ opener \in [Openers -> {"out", "creating", "checking", "migrating", "recording", "open", "failed"}]
      /\ kills \in 0..MaxKills /\ overlapped \in BOOLEAN
  <2>1. opener \in [Openers -> {"out", "creating", "checking", "migrating", "recording", "open", "failed"}]
    BY <1>2
  <2>2. kills \in 0..MaxKills
    BY <1>1, <1>2, SMT
  <2> QED BY <1>2, <2>1, <2>2, Zenon
<1>8. original \subseteq Credentials => kept \in [{"tokens", "tokens_v5"} -> SUBSET Credentials]
  <2>1. kept = [t \in {"tokens", "tokens_v5"} |-> kept[t]]
    BY <1>2, Zenon
  <2> QED BY <1>4, <2>1, Zenon
<1>9. CASE New
  <2>1. MigrationsTypeOK
    BY <1>9, <1>6, <1>7, <1>8, Zenon DEF MigrationsTypeOK, New
  <2>2. EffectsLast /\ TablesThere /\ TokensKept /\ NeverRefusedAlone
    BY <1>3, <1>4, <1>9, SMT DEF EffectsLast, TablesThere, TokensKept, NeverRefusedAlone, New, AtWork, Prepared
  <2>3. InOrder /\ OneAtATime /\ NotYetRecorded
    BY <1>3, <1>9, SMT DEF InOrder, OneAtATime, NotYetRecorded, New, AtWork, Prepared, Busy
  <2> QED BY <2>1, <2>2, <2>3 DEF MigrationsInv
<1>10. ASSUME NEW n \in Releases, Legacy(n) PROVE MigrationsInv
  <2>1. /\ n \in 0..17 /\ recorded = 1..n /\ recorded \subseteq SchemaVersions
        /\ original = Credentials /\ awaiting = Filled(SchemaVersions) \ Filled(1..n)
    BY <1>1, <1>10, SMT DEF Legacy
  <2>2. /\ tables = {t \in CoreTables : t = "request_logs" => n >= 7}
                         \cup {t \in {"access_tokens"} : n >= 9}
                         \cup {t \in {"response_cache"} : n \in 15..16}
        /\ \A c \in Added(1..n) : (c[1] = "tokens" => n < 5) => c \in columns
        /\ \A c \in columns : \/ c \in Added(1..n) /\ (c[1] = "tokens" => n < 5)
                              \/ c = <<"request_logs", "client">>
    BY <1>10, Zenon DEF Legacy
  <2>3. \A c : c \in Added(1..n) => c \in Added(SchemaVersions)
    <3>1. 1..n \subseteq SchemaVersions
      BY <1>1, <2>1, SMT
    <3>2. \A c : Scheduled(1..n, "add", c) => Scheduled(SchemaVersions, "add", c)
      BY <3>1, Zenon DEF Scheduled
    <3> QED BY <3>1, <3>2, AddedAndFilled
  <2>4. MigrationsTypeOK
    <3>1. columns \subseteq Added(SchemaVersions)
      BY <2>2, <2>3, ClientIsAdded, Zenon
    <3>2. tables \subseteq CoreTables \cup {"tokens_v5", "access_tokens", "response_cache"}
      BY <2>2, Zenon
    <3>3. original \subseteq Credentials /\ awaiting \subseteq Filled(SchemaVersions)
      BY <2>1, Zenon
    <3> QED BY <1>6, <1>7, <1>8, <2>1, <3>1, <3>2, <3>3, Zenon DEF MigrationsTypeOK
  <2>5. InOrder /\ OneAtATime /\ NotYetRecorded
    <3>1. \A v \in recorded, u \in SchemaVersions : u < v => u \in recorded
      BY <1>1, <2>1, SMT
    <3>2. \A o \in Openers : opener[o] \notin AtWork \cup Busy \cup {"open"}
      BY <1>3, Zenon DEF AtWork, Busy
    <3>3. \A o \in Openers : opener[o] # "open" /\ opener[o] # "migrating"
      BY <1>3, Zenon
    <3> QED BY <3>1, <3>2, <3>3, Zenon DEF InOrder, OneAtATime, NotYetRecorded
  <2>6. ASSUME NEW v \in recorded, NEW i \in 1..Len(migrations[v]) PROVE Lasts(migrations[v][i])
    <3> DEFINE s == migrations[v][i]
    <3>1. v \in SchemaVersions /\ v \in 1..n /\ 1..n \subseteq SchemaVersions
      BY <1>1, <2>1, SMT
    <3>2. Scripted(v, i, s)
      BY <3>1, TheScript
    <3>3. s.do = "add" => <<s.table, s.column>> \in Added(1..n)
      BY <3>1, ScheduledIn, AddedAndFilled
    <3>4. s.do = "update" => <<s.table, s.column>> \in Filled(1..n)
      BY <3>1, ScheduledIn, AddedAndFilled
    <3>5. s.do = "add" /\ s.table # "tokens" => <<s.table, s.column>> \in columns
      BY <2>2, <3>3, SMT
    <3>6. s.do = "update" => <<s.table, s.column>> \notin awaiting
      BY <2>1, <3>4, SMT
    <3>7. s.do = "create" /\ s.table \notin {"tokens_v5", "response_cache"} => s.table \in tables
      BY <2>1, <2>2, <3>1, <3>2, SMT DEF Scripted, CoreTables
    <3> QED BY <3>5, <3>6, <3>7, Zenon DEF Lasts
  <2>7. EffectsLast
    BY <1>3, <2>6, SMT DEF EffectsLast, LastsBefore
  <2>8. TablesThere
    BY <1>3, <2>1, <2>2, SMT DEF TablesThere, Prepared, CoreTables
  <2>9. TokensKept
    <3>1. 5 \in recorded => OldColumn \notin columns
      BY <2>1, <2>2, SMT DEF OldColumn
    <3>2. 5 \in recorded => Rebuilt
      BY <1>4, <2>2, <3>1, SMT DEF Rebuilt, CoreTables
    <3> QED BY <1>3, <1>4, <3>2, SMT DEF TokensKept, AtWork
  <2>10. NeverRefusedAlone
    BY <1>3, <2>1, <2>2, SMT DEF NeverRefusedAlone, CoreTables
  <2> QED BY <2>4, <2>5, <2>7, <2>8, <2>9, <2>10 DEF MigrationsInv
<1> QED BY <1>9, <1>10, Zenon DEF MigrationsInit

-----------------------------------------------------------------------------
OpenerStates == {"out", "creating", "checking", "migrating", "recording", "open", "failed"}

\* The parts of MigrationsTypeOK that an opener's moves change.
LEMMA TypesOfOpeners ==
  ASSUME MigrationsTypeOK, opener' \in [Openers -> OpenerStates],
         at' \in [Openers -> (1..18) \X (1..6)], kills' \in 0..MaxKills, overlapped' \in BOOLEAN,
         UNCHANGED <<tables, columns, kept, original, awaiting>>, recorded' \subseteq SchemaVersions
  PROVE  MigrationsTypeOK'
  BY PlacesAre, Zenon DEF MigrationsTypeOK, OpenerStates

LEMMA TypesKnown ==
  ASSUME MigrationsTypeOK
  PROVE  /\ opener \in [Openers -> OpenerStates] /\ at \in [Openers -> (1..18) \X (1..6)]
         /\ kills \in 0..MaxKills /\ overlapped \in BOOLEAN /\ recorded \subseteq SchemaVersions
         /\ \A o \in Openers : at[o] \in (1..18) \X (1..6)
  BY PlacesAre, Zenon DEF MigrationsTypeOK, OpenerStates

\* The invariant holds through each step of an opener.
LEMMA OpenKeeps ==
  ASSUME MigrationsInv, NEW o \in Openers, Open(o)
  PROVE  MigrationsInv'
<1>1. /\ opener[o] \in {"out", "failed"} /\ opener' = [opener EXCEPT ![o] = "creating"]
      /\ 5 \in recorded \/ \A p \in Openers : opener[p] \notin Busy
      /\ at' = [at EXCEPT ![o] = <<1, 1>>]
      /\ overlapped' = (overlapped \/ \E p \in Openers : opener[p] \in Busy)
      /\ UNCHANGED <<tables, columns, kept, original, awaiting, recorded, kills>>
  BY Zenon DEF Open, schemaVars
<1>2. /\ opener \in [Openers -> OpenerStates] /\ at \in [Openers -> (1..18) \X (1..6)]
      /\ kills \in 0..MaxKills /\ overlapped \in BOOLEAN /\ recorded \subseteq SchemaVersions
  BY TypesKnown, Zenon DEF MigrationsInv
<1>3. /\ opener'[o] = "creating"
      /\ \A p \in Openers : p # o => opener'[p] = opener[p] /\ at'[p] = at[p]
  BY <1>1, <1>2, Zenon
<1>4. /\ overlapped => overlapped'
      /\ ~overlapped' => \A p \in Openers : opener[p] \notin Busy
  BY <1>1, Zenon
<1>5. MigrationsTypeOK'
  <2>1. opener' \in [Openers -> OpenerStates]
    BY <1>1, <1>2, SMT DEF OpenerStates
  <2>2. at' \in [Openers -> (1..18) \X (1..6)]
    <3>1. <<1, 1>> \in (1..18) \X (1..6)
      BY SMT
    <3> QED BY <1>1, <1>2, <3>1, Zenon
  <2>3. overlapped' \in BOOLEAN
    BY <1>1, Zenon
  <2> QED BY <1>1, <1>2, <2>1, <2>2, <2>3, TypesOfOpeners, Zenon DEF MigrationsInv
<1>6. \A s : Lasts(s)' <=> Lasts(s)
  BY <1>1, Zenon DEF Lasts
<1>7. \A v, k : LastsBefore(v, k)' <=> LastsBefore(v, k)
  BY <1>6, Zenon DEF LastsBefore
<1>8. InOrder'
  <2>1. at'[o][1] = 1 /\ \A u \in SchemaVersions : ~(u < 1)
    BY <1>1, <1>2, VersionsAre, SMT
  <2> QED BY <1>1, <1>3, <2>1, SMT DEF MigrationsInv, InOrder, Busy, AtWork
<1>9. OneAtATime' /\ NotYetRecorded'
  <2>1. 5 \notin recorded' \/ ~overlapped' => \A p \in Openers : opener'[p] \in Busy => p = o
    BY <1>1, <1>3, <1>4, Zenon
  <2>2. OneAtATime'
    BY <2>1, Zenon DEF OneAtATime
  <2>3. \A p \in Openers : opener'[p] \in AtWork => opener[p] \in AtWork /\ at'[p] = at[p]
    BY <1>3, Zenon DEF AtWork
  <2>4. NotYetRecorded'
    BY <1>1, <1>4, <2>3, SMT DEF MigrationsInv, NotYetRecorded
  <2> QED BY <2>2, <2>4
<1>10. EffectsLast'
  BY <1>1, <1>3, <1>7, Zenon DEF MigrationsInv, EffectsLast
<1>11. TablesThere'
  BY <1>1, <1>3, SMT DEF MigrationsInv, TablesThere, Prepared
<1>12. TokensKept'
  BY <1>1, <1>3, SMT DEF MigrationsInv, TokensKept, Rebuilt, Rebuilding, AtWork
<1>13. NeverRefusedAlone'
  BY <1>1, <1>3, <1>4, Zenon DEF MigrationsInv, NeverRefusedAlone
<1> QED BY <1>5, <1>8, <1>9, <1>10, <1>11, <1>12, <1>13 DEF MigrationsInv

LEMMA KillKeeps ==
  ASSUME MigrationsInv, NEW o \in Openers, KillOpener(o)
  PROVE  MigrationsInv'
<1>1. /\ opener[o] \in Busy /\ opener' = [opener EXCEPT ![o] = "out"]
      /\ at' = [at EXCEPT ![o] = <<1, 1>>] /\ kills < MaxKills /\ kills' = kills + 1
      /\ UNCHANGED <<tables, columns, kept, original, awaiting, recorded, overlapped>>
  BY Zenon DEF KillOpener, schemaVars
<1>2. /\ opener \in [Openers -> OpenerStates] /\ at \in [Openers -> (1..18) \X (1..6)]
      /\ kills \in 0..MaxKills /\ overlapped \in BOOLEAN /\ recorded \subseteq SchemaVersions
  BY TypesKnown, Zenon DEF MigrationsInv
<1>3. /\ opener'[o] = "out"
      /\ \A p \in Openers : p # o => opener'[p] = opener[p] /\ at'[p] = at[p]
  BY <1>1, <1>2, Zenon
<1>4. MigrationsTypeOK'
  <2>1. opener' \in [Openers -> OpenerStates]
    BY <1>1, <1>2, SMT DEF OpenerStates
  <2>2. at' \in [Openers -> (1..18) \X (1..6)]
    <3>1. <<1, 1>> \in (1..18) \X (1..6)
      BY SMT
    <3> QED BY <1>1, <1>2, <3>1, Zenon
  <2>3. kills' \in 0..MaxKills
    BY <1>1, <1>2, MigrationsAssumption, SMT
  <2> QED BY <1>1, <1>2, <2>1, <2>2, <2>3, TypesOfOpeners, Zenon DEF MigrationsInv
<1>5. \A s : Lasts(s)' <=> Lasts(s)
  BY <1>1, Zenon DEF Lasts
<1>6. \A v, k : LastsBefore(v, k)' <=> LastsBefore(v, k)
  BY <1>5, Zenon DEF LastsBefore
<1>7. InOrder'
  BY <1>1, <1>3, SMT DEF MigrationsInv, InOrder, Busy, AtWork
<1>8. OneAtATime'
  BY <1>1, <1>3, Zenon DEF MigrationsInv, OneAtATime, Busy
<1>9. NotYetRecorded'
  BY <1>1, <1>3, SMT DEF MigrationsInv, NotYetRecorded, AtWork
<1>10. EffectsLast'
  BY <1>1, <1>3, <1>6, Zenon DEF MigrationsInv, EffectsLast
<1>11. TablesThere'
  BY <1>1, <1>3, SMT DEF MigrationsInv, TablesThere, Prepared
<1>12. TokensKept'
  BY <1>1, <1>3, SMT DEF MigrationsInv, TokensKept, Rebuilt, Rebuilding, AtWork
<1>13. NeverRefusedAlone'
  BY <1>1, <1>3, Zenon DEF MigrationsInv, NeverRefusedAlone
<1> QED BY <1>4, <1>7, <1>8, <1>9, <1>10, <1>11, <1>12, <1>13 DEF MigrationsInv

LEMMA CreateTablesKeeps ==
  ASSUME MigrationsInv, NEW o \in Openers, CreateTables(o)
  PROVE  MigrationsInv'
<1>1. /\ opener[o] = "creating" /\ opener' = [opener EXCEPT ![o] = "checking"]
      /\ tables' = tables \cup (CoreTables \ tables)
      /\ columns' = columns \cup UNION {Created(t) : t \in CoreTables \ tables}
      /\ UNCHANGED <<kept, original, awaiting, recorded, at, kills, overlapped>>
  BY Zenon DEF CreateTables
<1>2. /\ opener \in [Openers -> OpenerStates] /\ at \in [Openers -> (1..18) \X (1..6)]
      /\ kills \in 0..MaxKills /\ overlapped \in BOOLEAN /\ recorded \subseteq SchemaVersions
      /\ \A p \in Openers : at[p] \in (1..18) \X (1..6)
  BY TypesKnown, Zenon DEF MigrationsInv
<1>3. /\ opener'[o] = "checking" /\ \A p \in Openers : p # o => opener'[p] = opener[p]
  BY <1>1, <1>2, Zenon
<1>4. /\ tables \subseteq tables' /\ CoreTables \subseteq tables' /\ tables' \subseteq tables \cup CoreTables
  BY <1>1, Zenon
<1>5. columns \subseteq columns' /\ \A c \in columns' : c \in columns \/ (c \in Added(SchemaVersions) /\ c # OldColumn)
  BY <1>1, Zenon DEF Created, OldColumn
<1>6. "request_logs" \notin tables => <<"request_logs", "client">> \in columns'
  <2>1. <<"request_logs", "client">> \in Created("request_logs")
    BY ClientIsAdded, SMT DEF Created
  <2> QED BY <1>1, <2>1, Zenon DEF CoreTables
<1>7. MigrationsTypeOK'
  <2>1. opener' \in [Openers -> OpenerStates]
    BY <1>1, <1>2, SMT DEF OpenerStates
  <2> QED BY <1>1, <1>2, <1>4, <1>5, <2>1, Zenon DEF MigrationsInv, MigrationsTypeOK, OpenerStates
<1>8. \A s : Lasts(s) => Lasts(s)'
  BY <1>1, <1>4, <1>5, Zenon DEF Lasts
<1>9. \A v, k : LastsBefore(v, k) => LastsBefore(v, k)'
  BY <1>8, Zenon DEF LastsBefore
<1>10. ASSUME NEW p \in Openers, opener[p] \in Busy, 5 \notin recorded \/ ~overlapped PROVE p = o
  BY <1>1, <1>10, Zenon DEF MigrationsInv, OneAtATime, Busy
<1>11. InOrder'
  BY <1>1, <1>3, SMT DEF MigrationsInv, InOrder, Busy, AtWork
<1>12. OneAtATime'
  BY <1>1, <1>3, <1>10, SMT DEF OneAtATime, Busy
<1>13. NotYetRecorded'
  BY <1>1, <1>3, SMT DEF MigrationsInv, NotYetRecorded, AtWork
<1>14. EffectsLast'
  BY <1>1, <1>3, <1>9, Zenon DEF MigrationsInv, EffectsLast
<1>15. TablesThere'
  BY <1>1, <1>3, <1>4, <1>5, <1>6, SMT DEF MigrationsInv, TablesThere, Prepared
<1>16. TokensKept'
  <2>1. \A p \in Openers : opener'[p] \in AtWork /\ at'[p][1] = 5 => FALSE
    <3>1. ASSUME NEW p \in Openers, opener[p] \in AtWork, at[p][1] = 5 PROVE 5 \notin recorded
      BY <3>1, SMT DEF MigrationsInv, NotYetRecorded
    <3> QED BY <1>1, <1>3, <1>10, <3>1, Zenon DEF AtWork, Busy
  <2>2. "tokens" \in tables' /\ (5 \in recorded' => Rebuilt')
    BY <1>1, <1>4, <1>5, SMT DEF MigrationsInv, TokensKept, Rebuilt, CoreTables
  <2>3. /\ kept'["tokens"] \subseteq original' /\ kept'["tokens_v5"] \subseteq original'
        /\ kept'["tokens"] = original' \/ (kept'["tokens_v5"] = original' /\ "tokens_v5" \in tables')
    BY <1>1, <1>4, Zenon DEF MigrationsInv, TokensKept
  <2> QED BY <2>1, <2>2, <2>3, Zenon DEF TokensKept, AtWork
<1>17. NeverRefusedAlone'
  BY <1>1, <1>3, <1>4, SMT DEF MigrationsInv, NeverRefusedAlone, CoreTables
<1> QED BY <1>7, <1>11, <1>12, <1>13, <1>14, <1>15, <1>16, <1>17 DEF MigrationsInv

\* Every set of numbers has a least element.
Less == {ss \in Nat \X Nat : ss[1] < ss[2]}
LEMMA LessIsWellFounded == IsWellFoundedOn(Less, Nat)
  <1>1. Less = OpToRel(<, Nat)
    BY DEF OpToRel, Less
  <1> QED
    BY <1>1, NatLessThanWellFounded
LEMMA LeastExists ==
  ASSUME NEW T, T \subseteq Nat, T # {}
  PROVE  \E n \in T : \A m \in T : n <= m
  <1>1. \E n \in T : \A m \in T : ~(<<m, n>> \in Less)
    <2> DEFINE R == Less
               S == Nat
    <2>1. IsWellFoundedOn(R, S) /\ T \subseteq S
      BY LessIsWellFounded
    <2> HIDE DEF R, S
    <2>2. \E x \in T : \A y \in T : ~(<<y, x>> \in R)
      BY <2>1, WFMin, Zenon
    <2> QED
      BY <2>2 DEF R
  <1>2. PICK n \in T : \A m \in T : ~(<<m, n>> \in Less)
    BY <1>1
  <1>3. ASSUME NEW m \in T, m < n PROVE <<m, n>> \in Less
    <2>1. m \in Nat /\ n \in Nat
      OBVIOUS
    <2>2. <<m, n>> \in Nat \X Nat
      BY <2>1
    <2>3. <<m, n>>[1] < <<m, n>>[2]
      BY <1>3
    <2> QED
      BY <2>2, <2>3, Zenon DEF Less
  <1>4. \A m \in T : ~(m < n)
    BY <1>2, <1>3
  <1>5. \A m \in T : n <= m
    <2>1. n \in Nat /\ \A m \in T : m \in Nat
      OBVIOUS
    <2> QED
      BY <1>4, <2>1
  <1> QED
    BY <1>5

LEMMA CheckKeeps ==
  ASSUME MigrationsInv, NEW o \in Openers, Check(o)
  PROVE  MigrationsInv'
<1> DEFINE left == {v \in SchemaVersions : v >= at[o][1] /\ v \notin recorded}
           next == CHOOSE v \in left : \A w \in left : v <= w
<1>1. /\ opener[o] = "checking"
      /\ UNCHANGED <<tables, columns, kept, original, awaiting, recorded, kills, overlapped>>
      /\ \/ left = {} /\ opener' = [opener EXCEPT ![o] = "open"] /\ UNCHANGED at
         \/ left # {} /\ opener' = [opener EXCEPT ![o] = "migrating"] /\ at' = [at EXCEPT ![o] = <<next, 1>>]
  BY Zenon DEF Check, schemaVars
<1>2. /\ opener \in [Openers -> OpenerStates] /\ at \in [Openers -> (1..18) \X (1..6)]
      /\ kills \in 0..MaxKills /\ overlapped \in BOOLEAN /\ recorded \subseteq SchemaVersions
      /\ \A p \in Openers : at[p] \in (1..18) \X (1..6)
  BY TypesKnown, Zenon DEF MigrationsInv
<1>3. at[o][1] \in 1..18 /\ \A u \in SchemaVersions : u < at[o][1] => u \in recorded
  BY <1>1, <1>2, PlacesAre, Zenon DEF MigrationsInv, InOrder, Busy
<1>4. \A u \in SchemaVersions : u \notin left => u \in recorded
  <2> HIDE DEF next
  <2> QED BY <1>3, VersionsRange, SMT
<1>5. left = {} => recorded = SchemaVersions
  <2> HIDE DEF left, next
  <2> QED BY <1>2, <1>4, Zenon
<1>6. left # {} => /\ next \in SchemaVersions /\ next \notin recorded
                   /\ \A u \in SchemaVersions : u < next => u \in recorded
  <2>1. left \subseteq Nat
    BY VersionsRange, SMT
  <2>2. left # {} => \E v \in left : \A w \in left : v <= w
    <3> HIDE DEF left
    <3> QED BY <2>1, LeastExists, Zenon
  <2>3. left # {} => next \in left /\ \A w \in left : next <= w
    <3> HIDE DEF left
    <3> QED BY <2>2, Zenon
  <2>4. left # {} => \A u \in SchemaVersions : u < next => u \notin left
    <3> HIDE DEF left, next
    <3>1. ASSUME left # {}, NEW u \in SchemaVersions, u < next, u \in left PROVE FALSE
      <4>1. u \in Nat /\ next \in Nat /\ next <= u
        BY <2>1, <2>3, <3>1, Zenon
      <4> QED BY <3>1, <4>1, SMT
    <3> QED BY <3>1, Zenon
  <2> HIDE DEF next
  <2> QED BY <1>4, <2>3, <2>4, Zenon
<1> HIDE DEF left, next
<1>7. /\ \A p \in Openers : p # o => opener'[p] = opener[p] /\ at'[p] = at[p]
      /\ \/ opener'[o] = "open" /\ recorded = SchemaVersions
         \/ /\ opener'[o] = "migrating" /\ at'[o] = <<next, 1>> /\ next \in SchemaVersions
            /\ next \notin recorded /\ \A u \in SchemaVersions : u < next => u \in recorded
  BY <1>1, <1>2, <1>5, <1>6, Zenon
<1>8. MigrationsTypeOK'
  <2>1. opener' \in [Openers -> OpenerStates]
    BY <1>1, <1>2, SMT DEF OpenerStates
  <2>2. at' \in [Openers -> (1..18) \X (1..6)]
    <3>1. left # {} => <<next, 1>> \in (1..18) \X (1..6)
      BY <1>6, VersionsRange, SMT
    <3> QED BY <1>1, <1>2, <3>1, Zenon
  <2> QED BY <1>1, <1>2, <2>1, <2>2, TypesOfOpeners, Zenon DEF MigrationsInv
<1>9. \A s : Lasts(s)' <=> Lasts(s)
  BY <1>1, Zenon DEF Lasts
<1>10. \A v, k : LastsBefore(v, k)' <=> LastsBefore(v, k)
  BY <1>9, Zenon DEF LastsBefore
<1>11. InOrder'
  <2>1. opener'[o] = "migrating" => at'[o][1] = next /\ at'[o][2] \in 1..Len(migrations[at'[o][1]])
    <3>1. opener'[o] = "migrating" => at'[o][1] = next /\ at'[o][2] = 1 /\ next \in SchemaVersions
      BY <1>7, SMT
    <3>2. \A n \in 1..5 : 1 \in 1..n
      BY SMT
    <3> QED BY <3>1, <3>2, LengthIs, Zenon
  <2> QED BY <1>1, <1>7, <2>1, SMT DEF MigrationsInv, InOrder, Busy, AtWork
<1>12. OneAtATime'
  BY <1>1, <1>7, Zenon DEF MigrationsInv, OneAtATime, Busy
<1>13. NotYetRecorded'
  BY <1>1, <1>7, SMT DEF MigrationsInv, NotYetRecorded, AtWork
<1>14. EffectsLast'
  <2>1. opener'[o] = "migrating" => LastsBefore(at[o][1], at[o][2])'
    <3>1. opener'[o] = "migrating" =>
            at'[o][2] = 1 /\ at'[o][1] \in SchemaVersions
      BY <1>7, SMT
    <3>2. \A v \in SchemaVersions : LastsBefore(v, 1)'
      BY LengthIs, SMT DEF LastsBefore
    <3> QED BY <3>1, <3>2, Zenon
  <2>2. opener'[o] # "recording"
    BY <1>7, SMT
  <2> QED BY <1>1, <1>7, <1>10, <2>1, <2>2, Zenon DEF MigrationsInv, EffectsLast
<1>15. TablesThere'
  BY <1>1, <1>7, SMT DEF MigrationsInv, TablesThere, Prepared
<1>16. TokensKept'
  BY <1>1, <1>7, SMT DEF MigrationsInv, TokensKept, Rebuilt, Rebuilding, AtWork
<1>17. NeverRefusedAlone'
  BY <1>1, <1>7, SMT DEF MigrationsInv, NeverRefusedAlone
<1> QED BY <1>8, <1>11, <1>12, <1>13, <1>14, <1>15, <1>16, <1>17 DEF MigrationsInv

\* A process that another one was faster than only fails.
LEMMA FailingKeeps ==
  ASSUME MigrationsInv, NEW o \in Openers, opener[o] \in AtWork, overlapped,
         opener' = [opener EXCEPT ![o] = "failed"],
         UNCHANGED <<tables, columns, kept, original, awaiting, recorded, at, kills, overlapped>>
  PROVE  MigrationsInv'
<1>1. /\ opener \in [Openers -> OpenerStates] /\ at \in [Openers -> (1..18) \X (1..6)]
      /\ kills \in 0..MaxKills /\ overlapped \in BOOLEAN /\ recorded \subseteq SchemaVersions
  BY TypesKnown, Zenon DEF MigrationsInv
<1>2. /\ opener'[o] = "failed" /\ \A p \in Openers : p # o => opener'[p] = opener[p]
  BY <1>1, Zenon
<1>3. MigrationsTypeOK'
  <2>1. opener' \in [Openers -> OpenerStates]
    BY <1>1, SMT DEF OpenerStates
  <2> QED BY <1>1, <2>1, TypesOfOpeners, Zenon DEF MigrationsInv
<1>4. \A s : Lasts(s)' <=> Lasts(s)
  BY Zenon DEF Lasts
<1>5. \A v, k : LastsBefore(v, k)' <=> LastsBefore(v, k)
  BY <1>4, Zenon DEF LastsBefore
<1>6. InOrder'
  BY <1>2, SMT DEF MigrationsInv, InOrder, Busy, AtWork
<1>7. OneAtATime'
  BY <1>2, Zenon DEF MigrationsInv, OneAtATime, Busy, AtWork
<1>8. NotYetRecorded'
  BY <1>2, SMT DEF MigrationsInv, NotYetRecorded, AtWork
<1>9. EffectsLast'
  BY <1>2, <1>5, Zenon DEF MigrationsInv, EffectsLast
<1>10. TablesThere'
  BY <1>2, SMT DEF MigrationsInv, TablesThere, Prepared
<1>11. TokensKept'
  BY <1>2, SMT DEF MigrationsInv, TokensKept, Rebuilt, Rebuilding, AtWork
<1>12. NeverRefusedAlone'
  BY Zenon DEF NeverRefusedAlone
<1> QED BY <1>3, <1>6, <1>7, <1>8, <1>9, <1>10, <1>11, <1>12 DEF MigrationsInv

LEMMA RecordKeeps ==
  ASSUME MigrationsInv, NEW o \in Openers, Record(o)
  PROVE  MigrationsInv'
<1> DEFINE v == at[o][1]
<1>1. /\ opener[o] = "recording"
      /\ UNCHANGED <<tables, columns, kept, original, awaiting, kills, overlapped>>
      /\ \/ v \in recorded /\ opener' = [opener EXCEPT ![o] = "failed"] /\ UNCHANGED <<recorded, at>>
         \/ /\ v \notin recorded /\ recorded' = recorded \cup {v}
            /\ opener' = [opener EXCEPT ![o] = "checking"] /\ at' = [at EXCEPT ![o] = <<v + 1, 1>>]
  BY Zenon DEF Record
<1>2. /\ opener \in [Openers -> OpenerStates] /\ at \in [Openers -> (1..18) \X (1..6)]
      /\ kills \in 0..MaxKills /\ overlapped \in BOOLEAN /\ recorded \subseteq SchemaVersions
      /\ \A p \in Openers : at[p] \in (1..18) \X (1..6)
  BY TypesKnown, Zenon DEF MigrationsInv
<1>3. /\ v \in SchemaVersions /\ \A u \in SchemaVersions : u < v => u \in recorded
      /\ v \in recorded => overlapped /\ ~(v <= 5)
  BY <1>1, SMT DEF MigrationsInv, InOrder, NotYetRecorded, AtWork, Busy
<1>4. CASE v \in recorded
  BY <1>1, <1>3, <1>4, FailingKeeps, Zenon DEF AtWork
<1>5. CASE v \notin recorded
  <2>1. /\ recorded' = recorded \cup {v}
        /\ opener' = [opener EXCEPT ![o] = "checking"] /\ at' = [at EXCEPT ![o] = <<v + 1, 1>>]
    BY <1>1, <1>5, Zenon
  <2>2. /\ opener'[o] = "checking" /\ at'[o] = <<v + 1, 1>>
        /\ \A p \in Openers : p # o => opener'[p] = opener[p] /\ at'[p] = at[p]
    BY <1>2, <2>1, Zenon
  <2>3. at'[o][1] = v + 1 /\ v \in 1..17
    BY <1>3, <2>2, VersionsRange, SMT
  <2> HIDE DEF v
  <2>4. MigrationsTypeOK'
    <3>1. opener' \in [Openers -> OpenerStates]
      BY <1>2, <2>1, SMT DEF OpenerStates
    <3>2. at' \in [Openers -> (1..18) \X (1..6)]
      <4>1. <<v + 1, 1>> \in (1..18) \X (1..6)
        BY <2>3, SMT
      <4> QED BY <1>2, <2>1, <4>1, Zenon
    <3>3. recorded' \subseteq SchemaVersions
      BY <1>2, <1>3, <2>1, Zenon
    <3> QED BY <1>1, <1>2, <3>1, <3>2, <3>3, TypesOfOpeners, Zenon DEF MigrationsInv
  <2>5. \A s : Lasts(s)' <=> Lasts(s)
    BY <1>1, Zenon DEF Lasts
  <2>6. \A w, k : LastsBefore(w, k)' <=> LastsBefore(w, k)
    BY <2>5, Zenon DEF LastsBefore
  <2>7. InOrder'
    <3>1. \A w \in recorded', u \in SchemaVersions : u < w => u \in recorded'
      BY <1>3, <2>1, SMT DEF MigrationsInv, InOrder
    <3>2. \A u \in SchemaVersions : u < v + 1 => u \in recorded'
      BY <1>3, <2>1, <2>3, VersionsRange, SMT
    <3>3. \A p \in Openers : opener[p] # "open"
      BY <1>3, <1>5, Zenon DEF MigrationsInv, InOrder
    <3> QED BY <2>1, <2>2, <2>3, <3>1, <3>2, <3>3, SMT DEF MigrationsInv, InOrder, Busy, AtWork
  <2>8. opener[o] \in Busy /\ (5 \notin recorded' => 5 \notin recorded)
    BY <1>1, <2>1, Zenon DEF Busy
  <2>9. OneAtATime'
    BY <1>1, <2>2, <2>8, Zenon DEF MigrationsInv, OneAtATime
  <2>10. NotYetRecorded'
    <3>1. ASSUME NEW p \in Openers, p # o, opener[p] \in AtWork, at[p][1] <= 5 \/ ~overlapped
          PROVE  at[p][1] \notin recorded'
      <4>1. at[p][1] \in SchemaVersions /\ at[p][1] \notin recorded
        BY <3>1, Zenon DEF MigrationsInv, InOrder, NotYetRecorded
      <4>2. at[p][1] <= 5 => 5 \notin recorded
        BY <4>1, VersionsRange, SMT DEF MigrationsInv, InOrder
      <4>3. p = o
        BY <2>8, <3>1, <4>2, Zenon DEF MigrationsInv, OneAtATime, AtWork, Busy
      <4> QED BY <3>1, <4>3
    <3> QED BY <1>1, <2>2, <3>1, SMT DEF NotYetRecorded, AtWork
  <2>11. EffectsLast'
    BY <1>1, <2>1, <2>2, <2>6, SMT DEF MigrationsInv, EffectsLast, v
  <2>12. TablesThere'
    BY <1>1, <2>1, <2>2, SMT DEF MigrationsInv, TablesThere, Prepared
  <2>13. TokensKept'
    <3>1. "tokens" \in tables /\ (v = 5 => Rebuilt)
      BY <1>1, Zenon DEF MigrationsInv, TokensKept, Rebuilt, AtWork, v
    <3> QED BY <1>1, <2>1, <2>2, <3>1, SMT DEF MigrationsInv, TokensKept, Rebuilt, Rebuilding, AtWork
  <2>14. NeverRefusedAlone'
    BY <1>1, <2>1, <2>2, SMT DEF MigrationsInv, NeverRefusedAlone, v
  <2> QED BY <2>4, <2>7, <2>9, <2>10, <2>11, <2>12, <2>13, <2>14 DEF MigrationsInv
<1> QED BY <1>4, <1>5

\* No migration adds these columns: SQLite never refuses their UPDATEs for want of one.
LEMMA NeverAddedIs == \A c \in NeverAdded : c \notin Added(SchemaVersions)
<1> SUFFICES ASSUME NEW c \in NeverAdded, c \in Added(SchemaVersions) PROVE FALSE
  OBVIOUS
<1>1. Scheduled(SchemaVersions, "add", c)
  BY AddedAndFilled
<1>2. PICK v \in SchemaVersions : \E i \in 1..Len(migrations[v]) :
        migrations[v][i].do = "add" /\ c = <<migrations[v][i].table, migrations[v][i].column>>
  BY <1>1, Zenon DEF Scheduled
<1>3. PICK i \in 1..Len(migrations[v]) :
        migrations[v][i].do = "add" /\ c = <<migrations[v][i].table, migrations[v][i].column>>
  BY <1>2, Zenon
<1> QED BY <1>3, TheScript, Zenon DEF Scripted

\* A column that was added is still there.
LEMMA LastingColumn ==
  ASSUME NEW t, NEW c, t # "tokens", Lasts(Add(t, c))
  PROVE  <<t, c>> \in columns
<1>1. Add(t, c).do = "add" /\ Add(t, c).table = t /\ Add(t, c).column = c
  BY AddIs, Zenon
<1> QED BY <1>1 DEF Lasts

\* SQLite refuses no statement of a process that has been alone with the database.
LEMMA AloneIsNotRefused ==
  ASSUME MigrationsInv, NEW o \in Openers, opener[o] = "migrating", ~overlapped
  PROVE  ~Refused(Statement(o))
<1> DEFINE v == at[o][1]
           k == at[o][2]
           s == migrations[v][k]
<1>1. /\ v \in SchemaVersions /\ k \in 1..Len(migrations[v]) /\ v \notin recorded
      /\ \A u \in SchemaVersions : u < v => u \in recorded
      /\ CoreTables \ {"tokens"} \subseteq tables
  BY Zenon DEF MigrationsInv, InOrder, NotYetRecorded, TablesThere, AtWork, Busy, Prepared
<1>2. Statement(o) = s
  BY DEF Statement
<1>3. Scripted(v, k, s)
  BY <1>1, TheScript, Zenon
<1>4. /\ v # 5 => "tokens" \in tables
      /\ v = 5 => Rebuilding(k)
      /\ LastsBefore(v, k) /\ \A u \in recorded : LastsBefore(u, 7)
  BY Zenon DEF MigrationsInv, TokensKept, EffectsLast, AtWork
<1> HIDE DEF v, k, s
<1>5. k > 1 => Lasts(migrations[v][1])
  BY <1>1, <1>4, LengthIs, SMT DEF LastsBefore
<1>6. \A u \in SchemaVersions : u < v => Lasts(migrations[u][1])
  <2>1. \A u \in SchemaVersions : 1 \in 1..Len(migrations[u])
    <3>1. \A n \in 1..5 : 1 \in 1..n
      BY SMT
    <3> QED BY <3>1, LengthIs, Zenon
  <2> QED BY <1>1, <1>4, <2>1, SMT DEF LastsBefore
<1>7. 9 \in SchemaVersions /\ 12 \in SchemaVersions /\ 5 \in SchemaVersions /\ 7 \in SchemaVersions
  BY VersionsRange, SMT
<1>8. CASE s.do = "add"
  <2>1. s.table = "access_tokens" => "access_tokens" \in tables
    <3>1. SUFFICES ASSUME v = 10 PROVE "access_tokens" \in tables
      BY <1>3, <1>8, Zenon DEF Scripted
    <3>2. Lasts(migrations[9][1])
      BY <1>6, <1>7, <3>1, SMT
    <3>3. migrations[9][1].do = "create" /\ migrations[9][1].table = "access_tokens"
      <4>1. 1 \in 1..Len(migrations[9])
        BY Lengths, SMT
      <4>2. Scripted(9, 1, migrations[9][1])
        BY <1>7, <4>1, TheScript, Zenon
      <4> QED BY <4>2, SMT DEF Scripted
    <3> QED BY <3>2, <3>3, SMT DEF Lasts
  <2>2. s.table \in tables
    BY <1>1, <1>3, <1>4, <1>8, <2>1, SMT DEF Scripted, CoreTables
  <2> QED BY <1>2, <1>8, <2>2, SMT DEF Refused
<1>9. CASE s.do = "update"
  <2>1. s.table \in tables /\ s.table # "tokens"
    BY <1>1, <1>3, <1>9, Zenon DEF Scripted
  <2>2. CASE <<s.table, s.column>> \in NeverAdded
    BY <1>2, <1>9, <2>1, <2>2, NeverAddedIs, SMT DEF Refused
  <2>3. CASE v \in {4, 6} /\ k = 2 /\ migrations[v][1] = Add(s.table, s.column)
    <3>1. Lasts(Add(s.table, s.column))
      BY <1>5, <2>3, SMT
    <3>2. <<s.table, s.column>> \in columns
      BY <2>1, <3>1, LastingColumn, Zenon
    <3> QED BY <1>2, <1>9, <2>1, <3>2, SMT DEF Refused
  <2>4. CASE v = 13 /\ migrations[12][1] = Add(s.table, s.column)
    <3>1. Lasts(migrations[12][1])
      BY <1>6, <1>7, <2>4, SMT
    <3>2. <<s.table, s.column>> \in columns
      BY <2>1, <2>4, <3>1, LastingColumn, Zenon
    <3> QED BY <1>2, <1>9, <2>1, <3>2, SMT DEF Refused
  <2> QED BY <1>3, <1>9, <2>2, <2>3, <2>4, Zenon DEF Scripted
<1>10. CASE s.do \in {"drop", "copy", "rename"}
  <2>1. Rebuilding(k) /\ \/ s.do = "drop" /\ k = 3 /\ s.table = "tokens"
                         \/ s.do = "copy" /\ k = 2 /\ s.table = "tokens_v5"
                         \/ s.do = "rename" /\ k = 4 /\ s.table = "tokens_v5"
    BY <1>3, <1>4, <1>10, Zenon DEF Scripted
  <2> QED BY <1>2, <2>1, SMT DEF Refused, Rebuilding
<1>11. CASE s.do = "index"
  <2>1. "request_logs" \in tables
    BY <1>1, SMT DEF CoreTables
  <2>2. s.table = "request_logs" /\ s.column = "client" /\ s.table \in tables
    BY <1>3, <1>11, <2>1, Zenon DEF Scripted
  <2>3. <<"request_logs", "client">> \in columns
    <3>1. CASE v = 7
      BY <1>1, <2>2, <3>1, Zenon DEF MigrationsInv, TablesThere
    <3>2. CASE k = 2 /\ v = 8 /\ migrations[8][1] = Add("request_logs", "client")
      <4>1. Lasts(Add("request_logs", "client"))
        BY <1>5, <3>2, SMT
      <4> QED BY <4>1, LastingColumn, Zenon
    <3> QED BY <1>3, <1>11, <3>1, <3>2, Zenon DEF Scripted
  <2> QED BY <1>2, <1>11, <2>2, <2>3, SMT DEF Refused
<1>12. CASE s.do \in {"create", "drop_if_exists"}
  BY <1>2, <1>12, SMT DEF Refused
<1> QED BY <1>3, <1>8, <1>9, <1>10, <1>11, <1>12, Zenon DEF Scripted

\* What a statement outside the rebuild leaves as it was.
LeavesTheRest(v) ==
  /\ \A t \in tables : t \notin {"tokens", "tokens_v5", "response_cache"} => t \in tables'
  /\ \A t, c : <<t, c>> \in columns /\ t \notin {"tokens", "response_cache"} => <<t, c>> \in columns'
  /\ awaiting' \subseteq awaiting
  /\ "request_logs" \in tables' => "request_logs" \in tables \/ <<"request_logs", "client">> \in columns'
  /\ "response_cache" \in tables' => ("response_cache" \in tables /\ v # 17) \/ v = 15
  /\ v # 5 => /\ kept' = kept
              /\ "tokens" \in tables' <=> "tokens" \in tables
              /\ "tokens_v5" \in tables' <=> "tokens_v5" \in tables
              /\ OldColumn \in columns' => OldColumn \in columns \/ v = 3

\* Whatever a statement does, earlier ones' effects remain and its own is added.
LEMMA EffectsOfStatements ==
  ASSUME NEW v \in SchemaVersions, NEW k \in 1..Len(migrations[v]), NEW s, s = migrations[v][k],
         MigrationsTypeOK, Run(s)
  PROVE  /\ LeavesTheRest(v) /\ Lasts(s)'
         /\ tables' \subseteq CoreTables \cup {"tokens_v5", "access_tokens", "response_cache"}
         /\ columns' \subseteq Added(SchemaVersions)
         /\ kept' \in [{"tokens", "tokens_v5"} -> SUBSET Credentials]
         /\ awaiting' \subseteq Filled(SchemaVersions)
<1>1. Scripted(v, k, s)
  BY TheScript, Zenon
<1>2. /\ tables \subseteq CoreTables \cup {"tokens_v5", "access_tokens", "response_cache"}
      /\ columns \subseteq Added(SchemaVersions)
      /\ kept \in [{"tokens", "tokens_v5"} -> SUBSET Credentials]
      /\ awaiting \subseteq Filled(SchemaVersions)
  BY Zenon DEF MigrationsTypeOK
<1>3. CASE s.do = "add"
  <2>1. columns' = columns \cup {<<s.table, s.column>>} /\ UNCHANGED <<tables, kept, awaiting>>
    BY <1>3, SMT DEF Run
  <2>2. s.table = "tokens" => v = 3
    BY <1>1, <1>3, Zenon DEF Scripted
  <2>3. <<s.table, s.column>> \in Added(SchemaVersions)
    BY <1>3, ScheduledIn, AddedAndFilled
  <2>4. OldColumn \in columns' => OldColumn \in columns \/ v = 3
    BY <2>1, <2>2, SMT DEF OldColumn
  <2>5. LeavesTheRest(v)
    <3>1. v = 17 => FALSE
      BY <1>1, <1>3, Zenon DEF Scripted
    <3> QED BY <2>1, <2>4, <3>1, Zenon DEF LeavesTheRest
  <2> QED BY <1>2, <1>3, <2>1, <2>3, <2>5, SMT DEF Lasts
<1>4. CASE s.do = "update"
  <2>1. awaiting' = awaiting \ {<<s.table, s.column>>} /\ UNCHANGED <<tables, columns, kept>>
    BY <1>4, SMT DEF Run
  <2>2. v # 17
    BY <1>1, <1>4, Zenon DEF Scripted
  <2>3. LeavesTheRest(v)
    BY <2>1, <2>2, Zenon DEF LeavesTheRest
  <2> QED BY <1>2, <1>4, <2>1, <2>3, SMT DEF Lasts
<1>5. CASE s.do = "create"
  <2>1. /\ tables' = tables \cup {s.table} /\ kept' = kept /\ awaiting' = awaiting
        /\ columns' = IF s.table = "request_logs" /\ s.table \notin tables
                      THEN columns \cup {<<s.table, "client">>} ELSE columns
    BY <1>5, SMT DEF Run, RowsCreated
  <2>2. /\ s.table \in {"request_logs", "access_tokens", "response_cache", "tokens_v5"}
        /\ s.table = "tokens_v5" => v = 5
        /\ s.table = "response_cache" => v = 15
        /\ v # 17
    BY <1>1, <1>5, Zenon DEF Scripted
  <2>3. /\ columns \subseteq columns' /\ \A c \in columns' : c \in columns \/ c = <<"request_logs", "client">>
        /\ s.table = "request_logs" /\ s.table \notin tables => <<"request_logs", "client">> \in columns'
    BY <2>1, Zenon
  <2>4. OldColumn # <<"request_logs", "client">>
    BY SMT DEF OldColumn
  <2>5. LeavesTheRest(v)
    BY <2>1, <2>2, <2>3, <2>4, SMT DEF LeavesTheRest
  <2>6. columns' \subseteq Added(SchemaVersions)
    BY <1>2, <2>3, ClientIsAdded, Zenon
  <2>7. tables' \subseteq CoreTables \cup {"tokens_v5", "access_tokens", "response_cache"}
    <3>1. "request_logs" \in CoreTables
      BY SMT DEF CoreTables
    <3> QED BY <1>2, <2>1, <2>2, <3>1, Zenon
  <2> QED BY <1>2, <1>5, <2>1, <2>5, <2>6, <2>7, SMT DEF Lasts
<1>6. CASE s.do = "drop_if_exists"
  <2>1. s.table = "response_cache" /\ v = 17
    BY <1>1, <1>6, Zenon DEF Scripted
  <2>2. /\ tables' = tables \ {"response_cache"} /\ kept' = kept /\ awaiting' = awaiting
        /\ columns' = {c \in columns : c[1] # "response_cache"}
    BY <1>6, <2>1, SMT DEF Run
  <2>3. LeavesTheRest(v)
    BY <2>1, <2>2, SMT DEF LeavesTheRest
  <2> QED BY <1>2, <1>6, <2>2, <2>3, SMT DEF Lasts
<1>7. CASE s.do = "drop"
  <2>1. s.table = "tokens" /\ v = 5
    BY <1>1, <1>7, Zenon DEF Scripted
  <2>2. /\ tables' = tables \ {"tokens"} /\ kept' = [kept EXCEPT !["tokens"] = {}] /\ awaiting' = awaiting
        /\ columns' = {c \in columns : c[1] # "tokens"}
    BY <1>7, <2>1, SMT DEF Run
  <2>3. LeavesTheRest(v)
    BY <2>1, <2>2, SMT DEF LeavesTheRest
  <2> QED BY <1>2, <1>7, <2>2, <2>3, SMT DEF Lasts
<1>8. CASE s.do = "copy"
  <2>1. s.table = "tokens_v5" /\ v = 5
    BY <1>1, <1>8, Zenon DEF Scripted
  <2>2. /\ kept' = [kept EXCEPT !["tokens_v5"] = kept["tokens_v5"] \cup kept["tokens"]]
        /\ UNCHANGED <<tables, columns, awaiting>>
    BY <1>8, <2>1, SMT DEF Run
  <2>3. LeavesTheRest(v)
    BY <2>1, <2>2, SMT DEF LeavesTheRest
  <2> QED BY <1>2, <1>8, <2>2, <2>3, SMT DEF Lasts
<1>9. CASE s.do = "rename"
  <2>1. s.table = "tokens_v5" /\ v = 5
    BY <1>1, <1>9, Zenon DEF Scripted
  <2>2. /\ tables' = (tables \ {"tokens_v5"}) \cup {"tokens"}
        /\ kept' = [kept EXCEPT !["tokens"] = kept["tokens_v5"], !["tokens_v5"] = {}]
        /\ UNCHANGED <<columns, awaiting>>
    BY <1>9, <2>1, SMT DEF Run
  <2>3. LeavesTheRest(v)
    BY <2>1, <2>2, SMT DEF LeavesTheRest
  <2>4. tables' \subseteq CoreTables \cup {"tokens_v5", "access_tokens", "response_cache"}
    BY <1>2, <2>2, SMT DEF CoreTables
  <2> QED BY <1>2, <1>9, <2>2, <2>3, <2>4, SMT DEF Lasts
<1>10. CASE s.do = "index"
  <2>1. UNCHANGED <<tables, columns, kept, awaiting>> /\ v # 17
    BY <1>1, <1>10, SMT DEF Run, Scripted
  <2>2. LeavesTheRest(v)
    BY <2>1, Zenon DEF LeavesTheRest
  <2> QED BY <1>2, <1>10, <2>1, <2>2, SMT DEF Lasts
<1> QED BY <1>1, <1>3, <1>4, <1>5, <1>6, <1>7, <1>8, <1>9, <1>10, Zenon DEF Scripted

\* The steps of the rebuild, in their order.
LEMMA StepsOfTheRebuild ==
  ASSUME NEW k \in 1..4, Run(migrations[5][k]), TokensKept, MigrationsTypeOK, Rebuilding(k),
         original' = original
  PROVE  /\ kept'["tokens"] \subseteq original' /\ kept'["tokens_v5"] \subseteq original'
         /\ \/ kept'["tokens"] = original'
            \/ kept'["tokens_v5"] = original' /\ "tokens_v5" \in tables'
         /\ k < 4 => Rebuilding(k + 1)'
         /\ k = 4 => Rebuilt'
<1>1. 5 \in SchemaVersions /\ k \in 1..Len(migrations[5])
  BY VersionsRange, Lengths, SMT
<1> DEFINE s == migrations[5][k]
<1>2. Scripted(5, k, s)
  BY <1>1, TheScript, Zenon
<1>3. /\ kept \in [{"tokens", "tokens_v5"} -> SUBSET Credentials]
      /\ kept["tokens"] \subseteq original /\ kept["tokens_v5"] \subseteq original
      /\ kept["tokens"] = original \/ (kept["tokens_v5"] = original /\ "tokens_v5" \in tables)
  BY Zenon DEF MigrationsTypeOK, TokensKept
<1>4. Run(s)
  OBVIOUS
<1> HIDE DEF s
<1>5. CASE k = 1
  <2>1. s.do = "create" /\ s.table = "tokens_v5"
    BY <1>2, <1>5, Zenon DEF Scripted
  <2>2. tables' = tables \cup {"tokens_v5"} /\ kept' = kept
    BY <1>4, <2>1, SMT DEF Run, RowsCreated
  <2> QED BY <1>3, <1>5, <2>2, SMT DEF Rebuilding
<1>6. CASE k = 2
  <2>1. s.do = "copy" /\ s.table = "tokens_v5"
    BY <1>2, <1>6, Zenon DEF Scripted
  <2>2. /\ kept' = [kept EXCEPT !["tokens_v5"] = kept["tokens_v5"] \cup kept["tokens"]]
        /\ UNCHANGED <<tables, columns, awaiting>>
    BY <1>4, <2>1, SMT DEF Run
  <2>3. kept'["tokens"] = kept["tokens"] /\ kept'["tokens_v5"] = original
    BY <1>3, <2>2, Zenon
  <2> QED BY <1>3, <1>6, <2>2, <2>3, SMT DEF Rebuilding
<1>7. CASE k = 3
  <2>1. s.do = "drop" /\ s.table = "tokens"
    BY <1>2, <1>7, Zenon DEF Scripted
  <2>2. /\ tables' = tables \ {"tokens"} /\ kept' = [kept EXCEPT !["tokens"] = {}]
        /\ columns' = {c \in columns : c[1] # "tokens"}
    BY <1>4, <2>1, SMT DEF Run
  <2>3. kept'["tokens"] = {} /\ kept'["tokens_v5"] = kept["tokens_v5"]
    BY <1>3, <2>2, SMT
  <2>4. OldColumn \notin columns'
    BY <2>2, SMT DEF OldColumn
  <2> QED BY <1>3, <1>7, <2>2, <2>3, <2>4, SMT DEF Rebuilding
<1>8. CASE k = 4
  <2>1. s.do = "rename" /\ s.table = "tokens_v5"
    BY <1>2, <1>8, Zenon DEF Scripted
  <2>2. /\ tables' = (tables \ {"tokens_v5"}) \cup {"tokens"}
        /\ kept' = [kept EXCEPT !["tokens"] = kept["tokens_v5"], !["tokens_v5"] = {}]
        /\ UNCHANGED <<columns, awaiting>>
    BY <1>4, <2>1, SMT DEF Run
  <2>3. kept'["tokens"] = kept["tokens_v5"] /\ kept'["tokens_v5"] = {}
    BY <1>3, <2>2, SMT
  <2> QED BY <1>3, <1>8, <2>2, <2>3, SMT DEF Rebuilding, Rebuilt
<1> QED BY <1>5, <1>6, <1>7, <1>8, SMT

LEMMA MigrateKeeps ==
  ASSUME MigrationsInv, NEW o \in Openers, Migrate(o)
  PROVE  MigrationsInv'
<1>1. opener[o] = "migrating" /\ UNCHANGED <<kills, overlapped>>
  BY Zenon DEF Migrate
<1>2. CASE Refused(Statement(o))
  <2>1. opener' = [opener EXCEPT ![o] = "failed"] /\ UNCHANGED <<schemaVars, at>>
    BY <1>2, Zenon DEF Migrate
  <2>2. overlapped
    BY <1>1, <1>2, AloneIsNotRefused, Zenon
  <2> QED BY <1>1, <2>1, <2>2, FailingKeeps, Zenon DEF AtWork, schemaVars
<1>3. CASE ~Refused(Statement(o))
  <2>1. /\ opener \in [Openers -> OpenerStates] /\ at \in [Openers -> (1..18) \X (1..6)]
        /\ kills \in 0..MaxKills /\ overlapped \in BOOLEAN /\ recorded \subseteq SchemaVersions
        /\ at[o] \in (1..18) \X (1..6) /\ MigrationsTypeOK
    BY TypesKnown, Zenon DEF MigrationsInv
  <2>2. at[o][1] \in SchemaVersions /\ at[o][2] \in 1..Len(migrations[at[o][1]])
    BY <1>1, Zenon DEF MigrationsInv, InOrder, AtWork
  <2>3. PICK v \in SchemaVersions : v = at[o][1]
    BY <2>2, Zenon
  <2>4. PICK k \in 1..Len(migrations[v]) : k = at[o][2]
    BY <2>2, <2>3, Zenon
  <2>5. PICK s : s = migrations[v][k]
    OBVIOUS
  <2>6. Run(s) /\ UNCHANGED <<original, recorded, kills, overlapped>>
    BY <1>1, <1>3, <2>3, <2>4, <2>5, Zenon DEF Migrate, Statement
  <2>7. \/ /\ k < Len(migrations[v]) /\ at' = [at EXCEPT ![o][2] = at[o][2] + 1]
           /\ opener' = opener
        \/ /\ ~(k < Len(migrations[v])) /\ opener' = [opener EXCEPT ![o] = "recording"]
           /\ at' = at
    BY <1>3, <2>3, <2>4, Zenon DEF Migrate
  <2>8. /\ LeavesTheRest(v) /\ Lasts(s)'
        /\ tables' \subseteq CoreTables \cup {"tokens_v5", "access_tokens", "response_cache"}
        /\ columns' \subseteq Added(SchemaVersions)
        /\ kept' \in [{"tokens", "tokens_v5"} -> SUBSET Credentials]
        /\ awaiting' \subseteq Filled(SchemaVersions)
    BY <2>1, <2>5, <2>6, EffectsOfStatements, Zenon
  <2>9. v \in 1..17 /\ k \in 1..5 /\ Len(migrations[v]) \in 1..5 /\ k <= Len(migrations[v])
    <3>1. \A n \in 1..5 : \A j \in 1..n : j \in 1..5 /\ j <= n
      BY SMT
    <3>2. Len(migrations[v]) \in 1..5 /\ v \in 1..17
      BY LengthIs, VersionsRange, Zenon
    <3> QED BY <3>1, <3>2, Zenon
  <2>10. \/ /\ k < Len(migrations[v]) /\ opener' = opener
            /\ at' = [at EXCEPT ![o] = <<v, k + 1>>]
         \/ /\ k = Len(migrations[v]) /\ opener' = [opener EXCEPT ![o] = "recording"]
            /\ at' = at
    <3>1. k + 1 \in 1..6 /\ (~(k < Len(migrations[v])) => k = Len(migrations[v]))
      BY <2>9, SMT
    <3>2. [at[o] EXCEPT ![2] = k + 1] = <<v, k + 1>>
      BY <2>1, <2>3, <3>1, PlacesAre, Zenon
    <3>3. [at EXCEPT ![o][2] = at[o][2] + 1] = [at EXCEPT ![o] = <<v, k + 1>>]
      BY <2>4, <3>2, Zenon
    <3> QED BY <2>7, <3>1, <3>3, Zenon
  <2>11. /\ \A p \in Openers : p # o => opener'[p] = opener[p] /\ at'[p] = at[p]
         /\ at'[o][1] = v
         /\ \/ opener'[o] = "migrating" /\ k < Len(migrations[v]) /\ at'[o][2] = k + 1
            \/ opener'[o] = "recording" /\ k = Len(migrations[v])
    <3>1. opener' = opener \/ opener' = [opener EXCEPT ![o] = "recording"]
      BY <2>10, Zenon
    <3>2. at' = at \/ at' = [at EXCEPT ![o] = <<v, k + 1>>]
      BY <2>10, Zenon
    <3>3. \A p \in Openers : p # o => opener'[p] = opener[p] /\ at'[p] = at[p]
      BY <2>1, <3>1, <3>2, Zenon
    <3>4. \/ opener'[o] = "migrating" /\ k < Len(migrations[v]) /\ at'[o] = <<v, k + 1>>
          \/ opener'[o] = "recording" /\ k = Len(migrations[v]) /\ at'[o] = at[o]
      BY <1>1, <2>1, <2>10, Zenon
    <3> QED BY <2>3, <3>3, <3>4, SMT
  <2>12. \A u \in SchemaVersions : \A i \in 1..Len(migrations[u]) :
           Lasts(migrations[u][i]) => Lasts(migrations[u][i])'
    <3>1. ASSUME NEW u \in SchemaVersions, NEW i \in 1..Len(migrations[u]), NEW x, x = migrations[u][i], Lasts(x)
          PROVE  Lasts(x)'
      <4>1. /\ x.do = "add" => x.table # "response_cache"
            /\ x.do = "create" => x.table # "tokens"
        <5>1. Scripted(u, i, x)
          BY <3>1, TheScript, Zenon
        <5>2. "response_cache" \notin CoreTables \cup {"access_tokens"}
          BY SMT DEF CoreTables
        <5> QED BY <5>1, <5>2, SMT DEF Scripted
      <4> QED BY <2>8, <3>1, <4>1, Zenon DEF Lasts, LeavesTheRest
    <3> QED BY <3>1, Zenon
  <2>13. \A u \in SchemaVersions, n \in Nat : LastsBefore(u, n) => LastsBefore(u, n)'
    BY <2>12, Zenon DEF LastsBefore
  <2>14. LastsBefore(v, k + 1)'
    <3>1. \A i \in 1..Len(migrations[v]) : i < k + 1 => i < k \/ i = k
      BY <2>9, SMT
    <3>2. LastsBefore(v, k)
      BY <1>1, <2>3, <2>4, Zenon DEF MigrationsInv, EffectsLast
    <3> QED BY <2>5, <2>8, <2>12, <3>1, <3>2, Zenon DEF LastsBefore
  <2>15. k = Len(migrations[v]) => LastsBefore(v, 7)'
    <3>1. k = Len(migrations[v]) => \A i \in 1..Len(migrations[v]) : i < k + 1
      BY <2>9, SMT
    <3> QED BY <2>14, <3>1, Zenon DEF LastsBefore
  <2>16. v <= 5 \/ ~overlapped => v \notin recorded
    BY <1>1, <2>3, Zenon DEF MigrationsInv, NotYetRecorded, AtWork
  <2>17. ASSUME NEW p \in Openers, opener[p] \in Busy, 5 \notin recorded \/ ~overlapped PROVE p = o
    BY <1>1, <2>17, Zenon DEF MigrationsInv, OneAtATime, Busy
  <2>18. MigrationsTypeOK'
    <3>1. opener' \in [Openers -> OpenerStates]
      BY <2>1, <2>10, SMT DEF OpenerStates
    <3>2. at' \in [Openers -> (1..18) \X (1..6)]
      <4>1. v \in 1..18 /\ k + 1 \in 1..6
        <5>1. \A n \in 1..17 : n \in 1..18
          BY SMT
        <5>2. \A n \in 1..5 : n + 1 \in 1..6
          BY SMT
        <5> QED BY <2>9, <5>1, <5>2, Zenon
      <4>2. <<v, k + 1>> \in (1..18) \X (1..6)
        BY <4>1, PlacesAre, Zenon
      <4> QED BY <2>1, <2>10, <4>2, Zenon
    <3> QED BY <2>1, <2>6, <2>8, <3>1, <3>2, PlacesAre, Zenon DEF MigrationsTypeOK, OpenerStates
  <2>19. InOrder'
    BY <1>1, <2>3, <2>6, <2>9, <2>11, SMT DEF MigrationsInv, InOrder, Busy, AtWork
  <2>20. OneAtATime'
    BY <1>1, <2>6, <2>11, <2>17, SMT DEF OneAtATime, Busy
  <2>21. NotYetRecorded'
    BY <1>1, <2>6, <2>11, <2>16, SMT DEF MigrationsInv, NotYetRecorded, AtWork
  <2>22. EffectsLast'
    <3>1. \A u \in recorded : LastsBefore(u, 7)'
      BY <2>1, <2>13, Zenon DEF MigrationsInv, EffectsLast
    <3>2. ASSUME NEW p \in Openers, p # o
          PROVE  /\ opener'[p] = "migrating" => LastsBefore(at[p][1], at[p][2])'
                 /\ opener'[p] = "recording" => LastsBefore(at[p][1], 7)'
      <4>1. opener'[p] = opener[p] /\ at'[p] = at[p]
        BY <2>11, <3>2, Zenon
      <4>2. /\ opener[p] \in AtWork => at[p][1] \in SchemaVersions
            /\ opener[p] = "migrating" => LastsBefore(at[p][1], at[p][2])
            /\ opener[p] = "recording" => LastsBefore(at[p][1], 7)
        BY Zenon DEF MigrationsInv, InOrder, EffectsLast
      <4>3. at[p][2] \in Nat /\ 7 \in Nat
        <5>1. at[p][2] \in 1..6
          BY <2>1, PlacesAre, Zenon
        <5> QED BY <5>1, SMT
      <4>4. PICK u : u = at[p][1]
        OBVIOUS
      <4>5. PICK n : n = at[p][2]
        OBVIOUS
      <4>6. /\ opener[p] = "migrating" => LastsBefore(u, n)'
            /\ opener[p] = "recording" => LastsBefore(u, 7)'
        BY <2>13, <4>2, <4>3, <4>4, <4>5, Zenon DEF AtWork
      <4> QED BY <4>1, <4>4, <4>5, <4>6, Zenon
    <3>3. /\ opener'[o] = "migrating" => LastsBefore(at[o][1], at[o][2])'
          /\ opener'[o] = "recording" => LastsBefore(at[o][1], 7)'
      BY <2>11, <2>14, <2>15, SMT
    <3> QED BY <2>6, <3>1, <3>2, <3>3, Zenon DEF EffectsLast
  <2>23. TablesThere'
    BY <1>1, <2>6, <2>8, <2>11, SMT DEF MigrationsInv, TablesThere, Prepared, LeavesTheRest, CoreTables
  <2>24. TokensKept'
    <3>1. ASSUME NEW p \in Openers, p # o, opener[p] \in AtWork, at[p][1] = 5 PROVE FALSE
      <4>1. 5 \notin recorded
        BY <3>1, SMT DEF MigrationsInv, NotYetRecorded
      <4> QED BY <2>17, <3>1, <4>1, Zenon DEF AtWork, Busy
    <3>2. CASE v = 5
      <4>1. 5 \notin recorded /\ k \in 1..4 /\ Len(migrations[v]) = 4
        BY <2>9, <2>16, <3>2, Lengths, SMT
      <4>2. Rebuilding(k)
        BY <1>1, <2>3, <2>4, <3>2, Zenon DEF MigrationsInv, TokensKept
      <4>3. /\ kept'["tokens"] \subseteq original' /\ kept'["tokens_v5"] \subseteq original'
            /\ \/ kept'["tokens"] = original'
               \/ kept'["tokens_v5"] = original' /\ "tokens_v5" \in tables'
            /\ k < 4 => Rebuilding(k + 1)'
            /\ k = 4 => Rebuilt'
        BY <2>5, <2>6, <3>2, <4>1, <4>2, StepsOfTheRebuild, Zenon DEF MigrationsInv
      <4>4. \A p \in Openers : p # o => opener'[p] \notin Busy
        BY <2>11, <2>17, <4>1, Zenon
      <4>5. /\ opener'[o] = "migrating" => Rebuilding(at[o][2])'
            /\ opener'[o] = "recording" => Rebuilt'
        BY <2>11, <4>1, <4>3, SMT
      <4>6. opener'[o] # "checking" /\ at'[o][1] = 5
        BY <2>11, <3>2, SMT
      <4> QED BY <2>6, <4>1, <4>3, <4>4, <4>5, <4>6, Zenon DEF TokensKept, AtWork, Busy
    <3>3. CASE v # 5
      <4>1. /\ kept' = kept /\ "tokens" \in tables' <=> "tokens" \in tables
            /\ "tokens_v5" \in tables' <=> "tokens_v5" \in tables
            /\ OldColumn \in columns' => OldColumn \in columns \/ v = 3
        BY <2>8, <3>3, Zenon DEF LeavesTheRest
      <4>2. "tokens" \in tables
        BY <1>1, <2>3, <3>3, Zenon DEF MigrationsInv, TokensKept, AtWork
      <4>3. 5 \in recorded => v # 3
        <5>1. 5 \in recorded /\ v < 5 => v \in recorded
          BY Zenon DEF MigrationsInv, InOrder
        <5> QED BY <2>16, <5>1, SMT
      <4>4. 5 \in recorded => Rebuilt'
        BY <2>6, <4>1, <4>3, Zenon DEF MigrationsInv, TokensKept, Rebuilt
      <4>5. ASSUME NEW p \in Openers
            PROVE  ~(opener'[p] \in AtWork /\ at'[p][1] = 5)
        BY <2>11, <3>1, <3>3, SMT DEF AtWork
      <4>6. /\ kept["tokens"] \subseteq original /\ kept["tokens_v5"] \subseteq original
            /\ kept["tokens"] = original \/ (kept["tokens_v5"] = original /\ "tokens_v5" \in tables)
        BY Zenon DEF MigrationsInv, TokensKept
      <4> QED BY <2>6, <4>1, <4>2, <4>4, <4>5, <4>6, Zenon DEF TokensKept, AtWork
    <3> QED BY <3>2, <3>3
  <2>25. NeverRefusedAlone'
    <3>1. ~overlapped => 17 \notin recorded
      <4>1. 17 \in recorded /\ v < 17 => v \in recorded
        BY Zenon DEF MigrationsInv, InOrder
      <4>2. v < 17 \/ v = 17
        BY <2>9, SMT
      <4> QED BY <2>16, <4>1, <4>2, SMT
    <3>2. v = 17 => "response_cache" \notin tables'
      BY <2>8, SMT DEF LeavesTheRest
    <3>3. ASSUME ~overlapped, NEW p \in Openers, p # o PROVE opener'[p] # "failed" /\ opener'[p] # "recording"
      BY <2>11, <2>17, <3>3, SMT DEF MigrationsInv, NeverRefusedAlone, Busy
    <3>4. opener'[o] # "failed"
      BY <2>11, SMT
    <3> QED BY <2>6, <2>11, <3>1, <3>2, <3>3, <3>4, Zenon DEF NeverRefusedAlone
  <2> QED BY <2>18, <2>19, <2>20, <2>21, <2>22, <2>23, <2>24, <2>25 DEF MigrationsInv
<1> QED BY <1>2, <1>3

LEMMA MigrationsStep == MigrationsInv /\ [MigrationsNext]_migrationVars => MigrationsInv'
<1> SUFFICES ASSUME MigrationsInv, [MigrationsNext]_migrationVars PROVE MigrationsInv'
  OBVIOUS
<1>1. CASE UNCHANGED migrationVars
  <2>1. UNCHANGED <<tables, columns, kept, original, awaiting, recorded, opener, at, kills, overlapped>>
    BY <1>1, Zenon DEF migrationVars
  <2>2. MigrationsTypeOK' /\ InOrder' /\ OneAtATime' /\ NotYetRecorded'
    BY <2>1, Zenon DEF MigrationsInv, MigrationsTypeOK, InOrder, OneAtATime, NotYetRecorded
  <2>3. EffectsLast' /\ TablesThere'
    <3>1. \A v, k : LastsBefore(v, k)' <=> LastsBefore(v, k)
      BY <2>1, Zenon DEF LastsBefore, Lasts
    <3> QED BY <2>1, <3>1, Zenon DEF MigrationsInv, EffectsLast, TablesThere
  <2>4. TokensKept'
    <3>1. Rebuilt' <=> Rebuilt
      BY <2>1, Zenon DEF Rebuilt
    <3>2. \A k : Rebuilding(k)' <=> Rebuilding(k)
      BY <2>1, Zenon DEF Rebuilding
    <3> QED BY <2>1, <3>1, <3>2, Zenon DEF MigrationsInv, TokensKept
  <2>5. NeverRefusedAlone'
    BY <2>1, Zenon DEF MigrationsInv, NeverRefusedAlone
  <2> QED BY <2>2, <2>3, <2>4, <2>5 DEF MigrationsInv
<1>2. ASSUME NEW o \in Openers,
             Open(o) \/ CreateTables(o) \/ Check(o) \/ Migrate(o) \/ Record(o) \/ KillOpener(o)
      PROVE  MigrationsInv'
  BY <1>2, OpenKeeps, CreateTablesKeeps, CheckKeeps, MigrateKeeps, RecordKeeps, KillKeeps, Zenon
<1> QED BY <1>1, <1>2, Zenon DEF MigrationsNext

LEMMA MigrationsHolds == MigrationsSpec => []MigrationsInv
  BY MigrationsStart, MigrationsStep, PTL DEF MigrationsSpec

\* What the invariant says of an open database.
LEMMA OpenLosesNothing == MigrationsInv => UpgradesLoseNothing
<1> SUFFICES ASSUME MigrationsInv, NEW o \in Openers
    PROVE  /\ opener[o] = "open" => /\ columns = Added(SchemaVersions) \ {<<"tokens", "provider_id">>}
                                    /\ awaiting = {} /\ recorded = SchemaVersions
                                    /\ kept["tokens"] = original
                                    /\ tables \ {"response_cache"} = CoreTables \cup {"access_tokens"}
           /\ ~overlapped => /\ opener[o] # "failed"
                             /\ opener[o] = "open" => "response_cache" \notin tables
  BY Zenon DEF UpgradesLoseNothing
<1>1. SchemaVersions \subseteq SchemaVersions /\ 5 \in SchemaVersions /\ 9 \in SchemaVersions /\ 17 \in SchemaVersions
  BY VersionsRange, SMT
<1>2. CASE opener[o] = "open"
  <2>1. recorded = SchemaVersions
    BY <1>2, Zenon DEF MigrationsInv, InOrder
  <2>2. Rebuilt
    BY <1>1, <2>1, Zenon DEF MigrationsInv, TokensKept
  <2>3. ASSUME NEW v \in SchemaVersions, NEW i \in 1..Len(migrations[v]) PROVE Lasts(migrations[v][i])
    <3>1. \A n \in 1..5 : \A j \in 1..n : j < 7
      BY SMT
    <3> QED BY <2>1, <3>1, LengthIs, Zenon DEF MigrationsInv, EffectsLast, LastsBefore
  <2>4. ASSUME NEW c \in Added(SchemaVersions), c # OldColumn PROVE c \in columns
    <3>1. Scheduled(SchemaVersions, "add", c)
      BY AddedAndFilled
    <3>2. PICK v \in SchemaVersions : \E i \in 1..Len(migrations[v]) :
            migrations[v][i].do = "add" /\ c = <<migrations[v][i].table, migrations[v][i].column>>
      BY <3>1, Zenon DEF Scheduled
    <3>3. PICK i \in 1..Len(migrations[v]) :
            migrations[v][i].do = "add" /\ c = <<migrations[v][i].table, migrations[v][i].column>>
      BY <3>2, Zenon
    <3>4. Scripted(v, i, migrations[v][i])
      BY TheScript, Zenon
    <3>5. migrations[v][i].table # "tokens"
      BY <2>4, <3>3, <3>4, Zenon DEF Scripted, OldColumn
    <3> QED BY <2>3, <3>3, <3>5, Zenon DEF Lasts
  <2>5. columns = Added(SchemaVersions) \ {OldColumn}
    <3>1. columns \subseteq Added(SchemaVersions) /\ OldColumn \notin columns
      BY <2>2, Zenon DEF MigrationsInv, MigrationsTypeOK, Rebuilt
    <3> QED BY <2>4, <3>1, Zenon
  <2>6. awaiting = {}
    <3>1. SUFFICES ASSUME NEW c \in awaiting PROVE FALSE
      OBVIOUS
    <3>2. c \in Filled(SchemaVersions)
      BY Zenon DEF MigrationsInv, MigrationsTypeOK
    <3>3. Scheduled(SchemaVersions, "update", c)
      BY <3>2, AddedAndFilled
    <3>4. PICK v \in SchemaVersions : \E i \in 1..Len(migrations[v]) :
            migrations[v][i].do = "update" /\ c = <<migrations[v][i].table, migrations[v][i].column>>
      BY <3>3, Zenon DEF Scheduled
    <3> QED BY <2>3, <3>4, Zenon DEF Lasts
  <2>7. "access_tokens" \in tables
    <3>1. 1 \in 1..Len(migrations[9])
      BY Lengths, SMT
    <3>2. Scripted(9, 1, migrations[9][1]) /\ Lasts(migrations[9][1])
      BY <1>1, <2>3, <3>1, TheScript, Zenon
    <3> QED BY <3>2, SMT DEF Scripted, Lasts
  <2>8. tables \ {"response_cache"} = CoreTables \cup {"access_tokens"}
    <3>1. /\ tables \subseteq CoreTables \cup {"tokens_v5", "access_tokens", "response_cache"}
          /\ CoreTables \ {"tokens"} \subseteq tables
      BY <1>2, Zenon DEF MigrationsInv, MigrationsTypeOK, TablesThere
    <3>2. "tokens" \in tables /\ "tokens_v5" \notin tables
      BY <2>2, Zenon DEF Rebuilt
    <3>3. "response_cache" \notin CoreTables \cup {"access_tokens"}
      BY SMT DEF CoreTables
    <3> QED BY <2>7, <3>1, <3>2, <3>3, Zenon
  <2>9. kept["tokens"] = original
    BY <2>2, Zenon DEF Rebuilt
  <2>10. ~overlapped => "response_cache" \notin tables
    BY <1>1, <2>1, Zenon DEF MigrationsInv, NeverRefusedAlone
  <2> QED BY <1>2, <2>1, <2>5, <2>6, <2>8, <2>9, <2>10, Zenon DEF OldColumn
<1>3. ~overlapped => opener[o] # "failed"
  BY Zenon DEF MigrationsInv, NeverRefusedAlone
<1> QED BY <1>2, <1>3, Zenon

\* MIGRATIONS.  From whatever release a database comes (Releases), with any number of processes
\* that open it, killed anywhere and any number of times (MaxKills), one that finds it open has
\* every column, no unfilled row and the credentials it started with, and a process alone with
\* it is never refused a statement (internal/database/init.go: createTables, applyMigrations).
THEOREM UpgradesAreSound == MigrationsSpec => [](MigrationsTypeOK /\ UpgradesLoseNothing)
<1>1. MigrationsInv => MigrationsTypeOK /\ UpgradesLoseNothing
  BY OpenLosesNothing, Zenon DEF MigrationsInv
<1> QED BY <1>1, MigrationsHolds, PTL
=============================================================================
