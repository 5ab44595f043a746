------------------------------ MODULE AsyncWorkers ------------------------------
(***************************************************************************)
(* The writers behind the request path (internal/database/async_workers    *)
(* .go): requests put metering records and token stamps into bounded       *)
(* channels and go on; pools of workers write them to SQLite.  Starting    *)
(* replaces a running pool, stopping detaches and closes the channels and  *)
(* waits for the workers.  Every critical section of asyncWorkers.mu is    *)
(* one step; asyncWorkers.lifecycle is held by a manager that is inside.   *)
(***************************************************************************)
EXTENDS Naturals, Sequences

CONSTANTS MaxManagers,  \* goroutines that call StartAsyncWorkers or StopAsyncWorkers once
          MaxRecords,   \* what requests enqueue into each pool
          Buffer,       \* meteringBufSize and lastUsedBufSize
          PoolWorkers   \* meteringWorkers and lastUsedWorkers

\* Every pool has a worker (the code's constants are positive).
ASSUME WorkersAssumption == {MaxManagers, MaxRecords, Buffer} \subseteq Nat /\ PoolWorkers \in Nat \ {0}

Pools == {"metering", "lastUsed"}
Records == Pools \X (1..MaxRecords)
Managers == 1..MaxManagers  \* numbered as they enter, and records as they are offered
Generations == Managers
Workers == Generations \X Pools \X (1..PoolWorkers)

VARIABLES current,   \* the generation enqueuers see; 0: channels are nil, running is false
          starts,    \* generations made so far
          channels,  \* per generation and pool, the channel
          worker,    \* per worker: not started, running, returned
          held,      \* the record a worker has received; 0: none
          manager,
          fate       \* what became of each record

workerVars == <<current, starts, channels, worker, held, manager, fate>>

WorkersTypeOK ==
  /\ current \in {0} \cup Generations /\ starts \in {0} \cup Generations
  /\ channels \in [Generations -> [Pools -> [items : Seq(1..MaxRecords), closed : BOOLEAN]]]
  /\ \A g \in Generations, p \in Pools : Len(channels[g][p].items) <= Buffer
  /\ worker \in [Workers -> {"none", "running", "returned"}]
  /\ held \in [Workers -> 0..MaxRecords]
  /\ manager \in [Managers -> {"out", "stopping", "starting", "returned"}]
  /\ fate \in [Records -> {"new", "refused", "dropped", "accepted", "written", "failed", "panicked"}]

WorkersInit ==
  /\ current = 0 /\ starts = 0
  /\ channels = [g \in Generations |-> [p \in Pools |-> [items |-> <<>>, closed |-> FALSE]]]
  /\ worker = [w \in Workers |-> "none"] /\ held = [w \in Workers |-> 0]
  /\ manager = [m \in Managers |-> "out"]
  /\ fate = [r \in Records |-> "new"]

LifecycleHeld == \E m \in Managers : manager[m] \in {"stopping", "starting"}

\* Slip: the buffer is exceeded by one.
HasRoomForOneMore(channel) == Len(channel.items) <= Buffer

\* A send that would block goes to the select's default.
HasRoom(channel) == Len(channel.items) < Buffer

\* A request offers a record and never waits: it is refused when the pools are stopped,
\* dropped when the channel is full; a send on a closed channel would panic.
Enqueue(r) ==
  LET channel == channels[current][r[1]]
      sent == current # 0 /\ ~channel.closed /\ HasRoom(channel)
  IN /\ fate[r] = "new" /\ \A n \in 1..(r[2] - 1) : fate[<<r[1], n>>] # "new"
     /\ fate' = [fate EXCEPT ![r] = IF current = 0 THEN "refused"
                                    ELSE IF channel.closed THEN "panicked"
                                    ELSE IF sent THEN "accepted" ELSE "dropped"]
     /\ channels' = IF sent THEN [channels EXCEPT ![current][r[1]].items = Append(@, r[2])]
                            ELSE channels
     /\ UNCHANGED <<current, starts, worker, held, manager>>

\* A worker receives the next record of its channel,
Take(w) ==
  LET items == channels[w[1]][w[2]].items
  IN /\ worker[w] = "running" /\ held[w] = 0 /\ items # <<>>
     /\ held' = [held EXCEPT ![w] = Head(items)]
     /\ channels' = [channels EXCEPT ![w[1]][w[2]].items = Tail(@)]
     /\ UNCHANGED <<current, starts, worker, manager, fate>>

\* writes it, or logs that it could not,
Write(w) ==
  /\ held[w] # 0
  /\ \E end \in {"written", "failed"} : fate' = [fate EXCEPT ![<<w[2], held[w]>>] = end]
  /\ held' = [held EXCEPT ![w] = 0]
  /\ UNCHANGED <<current, starts, channels, worker, manager>>

\* and returns when the channel is closed and empty.
Return(w) ==
  /\ worker[w] = "running" /\ held[w] = 0
  /\ channels[w[1]][w[2]].closed /\ channels[w[1]][w[2]].items = <<>>
  /\ worker' = [worker EXCEPT ![w] = "returned"]
  /\ UNCHANGED <<current, starts, channels, held, manager, fate>>

\* The channels a stop leaves: closed, with what was accepted still in them.
Closed(generation) == [p \in Pools |-> [generation[p] EXCEPT !.closed = TRUE]]

\* A manager enters StopAsyncWorkers or StartAsyncWorkers: the channels of the running
\* generation are detached and closed in one critical section.
Enter(m, doing) ==
  /\ manager[m] = "out" /\ \A n \in Managers : n < m => manager[n] # "out"
  /\ ~LifecycleHeld
  /\ manager' = [manager EXCEPT ![m] = doing]
  /\ channels' = IF current = 0 THEN channels
                 ELSE [channels EXCEPT ![current] = Closed(@)]
  /\ current' = 0
  /\ UNCHANGED <<starts, worker, held, fate>>

\* Slip: the pools are not waited for.
NotDrained == TRUE

\* wg.Wait: every worker started so far has returned.
Drained == \A w \in Workers : worker[w] \in {"none", "returned"}

\* The stop is over when the workers have returned.
Stopped(m) ==
  /\ manager[m] = "stopping" /\ Drained
  /\ manager' = [manager EXCEPT ![m] = "returned"]
  /\ UNCHANGED <<current, starts, channels, worker, held, fate>>

\* A start goes on to make new channels and their workers.
Started(m) ==
  /\ manager[m] = "starting" /\ Drained
  /\ starts' = starts + 1 /\ current' = starts + 1
  /\ worker' = [w \in Workers |-> IF w[1] = starts + 1 THEN "running" ELSE worker[w]]
  /\ manager' = [manager EXCEPT ![m] = "returned"]
  /\ UNCHANGED <<channels, held, fate>>

WorkerStep(w) == Take(w) \/ Write(w) \/ Return(w)
WorkersNext ==
  \/ \E r \in Records : Enqueue(r)
  \/ \E w \in Workers : WorkerStep(w)
  \/ \E m \in Managers : \/ \E doing \in {"stopping", "starting"} : Enter(m, doing)
                         \/ Stopped(m) \/ Started(m)

\* The workers and a manager that is inside go on; nobody has to call them.  What they
\* have to do is finite, so that it is enough that somebody goes on.
PoolStep == \/ \E w \in Workers : WorkerStep(w)
            \/ \E m \in Managers : Stopped(m) \/ Started(m)
WorkersFairness == WF_workerVars(PoolStep)

WorkersSpec == WorkersInit /\ [][WorkersNext]_workerVars /\ WorkersFairness

\* WRITERS.  Whatever stops and restarts the pools while requests enqueue: no request
\* sends on a closed channel, and a record that was accepted is at all times on its way
\* in the running pool, or was handed to the database, or somebody still waits for it:
\* when a stop returns, or before a restart has replacements, everything accepted is out.
AcceptedRecordsAreWritten ==
  \A r \in Records :
    /\ fate[r] # "panicked"
    /\ fate[r] = "accepted" =>
         \E g \in Generations :
           /\ g = current \/ LifecycleHeld
           /\ \/ \E i \in DOMAIN channels[g][r[1]].items : channels[g][r[1]].items[i] = r[2]
              \/ \E w \in Workers : w[1] = g /\ w[2] = r[1] /\ held[w] = r[2]
=============================================================================
