---------------------------- MODULE RateLimiter ----------------------------
(***************************************************************************)
(* The request pacer of src/internal/lib/ratelimit/ratelimit.go.           *)
(*                                                                         *)
(* Every request calls CheckAndWait once.  It is admitted at once when     *)
(* nobody queues and the interval has elapsed, refused when the server     *)
(* does not wait, and otherwise it takes a reservation in a FIFO queue and *)
(* loops: under rl.mu it looks whether it is first and due, otherwise it   *)
(* sleeps until its timer fires, the `changed' channel is closed, or its   *)
(* context ends.                                                           *)
(*                                                                         *)
(* Time is a tick.  Only differences matter to the code, so each clock     *)
(* counts ticks since (or until) its event and saturates at Interval.      *)
(* intervalSeconds <= 0 disables the pacer (line 33) and is not modelled.  *)
(***************************************************************************)
EXTENDS Naturals, Sequences

CONSTANTS
  Requests,   \* the calls of CheckAndWait
  Interval    \* intervalSeconds, in ticks

ASSUME IntervalAssumption == Interval \in Nat \ {0}

VARIABLES
  waitOnLimit,  \* the --wait flag, fixed when the server starts
  sinceGrant,   \* now - lastGranted, saturated; Interval also for "never"
  queue,        \* rl.queue, the reservations in arrival order
  signalled,    \* requests whose captured `changed' channel is closed
  pc,           \* where each call is
  timer,        \* ticks until the request's sleep timer fires
  ctxDone,      \* the request's context has ended
  age,          \* history: ticks since the request was admitted, saturated
  ahead         \* history: who was queued when the request first took rl.mu

vars == <<waitOnLimit, sinceGrant, queue, signalled, pc, timer, ctxDone,
          age, ahead>>

\* A call holds a reservation from its append until it is admitted or removed.
Waiting == {"loop", "arm", "select", "canceling"}
Ended == {"granted", "rejected", "canceled"}

TypeOK ==
  /\ waitOnLimit \in BOOLEAN
  /\ sinceGrant \in 0..Interval
  /\ queue \in Seq(Requests)
  /\ signalled \in [Requests -> BOOLEAN]
  /\ pc \in [Requests -> {"idle"} \cup Waiting \cup Ended]
  /\ timer \in [Requests -> 0..Interval]
  /\ ctxDone \in [Requests -> BOOLEAN]
  /\ age \in [Requests -> 0..Interval]
  /\ ahead \in [Requests -> SUBSET Requests]

Init ==
  /\ waitOnLimit \in BOOLEAN
  /\ sinceGrant = Interval
  /\ queue = <<>>
  /\ signalled = [r \in Requests |-> FALSE]
  /\ pc = [r \in Requests |-> "idle"]
  /\ timer = [r \in Requests |-> 0]
  /\ ctxDone = [r \in Requests |-> FALSE]
  /\ age = [r \in Requests |-> Interval]
  /\ ahead = [r \in Requests |-> {}]

-----------------------------------------------------------------------------
\* The interval has elapsed: !now.Before(lastGranted.Add(requiredInterval)).
Due == sinceGrant = Interval

Queued == {queue[i] : i \in 1..Len(queue)}

\* reservationIndexLocked: where r's reservation is in the queue.
Position(r) == CHOOSE i \in 1..Len(queue) : queue[i] = r

\* Slip: the copy that closes the gap is missing, so the tail is lost instead.
WithoutNoCopy(q, i) == SubSeq(q, 1, Len(q) - 1)

\* The queue with the i-th reservation cut out.
Without(q, i) ==
  [j \in 1..(Len(q) - 1) |-> IF j < i THEN q[j] ELSE q[j + 1]]

\* notifyLocked closes the channel that every sleeper has captured.
NotifyLocked == signalled' = [r \in Requests |-> pc[r] \in {"arm", "select"}
                                                 \/ signalled[r]]

Admit(r) ==
  /\ pc' = [pc EXCEPT ![r] = "granted"]
  /\ age' = [age EXCEPT ![r] = 0]
  /\ sinceGrant' = 0

-----------------------------------------------------------------------------
\* Slip: the fast path does not look whether anybody queues.
AdmitAtOnceBarging(r) ==
  /\ pc[r] = "idle"
  /\ Due
  /\ Admit(r)
  /\ ahead' = [ahead EXCEPT ![r] = Queued]
  /\ UNCHANGED <<waitOnLimit, queue, signalled, timer, ctxDone>>

\* Nobody queues and the interval has elapsed.  The context is not looked at.
AdmitAtOnce(r) ==
  /\ pc[r] = "idle"
  /\ queue = <<>>
  /\ Due
  /\ Admit(r)
  /\ ahead' = [ahead EXCEPT ![r] = Queued]
  /\ UNCHANGED <<waitOnLimit, queue, signalled, timer, ctxDone>>

\* The server does not wait: the caller gets "rate limit exceeded".
Reject(r) ==
  /\ pc[r] = "idle"
  /\ ~(queue = <<>> /\ Due)
  /\ ~waitOnLimit
  /\ pc' = [pc EXCEPT ![r] = "rejected"]
  /\ UNCHANGED <<waitOnLimit, sinceGrant, queue, signalled, timer, ctxDone,
                 age, ahead>>

\* The caller appends its reservation and wakes the other waiters.
Reserve(r) ==
  /\ pc[r] = "idle"
  /\ ~(queue = <<>> /\ Due)
  /\ waitOnLimit
  /\ queue' = Append(queue, r)
  /\ ahead' = [ahead EXCEPT ![r] = Queued]
  /\ NotifyLocked
  /\ pc' = [pc EXCEPT ![r] = "loop"]
  /\ UNCHANGED <<waitOnLimit, sinceGrant, timer, ctxDone, age>>

\* Slip: whoever becomes first proceeds, due or not.
AdmitFirstEarly(r) ==
  /\ pc[r] = "loop"
  /\ Head(queue) = r
  /\ queue' = Tail(queue)
  /\ Admit(r)
  /\ NotifyLocked
  /\ UNCHANGED <<waitOnLimit, timer, ctxDone, ahead>>

\* First in the queue and due: the reservation is used.  The context is not
\* looked at here either.
AdmitFirst(r) ==
  /\ pc[r] = "loop"
  /\ Head(queue) = r
  /\ Due
  /\ queue' = Tail(queue)
  /\ Admit(r)
  /\ NotifyLocked
  /\ UNCHANGED <<waitOnLimit, timer, ctxDone, ahead>>

\* Not yet: capture the current channel and how long the interval still runs.
KeepWaiting(r) ==
  /\ pc[r] = "loop"
  /\ ~(Head(queue) = r /\ Due)
  /\ signalled' = [signalled EXCEPT ![r] = FALSE]
  /\ timer' = [timer EXCEPT ![r] = Interval - sinceGrant]
  /\ pc' = [pc EXCEPT ![r] = "arm"]
  /\ UNCHANGED <<waitOnLimit, sinceGrant, queue, ctxDone, age, ahead>>

\* time.NewTimer, after rl.mu was released: the sleep is counted from here.
StartTimer(r) ==
  /\ pc[r] = "arm"
  /\ pc' = [pc EXCEPT ![r] = "select"]
  /\ UNCHANGED <<waitOnLimit, sinceGrant, queue, signalled, timer, ctxDone,
                 age, ahead>>

\* The timer fired or the channel was closed.  The select may take this case
\* even when the context has ended too.
Wake(r) ==
  /\ pc[r] = "select"
  /\ signalled[r] \/ timer[r] = 0
  /\ pc' = [pc EXCEPT ![r] = "loop"]
  /\ UNCHANGED <<waitOnLimit, sinceGrant, queue, signalled, timer, ctxDone,
                 age, ahead>>

\* The select takes ctx.Done(); the reservation is still in the queue.
SeeCancel(r) ==
  /\ pc[r] = "select"
  /\ ctxDone[r]
  /\ pc' = [pc EXCEPT ![r] = "canceling"]
  /\ UNCHANGED <<waitOnLimit, sinceGrant, queue, signalled, timer, ctxDone,
                 age, ahead>>

\* Slip: the caller returns ctx.Err() and leaves its reservation behind.
CancelReservationLeft(r) ==
  /\ pc[r] = "canceling"
  /\ NotifyLocked
  /\ pc' = [pc EXCEPT ![r] = "canceled"]
  /\ UNCHANGED <<waitOnLimit, sinceGrant, queue, timer, ctxDone, age, ahead>>

\* cancelReservation takes rl.mu and cuts the reservation out of the queue.
CancelReservation(r) ==
  /\ pc[r] = "canceling"
  /\ queue' = Without(queue, Position(r))
  /\ NotifyLocked
  /\ pc' = [pc EXCEPT ![r] = "canceled"]
  /\ UNCHANGED <<waitOnLimit, sinceGrant, timer, ctxDone, age, ahead>>

Step(r) ==
  \/ AdmitAtOnce(r) \/ Reject(r) \/ Reserve(r)
  \/ AdmitFirst(r) \/ KeepWaiting(r) \/ StartTimer(r)
  \/ Wake(r) \/ SeeCancel(r) \/ CancelReservation(r)

\* The client goes away, or the server cancels the request.
EndContext(r) ==
  /\ pc[r] \notin Ended
  /\ ~ctxDone[r]
  /\ ctxDone' = [ctxDone EXCEPT ![r] = TRUE]
  /\ UNCHANGED <<waitOnLimit, sinceGrant, queue, signalled, pc, timer, age,
                 ahead>>

Older(n) == IF n < Interval THEN n + 1 ELSE Interval

\* One tick passes; only running timers count down.
Tick ==
  /\ sinceGrant' = Older(sinceGrant)
  /\ age' = [r \in Requests |-> Older(age[r])]
  /\ timer' = [r \in Requests |->
                 IF pc[r] = "select" /\ timer[r] > 0 THEN timer[r] - 1
                 ELSE timer[r]]
  /\ UNCHANGED <<waitOnLimit, queue, signalled, pc, ctxDone, ahead>>

Next == Tick \/ \E r \in Requests : Step(r) \/ EndContext(r)

\* A goroutine that can run is run, and time passes.
Fairness == WF_vars(Tick) /\ \A r \in Requests : WF_vars(Step(r))

Spec == Init /\ [][Next]_vars

FairSpec == Spec /\ Fairness

-----------------------------------------------------------------------------
(***************************************************************************)
(* At most one request is admitted in any span shorter than the interval,  *)
(* whichever of the two admission paths each took (lines 43 and 77).       *)
(***************************************************************************)
SpacedGrants ==
  \A r, s \in Requests :
    (r # s /\ pc[r] = "granted" /\ pc[s] = "granted") =>
      age[r] = Interval \/ age[s] = Interval

(***************************************************************************)
(* The queue holds exactly the calls that wait, each once: the loop never  *)
(* finds its reservation missing (line 71), and a call that ended leaves   *)
(* no reservation that would block the ones behind it.                     *)
(***************************************************************************)
QueueIsWaiters ==
  /\ \A i, j \in 1..Len(queue) : queue[i] = queue[j] => i = j
  /\ Queued = {r \in Requests : pc[r] \in Waiting}

(***************************************************************************)
(* No overtaking: when a request has been admitted, nobody who was queued  *)
(* when it arrived is still queued, be it through the fast path of line 43 *)
(* or after cancellations in the middle of the queue.                      *)
(***************************************************************************)
NoOvertaking ==
  \A r \in Requests : pc[r] = "granted" => ahead[r] \cap Queued = {}

(***************************************************************************)
(* Every reservation ends: the caller is admitted, or leaves because its   *)
(* context ended.  No wake-up is lost between releasing rl.mu and select,  *)
(* and no canceled reservation blocks the queue.                           *)
(***************************************************************************)
EveryReservationEnds ==
  \A r \in Requests :
    pc[r] \in Waiting ~> pc[r] = "granted" \/ (pc[r] = "canceled" /\ ctxDone[r])

(***************************************************************************)
(* A reservation whose context has ended uses no admission time, so that   *)
(* it cannot delay later active requests (gateway-api/spec.md:151).        *)
(***************************************************************************)
CanceledTakesNoTurn ==
  [][\A r \in Requests :
       pc[r] \in Waiting /\ ctxDone[r] => pc'[r] # "granted"]_vars
=============================================================================
