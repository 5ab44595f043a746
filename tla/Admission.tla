----------------------------- MODULE Admission -----------------------------
(***************************************************************************)
(* How a chat completion is admitted: the concurrency limiter              *)
(* (src/internal/routes/concurrency_limit.go) wraps the handler, whose     *)
(* first act is the rate limiter's CheckAndWait                            *)
(* (src/internal/routes/chat.go, handleChatCompletions).  A request that   *)
(* waits for the rate limiter therefore holds a concurrency slot.          *)
(***************************************************************************)
EXTENDS RateLimiter, FiniteSets

CONSTANT Limit   \* capacity of the semaphore channel; 0 disables the limiter

ASSUME LimitAssumption == Limit \in Nat \ {0}

VARIABLES
  inFlight,   \* len(l.sem)
  stage       \* where each request is in the middleware chain

avars == <<vars, inFlight, stage>>

AdmissionTypeOK ==
  /\ TypeOK
  /\ inFlight \in 0..Limit
  /\ stage \in [Requests -> {"new", "inside", "returning", "left", "busy"}]

AdmissionInit ==
  /\ Init
  /\ inFlight = 0
  /\ stage = [r \in Requests |-> "new"]

\* Slip: the slot is taken without looking at the capacity.
AcquireUnbounded(r) ==
  /\ stage[r] = "new"
  /\ inFlight' = inFlight + 1
  /\ stage' = [stage EXCEPT ![r] = "inside"]
  /\ UNCHANGED vars

\* A free slot: the send on l.sem succeeds and the chain goes on.
Acquire(r) ==
  /\ stage[r] = "new"
  /\ inFlight < Limit
  /\ inFlight' = inFlight + 1
  /\ stage' = [stage EXCEPT ![r] = "inside"]
  /\ UNCHANGED vars

\* Saturated: 503 with Retry-After, and nothing is queued.
Saturated(r) ==
  /\ stage[r] = "new"
  /\ inFlight = Limit
  /\ stage' = [stage EXCEPT ![r] = "busy"]
  /\ UNCHANGED <<vars, inFlight>>

\* The handler's call of CheckAndWait, one of its steps at a time.
Pace(r) ==
  /\ stage[r] = "inside"
  /\ Step(r)
  /\ UNCHANGED <<inFlight, stage>>

\* Slip: the early return after a cancellation skips the release.
DeclineLeak(r) ==
  /\ stage[r] = "inside"
  /\ pc[r] \in {"rejected", "canceled"}
  /\ stage' = [stage EXCEPT ![r] = "left"]
  /\ UNCHANGED <<vars, inFlight>>

\* CheckAndWait returned an error: 429, or a silent return after a cancel.
Decline(r) ==
  /\ stage[r] = "inside"
  /\ pc[r] \in {"rejected", "canceled"}
  /\ stage' = [stage EXCEPT ![r] = "returning"]
  /\ UNCHANGED <<vars, inFlight>>

\* The rest of the handler ran, and returned or panicked.
Finish(r) ==
  /\ stage[r] = "inside"
  /\ pc[r] = "granted"
  /\ stage' = [stage EXCEPT ![r] = "returning"]
  /\ UNCHANGED <<vars, inFlight>>

\* The deferred receive on l.sem, run however the chain below ended.
Release(r) ==
  /\ stage[r] = "returning"
  /\ inFlight' = inFlight - 1
  /\ stage' = [stage EXCEPT ![r] = "left"]
  /\ UNCHANGED vars

Outside == Tick \/ \E r \in Requests : EndContext(r)

AdmissionNext ==
  \/ \E r \in Requests : \/ Acquire(r) \/ Saturated(r) \/ Pace(r)
                         \/ Decline(r) \/ Finish(r) \/ Release(r)
  \/ Outside /\ UNCHANGED <<inFlight, stage>>

\* As for the rate limiter; a handler that was admitted also ends.
AdmissionFairness ==
  /\ WF_avars(Tick /\ UNCHANGED <<inFlight, stage>>)
  /\ \A r \in Requests : WF_avars(Pace(r) \/ Decline(r) \/ Finish(r) \/ Release(r))

AdmissionSpec == AdmissionInit /\ [][AdmissionNext]_avars /\ AdmissionFairness

-----------------------------------------------------------------------------
(***************************************************************************)
(* The semaphore counts the requests inside the chain, those asleep in the *)
(* rate limiter included: no early return, refusal or cancellation leaks   *)
(* or double-frees a slot (lines 64 to 69).                                *)
(***************************************************************************)
SlotsAreHeld ==
  inFlight = Cardinality({r \in Requests : stage[r] \in {"inside", "returning"}})

(***************************************************************************)
(* Capacity comes back: whoever took a slot gives it up, also when it has  *)
(* to wait its turn behind others that cancel; and so every reservation    *)
(* ends.                                                                   *)
(***************************************************************************)
SlotsComeBack ==
  /\ EveryReservationEnds
  /\ \A r \in Requests : stage[r] = "inside" ~> stage[r] = "left"
=============================================================================
