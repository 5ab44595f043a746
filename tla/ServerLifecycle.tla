---------------------------- MODULE ServerLifecycle ----------------------------
(***************************************************************************)
(* The file that says which server is the operator's managed one           *)
(* (internal/lifecycle/lifecycle.go), the start and the end of RunServer   *)
(* around it, and `omnillm stop`.  Processes share nothing but the file:   *)
(* every read, link and removal of it is a step, and a process may be      *)
(* killed between any two.  A process is its PID, executable and start id, *)
(* so that no two are ever confused (external: processState).              *)
(***************************************************************************)
EXTENDS Naturals

CONSTANTS Servers,   \* server processes, each started at most once
          Stops,     \* runs of `omnillm stop`
          NoClaim    \* there is no file

ASSUME LifecycleAssumption == NoClaim \notin Servers /\ Servers \cap Stops = {}

Alive == {"linking", "reading", "removing", "serving", "closing", "unclaiming", "draining"}
Places == Alive \cup {"down", "gone", "killed"}

VARIABLES claim,     \* the server the file names
          server,    \* where each server is
          attempts,  \* of Register's loop
          stop,      \* where each stop command is
          seen,      \* the claim each process judged when it decided to remove the file
          raced      \* history: a removal took away another claim than the judged one

lifecycleVars == <<claim, server, attempts, stop, seen, raced>>

Claims == Servers \cup {NoClaim}

LifecycleTypeOK ==
  /\ claim \in Claims
  /\ server \in [Servers -> Places]
  /\ attempts \in [Servers -> 0..2]
  /\ stop \in [Stops -> {"out", "signalling", "waiting", "removing", "returned"}]
  /\ seen \in [Servers \cup Stops -> Claims]
  /\ raced \in BOOLEAN

LifecycleInit ==
  /\ claim = NoClaim
  /\ server = [s \in Servers |-> "down"]
  /\ attempts = [s \in Servers |-> 0]
  /\ stop = [c \in Stops |-> "out"]
  /\ seen = [x \in Servers \cup Stops |-> NoClaim]
  /\ raced = FALSE

\* Read finds a managed server: the file is there and its process is alive.
Managed == claim # NoClaim /\ server[claim] \in Alive

\* os.Remove of the file by process x, whatever the file says by now.
Unlink(x) ==
  /\ claim' = NoClaim
  /\ raced' = (raced \/ claim \notin {NoClaim, seen[x]})
  /\ seen' = [seen EXCEPT ![x] = NoClaim]

\* RunServer has its listener and calls Register: the state goes to a temporary file.
Start(s) ==
  /\ server[s] = "down"
  /\ server' = [server EXCEPT ![s] = "linking"]
  /\ UNCHANGED <<claim, attempts, stop, seen, raced>>

\* Slip: the temporary file is renamed into place.
Renamed(s) == s

\* What the link leaves in place: the first claim, an existing one is not replaced.
Linked(s) == IF claim = NoClaim THEN s ELSE claim

\* The complete file is linked into place, unless there is one.
Link(s) ==
  /\ server[s] = "linking"
  /\ claim' = Linked(s)
  /\ server' = [server EXCEPT ![s] = IF claim' = s THEN "serving" ELSE "reading"]
  /\ attempts' = [attempts EXCEPT ![s] = IF claim' = s THEN 0 ELSE @ + 1]
  /\ UNCHANGED <<stop, seen, raced>>

\* Register gives up when the claim's process is alive; otherwise it is stale.
ReadClaim(s) ==
  /\ server[s] = "reading"
  /\ IF Managed
     THEN /\ server' = [server EXCEPT ![s] = "gone"]
          /\ attempts' = [attempts EXCEPT ![s] = 0] /\ UNCHANGED seen
     ELSE /\ server' = [server EXCEPT ![s] = "removing"]
          /\ seen' = [seen EXCEPT ![s] = claim] /\ UNCHANGED attempts
  /\ UNCHANGED <<claim, stop, raced>>

\* The stale file is removed and the link tried once more.
RemoveStale(s) ==
  /\ server[s] = "removing"
  /\ Unlink(s)
  /\ server' = [server EXCEPT ![s] = IF attempts[s] < 2 THEN "linking" ELSE "gone"]
  /\ attempts' = [attempts EXCEPT ![s] = IF @ < 2 THEN @ ELSE 0]
  /\ UNCHANGED stop

\* The server is told to end and has shut its HTTP side down.
Shutdown(s) ==
  /\ server[s] = "serving"
  /\ server' = [server EXCEPT ![s] = "closing"]
  /\ UNCHANGED <<claim, attempts, stop, seen, raced>>

\* Close looks whether the file is still this server's own,
CloseRead(s) ==
  /\ server[s] = "closing"
  /\ server' = [server EXCEPT ![s] = IF claim = s THEN "unclaiming" ELSE "draining"]
  /\ seen' = [seen EXCEPT ![s] = IF claim = s THEN s ELSE NoClaim]
  /\ UNCHANGED <<claim, attempts, stop, raced>>

\* and removes it.
CloseRemove(s) ==
  /\ server[s] = "unclaiming"
  /\ Unlink(s)
  /\ server' = [server EXCEPT ![s] = "draining"]
  /\ UNCHANGED <<attempts, stop>>

\* The deferred calls of RunServer close Redis, drain the writers, close the database.
Exit(s) ==
  /\ server[s] = "draining"
  /\ server' = [server EXCEPT ![s] = "gone"]
  /\ UNCHANGED <<claim, attempts, stop, seen, raced>>

\* A process is killed, or the machine goes down, and the file stays.
Kill(s) ==
  /\ server[s] \in Alive
  /\ server' = [server EXCEPT ![s] = "killed"]
  /\ attempts' = [attempts EXCEPT ![s] = 0] /\ seen' = [seen EXCEPT ![s] = NoClaim]
  /\ UNCHANGED <<claim, stop, raced>>

\* Stop reads the file; one that names no live server is to be removed.
StopRead(c) ==
  /\ stop[c] = "out"
  /\ stop' = [stop EXCEPT ![c] = IF Managed THEN "signalling" ELSE "removing"]
  /\ seen' = [seen EXCEPT ![c] = claim]
  /\ UNCHANGED <<claim, server, attempts, raced>>

\* The signal ends a server that serves; a dead process is an error.
StopSignal(c) ==
  LET s == seen[c]
  IN /\ stop[c] = "signalling"
     /\ stop' = [stop EXCEPT ![c] = IF server[s] \in Alive THEN "waiting" ELSE "returned"]
     /\ server' = [server EXCEPT ![s] = IF @ = "serving" THEN "closing" ELSE @]
     /\ UNCHANGED <<claim, attempts, seen, raced>>

\* Stop polls until the file names no live server, and then removes the file,
StopPoll(c) ==
  /\ stop[c] = "waiting" /\ ~Managed
  /\ stop' = [stop EXCEPT ![c] = "removing"]
  /\ seen' = [seen EXCEPT ![c] = claim]
  /\ UNCHANGED <<claim, server, attempts, raced>>

StopRemove(c) ==
  /\ stop[c] = "removing"
  /\ Unlink(c)
  /\ stop' = [stop EXCEPT ![c] = "returned"]
  /\ UNCHANGED <<server, attempts>>

\* or until its time is over.
StopTimeout(c) ==
  /\ stop[c] = "waiting"
  /\ stop' = [stop EXCEPT ![c] = "returned"]
  /\ UNCHANGED <<claim, server, attempts, seen, raced>>

ServerStep(s) ==
  Link(s) \/ ReadClaim(s) \/ RemoveStale(s) \/ CloseRead(s) \/ CloseRemove(s) \/ Exit(s)
StopStep(c) == StopSignal(c) \/ StopPoll(c) \/ StopRemove(c) \/ StopTimeout(c)
LifecycleNext ==
  \/ \E s \in Servers : ServerStep(s) \/ Start(s) \/ Shutdown(s) \/ Kill(s)
  \/ \E c \in Stops : StopRead(c) \/ StopStep(c)

\* What has begun goes on; starting, serving for ever and being killed are free.
ProcessStep == (\E s \in Servers : ServerStep(s)) \/ (\E c \in Stops : StopStep(c))
LifecycleFairness == WF_lifecycleVars(ProcessStep)

LifecycleSpec == LifecycleInit /\ [][LifecycleNext]_lifecycleVars /\ LifecycleFairness

\* CLAIM.  However servers are started, killed and stopped, the file names the server
\* that serves, so that a second one does not come up and `omnillm stop` finds it; except
\* after a removal that hit a claim newer than the one the remover had judged.
ServingIsClaimed == ~raced => \A s \in Servers : server[s] = "serving" => claim = s
=============================================================================
