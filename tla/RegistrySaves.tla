------------------------------ MODULE RegistrySaves ------------------------------
(***************************************************************************)
(* The provider registry and its rows in provider_instances                *)
(* (internal/registry/registry.go, the start-up of internal/server/server  *)
(* .go and the admin handlers that write rows themselves).  An operation   *)
(* changes the maps under pr.mu and then, outside it, schedules a          *)
(* background save; a save copies the maps and writes them row by row.     *)
(* A row is reduced to its activation; the maps die with the process and   *)
(* are rebuilt from the rows.                                              *)
(***************************************************************************)
EXTENDS Naturals, FiniteSets, Sequences

CONSTANTS Ids,         \* provider instances
          Admins,      \* bound: admin requests that are handled at the same time
          Savers,      \* bound: saves that write at the same time
          MaxChanges,  \* bound: admin operations, crashes and failed writes
          Nobody       \* no primary provider, no row

\* There are finitely many instances, and nothing is none of them.
ASSUME RegistryAssumption ==
  IsFiniteSet(Ids) /\ Nobody \notin Ids \cup BOOLEAN /\ MaxChanges \in Nat

VARIABLES registered, active,   \* pr.providers and pr.activeProviders
          primary,     \* pr.activeProvider
          rows,        \* provider_instances: whether activated, or Nobody
          scheduled,   \* save goroutines that have not copied the maps yet
          saver,       \* saves that write: their copies and the rows still to write
          admin,       \* what each admin request has still to do
          waiting,     \* the caller of WaitForPendingSaves; it holds saveMu
          restore,     \* start-up: the rows read that are still to be registered
          changes,
          crossed      \* history: ids whose row was last written by writes that crossed

registryVars == <<registered, active, primary, rows, scheduled, saver, admin, waiting, restore,
                  changes, crossed>>

Free == [at |-> "free"]
Idle == [at |-> "idle"]
Writing == {w \in Savers : saver[w].at = "writing"}

RegistryTypeOK ==
  /\ registered \subseteq Ids /\ active \subseteq Ids
  /\ primary \in Ids \cup {Nobody}
  /\ rows \in [Ids -> BOOLEAN \cup {Nobody}]
  /\ scheduled \in Nat
  /\ \A w \in Savers : \/ saver[w] = Free
                       \/ /\ saver[w].at = "writing" /\ saver[w].active \subseteq Ids
                          /\ saver[w].left \subseteq saver[w].registered
                          /\ saver[w].registered \subseteq Ids
  /\ \A a \in Admins : admin[a].at \in {"idle", "scheduling", "deleting", "ranking"}
  /\ waiting \in BOOLEAN
  /\ \A i \in DOMAIN restore : restore[i].id \in Ids /\ restore[i].activated \in BOOLEAN /\ restore[i].at \in {"register", "activate", "schedule"}
  /\ changes \in 0..MaxChanges
  /\ crossed \subseteq Ids

\* The process starts with the rows it finds: GetAll reads them at once.
Found(r) ==
  LET ids == {id \in Ids : r[id] # Nobody}
  IN {[i \in DOMAIN order |-> [id |-> order[i], activated |-> r[order[i]], at |-> "register"]] :
        order \in {o \in [1..Cardinality(ids) -> ids] : ids = {o[i] : i \in DOMAIN o}}}

\* No id has a row, one has, or all have: which one, and in which order, makes no difference.
RegistryInit ==
  /\ registered = {} /\ active = {} /\ primary = Nobody
  /\ \E ids \in {{}, {CHOOSE id \in Ids : TRUE}, Ids} :
       rows = [id \in Ids |-> IF id \in ids THEN TRUE ELSE Nobody]
  /\ scheduled = 0 /\ saver = [w \in Savers |-> Free] /\ admin = [a \in Admins |-> Idle]
  /\ waiting = FALSE /\ restore = (CHOOSE order \in Found(rows) : TRUE)
  /\ changes = 0 /\ crossed = {}

\* SetActive and AddActive: the id is active; the primary is replaced or only filled.
Activate(id, replace) ==
  /\ id \in registered
  /\ active' = active \cup {id}
  /\ primary' = IF replace \/ primary = Nobody THEN id ELSE primary

\* Slip: the id itself may take its place.
DeactivateItself(id, known) ==
  /\ active' = active \ {id}
  /\ primary' \in IF primary # id THEN {primary}
                  ELSE IF active \cap known = {} THEN {Nobody} ELSE active \cap known

\* What RemoveActive and Remove leave: another active provider takes the primary's place.
Deactivate(id, known) ==
  /\ active' = active \ {id}
  /\ primary' \in IF primary # id THEN {primary}
                  ELSE IF active' \cap known = {} THEN {Nobody} ELSE active' \cap known

\* saveConfigInBackground, by who is at its point: it needs saveMu for a moment.
Schedule == ~waiting /\ scheduled' = scheduled + 1

\* A new request of an admin takes the first place that is idle.
FirstIdle(a) == admin[a] = Idle /\ a = CHOOSE b \in Admins : admin[b] = Idle

\* One request of an admin: the change under pr.mu.  Registering keeps an id's activation.
Change(a) ==
  /\ FirstIdle(a) /\ restore = <<>> /\ changes < MaxChanges
  /\ changes' = changes + 1
  /\ \E id \in Ids :
       \/ /\ registered' = registered \cup {id}
          /\ admin' = [admin EXCEPT ![a] = [at |-> "scheduling", then |-> Idle]]
          /\ UNCHANGED <<active, primary, crossed>>
       \/ /\ \E replace \in BOOLEAN : Activate(id, replace)
          /\ admin' = [admin EXCEPT ![a] = [at |-> "scheduling", then |-> Idle]]
          /\ UNCHANGED <<registered, crossed>>
       \/ /\ Deactivate(id, registered)
          /\ admin' = [admin EXCEPT ![a] = [at |-> "scheduling", then |-> Idle]]
          /\ UNCHANGED <<registered, crossed>>
       \/ /\ id \in registered /\ registered' = registered \ {id}
          /\ Deactivate(id, registered')
          /\ admin' = [admin EXCEPT ![a] =
               [at |-> "scheduling", then |-> [at |-> "deleting", id |-> id]]]
          /\ crossed' = IF \E w \in Writing : id \in saver[w].registered
                        THEN crossed \cup {id} ELSE crossed \ {id}
  /\ UNCHANGED <<rows, scheduled, saver, waiting, restore>>

\* The change is saved in the background.
ScheduleSave(a) ==
  /\ admin[a].at = "scheduling"
  /\ Schedule
  /\ admin' = [admin EXCEPT ![a] = admin[a].then]
  /\ UNCHANGED <<registered, active, primary, rows, saver, waiting, restore, changes, crossed>>

\* handleDeleteProvider goes on to delete the row.
DeleteRow(a) ==
  LET id == admin[a].id
  IN /\ admin[a].at = "deleting"
     /\ rows' = [rows EXCEPT ![id] = Nobody]
     /\ crossed' = IF id \in registered THEN crossed \cup {id} ELSE crossed
     /\ admin' = [admin EXCEPT ![a] = Idle]
     /\ UNCHANGED <<registered, active, primary, scheduled, saver, waiting, restore, changes>>

\* The handler of priorities reads a row,
ReadRow(a) ==
  /\ FirstIdle(a) /\ restore = <<>> /\ changes < MaxChanges
  /\ changes' = changes + 1
  /\ \E id \in Ids :
       /\ rows[id] # Nobody
       /\ admin' = [admin EXCEPT ![a] = [at |-> "ranking", id |-> id, row |-> rows[id]]]
  /\ UNCHANGED <<registered, active, primary, rows, scheduled, saver, waiting, restore, crossed>>

\* and writes all of it back with the new priority, the activation as it was read.
WriteRank(a) ==
  LET id == admin[a].id
  IN /\ admin[a].at = "ranking"
     /\ rows' = [rows EXCEPT ![id] = admin[a].row]
     /\ crossed' = IF rows[id] # admin[a].row THEN crossed \cup {id} ELSE crossed
     /\ admin' = [admin EXCEPT ![a] = Idle]
     /\ UNCHANGED <<registered, active, primary, scheduled, saver, waiting, restore, changes>>

\* A save copies the maps.
Snapshot(w) ==
  /\ scheduled > 0 /\ Writing # Savers /\ w = CHOOSE v \in Savers : saver[v] = Free
  /\ scheduled' = scheduled - 1
  /\ saver' = [saver EXCEPT ![w] = [at |-> "writing", registered |-> registered,
                                    active |-> active, left |-> registered]]
  /\ crossed' = IF Writing = {} THEN crossed \ registered
                ELSE crossed \cup registered \cup UNION {saver[v].registered : v \in Writing}
  /\ UNCHANGED <<registered, active, primary, rows, admin, waiting, restore, changes>>

\* Slip: a row that exists keeps its activation, as it keeps its name and priority.
WrittenPreserving(w, id) == IF rows[id] # Nobody THEN rows[id] ELSE id \in saver[w].active

\* The activation a save writes: the one in its copy of the maps.
Written(w, id) == id \in saver[w].active

\* It writes one row after the other; a row that cannot be written is skipped.
WriteRow(w) ==
  /\ saver[w].at = "writing"
  /\ \E id \in saver[w].left :
       /\ saver' = [saver EXCEPT ![w].left = @ \ {id}]
       /\ \/ rows' = [rows EXCEPT ![id] = Written(w, id)] /\ UNCHANGED <<crossed, changes>>
          \/ /\ changes < MaxChanges /\ changes' = changes + 1
             /\ crossed' = crossed \cup {id} /\ UNCHANGED rows
  /\ UNCHANGED <<registered, active, primary, scheduled, admin, waiting, restore>>

\* Slip: the goroutine takes saveMu to sign off.
FinishSaveLocked(w) ==
  /\ saver[w].at = "writing" /\ saver[w].left = {} /\ ~waiting
  /\ saver' = [saver EXCEPT ![w] = Free]
  /\ UNCHANGED <<registered, active, primary, rows, scheduled, admin, waiting, restore, changes, crossed>>

\* saveWG.Done.
FinishSave(w) ==
  /\ saver[w].at = "writing" /\ saver[w].left = {}
  /\ saver' = [saver EXCEPT ![w] = Free]
  /\ UNCHANGED <<registered, active, primary, rows, scheduled, admin, waiting, restore, changes, crossed>>

\* WaitForPendingSaves.
Wait ==
  /\ ~waiting /\ waiting' = TRUE
  /\ UNCHANGED <<registered, active, primary, rows, scheduled, saver, admin, restore, changes, crossed>>
Waited ==
  /\ waiting /\ scheduled = 0 /\ Writing = {}
  /\ waiting' = FALSE
  /\ UNCHANGED <<registered, active, primary, rows, scheduled, saver, admin, restore, changes, crossed>>

\* registerDefaultProviders: each row is registered without a save,
Restore ==
  LET next == Head(restore)
  IN /\ restore # <<>>
     /\ \/ /\ next.at = "register"
           /\ registered' = registered \cup {next.id}
           /\ restore' = IF next.activated
                         THEN <<[next EXCEPT !.at = "activate"]>> \o Tail(restore) ELSE Tail(restore)
           /\ UNCHANGED <<active, primary, scheduled>>
        \/ /\ next.at = "activate"
           /\ Activate(next.id, FALSE)
           /\ restore' = <<[next EXCEPT !.at = "schedule"]>> \o Tail(restore)
           /\ UNCHANGED <<registered, scheduled>>
        \/ /\ next.at = "schedule"
           /\ Schedule
           /\ restore' = Tail(restore)
           /\ UNCHANGED <<registered, active, primary>>
     /\ UNCHANGED <<rows, saver, admin, waiting, changes, crossed>>

\* The process dies; the next one starts from the rows.
Crash ==
  /\ changes < MaxChanges /\ changes' = changes + 1
  /\ registered' = {} /\ active' = {} /\ primary' = Nobody
  /\ scheduled' = 0 /\ saver' = [w \in Savers |-> Free] /\ admin' = [a \in Admins |-> Idle]
  /\ waiting' = FALSE /\ restore' \in Found(rows) /\ crossed' = {}
  /\ UNCHANGED rows

RegistryStep == \/ \E a \in Admins : ScheduleSave(a) \/ DeleteRow(a) \/ WriteRank(a)
                \/ \E w \in Savers : Snapshot(w) \/ WriteRow(w) \/ FinishSave(w)
                \/ Waited \/ Restore
RegistryNext == \/ \E a \in Admins : Change(a) \/ ReadRow(a)
                \/ RegistryStep \/ Wait \/ Crash

RegistryFairness == WF_registryVars(RegistryStep)
RegistrySpec == RegistryInit /\ [][RegistryNext]_registryVars /\ RegistryFairness

\* Nothing is under way.
Settled == /\ scheduled = 0 /\ Writing = {} /\ restore = <<>>
           /\ \A a \in Admins : admin[a] = Idle

\* There is a primary provider exactly when there is an active one, and it is one of them.
PrimaryIsActive ==
  /\ primary = Nobody <=> active = {}
  /\ active # {} => primary \in active
  /\ active \subseteq registered

\* ROWS.  When everything is saved, the rows say which providers there are and which are
\* active, so that a restart finds the same; except for ids whose last writes crossed: a
\* save beside another one or beside a removal, a priority written back, a failed write.
\* And at any time the primary provider is one of the active ones, whatever is activated
\* and removed.
RowsFollowTheRegistry ==
  /\ Settled => \A id \in Ids \ crossed :
                  rows[id] = IF id \in registered THEN id \in active ELSE Nobody
  /\ PrimaryIsActive
=============================================================================
