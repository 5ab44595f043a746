----------------------------- MODULE VirtualModels -----------------------------
(***************************************************************************)
(* The administration of virtual models (internal/routes/virtualmodels.go, *)
(* internal/database/store_virtual.go): an operator's request writes the   *)
(* model's row and its upstreams by two statements, beside other           *)
(* operators', while requests to the model take turns at its upstreams     *)
(* (internal/lib/virtualmodelrouting).  A row is the number of the request *)
(* that wrote it; of the upstreams the model keeps whose they are and how  *)
(* many.                                                                   *)
(* External: SQLite, whose foreign keys are on: upstreams need their       *)
(* model's row, go with it, and forbid that its id changes.  A request to  *)
(* a model reads its upstreams and takes its turn in one step here: that   *)
(* it may read an older list through a snapshot is ResolutionCache's.      *)
(***************************************************************************)
EXTENDS Naturals, Sequences

CONSTANTS MaxRequests,  \* operators' requests, numbered as they start
          MaxUpstreams  \* upstreams that an operator names, if any
ASSUME VirtualAssumption == MaxRequests \in Nat /\ MaxUpstreams \in Nat

\* Ids of virtual models; two differ only in case.
VirtualIds == {"team", "Team", "crew"}
Folded(id) == IF id = "Team" THEN "team" ELSE id

VARIABLES modelRows,    \* virtual_models: per id the request that wrote the row last, or 0
          upstreamRows, \* virtual_model_upstreams: per id, whose they are, and how many
          rotation,     \* rrState: per id the cursor, 0 if there is none
          turns,        \* history: the last upstreams in turn, since the list changed
          request,      \* per request, how far it is
          torn          \* history: ids whose row and upstreams may differ

virtualVars == <<modelRows, upstreamRows, rotation, turns, request, torn>>

Operators == 2..MaxRequests + 1  \* the first model is of request 1
Numbers == 0..MaxRequests + 1
Counts == 0..MaxUpstreams
Verbs == {"create", "update", "rename", "delete", "show"}
NoUpstreams == [by |-> 0, many |-> 0]
NoRequest == [at |-> "out", verb |-> "show", id |-> "team", row |-> "team", to |-> "team", many |-> 0,
              told |-> <<>>,   \* the row and the upstreams it was answered
              alone |-> TRUE]  \* history: no other request for this id meanwhile

VirtualTypeOK ==
  /\ modelRows \in [VirtualIds -> Numbers]
  /\ upstreamRows \in [VirtualIds -> [by : Numbers, many : Counts]]
  /\ rotation \in [VirtualIds -> 0..MaxUpstreams]
  /\ \A id \in VirtualIds : Len(turns[id]) <= MaxUpstreams
  /\ \A o \in Operators :
       /\ request[o].at \in {"out", "writing", "upstreams", "migrating", "reading", "listing",
                             "done"}
       /\ request[o].verb \in Verbs /\ {request[o].id, request[o].row, request[o].to} \subseteq VirtualIds
       /\ request[o].many \in Counts /\ Len(request[o].told) <= 2
  /\ torn \subseteq VirtualIds

\* There was a model, with upstreams or without, or none.
VirtualInit ==
  /\ modelRows \in {[id \in VirtualIds |-> IF id = "team" THEN n ELSE 0] : n \in {0, 1}}
  /\ \E many \in Counts :
       /\ modelRows["team"] = 0 => many = 0
       /\ upstreamRows = [id \in VirtualIds |-> [by |-> modelRows[id],
                                                 many |-> IF modelRows[id] = 0 THEN 0 ELSE many]]
  /\ rotation = [id \in VirtualIds |-> 0] /\ turns = [id \in VirtualIds |-> <<>>]
  /\ request = [o \in Operators |-> NoRequest] /\ torn = {}

\* --- what the stores read
\* VirtualModelStore.Get: the row of this id, or else one that differs only in case.
Get(id) == IF modelRows[id] # 0 THEN {id}
           ELSE {other \in VirtualIds : Folded(other) = Folded(id) /\ modelRows[other] # 0}
GetForVModel(id) == upstreamRows[id].by

RequestAt(o, place) == request[o].at = place
Ongoing(o) == request[o].at \notin {"out", "done"}
\* The folded ids that a request is about.
About(r) == {Folded(r.id), Folded(r.row)} \cup IF r.verb = "rename" THEN {Folded(r.to)} ELSE {}
GoesOn(o, place) == request' = [request EXCEPT ![o].at = place]
\* It is answered that the request was refused or failed, or that the model is deleted.
Ends(o) == request' = [request EXCEPT ![o] = [NoRequest EXCEPT !.at = "done"]]

\* --- an operator's request, which looks for the model first
\* A creation needs that there is none, everything else but a rename that there is.
Accepted(verb, id) ==
  CASE verb = "create" -> Get(id) = {} [] verb = "rename" -> TRUE [] OTHER -> Get(id) # {}
BeginRequest(o, verb, id, to, many) ==
  LET found == IF verb \in {"create", "rename", "delete"} \/ Get(id) = {} THEN {id} ELSE Get(id)
      place == IF verb = "show" THEN "listing" ELSE "writing"
      asked == [NoRequest EXCEPT !.at = place, !.verb = verb, !.id = id, !.to = to, !.many = many,
                                 !.row = CHOOSE row \in found : TRUE]
      crossed == {p \in Operators \ {o} : Ongoing(p) /\ About(request[p]) \cap About(asked) # {}}
  IN /\ RequestAt(o, "out") /\ \A p \in Operators : p < o => ~RequestAt(p, "out")
     /\ Accepted(verb, id)
     /\ request' = [p \in Operators |->
          IF p = o THEN [asked EXCEPT !.alone = crossed = {},
                                      !.told = IF place = "listing" THEN <<modelRows[asked.row]>> ELSE <<>>]
          ELSE [request[p] EXCEPT !.alone = @ /\ p \notin crossed]]
     /\ UNCHANGED <<modelRows, upstreamRows, rotation, turns, torn>>

RefuseRequest(o, verb, id) ==
  /\ RequestAt(o, "out") /\ \A p \in Operators : p < o => ~RequestAt(p, "out")
  /\ ~Accepted(verb, id) /\ Ends(o)
  /\ UNCHANGED <<modelRows, upstreamRows, rotation, turns, torn>>

\* A request that writes has written one half.
Half(o) == torn' = torn \cup {request[o].row}

\* INSERT needs that there is no row of this id in the meantime.
CreateModel(o) ==
  LET id == request[o].id
  IN /\ RequestAt(o, "writing") /\ request[o].verb = "create"
     /\ IF modelRows[id] = 0
        THEN modelRows' = [modelRows EXCEPT ![id] = o] /\ GoesOn(o, "upstreams") /\ Half(o)
        ELSE Ends(o) /\ UNCHANGED <<modelRows, torn>>
     /\ UNCHANGED <<upstreamRows, rotation, turns>>

\* UPDATE writes the row that was found, if it is still there, and reports no error if not.
UpdateModel(o) ==
  LET row == request[o].row
  IN /\ RequestAt(o, "writing") /\ request[o].verb = "update"
     /\ modelRows' = [modelRows EXCEPT ![row] = IF @ = 0 THEN 0 ELSE o]
     /\ GoesOn(o, "upstreams") /\ Half(o)
     /\ UNCHANGED <<upstreamRows, rotation, turns>>

\* Slip: upstreams that there are stay with the model.
AddedToThose(o, id) == IF upstreamRows[id].many > 0 THEN upstreamRows[id]
                       ELSE [by |-> o, many |-> request[o].many]
\* saveUpstreams: those of the id as the operator spelled it are replaced in a transaction.
Replaced(o, id) == IF modelRows[id] = 0 THEN NoUpstreams ELSE [by |-> o, many |-> request[o].many]
\* A request that nobody crossed and that spelled the id as it is has made its model whole.
Undivided(o) == request[o].alone /\ request[o].id = request[o].row
SaveUpstreams(o) ==
  LET id == request[o].id
  IN /\ RequestAt(o, "upstreams")
     /\ IF request[o].many > 0 /\ modelRows[id] = 0
        THEN Ends(o) /\ UNCHANGED <<upstreamRows, turns, torn>>
        ELSE /\ upstreamRows' = [upstreamRows EXCEPT ![id] = Replaced(o, id)]
             /\ turns' = [turns EXCEPT ![id] = <<>>]
             /\ torn' = IF Undivided(o) THEN torn \ {id} ELSE torn \cup {id}
             /\ GoesOn(o, "reading")
     /\ UNCHANGED <<modelRows, rotation>>

\* Slip: the upstreams of a deleted model stay.
Orphaned(id) == upstreamRows
\* The upstreams go with their model.
Cascaded(id) == [upstreamRows EXCEPT ![id] = NoUpstreams]
\* DELETE takes the id as it was spelled, though another spelling was found.
DeleteModel(o) ==
  LET id == request[o].id
  IN /\ RequestAt(o, "writing") /\ request[o].verb = "delete"
     /\ modelRows' = [modelRows EXCEPT ![id] = 0] /\ upstreamRows' = Cascaded(id)
     /\ turns' = [turns EXCEPT ![id] = <<>>] /\ Ends(o)
     /\ UNCHANGED <<rotation, torn>>

\* Rename: one transaction, in which the foreign key refuses a model that has upstreams; only
\* the new id as it is spelled must be free.
RenameModel(o) ==
  LET id == request[o].id
      to == request[o].to
  IN /\ RequestAt(o, "writing") /\ request[o].verb = "rename"
     /\ IF modelRows[id] = 0 \/ modelRows[to] # 0 \/ upstreamRows[id].many > 0
        THEN Ends(o) /\ UNCHANGED <<modelRows, upstreamRows, torn>>
        ELSE /\ modelRows' = [modelRows EXCEPT ![to] = modelRows[id], ![id] = 0]
             /\ upstreamRows' = [upstreamRows EXCEPT ![to] = upstreamRows[id], ![id] = NoUpstreams]
             /\ torn' = IF id \in torn THEN torn \cup {to} ELSE torn
             /\ request' = [request EXCEPT ![o].at = "migrating"]
     /\ UNCHANGED <<rotation, turns>>
MigrateRoundRobinCursor(o) ==
  LET id == request[o].id
      to == request[o].to
  IN /\ RequestAt(o, "migrating")
     /\ rotation' = IF rotation[id] = 0 THEN rotation
                    ELSE [rotation EXCEPT ![to] = rotation[id], ![id] = 0]
     /\ turns' = [turns EXCEPT ![to] = <<>>, ![id] = <<>>]
     /\ request' = [request EXCEPT ![o].at = "reading"]
     /\ UNCHANGED <<modelRows, upstreamRows, torn>>

\* A statement fails.
StatementFails(o) ==
  /\ request[o].at \in {"writing", "upstreams"} /\ Ends(o)
  /\ UNCHANGED <<modelRows, upstreamRows, rotation, turns, torn>>

\* The answer is read again, by the id or the new one; a model that has gone by then is a
\* panic, which ends the request alone.
ReadModel(o) ==
  LET id == IF request[o].verb = "rename" THEN request[o].to ELSE request[o].id
  IN /\ RequestAt(o, "reading")
     /\ IF Get(id) = {} THEN Ends(o)
        ELSE LET row == CHOOSE row \in Get(id) : TRUE
             IN request' = [request EXCEPT ![o].at = "listing", ![o].row = row,
                                           ![o].told = <<modelRows[row]>>]
     /\ UNCHANGED <<modelRows, upstreamRows, rotation, turns, torn>>
\* vmWithUpstreams.
ReadUpstreams(o) ==
  /\ RequestAt(o, "listing")
  /\ request' = [request EXCEPT ![o] =
       [NoRequest EXCEPT !.at = "done", !.verb = request[o].verb,
                         !.told = Append(request[o].told, GetForVModel(request[o].row)),
                         !.alone = request[o].alone /\ request[o].row \notin torn]]
  /\ UNCHANGED <<modelRows, upstreamRows, rotation, turns, torn>>

\* --- requests to a model
\* Slip: after the last upstream the cursor goes back to 1, as if they were counted from there.
WrapsToOne(index, many) == IF index + 1 = many THEN 1 ELSE index + 1
\* The cursor, which the next request takes modulo the length of its list.
NextCursor(index, many) == index + 1
\* OrderUpstreams, round robin: the upstream at the cursor comes first.
OrderUpstreams(id) ==
  LET many == upstreamRows[id].many
      index == rotation[id] % many
      last == Append(turns[id], index)
  IN /\ many > 0
     /\ rotation' = [rotation EXCEPT ![id] = NextCursor(index, many)]
     /\ turns' = [turns EXCEPT ![id] = SubSeq(last, IF Len(last) > many THEN 2 ELSE 1, Len(last))]
     /\ UNCHANGED <<modelRows, upstreamRows, request, torn>>

VirtualNext ==
  \/ \E o \in Operators :
       \/ \E verb \in Verbs, id, to \in VirtualIds, many \in Counts :
            /\ verb \notin {"create", "update"} => many = 0
            /\ verb # "rename" => to = id
            /\ BeginRequest(o, verb, id, to, many)
       \/ \E verb \in Verbs, id \in VirtualIds : RefuseRequest(o, verb, id)
       \/ CreateModel(o) \/ UpdateModel(o) \/ SaveUpstreams(o) \/ DeleteModel(o) \/ RenameModel(o)
       \/ MigrateRoundRobinCursor(o) \/ StatementFails(o) \/ ReadModel(o) \/ ReadUpstreams(o)
  \/ \E id \in VirtualIds : OrderUpstreams(id)

VirtualSpec == VirtualInit /\ [][VirtualNext]_virtualVars

\* VIRTUAL MODELS.  Unless requests for one id crossed, one of them failed half-way or spelled
\* the id differently, a model's row and its upstreams are of one request, and so is what an
\* operator is told; upstreams never outlive their model; and while the list of a model stays
\* as it is, its upstreams take turns, even if its cursor was left by a longer or a shorter list
\* or came with another id.
VirtualModelsAreWhole ==
  /\ \A id \in VirtualIds :
       /\ modelRows[id] = 0 => upstreamRows[id] = NoUpstreams
       /\ modelRows[id] # 0 /\ id \notin torn => upstreamRows[id].by = modelRows[id]
       /\ \A i, j \in DOMAIN turns[id] : i # j => turns[id][i] # turns[id][j]
  /\ \A o \in Operators :
       LET r == request[o]
       IN r.at = "done" /\ r.alone /\ r.told # <<>> =>
            /\ r.told[1] = r.told[2]
            /\ r.verb \in {"create", "update"} => r.told[1] = o
=============================================================================
