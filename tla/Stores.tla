------------------------------- MODULE Stores -------------------------------
(***************************************************************************)
(* The two implementations of store.Store: the JSON file (store.go), whose *)
(* calls run whole under one lock and then write the file, and Turso       *)
(* (turso.go), which sends one SQL statement per request, two for a delete,*)
(* and may not hear how one ended.  The handlers that call the store are   *)
(* reduced to what they read before they write.                            *)
(*                                                                         *)
(* A call is a statement, or two, and a statement says which rows it       *)
(* changes, so that both stores are the same tables under two regimes:     *)
(* Turso executes a statement at a time, the file store a call at a time,  *)
(* in memory first and on disk when the write succeeds.                    *)
(***************************************************************************)
EXTENDS Naturals, Sequences

CONSTANTS
    Machines,     \* machine ids
    Founders,     \* the machines that are enrolled at the beginning
    Groups,       \* group ids; the groups exist at the beginning
    Artifacts,    \* keys of stored modules, name and version
    Clients,      \* requests being served at the same time
    Limit,        \* max_uses of a new token
    MaxRequests,  \* bound
    MaxFaults     \* bound: failing writes, unanswered statements and restarts

ASSUME StoresAssumption ==
    /\ Founders \subseteq Machines
    /\ Limit \in Nat \ {0}
    /\ {MaxRequests, MaxFaults} \subseteq Nat

VARIABLES
    backend,    \* "file" or "turso", for good
    tables,     \* what the store answers from: the maps in memory, the database
    disk,       \* the tables in the file; those in memory for Turso, too
    boot,       \* how far the server has come: "columns", "count", "ready"
    request,    \* request[c]: what the client does, "none" if nothing
    calls,      \* calls[c]: the statements of its calls that are still to be made,
                \* the first under way
    late,       \* statements given up on (15 s) that may be executed yet
    \* --- observations ---
    promised,   \* the tables as the answered calls have left them
    doubtful,   \* keys that calls without a good answer have written
    granted,    \* uses of the token that enrollments were told of
    deleted,    \* machines whose deletion was answered
    staleSave,  \* a whole record was saved beside another save or a delete
    staleAdd,   \* a member was added beside a delete, or by a late statement
    requests,   \* bound
    faults      \* bound

serverVars == <<backend, boot, request, calls>>
obsVars == <<promised, doubtful, granted, deleted, staleSave, staleAdd>>
vars == <<backend, tables, disk, boot, request, calls, late, promised, doubtful,
          granted, deleted, staleSave, staleAdd, requests, faults>>

------------------------------------------------------------------------------
(* Tables and statements                                                    *)

None == [desired |-> 0, beat |-> 0, status |-> 0]
NewRecord == [desired |-> 1, beat |-> 0, status |-> 0]

Kinds == {"saveMachine", "touch", "setStatus", "leaveGroups", "dropMachine",
          "empty", "dropGroup", "saveGroup", "add", "remove", "saveModule",
          "dropModule", "consume"}

\* A token minted by this version, and one of before tokens were counted.
NewToken == [used |-> FALSE, uses |-> 0, max |-> Limit]
OldTokens == {[used |-> u, uses |-> 0, max |-> 1] : u \in BOOLEAN}

\* Uses of the token: the file store counts an old used one when it meets it.
Uses(t) ==
    IF backend = "file" /\ t.token.used /\ t.token.uses = 0 THEN 1 ELSE t.token.uses

Consumable(t) == Uses(t) < t.token.max

ConsumeToken(t) ==
    IF ~Consumable(t) THEN t.token
    ELSE [t.token EXCEPT !.uses = Uses(t) + 1, !.used = Uses(t) + 1 >= t.token.max]

\* (faulty) a heartbeat inserts the row that is missing.
MachineRow_upsert(s, row) ==
    CASE s.do = "saveMachine" -> s.row
      [] s.do = "touch" -> [row EXCEPT !.beat = s.value]
      [] s.do = "setStatus" /\ row # None -> [row EXCEPT !.status = s.value]
      [] s.do = "dropMachine" -> None
      [] OTHER -> row

\* TouchHeartbeat and SetStatus write columns of a row that exists; SaveMachine
\* inserts the row or writes all of it.
MachineRow(s, row) ==
    CASE s.do = "saveMachine" -> s.row
      [] s.do = "touch" /\ row # None -> [row EXCEPT !.beat = s.value]
      [] s.do = "setStatus" /\ row # None -> [row EXCEPT !.status = s.value]
      [] s.do = "dropMachine" -> None
      [] OTHER -> row

\* The tables after a statement, which changes rows of one table.
Execute(t, s) ==
    CASE s.do \in {"saveMachine", "touch", "setStatus", "dropMachine"} ->
            [t EXCEPT !.machines[s.key] = MachineRow(s, @)]
      [] s.do = "leaveGroups" -> [t EXCEPT !.members = {p \in @ : p[2] # s.key}]
      [] s.do = "empty"       -> [t EXCEPT !.members = {p \in @ : p[1] # s.key}]
      [] s.do = "add"         -> [t EXCEPT !.members = @ \cup {s.key}]
      [] s.do = "remove"      -> [t EXCEPT !.members = @ \ {s.key}]
      [] s.do = "saveGroup"   -> [t EXCEPT !.groups = @ \cup {s.key}]
      [] s.do = "dropGroup"   -> [t EXCEPT !.groups = @ \ {s.key}]
      [] s.do = "saveModule"  -> [t EXCEPT !.modules = @ \cup {s.key}]
      [] s.do = "dropModule"  -> [t EXCEPT !.modules = @ \ {s.key}]
      [] s.do = "consume"     -> [t EXCEPT !.token = ConsumeToken(t)]

------------------------------------------------------------------------------
(* The calls of the interface, all but two of them one statement            *)

SaveMachine(m, row) == [do |-> "saveMachine", key |-> m, row |-> row]
TouchHeartbeat(m, n) == [do |-> "touch", key |-> m, value |-> n]
SetStatus(m, n) == [do |-> "setStatus", key |-> m, value |-> n]

LeaveGroups(m) == [do |-> "leaveGroups", key |-> m]
DropMachine(m) == [do |-> "dropMachine", key |-> m]

\* (faulty) the row goes before its memberships.
DeleteMachine_rowFirst(m) == <<DropMachine(m), LeaveGroups(m)>>

DeleteMachine(m) == <<LeaveGroups(m), DropMachine(m)>>

Empty(g) == [do |-> "empty", key |-> g]
DropGroup(g) == [do |-> "dropGroup", key |-> g]
DeleteGroup(g) == <<Empty(g), DropGroup(g)>>

SaveGroup(g) == [do |-> "saveGroup", key |-> g]
AddGroupMember(g, m) == [do |-> "add", key |-> <<g, m>>]
RemoveGroupMember(g, m) == [do |-> "remove", key |-> <<g, m>>]
SaveModule(a) == [do |-> "saveModule", key |-> a]
DeleteModule(a) == [do |-> "dropModule", key |-> a]
TokenKey == <<"token">>
Consume == [do |-> "consume", key |-> TokenKey]

\* The keys of the rows a statement writes.
Writes(s) ==
    CASE s.do = "leaveGroups" -> {<<g, s.key>> : g \in Groups}
      [] s.do = "empty"       -> {<<s.key, m>> : m \in Machines}
      [] OTHER                -> {s.key}

AllWrites(statements) == UNION {Writes(s) : s \in statements}

Keys == Machines \cup Groups \cup Artifacts \cup (Groups \X Machines) \cup {TokenKey}

------------------------------------------------------------------------------

Init ==
    /\ backend \in {"file", "turso"}
    /\ \E token \in {NewToken} \cup OldTokens, members \in SUBSET (Groups \X Founders) :
          tables = [machines |-> [m \in Machines |-> IF m \in Founders THEN NewRecord ELSE None],
                    groups |-> Groups, members |-> members, modules |-> {}, token |-> token]
    /\ disk = tables
    /\ boot = IF backend = "file" THEN "ready" ELSE "columns"
    /\ request = [c \in Clients |-> "none"]
    /\ calls = [c \in Clients |-> <<>>]
    /\ late = {}
    /\ promised = tables
    /\ doubtful = {}
    /\ granted = IF tables.token.used THEN 1 ELSE 0
    /\ deleted = {}
    /\ staleSave = FALSE
    /\ staleAdd = FALSE
    /\ requests = 0
    /\ faults = 0

Busy(kinds) == \E c \in Clients : request[c] \in kinds
Overdue(kinds) == \E s \in late : s.do \in kinds
Exists(m) == tables.machines[m] # None
Fault == faults < MaxFaults /\ faults' = faults + 1

------------------------------------------------------------------------------
(* Requests: what a handler reads, and the calls it goes on to make         *)

Start(c, kind, cs) ==
    /\ boot = "ready"
    /\ request[c] = "none"
    /\ requests < MaxRequests
    /\ request' = [request EXCEPT ![c] = kind]
    /\ calls' = [calls EXCEPT ![c] = cs]
    /\ requests' = requests + 1
    /\ UNCHANGED <<backend, tables, disk, boot, late, promised, doubtful,
                   granted, deleted, faults>>

\* Recompute reads the whole record and writes it back with a new desired state.
Recompute(c, m) ==
    /\ Exists(m)
    /\ Start(c, "recompute",
             <<SaveMachine(m, [tables.machines[m] EXCEPT !.desired = @ + 1])>>)
    /\ staleSave' = (staleSave \/ Busy({"recompute", "deleteMachine"}) \/ Overdue({"dropMachine"}))
    /\ UNCHANGED staleAdd

\* (faulty) the heartbeat writes back the record it read to find the machine.
Heartbeat_whole(c, m) ==
    /\ Exists(m)
    /\ Start(c, "heartbeat",
             <<SaveMachine(m, [tables.machines[m] EXCEPT !.beat = requests + 1])>>)
    /\ UNCHANGED <<staleSave, staleAdd>>

\* handleHeartbeat and handleStatus look nothing up: the agent's certificate is
\* enough, also when the machine is gone.
Heartbeat(c, m) ==
    /\ Exists(m) \/ m \in deleted \cup doubtful
    /\ Start(c, "heartbeat", <<TouchHeartbeat(m, requests + 1)>>)
    /\ UNCHANGED <<staleSave, staleAdd>>

Status(c, m) ==
    /\ Exists(m) \/ m \in deleted \cup doubtful
    /\ Start(c, "status", <<SetStatus(m, requests + 1)>>)
    /\ UNCHANGED <<staleSave, staleAdd>>

\* handleEnroll saves a new record, under a new id, once the token has been
\* consumed.
Enroll(c, m) ==
    /\ ~Exists(m)
    /\ m \notin deleted \cup doubtful
    /\ \A d \in Clients : \A i \in DOMAIN calls[d] : calls[d][i] # SaveMachine(m, NewRecord)
    /\ Start(c, "enroll", <<Consume, SaveMachine(m, NewRecord)>>)
    /\ UNCHANGED <<staleSave, staleAdd>>

RemoveMachine(c, m) ==
    /\ Exists(m)
    /\ Start(c, "deleteMachine", DeleteMachine(m))
    /\ staleSave' = (staleSave \/ Busy({"recompute"}))
    /\ staleAdd' = (staleAdd \/ Busy({"add"}))

RemoveGroup(c, g) ==
    /\ g \in tables.groups
    /\ Start(c, "deleteGroup", DeleteGroup(g))
    /\ staleAdd' = (staleAdd \/ Busy({"add"}))
    /\ UNCHANGED staleSave

\* updateGroup reads the group first.
UpdateGroup(c, g) ==
    /\ g \in tables.groups
    /\ Start(c, "saveGroup", <<SaveGroup(g)>>)
    /\ UNCHANGED <<staleSave, staleAdd>>

\* addGroupMember looks up the group and the machine first.
Join(c, g, m) ==
    /\ g \in tables.groups
    /\ Exists(m)
    /\ Start(c, "add", <<AddGroupMember(g, m)>>)
    /\ staleAdd' = (staleAdd \/ Busy({"deleteMachine", "deleteGroup"})
                             \/ Overdue({"dropMachine", "dropGroup"}))
    /\ UNCHANGED staleSave

Leave(c, g, m) ==
    /\ g \in tables.groups
    /\ Start(c, "remove", <<RemoveGroupMember(g, m)>>)
    /\ UNCHANGED <<staleSave, staleAdd>>

Upload(c, a) ==
    /\ Start(c, "module", <<SaveModule(a)>>)
    /\ UNCHANGED <<staleSave, staleAdd>>

Forget(c, a) ==
    /\ Start(c, "module", <<DeleteModule(a)>>)
    /\ UNCHANGED <<staleSave, staleAdd>>

Arrive(c) ==
    \/ \E m \in Machines : Recompute(c, m) \/ Heartbeat(c, m) \/ Status(c, m)
                             \/ Enroll(c, m) \/ RemoveMachine(c, m)
    \/ \E g \in Groups : RemoveGroup(c, g) \/ UpdateGroup(c, g)
    \/ \E g \in Groups, m \in Machines : Join(c, g, m) \/ Leave(c, g, m)
    \/ \E a \in Artifacts : Upload(c, a) \/ Forget(c, a)

------------------------------------------------------------------------------
(* The calls, as the two stores make them                                   *)

\* The statements that take effect together, under the lock of the file store
\* or each by itself, their effect, and what the client has left to do after them.
Whole(c) == backend = "file" /\ request[c] \in {"deleteMachine", "deleteGroup"}

Part(c) == IF Whole(c) THEN {calls[c][1], calls[c][2]} ELSE {calls[c][1]}

ExecutePart(c, t) ==
    IF Whole(c) THEN Execute(Execute(t, calls[c][1]), calls[c][2]) ELSE Execute(t, calls[c][1])

Rest(c) == IF Whole(c) THEN <<>> ELSE Tail(calls[c])

Refused(c) == calls[c][1] = Consume /\ ~Consumable(tables)

\* ErrNotFound: the file store does not write its file for it.
NotFound(c) ==
    calls[c][1].do \in {"touch", "setStatus"} /\ ~Exists(calls[c][1].key)

\* The request ends with the calls it has not made.
End(c) ==
    /\ request' = [request EXCEPT ![c] = "none"]
    /\ calls' = [calls EXCEPT ![c] = <<>>]

Pass(c) ==
    /\ calls' = [calls EXCEPT ![c] = Rest(c)]
    /\ request' = [request EXCEPT ![c] = IF Rest(c) = <<>> THEN "none" ELSE @]

\* (faulty) a heartbeat is not worth writing the file.
Perform_lazy(c) ==
    /\ calls[c] # <<>>
    /\ ~Refused(c)
    /\ tables' = ExecutePart(c, tables)
    /\ disk' = IF request[c] = "heartbeat" THEN disk ELSE tables'
    /\ promised' = ExecutePart(c, promised)
    /\ granted' = IF calls[c][1] = Consume THEN granted + 1 ELSE granted
    /\ deleted' = deleted \cup {m \in Machines : DropMachine(m) \in Part(c)}
    /\ Pass(c)
    /\ UNCHANGED <<backend, boot, late, doubtful, staleSave, staleAdd, requests, faults>>

\* The store answers that it is done, or that the row is not there.
Perform(c) ==
    /\ calls[c] # <<>>
    /\ ~Refused(c)
    /\ tables' = ExecutePart(c, tables)
    /\ disk' = IF NotFound(c) THEN disk ELSE tables'
    /\ promised' = ExecutePart(c, promised)
    /\ granted' = IF calls[c][1] = Consume THEN granted + 1 ELSE granted
    /\ deleted' = deleted \cup {m \in Machines : DropMachine(m) \in Part(c)}
    /\ Pass(c)
    /\ UNCHANGED <<backend, boot, late, doubtful, staleSave, staleAdd, requests, faults>>

\* ErrTokenUsed: the token is used up, or has expired.
Refuse(c) ==
    /\ calls[c] # <<>>
    /\ calls[c][1] = Consume
    /\ End(c)
    /\ UNCHANGED <<backend, tables, disk, boot, late, obsVars, requests, faults>>

\* The file cannot be written; the maps have been.
FlushFails(c) ==
    /\ backend = "file"
    /\ calls[c] # <<>>
    /\ ~Refused(c)
    /\ ~NotFound(c)
    /\ Fault
    /\ tables' = ExecutePart(c, tables)
    /\ doubtful' = doubtful \cup AllWrites(Part(c))
    /\ End(c)
    /\ UNCHANGED <<backend, disk, boot, late, promised, granted, deleted,
                   staleSave, staleAdd, requests>>

\* No answer, or not a good one, in 15 s: the statement may be executed yet.
TimesOut(c) ==
    /\ backend = "turso"
    /\ calls[c] # <<>>
    /\ Fault
    /\ late' = late \cup Part(c)
    /\ doubtful' = doubtful \cup AllWrites(Part(c))
    /\ staleSave' = (staleSave \/ calls[c][1].do = "saveMachine")
    /\ staleAdd' = (staleAdd \/ calls[c][1].do = "add")
    /\ End(c)
    /\ UNCHANGED <<backend, tables, disk, boot, promised, granted, deleted, requests>>

ExecuteLate(s) ==
    /\ s \in late
    /\ late' = late \ {s}
    /\ tables' = Execute(tables, s)
    /\ disk' = tables'
    /\ UNCHANGED <<serverVars, obsVars, requests, faults>>

------------------------------------------------------------------------------
(* Restarts                                                                 *)

\* The server dies and is started again: the file store reads its file, the
\* other one looks after its schema first.
Reboot ==
    /\ Fault
    /\ request' = [c \in Clients |-> "none"]
    /\ calls' = [c \in Clients |-> <<>>]
    /\ boot' = IF backend = "file" THEN "ready" ELSE "columns"

Restart ==
    /\ Reboot
    /\ tables' = disk
    /\ UNCHANGED <<backend, disk, late, obsVars, requests>>

\* It dies with a call under way: the temporary file has just been renamed,
\* or the statement is still on its way.
DieWriting(c) ==
    /\ calls[c] # <<>>
    /\ backend = "file" => ~Refused(c) /\ ~NotFound(c)
    /\ Reboot
    /\ doubtful' = doubtful \cup AllWrites(Part(c))
    /\ IF backend = "file"
       THEN /\ disk' = ExecutePart(c, tables)
            /\ UNCHANGED <<late, staleSave, staleAdd>>
       ELSE /\ late' = late \cup Part(c)
            /\ staleSave' = (staleSave \/ calls[c][1].do = "saveMachine")
            /\ staleAdd' = (staleAdd \/ calls[c][1].do = "add")
            /\ UNCHANGED disk
    /\ tables' = disk'
    /\ UNCHANGED <<backend, promised, granted, deleted, requests>>

\* migrate: columns that exist already are an expected error, new ones hold
\* what an old token is taken for: no uses, one allowed.
AddColumns ==
    /\ boot = "columns"
    /\ boot' = "count"
    /\ UNCHANGED <<backend, tables, disk, request, calls, late, obsVars, requests, faults>>

\* (faulty) used tokens are left at no uses.
CountUsed_skipped ==
    /\ boot = "count"
    /\ boot' = "ready"
    /\ UNCHANGED <<backend, tables, disk, request, calls, late, obsVars, requests, faults>>

\* ... and a token that was used before uses were counted has one use.
CountUsed ==
    /\ boot = "count"
    /\ boot' = "ready"
    /\ LET counted(t) == [t EXCEPT !.token.uses = IF t.token.used /\ @ = 0 THEN 1 ELSE @] IN
       /\ tables' = counted(tables)
       /\ promised' = counted(promised)
    /\ disk' = tables'
    /\ UNCHANGED <<backend, request, calls, late, doubtful, granted, deleted,
                   staleSave, staleAdd, requests, faults>>

Next ==
    \/ \E c \in Clients : Arrive(c)
    \/ \E c \in Clients : Perform(c) \/ Refuse(c)
    \/ \E c \in Clients : FlushFails(c) \/ TimesOut(c) \/ DieWriting(c)
    \/ \E s \in late : ExecuteLate(s)
    \/ Restart \/ AddColumns \/ CountUsed

Spec == Init /\ [][Next]_vars

------------------------------------------------------------------------------
(* Properties                                                               *)

Rows == [desired : Nat, beat : Nat, status : Nat]

Tables == [machines : [Machines -> Rows],
           groups : SUBSET Groups, members : SUBSET (Groups \X Machines),
           modules : SUBSET Artifacts,
           token : [used : BOOLEAN, uses : Nat, max : Nat]]

TypeOK ==
    /\ {tables, disk, promised} \subseteq Tables
    /\ backend \in {"file", "turso"}
    /\ backend = "turso" => disk = tables
    /\ \A c \in Clients : request[c] = "none" <=> calls[c] = <<>>
    /\ boot # "ready" => \A c \in Clients : request[c] = "none"
    /\ doubtful \subseteq Keys
    /\ \A s \in late : s.do \in Kinds

\* Two tables agree on the row of a key.
SameRow(t, u, k) ==
    /\ k \in Machines => t.machines[k] = u.machines[k]
    /\ k \in t.groups <=> k \in u.groups
    /\ k \in t.modules <=> k \in u.modules
    /\ k \in t.members <=> k \in u.members
    /\ k = TokenKey => t.token = u.token

\* What a call was answered is still there, after failures of other calls and
\* restarts: every row that no unanswered call has written is as the answered
\* ones left it (flush "writes atomically (temp file + rename)").
AnsweredIsKept == \A k \in Keys \ doubtful : SameRow(tables, promised, k)

\* No membership is left of a machine or a group that does not exist, between
\* the two statements of a delete and after either of them has failed, unless
\* the member is added next to the delete.
NoDangling ==
    staleAdd \/ \A p \in tables.members : p[1] \in tables.groups /\ Exists(p[2])

\* Enrollments are never told of more uses than the token has ("concurrent
\* enrollments with the same token race on used=0 and exactly one wins"), nor
\* of one that was used before uses were counted, whatever fails or restarts.
GrantsWithinLimit == granted <= tables.token.max

\* A machine whose deletion was answered stays deleted, whatever heartbeats and
\* reports of it are still under way or late, unless a whole record is saved
\* next to the delete.
DeletedStays == staleSave \/ \A m \in deleted : ~Exists(m)

\* "a heartbeat racing a desired-state recompute cannot clobber it": the
\* revision of a record does not go back, unless recomputes race each other or
\* an unanswered save is undone.
DesiredKept ==
    [][\A m \in Machines :
          Exists(m) /\ Exists(m)' /\ ~staleSave' /\ m \notin doubtful' =>
              tables'.machines[m].desired >= tables.machines[m].desired]_vars
==============================================================================
