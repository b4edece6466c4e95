---------------------------- MODULE ControlPlane ----------------------------
(***************************************************************************)
(* The requests that change groups, memberships, labels, overrides and     *)
(* machines, and the Recompute each of them ends with (server/groups.go,   *)
(* server/admin.go, server/server.go over store/store.go).                 *)
(*                                                                         *)
(* A handler reads records, changes its copy and writes the whole copy     *)
(* back; Recompute then lists the groups, the members of each group and    *)
(* the machines, and writes back the machines whose modules changed.  Each *)
(* call of the store is a step of its own: the store's lock makes it       *)
(* atomic, and nothing makes more than one of them atomic.  Any call may   *)
(* return an error, and the server may be restarted between two of them.   *)
(***************************************************************************)
EXTENDS Resolution

CONSTANTS
    Machines, Groups,  \* ids, each used at most once
    Absent,            \* the id is not in use yet
    Removed,           \* the record was deleted
    Nil,               \* Desired.Modules of a machine never recomputed
    Tenant,            \* "Recompute all machines"
    Shapes,            \* the groups an operator may write
    Admins,            \* requests being served at the same time
    Statuses,          \* what an agent may report
    NoStatus,
    MaxRequests,       \* bound: requests accepted in all
    MaxReports,        \* bound: status reports accepted in all
    MaxFailures        \* bound: store calls that return an error, and restarts

Gone == {Absent, Removed}

GroupRecords == [name : Nat, all : BOOLEAN, selector : Selectors, modules : ModuleLists]

MachineRecords == [labels : LabelSets, override : ModuleLists,
                   modules : ModuleLists \cup {Nil}, rev : Nat,
                   status : Statuses \cup {NoStatus}]

ASSUME ControlPlaneAssumption ==
    /\ Shapes \subseteq GroupRecords
    /\ {MaxRequests, MaxReports, MaxFailures} \subseteq Nat
    /\ NoStatus \notin Statuses
    /\ IsFiniteSet(Groups)
    /\ Tenant \notin Machines
    /\ Nil \notin ModuleLists
    /\ Absent # Removed /\ Gone \cap (GroupRecords \cup MachineRecords) = {}

VARIABLES
    \* --- the store ---
    group,      \* group[g]: the record of g, or Absent or Removed
    member,     \* the explicit memberships <<g, m>>
    machine,    \* machine[m]: the record of m, or Absent or Removed
    saved,      \* the three as a restart finds them: the store's file
    \* --- each request ---
    pc,         \* the call it makes next
    job,        \* what it was asked
    copy,       \* the record it read and changed
    groupsRead, \* Recompute: the groups listed
    memberRead, \* Recompute: the memberships listed so far
    unread,     \* Recompute: groups whose members are not listed yet
    work,       \* Recompute: machine records read and not handled yet
    \* --- observations ---
    overlapped, \* two requests have been under way at the same time
    crossed,    \* requests that were accepted while, or ran when, another was
    unsettled,  \* a call failed or requests overlapped, and no tenant-wide
                \* Recompute has succeeded alone since
    requests, reports, failures

Records == <<group, member, machine>>
storeVars == <<group, member, machine, saved>>
readVars == <<groupsRead, memberRead, unread, work>>
countVars == <<requests, reports, failures, overlapped, crossed>>
vars == <<group, member, machine, saved, pc, job, copy, groupsRead, memberRead, unread, work,
          overlapped, crossed, unsettled, requests, reports, failures>>

Kinds == {"saveGroup", "deleteGroup", "addMember", "removeMember", "saveMachine",
          "enroll", "deleteMachine"}
Empty == [x \in {} |-> x]
NoLabels == [k \in Keys |-> NoLabel]
NoModules == [n \in Names |-> NoSpec]

Init ==
    /\ \E all \in {s \in Shapes : s.all} :
          group = [g \in Groups |-> IF g = 1 THEN all ELSE Absent]
    /\ member = {}
    /\ machine = [m \in Machines |-> Absent]
    /\ saved = Records
    /\ pc = [p \in Admins |-> "idle"]
    /\ job = [p \in Admins |-> Empty]
    /\ copy = [p \in Admins |-> Absent]
    /\ groupsRead = [p \in Admins |-> Empty]
    /\ memberRead = [p \in Admins |-> {}]
    /\ unread = [p \in Admins |-> {}]
    /\ work = [p \in Admins |-> Empty]
    /\ overlapped = FALSE /\ crossed = {} /\ unsettled = FALSE
    /\ requests = 0 /\ reports = 0 /\ failures = 0

Exists(record) == record \notin Gone

------------------------------------------------------------------------------
(* The first read of each handler.  A missing record is a 404: no step.     *)

\* Request p is accepted, does its reads, and goes on to write `record`.
Accept(p, what, record) ==
    /\ pc[p] = "idle"
    /\ requests < MaxRequests
    /\ requests' = requests + 1
    /\ pc' = [pc EXCEPT ![p] = "write"]
    /\ job' = [job EXCEPT ![p] = what]
    /\ copy' = [copy EXCEPT ![p] = record]
    /\ LET busy == {q \in Admins : pc[q] # "idle"} IN
          /\ overlapped' = (overlapped \/ busy # {})
          /\ unsettled' = (unsettled \/ busy # {})
          /\ crossed' = (crossed \ {p}) \cup (IF busy = {} THEN {} ELSE busy \cup {p})
    /\ UNCHANGED <<storeVars, readVars, reports, failures>>

createGroup(p, g) ==
    /\ group[g] = Absent
    /\ \A q \in Admins : pc[q] = "write" /\ job[q].kind = "saveGroup" => job[q].g # g
    /\ \E s \in Shapes : Accept(p, [kind |-> "saveGroup", g |-> g, target |-> Tenant], s)

\* Name, selector and modules are each replaced or kept.
updateGroup(p, g) ==
    /\ Exists(group[g])
    /\ \E s \in Shapes :
       \E name \in {s.name, group[g].name}, selector \in {s.selector, group[g].selector},
          modules \in {s.modules, group[g].modules} :
             Accept(p, [kind |-> "saveGroup", g |-> g, target |-> Tenant],
                    [group[g] EXCEPT !.name = name, !.selector = selector,
                                     !.modules = modules])

deleteGroup(p, g) ==
    /\ Exists(group[g])
    /\ Accept(p, [kind |-> "deleteGroup", g |-> g, target |-> Tenant], Removed)

\* The group and the machine are looked up; only their existence is used.
addGroupMember(p, g, m) ==
    /\ Exists(group[g]) /\ Exists(machine[m])
    /\ Accept(p, [kind |-> "addMember", g |-> g, target |-> m], Absent)

removeGroupMember(p, g, m) ==
    /\ Exists(group[g])
    /\ Accept(p, [kind |-> "removeMember", g |-> g, target |-> m], Absent)

putLabels(p, m) ==
    /\ Exists(machine[m])
    /\ \E l \in LabelSets : Accept(p, [kind |-> "saveMachine", target |-> m],
                                   [machine[m] EXCEPT !.labels = l])

putDesired(p, m) ==
    /\ Exists(machine[m])
    /\ \E o \in ModuleLists : Accept(p, [kind |-> "saveMachine", target |-> m],
                                     [machine[m] EXCEPT !.override = o])

\* handleEnroll after the token was accepted: a new id, the token's labels.
handleEnroll(p, m) ==
    /\ machine[m] = Absent
    /\ \A q \in Admins : pc[q] = "write" => job[q].target # m
    /\ \E l \in LabelSets :
          Accept(p, [kind |-> "enroll", target |-> m],
                 [labels |-> l, override |-> NoModules, modules |-> Nil, rev |-> 0,
                  status |-> NoStatus])

deleteMachine(p, m) ==
    /\ Exists(machine[m])
    /\ Accept(p, [kind |-> "deleteMachine", target |-> m], Removed)

Begin(p) ==
    \/ \E g \in Groups : createGroup(p, g) \/ updateGroup(p, g) \/ deleteGroup(p, g)
    \/ \E g \in Groups, m \in Machines : addGroupMember(p, g, m) \/ removeGroupMember(p, g, m)
    \/ \E m \in Machines : putLabels(p, m) \/ putDesired(p, m) \/ handleEnroll(p, m)
                           \/ deleteMachine(p, m)

------------------------------------------------------------------------------
(* The write of each handler, on the state it finds then.                   *)

\* (faulty) a machine is deleted and its memberships are kept.
Apply_keepMembers(p) ==
    LET j == job[p] IN
    CASE j.kind \in {"saveGroup", "deleteGroup"} ->
            /\ group' = [group EXCEPT ![j.g] = copy[p]]
            /\ member' = {x \in member : j.kind = "saveGroup" \/ x[1] # j.g}
            /\ UNCHANGED machine
      [] j.kind = "addMember" ->
            /\ member' = member \cup {<<j.g, j.target>>}
            /\ UNCHANGED <<group, machine>>
      [] j.kind = "removeMember" ->
            /\ member' = member \ {<<j.g, j.target>>}
            /\ UNCHANGED <<group, machine>>
      [] j.kind \in {"saveMachine", "enroll", "deleteMachine"} ->
            /\ machine' = [machine EXCEPT ![j.target] = copy[p]]
            /\ UNCHANGED <<group, member>>

\* What the store's call does with the copy.
Apply(p) ==
    LET j == job[p] IN
    CASE j.kind = "saveGroup" ->
            /\ group' = [group EXCEPT ![j.g] = copy[p]]
            /\ UNCHANGED <<member, machine>>
      [] j.kind = "deleteGroup" ->
            /\ group' = [group EXCEPT ![j.g] = Removed]
            /\ member' = {x \in member : x[1] # j.g}
            /\ UNCHANGED machine
      [] j.kind = "addMember" ->
            /\ member' = member \cup {<<j.g, j.target>>}
            /\ UNCHANGED <<group, machine>>
      [] j.kind = "removeMember" ->
            /\ member' = member \ {<<j.g, j.target>>}
            /\ UNCHANGED <<group, machine>>
      [] j.kind \in {"saveMachine", "enroll"} ->
            /\ machine' = [machine EXCEPT ![j.target] = copy[p]]
            /\ UNCHANGED <<group, member>>
      [] j.kind = "deleteMachine" ->
            /\ machine' = [machine EXCEPT ![j.target] = Removed]
            /\ member' = {x \in member : x[2] # j.target}
            /\ UNCHANGED group

\* The request is over and its locals with it.
Finish(p) ==
    /\ pc' = [pc EXCEPT ![p] = "idle"]
    /\ job' = [job EXCEPT ![p] = Empty]
    /\ copy' = [copy EXCEPT ![p] = Absent]
    /\ groupsRead' = [groupsRead EXCEPT ![p] = Empty]
    /\ memberRead' = [memberRead EXCEPT ![p] = {}]
    /\ unread' = [unread EXCEPT ![p] = {}]
    /\ work' = [work EXCEPT ![p] = Empty]

\* (faulty) deleting a group recomputes nothing.
Write_noRecompute(p) ==
    /\ pc[p] = "write"
    /\ Apply(p)
    /\ saved' = Records'
    /\ IF job[p].kind \in {"deleteMachine", "deleteGroup"}
       THEN Finish(p)
       ELSE /\ pc' = [pc EXCEPT ![p] = "listGroups"]
            /\ copy' = [copy EXCEPT ![p] = Absent]
            /\ UNCHANGED <<job, readVars>>
    /\ UNCHANGED <<unsettled, countVars>>

\* Every handler but deleteMachine goes on to Recompute.
Write(p) ==
    /\ pc[p] = "write"
    /\ Apply(p)
    /\ saved' = Records'
    /\ IF job[p].kind = "deleteMachine"
       THEN Finish(p)
       ELSE /\ pc' = [pc EXCEPT ![p] = "listGroups"]
            /\ copy' = [copy EXCEPT ![p] = Absent]
            /\ UNCHANGED <<job, readVars>>
    /\ UNCHANGED <<unsettled, countVars>>

\* The write reports an error and the handler returns; the file store has
\* changed its map all the same and not its file, Turso has changed nothing.
WriteFails(p) ==
    /\ pc[p] = "write"
    /\ failures < MaxFailures
    /\ failures' = failures + 1
    /\ Apply(p) \/ UNCHANGED Records
    /\ unsettled' = TRUE
    /\ Finish(p)
    /\ UNCHANGED <<saved, requests, reports, overlapped, crossed>>

------------------------------------------------------------------------------
(* Recompute                                                                *)

ListGroups(p) ==
    /\ pc[p] = "listGroups"
    /\ LET listed == {g \in Groups : Exists(group[g])} IN
          /\ groupsRead' = [groupsRead EXCEPT ![p] = [g \in listed |-> group[g]]]
          /\ unread' = [unread EXCEPT ![p] = listed]
    /\ pc' = [pc EXCEPT ![p] = "listMembers"]
    /\ UNCHANGED <<storeVars, job, copy, memberRead, work, unsettled, countVars>>

ListGroupMembers(p, g) ==
    /\ pc[p] = "listMembers"
    /\ g \in unread[p]
    /\ memberRead' = [memberRead EXCEPT ![p] = @ \cup {x \in member : x[1] = g}]
    /\ unread' = [unread EXCEPT ![p] = @ \ {g}]
    /\ UNCHANGED <<storeVars, pc, job, copy, groupsRead, work, unsettled, countVars>>

\* ListMachines for the whole tenant; GetMachine for one machine, whose
\* absence ends the request.
ReadMachines(p) ==
    LET wanted == IF job[p].target = Tenant THEN {m \in Machines : Exists(machine[m])}
                                            ELSE {job[p].target}
    IN  /\ pc[p] = "listMembers"
        /\ unread[p] = {}
        /\ \A m \in wanted : Exists(machine[m])
        /\ work' = [work EXCEPT ![p] = [m \in wanted |-> machine[m]]]
        /\ pc' = [pc EXCEPT ![p] = "save"]
        /\ UNCHANGED <<storeVars, job, copy, groupsRead, memberRead, unread,
                       unsettled, countVars>>

MachineMissing(p) ==
    /\ pc[p] = "listMembers"
    /\ unread[p] = {}
    /\ job[p].target # Tenant
    /\ ~Exists(machine[job[p].target])
    /\ Finish(p)
    /\ UNCHANGED <<storeVars, unsettled, countVars>>

\* (faulty) the override goes first and the groups win.
Computed_groupsWin(p, m) ==
    {[n \in Names |->
        LET c == computeModules(NoModules, work[p][m].labels, groupsRead[p],
                                {x[1] : x \in {y \in memberRead[p] : y[2] = m}}, order)
        IN  IF c[n] # NoSpec THEN c[n] ELSE work[p][m].override[n]] :
        order \in Orders(groupsRead[p])}

\* computeModules for a machine that was read, with what was read.
Computed(p, m) ==
    {computeModules(work[p][m].override, work[p][m].labels, groupsRead[p],
                    {x[1] : x \in {y \in memberRead[p] : y[2] = m}}, order) :
        order \in Orders(groupsRead[p])}

Handled(p, m) == work' = [work EXCEPT ![p] = [n \in DOMAIN @ \ {m} |-> @[n]]]

\* The modules did not change: the record is left alone.
Unchanged(p, m) ==
    /\ pc[p] = "save"
    /\ m \in DOMAIN work[p]
    /\ work[p][m].modules \in Computed(p, m)
    /\ Handled(p, m)
    /\ UNCHANGED <<storeVars, pc, job, copy, groupsRead, memberRead, unread, unsettled, countVars>>

\* They did: a new revision, and the whole record is written back.
Updated(p, m, next) ==
    [work[p][m] EXCEPT !.modules = next, !.rev = @ + 1]

SaveMachine(p, m) ==
    /\ pc[p] = "save"
    /\ m \in DOMAIN work[p]
    /\ \E next \in Computed(p, m) \ {work[p][m].modules} :
          machine' = [machine EXCEPT ![m] = Updated(p, m, next)]
    /\ Handled(p, m)
    /\ UNCHANGED <<group, member, pc, job, copy, groupsRead, memberRead, unread, unsettled, countVars>>
    /\ saved' = Records'

\* An error ends Recompute: the machines not handled yet are skipped.
SaveMachineFails(p, m) ==
    /\ pc[p] = "save"
    /\ m \in DOMAIN work[p]
    /\ failures < MaxFailures
    /\ failures' = failures + 1
    /\ \E next \in Computed(p, m) \ {work[p][m].modules} :
          machine' \in {machine, [machine EXCEPT ![m] = Updated(p, m, next)]}
    /\ unsettled' = TRUE
    /\ Finish(p)
    /\ UNCHANGED <<group, member, saved, requests, reports, overlapped, crossed>>

RecomputeDone(p) ==
    /\ pc[p] = "save"
    /\ DOMAIN work[p] = {}
    /\ unsettled' = (unsettled /\ (job[p].target # Tenant \/ p \in crossed))
    /\ Finish(p)
    /\ UNCHANGED <<storeVars, countVars>>

\* A read reports an error: Recompute returns it, and the handler, which has
\* done its write, logs or answers it.
ReadFails(p) ==
    /\ pc[p] \in {"listGroups", "listMembers"}
    /\ failures < MaxFailures
    /\ failures' = failures + 1
    /\ unsettled' = TRUE
    /\ Finish(p)
    /\ UNCHANGED <<storeVars, requests, reports, overlapped, crossed>>

Recompute(p) ==
    \/ ListGroups(p)
    \/ \E g \in Groups : ListGroupMembers(p, g)
    \/ ReadMachines(p) \/ MachineMissing(p) \/ ReadFails(p)
    \/ \E m \in Machines : Unchanged(p, m) \/ SaveMachine(p, m) \/ SaveMachineFails(p, m)
    \/ RecomputeDone(p)

------------------------------------------------------------------------------
(* Agents report at any time: SetStatus writes its own column only.         *)

handleStatus(m) ==
    /\ Exists(machine[m])
    /\ reports < MaxReports
    /\ reports' = reports + 1
    /\ \E s \in Statuses \ {machine[m].status} : machine' = [machine EXCEPT ![m].status = s]
    /\ UNCHANGED <<group, member, pc, job, copy, readVars, unsettled, requests, failures,
                   overlapped, crossed>>
    /\ saved' = Records'

------------------------------------------------------------------------------
(* The server is restarted: every request ends where it is, and the file   *)
(* store loads its file (Turso has what its statements wrote).  Nothing is  *)
(* recomputed when a server starts.                                        *)

Restart ==
    /\ failures < MaxFailures
    /\ failures' = failures + 1
    /\ (group' = saved[1] /\ member' = saved[2] /\ machine' = saved[3]) \/ UNCHANGED Records
    /\ saved' = Records'
    /\ pc' = [p \in Admins |-> "idle"]
    /\ job' = [p \in Admins |-> Empty]
    /\ copy' = [p \in Admins |-> Absent]
    /\ groupsRead' = [p \in Admins |-> Empty]
    /\ memberRead' = [p \in Admins |-> {}]
    /\ unread' = [p \in Admins |-> {}]
    /\ work' = [p \in Admins |-> Empty]
    /\ unsettled' = TRUE
    /\ UNCHANGED <<requests, reports, overlapped, crossed>>

Next ==
    \/ Restart
    \/ \E p \in Admins : Begin(p) \/ Write(p) \/ WriteFails(p) \/ Recompute(p)
    \/ \E m \in Machines : handleStatus(m)

Spec == Init /\ [][Next]_vars

------------------------------------------------------------------------------
(* Properties                                                               *)

Locals == {"idle", "write", "listGroups", "listMembers", "save"}

StoreOK ==
    /\ group \in [Groups -> GroupRecords \cup Gone]
    /\ member \subseteq Groups \X Machines
    /\ machine \in [Machines -> MachineRecords \cup Gone]

SavedOK == saved \in [Groups -> GroupRecords \cup Gone] \X (SUBSET (Groups \X Machines))
                        \X [Machines -> MachineRecords \cup Gone]

\* What a request that is about to write has in its hands.
WriteOK(p) ==
    LET j == job[p] IN
    /\ j.kind \in Kinds
    /\ j.kind = "saveGroup" => copy[p] \in GroupRecords
    /\ j.kind = "addMember" => j.g \in Groups /\ j.target \in Machines
    /\ j.kind \in {"saveMachine", "enroll"} =>
          j.target \in Machines /\ copy[p] \in MachineRecords

RequestOK(p) ==
    /\ pc[p] \in Locals
    /\ pc[p] # "idle" => job[p].target \in Machines \cup {Tenant}
    /\ pc[p] = "write" => WriteOK(p)
    /\ DOMAIN groupsRead[p] \subseteq Groups
    /\ \A g \in DOMAIN groupsRead[p] : groupsRead[p][g] \in GroupRecords
    /\ memberRead[p] \subseteq Groups \X Machines
    /\ unread[p] \subseteq Groups
    /\ DOMAIN work[p] \subseteq Machines
    /\ \A m \in DOMAIN work[p] : work[p][m] \in MachineRecords

TypeOK ==
    /\ StoreOK /\ SavedOK
    /\ pc = [p \in Admins |-> pc[p]] /\ job = [p \in Admins |-> job[p]]
    /\ copy = [p \in Admins |-> copy[p]] /\ groupsRead = [p \in Admins |-> groupsRead[p]]
    /\ memberRead = [p \in Admins |-> memberRead[p]]
    /\ unread = [p \in Admins |-> unread[p]] /\ work = [p \in Admins |-> work[p]]
    /\ \A p \in Admins : RequestOK(p)
    /\ overlapped \in BOOLEAN /\ unsettled \in BOOLEAN
    /\ crossed \subseteq Admins
    /\ {requests, reports, failures} \subseteq Nat

Idle == \A p \in Admins : pc[p] = "idle"

\* What groups.go promises of machine m, in the store as it is: a spec comes
\* from the override, or from a group m is a member of when no later-named
\* group it is a member of has the module too.
MemberOf(m, g) ==
    LET sel == group[g].selector
        named == {k \in Keys : sel[k] # Anything}
    IN  \/ group[g].all
        \/ <<g, m>> \in member
        \/ named # {} /\ \A k \in named : machine[m].labels[k] = sel[k]

Provides(m, n) == {g \in Groups : /\ Exists(group[g])
                                  /\ MemberOf(m, g)
                                  /\ group[g].modules[n] # NoSpec}

Promised(m, n) ==
    IF machine[m].override[n] # NoSpec THEN {machine[m].override[n]}
    ELSE IF Provides(m, n) = {} THEN {NoSpec}
    ELSE {group[g].modules[n] :
             g \in {h \in Provides(m, n) :
                       \A f \in Provides(m, n) : group[f].name <= group[h].name}}

\* When no request is under way, the desired state of every machine is what
\* its groups, labels and override give (groups.go: "a machine's effective
\* DesiredState is computed, never edited directly"), whichever request came
\* last; after a call of the store that failed (a read too), a restart or
\* requests that overlapped, each of which may leave a machine behind, from the
\* next tenant-wide Recompute on that runs alone.
Settled ==
    Idle /\ ~unsettled =>
        \A m \in Machines : Exists(machine[m]) =>
            machine[m].modules # Nil /\ \A n \in Names : machine[m].modules[n] \in Promised(m, n)

\* While no call of the store fails and the server is not restarted, requests
\* that overlap may leave a machine computed from groups that have changed
\* since, but never one whose own override is not applied (putDesired: "override
\* wins on name conflicts"): whichever copy of the record was written
\* last, some Recompute has read it afterwards.
OverridesWin ==
    Idle /\ failures = 0 =>
        \A m \in Machines : Exists(machine[m]) =>
            /\ machine[m].modules # Nil
            /\ \A n \in Names : machine[m].override[n] # NoSpec =>
                                    machine[m].modules[n] = machine[m].override[n]

\* As long as requests do not overlap, a machine that is deleted is in no
\* group and stays deleted (deleteMachine: "removes a machine and its
\* memberships"), through failing calls and restarts, once the file says so too.
DeletedIsGone ==
    [][\A m \in Machines : ~overlapped /\ machine[m] = Removed /\ saved[3][m] = Removed =>
          machine'[m] = Removed /\ \A x \in member' : x[2] # m]_vars

==============================================================================
