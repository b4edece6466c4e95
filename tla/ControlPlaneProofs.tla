-------------------------- MODULE ControlPlaneProofs --------------------------
(***************************************************************************)
(* For any number of machines, groups, labels, modules and requests at a   *)
(* time: the types, that overrides win, that a deleted machine is gone, and*)
(* that once settled every machine has what it is promised.                *)
(*                                                                         *)
(* OverridesWin speaks of moments without requests.  What holds always is  *)
(* that a machine whose override is not applied is owed a save: some       *)
(* request has still to read it, or has read it as it is (Covered).        *)
(* Settled is extended in the same way, to a request that runs alone and   *)
(* has still to compute a machine (Accounted) from what it has read        *)
(* (Faithful).                                                             *)
(***************************************************************************)
EXTENDS ControlPlane, FiniteSetTheorems, WellFoundedInduction, TLAPS

\* The override of a record is applied.
Wins(r) ==
    /\ r.modules # Nil
    /\ \A n \in Names : r.override[n] # NoSpec => r.modules[n] = r.override[n]

\* Request p has still to recompute machine m.
Owes(p, m) ==
    \/ pc[p] \in {"listGroups", "listMembers"} /\ job[p].target = m
    \/ /\ pc[p] = "save" /\ m \in DOMAIN work[p]
       /\ work[p][m].override = machine[m].override
       /\ work[p][m].modules = machine[m].modules

Covered ==
    failures = 0 =>
        \A m \in Machines : Exists(machine[m]) =>
            Wins(machine[m]) \/ \E p \in Admins : Owes(p, m)

------------------------------------------------------------------------------
(* The pure part.                                                           *)

LEMMA MaxExists ==
    ASSUME NEW N \in Nat, NEW S \in SUBSET (1..N), S # {}
    PROVE  \E x \in S : \A y \in S : y <= x
<1> DEFINE T == {N - x : x \in S}
<1> DEFINE R == {ss \in Nat \X Nat : ss[1] < ss[2]}
<1>1. T \subseteq Nat
  <2>1. \A x \in 1..N : N - x \in Nat
    OBVIOUS
  <2> QED
    BY <2>1
<1>2. T # {}
  <2>1. PICK x \in S : TRUE
    OBVIOUS
  <2>2. N - x \in T
    OBVIOUS
  <2> QED
    BY <2>2
<1>3. IsWellFoundedOn(R, Nat)
  <2>1. OpToRel(<, Nat) = R
    BY DEF OpToRel
  <2> QED
    BY <2>1, NatLessThanWellFounded
<1>4. PICK t \in T : \A u \in T : <<u, t>> \notin R
  <2> HIDE DEF T, R
  <2> QED
    BY <1>1, <1>2, <1>3, WFMin
<1>5. \A u \in T : ~(u < t)
  BY <1>1, <1>4
<1>6. PICK x \in S : t = N - x
  OBVIOUS
<1>7. \A y \in S : N - y \in T /\ y \in 1..N /\ x \in 1..N
  OBVIOUS
<1>8. \A y \in S : y <= x
  BY <1>5, <1>6, <1>7
<1> QED
  BY <1>8

\* An order leaves a last one among any groups.
LEMMA LastExists ==
    ASSUME NEW groups, IsFiniteSet(DOMAIN groups), NEW order \in Orders(groups),
           NEW providers \in SUBSET DOMAIN groups, providers # {},
           NEW last, last = CHOOSE g \in providers : \A h \in providers : order[h] <= order[g]
    PROVE  last \in providers /\ \A h \in providers : order[h] <= order[last]
<1>1. /\ Cardinality(DOMAIN groups) \in Nat
      /\ order \in [DOMAIN groups -> 1..Cardinality(DOMAIN groups)]
  BY FS_CardinalityType DEF Orders
<1> DEFINE S == {order[g] : g \in providers}
<1>2. S \in SUBSET (1..Cardinality(DOMAIN groups)) /\ S # {}
  BY <1>1
<1>3. PICK x \in S : \A y \in S : y <= x
  <2> HIDE DEF S
  <2> QED
    BY <1>1, <1>2, MaxExists
<1>4. PICK g \in providers : x = order[g]
  OBVIOUS
<1>5. \A h \in providers : order[h] <= order[g]
  BY <1>3, <1>4
<1> QED
  BY <1>4, <1>5

\* A list computed from lists is a list, with the override's specs.
LEMMA ComputedList ==
    ASSUME NEW override \in ModuleLists, NEW labels, NEW groups, NEW members,
           IsFiniteSet(DOMAIN groups),
           \A g \in DOMAIN groups : groups[g] \in GroupRecords,
           NEW order \in Orders(groups),
           NEW c, c = computeModules(override, labels, groups, members, order)
    PROVE  /\ c \in ModuleLists
           /\ \A n \in Names : override[n] # NoSpec => c[n] = override[n]
<1>1. ASSUME NEW n \in Names PROVE c[n] \in Specs \cup {NoSpec}
  <2> DEFINE providers == {g \in Memberships(groups, members, labels) :
                              groups[g].modules[n] # NoSpec}
  <2> DEFINE last == CHOOSE g \in providers : \A h \in providers : order[h] <= order[g]
  <2>1. c[n] = IF override[n] # NoSpec THEN override[n]
               ELSE IF providers = {} THEN NoSpec ELSE groups[last].modules[n]
    BY DEF computeModules
  <2>2. ASSUME providers # {} PROVE groups[last].modules[n] \in Specs \cup {NoSpec}
    <3>1. providers \subseteq DOMAIN groups
      BY DEF Memberships
    <3>2. last \in providers
      <4> HIDE DEF providers
      <4> QED
        BY <2>2, <3>1, LastExists
    <3>3. groups[last] \in GroupRecords
      BY <3>1, <3>2
    <3> QED
      BY <3>3 DEF GroupRecords, ModuleLists
  <2> QED
    BY <2>1, <2>2 DEF ModuleLists
<1>2. c = [n \in Names |-> c[n]]
  BY DEF computeModules
<1>3. \A n \in Names : override[n] # NoSpec => c[n] = override[n]
  BY DEF computeModules
<1>4. c \in ModuleLists
  BY <1>1, <1>2 DEF ModuleLists
<1> QED
  BY <1>3, <1>4

LEMMA ComputedWins ==
    ASSUME TypeOK, NEW p \in Admins, NEW m \in DOMAIN work[p], NEW next \in Computed(p, m)
    PROVE  /\ next \in ModuleLists /\ next # Nil
           /\ \A n \in Names : work[p][m].override[n] # NoSpec =>
                                   next[n] = work[p][m].override[n]
<1>1. /\ DOMAIN groupsRead[p] \subseteq Groups
      /\ \A g \in DOMAIN groupsRead[p] : groupsRead[p][g] \in GroupRecords
      /\ work[p][m].override \in ModuleLists
  BY DEF TypeOK, RequestOK, MachineRecords
<1>2. IsFiniteSet(DOMAIN groupsRead[p])
  BY <1>1, ControlPlaneAssumption, FS_Subset
<1>3. PICK order \in Orders(groupsRead[p]) :
          next = computeModules(work[p][m].override, work[p][m].labels, groupsRead[p],
                                {x[1] : x \in {y \in memberRead[p] : y[2] = m}}, order)
  BY DEF Computed
<1> QED
  BY <1>1, <1>2, <1>3, ComputedList, ControlPlaneAssumption

LEMMA ComputedRecord ==
    ASSUME TypeOK, NEW p \in Admins, NEW m \in DOMAIN work[p],
           NEW next \in Computed(p, m)
    PROVE  Updated(p, m, next) \in MachineRecords /\ Wins(Updated(p, m, next))
<1> DEFINE r == work[p][m]
<1>1. r \in MachineRecords
  BY DEF TypeOK, RequestOK
<1>2. /\ next \in ModuleLists /\ next # Nil
      /\ \A n \in Names : r.override[n] # NoSpec => next[n] = r.override[n]
  BY ComputedWins
<1>3. Updated(p, m, next) = [r EXCEPT !.modules = next, !.rev = @ + 1]
  BY DEF Updated
<1> HIDE DEF r
<1>4. /\ r.labels \in LabelSets /\ r.override \in ModuleLists /\ r.rev \in Nat
      /\ r.status \in Statuses \cup {NoStatus}
      /\ r = [labels |-> r.labels, override |-> r.override, modules |-> r.modules,
              rev |-> r.rev, status |-> r.status]
  BY <1>1 DEF MachineRecords
<1>5. Updated(p, m, next) = [labels |-> r.labels, override |-> r.override, modules |-> next,
                             rev |-> r.rev + 1, status |-> r.status]
  BY <1>3, <1>4
<1>6. /\ Updated(p, m, next).modules = next
      /\ Updated(p, m, next).override = r.override
      /\ Updated(p, m, next) \in MachineRecords
  BY <1>2, <1>4, <1>5 DEF MachineRecords
<1> QED
  BY <1>2, <1>6 DEF Wins

------------------------------------------------------------------------------
(* What the calls of the store and the end of a request change.             *)

LEMMA Applied ==
    ASSUME TypeOK, NEW p \in Admins, pc[p] = "write", Apply(p) \/ UNCHANGED Records
    PROVE  StoreOK'
<1>1. StoreOK /\ WriteOK(p)
  BY DEF TypeOK, RequestOK
<1>2. CASE UNCHANGED Records
  BY <1>1, <1>2 DEF StoreOK, Records
<1>3. CASE Apply(p)
  <2>1. CASE job[p].kind = "saveGroup"
    <3>1. /\ group' = [group EXCEPT ![job[p].g] = copy[p]]
          /\ UNCHANGED <<member, machine>> /\ copy[p] \in GroupRecords
      BY <1>1, <1>3, <2>1 DEF Apply, WriteOK
    <3> QED
      BY <1>1, <3>1 DEF StoreOK
  <2>2. CASE job[p].kind = "deleteGroup"
    <3>1. /\ group' = [group EXCEPT ![job[p].g] = Removed]
          /\ member' \subseteq member /\ UNCHANGED machine
      BY <1>3, <2>2 DEF Apply
    <3> QED
      BY <1>1, <3>1 DEF StoreOK, Gone
  <2>3. CASE job[p].kind = "addMember"
    <3>1. /\ member' = member \cup {<<job[p].g, job[p].target>>}
          /\ UNCHANGED <<group, machine>>
          /\ job[p].g \in Groups /\ job[p].target \in Machines
      BY <1>1, <1>3, <2>3 DEF Apply, WriteOK
    <3> QED
      BY <1>1, <3>1 DEF StoreOK
  <2>4. CASE job[p].kind = "removeMember"
    <3>1. member' \subseteq member /\ UNCHANGED <<group, machine>>
      BY <1>3, <2>4 DEF Apply
    <3> QED
      BY <1>1, <3>1 DEF StoreOK
  <2>5. CASE job[p].kind \in {"saveMachine", "enroll"}
    <3>1. /\ machine' = [machine EXCEPT ![job[p].target] = copy[p]]
          /\ UNCHANGED <<group, member>> /\ copy[p] \in MachineRecords
      BY <1>1, <1>3, <2>5 DEF Apply, WriteOK
    <3> QED
      BY <1>1, <3>1 DEF StoreOK
  <2>6. CASE job[p].kind = "deleteMachine"
    <3>1. /\ machine' = [machine EXCEPT ![job[p].target] = Removed]
          /\ member' \subseteq member /\ UNCHANGED group
      BY <1>3, <2>6 DEF Apply
    <3> QED
      BY <1>1, <3>1 DEF StoreOK, Gone
  <2> QED
    BY <1>1, <2>1, <2>2, <2>3, <2>4, <2>5, <2>6 DEF WriteOK, Kinds
<1> QED
  BY <1>2, <1>3

\* Only the variables of request p change, and those of the store.
OnlyOf(p) ==
    /\ pc' = [pc EXCEPT ![p] = pc'[p]] /\ job' = [job EXCEPT ![p] = job'[p]]
    /\ copy' = [copy EXCEPT ![p] = copy'[p]]
    /\ groupsRead' = [groupsRead EXCEPT ![p] = groupsRead'[p]]
    /\ memberRead' = [memberRead EXCEPT ![p] = memberRead'[p]]
    /\ unread' = [unread EXCEPT ![p] = unread'[p]]
    /\ work' = [work EXCEPT ![p] = work'[p]]

LEMMA Typed ==
    ASSUME TypeOK, NEW p \in Admins, OnlyOf(p), RequestOK(p)', StoreOK', SavedOK',
           overlapped' \in BOOLEAN, unsettled' \in BOOLEAN, crossed' \subseteq Admins,
           {requests', reports', failures'} \subseteq Nat
    PROVE  TypeOK'
<1>1. /\ pc' = [q \in Admins |-> pc'[q]] /\ job' = [q \in Admins |-> job'[q]]
      /\ copy' = [q \in Admins |-> copy'[q]]
      /\ groupsRead' = [q \in Admins |-> groupsRead'[q]]
      /\ memberRead' = [q \in Admins |-> memberRead'[q]]
      /\ unread' = [q \in Admins |-> unread'[q]] /\ work' = [q \in Admins |-> work'[q]]
  BY DEF TypeOK, OnlyOf
<1>2. \A q \in Admins \ {p} :
          /\ pc'[q] = pc[q] /\ job'[q] = job[q] /\ copy'[q] = copy[q]
          /\ groupsRead'[q] = groupsRead[q] /\ memberRead'[q] = memberRead[q]
          /\ unread'[q] = unread[q] /\ work'[q] = work[q]
  BY DEF TypeOK, OnlyOf
<1>3. \A q \in Admins : RequestOK(q)'
  BY <1>2 DEF TypeOK, RequestOK, WriteOK
<1> QED
  BY <1>1, <1>3 DEF TypeOK

\* The file holds what the store held once.
LEMMA SavedTyped ==
    ASSUME SavedOK, StoreOK', saved' = saved \/ saved' = Records'
    PROVE  SavedOK'
BY DEF SavedOK, StoreOK, Records

\* The request is over.
LEMMA Over ==
    ASSUME TypeOK, NEW p \in Admins, Finish(p)
    PROVE  OnlyOf(p) /\ RequestOK(p)'
<1>1. /\ pc'[p] = "idle" /\ groupsRead'[p] = Empty /\ memberRead'[p] = {}
      /\ unread'[p] = {} /\ work'[p] = Empty
  BY DEF Finish, TypeOK
<1>2. OnlyOf(p)
  BY DEF Finish, TypeOK, OnlyOf
<1>3. DOMAIN Empty = {} /\ "idle" \in Locals /\ "idle" # "write"
  BY DEF Empty, Locals
<1>4. RequestOK(p)'
  BY <1>1, <1>3 DEF RequestOK
<1> QED
  BY <1>2, <1>4

\* The record a request sets out to write.
LEMMA Accepted ==
    ASSUME TypeOK, NEW p \in Admins, Begin(p)
    PROVE  \E what, record :
              /\ Accept(p, what, record)
              /\ what.kind \in Kinds /\ what.target \in Machines \cup {Tenant}
              /\ what.kind = "saveGroup" => record \in GroupRecords
              /\ what.kind \in {"saveGroup", "deleteGroup"} => what.target = Tenant
              /\ what.kind = "addMember" => what.g \in Groups /\ what.target \in Machines
              /\ what.kind \in {"saveMachine", "enroll"} =>
                    what.target \in Machines /\ record \in MachineRecords
              /\ what.kind \in {"addMember", "saveMachine"} => Exists(machine[what.target])
              /\ what.kind = "enroll" => machine[what.target] = Absent
<1> DEFINE Fine(what, record) ==
              /\ Accept(p, what, record)
              /\ what.kind \in Kinds /\ what.target \in Machines \cup {Tenant}
              /\ what.kind = "saveGroup" => record \in GroupRecords
              /\ what.kind \in {"saveGroup", "deleteGroup"} => what.target = Tenant
              /\ what.kind = "addMember" => what.g \in Groups /\ what.target \in Machines
              /\ what.kind \in {"saveMachine", "enroll"} =>
                    what.target \in Machines /\ record \in MachineRecords
              /\ what.kind \in {"addMember", "saveMachine"} => Exists(machine[what.target])
              /\ what.kind = "enroll" => machine[what.target] = Absent
<1> SUFFICES \E what, record : Fine(what, record)
  OBVIOUS
<1>0. /\ \A m \in Machines : Exists(machine[m]) => machine[m] \in MachineRecords
      /\ \A g \in Groups : Exists(group[g]) => group[g] \in GroupRecords
  BY DEF TypeOK, StoreOK, Exists
<1>1. ASSUME NEW g \in Groups, createGroup(p, g) PROVE \E what, record : Fine(what, record)
  <2>1. PICK s \in Shapes : Accept(p, [kind |-> "saveGroup", g |-> g, target |-> Tenant], s)
    BY <1>1 DEF createGroup
  <2>2. Fine([kind |-> "saveGroup", g |-> g, target |-> Tenant], s)
    BY <2>1, ControlPlaneAssumption DEF Kinds
  <2> QED
    BY <2>2
<1>2. ASSUME NEW g \in Groups, updateGroup(p, g) PROVE \E what, record : Fine(what, record)
  <2>0. PICK s \in Shapes :
           \E name \in {s.name, group[g].name}, selector \in {s.selector, group[g].selector},
              modules \in {s.modules, group[g].modules} :
                 Accept(p, [kind |-> "saveGroup", g |-> g, target |-> Tenant],
                        [group[g] EXCEPT !.name = name, !.selector = selector,
                                         !.modules = modules])
    BY <1>2 DEF updateGroup
  <2>1. PICK name \in {s.name, group[g].name},
             selector \in {s.selector, group[g].selector},
             modules \in {s.modules, group[g].modules} :
           Accept(p, [kind |-> "saveGroup", g |-> g, target |-> Tenant],
                  [group[g] EXCEPT !.name = name, !.selector = selector, !.modules = modules])
    BY <2>0
  <2>2. s \in GroupRecords /\ group[g] \in GroupRecords
    BY <1>0, <1>2, ControlPlaneAssumption DEF updateGroup
  <2>3. [group[g] EXCEPT !.name = name, !.selector = selector, !.modules = modules]
            \in GroupRecords
    BY <2>2 DEF GroupRecords
  <2>4. Fine([kind |-> "saveGroup", g |-> g, target |-> Tenant],
             [group[g] EXCEPT !.name = name, !.selector = selector, !.modules = modules])
    BY <2>1, <2>3 DEF Kinds
  <2> QED
    BY <2>4
<1>3. ASSUME NEW g \in Groups, deleteGroup(p, g) PROVE \E what, record : Fine(what, record)
  <2>1. Fine([kind |-> "deleteGroup", g |-> g, target |-> Tenant], Removed)
    BY <1>3 DEF deleteGroup, Kinds
  <2> QED
    BY <2>1
<1>4. ASSUME NEW g \in Groups, NEW m \in Machines,
             addGroupMember(p, g, m) \/ removeGroupMember(p, g, m)
      PROVE  \E what, record : Fine(what, record)
  <2>1. \/ Fine([kind |-> "addMember", g |-> g, target |-> m], Absent)
        \/ Fine([kind |-> "removeMember", g |-> g, target |-> m], Absent)
    BY <1>4 DEF addGroupMember, removeGroupMember, Kinds
  <2> QED
    BY <2>1
<1>5. ASSUME NEW m \in Machines, putLabels(p, m) PROVE \E what, record : Fine(what, record)
  <2>1. PICK l \in LabelSets : Accept(p, [kind |-> "saveMachine", target |-> m],
                                      [machine[m] EXCEPT !.labels = l])
    BY <1>5 DEF putLabels
  <2>2. Exists(machine[m]) /\ machine[m] \in MachineRecords
    BY <1>0, <1>5 DEF putLabels
  <2>3. [machine[m] EXCEPT !.labels = l] \in MachineRecords
    BY <2>2 DEF MachineRecords
  <2>4. Fine([kind |-> "saveMachine", target |-> m], [machine[m] EXCEPT !.labels = l])
    BY <2>1, <2>2, <2>3 DEF Kinds
  <2> QED
    BY <2>4
<1>6. ASSUME NEW m \in Machines, putDesired(p, m) PROVE \E what, record : Fine(what, record)
  <2>1. PICK o \in ModuleLists : Accept(p, [kind |-> "saveMachine", target |-> m],
                                        [machine[m] EXCEPT !.override = o])
    BY <1>6 DEF putDesired
  <2>2. Exists(machine[m]) /\ machine[m] \in MachineRecords
    BY <1>0, <1>6 DEF putDesired
  <2>3. [machine[m] EXCEPT !.override = o] \in MachineRecords
    BY <2>2 DEF MachineRecords
  <2>4. Fine([kind |-> "saveMachine", target |-> m], [machine[m] EXCEPT !.override = o])
    BY <2>1, <2>2, <2>3 DEF Kinds
  <2> QED
    BY <2>4
<1>7. ASSUME NEW m \in Machines, handleEnroll(p, m) PROVE \E what, record : Fine(what, record)
  <2>1. PICK l \in LabelSets :
           Accept(p, [kind |-> "enroll", target |-> m],
                  [labels |-> l, override |-> NoModules, modules |-> Nil, rev |-> 0,
                   status |-> NoStatus])
    BY <1>7 DEF handleEnroll
  <2>2. [labels |-> l, override |-> NoModules, modules |-> Nil, rev |-> 0,
         status |-> NoStatus] \in MachineRecords
    BY DEF MachineRecords, NoModules, ModuleLists
  <2>3. Fine([kind |-> "enroll", target |-> m],
             [labels |-> l, override |-> NoModules, modules |-> Nil, rev |-> 0,
              status |-> NoStatus])
    BY <1>7, <2>1, <2>2 DEF Kinds, handleEnroll
  <2> QED
    BY <2>3
<1>8. ASSUME NEW m \in Machines, deleteMachine(p, m) PROVE \E what, record : Fine(what, record)
  <2>1. Fine([kind |-> "deleteMachine", target |-> m], Removed)
    BY <1>8 DEF deleteMachine, Kinds
  <2> QED
    BY <2>1
<1> QED
  BY <1>1, <1>2, <1>3, <1>4, <1>5, <1>6, <1>7, <1>8 DEF Begin

------------------------------------------------------------------------------
(* Types.                                                                   *)

LEMMA InitTyped == Init => TypeOK
<1> SUFFICES ASSUME Init PROVE TypeOK
  OBVIOUS
<1>1. PICK all \in {s \in Shapes : s.all} :
         group = [g \in Groups |-> IF g = 1 THEN all ELSE Absent]
  BY DEF Init
<1>2. StoreOK
  BY <1>1, ControlPlaneAssumption DEF Gone, Init, StoreOK
<1>9. SavedOK
  BY <1>2 DEF Init, StoreOK, SavedOK, Records
<1>3. DOMAIN Empty = {} /\ "idle" \in Locals /\ "idle" # "write"
  BY DEF Empty, Locals
<1>4. ASSUME NEW p \in Admins PROVE RequestOK(p)
  BY <1>3 DEF Init, RequestOK
<1>5. /\ pc = [p \in Admins |-> pc[p]] /\ job = [p \in Admins |-> job[p]]
      /\ copy = [p \in Admins |-> copy[p]] /\ groupsRead = [p \in Admins |-> groupsRead[p]]
      /\ memberRead = [p \in Admins |-> memberRead[p]]
      /\ unread = [p \in Admins |-> unread[p]] /\ work = [p \in Admins |-> work[p]]
  BY DEF Init
<1>6. /\ overlapped = FALSE /\ unsettled = FALSE /\ crossed = {}
      /\ requests = 0 /\ reports = 0 /\ failures = 0
  BY DEF Init
<1>7. overlapped \in BOOLEAN /\ unsettled \in BOOLEAN
  BY <1>6
<1>8. crossed \subseteq Admins /\ {requests, reports, failures} \subseteq Nat
  BY <1>6
<1> QED
  BY <1>2, <1>4, <1>5, <1>7, <1>8, <1>9 DEF TypeOK

\* The new record of a machine that a status was reported for.
LEMMA Reported ==
    ASSUME TypeOK, NEW m \in Machines, handleStatus(m)
    PROVE  /\ machine' \in [Machines -> MachineRecords \cup Gone]
           /\ \A k \in Machines : /\ Exists(machine[k]) <=> Exists(machine'[k])
                                  /\ ~Exists(machine[k]) => machine'[k] = machine[k]
                                  /\ Exists(machine[k]) =>
                                        /\ machine'[k].labels = machine[k].labels
                                        /\ machine'[k].override = machine[k].override
                                        /\ machine'[k].modules = machine[k].modules
<1> DEFINE r == machine[m]
<1>1. r \in MachineRecords /\ Exists(r)
  BY DEF handleStatus, TypeOK, StoreOK, Exists
<1>2. PICK s \in Statuses : machine' = [machine EXCEPT ![m] = [r EXCEPT !.status = s]]
  BY DEF handleStatus
<1>3. /\ [r EXCEPT !.status = s] \in MachineRecords
      /\ [r EXCEPT !.status = s].labels = r.labels
      /\ [r EXCEPT !.status = s].override = r.override
      /\ [r EXCEPT !.status = s].modules = r.modules
  <2> HIDE DEF r
  <2> QED
    BY <1>1 DEF MachineRecords
<1>4. \A x \in MachineRecords : Exists(x)
  BY ControlPlaneAssumption DEF Exists
<1> QED
  BY <1>1, <1>2, <1>3, <1>4 DEF TypeOK, StoreOK


\* What one call of Recompute does to the request that makes it.
LEMMA RecomputeTyped ==
    ASSUME TypeOK, NEW p \in Admins, Recompute(p)
    PROVE  OnlyOf(p) /\ RequestOK(p)' /\ StoreOK' /\ SavedOK'
<1>8. saved' = saved \/ saved' = Records'
  BY DEF Recompute, ListGroups, ListGroupMembers, ReadMachines, MachineMissing, ReadFails,
         Unchanged, SaveMachine, SaveMachineFails, RecomputeDone, storeVars
<1>9. SUFFICES OnlyOf(p) /\ RequestOK(p)' /\ StoreOK'
  BY <1>8, SavedTyped DEF TypeOK
<1>0. StoreOK /\ RequestOK(p)
  BY DEF TypeOK
<1>1. CASE ListGroups(p)
  <2> DEFINE listed == {g \in Groups : Exists(group[g])}
  <2>1. /\ groupsRead'[p] = [g \in listed |-> group[g]] /\ unread'[p] = listed
        /\ pc[p] = "listGroups" /\ pc'[p] = "listMembers"
        /\ UNCHANGED <<group, member, machine, job, memberRead, work>>
    BY <1>1 DEF ListGroups, TypeOK, storeVars
  <2>2. OnlyOf(p)
    BY <1>1 DEF ListGroups, TypeOK, OnlyOf
  <2>3. RequestOK(p)'
    BY <1>0, <2>1 DEF RequestOK, StoreOK, Exists, Locals
  <2> QED
    BY <1>0, <2>1, <2>2, <2>3 DEF StoreOK
<1>2. ASSUME NEW g \in Groups, ListGroupMembers(p, g)
      PROVE  OnlyOf(p) /\ RequestOK(p)' /\ StoreOK'
  <2>1. /\ memberRead'[p] = memberRead[p] \cup {x \in member : x[1] = g}
        /\ unread'[p] = unread[p] \ {g} /\ pc[p] # "write"
        /\ UNCHANGED <<group, member, machine, pc, job, groupsRead, work>>
    BY <1>2 DEF ListGroupMembers, TypeOK, storeVars
  <2>2. OnlyOf(p)
    BY <1>2 DEF ListGroupMembers, TypeOK, OnlyOf
  <2>3. RequestOK(p)'
    BY <1>0, <2>1 DEF RequestOK, StoreOK
  <2> QED
    BY <1>0, <2>1, <2>2, <2>3 DEF StoreOK
<1>3. CASE ReadMachines(p)
  <2> DEFINE wanted == IF job[p].target = Tenant THEN {m \in Machines : Exists(machine[m])}
                                                 ELSE {job[p].target}
  <2>1. /\ work'[p] = [m \in wanted |-> machine[m]]
        /\ \A m \in wanted : Exists(machine[m])
        /\ pc[p] = "listMembers" /\ pc'[p] = "save"
        /\ UNCHANGED <<group, member, machine, job, groupsRead, memberRead, unread>>
    BY <1>3 DEF ReadMachines, TypeOK, storeVars
  <2>2. OnlyOf(p)
    BY <1>3 DEF ReadMachines, TypeOK, OnlyOf
  <2>3. wanted \subseteq Machines
    BY <1>0, <2>1 DEF RequestOK
  <2>4. \A m \in wanted : machine[m] \in MachineRecords
    BY <1>0, <2>1, <2>3 DEF StoreOK, Exists
  <2> HIDE DEF wanted
  <2>5. RequestOK(p)'
    BY <1>0, <2>1, <2>3, <2>4 DEF RequestOK, Locals
  <2> QED
    BY <1>0, <2>1, <2>2, <2>5 DEF StoreOK
<1>4. CASE MachineMissing(p)
  BY <1>0, <1>4, Over DEF MachineMissing, storeVars, StoreOK
<1>5. ASSUME NEW m \in Machines, Unchanged(p, m) \/ SaveMachine(p, m)
      PROVE  OnlyOf(p) /\ RequestOK(p)' /\ StoreOK'
  <2>1. /\ work'[p] = [n \in DOMAIN work[p] \ {m} |-> work[p][n]]
        /\ m \in DOMAIN work[p] /\ pc[p] = "save"
        /\ UNCHANGED <<group, member, pc, job, groupsRead, memberRead, unread>>
    BY <1>5 DEF Unchanged, SaveMachine, Handled, TypeOK, storeVars
  <2>2. OnlyOf(p)
    BY <1>5 DEF Unchanged, SaveMachine, Handled, TypeOK, OnlyOf
  <2>3. RequestOK(p)'
    BY <1>0, <2>1 DEF RequestOK
  <2>4. machine' \in [Machines -> MachineRecords \cup Gone]
    <3>1. CASE UNCHANGED machine
      BY <1>0, <3>1 DEF StoreOK
    <3>2. ASSUME NEW next \in Computed(p, m),
                 machine' = [machine EXCEPT ![m] = Updated(p, m, next)]
          PROVE  machine' \in [Machines -> MachineRecords \cup Gone]
      BY <1>0, <2>1, <3>2, ComputedRecord DEF StoreOK
    <3> QED
      BY <1>5, <3>1, <3>2 DEF Unchanged, SaveMachine, storeVars
  <2> QED
    BY <1>0, <2>1, <2>2, <2>3, <2>4 DEF StoreOK
<1>6. ASSUME NEW m \in Machines, SaveMachineFails(p, m)
      PROVE  OnlyOf(p) /\ RequestOK(p)' /\ StoreOK'
  <2>1. PICK next \in Computed(p, m) :
           machine' \in {machine, [machine EXCEPT ![m] = Updated(p, m, next)]}
    BY <1>6 DEF SaveMachineFails
  <2>2. Updated(p, m, next) \in MachineRecords
    BY <1>6, ComputedRecord DEF SaveMachineFails
  <2>3. StoreOK'
    BY <1>0, <1>6, <2>1, <2>2 DEF SaveMachineFails, StoreOK
  <2> QED
    BY <1>6, <2>3, Over DEF SaveMachineFails
<1>7. CASE RecomputeDone(p) \/ ReadFails(p)
  <2>1. Finish(p) /\ UNCHANGED storeVars
    BY <1>7 DEF RecomputeDone, ReadFails
  <2> QED
    BY <1>0, <2>1, Over DEF storeVars, StoreOK
<1> QED
  BY <1>1, <1>2, <1>3, <1>4, <1>5, <1>6, <1>7 DEF Recompute

\* What a request that is accepted, writes or fails to write does.
LEMMA HandlerTyped ==
    ASSUME TypeOK, NEW p \in Admins, Begin(p) \/ Write(p) \/ WriteFails(p)
    PROVE  OnlyOf(p) /\ RequestOK(p)' /\ StoreOK' /\ SavedOK'
<1>4. saved' = saved \/ saved' = Records'
  <2>1. ASSUME Begin(p) PROVE saved' = saved
    BY <2>1, Accepted DEF Accept, storeVars
  <2> QED
    BY <2>1 DEF Write, WriteFails
<1>5. SUFFICES OnlyOf(p) /\ RequestOK(p)' /\ StoreOK'
  BY <1>4, SavedTyped DEF TypeOK
<1>0. StoreOK /\ RequestOK(p)
  BY DEF TypeOK
<1>1. CASE Begin(p)
  <2>1. PICK what, record :
           /\ Accept(p, what, record)
           /\ what.kind \in Kinds /\ what.target \in Machines \cup {Tenant}
           /\ what.kind = "saveGroup" => record \in GroupRecords
           /\ what.kind = "addMember" => what.g \in Groups /\ what.target \in Machines
           /\ what.kind \in {"saveMachine", "enroll"} =>
                 what.target \in Machines /\ record \in MachineRecords
    BY <1>1, Accepted
  <2>2. /\ pc'[p] = "write" /\ job'[p] = what /\ copy'[p] = record
        /\ UNCHANGED <<group, member, machine, groupsRead, memberRead, unread, work>>
    BY <2>1 DEF Accept, storeVars, readVars, TypeOK
  <2>3. OnlyOf(p)
    BY <2>1 DEF Accept, readVars, TypeOK, OnlyOf
  <2>4. WriteOK(p)'
    BY <2>1, <2>2 DEF WriteOK
  <2>5. RequestOK(p)'
    BY <1>0, <2>1, <2>2, <2>4 DEF RequestOK, Locals
  <2> QED
    BY <1>0, <2>2, <2>3, <2>5 DEF StoreOK
<1>2. CASE Write(p)
  <2>1. StoreOK'
    BY <1>2, Applied DEF Write
  <2>2. CASE Finish(p)
    BY <2>1, <2>2, Over
  <2>3. CASE /\ pc' = [pc EXCEPT ![p] = "listGroups"]
             /\ copy' = [copy EXCEPT ![p] = Absent]
             /\ UNCHANGED <<job, readVars>>
    <3>1. OnlyOf(p)
      BY <2>3 DEF OnlyOf, TypeOK, readVars
    <3>2. pc'[p] = "listGroups" /\ pc[p] # "idle"
      BY <1>2, <2>3 DEF TypeOK, Write
    <3>3. RequestOK(p)'
      BY <1>0, <2>3, <3>2 DEF RequestOK, Locals, readVars
    <3> QED
      BY <2>1, <3>1, <3>3
  <2> QED
    BY <1>2, <2>2, <2>3 DEF Write
<1>3. CASE WriteFails(p)
  BY <1>3, Applied, Over DEF WriteFails
<1> QED
  BY <1>1, <1>2, <1>3

LEMMA NextTyped == TypeOK /\ [Next]_vars => TypeOK'
<1> SUFFICES ASSUME TypeOK, [Next]_vars PROVE TypeOK'
  OBVIOUS
<1>1. CASE UNCHANGED vars
  BY <1>1 DEF vars, TypeOK, StoreOK, SavedOK, RequestOK, WriteOK
<1>2. ASSUME NEW p \in Admins, Begin(p) \/ Write(p) \/ WriteFails(p) \/ Recompute(p)
      PROVE  TypeOK'
  <2>1. OnlyOf(p) /\ RequestOK(p)' /\ StoreOK' /\ SavedOK'
    BY <1>2, HandlerTyped, RecomputeTyped
  <2>2. /\ overlapped' \in BOOLEAN /\ unsettled' \in BOOLEAN /\ crossed' \subseteq Admins
        /\ {requests', reports', failures'} \subseteq Nat
    <3>0. /\ overlapped \in BOOLEAN /\ unsettled \in BOOLEAN /\ crossed \subseteq Admins
          /\ requests \in Nat /\ reports \in Nat /\ failures \in Nat
      BY DEF TypeOK
    <3>1. CASE Begin(p)
      <4>1. PICK what, record : Accept(p, what, record)
        BY <3>1, Accepted
      <4> QED
        BY <3>0, <4>1 DEF Accept
    <3>2. CASE Write(p) \/ WriteFails(p)
      <4>1. /\ UNCHANGED <<requests, reports, overlapped, crossed>>
            /\ failures' = failures \/ failures' = failures + 1
        BY <3>2 DEF Write, WriteFails, countVars
      <4>2. UNCHANGED unsettled \/ unsettled' = TRUE
        BY <3>2 DEF Write, WriteFails
      <4>3. overlapped' \in BOOLEAN /\ unsettled' \in BOOLEAN
        BY <3>0, <4>1, <4>2
      <4> QED
        BY <3>0, <4>1, <4>3
    <3>3. CASE Recompute(p)
      <4>1. CASE UNCHANGED <<unsettled, countVars>>
        BY <3>0, <4>1 DEF countVars
      <4>2. CASE ReadFails(p) \/ \E m \in Machines : SaveMachineFails(p, m)
        <5>1. /\ failures' = failures + 1
              /\ UNCHANGED <<requests, reports, overlapped, crossed>>
          BY <4>2 DEF ReadFails, SaveMachineFails
        <5>2. unsettled' \in BOOLEAN
          BY <4>2 DEF ReadFails, SaveMachineFails
        <5> QED
          BY <3>0, <5>1, <5>2
      <4>3. CASE RecomputeDone(p)
        <5>1. UNCHANGED countVars /\ unsettled' \in BOOLEAN
          BY <4>3 DEF RecomputeDone
        <5> QED
          BY <3>0, <5>1 DEF countVars
      <4>4. \/ UNCHANGED <<unsettled, countVars>> \/ RecomputeDone(p) \/ ReadFails(p)
            \/ \E m \in Machines : SaveMachineFails(p, m)
        BY <3>3 DEF Recompute, ListGroups, ListGroupMembers, ReadMachines, MachineMissing,
                    Unchanged, SaveMachine
      <4> QED
        BY <4>1, <4>2, <4>3, <4>4
    <3> QED
      BY <1>2, <3>1, <3>2, <3>3
  <2> QED
    BY <2>1, <2>2, Typed
<1>3. ASSUME NEW m \in Machines, handleStatus(m) PROVE TypeOK'
  <2>0. reports \in Nat
    BY DEF TypeOK
  <2>4. machine' \in [Machines -> MachineRecords \cup Gone]
    BY <1>3, Reported
  <2>5. reports' \in Nat
    BY <1>3, <2>0 DEF handleStatus
  <2>6. UNCHANGED <<group, member, pc, job, copy, groupsRead, memberRead, unread, work,
                    unsettled, requests, failures, overlapped, crossed>>
    BY <1>3 DEF handleStatus, readVars
  <2>1. /\ machine' \in [Machines -> MachineRecords \cup Gone] /\ reports' \in Nat
        /\ UNCHANGED <<group, member, pc, job, copy, groupsRead, memberRead, unread, work,
                       unsettled, requests, failures, overlapped, crossed>>
    BY <2>4, <2>5, <2>6
  <2>2. \A p \in Admins : RequestOK(p)'
    BY <2>1 DEF TypeOK, RequestOK, WriteOK
  <2>3. StoreOK'
    BY <2>1 DEF TypeOK, StoreOK
  <2>7. SavedOK'
    BY <1>3, <2>3, SavedTyped DEF handleStatus, TypeOK
  <2> QED
    BY <2>1, <2>2, <2>3, <2>7 DEF TypeOK
<1>4. CASE Restart
  <2>1. StoreOK'
    BY <1>4 DEF Restart, TypeOK, StoreOK, SavedOK, Records
  <2>2. SavedOK'
    BY <1>4, <2>1, SavedTyped DEF Restart, TypeOK
  <2>3. DOMAIN Empty = {} /\ "idle" \in Locals /\ "idle" # "write"
    BY DEF Empty, Locals
  <2>4. /\ pc' = [p \in Admins |-> "idle"] /\ job' = [p \in Admins |-> Empty]
        /\ copy' = [p \in Admins |-> Absent] /\ groupsRead' = [p \in Admins |-> Empty]
        /\ memberRead' = [p \in Admins |-> {}] /\ unread' = [p \in Admins |-> {}]
        /\ work' = [p \in Admins |-> Empty]
    BY <1>4 DEF Restart
  <2>5. /\ pc' = [p \in Admins |-> pc'[p]] /\ job' = [p \in Admins |-> job'[p]]
        /\ copy' = [p \in Admins |-> copy'[p]]
        /\ groupsRead' = [p \in Admins |-> groupsRead'[p]]
        /\ memberRead' = [p \in Admins |-> memberRead'[p]]
        /\ unread' = [p \in Admins |-> unread'[p]] /\ work' = [p \in Admins |-> work'[p]]
    BY <2>4
  <2>6. ASSUME NEW p \in Admins PROVE RequestOK(p)'
    BY <2>3, <2>4 DEF RequestOK
  <2>7. /\ unsettled' = TRUE /\ failures' = failures + 1
        /\ UNCHANGED <<requests, reports, overlapped, crossed>>
    BY <1>4 DEF Restart
  <2>8. /\ overlapped' \in BOOLEAN /\ unsettled' \in BOOLEAN /\ crossed' \subseteq Admins
        /\ {requests', reports', failures'} \subseteq Nat
    <3>1. /\ overlapped \in BOOLEAN /\ crossed \subseteq Admins
          /\ requests \in Nat /\ reports \in Nat /\ failures \in Nat
      BY DEF TypeOK
    <3> QED
      BY <2>7, <3>1
  <2> QED
    BY <2>1, <2>2, <2>5, <2>6, <2>8 DEF TypeOK
<1> QED
  BY <1>1, <1>2, <1>3, <1>4 DEF Next

THEOREM TypeCorrect == Spec => []TypeOK
  BY InitTyped, NextTyped, PTL DEF Spec

------------------------------------------------------------------------------
(* Overrides win.                                                           *)

\* A request leaves alone what the others owe, on machines it does not touch.
LEMMA OthersOwe ==
    ASSUME TypeOK, NEW p \in Admins, OnlyOf(p), NEW q \in Admins \ {p}, NEW m \in Machines,
           Owes(q, m), machine'[m] = machine[m]
    PROVE  Owes(q, m)'
<1>1. pc'[q] = pc[q] /\ job'[q] = job[q] /\ work'[q] = work[q]
  BY DEF TypeOK, OnlyOf
<1> QED
  BY <1>1 DEF Owes

LEMMA CoveredStep == TypeOK /\ Covered /\ [Next]_vars => Covered'
<1> SUFFICES ASSUME TypeOK, Covered, [Next]_vars, failures' = 0,
                    NEW m \in Machines, Exists(machine'[m])
             PROVE  Wins(machine'[m]) \/ \E p \in Admins : Owes(p, m)'
  BY DEF Covered
<1> DEFINE Fine == Wins(machine'[m]) \/ \E p \in Admins : Owes(p, m)'
<1>0. /\ StoreOK /\ \A p \in Admins : RequestOK(p)
      /\ failures \in Nat
  BY DEF TypeOK
<1>1. ASSUME failures' = failures
      PROVE  Exists(machine[m]) => Wins(machine[m]) \/ \E p \in Admins : Owes(p, m)
  BY <1>1 DEF Covered
<1>2. CASE UNCHANGED vars
  BY <1>1, <1>2 DEF vars, Owes
<1>3. ASSUME NEW p \in Admins, Begin(p) PROVE Fine
  <2>1. PICK what, record : Accept(p, what, record)
    BY <1>3, Accepted
  <2>2. machine' = machine /\ failures' = failures /\ pc[p] = "idle"
    BY <2>1 DEF Accept, storeVars
  <2>3. OnlyOf(p) /\ ~Owes(p, m)
    BY <1>3, <2>2, HandlerTyped DEF Owes
  <2> QED
    BY <1>1, <2>2, <2>3, OthersOwe
<1>4. ASSUME NEW p \in Admins, Write(p) PROVE Fine
  <2>1. OnlyOf(p) /\ ~Owes(p, m) /\ failures' = failures /\ WriteOK(p)
    BY <1>0, <1>4, HandlerTyped DEF Write, Owes, countVars, RequestOK
  <2>2. CASE machine'[m] = machine[m]
    BY <1>1, <2>1, <2>2, OthersOwe
  <2>3. CASE machine'[m] # machine[m]
    <3>1. /\ job[p].kind \in {"saveMachine", "enroll", "deleteMachine"}
          /\ job[p].target = m
          /\ job[p].kind = "deleteMachine" => machine'[m] = Removed
      BY <1>0, <1>4, <2>1, <2>3 DEF Write, Apply, WriteOK, Kinds, StoreOK
    <3>2. job[p].kind # "deleteMachine"
      BY <3>1 DEF Exists, Gone
    <3>3. pc'[p] = "listGroups" /\ job'[p].target = m
      BY <1>4, <3>1, <3>2 DEF Write, TypeOK
    <3> QED
      BY <3>3 DEF Owes
  <2> QED
    BY <2>2, <2>3
<1>5. ASSUME NEW p \in Admins, WriteFails(p) PROVE Fine
  BY <1>0, <1>5 DEF WriteFails
<1>6. ASSUME NEW p \in Admins, Recompute(p) PROVE Fine
  <2>0. OnlyOf(p)
    BY <1>6, RecomputeTyped
  <2>1. CASE ListGroups(p) \/ \E g \in Groups : ListGroupMembers(p, g)
    <3>1. /\ machine' = machine /\ failures' = failures
          /\ pc[p] \in {"listGroups", "listMembers"} /\ pc'[p] = "listMembers"
          /\ job'[p] = job[p]
      BY <2>1 DEF ListGroups, ListGroupMembers, TypeOK, storeVars, countVars
    <3>2. Owes(p, m) => Owes(p, m)'
      BY <3>1 DEF Owes
    <3> QED
      BY <1>1, <2>0, <3>1, <3>2, OthersOwe
  <2>2. CASE ReadMachines(p)
    <3>1. /\ machine' = machine /\ failures' = failures
          /\ pc[p] = "listMembers" /\ pc'[p] = "save"
          /\ job[p].target = m => work'[p] = [k \in {m} |-> machine[k]]
      BY <2>2, ControlPlaneAssumption DEF ReadMachines, TypeOK, storeVars, countVars
    <3>2. Owes(p, m) => Owes(p, m)'
      BY <3>1 DEF Owes
    <3> QED
      BY <1>1, <2>0, <3>1, <3>2, OthersOwe
  <2>3. CASE MachineMissing(p)
    <3>1. /\ machine' = machine /\ failures' = failures
          /\ pc[p] = "listMembers" /\ job[p].target # m
      BY <2>3 DEF MachineMissing, storeVars, countVars
    <3>2. ~Owes(p, m)
      BY <3>1 DEF Owes
    <3> QED
      BY <1>1, <2>0, <3>1, <3>2, OthersOwe
  <2>4. CASE RecomputeDone(p)
    <3>1. /\ machine' = machine /\ failures' = failures
          /\ pc[p] = "save" /\ DOMAIN work[p] = {}
      BY <2>4 DEF RecomputeDone, storeVars, countVars
    <3>2. ~Owes(p, m)
      BY <3>1 DEF Owes
    <3> QED
      BY <1>1, <2>0, <3>1, <3>2, OthersOwe
  <2>5. ASSUME NEW k \in Machines, Unchanged(p, k) PROVE Fine
    <3>1. /\ machine' = machine /\ failures' = failures
          /\ pc[p] = "save" /\ pc'[p] = "save" /\ k \in DOMAIN work[p]
          /\ work[p][k].modules \in Computed(p, k)
          /\ work'[p] = [n \in DOMAIN work[p] \ {k} |-> work[p][n]]
      BY <2>5 DEF Unchanged, Handled, TypeOK, storeVars, countVars
    <3>2. k = m /\ Owes(p, m) => Wins(machine[m])
      BY <3>1, ComputedWins DEF Owes, Wins
    <3>3. k # m /\ Owes(p, m) => Owes(p, m)'
      BY <3>1 DEF Owes
    <3> QED
      BY <1>1, <2>0, <3>1, <3>2, <3>3, OthersOwe
  <2>6. ASSUME NEW k \in Machines, SaveMachine(p, k) PROVE Fine
    <3>1. PICK next \in Computed(p, k) : machine' = [machine EXCEPT ![k] = Updated(p, k, next)]
      BY <2>6 DEF SaveMachine
    <3>2. /\ failures' = failures
          /\ pc[p] = "save" /\ pc'[p] = "save" /\ k \in DOMAIN work[p]
          /\ work'[p] = [n \in DOMAIN work[p] \ {k} |-> work[p][n]]
      BY <2>6 DEF SaveMachine, Handled, TypeOK, countVars
    <3>3. CASE k = m
      BY <1>0, <3>1, <3>2, <3>3, ComputedRecord DEF StoreOK
    <3>4. CASE k # m
      <4>1. machine'[m] = machine[m]
        BY <1>0, <3>1, <3>4 DEF StoreOK
      <4>2. Owes(p, m) => Owes(p, m)'
        BY <3>2, <3>4, <4>1 DEF Owes
      <4> QED
        BY <1>1, <2>0, <3>2, <4>1, <4>2, OthersOwe
    <3> QED
      BY <3>3, <3>4
  <2>7. ASSUME NEW k \in Machines, SaveMachineFails(p, k) PROVE Fine
    BY <1>0, <2>7 DEF SaveMachineFails
  <2>8. CASE ReadFails(p)
    BY <1>0, <2>8 DEF ReadFails
  <2> QED
    BY <1>6, <2>1, <2>2, <2>3, <2>4, <2>5, <2>6, <2>7, <2>8 DEF Recompute
<1>7. ASSUME NEW k \in Machines, handleStatus(k) PROVE Fine
  <2>1. /\ failures' = failures /\ UNCHANGED <<pc, job, work>>
    BY <1>7 DEF handleStatus, readVars
  <2>2. /\ Exists(machine[m])
        /\ machine'[m].override = machine[m].override
        /\ machine'[m].modules = machine[m].modules
    BY <1>7, Reported
  <2>3. ASSUME NEW q \in Admins, Owes(q, m) PROVE Owes(q, m)'
    BY <2>1, <2>2, <2>3 DEF Owes
  <2>4. Wins(machine[m]) => Wins(machine'[m])
    BY <2>2 DEF Wins
  <2> QED
    BY <1>1, <2>1, <2>2, <2>3, <2>4
<1>8. CASE Restart
  BY <1>0, <1>8 DEF Restart
<1> QED
  BY <1>2, <1>3, <1>4, <1>5, <1>6, <1>7, <1>8 DEF Next

\* Once no request is under way, and until a call of the store fails or the
\* server is restarted, every machine has its own override applied
\* (computeModules and the handlers that write whole records back, groups.go),
\* however many requests overlapped.
THEOREM OverridesAlwaysWin == Spec => []OverridesWin
<1>1. Init => Covered
  BY DEF Init, Covered, Exists, Gone
<1>2. TypeOK /\ Covered => OverridesWin
  BY DEF Covered, OverridesWin, Owes, Idle, Wins
<1> QED
  BY <1>1, <1>2, InitTyped, NextTyped, CoveredStep, PTL DEF Spec

------------------------------------------------------------------------------
(* Deleted machines are gone.                                               *)

Alone ==
    ~overlapped => \A p, q \in Admins : pc[p] # "idle" /\ pc[q] # "idle" => p = q

\* No request is about to bring a deleted machine back into the store or into
\* a group.
Forgotten ==
    ~overlapped =>
        \A m \in Machines : machine[m] = Removed =>
            /\ \A x \in member : x[2] # m
            /\ \A p \in Admins :
                  /\ pc[p] = "write" /\ job[p].kind \in {"addMember", "saveMachine", "enroll"}
                        => job[p].target # m
                  /\ pc[p] = "save" => m \notin DOMAIN work[p]

\* The file has forgotten them too.
FileForgotten ==
    ~overlapped => \A m \in Machines : saved[3][m] = Removed => \A x \in saved[2] : x[2] # m

StaysGone ==
    \A m \in Machines : ~overlapped /\ machine[m] = Removed =>
        machine'[m] = Removed /\ \A x \in member' : x[2] # m

LEMMA StoreForgets == TypeOK /\ Forgotten /\ [Next]_vars /\ ~Restart => StaysGone
<1> SUFFICES ASSUME TypeOK, Forgotten, [Next]_vars, ~Restart, ~overlapped,
                    NEW m \in Machines, machine[m] = Removed
             PROVE  machine'[m] = Removed /\ \A x \in member' : x[2] # m
  BY DEF StaysGone
<1> DEFINE Fine == machine'[m] = Removed /\ \A x \in member' : x[2] # m
<1>0. /\ StoreOK /\ \A p \in Admins : RequestOK(p)
      /\ \A x \in member : x[2] # m
      /\ \A p \in Admins :
            /\ pc[p] = "write" /\ job[p].kind \in {"addMember", "saveMachine", "enroll"}
                  => job[p].target # m
            /\ pc[p] = "save" => m \notin DOMAIN work[p]
  BY DEF Forgotten, TypeOK
<1>1. CASE UNCHANGED Records
  BY <1>0, <1>1 DEF Records
<1>2. ASSUME NEW p \in Admins, pc[p] = "write", Apply(p) PROVE Fine
  <2>1. CASE job[p].kind \in {"saveGroup", "deleteGroup", "removeMember"}
    <3>1. machine' = machine /\ member' \subseteq member
      BY <1>2, <2>1 DEF Apply
    <3> QED
      BY <1>0, <3>1
  <2>2. CASE job[p].kind = "addMember"
    <3>1. /\ machine' = machine /\ member' = member \cup {<<job[p].g, job[p].target>>}
          /\ job[p].target # m
      BY <1>0, <1>2, <2>2 DEF Apply
    <3> QED
      BY <1>0, <3>1
  <2>3. CASE job[p].kind \in {"saveMachine", "enroll"}
    <3>1. /\ machine' = [machine EXCEPT ![job[p].target] = copy[p]] /\ member' = member
          /\ job[p].target # m
      BY <1>0, <1>2, <2>3 DEF Apply
    <3> QED
      BY <1>0, <3>1 DEF StoreOK
  <2>4. CASE job[p].kind = "deleteMachine"
    <3>1. /\ machine' = [machine EXCEPT ![job[p].target] = Removed]
          /\ member' \subseteq member
      BY <1>2, <2>4 DEF Apply
    <3> QED
      BY <1>0, <3>1 DEF StoreOK
  <2> QED
    BY <1>0, <1>2, <2>1, <2>2, <2>3, <2>4 DEF RequestOK, WriteOK, Kinds
<1>3. ASSUME NEW p \in Admins, NEW k \in Machines, SaveMachine(p, k) \/ SaveMachineFails(p, k)
      PROVE  Fine
  <2>1. /\ k # m /\ member' = member
        /\ \E r : machine' \in {machine, [machine EXCEPT ![k] = r]}
    BY <1>0, <1>3 DEF SaveMachine, SaveMachineFails
  <2> QED
    BY <1>0, <2>1 DEF StoreOK
<1>4. ASSUME NEW k \in Machines, handleStatus(k) PROVE Fine
  <2>1. member' = member /\ machine'[m] = machine[m]
    BY <1>4, Reported DEF handleStatus, Exists, Gone
  <2> QED
    BY <1>0, <2>1
<1>5. ASSUME NEW p \in Admins, Begin(p) PROVE UNCHANGED Records
  <2>1. PICK what, record : Accept(p, what, record)
    BY <1>5, Accepted
  <2> QED
    BY <2>1 DEF Accept, storeVars, Records
<1>6. ASSUME NEW p \in Admins, Recompute(p)
      PROVE  UNCHANGED Records
             \/ \E k \in Machines : SaveMachine(p, k) \/ SaveMachineFails(p, k)
  BY <1>6 DEF Recompute, ListGroups, ListGroupMembers, ReadMachines, MachineMissing, ReadFails,
              Unchanged, RecomputeDone, storeVars, Records
<1>7. ASSUME NEW p \in Admins, Write(p) \/ WriteFails(p)
      PROVE  pc[p] = "write" /\ (Apply(p) \/ UNCHANGED Records)
  BY <1>7 DEF Write, WriteFails
<1>8. CASE UNCHANGED vars
  BY <1>1, <1>8 DEF vars, Records
<1> QED
  BY <1>1, <1>2, <1>3, <1>4, <1>5, <1>6, <1>7, <1>8 DEF Next

\* Requests that have overlapped have done so for good.
LEMMA OverlapStays == ASSUME TypeOK, [Next]_vars, ~overlapped' PROVE ~overlapped
<1>1. ASSUME NEW p \in Admins, Begin(p) PROVE ~overlapped
  <2>1. PICK what, record : Accept(p, what, record)
    BY <1>1, Accepted
  <2> QED
    BY <2>1 DEF Accept
<1> QED
  BY <1>1 DEF Next, Write, WriteFails, Recompute, ListGroups, ListGroupMembers, ReadMachines,
              MachineMissing, ReadFails, Unchanged, SaveMachine, SaveMachineFails,
              RecomputeDone, handleStatus, Restart, countVars, vars

\* Only a request that is accepted stops being idle.
LEMMA AloneStep == TypeOK /\ Alone /\ [Next]_vars => Alone'
<1> SUFFICES ASSUME TypeOK, Alone, [Next]_vars, ~overlapped',
                    NEW p \in Admins, NEW q \in Admins, pc'[p] # "idle", pc'[q] # "idle"
             PROVE  p = q
  BY DEF Alone
<1>1. ASSUME NEW r \in Admins, Begin(r) PROVE p = q
  <2>1. PICK what, record : Accept(r, what, record)
    BY <1>1, Accepted
  <2>2. \A s \in Admins : pc[s] = "idle"
    BY <2>1 DEF Accept
  <2>3. \A s \in Admins \ {r} : pc'[s] = pc[s]
    BY <2>1 DEF Accept, TypeOK
  <2> QED
    BY <2>2, <2>3
<1>2. ASSUME ~(\E r \in Admins : Begin(r)) PROVE p = q
  <2>1. ~overlapped
    BY OverlapStays
  <2>2. \A s \in Admins : pc'[s] # "idle" => pc[s] # "idle"
    <3>1. CASE UNCHANGED pc
      BY <3>1
    <3>2. ASSUME NEW r \in Admins, Write(r) \/ WriteFails(r) \/ Recompute(r)
          PROVE  \A s \in Admins : pc'[s] # "idle" => pc[s] # "idle"
      <4>1. OnlyOf(r)
        BY <3>2, HandlerTyped, RecomputeTyped
      <4>2. pc'[r] # "idle" => pc[r] # "idle"
        BY <3>2 DEF Write, WriteFails, Recompute, ListGroups, ListGroupMembers,
                    ReadMachines, MachineMissing, ReadFails, Unchanged, SaveMachine,
                    SaveMachineFails, RecomputeDone
      <4>3. \A s \in Admins \ {r} : pc'[s] = pc[s]
        BY <4>1 DEF OnlyOf, TypeOK
      <4> QED
        BY <4>2, <4>3
    <3>3. ASSUME Restart PROVE \A s \in Admins : pc'[s] = "idle"
      BY <3>3 DEF Restart
    <3> QED
      BY <1>2, <3>1, <3>2, <3>3 DEF Next, handleStatus, vars
  <2> QED
    BY <2>1, <2>2 DEF Alone
<1> QED
  BY <1>1, <1>2

LEMMA ForgottenStep ==
    TypeOK /\ Alone /\ Forgotten /\ FileForgotten /\ [Next]_vars => Forgotten'
<1> SUFFICES ASSUME TypeOK, Alone, Forgotten, FileForgotten, [Next]_vars, ~overlapped',
                    NEW m \in Machines, machine'[m] = Removed
             PROVE  /\ \A x \in member' : x[2] # m
                    /\ \A p \in Admins :
                          /\ pc'[p] = "write"
                             /\ job'[p].kind \in {"addMember", "saveMachine", "enroll"}
                                => job'[p].target # m
                          /\ pc'[p] = "save" => m \notin DOMAIN work'[p]
  BY DEF Forgotten
<1> DEFINE Safe(p) ==
              /\ pc'[p] = "write" /\ job'[p].kind \in {"addMember", "saveMachine", "enroll"}
                    => job'[p].target # m
              /\ pc'[p] = "save" => m \notin DOMAIN work'[p]
<1>0. /\ StoreOK /\ \A p \in Admins : RequestOK(p)
      /\ ~overlapped
  BY OverlapStays DEF TypeOK
<1>3. CASE Restart
  <2>1. \A p \in Admins : pc'[p] = "idle"
    BY <1>3 DEF Restart
  <2>2. CASE UNCHANGED Records
    BY <1>0, <2>1, <2>2 DEF Forgotten, Records
  <2>3. CASE member' = saved[2] /\ machine' = saved[3]
    BY <1>0, <2>1, <2>3 DEF FileForgotten
  <2> QED
    BY <1>3, <2>2, <2>3 DEF Restart
<1>1. CASE ~Restart /\ machine[m] = Removed
  <2>1. \A x \in member' : x[2] # m
    BY <1>0, <1>1, StoreForgets DEF StaysGone
  <2>2. \A p \in Admins :
           /\ pc[p] = "write" /\ job[p].kind \in {"addMember", "saveMachine", "enroll"}
                 => job[p].target # m
           /\ pc[p] = "save" => m \notin DOMAIN work[p]
    BY <1>0, <1>1 DEF Forgotten
  <2>3. CASE UNCHANGED <<pc, job, work>>
    BY <2>1, <2>2, <2>3
  <2>4. ASSUME NEW r \in Admins, NEW p \in Admins \ {r}, OnlyOf(r) PROVE Safe(p)
    <3>1. pc'[p] = pc[p] /\ job'[p] = job[p] /\ work'[p] = work[p]
      BY <2>4 DEF OnlyOf, TypeOK
    <3> QED
      BY <2>2, <3>1
  <2>5. ASSUME NEW r \in Admins, Begin(r) PROVE Safe(r) /\ OnlyOf(r)
    <3>1. PICK what, record :
             /\ Accept(r, what, record)
             /\ what.kind \in {"addMember", "saveMachine"} => Exists(machine[what.target])
             /\ what.kind = "enroll" => machine[what.target] = Absent
      BY <2>5, Accepted
    <3>2. pc'[r] = "write" /\ job'[r] = what
      BY <3>1 DEF Accept, TypeOK
    <3>3. OnlyOf(r)
      BY <2>5, HandlerTyped
    <3> QED
      BY <1>1, <3>1, <3>2, <3>3, ControlPlaneAssumption DEF Exists, Gone
  <2>6. ASSUME NEW r \in Admins, Write(r) \/ WriteFails(r) PROVE Safe(r) /\ OnlyOf(r)
    <3>1. pc'[r] \in {"idle", "listGroups"}
      BY <2>6 DEF Write, WriteFails, Finish, TypeOK
    <3>2. OnlyOf(r)
      BY <2>6, HandlerTyped
    <3> QED
      BY <3>1, <3>2
  <2>7. ASSUME NEW r \in Admins, Recompute(r) PROVE Safe(r) /\ OnlyOf(r)
    <3>0. OnlyOf(r)
      BY <2>7, RecomputeTyped
    <3>1. CASE ListGroups(r) \/ \E g \in Groups : ListGroupMembers(r, g)
      <4>1. pc'[r] = "listMembers"
        BY <3>1 DEF ListGroups, ListGroupMembers, TypeOK
      <4> QED
        BY <3>0, <4>1
    <3>2. CASE ReadMachines(r)
      <4>1. /\ pc'[r] = "save"
            /\ \A k \in DOMAIN work'[r] : Exists(machine[k])
        BY <3>2 DEF ReadMachines, TypeOK
      <4> QED
        BY <1>1, <3>0, <4>1 DEF Exists, Gone
    <3>3. ASSUME NEW k \in Machines, Unchanged(r, k) \/ SaveMachine(r, k)
          PROVE  Safe(r) /\ OnlyOf(r)
      <4>1. /\ pc[r] = "save" /\ pc'[r] = "save"
            /\ DOMAIN work'[r] \subseteq DOMAIN work[r]
        BY <3>3 DEF Unchanged, SaveMachine, Handled, TypeOK
      <4> QED
        BY <2>2, <3>0, <4>1
    <3>4. CASE Finish(r)
      <4>1. pc'[r] = "idle"
        BY <3>4 DEF Finish, TypeOK
      <4> QED
        BY <3>0, <4>1
    <3> QED
      BY <2>7, <3>1, <3>2, <3>3, <3>4 DEF Recompute, MachineMissing, ReadFails,
                                          SaveMachineFails, RecomputeDone
  <2> QED
    BY <1>1, <2>1, <2>3, <2>4, <2>5, <2>6, <2>7 DEF Next, handleStatus, readVars, vars
<1>2. CASE ~Restart /\ machine[m] # Removed
  <2>1. PICK r \in Admins : /\ pc[r] = "write" /\ Apply(r) /\ Finish(r)
                            /\ job[r].kind = "deleteMachine" /\ job[r].target = m
    <3>0. Removed \notin MachineRecords
      BY ControlPlaneAssumption DEF Gone
    <3>1. ~UNCHANGED Records /\ ~UNCHANGED storeVars
      BY <1>2 DEF Records, storeVars
    <3>2. ASSUME NEW k \in Machines, handleStatus(k) PROVE FALSE
      BY <1>2, <3>2, Reported DEF Exists, Gone
    <3>3. ASSUME NEW r \in Admins, NEW k \in Machines,
                 SaveMachine(r, k) \/ SaveMachineFails(r, k)
          PROVE  FALSE
      <4>1. PICK next \in Computed(r, k) :
               machine' \in {machine, [machine EXCEPT ![k] = Updated(r, k, next)]}
        BY <3>3 DEF SaveMachine, SaveMachineFails
      <4>2. Updated(r, k, next) \in MachineRecords
        BY <3>3, ComputedRecord DEF SaveMachine, SaveMachineFails
      <4> QED
        BY <1>0, <1>2, <3>0, <4>1, <4>2 DEF StoreOK
    <3>4. ASSUME NEW r \in Admins, Begin(r) PROVE FALSE
      <4>1. PICK what, record : Accept(r, what, record)
        BY <3>4, Accepted
      <4> QED
        BY <3>1, <4>1 DEF Accept
    <3>5. ASSUME NEW r \in Admins, pc[r] = "write", Apply(r)
          PROVE  job[r].kind = "deleteMachine" /\ job[r].target = m
      <4>1. machine' # machine /\ WriteOK(r)
        BY <1>0, <1>2, <3>5 DEF RequestOK
      <4>2. job[r].kind \notin {"saveMachine", "enroll"}
        <5>1. SUFFICES ASSUME job[r].kind \in {"saveMachine", "enroll"} PROVE FALSE
          OBVIOUS
        <5>2. /\ machine' = [machine EXCEPT ![job[r].target] = copy[r]]
              /\ copy[r] \in MachineRecords
          BY <3>5, <4>1, <5>1 DEF Apply, WriteOK
        <5> QED
          BY <1>0, <1>2, <3>0, <5>2 DEF StoreOK
      <4>3. job[r].kind = "deleteMachine"
        BY <3>5, <4>1, <4>2 DEF Apply, WriteOK, Kinds
      <4>4. machine' = [machine EXCEPT ![job[r].target] = Removed]
        BY <3>5, <4>3 DEF Apply
      <4> QED
        BY <1>0, <1>2, <4>3, <4>4 DEF StoreOK
    <3>6. ~(\E r \in Admins : Recompute(r))
      BY <3>1, <3>3 DEF Recompute, ListGroups, ListGroupMembers, ReadMachines,
                        MachineMissing, ReadFails, Unchanged, RecomputeDone
    <3>7. ~UNCHANGED vars
      BY <3>1 DEF vars, Records
    <3>8. PICK r \in Admins : Write(r) \/ WriteFails(r)
      BY <1>2, <3>2, <3>4, <3>6, <3>7 DEF Next
    <3>9. pc[r] = "write" /\ Apply(r)
      BY <3>1, <3>8 DEF Write, WriteFails
    <3> QED
      BY <3>5, <3>8, <3>9 DEF Write, WriteFails
  <2>2. \A x \in member' : x[2] # m
    BY <2>1 DEF Apply
  <2>3. \A p \in Admins : pc'[p] = "idle"
    BY <1>0, <2>1 DEF Alone, Finish, TypeOK
  <2> QED
    BY <2>2, <2>3
<1> QED
  BY <1>1, <1>2, <1>3

\* A call of the store either writes the file or leaves it alone.
LEMMA SavedStep == ASSUME TypeOK, [Next]_vars PROVE saved' = saved \/ saved' = Records'
<1>1. ASSUME NEW p \in Admins, Begin(p) PROVE saved' = saved
  BY <1>1, Accepted DEF Accept, storeVars
<1> QED
  BY <1>1 DEF Next, Write, WriteFails, Recompute, ListGroups, ListGroupMembers, ReadMachines,
              MachineMissing, ReadFails, Unchanged, SaveMachine, SaveMachineFails,
              RecomputeDone, handleStatus, Restart, storeVars, vars

LEMMA FileForgottenStep ==
    TypeOK /\ FileForgotten /\ Forgotten' /\ [Next]_vars => FileForgotten'
<1> SUFFICES ASSUME TypeOK, FileForgotten, Forgotten', [Next]_vars, ~overlapped',
                    NEW m \in Machines, saved'[3][m] = Removed
             PROVE  \A x \in saved'[2] : x[2] # m
  BY DEF FileForgotten
<1>1. CASE saved' = saved
  BY <1>1, OverlapStays DEF FileForgotten
<1>2. CASE saved' = Records'
  <2>1. saved'[3] = machine' /\ saved'[2] = member'
    BY <1>2 DEF Records
  <2> QED
    BY <2>1 DEF Forgotten
<1> QED
  BY <1>1, <1>2, SavedStep

\* As long as requests do not overlap, a machine whose deletion has reached the
\* file stays deleted and is in no group (deleteMachine, admin.go, over the
\* handlers that write whole records back, groups.go), with failing calls,
\* restarts and status reports.
THEOREM DeletedAreGone == Spec => DeletedIsGone
<1> DEFINE Kept == \A m \in Machines :
              ~overlapped /\ machine[m] = Removed /\ saved[3][m] = Removed =>
                  machine'[m] = Removed /\ \A x \in member' : x[2] # m
<1>1. Init => Alone /\ Forgotten /\ FileForgotten
  BY ControlPlaneAssumption DEF Init, Alone, Forgotten, FileForgotten, Records
<1>2. TypeOK /\ Forgotten /\ FileForgotten /\ [Next]_vars => Kept
  <2> SUFFICES ASSUME TypeOK, Forgotten, FileForgotten, [Next]_vars PROVE Kept
    OBVIOUS
  <2>1. CASE ~Restart
    BY <2>1, StoreForgets DEF StaysGone
  <2>2. CASE Restart /\ UNCHANGED Records
    BY <2>2 DEF Forgotten, Records
  <2>3. CASE member' = saved[2] /\ machine' = saved[3]
    BY <2>3 DEF FileForgotten
  <2> QED
    BY <2>1, <2>2, <2>3 DEF Restart
<1> QED
  BY <1>1, <1>2, InitTyped, NextTyped, AloneStep, ForgottenStep, FileForgottenStep, PTL
     DEF Spec, DeletedIsGone

------------------------------------------------------------------------------
(* Once settled, every machine has what its groups promise.  A request that *)
(* runs alone reads the store as it is to the last call (Faithful), and     *)
(* what it writes leaves the machines it changes to its own Recompute       *)
(* (Accounted).                                                             *)

\* Request p has been alone since it was accepted.
Sole(p) == pc[p] # "idle" /\ p \notin crossed

Lonely ==
    /\ \A p \in Admins : Sole(p) => \A q \in Admins \ {p} : pc[q] = "idle"
    /\ ~unsettled => \A p \in Admins : pc[p] # "idle" => Sole(p)

\* No membership has been listed yet, and groups are written for all machines.
Fresh ==
    \A p \in Admins :
        /\ pc[p] \in {"idle", "write", "listGroups"} => memberRead[p] = {}
        /\ pc[p] = "write" /\ job[p].kind \in {"saveGroup", "deleteGroup"} =>
              job[p].target = Tenant

Known == {g \in Groups : Exists(group[g])}

\* What request p has read is what the store holds.
GroupsAsRead(p) ==
    /\ groupsRead[p] = [g \in Known |-> group[g]]
    /\ unread[p] \subseteq Known
    /\ memberRead[p] = {x \in member : x[1] \in Known \ unread[p]}

MachinesAsRead(p) ==
    \A m \in DOMAIN work[p] : /\ Exists(machine[m])
                              /\ machine[m].labels = work[p][m].labels
                              /\ machine[m].override = work[p][m].override
                              /\ machine[m].modules = work[p][m].modules

Faithful ==
    \A p \in Admins : Sole(p) =>
        /\ pc[p] \in {"listMembers", "save"} => GroupsAsRead(p)
        /\ pc[p] = "save" => unread[p] = {} /\ MachinesAsRead(p)

Right(m) ==
    machine[m].modules # Nil /\ \A n \in Names : machine[m].modules[n] \in Promised(m, n)

\* Request p has still to compute the modules of machine m.
Due(p, m) ==
    \/ pc[p] \in {"listGroups", "listMembers"} /\ job[p].target \in {Tenant, m}
    \/ pc[p] = "save" /\ m \in DOMAIN work[p]

\* Request p is saving all machines and has been alone.
Sweeps(p) == Sole(p) /\ pc[p] = "save" /\ job[p].target = Tenant

Accounted ==
    ~unsettled \/ (\E p \in Admins : Sweeps(p)) =>
        \A m \in Machines : Exists(machine[m]) => Right(m) \/ \E p \in Admins : Due(p, m)

\* A selector means the same said of all keys and of those it names.
LEMMA SelectorNamed ==
    ASSUME NEW selector, NEW labels
    PROVE  selectorMatches(selector, labels) <=>
              LET named == {k \in Keys : selector[k] # Anything}
              IN  named # {} /\ \A k \in named : labels[k] = selector[k]
BY DEF selectorMatches

\* computeModules gives what is promised, in whichever order sort.Slice leaves
\* groups of one name.
LEMMA ComputedPromised ==
    ASSUME TypeOK, NEW p \in Admins, NEW m \in Machines, m \in DOMAIN work[p],
           GroupsAsRead(p), unread[p] = {}, MachinesAsRead(p),
           NEW next \in Computed(p, m), NEW n \in Names
    PROVE  next[n] \in Promised(m, n)
<1> DEFINE groups == [g \in Known |-> group[g]]
<1> DEFINE members == {x[1] : x \in {y \in memberRead[p] : y[2] = m}}
<1> DEFINE labels == machine[m].labels
<1> DEFINE override == machine[m].override
<1>1. PICK order \in Orders(groups) :
         next = computeModules(override, labels, groups, members, order)
  BY DEF Computed, GroupsAsRead, MachinesAsRead
<1>2. /\ DOMAIN groups = Known /\ Known \subseteq Groups /\ IsFiniteSet(Known)
      /\ \A g \in Known : groups[g] = group[g] /\ group[g] \in GroupRecords
  BY ControlPlaneAssumption, FS_Subset DEF Known, TypeOK, StoreOK, Exists
<1> DEFINE providers == {g \in Memberships(groups, members, labels) :
                            groups[g].modules[n] # NoSpec}
<1> DEFINE last == CHOOSE g \in providers : \A h \in providers : order[h] <= order[g]
<1>3. next[n] = IF override[n] # NoSpec THEN override[n]
                ELSE IF providers = {} THEN NoSpec ELSE groups[last].modules[n]
  BY <1>1 DEF computeModules
<1>4. providers = Provides(m, n)
  <2>1. ASSUME NEW g \in Known PROVE g \in members <=> <<g, m>> \in member
    <3>1. memberRead[p] = {x \in member : x[1] \in Known}
      BY DEF GroupsAsRead
    <3>2. \A x \in member : x = <<x[1], x[2]>>
      BY DEF TypeOK, StoreOK
    <3> QED
      BY <3>1, <3>2
  <2>2. ASSUME NEW g \in Known
        PROVE  g \in Memberships(groups, members, labels) <=> MemberOf(m, g)
    <3> HIDE DEF members
    <3> QED
      BY <1>2, <2>1, SelectorNamed DEF Memberships, MemberOf
  <2>3. /\ providers \subseteq Known
        /\ \A g \in Known : g \in providers <=> MemberOf(m, g) /\ group[g].modules[n] # NoSpec
    BY <1>2, <2>2 DEF Memberships
  <2>4. /\ Provides(m, n) \subseteq Known
        /\ \A g \in Known : g \in Provides(m, n) <=>
                               MemberOf(m, g) /\ group[g].modules[n] # NoSpec
    BY DEF Provides, Known
  <2> QED
    BY <2>3, <2>4
<1>5. CASE override[n] # NoSpec
  BY <1>3, <1>5 DEF Promised
<1>6. CASE override[n] = NoSpec /\ providers = {}
  BY <1>3, <1>4, <1>6 DEF Promised
<1>7. CASE override[n] = NoSpec /\ providers # {}
  <2>0. providers \in SUBSET DOMAIN groups
    BY <1>2 DEF Memberships
  <2>1. last \in providers /\ \A h \in providers : order[h] <= order[last]
    <3> HIDE DEF providers, groups
    <3> QED
      BY <1>2, <1>7, <2>0, LastExists
  <2>2. ASSUME NEW f \in providers PROVE group[f].name <= group[last].name
    <3>1. f \in Known /\ last \in Known
      BY <1>2, <2>0, <2>1
    <3>2. /\ order[f] \in Nat /\ order[last] \in Nat /\ order[f] <= order[last]
          /\ groups[last].name < groups[f].name => order[last] < order[f]
      <4> HIDE DEF providers, last
      <4> QED
        BY <1>2, <2>1, <3>1, FS_CardinalityType DEF Orders
    <3>3. group[f].name \in Nat /\ group[last].name \in Nat
      BY <1>2, <3>1 DEF GroupRecords
    <3> HIDE DEF providers, last
    <3> QED
      BY <1>2, <3>1, <3>2, <3>3
  <2>3. next[n] = group[last].modules[n] /\ last \in Provides(m, n)
    BY <1>2, <1>3, <1>4, <1>7, <2>0, <2>1
  <2> HIDE DEF providers, last
  <2> QED
    BY <1>4, <1>7, <2>2, <2>3 DEF Promised
<1> QED
  BY <1>5, <1>6, <1>7

\* An action of request p is its own, and no other request is alone after it.
LEMMA Acting ==
    ASSUME TypeOK, Lonely, NEW p \in Admins,
           Begin(p) \/ Write(p) \/ WriteFails(p) \/ Recompute(p)
    PROVE  /\ OnlyOf(p) /\ Lonely'
           /\ \A q \in Admins \ {p} : ~Sole(q)'
<1>1. OnlyOf(p)
  BY HandlerTyped, RecomputeTyped
<1>2. \A q \in Admins \ {p} : pc'[q] = pc[q]
  BY <1>1 DEF OnlyOf, TypeOK
<1>3. CASE Begin(p)
  <2>1. PICK what, record : Accept(p, what, record)
    BY <1>3, Accepted
  <2> DEFINE busy == {q \in Admins : pc[q] # "idle"}
  <2>2. /\ unsettled' = (unsettled \/ busy # {})
        /\ crossed' = (crossed \ {p}) \cup (IF busy = {} THEN {} ELSE busy \cup {p})
        /\ pc[p] = "idle"
    BY <2>1 DEF Accept
  <2>3. \A q \in Admins \ {p} : ~Sole(q)'
    BY <1>2, <2>2 DEF Sole
  <2>4. Sole(p)' => busy = {}
    BY <2>2 DEF Sole
  <2>5. ~unsettled' => busy = {} /\ p \notin crossed'
    BY <2>2
  <2> QED
    BY <1>1, <1>2, <2>3, <2>4, <2>5 DEF Lonely, Sole
<1>4. CASE Write(p) \/ WriteFails(p) \/ Recompute(p)
  <2>1. pc[p] # "idle" /\ crossed' = crossed
    BY <1>4 DEF Write, WriteFails, Recompute, ListGroups, ListGroupMembers, ReadMachines,
                MachineMissing, ReadFails, Unchanged, SaveMachine, SaveMachineFails,
                RecomputeDone, countVars
  <2>2. \A q \in Admins \ {p} : ~Sole(q)'
    BY <1>2, <2>1 DEF Lonely, Sole
  <2>3. Sole(p)' => \A q \in Admins \ {p} : pc'[q] = "idle"
    BY <1>2, <2>1 DEF Lonely, Sole
  <2>4. ~unsettled' => ~unsettled \/ (Sole(p) /\ pc'[p] = "idle")
    BY <1>4, <2>1 DEF Write, WriteFails, Recompute, ListGroups, ListGroupMembers,
                ReadMachines, MachineMissing, ReadFails, Unchanged, SaveMachine,
                SaveMachineFails, RecomputeDone, Finish, TypeOK, Sole
  <2>5. ~unsettled' => \A q \in Admins : pc'[q] # "idle" => Sole(q)'
    BY <1>2, <2>1, <2>4 DEF Lonely, Sole
  <2> QED
    BY <1>1, <2>2, <2>3, <2>5 DEF Lonely
<1> QED
  BY <1>3, <1>4

LEMMA FreshStep == TypeOK /\ Fresh /\ [Next]_vars => Fresh'
<1> SUFFICES ASSUME TypeOK, Fresh, [Next]_vars PROVE Fresh'
  OBVIOUS
<1> DEFINE New(p) == /\ pc[p] \in {"idle", "write", "listGroups"} => memberRead[p] = {}
                     /\ pc[p] = "write" /\ job[p].kind \in {"saveGroup", "deleteGroup"} =>
                           job[p].target = Tenant
<1>1. ASSUME NEW p \in Admins, OnlyOf(p), New(p)' PROVE Fresh'
  <2>1. \A q \in Admins \ {p} : pc'[q] = pc[q] /\ job'[q] = job[q] /\ memberRead'[q] = memberRead[q]
    BY <1>1 DEF OnlyOf, TypeOK
  <2> QED
    BY <1>1, <2>1 DEF Fresh
<1>2. ASSUME NEW p \in Admins, Begin(p) PROVE Fresh'
  <2>1. PICK what, record :
          /\ Accept(p, what, record)
          /\ what.kind \in {"saveGroup", "deleteGroup"} => what.target = Tenant
    BY <1>2, Accepted
  <2>2. /\ pc[p] = "idle" /\ pc'[p] = "write" /\ job'[p] = what
        /\ memberRead'[p] = memberRead[p]
    BY <2>1 DEF Accept, readVars, TypeOK
  <2> QED
    BY <1>1, <1>2, <2>1, <2>2, HandlerTyped DEF Fresh
<1>3. ASSUME NEW p \in Admins, OnlyOf(p), Finish(p) PROVE Fresh'
  <2>1. pc'[p] = "idle" /\ memberRead'[p] = {}
    BY <1>3 DEF Finish, TypeOK
  <2> QED
    BY <1>1, <1>3, <2>1
<1>4. ASSUME NEW p \in Admins, Write(p) \/ WriteFails(p) PROVE Fresh'
  <2>1. OnlyOf(p)
    BY <1>4, HandlerTyped
  <2>2. CASE Finish(p)
    BY <1>3, <2>1, <2>2
  <2>3. CASE ~Finish(p)
    <3>1. /\ pc[p] = "write" /\ pc'[p] = "listGroups" /\ memberRead'[p] = memberRead[p]
      BY <1>4, <2>3 DEF Write, WriteFails, readVars, TypeOK
    <3> QED
      BY <1>1, <2>1, <3>1 DEF Fresh
  <2> QED
    BY <2>2, <2>3
<1>5. ASSUME NEW p \in Admins, Recompute(p) PROVE Fresh'
  <2>1. OnlyOf(p)
    BY <1>5, RecomputeTyped
  <2>2. CASE Finish(p)
    BY <1>3, <2>1, <2>2
  <2>3. CASE ~Finish(p)
    <3>1. pc'[p] \in {"listMembers", "save"}
      BY <1>5, <2>3 DEF Recompute, ListGroups, ListGroupMembers, ReadMachines, MachineMissing,
                        ReadFails, Unchanged, SaveMachine, SaveMachineFails, RecomputeDone,
                        TypeOK
    <3> QED
      BY <1>1, <2>1, <3>1
  <2> QED
    BY <2>2, <2>3
<1>6. CASE UNCHANGED <<pc, job, memberRead>>
  BY <1>6 DEF Fresh
<1>7. CASE Restart
  <2>1. \A p \in Admins : pc'[p] = "idle" /\ memberRead'[p] = {}
    BY <1>7 DEF Restart
  <2> QED
    BY <2>1 DEF Fresh
<1> QED
  BY <1>2, <1>4, <1>5, <1>6, <1>7 DEF Next, handleStatus, readVars, vars

LEMMA FaithfulStep == TypeOK /\ Lonely /\ Fresh /\ Faithful /\ [Next]_vars => Faithful'
<1> SUFFICES ASSUME TypeOK, Lonely, Fresh, Faithful, [Next]_vars PROVE Faithful'
  OBVIOUS
<1> DEFINE Now(p) == /\ pc[p] \in {"listMembers", "save"} => GroupsAsRead(p)
                     /\ pc[p] = "save" => unread[p] = {} /\ MachinesAsRead(p)
<1>1. ASSUME NEW p \in Admins,
             Begin(p) \/ Write(p) \/ WriteFails(p) \/ Recompute(p),
             Sole(p)' => Now(p)'
      PROVE  Faithful'
  <2>1. \A q \in Admins \ {p} : ~Sole(q)'
    BY <1>1, Acting
  <2> QED
    BY <1>1, <2>1 DEF Faithful
<1>2. ASSUME NEW p \in Admins, Begin(p) PROVE Faithful'
  <2>1. PICK what, record : Accept(p, what, record)
    BY <1>2, Accepted
  <2>2. pc'[p] = "write"
    BY <2>1 DEF Accept, TypeOK
  <2> QED
    BY <1>1, <1>2, <2>2
<1>3. ASSUME NEW p \in Admins, Write(p) \/ WriteFails(p) PROVE Faithful'
  <2>1. pc'[p] \in {"idle", "listGroups"}
    BY <1>3 DEF Write, WriteFails, Finish, TypeOK
  <2> QED
    BY <1>1, <1>3, <2>1
<1>4. ASSUME NEW p \in Admins, Recompute(p) PROVE Faithful'
  <2>0. SUFFICES ASSUME Sole(p)' PROVE Now(p)'
    BY <1>1, <1>4
  <2>1. Sole(p) /\ OnlyOf(p)
    <3>1. pc[p] # "idle" /\ crossed' = crossed
      BY <1>4 DEF Recompute, ListGroups, ListGroupMembers, ReadMachines, MachineMissing,
                  ReadFails, Unchanged, SaveMachine, SaveMachineFails, RecomputeDone, countVars
    <3> QED
      BY <1>4, <2>0, <3>1, RecomputeTyped DEF Sole
  <2>2. CASE Finish(p)
    <3>1. pc'[p] = "idle"
      BY <2>2 DEF Finish, TypeOK
    <3> QED
      BY <3>1
  <2>3. CASE ListGroups(p)
    <3>1. /\ groupsRead'[p] = [g \in Known |-> group[g]] /\ unread'[p] = Known
          /\ memberRead'[p] = {} /\ pc'[p] = "listMembers"
          /\ UNCHANGED <<group, member>>
      BY <2>3 DEF ListGroups, TypeOK, Fresh, Known, storeVars
    <3> QED
      BY <3>1 DEF GroupsAsRead, Known
  <2>4. ASSUME NEW g \in Groups, ListGroupMembers(p, g) PROVE Now(p)'
    <3>1. /\ pc[p] = "listMembers" /\ pc'[p] = "listMembers" /\ g \in unread[p]
          /\ memberRead'[p] = memberRead[p] \cup {x \in member : x[1] = g}
          /\ unread'[p] = unread[p] \ {g} /\ groupsRead'[p] = groupsRead[p]
          /\ UNCHANGED <<group, member>>
      BY <2>4 DEF ListGroupMembers, TypeOK, storeVars
    <3>2. GroupsAsRead(p)
      BY <2>1, <3>1 DEF Faithful
    <3>3. GroupsAsRead(p)'
      BY <3>1, <3>2 DEF GroupsAsRead, Known
    <3> QED
      BY <3>1, <3>3
  <2>5. CASE ReadMachines(p)
    <3>1. /\ pc[p] = "listMembers" /\ unread[p] = {} /\ unread'[p] = {}
          /\ groupsRead'[p] = groupsRead[p] /\ memberRead'[p] = memberRead[p]
          /\ UNCHANGED <<group, member, machine>>
      BY <2>5 DEF ReadMachines, TypeOK, storeVars
    <3>2. \A m \in DOMAIN work'[p] : Exists(machine[m]) /\ work'[p][m] = machine[m]
      BY <2>5 DEF ReadMachines, TypeOK
    <3>3. GroupsAsRead(p)'
      BY <2>1, <3>1 DEF Faithful, GroupsAsRead, Known
    <3>4. MachinesAsRead(p)'
      BY <3>1, <3>2 DEF MachinesAsRead
    <3> QED
      BY <3>1, <3>3, <3>4
  <2>6. ASSUME NEW k \in Machines, Unchanged(p, k) \/ SaveMachine(p, k) PROVE Now(p)'
    <3>1. /\ pc[p] = "save" /\ unread'[p] = unread[p]
          /\ groupsRead'[p] = groupsRead[p] /\ memberRead'[p] = memberRead[p]
          /\ UNCHANGED <<group, member>>
          /\ work'[p] = [n \in DOMAIN work[p] \ {k} |-> work[p][n]]
          /\ \E r : machine' \in {machine, [machine EXCEPT ![k] = r]}
      BY <2>6 DEF Unchanged, SaveMachine, Handled, TypeOK, storeVars
    <3>2. GroupsAsRead(p) /\ unread[p] = {} /\ MachinesAsRead(p)
      BY <2>1, <3>1 DEF Faithful
    <3>3. GroupsAsRead(p)'
      BY <3>1, <3>2 DEF GroupsAsRead, Known
    <3>4. \A m \in Machines \ {k} : machine'[m] = machine[m]
      BY <3>1 DEF TypeOK, StoreOK
    <3>5. DOMAIN work[p] \subseteq Machines
      BY DEF TypeOK, RequestOK
    <3>6. MachinesAsRead(p)'
      BY <3>1, <3>2, <3>4, <3>5 DEF MachinesAsRead
    <3> QED
      BY <3>1, <3>2, <3>3, <3>6
  <2> QED
    BY <1>4, <2>2, <2>3, <2>4, <2>5, <2>6 DEF Recompute, MachineMissing, ReadFails,
                                              SaveMachineFails, RecomputeDone
<1>5. ASSUME NEW k \in Machines, handleStatus(k) PROVE Faithful'
  <2>1. UNCHANGED <<group, member, pc, readVars, crossed>>
    BY <1>5 DEF handleStatus
  <2>2. ASSUME NEW p \in Admins, Sole(p) PROVE Now(p)'
    <3>1. DOMAIN work[p] \subseteq Machines
      BY DEF TypeOK, RequestOK
    <3>2. MachinesAsRead(p) => MachinesAsRead(p)'
      BY <1>5, <2>1, <3>1, Reported DEF MachinesAsRead, readVars
    <3>3. GroupsAsRead(p) => GroupsAsRead(p)'
      BY <2>1 DEF GroupsAsRead, Known, readVars
    <3> QED
      BY <2>1, <2>2, <3>2, <3>3 DEF Faithful, readVars
  <2> QED
    BY <2>1, <2>2 DEF Faithful, Sole
<1>6. CASE UNCHANGED vars
  BY <1>6 DEF Faithful, Sole, GroupsAsRead, MachinesAsRead, Known, vars
<1>7. CASE Restart
  BY <1>7 DEF Restart, Faithful, Sole
<1> QED
  BY <1>2, <1>3, <1>4, <1>5, <1>6, <1>7 DEF Next

\* What is promised to a machine depends on its labels and override, on the
\* groups and on its own memberships.
LEMMA PromisedKept ==
    ASSUME NEW m \in Machines, group' = group,
           machine'[m].labels = machine[m].labels,
           machine'[m].override = machine[m].override,
           \A g \in Groups : <<g, m>> \in member' <=> <<g, m>> \in member
    PROVE  \A n \in Names : Promised(m, n)' = Promised(m, n)
<1>1. \A g \in Groups : MemberOf(m, g)' <=> MemberOf(m, g)
  BY DEF MemberOf
<1>2. \A n \in Names : Provides(m, n)' = Provides(m, n)
  BY <1>1 DEF Provides
<1> QED
  BY <1>2 DEF Promised

LEMMA RightKept ==
    ASSUME NEW m \in Machines, Right(m), group' = group,
           machine'[m].labels = machine[m].labels,
           machine'[m].override = machine[m].override,
           machine'[m].modules = machine[m].modules,
           \A g \in Groups : <<g, m>> \in member' <=> <<g, m>> \in member
    PROVE  Right(m)'
BY PromisedKept DEF Right

LEMMA AccountedStep ==
    TypeOK /\ Lonely /\ Fresh /\ Faithful /\ Accounted /\ [Next]_vars => Accounted'
<1> SUFFICES ASSUME TypeOK, Lonely, Fresh, Faithful, Accounted, [Next]_vars,
                    ~unsettled' \/ \E p \in Admins : Sweeps(p)',
                    NEW m \in Machines, Exists(machine'[m])
             PROVE  Right(m)' \/ \E p \in Admins : Due(p, m)'
  BY DEF Accounted
<1> DEFINE Fine == Right(m)' \/ \E p \in Admins : Due(p, m)'
<1>0. /\ StoreOK /\ \A p \in Admins : RequestOK(p)
      /\ Exists(machine[m]) => machine[m] \in MachineRecords
  BY DEF TypeOK, StoreOK, Exists
<1>1. ASSUME NEW p \in Admins, Sole(p), ~unsettled \/ Sweeps(p), Exists(machine[m])
      PROVE  Right(m) \/ Due(p, m)
  BY <1>1 DEF Accounted, Lonely, Due
<1>2. ASSUME Right(m), UNCHANGED storeVars PROVE Fine
  BY <1>2, RightKept DEF storeVars
<1>10. CASE Restart
  <2>1. unsettled' /\ \A p \in Admins : pc'[p] = "idle"
    BY <1>10 DEF Restart
  <2> QED
    BY <2>1 DEF Sweeps
<1>3. ASSUME NEW p \in Admins, pc'[p] # "save",
             Begin(p) \/ Write(p) \/ WriteFails(p) \/ Recompute(p)
      PROVE  ~unsettled'
  BY <1>3, Acting DEF Sweeps
<1>4. ASSUME NEW p \in Admins, Begin(p) PROVE Fine
  <2>1. PICK what, record : Accept(p, what, record)
    BY <1>4, Accepted
  <2>2. /\ pc'[p] = "write" /\ UNCHANGED storeVars
        /\ ~unsettled' => ~unsettled /\ \A q \in Admins : pc[q] = "idle"
    BY <2>1 DEF Accept, TypeOK
  <2>3. Right(m)
    BY <1>3, <1>4, <2>2 DEF Accounted, Due, storeVars
  <2> QED
    BY <1>2, <2>2, <2>3
<1>5. ASSUME NEW p \in Admins, Write(p) PROVE Fine
  <2>1. /\ pc[p] = "write" /\ Apply(p) /\ pc'[p] \in {"idle", "listGroups"}
        /\ job[p].kind # "deleteMachine" => pc'[p] = "listGroups" /\ job'[p] = job[p]
        /\ unsettled' = unsettled
    BY <1>5 DEF Write, Finish, TypeOK
  <2>2. ~unsettled /\ Sole(p)
    BY <1>3, <1>5, <2>1 DEF Lonely
  <2>3. Exists(machine[m]) => Right(m)
    BY <1>1, <2>1, <2>2 DEF Due
  <2>4. CASE job[p].kind # "deleteMachine" /\ job[p].target \in {Tenant, m}
    BY <2>1, <2>4 DEF Due
  <2>5. CASE job[p].kind # "deleteMachine" /\ job[p].target \notin {Tenant, m}
    <3>1. /\ WriteOK(p) /\ job[p].kind \notin {"saveGroup", "deleteGroup"}
      BY <1>0, <2>1, <2>5 DEF Fresh, RequestOK
    <3>2. /\ group' = group /\ machine'[m] = machine[m]
          /\ \A g \in Groups : <<g, m>> \in member' <=> <<g, m>> \in member
      <4>1. CASE job[p].kind = "addMember"
        BY <2>1, <2>5, <4>1 DEF Apply
      <4>2. CASE job[p].kind = "removeMember"
        BY <2>1, <2>5, <4>2 DEF Apply
      <4>3. CASE job[p].kind \in {"saveMachine", "enroll"}
        <5>1. /\ machine' = [machine EXCEPT ![job[p].target] = copy[p]]
              /\ UNCHANGED <<group, member>>
          BY <2>1, <4>3 DEF Apply
        <5> QED
          BY <1>0, <2>5, <5>1 DEF StoreOK
      <4> QED
        BY <2>5, <3>1, <4>1, <4>2, <4>3 DEF WriteOK, Kinds
    <3> QED
      BY <2>3, <3>2, RightKept
  <2>6. CASE job[p].kind = "deleteMachine"
    <3>1. /\ machine' = [machine EXCEPT ![job[p].target] = Removed]
          /\ member' = {x \in member : x[2] # job[p].target} /\ group' = group
      BY <2>1, <2>6 DEF Apply
    <3>2. job[p].target # m
      BY <1>0, <3>1 DEF StoreOK, Exists, Gone
    <3>3. machine'[m] = machine[m]
      BY <1>0, <3>1, <3>2 DEF StoreOK
    <3>4. \A g \in Groups : <<g, m>> \in member' <=> <<g, m>> \in member
      BY <3>1, <3>2
    <3> QED
      BY <2>3, <3>1, <3>3, <3>4, RightKept
  <2> QED
    BY <2>4, <2>5, <2>6
<1>6. ASSUME NEW p \in Admins, WriteFails(p) PROVE Fine
  <2>1. pc'[p] = "idle" /\ unsettled'
    BY <1>6 DEF WriteFails, Finish, TypeOK
  <2> QED
    BY <1>3, <1>6, <2>1
<1>7. ASSUME NEW p \in Admins, Recompute(p) PROVE Fine
  <2>0. pc[p] # "idle" /\ crossed' = crossed /\ (unsettled => Sole(p) \/ ~unsettled')
    <3>1. pc[p] # "idle" /\ crossed' = crossed
      BY <1>7 DEF Recompute, ListGroups, ListGroupMembers, ReadMachines, MachineMissing,
                  ReadFails, Unchanged, SaveMachine, SaveMachineFails, RecomputeDone, countVars
    <3>2. ~unsettled' \/ Sole(p)'
      BY <1>7, Acting DEF Sweeps
    <3> QED
      BY <3>1, <3>2 DEF Sole
  <2>1. CASE ListGroups(p) \/ \E g \in Groups : ListGroupMembers(p, g)
    <3>1. /\ pc[p] \in {"listGroups", "listMembers"} /\ pc'[p] = "listMembers"
          /\ job'[p] = job[p] /\ UNCHANGED storeVars /\ unsettled' = unsettled
      BY <2>1 DEF ListGroups, ListGroupMembers, TypeOK
    <3>2. ~unsettled /\ Sole(p)
      BY <1>3, <1>7, <3>1 DEF Lonely
    <3>3. Due(p, m) => Due(p, m)'
      BY <3>1 DEF Due
    <3> QED
      BY <1>1, <1>2, <3>1, <3>2, <3>3 DEF storeVars
  <2>2. CASE ReadMachines(p)
    <3>1. /\ pc[p] = "listMembers" /\ pc'[p] = "save"
          /\ job'[p] = job[p] /\ UNCHANGED storeVars /\ unsettled' = unsettled
          /\ DOMAIN work'[p] = IF job[p].target = Tenant
                               THEN {k \in Machines : Exists(machine[k])} ELSE {job[p].target}
      BY <2>2 DEF ReadMachines, TypeOK
    <3>2. CASE job[p].target \in {Tenant, m}
      BY <3>1, <3>2 DEF Due, storeVars
    <3>3. CASE job[p].target \notin {Tenant, m}
      <4>1. ~unsettled
        BY <1>7, <3>1, <3>3, Acting DEF Sweeps
      <4>2. Sole(p) /\ ~Due(p, m)
        BY <3>1, <3>3, <4>1 DEF Lonely, Due
      <4> QED
        BY <1>1, <1>2, <3>1, <4>1, <4>2 DEF storeVars
    <3> QED
      BY <3>2, <3>3
  <2>3. CASE MachineMissing(p)
    <3>1. /\ pc[p] = "listMembers" /\ pc'[p] = "idle"
          /\ job[p].target # Tenant /\ ~Exists(machine[job[p].target])
          /\ UNCHANGED storeVars /\ unsettled' = unsettled
      BY <2>3 DEF MachineMissing, Finish, TypeOK
    <3>2. ~unsettled /\ Sole(p)
      BY <1>3, <1>7, <3>1 DEF Lonely
    <3>3. Exists(machine[m]) /\ ~Due(p, m)
      BY <3>1 DEF Due, storeVars
    <3> QED
      BY <1>1, <1>2, <3>1, <3>2, <3>3
  <2>4. CASE RecomputeDone(p)
    <3>1. /\ pc[p] = "save" /\ pc'[p] = "idle" /\ DOMAIN work[p] = {}
          /\ UNCHANGED storeVars
          /\ unsettled' = (unsettled /\ (job[p].target # Tenant \/ p \in crossed))
      BY <2>4 DEF RecomputeDone, Finish, TypeOK
    <3>2. ~unsettled'
      BY <1>3, <1>7, <3>1
    <3>3. Sole(p) /\ (~unsettled \/ Sweeps(p))
      BY <3>1, <3>2 DEF Lonely, Sole, Sweeps
    <3>4. Exists(machine[m]) /\ ~Due(p, m)
      BY <3>1 DEF Due, storeVars
    <3> QED
      BY <1>1, <1>2, <3>1, <3>3, <3>4
  <2>5. ASSUME NEW k \in Machines, Unchanged(p, k) \/ SaveMachine(p, k) PROVE Fine
    <3>1. /\ pc[p] = "save" /\ pc'[p] = "save" /\ k \in DOMAIN work[p]
          /\ job'[p] = job[p] /\ UNCHANGED <<group, member>> /\ unsettled' = unsettled
          /\ work'[p] = [n \in DOMAIN work[p] \ {k} |-> work[p][n]]
          /\ \E r : machine' \in {machine, [machine EXCEPT ![k] = r]}
      BY <2>5 DEF Unchanged, SaveMachine, Handled, TypeOK, storeVars
    <3>2. Sole(p) /\ (~unsettled \/ Sweeps(p))
      BY <1>7, <2>0, <3>1, Acting DEF Lonely, Sole, Sweeps
    <3>3. CASE m # k
      <4>1. machine'[m] = machine[m]
        BY <1>0, <3>1, <3>3 DEF StoreOK
      <4>2. Due(p, m) => Due(p, m)'
        BY <3>1, <3>3 DEF Due
      <4>3. Right(m) => Right(m)'
        BY <3>1, <4>1, RightKept
      <4> QED
        BY <1>1, <3>2, <4>1, <4>2, <4>3
    <3>4. CASE m = k
      <4>1. /\ GroupsAsRead(p) /\ unread[p] = {} /\ MachinesAsRead(p)
        BY <3>1, <3>2 DEF Faithful
      <4>2. PICK next \in Computed(p, m) :
              /\ machine'[m].modules = next
              /\ machine'[m].labels = machine[m].labels
              /\ machine'[m].override = machine[m].override
        <5>1. CASE Unchanged(p, k)
          BY <3>4, <4>1, <5>1 DEF Unchanged, MachinesAsRead, storeVars
        <5>2. CASE SaveMachine(p, k)
          <6>1. PICK next \in Computed(p, m) : machine'[m] = Updated(p, m, next)
            BY <1>0, <3>4, <5>2 DEF SaveMachine, StoreOK
          <6>2. work[p][m] \in MachineRecords
            BY <1>0, <3>1, <3>4 DEF RequestOK
          <6>3. /\ Updated(p, m, next).modules = next
                /\ Updated(p, m, next).labels = work[p][m].labels
                /\ Updated(p, m, next).override = work[p][m].override
            BY <6>2 DEF Updated, MachineRecords
          <6> QED
            BY <3>1, <3>4, <4>1, <6>1, <6>3 DEF MachinesAsRead
        <5> QED
          BY <2>5, <5>1, <5>2
      <4>3. next # Nil /\ \A n \in Names : next[n] \in Promised(m, n)
        BY <3>1, <3>4, <4>1, ComputedWins, ComputedPromised
      <4>4. \A n \in Names : Promised(m, n)' = Promised(m, n)
        BY <3>1, <4>2, PromisedKept
      <4> QED
        BY <4>2, <4>3, <4>4 DEF Right
    <3> QED
      BY <3>3, <3>4
  <2>6. ASSUME NEW k \in Machines, SaveMachineFails(p, k) PROVE Fine
    <3>1. pc'[p] = "idle" /\ unsettled'
      BY <2>6 DEF SaveMachineFails, Finish, TypeOK
    <3> QED
      BY <1>3, <1>7, <3>1
  <2>7. CASE ReadFails(p)
    <3>1. pc'[p] = "idle" /\ unsettled'
      BY <2>7 DEF ReadFails, Finish, TypeOK
    <3> QED
      BY <1>3, <1>7, <3>1
  <2> QED
    BY <1>7, <2>1, <2>2, <2>3, <2>4, <2>5, <2>6, <2>7 DEF Recompute
<1>8. ASSUME NEW k \in Machines, handleStatus(k) PROVE Fine
  <2>1. UNCHANGED <<group, member, pc, job, work, crossed, unsettled>>
    BY <1>8 DEF handleStatus, readVars
  <2>2. /\ Exists(machine[m])
        /\ machine'[m].labels = machine[m].labels
        /\ machine'[m].override = machine[m].override
        /\ machine'[m].modules = machine[m].modules
    BY <1>8, Reported
  <2>3. Right(m) => Right(m)'
    BY <2>1, <2>2, RightKept
  <2> QED
    BY <2>1, <2>2, <2>3 DEF Accounted, Sweeps, Sole, Due
<1>9. CASE UNCHANGED vars
  <2>1. Right(m) => Right(m)'
    BY <1>9, RightKept DEF vars
  <2> QED
    BY <1>9, <2>1 DEF Accounted, Sweeps, Sole, Due, vars
<1> QED
  BY <1>4, <1>5, <1>6, <1>7, <1>8, <1>9, <1>10 DEF Next

\* When no request is under way, every machine has the modules its groups,
\* labels and override promise it (Recompute and computeModules, groups.go),
\* from the first tenant-wide Recompute on that runs alone after a call of the
\* store failed, the server was restarted or requests overlapped.
THEOREM EveryMachineIsRight == Spec => []Settled
<1>1. Init => Lonely /\ Fresh /\ Faithful /\ Accounted
  <2> SUFFICES ASSUME Init PROVE Lonely /\ Fresh /\ Faithful /\ Accounted
    OBVIOUS
  <2>1. /\ \A p \in Admins : pc[p] = "idle" /\ memberRead[p] = {}
        /\ \A m \in Machines : ~Exists(machine[m])
    BY DEF Init, Exists, Gone
  <2> QED
    BY <2>1 DEF Lonely, Fresh, Faithful, Accounted, Sole
<1>2. TypeOK /\ Lonely /\ Fresh /\ Faithful /\ [Next]_vars => Lonely'
  <2> SUFFICES ASSUME TypeOK, Lonely, [Next]_vars PROVE Lonely'
    OBVIOUS
  <2>1. ASSUME NEW m \in Machines, handleStatus(m) PROVE Lonely'
    BY <2>1 DEF handleStatus, Lonely, Sole
  <2>2. CASE UNCHANGED vars
    BY <2>2 DEF vars, Lonely, Sole
  <2>3. CASE Restart
    BY <2>3 DEF Restart, Lonely, Sole
  <2> QED
    BY <2>1, <2>2, <2>3, Acting DEF Next
<1>3. Accounted => Settled
  BY DEF Accounted, Settled, Idle, Due, Right
<1> QED
  BY <1>1, <1>2, <1>3, InitTyped, NextTyped, FreshStep, FaithfulStep, AccountedStep, PTL
     DEF Spec
================================================================================
