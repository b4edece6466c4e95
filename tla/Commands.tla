------------------------------ MODULE Commands ------------------------------
(***************************************************************************)
(* Ad-hoc commands (server/commands.go): a script becomes a stored payload *)
(* and a spec in the module list of a group or in the override of machines;*)
(* lists keep the newest commands only and the payloads of the others are  *)
(* deleted; agents fetch payloads when their desired state names them.     *)
(*                                                                         *)
(* A command is its unique name; stamp[c] is the second encoded in it.  A  *)
(* list is the set of commands it holds.  There is one tenant, its one     *)
(* group matches every machine, and the requests are interleaved at the    *)
(* calls of the store; the reads of one Recompute, which ControlPlane      *)
(* takes apart, are one step here.  Every call of the store may report an  *)
(* error, whether it changed the store or not.  This is one life of the    *)
(* server: Delivery, ControlPlane and Stores restart it.                   *)
(***************************************************************************)
EXTENDS Naturals, FiniteSets

CONSTANTS
    Machines,     \* machine ids
    Groups,       \* ids of groups that match every machine
    Commands,     \* command names that may be generated
    Admins,       \* numbers of the requests being served at the same time
    Limit,        \* --max-command-history
    MaxUpsets     \* bound: cancels, overlapping requests and store errors, together

Targets == Machines \cup Groups

ASSUME CommandsAssumption ==
    /\ Machines \cap Groups = {}
    /\ Limit \in Nat \ {0}
    /\ Admins \subseteq Nat
    /\ MaxUpsets \in Nat

VARIABLES
    \* --- the store ---
    payloads,   \* commands whose payload is stored
    list,       \* list[t]: the commands in a machine's override or a group's modules
    desired,    \* desired[m]: the commands in the machine's desired state
    \* --- each request ---
    pc,         \* the call it makes next
    job,        \* the command it queues or cancels
    todo,       \* targets whose list it has still to write
    copy,       \* copy[p]: the lists it has read, with the desired states of machines
    drop,       \* payloads it has still to delete
    hit,        \* machines to recompute
    \* --- agents ---
    ran,        \* ran[m]: commands agent m has executed
    failed,     \* failed[m]: commands it could not fetch
    \* --- observations ---
    stamp,      \* stamp[c]: the second c was created
    used,       \* names generated so far, in order of creation
    aimed,      \* aimed[c]: the machines c is meant for
    queued,     \* queued[c]: the lists a request has put c in
    selected,   \* commands queued by selector
    stray,      \* commands no longer, or never, queued because of a cancel or an error
    overlapped, \* two requests have been under way at once
    erred,      \* a call of the store has reported an error
    upsets      \* bound

storeVars == <<payloads, list, desired>>
requestVars == <<pc, job, todo, copy, drop, hit>>
agentVars == <<ran, failed>>
obsVars == <<stamp, used, aimed, queued, selected, stray, overlapped, erred, upsets>>
vars == <<payloads, list, desired, pc, job, todo, copy, drop, hit, ran, failed,
          stamp, used, aimed, queued, selected, stray, overlapped, erred, upsets>>

NoCommand == 0
Empty == [t \in {} |-> t]

Init ==
    /\ payloads = {}
    /\ list = [t \in Targets |-> {}]
    /\ desired = [m \in Machines |-> {}]
    /\ pc = [p \in Admins |-> "idle"]
    /\ job = [p \in Admins |-> NoCommand]
    /\ todo = [p \in Admins |-> {}]
    /\ copy = [p \in Admins |-> Empty]
    /\ drop = [p \in Admins |-> {}]
    /\ hit = [p \in Admins |-> {}]
    /\ ran = [m \in Machines |-> {}]
    /\ failed = [m \in Machines |-> {}]
    /\ stamp = [c \in Commands |-> 0]
    /\ used = 0
    /\ aimed = [c \in Commands |-> {}]
    /\ queued = [c \in Commands |-> {}]
    /\ selected = {}
    /\ stray = {}
    /\ overlapped = FALSE
    /\ erred = FALSE
    /\ upsets = 0

MembersOf(t) == IF t \in Groups THEN Machines ELSE {t}

Idle == \A p \in Admins : pc[p] = "idle"

Upset == upsets < MaxUpsets /\ upsets' = upsets + 1

\* A request arrives, and is given the first number that is free.
Arrive(p) ==
    /\ pc[p] = "idle"
    /\ \A q \in Admins : q < p => pc[q] # "idle"
    /\ overlapped' = (overlapped \/ ~Idle)

\* The handler returns.
Return(p) ==
    /\ pc' = [pc EXCEPT ![p] = "idle"]
    /\ job' = [job EXCEPT ![p] = NoCommand]
    /\ todo' = [todo EXCEPT ![p] = {}]
    /\ copy' = [copy EXCEPT ![p] = Empty]
    /\ drop' = [drop EXCEPT ![p] = {}]
    /\ hit' = [hit EXCEPT ![p] = {}]

\* A call of the store reports an error; for the bound, that of a cancel is one
\* with the cancel.
Fails(p) ==
    /\ erred' = TRUE
    /\ IF pc[p] \in {"readCancel", "cancel"} THEN UNCHANGED upsets ELSE Upset

------------------------------------------------------------------------------
(* createCommand                                                            *)

\* The command is named after the current second, that of the last command or a
\* later one.  Names are generated in order; seconds without a command are not
\* counted.
commandName(c) ==
    /\ c = used + 1
    /\ used' = c
    /\ \E now \in IF used = 0 THEN {0} ELSE {stamp[used], stamp[used] + 1} :
          stamp' = [stamp EXCEPT ![c] = now]

\* The payload is saved before anything refers to it.
SavePayload(p, c, targets) ==
    /\ Arrive(p)
    /\ IF Idle THEN UNCHANGED upsets ELSE Upset
    /\ commandName(c)
    /\ aimed' = [aimed EXCEPT ![c] = UNION {MembersOf(t) : t \in targets}]
    /\ payloads' = payloads \cup {c}
    /\ job' = [job EXCEPT ![p] = c]
    /\ todo' = [todo EXCEPT ![p] = targets]
    /\ pc' = [pc EXCEPT ![p] = "read"]
    /\ UNCHANGED <<list, desired, copy, drop, hit, agentVars, queued, stray, erred>>

\* The payload cannot be saved, or is and the store reports an error all the
\* same: the request is refused, and the payload that may be there stays.
SavePayloadFails(p, c) ==
    /\ Arrive(p)
    /\ Fails(p)
    /\ commandName(c)
    /\ payloads' \in {payloads, payloads \cup {c}}
    /\ stray' = stray \cup {c}
    /\ UNCHANGED <<list, desired, requestVars, agentVars, aimed, queued, selected>>

\* target_kind group or machine, with a target that exists or not.
createCommand(p, c) ==
    /\ \E targets \in {{}} \cup {{t} : t \in Targets} : SavePayload(p, c, targets)
    /\ UNCHANGED selected

\* target_kind selector: the machines whose labels match, if any.
createSelected(p, c) ==
    /\ \E matching \in SUBSET Machines : SavePayload(p, c, matching)
    /\ selected' = selected \cup {c}

\* cancelCommand: the request names a command and one target.
cancelCommand(p, c) ==
    /\ Arrive(p)
    /\ Upset
    /\ c \in 1..used
    /\ \E t \in Targets : todo' = [todo EXCEPT ![p] = {t}]
    /\ job' = [job EXCEPT ![p] = c]
    /\ pc' = [pc EXCEPT ![p] = "readCancel"]
    /\ UNCHANGED <<storeVars, copy, drop, hit, agentVars, stamp, used, aimed,
                   queued, selected, stray, erred>>

\* (faulty) the lists share one backing array.
Read_shared(p) ==
    /\ pc[p] \in {"read", "readCancel"}
    /\ todo[p] # {}
    /\ copy' = [copy EXCEPT ![p] = [t \in todo[p] |->
                    [list |-> UNION {list[u] : u \in todo[p]},
                     desired |-> IF t \in Machines THEN desired[t] ELSE {}]]]
    /\ pc' = [pc EXCEPT ![p] = IF @ = "read" THEN "append" ELSE "cancel"]
    /\ UNCHANGED <<storeVars, job, todo, drop, hit, agentVars, obsVars>>

\* The records the request works on: one target, or every selected machine.
Read(p) ==
    /\ pc[p] \in {"read", "readCancel"}
    /\ todo[p] # {}
    /\ copy' = [copy EXCEPT ![p] = [t \in todo[p] |->
                    [list |-> list[t], desired |-> IF t \in Machines THEN desired[t] ELSE {}]]]
    /\ pc' = [pc EXCEPT ![p] = IF @ = "read" THEN "append" ELSE "cancel"]
    /\ UNCHANGED <<storeVars, job, todo, drop, hit, agentVars, obsVars>>

\* A record, or the list of machines, cannot be read: the request is refused and
\* its payload stays.
ReadFails(p) ==
    /\ pc[p] \in {"read", "readCancel"}
    /\ Fails(p)
    /\ Return(p)
    /\ stray' = IF pc[p] = "read" THEN stray \cup {job[p]} ELSE stray
    /\ UNCHANGED <<storeVars, agentVars, stamp, used, aimed, queued, selected, overlapped>>

\* The target does not exist: the request is refused and its payload stays.
UnknownTarget(p) ==
    /\ pc[p] = "read"
    /\ todo[p] = {} /\ job[p] \notin selected
    /\ Return(p)
    /\ stray' = stray \cup {job[p]}
    /\ UNCHANGED <<storeVars, agentVars, stamp, used, aimed, queued, selected,
                   overlapped, erred, upsets>>

\* No machine matched, or none could be saved: the payload is dropped again
\* and the request refused.
NothingSelected(p) ==
    /\ pc[p] \in {"read", "append"}
    /\ todo[p] = {} /\ hit[p] = {} /\ job[p] \in selected
    /\ Return(p)
    /\ payloads' = payloads \ {job[p]}
    /\ UNCHANGED <<list, desired, agentVars, obsVars>>

\* ... and the error of the removal is ignored.
NothingSelectedFails(p) ==
    /\ pc[p] \in {"read", "append"}
    /\ todo[p] = {} /\ hit[p] = {} /\ job[p] \in selected
    /\ Fails(p)
    /\ Return(p)
    /\ payloads' \in {payloads, payloads \ {job[p]}}
    /\ stray' = stray \cup {job[p]}
    /\ UNCHANGED <<list, desired, agentVars, stamp, used, aimed, queued, selected, overlapped>>

\* (faulty) the oldest are kept.
pruneCommands_oldest(cmds) ==
    IF Cardinality(cmds) <= Limit THEN {cmds}
    ELSE {kept \in SUBSET cmds :
             /\ Cardinality(kept) = Limit
             /\ \A k \in kept, d \in cmds \ kept : stamp[k] <= stamp[d]}

\* What pruneCommands may keep: the newest Limit by second, ties broken anyhow.
pruneCommands(cmds) ==
    IF Cardinality(cmds) <= Limit THEN {cmds}
    ELSE {kept \in SUBSET cmds :
             /\ Cardinality(kept) = Limit
             /\ \A k \in kept, d \in cmds \ kept : stamp[k] >= stamp[d]}

\* Write back the whole record of t, as it was read but for its list.
Put(p, t, cmds) ==
    /\ list' = [list EXCEPT ![t] = cmds]
    /\ desired' = IF t \in Machines
                  THEN [desired EXCEPT ![t] = copy[p][t].desired] ELSE desired

\* An error is reported of it: the store may have changed all the same.
PutFails(p, t, cmds) ==
    /\ Fails(p)
    /\ Put(p, t, cmds) \/ UNCHANGED <<list, desired>>

SaveList(p, t, cmds) ==
    /\ Put(p, t, cmds)
    /\ todo' = [todo EXCEPT ![p] = @ \ {t}]
    /\ hit' = [hit EXCEPT ![p] = @ \cup MembersOf(t)]

\* (faulty) the names reported as dropped are those that were kept.
Append_wrongSlice(p, t) ==
    /\ pc[p] = "append"
    /\ drop[p] = {}
    /\ t \in todo[p]
    /\ LET cmds == copy[p][t].list \cup {job[p]} IN
       \E kept \in pruneCommands(cmds) :
          /\ SaveList(p, t, kept)
          /\ drop' = [drop EXCEPT ![p] = IF kept = cmds THEN {} ELSE kept]
          /\ queued' = [queued EXCEPT ![job[p]] = @ \cup {t}]
    /\ UNCHANGED <<payloads, pc, job, copy, agentVars, stamp, used, aimed,
                   selected, stray, overlapped, erred, upsets>>

\* Append, prune, save; the pruned payloads are deleted before the next target.
Append(p, t) ==
    /\ pc[p] = "append"
    /\ drop[p] = {}
    /\ t \in todo[p]
    /\ LET cmds == copy[p][t].list \cup {job[p]} IN
       \E kept \in pruneCommands(cmds) :
          /\ SaveList(p, t, kept)
          /\ drop' = [drop EXCEPT ![p] = cmds \ kept]
          /\ queued' = [queued EXCEPT ![job[p]] = @ \cup {t}]
    /\ UNCHANGED <<payloads, pc, job, copy, agentVars, stamp, used, aimed,
                   selected, stray, overlapped, erred, upsets>>

\* The record cannot be saved: a selector goes on with the next machine, other
\* requests return.  No payload is deleted.
AppendFails(p, t) ==
    /\ pc[p] = "append"
    /\ drop[p] = {}
    /\ t \in todo[p]
    /\ LET cmds == copy[p][t].list \cup {job[p]} IN
       \E kept \in pruneCommands(cmds) :
          /\ PutFails(p, t, kept)
          /\ stray' = stray \cup {job[p]} \cup (cmds \ kept)
    /\ IF job[p] \in selected
       THEN todo' = [todo EXCEPT ![p] = @ \ {t}] /\ UNCHANGED <<pc, job, copy, drop, hit>>
       ELSE Return(p)
    /\ UNCHANGED <<payloads, agentVars, stamp, used, aimed, queued,
                   selected, overlapped>>

\* (faulty) pruned payloads are not deleted.
ForgetCommand_keep(p, d) ==
    /\ d \in drop[p]
    /\ drop' = [drop EXCEPT ![p] = @ \ {d}]
    /\ UNCHANGED <<storeVars, pc, job, todo, copy, hit, agentVars, obsVars>>

\* forgetCommands deletes one payload after the other.
ForgetCommand(p, d) ==
    /\ d \in drop[p]
    /\ drop' = [drop EXCEPT ![p] = @ \ {d}]
    /\ payloads' = payloads \ {d}
    /\ UNCHANGED <<list, desired, pc, job, todo, copy, hit, agentVars, obsVars>>

\* ... and goes on when an error is reported of one.
ForgetFails(p, d) ==
    /\ d \in drop[p]
    /\ Fails(p)
    /\ drop' = [drop EXCEPT ![p] = @ \ {d}]
    /\ payloads' \in {payloads, payloads \ {d}}
    /\ stray' = stray \cup {d}
    /\ UNCHANGED <<list, desired, pc, job, todo, copy, hit, agentVars, stamp, used,
                   aimed, queued, selected, overlapped>>

\* The payload of a cancelled command stays.
Cancel(p, t) ==
    /\ pc[p] = "cancel"
    /\ t \in todo[p]
    /\ SaveList(p, t, copy[p][t].list \ {job[p]})
    /\ queued' = [queued EXCEPT ![job[p]] = @ \ {t}]
    /\ stray' = stray \cup ({job[p]} \cap copy[p][t].list)
    /\ UNCHANGED <<payloads, pc, job, copy, drop, agentVars, stamp, used, aimed,
                   selected, overlapped, erred, upsets>>

\* The record cannot be saved and nothing is recomputed.
CancelFails(p, t) ==
    /\ pc[p] = "cancel"
    /\ t \in todo[p]
    /\ PutFails(p, t, copy[p][t].list \ {job[p]})
    /\ Return(p)
    /\ queued' = [queued EXCEPT ![job[p]] = @ \ {t}]
    /\ stray' = stray \cup ({job[p]} \cap copy[p][t].list)
    /\ UNCHANGED <<payloads, agentVars, stamp, used, aimed, selected, overlapped>>

------------------------------------------------------------------------------
(* Recompute, for the commands in it                                        *)

\* (faulty) the groups' modules are left out.
RecomputeRead_ownOnly(p) ==
    /\ pc[p] \in {"append", "cancel"}
    /\ todo[p] = {} /\ drop[p] = {} /\ hit[p] # {}
    /\ copy' = [copy EXCEPT ![p] = [m \in hit[p] |->
                    [list |-> list[m], desired |-> desired[m], next |-> list[m]]]]
    /\ pc' = [pc EXCEPT ![p] = "recompute"]
    /\ UNCHANGED <<storeVars, job, todo, drop, hit, agentVars, obsVars>>

RecomputeRead(p) ==
    /\ pc[p] \in {"append", "cancel"}
    /\ todo[p] = {} /\ drop[p] = {} /\ hit[p] # {}
    /\ copy' = [copy EXCEPT ![p] = [m \in hit[p] |->
                    [list |-> list[m], desired |-> desired[m],
                     next |-> list[m] \cup UNION {list[g] : g \in Groups}]]]
    /\ pc' = [pc EXCEPT ![p] = "recompute"]
    /\ UNCHANGED <<storeVars, job, todo, drop, hit, agentVars, obsVars>>

\* When the modules changed the whole record goes back, with the list it had
\* when it was read.
PutDesired(p, m) ==
    IF copy[p][m].next = copy[p][m].desired
    THEN UNCHANGED <<list, desired>>
    ELSE /\ list' = [list EXCEPT ![m] = copy[p][m].list]
         /\ desired' = [desired EXCEPT ![m] = copy[p][m].next]

RecomputeSave(p, m) ==
    /\ pc[p] = "recompute"
    /\ m \in hit[p]
    /\ PutDesired(p, m)
    /\ hit' = [hit EXCEPT ![p] = @ \ {m}]
    /\ UNCHANGED <<payloads, pc, job, todo, copy, drop, agentVars, obsVars>>

\* A read or a write of Recompute reports an error: it gives up on the machines
\* that are left, and the handler logs that and answers.
RecomputeFails(p) ==
    /\ pc[p] \in {"append", "cancel", "recompute"}
    /\ todo[p] = {} /\ drop[p] = {} /\ hit[p] # {}
    /\ Fails(p)
    /\ \/ UNCHANGED <<list, desired>>
       \/ pc[p] = "recompute" /\ \E m \in hit[p] : PutDesired(p, m)
    /\ Return(p)
    /\ UNCHANGED <<payloads, agentVars, stamp, used, aimed, queued, selected, stray, overlapped>>

Answer(p) ==
    /\ pc[p] = "recompute"
    /\ hit[p] = {}
    /\ Return(p)
    /\ UNCHANGED <<storeVars, agentVars, obsVars>>

Work(p) ==
    \/ Read(p) \/ UnknownTarget(p) \/ NothingSelected(p)
    \/ \E t \in Targets : Append(p, t) \/ Cancel(p, t)
    \/ \E d \in Commands : ForgetCommand(p, d)
    \/ RecomputeRead(p) \/ Answer(p)
    \/ \E m \in Machines : RecomputeSave(p, m)

StoreFails(p) ==
    \/ ReadFails(p) \/ NothingSelectedFails(p)
    \/ \E t \in Targets : AppendFails(p, t) \/ CancelFails(p, t)
    \/ \E d \in Commands : ForgetFails(p, d)
    \/ RecomputeFails(p)

------------------------------------------------------------------------------
(* Agents                                                                   *)

\* handleModule answers with the payload and the agent runs it, or with a 404
\* and the agent reports a failure it retries for as long as it is desired.
Run(m, c) ==
    /\ c \in desired[m] \ ran[m]
    /\ \/ /\ c \in payloads
          /\ ran' = [ran EXCEPT ![m] = @ \cup {c}]
          /\ UNCHANGED failed
       \/ /\ c \notin payloads
          /\ c \notin failed[m]
          /\ failed' = [failed EXCEPT ![m] = @ \cup {c}]
          /\ UNCHANGED ran
    /\ UNCHANGED <<storeVars, requestVars, obsVars>>

Next ==
    \/ \E p \in Admins, c \in Commands :
          \/ createCommand(p, c) \/ createSelected(p, c) \/ cancelCommand(p, c)
          \/ SavePayloadFails(p, c)
    \/ \E p \in Admins : Work(p) \/ StoreFails(p)
    \/ \E m \in Machines, c \in Commands : Run(m, c)

Spec == Init /\ [][Next]_vars

\* A request that was accepted is served to its end, and an agent fetches
\* what it is told to (its stream and its five-minute retry see to it).
LiveSpec ==
    /\ Spec
    /\ \A p \in Admins : WF_vars(Work(p))
    /\ \A m \in Machines : \A c \in Commands : WF_vars(Run(m, c))

------------------------------------------------------------------------------
(* Properties                                                               *)

Steps == {"idle", "read", "readCancel", "append", "cancel", "recompute"}
Lists(m) == list[m] \cup UNION {list[g] : g \in Groups}
Listed == UNION {list[t] : t \in Targets}

TypeOK ==
    /\ payloads \subseteq 1..used
    /\ list \in [Targets -> SUBSET (1..used)]
    /\ desired \in [Machines -> SUBSET (1..used)]
    /\ pc \in [Admins -> Steps]
    /\ job \in [Admins -> 0..used]
    /\ todo \in [Admins -> SUBSET Targets]
    /\ DOMAIN copy = Admins
    /\ drop \in [Admins -> SUBSET (1..used)]
    /\ hit \in [Admins -> SUBSET Machines]
    /\ \A p \in Admins : pc[p] = "idle" => todo[p] = {} /\ drop[p] = {} /\ hit[p] = {}
    /\ used \in Nat /\ 1..used \subseteq Commands
    /\ aimed \in [Commands -> SUBSET Machines]
    /\ ran \in [Machines -> SUBSET (1..used)]
    /\ failed \in [Machines -> SUBSET (1..used)]
    /\ upsets \in 0..MaxUpsets

\* A list never names a command whose payload is not stored: the history limit
\* "bounds how many ad-hoc commands are retained per target" (defaultCommandHistory),
\* so what one target drops is no matter of another's, at every step, when writes
\* fail too.
EveryPayloadKept == Listed \subseteq payloads

\* It is so for commands of one list, while requests do not overlap: a payload
\* queued by selector is shared by the lists of several machines and deleted
\* when the first of them drops it, and a list written back stale may name a
\* command that was dropped meanwhile.
PayloadsKept == ~overlapped => Listed \subseteq payloads \cup selected

\* Nor is a payload left that no list names (createCommand: "drop the
\* artifact rather than leaving an orphan payload that no machine will ever
\* pull"), once no request is under way: but for cancelled and refused
\* commands and for those of which the store reported an error.
NoOrphans == Idle /\ ~overlapped => payloads \subseteq Listed \cup stray

\* What a list dropped is never of a later second than what it kept
\* (pruneCommands "trims cmd-* specs to the newest maxCommandHistory"): only
\* among commands of one second may a newer one go.
NewestSecondsKept ==
    Idle /\ ~overlapped =>
        \A c \in Commands : \A t \in queued[c] :
            c \in list[t] \/ \A k \in list[t] : stamp[k] >= stamp[c]

\* An agent is told that a payload does not exist only for commands that no
\* list of its machine names any more.
MissesOnlyDropped ==
    ~overlapped => \A m \in Machines : failed[m] \cap Lists(m) \subseteq selected

\* No command runs on a machine it was not aimed at, whatever requests
\* overlap: records that are written back stale carry only their own commands.
AimedOnly == \A m \in Machines : \A c \in ran[m] : m \in aimed[c]

\* A command runs on every machine of its list, or its payload is missed, or it
\* leaves the list first ("in desired state + absent from status -> queued, not
\* yet run"), as long as requests do not overlap and the store does not fail.
Runs ==
    \A m \in Machines : \A c \in Commands :
        c \in Lists(m) ~>
            c \in ran[m] \cup failed[m] \/ c \notin Lists(m) \/ overlapped \/ erred
==============================================================================
