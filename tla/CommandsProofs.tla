---------------------------- MODULE CommandsProofs ----------------------------
(***************************************************************************)
(* For any number of machines, groups, commands and requests: the types,   *)
(* that no command runs where it was not aimed, and, of requests that do   *)
(* not overlap, that payloads, lists and what agents miss agree.           *)
(*                                                                         *)
(* AimedOnly speaks of what has run.  A command gets there from a desired  *)
(* state, from a list, or from a copy of either that a request has read    *)
(* and writes back later: all of them hold only what is aimed at their     *)
(* machines (StoreAimed, CopiesAimed), and so does the command a request   *)
(* is about to append (JobsAimed).                                         *)
(*                                                                         *)
(* Of one request after the other, payloads and lists agree up to what the *)
(* request still holds in memory: the command it has stored and not listed *)
(* and the payloads it has unlisted and not deleted (Wanted, Unqueued),    *)
(* and what it has read is what is stored (Current).                       *)
(***************************************************************************)
EXTENDS Commands, TLAPS

\* The commands a list of t may hold.
For(t) == {c \in 1..used : MembersOf(t) \subseteq aimed[c]}

StoreAimed ==
    /\ \A t \in Targets : list[t] \subseteq For(t)
    /\ \A m \in Machines : desired[m] \subseteq For(m) /\ ran[m] \subseteq For(m)

CopiesAimed ==
    \A p \in Admins :
        /\ pc[p] \in {"append", "cancel"} =>
              \A t \in todo[p] : /\ copy[p][t].list \subseteq For(t)
                                 /\ t \in Machines => copy[p][t].desired \subseteq For(t)
        /\ pc[p] = "recompute" =>
              \A m \in hit[p] : copy[p][m].list \subseteq For(m) /\ copy[p][m].next \subseteq For(m)

JobsAimed ==
    \A p \in Admins : pc[p] \in {"read", "append"} =>
        /\ job[p] \in 1..used
        /\ \A t \in todo[p] : job[p] \in For(t)

Inv == TypeOK /\ StoreAimed /\ CopiesAimed /\ JobsAimed

LEMMA ForMachine == ASSUME NEW m \in Machines PROVE MembersOf(m) = {m}
  BY CommandsAssumption DEF MembersOf

LEMMA ForGroup ==
    ASSUME NEW m \in Machines, NEW g \in Groups PROVE For(g) \subseteq For(m)
  BY ForMachine DEF For, MembersOf

LEMMA MembersTyped == ASSUME NEW t \in Targets PROVE MembersOf(t) \subseteq Machines
  BY DEF MembersOf, Targets

\* pruneCommands only drops.
LEMMA PruneKeeps ==
    ASSUME NEW cmds, NEW kept \in pruneCommands(cmds) PROVE kept \subseteq cmds
  BY DEF pruneCommands

LEMMA ForTyped == ASSUME NEW t PROVE For(t) \subseteq 1..used
  BY DEF For

LEMMA InitInv == Init => Inv
  BY CommandsAssumption DEF Init, Inv, TypeOK, StoreAimed, CopiesAimed, JobsAimed, Steps,
                            NoCommand

\* A request that arrives with command c for some targets.
LEMMA Saved ==
    ASSUME Inv, NEW p \in Admins, NEW c \in Commands, NEW targets \in SUBSET Targets,
           SavePayload(p, c, targets)
    PROVE  Inv'
<1>0. TypeOK /\ StoreAimed /\ CopiesAimed /\ JobsAimed
  BY DEF Inv
<1>1. /\ c = used + 1 /\ used' = c /\ c \notin 1..used
      /\ used \in Nat /\ 1..used' = 1..used \cup {c}
  BY <1>0 DEF SavePayload, commandName, TypeOK
<1>2. /\ pc[p] = "idle"
      /\ job' = [job EXCEPT ![p] = c]
      /\ todo' = [todo EXCEPT ![p] = targets]
      /\ pc' = [pc EXCEPT ![p] = "read"]
      /\ payloads' = payloads \cup {c}
      /\ UNCHANGED <<list, desired, copy, drop, hit, ran, failed>>
  BY DEF SavePayload, Arrive, agentVars
<1>3. /\ aimed' = [aimed EXCEPT ![c] = UNION {MembersOf(t) : t \in targets}]
      /\ UNION {MembersOf(t) : t \in targets} \subseteq Machines
  BY MembersTyped DEF SavePayload
<1>4. aimed' \in [Commands -> SUBSET Machines]
  BY <1>0, <1>3 DEF TypeOK
<1>5. \A d \in 1..used : aimed'[d] = aimed[d]
  BY <1>0, <1>1, <1>3 DEF TypeOK
<1>6. \A t : For(t) \subseteq For(t)'
  BY <1>1, <1>5 DEF For, MembersOf
<1>7. \A t \in targets : c \in For(t)'
  <2>1. aimed'[c] = UNION {MembersOf(t) : t \in targets}
    BY <1>0, <1>3 DEF TypeOK
  <2> QED
    BY <1>1, <2>1 DEF For, MembersOf
<1>8. upsets' \in 0..MaxUpsets
  BY <1>0, CommandsAssumption DEF SavePayload, Upset, TypeOK
<1>9. TypeOK'
  <2>1. /\ pc' \in [Admins -> Steps]
        /\ job' \in [Admins -> 0..used']
        /\ todo' \in [Admins -> SUBSET Targets]
    BY <1>0, <1>1, <1>2 DEF TypeOK, Steps
  <2>2. \A q \in Admins : pc'[q] = "idle" => q # p /\ pc[q] = "idle" /\ todo'[q] = todo[q]
    BY <1>0, <1>2 DEF TypeOK
  <2>3. \A q \in Admins : pc'[q] = "idle" => todo'[q] = {} /\ drop'[q] = {} /\ hit'[q] = {}
    BY <1>0, <1>2, <2>2 DEF TypeOK
  <2>4. SUBSET (1..used) \subseteq SUBSET (1..used')
    BY <1>1
  <2>5. payloads' \subseteq 1..used' /\ used' \in Nat /\ 1..used' \subseteq Commands
    BY <1>0, <1>1, <1>2 DEF TypeOK
  <2> QED
    BY <1>0, <1>2, <1>4, <1>8, <2>1, <2>3, <2>4, <2>5 DEF TypeOK
<1>10. StoreAimed'
  BY <1>0, <1>2, <1>6 DEF StoreAimed
<1>11. CopiesAimed'
  <2>1. \A q \in Admins : pc'[q] # "read" =>
            q # p /\ pc'[q] = pc[q] /\ todo'[q] = todo[q] /\ hit'[q] = hit[q] /\ copy'[q] = copy[q]
    BY <1>0, <1>2 DEF TypeOK
  <2> QED
    BY <1>0, <1>6, <2>1 DEF CopiesAimed
<1>12. JobsAimed'
  <2>1. job'[p] = c /\ todo'[p] = targets
    BY <1>0, <1>2 DEF TypeOK
  <2>2. \A q \in Admins \ {p} : pc'[q] = pc[q] /\ todo'[q] = todo[q] /\ job'[q] = job[q]
    BY <1>0, <1>2 DEF TypeOK
  <2> QED
    BY <1>0, <1>1, <1>6, <1>7, <2>1, <2>2 DEF JobsAimed
<1> QED
  BY <1>9, <1>10, <1>11, <1>12 DEF Inv

\* What is aimed where changes only when a command arrives.
LEMMA ForKept ==
    ASSUME UNCHANGED <<used, aimed>>, NEW t PROVE For(t)' = For(t)
  BY DEF For, MembersOf

\* The handler returns: nothing is left of the request.
LEMMA Returned ==
    ASSUME Inv, NEW p \in Admins, Return(p), UNCHANGED <<used, aimed, ran, failed>>,
           payloads' \subseteq payloads, upsets' \in 0..MaxUpsets,
           list' \in [Targets -> SUBSET (1..used)],
           \A t \in Targets : list'[t] \subseteq For(t),
           desired' \in [Machines -> SUBSET (1..used)],
           \A m \in Machines : desired'[m] \subseteq For(m)
    PROVE  Inv'
<1>0. TypeOK /\ StoreAimed /\ CopiesAimed /\ JobsAimed
  BY DEF Inv
<1>1. \A t : For(t)' = For(t)
  BY ForKept
<1>2. /\ pc'[p] = "idle" /\ todo'[p] = {} /\ drop'[p] = {} /\ hit'[p] = {}
      /\ \A q \in Admins \ {p} :
            /\ pc'[q] = pc[q] /\ job'[q] = job[q] /\ todo'[q] = todo[q]
            /\ copy'[q] = copy[q] /\ drop'[q] = drop[q] /\ hit'[q] = hit[q]
  BY <1>0 DEF Return, TypeOK
<1>3. /\ pc' \in [Admins -> Steps] /\ job' \in [Admins -> 0..used]
      /\ todo' \in [Admins -> SUBSET Targets] /\ DOMAIN copy' = Admins
      /\ drop' \in [Admins -> SUBSET (1..used)] /\ hit' \in [Admins -> SUBSET Machines]
  BY <1>0 DEF Return, TypeOK, Steps, NoCommand
<1>4. TypeOK'
  BY <1>0, <1>2, <1>3 DEF TypeOK
<1>5. StoreAimed'
  BY <1>0, <1>1 DEF StoreAimed
<1>6. CopiesAimed'
  BY <1>0, <1>1, <1>2 DEF CopiesAimed
<1>7. JobsAimed'
  BY <1>0, <1>1, <1>2 DEF JobsAimed
<1> QED
  BY <1>4, <1>5, <1>6, <1>7 DEF Inv

\* What a request writes back, or tries to: some of what was read, and perhaps
\* the command.
LEMMA PutTyped ==
    ASSUME Inv, NEW p \in Admins, NEW t \in todo[p], NEW cmds, cmds \subseteq For(t),
           pc[p] \in {"append", "cancel"},
           Put(p, t, cmds) \/ UNCHANGED <<list, desired>>
    PROVE  /\ list' \in [Targets -> SUBSET (1..used)]
           /\ \A u \in Targets : list'[u] \subseteq For(u)
           /\ desired' \in [Machines -> SUBSET (1..used)]
           /\ \A m \in Machines : desired'[m] \subseteq For(m)
<1>0. TypeOK /\ StoreAimed /\ CopiesAimed
  BY DEF Inv
<1>1. \A u : For(u) \subseteq 1..used
  BY ForTyped
<1>2. t \in Targets /\ (t \in Machines => copy[p][t].desired \subseteq For(t))
  BY <1>0 DEF TypeOK, CopiesAimed
<1>3. CASE UNCHANGED <<list, desired>>
  BY <1>0, <1>3 DEF TypeOK, StoreAimed
<1>4. CASE Put(p, t, cmds)
  <2>1. /\ list' \in [Targets -> SUBSET (1..used)]
        /\ \A u \in Targets : list'[u] \subseteq For(u)
    BY <1>0, <1>1, <1>2, <1>4 DEF Put, TypeOK, StoreAimed
  <2>2. CASE t \in Machines
    BY <1>0, <1>1, <1>2, <1>4, <2>1, <2>2 DEF Put, TypeOK, StoreAimed
  <2>3. CASE t \notin Machines
    BY <1>0, <1>4, <2>1, <2>3 DEF Put, TypeOK, StoreAimed
  <2> QED
    BY <2>2, <2>3
<1> QED
  BY <1>3, <1>4

\* What Recompute writes back, or tries to.
LEMMA DesiredTyped ==
    ASSUME Inv, NEW p \in Admins, NEW m \in hit[p], pc[p] = "recompute", PutDesired(p, m)
    PROVE  /\ list' \in [Targets -> SUBSET (1..used)]
           /\ \A u \in Targets : list'[u] \subseteq For(u)
           /\ desired' \in [Machines -> SUBSET (1..used)]
           /\ \A k \in Machines : desired'[k] \subseteq For(k)
<1>0. TypeOK /\ StoreAimed /\ CopiesAimed
  BY DEF Inv
<1>1. For(m) \subseteq 1..used /\ m \in Machines
  BY <1>0, ForTyped DEF TypeOK
<1>2. copy[p][m].list \subseteq For(m) /\ copy[p][m].next \subseteq For(m)
  BY <1>0 DEF CopiesAimed
<1> QED
  BY <1>0, <1>1, <1>2 DEF PutDesired, TypeOK, StoreAimed, Targets

\* A request whose command cannot be saved: a name is used up, nothing else happens.
LEMMA SaveFailed ==
    ASSUME Inv, NEW p \in Admins, NEW c \in Commands, SavePayloadFails(p, c)
    PROVE  Inv'
<1>0. TypeOK /\ StoreAimed /\ CopiesAimed /\ JobsAimed
  BY DEF Inv
<1>1. /\ c = used + 1 /\ used' = c
      /\ used \in Nat /\ 1..used' = 1..used \cup {c}
  BY <1>0 DEF SavePayloadFails, commandName, TypeOK
<1>2. /\ UNCHANGED <<list, desired, pc, job, todo, copy, drop, hit, ran, failed, aimed>>
      /\ payloads' \subseteq payloads \cup {c}
  BY DEF SavePayloadFails, requestVars, agentVars
<1>3. upsets' \in 0..MaxUpsets
  BY <1>0, CommandsAssumption DEF SavePayloadFails, Fails, Upset, TypeOK
<1>4. \A t : For(t) \subseteq For(t)'
  BY <1>1, <1>2 DEF For, MembersOf
<1>5. TypeOK'
  <2>1. SUBSET (1..used) \subseteq SUBSET (1..used') /\ 0..used \subseteq 0..used'
    BY <1>1
  <2>2. payloads' \subseteq 1..used' /\ used' \in Nat /\ 1..used' \subseteq Commands
    BY <1>0, <1>1, <1>2 DEF TypeOK
  <2> QED
    BY <1>0, <1>2, <1>3, <2>1, <2>2 DEF TypeOK
<1>6. StoreAimed'
  BY <1>0, <1>2, <1>4 DEF StoreAimed
<1>7. CopiesAimed'
  BY <1>0, <1>2, <1>4 DEF CopiesAimed
<1>8. JobsAimed'
  BY <1>0, <1>1, <1>2, <1>4 DEF JobsAimed
<1> QED
  BY <1>5, <1>6, <1>7, <1>8 DEF Inv

\* A step of a request that does not return and leaves the lists alone.
LEMMA Worked ==
    ASSUME Inv, NEW p \in Admins,
           UNCHANGED <<used, aimed, list, desired, ran, failed, job>>,
           payloads' \subseteq payloads, upsets' \in 0..MaxUpsets,
           UNCHANGED todo, NEW s \in Steps \ {"idle"}, pc' = [pc EXCEPT ![p] = s],
           s \in {"read", "append"} => pc[p] \in {"read", "append"},
           DOMAIN copy' = Admins, \A q \in Admins \ {p} : copy'[q] = copy[q],
           NEW D \in SUBSET (1..used), drop' = [drop EXCEPT ![p] = D],
           NEW H \in SUBSET Machines, hit' = [hit EXCEPT ![p] = H],
           s \in {"append", "cancel"} =>
              \A t \in todo[p] : /\ copy'[p][t].list \subseteq For(t)
                                 /\ t \in Machines => copy'[p][t].desired \subseteq For(t),
           s = "recompute" =>
              \A m \in H : copy'[p][m].list \subseteq For(m) /\ copy'[p][m].next \subseteq For(m)
    PROVE  Inv'
<1>0. TypeOK /\ StoreAimed /\ CopiesAimed /\ JobsAimed
  BY DEF Inv
<1>1. \A t : For(t)' = For(t)
  BY ForKept
<1>2. /\ pc'[p] = s /\ hit'[p] = H
      /\ \A q \in Admins \ {p} : pc'[q] = pc[q] /\ drop'[q] = drop[q] /\ hit'[q] = hit[q]
  BY <1>0 DEF TypeOK
<1>3. /\ pc' \in [Admins -> Steps] /\ drop' \in [Admins -> SUBSET (1..used)]
      /\ hit' \in [Admins -> SUBSET Machines]
  BY <1>0 DEF TypeOK
<1>4. TypeOK'
  BY <1>0, <1>2, <1>3 DEF TypeOK
<1>5. StoreAimed'
  BY <1>0, <1>1 DEF StoreAimed
<1>6. CopiesAimed'
  BY <1>0, <1>1, <1>2 DEF CopiesAimed
<1>7. JobsAimed'
  BY <1>0, <1>1, <1>2 DEF JobsAimed
<1> QED
  BY <1>4, <1>5, <1>6, <1>7 DEF Inv

\* A record is written back with some of what was read, and perhaps the command.
LEMMA WrittenBack ==
    ASSUME Inv, NEW p \in Admins, NEW t \in todo[p], NEW cmds, cmds \subseteq For(t),
           pc[p] \in {"append", "cancel"}, SaveList(p, t, cmds), UNCHANGED pc,
           UNCHANGED <<used, aimed, payloads, ran, failed, job, copy, upsets>>,
           drop' = drop \/ \E D \in SUBSET (1..used) : drop' = [drop EXCEPT ![p] = D]
    PROVE  Inv'
<1>0. TypeOK /\ StoreAimed /\ CopiesAimed /\ JobsAimed
  BY DEF Inv
<1>1. \A u : For(u)' = For(u) /\ For(u) \subseteq 1..used
  BY ForKept, ForTyped
<1>2. t \in Targets
  BY <1>0 DEF TypeOK
<1>3. Put(p, t, cmds)
  BY DEF SaveList
<1>4. /\ list' \in [Targets -> SUBSET (1..used)]
      /\ \A u \in Targets : list'[u] \subseteq For(u)
      /\ desired' \in [Machines -> SUBSET (1..used)]
      /\ \A m \in Machines : desired'[m] \subseteq For(m)
  BY <1>3, PutTyped
<1>5. /\ todo' \in [Admins -> SUBSET Targets]
      /\ \A q \in Admins : todo'[q] \subseteq todo[q]
      /\ hit' \in [Admins -> SUBSET Machines]
      /\ \A q \in Admins \ {p} : hit'[q] = hit[q]
  BY <1>0, <1>2, MembersTyped DEF SaveList, TypeOK
<1>6. drop' \in [Admins -> SUBSET (1..used)] /\ \A q \in Admins \ {p} : drop'[q] = drop[q]
  BY <1>0 DEF TypeOK
<1>7. TypeOK'
  BY <1>0, <1>4, <1>5, <1>6 DEF TypeOK
<1>8. StoreAimed'
  BY <1>0, <1>1, <1>4 DEF StoreAimed
<1>9. CopiesAimed'
  BY <1>0, <1>1, <1>5 DEF CopiesAimed
<1>10. JobsAimed'
  BY <1>0, <1>1, <1>5 DEF JobsAimed
<1> QED
  BY <1>7, <1>8, <1>9, <1>10 DEF Inv

LEMMA NextInv == Inv /\ [Next]_vars => Inv'
<1> SUFFICES ASSUME Inv, [Next]_vars PROVE Inv'
  OBVIOUS
<1>0. TypeOK /\ StoreAimed /\ CopiesAimed /\ JobsAimed
  BY DEF Inv
<1>1. CASE UNCHANGED vars
  BY <1>0, <1>1, ForKept DEF Inv, TypeOK, StoreAimed, CopiesAimed, JobsAimed, vars
<1>2. ASSUME NEW p \in Admins, NEW c \in Commands, createCommand(p, c) PROVE Inv'
  <2>1. PICK targets \in {{}} \cup {{t} : t \in Targets} : SavePayload(p, c, targets)
    BY <1>2 DEF createCommand
  <2> QED
    BY <2>1, Saved
<1>3. ASSUME NEW p \in Admins, NEW c \in Commands, createSelected(p, c) PROVE Inv'
  <2>1. PICK matching \in SUBSET Machines : SavePayload(p, c, matching)
    BY <1>3 DEF createSelected
  <2> QED
    BY <2>1, Saved DEF Targets
<1>4. ASSUME NEW p \in Admins, NEW c \in Commands, cancelCommand(p, c) PROVE Inv'
  <2>1. PICK t \in Targets : todo' = [todo EXCEPT ![p] = {t}]
    BY <1>4 DEF cancelCommand
  <2>2. /\ c \in 1..used /\ job' = [job EXCEPT ![p] = c]
        /\ pc' = [pc EXCEPT ![p] = "readCancel"] /\ upsets' \in 0..MaxUpsets
        /\ UNCHANGED <<payloads, list, desired, copy, drop, hit, ran, failed, used, aimed>>
    BY <1>0, <1>4, CommandsAssumption DEF cancelCommand, Upset, TypeOK, storeVars, agentVars
  <2>3. /\ pc' \in [Admins -> Steps] /\ job' \in [Admins -> 0..used]
        /\ todo' \in [Admins -> SUBSET Targets]
        /\ pc'[p] = "readCancel"
        /\ \A q \in Admins \ {p} : pc'[q] = pc[q] /\ todo'[q] = todo[q] /\ job'[q] = job[q]
    BY <1>0, <2>1, <2>2 DEF TypeOK, Steps
  <2>4. TypeOK'
    BY <1>0, <2>2, <2>3 DEF TypeOK
  <2>5. StoreAimed' /\ CopiesAimed' /\ JobsAimed'
    BY <1>0, <2>2, <2>3, ForKept DEF StoreAimed, CopiesAimed, JobsAimed
  <2> QED
    BY <2>4, <2>5 DEF Inv
<1>5. ASSUME NEW p \in Admins, Work(p) PROVE Inv'
  <2>0. /\ pc[p] \in Steps /\ todo[p] \subseteq Targets /\ drop[p] \subseteq 1..used
        /\ hit[p] \subseteq Machines /\ upsets \in 0..MaxUpsets
        /\ drop = [drop EXCEPT ![p] = drop[p]] /\ hit = [hit EXCEPT ![p] = hit[p]]
    BY <1>0 DEF TypeOK
  <2>00. /\ list \in [Targets -> SUBSET (1..used)]
         /\ \A t \in Targets : list[t] \subseteq For(t)
         /\ desired \in [Machines -> SUBSET (1..used)]
         /\ \A m \in Machines : desired[m] \subseteq For(m)
    BY <1>0 DEF TypeOK, StoreAimed
  <2>1. CASE Read(p)
    <3> DEFINE s == IF pc[p] = "read" THEN "append" ELSE "cancel"
    <3>1. /\ pc' = [pc EXCEPT ![p] = s]
          /\ pc[p] \in {"read", "readCancel"}
          /\ UNCHANGED <<payloads, list, desired, job, todo, drop, hit, ran, failed, used,
                         aimed, upsets>>
      BY <1>0, <2>1 DEF Read, TypeOK, storeVars, agentVars, obsVars
    <3>2. /\ DOMAIN copy' = Admins /\ \A q \in Admins \ {p} : copy'[q] = copy[q]
          /\ copy'[p] = [t \in todo[p] |->
                [list |-> list[t], desired |-> IF t \in Machines THEN desired[t] ELSE {}]]
      BY <1>0, <2>1 DEF Read, TypeOK
    <3>3. \A t \in todo[p] : /\ copy'[p][t].list \subseteq For(t)
                             /\ t \in Machines => copy'[p][t].desired \subseteq For(t)
      BY <1>0, <2>0, <3>2 DEF StoreAimed
    <3>4. s \in Steps \ {"idle"} /\ s # "recompute" /\ s # "read"
          /\ (s = "append" => pc[p] = "read")
      BY DEF Steps
    <3> HIDE DEF s
    <3> QED
      BY <2>0, <3>1, <3>2, <3>3, <3>4, Worked
  <2>2. CASE UnknownTarget(p) \/ NothingSelected(p) \/ Answer(p)
    <3>1. /\ Return(p) /\ payloads' \subseteq payloads
          /\ UNCHANGED <<list, used, aimed, desired, ran, failed, upsets>>
      BY <2>2 DEF UnknownTarget, NothingSelected, Answer, storeVars, agentVars, obsVars
    <3> QED
      BY <2>0, <2>00, <3>1, Returned
  <2>3. ASSUME NEW t \in Targets, Append(p, t) PROVE Inv'
    <3> DEFINE cmds == copy[p][t].list \cup {job[p]}
    <3>1. PICK kept \in pruneCommands(cmds) :
             SaveList(p, t, kept) /\ drop' = [drop EXCEPT ![p] = cmds \ kept]
      BY <2>3 DEF Append
    <3>2. /\ pc[p] = "append" /\ t \in todo[p]
          /\ UNCHANGED <<payloads, pc, job, copy, ran, failed, used, aimed, upsets>>
      BY <2>3 DEF Append, agentVars
    <3>3. copy[p][t].list \subseteq For(t) /\ job[p] \in For(t)
      BY <1>0, <3>2 DEF CopiesAimed, JobsAimed
    <3>4. kept \subseteq For(t) /\ cmds \ kept \in SUBSET (1..used)
      BY <3>3, PruneKeeps, ForTyped
    <3> HIDE DEF cmds
    <3> QED
      BY <3>1, <3>2, <3>4, WrittenBack
  <2>4. ASSUME NEW t \in Targets, Cancel(p, t) PROVE Inv'
    <3>1. /\ pc[p] = "cancel" /\ t \in todo[p]
          /\ SaveList(p, t, copy[p][t].list \ {job[p]})
          /\ UNCHANGED <<payloads, pc, job, copy, drop, ran, failed, used, aimed, upsets>>
      BY <2>4 DEF Cancel, agentVars
    <3>2. copy[p][t].list \ {job[p]} \subseteq For(t)
      BY <1>0, <3>1 DEF CopiesAimed
    <3> QED
      BY <3>1, <3>2, WrittenBack
  <2>5. ASSUME NEW d \in Commands, ForgetCommand(p, d) PROVE Inv'
    <3>1. /\ drop' = [drop EXCEPT ![p] = drop[p] \ {d}] /\ payloads' \subseteq payloads
          /\ d \in drop[p]
          /\ UNCHANGED <<pc, list, desired, job, todo, copy, hit, ran, failed, used, aimed,
                         upsets>>
      BY <2>5 DEF ForgetCommand, agentVars, obsVars
    <3>2. pc[p] # "idle" /\ pc = [pc EXCEPT ![p] = pc[p]] /\ DOMAIN copy = Admins
      BY <1>0, <3>1 DEF TypeOK
    <3>3. /\ pc[p] \in {"append", "cancel"} =>
              \A t \in todo[p] : /\ copy[p][t].list \subseteq For(t)
                                 /\ t \in Machines => copy[p][t].desired \subseteq For(t)
          /\ pc[p] = "recompute" =>
              \A m \in hit[p] : /\ copy[p][m].list \subseteq For(m)
                                /\ copy[p][m].next \subseteq For(m)
      BY <1>0 DEF CopiesAimed
    <3>4. drop[p] \ {d} \in SUBSET (1..used) /\ pc[p] \in Steps \ {"idle"}
      BY <2>0, <3>2
    <3> QED
      BY <2>0, <3>1, <3>2, <3>3, <3>4, Worked
  <2>6. CASE RecomputeRead(p)
    <3>1. /\ todo[p] = {} /\ pc' = [pc EXCEPT ![p] = "recompute"]
          /\ UNCHANGED <<payloads, list, desired, job, todo, drop, hit, ran, failed, used,
                         aimed, upsets>>
      BY <2>6 DEF RecomputeRead, storeVars, agentVars, obsVars
    <3>2. /\ DOMAIN copy' = Admins /\ \A q \in Admins \ {p} : copy'[q] = copy[q]
          /\ copy'[p] = [m \in hit[p] |->
                    [list |-> list[m], desired |-> desired[m],
                     next |-> list[m] \cup UNION {list[g] : g \in Groups}]]
      BY <1>0, <2>6 DEF RecomputeRead, TypeOK
    <3>3. ASSUME NEW m \in hit[p]
          PROVE  copy'[p][m].list \subseteq For(m) /\ copy'[p][m].next \subseteq For(m)
      <4>1. list[m] \subseteq For(m) /\ \A g \in Groups : list[g] \subseteq For(m)
        BY <1>0, <2>0, ForGroup DEF StoreAimed, Targets
      <4> QED
        BY <3>2, <4>1
    <3> QED
      BY <2>0, <3>1, <3>2, <3>3, Worked DEF Steps
  <2>7. ASSUME NEW m \in Machines, RecomputeSave(p, m) PROVE Inv'
    <3>1. /\ pc[p] = "recompute" /\ m \in hit[p]
          /\ hit' = [hit EXCEPT ![p] = @ \ {m}]
          /\ UNCHANGED <<payloads, pc, job, todo, copy, drop, ran, failed, used, aimed, upsets>>
      BY <2>7 DEF RecomputeSave, agentVars, obsVars
    <3>2. PutDesired(p, m)
      BY <2>7 DEF RecomputeSave
    <3>3. /\ list' \in [Targets -> SUBSET (1..used)]
          /\ \A t \in Targets : list'[t] \subseteq For(t)
          /\ desired' \in [Machines -> SUBSET (1..used)]
          /\ \A k \in Machines : desired'[k] \subseteq For(k)
      BY <3>1, <3>2, DesiredTyped
    <3>4. /\ hit' \in [Admins -> SUBSET Machines]
          /\ \A q \in Admins : hit'[q] \subseteq hit[q]
      BY <1>0, <3>1 DEF TypeOK
    <3>5. TypeOK'
      BY <1>0, <3>1, <3>3, <3>4 DEF TypeOK
    <3>6. StoreAimed'
      BY <1>0, <3>1, <3>3, ForKept DEF StoreAimed
    <3>7. CopiesAimed' /\ JobsAimed'
      BY <1>0, <3>1, <3>4, ForKept DEF CopiesAimed, JobsAimed
    <3> QED
      BY <3>5, <3>6, <3>7 DEF Inv
  <2> QED
    BY <1>5, <2>1, <2>2, <2>3, <2>4, <2>5, <2>6, <2>7 DEF Work
<1>6. ASSUME NEW p \in Admins, StoreFails(p) PROVE Inv'
  <2>0. /\ pc[p] \in Steps /\ todo[p] \subseteq Targets /\ drop[p] \subseteq 1..used
        /\ drop = [drop EXCEPT ![p] = drop[p]] /\ pc = [pc EXCEPT ![p] = pc[p]]
        /\ hit = [hit EXCEPT ![p] = hit[p]] /\ hit[p] \subseteq Machines
        /\ DOMAIN copy = Admins
    BY <1>0 DEF TypeOK
  <2>1. Fails(p) => upsets' \in 0..MaxUpsets
    BY <1>0, CommandsAssumption DEF Fails, Upset, TypeOK
  <2>2. /\ pc[p] \in {"append", "cancel"} =>
              \A t \in todo[p] : /\ copy[p][t].list \subseteq For(t)
                                 /\ t \in Machines => copy[p][t].desired \subseteq For(t)
        /\ pc[p] = "recompute" =>
              \A m \in hit[p] : /\ copy[p][m].list \subseteq For(m)
                                /\ copy[p][m].next \subseteq For(m)
    BY <1>0 DEF CopiesAimed
  <2>3. /\ list \in [Targets -> SUBSET (1..used)]
        /\ \A t \in Targets : list[t] \subseteq For(t)
        /\ desired \in [Machines -> SUBSET (1..used)]
        /\ \A m \in Machines : desired[m] \subseteq For(m)
    BY <1>0 DEF TypeOK, StoreAimed
  <2>4. ASSUME NEW t \in Targets, AppendFails(p, t) PROVE Inv'
    <3> DEFINE cmds == copy[p][t].list \cup {job[p]}
    <3>1. PICK kept \in pruneCommands(cmds) : PutFails(p, t, kept)
      BY <2>4 DEF AppendFails
    <3>2. /\ pc[p] = "append" /\ t \in todo[p]
          /\ UNCHANGED <<payloads, ran, failed, used, aimed>>
      BY <2>4 DEF AppendFails, agentVars
    <3>3. copy[p][t].list \subseteq For(t) /\ job[p] \in For(t)
      BY <1>0, <3>2 DEF CopiesAimed, JobsAimed
    <3>4. kept \subseteq For(t)
      BY <3>3, PruneKeeps
    <3> HIDE DEF cmds
    <3>5. /\ Put(p, t, kept) \/ UNCHANGED <<list, desired>>
          /\ upsets' \in 0..MaxUpsets
      BY <2>1, <3>1 DEF PutFails
    <3>6. /\ list' \in [Targets -> SUBSET (1..used)]
          /\ \A u \in Targets : list'[u] \subseteq For(u)
          /\ desired' \in [Machines -> SUBSET (1..used)]
          /\ \A m \in Machines : desired'[m] \subseteq For(m)
      BY <3>2, <3>4, <3>5, PutTyped
    <3>7. CASE Return(p)
      BY <3>2, <3>5, <3>6, <3>7, Returned
    <3>8. CASE /\ todo' = [todo EXCEPT ![p] = @ \ {t}]
               /\ UNCHANGED <<pc, job, copy, drop, hit>>
      <4>1. /\ todo' \in [Admins -> SUBSET Targets]
            /\ \A q \in Admins : todo'[q] \subseteq todo[q]
        BY <1>0, <3>8 DEF TypeOK
      <4>2. TypeOK'
        BY <1>0, <3>2, <3>5, <3>6, <3>8, <4>1 DEF TypeOK
      <4>3. StoreAimed'
        BY <1>0, <3>2, <3>6, ForKept DEF StoreAimed
      <4>4. CopiesAimed' /\ JobsAimed'
        BY <1>0, <3>2, <3>8, <4>1, ForKept DEF CopiesAimed, JobsAimed
      <4> QED
        BY <4>2, <4>3, <4>4 DEF Inv
    <3> QED
      BY <2>4, <3>7, <3>8 DEF AppendFails
  <2>5. ASSUME NEW t \in Targets, CancelFails(p, t) PROVE Inv'
    <3>1. /\ pc[p] = "cancel" /\ t \in todo[p] /\ Return(p)
          /\ PutFails(p, t, copy[p][t].list \ {job[p]})
          /\ UNCHANGED <<payloads, ran, failed, used, aimed>>
      BY <2>5 DEF CancelFails, agentVars
    <3>2. copy[p][t].list \ {job[p]} \subseteq For(t)
      BY <2>2, <3>1
    <3>3. /\ Put(p, t, copy[p][t].list \ {job[p]}) \/ UNCHANGED <<list, desired>>
          /\ upsets' \in 0..MaxUpsets
      BY <2>1, <3>1 DEF PutFails
    <3>4. /\ list' \in [Targets -> SUBSET (1..used)]
          /\ \A u \in Targets : list'[u] \subseteq For(u)
          /\ desired' \in [Machines -> SUBSET (1..used)]
          /\ \A m \in Machines : desired'[m] \subseteq For(m)
      BY <3>1, <3>2, <3>3, PutTyped
    <3> QED
      BY <3>1, <3>3, <3>4, Returned
  <2>6. ASSUME NEW d \in Commands, ForgetFails(p, d) PROVE Inv'
    <3>1. /\ drop' = [drop EXCEPT ![p] = drop[p] \ {d}]
          /\ d \in drop[p] /\ upsets' \in 0..MaxUpsets /\ payloads' \subseteq payloads
          /\ UNCHANGED <<list, desired, pc, job, todo, copy, hit, ran, failed, used, aimed>>
      BY <2>1, <2>6 DEF ForgetFails, agentVars
    <3>2. pc[p] # "idle"
      BY <1>0, <3>1 DEF TypeOK
    <3>3. drop[p] \ {d} \in SUBSET (1..used) /\ pc[p] \in Steps \ {"idle"}
      BY <2>0, <3>2
    <3> QED
      BY <2>0, <2>2, <3>1, <3>3, Worked
  <2>7. CASE RecomputeFails(p)
    <3>1. /\ Return(p) /\ upsets' \in 0..MaxUpsets
          /\ UNCHANGED <<payloads, ran, failed, used, aimed>>
      BY <2>1, <2>7 DEF RecomputeFails, agentVars
    <3>2. CASE UNCHANGED <<list, desired>>
      BY <2>3, <3>1, <3>2, Returned
    <3>3. ASSUME NEW m \in hit[p], pc[p] = "recompute", PutDesired(p, m) PROVE Inv'
      <4>1. /\ list' \in [Targets -> SUBSET (1..used)]
            /\ \A u \in Targets : list'[u] \subseteq For(u)
            /\ desired' \in [Machines -> SUBSET (1..used)]
            /\ \A k \in Machines : desired'[k] \subseteq For(k)
        BY <3>3, DesiredTyped
      <4> QED
        BY <3>1, <4>1, Returned
    <3> QED
      BY <2>7, <3>2, <3>3 DEF RecomputeFails
  <2>8. CASE ReadFails(p) \/ NothingSelectedFails(p)
    <3>1. /\ Return(p) /\ upsets' \in 0..MaxUpsets /\ payloads' \subseteq payloads
          /\ UNCHANGED <<list, desired, ran, failed, used, aimed>>
      BY <2>1, <2>8 DEF ReadFails, NothingSelectedFails, agentVars, storeVars
    <3> QED
      BY <2>3, <3>1, Returned
  <2> QED
    BY <1>6, <2>4, <2>5, <2>6, <2>7, <2>8 DEF StoreFails
<1>7. ASSUME NEW m \in Machines, NEW c \in Commands, Run(m, c) PROVE Inv'
  <2>1. UNCHANGED <<payloads, list, desired, pc, job, todo, copy, drop, hit, used, aimed, upsets>>
    BY <1>7 DEF Run, storeVars, requestVars, obsVars
  <2>2. c \in For(m) /\ c \in 1..used
    BY <1>0, <1>7, ForTyped DEF Run, StoreAimed
  <2>3. /\ ran' \in [Machines -> SUBSET (1..used)] /\ failed' \in [Machines -> SUBSET (1..used)]
        /\ \A k \in Machines : ran'[k] \subseteq For(k)
    BY <1>0, <1>7, <2>2 DEF Run, TypeOK, StoreAimed
  <2>4. TypeOK'
    BY <1>0, <2>1, <2>3 DEF TypeOK
  <2>5. StoreAimed' /\ CopiesAimed' /\ JobsAimed'
    BY <1>0, <2>1, <2>3, ForKept DEF StoreAimed, CopiesAimed, JobsAimed
  <2> QED
    BY <2>4, <2>5 DEF Inv
<1> QED
  BY <1>1, <1>2, <1>3, <1>4, <1>5, <1>6, <1>7, SaveFailed DEF Next

LEMMA Inductive == Spec => []Inv
  BY InitInv, NextInv, PTL DEF Spec

\* Every variable keeps its type: commands are named in order, whatever lists,
\* copies and desired states requests write hold commands that were created,
\* and a request that is over holds nothing (commands.go, whole file).
THEOREM TypeCorrect == Spec => []TypeOK
<1>1. Inv => TypeOK
  BY DEF Inv
<1> QED
  BY <1>1, Inductive, PTL

\* No command runs on a machine it was not aimed at (commands.go: the targets
\* of a command), for any number of overlapping creations, cancellations and
\* recomputations that write back stale records, and of writes that fail.
THEOREM NothingRunsUnaimed == Spec => []AimedOnly
<1>1. Inv => AimedOnly
  BY ForMachine DEF Inv, StoreAimed, AimedOnly, For, TypeOK
<1> QED
  BY <1>1, Inductive, PTL

------------------------------------------------------------------------------
(* Requests one after the other.                                            *)
\* Names are generated in the order of their seconds, and nothing is recorded of a
\* command before it has a name.
Ordered ==
    /\ stamp \in [Commands -> Nat] /\ queued \in [Commands -> SUBSET Targets]
    /\ \A c \in 1..used : \A d \in 1..c : stamp[d] <= stamp[c]
    /\ \A c \in Commands : queued[c] # {} => c \in 1..used
    /\ selected \subseteq 1..used

Newest == \A c \in Commands : \A t \in queued[c] :
              c \in list[t] \/ \A k \in list[t] : stamp[k] >= stamp[c]

\* What request p has read is what is stored.
Current(p) ==
    /\ pc[p] \in {"append", "cancel"} => \A t \in todo[p] : copy[p][t].list = list[t]
    /\ pc[p] = "recompute" => \A m \in hit[p] : copy[p][m].list = list[m]

\* What request p has still to delete, and what it has queued so far.
Progress(p) ==
    /\ pc[p] \in {"idle", "read", "readCancel"} => drop[p] = {} /\ hit[p] = {}
    /\ pc[p] \in {"cancel", "recompute"} => drop[p] = {}
    /\ pc[p] \in {"read", "append"} /\ job[p] \in selected =>
          todo[p] \subseteq Machines /\ (hit[p] = {} => drop[p] = {})

\* The command of request p until it is in its list.
Unqueued(p) ==
    pc[p] \in {"read", "append"} =>
        /\ job[p] = used
        /\ todo[p] # {} /\ job[p] \notin selected =>
              /\ \A t, u \in todo[p] : t = u
              /\ drop[p] = {} /\ job[p] \in payloads \ Listed
              /\ \A m \in Machines : job[p] \notin failed[m]

\* What payloads are stored for.
Wanted ==
    Listed \cup stray \cup (UNION {drop[p] : p \in Admins})
           \cup {job[p] : p \in {q \in Admins : pc[q] \in {"read", "append"} /\ hit[q] = {}}}

\* The lists and the payloads, as one request after the other leaves them.
Kept ==
    /\ Listed \subseteq payloads \cup selected
    /\ \A p \in Admins : drop[p] \cap Listed \subseteq selected
    /\ \A t, u \in Targets : list[t] \cap list[u] \subseteq selected \/ t = u
    /\ payloads \subseteq Wanted
    /\ Newest
    /\ \A m \in Machines : failed[m] \cap Lists(m) \subseteq selected

OneByOne ==
    ~overlapped =>
        /\ \A p, q \in Admins : pc[p] # "idle" /\ pc[q] # "idle" => p = q
        /\ \A p \in Admins : Current(p) /\ Progress(p) /\ Unqueued(p)
        /\ Kept

\* What payloads are stored for, when no other request than p is under way.
Mine(p) ==
    Listed \cup stray \cup drop[p]
           \cup {j \in {job[p]} : pc[p] \in {"read", "append"} /\ hit[p] = {}}

LEMMA InitOneByOne == Init => Ordered /\ OneByOne
  BY CommandsAssumption
     DEF Init, Ordered, OneByOne, Current, Progress, Unqueued, Kept, Newest, Listed, Lists

\* What is known of the one request that is under way, or of any when none is.
LEMMA Before ==
    ASSUME Inv, OneByOne, ~overlapped, NEW p \in Admins, pc[p] # "idle" \/ Idle
    PROVE  /\ \A q \in Admins \ {p} : pc[q] = "idle" /\ drop[q] = {} /\ hit[q] = {}
           /\ Current(p) /\ Progress(p) /\ Unqueued(p) /\ Kept
           /\ payloads \subseteq Mine(p)
<1>1. \A q \in Admins \ {p} : pc[q] = "idle"
  BY DEF OneByOne, Idle
<1>2. \A q \in Admins \ {p} : drop[q] = {} /\ hit[q] = {}
  BY <1>1 DEF Inv, TypeOK
<1>3. ASSUME NEW c \in Wanted PROVE c \in Mine(p)
  <2>1. CASE \E q \in Admins : c \in drop[q]
    BY <1>2, <2>1 DEF Mine
  <2>2. CASE \E q \in Admins : pc[q] \in {"read", "append"} /\ hit[q] = {} /\ c = job[q]
    BY <1>1, <2>2 DEF Mine
  <2> QED
    BY <2>1, <2>2 DEF Wanted, Mine
<1> QED
  BY <1>1, <1>2, <1>3 DEF OneByOne, Kept

\* What is to show of it after a step.
LEMMA After ==
    ASSUME Inv', NEW p \in Admins, \A q \in Admins \ {p} : pc'[q] = "idle",
           Current(p)', Progress(p)', Unqueued(p)',
           (Listed \subseteq payloads \cup selected)',
           (drop[p] \cap Listed \subseteq selected)',
           (\A t, u \in Targets : list[t] \cap list[u] \subseteq selected \/ t = u)',
           (payloads \subseteq Mine(p))',
           Newest',
           (\A m \in Machines : failed[m] \cap Lists(m) \subseteq selected)'
    PROVE  OneByOne'
<1>1. \A q \in Admins \ {p} : pc'[q] = "idle" /\ drop'[q] = {} /\ hit'[q] = {}
  BY DEF Inv, TypeOK
<1>2. \A q \in Admins : (Current(q) /\ Progress(q) /\ Unqueued(q))'
  <2> SUFFICES ASSUME NEW q \in Admins, q # p PROVE (Current(q) /\ Progress(q) /\ Unqueued(q))'
    OBVIOUS
  <2> QED
    BY <1>1 DEF Current, Progress, Unqueued
<1>3. \A q, r \in Admins : pc'[q] # "idle" /\ pc'[r] # "idle" => q = r
  OBVIOUS
<1>4. ASSUME NEW c \in payloads' PROVE c \in Wanted'
  <2>1. c \in Mine(p)'
    OBVIOUS
  <2>2. CASE c \in drop'[p]
    BY <2>2 DEF Wanted
  <2>3. CASE c = job'[p] /\ pc'[p] \in {"read", "append"} /\ hit'[p] = {}
    BY <2>3 DEF Wanted
  <2> QED
    BY <2>1, <2>2, <2>3 DEF Mine, Wanted
<1>5. \A q \in Admins : (drop[q] \cap Listed \subseteq selected)'
  BY <1>1
<1> QED
  BY <1>2, <1>3, <1>4, <1>5 DEF OneByOne, Kept

\* As After, of a step that leaves the lists alone and stores no payload.
LEMMA ListsAlone ==
    ASSUME Inv', NEW p \in Admins, \A q \in Admins \ {p} : pc'[q] = "idle",
           Current(p)', Progress(p)', Unqueued(p)', Kept,
           UNCHANGED <<list, stamp, queued>>, selected \subseteq selected',
           payloads' \subseteq payloads, payloads \cap Listed \subseteq payloads' \cup selected',
           drop'[p] \cap Listed \subseteq selected',
           (payloads \subseteq Mine(p))',
           \A m \in Machines : failed'[m] \subseteq failed[m] \cup selected \/
               \E c \in Commands : failed'[m] = failed[m] \cup {c} /\ c \notin payloads
    PROVE  OneByOne'
<1>1. Listed' = Listed /\ \A m \in Machines : Lists(m)' = Lists(m) /\ Lists(m) \subseteq Listed
  BY DEF Listed, Lists, Targets
<1>2. (\A t, u \in Targets : list[t] \cap list[u] \subseteq selected \/ t = u)'
  BY DEF Kept
<1>3. Newest'
  BY DEF Kept, Newest
<1>4. (Listed \subseteq payloads \cup selected)'
  BY <1>1 DEF Kept
<1>5. (\A m \in Machines : failed[m] \cap Lists(m) \subseteq selected)'
  BY <1>1 DEF Kept
<1> QED
  BY <1>1, <1>2, <1>3, <1>4, <1>5, After

\* What pruneCommands drops is of no later second than what it keeps.
LEMMA PruneKeepsNewest ==
    ASSUME NEW cmds, NEW kept \in pruneCommands(cmds)
    PROVE  \A k \in kept, d \in cmds \ kept : stamp[k] >= stamp[d]
  BY DEF pruneCommands

------------------------------------------------------------------------------
(* Seconds in order.                                                        *)

LEMMA SavedOrdered ==
    ASSUME Inv, Ordered, NEW c \in Commands, commandName(c), UNCHANGED queued,
           selected' = selected \/ selected' = selected \cup {c}
    PROVE  Ordered'
<1>1. /\ c = used + 1 /\ used' = c /\ used \in Nat
      /\ 1..used' = 1..used \cup {c} /\ c \notin 1..used /\ 1..used \subseteq Commands
  BY DEF commandName, Inv, TypeOK
<1>2. PICK now \in IF used = 0 THEN {0} ELSE {stamp[used], stamp[used] + 1} :
          stamp' = [stamp EXCEPT ![c] = now]
  BY DEF commandName
<1>3. now \in Nat /\ \A d \in 1..used : stamp[d] <= now /\ stamp[d] \in Nat
  BY <1>1, <1>2 DEF Ordered
<1>4. stamp' \in [Commands -> Nat] /\ stamp'[c] = now /\ \A d \in 1..used : stamp'[d] = stamp[d]
  BY <1>1, <1>2, <1>3 DEF Ordered
<1>5. ASSUME NEW e \in 1..used', NEW d \in 1..e PROVE stamp'[d] <= stamp'[e]
  <2>1. CASE e = c
    <3>1. d = c \/ d \in 1..used
      BY <1>1, <2>1
    <3> QED
      BY <1>3, <1>4, <2>1, <3>1
  <2>2. CASE e # c
    <3>1. e \in 1..used /\ d \in 1..used
      BY <1>1, <2>2
    <3> QED
      BY <1>4, <3>1 DEF Ordered
  <2> QED
    BY <2>1, <2>2
<1>6. \A d \in Commands : queued'[d] # {} => d \in 1..used'
  BY <1>1 DEF Ordered
<1> QED
  BY <1>1, <1>4, <1>5, <1>6 DEF Ordered

LEMMA NextOrdered == Inv /\ Ordered /\ [Next]_vars => Ordered'
<1> SUFFICES ASSUME Inv, Ordered, [Next]_vars PROVE Ordered'
  OBVIOUS
<1>1. CASE UNCHANGED <<stamp, used, queued, selected>>
  BY <1>1 DEF Ordered
<1>2. ASSUME NEW p \in Admins, NEW c \in Commands, createCommand(p, c) PROVE Ordered'
  BY <1>2, SavedOrdered DEF createCommand, SavePayload
<1>3. ASSUME NEW p \in Admins, NEW c \in Commands, createSelected(p, c) PROVE Ordered'
  BY <1>3, SavedOrdered DEF createSelected, SavePayload
<1>4. ASSUME NEW p \in Admins, NEW t \in Targets, Append(p, t) PROVE Ordered'
  <2>1. /\ queued' = [queued EXCEPT ![job[p]] = @ \cup {t}] /\ job[p] \in 1..used
        /\ UNCHANGED <<stamp, used, selected>>
    BY <1>4 DEF Append, Inv, JobsAimed
  <2> QED
    BY <2>1 DEF Ordered
<1>5. ASSUME NEW p \in Admins, NEW t \in Targets, Cancel(p, t) \/ CancelFails(p, t)
      PROVE  Ordered'
  <2>1. /\ queued' = [queued EXCEPT ![job[p]] = @ \ {t}]
        /\ UNCHANGED <<stamp, used, selected>>
    BY <1>5 DEF Cancel, CancelFails
  <2> QED
    BY <2>1 DEF Ordered
<1>6. ASSUME NEW p \in Admins, Work(p) PROVE Ordered'
  <2>1. CASE \E t \in Targets : Append(p, t) \/ Cancel(p, t)
    BY <1>4, <1>5, <2>1
  <2>2. CASE ~\E t \in Targets : Append(p, t) \/ Cancel(p, t)
    BY <1>1, <1>6, <2>2 DEF Work, Read, UnknownTarget, NothingSelected, ForgetCommand,
                            RecomputeRead, Answer, RecomputeSave, obsVars
  <2> QED
    BY <2>1, <2>2
<1>7. ASSUME NEW p \in Admins, StoreFails(p) PROVE Ordered'
  BY <1>1, <1>5, <1>7 DEF StoreFails, ReadFails, NothingSelectedFails, AppendFails, ForgetFails,
                          RecomputeFails
<1>8. ASSUME NEW p \in Admins, NEW c \in Commands, SavePayloadFails(p, c) PROVE Ordered'
  BY <1>8, SavedOrdered DEF SavePayloadFails
<1> QED
  BY <1>1, <1>2, <1>3, <1>6, <1>7, <1>8 DEF Next, vars, cancelCommand, Run, obsVars

------------------------------------------------------------------------------
(* One request after the other.                                             *)

\* A request that arrives alone with command c for some targets.
LEMMA SavedAlone ==
    ASSUME Inv, Inv', Ordered, OneByOne, ~overlapped',
           NEW p \in Admins, NEW c \in Commands, NEW targets \in SUBSET Targets,
           SavePayload(p, c, targets),
           \/ selected' = selected /\ \A t, u \in targets : t = u
           \/ selected' = selected \cup {c} /\ targets \subseteq Machines
    PROVE  OneByOne'
<1>1. /\ ~overlapped /\ Idle
      /\ c = used + 1 /\ used' = c /\ used \in Nat /\ c \notin 1..used
      /\ UNCHANGED <<list, drop, hit, failed, stray, queued, copy>>
      /\ payloads' = payloads \cup {c}
  <2>1. ~overlapped /\ Idle /\ c = used + 1 /\ used' = c /\ payloads' = payloads \cup {c}
    BY DEF SavePayload, commandName, Arrive
  <2>2. UNCHANGED <<list, drop, hit, failed, stray, queued, copy>>
    BY DEF SavePayload, agentVars
  <2>3. used \in Nat
    BY DEF Inv, TypeOK
  <2> QED
    BY <2>1, <2>2, <2>3
<1>2. /\ pc'[p] = "read" /\ job'[p] = c /\ todo'[p] = targets
      /\ drop'[p] = {} /\ hit'[p] = {}
      /\ \A q \in Admins \ {p} : pc'[q] = "idle"
  BY <1>1 DEF SavePayload, Idle, Inv, TypeOK
<1>3. Kept /\ payloads \subseteq Mine(p)
  BY <1>1, Before
<1>4. /\ Listed' = Listed /\ Listed \subseteq 1..used /\ c \notin Listed
      /\ \A m \in Machines : failed'[m] = failed[m] /\ c \notin failed[m] /\ Lists(m)' = Lists(m)
      /\ c \notin selected
  BY <1>1 DEF Listed, Lists, Inv, TypeOK, Ordered
<1>5. Current(p)' /\ Progress(p)'
  BY <1>2, <1>4 DEF Current, Progress
<1>6. Unqueued(p)'
  BY <1>1, <1>2, <1>4 DEF Unqueued
<1>7. Newest'
  <2>1. \A d \in Commands \ {c} : stamp'[d] = stamp[d]
    BY DEF SavePayload, commandName, Ordered
  <2>2. 1..used \subseteq Commands \ {c}
    BY <1>1 DEF Inv, TypeOK
  <2>3. \A d \in Commands : \A t \in queued[d] :
            t \in Targets /\ d \in 1..used /\ list[t] \subseteq 1..used
    BY DEF Ordered, Inv, TypeOK
  <2>4. Newest
    BY <1>3 DEF Kept
  <2> QED
    BY <1>1, <2>1, <2>2, <2>3, <2>4 DEF Newest
<1>8. (payloads \subseteq Mine(p))'
  <2>1. payloads \subseteq Listed \cup stray
    BY <1>1, <1>3 DEF Mine, Idle, Inv, TypeOK
  <2> QED
    BY <1>1, <1>2, <1>4, <2>1 DEF Mine
<1>9. (Listed \subseteq payloads \cup selected)'
  BY <1>1, <1>3, <1>4 DEF Kept
<1>10. (\A t, u \in Targets : list[t] \cap list[u] \subseteq selected \/ t = u)'
  BY <1>1, <1>3 DEF Kept
<1>11. (\A m \in Machines : failed[m] \cap Lists(m) \subseteq selected)'
  BY <1>3, <1>4 DEF Kept
<1>12. (drop[p] \cap Listed \subseteq selected)'
  BY <1>2
<1> QED
  BY <1>2, <1>5, <1>6, <1>7, <1>8, <1>9, <1>10, <1>11, <1>12, After

\* The list of t with a command more, pruned: where the commands have gone.
LEMMA Pruned ==
    ASSUME Inv, Ordered, OneByOne, ~overlapped, NEW p \in Admins, NEW t \in todo[p],
           pc[p] = "append", NEW kept, kept \in pruneCommands(list[t] \cup {job[p]}),
           list' = [list EXCEPT ![t] = kept],
           UNCHANGED <<payloads, selected, stamp, failed>>,
           \A c \in Commands : \A u \in queued'[c] : u \in queued[c] \/ (c = job[p] /\ u = t)
    PROVE  /\ (Listed \subseteq payloads \cup selected)'
           /\ ((list[t] \cup {job[p]}) \ kept) \cap Listed' \subseteq selected
           /\ Listed \cup {job[p]} \subseteq Listed' \cup ((list[t] \cup {job[p]}) \ kept)
           /\ (\A u, v \in Targets : list[u] \cap list[v] \subseteq selected \/ u = v)'
           /\ Newest'
           /\ (\A m \in Machines : failed[m] \cap Lists(m) \subseteq selected)'
<1> DEFINE j == job[p]
           cmds == list[t] \cup {j}
<1>1. /\ Kept /\ Unqueued(p)
      /\ t \in Targets /\ list \in [Targets -> SUBSET (1..used)] /\ j \in 1..used
      /\ used \in Nat
  BY Before DEF Inv, TypeOK, JobsAimed
<1>2. /\ kept \subseteq cmds
      /\ list'[t] = kept /\ \A u \in Targets \ {t} : list'[u] = list[u]
  BY <1>1, PruneKeeps
<1>3. j \notin selected =>
          /\ j \in payloads /\ \A u \in Targets : j \notin list[u]
          /\ \A m \in Machines : j \notin failed[m]
  BY <1>1 DEF Unqueued, Listed
<1>4. Listed' \subseteq Listed \cup {j} /\ Listed \cup {j} \subseteq Listed' \cup (cmds \ kept)
  <2>1. \A u \in Targets : list'[u] \subseteq Listed \cup {j}
    BY <1>1, <1>2 DEF Listed
  <2>2. \A u \in Targets : list[u] \subseteq Listed' \cup (cmds \ kept)
    BY <1>1, <1>2 DEF Listed
  <2>3. j \in Listed' \cup (cmds \ kept)
    BY <1>1, <1>2 DEF Listed
  <2> QED
    BY <2>1, <2>2, <2>3 DEF Listed
<1>5. (Listed \subseteq payloads \cup selected)'
  BY <1>1, <1>3, <1>4 DEF Kept
<1>6. (cmds \ kept) \cap Listed' \subseteq selected
  <2> SUFFICES ASSUME NEW d \in cmds \ kept, d \notin selected, NEW u \in Targets, d \in list'[u]
               PROVE  FALSE
    BY DEF Listed
  <2>1. u # t /\ d \in list[u]
    BY <1>2
  <2>2. d # j
    BY <1>3, <2>1
  <2> QED
    BY <1>1, <2>1, <2>2 DEF Kept
<1>7. (\A u, v \in Targets : list[u] \cap list[v] \subseteq selected \/ u = v)'
  <2>1. \A u, v \in Targets : list[u] \cap list[v] \subseteq selected \/ u = v
    BY <1>1 DEF Kept
  <2> SUFFICES ASSUME NEW u \in Targets, NEW v \in Targets, u # v, NEW d \in list'[u] \cap list'[v],
                      d \notin selected
               PROVE  FALSE
    OBVIOUS
  <2>2. d \in list[u] \cup {j} /\ d \in list[v] \cup {j} /\ (d \in list[u] \/ d \in list[v])
    BY <1>2
  <2>3. d # j
    BY <1>3, <2>2
  <2> QED
    BY <2>1, <2>2, <2>3
<1>8. Newest'
  <2> SUFFICES ASSUME NEW c \in Commands, NEW u \in queued'[c],
                      c \notin list'[u], NEW k \in list'[u]
               PROVE  stamp[k] >= stamp[c]
    BY DEF Newest
  <2>1. u \in queued[c] \/ (c = j /\ u = t)
    OBVIOUS
  <2>2. Newest
    BY <1>1 DEF Kept
  <2>3. CASE u # t
    <3>1. u \in Targets
      BY <2>1, <2>3 DEF Ordered
    <3> QED
      BY <1>2, <2>1, <2>2, <2>3, <3>1 DEF Newest
  <2>4. CASE u = t /\ c \in cmds
    BY <1>2, <2>4, PruneKeepsNewest
  <2>5. CASE u = t /\ c \notin cmds
    <3>1. t \in queued[c] /\ c \in 1..used /\ j = used
      BY <1>1, <2>1, <2>5 DEF Ordered, Unqueued
    <3>2. c \in 1..j /\ stamp[c] <= stamp[j] /\ c \in Commands /\ j \in Commands
      BY <1>1, <3>1 DEF Ordered, Inv, TypeOK
    <3>3. stamp[c] \in Nat /\ stamp[j] \in Nat
      BY <3>2 DEF Ordered
    <3>4. k = j \/ stamp[k] >= stamp[c]
      BY <1>2, <2>2, <2>5, <3>1 DEF Newest
    <3> QED
      BY <3>2, <3>3, <3>4
  <2> QED
    BY <2>3, <2>4, <2>5
<1>9. (\A m \in Machines : failed[m] \cap Lists(m) \subseteq selected)'
  <2>1. ASSUME NEW m \in Machines, NEW d \in Lists(m)' PROVE d \in Lists(m) \cup {j}
    <3>1. PICK u \in {m} \cup Groups : d \in list'[u]
      BY DEF Lists
    <3>2. u \in Targets /\ d \in list[u] \cup {j}
      BY <1>2, <3>1 DEF Targets
    <3> QED
      BY <3>1, <3>2 DEF Lists
  <2>2. \A m \in Machines : failed[m] \cap Lists(m) \subseteq selected
    BY <1>1 DEF Kept
  <2> QED
    BY <1>3, <2>1, <2>2
<1> QED
  BY <1>4, <1>5, <1>6, <1>7, <1>8, <1>9

LEMMA AppendAlone ==
    ASSUME Inv, Inv', Ordered, OneByOne, ~overlapped', NEW p \in Admins, NEW t \in Targets,
           Append(p, t)
    PROVE  OneByOne'
<1>1. /\ ~overlapped /\ pc[p] = "append" /\ drop[p] = {} /\ t \in todo[p]
      /\ UNCHANGED <<payloads, pc, job, copy, failed, stamp, used, selected, stray>>
      /\ queued' = [queued EXCEPT ![job[p]] = @ \cup {t}]
  BY DEF Append, agentVars
<1>2. /\ \A q \in Admins \ {p} : pc[q] = "idle" /\ drop[q] = {} /\ hit[q] = {}
      /\ Current(p) /\ Progress(p) /\ Unqueued(p) /\ Kept /\ payloads \subseteq Mine(p)
  BY <1>1, Before
<1>3. copy[p][t].list = list[t]
  BY <1>1, <1>2 DEF Current
<1>4. PICK kept \in pruneCommands(list[t] \cup {job[p]}) :
          /\ SaveList(p, t, kept)
          /\ drop' = [drop EXCEPT ![p] = (list[t] \cup {job[p]}) \ kept]
  BY <1>3 DEF Append
<1>5. /\ list' = [list EXCEPT ![t] = kept]
      /\ todo'[p] = todo[p] \ {t} /\ hit'[p] = hit[p] \cup MembersOf(t)
      /\ drop'[p] = (list[t] \cup {job[p]}) \ kept
      /\ \A u \in Targets \ {t} : list'[u] = list[u]
  BY <1>4 DEF SaveList, Put, Inv, TypeOK
<1>6. \A c \in Commands : \A u \in queued'[c] : u \in queued[c] \/ (c = job[p] /\ u = t)
  BY <1>1 DEF Ordered
<1>7. /\ (Listed \subseteq payloads \cup selected)'
      /\ (drop[p] \cap Listed \subseteq selected)'
      /\ Listed \cup {job[p]} \subseteq Listed' \cup drop'[p]
      /\ (\A u, v \in Targets : list[u] \cap list[v] \subseteq selected \/ u = v)'
      /\ Newest'
      /\ (\A m \in Machines : failed[m] \cap Lists(m) \subseteq selected)'
  <2>1. /\ (Listed \subseteq payloads \cup selected)'
        /\ ((list[t] \cup {job[p]}) \ kept) \cap Listed' \subseteq selected
        /\ Listed \cup {job[p]} \subseteq Listed' \cup ((list[t] \cup {job[p]}) \ kept)
        /\ (\A u, v \in Targets : list[u] \cap list[v] \subseteq selected \/ u = v)'
        /\ Newest'
        /\ (\A m \in Machines : failed[m] \cap Lists(m) \subseteq selected)'
    BY <1>1, <1>4, <1>5, <1>6, Pruned
  <2> QED
    BY <1>1, <1>5, <2>1
<1>8. Current(p)'
  BY <1>1, <1>2, <1>5 DEF Current, Inv, TypeOK
<1>9. Progress(p)'
  <2>1. job[p] \in selected => t \in Machines /\ todo[p] \subseteq Machines
    BY <1>1, <1>2 DEF Progress
  <2> QED
    BY <1>1, <1>5, <2>1, ForMachine DEF Progress
<1>10. Unqueued(p)'
  <2>1. job[p] = used /\ (job[p] \notin selected => todo'[p] = {})
    BY <1>1, <1>2, <1>5 DEF Unqueued
  <2> QED
    BY <1>1, <2>1 DEF Unqueued
<1>11. (payloads \subseteq Mine(p))'
  <2>1. payloads \subseteq Listed \cup stray \cup {job[p]}
    BY <1>1, <1>2 DEF Mine
  <2> QED
    BY <1>1, <1>7, <2>1 DEF Mine
<1> QED
  BY <1>1, <1>2, <1>7, <1>8, <1>9, <1>10, <1>11, After

LEMMA AppendFailsAlone ==
    ASSUME Inv, Inv', Ordered, OneByOne, ~overlapped', NEW p \in Admins, NEW t \in Targets,
           AppendFails(p, t)
    PROVE  OneByOne'
<1>1. /\ ~overlapped /\ pc[p] = "append" /\ drop[p] = {} /\ t \in todo[p]
      /\ UNCHANGED <<payloads, failed, stamp, used, queued, selected>>
  BY DEF AppendFails, agentVars
<1>2. /\ \A q \in Admins \ {p} : pc[q] = "idle" /\ drop[q] = {} /\ hit[q] = {}
      /\ Current(p) /\ Progress(p) /\ Unqueued(p) /\ Kept /\ payloads \subseteq Mine(p)
  BY <1>1, Before
<1>3. copy[p][t].list = list[t]
  BY <1>1, <1>2 DEF Current
<1>4. PICK kept \in pruneCommands(list[t] \cup {job[p]}) :
          /\ PutFails(p, t, kept)
          /\ stray' = stray \cup {job[p]} \cup ((list[t] \cup {job[p]}) \ kept)
  BY <1>3 DEF AppendFails
<1>S. list' = [list EXCEPT ![t] = kept] \/ UNCHANGED list
  BY <1>4 DEF PutFails, Put
<1>5. /\ (Listed \subseteq payloads \cup selected)'
      /\ Listed \subseteq Listed' \cup stray'
      /\ (\A u, v \in Targets : list[u] \cap list[v] \subseteq selected \/ u = v)'
      /\ Newest'
      /\ (\A m \in Machines : failed[m] \cap Lists(m) \subseteq selected)'
  <2>1. CASE list' = [list EXCEPT ![t] = kept]
    <3>1. \A c \in Commands : \A u \in queued'[c] : u \in queued[c] \/ (c = job[p] /\ u = t)
      BY <1>1
    <3> QED
      BY <1>1, <1>4, <2>1, <3>1, Pruned
  <2>2. CASE UNCHANGED list
    BY <1>1, <1>2, <2>2 DEF Kept, Newest, Listed, Lists
  <2> QED
    BY <1>S, <2>1, <2>2
<1>6. payloads \subseteq Listed' \cup stray'
  <2>1. payloads \subseteq Listed \cup stray \cup {job[p]}
    BY <1>1, <1>2 DEF Mine
  <2> QED
    BY <1>4, <1>5, <2>1
<1>7. (payloads \subseteq Mine(p))'
  BY <1>1, <1>6 DEF Mine
<1>8. CASE Return(p)
  <2>1. /\ pc'[p] = "idle" /\ drop'[p] = {} /\ hit'[p] = {}
        /\ \A q \in Admins \ {p} : pc'[q] = "idle"
    BY <1>2, <1>8 DEF Return, Inv, TypeOK
  <2>2. Current(p)' /\ Progress(p)' /\ Unqueued(p)'
    BY <2>1 DEF Current, Progress, Unqueued
  <2> QED
    BY <1>5, <1>7, <2>1, <2>2, After
<1>9. CASE /\ job[p] \in selected
           /\ todo' = [todo EXCEPT ![p] = @ \ {t}] /\ UNCHANGED <<pc, job, copy, drop, hit>>
  <2>1. /\ todo'[p] = todo[p] \ {t} /\ job'[p] \in selected' /\ job'[p] = used'
        /\ \A u \in Targets \ {t} : list'[u] = list[u]
    BY <1>1, <1>2, <1>S, <1>9 DEF Unqueued, Inv, TypeOK
  <2>2. Current(p)' /\ Progress(p)' /\ Unqueued(p)'
    BY <1>1, <1>2, <1>9, <2>1 DEF Current, Progress, Unqueued, Inv, TypeOK
  <2> QED
    BY <1>1, <1>2, <1>5, <1>7, <1>9, <2>2, After
<1> QED
  BY <1>8, <1>9 DEF AppendFails

LEMMA CancelAlone ==
    ASSUME Inv, Inv', Ordered, OneByOne, ~overlapped', NEW p \in Admins, NEW t \in Targets,
           Cancel(p, t) \/ CancelFails(p, t)
    PROVE  OneByOne'
<1>1. /\ ~overlapped /\ pc[p] = "cancel" /\ t \in todo[p]
      /\ UNCHANGED <<payloads, failed, stamp, used, selected>>
      /\ queued' = [queued EXCEPT ![job[p]] = @ \ {t}]
      /\ stray' = stray \cup ({job[p]} \cap copy[p][t].list)
  BY DEF Cancel, CancelFails, agentVars
<1>2. /\ \A q \in Admins \ {p} : pc[q] = "idle" /\ drop[q] = {} /\ hit[q] = {}
      /\ Current(p) /\ Progress(p) /\ Kept /\ payloads \subseteq Mine(p)
  BY <1>1, Before
<1>3. copy[p][t].list = list[t]
  BY <1>1, <1>2 DEF Current
<1>S. list' = [list EXCEPT ![t] = list[t] \ {job[p]}] \/ UNCHANGED list
  BY <1>3 DEF Cancel, CancelFails, SaveList, PutFails, Put
<1>4. /\ \A u \in Targets : list'[u] \subseteq list[u]
      /\ \A u \in Targets \ {t} : list'[u] = list[u]
      /\ list[t] \ list'[t] \subseteq {job[p]}
      /\ drop[p] = {}
  <2>1. list \in [Targets -> SUBSET (1..used)]
    BY DEF Inv, TypeOK
  <2>2. drop[p] = {}
    BY <1>1, <1>2 DEF Progress
  <2>3. CASE list' = [list EXCEPT ![t] = list[t] \ {job[p]}]
    BY <2>1, <2>2, <2>3
  <2> QED
    BY <1>S, <2>2, <2>3
<1>5. Listed' \subseteq Listed /\ Listed \subseteq Listed' \cup stray'
  <2>1. \A u \in Targets : list[u] \subseteq Listed' \cup stray'
    BY <1>1, <1>3, <1>4 DEF Listed
  <2> QED
    BY <1>4, <2>1 DEF Listed
<1>6. (payloads \subseteq Mine(p))'
  BY <1>1, <1>2, <1>4, <1>5 DEF Mine
<1>7. Newest'
  <2> SUFFICES ASSUME NEW c \in Commands, NEW u \in queued'[c],
                      c \notin list'[u], NEW k \in list'[u]
               PROVE  stamp[k] >= stamp[c]
    BY <1>1 DEF Newest
  <2>1. u \in queued[c] /\ ~(c = job[p] /\ u = t)
    BY <1>1 DEF Ordered
  <2>2. u \in Targets
    BY <2>1 DEF Ordered
  <2> QED
    BY <1>2, <1>4, <2>1, <2>2 DEF Kept, Newest
<1>8. (Listed \subseteq payloads \cup selected)'
  BY <1>1, <1>2, <1>5 DEF Kept
<1>9. (\A u, v \in Targets : list[u] \cap list[v] \subseteq selected \/ u = v)'
  <2>1. \A u, v \in Targets : list[u] \cap list[v] \subseteq selected \/ u = v
    BY <1>2 DEF Kept
  <2>2. \A u, v \in Targets : list'[u] \cap list'[v] \subseteq list[u] \cap list[v]
    BY <1>4
  <2> QED
    BY <1>1, <2>1, <2>2
<1>10. (\A m \in Machines : failed[m] \cap Lists(m) \subseteq selected)'
  <2>1. \A m \in Machines : Lists(m)' \subseteq Lists(m)
    BY <1>4 DEF Lists, Targets
  <2>2. \A m \in Machines : failed[m] \cap Lists(m) \subseteq selected
    BY <1>2 DEF Kept
  <2> QED
    BY <1>1, <2>1, <2>2
<1>11. /\ Current(p)' /\ Progress(p)' /\ Unqueued(p)' /\ drop'[p] = {}
       /\ \A q \in Admins \ {p} : pc'[q] = "idle"
  <2>1. CASE Cancel(p, t)
    <3>1. /\ UNCHANGED <<pc, job, copy, drop>> /\ todo'[p] = todo[p] \ {t}
      BY <2>1 DEF Cancel, SaveList, Inv, TypeOK
    <3> QED
      BY <1>1, <1>2, <1>4, <3>1 DEF Current, Progress, Unqueued, Inv, TypeOK
  <2>2. CASE CancelFails(p, t)
    <3>1. /\ pc'[p] = "idle" /\ drop'[p] = {} /\ hit'[p] = {}
          /\ \A q \in Admins \ {p} : pc'[q] = "idle"
      BY <1>2, <2>2 DEF CancelFails, Return, Inv, TypeOK
    <3> QED
      BY <3>1 DEF Current, Progress, Unqueued
  <2> QED
    BY <2>1, <2>2
<1> QED
  BY <1>1, <1>6, <1>7, <1>8, <1>9, <1>10, <1>11, After

\* The steps that store no payload and change no list.
LEMMA OtherWorkAlone ==
    ASSUME Inv, Inv', Ordered, OneByOne, ~overlapped', NEW p \in Admins,
           \/ Read(p) \/ UnknownTarget(p) \/ NothingSelected(p) \/ RecomputeRead(p)
           \/ Answer(p) \/ ReadFails(p) \/ NothingSelectedFails(p) \/ RecomputeFails(p)
           \/ \E d \in Commands : ForgetCommand(p, d) \/ ForgetFails(p, d)
           \/ \E m \in Machines : RecomputeSave(p, m)
    PROVE  OneByOne'
<1>0. /\ pc \in [Admins -> Steps] /\ DOMAIN copy = Admins /\ DOMAIN job = Admins
      /\ todo \in [Admins -> SUBSET Targets] /\ drop \in [Admins -> SUBSET (1..used)]
      /\ hit \in [Admins -> SUBSET Machines] /\ list \in [Targets -> SUBSET (1..used)]
      /\ pc[p] = "idle" => todo[p] = {} /\ drop[p] = {} /\ hit[p] = {}
  BY DEF Inv, TypeOK
<1>1. /\ ~overlapped /\ pc[p] # "idle"
      /\ UNCHANGED <<failed, stamp, used, queued, selected>>
  BY <1>0 DEF Read, UnknownTarget, NothingSelected, RecomputeRead, Answer, ReadFails,
         NothingSelectedFails, RecomputeFails, ForgetCommand, ForgetFails, RecomputeSave, agentVars, obsVars
<1>2. /\ \A q \in Admins \ {p} : pc[q] = "idle"
      /\ Current(p) /\ Progress(p) /\ Unqueued(p) /\ Kept /\ payloads \subseteq Mine(p)
  BY <1>1, Before
<1>3. CASE Read(p)
  <2>1. /\ UNCHANGED <<payloads, list, job, todo, drop, hit, stray>>
        /\ pc[p] \in {"read", "readCancel"}
        /\ pc'[p] = IF pc[p] = "read" THEN "append" ELSE "cancel"
        /\ \A q \in Admins \ {p} : pc'[q] = "idle"
        /\ \A t \in todo[p] : copy'[p][t].list = list[t]
    BY <1>0, <1>2, <1>3 DEF Read, storeVars, obsVars
  <2>2. Current(p)' /\ Progress(p)'
    BY <1>1, <1>2, <2>1 DEF Current, Progress
  <2>3. Unqueued(p)'
    BY <1>1, <1>2, <2>1 DEF Unqueued, Listed
  <2>4. (payloads \subseteq Mine(p))' /\ drop'[p] = {}
    BY <1>2, <2>1 DEF Mine, Listed, Progress
  <2> QED
    BY <1>1, <1>2, <2>1, <2>2, <2>3, <2>4, ListsAlone
<1>4. CASE \/ UnknownTarget(p) \/ NothingSelected(p) \/ Answer(p)
           \/ ReadFails(p) \/ NothingSelectedFails(p) \/ RecomputeFails(p)
  <2>0. UNCHANGED list
    <3>1. ASSUME NEW m \in hit[p], pc[p] = "recompute", PutDesired(p, m) PROVE UNCHANGED list
      <4>1. copy[p][m].list = list[m]
        BY <1>2, <3>1 DEF Current
      <4> QED
        BY <1>0, <3>1, <4>1 DEF PutDesired
    <3> QED
      BY <1>4, <3>1 DEF UnknownTarget, NothingSelected, Answer, ReadFails, NothingSelectedFails,
                        RecomputeFails, storeVars
  <2>1. /\ Return(p)
        /\ pc'[p] = "idle" /\ drop'[p] = {} /\ hit'[p] = {}
        /\ \A q \in Admins \ {p} : pc'[q] = "idle"
    BY <1>0, <1>2, <1>4 DEF Return, UnknownTarget, NothingSelected, Answer, ReadFails,
                            NothingSelectedFails, RecomputeFails
  <2>2. Current(p)' /\ Progress(p)' /\ Unqueued(p)' /\ Listed' = Listed
    BY <2>0, <2>1 DEF Current, Progress, Unqueued, Listed
  <2>3. /\ payloads' \subseteq payloads /\ payloads' \subseteq Listed \cup stray'
        /\ payloads \subseteq payloads' \cup selected'
    <3>1. CASE UnknownTarget(p)
      <4>1. /\ drop[p] = {} /\ payloads' = payloads /\ stray' = stray \cup {job[p]}
        BY <1>2, <3>1 DEF UnknownTarget, Progress, storeVars
      <4> QED
        BY <1>2, <4>1 DEF Mine
    <3>2. CASE NothingSelected(p)
      <4>1. /\ drop[p] = {} /\ payloads' = payloads \ {job[p]} /\ stray' = stray
            /\ job[p] \in selected
        BY <1>2, <3>2 DEF NothingSelected, Progress, obsVars
      <4> QED
        BY <1>1, <1>2, <4>1 DEF Mine
    <3>3. CASE Answer(p)
      <4>1. /\ drop[p] = {} /\ payloads' = payloads /\ stray' = stray
            /\ pc[p] = "recompute"
        BY <1>2, <3>3 DEF Answer, Progress, storeVars, obsVars
      <4> QED
        BY <1>2, <4>1 DEF Mine
    <3>4. CASE ReadFails(p)
      <4>1. /\ drop[p] = {} /\ payloads' = payloads
            /\ stray' = IF pc[p] = "read" THEN stray \cup {job[p]} ELSE stray
            /\ pc[p] \in {"read", "readCancel"}
        BY <1>2, <3>4 DEF ReadFails, Progress, storeVars
      <4> QED
        BY <1>2, <4>1 DEF Mine
    <3>5. CASE NothingSelectedFails(p)
      <4>1. /\ drop[p] = {} /\ stray' = stray \cup {job[p]}
            /\ payloads' \subseteq payloads /\ payloads \subseteq payloads' \cup {job[p]}
            /\ job[p] \in selected
        BY <1>2, <3>5 DEF NothingSelectedFails, Progress
      <4> QED
        BY <1>1, <1>2, <4>1 DEF Mine
    <3>6. CASE RecomputeFails(p)
      <4>1. drop[p] = {} /\ payloads' = payloads /\ stray' = stray /\ hit[p] # {}
        BY <3>6 DEF RecomputeFails
      <4> QED
        BY <1>2, <4>1 DEF Mine
    <3> QED
      BY <1>4, <3>1, <3>2, <3>3, <3>4, <3>5, <3>6
  <2>4. (payloads \subseteq Mine(p))'
    BY <2>2, <2>3 DEF Mine
  <2> QED
    BY <1>1, <1>2, <2>0, <2>1, <2>2, <2>3, <2>4, ListsAlone
<1>5. CASE RecomputeRead(p)
  <2>1. /\ UNCHANGED <<payloads, list, drop, hit, stray>>
        /\ pc[p] \in {"append", "cancel"} /\ drop[p] = {} /\ hit[p] # {}
        /\ pc'[p] = "recompute"
        /\ \A q \in Admins \ {p} : pc'[q] = "idle"
        /\ \A m \in hit[p] : copy'[p][m].list = list[m]
    BY <1>0, <1>2, <1>5 DEF RecomputeRead, storeVars, obsVars
  <2>2. Current(p)' /\ Progress(p)' /\ Unqueued(p)'
    BY <2>1 DEF Current, Progress, Unqueued
  <2>3. (payloads \subseteq Mine(p))'
    BY <1>2, <2>1 DEF Mine, Listed
  <2> QED
    BY <1>1, <1>2, <2>1, <2>2, <2>3, ListsAlone
<1>6. CASE \E m \in Machines : RecomputeSave(p, m)
  <2>1. /\ pc[p] = "recompute" /\ hit'[p] \subseteq hit[p]
        /\ UNCHANGED <<payloads, pc, copy, drop, stray>>
    BY <1>0, <1>6 DEF RecomputeSave, obsVars
  <2>2. UNCHANGED list
    <3>1. ASSUME NEW m \in Machines, RecomputeSave(p, m) PROVE UNCHANGED list
      <4>1. copy[p][m].list = list[m]
        BY <1>2, <2>1, <3>1 DEF Current, RecomputeSave
      <4> QED
        BY <1>0, <3>1, <4>1 DEF RecomputeSave, PutDesired
    <3> QED
      BY <1>6, <3>1
  <2>3. Current(p)' /\ Progress(p)' /\ Unqueued(p)'
    BY <1>2, <2>1, <2>2 DEF Current, Progress, Unqueued
  <2>4. drop'[p] = {} /\ (payloads \subseteq Mine(p))'
    BY <1>2, <2>1, <2>2 DEF Mine, Listed, Progress
  <2> QED
    BY <1>1, <1>2, <2>1, <2>2, <2>3, <2>4, ListsAlone
<1>7. ASSUME NEW d \in Commands, ForgetCommand(p, d) \/ ForgetFails(p, d) PROVE OneByOne'
  <2>1. /\ d \in drop[p] /\ drop'[p] = drop[p] \ {d}
        /\ UNCHANGED <<list, pc, job, todo, copy, hit>>
    BY <1>0, <1>7 DEF ForgetCommand, ForgetFails
  <2>2. \/ payloads' = payloads \ {d} /\ stray' = stray
        \/ payloads' \in {payloads, payloads \ {d}} /\ stray' = stray \cup {d}
    BY <1>7 DEF ForgetCommand, ForgetFails, obsVars
  <2>3. pc[p] = "append" /\ Listed' = Listed /\ drop[p] \cap Listed \subseteq selected
    BY <1>0, <1>1, <1>2, <2>1 DEF Progress, Kept, Steps, Listed
  <2>4. Current(p)'
    BY <1>2, <2>1 DEF Current
  <2>5. Progress(p)'
    BY <1>1, <1>2, <2>1, <2>3 DEF Progress
  <2>6. Unqueued(p)'
    BY <1>1, <1>2, <2>1, <2>3 DEF Unqueued
  <2>7. (payloads \subseteq Mine(p))'
    BY <1>2, <2>1, <2>2, <2>3 DEF Mine
  <2> QED
    BY <1>1, <1>2, <2>1, <2>2, <2>3, <2>4, <2>5, <2>6, <2>7, ListsAlone
<1> QED
  BY <1>3, <1>4, <1>5, <1>6, <1>7

LEMMA CancelArrivesAlone ==
    ASSUME Inv, Inv', Ordered, OneByOne, ~overlapped', NEW p \in Admins, NEW c \in Commands,
           cancelCommand(p, c)
    PROVE  OneByOne'
<1>1. /\ ~overlapped /\ Idle
      /\ UNCHANGED <<payloads, list, drop, hit, failed, stamp, used, queued, selected, stray>>
      /\ pc' = [pc EXCEPT ![p] = "readCancel"]
  BY DEF cancelCommand, Arrive, storeVars, agentVars
<1>2. /\ pc'[p] = "readCancel" /\ drop'[p] = {} /\ hit'[p] = {} /\ drop[p] = {}
      /\ \A q \in Admins \ {p} : pc'[q] = "idle"
  BY <1>1 DEF Idle, Inv, TypeOK
<1>3. Kept /\ payloads \subseteq Mine(p)
  BY <1>1, Before
<1>4. Current(p)' /\ Progress(p)' /\ Unqueued(p)'
  BY <1>2 DEF Current, Progress, Unqueued
<1>5. (payloads \subseteq Mine(p))'
  BY <1>1, <1>3 DEF Mine, Listed, Idle
<1> QED
  BY <1>1, <1>2, <1>3, <1>4, <1>5, ListsAlone

LEMMA SaveFailsAlone ==
    ASSUME Inv, Inv', Ordered, Ordered', OneByOne, ~overlapped', NEW p \in Admins,
           NEW c \in Commands, SavePayloadFails(p, c)
    PROVE  OneByOne'
<1>1. /\ ~overlapped /\ Idle
      /\ UNCHANGED <<list, pc, drop, hit, failed, queued, selected>>
      /\ payloads \subseteq payloads' /\ payloads' \subseteq payloads \cup {c}
      /\ stray' = stray \cup {c}
  BY DEF SavePayloadFails, Arrive, requestVars, agentVars
<1>2. \A q \in Admins : pc'[q] = "idle" /\ drop'[q] = {} /\ hit'[q] = {} /\ drop[q] = {}
  BY <1>1 DEF Idle, Inv, TypeOK
<1>3. Kept /\ payloads \subseteq Mine(p)
  BY <1>1, Before
<1>4. Listed' = Listed /\ \A m \in Machines : Lists(m)' = Lists(m)
  BY <1>1 DEF Listed, Lists
<1>5. Current(p)' /\ Progress(p)' /\ Unqueued(p)'
  BY <1>2 DEF Current, Progress, Unqueued
<1>6. (payloads \subseteq Mine(p))'
  <2>1. payloads \subseteq Listed \cup stray
    BY <1>1, <1>2, <1>3 DEF Mine, Idle
  <2> QED
    BY <1>1, <1>4, <2>1 DEF Mine
<1>7. Newest'
  <2>1. \A d \in Commands \ {c} : stamp'[d] = stamp[d]
    BY DEF SavePayloadFails, commandName, Ordered
  <2>2. c \notin 1..used /\ 1..used \subseteq Commands
    BY DEF SavePayloadFails, commandName, Inv, TypeOK
  <2>3. \A d \in Commands : \A t \in queued[d] :
            t \in Targets /\ d \in 1..used /\ list[t] \subseteq 1..used
    BY DEF Ordered, Inv, TypeOK
  <2>4. Newest
    BY <1>3 DEF Kept
  <2> QED
    BY <1>1, <2>1, <2>2, <2>3, <2>4 DEF Newest
<1>8. (Listed \subseteq payloads \cup selected)'
  BY <1>1, <1>3, <1>4 DEF Kept
<1>9. (\A t, u \in Targets : list[t] \cap list[u] \subseteq selected \/ t = u)'
  BY <1>1, <1>3 DEF Kept
<1>10. (\A m \in Machines : failed[m] \cap Lists(m) \subseteq selected)'
  BY <1>1, <1>3, <1>4 DEF Kept
<1> QED
  BY <1>2, <1>5, <1>6, <1>7, <1>8, <1>9, <1>10, After

\* An agent misses no command of its lists but those queued by selector.
LEMMA RunAlone ==
    ASSUME Inv, OneByOne, ~overlapped', NEW m \in Machines, NEW c \in Commands, Run(m, c)
    PROVE  OneByOne'
<1>1. /\ UNCHANGED <<payloads, list, desired, pc, job, todo, copy, drop, hit>>
      /\ UNCHANGED <<stamp, used, queued, selected, stray, overlapped>>
  BY DEF Run, storeVars, requestVars, obsVars
<1>2. \/ failed' = failed
      \/ failed' = [failed EXCEPT ![m] = @ \cup {c}] /\ c \notin payloads
  BY DEF Run
<1>3. Listed' = Listed /\ Wanted' = Wanted /\ \A k \in Machines : Lists(k)' = Lists(k)
  BY <1>1 DEF Listed, Wanted, Lists
<1>4. Kept /\ Listed \subseteq payloads \cup selected
  BY <1>1 DEF OneByOne, Kept
<1>5. \A k \in Machines : failed'[k] \cap Lists(k) \subseteq selected
  <2> SUFFICES ASSUME NEW k \in Machines, NEW d \in failed'[k] \cap Lists(k) PROVE d \in selected
    OBVIOUS
  <2>1. CASE d \in failed[k]
    BY <1>4, <2>1 DEF Kept
  <2>2. CASE d \notin failed[k]
    <3>1. d \notin payloads
      BY <1>2, <2>2 DEF Inv, TypeOK
    <3> QED
      BY <1>4, <3>1 DEF Lists, Listed, Targets
  <2> QED
    BY <2>1, <2>2
<1>6. Kept'
  BY <1>1, <1>3, <1>4, <1>5 DEF Kept, Newest
<1>7. \A p \in Admins : (Current(p) /\ Progress(p) /\ Unqueued(p))'
  <2> SUFFICES ASSUME NEW p \in Admins PROVE (Current(p) /\ Progress(p) /\ Unqueued(p))'
    OBVIOUS
  <2>1. Current(p) /\ Progress(p) /\ Unqueued(p)
    BY <1>1 DEF OneByOne
  <2>2. Unqueued(p)'
    <3>1. \A k \in Machines :
              job[p] \in payloads /\ job[p] \notin failed[k] => job[p] \notin failed'[k]
      BY <1>2 DEF Inv, TypeOK
    <3> QED
      BY <1>1, <1>3, <2>1, <3>1 DEF Unqueued
  <2> QED
    BY <1>1, <2>1, <2>2 DEF Current, Progress
<1> QED
  BY <1>1, <1>6, <1>7 DEF OneByOne

LEMMA NextOneByOne == Inv /\ Inv' /\ Ordered /\ Ordered' /\ OneByOne /\ [Next]_vars => OneByOne'
<1> SUFFICES ASSUME Inv, Inv', Ordered, Ordered', OneByOne, [Next]_vars, ~overlapped' PROVE OneByOne'
  BY DEF OneByOne
<1>1. CASE UNCHANGED vars
  BY <1>1 DEF vars, OneByOne, Current, Progress, Unqueued, Kept, Newest, Listed, Lists, Wanted
<1>2. ASSUME NEW p \in Admins, NEW c \in Commands, createCommand(p, c) PROVE OneByOne'
  <2>1. PICK targets \in {{}} \cup {{t} : t \in Targets} : SavePayload(p, c, targets)
    BY <1>2 DEF createCommand
  <2>2. targets \in SUBSET Targets /\ \A t, u \in targets : t = u
    OBVIOUS
  <2> QED
    BY <1>2, <2>1, <2>2, SavedAlone DEF createCommand
<1>3. ASSUME NEW p \in Admins, NEW c \in Commands, createSelected(p, c) PROVE OneByOne'
  <2>1. PICK matching \in SUBSET Machines : SavePayload(p, c, matching)
    BY <1>3 DEF createSelected
  <2>2. matching \in SUBSET Targets /\ matching \subseteq Machines /\ selected' = selected \cup {c}
    BY <1>3 DEF createSelected, Targets
  <2> QED
    BY <2>1, <2>2, SavedAlone
<1>4. ASSUME NEW p \in Admins, Work(p) PROVE OneByOne'
  BY <1>4, AppendAlone, CancelAlone, OtherWorkAlone DEF Work
<1>5. ASSUME NEW p \in Admins, StoreFails(p) PROVE OneByOne'
  BY <1>5, AppendFailsAlone, CancelAlone, OtherWorkAlone DEF StoreFails
<1> QED
  BY <1>1, <1>2, <1>3, <1>4, <1>5, CancelArrivesAlone, SaveFailsAlone, RunAlone DEF Next

LEMMA AlwaysOneByOne == Spec => [](Inv /\ Ordered /\ OneByOne)
<1>1. Init => Inv /\ Ordered /\ OneByOne
  BY InitInv, InitOneByOne
<1>2. Inv /\ Ordered /\ OneByOne /\ [Next]_vars => (Inv /\ Ordered /\ OneByOne)'
  BY NextInv, NextOrdered, NextOneByOne
<1> QED
  BY <1>1, <1>2, PTL DEF Spec

\* PayloadsKept for any lists, limits and errors: the payload of a command in one
\* list is stored before the list names it and deleted after (createCommand,
\* forgetCommands).
THEOREM PayloadsAreKept == Spec => []PayloadsKept
<1>1. OneByOne => PayloadsKept
  BY DEF OneByOne, Kept, PayloadsKept
<1> QED
  BY <1>1, AlwaysOneByOne, PTL

\* NoOrphans, likewise: whatever a list drops or never gets is deleted before the
\* request is answered, unless a call of the store reports an error, which may be
\* any call of it (createCommand, cancelCommand, forgetCommands).
THEOREM NoPayloadIsOrphaned == Spec => []NoOrphans
<1>1. Inv /\ OneByOne => NoOrphans
  BY DEF Inv, TypeOK, OneByOne, Kept, Wanted, NoOrphans, Idle
<1> QED
  BY <1>1, AlwaysOneByOne, PTL

\* NewestSecondsKept for any limit and any number of commands, each added to a list
\* that has been pruned before (pruneCommands).
THEOREM NewestSecondsAreKept == Spec => []NewestSecondsKept
<1>1. OneByOne => NewestSecondsKept
  BY DEF OneByOne, Kept, Newest, NewestSecondsKept
<1> QED
  BY <1>1, AlwaysOneByOne, PTL

\* MissesOnlyDropped for any agents, however late they fetch (handleModule).
THEOREM OnlyDroppedAreMissed == Spec => []MissesOnlyDropped
<1>1. OneByOne => MissesOnlyDropped
  BY DEF OneByOne, Kept, MissesOnlyDropped
<1> QED
  BY <1>1, AlwaysOneByOne, PTL
================================================================================
