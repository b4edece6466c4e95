--------------------------- MODULE EnrollmentProofs ---------------------------
(***************************************************************************)
(* For any number of agents, attempts, failures and crashes: the types,    *)
(* the limit of a token, the record behind every certificate, the one      *)
(* authority behind them all and the second records of a host.             *)
(*                                                                         *)
(* TokenLimit is not inductive: a failed write of the store lets its       *)
(* memory run ahead of its disk, and a restart takes it back.  What is     *)
(* inductive is that the DISK counts at least the accepted attempts        *)
(* (UsesCovered): an attempt is accepted only once its use is on the disk. *)
(* Likewise an answer in flight, one being written and one in a file must  *)
(* all be on the disk, and signed, for EnrolledIsRecorded (AnsweredKept).   *)
(* OneAuthority rests on ca.pem being the first file that is written: when  *)
(* it is missing nothing is there yet, so that a CA is made up of the last  *)
(* creation only, and nothing has been signed before all of it is there     *)
(* (CAWhole, CAUnsigned).                                                   *)
(* FewDuplicates counts records; what is inductive counts the attempts that *)
(* may still become one as well, and knows who may ask again (FailuresPaid).*)
(***************************************************************************)
EXTENDS Enrollment, TLAPS, FiniteSetTheorems

Asked ==
    /\ \A i \in Attempts : req[i] # "none" => i <= attempts
    /\ \A a \in Agents : proc[a] \in {"waiting", "writing"} => attempt[a] \in 1..attempts

UsesCovered ==
    /\ IsFiniteSet(granted)
    /\ Cardinality(granted) <= disk.uses
    /\ Limit # Unlimited => mem.uses <= Limit

\* Attempts that are on the disk and signed.
Kept == {i \in disk.machines : signer[i] # 0}

AnsweredKept ==
    /\ \A i \in Attempts : req[i] = "answered" => i \in Kept
    /\ \A a \in Agents : proc[a] = "writing" => attempt[a] \in Kept
    /\ \A a \in Agents : \A f \in Files : file[a][f] \in Attempts => file[a][f] \in Kept

\* The CA is made up of the last creation, from ca.pem on.
CAWhole ==
    /\ caFile["ca.pem"] = Missing => \A f \in CAFiles : caFile[f] = Missing
    /\ \A f \in CAFiles : caFile[f] \in {Missing, Torn, created}
    /\ server = "creating" => created > 0
    /\ server = "up" => CALoads

\* What is signed is signed by all of it.
CAUnsigned ==
    /\ server = "creating" => \A i \in Attempts : signer[i] = 0
    /\ \A i \in Attempts : signer[i] # 0 => CALoads /\ signer[i] = created

\* TypeOK, of the CA and of the rest.
CATyped ==
    /\ server \in {"down", "creating", "up"}
    /\ created \in Nat
    /\ caFile \in [CAFiles -> 0..created \cup {Torn}]
    /\ signer \in [Attempts -> 0..created]

TokenTyped ==
    /\ mem \in Stores /\ disk \in Stores
    /\ disk.uses <= mem.uses /\ disk.machines \subseteq mem.machines
    /\ expired \in BOOLEAN
    /\ req \in [Attempts -> Requests]
    /\ proc \in [Agents -> Processes]
    /\ attempt \in [Agents -> 0..attempts]
    /\ left \in [Agents -> SUBSET Files]
    /\ file \in [Agents -> [Files -> Attempts \cup {Missing, Torn}]]
    /\ attempts \in 0..MaxAttempts
    /\ died \in BOOLEAN
    /\ granted \subseteq 1..attempts

Typed == TokenTyped /\ Asked

Authority == CATyped /\ CAWhole /\ CAUnsigned

------------------------------------------------------------------------------

\* The store: the counters and the records are well typed, what the disk
\* holds is also in memory, and every process knows its attempt.
LEMMA TypedInit == ASSUME EnrollmentAssumption, Init PROVE Typed
<1>1. mem \in Stores /\ disk = mem
  BY SMT DEF Init, Empty, Stores
<1>2. /\ req = [i \in Attempts |-> "none"] /\ attempts = 0 /\ granted = {}
      /\ expired = FALSE /\ died = FALSE
      /\ proc = [a \in Agents |-> "off"] /\ left = [a \in Agents |-> {}]
      /\ attempt = [a \in Agents |-> 0]
      /\ file = [a \in Agents |-> [f \in Files |-> Missing]]
      /\ MaxAttempts \in Nat
  BY SMT DEF Init, EnrollmentAssumption
<1>3. attempt \in [Agents -> 0..attempts] /\ attempts \in 0..MaxAttempts
  BY <1>2, SMT
<1>4. file \in [Agents -> [Files -> Attempts \cup {Missing, Torn}]]
  BY <1>2
<1>5. Asked
  BY <1>2, SMT DEF Asked
<1>6. req \in [Attempts -> Requests] /\ proc \in [Agents -> Processes]
      /\ left \in [Agents -> SUBSET Files]
  BY <1>2 DEF Requests, Processes
<1>7. disk.uses <= mem.uses /\ disk.machines \subseteq mem.machines
  BY <1>1, SMT DEF Stores
<1> QED BY <1>1, <1>2, <1>3, <1>4, <1>5, <1>6, <1>7 DEF Typed, TokenTyped

\* One use more is a store, of the same records.
LEMMA OneUse ==
    ASSUME NEW s \in Stores
    PROVE  /\ [s EXCEPT !.uses = @ + 1] \in Stores
           /\ [s EXCEPT !.uses = @ + 1].uses = s.uses + 1
           /\ [s EXCEPT !.uses = @ + 1].machines = s.machines
  BY SMT DEF Stores

\* One record more is a store, with the same uses.
LEMMA OneRecord ==
    ASSUME NEW s \in Stores, NEW i \in Attempts
    PROVE  /\ [s EXCEPT !.machines = @ \cup {i}] \in Stores
           /\ [s EXCEPT !.machines = @ \cup {i}].uses = s.uses
           /\ [s EXCEPT !.machines = @ \cup {i}].machines = s.machines \cup {i}
  BY DEF Stores

\* A file is torn or kept, and stays a file.
LEMMA OneFileTorn ==
    ASSUME file \in [Agents -> [Files -> Attempts \cup {Missing, Torn}]],
           NEW a \in Agents, NEW f \in Files,
           file' = file \/ file' = [file EXCEPT ![a][f] = Torn]
    PROVE  /\ file' \in [Agents -> [Files -> Attempts \cup {Missing, Torn}]]
           /\ \A b \in Agents : \A g \in Files : file'[b][g] \in {file[b][g], Torn}
  OBVIOUS

\* Every step of the server, the agents and their crashes preserves it.
LEMMA TypedNext == ASSUME EnrollmentAssumption, Typed, [Next]_vars PROVE Typed'
<1> USE DEF EnrollmentAssumption, Typed, TokenTyped, Asked, Stores, Attempts, Requests,
       Processes, storeVars, caVars, agentVars, serverVars, obsVars, boundVars
<1>1. ASSUME NEW i \in Attempts, Serve(i) PROVE Typed'
  <2>1. CASE ConsumeToken(i)
    <3>1. mem' \in Stores /\ disk' = mem'
      BY <2>1, OneUse DEF ConsumeToken
    <3>2. /\ req' = [req EXCEPT ![i] = "consumed"]
          /\ granted' = granted \cup {i}
          /\ i \in 1..attempts
      BY <2>1, SMT DEF ConsumeToken, Accepted
    <3>3. UNCHANGED <<expired, died, proc, attempt, left, file, attempts>>
      BY <2>1 DEF ConsumeToken
    <3> QED BY <3>1, <3>2, <3>3, SMT
  <2>2. CASE ConsumeTokenFails(i)
    <3>1. mem' \in Stores /\ mem'.uses = mem.uses + 1 /\ mem'.machines = mem.machines
      BY <2>2, OneUse DEF ConsumeTokenFails
    <3>2. req' = [req EXCEPT ![i] = "refused"] /\ req[i] = "sent"
      BY <2>2 DEF ConsumeTokenFails, Refused
    <3>3. UNCHANGED <<disk, expired, died, proc, attempt, left, file, attempts, granted>>
      BY <2>2 DEF ConsumeTokenFails, Refused
    <3> QED BY <3>1, <3>2, <3>3, SMT
  <2>3. CASE RefuseToken(i)
    BY <2>3, SMT DEF RefuseToken, Refused
  <2>4. CASE SaveMachine(i)
    <3>1. mem' \in Stores /\ disk' = mem'
      BY <2>4, OneRecord DEF SaveMachine
    <3> QED BY <2>4, <3>1, SMT DEF SaveMachine
  <2>5. CASE SaveMachineFails(i)
    <3>1. mem' \in Stores /\ mem'.uses = mem.uses /\ mem'.machines = mem.machines \cup {i}
      BY <2>5, OneRecord DEF SaveMachineFails
    <3> QED BY <2>5, <3>1, SMT DEF SaveMachineFails
  <2> QED BY <1>1, <2>1, <2>2, <2>3, <2>4, <2>5 DEF Serve
<1>2. CASE Stop
  <2>1. req' = [i \in Attempts |-> IF req[i] = "none" THEN "none" ELSE "refused"]
    BY <1>2 DEF Stop, Down
  <2>2. /\ mem' = disk /\ died' \in BOOLEAN
        /\ UNCHANGED <<disk, expired, proc, attempt, left, file, attempts, granted>>
    BY <1>2 DEF Stop
  <2>3. req' \in [Attempts -> Requests] /\ Asked'
    BY <2>1, <2>2, SMT
  <2> QED BY <2>2, <2>3, SMT
<1>8. CASE Server
  <2>1. UNCHANGED <<mem, disk, expired, req, proc, attempt, left, file, attempts, granted, died>>
    BY <1>8 DEF Server, Boot, CreateCA, CAReady
  <2> QED BY <2>1
<1>3. CASE Expire
  BY <1>3, SMT DEF Expire
<1>4. ASSUME NEW a \in Agents, Agent(a) PROVE Typed'
  <2>1. CASE Enroll(a)
    BY <2>1, SMT DEF Enroll
  <2>2. CASE EnrollFails(a)
    BY <2>2, SMT DEF EnrollFails, Exit, Fail
  <2>3. CASE Answer(a)
    BY <2>3, SMT DEF Answer, Files
  <2>4. ASSUME NEW f \in Files, WriteFile(a, f) PROVE Typed'
    BY <2>4, SMT DEF WriteFile
  <2>5. CASE EnrollDone(a)
    BY <2>5, SMT DEF EnrollDone, Exit
  <2>6. CASE Run(a)
    BY <2>6, SMT DEF Run
  <2>7. CASE Renew(a)
    BY <2>7, SMT DEF Renew
  <2>8. CASE RenewDone(a)
    BY <2>8, SMT DEF RenewDone
  <2> QED BY <1>4, <2>1, <2>2, <2>3, <2>4, <2>5, <2>6, <2>7, <2>8 DEF Agent
<1>5. ASSUME NEW a \in Agents, RenewFails(a) PROVE Typed'
  <2>1. file' \in [Agents -> [Files -> Attempts \cup {Missing, Torn}]]
    <3>1. "cert.pem" \in Files
      BY DEF Files
    <3>2. file' = file \/ file' = [file EXCEPT ![a]["cert.pem"] = Torn]
      BY <1>5 DEF RenewFails
    <3> QED BY <3>1, <3>2, OneFileTorn
  <2>2. /\ UNCHANGED <<mem, disk, expired, req, attempt, left, attempts, granted>>
        /\ proc' = [proc EXCEPT ![a] = "running"]
        /\ died' \in BOOLEAN
    BY <1>5 DEF RenewFails
  <2>3. Asked'
    BY <2>2, SMT
  <2>4. proc' \in [Agents -> Processes]
    BY <2>2
  <2> QED BY <2>1, <2>2, <2>3, <2>4
<1>6. ASSUME NEW a \in Agents, Crash(a) PROVE Typed'
  <2>1. Open(a) \subseteq Files
    BY SMT DEF Open, Files
  <2>2. file' \in [Agents -> [Files -> Attempts \cup {Missing, Torn}]]
    <3>1. CASE UNCHANGED file
      BY <3>1
    <3>2. CASE \E f \in Open(a) : file' = [file EXCEPT ![a][f] = Torn]
      <4> PICK f \in Files : file' = [file EXCEPT ![a][f] = Torn]
        BY <2>1, <3>2
      <4> QED BY OneFileTorn
    <3> QED BY <1>6, <3>1, <3>2 DEF Crash
  <2>3. /\ UNCHANGED <<mem, disk, expired, req, attempts, granted>>
        /\ proc' = [proc EXCEPT ![a] = "off"]
        /\ attempt' = [attempt EXCEPT ![a] = 0]
        /\ left' = [left EXCEPT ![a] = {}]
        /\ died' \in BOOLEAN
    BY <1>6 DEF Crash, Exit
  <2>4. Asked'
    BY <2>3, SMT
  <2>5. proc' \in [Agents -> Processes] /\ left' \in [Agents -> SUBSET Files]
    BY <2>3
  <2>6. attempt' \in [Agents -> 0..attempts']
    BY <2>3, SMT
  <2> QED BY <2>2, <2>3, <2>4, <2>5, <2>6
<1>7. CASE UNCHANGED vars
  BY <1>7, SMT DEF vars
<1> QED BY <1>1, <1>2, <1>3, <1>4, <1>5, <1>6, <1>7, <1>8 DEF Next

------------------------------------------------------------------------------

\* No creation, no file and no certificate.
LEMMA AuthorityInit == ASSUME EnrollmentAssumption, Init PROVE Authority
<1>1. /\ server = "down" /\ created = 0
      /\ caFile = [f \in CAFiles |-> 0]
      /\ signer = [i \in Attempts |-> 0]
  BY DEF Init, Missing
<1>2. "ca.pem" \in CAFiles
  BY DEF CAFiles
<1> QED BY <1>1, <1>2, SMT DEF Authority, CATyped, CAWhole, CAUnsigned, Missing

\* The file that is written next is one of the three.
LEMMA NextFileIsOne ==
    ASSUME Unwritten # {}
    PROVE  NextFile \in CAFiles /\ (caFile["ca.pem"] # created => NextFile = "ca.pem")
<1> DEFINE First == CHOOSE k \in Unwritten : \A l \in Unwritten : k <= l
<1>1. Unwritten \subseteq 1..3 /\ (1 \in Unwritten <=> caFile["ca.pem"] # created)
  BY SMT DEF Unwritten, Creation
<1>2. \E k \in Unwritten : \A l \in Unwritten : k <= l
  <2>1. CASE 1 \in Unwritten
    BY <1>1, <2>1, SMT
  <2>2. CASE 1 \notin Unwritten /\ 2 \in Unwritten
    BY <1>1, <2>2, SMT
  <2>3. CASE 1 \notin Unwritten /\ 2 \notin Unwritten
    <3>1. \A k \in Unwritten : k = 3
      BY <1>1, <2>3, SMT
    <3> QED BY <3>1, SMT
  <2> QED BY <2>1, <2>2, <2>3
<1>3. First \in Unwritten /\ \A l \in Unwritten : First <= l
  BY <1>2
<1> HIDE DEF First
<1>4. First \in 1..3 /\ (1 \in Unwritten => First = 1)
  BY <1>1, <1>3, SMT
<1>5. /\ Creation[1] = "ca.pem" /\ Creation[2] = "ca.key"
      /\ Creation[3] = "module-signing.key"
  BY SMT DEF Creation
<1>6. Creation[First] \in CAFiles /\ (First = 1 => Creation[First] = "ca.pem")
  BY <1>4, <1>5, SMT DEF CAFiles
<1> QED BY <1>1, <1>4, <1>6 DEF NextFile, First

\* Steps that leave the CA alone.
LEMMA AuthorityKept ==
    ASSUME Authority, UNCHANGED <<server, created, caFile, signer>> PROVE Authority'
  BY DEF Authority, CATyped, CAWhole, CAUnsigned, CALoads

\* A CA that loads is of the last creation.
LEMMA LoadedIsLast ==
    ASSUME Authority, CALoads
    PROVE  created > 0 /\ \A f \in CAFiles : caFile[f] = created
<1>1. \A f \in CAFiles : caFile[f] = created /\ created # Missing
  BY DEF Authority, CAWhole, CALoads
<1>2. "ca.pem" \in CAFiles /\ created \in Nat
  BY DEF CAFiles, Authority, CATyped
<1> QED BY <1>1, <1>2, SMT DEF Missing

\* A boot begins a creation only when nothing is there, its files come in their
\* order, and a server that is up signs with all of them.
LEMMA AuthorityNext ==
    ASSUME EnrollmentAssumption, Authority, [Next]_vars PROVE Authority'
<1> USE DEF storeVars, caVars, agentVars, serverVars, obsVars, boundVars
<1>0. /\ "ca.pem" \in CAFiles /\ "ca.key" \in CAFiles
      /\ created \in Nat
      /\ caFile \in [CAFiles -> 0..created \cup {Torn}]
      /\ signer \in [Attempts -> 0..created]
  BY DEF CAFiles, Authority, CATyped
<1>1. ASSUME NEW i \in Attempts, Serve(i) PROVE Authority'
  <2>1. CASE SaveMachine(i)
    <3>1. /\ UNCHANGED <<server, created, caFile>> /\ server = "up"
          /\ signer' = [signer EXCEPT ![i] = caFile["ca.key"]]
      BY <2>1 DEF SaveMachine
    <3>2. CALoads
      BY <3>1 DEF Authority, CAWhole
    <3>3. signer' = [signer EXCEPT ![i] = created]
      BY <1>0, <3>1, <3>2, LoadedIsLast
    <3>4. CATyped'
      BY <1>0, <3>1, <3>3, SMT DEF Authority, CATyped
    <3>5. CAWhole' /\ CALoads'
      BY <3>1, <3>2 DEF Authority, CAWhole, CALoads
    <3>6. CAUnsigned'
      BY <1>0, <3>1, <3>3, <3>5, SMT DEF Authority, CAUnsigned
    <3> QED BY <3>4, <3>5, <3>6 DEF Authority
  <2>2. CASE ConsumeToken(i) \/ ConsumeTokenFails(i) \/ RefuseToken(i) \/ SaveMachineFails(i)
    BY <2>2, AuthorityKept
       DEF ConsumeToken, ConsumeTokenFails, RefuseToken, SaveMachineFails
  <2> QED BY <1>1, <2>1, <2>2 DEF Serve
<1>2. CASE Boot
  <2>1. UNCHANGED <<caFile, signer>>
    BY <1>2 DEF Boot
  <2>2. CASE /\ caFile["ca.pem"] = Missing
             /\ server' = "creating" /\ created' = created + 1
    <3>1. (\A f \in CAFiles : caFile[f] = Missing) /\ ~CALoads
      BY <1>0, <2>2 DEF Authority, CAWhole, CALoads
    <3>2. \A i \in Attempts : signer[i] = 0
      BY <3>1 DEF Authority, CAUnsigned
    <3>3. created' \in Nat /\ created' > 0
      BY <1>0, <2>2, SMT
    <3>4. CATyped'
      BY <1>0, <2>1, <2>2, <3>1, <3>2, <3>3, SMT DEF CATyped, Missing
    <3>5. CAWhole' /\ CAUnsigned'
      BY <2>1, <2>2, <3>1, <3>2, <3>3 DEF CAWhole, CAUnsigned
    <3> QED BY <3>4, <3>5 DEF Authority
  <2>3. CASE CALoads /\ server' = "up" /\ UNCHANGED created
    BY <2>1, <2>3 DEF Authority, CATyped, CAWhole, CAUnsigned, CALoads
  <2> QED BY <1>2, <2>2, <2>3 DEF Boot, LoadOrCreate
<1>3. CASE CreateCA
  <2>1. /\ UNCHANGED <<server, created, signer>> /\ server = "creating"
        /\ caFile' = [caFile EXCEPT ![NextFile] = created] /\ Unwritten # {}
    BY <1>3 DEF CreateCA
  <2>2. NextFile \in CAFiles /\ (caFile["ca.pem"] # created => NextFile = "ca.pem")
    BY <2>1, NextFileIsOne
  <2>3. created > 0 /\ \A i \in Attempts : signer[i] = 0
    BY <2>1 DEF Authority, CAWhole, CAUnsigned
  <2> HIDE DEF NextFile
  <2>4. CATyped'
    BY <1>0, <2>1, <2>2, SMT DEF Authority, CATyped
  <2>5. caFile'["ca.pem"] # Missing
    BY <1>0, <2>1, <2>2, <2>3, SMT DEF Missing
  <2>6. \A f \in CAFiles : caFile'[f] \in {Missing, Torn, created'}
    BY <1>0, <2>1, <2>2 DEF Authority, CAWhole
  <2> QED BY <2>1, <2>3, <2>4, <2>5, <2>6 DEF Authority, CAWhole, CAUnsigned
<1>4. CASE CAReady
  <2>1. UNCHANGED <<caFile, created, signer>> /\ server' = "up"
        /\ server = "creating" /\ Unwritten = {}
    BY <1>4 DEF CAReady
  <2>2. \A f \in CAFiles : caFile[f] = created
    <3>1. \A k \in 1..3 : caFile[Creation[k]] = created
      BY <2>1, SMT DEF Unwritten, Creation
    <3>2. /\ Creation[1] = "ca.pem" /\ Creation[2] = "ca.key"
          /\ Creation[3] = "module-signing.key"
      BY SMT DEF Creation
    <3>3. /\ caFile["ca.pem"] = created /\ caFile["ca.key"] = created
          /\ caFile["module-signing.key"] = created
      BY <3>1, <3>2, SMT
    <3> QED BY <3>3 DEF CAFiles
  <2>3. created > 0
    BY <2>1 DEF Authority, CAWhole
  <2>4. created \notin {Missing, Torn}
    BY <1>0, <2>3, SMT DEF Missing, Torn
  <2>5. CALoads
    BY <2>2, <2>4 DEF CALoads
  <2>6. CALoads'
    BY <2>1, <2>5 DEF CALoads
  <2> QED BY <2>1, <2>6 DEF Authority, CATyped, CAWhole, CAUnsigned
<1>5. CASE Stop
  <2>1. server' = "down" /\ UNCHANGED <<created, signer>>
    BY <1>5 DEF Stop, Down
  <2>2. CASE UNCHANGED caFile
    BY <2>1, <2>2 DEF Authority, CATyped, CAWhole, CAUnsigned, CALoads
  <2>3. CASE /\ server = "creating" /\ Unwritten # {}
             /\ caFile' = [caFile EXCEPT ![NextFile] = Torn]
    <3>1. NextFile \in CAFiles /\ (caFile["ca.pem"] # created => NextFile = "ca.pem")
      BY <2>3, NextFileIsOne
    <3>2. created > 0 /\ \A i \in Attempts : signer[i] = 0
      BY <2>3 DEF Authority, CAWhole, CAUnsigned
    <3> HIDE DEF NextFile
    <3>3. CATyped'
      BY <1>0, <2>1, <2>3, <3>1 DEF Authority, CATyped
    <3>4. caFile'["ca.pem"] # Missing
      BY <1>0, <2>3, <3>1, <3>2, SMT DEF Missing, Torn
    <3>5. \A f \in CAFiles : caFile'[f] \in {Missing, Torn, created'}
      BY <1>0, <2>1, <2>3, <3>1 DEF Authority, CAWhole
    <3> QED BY <2>1, <3>2, <3>3, <3>4, <3>5 DEF Authority, CAWhole, CAUnsigned
  <2> QED BY <1>5, <2>2, <2>3 DEF Stop
<1>6. CASE Expire
  BY <1>6, AuthorityKept DEF Expire
<1>7. ASSUME NEW a \in Agents, Agent(a) PROVE Authority'
  BY <1>7, AuthorityKept
     DEF Agent, Enroll, EnrollFails, Answer, WriteFile, EnrollDone, Run, Renew, RenewDone
<1>8. ASSUME NEW a \in Agents, RenewFails(a) \/ Crash(a) PROVE Authority'
  BY <1>8, AuthorityKept DEF RenewFails, Crash
<1>9. CASE UNCHANGED vars
  BY <1>9, AuthorityKept DEF vars
<1> QED BY <1>1, <1>2, <1>3, <1>4, <1>5, <1>6, <1>7, <1>8, <1>9 DEF Next, Server

------------------------------------------------------------------------------

\* Whatever overlaps, fails, restarts or crashes, the state is well typed and
\* the disk of the store never holds what its memory does not.
THEOREM TypeCorrect == ASSUME EnrollmentAssumption PROVE Spec => []TypeOK
<1>1. Init => Typed /\ Authority
  BY TypedInit, AuthorityInit
<1>2. Typed /\ Authority /\ [Next]_vars => (Typed /\ Authority)'
  BY TypedNext, AuthorityNext
<1>3. Typed /\ Authority => TypeOK
  BY DEF Typed, TokenTyped, Authority, CATyped, TypeOK
<1> QED BY <1>1, <1>2, <1>3, PTL DEF Spec

------------------------------------------------------------------------------

\* The steps that leave the accepted attempts, the disk and the uses alone.
LEMMA UsesKept ==
    ASSUME UsesCovered, UNCHANGED granted, UNCHANGED disk, mem'.uses = mem.uses
    PROVE  UsesCovered'
  BY DEF UsesCovered

\* A use is on the disk before an attempt is accepted, and is never taken back
\* from it.
LEMMA UsesNext ==
    ASSUME EnrollmentAssumption, Typed, UsesCovered, [Next]_vars
    PROVE  UsesCovered'
<1> USE DEF storeVars, caVars, agentVars, serverVars, obsVars, boundVars
<1>0. /\ mem \in Stores /\ disk \in Stores /\ Limit \in Nat
      /\ disk.uses <= mem.uses
      /\ mem.uses \in Nat /\ disk.uses \in Nat
  BY DEF Typed, TokenTyped, EnrollmentAssumption, Stores
<1>1. ASSUME NEW i \in Attempts, Serve(i) PROVE UsesCovered'
  <2>1. CASE ConsumeToken(i)
    <3>1. granted' = granted \cup {i} /\ disk'.uses = mem.uses + 1 /\ mem'.uses = mem.uses + 1
      BY <1>0, <2>1, SMT DEF ConsumeToken, Accepted, Stores
    <3>2. IsFiniteSet(granted') /\ Cardinality(granted') <= Cardinality(granted) + 1
      <4>1. IsFiniteSet(granted) /\ Cardinality(granted) \in Nat
        BY FS_CardinalityType DEF UsesCovered
      <4>2. /\ IsFiniteSet(granted \cup {i})
            /\ \/ Cardinality(granted \cup {i}) = Cardinality(granted)
               \/ Cardinality(granted \cup {i}) = Cardinality(granted) + 1
        BY <4>1, FS_AddElement
      <4> QED BY <3>1, <4>1, <4>2, SMT
    <3>3. Cardinality(granted') \in Nat /\ Cardinality(granted) \in Nat
      BY <3>2, FS_CardinalityType DEF UsesCovered
    <3>4. Limit # Unlimited => mem.uses < Limit
      BY <2>1 DEF ConsumeToken, Valid
    <3> QED BY <1>0, <3>1, <3>2, <3>3, <3>4, SMT DEF UsesCovered
  <2>2. CASE ConsumeTokenFails(i)
    <3>1. UNCHANGED <<granted, disk>> /\ mem'.uses = mem.uses + 1
      BY <1>0, <2>2, SMT DEF ConsumeTokenFails, Refused, Stores
    <3>2. Limit # Unlimited => mem.uses < Limit
      BY <2>2 DEF ConsumeTokenFails, Valid
    <3> QED BY <1>0, <3>1, <3>2, SMT DEF UsesCovered
  <2>3. CASE RefuseToken(i)
    BY <2>3, UsesKept DEF RefuseToken, Refused
  <2>4. CASE SaveMachine(i)
    <3>1. UNCHANGED granted /\ disk'.uses = mem.uses /\ mem'.uses = mem.uses
      BY <1>0, <2>4, SMT DEF SaveMachine, Stores
    <3>2. Cardinality(granted) \in Nat
      BY FS_CardinalityType DEF UsesCovered
    <3> QED BY <1>0, <3>1, <3>2, SMT DEF UsesCovered
  <2>5. CASE SaveMachineFails(i)
    <3>1. UNCHANGED <<granted, disk>> /\ mem'.uses = mem.uses
      BY <1>0, <2>5, SMT DEF SaveMachineFails, Stores
    <3> QED BY <3>1, UsesKept
  <2> QED BY <1>1, <2>1, <2>2, <2>3, <2>4, <2>5 DEF Serve
<1>2. CASE Stop
  <2>1. UNCHANGED <<granted, disk>> /\ mem' = disk
    BY <1>2 DEF Stop
  <2> QED BY <1>0, <2>1, SMT DEF UsesCovered
<1>3. CASE Expire
  BY <1>3, UsesKept DEF Expire
<1>4. ASSUME NEW a \in Agents, Agent(a) PROVE UsesCovered'
  <2>1. UNCHANGED <<granted, disk, mem>>
    BY <1>4 DEF Agent, Enroll, EnrollFails, Answer, WriteFile, EnrollDone, Run, Renew, RenewDone
  <2> QED BY <2>1, UsesKept
<1>5. ASSUME NEW a \in Agents, RenewFails(a) \/ Crash(a) PROVE UsesCovered'
  BY <1>5, UsesKept DEF RenewFails, Crash
<1>6. CASE UNCHANGED vars
  BY <1>6, UsesKept DEF vars
<1>7. CASE Server
  BY <1>7, UsesKept DEF Server, Boot, CreateCA, CAReady
<1> QED BY <1>1, <1>2, <1>3, <1>4, <1>5, <1>6, <1>7 DEF Next

\* A token never lets in more enrollments than it is good for
\* (ConsumeToken), for any number of agents, failed writes and restarts.
THEOREM TokenIsLimited == ASSUME EnrollmentAssumption PROVE Spec => []TokenLimit
<1> DEFINE IInv == Typed /\ UsesCovered
<1>1. Init => IInv
  <2>1. ASSUME Init PROVE UsesCovered
    <3>1. granted = {} /\ disk.uses = 0 /\ mem.uses = 0 /\ Limit \in Nat
      BY <2>1 DEF Init, Empty, EnrollmentAssumption
    <3> QED BY <3>1, FS_EmptySet, SMT DEF UsesCovered
  <2> QED BY <2>1, TypedInit
<1>2. IInv /\ [Next]_vars => IInv'
  BY TypedNext, UsesNext
<1>3. IInv => TokenLimit
  <2>1. ASSUME IInv PROVE Cardinality(granted) \in Nat /\ disk.uses \in Nat /\ mem.uses \in Nat
    BY <2>1, FS_CardinalityType DEF UsesCovered, Typed, TokenTyped, Stores
  <2> QED BY <2>1, SMT DEF TokenLimit, UsesCovered, Typed, TokenTyped, EnrollmentAssumption
<1> QED BY <1>1, <1>2, <1>3, PTL DEF Spec

------------------------------------------------------------------------------

\* A torn file is of no attempt.
LEMMA TornIsNone == ASSUME EnrollmentAssumption PROVE Torn \notin Attempts
  BY SMT DEF Torn, Attempts, EnrollmentAssumption

\* Steps that leave the processes and the files alone.
LEMMA RecordsKept ==
    ASSUME AnsweredKept, Kept \subseteq Kept',
           UNCHANGED <<proc, attempt, file>>,
           \A i \in Attempts : req'[i] = "answered" =>
               req[i] = "answered" \/ i \in Kept'
    PROVE  AnsweredKept'
  BY DEF AnsweredKept

\* An answer is on the disk, and signed, before it is sent, written or kept, and
\* the disk loses no record.
LEMMA RecordsNext ==
    ASSUME EnrollmentAssumption, Typed, Authority, AnsweredKept, [Next]_vars
    PROVE  AnsweredKept'
<1> USE DEF storeVars, caVars, agentVars, serverVars, obsVars, boundVars
<1>0. /\ mem \in Stores /\ disk \in Stores
      /\ disk.machines \subseteq mem.machines
      /\ req \in [Attempts -> Requests]
      /\ proc \in [Agents -> Processes]
      /\ attempt \in [Agents -> 0..attempts]
      /\ file \in [Agents -> [Files -> Attempts \cup {Missing, Torn}]]
  BY DEF Typed, TokenTyped
<1>1. ASSUME NEW i \in Attempts, Serve(i) PROVE AnsweredKept'
  <2>1. CASE ConsumeToken(i)
    BY <1>0, <2>1, RecordsKept, SMT DEF ConsumeToken, Accepted, Stores, Kept
  <2>2. CASE ConsumeTokenFails(i)
    BY <1>0, <2>2, RecordsKept, SMT DEF ConsumeTokenFails, Refused, Kept
  <2>3. CASE RefuseToken(i)
    BY <1>0, <2>3, RecordsKept, SMT DEF RefuseToken, Refused, Kept
  <2>4. CASE SaveMachine(i)
    <3>1. /\ server = "up" /\ mem' = [mem EXCEPT !.machines = @ \cup {i}] /\ disk' = mem'
          /\ req' = [req EXCEPT ![i] = "answered"]
          /\ signer' = [signer EXCEPT ![i] = caFile["ca.key"]]
          /\ UNCHANGED <<proc, attempt, file>>
      BY <2>4 DEF SaveMachine
    <3>2. caFile["ca.key"] # 0
      BY <3>1 DEF Authority, CAWhole, CALoads, CAFiles, Missing
    <3>3. disk'.machines = mem.machines \cup {i}
      BY <1>0, <3>1 DEF Stores
    <3>4. signer \in [Attempts -> 0..created]
      BY DEF Authority, CATyped
    <3>5. signer'[i] # 0 /\ \A k \in Attempts : signer[k] # 0 => signer'[k] # 0
      BY <3>1, <3>2, <3>4
    <3>6. disk.machines \subseteq Attempts
      BY <1>0 DEF Stores
    <3>7. Kept \subseteq Kept' /\ i \in Kept'
      BY <1>0, <3>3, <3>5, <3>6 DEF Kept
    <3>8. \A k \in Attempts : req'[k] = "answered" => req[k] = "answered" \/ k \in Kept'
      BY <1>0, <3>1, <3>7
    <3> QED BY <3>1, <3>7, <3>8, RecordsKept
  <2>5. CASE SaveMachineFails(i)
    BY <1>0, <2>5, RecordsKept, SMT DEF SaveMachineFails, Kept
  <2> QED BY <1>1, <2>1, <2>2, <2>3, <2>4, <2>5 DEF Serve
<1>2. CASE Stop
  <2>1. req' = [i \in Attempts |-> IF req[i] = "none" THEN "none" ELSE "refused"]
    BY <1>2 DEF Stop, Down
  <2>2. Kept' = Kept /\ UNCHANGED <<proc, attempt, file>>
    BY <1>2 DEF Stop, Kept
  <2>3. \A i \in Attempts : req'[i] # "answered"
    BY <2>1
  <2> QED BY <2>2, <2>3, RecordsKept
<1>3. CASE Expire
  BY <1>3, RecordsKept, SMT DEF Expire, Kept
<1>8. CASE Server
  BY <1>8, RecordsKept, SMT DEF Server, Boot, CreateCA, CAReady, Kept
<1>4. ASSUME NEW a \in Agents, Agent(a) PROVE AnsweredKept'
  <2>1. CASE Enroll(a)
    BY <1>0, <2>1, SMT DEF Enroll, AnsweredKept, Attempts, Kept
  <2>2. CASE EnrollFails(a)
    BY <1>0, <2>2, SMT DEF EnrollFails, Exit, AnsweredKept, Kept
  <2>3. CASE Answer(a)
    <3>1. attempt[a] \in Attempts
      BY <2>3, SMT DEF Answer, Typed, Asked, TokenTyped, Attempts, EnrollmentAssumption
    <3> QED BY <1>0, <2>3, <3>1, SMT DEF Answer, AnsweredKept, Kept
  <2>4. ASSUME NEW f \in Files, WriteFile(a, f) PROVE AnsweredKept'
    BY <1>0, <2>4, SMT DEF WriteFile, AnsweredKept, Kept
  <2>5. CASE EnrollDone(a)
    BY <1>0, <2>5, SMT DEF EnrollDone, Exit, AnsweredKept, Kept
  <2>6. CASE Run(a)
    BY <1>0, <2>6, SMT DEF Run, AnsweredKept, Kept
  <2>7. CASE Renew(a)
    BY <1>0, <2>7, SMT DEF Renew, AnsweredKept, Kept
  <2>8. CASE RenewDone(a)
    BY <1>0, <2>8, SMT DEF RenewDone, AnsweredKept, Kept
  <2> QED BY <1>4, <2>1, <2>2, <2>3, <2>4, <2>5, <2>6, <2>7, <2>8 DEF Agent
<1>5. ASSUME NEW a \in Agents, RenewFails(a) PROVE AnsweredKept'
  <2>1. \A b \in Agents : \A f \in Files : file'[b][f] \in {file[b][f], Torn}
    <3>1. "cert.pem" \in Files
      BY DEF Files
    <3>2. file' = file \/ file' = [file EXCEPT ![a]["cert.pem"] = Torn]
      BY <1>5 DEF RenewFails
    <3> QED BY <1>0, <3>1, <3>2, OneFileTorn
  <2>2. UNCHANGED <<Kept, req, attempt>> /\ proc' = [proc EXCEPT ![a] = "running"]
    BY <1>5 DEF RenewFails, Kept
  <2> QED BY <1>0, <2>1, <2>2, TornIsNone, SMT DEF AnsweredKept
<1>6. ASSUME NEW a \in Agents, Crash(a) PROVE AnsweredKept'
  <2>1. \A b \in Agents : \A f \in Files : file'[b][f] \in {file[b][f], Torn}
    <3>1. Open(a) \subseteq Files
      BY SMT DEF Open, Files, Typed, TokenTyped
    <3>2. CASE UNCHANGED file
      BY <3>2
    <3>3. CASE \E f \in Open(a) : file' = [file EXCEPT ![a][f] = Torn]
      <4> PICK f \in Files : file' = [file EXCEPT ![a][f] = Torn]
        BY <3>1, <3>3
      <4> QED BY <1>0, OneFileTorn
    <3> QED BY <1>6, <3>2, <3>3 DEF Crash
  <2>2. UNCHANGED <<Kept, req>> /\ proc' = [proc EXCEPT ![a] = "off"]
        /\ attempt' = [attempt EXCEPT ![a] = 0]
    BY <1>6 DEF Crash, Exit, Kept
  <2> QED BY <1>0, <2>1, <2>2, TornIsNone, SMT DEF AnsweredKept
<1>7. CASE UNCHANGED vars
  BY <1>7, RecordsKept, SMT DEF vars, Kept
<1> QED BY <1>1, <1>2, <1>3, <1>4, <1>5, <1>6, <1>7, <1>8 DEF Next

\* An agent that holds a certificate is known to the server, which no failed
\* write and no restart forgets (handleEnroll answers after SaveMachine).
THEOREM AcknowledgedIsRecorded ==
    ASSUME EnrollmentAssumption PROVE Spec => []EnrolledIsRecorded
<1> DEFINE IInv == Typed /\ Authority /\ AnsweredKept
<1>1. Init => IInv
  <2>1. ASSUME Init PROVE AnsweredKept
    BY <2>1, SMT DEF Init, AnsweredKept, Attempts, Missing
  <2> QED BY <2>1, TypedInit, AuthorityInit
<1>2. IInv /\ [Next]_vars => IInv'
  BY TypedNext, AuthorityNext, RecordsNext
<1>3. IInv => EnrolledIsRecorded
  BY SMT DEF Typed, TokenTyped, AnsweredKept, Kept, EnrolledIsRecorded, Files
<1> QED BY <1>1, <1>2, <1>3, PTL DEF Spec

\* What agents trust, what has signed their certificates and what the server has
\* loaded is one CA, wherever its first boots were cut short (LoadOrCreate
\* looks for ca.pem, the first file that create writes).
THEOREM AuthorityIsOne == ASSUME EnrollmentAssumption PROVE Spec => []OneAuthority
<1> DEFINE IInv == Typed /\ Authority /\ AnsweredKept
<1>1. Init => IInv
  <2>1. ASSUME Init PROVE AnsweredKept
    BY <2>1, SMT DEF Init, AnsweredKept, Attempts, Missing
  <2> QED BY <2>1, TypedInit, AuthorityInit
<1>2. IInv /\ [Next]_vars => IInv'
  BY TypedNext, AuthorityNext, RecordsNext
<1>3. IInv => OneAuthority
  <2> SUFFICES ASSUME IInv, server = "up", NEW a \in Agents,
                      NEW f \in {"cert.pem", "ca.pem", "module-pub.pem"},
                      file[a][f] \in Attempts, NEW g \in CAFiles
               PROVE  signer[file[a][f]] = caFile[g]
    BY DEF OneAuthority
  <2>1. f \in Files
    BY DEF Files
  <2>2. signer[file[a][f]] # 0
    BY <2>1 DEF AnsweredKept, Kept
  <2>3. CALoads /\ signer[file[a][f]] = created
    BY <2>2 DEF Authority, CAUnsigned
  <2> QED BY <2>3, LoadedIsLast
<1> QED BY <1>1, <1>2, <1>3, PTL DEF Spec

------------------------------------------------------------------------------
(* Second records.                                                          *)
\* The attempts of agent a that have, or may still get, a machine record.
Recordable(a) ==
    {i \in Attempts : host[i] = a /\ (i \in mem.machines \/ req[i] \in {"sent", "consumed"})}

\* Whoever may ask again has a failure for every attempt it may have a record of.
FailuresPaid ==
    /\ fails \in Nat
    /\ \A i \in mem.machines : req[i] \in {"answered", "refused"}
    /\ \A a \in Agents :
          /\ Cardinality(Recordable(a)) <= 1 + fails
          /\ proc[a] = "off" /\ ~Enrolled(a) => Cardinality(Recordable(a)) <= fails
          /\ proc[a] = "waiting" => /\ Cardinality(Recordable(a) \ {attempt[a]}) <= fails
                                    /\ req[attempt[a]] = "refused" =>
                                          Cardinality(Recordable(a)) <= fails
          /\ proc[a] = "writing" /\ "cert.pem" \notin left[a] => Enrolled(a)

\* The agent of a request, before there is one.
FirstHost == CHOOSE a \in Agents : TRUE

Hosted == host \in [Attempts -> Agents \cup {FirstHost}]

\* A part of a set of attempts is counted, and is no larger.
LEMMA FewerAttempts ==
    ASSUME EnrollmentAssumption, NEW S \in SUBSET Attempts, NEW T \in SUBSET S
    PROVE  /\ IsFiniteSet(S) /\ Cardinality(S) \in Nat
           /\ Cardinality(T) \in Nat /\ Cardinality(T) <= Cardinality(S)
<1>1. IsFiniteSet(Attempts)
  BY FS_Interval, SMT DEF Attempts, EnrollmentAssumption
<1>2. IsFiniteSet(S)
  BY <1>1, FS_Subset
<1> QED
  BY <1>2, FS_Subset, FS_CardinalityType

\* A step after which no agent has more recordable attempts, and none may ask
\* again or is refused for nothing.
LEMMA PaidKept ==
    ASSUME EnrollmentAssumption, FailuresPaid,
           fails' = fails \/ fails' = fails + 1,
           \A i \in mem'.machines : req'[i] \in {"answered", "refused"},
           \A a \in Agents :
              /\ Recordable(a)' \subseteq Recordable(a)
              /\ proc'[a] = "off" /\ ~Enrolled(a)' =>
                    fails' = fails + 1 \/ Cardinality(Recordable(a)) <= fails
              /\ proc'[a] = "waiting" =>
                    /\ proc[a] = "waiting" /\ attempt'[a] = attempt[a]
                    /\ req'[attempt[a]] = "refused" =>
                          \/ fails' = fails + 1 \/ req[attempt[a]] = "refused"
                          \/ attempt[a] \notin Recordable(a)'
              /\ proc'[a] = "writing" /\ "cert.pem" \notin left'[a] => Enrolled(a)'
    PROVE  FailuresPaid'
<1>1. fails \in Nat /\ fails' \in Nat /\ fails <= fails'
  BY SMT DEF FailuresPaid
<1> SUFFICES ASSUME NEW a \in Agents
             PROVE  /\ Cardinality(Recordable(a)') <= 1 + fails'
                    /\ proc'[a] = "off" /\ ~Enrolled(a)' => Cardinality(Recordable(a)') <= fails'
                    /\ proc'[a] = "waiting" =>
                          /\ Cardinality(Recordable(a)' \ {attempt'[a]}) <= fails'
                          /\ req'[attempt'[a]] = "refused" => Cardinality(Recordable(a)') <= fails'
  BY <1>1 DEF FailuresPaid
<1> DEFINE R == Recordable(a)
           S == Recordable(a)'
<1>2. /\ Cardinality(R) \in Nat /\ Cardinality(S) \in Nat /\ Cardinality(S) <= Cardinality(R)
      /\ Cardinality(R) <= 1 + fails
  <2>1. R \in SUBSET Attempts /\ S \in SUBSET R
    BY DEF Recordable
  <2> QED
    BY <2>1, FewerAttempts DEF FailuresPaid
<1>3. ASSUME proc'[a] = "waiting"
      PROVE  /\ Cardinality(S \ {attempt'[a]}) <= fails'
             /\ req'[attempt'[a]] = "refused" => Cardinality(S) <= fails'
  <2>1. proc[a] = "waiting" /\ attempt'[a] = attempt[a]
    BY <1>3
  <2>2. /\ Cardinality(R \ {attempt[a]}) <= fails
        /\ req[attempt[a]] = "refused" => Cardinality(R) <= fails
    BY <2>1 DEF FailuresPaid
  <2>3. /\ Cardinality(S \ {attempt[a]}) <= Cardinality(R \ {attempt[a]})
        /\ Cardinality(S \ {attempt[a]}) \in Nat /\ Cardinality(R \ {attempt[a]}) \in Nat
    <3>1. /\ R \ {attempt[a]} \in SUBSET Attempts
          /\ S \ {attempt[a]} \in SUBSET (R \ {attempt[a]})
      BY DEF Recordable
    <3> QED
      BY <3>1, FewerAttempts
  <2>4. attempt[a] \notin S => S \ {attempt[a]} = S
    OBVIOUS
  <2>5. req'[attempt[a]] = "refused" =>
           fails' = fails + 1 \/ req[attempt[a]] = "refused" \/ attempt[a] \notin S
    BY <1>3
  <2> HIDE DEF R, S
  <2>6. Cardinality(S \ {attempt[a]}) <= fails'
    BY <1>1, <2>2, <2>3
  <2>7. req'[attempt[a]] = "refused" => Cardinality(S) <= fails'
    <3>1. CASE attempt[a] \notin S
      BY <2>4, <2>6, <3>1
    <3>2. CASE fails' = fails + 1 \/ req[attempt[a]] = "refused"
      BY <1>1, <1>2, <2>2, <3>2
    <3> QED
      BY <2>5, <3>1, <3>2
  <2> QED
    BY <2>1, <2>6, <2>7
<1>4. proc'[a] = "off" /\ ~Enrolled(a)' => fails' = fails + 1 \/ Cardinality(R) <= fails
  OBVIOUS
<1> HIDE DEF R, S
<1> QED
  BY <1>1, <1>2, <1>3, <1>4 DEF R, S

\* The same, of a step of agent a alone.
LEMMA AgentPaid ==
    ASSUME EnrollmentAssumption, FailuresPaid, NEW a \in Agents, UNCHANGED <<host, mem, req>>,
           fails' = fails \/ fails' = fails + 1,
           \A b \in Agents \ {a} : /\ proc'[b] = proc[b] /\ attempt'[b] = attempt[b]
                                   /\ left'[b] = left[b] /\ file'[b] = file[b],
           proc'[a] # "waiting",
           proc'[a] = "off" /\ ~Enrolled(a)' =>
              fails' = fails + 1 \/ Cardinality(Recordable(a)) <= fails,
           proc'[a] = "writing" /\ "cert.pem" \notin left'[a] => Enrolled(a)'
    PROVE  FailuresPaid'
<1>1. \A b \in Agents : Recordable(b)' = Recordable(b)
  BY DEF Recordable
<1>2. \A i \in mem'.machines : req'[i] \in {"answered", "refused"}
  BY DEF FailuresPaid
<1>3. ASSUME NEW b \in Agents \ {a}
      PROVE  /\ Enrolled(b)' = Enrolled(b)
             /\ proc[b] = "off" /\ ~Enrolled(b) => Cardinality(Recordable(b)) <= fails
             /\ proc[b] = "writing" /\ "cert.pem" \notin left[b] => Enrolled(b)
  BY DEF FailuresPaid, Enrolled
<1> QED
  BY <1>1, <1>2, <1>3, PaidKept

\* An enrollment: the agent had no record of more attempts than there were failures.
LEMMA EnrollPaid ==
    ASSUME EnrollmentAssumption, Typed, Hosted, FailuresPaid, NEW a \in Agents, Enroll(a)
    PROVE  FailuresPaid'
<1> DEFINE i == attempts + 1
<1>1. /\ proc[a] = "off" /\ ~Enrolled(a) /\ i \in Attempts
      /\ host' = [host EXCEPT ![i] = a] /\ req' = [req EXCEPT ![i] = "sent"]
      /\ proc' = [proc EXCEPT ![a] = "waiting"] /\ attempt' = [attempt EXCEPT ![a] = i]
      /\ UNCHANGED <<mem, left, file, fails>>
  BY DEF Enroll, storeVars
<1>2. /\ req \in [Attempts -> Requests] /\ attempts \in Nat /\ ~(i <= attempts)
      /\ proc \in [Agents -> Processes] /\ attempt \in [Agents -> 0..attempts]
      /\ \A b \in Agents : proc[b] = "waiting" => attempt[b] \in Attempts \ {i}
  BY SMT DEF Typed, TokenTyped, Asked, Attempts, EnrollmentAssumption
<1>3. req[i] = "none" /\ i \notin mem.machines /\ mem.machines \subseteq Attempts
  BY <1>1, <1>2 DEF Typed, TokenTyped, Asked, FailuresPaid, Stores
<1> HIDE DEF i
<1>4. \A k \in Attempts \ {i} : req'[k] = req[k] /\ host'[k] = host[k]
  BY <1>1, <1>2 DEF Hosted
<1>5. req'[i] = "sent" /\ host'[i] = a
  BY <1>1, <1>2 DEF Hosted
<1>6. \A b \in Agents : i \notin Recordable(b)
  BY <1>3 DEF Recordable
<1>7. Recordable(a)' = Recordable(a) \cup {i}
  BY <1>1, <1>4, <1>5 DEF Recordable
<1>8. \A b \in Agents \ {a} : Recordable(b)' = Recordable(b)
  BY <1>1, <1>4, <1>5, <1>6 DEF Recordable
<1>9. \A k \in mem'.machines : req'[k] \in {"answered", "refused"}
  BY <1>1, <1>3, <1>4 DEF FailuresPaid
<1>10. fails \in Nat /\ Cardinality(Recordable(a)) <= fails
  BY <1>1 DEF FailuresPaid
<1>11. /\ Cardinality(Recordable(a)') <= 1 + fails
       /\ Recordable(a)' \ {i} = Recordable(a)
  <2>1. Recordable(a) \in SUBSET Attempts
    BY DEF Recordable
  <2>2. IsFiniteSet(Recordable(a)) /\ Cardinality(Recordable(a)) \in Nat
    BY <2>1, FewerAttempts
  <2>3. Cardinality(Recordable(a) \cup {i}) = Cardinality(Recordable(a)) + 1
    BY <1>6, <2>2, FS_AddElement
  <2> QED
    BY <1>6, <1>7, <1>10, <2>2, <2>3
<1>12. ASSUME NEW b \in Agents
       PROVE  /\ Cardinality(Recordable(b)') <= 1 + fails'
              /\ proc'[b] = "off" /\ ~Enrolled(b)' => Cardinality(Recordable(b)') <= fails'
              /\ proc'[b] = "waiting" =>
                    /\ Cardinality(Recordable(b)' \ {attempt'[b]}) <= fails'
                    /\ req'[attempt'[b]] = "refused" => Cardinality(Recordable(b)') <= fails'
              /\ proc'[b] = "writing" /\ "cert.pem" \notin left'[b] => Enrolled(b)'
  <2>1. CASE b = a
    BY <1>1, <1>2, <1>5, <1>10, <1>11, <2>1
  <2>2. CASE b # a
    <3>1. /\ proc'[b] = proc[b] /\ attempt'[b] = attempt[b] /\ Enrolled(b)' = Enrolled(b)
          /\ left'[b] = left[b] /\ Recordable(b)' = Recordable(b) /\ fails' = fails
      BY <1>1, <1>2, <1>8, <2>2 DEF Enrolled
    <3>2. proc[b] = "waiting" => req'[attempt[b]] = req[attempt[b]]
      BY <1>2, <1>4
    <3> QED
      BY <3>1, <3>2 DEF FailuresPaid
  <2> QED
    BY <2>1, <2>2
<1> QED
  BY <1>1, <1>9, <1>10, <1>12 DEF FailuresPaid

\* Steps of the server.
LEMMA ServePaid ==
    ASSUME EnrollmentAssumption, Typed, FailuresPaid, NEW i \in Attempts, Serve(i)
    PROVE  FailuresPaid'
<1> USE DEF agentVars, obsVars, boundVars
<1>0. /\ req \in [Attempts -> Requests] /\ mem \in Stores /\ mem.machines \subseteq Attempts
      /\ \A a \in Agents : proc[a] = "waiting" => attempt[a] \in Attempts
      /\ \A k \in mem.machines : req[k] \in {"answered", "refused"}
      /\ \A a \in Agents :
            /\ proc[a] = "off" /\ ~Enrolled(a) => Cardinality(Recordable(a)) <= fails
            /\ proc[a] = "writing" /\ "cert.pem" \notin left[a] => Enrolled(a)
  <2>1. /\ req \in [Attempts -> Requests] /\ mem \in Stores /\ mem.machines \subseteq Attempts
        /\ \A a \in Agents : proc[a] = "waiting" => attempt[a] \in Attempts
    BY SMT DEF Typed, TokenTyped, Asked, Attempts, EnrollmentAssumption, Stores
  <2> QED
    BY <2>1 DEF FailuresPaid
<1>1. UNCHANGED <<proc, attempt, left, file, host>>
  BY DEF Serve, ConsumeToken, ConsumeTokenFails, RefuseToken, SaveMachine, SaveMachineFails
<1>2. \A a \in Agents : Enrolled(a)' = Enrolled(a)
  BY <1>1 DEF Enrolled
<1>3. CASE ConsumeToken(i)
  <2>1. /\ req[i] = "sent" /\ req' = [req EXCEPT ![i] = "consumed"]
        /\ mem'.machines = mem.machines /\ fails' = fails
    BY <1>0, <1>3, OneUse DEF ConsumeToken, Accepted
  <2>2. \A k \in Attempts : req'[k] = IF k = i THEN "consumed" ELSE req[k]
    BY <1>0, <2>1
  <2>3. \A a \in Agents : Recordable(a)' \subseteq Recordable(a)
    BY <1>1, <2>1, <2>2 DEF Recordable
  <2> QED
    BY <1>0, <1>1, <1>2, <2>1, <2>2, <2>3, PaidKept
<1>4. CASE ConsumeTokenFails(i) \/ RefuseToken(i)
  <2>1. /\ req[i] = "sent" /\ req' = [req EXCEPT ![i] = "refused"]
        /\ mem'.machines = mem.machines /\ (fails' = fails \/ fails' = fails + 1)
    BY <1>0, <1>4, OneUse DEF ConsumeTokenFails, RefuseToken, Refused, Fail, storeVars
  <2>2. i \notin mem.machines /\ \A k \in Attempts : req'[k] = IF k = i THEN "refused" ELSE req[k]
    BY <1>0, <2>1
  <2>3. \A a \in Agents : Recordable(a)' \subseteq Recordable(a) /\ i \notin Recordable(a)'
    BY <1>1, <2>1, <2>2 DEF Recordable
  <2> QED
    BY <1>0, <1>1, <1>2, <2>1, <2>2, <2>3, PaidKept
<1>5. CASE SaveMachine(i)
  <2>1. /\ req[i] = "consumed" /\ req' = [req EXCEPT ![i] = "answered"]
        /\ mem'.machines = mem.machines \cup {i} /\ fails' = fails
    BY <1>0, <1>5, OneRecord DEF SaveMachine
  <2>2. \A k \in Attempts : req'[k] = IF k = i THEN "answered" ELSE req[k]
    BY <1>0, <2>1
  <2>3. \A a \in Agents : Recordable(a)' \subseteq Recordable(a)
    BY <1>1, <2>1, <2>2 DEF Recordable
  <2> QED
    BY <1>0, <1>1, <1>2, <2>1, <2>2, <2>3, PaidKept
<1>6. CASE SaveMachineFails(i)
  <2>1. /\ req[i] = "consumed" /\ req' = [req EXCEPT ![i] = "refused"]
        /\ mem'.machines = mem.machines \cup {i} /\ fails' = fails + 1
    BY <1>0, <1>6, OneRecord DEF SaveMachineFails, Fail
  <2>2. \A k \in Attempts : req'[k] = IF k = i THEN "refused" ELSE req[k]
    BY <1>0, <2>1
  <2>3. \A a \in Agents : Recordable(a)' \subseteq Recordable(a)
    BY <1>1, <2>1, <2>2 DEF Recordable
  <2> QED
    BY <1>0, <1>1, <1>2, <2>1, <2>2, <2>3, PaidKept
<1> QED
  BY <1>3, <1>4, <1>5, <1>6 DEF Serve

LEMMA PaidNext ==
    ASSUME EnrollmentAssumption, Typed, Hosted, FailuresPaid, [Next]_vars
    PROVE  FailuresPaid'
<1> USE DEF storeVars, caVars, agentVars, serverVars, obsVars, boundVars
<1>0. /\ req \in [Attempts -> Requests] /\ proc \in [Agents -> Processes]
      /\ mem.machines \subseteq Attempts /\ disk.machines \subseteq mem.machines
      /\ left \in [Agents -> SUBSET Files] /\ attempt \in [Agents -> 0..attempts]
      /\ file \in [Agents -> [Files -> Attempts \cup {Missing, Torn}]]
      /\ \A a \in Agents : proc[a] \in {"waiting", "writing"} => attempt[a] \in Attempts
      /\ Missing \notin Attempts
      /\ "cert.pem" \in Files
      /\ \A k \in mem.machines : req[k] \in {"answered", "refused"}
  BY SMT DEF Typed, TokenTyped, Asked, Attempts, EnrollmentAssumption, Stores,
             FailuresPaid, Missing,
             Files
<1>1. \A a \in Agents :
            /\ proc[a] = "off" /\ ~Enrolled(a) => Cardinality(Recordable(a)) <= fails
            /\ proc[a] = "writing" /\ "cert.pem" \notin left[a] => Enrolled(a)
  BY DEF FailuresPaid
<1>2. CASE UNCHANGED <<mem, req, proc, attempt, left, file, host, fails>>
  BY <1>2 DEF FailuresPaid, Recordable, Enrolled
<1>3. CASE Stop
  <2>1. /\ fails' = fails + 1 /\ mem' = disk
        /\ req' = [k \in Attempts |-> IF req[k] = "none" THEN "none" ELSE "refused"]
        /\ UNCHANGED <<proc, attempt, left, file, host>>
    BY <1>3 DEF Stop, Down, Fail
  <2>2. \A k \in Attempts : req'[k] = IF req[k] = "none" THEN "none" ELSE "refused"
    BY <2>1
  <2>3. \A a \in Agents : Recordable(a)' \subseteq Recordable(a) /\ Enrolled(a)' = Enrolled(a)
    BY <1>0, <2>1, <2>2 DEF Recordable, Enrolled
  <2>4. \A k \in mem'.machines : req'[k] \in {"answered", "refused"}
    BY <1>0, <2>1, <2>2
  <2> QED
    BY <1>1, <2>1, <2>3, <2>4, PaidKept
<1>4. ASSUME NEW a \in Agents, EnrollFails(a) PROVE FailuresPaid'
  <2>1. /\ proc[a] = "waiting" /\ UNCHANGED <<host, mem, req, file>>
        /\ fails' = fails + 1 \/ (fails' = fails /\ req[attempt[a]] = "refused")
        /\ proc' = [proc EXCEPT ![a] = "off"] /\ attempt' = [attempt EXCEPT ![a] = 0]
        /\ left' = [left EXCEPT ![a] = {}]
    BY <1>4 DEF EnrollFails, Exit, Fail
  <2>2. fails' = fails + 1 \/ Cardinality(Recordable(a)) <= fails
    BY <2>1 DEF FailuresPaid
  <2> QED
    BY <1>0, <2>1, <2>2, AgentPaid
<1>5. ASSUME NEW a \in Agents, Answer(a) PROVE FailuresPaid'
  <2>1. /\ UNCHANGED <<host, mem, req, file, attempt, fails>>
        /\ proc' = [proc EXCEPT ![a] = "writing"] /\ left' = [left EXCEPT ![a] = Files]
    BY <1>5 DEF Answer
  <2> QED
    BY <1>0, <2>1, AgentPaid
<1>6. ASSUME NEW a \in Agents, NEW f \in Files, WriteFile(a, f) PROVE FailuresPaid'
  <2>1. /\ UNCHANGED <<host, mem, req, proc, attempt, fails>> /\ proc[a] = "writing"
        /\ file' = [file EXCEPT ![a][f] = attempt[a]] /\ left' = [left EXCEPT ![a] = @ \ {f}]
    BY <1>6 DEF WriteFile
  <2>2. /\ left'[a] = left[a] \ {f}
        /\ file'[a]["cert.pem"] = IF f = "cert.pem" THEN attempt[a] ELSE file[a]["cert.pem"]
        /\ \A b \in Agents \ {a} : left'[b] = left[b] /\ file'[b] = file[b]
    BY <1>0, <2>1
  <2>3. "cert.pem" \notin left'[a] => Enrolled(a)'
    BY <1>0, <1>1, <2>1, <2>2 DEF Enrolled
  <2> QED
    BY <2>1, <2>2, <2>3, AgentPaid
<1>7. ASSUME NEW a \in Agents, EnrollDone(a) PROVE FailuresPaid'
  <2>1. /\ UNCHANGED <<host, mem, req, file, fails>> /\ proc[a] = "writing" /\ left[a] = {}
        /\ proc' = [proc EXCEPT ![a] = "off"] /\ attempt' = [attempt EXCEPT ![a] = 0]
        /\ left' = [left EXCEPT ![a] = {}]
    BY <1>7 DEF EnrollDone, Exit
  <2>2. Enrolled(a)'
    BY <1>1, <2>1 DEF Enrolled
  <2> QED
    BY <1>0, <2>1, <2>2, AgentPaid
<1>8. ASSUME NEW a \in Agents, Run(a) \/ Renew(a) \/ RenewDone(a) PROVE FailuresPaid'
  <2>1. /\ UNCHANGED <<host, mem, req, file, attempt, left, fails>>
        /\ proc'[a] \in {"running", "renewing"} /\ \A b \in Agents \ {a} : proc'[b] = proc[b]
    BY <1>0, <1>8 DEF Run, Renew, RenewDone
  <2> QED
    BY <2>1, AgentPaid
<1>9. ASSUME NEW a \in Agents, RenewFails(a) PROVE FailuresPaid'
  <2>1. /\ UNCHANGED <<host, mem, req, attempt, left>> /\ fails' = fails + 1
        /\ proc' = [proc EXCEPT ![a] = "running"]
        /\ file' = file \/ file' = [file EXCEPT ![a]["cert.pem"] = Torn]
    BY <1>9 DEF RenewFails, Fail
  <2> QED
    BY <1>0, <2>1, AgentPaid
<1>10. ASSUME NEW a \in Agents, Crash(a) PROVE FailuresPaid'
  <2>1. /\ UNCHANGED <<host, mem, req>> /\ fails' = fails + 1
        /\ proc' = [proc EXCEPT ![a] = "off"] /\ attempt' = [attempt EXCEPT ![a] = 0]
        /\ left' = [left EXCEPT ![a] = {}]
        /\ file' = file \/ \E f \in Open(a) : file' = [file EXCEPT ![a][f] = Torn]
    BY <1>10 DEF Crash, Exit, Fail
  <2>2. \A b \in Agents \ {a} : file'[b] = file[b]
    BY <1>0, <2>1
  <2> QED
    BY <1>0, <2>1, <2>2, AgentPaid
<1>11. ASSUME NEW a \in Agents, Agent(a) PROVE FailuresPaid'
  BY <1>4, <1>5, <1>6, <1>7, <1>8, <1>11, EnrollPaid DEF Agent
<1> QED
  BY <1>2, <1>3, <1>9, <1>10, <1>11, ServePaid
     DEF Next, vars, Server, Boot, CreateCA, CAReady, Expire

LEMMA HostedNext == ASSUME Hosted, [Next]_vars PROVE Hosted'
<1>1. CASE UNCHANGED host
  BY <1>1 DEF Hosted
<1>2. CASE \E a \in Agents : Enroll(a)
  BY <1>2 DEF Enroll, Hosted
<1> QED
  BY <1>1, <1>2
     DEF Next, vars, Serve, ConsumeToken, ConsumeTokenFails, RefuseToken, SaveMachine,
         SaveMachineFails, Server, Boot, CreateCA, CAReady, Stop, Expire, Agent, EnrollFails,
         Answer, WriteFile, EnrollDone, Run, Renew, RenewDone, RenewFails, Crash, obsVars

\* FewDuplicates for any agents and failures: an agent asks again only while it has
\* no certificate, which costs it a failure for every attempt it may have a
\* record of (run, Enrolled).
THEOREM DuplicatesAreFew == ASSUME EnrollmentAssumption PROVE Spec => []FewDuplicates
<1> DEFINE IInv == Typed /\ Hosted /\ FailuresPaid
<1>1. Init => IInv
  <2>1. ASSUME Init PROVE Hosted /\ FailuresPaid
    <3>1. /\ mem.machines = {} /\ fails = 0 /\ req = [i \in Attempts |-> "none"]
          /\ proc = [a \in Agents |-> "off"]
          /\ host \in [Attempts -> {FirstHost}]
      BY <2>1 DEF Init, Empty, FirstHost
    <3>2. \A a \in Agents : Recordable(a) = {}
      BY <3>1 DEF Recordable
    <3>3. FailuresPaid
      BY <3>1, <3>2, FS_EmptySet DEF FailuresPaid
    <3> QED
      BY <3>1, <3>3 DEF Hosted
  <2> QED
    BY <2>1, TypedInit
<1>2. IInv /\ [Next]_vars => IInv'
  BY TypedNext, HostedNext, PaidNext
<1>3. IInv => FewDuplicates
  <2> SUFFICES ASSUME IInv, NEW a \in Agents
               PROVE  Cardinality({i \in mem.machines : host[i] = a}) <= 1 + fails
    BY DEF FewDuplicates
  <2> DEFINE D == {i \in mem.machines : host[i] = a}
  <2>1. D \in SUBSET Recordable(a) /\ Recordable(a) \in SUBSET Attempts
    BY DEF Recordable, Typed, TokenTyped, Stores
  <2>2. /\ Cardinality(D) \in Nat /\ Cardinality(Recordable(a)) \in Nat
        /\ Cardinality(D) <= Cardinality(Recordable(a))
    BY <2>1, FewerAttempts
  <2>3. fails \in Nat /\ Cardinality(Recordable(a)) <= 1 + fails
    BY DEF FailuresPaid
  <2> HIDE DEF D
  <2> QED
    BY <2>2, <2>3 DEF D
<1> QED
  BY <1>1, <1>2, <1>3, PTL DEF Spec
===============================================================================
