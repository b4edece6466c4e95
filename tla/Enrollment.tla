----------------------------- MODULE Enrollment -----------------------------
(***************************************************************************)
(* Enrollment with a token (agent/agent.go Enroll, cmd/fleet-agent,        *)
(* server/server.go handleEnroll, ConsumeToken of store/store.go), the     *)
(* identity files it leaves behind, and their use and renewal at every     *)
(* start of the agent; and the certificate authority of the server         *)
(* (ca/ca.go), which is created on the first boot and signs them.  Writes  *)
(* of the store may fail, the server may stop, answers may be lost and the *)
(* agent may die between any two steps; a supervisor (systemd, a           *)
(* DaemonSet) starts either again.                                         *)
(*                                                                         *)
(* An attempt is the number of an enroll request; the machine id, the key  *)
(* and the certificate of attempt i are all called i.  mem is the file     *)
(* store's data, disk what its last flush wrote.  Everything that one run   *)
(* of ca.create makes, and what is signed with it, has its number.         *)
(***************************************************************************)
EXTENDS Integers, Sequences, FiniteSets

CONSTANTS
    Agents,        \* agent hosts, all given the same token
    Limit,         \* enrollments the token is good for; 0: any number
                   \* (max_uses -1; max_uses 0 means 1)
    MaxAttempts,   \* bound: enroll requests in all
    MaxFails,      \* bound: failed writes, lost answers, deaths and restarts
    MaxRenewals    \* bound: certificate renewals

ASSUME EnrollmentAssumption ==
    /\ Limit \in Nat
    /\ {MaxAttempts, MaxFails, MaxRenewals} \subseteq Nat

Attempts == 1..MaxAttempts

\* The identity files, in no particular order (Enroll ranges over a map).
Files == {"key.pem", "cert.pem", "ca.pem", "module-pub.pem", "machine-id"}

\* The files of the CA, in the order in which create writes them.
CAFiles == {"ca.pem", "ca.key", "module-signing.key"}
Creation == <<"ca.pem", "ca.key", "module-signing.key">>

Unlimited == 0

Missing == 0
Torn == -1     \* truncated by a write that did not finish

VARIABLES
    \* --- the server ---
    mem, disk,     \* the store: uses of the token and machine records
    expired,       \* the token's expiry is over
    req,           \* req[i]: what the server has done for attempt i
    server,        \* what its process is doing
    caFile,        \* caFile[f]: the creation the file is from, Missing or Torn
    created,       \* creations so far
    signer,        \* signer[i]: the creation that signed certificate i (0: none)
    \* --- each agent ---
    proc,          \* what its process is doing
    attempt,       \* the attempt it waits for or writes the answer of
    left,          \* files it has still to write
    file,          \* file[a][f]: the attempt the file is from, Missing or Torn
    \* --- observations ---
    host,          \* host[i]: the agent that made attempt i
    granted,       \* attempts the token was accepted for
    died,          \* an agent has died, or could not write a file
    attempts, fails, renewals

storeVars == <<mem, disk, expired>>
caVars == <<server, caFile, created>>
serverVars == <<mem, disk, expired, req, server, caFile, created, signer>>
agentVars == <<proc, attempt, left, file>>
obsVars == <<host, granted, died>>
boundVars == <<attempts, fails, renewals>>
vars == <<mem, disk, expired, req, server, caFile, created, signer, proc, attempt, left, file, host, granted,
          died, attempts, fails, renewals>>

Empty == [uses |-> 0, machines |-> {}]
Requests == {"none", "sent", "consumed", "answered", "refused"}
Processes == {"off", "waiting", "writing", "renewing", "running"}

Init ==
    /\ mem = Empty /\ disk = Empty
    /\ expired = FALSE
    /\ req = [i \in Attempts |-> "none"]
    /\ server = "down"
    /\ caFile = [f \in CAFiles |-> Missing]
    /\ created = 0
    /\ signer = [i \in Attempts |-> 0]
    /\ proc = [a \in Agents |-> "off"]
    /\ attempt = [a \in Agents |-> 0]
    /\ left = [a \in Agents |-> {}]
    /\ file = [a \in Agents |-> [f \in Files |-> Missing]]
    /\ host \in [Attempts -> {CHOOSE a \in Agents : TRUE}]
    /\ granted = {}
    /\ died = FALSE
    /\ attempts = 0 /\ fails = 0 /\ renewals = 0

Fail == fails < MaxFails /\ fails' = fails + 1

------------------------------------------------------------------------------
(* The server                                                               *)

Accepted(i) == req' = [req EXCEPT ![i] = "consumed"] /\ granted' = granted \cup {i}
Refused(i) == req' = [req EXCEPT ![i] = "refused"] /\ UNCHANGED granted

Valid == ~expired /\ (Limit = Unlimited \/ mem.uses < Limit)

\* The token is used once more and the store is written, in one step.
ConsumeToken(i) ==
    /\ server = "up"
    /\ req[i] = "sent"
    /\ Valid
    /\ mem' = [mem EXCEPT !.uses = @ + 1]
    /\ disk' = mem'
    /\ Accepted(i)
    /\ UNCHANGED <<expired, caVars, signer, agentVars, host, died, boundVars>>

\* (faulty) the write error is not looked at.
ConsumeTokenFails_ignored(i) ==
    /\ server = "up"
    /\ req[i] = "sent"
    /\ Valid
    /\ Fail
    /\ mem' = [mem EXCEPT !.uses = @ + 1]
    /\ UNCHANGED disk
    /\ Accepted(i)
    /\ UNCHANGED <<expired, caVars, signer, agentVars, host, died, attempts, renewals>>

\* The write fails: the store in memory is ahead of the disk, and the next
\* write that succeeds takes the difference along.
ConsumeTokenFails(i) ==
    /\ server = "up"
    /\ req[i] = "sent"
    /\ Valid
    /\ Fail
    /\ mem' = [mem EXCEPT !.uses = @ + 1]
    /\ UNCHANGED disk
    /\ Refused(i)
    /\ UNCHANGED <<expired, caVars, signer, agentVars, host, died, attempts, renewals>>

\* The token is used up or expired.
RefuseToken(i) ==
    /\ server = "up"
    /\ req[i] = "sent"
    /\ ~Valid
    /\ Refused(i)
    /\ UNCHANGED <<storeVars, caVars, signer, agentVars, host, died, boundVars>>

\* The machine is recorded, its certificate signed and the answer sent.
SaveMachine(i) ==
    /\ server = "up"
    /\ req[i] = "consumed"
    /\ mem' = [mem EXCEPT !.machines = @ \cup {i}]
    /\ disk' = mem'
    /\ req' = [req EXCEPT ![i] = "answered"]
    /\ signer' = [signer EXCEPT ![i] = caFile["ca.key"]]
    /\ UNCHANGED <<expired, caVars, agentVars, obsVars, boundVars>>

\* (faulty) the answer is sent all the same.
SaveMachineFails_ignored(i) ==
    /\ server = "up"
    /\ req[i] = "consumed"
    /\ Fail
    /\ mem' = [mem EXCEPT !.machines = @ \cup {i}]
    /\ UNCHANGED disk
    /\ req' = [req EXCEPT ![i] = "answered"]
    /\ signer' = [signer EXCEPT ![i] = caFile["ca.key"]]
    /\ UNCHANGED <<expired, caVars, agentVars, obsVars, attempts, renewals>>

\* The record stays in memory and the agent is told that there is none.
SaveMachineFails(i) ==
    /\ server = "up"
    /\ req[i] = "consumed"
    /\ Fail
    /\ mem' = [mem EXCEPT !.machines = @ \cup {i}]
    /\ UNCHANGED disk
    /\ req' = [req EXCEPT ![i] = "refused"]
    /\ UNCHANGED <<expired, caVars, signer, agentVars, obsVars, attempts, renewals>>

Serve(i) ==
    ConsumeToken(i) \/ ConsumeTokenFails(i) \/ RefuseToken(i)
    \/ SaveMachine(i) \/ SaveMachineFails(i)

\* The file of the CA that is written next; create has as many left.
Unwritten == {k \in 1..Len(Creation) : caFile[Creation[k]] # created}
NextFile == Creation[CHOOSE k \in Unwritten : \A l \in Unwritten : k <= l]

\* load: all three files have to be there and to parse.
CALoads == \A f \in CAFiles : caFile[f] \notin {Missing, Torn}

\* (faulty) the CA is created at every start.
LoadOrCreate_anew ==
    /\ server' = "creating"
    /\ created' = created + 1

\* Only ca.pem is looked for.  A CA that does not load has the process exit again.
LoadOrCreate ==
    \/ /\ caFile["ca.pem"] = Missing
       /\ server' = "creating"
       /\ created' = created + 1
    \/ /\ caFile["ca.pem"] # Missing
       /\ CALoads
       /\ server' = "up"
       /\ UNCHANGED created

\* The server's process starts.
Boot ==
    /\ server = "down"
    /\ LoadOrCreate
    /\ UNCHANGED <<storeVars, req, caFile, signer, agentVars, obsVars, boundVars>>

\* create: keys and certificate are made, and written one file after the other ...
CreateCA ==
    /\ server = "creating"
    /\ Unwritten # {}
    /\ caFile' = [caFile EXCEPT ![NextFile] = created]
    /\ UNCHANGED <<storeVars, req, server, created, signer, agentVars, obsVars, boundVars>>

\* ... and loaded again.
CAReady ==
    /\ server = "creating"
    /\ Unwritten = {}
    /\ server' = "up"
    /\ UNCHANGED <<storeVars, req, caFile, created, signer, agentVars, obsVars, boundVars>>

\* The server's process ends, with the requests it was serving.
Down ==
    /\ server # "down"
    /\ Fail
    /\ server' = "down"
    /\ req' = [i \in Attempts |-> IF req[i] = "none" THEN "none" ELSE "refused"]

\* The store it will open is what the disk holds; a file of the CA may have been
\* cut short.
Stop ==
    /\ Down
    /\ mem' = disk
    /\ died' = (died \/ server = "creating")
    /\ \/ UNCHANGED caFile
       \/ /\ server = "creating" /\ Unwritten # {}
          /\ caFile' = [caFile EXCEPT ![NextFile] = Torn]
    /\ UNCHANGED <<disk, expired, created, signer, agentVars, host, granted, attempts, renewals>>

Expire ==
    /\ ~expired
    /\ expired' = TRUE
    /\ UNCHANGED <<mem, disk, req, caVars, signer, agentVars, obsVars, boundVars>>

------------------------------------------------------------------------------
(* The agent                                                                *)

\* Enrolled looks for cert.pem only.
Enrolled(a) == file[a]["cert.pem"] # Missing

\* init: the certificate has to fit the key and the CA to parse; the id and
\* the module key are read as they are.
Loadable(a) ==
    /\ file[a]["cert.pem"] \in Attempts
    /\ file[a]["key.pem"] = file[a]["cert.pem"]
    /\ file[a]["ca.pem"] \in Attempts
    /\ file[a]["machine-id"] # Missing
    /\ file[a]["module-pub.pem"] # Missing

\* (faulty) run enrolls at every start.
Enroll_again(a) ==
    LET i == attempts + 1 IN
    /\ proc[a] = "off"
    /\ server = "up"
    /\ i \in Attempts
    /\ attempts' = i
    /\ host' = [host EXCEPT ![i] = a]
    /\ req' = [req EXCEPT ![i] = "sent"]
    /\ proc' = [proc EXCEPT ![a] = "waiting"]
    /\ attempt' = [attempt EXCEPT ![a] = i]
    /\ UNCHANGED <<storeVars, caVars, signer, left, file, granted, died, fails, renewals>>

\* run without an identity: a new key, and the token is sent.  (A server that is
\* down is not reached: the agent exits and is started again.)
Enroll(a) ==
    LET i == attempts + 1 IN
    /\ proc[a] = "off"
    /\ ~Enrolled(a)
    /\ server = "up"
    /\ i \in Attempts
    /\ attempts' = i
    /\ host' = [host EXCEPT ![i] = a]
    /\ req' = [req EXCEPT ![i] = "sent"]
    /\ proc' = [proc EXCEPT ![a] = "waiting"]
    /\ attempt' = [attempt EXCEPT ![a] = i]
    /\ UNCHANGED <<storeVars, caVars, signer, left, file, granted, died, fails, renewals>>

Exit(a) ==
    /\ proc' = [proc EXCEPT ![a] = "off"]
    /\ attempt' = [attempt EXCEPT ![a] = 0]
    /\ left' = [left EXCEPT ![a] = {}]

\* (faulty) a refusal is waited out.
EnrollFails_patient(a) ==
    /\ proc[a] = "waiting"
    /\ Fail
    /\ Exit(a)
    /\ UNCHANGED <<serverVars, file, obsVars, attempts, renewals>>

\* An error, a timeout or a lost connection: the process exits.
EnrollFails(a) ==
    /\ proc[a] = "waiting"
    /\ IF req[attempt[a]] = "refused" THEN UNCHANGED fails ELSE Fail
    /\ Exit(a)
    /\ UNCHANGED <<serverVars, file, obsVars, attempts, renewals>>

Answer(a) ==
    /\ proc[a] = "waiting"
    /\ req[attempt[a]] = "answered"
    /\ proc' = [proc EXCEPT ![a] = "writing"]
    /\ left' = [left EXCEPT ![a] = Files]
    /\ UNCHANGED <<serverVars, attempt, file, obsVars, boundVars>>

\* One file after the other, in any order.
WriteFile(a, f) ==
    /\ proc[a] = "writing"
    /\ f \in left[a]
    /\ file' = [file EXCEPT ![a][f] = attempt[a]]
    /\ left' = [left EXCEPT ![a] = @ \ {f}]
    /\ UNCHANGED <<serverVars, proc, attempt, obsVars, boundVars>>

\* All files are written: on to Run.
EnrollDone(a) ==
    /\ proc[a] = "writing"
    /\ left[a] = {}
    /\ Exit(a)
    /\ UNCHANGED <<serverVars, file, obsVars, boundVars>>

\* run with an identity.
Run(a) ==
    /\ proc[a] = "off"
    /\ Enrolled(a)
    /\ Loadable(a)
    /\ proc' = [proc EXCEPT ![a] = "running"]
    /\ UNCHANGED <<serverVars, attempt, left, file, obsVars, boundVars>>

\* maybeRenewCert at the start of run: a new certificate for the same key and
\* machine, refused when the machine is not known.
Renew(a) ==
    /\ proc[a] = "off"
    /\ Loadable(a)
    /\ renewals < MaxRenewals
    /\ renewals' = renewals + 1
    /\ server = "up"
    /\ file[a]["cert.pem"] \in mem.machines
    /\ proc' = [proc EXCEPT ![a] = "renewing"]
    /\ UNCHANGED <<serverVars, attempt, left, file, obsVars, attempts, fails>>

\* cert.pem is written over; it is of the same key and machine.
RenewDone(a) ==
    /\ proc[a] = "renewing"
    /\ proc' = [proc EXCEPT ![a] = "running"]
    /\ UNCHANGED <<serverVars, attempt, left, file, obsVars, boundVars>>

\* The write fails, the agent logs it and runs on with the loaded certificate.
RenewFails(a) ==
    /\ proc[a] = "renewing"
    /\ Fail
    /\ died' = TRUE
    /\ file' \in {file, [file EXCEPT ![a]["cert.pem"] = Torn]}
    /\ proc' = [proc EXCEPT ![a] = "running"]
    /\ UNCHANGED <<serverVars, attempt, left, host, granted, attempts, renewals>>

\* The file that is being written when the process dies.
Open(a) == CASE proc[a] = "writing" -> left[a]
             [] proc[a] = "renewing" -> {"cert.pem"}
             [] OTHER -> {}

\* The process dies, in the middle of writing a file or not, or exits because
\* a file cannot be written.
Crash(a) ==
    /\ proc[a] # "off"
    /\ Fail
    /\ died' = TRUE
    /\ \/ UNCHANGED file
       \/ \E f \in Open(a) : file' = [file EXCEPT ![a][f] = Torn]
    /\ Exit(a)
    /\ UNCHANGED <<serverVars, host, granted, attempts, renewals>>

Agent(a) ==
    \/ Enroll(a) \/ EnrollFails(a) \/ Answer(a)
    \/ \E f \in Files : WriteFile(a, f)
    \/ EnrollDone(a) \/ Run(a) \/ Renew(a) \/ RenewDone(a)

Server == Boot \/ CreateCA \/ CAReady

Next ==
    \/ \E i \in Attempts : Serve(i)
    \/ Server \/ Stop \/ Expire
    \/ \E a \in Agents : Agent(a) \/ RenewFails(a) \/ Crash(a)

Spec == Init /\ [][Next]_vars

\* A request is served or given up, and a process goes on; the supervisor
\* starts an agent or a server that has exited.
Fairness ==
    /\ WF_vars(Server)
    /\ \A i \in Attempts : WF_vars(Serve(i))
    /\ \A a \in Agents : WF_vars(Agent(a))

LiveSpec == Spec /\ Fairness

------------------------------------------------------------------------------
(* Properties                                                               *)

Stores == [uses : Nat, machines : SUBSET Attempts]

TypeOK ==
    /\ mem \in Stores /\ disk \in Stores
    /\ disk.uses <= mem.uses /\ disk.machines \subseteq mem.machines
    /\ expired \in BOOLEAN
    /\ req \in [Attempts -> Requests]
    /\ server \in {"down", "creating", "up"}
    /\ caFile \in [CAFiles -> 0..created \cup {Torn}]
    /\ created \in Nat
    /\ signer \in [Attempts -> 0..created]
    /\ proc \in [Agents -> Processes]
    /\ attempt \in [Agents -> 0..attempts]
    /\ left \in [Agents -> SUBSET Files]
    /\ file \in [Agents -> [Files -> Attempts \cup {Missing, Torn}]]
    /\ attempts \in 0..MaxAttempts
    /\ died \in BOOLEAN
    /\ granted \subseteq 1..attempts

\* A token lets in no more enrollments than it is good for, whatever overlaps,
\* fails or restarts (ConsumeToken: "exactly one wins").
TokenLimit == Limit # Unlimited => Cardinality(granted) <= Limit

\* An agent that holds a certificate is known to the server, in its memory and
\* on its disk: no restart of the server forgets an enrollment that was
\* acknowledged.
EnrolledIsRecorded ==
    \A a \in Agents : file[a]["cert.pem"] \in Attempts =>
        /\ file[a]["cert.pem"] \in mem.machines
        /\ file[a]["cert.pem"] \in disk.machines

\* The CA that agents trust, the one that has signed their certificates and the
\* one the server has loaded are the same, and so is the key that modules are
\* signed with: the CA is never replaced under its agents and never made up of
\* two creations, wherever the first boots were cut short (LoadOrCreate:
\* "initialises CA material under dir on first boot and reloads it afterwards").
OneAuthority ==
    \A a \in Agents : \A f \in {"cert.pem", "ca.pem", "module-pub.pem"} :
        file[a][f] \in Attempts /\ server = "up" =>
            \A g \in CAFiles : signer[file[a][f]] = caFile[g]

\* A host has a second machine record only for a failure: a lost answer, a write
\* that failed or a death (main: "a restart never burns another token use or leaves
\* a duplicate machine record behind").
FewDuplicates ==
    \A a \in Agents : Cardinality({i \in mem.machines : host[i] = a}) <= 1 + fails

\* As long as no agent dies, nor the server in its first boot, every agent gets to
\* run in the end, or the attempts modelled are used up (a token that is used up
\* or has expired does that).
EverybodyRuns ==
    <>[](died \/ attempts = MaxAttempts \/ \A a \in Agents : proc[a] = "running")
==============================================================================
