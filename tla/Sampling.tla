------------------------------- MODULE Sampling -------------------------------
(***************************************************************************)
(* The agent's metrics loop (agent/metrics.go): at every tick it reads     *)
(* cumulative counters - of the network as a whole, of every process       *)
(* (agent/procsample.go), interface (agent/netinfo.go) and pod             *)
(* (agent/kubernetes.go) - and reports the differences to the readings it  *)
(* keeps from earlier ticks.  Meanwhile the host goes on: processes, inter-*)
(* faces and pods work, disappear and appear again under the same name with*)
(* counters that start over, and any reading may fail.                     *)
(*                                                                         *)
(* A rate is the difference it is computed from: the code divides it by the*)
(* time, or the CPU time, between two ticks.  Receiving and sending are one*)
(* counter, and a process keeps its memory while it runs.                  *)
(***************************************************************************)
EXTENDS Inventory, Integers, FiniteSets

CONSTANTS
    Procs, Ifaces, Pods, \* the pids, interface names and pod uids there may be
    Programs,            \* what a process may be running
    RSS,                 \* RSS[program]: the memory it uses
    N,                   \* topN
    Word,                \* the counters' range: 2^64
    MaxAge,              \* ticks after which the pods' names are read again
    MaxWork,             \* bound: units of work
    MaxChurn,            \* bound: disappearances and reappearances
    MaxUpsets            \* bound: readings that fail

Things == Procs \cup Ifaces \cup Pods

\* Stands for the program of a pid that is not in use.
NoProgram == CHOOSE g \in Programs : TRUE

ASSUME SamplingAssumption ==
    /\ Procs \cap Ifaces = {} /\ Procs \cap Pods = {} /\ Ifaces \cap Pods = {}
    /\ IsFiniteSet(Things)
    /\ Programs # {}
    /\ RSS \in [Programs -> Nat]
    /\ {N, MaxAge, MaxWork, MaxChurn, MaxUpsets} \subseteq Nat
    /\ Word \in Nat \ {0}

VARIABLES
    \* --- the host ---
    present,     \* what exists
    counter,     \* counter[t]: what t has used since it appeared (0: absent)
    program,     \* program[t]: what process t is running
    readable,    \* the pods' log directory can be read
    \* --- the loop ---
    step,        \* the reading that comes next
    known,       \* whatever is in prevProcs, prevIfaces or prevPods
    prev,        \* prev[t]: its counter there
    prevNet,     \* prevRx + prevTx
    noKubelet,   \* noKubele: the kubelet did not answer once
    names,       \* the pods whose names were found in the log directory
    namesAge,    \* ticks since then
    \* --- the sample that is being made ---
    listed,      \* what it names
    rate,        \* rate[t]: the difference it gives for t
    total,       \* the difference it gives for the network
    named,       \* pods that it gives with their names
    \* --- observations ---
    since,       \* since[t]: what t has used since its kind was last due
    netSince,    \* what the interfaces have used since the last readNet
    steady,      \* existed when its kind was last read, and ever since
    stale,       \* kept from a reading before the last that was due, or misread
    netBroken,   \* an interface has gone, or readNet failed, since the last readNet
    \* --- bounds ---
    work, churn, upsets

hostVars   == <<present, counter, program, readable>>
sampleVars == <<listed, rate, total, named>>
boundVars  == <<work, churn, upsets>>
vars == <<present, counter, program, readable, step, known, prev, prevNet, noKubelet,
          names, namesAge, listed, rate, total, named, since, netSince, steady, stale,
          netBroken, work, churn, upsets>>

\* What the interfaces' counters count, unit by unit.
Carried == UNION {{t} \X (1..counter[t]) : t \in Ifaces}

\* readNet: the sum over all interfaces.
NetTotal == Cardinality(Carried)

\* metricsLoop up to its first tick: the network is read, processes and pods
\* are not.  Whatever exists has been running for a while.
Init ==
    /\ present \in SUBSET Things
    /\ counter = [t \in Things |-> IF t \in present THEN 1 ELSE 0]
    /\ program \in [Procs -> Programs]
    /\ \A t \in Procs \ present : program[t] = NoProgram
    /\ readable \in BOOLEAN
    /\ step = "idle"
    /\ known = present \cap Ifaces
    /\ prev = [t \in Things |-> IF t \in known THEN counter[t] ELSE 0]
    /\ prevNet = NetTotal
    /\ noKubelet = FALSE
    /\ names = {}
    /\ namesAge = MaxAge + 1
    /\ listed = {}
    /\ rate = [t \in Things |-> 0]
    /\ total = 0
    /\ named = {}
    /\ since = [t \in Things |-> 0]
    /\ netSince = 0
    /\ steady = known
    /\ stale = {}
    /\ netBroken = FALSE
    /\ work = 0
    /\ churn = 0
    /\ upsets = 0

------------------------------------------------------------------------------
(* The host                                                                 *)

\* t uses CPU time or sends bytes.
Work(t) ==
    /\ t \in present
    /\ work < MaxWork
    /\ work' = work + 1
    /\ counter' = [counter EXCEPT ![t] = @ + 1]
    /\ since' = [since EXCEPT ![t] = @ + 1]
    /\ netSince' = IF t \in Ifaces THEN netSince + 1 ELSE netSince
    /\ UNCHANGED <<present, program, readable, step, known, prev, prevNet, noKubelet, names, namesAge,
                   sampleVars, steady, stale, netBroken, churn, upsets>>

\* t is gone, with its counter.
Vanish(t) ==
    /\ t \in present
    /\ churn < MaxChurn
    /\ churn' = churn + 1
    /\ present' = present \ {t}
    /\ counter' = [counter EXCEPT ![t] = 0]
    /\ program' = [g \in Procs |-> IF g = t THEN NoProgram ELSE program[g]]
    /\ steady' = steady \ {t}
    /\ netBroken' = (netBroken \/ t \in Ifaces)
    /\ UNCHANGED <<readable, step, known, prev, prevNet, noKubelet, names, namesAge,
                   sampleVars, since, netSince, stale, work, upsets>>

\* Something of the name t appears, for a process with any program.
Appear(t) ==
    /\ t \notin present
    /\ churn < MaxChurn
    /\ churn' = churn + 1
    /\ present' = present \cup {t}
    /\ IF t \in Procs THEN \E g \in Programs : program' = [program EXCEPT ![t] = g]
                       ELSE UNCHANGED program
    /\ UNCHANGED <<counter, readable, step, known, prev, prevNet, noKubelet, names, namesAge,
                   sampleVars, since, netSince, steady, stale, netBroken, work, upsets>>

\* The agent is given the log directory, or it is taken away.
Mount ==
    /\ churn < MaxChurn
    /\ churn' = churn + 1
    /\ readable' = ~readable
    /\ UNCHANGED <<present, counter, program, step, known, prev, prevNet, noKubelet, names,
                   namesAge, sampleVars, since, netSince, steady, stale, netBroken, work,
                   upsets>>

------------------------------------------------------------------------------
(* One tick                                                                 *)

Tick ==
    /\ step = "idle"
    /\ step' = "net"
    /\ UNCHANGED <<hostVars, known, prev, prevNet, noKubelet, names, namesAge, sampleVars,
                   since, netSince, steady, stale, netBroken, boundVars>>

\* A reading that fails, or does not.
Upset == upsets < MaxUpsets /\ upsets' = upsets + 1

\* (faulty) the reading is not kept.
ReadNet_forgotten ==
    /\ step = "net"
    /\ step' = "procs"
    /\ netBroken' = FALSE
    /\ total' = (NetTotal - prevNet) % Word
    /\ netSince' = 0
    /\ UNCHANGED <<hostVars, known, prev, prevNet, noKubelet, names, namesAge, listed, rate,
                   named, since, steady, stale, boundVars>>

\* The difference of unsigned numbers; zero is read of a file that cannot be.
ReadNet ==
    /\ step = "net"
    /\ step' = "procs"
    /\ \E now \in {NetTotal, 0} :
        /\ \/ now = NetTotal /\ netBroken' = FALSE /\ UNCHANGED upsets
           \/ now = 0 /\ netBroken' = TRUE /\ Upset
        /\ total' = (now - prevNet) % Word
        /\ prevNet' = now
    /\ netSince' = 0
    /\ UNCHANGED <<hostVars, known, prev, noKubelet, names, namesAge, listed, rate, named,
                   since, steady, stale, work, churn>>

\* The readings kept of kind K become those of R, misread ones as zero; what
\* has been used since is counted from here.
Keep(K, R, misread) ==
    /\ known' = (known \ K) \cup R
    /\ prev' = [t \in Things |-> IF t \in R \ misread THEN counter[t]
                             ELSE IF t \in K THEN 0 ELSE prev[t]]
    /\ since' = [t \in Things |-> IF t \in K THEN 0 ELSE since[t]]
    /\ steady' = (steady \ K) \cup (R \ misread)
    /\ stale' = (stale \ K) \cup misread

\* The readings of kind K stay what they were although this tick's were due; those
\* of what exists grow old by it.
KeepOld(K) ==
    /\ since' = [t \in Things |-> IF t \in K THEN 0 ELSE since[t]]
    /\ stale' = stale \cup (present \cap K)
    /\ UNCHANGED <<known, prev, steady>>

\* The sample names S, with these rates.
List(S, differences) ==
    /\ listed' = listed \cup S
    /\ rate' = [t \in Things |-> IF t \in S THEN differences[t] ELSE rate[t]]

\* (faulty) what was not read before counts from zero.
Grown_new(t) == counter[t] >= prev[t]

\* What t has used since it was last read, when that can be told.
Grown(t) == t \in known /\ counter[t] >= prev[t]

\* The difference that goes into the sample: none when it cannot be told.
Difference == [t \in Things |-> IF Grown(t) THEN counter[t] - prev[t] ELSE 0]

Memory(t) == RSS[program[t]]

\* processReport's samples among the processes that were read: those read twice,
\* except for the ones that have neither run nor memory.
Sampled(R) == {t \in R : Grown(t) /\ ~(Difference[t] = 0 /\ Memory(t) = 0)}

\* The first N by an order that leaves ties open.
Firsts(S, Before(_, _)) ==
    {K \in SUBSET S : /\ Cardinality(K) = IF Cardinality(S) < N THEN Cardinality(S) ELSE N
                      /\ \A k \in K, o \in S \ K : ~Before(o, k)}

BusierThan(o, k) ==
    \/ Difference[o] > Difference[k]
    \/ Difference[o] = Difference[k] /\ Memory(o) > Memory(k)
LargerThan(o, k) == Memory(o) > Memory(k)

Busiest(S) == Firsts(S, BusierThan)
Largest(S) == Firsts(S, LargerThan)

\* (faulty) the largest are not looked for.
selectProcesses_byCPU(S) ==
    {busiest \cup {t \in S : Service(program[t]) # None} : busiest \in Busiest(S)}

\* The busiest, the largest and every recognised service.
selectProcesses(S) ==
    {busiest \cup largest \cup {t \in S : Service(program[t]) # None} :
        busiest \in Busiest(S), largest \in Largest(S)}

\* processReport.  Some processes may not be read, because their files cannot be.
ReadProcs(R) ==
    /\ step = "procs"
    /\ step' = "ifaces"
    /\ R \subseteq present \cap Procs
    /\ IF R = present \cap Procs THEN UNCHANGED upsets ELSE Upset
    /\ \E S \in selectProcesses(Sampled(R)) : List(S, Difference)
    /\ Keep(Procs, R, {})
    /\ UNCHANGED <<hostVars, prevNet, noKubelet, names, namesAge, total, named, netSince,
                   netBroken, work, churn>>

\* /proc cannot be listed: an empty report, and the readings stay.
ReadProcsFails ==
    /\ step = "procs"
    /\ step' = "ifaces"
    /\ Upset
    /\ KeepOld(Procs)
    /\ UNCHANGED <<hostVars, prevNet, noKubelet, names, namesAge, sampleVars, netSince,
                   netBroken, work, churn>>

\* netSamples: new interfaces are left out, those whose counter has gone back are
\* given as idle.
ReadIfaces ==
    /\ step = "ifaces"
    /\ step' = "pods"
    /\ List(present \cap Ifaces \cap known, Difference)
    /\ Keep(Ifaces, present \cap Ifaces, {})
    /\ UNCHANGED <<hostVars, prevNet, noKubelet, names, namesAge, total, named, netSince,
                   netBroken, boundVars>>

\* /proc/net/dev cannot be read: nothing to report and nothing kept.
ReadIfacesFails ==
    /\ step = "ifaces"
    /\ step' = "pods"
    /\ Upset
    /\ Keep(Ifaces, {}, {})
    /\ UNCHANGED <<hostVars, prevNet, noKubelet, names, namesAge, sampleVars, netSince,
                   netBroken, work, churn>>

HostPods == present \cap Pods

\* The log directory has a name for every pod; one that cannot be read has none.
podLogNames == IF readable THEN HostPods ELSE {}

\* podsFromKubelet: rates and names are the kubelet's own; the readings of the
\* cgroups, if there are any, stay.
KubeletAnswers ==
    /\ step = "pods"
    /\ step' = "push"
    /\ ~noKubelet
    /\ HostPods # {}
    /\ List(HostPods, since)
    /\ named' = HostPods
    /\ KeepOld(Pods)
    /\ UNCHANGED <<hostVars, prevNet, noKubelet, names, namesAge, total, netSince,
                   netBroken, boundVars>>

\* (faulty) names are read once.
podsFromCgroups_once(misread) ==
    \/ /\ HostPods = {}
       /\ misread = {}
       /\ KeepOld(Pods)
       /\ UNCHANGED <<names, namesAge, listed, rate, named>>
    \/ /\ HostPods # {}
       /\ misread \subseteq HostPods
       /\ names' = IF names = {} THEN podLogNames ELSE names
       /\ namesAge' = 0
       /\ named' = HostPods \cap names'
       /\ List(HostPods, [t \in Things |-> IF t \in misread THEN 0 ELSE Difference[t]])
       /\ Keep(Pods, HostPods, misread)

\* podsFromCgroups.  Without pods it returns at once.  Names are read from the log
\* directory when the last ones, which may be none, are too old; CPU times that cannot be read are
\* taken for zero.
podsFromCgroups(misread) ==
    \/ /\ HostPods = {}
       /\ misread = {}
       /\ KeepOld(Pods)
       /\ UNCHANGED <<names, namesAge, listed, rate, named>>
    \/ /\ HostPods # {}
       /\ misread \subseteq HostPods
       /\ names' = IF namesAge > MaxAge THEN podLogNames ELSE names
       /\ namesAge' = IF namesAge > MaxAge THEN 0 ELSE namesAge
       /\ named' = HostPods \cap names'
       /\ List(HostPods, [t \in Things |-> IF t \in misread THEN 0 ELSE Difference[t]])
       /\ Keep(Pods, HostPods, misread)

\* collectPods without an answer of the kubelet: it has not started its pods yet,
\* or was given up on, now (once and for all) or earlier.
ReadCgroups(misread) ==
    /\ step = "pods"
    /\ step' = "push"
    /\ noKubelet' \in {noKubelet, TRUE}
    /\ podsFromCgroups(misread)
    /\ IF misread = {} THEN UNCHANGED upsets ELSE Upset
    /\ UNCHANGED <<hostVars, prevNet, total, netSince, netBroken, work, churn>>

\* postJSON, delivered or not: the readings are kept either way.  The next tick is
\* some seconds away.
Push ==
    /\ step = "push"
    /\ step' = "idle"
    /\ namesAge' = IF namesAge > MaxAge THEN namesAge ELSE namesAge + 1
    /\ listed' = {}
    /\ rate' = [t \in Things |-> 0]
    /\ total' = 0
    /\ named' = {}
    /\ UNCHANGED <<hostVars, known, prev, prevNet, noKubelet, names, since, netSince, steady,
                   stale, netBroken, boundVars>>

Host == (\E t \in Things : Work(t) \/ Vanish(t) \/ Appear(t)) \/ Mount

Loop ==
    \/ Tick \/ ReadNet
    \/ (\E R \in SUBSET Procs : ReadProcs(R)) \/ ReadProcsFails
    \/ ReadIfaces \/ ReadIfacesFails
    \/ KubeletAnswers \/ (\E misread \in SUBSET Pods : ReadCgroups(misread))
    \/ Push

Next == Host \/ Loop

Spec == Init /\ [][Next]_vars

\* The ticker ticks and the loop goes on.
LiveSpec == Spec /\ WF_vars(Loop)

------------------------------------------------------------------------------
(* Properties                                                               *)

TypeOK ==
    /\ present \subseteq Things
    /\ counter \in [Things -> Nat]
    /\ program \in [Procs -> Programs]
    /\ readable \in BOOLEAN
    /\ step \in {"idle", "net", "procs", "ifaces", "pods", "push"}
    /\ known \subseteq Things
    /\ prev \in [Things -> Nat]
    /\ prevNet \in Nat
    /\ noKubelet \in BOOLEAN
    /\ names \subseteq Pods
    /\ namesAge \in 0..(MaxAge + 1)
    /\ listed \subseteq Things
    /\ rate \in [Things -> Nat]
    /\ total \in 0..(Word - 1)
    /\ named \subseteq listed \cap Pods
    /\ since \in [Things -> Nat]
    /\ netSince \in Nat
    /\ steady \subseteq present \cap known
    /\ stale \subseteq Things
    /\ netBroken \in BOOLEAN
    /\ {work, churn, upsets} \subseteq Nat

\* No sample gives a process, an interface or a pod more than it has used since
\* the tick before, and what existed all the time gets exactly that ("a delta
\* needs two readings", "skipped for one interval rather than reported as a huge
\* spike"): whatever disappeared, came back with its counter started over or was
\* replaced under its pid.  It does not hold of readings that a failing /proc or
\* an answering kubelet has let grow old, nor of those misread as zero.
HonestRates ==
    [][\A t \in listed' \ listed :
            t \notin stale => /\ rate'[t] <= since[t]
                              /\ t \in steady \cap steady' => rate'[t] = since[t]]_vars

\* The rate of the network is what its interfaces have carried, unless one has
\* gone, or the file could not be read, since the last reading: then the
\* difference of unsigned numbers wraps.
HonestTotal ==
    [][step = "net" /\ step' = "procs" /\ ~netBroken /\ ~netBroken' =>
            total' = netSince % Word]_vars

\* A process that is left out of a sample is no service, and at least N that are
\* in it have used no less CPU time and N no less memory ("a 40 GiB process
\* idling at 0% CPU never enters a CPU-ranked list, so the union includes the top
\* N by RSS").
NothingHidden ==
    [][step = "procs" /\ step' = "ifaces" /\ upsets' = upsets =>
        \A t \in (Procs \cap steady \cap steady') \ listed' :
            t \notin stale /\ (Memory(t) > 0 \/ since[t] > 0) =>
                /\ Service(program[t]) = None
                /\ Cardinality({o \in Procs \cap listed' : rate'[o] >= since[t]}) >= N
                /\ Cardinality({o \in Procs \cap listed' : Memory(o) >= Memory(t)}) >= N]_vars

\* The sample shows the services that the inventory finds among the same processes
\* ("Resolve it the same way the inventory scan does"), and a host whose sample
\* shows a service of Kubernetes has a role in a cluster in its inventory.
ServicesAgree ==
    [][step = "procs" /\ step' = "ifaces" /\ upsets' = upsets =>
        LET read    == {t \in Procs \cap steady \cap steady' : Memory(t) > 0}
            shown   == {Service(program[t]) : t \in read \cap listed'} \ {None}
            running == {program[t] : t \in Procs \cap present}
        IN  /\ shown = scanProcs({program[t] : t \in read})
            /\ shown \cap {"k3s-server", "k3s-agent", "k3s", "kube-apiserver", "kubelet"} # {}
                    => detectKubernetes(scanProcs(running)) # None]_vars

\* A pod that stays is in every sample in the end, and with its name where the log
\* directory stays readable ("without it you get a UID and no name"): whether the
\* kubelet answers or not, and however old the names were, or without how many of
\* them the directory was read, when it came.
PodsNamed ==
    \A p \in Pods :
        /\ <>[](p \in present) => <>[](step = "push" => p \in listed)
        /\ <>[](p \in present /\ readable) => <>[](step = "push" => p \in named)
================================================================================
