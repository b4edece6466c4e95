---------------------------- MODULE SamplingProofs ----------------------------
(***************************************************************************)
(* Sampling's rates are honest for any host: any number of processes,      *)
(* interfaces and pods, any counters and any failures.                     *)
(*                                                                         *)
(* A reading that is kept, together with what was used since, accounts for *)
(* the counter (Accounted), and so does the sum of all interfaces          *)
(* (NetAccounted).                                                         *)
(***************************************************************************)
EXTENDS Sampling, FiniteSetTheorems, TLAPS

\* The types of what rates are made of.
CountersOK ==
    /\ present \subseteq Things
    /\ counter \in [Things -> Nat]
    /\ program \in [Procs -> Programs]
    /\ known \subseteq Things
    /\ prev \in [Things -> Nat]
    /\ since \in [Things -> Nat]
    /\ steady \subseteq present \cap known
    /\ upsets \in Nat

\* What is gone counts for nothing; a reading that was kept and has not grown old
\* is at most what has been used since below the counter, and exactly that
\* below it for what has not been replaced, whose counter never goes back.
Accounted ==
    /\ \A t \in Things \ present : counter[t] = 0
    /\ \A t \in known \ stale : counter[t] <= prev[t] + since[t]
    /\ \A t \in steady \ stale : counter[t] = prev[t] + since[t]
    /\ \A t \in steady : prev[t] <= counter[t]

Inv == CountersOK /\ Accounted

\* Keep re-establishes the account of kind K.
LEMMA KeepAccounts ==
    ASSUME NEW K, NEW R, NEW misread,
           K \subseteq Things, R \subseteq present \cap K, misread \subseteq R,
           Inv, Keep(K, R, misread), UNCHANGED hostVars, upsets' \in Nat
    PROVE  Inv'
<1>1. CountersOK'
  BY DEF Inv, CountersOK, Keep, hostVars
<1>2. (\A t \in Things \ present : counter[t] = 0)'
  BY DEF Inv, Accounted, hostVars
<1>3. ASSUME NEW t \in Things, t \in known', t \notin stale'
      PROVE  /\ counter'[t] <= prev'[t] + since'[t]
             /\ t \in steady' => counter'[t] = prev'[t] + since'[t]
  <2>1. CASE t \in K
    <3>1. t \in R \ misread
      BY <1>3, <2>1 DEF Keep
    <3>2. prev'[t] = counter[t] /\ since'[t] = 0 /\ counter' = counter /\ counter[t] \in Nat
      BY <2>1, <3>1 DEF Keep, hostVars, Inv, CountersOK
    <3> QED
      BY <3>2
  <2>2. CASE t \notin K
    <3>1. t \in known /\ t \notin stale /\ (t \in steady' => t \in steady)
      BY <1>3, <2>2 DEF Keep
    <3>2. prev'[t] = prev[t] /\ since'[t] = since[t] /\ counter' = counter
      BY <2>2 DEF Keep, hostVars
    <3> QED
      BY <3>1, <3>2 DEF Inv, Accounted
  <2> QED
    BY <2>1, <2>2
<1>4. ASSUME NEW t \in steady' PROVE prev'[t] <= counter'[t]
  <2>1. t \in Things /\ counter[t] \in Nat /\ counter' = counter
    BY <1>1, <1>4 DEF Inv, CountersOK, hostVars
  <2>2. CASE t \in R \ misread
    BY <2>1, <2>2 DEF Keep
  <2>3. CASE t \in steady \ K
    BY <2>1, <2>3 DEF Keep, Inv, Accounted
  <2> QED
    BY <1>4, <2>2, <2>3 DEF Keep
<1> QED
  BY <1>1, <1>2, <1>3, <1>4 DEF Inv, Accounted, CountersOK

\* KeepOld disclaims what exists and keeps the account of what does not.
LEMMA KeepOldAccounts ==
    ASSUME NEW K, K \subseteq Things, Inv, KeepOld(K), UNCHANGED hostVars, upsets' \in Nat
    PROVE  Inv'
<1>1. CountersOK'
  BY DEF Inv, CountersOK, KeepOld, hostVars
<1>2. ASSUME NEW t \in Things, t \in known', t \notin stale'
      PROVE  /\ counter'[t] <= prev'[t] + since'[t]
             /\ t \in steady' => counter'[t] = prev'[t] + since'[t]
  <2>1. t \in known /\ t \notin stale /\ prev' = prev /\ counter' = counter /\ steady' = steady
    BY <1>2 DEF KeepOld, hostVars
  <2>2. CASE t \in K
    <3>1. t \notin present /\ t \notin steady
      BY <1>2, <2>2 DEF KeepOld, Inv, CountersOK
    <3>2. counter[t] = 0 /\ since'[t] = 0 /\ prev[t] \in Nat
      BY <2>2, <3>1 DEF KeepOld, Inv, CountersOK, Accounted
    <3> QED
      BY <2>1, <3>1, <3>2
  <2>3. CASE t \notin K
    <3>1. since'[t] = since[t]
      BY <2>3 DEF KeepOld
    <3> QED
      BY <2>1, <3>1 DEF Inv, Accounted
  <2> QED
    BY <2>2, <2>3
<1>3. UNCHANGED <<steady, prev, counter>>
  BY DEF KeepOld, hostVars
<1> QED
  BY <1>1, <1>2, <1>3 DEF Inv, Accounted, CountersOK, hostVars

\* A reading tells no more than what was used, and all of it for what has stayed.
LEMMA DifferenceIsHonest ==
    ASSUME Inv, NEW t \in Things, t \notin stale
    PROVE  /\ Difference[t] <= since[t]
           /\ t \in steady => Difference[t] = since[t]
<1> counter[t] \in Nat /\ prev[t] \in Nat /\ since[t] \in Nat
  BY DEF Inv, CountersOK
<1>1. CASE Grown(t)
  <2>1. Difference[t] = counter[t] - prev[t] /\ counter[t] <= prev[t] + since[t]
    BY <1>1 DEF Difference, Grown, Inv, Accounted
  <2>2. t \in steady => counter[t] = prev[t] + since[t]
    BY DEF Inv, Accounted
  <2> QED
    BY <2>1, <2>2
<1>2. CASE ~Grown(t)
  <2>1. Difference[t] = 0
    BY <1>2 DEF Difference
  <2>2. ASSUME t \in steady PROVE FALSE
    <3>1. t \in known /\ counter[t] = prev[t] + since[t]
      BY <2>2 DEF Inv, Accounted, CountersOK
    <3> QED
      BY <1>2, <3>1 DEF Grown
  <2> QED
    BY <2>1, <2>2
<1> QED
  BY <1>1, <1>2

\* The initial readings account for the counters.
LEMMA InitAccounts == ASSUME Init PROVE Inv
<1>1. CountersOK
  BY DEF Init, CountersOK, Things
<1>2. \A t \in known : counter[t] = prev[t] /\ prev[t] \in Nat /\ since[t] = 0
  BY DEF Init, Things
<1>3. (\A t \in Things \ present : counter[t] = 0) /\ steady = known
  BY DEF Init
<1> QED
  BY <1>1, <1>2, <1>3 DEF Inv, Accounted

\* The host's steps keep the account.
LEMMA HostAccounts == ASSUME Inv, Host PROVE Inv'
<1> USE DEF Inv
<1>1. ASSUME NEW t \in Things, Work(t) PROVE Inv'
  <2>1. CountersOK'
    BY <1>1 DEF CountersOK, Work
  <2>2. \A u \in Things : counter'[u] = counter[u] + (since'[u] - since[u]) /\ since'[u] \in Nat
    BY <1>1 DEF CountersOK, Work
  <2>3. \A u \in Things \ present : counter'[u] = 0
    BY <1>1 DEF CountersOK, Accounted, Work
  <2>4. UNCHANGED <<present, known, prev, stale, steady>>
    BY <1>1 DEF Work
  <2>5. \A u \in known \ stale : counter'[u] <= prev[u] + since'[u]
    BY <2>2 DEF CountersOK, Accounted
  <2>6. \A u \in steady \ stale : counter'[u] = prev[u] + since'[u]
    BY <2>2 DEF CountersOK, Accounted
  <2>7. \A u \in steady : prev[u] <= counter'[u]
    BY <1>1 DEF CountersOK, Accounted, Work
  <2> QED
    BY <2>1, <2>3, <2>4, <2>5, <2>6, <2>7 DEF Accounted
<1>2. ASSUME NEW t \in Things, Vanish(t) PROVE Inv'
  <2>1. CountersOK'
    <3>1. NoProgram \in Programs
      BY SamplingAssumption DEF NoProgram
    <3> QED
      BY <1>2, <3>1 DEF CountersOK, Vanish
  <2>2. UNCHANGED <<known, prev, stale, since>> /\ steady' = steady \ {t}
    BY <1>2 DEF Vanish
  <2>3. counter'[t] = 0 /\ \A u \in Things \ {t} : counter'[u] = counter[u]
    BY <1>2 DEF CountersOK, Vanish
  <2>4. \A u \in Things \ present' : counter'[u] = 0
    BY <1>2, <2>3 DEF CountersOK, Accounted, Vanish
  <2>5. \A u \in known \ stale : counter'[u] <= prev[u] + since[u]
    BY <2>3 DEF CountersOK, Accounted
  <2>6. \A u \in (steady \ {t}) \ stale : counter'[u] = prev[u] + since[u]
    BY <2>3 DEF CountersOK, Accounted
  <2>7. \A u \in steady \ {t} : prev[u] <= counter'[u]
    BY <2>3 DEF CountersOK, Accounted
  <2> QED
    BY <2>1, <2>2, <2>4, <2>5, <2>6, <2>7 DEF Accounted
<1>3. ASSUME NEW t \in Things, Appear(t) PROVE Inv'
  BY <1>3 DEF CountersOK, Accounted, Appear
<1>4. CASE Mount
  BY <1>4 DEF CountersOK, Accounted, Mount
<1> QED
  BY <1>1, <1>2, <1>3, <1>4 DEF Host

\* So do the loop's.
LEMMA LoopAccounts == ASSUME Inv, Loop PROVE Inv'
<1> Procs \subseteq Things /\ Ifaces \subseteq Things /\ Pods \subseteq Things
  BY DEF Things
<1>0. upsets' \in Nat
  <2>1. upsets' = upsets \/ Upset
    <3>1. CASE Tick \/ ReadNet \/ ReadIfaces \/ KubeletAnswers \/ Push
      BY <3>1 DEF Tick, ReadNet, ReadIfaces, KubeletAnswers, Push, boundVars
    <3>2. CASE (\E R \in SUBSET Procs : ReadProcs(R)) \/ ReadProcsFails \/ ReadIfacesFails
      BY <3>2 DEF ReadProcs, ReadProcsFails, ReadIfacesFails
    <3>3. CASE \E misread \in SUBSET Pods : ReadCgroups(misread)
      BY <3>3 DEF ReadCgroups
    <3> QED
      BY <3>1, <3>2, <3>3 DEF Loop
  <2> QED
    BY <2>1 DEF Upset, Inv, CountersOK
<1>1. CASE Tick \/ ReadNet \/ Push
  <2>1. UNCHANGED <<present, counter, program, known, prev, since, steady, stale>>
    BY <1>1 DEF Tick, ReadNet, Push, hostVars
  <2> QED
    BY <1>0, <2>1 DEF Inv, CountersOK, Accounted
<1>2. ASSUME NEW R, ReadProcs(R) PROVE Inv'
  BY <1>0, <1>2, KeepAccounts DEF ReadProcs
<1>3. CASE ReadProcsFails
  BY <1>0, <1>3, KeepOldAccounts DEF ReadProcsFails
<1>4. CASE ReadIfaces
  BY <1>0, <1>4, KeepAccounts DEF ReadIfaces
<1>5. CASE ReadIfacesFails
  BY <1>0, <1>5, KeepAccounts DEF ReadIfacesFails
<1>6. CASE KubeletAnswers
  BY <1>0, <1>6, KeepOldAccounts DEF KubeletAnswers
<1>7. ASSUME NEW misread, ReadCgroups(misread) PROVE Inv'
  <2>1. CASE KeepOld(Pods)
    BY <1>0, <1>7, <2>1, KeepOldAccounts DEF ReadCgroups
  <2>2. CASE misread \subseteq HostPods /\ Keep(Pods, HostPods, misread)
    BY <1>0, <1>7, <2>2, KeepAccounts DEF ReadCgroups, HostPods
  <2> QED
    BY <1>7, <2>1, <2>2 DEF ReadCgroups, podsFromCgroups
<1> QED
  BY <1>1, <1>2, <1>3, <1>4, <1>5, <1>6, <1>7 DEF Loop

\* What a step of the loop or the host adds to the sample is honest.
LEMMA StepIsHonest ==
    ASSUME Inv, Next, NEW t \in listed' \ listed, t \notin stale
    PROVE  /\ rate'[t] <= since[t]
           /\ t \in steady \cap steady' => rate'[t] = since[t]
<1>1. ASSUME NEW u \in Things, Work(u) \/ Vanish(u) \/ Appear(u) PROVE FALSE
  BY <1>1 DEF Work, Vanish, Appear, sampleVars
<1>2. CASE Mount \/ Tick \/ ReadNet \/ Push \/ ReadProcsFails \/ ReadIfacesFails
  BY <1>2 DEF Mount, Tick, ReadNet, Push, ReadProcsFails, ReadIfacesFails, sampleVars
<1>3. ASSUME NEW S, S \subseteq Things, List(S, Difference)
      PROVE  /\ rate'[t] <= since[t]
             /\ t \in steady => rate'[t] = since[t]
  <2>1. t \in S /\ t \in Things /\ rate'[t] = Difference[t]
    BY <1>3 DEF List
  <2> QED
    BY <2>1, DifferenceIsHonest
<1>4. ASSUME NEW R, ReadProcs(R)
      PROVE  /\ rate'[t] <= since[t]
             /\ t \in steady => rate'[t] = since[t]
  <2>1. PICK S \in selectProcesses(Sampled(R)) : List(S, Difference)
    BY <1>4 DEF ReadProcs
  <2>2. Sampled(R) \subseteq Things
    BY <1>4 DEF ReadProcs, Sampled, Things
  <2>3. S \subseteq Sampled(R)
    BY <2>1 DEF selectProcesses, Busiest, Largest, Firsts
  <2> QED
    BY <1>3, <2>1, <2>2, <2>3
<1>5. CASE ReadIfaces
  BY <1>3, <1>5 DEF ReadIfaces, Things
<1>6. CASE KubeletAnswers
  <2>1. t \in HostPods /\ t \in Things /\ rate'[t] = since[t]
    BY <1>6 DEF KubeletAnswers, List, HostPods, Things
  <2>2. since[t] \in Nat
    BY <2>1 DEF Inv, CountersOK
  <2> QED
    BY <2>1, <2>2
<1>7. ASSUME NEW misread, ReadCgroups(misread)
      PROVE  /\ rate'[t] <= since[t]
             /\ t \in steady \cap steady' => rate'[t] = since[t]
  <2>1. /\ List(HostPods, [u \in Things |-> IF u \in misread THEN 0 ELSE Difference[u]])
        /\ Keep(Pods, HostPods, misread)
    BY <1>7 DEF ReadCgroups, podsFromCgroups
  <2>2. t \in HostPods /\ t \in Things /\ since[t] \in Nat
    BY <2>1 DEF List, HostPods, Things, Inv, CountersOK
  <2>3. CASE t \in misread
    <3>1. rate'[t] = 0 /\ t \notin steady'
      BY <2>1, <2>2, <2>3 DEF List, Keep, HostPods
    <3> QED
      BY <2>2, <3>1
  <2>4. CASE t \notin misread
    <3>1. rate'[t] = Difference[t]
      BY <2>1, <2>2, <2>4 DEF List
    <3> QED
      BY <2>2, <3>1, DifferenceIsHonest
  <2> QED
    BY <2>3, <2>4
<1> QED
  BY <1>1, <1>2, <1>4, <1>5, <1>6, <1>7 DEF Next, Host, Loop

\* Inv holds throughout.
LEMMA AlwaysAccounted == Spec => []Inv
<1>1. Inv /\ [Next]_vars => Inv'
  <2>1. ASSUME Inv, UNCHANGED vars PROVE Inv'
    BY <2>1 DEF vars, Inv, CountersOK, Accounted
  <2> QED
    BY <2>1, HostAccounts, LoopAccounts DEF Next
<1> QED
  BY <1>1, InitAccounts, PTL DEF Spec

\* HonestRates for every host: whatever disappears, comes back under the same
\* name or cannot be read, the differences that the metrics loop reports are what
\* was used (netSamples, processReport, podsFromCgroups).
THEOREM RatesAreHonest == Spec => HonestRates
<1>1. Inv /\ [Next]_vars =>
        [\A t \in listed' \ listed :
            t \notin stale => /\ rate'[t] <= since[t]
                              /\ t \in steady \cap steady' => rate'[t] = since[t]]_vars
  BY StepIsHonest
<1> QED
  BY <1>1, AlwaysAccounted, PTL DEF Spec, HonestRates

\* A selection holds N of the busiest, N of the largest and the services.
LEMMA SelectionHolds ==
    ASSUME NEW S, NEW chosen \in selectProcesses(S)
    PROVE  /\ \E busiest \in Busiest(S) : busiest \subseteq chosen
           /\ \E largest \in Largest(S) : largest \subseteq chosen
           /\ {o \in S : Service(program[o]) # None} \subseteq chosen
  BY DEF selectProcesses

\* What the N first of a finite set leave out is preceded by N of them.
LEMMA FirstsAreMany ==
    ASSUME NEW S, IsFiniteSet(S), NEW K \in SUBSET S, NEW t \in S \ K,
           Cardinality(K) = IF Cardinality(S) < N THEN Cardinality(S) ELSE N
    PROVE  IsFiniteSet(K) /\ Cardinality(K) = N
<1>1. IsFiniteSet(K) /\ Cardinality(S) # Cardinality(K)
  BY FS_Subset
<1> QED
  BY <1>1

\* Only a reading of the processes takes the loop past them.
LEMMA ProcsAreRead ==
    ASSUME Inv, Next, step = "procs", step' = "ifaces", upsets' = upsets
    PROVE  ReadProcs(present \cap Procs)
<1>1. ASSUME NEW t \in Things, Work(t) \/ Vanish(t) \/ Appear(t) PROVE FALSE
  BY <1>1 DEF Work, Vanish, Appear
<1>2. ~(Mount \/ Tick \/ ReadNet \/ ReadIfaces \/ ReadIfacesFails \/ KubeletAnswers \/ Push)
  BY DEF Mount, Tick, ReadNet, ReadIfaces, ReadIfacesFails, KubeletAnswers, Push
<1>3. ASSUME NEW misread, ReadCgroups(misread) PROVE FALSE
  BY <1>3 DEF ReadCgroups
<1>4. ~Upset
  BY DEF Upset, Inv, CountersOK
<1>5. ~ReadProcsFails
  BY <1>4 DEF ReadProcsFails
<1>6. ASSUME NEW R, ReadProcs(R) PROVE R = present \cap Procs
  BY <1>4, <1>6 DEF ReadProcs
<1> QED
  BY <1>1, <1>2, <1>3, <1>5, <1>6 DEF Next, Host, Loop

\* What was read twice and has run, or has memory, is sampled.
LEMMA SteadyIsSampled ==
    ASSUME Inv, ReadProcs(present \cap Procs), NEW t \in Procs \cap steady,
           Memory(t) > 0 \/ (t \notin stale /\ since[t] > 0)
    PROVE  t \in Sampled(present \cap Procs)
<1>1. t \in present /\ t \in known /\ t \in Things /\ Grown(t)
  BY DEF Inv, CountersOK, Accounted, Grown, Things
<1>2. Memory(t) \in Nat
  BY SamplingAssumption DEF Memory, Inv, CountersOK
<1>3. t \notin stale => Difference[t] = since[t]
  BY <1>1, DifferenceIsHonest
<1>4. since[t] \in Nat
  BY <1>1 DEF Inv, CountersOK
<1>5. ~(Difference[t] = 0 /\ Memory(t) = 0)
  BY <1>2, <1>3, <1>4
<1> QED
  BY <1>1, <1>5 DEF Sampled

\* A reading of the processes hides nothing.
LEMMA ReadingHidesNothing ==
    ASSUME Inv, ReadProcs(present \cap Procs),
           NEW t \in (Procs \cap steady \cap steady') \ listed',
           t \notin stale, Memory(t) > 0 \/ since[t] > 0
    PROVE  /\ Service(program[t]) = None
           /\ Cardinality({o \in Procs \cap listed' : rate'[o] >= since[t]}) >= N
           /\ Cardinality({o \in Procs \cap listed' : Memory(o) >= Memory(t)}) >= N
<1> DEFINE S == Sampled(present \cap Procs)
           services == {o \in S : Service(program[o]) # None}
<1>1. t \in S /\ t \in Things
  BY SteadyIsSampled DEF Things
<1>2. S \subseteq Procs /\ IsFiniteSet(Procs) /\ IsFiniteSet(S)
  <2>1. S \subseteq Procs
    BY DEF Sampled
  <2>2. IsFiniteSet(Procs)
    BY SamplingAssumption, FS_Subset DEF Things
  <2> QED
    BY <2>1, <2>2, FS_Subset
<1>3. PICK chosen \in selectProcesses(S) : List(chosen, Difference)
  BY DEF ReadProcs
<1>4. PICK busiest \in Busiest(S) : busiest \subseteq chosen
  BY SelectionHolds
<1>5. PICK largest \in Largest(S) : largest \subseteq chosen
  BY SelectionHolds
<1>6. services \subseteq chosen
  BY SelectionHolds
<1>7. busiest \subseteq S /\ largest \subseteq S
  BY DEF Busiest, Largest, Firsts
<1> HIDE DEF S
<1>8. \A o \in busiest \cup largest : o \in Procs \cap listed' /\ rate'[o] = Difference[o]
  BY <1>2, <1>3, <1>4, <1>5, <1>7 DEF List, Things
<1>9. t \notin busiest /\ t \notin largest /\ t \notin services
  BY <1>3, <1>4, <1>5, <1>6 DEF List
<1>10. \A o \in S : Difference[o] \in Nat /\ Memory(o) \in Nat
  BY <1>2, SamplingAssumption DEF Difference, Grown, Memory, Inv, CountersOK, Things
<1>11. Cardinality(busiest) = N /\ Cardinality(largest) = N
  BY <1>1, <1>2, <1>7, <1>9, FirstsAreMany DEF Busiest, Largest, Firsts
<1>12. Difference[t] = since[t]
  BY <1>1, DifferenceIsHonest
<1>13. \A o \in busiest : rate'[o] >= since[t]
  <2>1. \A o \in busiest : ~BusierThan(t, o)
    BY <1>1, <1>9 DEF Busiest, Firsts
  <2>2. ASSUME NEW o \in busiest PROVE rate'[o] >= since[t]
    <3>1. Difference[o] \in Nat /\ Difference[t] \in Nat /\ ~(Difference[t] > Difference[o])
      BY <1>1, <1>7, <1>10, <2>1 DEF BusierThan
    <3> QED
      BY <1>8, <1>12, <3>1
  <2> QED
    BY <2>2
<1>14. \A o \in largest : Memory(o) >= Memory(t)
  <2>1. \A o \in largest : ~LargerThan(t, o)
    BY <1>1, <1>9 DEF Largest, Firsts
  <2>2. ASSUME NEW o \in largest PROVE Memory(o) >= Memory(t)
    <3>1. Memory(o) \in Nat /\ Memory(t) \in Nat /\ ~(Memory(t) > Memory(o))
      BY <1>1, <1>7, <1>10, <2>1 DEF LargerThan
    <3> QED
      BY <3>1
  <2> QED
    BY <2>2
<1>15. ASSUME NEW A, A \subseteq Procs, NEW K, K \subseteq A, Cardinality(K) = N
       PROVE  Cardinality(A) >= N
  <2>1. IsFiniteSet(A)
    BY <1>2, <1>15, FS_Subset
  <2>2. Cardinality(K) <= Cardinality(A)
    BY <1>15, <2>1, FS_Subset
  <2>3. Cardinality(A) \in Nat /\ N \in Nat
    BY <2>1, FS_CardinalityType, SamplingAssumption
  <2> QED
    BY <1>15, <2>2, <2>3
<1>16. Service(program[t]) = None
  BY <1>1, <1>9
<1>17. busiest \subseteq {o \in Procs \cap listed' : rate'[o] >= since[t]}
  BY <1>8, <1>13
<1>18. largest \subseteq {o \in Procs \cap listed' : Memory(o) >= Memory(t)}
  BY <1>8, <1>14
<1>19. /\ Cardinality({o \in Procs \cap listed' : rate'[o] >= since[t]}) >= N
       /\ Cardinality({o \in Procs \cap listed' : Memory(o) >= Memory(t)}) >= N
  BY <1>11, <1>15, <1>17, <1>18
<1> QED
  BY <1>16, <1>19

\* NothingHidden for every host and every N: the union of the busiest, the largest
\* and the services leaves nothing heavy out (selectProcesses).
THEOREM NothingIsHidden == Spec => NothingHidden
<1>1. Inv /\ [Next]_vars =>
        [step = "procs" /\ step' = "ifaces" /\ upsets' = upsets =>
            \A t \in (Procs \cap steady \cap steady') \ listed' :
                t \notin stale /\ (Memory(t) > 0 \/ since[t] > 0) =>
                    /\ Service(program[t]) = None
                    /\ Cardinality({o \in Procs \cap listed' : rate'[o] >= since[t]}) >= N
                    /\ Cardinality({o \in Procs \cap listed' : Memory(o) >= Memory(t)}) >= N]_vars
  BY ProcsAreRead, ReadingHidesNothing
<1> QED
  BY <1>1, AlwaysAccounted, PTL DEF Spec, NothingHidden

\* The inventory's scan and the labels of the sample resolve programs alike.
LEMMA ScanIsService ==
    ASSUME NEW P
    PROVE  scanProcs(P) = {Service(p) : p \in P} \ {None}
<1>1. \A comm : Known(comm) => knownServices[comm] # None
  BY DEF Known, knownServices, None
<1> QED
  BY <1>1 DEF scanProcs, Service

\* A service of Kubernetes gives the host a role.
LEMMA KubernetesIsDetected ==
    ASSUME NEW services,
           services \cap {"k3s-server", "k3s-agent", "k3s", "kube-apiserver", "kubelet"} # {}
    PROVE  detectKubernetes(services) # None
  BY DEF detectKubernetes, None

\* ServicesAgree for every host and whatever its processes run: the labels of the
\* sample are those of the inventory (processReport, scanProcs).
THEOREM ServicesAlwaysAgree == Spec => ServicesAgree
<1> DEFINE read    == {t \in Procs \cap steady \cap steady' : Memory(t) > 0}
           shown   == {Service(program[t]) : t \in read \cap listed'} \ {None}
           running == {program[t] : t \in Procs \cap present}
<1>1. ASSUME Inv, ReadProcs(present \cap Procs)
      PROVE  /\ shown = scanProcs({program[t] : t \in read})
             /\ shown \cap {"k3s-server", "k3s-agent", "k3s", "kube-apiserver", "kubelet"} # {}
                    => detectKubernetes(scanProcs(running)) # None
  <2>1. ASSUME NEW t \in read, Service(program[t]) # None PROVE t \in listed'
    <3>1. t \in Sampled(present \cap Procs)
      BY <1>1, SteadyIsSampled
    <3> QED
      BY <1>1, <2>1, <3>1, SelectionHolds DEF ReadProcs, List
  <2>2. shown = {Service(program[t]) : t \in read} \ {None}
    BY <2>1
  <2>3. shown = scanProcs({program[t] : t \in read})
    BY <2>2, ScanIsService
  <2>4. read \subseteq Procs \cap present
    BY <1>1 DEF Inv, CountersOK
  <2>5. shown \subseteq scanProcs(running)
    BY <2>4, ScanIsService
  <2> QED
    BY <2>3, <2>5, KubernetesIsDetected
<1>2. Inv /\ [Next]_vars =>
        [step = "procs" /\ step' = "ifaces" /\ upsets' = upsets =>
            /\ shown = scanProcs({program[t] : t \in read})
            /\ shown \cap {"k3s-server", "k3s-agent", "k3s", "kube-apiserver", "kubelet"} # {}
                   => detectKubernetes(scanProcs(running)) # None]_vars
  BY <1>1, ProcsAreRead
<1> QED
  BY <1>2, AlwaysAccounted, PTL DEF Spec, ServicesAgree

------------------------------------------------------------------------------
(* The network as a whole.                                                  *)

\* Until an interface goes or the file cannot be read, the sum of the counters is
\* the last one that was read and what has been carried since.
NetAccounted ==
    /\ IsFiniteSet(Carried)
    /\ prevNet \in Nat /\ netSince \in Nat
    /\ ~netBroken => NetTotal = prevNet + netSince

LEMMA InitNet == ASSUME Init PROVE NetAccounted
<1>1. IsFiniteSet(Ifaces)
  BY SamplingAssumption, FS_Subset DEF Things
<1>2. IsFiniteSet(Ifaces \X {1})
  <2>1. IsFiniteSet({1})
    BY FS_Singleton
  <2> QED
    BY <1>1, <2>1, FS_Product
<1>3. \A t \in Ifaces : counter[t] \in {0, 1}
  BY DEF Init, Things
<1>4. Carried \subseteq Ifaces \X {1}
  BY <1>3 DEF Carried
<1>5. IsFiniteSet(Carried)
  BY <1>2, <1>4, FS_Subset
<1>6. NetTotal \in Nat
  BY <1>5, FS_CardinalityType DEF NetTotal
<1>7. prevNet = NetTotal /\ netSince = 0
  BY DEF Init
<1> QED
  BY <1>5, <1>6, <1>7 DEF NetAccounted

LEMMA UnitCarried ==
    ASSUME counter \in [Things -> Nat], NEW u \in Ifaces, NEW i \in Nat
    PROVE  <<u, i>> \in Carried <=> i > 0 /\ i <= counter[u]
<1>1. counter[u] \in Nat
  BY DEF Things
<1>2. i \in 1..counter[u] <=> i > 0 /\ i <= counter[u]
  BY <1>1
<1> QED
  BY <1>2 DEF Carried

LEMMA UnitCarriedNext ==
    ASSUME counter' \in [Things -> Nat], NEW u \in Ifaces, NEW i \in Nat
    PROVE  <<u, i>> \in Carried' <=> i > 0 /\ i <= counter'[u]
<1>1. counter'[u] \in Nat
  BY DEF Things
<1>2. i \in 1..counter'[u] <=> i > 0 /\ i <= counter'[u]
  BY <1>1
<1> QED
  BY <1>2 DEF Carried

\* What an interface carries adds one unit.
LEMMA WorkNet == ASSUME Inv, NetAccounted, NEW t \in Things, Work(t) PROVE NetAccounted'
<1>0. /\ counter \in [Things -> Nat] /\ counter' = [counter EXCEPT ![t] = @ + 1]
      /\ netSince' = (IF t \in Ifaces THEN netSince + 1 ELSE netSince)
      /\ UNCHANGED <<prevNet, netBroken>>
      /\ Ifaces \subseteq Things
  BY DEF Work, Inv, CountersOK, Things
<1>1. CASE t \in Ifaces
  <2> DEFINE unit == <<t, counter[t] + 1>>
  <2>1. Carried' = Carried \cup {unit}
    <3>1. ASSUME NEW u \in Ifaces, NEW i \in Nat
          PROVE  <<u, i>> \in Carried' <=> <<u, i>> \in Carried \/ <<u, i>> = unit
      BY <1>0, <1>1, UnitCarried, UnitCarriedNext
    <3>2. Carried \subseteq Ifaces \X Nat /\ Carried' \subseteq Ifaces \X Nat
      BY <1>0 DEF Carried
    <3>3. unit \in Ifaces \X Nat
      BY <1>0, <1>1
    <3> HIDE DEF unit
    <3> QED
      BY <3>1, <3>2, <3>3
  <2>2. unit \notin Carried
    BY <1>0, <1>1, UnitCarried
  <2>3. IsFiniteSet(Carried') /\ Cardinality(Carried') = Cardinality(Carried) + 1
    <3> HIDE DEF unit
    <3> QED
      BY <2>1, <2>2, FS_AddElement DEF NetAccounted
  <2>4. Cardinality(Carried) \in Nat
    BY FS_CardinalityType DEF NetAccounted
  <2> QED
    BY <1>0, <1>1, <2>3, <2>4 DEF NetAccounted, NetTotal
<1>2. CASE t \notin Ifaces
  <2>1. \A u \in Ifaces : counter'[u] = counter[u]
    BY <1>0, <1>2
  <2>2. Carried' = Carried
    BY <2>1 DEF Carried
  <2> QED
    BY <1>0, <1>2, <2>2 DEF NetAccounted, NetTotal
<1> QED
  BY <1>1, <1>2

LEMMA VanishNet == ASSUME Inv, NetAccounted, NEW t \in Things, Vanish(t) PROVE NetAccounted'
<1>0. /\ counter \in [Things -> Nat] /\ counter' = [counter EXCEPT ![t] = 0]
      /\ UNCHANGED <<prevNet, netSince>> /\ netBroken' = (netBroken \/ t \in Ifaces)
      /\ Ifaces \subseteq Things
  BY DEF Vanish, Inv, CountersOK, Things
<1>1. \A u \in Ifaces : 1..counter'[u] \subseteq 1..counter[u]
  BY <1>0
<1>2. Carried' = UNION {{u} \X (1..counter'[u]) : u \in Ifaces}
  BY DEF Carried
<1>3. Carried' \in SUBSET Carried
  BY <1>1, <1>2 DEF Carried
<1>4. IsFiniteSet(Carried')
  BY <1>3, FS_Subset DEF NetAccounted
<1>5. ASSUME ~netBroken' PROVE ~netBroken /\ NetTotal' = NetTotal
  <2>1. ~netBroken /\ t \notin Ifaces
    BY <1>0, <1>5
  <2>2. \A u \in Ifaces : counter'[u] = counter[u]
    BY <1>0, <2>1
  <2> QED
    BY <1>2, <2>1, <2>2 DEF Carried, NetTotal
<1> QED
  BY <1>0, <1>4, <1>5 DEF NetAccounted

LEMMA NetStep == Inv /\ NetAccounted /\ [Next]_vars => NetAccounted'
<1> SUFFICES ASSUME Inv, NetAccounted, [Next]_vars PROVE NetAccounted'
  OBVIOUS
<1>1. ASSUME NEW t \in Things, Work(t) \/ Vanish(t) PROVE NetAccounted'
  BY <1>1, WorkNet, VanishNet
<1>2. CASE ReadNet
  <2>1. /\ prevNet' \in {NetTotal, 0} /\ netSince' = 0 /\ counter' = counter
        /\ ~netBroken' => prevNet' = NetTotal
    BY <1>2 DEF ReadNet, hostVars
  <2>2. Carried' = Carried /\ NetTotal' = NetTotal
    BY <2>1 DEF NetTotal, Carried
  <2>3. NetTotal \in Nat /\ IsFiniteSet(Carried)
    BY FS_CardinalityType DEF NetAccounted, NetTotal
  <2>4. /\ IsFiniteSet(Carried')
        /\ prevNet' \in Nat /\ netSince' \in Nat
    BY <2>1, <2>2, <2>3
  <2>5. ~netBroken' => NetTotal' = prevNet' + netSince'
    BY <2>1, <2>2, <2>3
  <2> QED
    BY <2>4, <2>5 DEF NetAccounted
<1>3. CASE UNCHANGED <<counter, prevNet, netSince, netBroken>>
  BY <1>3 DEF NetAccounted, NetTotal, Carried
<1>4. \/ \E t \in Things : Work(t) \/ Vanish(t)
      \/ ReadNet
      \/ UNCHANGED <<counter, prevNet, netSince, netBroken>>
  BY DEF Next, Host, Appear, Mount, Loop, Tick, ReadProcs, ReadProcsFails, ReadIfaces,
         ReadIfacesFails, KubeletAnswers, ReadCgroups, Push, hostVars, vars
<1> QED
  BY <1>1, <1>2, <1>3, <1>4

\* HonestTotal for any interfaces and counters: without a failure the rate of the
\* network is what was carried since the last reading (readNet), modulo the width
\* of its counters.
THEOREM TotalIsHonest == Spec => HonestTotal
<1>1. NetAccounted /\ [Next]_vars =>
        [step = "net" /\ step' = "procs" /\ ~netBroken /\ ~netBroken' =>
            total' = netSince % Word]_vars
  <2> SUFFICES ASSUME NetAccounted, Next, step = "net", step' = "procs",
                      ~netBroken, ~netBroken'
               PROVE  total' = netSince % Word
    OBVIOUS
  <2>1. ReadNet
    BY DEF Next, Host, Work, Vanish, Appear, Mount, Loop, Tick, ReadProcs, ReadProcsFails, ReadIfaces,
           ReadIfacesFails, KubeletAnswers, ReadCgroups, Push
  <2>2. total' = (NetTotal - prevNet) % Word
    BY <2>1 DEF ReadNet
  <2>3. NetTotal - prevNet = netSince
    BY DEF NetAccounted
  <2> QED
    BY <2>2, <2>3
<1> QED
  BY <1>1, InitNet, NetStep, AlwaysAccounted, PTL DEF Spec, HonestTotal

------------------------------------------------------------------------------
(* Types.                                                                   *)

\* What of TypeOK is not about rates.
SampleOK ==
    /\ readable \in BOOLEAN
    /\ step \in {"idle", "net", "procs", "ifaces", "pods", "push"}
    /\ prevNet \in Nat /\ netSince \in Nat
    /\ noKubelet \in BOOLEAN
    /\ names \subseteq Pods
    /\ namesAge \in 0..(MaxAge + 1)
    /\ listed \subseteq Things
    /\ rate \in [Things -> Nat]
    /\ total \in 0..(Word - 1)
    /\ named \subseteq listed \cap Pods
    /\ stale \subseteq Things
    /\ netBroken \in BOOLEAN
    /\ {work, churn} \subseteq Nat

LEMMA DifferenceTyped == ASSUME Inv PROVE Difference \in [Things -> Nat]
<1> SUFFICES ASSUME NEW t \in Things PROVE Difference[t] \in Nat
  BY DEF Difference
<1>1. counter[t] \in Nat /\ prev[t] \in Nat
  BY DEF Inv, CountersOK
<1>2. Difference[t] = IF t \in known /\ counter[t] >= prev[t] THEN counter[t] - prev[t] ELSE 0
  BY DEF Difference, Grown
<1> QED
  BY <1>1, <1>2

LEMMA ListTyped ==
    ASSUME SampleOK, NEW S \in SUBSET Things, NEW differences \in [Things -> Nat],
           List(S, differences)
    PROVE  listed' \subseteq Things /\ rate' \in [Things -> Nat] /\ S \subseteq listed'
           /\ listed \subseteq listed'
  BY DEF SampleOK, List

LEMMA SampleStep == Inv /\ NetAccounted /\ NetAccounted' /\ SampleOK /\ [Next]_vars => SampleOK'
<1> SUFFICES ASSUME Inv, NetAccounted, NetAccounted', SampleOK, [Next]_vars PROVE SampleOK'
  OBVIOUS
<1> Procs \subseteq Things /\ Ifaces \subseteq Things /\ Pods \subseteq Things
  BY DEF Things
<1>0. prevNet' \in Nat /\ netSince' \in Nat /\ readable' \in BOOLEAN
  <2>1. readable' = readable \/ readable' = ~readable
    BY DEF Next, Host, Work, Vanish, Appear, Mount, Loop, Tick, ReadNet, ReadProcs,
           ReadProcsFails, ReadIfaces, ReadIfacesFails, KubeletAnswers, ReadCgroups, Push,
           hostVars, vars
  <2> QED
    BY <2>1 DEF NetAccounted, SampleOK
<1>1. ASSUME NEW t \in Things, Work(t) PROVE SampleOK'
  BY <1>0, <1>1 DEF SampleOK, Work, sampleVars
<1>2. ASSUME NEW t \in Things, Vanish(t) \/ Appear(t) PROVE SampleOK'
  <2>1. netBroken' = netBroken \/ netBroken' = (netBroken \/ t \in Ifaces)
    BY <1>2 DEF Vanish, Appear
  <2>2. netBroken' \in BOOLEAN
    BY <2>1 DEF SampleOK
  <2>3. /\ UNCHANGED <<step, noKubelet, names, namesAge, sampleVars, stale, work>>
        /\ churn' = churn + 1
    BY <1>2 DEF Vanish, Appear
  <2> QED
    BY <1>0, <2>2, <2>3 DEF SampleOK, sampleVars
<1>3. CASE Tick
  BY <1>0, <1>3 DEF SampleOK, Tick, sampleVars, boundVars
<1>4. CASE ReadNet
  <2>1. NetTotal \in Nat
    BY FS_CardinalityType DEF NetAccounted, NetTotal
  <2>2. PICK now \in {NetTotal, 0} : total' = (now - prevNet) % Word
    BY <1>4 DEF ReadNet
  <2>3. now - prevNet \in Int
    BY <2>1 DEF NetAccounted
  <2>4. total' \in 0..(Word - 1)
    <3>1. \A d \in Int : d % Word \in 0..(Word - 1)
      BY SamplingAssumption
    <3> QED
      BY <2>2, <2>3, <3>1
  <2>5. netBroken' \in BOOLEAN
    BY <1>4 DEF ReadNet
  <2> QED
    BY <1>0, <1>4, <2>4, <2>5 DEF SampleOK, ReadNet
<1>5. ASSUME NEW R, ReadProcs(R) PROVE SampleOK'
  <2>1. PICK S \in selectProcesses(Sampled(R)) : List(S, Difference)
    BY <1>5 DEF ReadProcs
  <2>2. Sampled(R) \subseteq Things
    BY <1>5 DEF ReadProcs, Sampled, Inv, CountersOK
  <2>3. S \subseteq Things
    BY <2>1, <2>2 DEF selectProcesses, Busiest, Largest, Firsts
  <2>4. /\ listed' \subseteq Things /\ rate' \in [Things -> Nat] /\ listed \subseteq listed'
    BY <2>1, <2>3, ListTyped, DifferenceTyped
  <2> QED
    BY <1>0, <1>5, <2>4 DEF SampleOK, ReadProcs, Keep
<1>6. CASE ReadProcsFails \/ ReadIfacesFails
  BY <1>0, <1>6 DEF SampleOK, ReadProcsFails, ReadIfacesFails, Keep, KeepOld, sampleVars, Inv,
                    CountersOK
<1>7. CASE ReadIfaces
  <2>1. /\ listed' \subseteq Things /\ rate' \in [Things -> Nat] /\ listed \subseteq listed'
    BY <1>7, ListTyped, DifferenceTyped DEF ReadIfaces
  <2> QED
    BY <1>0, <1>7, <2>1 DEF SampleOK, ReadIfaces, Keep, boundVars
<1>8. CASE KubeletAnswers
  <2>1. HostPods \subseteq Pods /\ since \in [Things -> Nat]
    BY DEF HostPods, Inv, CountersOK
  <2>2. /\ listed' \subseteq Things /\ rate' \in [Things -> Nat] /\ HostPods \subseteq listed'
    BY <1>8, <2>1, ListTyped DEF KubeletAnswers
  <2> QED
    BY <1>0, <1>8, <2>1, <2>2 DEF SampleOK, KubeletAnswers, KeepOld, boundVars
<1>9. ASSUME NEW misread, ReadCgroups(misread) PROVE SampleOK'
  <2>0. /\ HostPods \subseteq Pods /\ names \subseteq Pods
        /\ namesAge \in 0..(MaxAge + 1) /\ MaxAge \in Nat
    BY SamplingAssumption DEF HostPods, SampleOK
  <2>1. CASE UNCHANGED <<names, namesAge, listed, rate, named>> /\ KeepOld(Pods)
    BY <1>0, <1>9, <2>0, <2>1 DEF SampleOK, ReadCgroups, KeepOld
  <2>2. CASE /\ misread \subseteq HostPods
             /\ names' = IF namesAge > MaxAge THEN podLogNames ELSE names
             /\ namesAge' = IF namesAge > MaxAge THEN 0 ELSE namesAge
             /\ named' = HostPods \cap names'
             /\ List(HostPods, [t \in Things |-> IF t \in misread THEN 0 ELSE Difference[t]])
             /\ Keep(Pods, HostPods, misread)
    <3>1. [t \in Things |-> IF t \in misread THEN 0 ELSE Difference[t]] \in [Things -> Nat]
      BY DifferenceTyped
    <3>2. /\ listed' \subseteq Things /\ rate' \in [Things -> Nat] /\ HostPods \subseteq listed'
      BY <2>0, <2>2, <3>1, ListTyped
    <3>3. /\ names' \subseteq Pods /\ namesAge' \in 0..(MaxAge + 1)
          /\ named' \subseteq listed' \cap Pods
      <4>1. podLogNames \subseteq HostPods
        BY DEF podLogNames
      <4> QED
        BY <2>0, <2>2, <3>2, <4>1
    <3>4. stale' \subseteq Things
      BY <2>0, <2>2 DEF Keep, SampleOK
    <3> QED
      BY <1>0, <1>9, <3>2, <3>3, <3>4 DEF SampleOK, ReadCgroups
  <2> QED
    BY <1>9, <2>1, <2>2 DEF ReadCgroups, podsFromCgroups
<1>10. CASE Push
  <2>1. namesAge' \in 0..(MaxAge + 1)
    BY <1>10, SamplingAssumption DEF Push, SampleOK
  <2>2. 0 \in 0..(Word - 1)
    BY SamplingAssumption
  <2> QED
    BY <1>0, <1>10, <2>1, <2>2 DEF SampleOK, Push, boundVars
<1>11. CASE UNCHANGED vars
  BY <1>11 DEF SampleOK, vars
<1>12. CASE Mount
  BY <1>0, <1>12 DEF SampleOK, Mount, sampleVars
<1> QED
  BY <1>1, <1>2, <1>3, <1>4, <1>5, <1>6, <1>7, <1>8, <1>9, <1>10, <1>11, <1>12
     DEF Next, Host, Loop

\* The types of the host, of the readings that are kept and of the sample that is
\* made (metricsLoop); the total stays within the width of its counters.
THEOREM TypeCorrect == Spec => []TypeOK
<1>1. Init => SampleOK
  <2> SUFFICES ASSUME Init PROVE SampleOK
    OBVIOUS
  <2>1. /\ 0 \in 0..(Word - 1) /\ MaxAge + 1 \in 0..(MaxAge + 1)
    BY SamplingAssumption
  <2>2. prevNet \in Nat /\ netSince \in Nat
    BY InitNet DEF NetAccounted
  <2> QED
    BY <2>1, <2>2 DEF Init, SampleOK, Things
<1>2. Inv /\ SampleOK => TypeOK
  BY DEF Inv, CountersOK, SampleOK, TypeOK
<1> QED
  BY <1>1, <1>2, InitNet, NetStep, AlwaysAccounted, SampleStep, PTL DEF Spec
================================================================================
