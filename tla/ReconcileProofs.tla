---------------------------- MODULE ReconcileProofs ----------------------------
(***************************************************************************)
(* For any modules, desired states, deaths and failures: the types, that   *)
(* nothing is called applied that never ran, and that modules run once and *)
(* leave nothing over.                                                     *)
(*                                                                         *)
(* NothingClaimedUnrun speaks of the file and of the report.  What is      *)
(* inductive is that no copy says more, those of the two loops included    *)
(* (Claimed): either loop may write its copy over the other's at any time, *)
(* and reports it afterwards.                                              *)
(*                                                                         *)
(* RunsOnce counts runs against what may repeat them.  What is inductive   *)
(* is an account of it at each place of a loop (Single) and, while both    *)
(* reconcile, of the runs each may still make (Both).                      *)
(*                                                                         *)
(* NoOrphanDirs holds of one loop at a time and speaks of no file in       *)
(* between; what is inductive is where what is unpacked is accounted for   *)
(* at each place of the loop (Alone).                                      *)
(***************************************************************************)
EXTENDS Reconcile, TLAPS

\* A loop that reconciles has a revision there is, and one that runs a module works.
Started ==
    \A l \in Loops :
        /\ pc[l] # "idle" => ds[l] \in 1..Len(wanted)
        /\ running[l] # NoKey => pc[l] = "work"

IType == TypeOK /\ Started

Claimed ==
    /\ NothingClaimedUnrun
    /\ \A l \in Loops : \A k \in Keys : applied[l][k] = "applied" => k \in ran

LEMMA InitType == Init => IType
<1> SUFFICES ASSUME Init PROVE IType
  OBVIOUS
<1>1. PICK first \in Desired : wanted = <<first>>
  BY DEF Init
<1>2. wanted \in Seq(Desired) /\ Len(wanted) = 1
  BY <1>1
<1> QED
  BY <1>2, ReconcileAssumption DEF Init, IType, TypeOK, Started, States, Nothing, Places, MaxRuns

LEMMA StartKeepsType ==
    ASSUME IType, NEW l \in Loops, NEW rev \in 1..Len(wanted), Start(l, rev),
           seen' \in rev..Len(wanted), seen' >= seen, lastDesired' \in 0..seen'
    PROVE  IType'
<1> USE DEF IType, TypeOK, Started, Start, serverVars, diskVars
<1>1. Len(wanted) \in Nat /\ seen \in Nat /\ seen' \in Nat
  OBVIOUS
<1>2. pc' \in [Loops -> Places]
  BY DEF Places
<1>3. ds' \in [Loops -> 0..seen']
  BY <1>1
<1>4. reported'.rev \in 0..seen' /\ seen' \in 0..Len(wanted')
  BY <1>1
<1>5. Started'
  BY <1>1
<1>6. overlaps' \in 0..MaxOverlaps
  BY ReconcileAssumption
<1> QED
  BY <1>2, <1>3, <1>4, <1>5, <1>6

Counts ==
    /\ overlaps \in Nat /\ overlaps <= MaxOverlaps
    /\ lapses \in Nat /\ crashes \in Nat

LEMMA CountsTyped ==
    ASSUME IType
    PROVE  /\ Counts /\ Repeats \in Nat /\ MaxRuns \in Nat /\ MaxOverlaps \in Nat
           /\ done \in [Keys -> Nat]
<1>1. Counts /\ MaxOverlaps \in Nat
  BY ReconcileAssumption DEF IType, TypeOK, Counts
<1>2. Repeats \in Nat /\ MaxRuns \in Nat
  BY <1>1 DEF Counts, Repeats, MaxRuns
<1>3. done \in [Keys -> 0..MaxRuns]
  BY DEF IType, TypeOK
<1> QED
  BY <1>1, <1>2, <1>3

\* The same in the next state.
LEMMA CountsTypedNext ==
    ASSUME IType'
    PROVE  /\ overlaps' \in Nat /\ crashes' \in Nat /\ lapses' \in Nat
           /\ Repeats' \in Nat /\ done' \in [Keys -> Nat]
<1>1. /\ overlaps' \in 0..MaxOverlaps /\ crashes' \in Nat /\ lapses' \in Nat
      /\ done' \in [Keys -> 0..MaxRuns]
  BY DEF IType, TypeOK
<1>2. MaxOverlaps \in Nat /\ MaxRuns \in Nat
  BY ReconcileAssumption DEF MaxRuns
<1>3. 0..MaxOverlaps \subseteq Nat /\ 0..MaxRuns \subseteq Nat
  BY <1>2
<1>4. overlaps' \in Nat /\ done' \in [Keys -> Nat]
  BY <1>1, <1>3
<1>5. \A a, b, c \in Nat : 2 * a + b + c \in Nat
  OBVIOUS
<1>6. Repeats' = 2 * overlaps' + crashes' + lapses'
  BY DEF Repeats
<1>7. Repeats' \in Nat
  BY <1>1, <1>4, <1>5, <1>6
<1> QED
  BY <1>1, <1>4, <1>7

LEMMA NoneCounted ==
    ASSUME IType', Repeats' = 0 PROVE overlaps' = 0 /\ crashes' = 0 /\ lapses' = 0
<1>1. \A a, b, c \in Nat : 2 * a + b + c = 0 => a = 0 /\ b = 0 /\ c = 0
  OBVIOUS
<1>2. 2 * overlaps' + crashes' + lapses' = 0
  BY DEF Repeats
<1> QED
  BY <1>1, <1>2, CountsTypedNext

LEMMA NextCounts ==
    ASSUME Counts, NEW l \in Loops, Reconcile(l) PROVE Counts'
<1> USE DEF Counts, obsVars, Fail
<1>1. CASE Load(l) \/ LoadFails(l)
  BY <1>1 DEF Load, LoadFails, Loaded, Lapse
<1>2. CASE \E k \in Keys : Unpack(l, k) \/ DownloadFails(l, k)
  BY <1>2 DEF Unpack, DownloadFails
<1>3. CASE \E k \in Keys : Forget(l, k) \/ RemoveFails(l, k)
  BY <1>3 DEF Forget, RemoveFails, Forgotten
<1>4. CASE Run(l) \/ RunFails(l)
  BY <1>4 DEF Run, RunFails
<1>5. CASE Truncate(l) \/ Write(l)
  BY <1>5 DEF Truncate, Write
<1>6. CASE SaveFails(l) \/ WriteFails(l)
  BY <1>6 DEF SaveFails, WriteFails, Lapse
<1>7. CASE Report(l) \/ ReportLost(l)
  BY <1>7 DEF Report, ReportLost, Finish
<1> QED
  BY <1>1, <1>2, <1>3, <1>4, <1>5, <1>6, <1>7 DEF Reconcile

LEMMA NextType == IType /\ [Next]_vars => IType'
<1> SUFFICES ASSUME IType, [Next]_vars PROVE IType'
  OBVIOUS
<1> USE ReconcileAssumption
<1>0. Len(wanted) \in Nat /\ seen \in Nat /\ seen <= Len(wanted)
  BY DEF IType, TypeOK
<1>1. CASE UNCHANGED vars
  BY <1>1 DEF IType, TypeOK, Started, vars
<1>2. CASE Change
  <2>1. PICK s \in Desired : wanted' = Append(wanted, s)
    BY <1>2 DEF Change
  <2>2. wanted' \in Seq(Desired) /\ Len(wanted') = Len(wanted) + 1
    BY <2>1 DEF IType, TypeOK
  <2>3. 0..Len(wanted) \subseteq 0..Len(wanted') /\ 1..Len(wanted) \subseteq 1..Len(wanted')
    BY <2>2, <1>0
  <2> QED
    BY <1>2, <2>2, <2>3 DEF Change, IType, TypeOK, Started, diskVars, loopVars, obsVars
<1>3. CASE \E rev \in 1..Len(wanted) : Receive(rev)
  <2>1. PICK rev \in 1..Len(wanted) : Receive(rev)
    BY <1>3
  <2>2. Start("stream", rev) /\ seen' = rev /\ lastDesired' = rev /\ rev >= seen
    BY <2>1 DEF Receive
  <2>3. seen' \in rev..Len(wanted) /\ seen' >= seen /\ lastDesired' \in 0..seen'
    BY <2>2, <1>0
  <2> QED
    BY <2>2, <2>3, StartKeepsType
<1>4. CASE Retry
  <2>1. Start("retry", lastDesired) /\ "retry" \in Loops
    BY <1>4 DEF Retry
  <2>2. lastDesired \in 1..seen /\ UNCHANGED <<lastDesired, seen>>
    BY <1>4, <1>0 DEF Retry, IType, TypeOK
  <2>3. lastDesired \in 1..Len(wanted) /\ seen' \in lastDesired..Len(wanted)
        /\ seen' >= seen /\ lastDesired' \in 0..seen'
    BY <2>2, <1>0
  <2> QED
    BY <2>1, <2>3, StartKeepsType
<1>5. ASSUME NEW l \in Loops, Reconcile(l) PROVE IType'
  <2> USE DEF serverVars, diskVars, obsVars
  <2>a. Counts'
    BY <1>5, CountsTyped, NextCounts
  <2>b. overlaps' \in 0..MaxOverlaps /\ lapses' \in Nat /\ crashes' \in Nat
    BY <2>a DEF Counts
  <2>c. /\ pc \in [Loops -> Places] /\ ds \in [Loops -> 0..seen]
        /\ applied \in [Loops -> [Keys -> States]] /\ todo \in [Loops -> SUBSET Keys]
        /\ running \in [Loops -> Keys \cup {NoKey}]
        /\ file \in [Keys -> States] /\ wanted \in Seq(Desired)
        /\ done \in [Keys -> 0..MaxRuns]
        /\ \A j \in Loops : running[j] \in todo[j] \cup {NoKey}
        /\ \A j \in Loops : pc[j] # "idle" => ds[j] \in 1..Len(wanted)
        /\ \A j \in Loops : running[j] # NoKey => pc[j] = "work"
    BY DEF IType, TypeOK, Started
  <2>d. 0 \in 0..MaxRuns /\ Nothing \in [Keys -> States]
    BY CountsTyped DEF Nothing, States
  \* What concerns loop l, and what nothing but a report changes.
  <2>e. ASSUME UNCHANGED <<wanted, reported, lastDesired, seen>>,
               file' \in [Keys -> States], dirs' \subseteq {Dir[k] : k \in Keys},
               pc' \in [Loops -> Places], ds' = ds,
               applied' \in [Loops -> [Keys -> States]], todo' \in [Loops -> SUBSET Keys],
               running' \in [Loops -> Keys \cup {NoKey}],
               \A j \in Loops : running'[j] \in todo'[j] \cup {NoKey},
               \A j \in Loops : running'[j] # NoKey => pc'[j] = "work",
               \A j \in Loops : pc'[j] # "idle" => pc[j] # "idle",
               done' \in [Keys -> 0..MaxRuns], ran' \subseteq Keys
        PROVE  IType'
    <3>1. TypeOK'
      BY <2>b, <2>e DEF IType, TypeOK
    <3>2. Started'
      BY <2>c, <2>e DEF Started
    <3> QED
      BY <3>1, <3>2 DEF IType
  <2>f. ran \subseteq Keys /\ dirs \subseteq {Dir[k] : k \in Keys}
    BY DEF IType, TypeOK
  <2>0. ASSUME NEW states \in [Keys -> States], Loaded(l, states) PROVE IType'
    <3>1. wanted[ds[l]] \in Desired
      <4>1. ds[l] \in 1..Len(wanted)
        BY <2>0, <2>c DEF Loaded
      <4> QED
        BY <2>c, <4>1
    <3>2. {k \in wanted[ds[l]] : states[k] # "applied"} \in SUBSET Keys
      BY <3>1
    <3>3. /\ pc[l] = "load" /\ running[l] = NoKey
          /\ pc' = [pc EXCEPT ![l] = "work"] /\ pc' \in [Loops -> Places]
          /\ applied' \in [Loops -> [Keys -> States]] /\ todo' \in [Loops -> SUBSET Keys]
          /\ \A j \in Loops : running[j] \in todo'[j] \cup {NoKey}
      BY <2>0, <2>c, <3>2 DEF Loaded, Places
    <3>4. UNCHANGED <<wanted, reported, lastDesired, seen, file, dirs, ds, running, done, ran>>
      BY <2>0 DEF Loaded
    <3> QED
      BY <2>c, <2>e, <2>f, <3>3, <3>4
  <2>1. CASE Load(l) \/ LoadFails(l)
    BY <2>0, <2>1, <2>c, <2>d DEF Load, LoadFails
  <2>2. ASSUME NEW k \in Keys, Unpack(l, k) PROVE IType'
    <3>0. pc[l] = "work" /\ k \in todo[l] /\ dirs' = dirs \cup {Dir[k]}
          /\ running' = [running EXCEPT ![l] = k]
      BY <2>2 DEF Unpack
    <3>1. /\ dirs' \subseteq {Dir[j] : j \in Keys}
          /\ running' \in [Loops -> Keys \cup {NoKey}]
      BY <2>c, <2>f, <3>0
    <3>3. /\ \A j \in Loops : running'[j] \in todo[j] \cup {NoKey}
          /\ \A j \in Loops : running'[j] # NoKey => pc[j] = "work"
      BY <2>c, <3>0
    <3>2. UNCHANGED <<wanted, reported, lastDesired, seen, file, pc, ds, applied, todo, done, ran>>
      BY <2>2 DEF Unpack
    <3> QED
      BY <2>c, <2>e, <2>f, <3>1, <3>2, <3>3
  <2>3. ASSUME NEW k \in Keys, NEW state \in States, Handled(l, k, state)
        PROVE  /\ applied' \in [Loops -> [Keys -> States]] /\ todo' \in [Loops -> SUBSET Keys]
               /\ running' \in [Loops -> Keys \cup {NoKey}]
               /\ running'[l] = NoKey /\ \A j \in Loops \ {l} : running'[j] = running[j]
               /\ \A j \in Loops : running'[j] \in todo'[j] \cup {NoKey}
               /\ \A j \in Loops : running'[j] # NoKey => pc[j] = "work"
    BY <2>3, <2>c DEF Handled
  <2>4. ASSUME NEW k \in Keys, DownloadFails(l, k) PROVE IType'
    <3>1. Handled(l, k, "failed") /\ "failed" \in States /\ dirs' \subseteq {Dir[j] : j \in Keys}
      BY <2>4, <2>f DEF DownloadFails, States
    <3>2. UNCHANGED <<wanted, reported, lastDesired, seen, file, pc, ds, done, ran>>
      BY <2>4 DEF DownloadFails
    <3> QED
      BY <2>3, <2>c, <2>e, <2>f, <3>1, <3>2
  <2>5. ASSUME NEW k \in Keys, Forget(l, k) \/ RemoveFails(l, k) PROVE IType'
    <3>1. /\ applied' \in [Loops -> [Keys -> States]] /\ done' \in [Keys -> 0..MaxRuns]
          /\ dirs' \subseteq {Dir[j] : j \in Keys}
      <4>1. /\ applied' = [applied EXCEPT ![l][k] = "none"] /\ done' = [done EXCEPT ![k] = 0]
            /\ dirs' \subseteq dirs
        BY <2>5 DEF Forget, RemoveFails, Forgotten
      <4>2. applied' \in [Loops -> [Keys -> States]]
        BY <2>c, <4>1 DEF States
      <4> QED
        BY <2>c, <2>d, <2>f, <4>1, <4>2
    <3>2. UNCHANGED <<wanted, reported, lastDesired, seen, file, pc, ds, todo, running, ran>>
      BY <2>5 DEF Forget, RemoveFails, Forgotten
    <3> QED
      BY <2>c, <2>e, <2>f, <3>1, <3>2
  <2>6. CASE Run(l)
    <3>1. /\ running[l] \in Keys /\ Handled(l, running[l], "applied") /\ "applied" \in States
      BY <2>6, <2>c DEF Run, States
    <3>2. done' \in [Keys -> 0..MaxRuns] /\ ran' \subseteq Keys
      BY <2>6, <2>c, <2>f, <3>1, CountsTyped DEF Run
    <3>3. UNCHANGED <<wanted, reported, lastDesired, seen, file, dirs, pc, ds>>
      BY <2>6 DEF Run
    <3> QED
      BY <2>3, <2>c, <2>e, <2>f, <3>1, <3>2, <3>3
  <2>7. CASE RunFails(l)
    <3>1. /\ running[l] \in Keys /\ Handled(l, running[l], "failed") /\ "failed" \in States
      BY <2>7, <2>c DEF RunFails, States
    <3>2. UNCHANGED <<wanted, reported, lastDesired, seen, file, dirs, pc, ds, done, ran>>
      BY <2>7 DEF RunFails
    <3> QED
      BY <2>3, <2>c, <2>e, <2>f, <3>1, <3>2
  <2>8. CASE Truncate(l) \/ Write(l) \/ SaveFails(l) \/ WriteFails(l)
    <3>1. file' \in [Keys -> States]
      BY <2>8, <2>c, <2>d DEF Truncate, Write, SaveFails, WriteFails
    <3>2. /\ pc' = [pc EXCEPT ![l] = "write"] \/ pc' = [pc EXCEPT ![l] = "report"]
          /\ pc[l] = "write" \/ (pc[l] = "work" /\ todo[l] = {})
      BY <2>8 DEF Truncate, Write, SaveFails, WriteFails, Converged
    <3>3. /\ pc' \in [Loops -> Places] /\ running[l] = NoKey
          /\ \A j \in Loops : running[j] # NoKey => pc'[j] = "work"
          /\ \A j \in Loops : pc'[j] # "idle" => pc[j] # "idle"
      BY <2>c, <3>2 DEF Places
    <3>4. UNCHANGED <<wanted, reported, lastDesired, seen, dirs, ds, applied, todo, running,
                      done, ran>>
      BY <2>8 DEF Truncate, Write, SaveFails, WriteFails
    <3> QED
      BY <2>c, <2>e, <2>f, <3>1, <3>3, <3>4
  <2>9. CASE Report(l) \/ ReportLost(l)
    <3>1. /\ pc[l] = "report" /\ pc' = [pc EXCEPT ![l] = "idle"]
          /\ ds' = [ds EXCEPT ![l] = 0] /\ applied' = [applied EXCEPT ![l] = Nothing]
          /\ UNCHANGED <<wanted, file, dirs, lastDesired, todo, running, seen, done, ran>>
      BY <2>9 DEF Report, ReportLost, Finish
    <3>2. /\ pc' \in [Loops -> Places] /\ ds' \in [Loops -> 0..seen]
          /\ applied' \in [Loops -> [Keys -> States]]
      BY <1>0, <2>c, <2>d, <3>1 DEF Places
    <3>3. reported' = reported \/ reported' = [rev |-> ds[l], states |-> applied[l]]
      BY <2>9 DEF Report, ReportLost
    <3>4. reported'.rev \in 0..seen /\ reported'.states \in [Keys -> States]
      <4>1. /\ reported.rev \in 0..seen /\ reported.states \in [Keys -> States]
            /\ ds[l] \in 0..seen /\ applied[l] \in [Keys -> States]
        BY DEF IType, TypeOK
      <4> QED
        BY <3>3, <4>1
    <3>5. TypeOK'
      BY <2>b, <3>1, <3>2, <3>4 DEF IType, TypeOK
    <3>6. \A j \in Loops : pc'[j] # "idle" => j # l /\ pc'[j] = pc[j] /\ ds'[j] = ds[j]
      BY <2>c, <3>1
    <3>7. Started'
      BY <2>c, <3>1, <3>6 DEF Started
    <3> QED
      BY <3>5, <3>7 DEF IType
  <2> QED
    BY <1>5, <2>1, <2>2, <2>4, <2>5, <2>6, <2>7, <2>8, <2>9 DEF Reconcile
<1>6. CASE Crash
  BY <1>6, <1>0 DEF Crash, IType, TypeOK, Started, Nothing, States, Places,
                    serverVars, diskVars, obsVars
<1> QED
  BY <1>1, <1>2, <1>3, <1>4, <1>5, <1>6 DEF Next

LEMMA InitClaimed == Init => Claimed
  BY DEF Init, Claimed, NothingClaimedUnrun, Nothing

LEMMA NextClaimed == IType /\ Claimed /\ [Next]_vars => Claimed'
<1> SUFFICES ASSUME IType, Claimed, [Next]_vars PROVE Claimed'
  OBVIOUS
<1> USE DEF Claimed, NothingClaimedUnrun, serverVars, diskVars, loopVars, obsVars
<1>1. CASE UNCHANGED vars
  BY <1>1 DEF vars
<1>2. CASE Change
  BY <1>2 DEF Change
<1>3. CASE \E rev \in 1..Len(wanted) : Receive(rev)
  BY <1>3 DEF Receive, Start
<1>4. CASE Retry
  BY <1>4 DEF Retry, Start
<1>5. ASSUME NEW l \in Loops, Reconcile(l) PROVE Claimed'
  <2>0. applied \in [Loops -> [Keys -> States]] /\ running \in [Loops -> Keys \cup {NoKey}]
    BY DEF IType, TypeOK
  <2>1. CASE Load(l) \/ LoadFails(l)
    BY <2>0, <2>1 DEF Load, LoadFails, Loaded, Nothing
  <2>2. ASSUME NEW k \in Keys, Unpack(l, k) PROVE Claimed'
    BY <2>2 DEF Unpack
  <2>3. ASSUME NEW k \in Keys, DownloadFails(l, k) PROVE Claimed'
    BY <2>0, <2>3 DEF DownloadFails, Handled
  <2>4. ASSUME NEW k \in Keys, Forget(l, k) \/ RemoveFails(l, k) PROVE Claimed'
    BY <2>0, <2>4 DEF Forget, RemoveFails, Forgotten
  <2>5. CASE Run(l)
    BY <2>0, <2>5 DEF Run, Handled
  <2>6. CASE RunFails(l)
    BY <2>0, <2>6 DEF RunFails, Handled
  <2>7. CASE Truncate(l)
    BY <2>7 DEF Truncate, Nothing
  <2>8. CASE Write(l) \/ WriteFails(l)
    BY <2>8 DEF Write, WriteFails, Nothing
  <2>9. CASE Report(l)
    BY <2>0, <2>9 DEF Report, Finish, Nothing
  <2>10. CASE ReportLost(l)
    BY <2>0, <2>10 DEF ReportLost, Finish, Nothing
  <2>11. CASE SaveFails(l)
    BY <2>11 DEF SaveFails
  <2> QED
    BY <1>5, <2>1, <2>2, <2>3, <2>4, <2>5, <2>6, <2>7, <2>8, <2>9, <2>10, <2>11 DEF Reconcile
<1>6. CASE Crash
  BY <1>6 DEF Crash, Nothing
<1> QED
  BY <1>1, <1>2, <1>3, <1>4, <1>5, <1>6 DEF Next

LEMMA Inductive == Spec => [](IType /\ Claimed)
<1>1. Init => IType /\ Claimed
  BY InitType, InitClaimed
<1>2. IType /\ Claimed /\ [Next]_vars => (IType /\ Claimed)'
  BY NextType, NextClaimed
<1> QED
  BY <1>1, <1>2, PTL DEF Spec

\* The state of the two loops and of the disk is well typed, and a loop that
\* runs a module has it on its list (reconcile, apply).
THEOREM TypeCorrect == Spec => []TypeOK
<1>1. IType => TypeOK
  BY DEF IType
<1> QED
  BY <1>1, Inductive, PTL

\* NothingClaimedUnrun for any modules and desired states, however the loops
\* overlap and whenever the agent dies (reconcile, loadApplied, saveApplied).
THEOREM NothingIsClaimedUnrun == Spec => []NothingClaimedUnrun
<1>1. Claimed => NothingClaimedUnrun
  BY DEF Claimed
<1> QED
  BY <1>1, Inductive, PTL

------------------------------------------------------------------------------
(* Runs and what may repeat them.                                           *)

Rec(states, k) == IF states[k] = "applied" THEN 1 ELSE 0

\* The runs of k that loop l may still make.
Left(l, k) == IF pc[l] = "load" \/ (pc[l] = "work" /\ k \in todo[l]) THEN 1 ELSE 0

\* What is recorded of k, where the only loop that may be reconciling has it.
Recorded(l, k) ==
    IF pc[l] = "work" THEN Rec(applied[l], k)
    ELSE IF pc[l] # "write" THEN Rec(file, k)
    ELSE IF file = Nothing THEN Rec(applied[l], k) ELSE 0

Single(l, k) ==
    (\A j \in Loops \ {l} : pc[j] = "idle") => done[k] <= Repeats + Recorded(l, k)

\* Before either loop has read the file, a record in it spares one of the runs.
Both(l, j, k) ==
    l # j /\ pc[l] # "idle" /\ pc[j] # "idle" =>
        done[k] + Left(l, k) + Left(j, k)
            <= Repeats + (IF pc[l] = "load" /\ pc[j] = "load" THEN Rec(file, k) ELSE 0)

\* What a loop has still to run is not recorded in its copy.
NotDone == \A l \in Loops : pc[l] = "work" => \A k \in todo[l] : applied[l][k] # "applied"

Owed(k) ==
    overlaps < MaxOverlaps => \A l \in Loops : Single(l, k) /\ \A j \in Loops : Both(l, j, k)

LEMMA InitOwed == ASSUME Init PROVE NotDone /\ \A k \in Keys : Owed(k)
  BY ReconcileAssumption
     DEF Init, NotDone, Owed, Single, Both, Recorded, Rec, Repeats, Nothing

LEMMA NextNotDone == IType /\ NotDone /\ [Next]_vars => NotDone'
<1> SUFFICES ASSUME IType, NotDone, [Next]_vars PROVE NotDone'
  OBVIOUS
<1>0. /\ pc \in [Loops -> Places] /\ applied \in [Loops -> [Keys -> States]]
      /\ todo \in [Loops -> SUBSET Keys] /\ running \in [Loops -> Keys \cup {NoKey}]
  BY DEF IType, TypeOK
<1>1. CASE UNCHANGED vars
  BY <1>1 DEF vars, NotDone
<1>2. CASE Change \/ Crash
  BY <1>2 DEF Change, Crash, loopVars, NotDone
<1>3. ASSUME NEW l \in Loops, NEW rev, Start(l, rev) PROVE NotDone'
  BY <1>0, <1>3 DEF Start, NotDone
<1>4. ASSUME NEW l \in Loops, Reconcile(l) PROVE NotDone'
  <2>1. CASE Load(l) \/ LoadFails(l)
    BY <1>0, <2>1 DEF Load, LoadFails, Loaded, NotDone
  <2>2. ASSUME NEW k \in Keys, Unpack(l, k) PROVE NotDone'
    BY <2>2 DEF Unpack, NotDone
  <2>3. ASSUME NEW k \in Keys, NEW state, Handled(l, k, state), UNCHANGED pc PROVE NotDone'
    BY <1>0, <2>3 DEF Handled, NotDone
  <2>4. CASE Run(l) \/ RunFails(l) \/ \E k \in Keys : DownloadFails(l, k)
    BY <1>0, <2>3, <2>4 DEF Run, RunFails, DownloadFails
  <2>5. ASSUME NEW k \in Keys, Forget(l, k) \/ RemoveFails(l, k) PROVE NotDone'
    BY <1>0, <2>5 DEF Forget, RemoveFails, Forgotten, NotDone
  <2>6. CASE Truncate(l) \/ Write(l) \/ SaveFails(l) \/ WriteFails(l)
    BY <1>0, <2>6 DEF Truncate, Write, SaveFails, WriteFails, NotDone
  <2>7. CASE Report(l) \/ ReportLost(l)
    BY <1>0, <2>7 DEF Report, ReportLost, Finish, NotDone
  <2> QED
    BY <1>4, <2>1, <2>2, <2>4, <2>5, <2>6, <2>7 DEF Reconcile
<1> QED
  BY <1>1, <1>2, <1>3, <1>4, ReconcileAssumption DEF Next, Receive, Retry

\* Of two loops, all but l are idle or both are reconciling.
LEMMA OneOrBoth ==
    ASSUME NEW l \in Loops
    PROVE  \/ \A j \in Loops \ {l} : pc[j] = "idle"
           \/ \E j \in Loops \ {l} : Loops = {l, j} /\ pc[j] # "idle"
<1>1. ASSUME NEW j \in Loops \ {l} PROVE Loops = {l, j}
  <2>1. Loops \subseteq {"stream", "retry"}
    BY ReconcileAssumption
  <2>2. \A i \in Loops : i = l \/ i = j
    BY <2>1
  <2> QED
    BY <2>2
<1> QED
  BY <1>1

\* While l reconciles, its account is that of Owed.
LEMMA AfterReconcile ==
    ASSUME IType', NEW l \in Loops, NEW k \in Keys, pc'[l] # "idle",
           Single(l, k)', \A j \in Loops : Both(l, j, k)'
    PROVE  Owed(k)'
<1>1. done'[k] \in Nat /\ Repeats' \in Nat
  BY CountsTypedNext
<1>2. \A j \in Loops : Left(j, k)' \in {0, 1} /\ Rec(file, k)' \in {0, 1}
  BY DEF Left, Rec
<1>3. \A j \in Loops : Both(j, l, k)'
  BY <1>1, <1>2 DEF Both
<1>4. \A j \in Loops \ {l} : Single(j, k)'
  BY DEF Single
<1>5. \A i, j \in Loops : i = l \/ j = l \/ i = j
  BY ReconcileAssumption
<1>6. \A j \in Loops : Both(j, j, k)'
  BY DEF Both
<1> QED
  BY <1>3, <1>4, <1>5, <1>6 DEF Owed

\* Before its last step, a reconcile pays for every run it makes or loses.
LEMMA Pays ==
    ASSUME IType, IType', NotDone, NEW k \in Keys, NEW l \in Loops, Reconcile(l),
           ~Report(l), ~ReportLost(l)
    PROVE  /\ pc'[l] \notin {"idle", "load"}
           /\ done'[k] + Left(l, k)' + Repeats
                 + (IF pc[l] = "load" THEN Rec(file, k) ELSE 0)
              <= done[k] + Left(l, k) + Repeats'
           /\ done[k] <= Repeats + Recorded(l, k) => done'[k] <= Repeats' + Recorded(l, k)'
<1>0. /\ file \in [Keys -> States] /\ applied \in [Loops -> [Keys -> States]]
      /\ pc \in [Loops -> Places] /\ todo \in [Loops -> SUBSET Keys]
      /\ running \in [Loops -> Keys \cup {NoKey}]
      /\ NoKey \notin Keys /\ (running[l] # NoKey => pc[l] = "work" /\ running[l] \in todo[l])
  BY ReconcileAssumption DEF IType, TypeOK, Started
<1>1. /\ Repeats \in Nat /\ Repeats' \in Nat
      /\ overlaps \in Nat /\ crashes \in Nat /\ lapses \in Nat
      /\ done \in [Keys -> Nat] /\ done' \in [Keys -> Nat]
  BY CountsTyped, CountsTypedNext DEF Counts
<1>2. Lapse /\ UNCHANGED <<overlaps, crashes>> => Repeats' = Repeats + 1
  BY <1>1 DEF Lapse, Repeats
<1>3. UNCHANGED <<overlaps, crashes, lapses>> => Repeats' = Repeats
  BY DEF Repeats
<1>4. /\ \A x \in [Keys -> States] : Rec(x, k) \in {0, 1}
      /\ Left(l, k) \in {0, 1} /\ Left(l, k)' \in {0, 1}
      /\ Recorded(l, k) \in {0, 1} /\ Recorded(l, k)' \in {0, 1}
  BY DEF Rec, Left, Recorded
<1>5. ASSUME NEW states \in [Keys -> States], Loaded(l, states)
      PROVE  /\ pc[l] = "load" /\ pc'[l] = "work" /\ done' = done /\ UNCHANGED <<overlaps, crashes>>
             /\ Left(l, k) = 1 /\ Left(l, k)' + Rec(states, k) <= 1
             /\ Recorded(l, k) = Rec(file, k) /\ Recorded(l, k)' = Rec(states, k)
  <2>1. /\ pc[l] = "load" /\ pc'[l] = "work" /\ done' = done /\ UNCHANGED <<overlaps, crashes>>
        /\ applied'[l] = states
        /\ todo'[l] = {j \in wanted[ds[l]] : states[j] # "applied"}
    BY <1>0, <1>5 DEF Loaded
  <2> QED
    BY <2>1 DEF Left, Recorded, Rec
<1>6. CASE Load(l)
  BY <1>0, <1>1, <1>3, <1>4, <1>5, <1>6 DEF Load
<1>7. CASE LoadFails(l)
  <2>1. Nothing \in [Keys -> States] /\ Rec(Nothing, k) = 0
    BY DEF Nothing, States, Rec
  <2>2. Repeats' = Repeats + 1
    BY <1>2, <1>5, <1>7, <2>1 DEF LoadFails
  <2> QED
    BY <1>0, <1>1, <1>4, <1>5, <1>7, <2>1, <2>2 DEF LoadFails
<1>8. ASSUME NEW i \in Keys, Unpack(l, i)
      PROVE  /\ pc[l] = "work" /\ pc'[l] = "work" /\ done' = done /\ Repeats' = Repeats
             /\ Left(l, k)' = Left(l, k) /\ Recorded(l, k)' = Recorded(l, k)
  <2>1. UNCHANGED <<overlaps, crashes, lapses, pc, applied, todo, done>> /\ pc[l] = "work"
    BY <1>8 DEF Unpack, obsVars
  <2> QED
    BY <1>3, <2>1 DEF Left, Recorded, Rec
<1>9. ASSUME NEW i \in todo[l], pc[l] = "work", NEW state \in States, Handled(l, i, state),
             UNCHANGED <<pc, overlaps, crashes, lapses>>
      PROVE  /\ pc'[l] = "work" /\ Repeats' = Repeats
             /\ i = k => /\ Left(l, k) = 1 /\ Left(l, k)' = 0
                         /\ Recorded(l, k) = 0 /\ Recorded(l, k)' = IF state = "applied" THEN 1 ELSE 0
             /\ i # k => Left(l, k)' = Left(l, k) /\ Recorded(l, k)' = Recorded(l, k)
  <2>1. /\ applied'[l] = [applied[l] EXCEPT ![i] = state] /\ todo'[l] = todo[l] \ {i}
    BY <1>0, <1>9 DEF Handled
  <2>2. applied[l][i] # "applied"
    BY <1>9 DEF NotDone
  <2> QED
    BY <1>0, <1>3, <1>9, <2>1, <2>2 DEF Left, Recorded, Rec
<1>10. CASE Run(l)
  <2>1. /\ running[l] \in todo[l] /\ pc[l] = "work" /\ Handled(l, running[l], "applied")
        /\ UNCHANGED <<pc, overlaps, crashes, lapses>>
        /\ running[l] # k => done'[k] = done[k]
        /\ done'[k] <= done[k] + 1
    BY <1>0, <1>1, <1>10, CountsTyped DEF Run
  <2>2. "applied" \in States
    BY DEF States
  <2> QED
    BY <1>0, <1>1, <1>4, <1>9, <2>1, <2>2
<1>11. CASE RunFails(l) \/ \E i \in Keys : DownloadFails(l, i)
  <2>1. \E i \in todo[l] : Handled(l, i, "failed")
    BY <1>0, <1>11 DEF RunFails, DownloadFails
  <2>2. /\ pc[l] = "work" /\ UNCHANGED <<pc, overlaps, crashes, lapses, done>>
    BY <1>0, <1>11 DEF RunFails, DownloadFails, obsVars
  <2>3. "failed" \in States
    BY DEF States
  <2> QED
    BY <1>0, <1>1, <1>4, <1>9, <2>1, <2>2, <2>3
<1>12. ASSUME NEW i \in Keys, Forget(l, i) \/ RemoveFails(l, i)
       PROVE  /\ pc[l] = "work" /\ pc'[l] = "work" /\ Repeats' = Repeats
              /\ Left(l, k) = 0 /\ Left(l, k)' = 0
              /\ i = k => done'[k] = 0
              /\ i # k => done'[k] = done[k] /\ Recorded(l, k)' = Recorded(l, k)
  <2>1. /\ pc[l] = "work" /\ todo[l] = {} /\ UNCHANGED <<pc, todo, overlaps, crashes, lapses>>
        /\ applied'[l] = [applied[l] EXCEPT ![i] = "none"]
        /\ done' = [done EXCEPT ![i] = 0]
    BY <1>0, <1>12 DEF Forget, RemoveFails, Forgotten, Converged
  <2>2. Repeats' = Repeats
    BY <1>3, <2>1
  <2>3. pc'[l] = "work" /\ Left(l, k) = 0 /\ Left(l, k)' = 0
    BY <2>1 DEF Left
  <2>4. i = k => done'[k] = 0
    BY <1>1, <2>1
  <2>5. i # k => done'[k] = done[k] /\ applied'[l][k] = applied[l][k]
    BY <1>0, <1>1, <2>1
  <2>6. i # k => Recorded(l, k)' = Recorded(l, k)
    BY <2>1, <2>3, <2>5 DEF Recorded, Rec
  <2> QED
    BY <2>1, <2>2, <2>3, <2>4, <2>5, <2>6
<1>13. CASE Truncate(l)
  <2>1. /\ pc[l] = "work" /\ pc'[l] = "write" /\ todo[l] = {} /\ file' = Nothing
        /\ UNCHANGED <<applied, overlaps, crashes, lapses, done>>
    BY <1>0, <1>13 DEF Truncate, Converged, obsVars
  <2>2. /\ Left(l, k) = 0 /\ Left(l, k)' = 0 /\ Recorded(l, k)' = Recorded(l, k)
        /\ Repeats' = Repeats
    BY <1>3, <2>1 DEF Left, Recorded, Rec
  <2> QED
    BY <1>0, <1>1, <1>4, <2>1, <2>2
<1>14. CASE Write(l)
  <2>1. /\ pc[l] = "write" /\ pc'[l] = "report"
        /\ UNCHANGED <<applied, overlaps, crashes, lapses, done>>
        /\ file' = applied[l] \/ (file' = Nothing /\ file # Nothing)
    BY <1>0, <1>14 DEF Write, obsVars
  <2>2. /\ Left(l, k) = 0 /\ Left(l, k)' = 0 /\ Repeats' = Repeats
        /\ file = Nothing => file' = applied[l]
    BY <1>3, <2>1 DEF Left
  <2>3. file = Nothing => Recorded(l, k)' = Recorded(l, k)
    BY <2>1, <2>2 DEF Recorded, Rec
  <2>4. file # Nothing => Recorded(l, k) = 0
    BY <2>1 DEF Recorded
  <2> QED
    BY <1>0, <1>1, <1>4, <2>1, <2>2, <2>3, <2>4
<1>15. CASE SaveFails(l) \/ WriteFails(l)
  <2>1. /\ pc[l] \in {"work", "write"} /\ (pc[l] = "work" => todo[l] = {}) /\ pc'[l] = "report"
        /\ Lapse /\ UNCHANGED <<overlaps, crashes, done>>
    BY <1>0, <1>15 DEF SaveFails, WriteFails, Converged
  <2>2. Left(l, k) = 0 /\ Left(l, k)' = 0 /\ Repeats' = Repeats + 1
    BY <1>2, <2>1 DEF Left
  <2> QED
    BY <1>0, <1>1, <1>4, <2>1, <2>2
<1>16. ASSUME NEW i \in Keys, Unpack(l, i)
       PROVE  /\ pc'[l] \notin {"idle", "load"}
              /\ done'[k] + Left(l, k)' + Repeats
                    + (IF pc[l] = "load" THEN Rec(file, k) ELSE 0)
                 <= done[k] + Left(l, k) + Repeats'
              /\ done[k] <= Repeats + Recorded(l, k) => done'[k] <= Repeats' + Recorded(l, k)'
  BY <1>0, <1>1, <1>4, <1>8, <1>16
<1>17. ASSUME NEW i \in Keys, Forget(l, i) \/ RemoveFails(l, i)
       PROVE  /\ pc'[l] \notin {"idle", "load"}
              /\ done'[k] + Left(l, k)' + Repeats
                    + (IF pc[l] = "load" THEN Rec(file, k) ELSE 0)
                 <= done[k] + Left(l, k) + Repeats'
              /\ done[k] <= Repeats + Recorded(l, k) => done'[k] <= Repeats' + Recorded(l, k)'
  BY <1>0, <1>1, <1>4, <1>12, <1>17
<1> QED
  BY <1>6, <1>7, <1>10, <1>11, <1>13, <1>14, <1>15, <1>16, <1>17 DEF Reconcile

\* Only loop l moves.
LEMMA Moves ==
    ASSUME IType, NEW l \in Loops, Reconcile(l)
    PROVE  /\ pc[l] # "idle" /\ UNCHANGED overlaps
           /\ \A j \in Loops \ {l} : pc'[j] = pc[j] /\ todo'[j] = todo[j]
<1>0. /\ pc \in [Loops -> Places] /\ todo \in [Loops -> SUBSET Keys]
      /\ (running[l] # NoKey => pc[l] = "work")
  BY DEF IType, TypeOK, Started
<1>1. CASE Load(l) \/ LoadFails(l)
  BY <1>0, <1>1 DEF Load, LoadFails, Loaded
<1>2. CASE \E k \in Keys : Unpack(l, k) \/ DownloadFails(l, k)
  BY <1>0, <1>2 DEF Unpack, DownloadFails, Handled, obsVars
<1>3. CASE \E k \in Keys : Forget(l, k) \/ RemoveFails(l, k)
  BY <1>0, <1>3 DEF Forget, RemoveFails, Forgotten, Converged
<1>4. CASE Run(l) \/ RunFails(l)
  BY <1>0, <1>4 DEF Run, RunFails, Handled, obsVars
<1>5. CASE Truncate(l) \/ Write(l) \/ SaveFails(l) \/ WriteFails(l)
  BY <1>0, <1>5 DEF Truncate, Write, SaveFails, WriteFails, Converged, obsVars
<1>6. CASE Report(l) \/ ReportLost(l)
  BY <1>0, <1>6 DEF Report, ReportLost, Finish, obsVars
<1> QED
  BY <1>1, <1>2, <1>3, <1>4, <1>5, <1>6 DEF Reconcile

LEMMA ReconcileOwed ==
    ASSUME IType, IType', NotDone, NEW k \in Keys, Owed(k), NEW l \in Loops, Reconcile(l)
    PROVE  Owed(k)'
<1> SUFFICES ASSUME overlaps' < MaxOverlaps PROVE Owed(k)'
  BY DEF Owed
<1>1. /\ pc[l] # "idle" /\ overlaps < MaxOverlaps
      /\ \A j \in Loops \ {l} : pc'[j] = pc[j] /\ Left(j, k)' = Left(j, k)
      /\ Single(l, k) /\ \A j \in Loops : Both(l, j, k)
  BY Moves DEF Owed, Left
<1>2. /\ done[k] \in Nat /\ done'[k] \in Nat /\ Repeats \in Nat /\ Repeats' \in Nat
      /\ \A j \in Loops : Left(j, k) \in {0, 1} /\ Left(j, k)' \in {0, 1}
      /\ Rec(file, k) \in {0, 1} /\ Recorded(l, k) \in {0, 1}
  <2>1. done[k] \in Nat /\ done'[k] \in Nat /\ Repeats \in Nat /\ Repeats' \in Nat
    BY CountsTyped, CountsTypedNext
  <2>2. /\ \A j \in Loops : Left(j, k) \in {0, 1} /\ Left(j, k)' \in {0, 1}
        /\ Rec(file, k) \in {0, 1} /\ Recorded(l, k) \in {0, 1}
    BY DEF Left, Rec, Recorded
  <2> QED
    BY <2>1, <2>2
<1>3. CASE Report(l) \/ ReportLost(l)
  <2>1. /\ pc[l] = "report" /\ pc'[l] = "idle"
        /\ UNCHANGED <<file, done, overlaps, crashes, lapses>>
    BY <1>3 DEF Report, ReportLost, Finish, diskVars, obsVars, IType, TypeOK
  <2>2. Repeats' = Repeats /\ Left(l, k) = 0 /\ Recorded(l, k) = Rec(file, k)
        /\ Rec(file, k)' = Rec(file, k)
    BY <2>1 DEF Repeats, Left, Recorded, Rec
  <2>3. CASE \A j \in Loops \ {l} : pc[j] = "idle"
    <3>1. \A j \in Loops : pc'[j] = "idle"
      BY <1>1, <2>1, <2>3
    <3>2. done[k] <= Repeats + Rec(file, k)
      BY <1>1, <2>2, <2>3 DEF Single
    <3>3. \A j \in Loops : Recorded(j, k)' = Rec(file, k)
      BY <2>2, <3>1 DEF Recorded
    <3> QED
      BY <2>1, <2>2, <3>1, <3>2, <3>3 DEF Owed, Single, Both
  <2>4. ASSUME NEW j \in Loops \ {l}, Loops = {l, j}, pc[j] # "idle" PROVE Owed(k)'
    <3>1. pc'[j] = pc[j] /\ done[k] + Left(l, k) + Left(j, k) <= Repeats
      BY <1>1, <1>2, <2>1, <2>4 DEF Both
    <3>2. done'[k] <= Repeats'
      BY <1>2, <2>1, <2>2, <3>1
    <3>3. Recorded(j, k)' \in {0, 1}
      BY DEF Recorded, Rec
    <3>4. Single(j, k)'
      BY <1>2, <3>2, <3>3 DEF Single
    <3>5. \A i \in Loops : Both(j, i, k)'
      BY <2>1, <2>4 DEF Both
    <3> QED
      BY <2>4, <3>1, <3>4, <3>5, AfterReconcile
  <2> QED
    BY <2>3, <2>4, OneOrBoth
<1>4. CASE ~Report(l) /\ ~ReportLost(l)
  <2>1. /\ pc'[l] \notin {"idle", "load"}
        /\ done'[k] + Left(l, k)' + Repeats
              + (IF pc[l] = "load" THEN Rec(file, k) ELSE 0)
           <= done[k] + Left(l, k) + Repeats'
        /\ done[k] <= Repeats + Recorded(l, k) => done'[k] <= Repeats' + Recorded(l, k)'
    BY <1>4, Pays
  <2>2. Single(l, k)'
    BY <1>1, <2>1 DEF Single
  <2>3. ASSUME NEW j \in Loops PROVE Both(l, j, k)'
    <3>1. CASE l = j \/ pc'[j] = "idle"
      BY <3>1 DEF Both
    <3>2. CASE l # j /\ pc'[j] # "idle"
      <4>1. /\ pc[j] # "idle" /\ Left(j, k)' = Left(j, k)
            /\ done[k] + Left(l, k) + Left(j, k)
                  <= Repeats + (IF pc[l] = "load" THEN Rec(file, k) ELSE 0)
        BY <1>1, <1>2, <3>2 DEF Both
      <4>2. done'[k] + Left(l, k)' + Left(j, k)' <= Repeats'
        BY <1>2, <2>1, <4>1
      <4>3. ~(pc'[l] = "load" /\ pc'[j] = "load")
        BY <2>1
      <4> QED
        BY <4>2, <4>3, <1>2 DEF Both
    <3> QED
      BY <3>1, <3>2
  <2> QED
    BY <2>1, <2>2, <2>3, AfterReconcile
<1> QED
  BY <1>3, <1>4

LEMMA StartOwed ==
    ASSUME IType, IType', NotDone, NEW k \in Keys, Owed(k), NEW l \in Loops, NEW rev, Start(l, rev)
    PROVE  Owed(k)'
<1> SUFFICES ASSUME overlaps' < MaxOverlaps PROVE Owed(k)'
  BY DEF Owed
<1>1. /\ pc[l] = "idle" /\ pc' = [pc EXCEPT ![l] = "load"]
      /\ overlaps' = IF overlaps < MaxOverlaps /\ \E j \in Loops : pc[j] # "idle"
                     THEN overlaps + 1 ELSE overlaps
      /\ UNCHANGED <<file, applied, todo, done, lapses, crashes>>
  BY DEF Start, diskVars
<1>2. /\ done[k] \in Nat /\ Repeats \in Nat /\ Repeats' \in Nat
      /\ overlaps \in Nat /\ crashes \in Nat /\ lapses \in Nat /\ MaxOverlaps \in Nat
      /\ \A j \in Loops : Left(j, k) \in {0, 1} /\ Left(j, k)' \in {0, 1}
      /\ Rec(file, k) \in {0, 1} /\ \A j \in Loops : Recorded(j, k) \in {0, 1}
  <2>1. /\ done[k] \in Nat /\ Repeats \in Nat /\ Repeats' \in Nat
        /\ overlaps \in Nat /\ crashes \in Nat /\ lapses \in Nat /\ MaxOverlaps \in Nat
    BY CountsTyped, CountsTypedNext DEF Counts
  <2>2. /\ \A j \in Loops : Left(j, k) \in {0, 1} /\ Left(j, k)' \in {0, 1}
        /\ Rec(file, k) \in {0, 1} /\ \A j \in Loops : Recorded(j, k) \in {0, 1}
    BY DEF Left, Rec, Recorded
  <2> QED
    BY <2>1, <2>2
<1>3. /\ pc'[l] = "load" /\ overlaps < MaxOverlaps
      /\ \A j \in Loops \ {l} : pc'[j] = pc[j] /\ Left(j, k)' = Left(j, k)
      /\ Rec(file, k)' = Rec(file, k) /\ Left(l, k)' = 1
  BY <1>1, <1>2 DEF IType, TypeOK, Left, Rec
<1>4. CASE \A j \in Loops \ {l} : pc[j] = "idle"
  <2>1. Repeats' = Repeats
    BY <1>1, <1>4 DEF Repeats
  <2>2. done[k] <= Repeats + Rec(file, k)
    BY <1>1, <1>3, <1>4 DEF Owed, Single, Recorded
  <2>3. Recorded(l, k)' = Rec(file, k)
    BY <1>3 DEF Recorded
  <2>4. Single(l, k)'
    BY <1>1, <2>1, <2>2, <2>3 DEF Single
  <2>5. \A j \in Loops : Both(l, j, k)'
    BY <1>3, <1>4 DEF Both
  <2> QED
    BY <1>3, <2>4, <2>5, AfterReconcile
<1>5. ASSUME NEW j \in Loops \ {l}, Loops = {l, j}, pc[j] # "idle" PROVE Owed(k)'
  <2>1. Repeats' = Repeats + 2
    BY <1>1, <1>2, <1>3, <1>5 DEF Repeats
  <2>2. done[k] <= Repeats + Recorded(j, k)
    BY <1>1, <1>3, <1>5 DEF Owed, Single
  <2>3. Recorded(j, k) + Left(j, k) <= 1 + (IF pc[j] = "load" THEN Rec(file, k) ELSE 0)
    <3>1. CASE pc[j] = "work"
      BY <3>1 DEF Recorded, Left, Rec, NotDone
    <3>2. CASE pc[j] = "load"
      <4>1. Recorded(j, k) = Rec(file, k)
        BY <3>2 DEF Recorded
      <4> QED
        BY <1>2, <3>2, <4>1
    <3>3. CASE pc[j] \notin {"load", "work"}
      <4>1. Left(j, k) = 0
        BY <3>3 DEF Left
      <4> QED
        BY <1>2, <3>3, <4>1
    <3> QED
      BY <3>1, <3>2, <3>3
  <2>4. Single(l, k)'
    BY <1>3, <1>5 DEF Single
  <2>5. done'[k] + Left(l, k)' + Left(j, k)'
            <= Repeats' + (IF pc'[l] = "load" /\ pc'[j] = "load" THEN Rec(file, k)' ELSE 0)
    BY <1>1, <1>2, <1>3, <2>1, <2>2, <2>3
  <2>6. Both(l, j, k)' /\ Both(l, l, k)'
    BY <2>5 DEF Both
  <2> QED
    BY <1>3, <1>5, <2>4, <2>6, AfterReconcile
<1> QED
  BY <1>4, <1>5, OneOrBoth

LEMMA CrashOwed ==
    ASSUME IType, IType', NEW k \in Keys, Owed(k), Crash PROVE Owed(k)'
<1> SUFFICES ASSUME overlaps' < MaxOverlaps PROVE Owed(k)'
  BY DEF Owed
<1>1. /\ \A l \in Loops : pc'[l] = "idle"
      /\ crashes' = crashes + 1 /\ UNCHANGED <<file, done, overlaps, lapses>>
  BY DEF Crash, diskVars, obsVars
<1>2. /\ done[k] \in Nat /\ Repeats \in Nat /\ Repeats' = Repeats + 1
      /\ \A j \in Loops : Left(j, k) \in {0, 1} /\ Recorded(j, k) \in {0, 1}
      /\ Rec(file, k) \in {0, 1} /\ Rec(file, k)' = Rec(file, k)
  <2>1. done[k] \in Nat /\ Repeats \in Nat /\ Counts
    BY CountsTyped
  <2>2. Repeats' = Repeats + 1
    BY <1>1, <2>1 DEF Counts, Repeats
  <2>3. /\ \A j \in Loops : Left(j, k) \in {0, 1} /\ Recorded(j, k) \in {0, 1}
        /\ Rec(file, k) \in {0, 1} /\ Rec(file, k)' = Rec(file, k)
    BY <1>1 DEF Left, Rec, Recorded
  <2> QED
    BY <2>1, <2>2, <2>3
<1>3. PICK l \in Loops : TRUE
  BY ReconcileAssumption
<1>4. done[k] <= Repeats + 1
  <2>1. CASE \A j \in Loops \ {l} : pc[j] = "idle"
    BY <1>1, <1>2, <2>1 DEF Owed, Single
  <2>2. ASSUME NEW j \in Loops \ {l}, pc[j] # "idle" PROVE done[k] <= Repeats + 1
    <3>1. CASE pc[l] # "idle"
      <4>1. done[k] + Left(l, k) + Left(j, k)
                <= Repeats + (IF pc[l] = "load" /\ pc[j] = "load" THEN Rec(file, k) ELSE 0)
        BY <1>1, <2>2, <3>1 DEF Owed, Both
      <4> QED
        BY <1>2, <4>1
    <3>2. CASE pc[l] = "idle"
      <4>1. \A i \in Loops \ {j} : pc[i] = "idle"
        BY <2>2, <3>2, ReconcileAssumption
      <4> QED
        BY <1>1, <1>2, <2>2, <4>1 DEF Owed, Single
    <3> QED
      BY <3>1, <3>2
  <2> QED
    BY <2>1, <2>2
<1>5. \A j \in Loops : Recorded(j, k)' = Rec(file, k)
  BY <1>1, <1>2 DEF Recorded
<1> QED
  BY <1>1, <1>2, <1>4, <1>5 DEF Owed, Single, Both

LEMMA NextOwed ==
    IType /\ IType' /\ NotDone /\ (\A k \in Keys : Owed(k)) /\ [Next]_vars
    => (\A k \in Keys : Owed(k))'
<1> SUFFICES ASSUME IType, IType', NotDone, NEW k \in Keys, Owed(k), [Next]_vars PROVE Owed(k)'
  OBVIOUS
<1>1. CASE UNCHANGED vars
  BY <1>1 DEF vars, Owed, Single, Both, Recorded, Rec, Left, Repeats
<1>2. CASE Change
  BY <1>2 DEF Change, diskVars, loopVars, obsVars, Owed, Single, Both, Recorded, Rec, Left, Repeats
<1>3. CASE \E rev \in 1..Len(wanted) : Receive(rev)
  BY <1>3, StartOwed, ReconcileAssumption DEF Receive
<1>4. CASE Retry
  BY <1>4, StartOwed DEF Retry
<1> QED
  BY <1>1, <1>2, <1>3, <1>4, ReconcileOwed, CrashOwed DEF Next

\* RunsOnce for any modules, desired states, failures and deaths, and loops that
\* overlap any number of times: what has run is recorded as applied, by the copies of
\* the loops and then by the file, until it is forgotten (reconcile, saveApplied).
THEOREM EachRunsOnce == Spec => []RunsOnce
<1>1. Init => IType /\ NotDone /\ \A k \in Keys : Owed(k)
  BY InitType, InitOwed
<1>2. IType /\ NotDone /\ (\A k \in Keys : Owed(k)) /\ [Next]_vars
      => (IType /\ NotDone /\ \A k \in Keys : Owed(k))'
  BY NextType, NextNotDone, NextOwed
<1>3. IType /\ (\A k \in Keys : Owed(k)) => RunsOnce
  <2> SUFFICES ASSUME IType, NEW k \in Keys, Owed(k) PROVE done[k] <= 1 + Repeats
    BY DEF RunsOnce
  <2>1. /\ done[k] \in 0..MaxRuns /\ Repeats \in Nat /\ MaxOverlaps \in Nat
        /\ overlaps \in 0..MaxOverlaps /\ crashes \in Nat /\ lapses \in Nat
        /\ \A j \in Loops : Left(j, k) \in {0, 1} /\ Recorded(j, k) \in {0, 1}
        /\ Rec(file, k) \in {0, 1}
    <3>1. /\ done[k] \in 0..MaxRuns /\ Repeats \in Nat /\ MaxOverlaps \in Nat
          /\ overlaps \in 0..MaxOverlaps /\ crashes \in Nat /\ lapses \in Nat
      BY CountsTyped DEF Counts, IType, TypeOK
    <3>2. /\ \A j \in Loops : Left(j, k) \in {0, 1} /\ Recorded(j, k) \in {0, 1}
          /\ Rec(file, k) \in {0, 1}
      BY DEF Left, Recorded, Rec
    <3> QED
      BY <3>1, <3>2
  <2>2. CASE overlaps < MaxOverlaps
    <3>1. PICK l \in Loops : (\E j \in Loops : pc[j] # "idle") => pc[l] # "idle"
      BY ReconcileAssumption
    <3>2. CASE \A j \in Loops \ {l} : pc[j] = "idle"
      BY <2>1, <2>2, <3>2 DEF Owed, Single
    <3>3. ASSUME NEW j \in Loops \ {l}, pc[j] # "idle" PROVE done[k] <= 1 + Repeats
      <4>1. done[k] + Left(l, k) + Left(j, k)
                <= Repeats + (IF pc[l] = "load" /\ pc[j] = "load" THEN Rec(file, k) ELSE 0)
        BY <2>2, <3>1, <3>3 DEF Owed, Both
      <4> QED
        BY <2>1, <4>1
    <3> QED
      BY <3>2, <3>3
  <2>3. CASE ~(overlaps < MaxOverlaps)
    <3>1. overlaps = MaxOverlaps
      BY <2>1, <2>3
    <3> QED
      BY <2>1, <3>1 DEF Repeats, MaxRuns
  <2> QED
    BY <2>2, <2>3
<1> QED
  BY <1>1, <1>2, <1>3, PTL DEF Spec

------------------------------------------------------------------------------
(* One loop at a time.                                                      *)

\* Where what is unpacked came from, according to a record of the states.
Accounts(states, busy) ==
    dirs \subseteq litter \cup {Dir[k] : k \in {j \in Keys : states[j] # "none" \/ j = busy}}

\* One loop at a time: its copy accounts for everything while it has one, and the
\* file does before and after.
Alone ==
    Repeats = 0 =>
        /\ \A l, j \in Loops : pc[l] # "idle" /\ pc[j] # "idle" => l = j
        /\ (\A l \in Loops : pc[l] \in {"idle", "load"}) => Accounts(file, NoKey)
        /\ \A l \in Loops :
              /\ pc[l] \in {"work", "write", "report"} => Accounts(applied[l], running[l])
              /\ pc[l] = "write" => file = Nothing
              /\ pc[l] = "report" => file = applied[l]

\* Of two loops of which one is idle, the other decides.
LEMMA OneLoop ==
    ASSUME NEW l \in Loops, \A j \in Loops \ {l} : pc'[j] = "idle",
           pc'[l] \in {"idle", "load"} => Accounts(file, NoKey)',
           pc'[l] \in {"work", "write", "report"} => Accounts(applied[l], running[l])',
           pc'[l] = "write" => file' = Nothing,
           pc'[l] = "report" => file' = applied'[l]
    PROVE  Alone'
  BY DEF Alone

LEMMA InitAlone == Init => Alone
  BY ReconcileAssumption DEF Init, Alone, Accounts, Nothing

LEMMA StartAlone ==
    ASSUME IType, IType', Alone, NEW l \in Loops, NEW rev, Start(l, rev) PROVE Alone'
<1> SUFFICES ASSUME Repeats' = 0 PROVE Alone'
  BY DEF Alone
<1>1. overlaps' = 0 /\ crashes' = 0 /\ lapses' = 0
  BY NoneCounted
<1>2. /\ overlaps = 0 /\ \A j \in Loops : pc[j] = "idle"
      /\ pc' = [pc EXCEPT ![l] = "load"]
      /\ UNCHANGED <<file, dirs, litter, crashes, lapses>>
  BY <1>1, ReconcileAssumption DEF Start, serverVars, diskVars, IType, TypeOK
<1>3. Repeats = 0
  BY <1>1, <1>2 DEF Repeats
<1>4. Accounts(file, NoKey)'
  BY <1>2, <1>3 DEF Alone, Accounts
<1>5. pc'[l] = "load" /\ \A j \in Loops \ {l} : pc'[j] = "idle"
  BY <1>2 DEF IType, TypeOK
<1> QED
  BY <1>4, <1>5, OneLoop

LEMMA ReconcileAlone ==
    ASSUME IType, IType', Alone, NEW l \in Loops, Reconcile(l) PROVE Alone'
<1> SUFFICES ASSUME Repeats' = 0 PROVE Alone'
  BY DEF Alone
<1> USE DEF serverVars, diskVars, obsVars
<1>0. /\ file \in [Keys -> States] /\ applied \in [Loops -> [Keys -> States]]
      /\ pc \in [Loops -> Places] /\ todo \in [Loops -> SUBSET Keys]
      /\ running \in [Loops -> Keys \cup {NoKey}]
      /\ NoKey \notin Keys /\ (running[l] # NoKey => pc[l] = "work" /\ running[l] \in todo[l])
  BY ReconcileAssumption DEF IType, TypeOK, Started
<1>00. /\ lapses' = 0 /\ lapses \in Nat /\ UNCHANGED <<overlaps, crashes>>
  <2>1. lapses' = 0 /\ lapses \in Nat
    BY NoneCounted, CountsTyped DEF Counts
  <2>2. UNCHANGED crashes
    BY DEF Reconcile, Load, LoadFails, Loaded, Unpack, DownloadFails, Forget, RemoveFails, Forgotten,
           Run, RunFails, Truncate, Write, SaveFails, WriteFails, Report, ReportLost, Finish
  <2> QED
    BY <2>1, <2>2, Moves
<1>1. /\ ~LoadFails(l) /\ ~SaveFails(l) /\ ~WriteFails(l)
  BY <1>00 DEF LoadFails, SaveFails, WriteFails, Lapse
<1>2. lapses' = lapses
  BY <1>1 DEF Reconcile, Load, Loaded, Unpack, DownloadFails, Forget, RemoveFails, Forgotten,
              Run, RunFails, Truncate, Write, Report, ReportLost, Finish
<1>3. Repeats = 0
  BY <1>00, <1>2 DEF Repeats
<1>4. pc[l] # "idle"
  BY Moves
<1>5. /\ \A j \in Loops \ {l} : pc[j] = "idle"
      /\ pc[l] = "load" => Accounts(file, NoKey)
      /\ pc[l] \in {"work", "write", "report"} => Accounts(applied[l], running[l])
      /\ pc[l] = "write" => file = Nothing
      /\ pc[l] = "report" => file = applied[l]
  BY <1>3, <1>4 DEF Alone
<1>6. CASE Load(l)
  <2>1. /\ pc[l] = "load" /\ running[l] = NoKey /\ UNCHANGED <<file, dirs, litter, running>>
        /\ pc' = [pc EXCEPT ![l] = "work"] /\ applied' = [applied EXCEPT ![l] = file]
    BY <1>0, <1>6 DEF Load, Loaded
  <2>2. /\ pc'[l] = "work" /\ applied'[l] = file /\ running'[l] = NoKey
        /\ \A j \in Loops \ {l} : pc'[j] = "idle"
    BY <1>0, <1>5, <2>1
  <2>3. Accounts(applied[l], running[l])'
    BY <1>5, <2>1, <2>2 DEF Accounts
  <2> QED
    BY <2>2, <2>3, OneLoop
<1>7. ASSUME NEW k \in Keys, Unpack(l, k) PROVE Alone'
  <2>1. /\ pc[l] = "work" /\ running[l] = NoKey /\ running'[l] = k
        /\ dirs' = dirs \cup {Dir[k]} /\ UNCHANGED <<file, litter, pc, applied>>
    BY <1>0, <1>7 DEF Unpack
  <2>2. Accounts(applied[l], running[l])'
    BY <1>0, <1>5, <2>1 DEF Accounts
  <2> QED
    BY <1>5, <2>1, <2>2, OneLoop
<1>8. ASSUME NEW k \in todo[l], NEW state \in States, pc[l] = "work", Handled(l, k, state),
             running[l] \in {k, NoKey}, UNCHANGED <<file, litter, pc>>,
             dirs' \in {dirs, dirs \cup {Dir[k]}}, state # "none"
      PROVE  Alone'
  <2>1. /\ applied'[l] = [applied[l] EXCEPT ![k] = state]
        /\ running'[l] = NoKey /\ k \in Keys
    BY <1>0, <1>8 DEF Handled
  <2>2. \A j \in Keys : applied[l][j] # "none" \/ j = running[l] \/ j = k => applied'[l][j] # "none"
    BY <1>0, <1>8, <2>1
  <2>3. Accounts(applied[l], running[l])'
    BY <1>5, <1>8, <2>1, <2>2 DEF Accounts
  <2> QED
    BY <1>5, <1>8, <2>3, OneLoop
<1>9. CASE Run(l) \/ RunFails(l) \/ \E k \in Keys : DownloadFails(l, k)
  BY <1>0, <1>8, <1>9 DEF Run, RunFails, DownloadFails, States
<1>10. ASSUME NEW k \in Keys, Forget(l, k) \/ RemoveFails(l, k) PROVE Alone'
  <2>1. /\ pc[l] = "work" /\ running[l] = NoKey
        /\ applied'[l] = [applied[l] EXCEPT ![k] = "none"]
        /\ dirs' \subseteq dirs
        /\ \/ dirs' = dirs \ {Dir[k]} /\ litter' = litter \ {Dir[k]}
           \/ litter' = litter \cup {Dir[k]}
        /\ UNCHANGED <<file, pc, running>>
    BY <1>0, <1>10 DEF Forget, RemoveFails, Forgotten, Converged
  <2>2. Accounts(applied[l], running[l])'
    BY <1>0, <1>5, <2>1 DEF Accounts
  <2> QED
    BY <1>5, <2>1, <2>2, OneLoop
<1>11. CASE Truncate(l)
  <2>1. /\ pc[l] = "work" /\ file' = Nothing /\ UNCHANGED <<dirs, litter, applied, running>>
        /\ pc'[l] = "write" /\ \A j \in Loops \ {l} : pc'[j] = "idle"
    BY <1>0, <1>5, <1>11 DEF Truncate, Converged
  <2>2. Accounts(applied[l], running[l])'
    BY <1>5, <2>1 DEF Accounts
  <2> QED
    BY <2>1, <2>2, OneLoop
<1>12. CASE Write(l)
  <2>1. /\ pc[l] = "write" /\ UNCHANGED <<dirs, litter, applied, running>>
        /\ file' = applied[l]
        /\ pc'[l] = "report" /\ \A j \in Loops \ {l} : pc'[j] = "idle"
    BY <1>0, <1>5, <1>12 DEF Write
  <2>2. Accounts(applied[l], running[l])'
    BY <1>5, <2>1 DEF Accounts
  <2> QED
    BY <2>1, <2>2, OneLoop
<1>13. CASE Finish(l)
  <2>1. /\ pc[l] = "report" /\ running[l] = NoKey /\ UNCHANGED <<file, dirs, litter>>
        /\ pc'[l] = "idle" /\ \A j \in Loops \ {l} : pc'[j] = "idle"
    BY <1>0, <1>5, <1>13 DEF Finish
  <2>2. Accounts(file, NoKey)'
    BY <1>5, <2>1 DEF Accounts
  <2> QED
    BY <2>1, <2>2, OneLoop
<1> QED
  BY <1>1, <1>6, <1>7, <1>9, <1>10, <1>11, <1>12, <1>13 DEF Reconcile, Report, ReportLost

LEMMA NextAlone == IType /\ IType' /\ Alone /\ [Next]_vars => Alone'
<1> SUFFICES ASSUME IType, IType', Alone, [Next]_vars PROVE Alone'
  OBVIOUS
<1>1. CASE UNCHANGED vars
  BY <1>1 DEF vars, Alone, Accounts, Repeats
<1>2. CASE Change
  BY <1>2 DEF Change, diskVars, loopVars, obsVars, Alone, Accounts, Repeats
<1>3. CASE \E rev \in 1..Len(wanted) : Receive(rev)
  BY <1>3, StartAlone, ReconcileAssumption DEF Receive
<1>4. CASE Retry
  BY <1>4, StartAlone DEF Retry
<1>5. CASE Crash
  <2>1. /\ crashes \in Nat /\ crashes' = crashes + 1
    BY <1>5, CountsTyped DEF Crash, Counts
  <2>2. ~(Repeats' = 0)
    BY <2>1, NoneCounted
  <2> QED
    BY <2>2 DEF Alone
<1> QED
  BY <1>1, <1>2, <1>3, <1>4, <1>5, ReconcileAlone DEF Next

\* NoOrphanDirs for any modules, desired states and failures: what is unpacked is in
\* the loop's copy as soon as it has a status, and leaves with its entry unless the
\* removal fails (reconcile: "Forget anything no longer desired", removeModuleDir).
THEOREM NoDirIsOrphaned == Spec => []NoOrphanDirs
<1>1. Init => IType /\ Alone
  BY InitType, InitAlone
<1>2. IType /\ Alone /\ [Next]_vars => (IType /\ Alone)'
  BY NextType, NextAlone
<1>3. IType /\ Alone => NoOrphanDirs
  BY ReconcileAssumption DEF Alone, Accounts, NoOrphanDirs, Idle
<1> QED
  BY <1>1, <1>2, <1>3, PTL DEF Spec
================================================================================
