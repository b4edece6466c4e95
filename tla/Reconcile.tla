------------------------------ MODULE Reconcile ------------------------------
(***************************************************************************)
(* The agent's reconciler (agent/modules.go) and the two goroutines that   *)
(* call it (agent/agent.go): the stream loop with every desired state it   *)
(* receives, the retry loop with the last one every five minutes.  Nothing *)
(* keeps the two apart: both read applied.json, run modules and write the  *)
(* file back.  The agent may die at any step and start again.  It goes on  *)
(* when a call of the system fails: a download or a run is reported as     *)
(* failed, everything else is ignored or logged.                           *)
(*                                                                         *)
(* A key is what appliedKey makes of a module: name, version and           *)
(* configuration.  Dir[k] is the directory it is unpacked to, which the    *)
(* configuration does not enter.  wanted is the history of desired states; *)
(* its positions are the revisions.                                        *)
(***************************************************************************)
EXTENDS Naturals, Sequences, FiniteSets

CONSTANTS
    Keys,          \* applied keys
    Dir,           \* Dir[k]: where the module of key k is unpacked
    Desired,       \* the sets of keys a desired state may hold
    NoKey,         \* "none is running"
    Loops,         \* the goroutines: {"stream"} or {"stream", "retry"}
    MaxChanges,    \* bound: desired states after the first
    MaxCrashes,    \* bound: times the agent dies
    MaxFails,      \* bound: downloads, runs, reports and uses of the disk that fail
    MaxOverlaps    \* bound: overlaps that are counted

ASSUME ReconcileAssumption ==
    /\ DOMAIN Dir = Keys
    /\ Desired \subseteq SUBSET Keys
    /\ NoKey \notin Keys
    /\ "stream" \in Loops /\ Loops \subseteq {"stream", "retry"}
    /\ {MaxChanges, MaxCrashes, MaxFails} \subseteq Nat
    /\ MaxOverlaps \in Nat \ {0}

VARIABLES
    \* --- the server ---
    wanted,        \* the desired states, in order
    reported,      \* the last status report: revision and states
    \* --- the agent's disk ---
    file,          \* applied.json: the state of each key, "none" if absent
    dirs,          \* unpacked module directories
    \* --- the agent's memory ---
    lastDesired,   \* revision of lastDesired, 0 when nil
    pc,            \* pc[l]: where loop l is
    ds,            \* ds[l]: the revision it reconciles
    applied,       \* applied[l]: its copy of applied.json
    todo,          \* todo[l]: keys it has not come to yet
    running,       \* running[l]: the key whose module it has unpacked, or NoKey
    \* --- observations ---
    seen,          \* newest revision received, over all lives of the agent
    done,          \* done[k]: successful runs since k was last forgotten, up to MaxRuns
    ran,           \* keys that were ever run successfully
    litter,        \* directories whose removal has failed
    overlaps,      \* reconciles started during another, up to MaxOverlaps
    lapses,        \* times applied.json could not be read or written
    crashes, fails

serverVars == <<wanted, reported>>
diskVars == <<file, dirs>>
loopVars == <<lastDesired, pc, ds, applied, todo, running>>
obsVars == <<seen, done, ran, litter, overlaps, lapses>>
vars == <<wanted, reported, file, dirs, lastDesired, pc, ds, applied, todo,
          running, seen, done, ran, litter, overlaps, lapses, crashes, fails>>

States == {"none", "applied", "failed"}
Nothing == [k \in Keys |-> "none"]
Places == {"idle", "load", "work", "write", "report"}

\* As many runs as the overlaps that are counted may lead to.
MaxRuns == 2 * MaxOverlaps

Init ==
    /\ \E first \in Desired : wanted = <<first>>
    /\ reported = [rev |-> 0, states |-> Nothing]
    /\ file = Nothing
    /\ dirs = {}
    /\ lastDesired = 0
    /\ pc = [l \in Loops |-> "idle"]
    /\ ds = [l \in Loops |-> 0]
    /\ applied = [l \in Loops |-> Nothing]
    /\ todo = [l \in Loops |-> {}]
    /\ running = [l \in Loops |-> NoKey]
    /\ seen = 0
    /\ done = [k \in Keys |-> 0]
    /\ ran = {}
    /\ litter = {}
    /\ overlaps = 0 /\ lapses = 0
    /\ crashes = 0 /\ fails = 0

\* The operator changes the desired state.
Change ==
    /\ Len(wanted) <= MaxChanges
    /\ \E s \in Desired \ {wanted[Len(wanted)]} : wanted' = Append(wanted, s)
    /\ UNCHANGED <<reported, diskVars, loopVars, obsVars, crashes, fails>>

Fail == fails < MaxFails /\ fails' = fails + 1

\* applied.json cannot be read or written.
Lapse == Fail /\ lapses' = lapses + 1

\* Loop l calls reconcile.
Start(l, rev) ==
    /\ pc[l] = "idle"
    /\ overlaps' = IF overlaps < MaxOverlaps /\ \E j \in Loops : pc[j] # "idle"
                    THEN overlaps + 1 ELSE overlaps
    /\ pc' = [pc EXCEPT ![l] = "load"]
    /\ ds' = [ds EXCEPT ![l] = rev]
    /\ UNCHANGED <<serverVars, diskVars, applied, todo, running, done, ran, litter, lapses,
                   crashes, fails>>

\* The next event of the stream: a revision no older than any before it, the
\* same one again after a reconnection.
Receive(rev) ==
    /\ rev >= seen
    /\ Start("stream", rev)
    /\ lastDesired' = rev
    /\ seen' = rev

\* The five-minute tick.
Retry ==
    /\ "retry" \in Loops
    /\ lastDesired # 0
    /\ Start("retry", lastDesired)
    /\ UNCHANGED <<lastDesired, seen>>

\* (faulty) failed modules count as handled.
Load_failedToo(l) ==
    /\ pc[l] = "load"
    /\ applied' = [applied EXCEPT ![l] = file]
    /\ todo' = [todo EXCEPT ![l] = {k \in wanted[ds[l]] : file[k] = "none"}]
    /\ pc' = [pc EXCEPT ![l] = "work"]
    /\ UNCHANGED <<serverVars, diskVars, lastDesired, ds, running, obsVars, crashes, fails>>

\* (faulty) what is recorded is not looked at.
Load_again(l) ==
    /\ pc[l] = "load"
    /\ applied' = [applied EXCEPT ![l] = file]
    /\ todo' = [todo EXCEPT ![l] = wanted[ds[l]]]
    /\ pc' = [pc EXCEPT ![l] = "work"]
    /\ UNCHANGED <<serverVars, diskVars, lastDesired, ds, running, obsVars, crashes, fails>>

\* Keys recorded as applied are already converged.
Loaded(l, states) ==
    /\ pc[l] = "load"
    /\ applied' = [applied EXCEPT ![l] = states]
    /\ todo' = [todo EXCEPT ![l] = {k \in wanted[ds[l]] : states[k] # "applied"}]
    /\ pc' = [pc EXCEPT ![l] = "work"]
    /\ UNCHANGED <<serverVars, diskVars, lastDesired, ds, running, seen, done, ran, litter,
                   overlaps, crashes>>

\* loadApplied ...
Load(l) == Loaded(l, file) /\ UNCHANGED <<lapses, fails>>

\* ... which returns nothing when the file cannot be read.
LoadFails(l) == Loaded(l, Nothing) /\ Lapse

\* apply: the artifact is downloaded, verified and unpacked ...
Unpack(l, k) ==
    /\ pc[l] = "work" /\ running[l] = NoKey
    /\ k \in todo[l]
    /\ dirs' = dirs \cup {Dir[k]}
    /\ running' = [running EXCEPT ![l] = k]
    /\ UNCHANGED <<serverVars, file, lastDesired, pc, ds, applied, todo, obsVars,
                   crashes, fails>>

\* Key k of loop l has got a status.
Handled(l, k, state) ==
    /\ applied' = [applied EXCEPT ![l][k] = state]
    /\ todo' = [todo EXCEPT ![l] = @ \ {k}]
    /\ running' = [running EXCEPT ![l] = NoKey]

\* ... or it is not, or not wholly: the module has failed without being run ...
DownloadFails(l, k) ==
    /\ pc[l] = "work" /\ running[l] = NoKey
    /\ k \in todo[l]
    /\ Fail
    /\ Handled(l, k, "failed")
    /\ dirs' \in {dirs, dirs \cup {Dir[k]}}
    /\ UNCHANGED <<serverVars, file, lastDesired, pc, ds, obsVars, crashes>>

\* ... then run, from its directory, to a successful exit ...
Run(l) ==
    LET k == running[l] IN
    /\ k # NoKey
    /\ Dir[k] \in dirs
    /\ Handled(l, k, "applied")
    /\ done' = [done EXCEPT ![k] = IF @ < MaxRuns THEN @ + 1 ELSE @]
    /\ ran' = ran \cup {k}
    /\ UNCHANGED <<serverVars, diskVars, lastDesired, pc, ds, seen, litter, overlaps, lapses,
                   crashes, fails>>

\* (faulty) the exit status is ignored.
RunFails_ignored(l) ==
    LET k == running[l] IN
    /\ k # NoKey
    /\ IF Dir[k] \in dirs THEN Fail ELSE UNCHANGED fails
    /\ Handled(l, k, "applied")
    /\ UNCHANGED <<serverVars, diskVars, lastDesired, pc, ds, obsVars, crashes>>

\* ... or not: it exits with an error, or its directory is gone.
RunFails(l) ==
    LET k == running[l] IN
    /\ k # NoKey
    /\ IF Dir[k] \in dirs THEN Fail ELSE UNCHANGED fails
    /\ Handled(l, k, "failed")
    /\ UNCHANGED <<serverVars, diskVars, lastDesired, pc, ds, obsVars, crashes>>

\* The keys of its copy that loop l has still to forget.
Unwanted(l) == {k \in Keys \ wanted[ds[l]] : applied[l][k] # "none"}

Converged(l) == pc[l] = "work" /\ todo[l] = {}

\* A key that is no longer desired is dropped ...
Forgotten(l, k) ==
    /\ Converged(l)
    /\ k \in Unwanted(l)
    /\ applied' = [applied EXCEPT ![l][k] = "none"]
    /\ done' = [done EXCEPT ![k] = 0]
    /\ UNCHANGED <<serverVars, file, lastDesired, pc, ds, todo, running, seen, ran, overlaps,
                   lapses, crashes>>

\* (faulty) the entry goes, the directory stays.
Forget_keepDir(l, k) ==
    /\ Forgotten(l, k)
    /\ UNCHANGED <<dirs, litter, fails>>

\* ... and its directory removed, ...
Forget(l, k) ==
    /\ Forgotten(l, k)
    /\ dirs' = dirs \ {Dir[k]}
    /\ litter' = litter \ {Dir[k]}
    /\ UNCHANGED fails

\* ... or not, which is logged.
RemoveFails(l, k) ==
    /\ Forgotten(l, k)
    /\ Fail
    /\ litter' = litter \cup {Dir[k]}
    /\ UNCHANGED dirs

\* saveApplied: os.WriteFile truncates the file ...
Truncate(l) ==
    /\ Converged(l)
    /\ Unwanted(l) = {}
    /\ file' = Nothing
    /\ pc' = [pc EXCEPT ![l] = "write"]
    /\ UNCHANGED <<serverVars, dirs, lastDesired, ds, applied, todo, running, obsVars,
                   crashes, fails>>

\* ... and writes it.  Over what the other loop has written since, the bytes
\* of both may remain, which loadApplied reads as nothing.
Write(l) ==
    /\ pc[l] = "write"
    /\ file' \in {applied[l]} \cup (IF file = Nothing THEN {} ELSE {Nothing})
    /\ pc' = [pc EXCEPT ![l] = "report"]
    /\ UNCHANGED <<serverVars, dirs, lastDesired, ds, applied, todo, running, obsVars,
                   crashes, fails>>

\* The error of os.WriteFile is ignored, whether it comes before the truncation ...
SaveFails(l) ==
    /\ Converged(l)
    /\ Unwanted(l) = {}
    /\ Lapse
    /\ pc' = [pc EXCEPT ![l] = "report"]
    /\ UNCHANGED <<serverVars, diskVars, lastDesired, ds, applied, todo, running, seen, done,
                   ran, litter, overlaps, crashes>>

\* ... or after it: nothing or a part has been written.
WriteFails(l) ==
    /\ pc[l] = "write"
    /\ Lapse
    /\ file' \in {file, Nothing}
    /\ pc' = [pc EXCEPT ![l] = "report"]
    /\ UNCHANGED <<serverVars, dirs, lastDesired, ds, applied, todo, running, seen, done, ran,
                   litter, overlaps, crashes>>

Finish(l) ==
    /\ pc[l] = "report"
    /\ pc' = [pc EXCEPT ![l] = "idle"]
    /\ ds' = [ds EXCEPT ![l] = 0]
    /\ applied' = [applied EXCEPT ![l] = Nothing]
    /\ UNCHANGED <<wanted, diskVars, lastDesired, todo, running, obsVars, crashes>>

\* The status report: one state for each module of the desired state.
Report(l) ==
    /\ Finish(l)
    /\ reported' = [rev |-> ds[l], states |-> applied[l]]
    /\ UNCHANGED fails

\* It is not repeated when it is lost.
ReportLost(l) ==
    /\ Finish(l)
    /\ Fail
    /\ UNCHANGED reported

Reconcile(l) ==
    \/ Load(l) \/ LoadFails(l)
    \/ \E k \in Keys :
          Unpack(l, k) \/ DownloadFails(l, k) \/ Forget(l, k) \/ RemoveFails(l, k)
    \/ Run(l) \/ RunFails(l)
    \/ Truncate(l) \/ Write(l) \/ SaveFails(l) \/ WriteFails(l)
    \/ Report(l) \/ ReportLost(l)

\* The agent dies and starts again: only its disk survives.
Crash ==
    /\ crashes < MaxCrashes
    /\ crashes' = crashes + 1
    /\ lastDesired' = 0
    /\ pc' = [l \in Loops |-> "idle"]
    /\ ds' = [l \in Loops |-> 0]
    /\ applied' = [l \in Loops |-> Nothing]
    /\ todo' = [l \in Loops |-> {}]
    /\ running' = [l \in Loops |-> NoKey]
    /\ UNCHANGED <<serverVars, diskVars, obsVars, fails>>

Next ==
    \/ Change
    \/ \E rev \in 1..Len(wanted) : Receive(rev)
    \/ Retry
    \/ \E l \in Loops : Reconcile(l)
    \/ Crash

Spec == Init /\ [][Next]_vars

\* The stream delivers the newest desired state in the end, between whatever
\* older ones are still under way (Delivery's Converges), the retry ticker
\* ticks and a reconcile under way goes on.
Fairness ==
    /\ SF_vars(lastDesired # Len(wanted) /\ Receive(Len(wanted)))
    /\ WF_vars(Retry)
    /\ \A l \in Loops : WF_vars(Reconcile(l))

LiveSpec == Spec /\ Fairness

------------------------------------------------------------------------------
(* Properties                                                               *)

TypeOK ==
    /\ wanted \in Seq(Desired)
    /\ reported.rev \in 0..seen /\ reported.states \in [Keys -> States]
    /\ file \in [Keys -> States]
    /\ dirs \subseteq {Dir[k] : k \in Keys}
    /\ lastDesired \in 0..seen
    /\ pc \in [Loops -> Places]
    /\ ds \in [Loops -> 0..seen]
    /\ applied \in [Loops -> [Keys -> States]]
    /\ todo \in [Loops -> SUBSET Keys]
    /\ running \in [Loops -> Keys \cup {NoKey}]
    /\ \A l \in Loops : running[l] \in todo[l] \cup {NoKey}
    /\ seen \in 0..Len(wanted)
    /\ done \in [Keys -> 0..MaxRuns]
    /\ ran \subseteq Keys
    /\ overlaps \in 0..MaxOverlaps
    /\ lapses \in Nat /\ crashes \in Nat

Idle == \A l \in Loops : pc[l] = "idle"

\* Runs that may be repeated: two for each reconcile that starts during another
\* (each loop runs what neither has recorded, and the file they both write may be
\* torn), one for each death and each time applied.json cannot be used.
Repeats == 2 * overlaps + crashes + lapses

\* A module that has run successfully is not run again while it is wanted
\* (reconcile: "executed once per (name, version, config) tuple"); "wanted"
\* ends when reconcile forgets it.  Deaths, overlapping loops and a disk that
\* fails may each repeat it, so many times and no more.
RunsOnce == \A k \in Keys : done[k] <= 1 + Repeats

\* The agent never says, to the server or to its own disk, that a module was
\* applied when no run of it has ever succeeded: through failures, overlaps,
\* torn files and deaths at any step.
NothingClaimedUnrun ==
    /\ \A k \in Keys : file[k] = "applied" => k \in ran
    /\ \A k \in Keys : reported.states[k] = "applied" => k \in ran

\* Between reconciles no directory is left that applied.json does not account
\* for (reconcile: without forgetting, "the unpacked module directories grow
\* for the life of the machine") but those whose removal has failed, as long as
\* loops do not overlap, the agent does not die and applied.json can be used.
NoOrphanDirs ==
    Idle /\ Repeats = 0 =>
        dirs \subseteq litter \cup {Dir[k] : k \in {j \in Keys : file[j] # "none"}}

\* Between reconciles the directory of every module that is applied and still
\* wanted is there ("Forget anything no longer desired").
WantedDirsKept ==
    Idle => \A k \in Keys : file[k] = "applied" => Dir[k] \in dirs

\* Once the operator is done, the server is told that every module of the last
\* desired state is applied, and is not told otherwise later (retryLoop:
\* "modules that failed transiently converge without waiting for the next
\* desired-state change").
Converges ==
    <>[](/\ reported.rev = Len(wanted)
         /\ \A k \in wanted[Len(wanted)] : reported.states[k] = "applied")
==============================================================================
