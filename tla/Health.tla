-------------------------------- MODULE Health --------------------------------
(***************************************************************************)
(* Whether a machine is up, as the fleet page shows and announces it: the  *)
(* agent's heartbeatLoop and its scan for updates (agent/agent.go,         *)
(* agent/updates.go), what the server knows of it (handleHeartbeat,        *)
(* handleLiveAll), and the page's polls, banners, removal and reconnection *)
(* (server/dashboard.go).                                                  *)
(*                                                                         *)
(* Time is counted in heartbeat intervals.  Instead of a time the model    *)
(* keeps how long ago it was, up to Old.  A Tick waits for whatever is due *)
(* at once; requests take no time, or hang.  Page and server have one      *)
(* clock, the agent's differs by Offset.  A machine's record, samples and  *)
(* banners are its own, so one machine is enough.                          *)
(***************************************************************************)
EXTENDS Integers, FiniteSets

CONSTANTS
    DownAfter,   \* DOWN_AFTER: 120 s
    Fresh,       \* liveFreshness: 30 s
    Scan,        \* the longest scan for updates: 60 or 90 s
    Offsets,     \* how old a sample may be when it is stamped, negative
                 \* when the agent's clock is ahead
    Polls,       \* polls that may be on their way at a time, as numbers
    MaxUpsets    \* bound: failures, hanging requests, deaths, restarts, scans
                 \* after the first, and what the operator does

ASSUME HealthAssumption ==
    /\ {DownAfter, Fresh, Scan, MaxUpsets} \subseteq Nat /\ DownAfter > 0
    /\ Offsets \subseteq Int
    /\ Polls \subseteq Nat \ {0}

\* Heartbeats that must be missed in a row to make a record old.
Enough == DownAfter - 1

Old == IF DownAfter > Fresh THEN DownAfter ELSE Fresh + 1

VARIABLES
    \* --- the agent ---
    on,          \* it runs
    metrics,     \* --metrics-interval is not 0
    offset,      \* of its clock
    beat,        \* heartbeatLoop: "wait", "scan", "post", "hung"
    ticked,      \* its ticker has ticked and nobody has looked
    scanned,     \* the update cache holds a snapshot
    scanLeft,    \* how long the scan may still take
    push,        \* metricsLoop: "wait", "due", "hung"
    \* --- the server ---
    listed,      \* the machine's record
    seen,        \* since its last_seen, if there is a record
    age,         \* of the registry's sample
    \* --- the page ---
    connected,
    polls,       \* polls[k]: Idle, or what has been read for it
    shown,       \* the page has the machine, and draws its card with the others
    prevUp,      \* what it took it for: "up", "down" or "unknown"
    removing,    \* its DELETE is on the way
    \* --- observations ---
    missed,      \* heartbeats that failed since one was stored, up to Enough; Enough
                 \* too when since then the agent was off, hung or scanned
    pushLost,    \* the last sample did not arrive, or with a stamp that was too old
    upsets       \* bound

agentVars == <<on, metrics, offset, beat, ticked, scanned, scanLeft, push>>
serverVars == <<listed, seen, age>>
pageVars == <<connected, polls, shown, prevUp, removing>>
obsVars == <<missed, pushLost>>
vars == <<on, metrics, offset, beat, ticked, scanned, scanLeft, push, listed, seen, age,
          connected, polls, shown, prevUp, removing, missed, pushLost, upsets>>

\* A poll is two requests: for the machines and for their samples.  late: time has
\* gone by since the first was answered.  noBeats, noSamples: the machine had been
\* silent when they were.
Idle == [machines |-> "idle", live |-> "idle", late |-> FALSE, noBeats |-> FALSE, noSamples |-> FALSE]
Asked == [machines |-> "asked", live |-> "asked", late |-> FALSE, noBeats |-> FALSE, noSamples |-> FALSE]

\* An enrolled agent that has not started yet, and a page that is not open.
Init ==
    /\ on = FALSE
    /\ metrics \in BOOLEAN
    /\ offset \in Offsets
    /\ ~metrics => offset = 0
    /\ beat = "wait"
    /\ ticked = FALSE
    /\ scanned = FALSE
    /\ scanLeft = 0
    /\ push = "wait"
    /\ listed = TRUE
    /\ seen = 0
    /\ age = Old
    /\ connected = FALSE
    /\ polls = [k \in Polls |-> Idle]
    /\ shown = FALSE
    /\ prevUp = "unknown"
    /\ removing = FALSE
    /\ missed = Enough
    /\ pushLost = TRUE
    /\ upsets = 0

Upset == upsets < MaxUpsets /\ upsets' = upsets + 1

Older(a) == IF a < Old THEN a + 1 ELSE Old

\* Nothing is due at once.
Tick ==
    /\ on => /\ ~(beat = "wait" /\ ticked)
             /\ beat # "post"
             /\ ~(beat = "scan" /\ scanLeft = 0)
             /\ push # "due"
    /\ ticked' = on
    /\ push' = IF on /\ metrics /\ push = "wait" THEN "due" ELSE push
    /\ scanLeft' = IF beat = "scan" THEN scanLeft - 1 ELSE 0
    /\ seen' = IF listed THEN Older(seen) ELSE Old
    /\ age' = Older(age)
    /\ polls' = [k \in Polls |-> [polls[k] EXCEPT
                    !.late = @ \/ (polls[k].machines = "recent" /\ polls[k].live = "asked")]]
    /\ UNCHANGED <<on, metrics, offset, beat, scanned, listed, connected, shown, prevUp,
                   removing, obsVars, upsets>>

------------------------------------------------------------------------------
(* The agent                                                                *)

\* heartbeatLoop sends at once, metricsLoop after its first interval.
Start ==
    /\ ~on
    /\ on' = TRUE
    /\ ticked' = TRUE
    /\ UNCHANGED <<metrics, offset, beat, scanned, scanLeft, push, serverVars, pageVars,
                   obsVars, upsets>>

\* The process ends, and with it the cache.
Die ==
    /\ on
    /\ Upset
    /\ on' = FALSE
    /\ beat' = "wait"
    /\ ticked' = FALSE
    /\ scanned' = FALSE
    /\ scanLeft' = 0
    /\ push' = "wait"
    /\ missed' = Enough
    /\ pushLost' = TRUE
    /\ UNCHANGED <<metrics, offset, serverVars, pageVars>>

\* updatesSnapshot: a snapshot that is not too old is attached, and otherwise made
\* first, by the loop itself.
Send ==
    /\ on
    /\ beat = "wait"
    /\ ticked
    /\ ticked' = FALSE
    /\ \/ /\ scanned
          /\ beat' = "post"
          /\ UNCHANGED <<scanLeft, missed>>
       \/ /\ ~scanned
          /\ beat' = "scan"
          /\ scanLeft' = Scan
          /\ missed' = Enough
    /\ UNCHANGED <<on, metrics, offset, scanned, push, serverVars, pageVars, pushLost,
                   upsets>>

\* scanApt and scanDnf give up after their timeout; the snapshot, with whatever
\* they have found, is kept either way.
ScanDone ==
    /\ beat = "scan"
    /\ beat' = "post"
    /\ scanned' = TRUE
    /\ UNCHANGED <<on, metrics, offset, ticked, scanLeft, push, serverVars, pageVars, obsVars,
                   upsets>>

\* Six hours have gone by.
Expire ==
    /\ scanned
    /\ Upset
    /\ scanned' = FALSE
    /\ UNCHANGED <<on, metrics, offset, beat, ticked, scanLeft, push, serverVars, pageVars,
                   obsVars>>

\* handleHeartbeat: TouchHeartbeat, or a refusal when the machine was deleted.
Post ==
    /\ beat = "post"
    /\ beat' = "wait"
    /\ seen' = IF listed THEN 0 ELSE seen
    /\ missed' = 0
    /\ UNCHANGED <<on, metrics, offset, ticked, scanned, scanLeft, push, listed, age, pageVars,
                   pushLost, upsets>>

\* The heartbeat is lost or fails; it is not repeated before the next tick.
PostFails ==
    /\ beat = "post"
    /\ Upset
    /\ beat' = "wait"
    /\ missed' = IF missed < Enough THEN missed + 1 ELSE Enough
    /\ UNCHANGED <<on, metrics, offset, ticked, scanned, scanLeft, push, serverVars, pageVars,
                   pushLost>>

\* The client has no timeout: the loop waits for the connection to break.
PostHangs ==
    /\ beat = "post"
    /\ Upset
    /\ beat' = "hung"
    /\ missed' = Enough
    /\ UNCHANGED <<on, metrics, offset, ticked, scanned, scanLeft, push, serverVars, pageVars,
                   pushLost>>

PostBreaks ==
    /\ beat = "hung"
    /\ beat' = "wait"
    /\ UNCHANGED <<on, metrics, offset, ticked, scanned, scanLeft, push, serverVars, pageVars,
                   obsVars, upsets>>

\* handleStatus after a reconcile: SetStatus, which sets last_seen as well.
Report ==
    /\ on
    /\ listed
    /\ Upset
    /\ seen' = 0
    /\ UNCHANGED <<agentVars, listed, age, pageVars, obsVars>>

\* handleMetricsPush: the registry takes samples of deleted machines too.
Push ==
    /\ push = "due"
    /\ push' = "wait"
    /\ age' = offset
    /\ pushLost' = (offset > Fresh)
    /\ UNCHANGED <<on, metrics, offset, beat, ticked, scanned, scanLeft, listed, seen, pageVars,
                   missed, upsets>>

\* The push fails, or hangs.
PushFails ==
    /\ push = "due"
    /\ Upset
    /\ push' \in {"wait", "hung"}
    /\ pushLost' = TRUE
    /\ UNCHANGED <<on, metrics, offset, beat, ticked, scanned, scanLeft, serverVars, pageVars,
                   missed>>

PushBreaks ==
    /\ push = "hung"
    /\ push' = "wait"
    /\ UNCHANGED <<on, metrics, offset, beat, ticked, scanned, scanLeft, serverVars, pageVars,
                   obsVars, upsets>>

------------------------------------------------------------------------------
(* The server                                                               *)

\* The store has last_seen, the registry is empty again.
Restart ==
    /\ Upset
    /\ age' = Old
    /\ pushLost' = TRUE
    /\ UNCHANGED <<agentVars, listed, seen, pageVars, missed>>

\* (faulty) however old the sample is.
IsLive_ever == listed

\* handleLiveAll: stale samples are left out, and so are machines without a record.
IsLive == listed /\ age <= Fresh

\* What makes a machine's record old: heartbeats lost in a row, or an agent that
\* sends none.
Silent == missed = Enough

------------------------------------------------------------------------------
(* The page                                                                 *)

\* The lowest number that is not taken, or 0.
NextPoll == LET free == {k \in Polls : polls[k] = Idle}
            IN  IF free = {} THEN 0 ELSE CHOOSE k \in free : \A j \in free : k <= j

\* refresh, every two seconds whatever has become of earlier ones.
Refresh(k) ==
    /\ connected
    /\ k = NextPoll
    /\ polls' = [polls EXCEPT ![k] = Asked]
    /\ UNCHANGED <<agentVars, serverVars, connected, shown, prevUp, removing, obsVars, upsets>>

\* listMachines: the machine with its last_seen, or without it.
ListMachines(k) ==
    /\ polls[k].machines = "asked"
    /\ polls' = [polls EXCEPT ![k].machines = IF ~listed THEN "gone"
                                              ELSE IF seen < DownAfter THEN "recent" ELSE "old",
                              ![k].noBeats = seen >= DownAfter /\ Silent]
    /\ UNCHANGED <<agentVars, serverVars, connected, shown, prevUp, removing, obsVars, upsets>>

ListLive(k) ==
    /\ polls[k].live = "asked"
    /\ polls' = [polls EXCEPT ![k].live = IF IsLive THEN "live" ELSE "stale",
                              ![k].noSamples = ~IsLive /\ (listed /\ metrics => pushLost)]
    /\ UNCHANGED <<agentVars, serverVars, connected, shown, prevUp, removing, obsVars, upsets>>

\* (faulty) the heartbeat alone decides.
isUp_heartbeat(p) == p.machines = "recent"

\* last_seen or a live sample.
isUp(p) == p.machines = "recent" \/ p.live = "live"

\* (faulty) machines that are missing are kept.
detectTransitions_keep(p) ==
    IF p.machines = "gone" THEN UNCHANGED <<shown, prevUp>>
    ELSE shown' = TRUE /\ prevUp' = IF isUp(p) THEN "up" ELSE "down"

\* The machines are the ones of the answer, each is up or down from now on, and a
\* change is announced.
detectTransitions(p) ==
    IF p.machines = "gone" THEN shown' = FALSE /\ UNCHANGED prevUp
    ELSE shown' = TRUE /\ prevUp' = IF isUp(p) THEN "up" ELSE "down"

\* Both answers are there.  A record that was recent when it was read may be too old
\* by now, since the page looks at its clock.
Refreshed(k) ==
    /\ {polls[k].machines, polls[k].live} \cap {"idle", "asked"} = {}
    /\ \/ detectTransitions(polls[k])
       \/ /\ polls[k].late /\ polls[k].machines = "recent"
          /\ detectTransitions([polls[k] EXCEPT !.machines = "old"])
    /\ polls' = [polls EXCEPT ![k] = Idle]
    /\ UNCHANGED <<agentVars, serverVars, connected, removing, obsVars, upsets>>

RefreshFails(k) ==
    /\ polls[k] # Idle
    /\ Upset
    /\ polls' = [polls EXCEPT ![k] = Idle]
    /\ UNCHANGED <<agentVars, serverVars, connected, shown, prevUp, removing, obsVars>>

\* removeMachine: DELETE ...
RemoveMachine ==
    /\ shown
    /\ listed
    /\ ~removing
    /\ Upset
    /\ listed' = FALSE
    /\ seen' = Old
    /\ removing' = TRUE
    /\ UNCHANGED <<agentVars, age, connected, polls, shown, prevUp, obsVars>>

\* ... and "drop local traces" once it is answered, and poll.  The card goes, but the
\* list of machines is not touched: whatever draws the overview before the next
\* answer, as the closing of the machine's details does, draws the card again.
Removed ==
    /\ removing
    /\ removing' = FALSE
    /\ prevUp' = "unknown"
    /\ IF connected THEN NextPoll \in Polls /\ polls' = [polls EXCEPT ![NextPoll] = Asked]
       ELSE UNCHANGED polls
    /\ UNCHANGED <<agentVars, serverVars, connected, shown, obsVars, upsets>>

Connect ==
    /\ ~connected
    /\ connected' = TRUE
    /\ UNCHANGED <<agentVars, serverVars, polls, shown, prevUp, removing, obsVars, upsets>>

\* disconnect: answers that are on their way are still taken.
Disconnect ==
    /\ connected
    /\ Upset
    /\ connected' = FALSE
    /\ shown' = FALSE
    /\ prevUp' = "unknown"
    /\ UNCHANGED <<agentVars, serverVars, polls, removing, obsVars>>

\* The page is loaded again and connects with the token it has saved.
Boot ==
    /\ connected
    /\ Upset
    /\ polls' = [k \in Polls |-> Idle]
    /\ shown' = FALSE
    /\ prevUp' = "unknown"
    /\ removing' = FALSE
    /\ UNCHANGED <<agentVars, serverVars, connected, obsVars>>

------------------------------------------------------------------------------

AgentStep ==
    \/ Send \/ ScanDone \/ Post \/ PostBreaks \/ Push \/ PushBreaks

PollStep(k) == Refresh(k) \/ ListMachines(k) \/ ListLive(k) \/ Refreshed(k)

Next ==
    \/ Tick
    \/ AgentStep
    \/ Start \/ Die \/ Expire \/ Report
    \/ PostFails \/ PostHangs \/ PushFails
    \/ Restart
    \/ \E k \in Polls : PollStep(k) \/ RefreshFails(k)
    \/ RemoveMachine \/ Removed
    \/ Connect \/ Disconnect \/ Boot

Spec == Init /\ [][Next]_vars

\* Time goes by, loops go on, requests end, and the page polls while it is
\* connected.
LiveSpec ==
    /\ Spec
    /\ WF_vars(Tick)
    /\ WF_vars(AgentStep)
    /\ WF_vars(Removed)
    /\ \A k \in Polls : WF_vars(PollStep(k))

------------------------------------------------------------------------------
(* Properties                                                               *)

TypeOK ==
    /\ {on, metrics, ticked, scanned, listed, connected, shown, removing, pushLost}
            \subseteq BOOLEAN
    /\ offset \in Offsets
    /\ beat \in {"wait", "scan", "post", "hung"}
    /\ push \in {"wait", "due", "hung"}
    /\ scanLeft \in 0..Scan
    /\ seen \in 0..Old
    /\ age \in Offsets \cup (-Old)..Old
    /\ prevUp \in {"up", "down", "unknown"}
    /\ missed \in 0..Enough
    /\ \A k \in Polls :
          /\ polls[k].machines \in {"idle", "asked", "gone", "recent", "old"}
          /\ polls[k].live \in {"idle", "asked", "live", "stale"}

\* An agent that runs is never announced OFFLINE for a heartbeat or two that were
\* lost, nor, as long as its samples arrive, for any number of them or for the
\* loop being held up ("either one counts as up"): neither by the order of polls
\* nor by answers read at different times, unless one comes so late that what it
\* says is no longer true.
NoFalseAlarm ==
    [][\A k \in Polls :
        prevUp = "up" /\ prevUp' = "down" /\ polls'[k] # polls[k] =>
            polls[k].late \/ (polls[k].noBeats /\ polls[k].noSamples)]_vars

\* A machine whose agent is off for good is shown as down in the end ("what makes a
\* dead machine render as "no live data" rather than as a frozen last value"), for a
\* clock that was ahead once the server's has caught up with its last stamp.
DeadIsDown ==
    <>[](~on /\ listed /\ connected) => <>[](shown /\ prevUp = "down")

\* A machine that was removed is not shown in the end, although its agent may go on
\* and answers from before the removal, or the list that the page has, bring its card
\* back for a while ("so the card cannot briefly reappear").
RemovedIsForgotten ==
    <>[](~listed /\ connected) => <>[]~shown
================================================================================
