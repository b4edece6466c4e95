----------------------------- MODULE LiveMetrics -----------------------------
(***************************************************************************)
(* Live metrics of one machine: the agent's metricsLoop and a GPU collector*)
(* push samples, handleMetricsPush keeps the last one in the LiveRegistry, *)
(* and a dashboard shows it, from a poll of all machines every two seconds *)
(* and, while the machine is open, from handleLiveStream.                  *)
(*                                                                         *)
(* What a sample says is reduced to which reading of the core statistics   *)
(* and which of the GPUs it holds, and the second it is stamped with, so   *)
(* that several readings may have one stamp.  A machine's samples, topic   *)
(* and chart are its own, so one machine is enough.                        *)
(***************************************************************************)
EXTENDS Naturals, Sequences, FiniteSets

CONSTANTS
    Fresh,         \* liveFreshness, in the seconds of this model
    MaxCore,       \* bound: readings of the agent
    MaxGPU,        \* bound: readings of the collector
    MaxTime,       \* bound: seconds
    MaxPolls,      \* bound: polls whose answers are on their way
    MaxWire,       \* bound: frames on their way; a full connection blocks
    MaxUpsets      \* bound: failing pushes, losses, restarts, deletions

ASSUME LiveAssumption ==
    /\ {Fresh, MaxCore, MaxGPU, MaxTime, MaxPolls, MaxWire, MaxUpsets} \subseteq Nat
    /\ MaxTime # 0

VARIABLES
    now,         \* the clock
    readings,    \* readings["agent"], readings["collector"]: how many so far
    pushes,      \* requests in handleMetricsPush
    sample,      \* the registry's sample of the machine
    listed,      \* the machine's record exists
    handler,     \* handleLiveStream: "none", "subscribe", "read", "write", "wait"
    signal,      \* its slot on the bus
    held,        \* the sample it has read last
    wire,        \* frames on their way to the dashboard
    polls,       \* answers to polls on their way
    selected,    \* the machine is open in the dashboard
    fetching,    \* it has asked for a stream and not heard of its end
    streaming,   \* the answer has begun
    lastAt,      \* the stamp up to which the chart goes
    shown,       \* the last sample of the chart
    \* --- observations ---
    overlapped,  \* a push was handled next to another
    crossed,     \* a poll was charted while an older frame was on its way
    upsets       \* bound

agentVars == <<now, readings>>
serverVars == <<pushes, sample, listed>>
streamVars == <<handler, signal, held, wire>>
pageVars == <<polls, selected, fetching, streaming, lastAt, shown, crossed>>
vars == <<now, readings, pushes, sample, listed, handler, signal, held, wire, polls,
          selected, fetching, streaming, lastAt, shown, overlapped, crossed, upsets>>

Nothing == [at |-> 0, core |-> 0, gpu |-> 0]

Samples == [at : 0..MaxTime, core : 0..MaxCore, gpu : 0..MaxGPU]

Senders == {"agent", "collector"}

Init ==
    /\ now = 1
    /\ readings = [who \in Senders |-> 0]
    /\ pushes = {}
    /\ sample = Nothing
    /\ listed = TRUE
    /\ handler = "none"
    /\ signal = FALSE
    /\ held = Nothing
    /\ wire = <<>>
    /\ polls = {}
    /\ selected = FALSE
    /\ fetching = FALSE
    /\ streaming = FALSE
    /\ lastAt = 0
    /\ shown = Nothing
    /\ overlapped = FALSE
    /\ crossed = FALSE
    /\ upsets = 0

Upset == upsets < MaxUpsets /\ upsets' = upsets + 1

Clock ==
    /\ now < MaxTime
    /\ now' = now + 1
    /\ UNCHANGED <<readings, serverVars, streamVars, pageVars, overlapped, upsets>>

------------------------------------------------------------------------------
(* Pushes                                                                   *)

\* A loop goes on when its push has been answered or has failed.
Due(who) ==
    /\ readings[who] < (IF who = "agent" THEN MaxCore ELSE MaxGPU)
    /\ ~\E p \in pushes : p.from = who /\ p.awaited

Reading(who) ==
    [at |-> now,
     core |-> IF who = "agent" THEN readings[who] + 1 ELSE 0,
     gpu |-> IF who = "collector" THEN readings[who] + 1 ELSE 0]

\* A tick of metricsLoop, or a round of the collector that goes through the
\* agent's local listener: a push without core statistics is to be merged.
Push(who) ==
    /\ Due(who)
    /\ readings' = [readings EXCEPT ![who] = @ + 1]
    /\ pushes' = pushes \cup {[from |-> who, s |-> Reading(who), awaited |-> TRUE,
                               step |-> IF who = "agent" THEN "set" ELSE "get"]}
    /\ overlapped' = (overlapped \/ pushes # {})
    /\ UNCHANGED <<now, sample, listed, streamVars, pageVars, upsets>>

\* The push is lost or refused; the next reading is taken all the same.
PushFails(who) ==
    /\ Due(who)
    /\ Upset
    /\ readings' = [readings EXCEPT ![who] = @ + 1]
    /\ UNCHANGED <<now, serverVars, streamVars, pageVars, overlapped>>

\* The sender hears of an error while the server goes on with the request.
Abandon(p) ==
    /\ p \in pushes
    /\ p.awaited
    /\ Upset
    /\ pushes' = (pushes \ {p}) \cup {[p EXCEPT !.awaited = FALSE]}
    /\ UNCHANGED <<agentVars, sample, listed, streamVars, pageVars, overlapped>>

\* (faulty) a sample of GPUs takes the place of the last one.
Merge_replace(p) ==
    /\ p \in pushes
    /\ p.step = "get"
    /\ pushes' = (pushes \ {p}) \cup {[p EXCEPT !.step = "set"]}
    /\ UNCHANGED <<agentVars, sample, listed, streamVars, pageVars, overlapped, upsets>>

\* Live.Get, if the sample is to be merged.
Merge(p) ==
    /\ p \in pushes
    /\ p.step = "get"
    /\ LET merged == IF sample = Nothing THEN p.s ELSE [p.s EXCEPT !.core = sample.core] IN
       pushes' = (pushes \ {p}) \cup {[p EXCEPT !.step = "set", !.s = merged]}
    /\ UNCHANGED <<agentVars, sample, listed, streamVars, pageVars, overlapped, upsets>>

\* (faulty) a merged sample is not announced.
Set_silent(p) ==
    /\ p \in pushes
    /\ p.step = "set"
    /\ sample' = p.s
    /\ pushes' = (pushes \ {p}) \cup
                    (IF p.from = "agent" THEN {[p EXCEPT !.step = "publish"]} ELSE {})
    /\ UNCHANGED <<agentVars, listed, streamVars, pageVars, overlapped, upsets>>

\* Live.Set
Set(p) ==
    /\ p \in pushes
    /\ p.step = "set"
    /\ sample' = p.s
    /\ pushes' = (pushes \ {p}) \cup {[p EXCEPT !.step = "publish"]}
    /\ UNCHANGED <<agentVars, listed, streamVars, pageVars, overlapped, upsets>>

\* Bus.Publish: the handler is subscribed from its second step on.
Publish(p) ==
    /\ p \in pushes
    /\ p.step = "publish"
    /\ pushes' = pushes \ {p}
    /\ signal' = (handler \in {"read", "write", "wait"})
    /\ UNCHANGED <<agentVars, sample, listed, handler, held, wire, pageVars, overlapped, upsets>>

\* Only the store knows of the deletion: pushes and open streams go on.
DeleteMachine ==
    /\ listed
    /\ Upset
    /\ listed' = FALSE
    /\ UNCHANGED <<agentVars, pushes, sample, streamVars, pageVars, overlapped>>

------------------------------------------------------------------------------
(* The stream                                                               *)

\* openDetail, or the page 3 s after a stream has failed.
StartStream ==
    /\ handler' = IF listed THEN "subscribe" ELSE "none"
    /\ signal' = FALSE
    /\ held' = Nothing
    /\ wire' = <<>>
    /\ fetching' = listed
    /\ streaming' = FALSE

Subscribe ==
    /\ handler = "subscribe"
    /\ handler' = "read"
    /\ UNCHANGED <<signal, held, wire, agentVars, serverVars, pageVars, overlapped, upsets>>

\* send: Live.Get ...
Read ==
    /\ handler = "read"
    /\ held' = sample
    /\ handler' = IF sample = Nothing THEN "wait" ELSE "write"
    /\ UNCHANGED <<signal, wire, agentVars, serverVars, pageVars, overlapped, upsets>>

\* ... and the frame.
Write ==
    /\ handler = "write"
    /\ Len(wire) < MaxWire
    /\ handler' = "wait"
    /\ wire' = Append(wire, held)
    /\ UNCHANGED <<signal, held, agentVars, serverVars, pageVars, overlapped, upsets>>

Wake ==
    /\ handler = "wait"
    /\ signal
    /\ signal' = FALSE
    /\ handler' = "read"
    /\ held' = Nothing
    /\ UNCHANGED <<wire, agentVars, serverVars, pageVars, overlapped, upsets>>

\* The admin listener's ReadTimeout: what has been written arrives, and then
\* the end.
Quit ==
    /\ handler = "wait"
    /\ Upset
    /\ handler' = "none"
    /\ signal' = FALSE
    /\ held' = Nothing
    /\ UNCHANGED <<wire, agentVars, serverVars, pageVars, overlapped>>

------------------------------------------------------------------------------
(* The dashboard                                                            *)

\* (faulty) a poll is charted whatever its stamp.
Chart_unchecked(s, fromStream) ==
    LET skipped == ~fromStream /\ streaming IN
    /\ lastAt' = IF skipped \/ lastAt > s.at THEN lastAt ELSE s.at
    /\ shown' = IF skipped THEN shown ELSE s

\* ingest: frames are always taken, polls only when no stream is read and when
\* they are later than the chart.
Chart(s, fromStream) ==
    LET skipped == ~fromStream /\ (streaming \/ s.at <= lastAt) IN
    /\ lastAt' = IF skipped \/ lastAt > s.at THEN lastAt ELSE s.at
    /\ shown' = IF skipped THEN shown ELSE s

IsFresh(s) == s # Nothing /\ now - s.at <= Fresh

\* handleLiveAll.  An answer without the machine changes no chart.
Poll ==
    /\ Cardinality(polls) < MaxPolls
    /\ listed
    /\ IsFresh(sample)
    /\ polls' = polls \cup {sample}
    /\ UNCHANGED <<agentVars, serverVars, streamVars, selected, fetching, streaming,
                   lastAt, shown, crossed, overlapped, upsets>>

\* refresh: the answer is charted.
PollAnswered(s) ==
    /\ s \in polls
    /\ polls' = polls \ {s}
    /\ Chart(s, FALSE)
    /\ crossed' = (crossed \/ (~streaming /\ (wire # <<>> \/ handler = "write")))
    /\ UNCHANGED <<agentVars, serverVars, streamVars, selected, fetching, streaming,
                   overlapped, upsets>>

PollLost(s) ==
    /\ s \in polls
    /\ Upset
    /\ polls' = polls \ {s}
    /\ UNCHANGED <<agentVars, serverVars, streamVars, selected, fetching, streaming,
                   lastAt, shown, crossed, overlapped>>

OpenDetail ==
    /\ ~selected
    /\ selected' = TRUE
    /\ StartStream
    /\ UNCHANGED <<agentVars, serverVars, polls, lastAt, shown, crossed, overlapped, upsets>>

\* closeDetail aborts the stream.
CloseDetail ==
    /\ selected
    /\ selected' = FALSE
    /\ handler' = "none"
    /\ signal' = FALSE
    /\ held' = Nothing
    /\ wire' = <<>>
    /\ fetching' = FALSE
    /\ streaming' = FALSE
    /\ UNCHANGED <<agentVars, serverVars, polls, lastAt, shown, crossed, overlapped, upsets>>

\* The answer begins with the first frame or keepalive.
Begin ==
    /\ fetching
    /\ ~streaming
    /\ wire # <<>> \/ handler \in {"wait", "none"}
    /\ streaming' = TRUE
    /\ UNCHANGED <<agentVars, serverVars, streamVars, polls, selected, fetching,
                   lastAt, shown, crossed, overlapped, upsets>>

Frame ==
    /\ streaming
    /\ wire # <<>>
    /\ wire' = Tail(wire)
    /\ Chart(Head(wire), TRUE)
    /\ UNCHANGED <<agentVars, serverVars, handler, signal, held, polls, selected, fetching,
                   streaming, crossed, overlapped, upsets>>

\* (faulty) the page goes on taking the stream for the source of the chart.
Done_forgotten ==
    /\ streaming
    /\ fetching
    /\ handler = "none"
    /\ wire = <<>>
    /\ fetching' = FALSE
    /\ UNCHANGED <<agentVars, serverVars, streamVars, polls, selected, streaming, lastAt,
                   shown, crossed, overlapped, upsets>>

\* x.done: the stream has ended, and it is not asked for again.
Done ==
    /\ streaming
    /\ handler = "none"
    /\ wire = <<>>
    /\ fetching' = FALSE
    /\ streaming' = FALSE
    /\ UNCHANGED <<agentVars, serverVars, streamVars, polls, selected, lastAt, shown,
                   crossed, overlapped, upsets>>

\* The connection breaks; frames are lost, and the page asks again.
Drop ==
    /\ fetching
    /\ Upset
    /\ StartStream
    /\ UNCHANGED <<agentVars, serverVars, polls, selected, lastAt, shown, crossed, overlapped>>

\* Requests end with the server, and the registry is empty afterwards.
Restart ==
    /\ Upset
    /\ pushes' = {}
    /\ sample' = Nothing
    /\ polls' = {}
    /\ IF fetching THEN StartStream ELSE UNCHANGED <<streamVars, fetching, streaming>>
    /\ UNCHANGED <<agentVars, listed, selected, lastAt, shown, crossed, overlapped>>

------------------------------------------------------------------------------

ServeStep == \E p \in pushes : Merge(p) \/ Set(p) \/ Publish(p)

StreamStep == Subscribe \/ Read \/ Write \/ Wake

PageStep == Begin \/ Frame \/ Done

Next ==
    \/ Clock
    \/ \E who \in Senders : Push(who) \/ PushFails(who)
    \/ \E p \in pushes : Abandon(p)
    \/ ServeStep
    \/ StreamStep \/ Quit
    \/ PageStep
    \/ Poll
    \/ \E s \in polls : PollAnswered(s) \/ PollLost(s)
    \/ OpenDetail \/ CloseDetail
    \/ Drop \/ Restart \/ DeleteMachine

Spec == Init /\ [][Next]_vars

\* Handlers run, the page reads what arrives and polls on.
LiveSpec ==
    /\ Spec
    /\ WF_vars(ServeStep)
    /\ WF_vars(StreamStep)
    /\ WF_vars(PageStep)
    /\ WF_vars(Poll)
    /\ WF_vars(\E s \in polls : PollAnswered(s))

------------------------------------------------------------------------------
(* Properties                                                               *)

TypeOK ==
    /\ now \in 1..MaxTime
    /\ readings \in [Senders -> Nat]
    /\ readings["agent"] <= MaxCore /\ readings["collector"] <= MaxGPU
    /\ sample \in Samples
    /\ pushes \subseteq [from : Senders, s : Samples, awaited : BOOLEAN,
                         step : {"get", "set", "publish"}]
    /\ \A p, q \in pushes : p.from = q.from /\ p.awaited /\ q.awaited => p = q
    /\ handler \in {"none", "subscribe", "read", "write", "wait"}
    /\ signal \in BOOLEAN
    /\ signal => handler \in {"read", "write", "wait"}
    /\ wire \in Seq(Samples)
    /\ polls \cup {held, shown} \subseteq Samples
    /\ lastAt \in Nat
    /\ shown.at <= lastAt
    /\ streaming => fetching
    /\ fetching => selected

\* A stream never stays behind: a handler that waits without a signal has read
\* what the registry holds, or the push that set it has its Publish before it
\* ("The SSE stream emits exactly one frame per agent push": none is missed in
\* the end, although signals are dropped).
StreamFollows ==
    handler = "wait" /\ ~signal =>
        held = sample \/ sample = Nothing \/ \E p \in pushes : p.step = "publish"

\* "merge it into the existing sample rather than replacing": core statistics
\* never go back or get lost in the registry but with all of it, unless pushes
\* are handled next to each other.
CoreKept ==
    [][~overlapped' => sample' = Nothing \/ sample'.core >= sample.core]_vars

\* Whatever of polls and streams feeds the chart, it does not go back in time,
\* and not to an older reading, unless pushes overlap or an older frame is on
\* its way while a poll is charted.  A registry that was emptied may hold no
\* core reading for a while.
ChartAscends ==
    [][~overlapped' /\ ~crossed' =>
          /\ shown'.at >= shown.at
          /\ shown'.core = 0 \/ shown'.core >= shown.core]_vars

\* "the poll keeps the charts alive meanwhile": in the end the chart goes as
\* far as the registry, while the machine is listed and its sample is fresh,
\* whatever has become of the stream; unless the machine is opened and closed
\* for ever.
ChartCatchesUp ==
    <>[][selected' = selected]_vars =>
        <>[](listed /\ IsFresh(sample) => lastAt >= sample.at)
==============================================================================
