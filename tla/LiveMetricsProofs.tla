--------------------------- MODULE LiveMetricsProofs ---------------------------
(***************************************************************************)
(* For any number of readings, polls, frames and failures: the types, that *)
(* no stream stays behind the registry, and that merging keeps the core    *)
(* statistics; and that the chart never goes back.                         *)
(*                                                                         *)
(* StreamFollows speaks of a handler that waits.  It must hold already     *)
(* before the frame is written, since a connection may block (Followed).   *)
(* CoreKept needs that a push which is not handled next to another cannot  *)
(* have read an older sample than the one it overwrites (Merged).          *)
(* ChartAscends needs that whatever is still on its way is in order        *)
(* (Ordered).                                                              *)
(***************************************************************************)
EXTENDS LiveMetrics, TLAPS

Publishing == \E p \in pushes : p.step = "publish"

Followed ==
    handler \in {"write", "wait"} /\ ~signal =>
        held = sample \/ sample = Nothing \/ Publishing

Merged ==
    /\ sample.core <= readings["agent"]
    /\ \A p \in pushes : p.s.core <= readings["agent"]
    /\ ~overlapped =>
        /\ \A p, q \in pushes : p = q
        /\ \A p \in pushes : p.step = "set" => p.s.core >= sample.core

LEMMA NothingIsASample == Nothing \in Samples /\ Nothing.core = 0
  BY LiveAssumption DEF Nothing, Samples

\* ingest: what is charted is a sample, and the chart goes as far as it.
LEMMA ChartTyped ==
    ASSUME NEW s \in Samples, NEW b \in BOOLEAN, TypeOK, Chart(s, b)
    PROVE  shown' \in Samples /\ lastAt' \in Nat /\ shown'.at <= lastAt'
<1> DEFINE skipped == ~b /\ (streaming \/ s.at <= lastAt)
<1>1. s.at \in Nat /\ shown \in Samples /\ lastAt \in Nat /\ shown.at <= lastAt
  BY LiveAssumption DEF TypeOK, Samples
<1>2. /\ lastAt' = IF skipped \/ lastAt > s.at THEN lastAt ELSE s.at
      /\ shown' = IF skipped THEN shown ELSE s
  BY DEF Chart
<1> HIDE DEF skipped
<1> QED
  BY <1>1, <1>2

LEMMA StartTyped ==
    ASSUME StartStream
    PROVE  /\ handler' \in {"subscribe", "none"}
           /\ signal' = FALSE
           /\ wire' \in Seq(Samples)
           /\ held' \in Samples
           /\ streaming' = FALSE
  BY NothingIsASample DEF StartStream

LEMMA HeadTailTyped ==
    ASSUME NEW S, NEW q \in Seq(S), q # <<>>
    PROVE  Head(q) \in S /\ Tail(q) \in Seq(S)
  OBVIOUS

LEMMA InitType == Init => TypeOK
<1> SUFFICES ASSUME Init PROVE TypeOK
  OBVIOUS
<1>1. wire = <<>> /\ wire \in Seq(Samples)
  BY DEF Init
<1>2. now \in 1..MaxTime /\ readings \in [Senders -> Nat]
      /\ readings["agent"] <= MaxCore /\ readings["collector"] <= MaxGPU
  BY LiveAssumption DEF Init, Senders
<1>3. shown.at <= lastAt
  BY DEF Init, Nothing
<1> QED
  BY <1>1, <1>2, <1>3, NothingIsASample DEF Init, TypeOK

LEMMA NextType == TypeOK /\ [Next]_vars => TypeOK'
<1> SUFFICES ASSUME TypeOK, [Next]_vars PROVE TypeOK'
  OBVIOUS
<1> USE LiveAssumption, NothingIsASample DEF TypeOK
<1>1. CASE UNCHANGED vars
  BY <1>1 DEF vars
<1>2. CASE Clock
  <2>1. now' \in 1..MaxTime
    BY <1>2 DEF Clock
  <2>2. UNCHANGED <<readings, serverVars, streamVars, pageVars>>
    BY <1>2 DEF Clock
  <2> QED
    BY <2>1, <2>2 DEF serverVars, streamVars, pageVars
<1>3. ASSUME NEW who \in Senders, Push(who) \/ PushFails(who)
      PROVE  TypeOK'
  <2>1. readings' = [readings EXCEPT ![who] = @ + 1] /\ Due(who)
    BY <1>3 DEF Push, PushFails
  <2>2. /\ readings' \in [Senders -> Nat]
        /\ readings'["agent"] <= MaxCore /\ readings'["collector"] <= MaxGPU
    BY <2>1 DEF Due, Senders
  <2>3. CASE Push(who)
    <3>0. now \in 0..MaxTime /\ readings[who] \in Nat
          /\ (who = "agent" => readings[who] + 1 \in 0..MaxCore)
          /\ (who = "collector" => readings[who] + 1 \in 0..MaxGPU)
      BY <2>1 DEF Due, Senders
    <3>1. Reading(who) \in Samples
      BY <3>0 DEF Reading, Samples, Senders
    <3>2. /\ pushes' \subseteq [from : Senders, s : Samples, awaited : BOOLEAN,
                              step : {"get", "set", "publish"}]
          /\ \A p, q \in pushes' : p.from = q.from /\ p.awaited /\ q.awaited => p = q
      <4> DEFINE new == [from |-> who, s |-> Reading(who), awaited |-> TRUE,
                         step |-> IF who = "agent" THEN "set" ELSE "get"]
      <4>1. pushes' = pushes \cup {new}
        BY <2>3 DEF Push
      <4>2. new \in [from : Senders, s : Samples, awaited : BOOLEAN,
                     step : {"get", "set", "publish"}]
        BY <3>1
      <4>3. new.from = who /\ \A p \in pushes : ~(p.from = who /\ p.awaited)
        BY <2>1 DEF Due
      <4> HIDE DEF new
      <4> QED
        BY <4>1, <4>2, <4>3
    <3> QED
      BY <2>2, <2>3, <3>2 DEF Push, streamVars, pageVars
  <2>4. CASE PushFails(who)
    BY <2>2, <2>4 DEF PushFails, serverVars, streamVars, pageVars
  <2> QED
    BY <1>3, <2>3, <2>4
<1>4. ASSUME NEW p \in pushes, Abandon(p) \/ Merge(p) \/ Set(p) \/ Publish(p)
      PROVE  TypeOK'
  <2>0. p \in [from : Senders, s : Samples, awaited : BOOLEAN,
               step : {"get", "set", "publish"}]
    OBVIOUS
  <2>1. CASE Abandon(p)
    BY <2>0, <2>1 DEF Abandon, agentVars, streamVars, pageVars
  <2>2. CASE Merge(p)
    <3>1. \E s \in Samples :
             pushes' = (pushes \ {p}) \cup {[p EXCEPT !.step = "set", !.s = s]}
      <4>1. p.s \in Samples /\ [p.s EXCEPT !.core = sample.core] \in Samples
        BY <2>0 DEF Samples
      <4> QED
        BY <2>2, <4>1 DEF Merge
    <3> QED
      BY <2>0, <2>2, <3>1 DEF Merge, agentVars, streamVars, pageVars
  <2>3. CASE Set(p)
    BY <2>0, <2>3 DEF Set, agentVars, streamVars, pageVars
  <2>4. CASE Publish(p)
    BY <2>0, <2>4 DEF Publish, agentVars, pageVars
  <2> QED
    BY <1>4, <2>1, <2>2, <2>3, <2>4
<1>5. CASE StreamStep \/ Quit
  <2>1. CASE Subscribe
    BY <2>1 DEF Subscribe, agentVars, serverVars, pageVars
  <2>2. CASE Read
    BY <2>2 DEF Read, agentVars, serverVars, pageVars
  <2>3. CASE Write
    BY <2>3 DEF Write, agentVars, serverVars, pageVars
  <2>4. CASE Wake
    BY <2>4 DEF Wake, agentVars, serverVars, pageVars
  <2>5. CASE Quit
    BY <2>5 DEF Quit, agentVars, serverVars, pageVars
  <2> QED
    BY <1>5, <2>1, <2>2, <2>3, <2>4, <2>5 DEF StreamStep
<1>6. CASE PageStep
  <2>1. CASE Begin
    BY <2>1 DEF Begin, agentVars, serverVars, streamVars
  <2>2. CASE Frame
    <3>0. wire \in Seq(Samples) /\ wire # <<>> /\ Chart(Head(wire), TRUE) /\ wire' = Tail(wire)
      BY <2>2 DEF Frame
    <3>1. Head(wire) \in Samples /\ Tail(wire) \in Seq(Samples)
      <4> HIDE DEF TypeOK
      <4> QED
        BY <3>0, HeadTailTyped
    <3>2. shown' \in Samples /\ lastAt' \in Nat /\ shown'.at <= lastAt'
      BY <3>0, <3>1, ChartTyped
    <3> QED
      BY <2>2, <3>0, <3>1, <3>2 DEF Frame, agentVars, serverVars
  <2>3. CASE Done
    BY <2>3 DEF Done, agentVars, serverVars, streamVars
  <2> QED
    BY <1>6, <2>1, <2>2, <2>3 DEF PageStep
<1>7. CASE Poll
  BY <1>7 DEF Poll, agentVars, serverVars, streamVars
<1>8. ASSUME NEW s \in polls, PollAnswered(s) \/ PollLost(s) PROVE TypeOK'
  <2>1. CASE PollAnswered(s)
    <3>1. shown' \in Samples /\ lastAt' \in Nat /\ shown'.at <= lastAt'
      BY <2>1, ChartTyped DEF PollAnswered
    <3> QED
      BY <2>1, <3>1 DEF PollAnswered, agentVars, serverVars, streamVars
  <2>2. CASE PollLost(s)
    BY <2>2 DEF PollLost, agentVars, serverVars, streamVars
  <2> QED
    BY <1>8, <2>1, <2>2
<1>9. CASE OpenDetail
  BY <1>9, StartTyped DEF OpenDetail, StartStream, agentVars, serverVars
<1>10. CASE CloseDetail
  <2>1. wire' = <<>> /\ wire' \in Seq(Samples)
    BY <1>10 DEF CloseDetail
  <2> QED
    BY <1>10, <2>1 DEF CloseDetail, agentVars, serverVars
<1>11. CASE Drop
  BY <1>11, StartTyped DEF Drop, StartStream, agentVars, serverVars
<1>12. CASE Restart
  BY <1>12, StartTyped DEF Restart, StartStream, agentVars, streamVars
<1>13. CASE DeleteMachine
  BY <1>13 DEF DeleteMachine, agentVars, streamVars, pageVars
<1> QED
  BY <1>1, <1>2, <1>3, <1>4, <1>5, <1>6, <1>7, <1>8, <1>9, <1>10, <1>11, <1>12, <1>13
  DEF Next, ServeStep

LEMMA InitFollowed == Init => Followed
  BY DEF Init, Followed

LEMMA NextFollowed == TypeOK /\ Followed /\ [Next]_vars => Followed'
<1> SUFFICES ASSUME TypeOK, Followed, [Next]_vars PROVE Followed'
  OBVIOUS
<1> USE DEF Followed
<1>1. CASE UNCHANGED vars
  BY <1>1 DEF vars, Publishing
<1>2. CASE Clock
  BY <1>2 DEF Clock, serverVars, streamVars, Publishing
<1>3. ASSUME NEW who \in Senders, Push(who) \/ PushFails(who) PROVE Followed'
  BY <1>3 DEF Push, PushFails, serverVars, streamVars, Publishing
<1>4. ASSUME NEW p \in pushes, Abandon(p) \/ Merge(p) \/ Set(p) \/ Publish(p)
      PROVE  Followed'
  <2>0. p \in [from : Senders, s : Samples, awaited : BOOLEAN,
               step : {"get", "set", "publish"}]
    BY DEF TypeOK
  <2>1. CASE Abandon(p)
    <3>1. [p EXCEPT !.awaited = FALSE].step = p.step
      BY <2>0
    <3>2. Publishing => Publishing'
      BY <2>1, <3>1 DEF Abandon, Publishing
    <3> QED
      BY <2>1, <3>2 DEF Abandon, streamVars
  <2>2. CASE Merge(p)
    BY <2>2 DEF Merge, streamVars, Publishing
  <2>3. CASE Set(p)
    <3>1. [p EXCEPT !.step = "publish"].step = "publish"
      BY <2>0
    <3>2. Publishing'
      BY <2>3, <3>1 DEF Set, Publishing
    <3> QED
      BY <3>2
  <2>4. CASE Publish(p)
    BY <2>4 DEF Publish
  <2> QED
    BY <1>4, <2>1, <2>2, <2>3, <2>4
<1>5. CASE StreamStep \/ Quit
  <2>1. CASE Subscribe
    BY <2>1 DEF Subscribe
  <2>2. CASE Read
    BY <2>2 DEF Read, serverVars, Publishing
  <2>3. CASE Write
    BY <2>3 DEF Write, serverVars, Publishing
  <2>4. CASE Wake
    BY <2>4 DEF Wake
  <2>5. CASE Quit
    BY <2>5 DEF Quit
  <2> QED
    BY <1>5, <2>1, <2>2, <2>3, <2>4, <2>5 DEF StreamStep
<1>6. CASE PageStep
  BY <1>6 DEF PageStep, Begin, Frame, Done, serverVars, streamVars, Publishing
<1>7. CASE Poll
  BY <1>7 DEF Poll, serverVars, streamVars, Publishing
<1>8. ASSUME NEW s \in polls, PollAnswered(s) \/ PollLost(s) PROVE Followed'
  BY <1>8 DEF PollAnswered, PollLost, serverVars, streamVars, Publishing
<1>9. CASE OpenDetail \/ Drop
  BY <1>9 DEF OpenDetail, Drop, StartStream
<1>10. CASE CloseDetail
  BY <1>10 DEF CloseDetail
<1>11. CASE Restart
  BY <1>11 DEF Restart
<1>12. CASE DeleteMachine
  BY <1>12 DEF DeleteMachine, streamVars, Publishing
<1> QED
  BY <1>1, <1>2, <1>3, <1>4, <1>5, <1>6, <1>7, <1>8, <1>9, <1>10, <1>11, <1>12
  DEF Next, ServeStep

LEMMA InitMerged == Init => Merged
  BY DEF Init, Merged, Nothing, Senders

LEMMA NextMerged == TypeOK /\ Merged /\ [Next]_vars => Merged'
<1> SUFFICES ASSUME TypeOK, Merged, [Next]_vars PROVE Merged'
  OBVIOUS
<1> USE DEF Merged
<1>0. readings["agent"] \in Nat /\ sample \in Samples /\ sample.core \in Nat
  BY LiveAssumption DEF TypeOK, Samples, Senders
<1>1. CASE UNCHANGED vars
  BY <1>1 DEF vars
<1>2. ASSUME NEW who \in Senders, Push(who) \/ PushFails(who) PROVE Merged'
  <2>1. readings' = [readings EXCEPT ![who] = @ + 1] /\ sample' = sample
    BY <1>2 DEF Push, PushFails, serverVars
  <2>2. readings'["agent"] = readings["agent"] + (IF who = "agent" THEN 1 ELSE 0)
    BY <2>1 DEF TypeOK, Senders
  <2>3. \A p \in pushes : p.s.core \in Nat /\ p.s.core <= readings'["agent"]
    BY <1>0, <2>2, LiveAssumption DEF TypeOK, Samples
  <2>4. CASE Push(who)
    <3> DEFINE new == [from |-> who, s |-> Reading(who), awaited |-> TRUE,
                       step |-> IF who = "agent" THEN "set" ELSE "get"]
    <3>1. pushes' = pushes \cup {new} /\ (~overlapped' => ~overlapped /\ pushes = {})
      BY <2>4 DEF Push
    <3>2. new.s.core = (IF who = "agent" THEN readings["agent"] + 1 ELSE 0)
          /\ (new.step = "set" => who = "agent")
      BY DEF Reading
    <3> HIDE DEF new
    <3>3. new.s.core <= readings'["agent"]
          /\ (new.step = "set" => new.s.core >= sample.core)
      BY <1>0, <2>2, <3>2
    <3> QED
      BY <1>0, <2>1, <2>2, <2>3, <3>1, <3>3
  <2>5. CASE PushFails(who)
    BY <1>0, <2>1, <2>2, <2>3, <2>5 DEF PushFails, serverVars
  <2> QED
    BY <1>2, <2>4, <2>5
<1>3. ASSUME NEW p \in pushes, Abandon(p) \/ Merge(p) \/ Set(p) \/ Publish(p)
      PROVE  Merged'
  <2>0. p \in [from : Senders, s : Samples, awaited : BOOLEAN,
               step : {"get", "set", "publish"}]
    BY DEF TypeOK
  <2>1. CASE Abandon(p)
    <3> DEFINE q == [p EXCEPT !.awaited = FALSE]
    <3>1. q.s = p.s /\ q.step = p.step
      BY <2>0
    <3>2. pushes' = (pushes \ {p}) \cup {q}
          /\ UNCHANGED <<readings, sample, overlapped>>
      BY <2>1 DEF Abandon, agentVars
    <3> HIDE DEF q
    <3> QED
      BY <3>1, <3>2
  <2>2. CASE Merge(p)
    <3> DEFINE merged == IF sample = Nothing THEN p.s ELSE [p.s EXCEPT !.core = sample.core]
               q == [p EXCEPT !.step = "set", !.s = merged]
    <3>1. merged.core = (IF sample = Nothing THEN p.s.core ELSE sample.core)
      BY <2>0 DEF Samples
    <3>2. p.s.core \in Nat /\ (sample = Nothing => sample.core = 0)
      BY <2>0, NothingIsASample, LiveAssumption DEF Samples
    <3>3. q.s = merged
      BY <2>0
    <3>4. pushes' = (pushes \ {p}) \cup {q}
          /\ UNCHANGED <<readings, sample, overlapped>>
      BY <2>2 DEF Merge, agentVars
    <3> HIDE DEF merged, q
    <3>5. q.s.core >= sample.core /\ q.s.core <= readings["agent"]
      BY <1>0, <3>1, <3>2, <3>3
    <3> QED
      BY <3>4, <3>5
  <2>3. CASE Set(p)
    <3> DEFINE q == [p EXCEPT !.step = "publish"]
    <3>1. q.s = p.s /\ q.step = "publish"
      BY <2>0
    <3>2. pushes' = (pushes \ {p}) \cup {q} /\ sample' = p.s
          /\ UNCHANGED <<readings, overlapped>>
      BY <2>3 DEF Set, agentVars
    <3> HIDE DEF q
    <3> QED
      BY <3>1, <3>2
  <2>4. CASE Publish(p)
    BY <2>4 DEF Publish, agentVars
  <2> QED
    BY <1>3, <2>1, <2>2, <2>3, <2>4
<1>4. CASE Restart
  BY <1>0, <1>4, NothingIsASample DEF Restart, agentVars
<1>5. CASE UNCHANGED <<readings, pushes, sample, overlapped>>
  BY <1>5
<1>6. Next => \/ \E who \in Senders : Push(who) \/ PushFails(who)
              \/ \E p \in pushes : Abandon(p) \/ Merge(p) \/ Set(p) \/ Publish(p)
              \/ Restart
              \/ UNCHANGED <<readings, pushes, sample, overlapped>>
  BY DEF Next, ServeStep, Clock, StreamStep, Subscribe, Read, Write, Wake, Quit, PageStep,
         Begin, Frame, Done, Poll, PollAnswered, PollLost, OpenDetail, CloseDetail, Drop,
         DeleteMachine, agentVars, serverVars
<1> QED
  BY <1>1, <1>2, <1>3, <1>4, <1>5, <1>6

LEMMA Inductive == Spec => [](TypeOK /\ Followed /\ Merged)
<1>1. Init => TypeOK /\ Followed /\ Merged
  BY InitType, InitFollowed, InitMerged
<1>2. TypeOK /\ Followed /\ Merged /\ [Next]_vars => (TypeOK /\ Followed /\ Merged)'
  BY NextType, NextFollowed, NextMerged
<1> QED
  BY <1>1, <1>2, PTL DEF Spec

\* Registry, requests, stream and page are well typed, and the chart goes as far as
\* the sample it ends with (handleMetricsPush, handleLiveStream, ingest).
THEOREM TypeCorrect == Spec => []TypeOK
  BY Inductive, PTL

\* StreamFollows for any number of pushes, losses and restarts, and however small
\* the connection (LiveRegistry, handleLiveStream).
THEOREM StreamNeverStaysBehind == Spec => []StreamFollows
<1>1. Followed => StreamFollows
  BY DEF Followed, StreamFollows, Publishing
<1> QED
  BY <1>1, Inductive, PTL

\* CoreKept for any number of readings of the agent and of collectors
\* (handleMetricsPush).
THEOREM CoreIsKept == Spec => CoreKept
<1>1. TypeOK /\ Merged /\ [Next]_vars =>
          [~overlapped' => sample' = Nothing \/ sample'.core >= sample.core]_vars
  <2> SUFFICES ASSUME TypeOK, Merged, Next, ~overlapped'
               PROVE  sample' = Nothing \/ sample'.core >= sample.core
    OBVIOUS
  <2>0. sample.core \in Nat
    BY LiveAssumption DEF TypeOK, Samples
  <2>1. CASE \E p \in pushes : Set(p)
    BY <2>1 DEF Set, Merged
  <2>2. CASE Restart
    BY <2>2 DEF Restart
  <2>3. CASE UNCHANGED sample
    BY <2>0, <2>3
  <2>4. (\E p \in pushes : Set(p)) \/ Restart \/ UNCHANGED sample
    BY DEF Next, ServeStep, Clock, StreamStep, Subscribe, Read, Write, Wake, Quit, PageStep,
           Begin, Frame, Done, Poll, PollAnswered, PollLost, OpenDetail, CloseDetail, Drop,
           DeleteMachine, Push, PushFails, Abandon, Merge, Publish, agentVars, serverVars
  <2> QED
    BY <2>1, <2>2, <2>3, <2>4
<1> QED
  BY <1>1, Inductive, PTL DEF Spec, CoreKept

------------------------------------------------------------------------------
(* The chart ascends.                                                       *)

\* b may be charted after a: no earlier stamp, and no older reading.
Later(a, b) == a.at <= b.at /\ (b.core = 0 \/ a.core <= b.core)

\* All samples that have been in the registry and are still somewhere.
Seen == {Nothing, shown, held, sample} \cup polls \cup {wire[i] : i \in DOMAIN wire}

\* No sample is from the future.
Dated ==
    /\ \A x \in Seen : x.at <= now /\ x.core <= readings["agent"]
    /\ \A p \in pushes : p.s.at <= now /\ p.s.core <= readings["agent"]

\* The only push is later than all the registry has held,
OrderedPushes ==
    /\ \A p, q \in pushes : p = q
    /\ \A p \in pushes, x \in Seen :
          /\ p.step = "get" => x.at <= p.s.at /\ p.s.core = 0
          /\ p.step = "set" => Later(x, p.s)

\* so is what the registry holds,
OrderedRegistry == sample # Nothing => \A x \in Seen : Later(x, sample)

\* frames are on their way in order,
OrderedFrames ==
    /\ \A i \in DOMAIN wire : Later(shown, wire[i])
    /\ \A i, j \in DOMAIN wire : i < j => Later(wire[i], wire[j])
    /\ handler = "write" => Later(shown, held) /\ \A i \in DOMAIN wire : Later(wire[i], held)

\* and of a poll and any other sample the stamps tell which is later.
OrderedPolls == \A s \in polls, x \in Seen : x.at < s.at => Later(x, s)

Ordered ==
    ~overlapped /\ ~crossed =>
        OrderedPushes /\ OrderedRegistry /\ OrderedFrames /\ OrderedPolls

LEMMA SeenTyped ==
    ASSUME TypeOK
    PROVE  /\ Seen \subseteq Samples
           /\ \A x \in Seen : x.at \in Nat /\ x.core \in Nat
           /\ \A p \in pushes : p.s \in Samples /\ p.s.at \in Nat /\ p.s.core \in Nat
           /\ now \in Nat /\ readings["agent"] \in Nat
           /\ Nothing.at = 0 /\ Nothing.core = 0
           /\ {shown, held, sample} \cup polls \subseteq Seen
           /\ \A i \in DOMAIN wire : wire[i] \in Seen
<1>1. \A i \in DOMAIN wire : wire[i] \in Samples
  BY DEF TypeOK
<1>2. Seen \subseteq Samples
  BY <1>1, NothingIsASample DEF Seen, TypeOK
<1>3. \A x \in Samples : x.at \in Nat /\ x.core \in Nat
  BY LiveAssumption DEF Samples
<1>4. \A p \in pushes : p.s \in Samples
  BY DEF TypeOK
<1>5. now \in Nat /\ readings["agent"] \in Nat
  BY LiveAssumption DEF TypeOK, Senders
<1>6. {shown, held, sample} \cup polls \subseteq Seen /\ \A i \in DOMAIN wire : wire[i] \in Seen
  BY DEF Seen
<1>7. Nothing.at = 0 /\ Nothing.core = 0
  BY DEF Nothing
<1> QED
  BY <1>2, <1>3, <1>4, <1>5, <1>6, <1>7

\* Frames that are gone or added.
LEMMA FramesLeft ==
    ASSUME wire \in Seq(Samples), wire # <<>>
    PROVE  /\ Head(wire) = wire[1] /\ 1 \in DOMAIN wire
           /\ \A i \in DOMAIN Tail(wire) : /\ i + 1 \in DOMAIN wire /\ i \in Nat
                                           /\ 1 < i + 1 /\ Tail(wire)[i] = wire[i + 1]
  OBVIOUS

LEMMA FramesAdded ==
    ASSUME wire \in Seq(Samples), held \in Samples
    PROVE  \A i \in DOMAIN Append(wire, held) :
              /\ i \in Nat
              /\ IF i = Len(wire) + 1 THEN Append(wire, held)[i] = held
                                      ELSE /\ i \in DOMAIN wire /\ i <= Len(wire)
                                           /\ Append(wire, held)[i] = wire[i]
  OBVIOUS

\* Only Live.Set brings a sample that has not been in the registry.
LEMMA SeenStep ==
    ASSUME TypeOK, [Next]_vars
    PROVE  Seen' \subseteq Seen \/ \E p \in pushes : Set(p) /\ Seen' \subseteq Seen \cup {p.s}
<1>0. wire \in Seq(Samples) /\ held \in Samples
  BY DEF TypeOK
<1>1. CASE UNCHANGED <<shown, held, sample, polls, wire>>
  BY <1>1 DEF Seen
<1>2. ASSUME NEW p \in pushes, Set(p) PROVE Seen' \subseteq Seen \cup {p.s}
  BY <1>2 DEF Set, Seen, streamVars, pageVars
<1>3. CASE Read
  BY <1>3 DEF Read, Seen, serverVars, pageVars
<1>4. CASE Write
  <2>1. UNCHANGED <<shown, held, sample, polls>> /\ wire' = Append(wire, held)
    BY <1>4 DEF Write, serverVars, pageVars
  <2>2. \A i \in DOMAIN wire' : wire'[i] \in Seen
    BY <1>0, <2>1, FramesAdded DEF Seen
  <2> QED
    BY <2>1, <2>2 DEF Seen
<1>5. CASE Wake \/ Quit
  BY <1>5 DEF Wake, Quit, Seen, serverVars, pageVars
<1>6. CASE Frame
  <2>1. UNCHANGED <<held, sample, polls>> /\ wire' = Tail(wire) /\ wire # <<>>
        /\ shown' = Head(wire)
    BY <1>6 DEF Frame, Chart, serverVars
  <2>2. shown' \in Seen /\ \A i \in DOMAIN wire' : wire'[i] \in Seen
    BY <1>0, <2>1, FramesLeft DEF Seen
  <2> QED
    BY <2>1, <2>2 DEF Seen
<1>7. CASE Poll
  BY <1>7 DEF Poll, Seen, serverVars, streamVars
<1>8. ASSUME NEW s \in polls, PollAnswered(s) \/ PollLost(s) PROVE Seen' \subseteq Seen
  <2>1. shown' \in {shown, s} /\ polls' \subseteq polls /\ UNCHANGED <<held, sample, wire>>
    BY <1>8 DEF PollAnswered, PollLost, Chart, serverVars, streamVars
  <2> QED
    BY <2>1 DEF Seen
<1>9. CASE OpenDetail \/ CloseDetail \/ Drop
  <2>1. held' = Nothing /\ wire' = <<>> /\ UNCHANGED <<shown, sample, polls>>
    BY <1>9 DEF OpenDetail, CloseDetail, Drop, StartStream, serverVars
  <2> QED
    BY <2>1 DEF Seen
<1>10. CASE Restart
  <2>1. /\ shown' = shown /\ sample' = Nothing /\ polls' = {}
        /\ (held' = Nothing /\ wire' = <<>>) \/ (held' = held /\ wire' = wire)
    BY <1>10 DEF Restart, StartStream, streamVars
  <2> QED
    BY <2>1 DEF Seen
<1>11. ASSUME \/ Clock \/ DeleteMachine \/ Subscribe \/ Begin \/ Done
              \/ \E who \in Senders : Push(who) \/ PushFails(who)
              \/ \E p \in pushes : Abandon(p) \/ Merge(p) \/ Publish(p)
       PROVE  UNCHANGED <<shown, held, sample, polls, wire>>
  BY <1>11 DEF Clock, DeleteMachine, Subscribe, Begin, Done, Push, PushFails, Abandon, Merge,
               Publish, serverVars, streamVars, pageVars
<1>12. CASE UNCHANGED vars
  BY <1>1, <1>12 DEF vars
<1> QED
  BY <1>1, <1>2, <1>3, <1>4, <1>5, <1>6, <1>7, <1>8, <1>9, <1>10, <1>11, <1>12
     DEF Next, ServeStep, StreamStep, PageStep

LEMMA NextDated == TypeOK /\ Dated /\ [Next]_vars => Dated'
<1> SUFFICES ASSUME TypeOK, Dated, [Next]_vars PROVE Dated'
  OBVIOUS
<1>0. /\ \A x \in Seen : x.at \in Nat /\ x.core \in Nat
      /\ \A p \in pushes : p.s \in Samples /\ p.s.at \in Nat /\ p.s.core \in Nat
      /\ now \in Nat /\ readings["agent"] \in Nat
      /\ Nothing.at = 0 /\ Nothing.core = 0 /\ sample \in Seen
  BY SeenTyped
<1>1. now' \in Nat /\ now' >= now
  <2>1. now' = now \/ now' = now + 1
    BY DEF Next, Clock, ServeStep, Push, PushFails, Abandon, Merge, Set, Publish, StreamStep,
           Subscribe, Read, Write, Wake, Quit, PageStep, Begin, Frame, Done, Poll,
           PollAnswered, PollLost, OpenDetail, CloseDetail, Drop, Restart, DeleteMachine,
           agentVars, vars
  <2> QED
    BY <1>0, <2>1
<1>2. readings'["agent"] \in Nat /\ readings'["agent"] >= readings["agent"]
  <2>1. readings' = readings \/ \E who \in Senders : readings' = [readings EXCEPT ![who] = @ + 1]
    BY DEF Next, Clock, ServeStep, Push, PushFails, Abandon, Merge, Set, Publish, StreamStep,
           Subscribe, Read, Write, Wake, Quit, PageStep, Begin, Frame, Done, Poll,
           PollAnswered, PollLost, OpenDetail, CloseDetail, Drop, Restart, DeleteMachine,
           agentVars, vars
  <2>2. readings'["agent"] \in {readings["agent"], readings["agent"] + 1}
    BY <2>1 DEF TypeOK, Senders
  <2> QED
    BY <1>0, <2>2
<1>3. \A x \in Seen' : x.at <= now' /\ x.core <= readings'["agent"]
  <2>1. Seen' \subseteq Seen \cup {p.s : p \in pushes}
    BY SeenStep
  <2> QED
    BY <1>0, <1>1, <1>2, <2>1 DEF Dated
<1>4. ASSUME NEW q \in pushes' PROVE q.s.at <= now' /\ q.s.core <= readings'["agent"]
  <2>1. CASE \E p \in pushes : q.s = p.s
    BY <1>0, <1>1, <1>2, <2>1 DEF Dated
  <2>2. ASSUME NEW who \in Senders, Push(who), q \notin pushes
        PROVE  q.s.at <= now' /\ q.s.core <= readings'["agent"]
    <3>1. /\ q.s.at = now /\ now' = now
          /\ q.s.core = IF who = "agent" THEN readings["agent"] + 1 ELSE 0
          /\ readings' = [readings EXCEPT ![who] = @ + 1]
      BY <2>2 DEF Push, Reading
    <3>2. who = "agent" => readings'["agent"] = readings["agent"] + 1
      BY <3>1 DEF TypeOK, Senders
    <3> QED
      BY <1>0, <1>2, <3>1, <3>2
  <2>3. ASSUME NEW p \in pushes, Abandon(p) \/ Set(p)
        PROVE  \E r \in pushes : q.s = r.s
    <3>1. /\ [p EXCEPT !.awaited = FALSE].s = p.s
          /\ [p EXCEPT !.step = "publish"].s = p.s
      BY DEF TypeOK
    <3> QED
      BY <2>3, <3>1 DEF Abandon, Set
  <2>4. ASSUME NEW p \in pushes, Merge(p), q \notin pushes
        PROVE  q.s.at <= now' /\ q.s.core <= readings'["agent"]
    <3>1. /\ q.s = IF sample = Nothing THEN p.s ELSE [p.s EXCEPT !.core = sample.core]
          /\ UNCHANGED <<now, readings>>
      BY <2>4 DEF Merge, agentVars, TypeOK
    <3>2. q.s.at = p.s.at /\ q.s.core \in {p.s.core, sample.core}
      BY <1>0, <3>1 DEF Samples
    <3> QED
      BY <1>0, <3>1, <3>2 DEF Dated
  <2>5. CASE pushes' \subseteq pushes
    BY <2>1, <2>5
  <2>6. \/ \E who \in Senders : Push(who)
        \/ \E p \in pushes : Abandon(p) \/ Merge(p) \/ Set(p)
        \/ pushes' \subseteq pushes
    BY DEF Next, Clock, ServeStep, PushFails, Publish, StreamStep,
           Subscribe, Read, Write, Wake, Quit, PageStep, Begin, Frame, Done, Poll,
           PollAnswered, PollLost, OpenDetail, CloseDetail, Drop, Restart, DeleteMachine,
           serverVars, vars
  <2> QED
    BY <2>1, <2>2, <2>3, <2>4, <2>5, <2>6
<1> QED
  BY <1>3, <1>4 DEF Dated

\* Only a push that is alone is in front of Set.
LEMMA PushesStep ==
    ASSUME TypeOK, Dated, OrderedPushes, OrderedRegistry, [Next]_vars, ~overlapped'
    PROVE  OrderedPushes'
<1>0. /\ \A x \in Seen : x.at \in Nat /\ x.core \in Nat
      /\ \A p \in pushes : p.s \in Samples /\ p.s.at \in Nat /\ p.s.core \in Nat
      /\ now \in Nat /\ readings["agent"] \in Nat
      /\ Nothing.at = 0 /\ Nothing.core = 0 /\ sample \in Seen
  BY SeenTyped
<1>1. ASSUME NEW p \in pushes, Set(p) PROVE OrderedPushes'
  <2>1. /\ pushes' = (pushes \ {p}) \cup {[p EXCEPT !.step = "publish"]}
        /\ [p EXCEPT !.step = "publish"].step = "publish"
    BY <1>1 DEF Set, TypeOK
  <2> QED
    BY <2>1 DEF OrderedPushes
<1>2. ASSUME ~(\E p \in pushes : Set(p)) PROVE Seen' \subseteq Seen
  BY <1>2, SeenStep
<1>3. ASSUME NEW p \in pushes, Abandon(p) \/ Merge(p) PROVE OrderedPushes'
  <2>1. Seen' \subseteq Seen
    BY <1>3 DEF Abandon, Merge, Seen, streamVars, pageVars
  <2>2. CASE Abandon(p)
    <3>1. /\ pushes' = (pushes \ {p}) \cup {[p EXCEPT !.awaited = FALSE]}
          /\ [p EXCEPT !.awaited = FALSE].step = p.step
          /\ [p EXCEPT !.awaited = FALSE].s = p.s
      BY <2>2 DEF Abandon, TypeOK
    <3> QED
      BY <2>1, <3>1 DEF OrderedPushes
  <2>3. CASE Merge(p)
    <3> DEFINE merged == IF sample = Nothing THEN p.s ELSE [p.s EXCEPT !.core = sample.core]
    <3> DEFINE q == [p EXCEPT !.step = "set", !.s = merged]
    <3>1. /\ pushes' = (pushes \ {p}) \cup {q} /\ p.step = "get"
          /\ q.step = "set" /\ q.s = merged
      BY <2>3 DEF Merge, TypeOK
    <3>2. /\ merged.at = p.s.at
          /\ merged.core = IF sample = Nothing THEN p.s.core ELSE sample.core
      BY <1>0 DEF Samples
    <3>3. \A x \in Seen : x.at <= p.s.at /\ p.s.core = 0
      BY <3>1 DEF OrderedPushes
    <3>4. ASSUME NEW x \in Seen PROVE Later(x, merged)
      <4> HIDE DEF merged
      <4> QED
        BY <3>2, <3>3 DEF OrderedRegistry, Later
    <3> HIDE DEF q, merged
    <3> QED
      BY <2>1, <3>1, <3>4 DEF OrderedPushes
  <2> QED
    BY <1>3, <2>2, <2>3
<1>4. ASSUME NEW who \in Senders, Push(who) PROVE OrderedPushes'
  <2>1. Seen' \subseteq Seen /\ pushes = {}
    BY <1>4 DEF Push, Seen, streamVars, pageVars
  <2> DEFINE q == [from |-> who, s |-> Reading(who), awaited |-> TRUE,
                   step |-> IF who = "agent" THEN "set" ELSE "get"]
  <2>2. pushes' = {q}
    BY <1>4, <2>1 DEF Push
  <2>3. /\ q.s.at = now /\ q.step = (IF who = "agent" THEN "set" ELSE "get")
        /\ q.s.core = (IF who = "agent" THEN readings[who] + 1 ELSE 0)
    BY DEF Reading
  <2> HIDE DEF q
  <2>4. ASSUME NEW x \in Seen
        PROVE  /\ q.step = "get" => x.at <= q.s.at /\ q.s.core = 0
               /\ q.step = "set" => Later(x, q.s)
    BY <1>0, <2>3 DEF Dated, Later
  <2> QED
    BY <2>1, <2>2, <2>4 DEF OrderedPushes
<1>5. CASE pushes' \subseteq pushes /\ ~(\E p \in pushes : Set(p))
  BY <1>2, <1>5 DEF OrderedPushes
<1>6. \/ \E who \in Senders : Push(who)
      \/ \E p \in pushes : Abandon(p) \/ Merge(p) \/ Set(p)
      \/ pushes' \subseteq pushes
  BY DEF Next, Clock, ServeStep, PushFails, Publish, StreamStep,
         Subscribe, Read, Write, Wake, Quit, PageStep, Begin, Frame, Done, Poll,
         PollAnswered, PollLost, OpenDetail, CloseDetail, Drop, Restart, DeleteMachine,
         serverVars, vars
<1> QED
  BY <1>1, <1>3, <1>4, <1>5, <1>6

LEMMA RegistryStep ==
    ASSUME TypeOK, OrderedPushes, OrderedRegistry, [Next]_vars
    PROVE  OrderedRegistry'
<1>0. \A p \in pushes : p.s.at \in Nat /\ p.s.core \in Nat
  BY SeenTyped
<1>1. ASSUME NEW p \in pushes, Set(p) PROVE OrderedRegistry'
  <2>1. /\ sample' = p.s /\ Seen' \subseteq Seen \cup {p.s} /\ p.step = "set"
    BY <1>1 DEF Set, Seen, streamVars, pageVars
  <2>2. \A x \in Seen : Later(x, p.s)
    BY <2>1 DEF OrderedPushes
  <2>3. Later(p.s, p.s)
    BY <1>0 DEF Later
  <2> QED
    BY <2>1, <2>2, <2>3 DEF OrderedRegistry
<1>2. ASSUME ~(\E p \in pushes : Set(p)) PROVE Seen' \subseteq Seen
  BY <1>2, SeenStep
<1>3. \/ \E p \in pushes : Set(p)
      \/ sample' \in {sample, Nothing}
  BY DEF Next, Clock, ServeStep, Push, PushFails, Publish, Merge, Abandon, StreamStep,
         Subscribe, Read, Write, Wake, Quit, PageStep, Begin, Frame, Done, Poll,
         PollAnswered, PollLost, OpenDetail, CloseDetail, Drop, Restart, DeleteMachine,
         serverVars, vars
<1> QED
  BY <1>1, <1>2, <1>3 DEF OrderedRegistry

LEMMA PollsStep ==
    ASSUME TypeOK, OrderedPushes, OrderedRegistry, OrderedPolls, [Next]_vars
    PROVE  OrderedPolls'
<1>0. /\ \A x \in Seen : x.at \in Nat /\ x.core \in Nat
      /\ \A p \in pushes : p.s.at \in Nat
      /\ polls \subseteq Seen /\ sample \in Seen
  BY SeenTyped
<1>1. ASSUME NEW p \in pushes, Set(p) PROVE OrderedPolls'
  <2>1. /\ Seen' \subseteq Seen \cup {p.s} /\ p.step = "set" /\ polls' = polls
    BY <1>1 DEF Set, Seen, streamVars, pageVars
  <2>2. \A s \in polls : s.at <= p.s.at
    BY <1>0, <2>1 DEF OrderedPushes, Later
  <2> QED
    BY <1>0, <2>1, <2>2 DEF OrderedPolls
<1>2. ASSUME ~(\E p \in pushes : Set(p)) PROVE Seen' \subseteq Seen
  BY <1>2, SeenStep
<1>3. CASE Poll
  <2>1. polls' = polls \cup {sample} /\ Seen' \subseteq Seen /\ sample # Nothing
    BY <1>3 DEF Poll, IsFresh, Seen, serverVars, streamVars
  <2> QED
    BY <2>1 DEF OrderedPolls, OrderedRegistry
<1>4. CASE polls' \subseteq polls /\ ~(\E p \in pushes : Set(p))
  BY <1>2, <1>4 DEF OrderedPolls
<1>5. \/ Poll \/ \E p \in pushes : Set(p)
      \/ polls' \subseteq polls
  BY DEF Next, Clock, ServeStep, Push, PushFails, Publish, Merge, Abandon, StreamStep,
         Subscribe, Read, Write, Wake, Quit, PageStep, Begin, Frame, Done,
         PollAnswered, PollLost, OpenDetail, CloseDetail, Drop, Restart, DeleteMachine,
         pageVars, vars
<1> QED
  BY <1>1, <1>3, <1>4, <1>5

\* Frames are written in the order in which they were read, and a poll is
\* charted when there are none.
LEMMA FramesStep ==
    ASSUME TypeOK, OrderedRegistry, OrderedFrames, [Next]_vars, ~crossed'
    PROVE  OrderedFrames'
<1>0. wire \in Seq(Samples) /\ held \in Samples
  BY DEF TypeOK
<1>1. CASE UNCHANGED <<shown, held, wire>> /\ (handler' = handler \/ handler' # "write")
  BY <1>1 DEF OrderedFrames
<1>2. CASE Read
  <2>1. /\ handler' = "write" => sample # Nothing /\ held' = sample
        /\ UNCHANGED <<shown, wire>>
    BY <1>2 DEF Read, pageVars
  <2>2. shown \in Seen /\ \A i \in DOMAIN wire : wire[i] \in Seen
    BY DEF Seen
  <2> QED
    BY <2>1, <2>2 DEF OrderedFrames, OrderedRegistry
<1>3. CASE Write
  <2>1. wire' = Append(wire, held) /\ handler = "write" /\ handler' # "write" /\ shown' = shown
    BY <1>3 DEF Write, pageVars
  <2>2. \A i \in DOMAIN wire' : Later(shown, wire'[i])
    BY <1>0, <2>1, FramesAdded DEF OrderedFrames
  <2>3. ASSUME NEW i \in DOMAIN wire', NEW j \in DOMAIN wire', i < j
        PROVE  Later(wire'[i], wire'[j])
    <3>1. /\ i \in Nat /\ j \in Nat /\ Len(wire) \in Nat
          /\ j # Len(wire) + 1 => j \in DOMAIN wire /\ j <= Len(wire) /\ wire'[j] = wire[j]
          /\ j = Len(wire) + 1 => wire'[j] = held
          /\ i # Len(wire) + 1 => i \in DOMAIN wire /\ wire'[i] = wire[i]
      BY <1>0, <2>1, FramesAdded
    <3>2. i # Len(wire) + 1
      BY <2>3, <3>1
    <3> QED
      BY <2>1, <2>3, <3>1, <3>2 DEF OrderedFrames
  <2> QED
    BY <2>1, <2>2, <2>3 DEF OrderedFrames
<1>4. CASE Frame
  <2>1. /\ wire # <<>> /\ wire' = Tail(wire) /\ shown' = Head(wire)
        /\ UNCHANGED <<handler, held>>
    BY <1>4 DEF Frame, Chart
  <2>2. \A i \in DOMAIN wire' : Later(shown', wire'[i])
    BY <1>0, <2>1, FramesLeft DEF OrderedFrames
  <2>3. ASSUME NEW i \in DOMAIN wire', NEW j \in DOMAIN wire', i < j
        PROVE  Later(wire'[i], wire'[j])
    <3>1. /\ i + 1 \in DOMAIN wire /\ j + 1 \in DOMAIN wire /\ i + 1 < j + 1
          /\ wire'[i] = wire[i + 1] /\ wire'[j] = wire[j + 1]
      BY <1>0, <2>1, <2>3, FramesLeft
    <3> QED
      BY <3>1 DEF OrderedFrames
  <2>4. handler' = "write" => /\ Later(shown', held')
                              /\ \A i \in DOMAIN wire' : Later(wire'[i], held')
    BY <1>0, <2>1, FramesLeft DEF OrderedFrames
  <2> QED
    BY <2>2, <2>3, <2>4 DEF OrderedFrames
<1>5. ASSUME NEW s \in polls, PollAnswered(s) PROVE OrderedFrames'
  <2>1. /\ UNCHANGED <<handler, held, wire>>
        /\ shown' = shown \/ (wire = <<>> /\ handler # "write")
    BY <1>5 DEF PollAnswered, Chart, streamVars
  <2> QED
    BY <2>1 DEF OrderedFrames
<1>6. CASE wire' = <<>> /\ handler' # "write"
  BY <1>6 DEF OrderedFrames
<1>7. \/ Read \/ Write \/ Frame \/ \E s \in polls : PollAnswered(s)
      \/ wire' = <<>> /\ handler' # "write"
      \/ UNCHANGED <<shown, held, wire>> /\ (handler' = handler \/ handler' # "write")
      \/ Wake \/ Quit
  BY DEF Next, Clock, ServeStep, Push, PushFails, Publish, Merge, Abandon, Set, StreamStep,
         Subscribe, PageStep, Begin, Done, Poll, PollLost, OpenDetail, CloseDetail, Drop,
         Restart, DeleteMachine, StartStream, streamVars, pageVars, vars
<1>8. CASE Wake \/ Quit
  <2>1. UNCHANGED <<shown, wire>> /\ handler' # "write"
    BY <1>8 DEF Wake, Quit, pageVars
  <2> QED
    BY <2>1 DEF OrderedFrames
<1> QED
  BY <1>1, <1>2, <1>3, <1>4, <1>5, <1>6, <1>7, <1>8

\* What has overlapped or crossed has done so for good.
LEMMA StaysUncrossed == ASSUME [Next]_vars, ~overlapped', ~crossed' PROVE ~overlapped /\ ~crossed
<1>1. ASSUME NEW who \in Senders, Push(who) PROVE ~overlapped /\ ~crossed
  BY <1>1 DEF Push, pageVars
<1>2. ASSUME NEW s \in polls, PollAnswered(s) PROVE ~overlapped /\ ~crossed
  BY <1>2 DEF PollAnswered
<1>3. \/ \E who \in Senders : Push(who)
      \/ \E s \in polls : PollAnswered(s)
      \/ UNCHANGED <<overlapped, crossed>>
  BY DEF Next, Clock, ServeStep, PushFails, Publish, Merge, Abandon, Set, StreamStep,
         Subscribe, Read, Write, Wake, Quit, PageStep, Begin, Frame, Done, Poll,
         PollLost, OpenDetail, CloseDetail, Drop, Restart, DeleteMachine, pageVars, vars
<1> QED
  BY <1>1, <1>2, <1>3

LEMMA NextOrdered == TypeOK /\ Dated /\ Ordered /\ [Next]_vars => Ordered'
<1> SUFFICES ASSUME TypeOK, Dated, Ordered, [Next]_vars, ~overlapped', ~crossed' PROVE Ordered'
  BY DEF Ordered
<1>1. ~overlapped /\ ~crossed
  BY StaysUncrossed
<1>2. OrderedPushes /\ OrderedRegistry /\ OrderedPolls /\ OrderedFrames
  BY <1>1 DEF Ordered
<1>3. OrderedPushes' /\ OrderedRegistry' /\ OrderedPolls' /\ OrderedFrames'
  BY <1>2, PushesStep, RegistryStep, PollsStep, FramesStep
<1> QED
  BY <1>3 DEF Ordered

\* ChartAscends for any number of polls and frames on their way, streams that
\* break and restarts (ingest and refresh of the dashboard, handleLiveStream,
\* handleLiveAll).
THEOREM ChartNeverGoesBack == Spec => ChartAscends
<1>1. Init => Dated /\ Ordered
  <2> SUFFICES ASSUME Init PROVE Dated /\ Ordered
    OBVIOUS
  <2>1. /\ Seen = {Nothing} /\ pushes = {} /\ polls = {} /\ wire = <<>> /\ handler = "none"
        /\ sample = Nothing /\ now = 1 /\ readings["agent"] = 0
    BY DEF Init, Seen, Senders
  <2> QED
    BY <2>1 DEF Dated, Ordered, OrderedPushes, OrderedRegistry, OrderedPolls, OrderedFrames,
                Nothing, Later
<1>2. TypeOK /\ Ordered /\ [Next]_vars =>
         [~overlapped' /\ ~crossed' =>
            /\ shown'.at >= shown.at
            /\ shown'.core = 0 \/ shown'.core >= shown.core]_vars
  <2> SUFFICES ASSUME TypeOK, Ordered, Next, ~overlapped', ~crossed' PROVE Later(shown, shown')
    <3>1. ASSUME TypeOK, Later(shown, shown'), TypeOK'
          PROVE  shown'.at >= shown.at /\ (shown'.core = 0 \/ shown'.core >= shown.core)
      BY <3>1, LiveAssumption DEF Later, TypeOK, Samples
    <3> QED
      BY <3>1, NextType
  <2>1. ~overlapped /\ ~crossed
    BY StaysUncrossed
  <2>2. CASE shown' = shown
    BY <2>2, SeenTyped DEF Later
  <2>3. CASE Frame
    <3>1. wire \in Seq(Samples) /\ wire # <<>> /\ shown' = Head(wire)
      BY <2>3 DEF Frame, Chart, TypeOK
    <3> QED
      BY <2>1, <3>1, FramesLeft DEF Ordered, OrderedFrames
  <2>4. ASSUME NEW s \in polls, PollAnswered(s), shown' # shown PROVE Later(shown, shown')
    <3>1. shown' = s /\ ~(s.at <= lastAt)
      BY <2>4 DEF PollAnswered, Chart
    <3>2. /\ s.at \in Nat /\ shown.at \in Nat /\ lastAt \in Nat /\ shown.at <= lastAt
          /\ shown \in Seen
      BY SeenTyped DEF TypeOK
    <3>3. shown.at < s.at
      BY <3>1, <3>2
    <3> QED
      BY <2>1, <3>1, <3>2, <3>3 DEF Ordered, OrderedPolls
  <2>5. \/ shown' = shown \/ Frame \/ \E s \in polls : PollAnswered(s)
    BY DEF Next, Clock, ServeStep, Push, PushFails, Publish, Merge, Abandon, Set, StreamStep,
           Subscribe, Read, Write, Wake, Quit, PageStep, Begin, Done, Poll,
           PollLost, OpenDetail, CloseDetail, Drop, Restart, DeleteMachine, pageVars
  <2> QED
    BY <2>2, <2>3, <2>4, <2>5
<1> QED
  BY <1>1, <1>2, InitType, NextType, NextDated, NextOrdered, PTL DEF Spec, ChartAscends
================================================================================
