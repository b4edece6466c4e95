--------------------------- MODULE DeliveryProofs ---------------------------
(***************************************************************************)
(* What holds of Delivery for any number of machines, connections and      *)
(* requests.                                                               *)
(***************************************************************************)
EXTENDS Delivery, TLAPS

\* Writing a record extends its history by one value and keeps the rest.
LEMMA AppendFacts ==
    ASSUME NEW S, NEW h \in Seq(S), NEW v \in S
    PROVE  /\ Append(h, v) \in Seq(S) \ {<< >>}
           /\ Len(Append(h, v)) = Len(h) + 1
           /\ Append(h, v)[Len(h) + 1] = v
           /\ \A i \in 1..Len(h) : Append(h, v)[i] = h[i]
<1>1. Append(h, v) \in Seq(S) /\ Len(Append(h, v)) = Len(h) + 1
  OBVIOUS
<1>2. Append(h, v) # << >>
  BY <1>1
<1>. QED
  BY <1>1, <1>2

\* Reading an event takes the first one off and moves up the rest.
LEMMA TailFacts ==
    ASSUME NEW S, NEW w \in Seq(S), w # << >>
    PROVE  /\ Len(w) \in Nat \ {0}
           /\ Head(w) \in S
           /\ Head(w) = w[1]
           /\ Tail(w) \in Seq(S)
           /\ Len(Tail(w)) = Len(w) - 1
           /\ \A i \in 1..Len(Tail(w)) : Tail(w)[i] = w[i + 1]
<1>1. Len(w) \in Nat \ {0} /\ Len(Tail(w)) = Len(w) - 1
  OBVIOUS
<1>2. Head(w) \in S /\ Head(w) = w[1]
  BY <1>1
<1>3. Tail(w) \in Seq(S)
  BY <1>1
<1>4. \A i \in 1..Len(Tail(w)) : Tail(w)[i] = w[i + 1]
  BY <1>1
<1>. QED
  BY <1>1, <1>2, <1>3, <1>4

\* The write of request p.
LEMMA WriteFacts ==
    ASSUME TypeOK, NEW p \in Requests,
           saved' = [saved EXCEPT ![target[p]] = Append(@, snap[p])]
    PROVE  /\ saved' \in [Machines -> Seq(Content) \ {<< >>}]
           /\ Len(saved'[target[p]]) = Len(saved[target[p]]) + 1
           /\ saved'[target[p]][Len(saved'[target[p]])] = snap[p]
           /\ \A i \in 1..Len(saved[target[p]]) :
                 saved'[target[p]][i] = saved[target[p]][i]
           /\ \A m \in Machines \ {target[p]} : saved'[m] = saved[m]
<1> DEFINE h == saved[target[p]]
<1>1. h \in Seq(Content) /\ snap[p] \in Content /\ target[p] \in Machines
  BY DEF TypeOK
<1>2. saved'[target[p]] = Append(h, snap[p])
  BY <1>1 DEF TypeOK
<1>. QED
  BY <1>1, <1>2, AppendFacts DEF TypeOK

\* A failed or successful write of request p extends the history of its machine,
\* or leaves every history alone.
LEMMA WriteOrNot ==
    ASSUME NEW p \in Requests, SaveEdit(p) \/ Save(p) \/ SaveFails(p)
    PROVE  \/ saved' = [saved EXCEPT ![target[p]] = Append(@, snap[p])]
           \/ SaveFails(p) /\ saved' = saved
BY DEF SaveEdit, Save, SaveFails, SaveMachine

\* A start extends the histories that were ahead of the file by what the file
\* holds, and every record is then what the file holds.
LEMMA ReloadFacts ==
    ASSUME TypeOK, Reload
    PROVE  /\ saved' \in [Machines -> Seq(Content) \ {<< >>}]
           /\ \A m \in Machines :
                 /\ Len(saved'[m]) \in {Len(saved[m]), Len(saved[m]) + 1}
                 /\ saved'[m][Len(saved'[m])] = saved[m][disk[m]]
                 /\ \A i \in 1..Len(saved[m]) : saved'[m][i] = saved[m][i]
<1> SUFFICES ASSUME NEW m \in Machines
             PROVE  /\ saved'[m] \in Seq(Content) \ {<< >>}
                    /\ Len(saved'[m]) \in {Len(saved[m]), Len(saved[m]) + 1}
                    /\ saved'[m][Len(saved'[m])] = saved[m][disk[m]]
                    /\ \A i \in 1..Len(saved[m]) : saved'[m][i] = saved[m][i]
  BY DEF Reload
<1>1. /\ saved[m] \in Seq(Content) /\ saved[m] # << >>
      /\ disk[m] \in 1..Len(saved[m]) /\ saved[m][disk[m]] \in Content
  BY DEF TypeOK
<1>2. CASE disk[m] = Len(saved[m])
  BY <1>1, <1>2 DEF Reload
<1>3. CASE disk[m] # Len(saved[m])
  <2>1. saved'[m] = Append(saved[m], saved[m][disk[m]])
    BY <1>3 DEF Reload
  <2>. QED
    BY <1>1, <2>1, AppendFacts
<1>. QED
  BY <1>2, <1>3

\* The file holds the last state of every history, or stays as it is while
\* histories grow.
LEMMA FileFacts ==
    ASSUME TypeOK, saved' \in [Machines -> Seq(Content) \ {<< >>}],
           \/ Flush
           \/ disk' = disk /\ \A m \in Machines : Len(saved'[m]) >= Len(saved[m])
    PROVE  /\ disk' \in [Machines -> Nat]
           /\ \A m \in Machines : disk'[m] \in 1..Len(saved'[m])
<1>1. \A m \in Machines : Len(saved'[m]) \in Nat \ {0} /\ Len(saved[m]) \in Nat \ {0}
  BY DEF TypeOK
<1>. QED
  BY <1>1 DEF Flush, TypeOK

\* Every variable keeps its type through every step of requests, streams,
\* agents, losses and restarts, and no connection holds more than it can buffer.
THEOREM TypeCorrect == Spec => []TypeOK
<1> USE DEF TypeOK, Content, Steps, HandlerStates, Requests
<1>1. Init => TypeOK
  BY DeliveryAssumption DEF Init
<1>2. TypeOK /\ [Next]_vars => TypeOK'
  <2> SUFFICES ASSUME TypeOK, [Next]_vars PROVE TypeOK'
    OBVIOUS
  <2> USE DeliveryAssumption DEF storeVars, requestVars, streamVars, agentVars, boundVars
  <2>1. ASSUME NEW p \in Requests, NEW m \in Machines,
               StartRecompute(p, m) \/ StartEdit(p, m) \/ StartRemove(p, m)
        PROVE  TypeOK'
    <3>1. Stored(m) \in Content
      BY DEF Stored
    <3>2. step' \in [Requests -> Steps]
      BY <2>1 DEF StartRecompute, StartEdit, StartRemove, Compute
    <3>3. snap' \in [Requests -> Content]
      <4>1. PICK v \in Content : snap' = [snap EXCEPT ![p] = v]
        BY <2>1, <3>1 DEF StartRecompute, StartEdit, StartRemove, Compute
      <4>. QED
        BY <4>1
    <3>4. target' \in [Requests -> Machines]
      BY <2>1 DEF StartRecompute, StartEdit, StartRemove, Accept
    <3>5. overlapped' \subseteq Requests
      BY <2>1 DEF StartRecompute, StartEdit, StartRemove, Accept, Running
    <3>6. {requests, drops, flushFails}' \subseteq Nat
      BY <2>1 DEF StartRecompute, StartEdit, StartRemove, Accept
    <3>7. UNCHANGED <<storeVars, streamVars, agentVars>>
      BY <2>1 DEF StartRecompute, StartEdit, StartRemove
    <3>. QED
      BY <3>2, <3>3, <3>4, <3>5, <3>6, <3>7
  <2>2. ASSUME NEW p \in Requests, SaveEdit(p) \/ Save(p) \/ SaveFails(p)
        PROVE  TypeOK'
    <3>1. /\ saved' \in [Machines -> Seq(Content) \ {<< >>}]
          /\ \A m \in Machines : Len(saved'[m]) >= Len(saved[m])
      <4>1. CASE saved' = saved
        BY <4>1
      <4>2. CASE saved' = [saved EXCEPT ![target[p]] = Append(@, snap[p])]
        <5>1. \A m \in Machines : Len(saved[m]) \in Nat
          OBVIOUS
        <5> HIDE DEF TypeOK
        <5>2. \A m \in Machines : m = target[p] \/ saved'[m] = saved[m]
          BY <4>2, WriteFacts
        <5>3. Len(saved'[target[p]]) = Len(saved[target[p]]) + 1
          BY <4>2, WriteFacts
        <5>4. saved' \in [Machines -> Seq(Content) \ {<< >>}]
          BY <4>2, WriteFacts
        <5> HIDE DEF Content
        <5>. QED
          BY <5>1, <5>2, <5>3, <5>4
      <4>. QED
        BY <2>2, <4>1, <4>2, WriteOrNot
    <3>0. /\ disk' \in [Machines -> Nat]
          /\ \A m \in Machines : disk'[m] \in 1..Len(saved'[m])
      <4>1. Flush \/ disk' = disk
        BY <2>2 DEF SaveEdit, Save, SaveFails
      <4> HIDE DEF TypeOK
      <4>. QED
        BY <3>1, <4>1, FileFacts DEF Content
    <3>2. step' \in [Requests -> Steps]
      BY <2>2 DEF SaveEdit, Save, SaveFails
    <3>3. snap' \in [Requests -> Content]
      BY <2>2 DEF SaveEdit, Save, SaveFails, SaveMachine
    <3>4. overlapped' \subseteq Requests /\ {requests, drops, flushFails}' \subseteq Nat
      BY <2>2 DEF SaveEdit, Save, SaveFails
    <3>5. UNCHANGED <<target, streamVars, agentVars>> /\ deleted' \subseteq Machines
      BY <2>2 DEF SaveEdit, Save, SaveFails
    <3>. QED
      BY <3>0, <3>1, <3>2, <3>3, <3>4, <3>5
  <2>3. ASSUME NEW p \in Requests, RecomputeEdit(p) PROVE TypeOK'
    <3>1. step' \in [Requests -> Steps]
      BY <2>3 DEF RecomputeEdit, Compute
    <3>2. snap' \in [Requests -> Content]
      BY <2>3 DEF RecomputeEdit, Compute
    <3>3. UNCHANGED <<target, storeVars, streamVars, agentVars, boundVars>>
      BY <2>3 DEF RecomputeEdit
    <3>. QED
      BY <3>1, <3>2, <3>3
  <2>4. ASSUME NEW p \in Requests, Publish(p) PROVE TypeOK'
    <3>1. step' \in [Requests -> Steps] /\ signal' \in [Conns -> BOOLEAN]
      BY <2>4 DEF Publish
    <3>2. UNCHANGED <<target, snap, storeVars, handler, owner, held, sent, wire,
                      agentVars, boundVars>>
      BY <2>4 DEF Publish
    <3>. QED
      BY <3>1, <3>2
  <2>5. ASSUME NEW m \in Machines, NEW c \in Conns, Connect(m, c) PROVE TypeOK'
    <3>1. using' \in [Machines -> Conns \cup {NoConn}] /\ owner' \in [Conns -> Machines]
      BY <2>5 DEF Connect
    <3>2. handler' \in [Conns -> HandlerStates] /\ sent' \in [Conns -> Nat]
      BY <2>5 DEF Connect
    <3>3. wire' \in [Conns -> Seq(Nat)] /\ \A d \in Conns : Len(wire'[d]) <= MaxWire
      BY <2>5 DEF Connect
    <3>4. UNCHANGED <<storeVars, requestVars, signal, held, seen, boundVars>>
      BY <2>5 DEF Connect
    <3>. QED
      BY <3>1, <3>2, <3>3, <3>4
  <2>6. ASSUME NEW c \in Conns, Handle(c) PROVE TypeOK'
    <3>1. handler' \in [Conns -> HandlerStates]
      BY <2>6 DEF Handle, Subscribe, Read, Write, WriteLost, Wake, Quit, End
    <3>2. signal' \in [Conns -> BOOLEAN]
      BY <2>6 DEF Handle, Subscribe, Read, Write, WriteLost, Wake, Quit, End
    <3>3. held' \in [Conns -> Nat]
      <4>1. Len(saved[owner[c]]) \in Nat
        OBVIOUS
      <4>2. PICK k \in Nat : held' = held \/ held' = [held EXCEPT ![c] = k]
        BY <2>6, <4>1 DEF Handle, Subscribe, Read, Write, WriteLost, Wake, Quit
      <4>. QED
        BY <4>2
    <3>4. sent' \in [Conns -> Nat]
      <4>1. PICK k \in Nat : sent' = sent \/ sent' = [sent EXCEPT ![c] = k]
        BY <2>6 DEF Handle, Subscribe, Read, Write, WriteLost, Wake, Quit, End
      <4>. QED
        BY <4>1
    <3>5. wire' \in [Conns -> Seq(Nat)] /\ \A d \in Conns : Len(wire'[d]) <= MaxWire
      <4>1. CASE Write(c)
        <5>1. held[c] \in Nat /\ wire[c] \in Seq(Nat) /\ Len(wire[c]) < MaxWire
              /\ wire' = [wire EXCEPT ![c] = Append(wire[c], held[c])]
          BY <4>1 DEF Write
        <5>2. Append(wire[c], held[c]) \in Seq(Nat)
              /\ Len(Append(wire[c], held[c])) = Len(wire[c]) + 1
          BY <5>1, AppendFacts
        <5>3. Len(wire[c]) + 1 <= MaxWire
          BY <5>1
        <5>. QED
          BY <5>1, <5>2, <5>3
      <4>2. CASE UNCHANGED wire
        BY <4>2
      <4>. QED
        BY <2>6, <4>1, <4>2 DEF Handle, Subscribe, Read, WriteLost, Wake, Quit
    <3>6. UNCHANGED <<storeVars, requestVars, owner, agentVars, boundVars>>
      BY <2>6 DEF Handle, Subscribe, Read, Write, WriteLost, Wake, Quit
    <3>. QED
      BY <3>1, <3>2, <3>3, <3>4, <3>5, <3>6
  <2>7. ASSUME NEW m \in Machines, Receive(m) PROVE TypeOK'
    <3>1. using[m] \in Conns /\ wire[using[m]] \in Seq(Nat) /\ wire[using[m]] # << >>
      BY <2>7 DEF Receive
    <3>2. /\ Head(wire[using[m]]) \in Nat
          /\ Tail(wire[using[m]]) \in Seq(Nat)
          /\ Len(Tail(wire[using[m]])) <= MaxWire
      <4>1. Len(wire[using[m]]) <= MaxWire /\ MaxWire \in Nat
        BY <3>1
      <4> HIDE DEF TypeOK
      <4>2. /\ Head(wire[using[m]]) \in Nat
            /\ Tail(wire[using[m]]) \in Seq(Nat)
            /\ Len(wire[using[m]]) \in Nat
            /\ Len(Tail(wire[using[m]])) = Len(wire[using[m]]) - 1
        BY <3>1, TailFacts
      <4>. QED
        BY <4>1, <4>2
    <3>3. seen' \in [Machines -> Nat]
      BY <2>7, <3>2 DEF Receive
    <3>4. wire' \in [Conns -> Seq(Nat)] /\ \A d \in Conns : Len(wire'[d]) <= MaxWire
      BY <2>7, <3>1, <3>2 DEF Receive
    <3>5. UNCHANGED <<storeVars, requestVars, handler, owner, signal, held, sent,
                      using, boundVars>>
      BY <2>7 DEF Receive
    <3>. QED
      BY <3>3, <3>4, <3>5
  <2>8. ASSUME NEW m \in Machines, EndOfStream(m) \/ Drop(m) PROVE TypeOK'
    <3>1. using' \in [Machines -> Conns \cup {NoConn}]
      BY <2>8 DEF EndOfStream, Drop, Detach
    <3>2. wire' \in [Conns -> Seq(Nat)] /\ \A d \in Conns : Len(wire'[d]) <= MaxWire
      <4>1. PICK c \in Conns : wire' = [wire EXCEPT ![c] = << >>]
        BY <2>8 DEF EndOfStream, Drop, Detach
      <4>2. << >> \in Seq(Nat) /\ Len(<< >>) <= MaxWire
        OBVIOUS
      <4>3. wire' \in [Conns -> Seq(Nat)]
        BY <4>1, <4>2
      <4>4. ASSUME NEW d \in Conns PROVE Len(wire'[d]) <= MaxWire
        BY <4>1, <4>2
      <4>. QED
        BY <4>3, <4>4
    <3>3. handler' \in [Conns -> HandlerStates]
      BY <2>8 DEF EndOfStream, Drop, Detach
    <3>4. overlapped' = overlapped /\ requests' = requests /\ flushFails' = flushFails
          /\ drops' \in {drops, drops + 1}
      BY <2>8 DEF EndOfStream, Drop
    <3>5. UNCHANGED <<storeVars, requestVars, owner, signal, held, sent, seen>>
      BY <2>8 DEF EndOfStream, Drop
    <3>6. {requests, drops, flushFails}' \subseteq Nat /\ overlapped' \subseteq Requests
      BY <3>4
    <3>. QED
      BY <3>1, <3>2, <3>3, <3>5, <3>6
  <2>9. CASE Restart
    <3>1. /\ step' \in [Requests -> Steps] /\ snap' \in [Requests -> Content]
          /\ handler' \in [Conns -> HandlerStates] /\ signal' \in [Conns -> BOOLEAN]
          /\ held' \in [Conns -> Nat] /\ sent' \in [Conns -> Nat]
      BY <2>9 DEF Restart
    <3>2. wire' \in [Conns -> Seq(Nat)] /\ \A d \in Conns : Len(wire'[d]) <= MaxWire
      BY <2>9 DEF Restart
    <3>3. using' \in [Machines -> Conns \cup {NoConn}] /\ drops' \in Nat
      BY <2>9 DEF Restart
    <3>4. UNCHANGED <<target, owner, seen, overlapped, deleted, requests, flushFails>>
      BY <2>9 DEF Restart
    <3>5. /\ saved' \in [Machines -> Seq(Content) \ {<< >>}]
          /\ disk' \in [Machines -> Nat]
          /\ \A m \in Machines : disk'[m] \in 1..Len(saved'[m])
      <4> HIDE DEF TypeOK
      <4>. QED
        BY <2>9, ReloadFacts, FileFacts DEF Restart, Content
    <3>. QED
      BY <3>1, <3>2, <3>3, <3>4, <3>5
  <2>10. CASE UNCHANGED vars
    BY <2>10 DEF vars
  <2>11. CASE OtherWrite
    <3>1. UNCHANGED <<saved, deleted, requestVars, streamVars, agentVars, boundVars>>
      BY <2>11 DEF OtherWrite
    <3>2. /\ disk' \in [Machines -> Nat]
          /\ \A m \in Machines : disk'[m] \in 1..Len(saved'[m])
      <4> HIDE DEF TypeOK
      <4>1. saved' \in [Machines -> Seq(Content) \ {<< >>}]
        BY <3>1 DEF TypeOK
      <4>. QED
        BY <2>11, <4>1, FileFacts DEF OtherWrite, Content
    <3>. QED
      BY <3>1, <3>2
  <2>. QED
    BY <2>1, <2>2, <2>3, <2>4, <2>5, <2>6, <2>7, <2>8, <2>9, <2>10, <2>11
       DEF Next, Request, Agent
<1>. QED
  BY <1>1, <1>2, PTL DEF Spec

------------------------------------------------------------------------------
(* The inductive invariant behind NoLostWakeup                              *)

\* Handlers only hold positions that exist.
PositionsOK ==
    \A c \in Conns :
        /\ handler[c] = "writing" => held[c] \in 1..Len(saved[owner[c]])
        /\ handler[c] = "waiting" => sent[c] \in 1..Len(saved[owner[c]])

\* Only editors edit and only removers remove; requests that are under way at
\* the same time are known to overlap.  An edit that runs alone writes back what
\* the store holds, and as long as no deletion has run next to another request,
\* nobody is about to write to a record that is gone.
RequestOK(p) ==
    /\ step[p] \in {"editing", "edited"} => p \in Editors
    /\ step[p] \in {"editing", "computed"} => snap[p] \in Modules
    /\ step[p] = "removing" => snap[p] = Gone /\ p \in Removers
    /\ step[p] = "editing" /\ p \notin overlapped => snap[p] = Stored(target[p])
    /\ step[p] \in {"editing", "computed"} /\ overlapped \cap Removers = {} =>
          Stored(target[p]) # Gone
    /\ \A q \in Requests \ {p} : step[p] # "idle" /\ step[q] # "idle" => p \in overlapped

RequestsOK == \A p \in Requests : RequestOK(p)

\* A request has saved a new state of m and still owes its Publish.
OwedPublish(m) == \E p \in Requests : step[p] = "saved" /\ target[p] = m

\* What handler c has read or sent last, while it matters.
Last(c) == IF handler[c] = "writing" THEN held[c] ELSE sent[c]

\* NoLostWakeup, extended to a handler between its read and its write, and
\* without the edits that are between their save and their Recompute.
Awake ==
    flushFails = 0 /\ overlapped \cap Editors = {} =>
        \A c \in Conns :
            handler[c] \in {"writing", "waiting"} /\ ~signal[c] =>
                \/ OwedPublish(owner[c])
                \/ saved[owner[c]][Last(c)] = Stored(owner[c])

\* Positions stay within the history, which only grows.
LEMMA Positions == Spec => []PositionsOK
<1> USE DEF PositionsOK
<1>1. Init => PositionsOK
  BY DEF Init
<1>2. TypeOK /\ PositionsOK /\ [Next]_vars => PositionsOK'
  <2> SUFFICES ASSUME TypeOK, PositionsOK, [Next]_vars PROVE PositionsOK'
    OBVIOUS
  <2> USE DEF storeVars, requestVars, streamVars, agentVars, boundVars
  <2>1. ASSUME NEW p \in Requests, saved' = [saved EXCEPT ![target[p]] = Append(@, snap[p])],
               UNCHANGED <<handler, owner, held, sent>>
        PROVE  PositionsOK'
    <3>1. \A m \in Machines : Len(saved[m]) \in Nat /\ Len(saved'[m]) \in Nat
                              /\ Len(saved'[m]) >= Len(saved[m])
      BY <2>1, WriteFacts DEF TypeOK
    <3>. QED
      BY <2>1, <3>1 DEF TypeOK
  <2>2. ASSUME NEW p \in Requests, SaveEdit(p) \/ Save(p) \/ SaveFails(p)
        PROVE  PositionsOK'
    BY <2>1, <2>2, WriteOrNot DEF SaveEdit, Save, SaveFails
  <2>3. ASSUME NEW p \in Requests, NEW m \in Machines,
               StartRecompute(p, m) \/ StartEdit(p, m) \/ StartRemove(p, m)
        PROVE  PositionsOK'
    BY <2>3 DEF StartRecompute, StartEdit, StartRemove
  <2>4. ASSUME NEW p \in Requests, RecomputeEdit(p) \/ Publish(p) PROVE PositionsOK'
    BY <2>4 DEF RecomputeEdit, Publish
  <2>5. ASSUME NEW m \in Machines, NEW c \in Conns, Connect(m, c) PROVE PositionsOK'
    BY <2>5 DEF Connect, TypeOK
  <2>6. ASSUME NEW c \in Conns, Subscribe(c) \/ Wake(c) PROVE PositionsOK'
    BY <2>6 DEF Subscribe, Wake, TypeOK
  <2>7. ASSUME NEW c \in Conns, Read(c) PROVE PositionsOK'
    <3>1. Len(saved[owner[c]]) \in 1..Len(saved[owner[c]])
      BY DEF TypeOK
    <3>2. /\ UNCHANGED <<saved, owner>>
          /\ \A d \in Conns \ {c} : UNCHANGED <<handler[d], held[d], sent[d]>>
      BY <2>7 DEF Read, End, TypeOK
    <3>3. \/ handler'[c] = "writing" /\ held'[c] = Len(saved[owner[c]])
          \/ handler'[c] \in {"ended", "closed"}
      BY <2>7 DEF Read, End, TypeOK
    <3>. QED
      BY <3>1, <3>2, <3>3
  <2>8. ASSUME NEW c \in Conns, Write(c) PROVE PositionsOK'
    BY <2>8 DEF Write, TypeOK
  <2>9. ASSUME NEW c \in Conns, WriteLost(c) \/ Quit(c) PROVE PositionsOK'
    BY <2>9 DEF WriteLost, Quit, End, TypeOK
  <2>10. ASSUME NEW m \in Machines, Receive(m) \/ EndOfStream(m) \/ Drop(m) PROVE PositionsOK'
    BY <2>10 DEF Receive, EndOfStream, Drop, Detach, TypeOK
  <2>11. CASE Restart
    BY <2>11 DEF Restart, TypeOK
  <2>12. CASE OtherWrite \/ UNCHANGED vars
    BY <2>12 DEF OtherWrite, vars
  <2>. QED
    BY <2>2, <2>3, <2>4, <2>5, <2>6, <2>7, <2>8, <2>9, <2>10, <2>11, <2>12
       DEF Next, Request, Handle, Agent
<1>. QED
  BY <1>1, <1>2, TypeCorrect, PTL DEF Spec

\* What a request's write does to the history of its machine: the new content
\* is what the request held, and every other machine keeps its own.
LEMMA StoredAfterWrite ==
    ASSUME TypeOK, NEW p \in Requests,
           saved' = [saved EXCEPT ![target[p]] = Append(@, snap[p])]
    PROVE  \A m \in Machines :
             /\ Stored(m)' = IF m = target[p] THEN snap[p] ELSE Stored(m)
             /\ \A i \in 1..Len(saved[m]) : saved'[m][i] = saved[m][i]
<1> SUFFICES ASSUME NEW m \in Machines
             PROVE  /\ Stored(m)' = IF m = target[p] THEN snap[p] ELSE Stored(m)
                    /\ \A i \in 1..Len(saved[m]) : saved'[m][i] = saved[m][i]
  OBVIOUS
<1>1. CASE m = target[p]
  <2>1. saved'[target[p]][Len(saved'[target[p]])] = snap[p]
    BY WriteFacts
  <2>2. \A i \in 1..Len(saved[target[p]]) : saved'[target[p]][i] = saved[target[p]][i]
    BY WriteFacts
  <2>. QED
    BY <1>1, <2>1, <2>2 DEF Stored
<1>2. CASE m # target[p]
  <2>1. saved'[m] = saved[m]
    BY <1>2, WriteFacts
  <2>. QED
    BY <1>2, <2>1 DEF Stored
<1>. QED
  BY <1>1, <1>2

\* Histories only grow.
LEMMA HistoryGrows ==
    ASSUME TypeOK, NEW p \in Requests,
           saved' = [saved EXCEPT ![target[p]] = Append(@, snap[p])]
    PROVE  \A m \in Machines : Len(saved[m]) \in Nat /\ Len(saved'[m]) \in Nat
                               /\ Len(saved'[m]) >= Len(saved[m])
<1>1. \A m \in Machines : Len(saved[m]) \in Nat
  BY DEF TypeOK
<1>2. \A m \in Machines : m # target[p] => saved'[m] = saved[m]
  BY WriteFacts
<1>3. Len(saved'[target[p]]) = Len(saved[target[p]]) + 1
  BY WriteFacts
<1>. QED
  BY <1>1, <1>2, <1>3

\* The step of a request reads the store it will write to; nothing writes it in
\* between unless requests overlap.
LEMMA RequestSteps == Spec => []RequestsOK
<1>1. Init => RequestsOK
  BY DEF Init, RequestsOK, RequestOK
<1>2. TypeOK /\ RequestsOK /\ [Next]_vars => RequestsOK'
  <2> SUFFICES ASSUME TypeOK, RequestsOK, [Next]_vars PROVE RequestsOK'
    OBVIOUS
  <2> USE DEF storeVars, requestVars, streamVars, agentVars, boundVars
  <2>1. ASSUME NEW p \in Requests, NEW m \in Machines,
               StartRecompute(p, m) \/ StartEdit(p, m) \/ StartRemove(p, m)
        PROVE  RequestsOK'
    <3>1. /\ step[p] = "idle"
          /\ overlapped' = overlapped \cup (IF Running = {} THEN {} ELSE Running \cup {p})
          /\ target' = [target EXCEPT ![p] = m]
          /\ saved' = saved
      BY <2>1 DEF StartRecompute, StartEdit, StartRemove, Accept
    <3>2. \A q \in Requests \ {p} : step'[q] = step[q] /\ snap'[q] = snap[q]
                                    /\ target'[q] = target[q]
      BY <2>1, <3>1 DEF StartRecompute, StartEdit, StartRemove, Compute, TypeOK
    <3>3. \/ step'[p] = "computed" /\ snap'[p] \in Modules /\ Stored(m) # Gone
          \/ /\ step'[p] = "editing" /\ snap'[p] = Stored(m) /\ Stored(m) \in Modules
             /\ Stored(m) # Gone /\ p \in Editors
          \/ step'[p] = "removing" /\ snap'[p] = Gone /\ p \in Removers
      <4>1. CASE StartRecompute(p, m)
        BY <4>1 DEF StartRecompute, Compute, TypeOK
      <4>2. CASE StartEdit(p, m)
        <5>1. Stored(m) \in Content
          BY DEF Stored, TypeOK
        <5>. QED
          BY <4>2, <5>1 DEF StartEdit, TypeOK, Content
      <4>3. CASE StartRemove(p, m)
        BY <4>3 DEF StartRemove, TypeOK
      <4>. QED
        BY <2>1, <4>1, <4>2, <4>3
    <3>4. target'[p] = m /\ \A n : Stored(n)' = Stored(n)
      BY <3>1 DEF Stored, TypeOK
    <3>5. overlapped \subseteq overlapped'
          /\ \A q \in Requests \ {p} : step[q] # "idle" => {p, q} \subseteq overlapped'
      BY <3>1 DEF Running
    <3>6. RequestOK(p)'
      BY <3>3, <3>4, <3>5, <3>2 DEF RequestOK
    <3>7. ASSUME NEW q \in Requests \ {p} PROVE RequestOK(q)'
      BY <3>2, <3>4, <3>5 DEF RequestsOK, RequestOK
    <3>. QED
      BY <3>6, <3>7 DEF RequestsOK
  <2>2. ASSUME NEW p \in Requests, SaveEdit(p) \/ Save(p) \/ SaveFails(p)
        PROVE  RequestsOK'
    <3>1. \A q \in Requests \ {p} : step'[q] = step[q] /\ snap'[q] = snap[q]
      BY <2>2 DEF SaveEdit, Save, SaveFails, SaveMachine, TypeOK
    <3>2. step[p] # "idle" /\ step'[p] \in {"edited", "saved", "idle"}
      BY <2>2 DEF SaveEdit, Save, SaveFails, TypeOK
    <3>3. step'[p] = "edited" => p \in Editors
      BY <2>2 DEF SaveEdit, Save, SaveFails, RequestsOK, RequestOK, TypeOK
    <3>4. /\ \/ saved' = [saved EXCEPT ![target[p]] = Append(@, snap[p])]
             \/ saved' = saved
          /\ target' = target /\ overlapped' = overlapped
      BY <2>2, WriteOrNot DEF SaveEdit, Save, SaveFails
    <3>5. step[p] \in {"editing", "computed", "removing"}
      BY <2>2 DEF SaveEdit, Save, SaveFails
    <3>6. RequestOK(p)'
      BY <3>1, <3>2, <3>3, <3>4 DEF RequestsOK, RequestOK
    <3>7. ASSUME NEW q \in Requests \ {p}, step[q] # "idle" PROVE {p, q} \subseteq overlapped
      BY <3>2, <3>7 DEF RequestsOK, RequestOK
    <3>8. ASSUME NEW q \in Requests \ {p}, step[q] \in {"editing", "computed"},
                 overlapped \cap Removers = {}
          PROVE  Stored(target[q])' # Gone
      <4>1. step[p] # "removing"
        BY <3>7, <3>8 DEF RequestsOK, RequestOK
      <4>2. snap[p] # Gone
        BY <3>5, <4>1, DeliveryAssumption DEF RequestsOK, RequestOK
      <4>3. Stored(target[q]) # Gone /\ target[q] \in Machines
        BY <3>8 DEF RequestsOK, RequestOK, TypeOK
      <4>. QED
        BY <3>4, <4>2, <4>3, StoredAfterWrite DEF Stored
    <3>9. ASSUME NEW q \in Requests \ {p} PROVE RequestOK(q)'
      <4>1. step'[q] = step[q] /\ snap'[q] = snap[q] /\ target'[q] = target[q]
            /\ overlapped' = overlapped
        BY <3>1, <3>4
      <4>2. step[q] \in {"editing", "computed"} /\ overlapped \cap Removers = {} =>
               Stored(target[q])' # Gone
        BY <3>8
      <4>3. step[q] # "idle" => q \in overlapped
        BY <3>7
      <4>. QED
        BY <4>1, <4>2, <4>3, <3>1, <3>4 DEF RequestsOK, RequestOK
    <3>. QED
      BY <3>6, <3>9 DEF RequestsOK
  <2>3. ASSUME NEW p \in Requests, RecomputeEdit(p) PROVE RequestsOK'
    <3>1. /\ step[p] = "edited" /\ UNCHANGED <<target, saved, overlapped>>
          /\ step'[p] = "computed" => snap'[p] \in Modules /\ Stored(target[p]) # Gone
          /\ step'[p] \in {"computed", "idle"}
      BY <2>3 DEF RecomputeEdit, Compute, TypeOK
    <3>2. \A q \in Requests \ {p} : step'[q] = step[q] /\ snap'[q] = snap[q]
      BY <2>3 DEF RecomputeEdit, Compute, TypeOK
    <3>3. \A n : Stored(n)' = Stored(n)
      BY <3>1 DEF Stored
    <3>4. RequestOK(p)'
      BY <3>1, <3>2, <3>3 DEF RequestsOK, RequestOK
    <3>5. ASSUME NEW q \in Requests \ {p} PROVE RequestOK(q)'
      BY <3>1, <3>2, <3>3 DEF RequestsOK, RequestOK
    <3>. QED
      BY <3>4, <3>5 DEF RequestsOK
  <2>4. ASSUME NEW p \in Requests, Publish(p) PROVE RequestsOK'
    <3>1. UNCHANGED <<target, saved, snap, overlapped>> /\ step'[p] = "idle"
          /\ \A q \in Requests \ {p} : step'[q] = step[q]
      BY <2>4 DEF Publish, TypeOK
    <3>. QED
      BY <3>1 DEF RequestsOK, RequestOK, Stored
  <2>5. ASSUME UNCHANGED <<saved, step, target, snap, overlapped>> PROVE RequestsOK'
    BY <2>5 DEF RequestsOK, RequestOK, Stored
  <2>6. ASSUME NEW c \in Conns, Handle(c) PROVE RequestsOK'
    BY <2>5, <2>6 DEF Handle, Subscribe, Read, Write, WriteLost, Wake, Quit
  <2>7. ASSUME NEW m \in Machines, Agent(m) \/ Drop(m) PROVE RequestsOK'
    BY <2>5, <2>7 DEF Agent, Connect, Receive, EndOfStream, Drop
  <2>8. CASE Restart
    BY <2>8 DEF Restart, RequestsOK, RequestOK
  <2>9. CASE OtherWrite \/ UNCHANGED vars
    BY <2>5, <2>9 DEF OtherWrite, vars
  <2>. QED
    BY <2>1, <2>2, <2>3, <2>4, <2>6, <2>7, <2>8, <2>9 DEF Next, Request
<1>. QED
  BY <1>1, <1>2, TypeCorrect, PTL DEF Spec

\* Nothing a wake-up depends on is touched.
LEMMA AwakeUnchanged ==
    ASSUME Awake, flushFails' = flushFails, saved' = saved,
           UNCHANGED <<handler, owner, signal, held, sent>>,
           overlapped \subseteq overlapped',
           \A p \in Requests : step[p] = "saved" => step'[p] = "saved" /\ target'[p] = target[p]
    PROVE  Awake'
  BY DEF Awake, OwedPublish, Last, Stored

\* A step of one handler only concerns what that handler has told its agent.
LEMMA AwakeElsewhere ==
    ASSUME Awake, NEW c \in Conns,
           UNCHANGED <<saved, step, target, owner, flushFails, overlapped>>,
           \A d \in Conns \ {c} : UNCHANGED <<handler[d], signal[d], held[d], sent[d]>>,
           \/ handler'[c] \notin {"writing", "waiting"}
           \/ (saved[owner[c]][Last(c)] = Stored(owner[c]))'
           \/ /\ handler[c] \in {"writing", "waiting"} /\ signal'[c] = signal[c]
              /\ saved'[owner[c]][Last(c)'] = saved[owner[c]][Last(c)]
    PROVE  Awake'
<1>1. \A m : OwedPublish(m)' = OwedPublish(m) /\ Stored(m)' = Stored(m)
  BY DEF OwedPublish, Stored
<1>2. \A d \in Conns \ {c} : Last(d)' = Last(d)
  BY DEF Last
<1>3. ASSUME NEW d \in Conns, d # c, (handler[d] \in {"writing", "waiting"} /\ ~signal[d])',
             flushFails' = 0, (overlapped \cap Editors)' = {}
      PROVE  (OwedPublish(owner[d]) \/ saved[owner[d]][Last(d)] = Stored(owner[d]))'
  BY <1>1, <1>2, <1>3 DEF Awake
<1>4. ASSUME (handler[c] \in {"writing", "waiting"} /\ ~signal[c])',
             flushFails' = 0, (overlapped \cap Editors)' = {}
      PROVE  (OwedPublish(owner[c]) \/ saved[owner[c]][Last(c)] = Stored(owner[c]))'
  BY <1>1, <1>4 DEF Awake
<1>. QED
  BY <1>3, <1>4 DEF Awake

\* Until a write fails or an edit overlaps another request, no stream misses a
\* change of its machine's desired state: the signal may be dropped, but only
\* when one that will be consumed later is pending.
THEOREM NoWakeupIsLost == Spec => []NoLostWakeup
<1>1. Init => Awake
  BY DEF Init, Awake
<1>2. TypeOK /\ PositionsOK /\ RequestsOK /\ Awake /\ [Next]_vars => Awake'
  <2> SUFFICES ASSUME TypeOK, PositionsOK, RequestsOK, Awake, [Next]_vars PROVE Awake'
    OBVIOUS
  <2> USE DEF storeVars, requestVars, streamVars, agentVars, boundVars
  <2>1. ASSUME NEW p \in Requests, NEW m \in Machines,
               StartRecompute(p, m) \/ StartEdit(p, m) \/ StartRemove(p, m)
        PROVE  Awake'
    <3>1. /\ UNCHANGED <<saved, flushFails, handler, owner, signal, held, sent>>
          /\ overlapped \subseteq overlapped' /\ step[p] = "idle"
      BY <2>1 DEF StartRecompute, StartEdit, StartRemove, Accept
    <3>2. \A q \in Requests \ {p} : step'[q] = step[q] /\ target'[q] = target[q]
      BY <2>1 DEF StartRecompute, StartEdit, StartRemove, Accept, Compute, TypeOK
    <3>. QED
      BY <3>1, <3>2, AwakeUnchanged
  <2>2. ASSUME NEW p \in Requests, SaveEdit(p) PROVE Awake'
    <3> SUFFICES ASSUME overlapped \cap Editors = {} PROVE Awake'
      BY <2>2 DEF SaveEdit, Awake
    <3>0. saved' = [saved EXCEPT ![target[p]] = Append(@, snap[p])] /\ step[p] = "editing"
          /\ UNCHANGED <<target, streamVars, agentVars, boundVars>>
          /\ step' = [step EXCEPT ![p] = "edited"]
      BY <2>2 DEF SaveEdit, SaveMachine
    <3>1. p \notin overlapped /\ snap[p] = Stored(target[p])
      BY <3>0 DEF RequestsOK, RequestOK
    <3>2. \A m \in Machines : Stored(m)' = Stored(m)
      BY <3>0, <3>1, StoredAfterWrite
    <3>3. \A c \in Conns : handler[c] \in {"writing", "waiting"} =>
              saved'[owner[c]][Last(c)] = saved[owner[c]][Last(c)]
      BY <3>0, StoredAfterWrite DEF PositionsOK, Last, TypeOK
    <3>4. \A q \in Requests : step[q] # "saved" /\ step'[q] # "saved"
      BY <3>0, <3>1 DEF RequestsOK, RequestOK, TypeOK
    <3>5. \A c \in Conns : Last(c)' = Last(c) /\ owner[c] \in Machines
      BY <3>0 DEF Last, TypeOK
    <3>6. \A m : ~OwedPublish(m)
      BY <3>4 DEF OwedPublish
    <3>. QED
      BY <3>0, <3>2, <3>3, <3>5, <3>6 DEF Awake
  <2>3. ASSUME NEW p \in Requests, RecomputeEdit(p) PROVE Awake'
    BY <2>3, AwakeUnchanged DEF RecomputeEdit, Compute, TypeOK
  <2>4. ASSUME NEW p \in Requests, Save(p) PROVE Awake'
    <3>1. OwedPublish(target[p])'
      BY <2>4 DEF Save, OwedPublish, TypeOK
    <3>2. \A m \in Machines : OwedPublish(m) => OwedPublish(m)'
      BY <2>4 DEF Save, OwedPublish, TypeOK
    <3>3. \A c \in Conns : handler[c] \in {"writing", "waiting"} /\ owner[c] # target[p] =>
              /\ saved'[owner[c]][Last(c)] = saved[owner[c]][Last(c)]
              /\ Stored(owner[c])' = Stored(owner[c])
      BY <2>4, StoredAfterWrite DEF Save, SaveMachine, PositionsOK, Last, TypeOK
    <3>4. UNCHANGED <<handler, owner, signal, held, sent, flushFails, overlapped>>
      BY <2>4 DEF Save
    <3>5. \A c \in Conns : Last(c)' = Last(c)
      BY <3>4 DEF Last
    <3>6. ASSUME NEW c \in Conns, handler[c] \in {"writing", "waiting"}, ~signal[c],
                 flushFails = 0, overlapped \cap Editors = {}
          PROVE  OwedPublish(owner[c])' \/ (saved[owner[c]][Last(c)] = Stored(owner[c]))'
      <4>1. CASE owner[c] = target[p]
        BY <3>1, <3>4, <4>1, <2>4 DEF Save, OwedPublish
      <4>2. CASE owner[c] # target[p]
        <5>1. OwedPublish(owner[c]) \/ saved[owner[c]][Last(c)] = Stored(owner[c])
          BY <3>6 DEF Awake
        <5>2. CASE OwedPublish(owner[c])
          BY <5>2, <3>2, <3>4 DEF OwedPublish, TypeOK
        <5>3. CASE saved[owner[c]][Last(c)] = Stored(owner[c])
          BY <5>3, <3>3, <3>4, <3>5, <3>6, <4>2 DEF Stored
        <5>. QED
          BY <5>1, <5>2, <5>3
      <4>. QED
        BY <4>1, <4>2
    <3>. QED
      BY <3>4, <3>6 DEF Awake
  <2>5. ASSUME NEW p \in Requests, SaveFails(p) PROVE Awake'
    BY <2>5 DEF SaveFails, Awake, TypeOK
  <2>6. ASSUME NEW p \in Requests, Publish(p) PROVE Awake'
    <3>1. \A q \in Requests : step[q] = "saved" /\ target[q] # target[p] =>
              step'[q] = "saved" /\ target'[q] = target[q]
      BY <2>6 DEF Publish, TypeOK
    <3>2. \A m \in Machines \ {target[p]} : OwedPublish(m) => OwedPublish(m)'
      BY <3>1 DEF OwedPublish
    <3>3. \A c \in Conns : handler[c] \in {"writing", "waiting"} /\ ~signal'[c] =>
              ~signal[c] /\ owner[c] # target[p]
      BY <2>6 DEF Publish, Subscribed, TypeOK
    <3>4. UNCHANGED <<saved, handler, owner, held, sent, flushFails, overlapped>>
      BY <2>6 DEF Publish
    <3>5. \A c \in Conns : Last(c)' = Last(c) /\ Stored(owner[c])' = Stored(owner[c])
                           /\ owner[c] \in Machines
      BY <3>4 DEF Last, Stored, TypeOK
    <3>. QED
      BY <3>2, <3>3, <3>4, <3>5 DEF Awake
  <2>7. ASSUME NEW m \in Machines, NEW c \in Conns, Connect(m, c) PROVE Awake'
    <3>1. /\ UNCHANGED <<saved, step, target, signal, held, flushFails, overlapped>>
          /\ handler'[c] = "accepted"
          /\ \A d \in Conns \ {c} : UNCHANGED <<handler[d], owner[d], sent[d]>>
      BY <2>7 DEF Connect, TypeOK
    <3>2. \A d \in Conns \ {c} : Last(d)' = Last(d)
      BY <3>1 DEF Last
    <3>. QED
      BY <3>1, <3>2 DEF Awake, OwedPublish, Stored
  <2>8. ASSUME NEW c \in Conns, Subscribe(c) \/ Wake(c) PROVE Awake'
    <3>1. /\ UNCHANGED <<saved, step, target, owner, flushFails, overlapped>>
          /\ handler'[c] = "reading"
          /\ \A d \in Conns \ {c} : UNCHANGED <<handler[d], signal[d], held[d], sent[d]>>
      BY <2>8 DEF Subscribe, Wake, TypeOK
    <3>. QED
      BY <3>1, AwakeElsewhere
  <2>9. ASSUME NEW c \in Conns, Read(c) PROVE Awake'
    <3>1. /\ UNCHANGED <<saved, step, target, owner, flushFails, overlapped>>
          /\ \A d \in Conns \ {c} : UNCHANGED <<handler[d], signal[d], held[d], sent[d]>>
      BY <2>9 DEF Read, End, TypeOK
    <3>2. \/ handler'[c] = "writing" /\ held'[c] = Len(saved[owner[c]])
          \/ handler'[c] \in {"ended", "closed"}
      BY <2>9 DEF Read, End, TypeOK
    <3>. QED
      BY <3>1, <3>2, AwakeElsewhere DEF Last, Stored
  <2>10. ASSUME NEW c \in Conns, Write(c) PROVE Awake'
    <3>1. /\ UNCHANGED <<saved, step, target, owner, signal, flushFails, overlapped>>
          /\ \A d \in Conns \ {c} : UNCHANGED <<handler[d], held[d], sent[d]>>
      BY <2>10 DEF Write, TypeOK
    <3>2. handler[c] = "writing" /\ handler'[c] = "waiting" /\ sent'[c] = held[c]
      BY <2>10 DEF Write, TypeOK
    <3>3. Last(c)' = Last(c)
      BY <3>2 DEF Last
    <3>. QED
      BY <3>1, <3>2, <3>3, AwakeElsewhere DEF Stored
  <2>11. ASSUME NEW c \in Conns, WriteLost(c) \/ Quit(c) PROVE Awake'
    <3>1. /\ UNCHANGED <<saved, step, target, owner, flushFails, overlapped>>
          /\ \A d \in Conns \ {c} : UNCHANGED <<handler[d], signal[d], held[d], sent[d]>>
      BY <2>11 DEF WriteLost, Quit, End, TypeOK
    <3>2. CASE handler'[c] \in {"ended", "closed"}
      BY <3>1, <3>2, AwakeElsewhere
    <3>3. CASE /\ handler[c] = "writing" /\ handler'[c] = "waiting" /\ sent'[c] = held[c]
               /\ signal' = signal
      <4>1. Last(c)' = Last(c)
        BY <3>3 DEF Last
      <4>. QED
        BY <3>1, <3>3, <4>1, AwakeElsewhere DEF Stored
    <3>. QED
      BY <2>11, <3>2, <3>3 DEF WriteLost, Quit, End, TypeOK
  <2>12. ASSUME NEW m \in Machines, Receive(m) \/ EndOfStream(m) \/ Drop(m) PROVE Awake'
    <3>1. /\ UNCHANGED <<saved, step, target, owner, signal, held, sent, flushFails, overlapped>>
          /\ \A c \in Conns : handler'[c] \in {handler[c], "closed"}
      BY <2>12 DEF Receive, EndOfStream, Drop, Detach, TypeOK
    <3>. QED
      BY <3>1 DEF Awake, OwedPublish, Last, Stored
  <2>13. CASE Restart
    BY <2>13 DEF Restart, Awake
  <2>14. CASE OtherWrite \/ UNCHANGED vars
    BY <2>14, AwakeUnchanged DEF OtherWrite, vars
  <2>. QED
    BY <2>1, <2>2, <2>3, <2>4, <2>5, <2>6, <2>7, <2>8, <2>9, <2>10, <2>11, <2>12,
       <2>13, <2>14 DEF Next, Request, Handle, Agent
<1>3. Awake => NoLostWakeup
  BY DEF Awake, NoLostWakeup, OwedPublish, Owed, Last
<1>. QED
  BY <1>1, <1>2, <1>3, TypeCorrect, Positions, RequestSteps, PTL DEF Spec

\* A deletion that was answered is in the store and in its file.
DeletionsKept ==
    overlapped \cap Removers = {} =>
        \A m \in deleted : Stored(m) = Gone /\ saved[m][disk[m]] = Gone

\* Unless a deletion runs next to another request, no edit, no Recompute and no
\* restart brings a machine back whose deletion was answered, even when other
\* requests overlap and writes fail: a write that fails leaves the record of
\* such a machine alone, in memory and in the file.
THEOREM DeletionIsFinal == Spec => []DeletedForGoodAlone
<1>1. Init => DeletionsKept
  BY DEF Init, DeletionsKept
<1>2. TypeOK /\ RequestsOK /\ DeletionsKept /\ [Next]_vars => DeletionsKept'
  <2> SUFFICES ASSUME TypeOK, RequestsOK, DeletionsKept, [Next]_vars,
                      overlapped' \cap Removers = {},
                      NEW m \in deleted'
               PROVE  (Stored(m) = Gone /\ saved[m][disk[m]] = Gone)'
    BY DEF DeletionsKept
  <2> USE DEF storeVars, requestVars, streamVars, agentVars, boundVars
  <2>1. ASSUME NEW p \in Requests, SaveEdit(p) \/ Save(p) \/ SaveFails(p)
        PROVE  (Stored(m) = Gone /\ saved[m][disk[m]] = Gone)'
    <3>1. /\ step[p] \in {"editing", "computed", "removing"}
          /\ overlapped' = overlapped /\ target[p] \in Machines
          /\ deleted' \subseteq deleted \cup {target[p]} /\ deleted \subseteq Machines
          /\ target[p] \in deleted' \ deleted => step[p] = "removing" /\ Save(p)
      BY <2>1 DEF SaveEdit, Save, SaveFails, TypeOK
    <3>2. m \in deleted => Stored(m) = Gone /\ saved[m][disk[m]] = Gone
                           /\ disk[m] \in 1..Len(saved[m])
      BY <3>1 DEF DeletionsKept, TypeOK
    <3>3. m = target[p] => snap[p] = Gone
      <4>1. step[p] \in {"editing", "computed"} => Stored(target[p]) # Gone
        BY <3>1 DEF RequestsOK, RequestOK
      <4>. QED
        BY <3>1, <3>2, <4>1 DEF RequestsOK, RequestOK
    <3>4. m \in Machines
      BY <3>1
    <3>5. CASE saved' = [saved EXCEPT ![target[p]] = Append(@, snap[p])]
      <4>1. m = target[p] \/ m \in deleted
        BY <3>1
      <4>2. Stored(m)' = Gone
        BY <3>2, <3>3, <3>4, <3>5, <4>1, StoredAfterWrite
      <4>3. CASE Flush
        BY <3>4, <4>2, <4>3 DEF Flush, Stored
      <4>4. CASE disk' = disk /\ m \in deleted
        BY <3>2, <3>4, <3>5, <4>2, <4>4, StoredAfterWrite
      <4>. QED
        BY <2>1, <3>1, <4>1, <4>3, <4>4 DEF SaveEdit, Save, SaveFails
    <3>6. CASE SaveFails(p) /\ saved' = saved
      <4>1. m \in deleted
        BY <3>6 DEF SaveFails
      <4>2. CASE Flush
        BY <3>2, <3>4, <3>6, <4>1, <4>2 DEF Flush, Stored
      <4>3. CASE disk' = disk
        BY <3>2, <3>6, <4>1, <4>3 DEF Stored
      <4>. QED
        BY <3>6, <4>2, <4>3 DEF SaveFails
    <3>. QED
      BY <2>1, <3>5, <3>6, WriteOrNot
  <2>2. ASSUME UNCHANGED <<saved, disk, deleted>>, overlapped \subseteq overlapped'
        PROVE  (Stored(m) = Gone /\ saved[m][disk[m]] = Gone)'
    BY <2>2 DEF DeletionsKept, Stored
  <2>3. ASSUME NEW p \in Requests, NEW n \in Machines,
               StartRecompute(p, n) \/ StartEdit(p, n) \/ StartRemove(p, n)
        PROVE  (Stored(m) = Gone /\ saved[m][disk[m]] = Gone)'
    BY <2>2, <2>3 DEF StartRecompute, StartEdit, StartRemove, Accept
  <2>4. CASE OtherWrite \/ Restart
    <3>1. /\ m \in deleted /\ m \in Machines /\ Stored(m) = Gone /\ saved[m][disk[m]] = Gone
          /\ Flush
      BY <2>4 DEF OtherWrite, Restart, DeletionsKept, TypeOK
    <3>2. Stored(m)' = Gone
      BY <2>4, <3>1, ReloadFacts DEF OtherWrite, Restart, Stored
    <3>. QED
      BY <3>1, <3>2 DEF Flush, Stored
  <2>. QED
    BY <2>1, <2>2, <2>3, <2>4 DEF Next, Request, Handle, Agent,
       RecomputeEdit, Publish, Subscribe, Read, Write, WriteLost, Wake, Quit,
       Connect, Receive, EndOfStream, Drop, vars
<1>3. DeletionsKept => DeletedForGoodAlone
  BY DEF DeletionsKept, DeletedForGoodAlone, DeletedForGood
<1>. QED
  BY <1>1, <1>2, <1>3, TypeCorrect, RequestSteps, PTL DEF Spec

------------------------------------------------------------------------------
(* The stream implements the register                                       *)

\* Position i of the history of m is a desired state, not a deletion.
Observable(m, i) == i \in 1..Len(saved[m]) /\ saved[m][i] # Gone

\* The agent of m reads from a connection of its own that is still open.
AgentOK(m) ==
    /\ using[m] # NoConn => owner[using[m]] = m /\ handler[using[m]] # "closed"
    /\ seen[m] <= Len(saved[m])

Attached(c) == using[owner[c]] = c

\* What a handler is about to write is a state of its machine that is not
\* older than what the attached agent has seen.
HandlerOK(c) ==
    handler[c] = "writing" =>
        /\ Observable(owner[c], held[c])
        /\ Attached(c) => seen[owner[c]] <= held[c]

\* Only an attached connection holds events; they are states of its machine,
\* in order, none older than what the agent has seen or newer than what the
\* handler is about to write.
WireOK(c) ==
    /\ wire[c] # << >> => Attached(c)
    /\ \A i \in 1..Len(wire[c]) :
          /\ Observable(owner[c], wire[c][i])
          /\ seen[owner[c]] <= wire[c][i]
          /\ \A j \in i..Len(wire[c]) : wire[c][i] <= wire[c][j]
          /\ handler[c] = "writing" => wire[c][i] <= held[c]

StreamsOK ==
    /\ \A m \in Machines : AgentOK(m)
    /\ \A c \in Conns : HandlerOK(c) /\ WireOK(c)

\* A connection that a step does not touch stays in order.
LEMMA Untouched ==
    ASSUME NEW c, HandlerOK(c), WireOK(c), saved' = saved,
           UNCHANGED <<handler[c], owner[c], held[c], wire[c], seen[owner[c]], Attached(c)>>
    PROVE  HandlerOK(c)' /\ WireOK(c)'
BY DEF HandlerOK, WireOK, Observable

\* Agents and connections stay in order through every step.
LEMMA StreamsInOrder == Spec => []StreamsOK
<1>1. Init => StreamsOK
  BY DeliveryAssumption DEF Init, StreamsOK, AgentOK, HandlerOK, WireOK
<1>2. TypeOK /\ StreamsOK /\ [Next]_vars => StreamsOK'
  <2> SUFFICES ASSUME TypeOK, StreamsOK, [Next]_vars PROVE StreamsOK'
    OBVIOUS
  <2> USE DEF storeVars, requestVars, streamVars, agentVars, boundVars
  <2>2. ASSUME UNCHANGED <<saved, handler, owner, held, wire, using, seen>>
        PROVE  StreamsOK'
    BY <2>2 DEF StreamsOK, AgentOK, HandlerOK, WireOK, Attached, Observable
  <2>1. ASSUME NEW p \in Requests, SaveEdit(p) \/ Save(p) \/ SaveFails(p)
        PROVE  StreamsOK'
    <3> SUFFICES ASSUME saved' = [saved EXCEPT ![target[p]] = Append(@, snap[p])]
                 PROVE  StreamsOK'
      BY <2>1, <2>2, WriteOrNot DEF SaveFails
    <3>1. /\ saved' = [saved EXCEPT ![target[p]] = Append(@, snap[p])]
          /\ UNCHANGED <<handler, owner, signal, held, sent, wire, using, seen>>
      BY <2>1 DEF SaveEdit, Save, SaveFails
    <3>2. \A m \in Machines : Len(saved[m]) \in Nat /\ Len(saved'[m]) \in Nat
                              /\ Len(saved'[m]) >= Len(saved[m])
      BY <3>1, HistoryGrows
    <3>3. ASSUME NEW m \in Machines, NEW i \in Nat, Observable(m, i) PROVE Observable(m, i)'
      <4>1. saved'[m][i] = saved[m][i]
        BY <3>1, <3>3, StoredAfterWrite DEF Observable
      <4>2. Len(saved'[m]) >= Len(saved[m]) /\ Len(saved[m]) \in Nat /\ Len(saved'[m]) \in Nat
        BY <3>2
      <4>. QED
        BY <3>3, <4>1, <4>2 DEF Observable
    <3>4. ASSUME NEW m \in Machines PROVE AgentOK(m)'
      <4>1. AgentOK(m) /\ seen[m] \in Nat
        BY DEF StreamsOK, TypeOK
      <4>2. seen[m] <= Len(saved'[m])
        <5>1. Len(saved[m]) \in Nat /\ Len(saved'[m]) \in Nat /\ Len(saved'[m]) >= Len(saved[m])
          BY <3>2
        <5>. QED
          BY <4>1, <5>1 DEF AgentOK
      <4>. QED
        BY <3>1, <4>1, <4>2 DEF AgentOK
    <3>5. \A c \in Conns : \A i \in 1..Len(wire[c]) : wire[c][i] \in Nat
      BY DEF TypeOK
    <3>6. ASSUME NEW c \in Conns PROVE HandlerOK(c)' /\ WireOK(c)'
      <4>1. HandlerOK(c) /\ WireOK(c) /\ owner[c] \in Machines /\ held[c] \in Nat
        BY DEF StreamsOK, TypeOK
      <4>2. HandlerOK(c)'
        BY <3>1, <3>3, <4>1 DEF HandlerOK, Attached
      <4>3. WireOK(c)'
        BY <3>1, <3>3, <3>5, <4>1 DEF WireOK, Attached
      <4>. QED
        BY <4>2, <4>3
    <3>. QED
      BY <3>4, <3>6 DEF StreamsOK
  <2>3. ASSUME NEW p \in Requests, NEW m \in Machines,
               StartRecompute(p, m) \/ StartEdit(p, m) \/ StartRemove(p, m)
        PROVE  StreamsOK'
    BY <2>2, <2>3 DEF StartRecompute, StartEdit, StartRemove
  <2>4. ASSUME NEW p \in Requests, RecomputeEdit(p) \/ Publish(p) PROVE StreamsOK'
    BY <2>2, <2>4 DEF RecomputeEdit, Publish
  <2>5. ASSUME NEW m \in Machines, NEW c \in Conns, Connect(m, c) PROVE StreamsOK'
    <3>1. /\ UNCHANGED <<saved, seen, held>> /\ handler[c] = "closed"
          /\ handler'[c] = "accepted" /\ owner'[c] = m /\ wire'[c] = << >>
          /\ using[m] = NoConn /\ using'[m] = c
          /\ \A d \in Conns \ {c} : UNCHANGED <<handler[d], owner[d], wire[d], held[d],
                                                 seen[owner[d]]>>
          /\ \A n \in Machines \ {m} : using'[n] = using[n]
      BY <2>5 DEF Connect, TypeOK
    <3>2. ASSUME NEW d \in Conns \ {c} PROVE HandlerOK(d)' /\ WireOK(d)'
      <4>1. owner[d] \in Machines /\ d # NoConn
        BY DeliveryAssumption DEF TypeOK
      <4>2. UNCHANGED Attached(d)
        BY <3>1, <4>1 DEF Attached
      <4>3. HandlerOK(d) /\ WireOK(d)
        BY DEF StreamsOK
      <4>4. UNCHANGED <<saved, handler[d], owner[d], held[d], wire[d], seen[owner[d]]>>
        BY <3>1
      <4>. QED
        BY <4>2, <4>3, <4>4, Untouched
    <3>3. HandlerOK(c)' /\ WireOK(c)'
      BY <3>1 DEF HandlerOK, WireOK
    <3>4. ASSUME NEW n \in Machines \ {m} PROVE AgentOK(n)'
      <4>1. AgentOK(n) /\ c # NoConn /\ using[n] \in Conns \cup {NoConn}
        BY DeliveryAssumption DEF StreamsOK, TypeOK
      <4>2. using[n] # c
        BY <3>1, <4>1 DEF AgentOK
      <4>. QED
        BY <3>1, <4>1, <4>2 DEF AgentOK
    <3>5. AgentOK(m)'
      BY <3>1 DEF StreamsOK, AgentOK
    <3>. QED
      BY <3>2, <3>3, <3>4, <3>5 DEF StreamsOK
  <2>6. ASSUME NEW c \in Conns,
               UNCHANGED <<saved, owner, wire, using, seen>>,
               \A d \in Conns \ {c} : UNCHANGED <<handler[d], held[d]>>,
               handler'[c] # "closed" \/ ~Attached(c),
               HandlerOK(c)', WireOK(c)'
        PROVE  StreamsOK'
    <3>1. ASSUME NEW d \in Conns \ {c} PROVE HandlerOK(d)' /\ WireOK(d)'
      BY <2>6, Untouched DEF StreamsOK, Attached
    <3>2. ASSUME NEW n \in Machines PROVE AgentOK(n)'
      BY <2>6 DEF StreamsOK, AgentOK, Attached, TypeOK
    <3>. QED
      BY <2>6, <3>1, <3>2 DEF StreamsOK
  <2>7. ASSUME NEW c \in Conns, Subscribe(c) \/ Wake(c) PROVE StreamsOK'
    <3>1. /\ UNCHANGED <<saved, owner, wire, using, seen, held>>
          /\ handler'[c] = "reading"
          /\ \A d \in Conns \ {c} : handler'[d] = handler[d]
      BY <2>7 DEF Subscribe, Wake, TypeOK
    <3>2. HandlerOK(c)' /\ WireOK(c)'
      BY <3>1 DEF StreamsOK, HandlerOK, WireOK, Attached, Observable
    <3>. QED
      BY <3>1, <3>2, <2>6
  <2>8. ASSUME NEW c \in Conns, Read(c) PROVE StreamsOK'
    <3>1. /\ UNCHANGED <<saved, owner, wire, using, seen>>
          /\ \A d \in Conns \ {c} : handler'[d] = handler[d] /\ held'[d] = held[d]
      BY <2>8 DEF Read, TypeOK, End
    <3>2. \/ /\ handler'[c] = "writing" /\ held'[c] = Len(saved[owner[c]])
             /\ Stored(owner[c]) # Gone
          \/ handler'[c] = "ended"
          \/ handler'[c] = "closed" /\ ~Attached(c)
      BY <2>8 DEF Read, TypeOK, End, Attached
    <3>3. Len(saved[owner[c]]) \in Nat \ {0} /\ owner[c] \in Machines
      BY DEF TypeOK
    <3>4. HandlerOK(c)'
      <4>1. Stored(owner[c]) # Gone => Observable(owner[c], Len(saved[owner[c]]))
        BY <3>3 DEF Observable, Stored
      <4>2. seen[owner[c]] <= Len(saved[owner[c]])
        BY <3>3 DEF StreamsOK, AgentOK
      <4>. QED
        BY <3>1, <3>2, <4>1, <4>2 DEF HandlerOK, Observable
    <3>5. WireOK(c)'
      <4>1. \A i \in 1..Len(wire[c]) : wire[c][i] <= Len(saved[owner[c]])
        BY DEF StreamsOK, WireOK, Observable
      <4>. QED
        BY <3>1, <3>2, <4>1 DEF StreamsOK, WireOK, Attached, Observable
    <3>. QED
      BY <3>1, <3>2, <3>4, <3>5, <2>6
  <2>9. ASSUME NEW c \in Conns, Write(c) PROVE StreamsOK'
    <3>1. /\ UNCHANGED <<saved, owner, using, seen>>
          /\ handler[c] = "writing" /\ handler'[c] = "waiting" /\ Attached(c)
          /\ wire'[c] = Append(wire[c], held[c])
          /\ \A d \in Conns \ {c} : UNCHANGED <<handler[d], held[d], wire[d]>>
      BY <2>9 DEF Write, TypeOK, Attached
    <3>2. /\ wire[c] \in Seq(Nat) /\ held[c] \in Nat /\ Len(wire[c]) \in Nat
          /\ Len(wire'[c]) = Len(wire[c]) + 1
          /\ wire'[c][Len(wire[c]) + 1] = held[c]
          /\ \A i \in 1..Len(wire[c]) : wire'[c][i] = wire[c][i]
      BY <3>1, AppendFacts DEF TypeOK
    <3>3. \A i \in 1..Len(wire[c]) :
             /\ Observable(owner[c], wire[c][i]) /\ wire[c][i] <= held[c]
             /\ seen[owner[c]] <= wire[c][i]
             /\ \A j \in i..Len(wire[c]) : wire[c][i] <= wire[c][j]
      BY <3>1 DEF StreamsOK, WireOK
    <3>4. Observable(owner[c], held[c]) /\ seen[owner[c]] <= held[c]
      BY <3>1 DEF StreamsOK, HandlerOK
    <3>5. \A i \in 1..Len(wire'[c]) :
             Observable(owner[c], wire'[c][i]) /\ seen[owner[c]] <= wire'[c][i]
      BY <3>2, <3>3, <3>4
    <3>6. \A i \in 1..Len(wire'[c]) : \A j \in i..Len(wire'[c]) : wire'[c][i] <= wire'[c][j]
      <4> SUFFICES ASSUME NEW i \in 1..Len(wire'[c]), NEW j \in i..Len(wire'[c])
                   PROVE  wire'[c][i] <= wire'[c][j]
        OBVIOUS
      <4>0. i \in Nat /\ j \in Nat /\ 1 <= i /\ i <= j /\ j <= Len(wire[c]) + 1
            /\ Len(wire[c]) \in Nat
        BY <3>2
      <4>1. CASE j <= Len(wire[c])
        <5>1. i \in 1..Len(wire[c]) /\ j \in 1..Len(wire[c]) /\ j \in i..Len(wire[c])
          BY <4>0, <4>1
        <5>2. wire'[c][i] = wire[c][i] /\ wire'[c][j] = wire[c][j]
          BY <3>2, <5>1
        <5>. QED
          BY <3>3, <5>1, <5>2
      <4>2. CASE j = Len(wire[c]) + 1 /\ i <= Len(wire[c])
        <5>1. wire'[c][i] = wire[c][i] /\ wire[c][i] <= held[c]
          BY <3>2, <3>3, <4>0, <4>2
        <5>. QED
          BY <3>2, <4>2, <5>1
      <4>3. CASE i = Len(wire[c]) + 1 /\ j = i
        BY <3>2, <4>3
      <4>. QED
        BY <3>2, <4>0, <4>1, <4>2, <4>3
    <3>7. HandlerOK(c)' /\ WireOK(c)'
      BY <3>1, <3>5, <3>6 DEF HandlerOK, WireOK, Attached, Observable
    <3>8. ASSUME NEW d \in Conns \ {c} PROVE HandlerOK(d)' /\ WireOK(d)'
      BY <3>1, Untouched DEF StreamsOK, Attached
    <3>9. ASSUME NEW n \in Machines PROVE AgentOK(n)'
      BY <3>1 DEF StreamsOK, AgentOK, TypeOK
    <3>. QED
      BY <3>7, <3>8, <3>9 DEF StreamsOK
  <2>10. ASSUME NEW c \in Conns, WriteLost(c) \/ Quit(c) PROVE StreamsOK'
    <3>1. /\ UNCHANGED <<saved, owner, using, seen, wire>>
          /\ handler'[c] \in {"closed", "waiting", "ended"}
          /\ handler'[c] = "closed" => ~Attached(c)
          /\ \A d \in Conns \ {c} : UNCHANGED <<handler[d], held[d]>>
      BY <2>10 DEF WriteLost, Quit, End, TypeOK, Attached
    <3>2. HandlerOK(c)' /\ WireOK(c)'
      BY <3>1 DEF StreamsOK, HandlerOK, WireOK, Attached, Observable
    <3>. QED
      BY <3>1, <3>2, <2>6
  <2>11. ASSUME NEW m \in Machines, Receive(m) PROVE StreamsOK'
    <3>0. PICK c \in Conns : c = using[m]
      BY <2>11 DEF Receive, TypeOK
    <3>1. /\ UNCHANGED <<saved, owner, using, handler, held>>
          /\ wire[c] # << >> /\ owner[c] = m /\ Attached(c)
          /\ wire'[c] = Tail(wire[c]) /\ seen'[m] = Head(wire[c])
          /\ \A d \in Conns \ {c} : wire'[d] = wire[d]
          /\ \A n \in Machines \ {m} : seen'[n] = seen[n]
      BY <3>0, <2>11, DeliveryAssumption DEF Receive, TypeOK, StreamsOK, AgentOK, Attached
    <3>2. /\ wire[c] \in Seq(Nat) /\ Len(wire[c]) \in Nat \ {0}
          /\ Head(wire[c]) = wire[c][1]
          /\ Len(wire'[c]) = Len(wire[c]) - 1
          /\ \A i \in 1..Len(wire'[c]) : wire'[c][i] = wire[c][i + 1]
      BY <3>1, TailFacts DEF TypeOK
    <3>3. \A i \in 1..Len(wire[c]) : Observable(m, wire[c][i])
                                     /\ \A j \in i..Len(wire[c]) : wire[c][i] <= wire[c][j]
                                     /\ (handler[c] = "writing" => wire[c][i] <= held[c])
      BY <3>1 DEF StreamsOK, WireOK
    <3>4. \A i \in 1..Len(wire'[c]) :
             /\ Observable(m, wire'[c][i])
             /\ seen'[m] <= wire'[c][i]
             /\ \A j \in i..Len(wire'[c]) : wire'[c][i] <= wire'[c][j]
             /\ handler[c] = "writing" => wire'[c][i] <= held[c]
      BY <3>1, <3>2, <3>3
    <3>5. seen'[m] <= Len(saved[m]) /\ (handler[c] = "writing" => seen'[m] <= held[c])
      BY <3>1, <3>2, <3>3 DEF Observable
    <3>6. HandlerOK(c)' /\ WireOK(c)'
      BY <3>1, <3>4, <3>5 DEF StreamsOK, HandlerOK, WireOK, Attached, Observable
    <3>7. ASSUME NEW d \in Conns \ {c} PROVE HandlerOK(d)' /\ WireOK(d)'
      <4>1. CASE owner[d] = m
        <5>1. ~Attached(d) /\ wire[d] = << >>
          BY <4>1, <3>1 DEF StreamsOK, WireOK, Attached
        <5>. QED
          BY <3>1, <5>1 DEF StreamsOK, HandlerOK, WireOK, Attached, Observable
      <4>2. CASE owner[d] # m
        BY <4>2, <3>1, Untouched DEF StreamsOK, Attached, TypeOK
      <4>. QED
        BY <4>1, <4>2
    <3>8. ASSUME NEW n \in Machines PROVE AgentOK(n)'
      BY <3>1, <3>5 DEF StreamsOK, AgentOK
    <3>. QED
      BY <3>6, <3>7, <3>8 DEF StreamsOK
  <2>12. ASSUME NEW m \in Machines, EndOfStream(m) \/ Drop(m) PROVE StreamsOK'
    <3>0. PICK c \in Conns : c = using[m]
      BY <2>12 DEF EndOfStream, Drop, TypeOK
    <3>1. /\ UNCHANGED <<saved, owner, seen, held>>
          /\ using'[m] = NoConn /\ wire'[c] = << >> /\ owner[c] = m
          /\ handler'[c] \in {handler[c], "closed"}
          /\ \A d \in Conns \ {c} : UNCHANGED <<handler[d], wire[d], owner[d], held[d]>>
          /\ \A d \in Conns : seen'[owner[d]] = seen[owner[d]]
          /\ \A n \in Machines \ {m} : using'[n] = using[n]
      BY <3>0, <2>12, DeliveryAssumption DEF EndOfStream, Drop, Detach, TypeOK, StreamsOK, AgentOK
    <3>2. ASSUME NEW n \in Machines PROVE AgentOK(n)'
      <4>1. CASE n = m
        BY <4>1, <3>0, <3>1 DEF StreamsOK, AgentOK
      <4>2. CASE n # m
        <5>1. using[n] # c
          BY <4>2, <3>0, <3>1, DeliveryAssumption DEF StreamsOK, AgentOK
        <5>. QED
          BY <4>2, <5>1, <3>1 DEF StreamsOK, AgentOK, TypeOK
      <4>. QED
        BY <4>1, <4>2
    <3>3. HandlerOK(c)' /\ WireOK(c)'
      <4>1. ~Attached(c)'
        BY <3>1, DeliveryAssumption DEF Attached
      <4>2. HandlerOK(c)'
        BY <3>1, <4>1 DEF StreamsOK, HandlerOK, Observable
      <4>3. WireOK(c)'
        <5>1. wire'[c] = << >> /\ 1..Len(wire'[c]) = {}
          BY <3>1
        <5>. QED
          BY <5>1 DEF WireOK
      <4>. QED
        BY <4>2, <4>3
    <3>4. ASSUME NEW d \in Conns \ {c} PROVE HandlerOK(d)' /\ WireOK(d)'
      <4>1. owner[d] \in Machines /\ d # NoConn
        BY DeliveryAssumption DEF TypeOK
      <4>2. UNCHANGED Attached(d)
        BY <3>0, <3>1, <4>1 DEF Attached
      <4>3. HandlerOK(d) /\ WireOK(d)
        BY DEF StreamsOK
      <4>4. UNCHANGED <<saved, handler[d], owner[d], held[d], wire[d], seen[owner[d]]>>
        BY <3>1
      <4>. QED
        BY <4>2, <4>3, <4>4, Untouched
    <3>. QED
      BY <3>2, <3>3, <3>4 DEF StreamsOK
  <2>13. CASE Restart
    <3>0. \A m \in Machines : Len(saved'[m]) \in {Len(saved[m]), Len(saved[m]) + 1}
      BY <2>13, ReloadFacts DEF Restart
    <3>1. \A m \in Machines : /\ Len(saved[m]) \in Nat /\ Len(saved'[m]) >= Len(saved[m])
                              /\ Len(saved'[m]) \in Nat
      <4>1. \A m \in Machines : Len(saved[m]) \in Nat
        BY DEF TypeOK
      <4>. QED
        BY <3>0, <4>1
    <3>2. \A m \in Machines : AgentOK(m)'
      BY <2>13, <3>1, DeliveryAssumption DEF Restart, StreamsOK, AgentOK, TypeOK
    <3>3. \A c \in Conns : HandlerOK(c)' /\ WireOK(c)'
      BY <2>13, DeliveryAssumption DEF Restart, HandlerOK, WireOK, TypeOK
    <3>. QED
      BY <3>2, <3>3 DEF StreamsOK
  <2>14. CASE OtherWrite \/ UNCHANGED vars
    BY <2>2, <2>14 DEF OtherWrite, vars
  <2>. QED
    BY <2>1, <2>3, <2>4, <2>5, <2>7, <2>8, <2>9, <2>10, <2>11, <2>12, <2>13, <2>14
       DEF Next, Request, Handle, Agent
<1>. QED
  BY <1>1, <1>2, TypeCorrect, PTL DEF Spec

\* Whatever requests overlap, writes fail, connections break and servers
\* restart, the stream implements the register: every step of Delivery
\* overwrites it, makes it durable, lets the agent observe it, or leaves it
\* alone; only a restart loses what was not durable.
THEOREM StreamRefinesRegister == Spec => RefinesRegister
<1>1. Init => Register!Init
  BY DEF Init, Register!Init
<1>2. TypeOK /\ StreamsOK /\ [Next]_vars => [Register!Next]_(Register!vars)
  <2> SUFFICES ASSUME TypeOK, StreamsOK, [Next]_vars
               PROVE  Register!Next \/ UNCHANGED <<saved, disk, seen>>
    BY DEF Register!vars
  <2> USE DEF storeVars, requestVars, streamVars, agentVars, boundVars
  <2>1. ASSUME NEW p \in Requests, SaveEdit(p) \/ Save(p) \/ SaveFails(p)
        PROVE  Register!Next \/ UNCHANGED <<saved, disk, seen>>
    <3>1. target[p] \in Machines /\ snap[p] \in Modules \cup {Gone} /\ UNCHANGED seen
      BY <2>1 DEF SaveEdit, Save, SaveFails, TypeOK, Content
    <3>2. Flush => Register!Settle
      BY DEF Flush, Register!Settle
    <3>3. Flush \/ disk' = disk
      BY <2>1 DEF SaveEdit, Save, SaveFails
    <3>4. CASE saved' = [saved EXCEPT ![target[p]] = Append(@, snap[p])]
      <4>1. Register!Overwrite(target[p])
        BY <3>1, <3>2, <3>3, <3>4 DEF Register!Overwrite
      <4>. QED
        BY <3>1, <4>1 DEF Register!Next
    <3>5. CASE SaveFails(p) /\ saved' = saved
      BY <3>1, <3>2, <3>3, <3>5 DEF Register!Persist, Register!Next
    <3>. QED
      BY <2>1, <3>4, <3>5, WriteOrNot
  <2>2. ASSUME NEW m \in Machines, Receive(m) PROVE Register!Next
    <3> DEFINE c == using[m]
               i == Head(wire[c])
    <3>1. /\ c \in Conns /\ wire[c] \in Seq(Nat) /\ wire[c] # << >> /\ owner[c] = m
          /\ UNCHANGED <<saved, disk>> /\ seen' = [seen EXCEPT ![m] = i]
      BY <2>2 DEF Receive, TypeOK, StreamsOK, AgentOK
    <3>2. 1 \in 1..Len(wire[c]) /\ i = wire[c][1]
      BY <3>1
    <3>3. Observable(m, i) /\ i >= seen[m]
      BY <3>1, <3>2 DEF StreamsOK, WireOK, TypeOK, Observable
    <3>4. Register!Observe(m)
      BY <3>1, <3>3 DEF Register!Observe, Observable
    <3>. QED
      BY <3>4 DEF Register!Next
  <2>3. CASE UNCHANGED vars
    BY <2>3 DEF vars
  <2>4. CASE OtherWrite
    BY <2>4 DEF OtherWrite, Flush, Register!Settle, Register!Persist, Register!Next
  <2>5. CASE Restart
    BY <2>5 DEF Restart, Reload, Flush, Register!Settle, Register!Lose, Register!Next
  <2>. QED
    BY <2>1, <2>2, <2>3, <2>4, <2>5
       DEF Next, Request, Handle, Agent, StartRecompute, StartEdit, StartRemove,
           RecomputeEdit, Publish, Subscribe, Read, Write, WriteLost, Wake, Quit,
           Connect, EndOfStream, Drop
<1>. QED
  BY <1>1, <1>2, TypeCorrect, StreamsInOrder, PTL
     DEF Spec, RefinesRegister, Register!Spec
==============================================================================
