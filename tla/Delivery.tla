------------------------------ MODULE Delivery ------------------------------
(***************************************************************************)
(* How a change of a machine's desired state reaches its agent: the        *)
(* requests that rewrite the machine record (server/groups.go,             *)
(* server/admin.go, server/commands.go), the signal bus (bus/bus.go), the  *)
(* stream handler that re-reads the store (server/server.go) and the       *)
(* agent's end of the stream (agent/agent.go).                             *)
(*                                                                         *)
(* The bus carries no data: a publisher saves first and signals second, a  *)
(* handler subscribes first and reads second.  Each of these is a step of  *)
(* its own here, for every request and every connection, so that all their *)
(* interleavings are explored.                                             *)
(*                                                                         *)
(* A desired state is one of the abstract module lists of Modules; what    *)
(* Recompute computes is any of them.  saved[m] is the sequence of desired *)
(* states the record of m has held; the store answers with the last one.   *)
(* Events and snapshots are positions in that sequence, so that "older"    *)
(* and "newer" make sense, and so is what the store's file holds, which    *)
(* falls behind when a flush fails and is what a new start reads.  (A       *)
(* statement of Turso that is executed after its caller has given up is in *)
(* Stores.)                                                                *)
(***************************************************************************)
EXTENDS Naturals, Sequences, FiniteSets

CONSTANTS
    Machines,      \* machine ids (topics of the bus)
    Conns,         \* slots for stream connections
    Modules,       \* the module lists a desired state may carry
    Gone,          \* the content of a machine record that does not exist
    NoConn,        \* "the agent has no stream"
    Resolvers,     \* requests that only Recompute (groups, memberships, enroll)
    Editors,       \* requests that rewrite the whole record, then Recompute
    Removers,      \* deleteMachine requests
    MaxRequests,   \* bound: requests accepted in all
    MaxDrops,      \* bound: connection losses and server restarts
    MaxFlushFails, \* bound: store writes that report an error
    MaxWire        \* bound: events in flight on one connection

Requests == Resolvers \cup Editors \cup Removers

ASSUME DeliveryAssumption ==
    /\ Gone \notin Modules
    /\ NoConn \notin Conns
    /\ {MaxRequests, MaxDrops, MaxFlushFails} \subseteq Nat
    /\ MaxWire \in Nat \ {0}

VARIABLES
    \* --- the store ---
    saved,         \* saved[m]: desired states the record of m has held, in order
    disk,          \* disk[m]: the position in saved[m] that the file holds
    \* --- requests on the server ---
    step,          \* step[p]: where request p is
    target,        \* target[p]: the machine it is handling
    snap,          \* snap[p]: the desired state it will write
    \* --- stream handlers and the bus ---
    handler,       \* handler[c]: where the handler of connection c is
    owner,         \* owner[c]: the machine the connection belongs to
    signal,        \* signal[c]: a wake-up is pending in the 1-slot channel
    held,          \* held[c]: position the handler has read and not written yet
    sent,          \* sent[c]: position it wrote last (0: none)
    wire,          \* wire[c]: positions written and not yet read by the agent
    \* --- agents ---
    using,         \* using[m]: the connection agent m reads from
    seen,          \* seen[m]: position of lastDesired (0: none yet)
    \* --- observations ---
    overlapped,    \* requests that have been under way next to another
    deleted,       \* machines whose deletion was answered with success
    \* --- bounds ---
    requests, drops, flushFails

storeVars   == <<saved, disk, deleted>>
requestVars == <<step, target, snap>>
streamVars  == <<handler, owner, signal, held, sent, wire>>
agentVars   == <<using, seen>>
boundVars   == <<overlapped, requests, drops, flushFails>>
vars == <<saved, disk, step, target, snap, handler, owner, signal, held, sent, wire,
          using, seen, overlapped, deleted, requests, drops, flushFails>>

Content == Modules \cup {Gone}

\* What Store.GetMachine returns now.
Stored(m) == saved[m][Len(saved[m])]

Steps == {"idle", "editing", "edited", "computed", "removing", "saved"}
HandlerStates == {"closed", "accepted", "reading", "writing", "waiting", "ended"}
\* Between Subscribe and the deferred cancel.
Subscribed == {"reading", "writing", "waiting"}

Init ==
    /\ \E first \in [Machines -> Modules] : saved = [m \in Machines |-> <<first[m]>>]
    /\ disk = [m \in Machines |-> 1]
    /\ deleted = {}
    /\ step = [p \in Requests |-> "idle"]
    /\ target \in [Requests -> Machines]
    /\ snap \in [Requests -> {Gone}]
    /\ handler = [c \in Conns |-> "closed"]
    /\ owner \in [Conns -> Machines]
    /\ signal = [c \in Conns |-> FALSE]
    /\ held = [c \in Conns |-> 0]
    /\ sent = [c \in Conns |-> 0]
    /\ wire = [c \in Conns |-> << >>]
    /\ using = [m \in Machines |-> NoConn]
    /\ seen = [m \in Machines |-> 0]
    /\ overlapped = {}
    /\ requests = 0
    /\ drops = 0
    /\ flushFails = 0

------------------------------------------------------------------------------
(* Requests                                                                 *)

\* Requests that are under way.
Running == {p \in Requests : step[p] # "idle"}

\* A request is accepted, next to those under way.
Accept(p, m) ==
    /\ step[p] = "idle"
    /\ overlapped' = overlapped \cup (IF Running = {} THEN {} ELSE Running \cup {p})
    /\ requests < MaxRequests
    /\ requests' = requests + 1
    /\ target' = [target EXCEPT ![p] = m]
    /\ UNCHANGED <<drops, flushFails>>

\* (faulty) a missing record is recomputed as if it were an empty one.
Compute_unchecked(p, m, v) ==
    /\ v # Stored(m)
    /\ step' = [step EXCEPT ![p] = "computed"]
    /\ snap' = [snap EXCEPT ![p] = v]

\* Recompute's read-and-compare of one machine: list or get the record,
\* compute the modules; when they differ from the record's own, go on to save.
\* An equal list or a missing record leaves the machine alone.
Compute(p, m, v) ==
    /\ Stored(m) # Gone
    /\ v # Stored(m)
    /\ step' = [step EXCEPT ![p] = "computed"]
    /\ snap' = [snap EXCEPT ![p] = v]

\* A request whose only write is Recompute's.
StartRecompute(p, m) ==
    /\ p \in Resolvers
    /\ Accept(p, m)
    /\ \E v \in Modules : Compute(p, m, v)
    /\ UNCHANGED <<storeVars, streamVars, agentVars>>

\* putLabels, putDesired, createCommand, cancelCommand: GetMachine ...
StartEdit(p, m) ==
    /\ p \in Editors
    /\ Accept(p, m)
    /\ Stored(m) # Gone
    /\ step' = [step EXCEPT ![p] = "editing"]
    /\ snap' = [snap EXCEPT ![p] = Stored(m)]
    /\ UNCHANGED <<storeVars, streamVars, agentVars>>

\* The store's record becomes the one in the request's hands, or none.
SaveMachine(p) ==
    saved' = [saved EXCEPT ![target[p]] = Append(@, snap[p])]

\* The file is written whole, with every record as it is in memory then.
Flush == disk' = [m \in Machines |-> Len(saved'[m])]

\* ... SaveMachine of the whole record, desired state included ...
SaveEdit(p) ==
    /\ step[p] = "editing"
    /\ SaveMachine(p) /\ Flush
    /\ step' = [step EXCEPT ![p] = "edited"]
    /\ snap' = [snap EXCEPT ![p] = Gone]
    /\ UNCHANGED <<target, deleted, streamVars, agentVars, boundVars>>

\* ... and Recompute for that machine: changed, or unchanged or missing.
RecomputeEdit(p) ==
    /\ step[p] = "edited"
    /\ \/ \E v \in Modules : Compute(p, target[p], v)
       \/ /\ step' = [step EXCEPT ![p] = "idle"]
          /\ UNCHANGED snap
    /\ UNCHANGED <<target, storeVars, streamVars, agentVars, boundVars>>

\* deleteMachine: GetMachine ...
StartRemove(p, m) ==
    /\ p \in Removers
    /\ Accept(p, m)
    /\ Stored(m) # Gone
    /\ step' = [step EXCEPT ![p] = "removing"]
    /\ snap' = [snap EXCEPT ![p] = Gone]
    /\ UNCHANGED <<storeVars, streamVars, agentVars>>

\* SaveMachine (an upsert) or DeleteMachine succeeds.
Save(p) ==
    /\ step[p] \in {"computed", "removing"}
    /\ SaveMachine(p) /\ Flush
    /\ step' = [step EXCEPT ![p] = "saved"]
    /\ snap' = [snap EXCEPT ![p] = Gone]
    /\ deleted' = deleted \cup {m \in {target[p]} : step[p] = "removing"}
    /\ UNCHANGED <<target, streamVars, agentVars, boundVars>>

\* The handler gets an error, returns and publishes nothing.  The file store
\* has changed its map before it flushes, and does not undo that; Turso has
\* changed the record and not answered, or left it alone.
SaveFails(p) ==
    /\ step[p] \in {"editing", "computed", "removing"}
    /\ flushFails < MaxFlushFails
    /\ flushFails' = flushFails + 1
    /\ \/ SaveMachine(p) /\ UNCHANGED disk
       \/ SaveMachine(p) /\ Flush
       \/ UNCHANGED <<saved, disk>>
    /\ step' = [step EXCEPT ![p] = "idle"]
    /\ snap' = [snap EXCEPT ![p] = Gone]
    /\ UNCHANGED <<target, deleted, streamVars, agentVars, overlapped, requests, drops>>

\* Some other write of the store succeeds (TouchHeartbeat, SetStatus, the
\* records of other handlers) and what a failed flush has left out is in the
\* file after all.
OtherWrite ==
    /\ \E m \in Machines : disk[m] # Len(saved[m])
    /\ UNCHANGED <<saved, deleted, requestVars, streamVars, agentVars, boundVars>>
    /\ Flush

\* (faulty) an unbuffered channel: only a handler parked on it is woken.
Publish_unbuffered(p) ==
    /\ step[p] = "saved"
    /\ signal' = [c \in Conns |->
                    signal[c] \/ (owner[c] = target[p] /\ handler[c] = "waiting")]
    /\ step' = [step EXCEPT ![p] = "idle"]
    /\ UNCHANGED <<target, snap, storeVars, handler, owner, held, sent, wire,
                   agentVars, boundVars>>

\* Bus.Publish: a non-blocking send into the 1-slot channel of every
\* subscriber of the topic; a full slot already holds a signal.
Publish(p) ==
    /\ step[p] = "saved"
    /\ signal' = [c \in Conns |->
                    signal[c] \/ (owner[c] = target[p] /\ handler[c] \in Subscribed)]
    /\ step' = [step EXCEPT ![p] = "idle"]
    /\ UNCHANGED <<target, snap, storeVars, handler, owner, held, sent, wire,
                   agentVars, boundVars>>

Request(p) ==
    \/ \E m \in Machines : \/ StartRecompute(p, m)
                           \/ StartEdit(p, m)
                           \/ StartRemove(p, m)
    \/ SaveEdit(p) \/ RecomputeEdit(p) \/ Save(p) \/ SaveFails(p) \/ Publish(p)

------------------------------------------------------------------------------
(* Streams                                                                  *)

\* The handler of c returns.  An agent still attached finds the events on
\* the wire and then the end of the body; otherwise the slot is free.
End(c) ==
    /\ handler' = [handler EXCEPT ![c] = IF using[owner[c]] = c THEN "ended" ELSE "closed"]
    /\ signal' = [signal EXCEPT ![c] = FALSE]
    /\ sent' = [sent EXCEPT ![c] = 0]

\* streamOnce: the agent opens a stream.  The identity comes from the
\* certificate alone, so a deleted machine is accepted too.
Connect(m, c) ==
    /\ using[m] = NoConn
    /\ handler[c] = "closed"
    /\ using' = [using EXCEPT ![m] = c]
    /\ owner' = [owner EXCEPT ![c] = m]
    /\ handler' = [handler EXCEPT ![c] = "accepted"]
    /\ sent' = [sent EXCEPT ![c] = 0]
    /\ wire' = [wire EXCEPT ![c] = << >>]
    /\ UNCHANGED <<storeVars, requestVars, signal, held, seen, boundVars>>

\* (faulty) nothing is sent on connect.
Subscribe_silent(c) ==
    /\ handler[c] = "accepted"
    /\ handler' = [handler EXCEPT ![c] = "waiting"]
    /\ UNCHANGED <<storeVars, requestVars, owner, signal, held, sent, wire,
                   agentVars, boundVars>>

\* handleStream: Bus.Subscribe, before the first read of the store.
Subscribe(c) ==
    /\ handler[c] = "accepted"
    /\ handler' = [handler EXCEPT ![c] = "reading"]
    /\ UNCHANGED <<storeVars, requestVars, owner, signal, held, sent, wire,
                   agentVars, boundVars>>

\* (faulty) a missing record is skipped, the stream stays parked.
Read_patient(c) ==
    /\ handler[c] = "reading"
    /\ \/ /\ Stored(owner[c]) # Gone
          /\ held' = [held EXCEPT ![c] = Len(saved[owner[c]])]
          /\ handler' = [handler EXCEPT ![c] = "writing"]
       \/ /\ Stored(owner[c]) = Gone
          /\ handler' = [handler EXCEPT ![c] = "waiting"]
          /\ UNCHANGED held
    /\ UNCHANGED <<storeVars, requestVars, owner, signal, sent, wire, agentVars, boundVars>>

\* (faulty) a missing record is sent as an empty one.
Read_empty(c) ==
    /\ handler[c] = "reading"
    /\ held' = [held EXCEPT ![c] = Len(saved[owner[c]])]
    /\ handler' = [handler EXCEPT ![c] = "writing"]
    /\ UNCHANGED <<storeVars, requestVars, owner, signal, sent, wire, agentVars, boundVars>>

\* send: GetMachine.  A missing record ends the stream.
Read(c) ==
    /\ handler[c] = "reading"
    /\ \/ /\ Stored(owner[c]) # Gone
          /\ held' = [held EXCEPT ![c] = Len(saved[owner[c]])]
          /\ handler' = [handler EXCEPT ![c] = "writing"]
          /\ UNCHANGED <<signal, sent>>
       \/ /\ Stored(owner[c]) = Gone
          /\ End(c)
          /\ UNCHANGED held
    /\ UNCHANGED <<storeVars, requestVars, owner, wire, agentVars, boundVars>>

\* send: the write to an attached agent, blocked while the connection is full.
Write(c) ==
    /\ handler[c] = "writing"
    /\ using[owner[c]] = c
    /\ Len(wire[c]) < MaxWire
    /\ wire' = [wire EXCEPT ![c] = Append(@, held[c])]
    /\ sent' = [sent EXCEPT ![c] = held[c]]
    /\ held' = [held EXCEPT ![c] = 0]
    /\ handler' = [handler EXCEPT ![c] = "waiting"]
    /\ UNCHANGED <<storeVars, requestVars, owner, signal, agentVars, boundVars>>

\* send: the write to a lost connection, which the kernel may still accept.
WriteLost(c) ==
    /\ handler[c] = "writing"
    /\ using[owner[c]] # c
    /\ \/ End(c)
       \/ /\ sent' = [sent EXCEPT ![c] = held[c]]
          /\ handler' = [handler EXCEPT ![c] = "waiting"]
          /\ UNCHANGED signal
    /\ held' = [held EXCEPT ![c] = 0]
    /\ UNCHANGED <<storeVars, requestVars, owner, wire, agentVars, boundVars>>

\* case <-sig: the pending signal is consumed before the store is read.
Wake(c) ==
    /\ handler[c] = "waiting"
    /\ signal[c]
    /\ signal' = [signal EXCEPT ![c] = FALSE]
    /\ handler' = [handler EXCEPT ![c] = "reading"]
    /\ UNCHANGED <<storeVars, requestVars, owner, held, sent, wire, agentVars, boundVars>>

\* The request context is done or a keepalive cannot be written: the agent is
\* gone, or the server's ReadTimeout, which covers streams too, has passed.
Quit(c) ==
    /\ handler[c] = "waiting"
    /\ End(c)
    /\ UNCHANGED <<storeVars, requestVars, owner, held, wire, agentVars, boundVars>>

Handle(c) == Subscribe(c) \/ Read(c) \/ Write(c) \/ WriteLost(c) \/ Wake(c) \/ Quit(c)

------------------------------------------------------------------------------
(* Agents                                                                   *)

\* The next data line: lastDesired is set and the state reconciled.
Receive(m) ==
    LET c == using[m] IN
    /\ c # NoConn
    /\ wire[c] # << >>
    /\ seen' = [seen EXCEPT ![m] = Head(wire[c])]
    /\ wire' = [wire EXCEPT ![c] = Tail(@)]
    /\ UNCHANGED <<storeVars, requestVars, handler, owner, signal, held, sent,
                   using, boundVars>>

\* The agent gives up connection c: its unread events are lost and the slot
\* of a handler that has returned is free.
Detach(m, c) ==
    /\ using' = [using EXCEPT ![m] = NoConn]
    /\ wire' = [wire EXCEPT ![c] = << >>]
    /\ handler' = [handler EXCEPT ![c] = IF @ = "ended" THEN "closed" ELSE @]

\* The scanner reaches the end of the body.
EndOfStream(m) ==
    LET c == using[m] IN
    /\ c # NoConn
    /\ handler[c] = "ended"
    /\ wire[c] = << >>
    /\ Detach(m, c)
    /\ UNCHANGED <<storeVars, requestVars, owner, signal, held, sent, seen, boundVars>>

\* The network loses the connection; the handler learns of it later.
Drop(m) ==
    LET c == using[m] IN
    /\ c # NoConn
    /\ drops < MaxDrops
    /\ drops' = drops + 1
    /\ Detach(m, c)
    /\ UNCHANGED <<storeVars, requestVars, owner, signal, held, sent, seen,
                   overlapped, requests, flushFails>>

\* OpenFile: a record is what the file holds of it, whatever memory held.
Reload ==
    saved' = [m \in Machines |->
                 IF disk[m] = Len(saved[m]) THEN saved[m]
                 ELSE Append(saved[m], saved[m][disk[m]])]

\* The server process stops and starts again: the bus, the handlers and the
\* requests under way are gone, and so is what only the memory held.
Restart ==
    /\ drops < MaxDrops
    /\ drops' = drops + 1
    /\ Reload /\ Flush
    /\ step' = [p \in Requests |-> "idle"]
    /\ handler' = [c \in Conns |-> "closed"]
    /\ signal' = [c \in Conns |-> FALSE]
    /\ wire' = [c \in Conns |-> << >>]
    /\ using' = [m \in Machines |-> NoConn]
    /\ snap' = [p \in Requests |-> Gone]
    /\ held' = [c \in Conns |-> 0]
    /\ sent' = [c \in Conns |-> 0]
    /\ UNCHANGED <<target, owner, seen, overlapped, deleted, requests, flushFails>>

Agent(m) == Receive(m) \/ EndOfStream(m) \/ \E c \in Conns : Connect(m, c)

Next ==
    \/ \E p \in Requests : Request(p)
    \/ \E c \in Conns : Handle(c)
    \/ \E m \in Machines : Agent(m) \/ Drop(m)
    \/ OtherWrite
    \/ Restart

Spec == Init /\ [][Next]_vars

(***************************************************************************)
(* Goroutines run: a request under way, a handler and an agent's loop each *)
(* take their next step in the end; a handler whose agent is gone learns   *)
(* it from a keepalive.  Nothing obliges an operator to send a request,    *)
(* the network to fail, a timeout to pass or the server to restart.        *)
(***************************************************************************)
Fairness ==
    /\ \A p \in Requests : WF_vars(SaveEdit(p) \/ RecomputeEdit(p) \/ Save(p) \/ Publish(p))
    /\ \A c \in Conns : WF_vars(Subscribe(c) \/ Read(c) \/ Write(c) \/ WriteLost(c))
                       /\ WF_vars(Wake(c) \/ (using[owner[c]] # c /\ Quit(c)))
    /\ \A m \in Machines : WF_vars(Receive(m) \/ EndOfStream(m))
                           /\ WF_vars(\E c \in Conns : Connect(m, c))

LiveSpec == Spec /\ Fairness

------------------------------------------------------------------------------
(* Properties                                                               *)

TypeOK ==
    /\ saved \in [Machines -> Seq(Content) \ {<< >>}]
    /\ disk \in [Machines -> Nat]
    /\ \A m \in Machines : disk[m] \in 1..Len(saved[m])
    /\ deleted \subseteq Machines
    /\ step \in [Requests -> Steps]
    /\ target \in [Requests -> Machines]
    /\ snap \in [Requests -> Content]
    /\ handler \in [Conns -> HandlerStates]
    /\ owner \in [Conns -> Machines]
    /\ signal \in [Conns -> BOOLEAN]
    /\ held \in [Conns -> Nat]
    /\ sent \in [Conns -> Nat]
    /\ wire \in [Conns -> Seq(Nat)]
    /\ \A c \in Conns : Len(wire[c]) <= MaxWire
    /\ using \in [Machines -> Conns \cup {NoConn}]
    /\ seen \in [Machines -> Nat]
    /\ overlapped \subseteq Requests
    /\ {requests, drops, flushFails} \subseteq Nat

\* A request has written the record of m and is not done with it: a
\* Recompute that still owes its Publish, or an edit that still owes its
\* Recompute.
Owed(m) == \E p \in Requests : step[p] \in {"edited", "saved"} /\ target[p] = m

\* A handler parked with nothing pending has already told its agent what the
\* store holds, unless a request still owes the wake-up (handleStream: "emits
\* the machine's DesiredState on connect and again whenever it changes").  The
\* one-slot channel that drops signals, the read after the wake-up, the
\* subscription before the first read and the save before the publish all have
\* to be in the right order for this.  It takes that no write has failed, and
\* that no edit has run next to another request: the record it writes back
\* would be an old one, which nobody is told of.
NoLostWakeup ==
    flushFails = 0 /\ overlapped \cap Editors = {} =>
        \A c \in Conns :
            handler[c] = "waiting" /\ ~signal[c] =>
                \/ Owed(owner[c])
                \/ saved[owner[c]][sent[c]] = Stored(owner[c])

\* A machine whose deletion was answered does not come back (deleteMachine: "a
\* deleted machine's certificate stops working immediately"): no later write,
\* edit, Recompute or restart recreates it.
DeletedForGood == \A m \in deleted : Stored(m) = Gone

\* What the code provides of it: the record stays deleted, through failed writes
\* and restarts too, unless a deletion has run next to another request, which
\* may then write back what it had read.
DeletedForGoodAlone == overlapped \cap Removers = {} => DeletedForGood

\* Whatever overlaps, fails or restarts, the agent observes states its record
\* really held and never an older one after a newer one: the stream refines
\* the register.  The record itself goes back only where a restart finds a file
\* that a failed flush has left behind.
Register == INSTANCE DesiredRegister
                WITH Machines <- Machines, Modules <- Modules, Gone <- Gone,
                     saved <- saved, durable <- disk, seen <- seen
RefinesRegister == Register!Spec

\* When no write fails and no edit runs next to another request: once the
\* desired state of a machine stops changing, its agent ends up with it and
\* keeps it, through lost connections and server restarts.
Converges ==
    [](flushFails = 0 /\ overlapped \cap Editors = {}) =>
        \A m \in Machines : \A v \in Modules :
            <>[](Stored(m) = v) => <>[](seen[m] > 0 /\ saved[m][seen[m]] = v)

\* When no write fails: once a machine is deleted for good, no handler stays
\* parked on its topic (deleteMachine: "wake any live stream so it terminates
\* promptly").
DeletionEndsStreams ==
    [](flushFails = 0) =>
        \A m \in Machines :
            <>[](Stored(m) = Gone) =>
                <>[](\A c \in Conns : owner[c] = m => handler[c] \notin {"writing", "waiting"})
==============================================================================
