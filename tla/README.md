# A verification development for fleet-core

fleet-core is a control plane for a fleet of hosts: a server keeps, for every
machine, a *desired state* (a list of modules), and an agent on the machine
streams it, runs what is new and reports back. The modules in this directory
model the parts of `src/` in which several actors meet - requests, stream
handlers, goroutines of the agent, the page in the browser, processes that die
and start again - and check or prove what has to hold whatever they interleave.

Contents: the inventory of the system, what is modelled and how it corresponds
to the code, the runs, the bounds and the fairness, the disagreements between
the code and what its comments say, the proofs, what is left out, the plan.

## 1. The system

| component | state | operations | hard part |
|---|---|---|---|
| Signal bus, `bus/bus.go` | per topic (machine id) a set of 1-slot channels | `Publish`, `Subscribe`, cancel | signals are dropped when the slot is full |
| Desired-state stream, `server/server.go` `handleStream`, `agent/agent.go` `streamLoop`, `streamOnce` | one handler per connection: subscription, last read; agent: `lastDesired` | subscribe, read the store and send, wait; keepalive; receive, reconnect | subscribe/read/wait against save/publish; losses, restarts, the 30 s `ReadTimeout` |
| Resolution, `server/groups.go` | groups, memberships, labels, overrides | `computeModules`, `Recompute`, group/member/label handlers | `Recompute` reads many records and writes others, with no lock over it |
| Admin API, `server/admin.go` | tenants, tokens, machines | `createTenant`, `putDesired`, `deleteMachine`, `uploadModule`, tokens | read, change, write back of whole records |
| Commands, `server/commands.go` | payloads, and specs in overrides and groups | `createCommand` (group, machine, selector), `pruneCommands`, `forgetCommands`, `cancelCommand` | payload and list are two records; a history limit |
| Reconciler, `agent/modules.go` | `applied.json`, module directories | `reconcile`, `apply`, `loadApplied`, `saveApplied` | called by two goroutines, interrupted by deaths |
| Enrollment, `agent/agent.go`, `server/server.go`, `cmd/fleet-agent/main.go` | the token's uses, machine records; five identity files | `Enroll`, `handleEnroll`, `ConsumeToken`, `maybeRenewCert`, `handleRenew` | the answer may be lost after the use; files written one by one |
| CA, `ca/ca.go` | three key files | create or load, sign | first boot interrupted; never to be replaced |
| File store, `store/store.go` | one map in memory, one JSON file | get, list, save, delete, `flush` | a failed `flush` leaves the memory changed |
| Turso store, `store/turso.go` | the same records in SQL tables | the same interface | deletes of two statements, statements that are never answered, old tokens |
| Live metrics, `server/live.go`, `agent/localpush.go` | the last sample per machine | push (full or GPU only), list, stream | read-merge-write of a sample |
| Sampling, `agent/metrics.go`, `procsample.go`, `kubernetes.go`, `netinfo.go` | the last readings of all counters, cached pod names | read `/proc`, `/sys`, kubelet, cgroups; compute rates; rank | counters that start over, ids that are reused, readings that fail |
| Inventory, `agent/inventory.go`, `updates.go`, `netinfo.go` | the cached scan for updates | read the host, name services and cluster role | a scan inside the heartbeat loop; two walks over `/proc` that should agree |
| Heartbeats, `agent/agent.go` `heartbeatLoop`, `server/server.go` `handleHeartbeat`, `handleStatus` | `last_seen` | send, scan first if the cache is too old | up or down is decided elsewhere, from clocks of three hosts |
| Dashboard, `server/dashboard.go` | in the browser: machines, who was up, a chart per machine, an open stream | poll, open, close, `ingest`, `detectTransitions`, remove, connect, disconnect | answers in any order, two sources for one chart |
| Pages, `server/metrics.go`, `alerts.go`, `install.go` | none | format stored data | none |

How they interact. A request handler of the admin API reads records from the
store, changes its copy, saves it and calls `Recompute`; that saves the machines
whose module list changed and publishes each on the bus. A stream handler that
is subscribed wakes up, reads the machine's record and sends it. The agent's
stream loop takes it, calls `reconcile`, which downloads and runs what
`applied.json` does not have, and posts a status that the server writes into the
machine record. The retry loop calls the same `reconcile` every five minutes. Two
more loops of the agent send heartbeats with the inventory, which the store
keeps, and samples, which (with those of collectors) a registry in the server's
memory keeps. The dashboards poll both, and stream the samples of the machine that
is open. The store's lock makes one call atomic. **Nothing makes two calls
atomic**, and most of what follows is about that.

What makes each component correct:

- *delivery*: no handler sleeps through a change; an agent never goes back to an
  older desired state; it gets the last one; streams of deleted machines end.
- *resolution*: what is stored is what groups, labels and override give; a machine's
  own override wins whatever overlaps; deleted machines stay deleted and are in no group.
- *commands*: a listed command has a payload, a payload has a list; the newest
  are kept; a command runs on all of its machines and on no other.
- *reconciler*: nothing is reported applied that never ran; modules run once;
  no directory is left over; the server hears of success in the end.
- *enrollment*: a token lets in as many as it says; an acknowledged enrollment
  is never forgotten; a host has one record; a host that is enrolled can start.
- *CA*: all certificates and keys in use are of the one CA the server has.
- *stores*: what a call was answered is kept; no membership outlives its machine or
  group; a token's limit holds across versions; heartbeats undo nothing.
- *live metrics*: no stream stays behind; a merge loses nothing; the chart goes
  forward, and in the end as far as the registry.
- *sampling and inventory*: a rate is what was really used; nothing that leads a ranking
  is left out; sample and inventory name the same services; pods have their names.
- *heartbeats and the fleet page*: a machine that is heard of is not announced as
  offline; a dead one is shown as down, and a removed one not at all, in the end.

## 2. The modules

| module | models | extends / uses |
|---|---|---|
| `DesiredRegister` | abstract: a record that is overwritten, may lose what is not durable yet, and observers that only move forward | |
| `Delivery` | requests, bus, stream handlers, connections, agents | refines `DesiredRegister` |
| `Resolution` | `selectorMatches`, `computeModules` | |
| `ControlPlane`, `MCControlPlane` | the handlers and `Recompute`, one store call per step; constants, symmetry and bounds | `Resolution` |
| `Commands` | `createCommand`, `cancelCommand`, pruning, the agents' fetches | |
| `Reconcile`, `MCReconcile` | `reconcile` in the two loops, the agent's disk, deaths; constants | |
| `Enrollment` | token, store in memory and on disk, the CA's first boots, identity files | |
| `Stores`, `MCStores` | the file store and the Turso store; symmetry | |
| `LiveMetrics` | pushes, registry, live stream, the dashboard's chart | |
| `Inventory` | the services found in `/proc`, the role in a cluster | |
| `Sampling`, `MCSampling` | the metrics loop, what it reads and reports; constants | `Inventory` |
| `Health`, `MCHealth` | heartbeats, the scan for updates, the page's polls; constants | |
| `DeliveryProofs`, `ControlPlaneProofs`, `CommandsProofs`, `ReconcileProofs`, `EnrollmentProofs`, `LiveMetricsProofs`, `SamplingProofs`, `StoresProofs` | theorems about the module they are named for | that module |

Definitions whose names end in a suffix and whose comments begin with
"(faulty)" are plausible mistakes. No specification uses them; putting one in the
place of the definition it varies makes the property listed with it in
`PROJECT.json` fail, which shows that the property depends on that code.

### Delivery

`saved[m]` is the history of the desired states that the record of `m` has held;
`Stored(m)`, its last element, is what `Store.GetMachine` returns. Contents are
abstract values, and what `Recompute` computes is any of them: that the values
are the right ones is the subject of `ControlPlane`. Requests are of three shapes.
*Resolvers* only recompute (`StartRecompute`, `Save`, `Publish`). *Editors* are
`putLabels`, `putDesired`, `createCommand` and `cancelCommand` for one machine:
they read the record, write the whole of it back, old desired state included
(`StartEdit`, `SaveEdit`), and then recompute (`RecomputeEdit`). *Removers* are
`deleteMachine`. `handleStream` is `Subscribe`, `Read`, `Write` or `WriteLost`,
`Wake` and `Quit`; the agent is `Connect`, `Receive` and `EndOfStream`; `Drop`
is the network. `disk[m]` is the position in `saved[m]` that the store's file holds:
every write that succeeds writes the whole file (`Flush`, also when it is of another
record, `OtherWrite`), and a write that fails may have changed the map alone
(`SaveFails`: `store.go:182-187` changes it before `flush`). `Restart` is a restart of the
server, whose new process has what the file holds (`Reload`, `OpenFile`), so that the
record goes back where a flush had failed. `deleted` observes the deletions that were
answered with success, `overlapped` which requests have been under way next to
another. In `DesiredRegister` the register may then lose values, but only the last ones
and only those that are not durable.

### Resolution and ControlPlane

`Resolution` is the pure part of `groups.go`: a module list is a function from
names to specs. The order of groups of one name is left open (`Orders`), because
`sort.Slice` is not stable and `ListGroups` ranges over a map. In `ControlPlane` a
request makes its reads and its write of a whole record (`Write`), and
`Recompute` is taken apart into `ListGroups`, one `ListMembers` per group,
`ListMachines` or `GetMachine`, and one save per machine that changed. Each of these calls
may report an error: `WriteFails`, `ReadFails` (Recompute's four returns,
`groups.go:78-104`, after the handler's own write), `SaveMachineFails`. `saved` is what the file
holds; `Restart` ends all requests and loads it, or leaves the tables as Turso has
them, and recomputes nothing, as `main` does not. Requests
that find no record (404) or fail validation change nothing and are no step.

### Commands

A command is its name, which is unique; commands are numbered in the order in which
they arrive, and so are requests. `stamp[c]` is the second that the name
carries, the only thing `pruneCommands` sorts by, so that among commands of one
second any may go. A list is a set. `copy[p]` is what request `p` has read and
will write back whole. There is one tenant and its groups match every machine.
`UnknownTarget` and `NothingSelected` are requests that are refused. Every call of the store
may report an error and may have changed the store all the same: `SavePayloadFails`,
`ReadFails` (a record or the list of machines), `AppendFails`, `ForgetFails`,
`NothingSelectedFails`, `CancelFails` and `RecomputeFails`, each with what its handler does
then. `stray` observes the commands that are thereby queued nowhere, or were cancelled. The
model is of one life of the server: a death between two calls leaves of a
command what an error of the second leaves.

### Reconcile

A key is what `appliedKey` makes of name, version and configuration; `Dir[k]` is
the directory, which has no configuration in it. Each loop has its own copy of
`applied.json` (`applied[l]`), the keys it has to run (`todo[l]`) and the one it is
running. `Truncate` and `Write` are the two halves of `os.WriteFile`: a death in
between, or bytes of both loops, leave a file that `loadApplied` reads as empty. Its error is
ignored (`modules.go:178`) and comes before the truncation (`SaveFails`) or after it
(`WriteFails`), when the file is empty, torn or as the other loop has it; a read that fails counts as
an empty file (`LoadFails`). `Forget` drops a key and removes its directory; `RemoveFails`
drops it all the same. `overlaps`, `lapses` (failures of `applied.json`) and `litter` (directories
whose removal has failed) observe what modules and directories are excused by.

### Enrollment

`mem` and `disk` are the file store's map and file; a failed write leaves `mem`
ahead until the next write that succeeds, a new start reads `disk`. The identity
files are written in any order, because `Enroll` ranges over a map, and one may
be torn by a death. `Enrolled(a)` looks at `cert.pem` alone, as the code does;
`Loadable(a)` is what `init` needs. The server's process is `Boot` (which looks for
`ca.pem` alone), `CreateCA`, one write at a time in the order of `ca.create`, and
`CAReady` or an exit; `Stop` may come anywhere. Every file, and every certificate, has
the number of the creation it stems from.

### Stores

A call of `store.Store` is one statement (`SaveMachine` to `Consume`), or two for the
deletes of machines and groups; a statement says what rows it changes (`Execute`).
`backend` is chosen once: the file store holds its lock over a whole call (`Whole`,
`ExecutePart`) and then writes `disk` (`Perform`, `FlushFails`, `DieWriting`,
`Restart`), Turso executes a statement at a time, where any may get no answer
within 15 s and be executed later (`TimesOut`, `ExecuteLate`), and where a start
goes through `AddColumns` and `CountUsed` first. Clients are handlers, reduced to
what they read before they write; what follows their write (`Recompute`) is in
`ControlPlane`. A record has the fields the properties tell apart: the revision of
its desired state, its heartbeat and its status. `promised` is what the answered
calls alone would have made of the tables; `doubtful` are the rows that a call
without a good answer has written, of which nothing is claimed. An expired token
is refused like a used one, so `Refuse` may always happen; that the two stores
differ in the second of the expiry itself (`<` against `>`) is below this model.

### LiveMetrics

A sample is its stamp, the number of the core reading and the number of the GPU
reading in it. `pushes` are the requests in `handleMetricsPush`, each at its `Get`
(`Merge`), `Set` or `Publish`. `handler`, `signal`, `held` and `wire` are
`handleLiveStream` for the one dashboard, whose JavaScript is `StartStream`,
`Begin`, `Frame`, `Done`, `Drop` (the promise's `catch`), `PollAnswered` and `Chart`
(`ingest`). Of the chart the model keeps its last sample and `lastAt`. The agent, the
collector and the server are taken to have one clock (`Health` has different ones).

### Inventory and Sampling

`Inventory` is pure: a program is its `comm` and its arguments; `scanProcs` is what the
inventory names and `Service` the label in a metrics report, two pieces of code that
read the same `/proc` at different times. In `Sampling` processes, interfaces and
pods are things with a counter that begins again when they do. `Work`, `Vanish` and
`Appear` are the host, between any two steps of the loop. A tick is `ReadNet`,
`ReadProcs`, `ReadIfaces`, `KubeletAnswers` or `ReadCgroups` and `Push`, in the order of
`metricsLoop`, and each may fail. The names of pods come from a directory that an agent may or
may not read (`readable`, changed by `Mount`): `podLogNames` is empty when it may not, and is kept
for 30 s like any other listing. `known` and `prev` are the readings that are kept:
`Keep` and `KeepOld` are the two things the code does with them. `since` observes what was
really used. A rate is the difference it is computed from; differences of the network
total are taken modulo `Word`, those of the rest are refused when negative, as in
the code; the total itself is the number of units that the counters of the interfaces
have counted (`Carried`). Rankings leave the order of equals open, since `sort.Slice` does.

### Health

Time is counted in heartbeat intervals, and instead of a time the model keeps how
long ago it was. `Send`, `ScanDone`, `Post` and their failures are `heartbeatLoop`
with the scan inside it; `Push` is the metrics loop. A request of the agent takes no time or
hangs until its connection breaks, since its client has no timeout. A poll of the page is
two requests whose answers come apart (`ListMachines`, `ListLive`, `Refreshed`); several
polls overlap. `RemoveMachine` and `Removed` are the DELETE and what follows its answer: the
card goes, but `machines` keeps the machine (`dashboard.go:564-569`), and `closeDetail` draws the
overview from it again (`:847`), so `shown` stays until an answer without the machine.
`Disconnect` and `Boot` are the button and a reload. `offset` is how old a sample is when
it is stamped, positive for a clock that is behind and negative for one that is ahead: the
server compares that stamp, of the agent's clock, with its own (`live.go:86`). `missed` observes
how many heartbeats in a row have failed, up to as many as make a record old.

## 3. The runs

Run with `tlc -config X.cfg M.tla`; the module of each cfg is in `PROJECT.json`.

| run | bounds | shows |
|---|---|---|
| `delivery` | 1 machine, 2 connections, 2 contents, 1 request of each shape, 2 requests, 1 loss or restart, 1 failing write (memory changed or not, file changed or not), 1 event on the wire; `LiveSpec` | `NoLostWakeup`, `DeletedForGoodAlone`, `RefinesRegister`, `Converges`, `DeletionEndsStreams` |
| `resolve` | 2 machines, 2 groups (match-all; by selector or explicit), 1 module name with 2 specs, 1 label, 2 requests at a time, 4 in all (3 once they overlap), 2 failing calls or restarts (none once they overlap), 1 report | `Settled`, `OverridesWin`, `DeletedIsGone` |
| `commands` | 2 machines, 1 group, 2 commands, history of 1, 2 seconds, 2 requests at a time, 1 upset (an overlap, an error of any call, or a cancel, with an error of it or without); `LiveSpec` | `PayloadsKept`, `NoOrphans`, `NewestSecondsKept`, `MissesOnlyDropped`, `AimedOnly`, `Runs` |
| `reconcile` | 2 keys, 2 desired states, both loops, 1 death, 1 failure (of a download, run, removal, report or of `applied.json`), overlaps counted up to 2; `LiveSpec` | `RunsOnce`, `NothingClaimedUnrun`, `NoOrphanDirs`, `Converges` |
| `enroll` | 2 agents, 3 attempts, a token for 2, 2 failures of any kind, 1 renewal; `LiveSpec` | `TokenLimit`, `EnrolledIsRecorded`, `OneAuthority`, `FewDuplicates`, `EverybodyRuns` |
| `stores` | 3 machines, 2 of them to be enrolled, 1 group, 1 module, a token for 1 (new, old, or old and used), 2 requests at a time, 4 in all, 1 fault | `AnsweredIsKept`, `NoDangling`, `GrantsWithinLimit`, `DeletedStays`, `DesiredKept` |
| `live` | 2 core readings, 1 GPU reading, 2 seconds, 1 frame and 1 poll on their way, 1 upset; `LiveSpec` | `StreamFollows`, `CoreKept`, `ChartAscends`, `ChartCatchesUp` |
| `sampling` | 2 processes of 3 programs, 2 interfaces or 2 pods, top 1, counters of 16, 2 units of work, 2 changes of the host or of the right to read the log directory, 1 failed reading; `LiveSpec` | `HonestRates`, `HonestTotal`, `NothingHidden`, `ServicesAgree`, `PodsNamed` |
| `health` | down after 3 intervals, samples fresh for 1, scans of 2, an agent's clock right, 2 behind or 2 ahead, 2 polls, 2 upsets (1 with a clock that is ahead); `LiveSpec` | `NoFalseAlarm`, `DeadIsDown`, `RemovedIsForgotten` |
| `delivery_revived`, `commands_selector`, `reconcile_config` | as small as shows it | disagreements, section 4 |

No deadlock is looked for: the bounds on requests and failures let every model come
to rest. Where `TypeOK` is proved it is not run as well; `Health` states
its own as documentation, and it was checked with the bounds above.

**Why the bounds are enough.** A machine's topic, stream and record do not depend
on another machine's, so one machine is enough for delivery; two connections are
needed because a handler that has not noticed its loss lives on beside its
successor; two requests are enough to overlap, to overwrite, to delete and to overflow
a 1-slot channel with two publishes, and one event on the wire is enough for a
handler to run ahead of its agent; one write that fails and one restart are enough for the file
to be behind and to be read, and a request, or `OtherWrite`, may come between. In `resolve` two machines tell
a tenant-wide `Recompute` from one of a single machine, and two groups are enough
for a later name to win over an earlier one; a failing write, which leaves the file behind, and a
restart, which reads it, fit into two failures, and so does a failing `Recompute` after a failed one.
Failures among overlapping requests are cut off (`Explored`); the theorems of section 5 do
not have this bound. In `commands` a history of one makes the
limit bite at the second command, which drops one that the list of the other
machine may share. Two keys and one change give the reconciler a key to run, one to keep
and one to forget at once; `MaxOverlaps` bounds what is counted only, not how often the
loops overlap, and two of them allow five runs, one more than are counted (`MaxRuns`), so that the count
that matters is that of one overlap, with a death and a failure. A token for two and three attempts make a race for
the last use, and two failures cut two first boots short. In `stores` an enrollment, a delete, a write of a whole record and one
more request fit into four, and one fault may be anything that goes wrong; the
rows of one machine, one group and their membership are all a delete concerns. In
`live` two readings can be one second or two apart, the GPU reading can come before,
between or after them, and one frame on its way is enough for a poll to overtake
it; `Fresh` is zero, so that a sample is stale in the next second. In `sampling` two
processes and a top of one make each ranking leave one out; two changes replace a
process under its pid, or have a pod come while the directory cannot be read; the constraint `OneKind` has
things of one kind at a time, whose readings the code does not mix, and the directory change where
they are pods. In `health` the constants keep the order of the code's
(samples fresh for one interval of 30 s, scans of up to 90 s, down after 120 s) in fewer
intervals: a scan that follows a whole interval makes a record too old, and so do
`DownAfter - 1` heartbeats lost in a row, but not fewer; two polls are enough for one to
overtake another. The three offsets are a clock that is right, one whose samples are stale on
arrival, and one that is so far ahead that its last sample is fresh (until three intervals later) when
the last heartbeat is too old already. With the last one there is one failure at most
(`FewerAhead`).
`MaxUpsets` and `MaxFails` allow rare events to be combined with
everything else without being combined with all of each other.

**Fairness.** `Delivery`: goroutines run, so a request under way, a handler and
an agent's loop take their next step (weak fairness); a handler whose agent is
gone finds out, because it writes a keepalive every 20 s. Nothing obliges an
operator to send a request, the network to fail, `ReadTimeout` to pass or the
server to restart. `Commands`: an accepted request is served to its end, and an
agent fetches what it is told to. `Reconcile`: the retry ticker ticks, a
reconcile under way goes on, and the stream delivers the newest desired state in
the end, which is `Delivery`'s `Converges` (strong fairness, because older events
may come first). `Enrollment`: requests are served or given up, and a supervisor
(`packaging/fleet-agent.service`: `Restart=always`) starts a process that has
exited. `LiveMetrics`: handlers run, the page reads what arrives, and its polls
go on (`setInterval`); nobody is obliged to push, to open the machine or to let the
clock advance. `Sampling`: the ticker ticks and the loop goes on. `Health`: time goes by, the
agent's loops go on while it is on, connections break in the end, and the page polls
while it is connected; nothing obliges an agent to start. In every `LiveSpec` failures are never obliged
to happen or to stop; the bounds make them finitely many.

**Qualified properties.** Many properties hold under a condition that an
observation variable records (`overlapped`, `overlaps`, `lapses`, `litter`, `stray`, `erred`, `died`,
`flushFails`, `failures`, `unsettled`, `staleSave`, `staleAdd`, `doubtful`, `crossed`, `stale`,
`netBroken`, `late`): the models explore both sides, and section 4 says why the property fails on
the other one.

## 4. Where the code and its comments disagree

Three of these are shown by a run of their own (its property is the promise):

- `delivery_revived`, `DeletedForGood`. `SaveMachine` is an upsert. A request that
  read the record before a delete writes it back afterwards, and "a deleted
  machine's certificate stops working immediately" (`admin.go:249-250`) no longer
  holds for that machine.
- `commands_selector`, `EveryPayloadKept`. A command queued by selector is in the
  overrides of several machines. When one of them drops it, its payload is
  deleted, and the others' agents get a 404 for it, although the limit "bounds how many ad-hoc
commands are retained per target" (`commands.go:34-35`). With commands of one second
  this may even be the command that was just queued.
- `reconcile_config`, `WantedDirsKept`. A new configuration of a module gives a new
  key and the same directory. The new key is unpacked and run first; forgetting
  the old key then removes the directory of a module that is still desired.

The others are the reasons for the qualifications. Removing the qualification
from the property makes TLC show the behaviour:

- `NoLostWakeup`, `Converges`: a failed `flush` leaves the new state in the store
  and publishes nothing (`store.go:182-187`, `groups.go:117-119`).
- `RefinesRegister` lets the record go back to what the file holds, and `DeletedForGoodAlone`
  counts a machine as deleted when its deletion was answered with success: a change whose
  `flush` failed is seen by every reader, is sent to agents, and is undone by the next restart
  unless another write has succeeded in between (`store.go:182-187`, `:313-321`, `:77-104`). A machine
  whose deletion was answered with an error is gone until then, and comes back.
- `NoLostWakeup` and `Converges` unless an edit has overlapped: an edit
  writes a stale desired state back; if its `Recompute` then reads a record that
  another one has repaired, nothing is published for what was stored in between.
- `Settled` and `OverridesWin` until a call of the store fails or the server is restarted: Recompute
  returns the first error, of a read (`groups.go:78-104`) or a save (`:117-119`), and its callers only
  log it, after their own write has been answered or is in the store; a restart between the write and the
  save does the same, since nothing is recomputed at start. The machines stay as they are, although "a
  machine's effective DesiredState is computed" from what is stored, until the next `Recompute` that
  covers them.
- `Settled`: of two overlapping `Recompute`s the one that listed the groups first may
  save last. It stays so until the next tenant-wide one. The same record
  write-back loses a status report that came in between (`groups.go:117`).
- `Settled` allows any group among those of one name: names are not unique and
  the sort is not stable, although "conflicts resolve deterministically"
  (`groups.go:26-27`).
- `NewestSecondsKept`: among commands of one second the newer may be dropped
  ("Oldest are dropped", `commands.go:40`).
- `PayloadsKept` and `NewestSecondsKept` while requests do not overlap: two requests for
  one target read the same list, and the second write loses the first command.
- `NoOrphans`: the payload of a cancelled command, and that of a request for a
  target that does not exist, stay for ever. So does one whose save is answered with an
  error after it happened (`commands.go:240-243`), of a request whose list of machines or record
  cannot be read or saved (`:253-309`), or whose removal fails (`:88-93`, `:315`), although the code drops it
  "rather than leaving an orphan payload that no machine will ever pull" (`:313-314`).
- `RunsOnce` counts what may repeat a run, although modules are "executed once per (name, version,
  config) tuple" (`modules.go:23-24`): the two loops each run what neither has recorded, and
  what they write into one file at a time may be torn; a death before `applied.json` is written; a write of
  it that fails, which is ignored (`modules.go:178`), and a read that fails, which counts as an empty
  file (`:166-169`). Each of them repeats a run once, an overlap twice.
- `NoOrphanDirs` without any of these: a file that was not written, or was read as empty, accounts
  for no directory, and what it does not name is never removed. Without them, only directories
  whose removal failed are left: the key is forgotten all the same (`modules.go:51-52`, `:159-161`), so that it
  is never tried again ("a failure here only wastes disk").
- `EverybodyRuns` while no agent dies: after a death between the writes of the identity
  files the agent may have `cert.pem` and not its key; it then counts as enrolled, never
  enrolls again and never starts. A renewal that tears `cert.pem` does the same.
- `EverybodyRuns` while the server does not die in its first boot: only `ca.pem` is
  looked for (`ca.go:48`), so a CA whose other files are missing, or a torn one,
  is never created again and never loads.
- `FewDuplicates` counts failures: a death before `cert.pem` is written, or a lost answer,
  has the agent enroll a second machine for the host, although "a restart never ...
  leaves a duplicate machine record behind" (`cmd/fleet-agent/main.go:59-60`).
- `NoDangling` unless `staleAdd`: `addGroupMember` looks up the machine and the group
  and then inserts; a delete in between leaves the membership of something gone, for
  good. Turso's late statements do the same.
- `DeletedStays` unless `staleSave`: the upsert of `delivery_revived`, or a save that is
  executed after its 15 s.
- `CoreKept` unless `overlapped`: a GPU push merges into the sample it has read, and a full
  push that is set in between is taken back (`live.go:54-57`).
- A full push drops the GPUs, which no other code keeps: with a collector running
  the GPU cards come and go (`live.go:63`; "The dashboard shows all three",
  `README.md:144`). And a merge stamps old core statistics with the time of the GPU
  reading, so that a frozen value looks fresh (`live.go:56`; `live.go:74-76` says a dead
  machine renders "as no live data rather than as a frozen last value").
- `StreamFollows` and `ChartCatchesUp` speak of the last sample, not of each: signals
  coalesce, so pushes can be missed, and a signal that was set before the first
  frame was read sends it again, as does each new stream, although "the SSE stream
  emits exactly one frame per agent push" (`dashboard.go:292`) and "the two sources
  cannot double-count the same reading" (`dashboard.go:282-283`).
- `ChartAscends` unless `crossed`: before the stream's answer has begun, polls are still
  charted, and the first frame, read earlier, is appended behind a newer poll.
- A stream that ends instead of breaking is not asked for again
  (`dashboard.go:933`): after the admin listener's `ReadTimeout` the chart has only its polls.
- `HonestRates` unless `stale`: when `/proc` cannot be listed, or while the kubelet answers
  (`kubernetes.go:55`), the earlier readings stay and are later compared over one tick's time,
  which reports the work of many ticks as a spike; a pod's CPU time that cannot
  be read is kept as zero (`kubernetes.go:353`), and the next rate is all it has ever used.
- `HonestTotal` unless `netBroken`: the total over all interfaces goes down when one
  vanishes, and the difference of unsigned numbers wraps (`metrics.go:53`). The rates of
  single interfaces, pods and processes are guarded against that.
- `PodsNamed`, of names, where the log directory stays readable: without it a pod has "a UID and no
  name" (`deploy/DASHBOARD.md:236`, `dashboard.go:1022`). A directory that becomes readable gives names
  after up to 30 s, since the empty listing is kept like any other (`kubernetes.go:319-322`).
- `DeadIsDown` speaks of the end. Samples carry the agent's time and are compared with the server's
  (`live.go:86`): with a clock that is ahead by an hour a dead machine renders with its last values for an hour and
  half a minute, although stale machines are absent, "which is what makes a dead machine render as
  "no live data" rather than as a frozen last value" (`live.go:74-76`).
- `NoFalseAlarm` excuses answers that are `late`, and machines that were silent both ways.
  That the scan for updates "runs on its own slow cadence" (`updates.go:17-18`) is not so: it
  runs inside `heartbeatLoop` and holds heartbeats up for its 60 or 90 s. A machine without
  live samples is then announced as offline, as it is when the agent's client, which has no
  timeout (`agent.go:171`), hangs.
- "`last_seen` advances only on the heartbeat" (`dashboard.go:400`): `SetStatus` sets it as well.
- `RemovedIsForgotten` speaks of the end: an answer that is on its way when a machine
  is removed, or the list that the page still has, which `closeDetail` draws again
  (`dashboard.go:568`, `:847`), shows its card again, although traces are dropped "so the card cannot briefly
  reappear" (`dashboard.go:564`). In the same way answers that are on their way show the
  machines again after `disconnect`, until the page is loaded again.
- Two that are outside the models: `createTenant` saves the tenant before its `all` group, and an
  error in between leaves it without (`admin.go:90`); samples of deleted machines stay
  in the registry (`live.go:29`), hidden by `handleLiveAll`.

## 5. The proofs

TLAPS checks the following for every value of the constants, that is for any
number of machines, connections, requests, agents, attempts, processes and failures. The
assumptions are the named `ASSUME`s of the modules: the types of the constants, and that
special values are none of the ordinary ones.

Three arguments recur. A property that speaks of a resting state is extended to what is under
way (a wake-up is signalled or *owed*; an override is applied or its save is *owed*). A
property of stored data is extended to every *copy* that may be written back. And a
property that needs requests alone carries the observation that they were.

`DeliveryProofs`

- `TypeCorrect`: `Spec => []TypeOK`.
- `NoWakeupIsLost`: `Spec => []NoLostWakeup`, which is not inductive: it speaks of
  waiting handlers only. `Awake` says the same of handlers that have read and not
  yet written, whose last position is the one they hold. It needs `PositionsOK`
  (positions lie in the history) and `RequestsOK` (an edit that has not overlapped holds the record's
  current content, a delete holds `Gone`). The interesting steps are
  `Save`, which makes `Awake` false unless the request still owes its publish,
  `Publish`, which discharges that by leaving a signal pending at every
  subscriber, and `SaveEdit`, which must not change the content.
- `DeletionIsFinal`: `Spec => []DeletedForGoodAlone`: by `RequestsOK` no
  request that has not overlapped with the delete holds an older content, and what was answered is
  in the file, so that a restart does not bring it back (`DeletionsKept`).
- `StreamRefinesRegister`: `Spec => RefinesRegister`. A write that succeeds is an `Overwrite` that is
  durable, one that fails may be one that is not, and a restart is a `Lose`, which appends the
  durable value again: what agents have seen stays a position in the history. The positions on an agent's
  connection, followed by what its handler has sent and holds, ascend from what the
  agent has seen; that invariant makes `Receive` an observation of the register
  and `Connect` after a loss harmless.

`ControlPlaneProofs`

- `TypeCorrect`: `Spec => []TypeOK`, split into the store (`StoreOK`), what each request is
  about to write (`WriteOK`) and has read (`RequestOK`). `ComputedList` and `ComputedWins` are the
  lemmas about `computeModules`: it yields a list, in which the override has the last word.
  `ComputedPromised` is the stronger one: of the groups that match and name a module the
  last by name decides, whatever the order among groups of one name; every finite set
  of positions has a last one (`LastExists`, by well-founded induction).
- `OverridesAlwaysWin`: `Spec => []OverridesWin`. `OverridesWin` speaks of moments without
  requests; `Covered` holds always: a machine whose override is not applied is owed a
  save by a request that has still to read it, or has read it as it is now. A stale copy
  that is written back makes `Covered` false of nobody, since its writer owes a `Recompute`.
  A call that fails, and a restart, end that promise with `failures`.
- `DeletedAreGone`: `Spec => DeletedIsGone`. While requests do not overlap there is at most
  one (`Alone`), and it is not about to write a deleted machine or its membership (`Forgotten`), nor is
  there such a membership in the file that a restart loads (`FileForgotten`, with `SavedStep`).
- `EveryMachineIsRight`: `Spec => []Settled`, that every machine has just the modules it is
  promised when no request is under way. A request that runs alone (`Lonely`) has read what is
  stored (`Faithful`, `Fresh`); while it is under way every machine is `Right`, or is still to be
  saved with the right modules, or is still to be computed (`Accounted`, with `Due`). After
  overlapping requests, a failed call or a restart nothing is claimed until a tenant-wide `Recompute`
  that starts alone has listed the machines (`Sweeps`) and saved them all, which is where `unsettled` ends.

`CommandsProofs`

- `TypeCorrect`, and `NothingRunsUnaimed`: `Spec => []AimedOnly`. The invariant says of every
  list, desired state and copy of either, and of what is about to be appended, that it
  holds only what is aimed at its machines (`StoreAimed`, `CopiesAimed`, `JobsAimed`).
- `PayloadsAreKept`, `NoPayloadIsOrphaned`, `NewestSecondsAreKept`, `OnlyDroppedAreMissed`: the four
  properties of requests that do not overlap share one invariant, `OneByOne`. What the one
  request has read is what is stored (`Current`); payloads and lists agree but for the command
  it has stored and not yet listed and for those it has unlisted and not yet deleted
  (`Wanted`, `Unqueued`, `Progress`); a command that was dropped is not of a later second than
  any that its list keeps (`Newest`). `Ordered`, that names are given out in the order of their
  seconds, is true of requests that overlap as well.

`ReconcileProofs`

- `TypeCorrect`, and `NothingIsClaimedUnrun`: `Spec => []NothingClaimedUnrun`. The invariant
  `Claimed` includes the loops' own copies of `applied.json`, which either may write over the
  other's.
- `EachRunsOnce`: `Spec => []RunsOnce`, for any number of overlaps, deaths and failures. The bound is
  not inductive: a module that has run may be run again by each loop whose copy does not have it, and
  once more when the file does not. The invariant counts, for each key, the runs there have been together
  with those that are still to be feared (`Owed`, of one loop under way, `Single`, or of both, `Both`)
  against `1 + Repeats`; each step that adds to the left pays for it (`Pays`), and starting, dying and
  failing to use `applied.json` add to the right.
- `NoDirIsOrphaned`: `Spec => []NoOrphanDirs`. As long as `Repeats = 0` there is one loop under way at most
  (`Alone`), and what is unpacked is accounted for at each place of the loop somewhere else: in the file, in
  the loop's copy, in the module it is running, or in `litter` (`Accounts`).

`EnrollmentProofs`

- `TypeCorrect`: `Spec => []TypeOK`, with the disk never ahead of the memory.
- `TokenIsLimited`: `Spec => []TokenLimit`. The invariant is
  `Cardinality(granted) <= disk.uses` and `disk.uses <= mem.uses <= Limit`: an attempt is granted
  only when the use is on the disk, so a restart never gives it back.
- `AcknowledgedIsRecorded`: `Spec => []EnrolledIsRecorded`. The invariant follows
  the attempt from the answer to the file: an answered attempt, and with it the
  attempt an agent writes and every file it has written, is on the disk.
- `AuthorityIsOne`: `Spec => []OneAuthority`. A CA that loads is of the last creation
  (`LoadedIsLast`), since `ca.pem` comes first and is what the next start looks for; and no
  certificate is signed before there is one.
- `DuplicatesAreFew`: `Spec => []FewDuplicates`. Records alone are not inductive, since a request
  that was given up on by its agent may still become one. `FailuresPaid` counts for each host
  its records and the attempts that may become records (`Recordable`) against the failures, with one
  to spare unless the host asks or has its certificate (`Hosted`).

`LiveMetricsProofs`

- `TypeCorrect`; `StreamNeverStaysBehind`: `Spec => []StreamFollows`, which must hold before a
  frame is written already, as the connection may block (`Followed`); `CoreIsKept`:
  `Spec => CoreKept`, since a push that is handled alone cannot have read an older sample than
  the one it overwrites (`Merged`).
- `ChartNeverGoesBack`: `Spec => ChartAscends`. Whatever is on its way to the chart is in order
  (`Ordered`): the push that is under way is later than all the registry has held, so is what the
  registry holds, frames follow what is shown and each other, and of a poll and any other sample the stamps
  tell which is later. A sample is `Later` than another in its stamp and in the core reading it has.

`SamplingProofs`

- `TypeCorrect`: `Spec => []TypeOK`.
- `RatesAreHonest`: `Spec => HonestRates`. The invariant relates each reading that is kept to
  the counter and to what was used since (`Accounted`): the counter is at most their sum, and is
  their sum for what has existed all the time.
- `NothingIsHidden` and `ServicesAlwaysAgree`: steps of `ReadProcs`, from lemmas about the
  rankings (what is left out is outranked by `N` others) and about `Inventory` (the two
  ways of naming a service agree).

- `TotalIsHonest`: `Spec => HonestTotal`. The same account for the sum of the interfaces
  (`NetAccounted`), which holds for the sum as long as none of them has gone: it is a
  cardinality, so that work on one interface adds just its units (`Carried`). It is kept modulo
  `Word`, so the rate is right even when the sum starts over.

`StoresProofs`

A restart puts the file in the place of the memory, and a statement that was given up on changes the
tables later. So each invariant speaks of the tables in memory, of those on disk and of what is
still to be executed.

- `TypeCorrect`: `Spec => []TypeOK`; with it each client has left just the statements its request
  consists of.
- `AnsweredRowsAreKept`: `Spec => []AnsweredIsKept`. Memory and disk agree with what was promised
  wherever no doubtful call has written (`Agreed`), and a late statement writes only such rows.
- `NoTokenIsOverused`: `Spec => []GrantsWithinLimit`. Memory and disk have counted all grants
  (`Granted`); of a token from before uses were counted `CountUsed` counts them at the start.
- `DeletionsAreFinal`: `Spec => []DeletedStays`. Nobody who runs alone is about to save a deleted
  machine (`Gone`).
- `RevisionsAscend`: `Spec => DesiredKept`. A client that recomputes alone holds no older revision
  than the store (`Newer`).
- `NoMemberIsLeftBehind`: `Spec => []NoDangling`. Between the two statements of a delete, and after
  the second was given up on, what is left of it finds no membership to leave behind (`Attached`).

Only model-checked: `NoFalseAlarm`, the safety property of `Health`, and all liveness properties
(`Converges` twice, `DeletionEndsStreams`, `Runs`, `EverybodyRuns`, `ChartCatchesUp`, `PodsNamed`,
`DeadIsDown`, `RemovedIsForgotten`), since TLAPS does not deal with fairness and `ENABLED`. The
properties of the three runs of section 4 are false.

## 6. What is not modelled, and why

- Cryptography, HTTP, JSON: a machine's identity is its id, a
  signature is that of a creation of the CA. The verification of an artifact in `apply` is one more way
  for `DownloadFails` to happen.
- Authentication of the admin API and the admission of its inputs
  (`validateModules`, label syntax): checks that change nothing.
- The tenant tables of the stores, Turso's HTTP encoding and the text of its SQL:
  statements are modelled by the rows they change.
- What the inventory reads of hardware, release and addresses, and CPU, memory, disks and
  GPUs of a sample: they are read and sent as they are.
- Pages, alerts, installer, packaging, and of the dashboard drawing and forms:
  formatting and static content.
- The history the dashboard saves in `localStorage`: a copy of the chart.

## 7. Plan

1. Done: `Delivery`, `DesiredRegister`; `Resolution`, `ControlPlane`; `Commands`;
   `Reconcile`; `Enrollment` with the CA; `Stores`; `LiveMetrics`; `Inventory`, `Sampling`;
   `Health`; the proofs above.
2. The proof of `NoFalseAlarm`, whose invariant has to say how old a record, a sample and
   an answer that is on its way may be at each place of the agent's two loops.
3. An abstract store that both regimes of `Stores` implement, with what is doubtful as its
   nondeterminism; `Agreed` is most of the refinement.
4. A composition of `Delivery` and `Reconcile`: an agent that executes what the
   operator set, end to end. Each takes from the other what the other shows (`Converges`
   is the fairness of `Reconcile`'s stream), so it would show little that is new.
