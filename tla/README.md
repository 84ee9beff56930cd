# Draxul in TLA+

Draxul is a terminal and Neovim front end whose terminals, spaces, tabs and
agents live in a server process; user interfaces attach to a *session* of that
server over a local control endpoint and an event stream, and may come and go
while the shells keep running. The risk of the program is in that split: a
server-owned version of every terminal, a bounded queue for every subscriber,
clients with cursors, two transports with retries, a controller lease, a
topology that several clients change, and checkpoints that outlive the server.
This directory models that part, and the channel to an embedded Neovim, the
other place where threads of the program meet.

## Inventory

| Component | State it keeps | Operations | What makes it correct |
|---|---|---|---|
| Remote terminal service (`draxul-server/remote_terminal_service`) | version (generation, sequence), subscribers with queue/resync/suspended, controller lease and reservation, completed mutations, published process status | attach, resume, suspend, poll, poll_subscription, input, resize, take_control, disconnect, restart, pump | a cursor the queue cannot continue is answered by a snapshot; queues bounded; versions only advance; the lease dies with its holder |
| Server terminal runtime (`server_terminal_runtime`) | process, grid, dirty cells, synchronized output, pending clipboard | start, restart, retire, pump, send_input, resize, take_delta, snapshot | a delta carries every write since the last; a snapshot is the whole screen |
| Session poll service (`session_poll_service`) | terminal rotation per client | build one bounded response for topology, agents and all terminals | every terminal is reached; budgets hold |
| Session stream service (`session_stream_service`), stream policy (`draxul-client/session_stream_policy`) | tickets, connections with reader, writer and outbound queues, completed commands; client: last poll, serials, commands in flight | open, connect, Update, Command, pump, write, disconnect, retire | frames are numbered in wire order; one exchange at a time; a command acts once |
| Remote session coordinator (`draxul-client/remote_session_coordinator`) | entries with visibility, cursor, command queue, transport mode | poll worker, stream worker, accept a batch, fall back, reconnect | a projection never shows less than its version; commands survive a fallback |
| Remote terminal projection (`draxul-client/remote_terminal_client`) | version, cells, controller, running | apply snapshot, delta, controller, clipboard | only contiguous events apply |
| Control plane (`draxul-control/control_plane`) | queue of pending requests with deadlines | dispatch on connection threads, process on the state thread | a request has one answer; cancelled requests are skipped |
| Topology service (`topology_service`) | revision, spaces/tabs/split trees/panes, serials, completed commands | commands, restore, subscribe | revision check; a retry is answered, not repeated; trees stay trees; identities are fresh; a command that fails half-way leaves no shell behind |
| Server kernel (`server_kernel_*`) | clients with leases, sessions with terminals and checkpoint task, shutdown state | register, touch, detach, prune, pump and clean exits, checkpoint, restart terminal, stop | expiry detaches everywhere; the loop closes what ended and nothing else; the file catches up with the topology |
| Session topology bridge (`session_topology_bridge`) | none | capture a snapshot, restore it | every accepted topology can be captured, and comes back as it was |
| Session client, topology projection (`remote_session_client`) | command queue, dispatcher, revision asked for, mailbox, epoch | worker, stream dispatch, abandoned commands, UI hand-over | a command is held in one place until it is answered; the projection never regresses |
| Client recovery (`client_recovery`) | epoch, phase, backoff | note success/failure, refresh | transient failures keep cursors |
| Agent services, session bridge | agent instances, discovery | create, adopt, retire | an agent pane and its terminal agree |
| Neovim RPC (`draxul-nvim/rpc`, `nvim_process`), UI request worker | message ids, responses, timed-out ids, notifications, outbound queue, pipes; the pending resize | request, notify, drain, read, write, close, shutdown | every request ends; no response is kept for nobody; redraws keep their order; the shutdown ends whatever Neovim does |
| Split tree, session model | tree of panes; checkpoint document | split, close, move, (de)serialise | tree invariants; round trip |
| Transports, PTY, grid, VT core, renderer, fonts, plug-ins, chat services, configuration | see `PROJECT.json` | | |

How they interact: connection threads of the control plane and the readers of
the stream hand requests to **one state thread**, which runs every handler of
the services and pumps the terminals; so a handler is atomic with respect to
every other handler, and what interleaves is *handlers, the process, the
client's worker, the user's thread, the stream's reader and writer, and the
network*. The client's coordinator has one worker thread that sends session
polls (or stream updates) and applies the answers to the projections, while the
user's thread toggles visibility and queues commands under a lock. Topology
commands travel with the stream while it carries commands and with the
session client's own worker otherwise; what the server answers reaches the user
interface through a mailbox that both threads fill. The state thread also runs
the loop that closes the panes of shells that ended, and hands the topology to
a writer thread that stages a checkpoint. In a Neovim host the main thread, a
UI request worker, the transport's reader and writer, and the child process
share queues, condition variables and pipes.

The behaviours that are hard to test are listed, each at its line, under
`hazards` in `PROJECT.json`.

## Plan

Modules are ordered by how much of the program rests on them. Every module is
parameterised by CONSTANTS with named assumptions, has one action per handler
or critical section, and writes what repeats as recursive functions, never as
RECURSIVE operators, so that it can be proved about.

1. `TerminalService` - the server side of a terminal (**done**), with
   `TerminalServiceProofs` (**done**).
2. `TerminalDelivery` - composes it with clients that poll (**done**), with
   `TerminalDeliveryProofs` (**done**).
3. `SessionStream` - the persistent connection, its threads on both sides
   (**done**), with `SessionStreamProofs` (**done**).
4. `SessionPoll` - the rotation of the poll scheduler, deferred channels and
   budgets, behind the assumption "a client that keeps asking is served in
   full" which `TerminalDelivery` makes (**done**), with `SessionPollProofs`
   (**done**).
5. `CommandLog` - the abstract specification of topology commands, and
   `SessionTopology`, which implements it: stream commands, the cache of
   completed commands, the fall back to the control path with the same request
   ids, the worker, the mailbox, epochs (**done**), with
   `SessionTopologyProofs`, the refinement included (**done**).
6. `SessionTree` - spaces, tabs, split trees and terminals under every command,
   clean exits, checkpoints and restores (**done**), with `SessionTreeProofs`
   (**done**).
7. `NvimRpc` - requests, timeouts, backpressure and close of the Neovim
   channel, with the UI request worker (**done**), with `NvimRpcProofs`
   (**done**).
8. Next: `AgentService` - agent identities, companions and their lifetimes around
   panes; `ControlPlane` - connection threads, deadlines and cancellation.

Abstract specifications worth stating: `CommandLog` (5, done), and for delivery
"a client holds some version the terminal has had, and only moves forward", of
which `TruthfulProjection` and `NoRegression` are the two halves. The runs stay
within what finishes in a few minutes. Runs that only exhibit a known divergence
have made room for the runs of new modules; their configurations are kept and
listed under *What the runs found*.

## The modules and the code

### TerminalService

One `RemoteTerminalService` with its `ServerTerminalRuntime`. Every handler
runs on the state thread, so every handler is one action, its failure paths
disjuncts or actions beside it (`PollAttachFails`, `RestartFails`,
`ResizeFails`, ...).

* The version is `generation`, `sequence`. `journal` is history: what every
  version stands for (how many writes, which controller). No handler reads it.
* The screen is the number of writes since it was last wiped: write *i* is the
  *i*-th. A delta carries a set of writes, a snapshot all of them. `screen` is
  what the process wrote, `shown` what clients have been given; they differ
  while synchronized output (`held`) withholds deltas.
* `subscribers` has a record for every (client, subscription id) key: queue,
  `needsResync`, `suspended`. Subscription 0 is the direct `terminal.*`
  channel. Byte limits and the event limit are one limit on the queue's length;
  a snapshot's size against the budgets is the outcome *fits*, *deferred* or
  *tooLarge*, chosen by the environment.
* `controller` and `preferred` are the lease and its reservation; `completed`
  is the cache of completed mutations; `answer` is the response of a request.

### TerminalDelivery

Extends it with the client: `RemoteSessionCoordinator`'s entry for one
terminal and its `RemoteTerminalProjection`. The worker has one request in
flight (`asked`); the service serves it (`ServeAsked`, the whole of
`poll_subscription`), the response comes back (`Deliver`) or is lost (`Lose`).
A request given up by its client can still be served (`ServeLate`) or dropped
(`DropLate`), as the control plane's queue allows. `accept_batch` compares the
visibility generation in one critical section and applies the events in
another: the attach and every event are steps of their own, and `SetVisible`,
the user's thread, may come in between.

### SessionStream

`SessionStreamService`, `SessionStreamPolicy` and the coordinator's stream
worker. On the server the state thread (`PumpBegin`, `PumpCommand`,
`PumpPoll`, `PumpEnqueue`), the reader (`ReadConnect`, `Bind`, `ReadCommand`,
`ReadUpdate`, `ReadEnd`) and the writer (`WriteFrame`) share a
`ConnectionCore`; each critical section is an action, so a flag read in one
section and used in the next is stale in the model when it is in the code.

* A terminal is reduced to the number of its last change and what
  `poll_subscription` remembers of this subscriber (suspended, needs a resync,
  acknowledged up to); the batch kinds are those of the protocol.
* A frame's size is one unit of the queue; events have `EventRoom` units,
  control frames a reserve of `ControlRoom` more.
* Selecting a frame, numbering it, writing it and looking at
  `close_after_flush` is one step of the writer: between them only its place
  on the wire can be seen. The content of a closed connection is dropped.
* `accept_batch`'s two sections are one step here; `TerminalDelivery` splits
  them.
* A second connection stands for a second coordinator of the same user
  interface: a coordinator that falls back stays with `session.poll`.

### SessionPoll

`SessionPollService::build`: the whole response of one poll is one action,
`Poll`, as the handler runs on the state thread. `NewTurn` is the empty
response; the weighted channels are taken from `schedule.channel` on
(`TakeChannel`), the terminals from `schedule.next` on (`Order`, `Consider`),
and a slice is what `poll_delivery` hands out under a soft and a hard budget
(`SnapshotSlice`, `EventSlice`). Between polls the environment queues events
(`Emit`), changes the topology or the agents (`Change`), opens and closes panes
(`Subscribe`, `Unsubscribe`), or detaches the client (`Disconnect`).

* Sizes are small numbers; every terminal has one snapshot size.
* `response`, `skipped` and `missed` are history: what the last response left
  out, and for how many polls in a row a terminal was not asked or a stale
  projection not carried.
* The client applies a response before it polls again; what becomes of lost
  ones is the subject of `TerminalDelivery`.

### CommandLog and SessionTopology

`CommandLog` says what a session promises of the commands of one client: a
server that runs applies each at most once, each is answered at most once, and
with success only if it was applied. `SessionTopology` is the code: the user
interface (`Issue`, `Consume`), the coordinator with its stream, the policy and
the abandoned commands, the session client's worker with its two attempts and
its refresh, the mailbox between them, and the server's `command()` with its
revision check and its cache. `Promise` is the refinement mapping, and
`KeepsPromise` says that every step of the detailed system is a step of
`CommandLog` or none.

* A topology is its revision and the sequence of the changes made to it. The
  history `applied` records what this server, and any server, has applied.
* Each critical section of coordinator and worker is an action. The response of
  a poll is accepted in three sections (`AcceptEpoch`, `AcceptRevision`,
  `AcceptTopology`), a worker's answer in others, so that one can overtake the
  other in the mailbox.
* The stream may break, a result may be too large for it, a handshake or a reply
  may be lost, a request given up may still be served (`ServeLate`), and a
  server may be replaced by one that restores a checkpoint: a prefix of the log,
  with revisions that start again and an empty cache.
* Topology commands follow each other on the stream without waiting, so a
  deferred one may be applied after a later one; `CommandLog` leaves the order
  open because the code does.

### SessionTree

The session on the server. `session` has the snapshot (spaces, tabs with
a map from node identities to leaves and branches, panes with their terminal
and owner), the terminals, the next serials and the revision. Every command of
`TopologyService::apply` is an action or, when it changes only names, ratios or
order, `Touch`; a limit that refuses it is its guard, a terminal that cannot be
created an outcome of it that may use up identities (`UsedUp`) or be rolled
back (`Rollback`). `Pump` is the kernel's loop over the terminals with the
closing of the panes whose shells ended cleanly (`Tried` is
`exit_cleanup_attempted`), `Tick`, `WriterEnds` and `Collect` the
checkpoint, `Restart` a stop - clean, with the last checkpoint written, or a
crash without - and the restore of the file by the next server, with the node
identities a restore gives.

* `Restorable` is the part of `validate_session_snapshot` and of the restore that
  decides whether a file becomes a Session again (`IsTree`, `IsTab`,
  `IsSession`); `FilesAssumption` says that the first server finds no file or
  such a one. `ValidLayout` is what `apply_layout` accepts before it begins: the
  number of tabs, and the panes and the depth of each.
* A layout splits the newest pane, as one without `split_from` does, and its
  panes are the server's.
* Nodes keep their identity as the code's strings do: a serial with one of the
  two prefixes. `Capturable` is the check of `validate_session_snapshot` that
  depends on them.
* The order of tabs, names, ratios, `place_before`, agent identities and plug-in
  panes are left out; a shell that was never started counts as running; the
  published identity of the server is assumed to be held.

### NvimRpc

`NvimRpc` and `NvimProcess` between the main thread (`host`), the UI request
worker, the transport's writer and reader and the child. A critical section is
an action. A thread that waits on a condition variable evaluates its predicate
in one step and goes to sleep in another, unless whoever notifies holds the
mutex; so the model has the wake-ups that are missed in the code. Bytes
are counted in messages, and a pipe has room for `PipeRoom` of them. Neovim is
the environment: it reads, answers, redraws, asks, hangs, exits, and while it
is blocked on its output it does not read. `cancel_writes` waits 500 ms for the
threads inside `write()` and then only warns: `WritersIdle` has no guard on the
writer, `KillProcess` may close the descriptor underneath it (`outstayed`),
and then `WriterStrays` lets its bytes go to whatever file has the number.
`NoEntryAfterClose` says what is left of the guarantee: nobody *enters*
`write()` once the descriptor is closed. Left out: malformed messages, which end
the reader like a closed pipe.

## What the runs check

| Run | Bounds | Shows |
|---|---|---|
| `terminal_service` | two clients on the direct channel, one of them preferred, queue of 2, two writes, two generations, two sequence numbers, one cached mutation, retries | `TypeOK`, `QueueDiscipline`, `ControllerAttached`, `ReservationHeld`, `VersionAdvances` |
| `session_subscription` | one session subscription, all three snapshot outcomes, budgets 0 and 1, synchronized output | `EventsComplete`: no queued or sent event leaves out a write of its version |
| `delivery_safety` | one client, one lost exchange, a late request, a terminal that is hidden once (shown again: the theorems), deferred snapshots | `DeliveryTypeOK`, `TruthfulProjection`, `NoRegression` |
| `delivery_lossless` | one client, no loss: queue of two, budgets of none, one and two events, clipboard events, snapshots that fit or are deferred, three sequence numbers, a restart, hide and show again | `OrderedDelivery`, and under fairness `Converges` |
| `session_stream` | one connection, one terminal, one command, a queue of one update, hide and show, a refused poll or disconnection, one unread heartbeat, Updates without end | `StreamTypeOK`, `FramesAccepted`, `NoLostWait`, and under fairness `StreamSettles` |
| `session_poll` | three terminals with snapshots of 3 and events of 1 or 3, topology 2 and agents 3, against a budget of 4, a quantum of 2, one event per terminal and a queue of one | `PollTypeOK` (the budget), `InTurn`, `MoreTold`, `ChannelsServed` |
| `session_topology` | two commands, one of which may be refused and too large for the stream, one fault, one restart, starting with or without the stream | `SessionTopologyTypeOK`, `HeldOnce`, `ActivatedSeen`, `ShownForward`, and `KeepsPromise`: the refinement of `CommandLog` |
| `topology_liveness` | two commands, one change by another client, one fault, the stream mode | `AllAnswered`, `StreamConverges` |
| `session_tree` | two spaces, two tabs each, three panes, trees of depth 1, two terminals, two commands, one exit, one restart, one failure of the writer, from an empty start or a file of three panes | `SessionTreeTypeOK`, `TreesWellFormed`, `TerminalsMatch`, `FileCurrent`, `PumpSpares`, and under fairness `ExitsClose`, `ChangesSaved` |
| `nvim_rpc` | two startup requests, one resize between two sizes, two redraws and one request of Neovim, one input, a notification queue of one, an outbound queue of two, pipes of one, one remembered timeout | `NvimTypeOK`, `NoRedrawLost`, `WireOrder`, `NoEntryAfterClose`, `ResponsesClaimed` |
| `nvim_liveness` | the same without requests of Neovim and input | `Answered`, `ShutdownEnds` |
| `blocked_checkpoint` | one space and tab, five commands, two restarts | refutes that every accepted change can be checkpointed, see below |

Why these bounds are enough to be interesting: a queue of one or two with two
sequence numbers overflows, so resynchronisation happens; two generations give
one restart, with cursors of the old generation around; two writes give a
delta after a withheld, redrawn or wiped one; budget 0 leaves a response without
room; `MaxVisibility` 3 allows a terminal to be hidden and shown again while an
answer is on its way (generation 1 is the registration, 3 the showing after a
hiding); `MaxChanges` 2 against `UpdateQueue` 1 makes a resync. In
`delivery_lossless` a queue and a response hold two events, so that they could
arrive in the wrong order or twice, and the last change may meet a client that
is suspended, deferred, or between its two locks. In `SessionPoll` no two of a snapshot, the topology and the agents fit
one response, an event may be larger than a quantum and a snapshot larger than what
is left, so every way of stopping and deferring happens. In `SessionTopology` two
commands conflict, replay and overtake each other, and one fault is enough to
make one of them wait, be retried or change channel; `CompletedLimit` 4 is never
reached by them, since the 2048 of the code are not by its clients. In `SessionTree` the
first server may find a file, so that a restore is followed by commands, another
capture and another restore; a tab reaches its depth with two panes and the
session its terminals with two, so that each limit refuses some command, and a
layout fails half-way. In `NvimRpc` every queue and pipe is full after one or two
messages, so that reader, writer, Neovim and callers do wait in a circle. `MaxWrites`, `MaxGeneration`, `MaxSequence`, `MaxVisibility`,
`MaxLosses`, `MaxChanges`, `MaxRefusals`,
`MaxCommands`, `MaxOthers`, `MaxFaults`, `MaxRestarts`, `MaxExits`, `MaxResizes`,
`MaxRedraws`, `MaxAsks` and `MaxInputs` bound counters in guards and bound nothing
else, and `MaxHeartbeats` the heartbeats a client has not read. Nothing bounds
the Updates of a stream, and no property excuses a bound.

What a run does not reach is left to a theorem: `session_tree` has trees of
depth 1, so nested splits and a branch that takes its parent's place are
covered by `AlwaysTrees` only; with `MaxExits` 1 one shell ends cleanly in a
round, and several, with closes that change what the next ones meet, are covered
by `OthersSpared`; `terminal_service` has direct subscriptions, and the queues
of session subscriptions are covered by `QueuesDisciplined`. `delivery_lossless` and
`session_stream` have one client and one connection: with two the code
violates `OrderedDelivery` (once there are clipboard events) and
`StreamSettles`, see the last section but one. In `delivery_lossless` every snapshot fits some response;
one that is too large for any (`tooLarge`) leaves a client with a cursor it cannot
continue, as `Lossless` below says.

`terminal_service`, `delivery_lossless` and their mutants use the VIEW
`WithoutJournal`: no handler reads `journal`, and the properties of these runs do
not mention it. The stream runs use the VIEW `Shifted`: requests and frames
have serials that grow without end while a stream stays up, but the program
only compares those of one connection with each other, so two states that differ by a
shift of them have the same steps and satisfy the same properties. The view numbers
them from the last request sent and the last frame accepted, and leaves out what
nobody reads any more (what a closed connection holds, the frames of one its
client has left). The stream runs allow deadlock (`CHECK_DEADLOCK FALSE`): once its connections are used up
the modelled user interface is gone. So do the runs of the topology, the tree
and Neovim: with the commands used up everything may be answered and saved, and
a host that has shut down takes no step.

Every property of a passing run comes with a mutant in `PROJECT.json`: a small
wrong version of one definition, in the module just before it, under which TLC
finds the property violated.

### Fairness

`Converges`: the client's worker loop and the server's state loop run
(weak fairness of sending, delivering, applying, and of `PumpStatus`, by which
the exit of a process is published). *Strong* fairness of `ServeFully` is the
scheduler's promise that a client which keeps asking is in the end served with
room for an event and by a shell that can start. `SessionPoll` shows what that
promise rests on: every terminal is asked in turn (`InTurn`), and in every
other response before topology and agents. It also shows its limit: being asked
is not having room, and a snapshot that exceeds what busy terminals before it
leave can be deferred again and again (see `hazards`); in the code's sizes,
megabytes against quanta of 256 KiB, `ServeFully` stands for the ordinary case.
The user, the shell and the network owe nothing.

`StreamSettles`: the state loop pumps every connection again and again (strong
fairness of `PumpBegin`, since other work of the same thread disables it),
reader and writer threads are never descheduled forever, and the client's
worker accepts, sends and updates. What one thread has to do next is one
condition: `WF` of the disjunction of the pump's stages, and of what the worker does
with a connection. Heartbeats, commands, visibility, failures
and falling back on a timeout owe nothing; the conclusion is about behaviours
in which the stream stays up.

`AllAnswered`, `StreamConverges`: the user interface's loop (`Consume`), the
coordinator, the worker and the state thread run, the last of them serving polls,
commands and the stream in turn. A break of the stream, a loss and a restart owe
nothing, and are bounded. `StreamConverges` is about behaviours in which, from
some point on, the stream stays up and the worker has nothing to do; `Converges`
without that premise is refuted by `StaleMailbox.cfg`.

`ExitsClose`, `ChangesSaved`: the state thread goes round its loop or the
checkpoint's writer goes on (`WF` of `Pump \/ Tick \/ Collect \/ WriterEnds`);
a writer that is given no time does not count as scheduling. Failures of the
writer are bounded. `ExitsClose` excuses the pane that is the last of its
session, `ChangesSaved` a session that cannot be captured (see
`blocked_checkpoint`).

`Answered`, `ShutdownEnds`: every thread of the host runs. Neovim reads and
answers while the host is not shutting down (`Answered` excuses its death and a
broken pipe) and owes nothing afterwards, except that it exits when killed. A
request's timeout is fair only during the shutdown: `Answered` shows that it is
not needed before. `PromptSpec` is the same without any timeout.

## What is proved

The proofs hold for every set of clients, terminals, requests, commands and
connections and every value of the limits and bounds that the assumptions of the
modules allow: `ClientsAssumption`, `LimitsAssumption`, `ChoicesAssumption`,
`BoundsAssumption` (the service), `DeliveryAssumption`, `StreamAssumption`,
`PollAssumption`, `ProjectionAssumption`, `NvimAssumption`,
`SessionTopologyAssumption`, `SessionTreeAssumption`, `FilesAssumption`. They say that limits are positive numbers and that
what is enumerated is finite where the code's is. Three theorems need one
assumption more (`CacheHolds` or `Lossless`), see below. `Counting` has the lemmas several of the proofs
share: how often a value occurs in a sequence, the least of a set of numbers,
induction and recursion along numbers, finite sets.

| Module | Theorems | The property of the runs each states |
|---|---|---|
| `TerminalServiceProofs` | `TypeCorrect`, `QueuesDisciplined`, `LeaseSound`, `ReservationsHeld`, `EventsStayComplete`, `VersionsAdvance` | `TypeOK`, `QueueDiscipline`, `ControllerAttached`, `ReservationHeld`, `EventsComplete`, `VersionAdvances` |
| `TerminalDeliveryProofs` | `DeliveryTypeCorrect`, `ProjectionsTruthful`, `ProjectionsAdvance`, `DeliveryOrdered` | `DeliveryTypeOK`, `TruthfulProjection`, `NoRegression`, `OrderedDelivery` |
| `SessionStreamProofs` | `StreamTypeCorrect`, `FramesAlwaysAccepted`, `WaitsAreAnswered` | `StreamTypeOK`, `FramesAccepted`, `NoLostWait` |
| `SessionPollProofs` | `PollTypeCorrect`, `TerminalsInTurn`, `LeftOutIsTold`, `ProjectionsServed` | `PollTypeOK`, `InTurn`, `MoreTold`, `ChannelsServed` |
| `NvimRpcProofs` | `TypeCorrect`, `ClosedToWriters`, `StoredClaimed`, `MessagesInOrder`, `RedrawsComplete` | `NvimTypeOK`, `NoEntryAfterClose`, `ResponsesClaimed`, `WireOrder`, `NoRedrawLost` |
| `SessionTopologyProofs` | `TypeCorrect`, `CommandsHeldOnce`, `PromiseKept`, `ShownNeverBack`, `ActivationsSeen` | `SessionTopologyTypeOK`, `HeldOnce`, `KeepsPromise`, `ShownForward`, `ActivatedSeen` |
| `SessionTreeProofs` | `TypeCorrect`, `AlwaysTrees`, `TerminalsPaired`, `FileShows`, `OthersSpared` | `SessionTreeTypeOK`, `TreesWellFormed`, `TerminalsMatch`, `FileCurrent`, `PumpSpares` |

Each module proves one inductive invariant (`Invariance`,
`DeliveryInvariance`, `StreamInvariance`, `PollInvariance`), an
action at a time, and derives the rest from it. TLC checked every one of these
invariants on the runs' instances before it was proved.

**The service.** `QueueDiscipline` alone is not inductive: that an event may be
queued depends on the version log. The invariant `Inv` of the service says, in
parts, that the version log is sound and the queues are disciplined and sound
against it (`LogOK`: the current version stands for exactly what was shown,
generations are numbered by the journal), that the runtime's fields agree
(`RuntimeOK`), that what has been answered is sound (`AnswersOK`), and that the
lease is (`ControlOK`). The heart of the argument is that an event, once sound,
stays sound: the journal only grows, except for the wiping of the current
version's entry, which makes it stand for *less* (`EventStaysSound`,
`JournalWiped`). So one lemma per operator that touches the log (`EmitOK`,
`OfferOK`, `NextGenerationOK`, `FedLogOK`, `JoinedLogOK`) gives every handler its
step.

**Service and clients.** `DeliveryInv` adds the client: its types
(`ClientTypes`), that it works on one response at a time and nothing answers a
request it does not wait for (`ExchangeOK`), that its projection is truthful and
the events it still has to apply are sound (`ClientOK`). A client that applies a
contiguous sound delta to a truthful projection is truthful at the next version
(`ShowsTruthful`); that is why the check in `RemoteTerminalProjection::apply` is
enough, whatever was lost. `NoRegression` needs one more part, that an attach
response is never older than the projection it will meet (`SnapshotNotOlder`),
because `apply_snapshot` accepts any version.

`DeliveryOrdered` needs a second invariant, `OrderInv`. Nobody's queue has a gap
and each ends with the current version (`Gapless`), and the version a client
will ask with is *met* by its queue: what was emitted since is all in it, or the
subscriber has to resynchronise or attach (`Fed`, `VersionFed`). A request, an
answer on its way and a response half worked through carry the same promise on
(`RequestOK`, `AnswerOK`, `InboxOK`), except when the terminal was shown or
hidden meanwhile, and then `batch_needs_attach_` is set and the answer is
dropped. The theorem assumes `Lossless`, and each of its parts is needed: an
answer that is lost takes the resync marker with it (`LostResync.cfg`), a
clipboard event nobody is sent leaves a gap (`SuppressedClipboard.cfg`), and an
attach response that is too large empties the queue while the client goes on
with its old cursor. `TruthfulProjection` and `NoRegression` hold without it.

**The stream.** `Inv` is `Shape` (types, and which thread is where), `Numbered`
(the frames between a writer and its client are numbered without a gap from the
last one accepted), `Once` (a command sent on the connection is in one place
until it is finished: on the wire, with the reader, with the state thread, in a
Result queued or on the wire; `Total` counts them), `Answers` (the Events frames
under way answer requests the client has made, in the order it made them, and
while the connection does not await an Update all of them answer older requests
than the one it has) and `NoLostWait` itself, which needs the others: the wait it
excludes would be one for an Update that a frame refused, overtaken or dropped
should have caused.

**The poll schedule.** `InTurn` counts polls, so it needs to know how many may
still come: `Turns` says that the polls a terminal was passed over in and the
subscriptions ahead of it in the rotation are together fewer than all. A
response asks one terminal at least, and the next begins with the first it did
not ask, so somebody ahead of a waiting terminal falls behind it
(`AheadFewer`, `NextTerminalOK`). `Rounds` is the same for the weighted channels,
and rests on the first channel of a response having its whole budget
(`TakeChannelOK`). That a response is built by recursive functions is dealt with
by showing that they exist (`Recursion`, `AskingExists`, `BuildingExists`) and
keep `TurnOK` at every step.

**The Neovim channel.** `Inv` has the types; which places of writer, reader,
callers and close go together (`WriterPhase`, `ReaderPhase`, `CallPhase`,
`ClosePhase`); that what was accepted is what Neovim has read, what is in the
pipe, with the writer and in the queue, in this order (`Wire`; a message that
was lost to the closed descriptor leaves a gap at the end and none before); that redraws
follow each other without a gap from Neovim to the main thread, unless a full
queue met the closing transport (`Redrawn`); that a request is asked once and
answered once, and is in one of the places it can be in (`Single`); and that
whatever there is of it belongs to a caller that waits or to an id that was
given up (`Claims`). `NoRedrawLost` is stated over all places a batch may be in,
since a batch between pipe and queue is not lost.

**Topology commands.** `Inv` says that every command asked for is in one place
of the client (`Held`, `Asked`), that one frame or result of it is under
way at most, and only while the stream keeps track of it (`Flight`), that what
the cache of completed commands remembers was applied, and success reported of
nothing else (`Cache`, `Honest`), how epochs and modes go together (`Epochs`,
`Phases`), and that until a server is replaced every snapshot, wherever it is, is a
beginning of its log that has the commands it vouches for (`Truthful`). `KeepsPromise` is the refinement of `CommandLog`: every step of
the three threads and of the network is mapped to a step of the log or to none.
`TypeCorrect` and `PromiseKept` assume `CacheHolds`, `MaxCommands + MaxOthers <=
CompletedLimit`: the code's cache forgets the oldest of 2048 completed commands,
a retry of a command it has forgotten would be applied again, and nothing but the
size of the cache against the few commands that can be under way keeps this from
happening. The other theorems do without it.

**The tree.** What a tree is - every node has one parent, all hang under the
root, the leaves are the panes of the tab, one each - cannot be kept by looking at
one node. The proof gives every node a rank, so that a step which looks at lower
ranks only defines a function (`RankedRecursion`); this is what gives the depths
and the order of leaves a meaning (`DepthsExist`, `OrdersExist`). Then, from the
small to the large:

1. Detaching a leaf, splitting one, exchanging two and renaming all nodes make a
   tree of a tree, with the leaves one expects (`Holds`), a split makes it one
   deeper at most and nothing else any deeper (`Within`).
2. A tab is its panes and such a tree, a Space lists each of its tabs once, and no
   identity is as high as the serial that is given next (`Laid`): this last part
   is what keeps a new pane, node or tab apart from all others.
3. `SessionOK` adds that the terminals are those of the panes that have one, as
   many as the server admits. Every operation keeps it, and one that changes the
   topology gives it a later revision (`Fine`). For the loop over the ended
   shells (`RoundIs`) and for the steps of a layout (`HalfwayOn`) this is an
   induction over the recursive functions the two are written with; a layout that
   fails half-way gives up the Space it had begun, with its tabs, panes and
   terminals (`RollbackFine`).
4. A restore keeps the shape of every tree and gives its nodes names that are
   apart (`RestoredIs`, `RestoredOK`): a capture is checked for what this needs
   before it is written.
5. `Inv` adds the checkpoints: the file, and what the writer has, are of a Session
   that could be restored (`ContentOK`); a capture that the writer still has is of
   this revision or of an earlier one (`TaskAs`); and if the saved revision is the
   present one then the file shows what the Session shows (`SavedAs`). `NamesOK` bounds the
   renames, which go beside the revision.

`FileCurrent` needs all of 5, `TerminalsMatch` and `TreesWellFormed` all of 2 to
4, since a restored Session starts from whatever was written. `PumpSpares` comes with
the induction over the rounds of the loop (`PumpFine`).

To make them provable, `NoRedrawLost` was stated over every place of a redraw,
the parts of `SessionTopology` that depend on a command being carried were given
one operator (`Carried`), and `ReadCommand` of `SessionStream` was written with a
LET. In `SessionTree` functions are extended by `With`, the loop and the layout are
recursive functions where they were folds, and a restore numbers the branches by
counting those before (`BranchesUpTo`). The behaviours are the same: each run has
the states it had.

Only model-checked: `AlwaysCapturable`, which is refuted, and all liveness
(`ExitsClose`, `ChangesSaved` and those of the other modules), since liveness
under fairness and ENABLED are out of the prover's reach. Every other invariant and
action property of the runs is stated by a theorem. The library's induction
theorems, which take an operator as a parameter, are out of reach too; what the
proofs need of induction they get from the least counterexample (`LeastExists`).

## What the runs found

`blocked_checkpoint` / `AlwaysCapturable`: a restore names the branches of a tree
`node-restored-N`, closing or moving a pane hands such a name to a leaf, and the
capture numbers leaves by the serial at the end of the name. After two
restarts two leaves, `node-2` and `node-restored-2`, get the same number and
every checkpoint is refused until the layout changes. The quotes and lines are
under `findings` in `PROJECT.json`.

Earlier runs refuted other statements of the documentation and tests. They are
not part of the regular runs; each has its configuration here, to be run by
hand with the module in the second column.

| Configuration | Module | Refuted | What happens |
|---|---|---|---|
| `LostResync.cfg` | `MCTerminalDelivery` | `ContinuesCursor` | The resync marker is cleared when the snapshot is built (`remote_terminal_service.cpp:710`); if that response is lost, the server answers the old cursor with a later event, or with nothing, against `plans/session-event-stream.md:119-122`. |
| `SuppressedClipboard.cfg` | `MCTerminalDelivery` | `OrderedDelivery` | A clipboard event nobody is sent uses up a sequence number (`remote_terminal_service.cpp:370`), so the next event of other subscribers leaves a gap and costs them a re-attach. |
| `SynchronizedSnapshot.cfg` | `MCTerminalService` | `OnlyCompletedFrames` | A snapshot taken during synchronized output shows the unfinished frame, against the comment at `server_terminal_runtime.cpp:421-423`. |
| `HiddenTerminal.cfg` | `MCSessionStream` | `OnlyNews` | While a terminal is hidden, client and server exchange Updates and Events without pause (`remote_terminal_service.cpp:790`). |
| `OvertakenUpdate.cfg` | `MCSessionStream` | `SentOnce` | An Update sent while Events are on the way is taken for their acknowledgement, and the same events are sent twice (`remote_session_coordinator.cpp:2316`). |
| `OrphanedStream.cfg` | `MCSessionStream` | `StreamSettles` | A stream that authenticates while its client opens another stays alive and takes the new one's events (`session_stream_service.cpp:401`). |
| `MissedWakeup.cfg` | `MCNvimRpc` | `CloseUnblocks` | `close()` clears `running_` and notifies without `response_mutex_` (`rpc.cpp:163`); a request between its predicate and its sleep misses it and holds the shutdown for its whole timeout, against `tests/rpc_integration_tests.cpp:144`, "close() unblocks an in-flight request without waiting for timeout". |
| `StrandedResize.cfg` | `MCNvimRpc` | `SettlesOnLatest` | A resize back to the grid's present size is dropped while another is pending or in flight (`nvim_host.cpp:346`), which then wins, against `tests/startup_resize_state_tests.cpp:27`, "... keeps the latest request". |
| `StaleMailbox.cfg` | `MCSessionTopology` | `Converges` | A command's answer and a poll publish under two locks (`remote_session_client.cpp:219`, `:566`); the older overwrites the newer in the mailbox while the revision asked for is the newer one's, and nothing is sent until the next change, against `plans/server-client-terminal-runtime.md:1285`. |

`ProjectionsTruthful` holds through the first two all the same: what they cost
is freshness or work, never a projection that shows less than its version.

Met while modelling, without a run of their own: topology commands sent one
after the other on the stream can be applied out of order when the first is
deferred and retried (`session_stream_policy.cpp`, against "Preserve ordering
within each logical channel", `plans/session-event-stream.md:115`); a command
retried after a restart may be applied a second time if the checkpoint already
held it, since `completed_` is not saved (`plans/server-client-terminal-runtime.md:494`
says "at most once"); a renamed session whose checkpoint fails is not written
again, because its revision has not changed (`server_kernel_sessions.cpp:837-927`).

## What is not modelled

The lists under `components` say it part by part. In short: VT parsing, cells,
fonts, rendering and windows are data; sockets and PTYs are seen as delivery,
loss, close and exit; agents, personal chats, plug-ins, client leases as such,
and the connection threads of the control plane are not in the models. Of the
topology: names, ratios, the order of tabs, `split_from` of an applied layout, deleting a session, two servers that compete for one published identity, and a
restored terminal that does not fit `max_terminals`. Of the session client: the
polling of a client nobody feeds, republishing what the user interface failed to
apply (never reached when it is fed), and the queue limits of 256 and 128
commands, the second of which drops commands of a fall back in silence. A failed restart or resize
wipes the screen under an unchanged version (`RestartFails`, `ResizeFails`):
the models have it, and since the code promises nothing about old content until
the next generation, the properties speak of what is shown at least.
