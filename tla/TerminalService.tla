--------------------------- MODULE TerminalService ---------------------------
(***************************************************************************)
(* RemoteTerminalService: one server-owned terminal, the bounded update    *)
(* queue it keeps for every subscriber, the controller lease and the cache *)
(* of completed mutations.                                                 *)
(*                                                                         *)
(* Every handler runs on the server's state thread, so a handler is one    *)
(* action.  The screen is abstracted to the number of writes it shows:     *)
(* write i is the i-th change the process made since the screen was last   *)
(* cleared, a delta is the set of writes it carries, a snapshot the set of *)
(* all of them.  Byte and event limits of a queue are folded into one      *)
(* limit on its length, and a snapshot's size against the budget of the    *)
(* response into one of three outcomes.  TerminalDelivery adds the clients *)
(* that show the terminal.                                                 *)
(***************************************************************************)
EXTENDS Integers, Sequences, FiniteSets

CONSTANTS
    Clients,            \* identities of attached user interfaces
    NoClient,           \* the empty client id
    Preferred,          \* options_.preferred_controller_client_id
    Subscriptions,      \* subscription ids; 0 is the direct terminal.* channel
    QueueLimit,         \* kRemoteTerminalQueueLimit and the byte limit
    EventBudgets,       \* numbers of queued events a response has room for
    MutationLimit,      \* kCompletedMutationLimit
    RequestIds,         \* request ids clients attach to mutations; 0 is none
    SnapshotOutcomes,   \* how a snapshot may meet the response budget
    Readers,            \* subscribers whose responses are kept until read
    Copies,             \* the values "did the program set the clipboard" takes
    MaxWrites,          \* bound: writes per generation
    MaxGeneration,      \* bound: process generations
    MaxSequence         \* bound: sequence after which no new change starts

ASSUME ClientsAssumption ==
    /\ NoClient \notin Clients
    /\ Preferred \in Clients \cup {NoClient}
ASSUME LimitsAssumption ==
    /\ Subscriptions \subseteq Nat
    /\ QueueLimit \in Nat \ {0}
    /\ EventBudgets \subseteq Nat
    /\ MutationLimit \in Nat \ {0}
    /\ RequestIds \subseteq Nat
    /\ Readers \subseteq Clients \X Subscriptions
ASSUME ChoicesAssumption ==
    /\ SnapshotOutcomes \subseteq {"fits", "deferred", "tooLarge"}
    /\ Copies \subseteq BOOLEAN
ASSUME BoundsAssumption ==
    MaxWrites \in Nat /\ MaxGeneration \in Nat /\ MaxSequence \in Nat

(* A subscriber is known by its client and its subscription id. *)
Keys == Clients \X Subscriptions
Owner(k) == k[1]
IsDirect(k) == k[2] = 0

Controllers == Clients \cup {NoClient}
Operations == {"suspend", "input", "resize", "take_control",
               "disconnect", "restart"}
Mutations == Clients \X Operations \X (RequestIds \ {0})

VARIABLES
    generation, sequence,  \* the version of the terminal
    started,               \* started_
    process,               \* the shell: "absent", "running" or "exited"
    published,             \* published_process_running_ and its exit code
    screen,                \* writes on the server's screen
    shown,                 \* of those, the writes already taken by a delta
    held,                  \* DEC synchronized output is active
    controller, preferred, \* controller_client_id_ and its reservation
    subscribers,           \* subscribers_
    completed,             \* completed_mutation_order_
    answer,                \* the response built for a subscriber, not yet sent
    journal                \* history: what each version stood for

logVars == <<generation, sequence, journal, subscribers>>
runtimeVars == <<started, process, screen, shown, held>>
controlVars == <<controller, preferred>>
serverVars == <<logVars, runtimeVars, published, controlVars, completed, answer>>

-----------------------------------------------------------------------------
(* Events and responses *)

Processes == {"absent", "running", "exited"}
EventKinds == {"snapshot", "delta", "redraw", "controller", "clipboard"}

Event == [kind : EventKinds, generation : Nat, sequence : Nat,
          cells : SUBSET Nat, controller : Controllers, running : BOOLEAN]

(* An event of the current version, as every make_..._event() stamps it. *)
Stamp(kind, g, n, cells, c, p) ==
    [kind |-> kind, generation |-> g, sequence |-> n, cells |-> cells,
     controller |-> c, running |-> p = "running"]

Snapshot ==
    Stamp("snapshot", generation, sequence, 1..screen, controller, process)

AnswerKinds == {"none", "attach", "resync", "events", "suspended",
                "deferred", "error"}
Answer == [kind : AnswerKinds, events : Seq(Event)]
NewAnswer(kind, events) == [kind |-> kind, events |-> events]
NoAnswer == NewAnswer("none", <<>>)

(* A response is kept only while the request it answers is still live. *)
Respond(k, live, a) ==
    answer' = IF live THEN [answer EXCEPT ![k] = a] ELSE answer

(* A cursor is the version a client holds; generation 0 is "no cursor". *)
NoCursor == [generation |-> 0, sequence |-> 0]
Cursors == [generation : 1..MaxGeneration, sequence : 0..MaxSequence]

-----------------------------------------------------------------------------
(* Subscribers *)

Subscriber == [present : BOOLEAN, queue : Seq(Event),
               needsResync : BOOLEAN, suspended : BOOLEAN]

EmptyQueue(present, needsResync, suspended) ==
    [present |-> present, queue |-> <<>>,
     needsResync |-> needsResync, suspended |-> suspended]

Absent == EmptyQueue(FALSE, FALSE, FALSE)
Fresh == EmptyQueue(TRUE, FALSE, FALSE)
Deferred == EmptyQueue(TRUE, TRUE, FALSE)
Suspended == EmptyQueue(TRUE, TRUE, TRUE)

(* Mutant: forgets to ask for the resync. *)
RequireResyncForgets(s) == IF s.present THEN [s EXCEPT !.queue = <<>>] ELSE s

RequireResync(s) ==
    IF s.present THEN [s EXCEPT !.queue = <<>>, !.needsResync = TRUE] ELSE s

Attached(c) == \E k \in Keys : Owner(k) = c /\ subscribers[k].present

Listens(subs, c) ==
    \E k \in Keys :
        Owner(k) = c /\ subs[k].present /\ ~subs[k].suspended

(* Mutants: the limit is passed by one; the event is dropped in silence. *)
OfferOneMore(s, e) ==
    IF ~s.present \/ s.suspended \/ s.needsResync THEN s
    ELSE IF Len(s.queue) > QueueLimit THEN RequireResync(s)
    ELSE [s EXCEPT !.queue = Append(@, e)]

OfferDrops(s, e) ==
    IF ~s.present \/ s.suspended \/ s.needsResync THEN s
    ELSE IF Len(s.queue) >= QueueLimit THEN s
    ELSE [s EXCEPT !.queue = Append(@, e)]

(* One subscriber's share of broadcast(): a full queue becomes a resync. *)
Offer(s, e) ==
    IF ~s.present \/ s.suspended \/ s.needsResync THEN s
    ELSE IF Len(s.queue) >= QueueLimit THEN RequireResync(s)
    ELSE [s EXCEPT !.queue = Append(@, e)]

(* A clipboard event reaches nobody unless its controller is listening. *)
Broadcast(subs, e) ==
    IF e.kind = "clipboard" /\ ~Listens(subs, e.controller) THEN subs
    ELSE [k \in Keys |-> Offer(subs[k], e)]

-----------------------------------------------------------------------------
(* The version log: the counters, what every version stood for, and the    *)
(* queues.  A handler makes the log it leaves behind and stores it at once. *)

Entries == [writes : Nat, controller : Controllers]

Entry(writes, c) == [writes |-> writes, controller |-> c]

MakeLog(g, n, j, subs) ==
    [generation |-> g, sequence |-> n, journal |-> j, subscribers |-> subs]

Record(j, g, entry) == [j EXCEPT ![g] = Append(@, entry)]

Log == MakeLog(generation, sequence, journal, subscribers)

Store(log) ==
    /\ generation' = log.generation
    /\ sequence' = log.sequence
    /\ journal' = log.journal
    /\ subscribers' = log.subscribers

(* Mutant: the event is stamped with the sequence before the last. *)
EmitStale(log, kind, cells, writes, c, p) ==
    LET e == Stamp(kind, log.generation, log.sequence - 1, cells, c, p)
    IN  MakeLog(log.generation, log.sequence + 1,
                Record(log.journal, log.generation, Entry(writes, c)),
                Broadcast(log.subscribers, e))

(* make_..._event() takes the next sequence number and broadcast() offers  *)
(* the event; from then on the version stands for that many writes.        *)
Emit(log, kind, cells, writes, c, p) ==
    LET e == Stamp(kind, log.generation, log.sequence + 1, cells, c, p)
    IN  MakeLog(log.generation, log.sequence + 1,
                Record(log.journal, log.generation, Entry(writes, c)),
                Broadcast(log.subscribers, e))

(* Mutant: the sequence starts again in the same generation. *)
NextGenerationStays(log, c) ==
    MakeLog(log.generation, 0,
            [log.journal EXCEPT ![log.generation] = <<Entry(0, c)>>],
            [k \in Keys |-> RequireResync(log.subscribers[k])])

(* A new process generation: a clean screen, everyone must resynchronise. *)
NextGeneration(log, c) ==
    MakeLog(log.generation + 1, 0,
            Append(log.journal, <<Entry(0, c)>>),
            [k \in Keys |-> RequireResync(log.subscribers[k])])

(* A restart that fails has already wiped the screen of this version. *)
Wiped(log, c) ==
    MakeLog(log.generation, log.sequence,
            [log.journal EXCEPT ![log.generation][log.sequence + 1] =
                Entry(0, c)],
            log.subscribers)

SetSubscriber(log, k, s) ==
    MakeLog(log.generation, log.sequence, log.journal,
            [log.subscribers EXCEPT ![k] = s])

-----------------------------------------------------------------------------
(* Completed mutations *)

Mutation(c, op, id) == <<c, op, id>>

(* cached_mutation(): a remembered request is answered and does nothing. *)
Remembered(c, op, id) ==
    id # 0 /\ \E i \in 1..Len(completed) : completed[i] = Mutation(c, op, id)

(* remember_mutation(): first in, first out once the limit is passed. *)
Remember(c, op, id) ==
    completed' =
        IF id = 0 THEN completed
        ELSE LET all == Append(completed, Mutation(c, op, id))
             IN  IF Len(all) > MutationLimit THEN Tail(all) ELSE all

-----------------------------------------------------------------------------
(* The process.  ensure_runtime_started() does nothing for a running shell, *)
(* starts the first one in generation 1 and replaces a dead one.            *)

MustRestart == process # "running" /\ started

EnsuredLog == IF MustRestart THEN NextGeneration(Log, controller) ELSE Log

ClearRuntime == screen' = 0 /\ shown' = 0 /\ held' = FALSE

EnsureRuntimeStarted ==
    /\ MustRestart => generation < MaxGeneration
    /\ process' = "running"
    /\ started' = TRUE
    /\ IF MustRestart THEN ClearRuntime ELSE UNCHANGED <<screen, shown, held>>

(* ServerTerminalRuntime::restart() wipes the screen, then fails to spawn. *)
RestartFails ==
    /\ process' = "absent"
    /\ ClearRuntime
    /\ Store(Wiped(Log, controller))
    /\ UNCHANGED started

(* retire_process_async() and a fresh process: restart_runtime(). *)
RestartRuntime ==
    /\ generation < MaxGeneration
    /\ process' = "running"
    /\ published' = "running"
    /\ started' = TRUE
    /\ ClearRuntime
    /\ Store(NextGeneration(Log, controller))

-----------------------------------------------------------------------------
(* attach(), resume() and the attach branch of poll_subscription()          *)

MayClaim(c) == controller = NoClient /\ preferred \in {NoClient, c}

(* The joining subscriber starts clean; if it claims the empty controller   *)
(* lease everyone else is told, and its own copy of the event is cleared.   *)
JoinedLog(k) ==
    LET joined == SetSubscriber(EnsuredLog, k, Fresh)
        claimed == Emit(joined, "controller", {},
                        IF MustRestart THEN 0 ELSE shown, Owner(k), "running")
    IN  IF MayClaim(Owner(k)) THEN SetSubscriber(claimed, k, Fresh) ELSE joined

Join(k, announces, outcome, live) ==
    /\ EnsureRuntimeStarted
    /\ published' = IF announces THEN "running" ELSE published
    /\ controller' = IF MayClaim(Owner(k)) THEN Owner(k) ELSE controller
    /\ preferred' = IF MayClaim(Owner(k)) THEN NoClient ELSE preferred
    /\ Store(IF outcome = "deferred"
             THEN SetSubscriber(JoinedLog(k), k, Deferred) ELSE JoinedLog(k))
    /\ Respond(k, live,
           CASE outcome = "fits" -> NewAnswer("attach", <<Snapshot'>>)
             [] outcome = "deferred" -> NewAnswer("deferred", <<>>)
             [] outcome = "tooLarge" -> NewAnswer("error", <<>>))
    /\ UNCHANGED completed

(* ensure_runtime_started() fails: the request is refused, but a restart    *)
(* that failed half way has changed the terminal.                           *)
JoinFails(k, live) ==
    /\ process # "running"
    /\ MustRestart => generation < MaxGeneration
    /\ IF MustRestart THEN RestartFails ELSE UNCHANGED <<logVars, runtimeVars>>
    /\ Respond(k, live, NewAnswer("error", <<>>))
    /\ UNCHANGED <<published, controlVars, completed>>

(* A session poll joins when it finds no subscriber, a suspended one, or    *)
(* when the client sent no cursor.                                          *)
RequiresAttach(k, cursor) ==
    \/ ~subscribers[k].present
    \/ subscribers[k].suspended
    \/ cursor = NoCursor

Attach(k, outcome, live) ==
    /\ IsDirect(k) /\ outcome # "deferred"
    /\ Join(k, TRUE, outcome, live)

Resume(k, outcome, live) ==
    /\ IsDirect(k) /\ outcome # "deferred"
    /\ Join(k, FALSE, outcome, live)

AttachFails(k, live) == IsDirect(k) /\ JoinFails(k, live)

PollAttachFails(k, cursor, live) ==
    ~IsDirect(k) /\ RequiresAttach(k, cursor) /\ JoinFails(k, live)

PollAttach(k, cursor, outcome, live) ==
    /\ ~IsDirect(k) /\ RequiresAttach(k, cursor)
    /\ Join(k, TRUE, outcome, live)

-----------------------------------------------------------------------------
(* poll_delivery() and the other branches of poll_subscription()            *)

(* A hidden terminal keeps its subscriber, suspended and empty. *)
PollHidden(k, live) ==
    /\ ~IsDirect(k)
    /\ Store(SetSubscriber(Log, k, Suspended))
    /\ Respond(k, live, NewAnswer("suspended", <<>>))
    /\ UNCHANGED <<runtimeVars, published, controlVars, completed>>

CanDeliver(k, cursor) ==
    /\ subscribers[k].present /\ ~subscribers[k].suspended
    /\ cursor # NoCursor

Outdated(k, cursor) ==
    cursor.generation # generation \/ subscribers[k].needsResync

AheadOfServer(cursor) == cursor.sequence > sequence

(* A cursor the queue cannot continue is answered by a snapshot, unless it  *)
(* does not fit; the server then believes the client is up to date.         *)
PollResync(k, cursor, outcome, live) ==
    /\ CanDeliver(k, cursor)
    /\ \/ Outdated(k, cursor)
       \/ AheadOfServer(cursor) /\ ~IsDirect(k)
    /\ IsDirect(k) => outcome # "deferred"
    /\ Store(IF outcome = "fits" THEN SetSubscriber(Log, k, Fresh) ELSE Log)
    /\ Respond(k, live,
           CASE outcome = "fits" -> NewAnswer("resync", <<Snapshot>>)
             [] outcome = "deferred" -> NewAnswer("deferred", <<>>)
             [] outcome = "tooLarge" -> NewAnswer("error", <<>>))
    /\ UNCHANGED <<runtimeVars, published, controlVars, completed>>

(* The cursor acknowledges the queue up to its sequence: m events go.  What  *)
(* the budget allows of the rest is sent, and stays queued until the next    *)
(* cursor.                                                                   *)
PollEvents(k, cursor, budget, live) ==
    /\ CanDeliver(k, cursor)
    /\ ~Outdated(k, cursor) /\ ~AheadOfServer(cursor)
    /\ LET queue == subscribers[k].queue
       IN  \E m \in 0..Len(queue) :
             LET left == SubSeq(queue, m + 1, Len(queue))
                 sent == IF budget < Len(left) THEN budget ELSE Len(left)
             IN  /\ \A i \in 1..m : queue[i].sequence <= cursor.sequence
                 /\ left # <<>> => left[1].sequence > cursor.sequence
                 /\ Store(SetSubscriber(Log, k,
                              [subscribers[k] EXCEPT !.queue = left]))
                 /\ Respond(k, live, NewAnswer("events", SubSeq(left, 1, sent)))
    /\ UNCHANGED <<runtimeVars, published, controlVars, completed>>

(* terminal.poll without a subscriber, suspended, or ahead of the server.   *)
PollRefused(k, cursor, live) ==
    /\ IsDirect(k) /\ cursor # NoCursor
    /\ \/ ~subscribers[k].present
       \/ subscribers[k].suspended
       \/ AheadOfServer(cursor) /\ ~Outdated(k, cursor)
    /\ Respond(k, live, NewAnswer("error", <<>>))
    /\ UNCHANGED <<logVars, runtimeVars, published, controlVars, completed>>

(* The client has read its response. *)
TakeAnswer(k) ==
    /\ answer[k] # NoAnswer
    /\ answer' = [answer EXCEPT ![k] = NoAnswer]
    /\ UNCHANGED <<logVars, runtimeVars, published, controlVars, completed>>

-----------------------------------------------------------------------------
(* Output: drain the process, then publish_runtime_updates()                *)

MayChange == sequence < MaxSequence

(* Mutant: writes made under synchronized output count as taken. *)
FeedForgetsHeld(w, hold) ==
    /\ process # "absent"
    /\ MayChange /\ screen + w <= MaxWrites
    /\ screen' = screen + w
    /\ held' = hold
    /\ shown' = screen + w
    /\ UNCHANGED <<started, process>>

(* A chunk of output writes w times; while it leaves synchronized output    *)
(* active the writes stay on the server.                                    *)
Feed(w, hold) ==
    /\ process # "absent"
    /\ MayChange /\ screen + w <= MaxWrites
    /\ screen' = screen + w
    /\ held' = hold
    /\ shown' = IF hold THEN shown ELSE screen + w
    /\ UNCHANGED <<started, process>>

(* A delta of the writes not yet taken, then the clipboard. *)
FedLog(w, hold, copied) ==
    LET writes == IF hold THEN shown ELSE screen + w
        drawn == IF hold THEN Log
                 ELSE Emit(Log, "delta", (shown + 1)..(screen + w), writes,
                           controller, process)
    IN  IF copied THEN Emit(drawn, "clipboard", {}, writes, controller, process)
        ELSE drawn

(* pump() with output: a status that changed is told after the updates. *)
PumpOutput(w, hold, copied) ==
    /\ started /\ Feed(w, hold)
    /\ published' = process
    /\ LET fed == FedLog(w, hold, copied)
       IN  Store(IF process = published THEN fed
                 ELSE Emit(fed, "controller", {},
                           IF hold THEN shown ELSE screen + w,
                           controller, process))
    /\ UNCHANGED <<controlVars, completed, answer>>

(* pump() without output. *)
PumpStatus ==
    /\ started /\ process # published
    /\ published' = process
    /\ Store(Emit(Log, "controller", {}, shown, controller, process))
    /\ UNCHANGED <<runtimeVars, controlVars, completed, answer>>

ProcessExits ==
    /\ process = "running" /\ generation < MaxGeneration
    /\ process' = "exited"
    /\ UNCHANGED <<logVars, started, screen, shown, held, published,
                   controlVars, completed, answer>>

-----------------------------------------------------------------------------
(* Mutations.  A refused one changes nothing and is not remembered.         *)

Accepts(c, op, id) == Attached(c) /\ ~Remembered(c, op, id)

Suspend(c, id) ==
    /\ <<c, 0>> \in Keys /\ subscribers[<<c, 0>>].present
    /\ ~Remembered(c, "suspend", id)
    /\ Store(SetSubscriber(Log, <<c, 0>>, Suspended))
    /\ Remember(c, "suspend", id)
    /\ UNCHANGED <<runtimeVars, published, controlVars, answer>>

(* Accepted input pumps the terminal before it answers. *)
Input(c, id) ==
    /\ Accepts(c, "input", id) /\ controller = c /\ process # "absent"
    /\ UNCHANGED <<logVars, runtimeVars>>
    /\ Remember(c, "input", id)
    /\ UNCHANGED <<published, controlVars, answer>>

InputWithOutput(c, id, w, hold, copied) ==
    /\ Accepts(c, "input", id) /\ controller = c
    /\ Feed(w, hold) /\ Store(FedLog(w, hold, copied))
    /\ Remember(c, "input", id)
    /\ UNCHANGED <<published, controlVars, answer>>

(* A resize redraws everything, synchronized output or not. *)
Resize(c, id) ==
    /\ Accepts(c, "resize", id) /\ controller = c /\ process # "absent"
    /\ MayChange /\ screen < MaxWrites
    /\ screen' = screen + 1 /\ shown' = screen + 1
    /\ Store(Emit(Log, "redraw", 1..(screen + 1), screen + 1,
                  controller, process))
    /\ Remember(c, "resize", id)
    /\ UNCHANGED <<started, process, held, published, controlVars, answer>>

(* Out of memory: the terminal is wiped, and the process retired if it      *)
(* cannot be given its old dimensions back.                                 *)
ResizeFails(c, id) ==
    /\ Accepts(c, "resize", id) /\ controller = c /\ process # "absent"
    /\ generation < MaxGeneration
    /\ process' \in {process, "absent"}
    /\ ClearRuntime
    /\ Store(Wiped(Log, controller))
    /\ UNCHANGED <<started, published, controlVars, completed, answer>>

(* Mutant: the reservation is left behind. *)
TakeControlReserved(c, id) ==
    /\ Accepts(c, "take_control", id)
    /\ IF controller = c THEN UNCHANGED <<logVars, controlVars>>
       ELSE /\ MayChange
            /\ controller' = c /\ UNCHANGED preferred
            /\ Store(Emit(Log, "controller", {}, shown, c, process))
    /\ Remember(c, "take_control", id)
    /\ UNCHANGED <<runtimeVars, published, answer>>

TakeControl(c, id) ==
    /\ Accepts(c, "take_control", id)
    /\ IF controller = c THEN UNCHANGED <<logVars, controlVars>>
       ELSE /\ MayChange
            /\ controller' = c /\ preferred' = NoClient
            /\ Store(Emit(Log, "controller", {}, shown, c, process))
    /\ Remember(c, "take_control", id)
    /\ UNCHANGED <<runtimeVars, published, answer>>

(* Mutant: the subscribers go, the lease stays. *)
DisconnectKeepsLease(c) ==
    /\ Store(MakeLog(generation, sequence, journal,
                     [k \in Keys |-> IF Owner(k) = c THEN Absent
                                     ELSE subscribers[k]]))
    /\ UNCHANGED controlVars

(* disconnect_client(): every subscriber of the client is erased before the *)
(* others learn that nobody controls the terminal.                          *)
DisconnectClient(c) ==
    LET left == MakeLog(generation, sequence, journal,
                        [k \in Keys |-> IF Owner(k) = c THEN Absent
                                        ELSE subscribers[k]])
    IN  IF controller = c
        THEN /\ MayChange
             /\ controller' = NoClient /\ UNCHANGED preferred
             /\ Store(Emit(left, "controller", {}, shown, NoClient, process))
        ELSE Store(left) /\ UNCHANGED controlVars

Disconnect(c, id) ==
    /\ ~Remembered(c, "disconnect", id)
    /\ DisconnectClient(c)
    /\ Remember(c, "disconnect", id)
    /\ UNCHANGED <<runtimeVars, published, answer>>

(* The kernel detaches a client that left or whose lease ran out. *)
ExpireClient(c) ==
    /\ DisconnectClient(c)
    /\ UNCHANGED <<runtimeVars, published, completed, answer>>

Restart(c, id) ==
    /\ Accepts(c, "restart", id) /\ controller = c
    /\ \/ RestartRuntime /\ Remember(c, "restart", id)
       \/ /\ generation < MaxGeneration /\ RestartFails
          /\ UNCHANGED <<published, completed>>
    /\ UNCHANGED <<controlVars, answer>>

(* The kernel restarts a terminal for the topology and for agents. *)
RestartTerminal ==
    /\ \/ RestartRuntime
       \/ generation < MaxGeneration /\ RestartFails /\ UNCHANGED published
    /\ UNCHANGED <<controlVars, completed, answer>>

-----------------------------------------------------------------------------
(* A restored session starts its terminals at once, a new one on demand. *)
Init ==
    /\ generation = 1 /\ sequence = 0
    /\ started \in BOOLEAN
    /\ process = IF started THEN "running" ELSE "absent"
    /\ published = "absent"
    /\ screen = 0 /\ shown = 0 /\ held = FALSE
    /\ controller = NoClient /\ preferred = Preferred
    /\ subscribers = [k \in Keys |-> Absent]
    /\ completed = <<>>
    /\ answer = [k \in Keys |-> NoAnswer]
    /\ journal = << <<Entry(0, NoClient)>> >>

Requests(k) ==
    \/ TakeAnswer(k)
    \/ AttachFails(k, k \in Readers)
    \/ PollHidden(k, k \in Readers)
    \/ \E outcome \in SnapshotOutcomes :
          Attach(k, outcome, k \in Readers) \/ Resume(k, outcome, k \in Readers)
    \/ \E cursor \in Cursors \cup {NoCursor} :
          \/ PollAttachFails(k, cursor, k \in Readers)
          \/ PollRefused(k, cursor, k \in Readers)
          \/ \E outcome \in SnapshotOutcomes :
                \/ PollAttach(k, cursor, outcome, k \in Readers)
                \/ PollResync(k, cursor, outcome, k \in Readers)
          \/ \E n \in EventBudgets : PollEvents(k, cursor, n, k \in Readers)

Commands(c) ==
    \/ ExpireClient(c)
    \/ \E id \in RequestIds :
          \/ Suspend(c, id) \/ Input(c, id) \/ Resize(c, id)
          \/ ResizeFails(c, id) \/ TakeControl(c, id)
          \/ Disconnect(c, id) \/ Restart(c, id)
          \/ \E w \in 0..1, hold \in BOOLEAN, copied \in Copies :
                InputWithOutput(c, id, w, hold, copied)

Runtime ==
    \/ PumpStatus \/ ProcessExits \/ RestartTerminal
    \/ \E w \in 0..1, hold \in BOOLEAN, copied \in Copies :
          PumpOutput(w, hold, copied)

Next ==
    \/ \E k \in Keys : Requests(k)
    \/ \E c \in Clients : Commands(c)
    \/ Runtime

Spec == Init /\ [][Next]_serverVars

-----------------------------------------------------------------------------
(* Properties *)

(* Every variable keeps the type its C++ field has. *)
TypeOK ==
    /\ generation \in Nat /\ sequence \in Nat
    /\ started \in BOOLEAN /\ held \in BOOLEAN
    /\ process \in Processes /\ published \in Processes
    /\ screen \in Nat /\ shown \in Nat
    /\ controller \in Controllers /\ preferred \in Controllers
    /\ subscribers \in [Keys -> Subscriber]
    /\ completed \in Seq(Mutations)
    /\ answer \in [Keys -> Answer]
    /\ journal \in Seq(Seq(Entries))

Increasing(q) ==
    \A i, j \in 1..Len(q) : i < j => q[i].sequence < q[j].sequence

(* Whatever joins, suspends, overflows, restarts and expires, a queue that  *)
(* will be continued by a cursor is within its bound and holds events of    *)
(* the current generation in order; one that cannot be continued is empty   *)
(* and marked (broadcast, require_resync, ensure_runtime_started).          *)
QueueOK(s, g, n) ==
    /\ Len(s.queue) <= QueueLimit
    /\ ~s.present \/ s.suspended \/ s.needsResync => s.queue = <<>>
    /\ s.suspended => s.needsResync
    /\ Increasing(s.queue)
    /\ \A i \in 1..Len(s.queue) :
          s.queue[i].generation = g /\ s.queue[i].sequence <= n

QueueDiscipline ==
    \A k \in Keys : QueueOK(subscribers[k], generation, sequence)

(* The lease never outlives its holder's last subscriber, so a terminal     *)
(* whose controller left can always be claimed (disconnect_client).         *)
ControllerAttached == controller # NoClient => Attached(controller)

(* A lease reserved for a restored session's controller is not given to     *)
(* anyone else by attaching; it ends when somebody holds the lease.         *)
ReservationHeld == preferred # NoClient => controller = NoClient

(* An event tells the truth about its version when it names the version's  *)
(* controller and, added to what the version before stands for (or alone,  *)
(* for a full frame), shows every write its version stands for.            *)
EventSound(e, j) ==
    /\ e \in Event
    /\ e.generation \in 1..Len(j)
    /\ e.sequence + 1 \in 1..Len(j[e.generation])
    /\ e.controller = j[e.generation][e.sequence + 1].controller
    /\ IF e.kind \in {"snapshot", "redraw"}
       THEN \A i \in 1..j[e.generation][e.sequence + 1].writes : i \in e.cells
       ELSE /\ e.sequence > 0
            /\ \A i \in 1..j[e.generation][e.sequence + 1].writes :
                  i \in e.cells \/ i <= j[e.generation][e.sequence].writes

EventsSound(q, j) == \A i \in 1..Len(q) : EventSound(q[i], j)

(* Queued or on its way, an event lets a client that holds the version      *)
(* before reach its own version in full: no write falls between two deltas, *)
(* whatever was withheld, redrawn, wiped or deferred in between             *)
(* (make_delta_event, take_delta, snapshot_event).                          *)
EventsComplete ==
    \A k \in Keys : /\ EventsSound(subscribers[k].queue, journal)
                    /\ EventsSound(answer[k].events, journal)

(* A version never goes back: a restart replaces the sequence only together *)
(* with a higher generation (ensure_runtime_started, restart_runtime).      *)
VersionAdvances ==
    [][\/ generation' > generation
       \/ generation' = generation /\ sequence' >= sequence]_serverVars

(* "Clients see the completed frame, never its intermediate mutations"      *)
(* (ServerTerminalRuntime::pump): while synchronized output is active, no   *)
(* response carries writes of the frame that is still being drawn.          *)
OnlyCompletedFrames ==
    held => \A k \in Keys : \A i \in 1..Len(answer[k].events) :
              LET e == answer[k].events[i]
              IN  e.generation = generation => e.cells \subseteq 1..shown

=============================================================================
