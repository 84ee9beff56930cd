---------------------------- MODULE SessionStream ----------------------------
(***************************************************************************)
(* SessionStreamService and the stream side of RemoteSessionCoordinator:   *)
(* the persistent connection of one user interface.                        *)
(*                                                                         *)
(* On the server three threads share a connection: the state thread pumps  *)
(* it, a reader takes the client's frames, a writer sends the queued ones. *)
(* A critical section of a thread is one action.  On the client the worker *)
(* accepts frames and sends commands and Updates, the user shows and hides *)
(* terminals.  A terminal is the number of its last change and what        *)
(* poll_subscription() remembers of this subscriber (TerminalService has   *)
(* the whole of it); a frame's size is how many frames fit a queue.        *)
(* Topology and agent revisions and what becomes of a command's result are *)
(* left out, and so is session.poll, which a coordinator that has lost its *)
(* stream falls back to: TerminalDelivery has it.                          *)
(***************************************************************************)
EXTENDS Integers, Sequences, FiniteSets

CONSTANTS
    Terminals,          \* terminals of the session
    Commands,           \* commands the user interface sends
    Connections,        \* 1..n: the connections it opens, one after another
    EventRoom,          \* frames that fit the queue's share for events
    ControlRoom,        \* further frames that fit the control reserve
    CommandRoom,        \* kSessionStreamMaxPendingCommands
    CommandsPerPump,    \* kCommandsPerPump
    UpdateQueue,        \* subscriber queue limit of a terminal
    MaxChanges,         \* bound: changes of a terminal
    MaxVisibility,      \* bound: visibility generations
    MaxHeartbeats,      \* bound: heartbeats the client has not read
    MaxRefusals         \* bound: refused session polls and disconnections

ASSUME StreamAssumption ==
    /\ Connections \subseteq Nat \ {0}
    /\ 0 \notin Commands
    /\ EventRoom \in Nat \ {0} /\ ControlRoom \in Nat \ {0}
    /\ CommandRoom \in Nat \ {0} /\ CommandsPerPump \in Nat \ {0}
    /\ UpdateQueue \in Nat \ {0}
    /\ MaxChanges \in Nat /\ MaxVisibility \in Nat
    /\ MaxHeartbeats \in Nat /\ MaxRefusals \in Nat

VARIABLES
    head,           \* number of the last change of a terminal
    subscriber,     \* the server's subscriber of this client at a terminal
    conn,           \* ConnectionCore of every connection
    pump,           \* what the state thread holds of the one it pumps
    refusals,       \* session polls refused and clients disconnected
    toServer,       \* frames on the wire, by connection
    toClient,
    mode, current,  \* transport_mode_ and the connection in use
    policy,         \* SessionStreamPolicy
    unsent,         \* commands not yet handed to a stream
    view            \* the client's terminals: visibility and projection

serverVars == <<head, subscriber, conn, pump, refusals>>
clientVars == <<mode, current, policy, unsent, view>>
vars == <<serverVars, clientVars, toServer, toClient>>

-----------------------------------------------------------------------------
(* Frames *)

NoCursor == -1

Subscription == [visible : BOOLEAN, visGeneration : Nat,
                 cursor : Nat \cup {NoCursor}]

(* A session poll; serial 0 is "none". *)
Request == [serial : Nat, terminals : [Terminals -> Subscription]]

BatchKinds == {"none", "attach", "resync", "events", "suspended"}
Batch == [kind : BatchKinds, visGeneration : Nat, first : Nat, last : Nat]

NewBatch(kind, g, first, last) ==
    [kind |-> kind, visGeneration |-> g, first |-> first, last |-> last]

Nothing == NewBatch("none", 0, 0, 0)
NoBatches == [t \in Terminals |-> Nothing]

ClientFrame == [kind : {"connect", "update", "command"},
                request : Request, command : Commands \cup {0}]

ServerFrame == [kind : {"none", "events", "result", "error", "heartbeat"},
                serial : Nat, request : Nat,
                batches : [Terminals -> Batch], command : Commands \cup {0}]

Unseen == [visible |-> TRUE, visGeneration |-> 0, cursor |-> NoCursor]
NoRequest == [serial |-> 0, terminals |-> [t \in Terminals |-> Unseen]]

ConnectFrame == [kind |-> "connect", request |-> NoRequest, command |-> 0]
UpdateFrame(r) == [kind |-> "update", request |-> r, command |-> 0]
CommandFrame(c) == [kind |-> "command", request |-> NoRequest, command |-> c]

NewFrame(kind, request, batches, c) ==
    [kind |-> kind, serial |-> 0, request |-> request,
     batches |-> batches, command |-> c]

NoFrame == NewFrame("none", 0, NoBatches, 0)
Heartbeat == NewFrame("heartbeat", 0, NoBatches, 0)
ErrorFrame == NewFrame("error", 0, NoBatches, 0)
ResultFrame(c) == NewFrame("result", 0, NoBatches, c)
EventsFrame(serial, batches) == NewFrame("events", serial, batches, 0)

-----------------------------------------------------------------------------
(* Connections *)

(* A ticket is issued, taken by the reader, and bound to its connection. *)
Phases == {"none", "ticket", "taken", "bound"}

Core == [phase : Phases, request : Request, awaiting : BOOLEAN,
         closed : BOOLEAN, closeAfterFlush : BOOLEAN,
         commands : Seq(Commands), control : Seq(ServerFrame),
         events : Seq(ServerFrame), nextSerial : Nat, clientClosed : BOOLEAN]

FreshCore ==
    [phase |-> "none", request |-> NoRequest, awaiting |-> FALSE,
     closed |-> FALSE, closeAfterFlush |-> FALSE,
     commands |-> <<>>, control |-> <<>>, events |-> <<>>,
     nextSerial |-> 1, clientClosed |-> FALSE]

(* What a closed connection still holds is not used again. *)
Close(core) == [FreshCore EXCEPT !.closed = TRUE]

Live(core) == core.phase = "bound" /\ ~core.closed

Outbound(core) == Len(core.control) + Len(core.events)

Room(frame) ==
    IF frame.kind = "events" THEN EventRoom ELSE EventRoom + ControlRoom

(* Mutant: a frame is queued beyond the limit. *)
EnqueueOverLimit(core, frame) ==
    IF core.closed THEN core
    ELSE IF Outbound(core) > Room(frame) THEN Close(core)
    ELSE IF frame.kind = "events"
         THEN [core EXCEPT !.events = Append(@, frame)]
         ELSE [core EXCEPT !.control = Append(@, frame)]

(* enqueue(): a frame that does not fit closes the connection. *)
Enqueue(core, frame) ==
    IF core.closed THEN core
    ELSE IF \/ Outbound(core) >= Room(frame)
            \/ frame.kind # "events" /\ Len(core.control) >= CommandRoom
         THEN Close(core)
    ELSE IF frame.kind = "events"
         THEN [core EXCEPT !.events = Append(@, frame)]
         ELSE [core EXCEPT !.control = Append(@, frame)]

-----------------------------------------------------------------------------
(* The session behind the stream: poll_subscription() for this subscriber   *)

Subscriber == [present : BOOLEAN, suspended : BOOLEAN, needsResync : BOOLEAN,
               acked : Nat]

NewSubscriber(suspended, needsResync, acked) ==
    [present |-> TRUE, suspended |-> suspended,
     needsResync |-> needsResync, acked |-> acked]

Absent == [present |-> FALSE, suspended |-> FALSE,
           needsResync |-> FALSE, acked |-> 0]

MaxOf(m, n) == IF m > n THEN m ELSE n

(* broadcast(): a full queue becomes a resync. *)
Offered(t) ==
    LET s == subscriber[t]
    IN  IF ~s.present \/ s.suspended \/ s.needsResync THEN s
        ELSE IF head[t] - s.acked >= UpdateQueue
        THEN NewSubscriber(FALSE, TRUE, head[t])
        ELSE s

Change(t) ==
    /\ head[t] < MaxChanges
    /\ head' = [head EXCEPT ![t] = @ + 1]
    /\ subscriber' = [subscriber EXCEPT ![t] = Offered(t)]

(* What the subscriber becomes, and the batch it is sent. *)
PolledSubscriber(t, s) ==
    LET now == subscriber[t]
    IN  IF ~s.visible THEN NewSubscriber(TRUE, TRUE, now.acked)
        ELSE IF \/ ~now.present \/ now.suspended \/ now.needsResync
                \/ s.cursor = NoCursor \/ s.cursor > head[t]
        THEN NewSubscriber(FALSE, FALSE, head[t])
        ELSE NewSubscriber(FALSE, FALSE, MaxOf(now.acked, s.cursor))

PolledBatch(t, s) ==
    LET now == subscriber[t]
        from == MaxOf(now.acked, s.cursor)
    IN  IF ~s.visible THEN NewBatch("suspended", s.visGeneration, 0, 0)
        ELSE IF ~now.present \/ now.suspended \/ s.cursor = NoCursor
        THEN NewBatch("attach", s.visGeneration, head[t], head[t])
        ELSE IF now.needsResync \/ s.cursor > head[t]
        THEN NewBatch("resync", s.visGeneration, head[t], head[t])
        ELSE IF from < head[t]
        THEN NewBatch("events", s.visGeneration, from + 1, head[t])
        ELSE Nothing

-----------------------------------------------------------------------------
(* The state thread *)

Stages == {"idle", "commands", "events", "error"}

PumpState == [stage : Stages, conn : Connections \cup {0}, request : Request,
              awaiting : BOOLEAN, commands : Seq(Commands),
              frame : ServerFrame]

Idle == [stage |-> "idle", conn |-> 0, request |-> NoRequest,
         awaiting |-> FALSE, commands |-> <<>>, frame |-> NoFrame]

(* Output of a process, drained between two pumps. *)
Output(t) ==
    /\ pump.stage = "idle"
    /\ Change(t)
    /\ UNCHANGED <<conn, pump, refusals, clientVars, toServer, toClient>>

(* pump(): the connection's commands and request are read under its lock. *)
PumpBegin(i) ==
    LET taken == IF Len(conn[i].commands) < CommandsPerPump
                 THEN Len(conn[i].commands) ELSE CommandsPerPump
    IN  /\ pump.stage = "idle" /\ Live(conn[i])
        /\ pump' = [stage |-> "commands", conn |-> i,
                    request |-> conn[i].request,
                    awaiting |-> conn[i].awaiting,
                    commands |-> SubSeq(conn[i].commands, 1, taken),
                    frame |-> NoFrame]
        /\ conn' = [conn EXCEPT ![i].commands =
                       SubSeq(@, taken + 1, Len(@))]
        /\ UNCHANGED <<head, subscriber, refusals, clientVars, toServer,
                       toClient>>

(* A command is dispatched, may change a terminal, and is answered; once an *)
(* answer cannot be queued the others are dropped.                          *)
PumpCommand ==
    LET i == pump.conn
        after == Enqueue(conn[i], ResultFrame(Head(pump.commands)))
    IN  /\ pump.stage = "commands" /\ pump.commands # <<>>
        /\ \/ UNCHANGED <<head, subscriber>>
           \/ \E t \in Terminals : Change(t)
        /\ conn' = [conn EXCEPT ![i] = after]
        /\ pump' = [pump EXCEPT !.commands =
                       IF after.closed THEN <<>> ELSE Tail(@)]
        /\ UNCHANGED <<refusals, clientVars, toServer, toClient>>

UnreadHeartbeats(i) ==
    {n \in DOMAIN toClient[i] : toClient[i][n].kind = "heartbeat"}

(* Nothing to send: a heartbeat when the connection has been quiet. *)
PumpQuiet(i) ==
    /\ pump' = Idle
    /\ \/ UNCHANGED conn
       \/ /\ ~conn[i].closed /\ Outbound(conn[i]) = 0
          /\ Cardinality(UnreadHeartbeats(i)) < MaxHeartbeats
          /\ conn' = [conn EXCEPT ![i] = Enqueue(@, Heartbeat)]

(* The session is polled with the request read at the start, as far as the  *)
(* budget goes; a response with anything in it is an Events frame.          *)
PollAnswer(polled) ==
    [t \in Terminals |-> IF t \in polled
                         THEN PolledBatch(t, pump.request.terminals[t])
                         ELSE Nothing]

HasEvents(polled) ==
    polled # Terminals \/ PollAnswer(polled) # NoBatches

PollSubscribers(polled) ==
    subscriber' = [t \in Terminals |->
                      IF t \in polled
                      THEN PolledSubscriber(t, pump.request.terminals[t])
                      ELSE subscriber[t]]

(* Mutant: an empty response makes the connection wait as well. *)
PumpAnswerAlwaysWaits(polled) ==
    LET frame == EventsFrame(pump.request.serial, PollAnswer(polled))
    IN  /\ PollSubscribers(polled)
        /\ conn' = [conn EXCEPT ![pump.conn].awaiting = TRUE]
        /\ pump' = IF HasEvents(polled)
                   THEN [pump EXCEPT !.stage = "events", !.frame = frame]
                   ELSE Idle

(* awaiting_update is set, in a critical section of its own, before the     *)
(* frame is queued.                                                         *)
PumpAnswer(polled) ==
    LET frame == EventsFrame(pump.request.serial, PollAnswer(polled))
    IN  /\ PollSubscribers(polled)
        /\ IF HasEvents(polled)
           THEN /\ conn' = [conn EXCEPT ![pump.conn].awaiting = TRUE]
                /\ pump' = [pump EXCEPT !.stage = "events", !.frame = frame]
           ELSE PumpQuiet(pump.conn)

PumpPoll ==
    /\ pump.stage = "commands" /\ pump.commands = <<>>
    /\ IF conn[pump.conn].closed
       THEN pump' = Idle /\ UNCHANGED <<conn, subscriber>>
       ELSE IF pump.awaiting
       THEN PumpQuiet(pump.conn) /\ UNCHANGED subscriber
       ELSE \E polled \in SUBSET Terminals \ {{}} : PumpAnswer(polled)
    /\ UNCHANGED <<head, refusals, clientVars, toServer, toClient>>

PumpPollFails ==
    /\ refusals < MaxRefusals /\ refusals' = refusals + 1
    /\ pump.stage = "commands" /\ pump.commands = <<>>
    /\ ~conn[pump.conn].closed /\ ~pump.awaiting
    /\ conn' = [conn EXCEPT ![pump.conn].closeAfterFlush = TRUE]
    /\ pump' = [pump EXCEPT !.stage = "error", !.frame = ErrorFrame]
    /\ UNCHANGED <<head, subscriber, clientVars, toServer, toClient>>

PumpEnqueue ==
    /\ pump.stage \in {"events", "error"}
    /\ conn' = [conn EXCEPT ![pump.conn] = Enqueue(@, pump.frame)]
    /\ pump' = Idle
    /\ UNCHANGED <<head, subscriber, refusals, clientVars, toServer,
                   toClient>>

(* session.stream.open: other tickets of the client go, its connections     *)
(* that are bound close, a ticket holds the first request.                  *)
Replaced(core) ==
    CASE core.phase = "ticket" -> [core EXCEPT !.phase = "none"]
      [] core.phase = "bound" -> Close(core)
      [] OTHER -> core

IssueTicket(i, request) ==
    conn' = [j \in Connections |->
                IF j = i THEN [FreshCore EXCEPT !.phase = "ticket",
                                                !.request = request]
                ELSE Replaced(conn[j])]

(* disconnect_client(), of a client there is something of: the same, and    *)
(* its terminals forget it.                                                 *)
DisconnectClient ==
    /\ pump.stage = "idle"
    /\ refusals < MaxRefusals /\ refusals' = refusals + 1
    /\ conn' = [i \in Connections |-> Replaced(conn[i])]
    /\ subscriber' = [t \in Terminals |-> Absent]
    /\ <<conn', subscriber'>> # <<conn, subscriber>>
    /\ UNCHANGED <<head, pump, clientVars, toServer, toClient>>

(* retire_connections(): who does not authenticate in time is closed. *)
RetireConnection(i) ==
    /\ pump.stage = "idle" /\ ~conn[i].closed
    /\ \/ conn[i].phase = "taken"
       \/ toServer[i] # <<>> /\ Head(toServer[i]) = ConnectFrame
    /\ conn' = [conn EXCEPT ![i] = Close(@)]
    /\ UNCHANGED <<head, subscriber, pump, refusals, clientVars, toServer,
                   toClient>>

(* A ticket expires. *)
ExpireTicket(i) ==
    /\ pump.stage = "idle" /\ conn[i].phase = "ticket"
    /\ conn' = [conn EXCEPT ![i].phase = "none"]
    /\ UNCHANGED <<head, subscriber, pump, refusals, clientVars, toServer,
                   toClient>>

-----------------------------------------------------------------------------
(* The reader of a connection *)

Reads(i, kind) ==
    /\ ~conn[i].closed
    /\ toServer[i] # <<>> /\ Head(toServer[i]).kind = kind
    /\ toServer' = [toServer EXCEPT ![i] = Tail(@)]
    /\ UNCHANGED <<head, subscriber, pump, refusals, clientVars, toClient>>

(* consume_ticket(), under the lock of the service. *)
ReadConnect(i) ==
    /\ Reads(i, "connect")
    /\ conn' = [conn EXCEPT ![i] =
                   IF @.phase = "ticket" THEN [@ EXCEPT !.phase = "taken"]
                   ELSE Close(@)]

(* The binding, under the lock of the connection. *)
Bind(i) ==
    /\ conn[i].phase = "taken"
    /\ conn' = [conn EXCEPT ![i].phase = "bound", ![i].awaiting = FALSE]
    /\ UNCHANGED <<head, subscriber, pump, refusals, clientVars, toServer,
                   toClient>>

ReadCommand(i) ==
    LET core == conn[i]
        command == Head(toServer[i]).command
    IN  /\ core.phase = "bound"
        /\ Reads(i, "command")
        /\ conn' = [conn EXCEPT ![i] =
                       IF Len(core.commands) >= CommandRoom THEN Close(core)
                       ELSE [core EXCEPT !.commands = Append(@, command)]]

(* Mutant: an Update does not end the wait. *)
ReadUpdateKeepsWaiting(i) ==
    LET request == Head(toServer[i]).request
    IN  /\ conn[i].phase = "bound"
        /\ Reads(i, "update")
        /\ conn' = [conn EXCEPT ![i] =
                       IF request.serial <= @.request.serial THEN Close(@)
                       ELSE [@ EXCEPT !.request = request]]

ReadUpdate(i) ==
    LET request == Head(toServer[i]).request
    IN  /\ conn[i].phase = "bound"
        /\ Reads(i, "update")
        /\ conn' = [conn EXCEPT ![i] =
                       IF request.serial <= @.request.serial THEN Close(@)
                       ELSE [@ EXCEPT !.request = request,
                                      !.awaiting = FALSE]]

ReadEnd(i) ==
    /\ conn[i].clientClosed /\ ~conn[i].closed
    /\ conn' = [conn EXCEPT ![i] = Close(@)]
    /\ UNCHANGED <<head, subscriber, pump, refusals, clientVars, toServer,
                   toClient>>

-----------------------------------------------------------------------------
(* The writer of a connection.  Control goes first, and a frame is numbered *)
(* as it is selected: a frame being written counts as queued, and nothing   *)
(* but its place on the wire is seen of the writing, so selecting, writing  *)
(* and looking at close_after_flush are one step.                           *)
WriteFrame(i) ==
    LET core == conn[i]
        fromControl == core.control # <<>>
        frame == IF fromControl THEN Head(core.control) ELSE Head(core.events)
        left == [core EXCEPT
                    !.control = IF fromControl THEN Tail(@) ELSE @,
                    !.events = IF fromControl THEN @ ELSE Tail(@),
                    !.nextSerial = @ + 1]
    IN  /\ ~core.closed /\ Outbound(core) > 0
        /\ toClient' = [toClient EXCEPT ![i] =
                        Append(@, [frame EXCEPT !.serial = core.nextSerial])]
        /\ conn' = [conn EXCEPT ![i] =
                       IF core.closeAfterFlush /\ Outbound(left) = 0
                       THEN Close(left) ELSE left]
        /\ UNCHANGED <<head, subscriber, pump, refusals, clientVars,
                       toServer>>

-----------------------------------------------------------------------------
(* The client *)

Modes == {"closed", "opening", "active"}

Policy == [lastPoll : Request, lastFrame : Nat, lastEvent : Nat,
           ackPending : BOOLEAN, pending : SUBSET Commands]

(* SessionStreamPolicy::activate(). *)
Activated(request) ==
    [lastPoll |-> request, lastFrame |-> 0, lastEvent |-> 0,
     ackPending |-> FALSE, pending |-> {}]

View == [visible : BOOLEAN, visGeneration : Nat, needsAttach : BOOLEAN,
         attached : BOOLEAN, applied : Nat]

Registered == [visible |-> TRUE, visGeneration |-> 1, needsAttach |-> TRUE,
               attached |-> FALSE, applied |-> 0]

(* make_session_request(). *)
SessionRequest(serial) ==
    [serial |-> serial,
     terminals |-> [t \in Terminals |->
        [visible |-> view[t].visible, visGeneration |-> view[t].visGeneration,
         cursor |-> IF view[t].needsAttach \/ ~view[t].attached
                    THEN NoCursor ELSE view[t].applied]]]

(* begin_stream() of a new coordinator: its terminals are registered anew.  *)
Open(i) ==
    /\ mode = "closed" /\ i = current + 1
    /\ pump.stage = "idle"
    /\ mode' = "opening" /\ current' = i
    /\ view' = [t \in Terminals |-> Registered]
    /\ LET first == [serial |-> 1, terminals |->
                         [t \in Terminals |->
                             [visible |-> TRUE, visGeneration |-> 1,
                              cursor |-> NoCursor]]]
       IN  /\ policy' = Activated(first)
           /\ IssueTicket(i, first)
    /\ UNCHANGED <<head, subscriber, pump, refusals, unsent, toServer,
                   toClient>>

(* What is written to a closed connection is lost. *)
Send(frame) ==
    toServer' = [toServer EXCEPT ![current] =
                    IF conn[current].closed THEN @ ELSE Append(@, frame)]

Connect ==
    /\ mode = "opening"
    /\ mode' = "active"
    /\ Send(ConnectFrame)
    /\ UNCHANGED <<serverVars, current, policy, unsent, view, toClient>>

(* fall_back_from_stream(): commands in flight go to short control, and the *)
(* coordinator stays with session.poll; the next to open is another one.    *)
FallsBack ==
    /\ mode' = "closed"
    /\ policy' = Activated(NoRequest)
    /\ conn' = [conn EXCEPT ![current].clientClosed =
                            mode = "active" /\ ~conn[current].closed]
    /\ toClient' = [toClient EXCEPT ![current] = <<>>]
    /\ view' = [t \in Terminals |-> Registered]
    /\ UNCHANGED <<head, subscriber, pump, refusals, current, unsent,
                   toServer>>

FallBack ==
    /\ mode \in {"opening", "active"}
    /\ FallsBack

SeeClose ==
    /\ mode = "active" /\ conn[current].closed
    /\ FallsBack

(* set_presentation_visible(), by the user's thread. *)
Toggle(t) ==
    /\ mode = "active" /\ view[t].visGeneration < MaxVisibility
    /\ view' = [view EXCEPT ![t].visible = ~@, ![t].visGeneration = @ + 1,
                            ![t].needsAttach = TRUE]
    /\ UNCHANGED <<serverVars, mode, current, policy, unsent, toServer,
                   toClient>>

(* A command takes one of the client's slots. *)
SendCommand(c) ==
    /\ mode = "active" /\ c \in unsent
    /\ Cardinality(policy.pending) < CommandRoom
    /\ unsent' = unsent \ {c}
    /\ policy' = [policy EXCEPT !.pending = @ \cup {c}]
    /\ Send(CommandFrame(c))
    /\ UNCHANGED <<serverVars, mode, current, view, toClient>>

(* prepare_update(): an acknowledgement, or a state that is new. *)
WantsUpdate ==
    \/ policy.ackPending
    \/ SessionRequest(0).terminals # policy.lastPoll.terminals

SendUpdate ==
    LET update == SessionRequest(policy.lastPoll.serial + 1)
    IN  /\ mode = "active" /\ WantsUpdate
        /\ policy' = [policy EXCEPT !.lastPoll = update, !.ackPending = FALSE]
        /\ Send(UpdateFrame(update))
        /\ UNCHANGED <<serverVars, mode, current, unsent, view, toClient>>

(* Mutant: a batch must answer the last request. *)
AcceptableLatest(frame) ==
    /\ frame.serial = policy.lastFrame + 1
    /\ frame.kind = "result" => frame.command \in policy.pending
    /\ frame.kind = "events" => frame.request = policy.lastPoll.serial

(* accept_frame(). *)
Acceptable(frame) ==
    /\ frame.serial = policy.lastFrame + 1
    /\ frame.kind = "result" => frame.command \in policy.pending
    /\ frame.kind = "events" => /\ frame.request > policy.lastEvent
                                /\ frame.request <= policy.lastPoll.serial

(* accept_batch(). *)
AcceptBatch(v, b) ==
    IF b.visGeneration # v.visGeneration THEN v
    ELSE CASE b.kind = "attach" ->
                [v EXCEPT !.attached = TRUE, !.needsAttach = FALSE,
                          !.applied = b.last]
           [] b.kind = "resync" ->
                [v EXCEPT !.needsAttach = TRUE,
                          !.applied = IF v.attached THEN MaxOf(@, b.last)
                                      ELSE @]
           [] b.kind = "events" ->
                IF v.attached /\ b.first = v.applied + 1
                THEN [v EXCEPT !.applied = b.last]
                ELSE [v EXCEPT !.needsAttach = TRUE]
           [] OTHER -> v

AcceptFrame ==
    LET frame == Head(toClient[current])
        numbered == [policy EXCEPT !.lastFrame = frame.serial]
    IN  /\ mode = "active" /\ toClient[current] # <<>>
        /\ Acceptable(frame) /\ frame.kind # "error"
        /\ toClient' = [toClient EXCEPT ![current] = Tail(@)]
        /\ \/ /\ frame.kind = "heartbeat"
              /\ policy' = numbered /\ UNCHANGED view
           \/ /\ frame.kind = "result"
              /\ policy' = [numbered EXCEPT !.pending = @ \ {frame.command}]
              /\ UNCHANGED view
           \/ /\ frame.kind = "events"
              /\ policy' = [numbered EXCEPT !.lastEvent = frame.request,
                                            !.ackPending = TRUE]
              /\ view' = [t \in Terminals |->
                             AcceptBatch(view[t], frame.batches[t])]
        /\ UNCHANGED <<serverVars, mode, current, unsent, toServer>>

RefuseFrame ==
    /\ mode = "active" /\ toClient[current] # <<>>
    /\ LET frame == Head(toClient[current])
       IN  frame.kind = "error" \/ ~Acceptable(frame)
    /\ FallsBack

-----------------------------------------------------------------------------
Init ==
    /\ head = [t \in Terminals |-> 0]
    /\ subscriber = [t \in Terminals |-> Absent]
    /\ conn = [i \in Connections |-> FreshCore]
    /\ pump = Idle
    /\ refusals = 0
    /\ toServer = [i \in Connections |-> <<>>]
    /\ toClient = [i \in Connections |-> <<>>]
    /\ mode = "closed" /\ current = 0
    /\ policy = Activated(NoRequest)
    /\ unsent = Commands
    /\ view = [t \in Terminals |-> Registered]

StateThread ==
    \/ PumpCommand \/ PumpPoll \/ PumpPollFails \/ PumpEnqueue
    \/ DisconnectClient
    \/ \E t \in Terminals : Output(t)
    \/ \E i \in Connections :
          PumpBegin(i) \/ RetireConnection(i) \/ ExpireTicket(i)

Reader(i) ==
    ReadConnect(i) \/ Bind(i) \/ ReadCommand(i) \/ ReadUpdate(i) \/ ReadEnd(i)

Client ==
    \/ Connect \/ SendUpdate \/ AcceptFrame \/ RefuseFrame
    \/ FallBack \/ SeeClose
    \/ \E i \in Connections : Open(i)
    \/ \E t \in Terminals : Toggle(t)
    \/ \E c \in Commands : SendCommand(c)

Next ==
    \/ StateThread \/ Client
    \/ \E i \in Connections : Reader(i) \/ WriteFrame(i)

Spec == Init /\ [][Next]_vars

(* The server's loop wakes for every pump, its readers and writers run, and *)
(* so does the client's worker.  The user, the shells and failures owe      *)
(* nothing.                                                                 *)
Fairness ==
    /\ WF_vars(PumpCommand \/ PumpPoll \/ PumpEnqueue)
    /\ \A i \in Connections :
          SF_vars(PumpBegin(i)) /\ WF_vars(Reader(i)) /\ WF_vars(WriteFrame(i))
    /\ WF_vars(Connect \/ AcceptFrame \/ RefuseFrame \/ SeeClose)
    /\ WF_vars(SendUpdate)
    /\ \A c \in Commands : WF_vars(SendCommand(c))

FairSpec == Spec /\ Fairness

-----------------------------------------------------------------------------
(* Properties *)

(* Types; the queues of a connection hold what their limits say. *)
StreamTypeOK ==
    /\ head \in [Terminals -> Nat]
    /\ subscriber \in [Terminals -> Subscriber]
    /\ conn \in [Connections -> Core]
    /\ pump \in PumpState /\ refusals \in Nat
    /\ toServer \in [Connections -> Seq(ClientFrame)]
    /\ toClient \in [Connections -> Seq(ServerFrame)]
    /\ mode \in Modes /\ current \in Connections \cup {0}
    /\ policy \in Policy /\ unsent \subseteq Commands
    /\ view \in [Terminals -> View]
    /\ \A i \in Connections :
          /\ Len(conn[i].commands) <= CommandRoom
          /\ Outbound(conn[i]) <= EventRoom + ControlRoom

(* The client never refuses a frame of its connection for its number, for   *)
(* the request it answers or for the command: whatever overtakes what in    *)
(* the queues, the server's numbers and the client's bookkeeping agree.     *)
FramesAccepted ==
    mode = "active" /\ toClient[current] # <<>>
        => Acceptable(Head(toClient[current]))

(* What will make the client send an Update, or the one it has sent. *)
Answering(i) ==
    \/ pump.stage = "events" /\ pump.conn = i
    \/ conn[i].events # <<>>
    \/ \E n \in DOMAIN toClient[i] : toClient[i][n].kind = "events"
    \/ mode = "active" /\ i = current /\ policy.ackPending
    \/ \E n \in DOMAIN toServer[i] : toServer[i][n].kind = "update"

(* awaiting_update is never left to nobody: while a connection waits for an *)
(* Update, the frame that asks for one is under way, or the Update is.      *)
NoLostWait ==
    \A i \in Connections :
        Live(conn[i]) /\ ~conn[i].clientClosed /\ conn[i].awaiting
            => Answering(i)

(* Nothing is left to tell the client, or the server. *)
Settled ==
    /\ \A t \in Terminals : view[t].visible =>
          view[t].attached /\ view[t].applied = head[t]
    /\ unsent = {} /\ policy.pending = {}

(* A stream that stays up brings every visible terminal to its last change, *)
(* and answers every command: plans/session-event-stream.md has it "prove   *)
(* replay or authoritative snapshot convergence".                           *)
StreamSettles ==
    <>[](mode = "active") => <>[]Settled

(* A connection is not told again what it has been told: an Events frame    *)
(* brings more than the suspension of terminals that are suspended already. *)
(* plans/session-event-stream.md has a batch pushed "when terminal output,  *)
(* topology, agents, or heartbeat state changes".                           *)
OnlyNews ==
    [][pump.stage = "commands" /\ pump'.stage = "events" =>
          \E t \in Terminals :
             \/ pump'.frame.batches[t].kind \in {"attach", "resync", "events"}
             \/ /\ pump'.frame.batches[t].kind = "suspended"
                /\ ~subscriber[t].suspended
      ]_vars

(* The Events frames of a connection the client has not read, in order. *)
OnTheWay(i) ==
    LET isEvents(f) == f.kind = "events"
    IN  SelectSeq(toClient[i] \o conn[i].events
                     \o (IF pump.conn = i THEN <<pump.frame>> ELSE <<>>),
                  isEvents)

(* The changes of a terminal are sent to a connection once: no frame on its *)
(* way repeats what an earlier one on its way brings.  session_stream_      *)
(* service.cpp does not poll "from the same cursor until the client sends   *)
(* an Update with its applied cursors".                                     *)
SentOnce ==
    \A i \in Connections, t \in Terminals :
        LET batch(n) == OnTheWay(i)[n].batches[t]
        IN  \A m, n \in DOMAIN OnTheWay(i) :
               m < n /\ batch(m).kind = "events" /\ batch(n).kind = "events"
                  => batch(n).first > batch(m).last

=============================================================================
