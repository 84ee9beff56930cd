------------------------------- MODULE NvimRpc -------------------------------
(***************************************************************************)
(* NvimRpc and those it works between: NvimHost on the main thread, the    *)
(* UiRequestWorker that asks Neovim for a new size, the embedded Neovim    *)
(* and its pipes (NvimProcess).                                            *)
(*                                                                         *)
(* Five actors: the main thread, the UI worker, the transport's writer and *)
(* reader threads, Neovim.  A critical section is one action; so is a step *)
(* between two of them.  A thread that waits on a condition variable first *)
(* evaluates the predicate, then sleeps: whoever notifies without holding  *)
(* the waiter's mutex may come in between.  A message is a record, a pipe  *)
(* holds PipeRoom of them; bytes that do not decode are left out.          *)
(***************************************************************************)
EXTENDS Integers, Sequences, FiniteSets

CONSTANTS
    QueueDepth,         \* kMaxNotificationQueueDepth
    OutboundRoom,       \* kMaxOutboundBytes, in messages
    PipeRoom,           \* messages a pipe holds
    MaxTimedOutIds,     \* kMaxTimedOutIds
    StartupRequests,    \* requests of initialize_host()
    Sizes,              \* grid sizes; 0 stands for none
    FirstSize,          \* the size the user interface attaches with
    MaxResizes,         \* bound: resizes of the window
    MaxRedraws,         \* bound: notifications of Neovim
    MaxAsks,            \* bound: requests of Neovim
    MaxInputs           \* bound: keys, clicks and pastes

ASSUME NvimAssumption ==
    /\ QueueDepth \in Nat \ {0} /\ OutboundRoom \in Nat \ {0}
    /\ PipeRoom \in Nat \ {0} /\ MaxTimedOutIds \in Nat
    /\ 0 \notin Sizes /\ FirstSize \in Sizes /\ Sizes \subseteq Nat
    /\ StartupRequests \in Nat \ {0, 1}
    /\ MaxResizes \in Nat /\ MaxRedraws \in Nat /\ MaxAsks \in Nat
    /\ MaxInputs \in Nat

VARIABLES
    running, readFailed,    \* running_, read_failed_
    outbound,               \* outbound_ with its flags
    writer, reader,         \* the two threads of the transport
    notifications,          \* notifications_
    responses, timedOut,    \* responses_ and timed_out_msgids_
    nextId,                 \* next_msgid_
    call,                   \* the request() each caller is in
    process,                \* NvimProcess: stdin open, writes cancelled, and
                            \* whether a writer outstayed the wait for it
    worker,                 \* UiRequestWorker and its state
    host,                   \* NvimHost on the main thread
    nvim,                   \* Neovim and the two pipes
    accepted                \* messages the outbound queue took so far

transportVars == <<running, readFailed, outbound, writer, reader,
                   notifications, responses, timedOut, nextId, call>>
vars == <<transportVars, process, worker, host, nvim, accepted>>

Callers == {"main", "worker"}

-----------------------------------------------------------------------------
(* Messages *)

(* To Neovim: a message keeps the serial it was accepted under. *)
Message == [kind : {"request", "reply", "input", "quit"}, id : Nat,
            size : Sizes \cup {0}, serial : Nat]

NoMessage == [kind |-> "quit", id |-> 0, size |-> 0, serial |-> 0]

(* From Neovim. *)
Output == [kind : {"response", "redraw", "ask"}, id : Nat,
           size : Sizes \cup {0}]

Out(kind, id, size) == [kind |-> kind, id |-> id, size |-> size]

(* response_mutex_ is held between the evaluation of a predicate and the sleep
   that follows. *)
ResponseMutexFree == \A c \in Callers : call[c].at # "checked"

(* notify_all(): those asleep look at their predicate again. *)
CallersWoken ==
    [c \in Callers |-> IF call[c].at = "asleep"
                       THEN [call[c] EXCEPT !.at = "waiting"] ELSE call[c]]

ReaderWoken ==
    IF reader.at = "paused" THEN [reader EXCEPT !.at = "dispatch"] ELSE reader

(* NvimProcess::is_running(). *)
ProcessRunning == nvim.alive /\ process.stdinOpen

-----------------------------------------------------------------------------
(* enqueue_outbound(): a message is accepted whole or not at all. *)

Accepts ==
    /\ ~outbound.stop /\ ~outbound.failed
    /\ Len(outbound.queue) + (IF outbound.busy THEN 1 ELSE 0) < OutboundRoom

NewMessage(kind, id, size) ==
    [kind |-> kind, id |-> id, size |-> size, serial |-> accepted + 1]

(* Mutant: a reply overtakes the messages that wait. *)
EnqueuedInFront(kind, id, size) ==
    IF Accepts
    THEN /\ accepted' = accepted + 1
         /\ outbound' = [outbound EXCEPT
                !.queue = IF kind = "reply"
                          THEN <<NewMessage(kind, id, size)>> \o @
                          ELSE Append(@, NewMessage(kind, id, size))]
    ELSE UNCHANGED <<accepted, outbound>>

Enqueued(kind, id, size) ==
    IF Accepts
    THEN /\ accepted' = accepted + 1
         /\ outbound' = [outbound EXCEPT
                !.queue = Append(@, NewMessage(kind, id, size))]
    ELSE UNCHANGED <<accepted, outbound>>

-----------------------------------------------------------------------------
(* request(), on the main thread during startup and on the UI worker *)

Idle(ok) == [at |-> "idle", id |-> 0, size |-> 0, ok |-> ok]

(* Past the test of running_, with an id of its own. *)
BeginRequest(c, size) ==
    /\ nextId' = nextId + 1
    /\ call' = [call EXCEPT ![c] = [at |-> "begun", id |-> nextId,
                                   size |-> size, ok |-> FALSE]]

SendRequest(c) ==
    /\ call[c].at = "begun"
    /\ Enqueued("request", call[c].id, call[c].size)
    /\ call' = [call EXCEPT ![c] = IF Accepts
                                  THEN [@ EXCEPT !.at = "waiting", !.size = 0]
                                  ELSE Idle(FALSE)]
    /\ UNCHANGED <<running, readFailed, writer, reader, notifications,
                   responses, timedOut, nextId, process, worker, host, nvim>>

Ready(c) ==
    \/ call[c].id \in responses
    \/ ~running \/ readFailed \/ ~ProcessRunning

(* Mutant: the set of given up ids grows without bound. *)
EvictedNever(ids) == ids

(* The smallest ids leave a set that outgrew its bound. *)
Evicted(ids) ==
    IF Cardinality(ids) <= MaxTimedOutIds THEN ids
    ELSE ids \ {CHOOSE i \in ids : \A j \in ids : i <= j}

Finish(c) ==
    LET answered == call[c].id \in responses
    IN /\ call' = [call EXCEPT ![c] = Idle(answered)]
       /\ responses' = responses \ {call[c].id}
       /\ timedOut' = IF answered THEN timedOut
                      ELSE Evicted(timedOut \cup {call[c].id})

(* The predicate is evaluated under response_mutex_ ... *)
CheckResponse(c) ==
    /\ call[c].at = "waiting" /\ ResponseMutexFree
    /\ IF Ready(c) THEN Finish(c)
       ELSE /\ call' = [call EXCEPT ![c].at = "checked"]
            /\ UNCHANGED <<responses, timedOut>>
    /\ UNCHANGED <<running, readFailed, outbound, writer, reader,
                   notifications, nextId, process, worker, host, nvim,
                   accepted>>

(* ... which is given up with the thread asleep. *)
AwaitResponse(c) ==
    /\ call[c].at = "checked"
    /\ call' = [call EXCEPT ![c].at = "asleep"]
    /\ UNCHANGED <<running, readFailed, outbound, writer, reader,
                   notifications, responses, timedOut, nextId, process,
                   worker, host, nvim, accepted>>

(* kRpcRequestTimeout is over. *)
TimeOut(c) ==
    /\ call[c].at = "asleep" /\ ResponseMutexFree
    /\ Finish(c)
    /\ UNCHANGED <<running, readFailed, outbound, writer, reader,
                   notifications, nextId, process, worker, host, nvim,
                   accepted>>

-----------------------------------------------------------------------------
(* The writer thread and NvimProcess::write() *)

(* write() reads the descriptor before it registers as a writer. *)
WriterTakes ==
    /\ writer.at = "waiting" /\ outbound.queue # <<>>
    /\ writer' = [at |-> IF process.stdinOpen THEN "loaded" ELSE "failed",
                  message |-> Head(outbound.queue)]
    /\ outbound' = [outbound EXCEPT !.queue = Tail(@), !.busy = TRUE]
    /\ UNCHANGED <<running, readFailed, reader, notifications, responses,
                   timedOut, nextId, call, process, worker, host, nvim,
                   accepted>>

WriterEnds ==
    /\ writer.at = "waiting" /\ outbound.queue = <<>> /\ outbound.stop
    /\ writer' = [writer EXCEPT !.at = "done"]
    /\ UNCHANGED <<running, readFailed, outbound, reader, notifications,
                   responses, timedOut, nextId, call, process, worker, host,
                   nvim, accepted>>

(* Mutant: the cancellation is not looked at under writer_mutex_. *)
MayWriteUnchecked == TRUE

MayWrite == ~process.cancelled

WriterRegisters ==
    /\ writer.at = "loaded"
    /\ writer' = [writer EXCEPT !.at = IF MayWrite THEN "writing"
                                                   ELSE "failed"]
    /\ UNCHANGED <<running, readFailed, outbound, reader, notifications,
                   responses, timedOut, nextId, call, process, worker, host,
                   nvim, accepted>>

WriterWrites ==
    /\ writer.at = "writing" /\ process.stdinOpen
    /\ nvim.alive /\ Len(nvim.in) < PipeRoom
    /\ nvim' = [nvim EXCEPT !.in = Append(@, writer.message)]
    /\ writer' = [at |-> "waiting", message |-> NoMessage]
    /\ outbound' = [outbound EXCEPT !.busy = FALSE]
    /\ UNCHANGED <<running, readFailed, reader, notifications, responses,
                   timedOut, nextId, call, process, worker, host, accepted>>

(* The descriptor was closed underneath the writer and its number belongs to
   another file, which takes the bytes. *)
WriterStrays ==
    /\ writer.at = "writing" /\ ~process.stdinOpen
    /\ writer' = [at |-> "waiting", message |-> NoMessage]
    /\ outbound' = [outbound EXCEPT !.busy = FALSE]
    /\ UNCHANGED <<running, readFailed, reader, notifications, responses,
                   timedOut, nextId, call, process, worker, host, nvim,
                   accepted>>

(* Cancelled, the descriptor is not open, or the other end is closed. *)
WriteFails ==
    /\ writer.at = "writing" /\ (process.cancelled \/ ~nvim.alive)
    /\ writer' = [writer EXCEPT !.at = "failed"]
    /\ UNCHANGED <<running, readFailed, outbound, reader, notifications,
                   responses, timedOut, nextId, call, process, worker, host,
                   nvim, accepted>>

WriterGivesUp ==
    /\ writer.at = "failed"
    /\ outbound' = [outbound EXCEPT !.failed = TRUE, !.queue = <<>>,
                                    !.busy = FALSE]
    /\ writer' = [at |-> IF running THEN "publish" ELSE "done",
                  message |-> NoMessage]
    /\ UNCHANGED <<running, readFailed, reader, notifications, responses,
                   timedOut, nextId, call, process, worker, host, nvim,
                   accepted>>

(* The failure is published under response_mutex_. *)
WriterPublishes ==
    /\ writer.at = "publish" /\ ResponseMutexFree
    /\ readFailed' = TRUE
    /\ call' = CallersWoken
    /\ writer' = [writer EXCEPT !.at = "done"]
    /\ UNCHANGED <<running, outbound, reader, notifications, responses,
                   timedOut, nextId, process, worker, host, nvim, accepted>>

-----------------------------------------------------------------------------
(* The reader thread *)

ReaderLoops ==
    /\ reader.at = "top"
    /\ reader' = [reader EXCEPT !.at = IF running THEN "reading" ELSE "done"]
    /\ UNCHANGED <<running, readFailed, outbound, writer, notifications,
                   responses, timedOut, nextId, call, process, worker, host,
                   nvim, accepted>>

ReaderReads ==
    /\ reader.at = "reading" /\ nvim.out # <<>>
    /\ reader' = [at |-> "dispatch", buffer |-> nvim.out]
    /\ nvim' = [nvim EXCEPT !.out = <<>>]
    /\ UNCHANGED <<running, readFailed, outbound, writer, notifications,
                   responses, timedOut, nextId, call, process, worker, host,
                   accepted>>

(* The end of the stream, without response_mutex_. *)
ReadFails ==
    /\ reader.at = "reading" /\ nvim.out = <<>> /\ ~nvim.alive
    /\ reader' = [reader EXCEPT !.at = IF running THEN "ended" ELSE "done"]
    /\ readFailed' = (readFailed \/ running)
    /\ running' = FALSE
    /\ UNCHANGED <<outbound, writer, notifications, responses, timedOut,
                   nextId, call, process, worker, host, nvim, accepted>>

ReaderNotifies ==
    /\ reader.at = "ended"
    /\ call' = CallersWoken
    /\ reader' = [reader EXCEPT !.at = "done"]
    /\ UNCHANGED <<running, readFailed, outbound, writer, notifications,
                   responses, timedOut, nextId, process, worker, host, nvim,
                   accepted>>

Dispatched ==
    [at |-> IF Len(reader.buffer) = 1 THEN "top" ELSE "dispatch",
     buffer |-> Tail(reader.buffer)]

(* Mutant: a late response is stored. *)
WantedAlways(id) == TRUE

Wanted(id) == id \notin timedOut

DispatchResponse ==
    /\ reader.at = "dispatch" /\ Head(reader.buffer).kind = "response"
    /\ ResponseMutexFree
    /\ LET id == Head(reader.buffer).id
       IN IF Wanted(id)
          THEN responses' = responses \cup {id} /\ call' = CallersWoken
          ELSE UNCHANGED <<responses, call>>
    /\ reader' = Dispatched
    /\ UNCHANGED <<running, readFailed, outbound, writer, notifications,
                   timedOut, nextId, process, worker, host, nvim, accepted>>

(* The reply is queued: the reader never writes. *)
DispatchRequest ==
    /\ reader.at = "dispatch" /\ Head(reader.buffer).kind = "ask"
    /\ Enqueued("reply", Head(reader.buffer).id, 0)
    /\ reader' = Dispatched
    /\ UNCHANGED <<running, readFailed, writer, notifications, responses,
                   timedOut, nextId, call, process, worker, host, nvim>>

HasSpace == Len(notifications) < QueueDepth

(* Mutant: the reader waits for space of a queue nobody drains any more. *)
PausesForever == ~HasSpace

(* Mutant: a full queue loses the notification instead of pausing. *)
PausesNever == FALSE

Pauses == ~HasSpace /\ running

(* A full queue holds the reader, who falls asleep in the same step: close()
   takes notif_mutex_ before it notifies.  It waits until the main thread
   drains; once the transport closes, what does not fit is dropped. *)
DispatchNotification ==
    /\ reader.at = "dispatch" /\ Head(reader.buffer).kind = "redraw"
    /\ IF Pauses THEN /\ reader' = [reader EXCEPT !.at = "paused"]
                      /\ UNCHANGED notifications
       ELSE /\ notifications' =
                    IF HasSpace
                    THEN Append(notifications, Head(reader.buffer))
                    ELSE notifications
            /\ reader' = Dispatched
    /\ UNCHANGED <<running, readFailed, outbound, writer, responses, timedOut,
                   nextId, call, process, worker, host, nvim, accepted>>

-----------------------------------------------------------------------------
(* The UI request worker: only the latest size waits *)

NothingPending == 0

RequestResize(size) ==
    IF worker.running THEN [worker EXCEPT !.pending = size] ELSE worker

WorkerTakes ==
    /\ ~worker.done /\ call["worker"].at = "idle"
    /\ worker.running /\ worker.pending # NothingPending
    /\ worker' = [worker EXCEPT !.pending = NothingPending]
    /\ IF running THEN BeginRequest("worker", worker.pending)
       ELSE /\ call' = [call EXCEPT !["worker"].ok = FALSE]
            /\ UNCHANGED nextId
    /\ UNCHANGED <<running, readFailed, outbound, writer, reader,
                   notifications, responses, timedOut, process, host, nvim,
                   accepted>>

WorkerExits ==
    /\ ~worker.done /\ call["worker"].at = "idle" /\ ~worker.running
    /\ worker' = [worker EXCEPT !.done = TRUE]
    /\ UNCHANGED <<transportVars, process, host, nvim, accepted>>

-----------------------------------------------------------------------------
(* NvimHost, on the main thread *)

(* initialize_host(): attach_ui() first, then the others. *)
StartupRequest ==
    /\ host.at = "startup"
    /\ IF running
       THEN /\ BeginRequest("main", IF host.left = StartupRequests
                                    THEN host.grid ELSE 0)
            /\ host' = [host EXCEPT !.at = "calling", !.left = @ - 1]
       ELSE /\ host' = [host EXCEPT !.at = "quit"]
            /\ UNCHANGED <<nextId, call>>
    /\ UNCHANGED <<running, readFailed, outbound, writer, reader,
                   notifications, responses, timedOut, process, worker, nvim,
                   accepted>>

(* A failed request rolls the host back, but for the last one: the host does
   without a clipboard provider. *)
StartupAnswer ==
    /\ host.at = "calling" /\ call["main"].at = "idle"
    /\ host' = [host EXCEPT !.at = IF host.left = 0 THEN "run"
                                   ELSE IF call["main"].ok THEN "startup"
                                   ELSE "quit"]
    /\ UNCHANGED <<transportVars, process, worker, nvim, accepted>>

(* on_viewport_changed(). *)
ViewportChanged(size) ==
    /\ host.at = "run" /\ host.resizes < MaxResizes /\ size # host.viewport
    /\ host' = [host EXCEPT
            !.viewport = size, !.resizes = @ + 1,
            !.deferred = IF size # host.grid /\ ~host.ready THEN size ELSE @]
    /\ worker' = IF size # host.grid /\ host.ready THEN RequestResize(size)
                 ELSE worker
    /\ UNCHANGED <<transportVars, process, nvim, accepted>>

(* notify(): input that finds no room is lost, and nobody waits for it. *)
SendInput ==
    /\ host.at = "run" /\ host.inputs < MaxInputs /\ running
    /\ Enqueued("input", 0, 0)
    /\ host' = [host EXCEPT !.inputs = @ + 1]
    /\ UNCHANGED <<running, readFailed, writer, reader, notifications,
                   responses, timedOut, nextId, call, process, worker, nvim>>

(* Mutant: drain_notifications() does not notify notif_space_cv_. *)
NobodyResumed == reader

Resumed == ReaderWoken

(* pump(): redraw batches take their size in turn, the first flush requests
   a deferred resize. *)
Pump ==
    LET first == notifications[1]
        last == notifications[Len(notifications)]
        flushes == ~host.ready /\ host.deferred # 0
    IN /\ host.at = "run" /\ ProcessRunning /\ notifications # <<>>
       /\ notifications' = <<>>
       /\ reader' = Resumed
       /\ host' = [host EXCEPT !.grid = last.size, !.ready = TRUE,
                               !.drained = last.id,
                               !.deferred = 0]
       /\ worker' = IF flushes /\ host.deferred # first.size
                    THEN RequestResize(host.deferred) ELSE worker
       /\ UNCHANGED <<running, readFailed, outbound, writer, responses,
                      timedOut, nextId, call, process, nvim, accepted>>

(* shutdown(): close() comes twice, before the worker is joined and, in
   NvimRpc::shutdown(), after the process was killed. *)
HostCloses ==
    /\ host.at = "run"
    /\ host' = [host EXCEPT !.at = "quit"]
    /\ UNCHANGED <<transportVars, process, worker, nvim, accepted>>

(* What the window shows matters no more. *)
AskToQuit ==
    /\ host.at = "quit"
    /\ IF ProcessRunning /\ running THEN Enqueued("quit", 0, 0)
       ELSE UNCHANGED <<accepted, outbound>>
    /\ host' = [host EXCEPT !.at = "close", !.ready = FALSE, !.deferred = 0,
                            !.grid = FirstSize, !.viewport = FirstSize,
                            !.resizes = MaxResizes, !.inputs = MaxInputs,
                            !.left = 0]
    /\ UNCHANGED <<running, readFailed, writer, reader, notifications,
                   responses, timedOut, nextId, call, process, worker, nvim>>

Close ==
    /\ host.at = "close"
    /\ running' = FALSE
    /\ host' = [host EXCEPT !.at = "wakeCallers"]
    /\ UNCHANGED <<readFailed, outbound, writer, reader, notifications,
                   responses, timedOut, nextId, call, process, worker, nvim,
                   accepted>>

(* response_cv_ is notified without response_mutex_. *)
WakeCallers ==
    /\ host.at = "wakeCallers"
    /\ call' = CallersWoken
    /\ host' = [host EXCEPT !.at = "wakeReader"]
    /\ UNCHANGED <<running, readFailed, outbound, writer, reader,
                   notifications, responses, timedOut, nextId, process,
                   worker, nvim, accepted>>

WakeReader ==
    /\ host.at = "wakeReader"
    /\ reader' = ReaderWoken
    /\ host' = [host EXCEPT !.at = "stopOutput"]
    /\ UNCHANGED <<running, readFailed, outbound, writer, notifications,
                   responses, timedOut, nextId, call, process, worker, nvim,
                   accepted>>

StopOutput ==
    /\ host.at = "stopOutput"
    /\ outbound' = [outbound EXCEPT !.stop = TRUE]
    /\ host' = [host EXCEPT !.at = "flush"]
    /\ UNCHANGED <<running, readFailed, writer, reader, notifications,
                   responses, timedOut, nextId, call, process, worker, nvim,
                   accepted>>

(* All is flushed or kCloseFlushTimeout is over: cancel_writes() ... *)
CancelWrites ==
    /\ host.at = "flush"
    /\ process' = [process EXCEPT !.cancelled = TRUE]
    /\ host' = [host EXCEPT !.at = "cancel"]
    /\ UNCHANGED <<transportVars, worker, nvim, accepted>>

(* ... waits for a writer to leave write(), at most kWriterCancelWait: with or
   without a writer in it, the host goes on. *)
WritersIdle ==
    /\ host.at = "cancel"
    /\ host' = [host EXCEPT !.at = IF process.stdinOpen THEN "stopWorker"
                                                       ELSE "join"]
    /\ UNCHANGED <<transportVars, process, worker, nvim, accepted>>

StopWorker ==
    /\ host.at = "stopWorker"
    /\ worker' = [worker EXCEPT !.running = FALSE,
                                !.pending = NothingPending]
    /\ host' = [host EXCEPT !.at = "joinWorker"]
    /\ UNCHANGED <<transportVars, process, nvim, accepted>>

(* The worker is joined.  NvimProcess::shutdown() cancels the writes and waits
   for the writer once more, no longer than before, and closes the pipes with
   or without a writer left in write(); Neovim gets its signal. *)
KillProcess ==
    /\ host.at = "joinWorker" /\ worker.done
    /\ process' = [stdinOpen |-> FALSE, cancelled |-> TRUE,
                   outstayed |-> writer.at = "writing"]
    /\ nvim' = [nvim EXCEPT !.killed = nvim.alive]
    /\ host' = [host EXCEPT !.at = "close"]
    /\ UNCHANGED <<transportVars, worker, accepted>>

JoinThreads ==
    /\ host.at = "join" /\ writer.at = "done" /\ reader.at = "done"
    /\ host' = [host EXCEPT !.at = "done"]
    /\ UNCHANGED <<transportVars, process, worker, nvim, accepted>>

-----------------------------------------------------------------------------
(* Neovim, as far as the transport sees it *)

(* What it has written may still be read. *)
NvimGone == [nvim EXCEPT !.alive = FALSE, !.in = <<>>, !.owes = {},
                         !.dirty = FALSE, !.killed = FALSE, !.size = 0,
                         !.asks = MaxAsks]

(* A Neovim that waits for room to write does not read. *)
NvimReads ==
    LET m == Head(nvim.in)
    IN /\ nvim.alive /\ nvim.in # <<>> /\ Len(nvim.out) < PipeRoom
       /\ nvim' = IF m.kind = "quit" THEN NvimGone ELSE
           [nvim EXCEPT
               !.in = Tail(@), !.read = m.serial,
               !.owes = IF m.kind = "request" THEN @ \cup {m.id} ELSE @,
               !.size = IF m.size # 0 THEN m.size ELSE @,
               !.dirty = @ \/ m.size # 0]
       /\ UNCHANGED <<transportVars, process, worker, host, accepted>>

NvimWrites(output, after) ==
    /\ nvim.alive /\ Len(nvim.out) < PipeRoom
    /\ nvim' = [after EXCEPT !.out = Append(@, output)]
    /\ UNCHANGED <<transportVars, process, worker, host, accepted>>

NvimAnswers ==
    \E id \in nvim.owes :
        NvimWrites(Out("response", id, 0), [nvim EXCEPT !.owes = @ \ {id}])

(* A new size is always drawn, other redraws are bounded. *)
NvimRedraws ==
    /\ nvim.size # 0
    /\ nvim.dirty \/ nvim.redraws < MaxRedraws
    /\ NvimWrites(Out("redraw", nvim.redraws + 1, nvim.size),
                  [nvim EXCEPT !.redraws = @ + 1, !.dirty = FALSE])

(* clipboard_get, of the provider the last startup request installs. *)
NvimAsks ==
    /\ nvim.read >= StartupRequests /\ nvim.asks < MaxAsks
    /\ NvimWrites(Out("ask", nvim.asks + 1, 0),
                  [nvim EXCEPT !.asks = @ + 1])

NvimExits ==
    /\ nvim.alive
    /\ nvim' = NvimGone
    /\ UNCHANGED <<transportVars, process, worker, host, accepted>>

-----------------------------------------------------------------------------
(* Specification *)

Init ==
    /\ running = TRUE /\ readFailed = FALSE
    /\ outbound = [queue |-> <<>>, busy |-> FALSE, stop |-> FALSE,
                   failed |-> FALSE]
    /\ writer = [at |-> "waiting", message |-> NoMessage]
    /\ reader = [at |-> "top", buffer |-> <<>>]
    /\ notifications = <<>>
    /\ responses = {} /\ timedOut = {} /\ nextId = 1
    /\ call = [c \in Callers |-> Idle(TRUE)]
    /\ process = [stdinOpen |-> TRUE, cancelled |-> FALSE,
                  outstayed |-> FALSE]
    /\ worker = [running |-> TRUE, pending |-> NothingPending, done |-> FALSE]
    /\ host = [at |-> "startup", left |-> StartupRequests,
               viewport |-> FirstSize, grid |-> FirstSize, ready |-> FALSE,
               deferred |-> 0, drained |-> 0, resizes |-> 0, inputs |-> 0]
    /\ nvim = [alive |-> TRUE, killed |-> FALSE, in |-> <<>>,
               out |-> <<>>, owes |-> {}, size |-> 0, dirty |-> FALSE,
               redraws |-> 0, asks |-> 0, read |-> 0]
    /\ accepted = 0

RequestStep(c) == SendRequest(c) \/ CheckResponse(c) \/ AwaitResponse(c)

WriterStep ==
    \/ WriterTakes \/ WriterEnds \/ WriterRegisters
    \/ WriterWrites \/ WriterStrays \/ WriteFails
    \/ WriterGivesUp \/ WriterPublishes

ReaderStep ==
    \/ ReaderLoops \/ ReaderReads \/ ReadFails \/ ReaderNotifies
    \/ DispatchResponse \/ DispatchRequest \/ DispatchNotification

WorkerStep == WorkerTakes \/ WorkerExits

ShutdownStep ==
    \/ AskToQuit \/ Close \/ WakeCallers \/ WakeReader \/ StopOutput
    \/ CancelWrites \/ WritersIdle \/ StopWorker \/ KillProcess
    \/ JoinThreads

HostStep == StartupRequest \/ StartupAnswer \/ Pump \/ ShutdownStep

NvimStep == NvimReads \/ NvimAnswers \/ NvimRedraws \/ NvimAsks

Next ==
    \/ \E c \in Callers : RequestStep(c) \/ TimeOut(c)
    \/ WriterStep \/ ReaderStep \/ WorkerStep \/ HostStep \/ HostCloses
    \/ \E size \in Sizes : ViewportChanged(size)
    \/ SendInput
    \/ NvimStep \/ NvimExits

Spec == Init /\ [][Next]_vars

ShuttingDown == host.at \notin {"startup", "calling", "run"}

(* Threads run.  Neovim reads, answers and draws its size, until the host
   shuts down: from then on it may as well hang, though a signal ends it.
   Nothing is said of the request timeout. *)
PromptSpec ==
    /\ Spec
    /\ \A c \in Callers : WF_vars(RequestStep(c))
    /\ WF_vars(WriterStep) /\ WF_vars(ReaderStep) /\ WF_vars(WorkerStep)
    /\ WF_vars(HostStep)
    /\ WF_vars(~ShuttingDown /\ (NvimReads \/ NvimAnswers))
    /\ WF_vars(~ShuttingDown /\ nvim.dirty /\ NvimRedraws)
    /\ WF_vars(nvim.killed /\ NvimExits)

(* While the host shuts down a request also times out. *)
FairSpec ==
    /\ PromptSpec
    /\ \A c \in Callers : WF_vars(ShuttingDown /\ TimeOut(c))

-----------------------------------------------------------------------------
(* Properties *)

(* The transport's variables have their types. *)
NvimTypeOK ==
    /\ running \in BOOLEAN /\ readFailed \in BOOLEAN
    /\ outbound \in [queue : Seq(Message), busy : BOOLEAN, stop : BOOLEAN,
                     failed : BOOLEAN]
    /\ writer \in [at : {"waiting", "loaded", "writing", "failed",
                         "publish", "done"}, message : Message]
    /\ reader \in [at : {"top", "reading", "dispatch", "paused",
                         "ended", "done"}, buffer : Seq(Output)]
    /\ notifications \in Seq(Output) /\ Len(notifications) <= QueueDepth
    /\ responses \subseteq 1..(nextId - 1)
    /\ timedOut \subseteq 1..(nextId - 1)
    /\ Cardinality(timedOut) <= MaxTimedOutIds
    /\ call \in [Callers -> [at : {"idle", "begun", "waiting", "checked",
                                   "asleep"},
                             id : Nat, size : Sizes \cup {0}, ok : BOOLEAN]]
    /\ worker \in [running : BOOLEAN, pending : Sizes \cup {0},
                   done : BOOLEAN]
    /\ nvim.in \in Seq(Message) /\ nvim.out \in Seq(Output)

(* Consecutive(ids, n): ids count up from n + 1. *)
Consecutive(ids, n) == \A i \in DOMAIN ids : ids[i] = n + i

Serials(messages) == [i \in DOMAIN messages |-> messages[i].serial]

(* Where the redraw batches are in a sequence of outputs. *)
Redraws(outputs) == {i \in DOMAIN outputs : outputs[i].kind = "redraw"}

(* Redraw batches are never lost or reordered while the transport runs: what
   the main thread has drained, what is queued, what the reader holds and what
   is still in the pipe are together all that Neovim sent, in its order, and
   what is queued stays without a gap even when the transport closes. *)
NoRedrawLost ==
    LET all == notifications \o reader.buffer \o nvim.out
    IN /\ \A i \in DOMAIN notifications :
             notifications[i].id = host.drained + i
       /\ running =>
             /\ \A i, j \in Redraws(all) : i < j => all[i].id < all[j].id
             /\ {all[i].id : i \in Redraws(all)}
                    = (host.drained + 1)..nvim.redraws

(* Neovim reads the messages the transport accepted, all of them and in the
   order it accepted them, until a write fails or the pipe is closed. *)
WireOrder ==
    LET written == nvim.in
        taken == IF outbound.busy THEN <<writer.message>> ELSE <<>>
        all == written \o taken \o outbound.queue
    IN /\ Consecutive(Serials(written), nvim.read)
       /\ nvim.alive /\ process.stdinOpen /\ ~outbound.failed =>
                              /\ Consecutive(Serials(all), nvim.read)
                              /\ Len(all) = accepted - nvim.read

(* Nobody enters write() on the descriptor that shutdown() closed, which
   another file may have got by then: a thread that is inside was so already
   when the last wait for it was over, and outstayed all of that wait.  That
   is what the code comment promises, "wait (bounded) for it to leave
   write()"; a thread that did outstay the wait may write to the other file. *)
NoEntryAfterClose ==
    writer.at = "writing" /\ ~process.stdinOpen => process.outstayed

(* A stored response has a request that still waits for it, or belongs to
   one that was given up and whose id the bounded set has dropped: responses_
   does not fill up with what nobody takes. *)
ResponsesClaimed ==
    \A id \in responses :
        \/ \E c \in Callers : call[c].id = id /\ call[c].at # "idle"
        \/ /\ Cardinality(timedOut) = MaxTimedOutIds
           /\ \A t \in timedOut : id < t

InRequest(c) == call[c].at # "idle"
Healthy == host.at = "run" /\ nvim.alive /\ ~readFailed

(* While the main thread drains and Neovim works, a request of the worker
   ends by itself, whatever is queued, paused or full in between: no circle
   of full queues and pipes needs the timeout to break it. *)
Answered == InRequest("worker") ~> (~InRequest("worker") \/ ~Healthy)

(* The host's shutdown ends, whatever Neovim does or stops doing. *)
ShutdownEnds == ShuttingDown ~> (host.at = "done")

(* "close() unblocks an in-flight request without waiting for timeout". *)
CloseUnblocks == ShuttingDown ~> ~InRequest("worker")

(* The grid settles on the latest size of the window, unless a request for
   it failed. *)
SettlesOnLatest ==
    []<>(host.grid = host.viewport \/ ~Healthy \/ ~call["worker"].ok)

=============================================================================
