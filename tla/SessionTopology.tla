--------------------------- MODULE SessionTopology ---------------------------
(***************************************************************************)
(* A client's copy of the topology of a shared Session: RemoteSessionClient *)
(* with its worker thread, the topology commands and events that           *)
(* RemoteSessionCoordinator carries for it, the mailbox the user interface *)
(* empties (App::consume_remote_session_state) and, on the server, the     *)
(* revision check and the cache of completed commands of TopologyService.  *)
(*                                                                         *)
(* Four actors: the user interface, the coordinator's thread, the worker,  *)
(* the state thread of the server.  While the stream carries commands the  *)
(* coordinator sends them; when it is gone the worker does, one request at *)
(* a time, beside the coordinator that polls.  A topology is the sequence  *)
(* of the changes made to it.  A message may be lost, a request given up   *)
(* may be executed all the same, a server may be replaced by one that      *)
(* restores a checkpoint, whose revisions start again at one.              *)
(***************************************************************************)
EXTENDS Naturals, Sequences, FiniteSets, SequencesExt

CONSTANTS
    MaxCommands,        \* bound: commands of this client, 1..MaxCommands
    MaxOthers,          \* bound: changes made by other clients
    MaxFaults,          \* bound: lost streams, replies and handshakes
    MaxRestarts,        \* bound: replacements of the server
    CompletedLimit,     \* kTopologyCompletedCommandLimit
    Refusable,          \* commands the topology may be unable to apply
    LargeResults,       \* commands whose results do not fit the stream
    FirstModes          \* transport modes the coordinator may start in

ASSUME SessionTopologyAssumption ==
    /\ MaxCommands \in Nat /\ MaxOthers \in Nat
    /\ MaxFaults \in Nat /\ MaxRestarts \in Nat
    /\ CompletedLimit \in Nat \ {0}
    /\ Refusable \subseteq 1..MaxCommands
    /\ LargeResults \subseteq 1..MaxCommands
    /\ FirstModes \subseteq {"stream", "poll"}

VARIABLES
    server,         \* snapshot_ and completed_ of the TopologyService
    applied,        \* history: commands this server, some server applied
    identity,       \* the server epoch ClientRecoveryState knows
    mode,           \* transport_mode_
    streaming,      \* stream_commands_active_ and the dispatcher
    linked,         \* the stream is open
    outgoing, sent, \* outgoing_stream_commands_; the policy's commands
    policy,         \* last_poll_ and acknowledgement_pending_
    up, down,       \* frames on the stream and in its queues
    peer,           \* the server's end: awaiting_update and the request
    queue,          \* commands_ of the RemoteSessionClient
    worker,         \* its thread, with the request it waits for
    view,           \* revision of the worker's TopologyClient
    late,           \* requests given up that may still be executed
    feed,           \* the coordinator with a response it accepts
    cursor,         \* session_poll_epoch_, topology_poll_revision_
    mailbox,        \* published_
    ui,             \* the topology shown, and activations that wait for one
    answers,        \* what the user was told of each command
    issued, others, faults, restarts

clientVars == <<mode, streaming, linked, outgoing, sent, policy>>
wireVars == <<up, down, peer>>
workerVars == <<queue, worker, view, late>>
uiVars == <<ui, answers>>
bounds == <<issued, others, faults, restarts>>
vars == <<server, applied, identity, clientVars, wireVars, workerVars,
          feed, cursor, mailbox, uiVars, bounds>>

Commands == 1..MaxCommands

-----------------------------------------------------------------------------
(* Data.                                                                    *)

Snapshot == [epoch |-> server.epoch, rev |-> server.rev, log |-> server.log]

NoSnapshot == [epoch |-> 0, rev |-> 0, log |-> <<>>]

(* remember(): the oldest entry makes room for the new one.                 *)
Remember(done, c) ==
    Append(IF Len(done) >= CompletedLimit THEN Tail(done) ELSE done, c)

(* A command the policy tracks, in the order of send_order.                 *)
Tracked(c, expected, retry) ==
    [cmd |-> c, expected |-> expected, retry |-> retry, deferred |-> FALSE]

CommandFrame(c, expected) ==
    [kind |-> "command", cmd |-> c, rev |-> expected]

UpdateFrame(rev) == [kind |-> "update", cmd |-> 0, rev |-> rev]

ResultFrame(c, status, snap) ==
    [kind |-> "result", cmd |-> c, status |-> status, snap |-> snap]

EventsFrame(snap) ==
    [kind |-> "events", cmd |-> 0, status |-> "ok", snap |-> snap]

IdleWorker ==
    [pc |-> "idle", cmd |-> 0, attempt |-> 0, expected |-> 0, token |-> 0,
     status |-> "none", snap |-> NoSnapshot]

IdleFeed == [step |-> "idle", epoch |-> 0, after |-> 0, snap |-> NoSnapshot]

EmptyMailbox == [topology |-> NoSnapshot, commands |-> <<>>,
                 changed |-> FALSE]

Completion(c, ok, rev) == [cmd |-> c, ok |-> ok, rev |-> rev]

First(set) == CHOOSE i \in set : \A j \in set : i <= j

-----------------------------------------------------------------------------
(* TopologyService::command(): a command already completed is answered from *)
(* the cache before its revision is compared.                               *)

CompletedNever(c) == FALSE

Completed(c) == c \in ToSet(server.done)

Execute(c, expected, status) ==
    \/ /\ Completed(c) /\ status = "ok"
       /\ UNCHANGED <<server, applied>>
    \/ /\ ~Completed(c) /\ expected # server.rev
       /\ status = "revision_conflict"
       /\ UNCHANGED <<server, applied>>
    \/ /\ ~Completed(c) /\ expected = server.rev
       /\ c \in Refusable /\ status = "refused"
       /\ UNCHANGED <<server, applied>>
    \/ /\ ~Completed(c) /\ expected = server.rev
       /\ status = "ok"
       /\ server' = [server EXCEPT !.rev = @ + 1, !.log = Append(@, c),
                                   !.done = Remember(@, c)]
       /\ applied' = [now |-> applied.now \cup {c},
                       ever |-> applied.ever \cup {c}]

(* Any other client's command.                                              *)
OtherCommand ==
    /\ others < MaxOthers
    /\ server' = [server EXCEPT !.rev = @ + 1, !.log = Append(@, 0),
                                !.done = Remember(@, 0)]
    /\ others' = others + 1
    /\ UNCHANGED <<applied, identity, clientVars, wireVars, workerVars,
                   feed, cursor, mailbox, uiVars, issued, faults, restarts>>

(* A new server restores what a checkpoint holds, at revision one, without  *)
(* the commands that were completed.                                        *)
Restart ==
    /\ restarts < MaxRestarts
    /\ \E k \in 0..Len(server.log) :
          server' = [epoch |-> server.epoch + 1, rev |-> 1,
                     log |-> SubSeq(server.log, 1, k), done |-> <<>>]
    /\ applied' = [applied EXCEPT !.now = {}]
    /\ linked' = FALSE /\ up' = <<>> /\ late' = {}
    /\ down' \in {down, <<>>}
    /\ worker' = IF worker.pc \in {"asked", "refreshing"}
                 THEN [worker EXCEPT !.pc = "lost"] ELSE worker
    /\ feed' = IF feed.step = "asked" THEN [feed EXCEPT !.step = "lost"]
               ELSE feed
    /\ restarts' = restarts + 1
    /\ UNCHANGED <<identity, mode, streaming, outgoing, sent,
                   policy, peer, queue, view, cursor, mailbox, uiVars,
                   issued, others, faults>>

-----------------------------------------------------------------------------
(* What RemoteSessionClient publishes, each under its mutex.                *)

(* publish_command_completion(): a topology that came with the answer       *)
(* replaces the one in the mailbox.                                         *)
PublishCompletion(c, ok, snap) ==
    /\ mailbox' = [mailbox EXCEPT
           !.topology = IF ok THEN snap ELSE @,
           !.commands = Append(@, Completion(c, ok, snap.rev))]
    /\ cursor' = [cursor EXCEPT
           !.rev = IF ok /\ snap.rev > @ THEN snap.rev ELSE @]

(* publish_topology()                                                       *)
PublishTopology(snap) == mailbox' = [mailbox EXCEPT !.topology = snap]

(* invalidate_session_poll_cursors()                                        *)
Invalidate(epoch) ==
    /\ cursor' = [epoch |-> epoch, rev |-> 0]
    /\ mailbox' = [EmptyMailbox EXCEPT !.changed = cursor.epoch # epoch]
    /\ identity' = epoch

-----------------------------------------------------------------------------
(* The user interface.                                                      *)

(* enqueue(): the dispatcher of the stream, or the worker's queue.          *)
IssueCommand ==
    /\ issued < MaxCommands
    /\ issued' = issued + 1
    /\ IF streaming
       THEN /\ outgoing' = Append(outgoing,
                               [cmd |-> issued', expected |-> cursor.rev])
            /\ UNCHANGED queue
       ELSE queue' = Append(queue, issued') /\ UNCHANGED outgoing
    /\ UNCHANGED <<server, applied, identity, mode, streaming, linked,
                   sent, policy, wireVars, worker, view, late, feed, cursor,
                   mailbox, uiVars, others, faults, restarts>>

(* A topology is shown when it is newer than the one shown, or the first    *)
(* since the server changed.                                                *)
ShowsAnything(accept, snap) == snap # NoSnapshot

Shows(accept, snap) ==
    snap # NoSnapshot /\ (accept \/ snap.rev > ui.shown.rev)

(* Completed commands wait until their revision is shown.                   *)
WaitsShort(d, shown) == d.rev > shown.rev + 1

Waits(d, shown) == d.rev > shown.rev

Waiting ==
    (IF mailbox.changed THEN {} ELSE ui.waiting)
        \cup {d \in ToSet(mailbox.commands) : d.ok}

(* consume_remote_session_state()                                           *)
Consume ==
    /\ mailbox # EmptyMailbox
    /\ LET accept == ui.accept \/ mailbox.changed
           shows == Shows(accept, mailbox.topology)
           shown == IF shows THEN mailbox.topology ELSE ui.shown
       IN  ui' = [shown |-> shown, accept |-> accept /\ ~shows,
                  waiting |-> {d \in Waiting : Waits(d, shown)}]
    /\ answers' = [c \in Commands |->
           LET told == {d \in ToSet(mailbox.commands) : d.cmd = c}
           IN  IF told = {} THEN answers[c]
               ELSE IF \E d \in told : d.ok THEN "ok" ELSE "failed"]
    /\ mailbox' = EmptyMailbox
    /\ UNCHANGED <<server, applied, identity, clientVars, wireVars,
                   workerVars, feed, cursor, bounds>>

-----------------------------------------------------------------------------
(* The coordinator while the stream carries commands.                       *)

StreamTurn == mode = "stream" /\ feed.step = "idle"

(* take_topology_retry(): the oldest deferred command, once the client has  *)
(* seen a newer revision than the command was sent with.                    *)
Deferred == {i \in DOMAIN sent : sent[i].deferred}

RetriedNever == <<>>

Retried ==
    IF Deferred # {} /\ cursor.rev > sent[First(Deferred)].expected
    THEN <<First(Deferred)>> ELSE <<>>

(* send_stream_commands(): one deferred command, then what the user asked   *)
(* for, each tracked before it is written.                                  *)
SendCommands ==
    /\ StreamTurn /\ streaming /\ linked
    /\ Retried # <<>> \/ outgoing # <<>>
    /\ LET again == [i \in DOMAIN Retried |->
                       Tracked(sent[Retried[i]].cmd, cursor.rev, 1)]
           fresh == [i \in DOMAIN outgoing |->
                       Tracked(outgoing[i].cmd, outgoing[i].expected, 0)]
           turn == again \o fresh
           kept == IF Retried = <<>> THEN sent
                   ELSE RemoveAt(sent, Retried[1])
       IN  /\ sent' = kept \o turn
           /\ up' = up \o [i \in DOMAIN turn |->
                              CommandFrame(turn[i].cmd, turn[i].expected)]
    /\ outgoing' = <<>>
    /\ UNCHANGED <<server, applied, identity, mode, streaming, linked,
                   policy, down, peer, workerVars, feed, cursor, mailbox,
                   uiVars, bounds>>

(* update_stream(): acknowledges an event, or tells of a new revision.      *)
SendUpdate ==
    /\ StreamTurn /\ linked
    /\ policy.ack \/ policy.last # cursor.rev
    /\ up' = Append(up, UpdateFrame(cursor.rev))
    /\ policy' = [last |-> cursor.rev, ack |-> FALSE]
    /\ UNCHANGED <<server, applied, identity, mode, streaming, linked,
                   outgoing, sent, down, peer, workerVars, feed, cursor,
                   mailbox, uiVars, bounds>>

(* What becomes of a tracked command once its result is there.              *)
RetriesOnShortControl(status) == status = "command_result_too_large"

Defers(i, status) == status = "revision_conflict" /\ sent[i].retry = 0

(* Where the policy tracks the command a result is for.                     *)
Carried(c) ==
    First({i \in DOMAIN sent : sent[i].cmd = c /\ ~sent[i].deferred})

(* accept_command_result() and apply_stream_command_result()                *)
AcceptResult ==
    /\ StreamTurn /\ down # <<>> /\ Head(down).kind = "result"
    /\ LET frame == Head(down)
           i == Carried(frame.cmd)
           retries == RetriesOnShortControl(frame.status)
           defers == ~retries /\ Defers(i, frame.status)
       IN  \/ /\ retries
              /\ sent' = RemoveAt(sent, i)
              /\ queue' = Append(queue, frame.cmd)
              /\ UNCHANGED <<cursor, mailbox>>
           \/ /\ defers
              /\ sent' = [sent EXCEPT ![i].deferred = TRUE, ![i].retry = 1]
              /\ UNCHANGED <<queue, cursor, mailbox>>
           \/ /\ ~retries /\ ~defers
              /\ sent' = RemoveAt(sent, i)
              /\ PublishCompletion(frame.cmd, frame.status = "ok",
                                   frame.snap)
              /\ UNCHANGED queue
    /\ down' = Tail(down)
    /\ UNCHANGED <<server, applied, identity, mode, streaming, linked,
                   outgoing, policy, up, peer, worker, view, late, feed,
                   uiVars, bounds>>

(* accept_stream_frames(): an Events frame, accepted as a poll's response.  *)
AcceptEvents ==
    /\ StreamTurn /\ down # <<>> /\ Head(down).kind = "events"
    /\ feed' = [IdleFeed EXCEPT !.step = "accept", !.snap = Head(down).snap,
                                !.epoch = Head(down).snap.epoch]
    /\ policy' = [policy EXCEPT !.ack = TRUE]
    /\ down' = Tail(down)
    /\ UNCHANGED <<server, applied, identity, mode, streaming, linked,
                   outgoing, sent, up, peer, workerVars, cursor, mailbox,
                   uiVars, bounds>>

(* The stream breaks, or its heartbeat is late: some frames arrived.        *)
LoseStream ==
    /\ mode = "stream" /\ linked /\ faults < MaxFaults
    /\ linked' = FALSE /\ faults' = faults + 1
    /\ down' \in {down, <<>>}
    /\ UNCHANGED <<server, applied, identity, mode, streaming, outgoing,
                   sent, policy, up, peer, workerVars, feed, cursor,
                   mailbox, uiVars, issued, others, restarts>>

(* fall_back_from_stream(): new commands go to the worker first ...         *)
FallBack ==
    /\ StreamTurn /\ ~linked /\ streaming
    /\ streaming' = FALSE
    /\ UNCHANGED <<server, applied, identity, mode, linked, outgoing,
                   sent, policy, wireVars, workerVars, feed, cursor,
                   mailbox, uiVars, bounds>>

(* ... then abandon_stream_commands() moves the others behind them, in the  *)
(* order they were sent, and the coordinator polls.                         *)
AbandonedSent == [i \in DOMAIN sent |-> sent[i].cmd]

Abandoned == [i \in DOMAIN sent |-> sent[i].cmd]
                \o [i \in DOMAIN outgoing |-> outgoing[i].cmd]

AbandonCommands ==
    /\ StreamTurn /\ ~streaming
    /\ queue' = queue \o Abandoned
    /\ sent' = <<>> /\ outgoing' = <<>> /\ down' = <<>>
    /\ mode' = "poll"
    /\ UNCHANGED <<server, applied, identity, streaming, linked, policy,
                   up, peer, worker, view, late, feed, cursor, mailbox,
                   uiVars, bounds>>

-----------------------------------------------------------------------------
(* The stream at the server.                                                *)

(* reader_loop(): an update is taken in as soon as it is read, commands     *)
(* before it wait for the state thread.                                     *)
StillAwaiting(update) == [peer EXCEPT !.rev = update.rev]

Acknowledged(update) == [awaiting |-> FALSE, rev |-> update.rev]

ReadUpdate ==
    /\ linked
    /\ LET updates == {i \in DOMAIN up : up[i].kind = "update"}
       IN  /\ updates # {}
           /\ peer' = Acknowledged(up[First(updates)])
           /\ up' = RemoveAt(up, First(updates))
    /\ UNCHANGED <<server, applied, identity, clientVars, down,
                   workerVars, feed, cursor, mailbox, uiVars, bounds>>

(* pump(): a command; its result overtakes an event nobody has written yet. *)
StreamCommand ==
    /\ up # <<>> /\ Head(up).kind = "command"
    /\ \E status \in {"ok", "refused", "revision_conflict"} :
          LET c == Head(up).cmd
              answer == IF status = "ok" /\ c \in LargeResults
                        THEN ResultFrame(c, "command_result_too_large",
                                         NoSnapshot)
                        ELSE ResultFrame(c, status,
                                IF status = "ok" THEN Snapshot'
                                ELSE NoSnapshot)
              pending == down # <<>> /\ Last(down).kind = "events"
          IN  /\ Execute(c, Head(up).rev, status)
              /\ IF ~linked THEN UNCHANGED down
                 ELSE \/ down' = Append(down, answer)
                      \/ pending /\ down' = Append(Front(down), answer)
                                            \o <<Last(down)>>
    /\ up' = Tail(up)
    /\ UNCHANGED <<identity, clientVars, peer, workerVars, feed, cursor,
                   mailbox, uiVars, bounds>>

(* pump(): the topology, unless the client has it or is to answer first.    *)
SendEvents ==
    /\ linked /\ ~peer.awaiting /\ peer.rev # server.rev
    /\ down' = Append(down, EventsFrame(Snapshot))
    /\ peer' = [peer EXCEPT !.awaiting = TRUE]
    /\ UNCHANGED <<server, applied, identity, clientVars, up, workerVars,
                   feed, cursor, mailbox, uiVars, bounds>>

(* The reader learns that the client is gone.                               *)
SeeClose ==
    /\ ~linked /\ up # <<>>
    /\ up' = <<>>
    /\ UNCHANGED <<server, applied, identity, clientVars, down, peer,
                   workerVars, feed, cursor, mailbox, uiVars, bounds>>

-----------------------------------------------------------------------------
(* The coordinator without a stream: session.poll.                          *)

PollBegins ==
    /\ mode = "poll" /\ feed.step = "idle"
    /\ feed' = [IdleFeed EXCEPT !.step = "asked", !.epoch = identity,
                                !.after = cursor.rev]
    /\ UNCHANGED <<server, applied, identity, clientVars, wireVars,
                   workerVars, cursor, mailbox, uiVars, bounds>>

(* The server answers; the channel has made itself known to a new one by    *)
(* then, and the request still names the old one.                           *)
ServePoll ==
    /\ feed.step = "asked"
    /\ feed' = IF feed.epoch # server.epoch
               THEN [feed EXCEPT !.step = "stale"]
               ELSE [feed EXCEPT !.step = "accept",
                        !.snap = IF feed.after = server.rev THEN NoSnapshot
                                 ELSE Snapshot]
    /\ identity' = server.epoch
    /\ UNCHANGED <<server, applied, clientVars, wireVars, workerVars,
                   cursor, mailbox, uiVars, bounds>>

(* No response: the poll is repeated later.                                 *)
PollFails ==
    /\ \/ feed.step = "lost" /\ UNCHANGED faults
       \/ /\ feed.step = "asked" /\ faults < MaxFaults
          /\ faults' = faults + 1
    /\ feed' = IdleFeed
    /\ UNCHANGED <<server, applied, identity, clientVars, wireVars,
                   workerVars, cursor, mailbox, uiVars, issued, others,
                   restarts>>

(* refresh_epoch_bounded(), then the cursors start again.                   *)
AcceptStale ==
    /\ feed.step = "stale"
    /\ Invalidate(server.epoch)
    /\ feed' = IdleFeed
    /\ UNCHANGED <<server, applied, clientVars, wireVars, workerVars,
                   uiVars, bounds>>

(* accept_session_response() with accept_session_poll_epoch() ...           *)
AcceptEpoch ==
    /\ feed.step = "accept"
    /\ IF feed.epoch = cursor.epoch THEN UNCHANGED <<cursor, mailbox, identity>>
       ELSE Invalidate(feed.epoch)
    /\ feed' = IF feed.snap = NoSnapshot THEN IdleFeed
               ELSE [feed EXCEPT !.step = "revision"]
    /\ UNCHANGED <<server, applied, clientVars, wireVars, workerVars,
                   uiVars, bounds>>

(* ... then accept_session_poll_topology(): the revision under one lock ... *)
AcceptRevision ==
    /\ feed.step = "revision"
    /\ cursor' = [cursor EXCEPT !.rev = feed.snap.rev]
    /\ feed' = [feed EXCEPT !.step = "publish"]
    /\ UNCHANGED <<server, applied, identity, clientVars, wireVars,
                   workerVars, mailbox, uiVars, bounds>>

(* ... and the topology under the next.                                     *)
AcceptTopology ==
    /\ feed.step = "publish"
    /\ PublishTopology(feed.snap)
    /\ feed' = IdleFeed
    /\ UNCHANGED <<server, applied, identity, clientVars, wireVars,
                   workerVars, cursor, uiVars, bounds>>

-----------------------------------------------------------------------------
(* The worker of RemoteSessionClient: one command over the control endpoint.*)

Call(attempt, revision) ==
    [worker EXCEPT !.pc = "asked", !.attempt = attempt,
                   !.expected = revision, !.token = identity]

WorkerTakes ==
    /\ worker.pc = "idle" /\ queue # <<>>
    /\ worker' = [Call(1, view) EXCEPT !.cmd = Head(queue)]
    /\ queue' = Tail(queue)
    /\ UNCHANGED <<server, applied, identity, clientVars, wireVars,
                   view, late, feed, cursor, mailbox, uiVars, bounds>>

(* ServerControlChannel::request(): a new server does not know the token;   *)
(* the client makes itself known and sends the same request again ...       *)
Handshake ==
    /\ worker.pc = "asked" /\ worker.token # server.epoch
    /\ identity' = server.epoch
    /\ worker' = [worker EXCEPT !.token = server.epoch]
    /\ UNCHANGED <<server, applied, clientVars, wireVars, queue, view,
                   late, feed, cursor, mailbox, uiVars, bounds>>

(* ... or cannot, which ends the command: server_handshake_failed.          *)
HandshakeFails ==
    /\ worker.pc = "asked" /\ worker.token # server.epoch
    /\ faults < MaxFaults /\ faults' = faults + 1
    /\ worker' = [worker EXCEPT !.pc = "publish",
                                !.status = "server_handshake_failed"]
    /\ UNCHANGED <<server, applied, identity, clientVars, wireVars,
                   queue, view, late, feed, cursor, mailbox, uiVars,
                   issued, others, restarts>>

ServeCommand ==
    /\ worker.pc = "asked" /\ worker.token = server.epoch
    /\ \E status \in {"ok", "refused", "revision_conflict"} :
          /\ Execute(worker.cmd, worker.expected, status)
          /\ worker' = [worker EXCEPT !.pc = "answered", !.status = status,
                           !.snap = IF status = "ok" THEN Snapshot'
                                    ELSE NoSnapshot]
    /\ UNCHANGED <<identity, clientVars, wireVars, queue, view, late, feed,
                   cursor, mailbox, uiVars, bounds>>

(* execute_command(): a conflict is followed by a fresh snapshot.           *)
WorkerAnswered ==
    /\ worker.pc = "answered"
    /\ worker' = [worker EXCEPT !.pc =
           IF worker.status = "revision_conflict" THEN "refreshing"
           ELSE "publish"]
    /\ view' = IF worker.status = "ok" THEN worker.snap.rev ELSE view
    /\ UNCHANGED <<server, applied, identity, clientVars, wireVars,
                   queue, late, feed, cursor, mailbox, uiVars, bounds>>

(* TopologyClient::refresh()                                                *)
Refresh ==
    /\ worker.pc = "refreshing"
    /\ identity' = server.epoch
    /\ view' = server.rev
    /\ worker' = [worker EXCEPT !.pc = "refreshed", !.snap = Snapshot]
    /\ UNCHANGED <<server, applied, clientVars, wireVars, queue, late,
                   feed, cursor, mailbox, uiVars, bounds>>

RefreshFails ==
    /\ worker.pc = "refreshing" /\ faults < MaxFaults
    /\ faults' = faults + 1
    /\ worker' = [worker EXCEPT !.pc = "publish"]
    /\ UNCHANGED <<server, applied, identity, clientVars, wireVars,
                   queue, view, late, feed, cursor, mailbox, uiVars,
                   issued, others, restarts>>

(* The snapshot is published, and the command tried a second time.          *)
TryAgain ==
    /\ worker.pc = "refreshed"
    /\ PublishTopology(worker.snap)
    /\ worker' = IF worker.attempt = 1 THEN Call(2, view)
                 ELSE [worker EXCEPT !.pc = "publish"]
    /\ UNCHANGED <<server, applied, identity, clientVars, wireVars,
                   queue, view, late, feed, cursor, uiVars, bounds>>

WorkerPublishes ==
    /\ worker.pc = "publish"
    /\ PublishCompletion(worker.cmd, worker.status = "ok", worker.snap)
    /\ worker' = IdleWorker
    /\ UNCHANGED <<server, applied, identity, clientVars, wireVars,
                   queue, view, late, feed, uiVars, bounds>>

(* No answer in time: the command goes back to the front of the queue; the  *)
(* server may still execute the request.                                    *)
PutBackTwice(c) == <<c, c>> \o queue

PutBack(c) == <<c>> \o queue

GiveUp ==
    /\ \/ worker.pc = "lost" /\ UNCHANGED <<faults, late>>
       \/ /\ worker.pc \in {"asked", "answered"} /\ faults < MaxFaults
          /\ faults' = faults + 1
          /\ IF worker.pc = "asked"
             THEN late' \in {late, late \cup {[cmd |-> worker.cmd,
                                               expected |-> worker.expected]}}
             ELSE UNCHANGED late
    /\ worker' = [IdleWorker EXCEPT !.pc = "probing"]
    /\ queue' = PutBack(worker.cmd)
    /\ UNCHANGED <<server, applied, identity, clientVars, wireVars,
                   view, feed, cursor, mailbox, uiVars, issued, others,
                   restarts>>

(* refresh_epoch(): has the server been replaced?                           *)
Probe ==
    /\ worker.pc = "probing"
    /\ IF identity # server.epoch
       THEN /\ mailbox' = [EmptyMailbox EXCEPT !.changed = TRUE]
            /\ cursor' = [cursor EXCEPT !.rev = 0]
       ELSE UNCHANGED <<mailbox, cursor>>
    /\ identity' = server.epoch
    /\ worker' = IdleWorker
    /\ UNCHANGED <<server, applied, clientVars, wireVars, queue, view,
                   late, feed, uiVars, bounds>>

(* A request its client has given up is executed after all.                 *)
ServeLate ==
    \E call \in late :
        /\ \E status \in {"ok", "refused", "revision_conflict"} :
              Execute(call.cmd, call.expected, status)
        /\ late' = late \ {call}
        /\ UNCHANGED <<identity, clientVars, wireVars, queue, worker, view,
                       feed, cursor, mailbox, uiVars, bounds>>

-----------------------------------------------------------------------------
Init ==
    /\ server = [epoch |-> 1, rev |-> 1, log |-> <<>>, done |-> <<>>]
    /\ applied = [now |-> {}, ever |-> {}] /\ identity = 1
    /\ mode \in FirstModes /\ streaming = (mode = "stream")
    /\ linked = (mode = "stream")
    /\ outgoing = <<>> /\ sent = <<>>
    /\ policy = [last |-> 1, ack |-> FALSE]
    /\ up = <<>> /\ down = <<>>
    /\ peer = [awaiting |-> FALSE, rev |-> 1]
    /\ queue = <<>> /\ worker = IdleWorker /\ view = 0 /\ late = {}
    /\ feed = IdleFeed /\ cursor = [epoch |-> 1, rev |-> 1]
    /\ mailbox = EmptyMailbox
    /\ ui = [shown |-> Snapshot, accept |-> FALSE, waiting |-> {}]
    /\ answers = [c \in Commands |-> "none"]
    /\ issued = 0 /\ others = 0 /\ faults = 0 /\ restarts = 0

StateThread == ReadUpdate \/ StreamCommand \/ SendEvents \/ SeeClose
               \/ ServePoll \/ ServeCommand

Coordinator ==
    \/ SendCommands \/ SendUpdate \/ AcceptResult \/ AcceptEvents
    \/ FallBack \/ AbandonCommands \/ PollBegins \/ PollFails \/ AcceptStale
    \/ AcceptEpoch \/ AcceptRevision \/ AcceptTopology

Worker ==
    \/ WorkerTakes \/ Handshake \/ HandshakeFails \/ WorkerAnswered
    \/ Refresh \/ RefreshFails \/ TryAgain \/ WorkerPublishes \/ GiveUp
    \/ Probe

Next ==
    \/ IssueCommand \/ Consume \/ OtherCommand \/ Restart \/ LoseStream
    \/ ServeLate \/ StateThread \/ Coordinator \/ Worker

Spec == Init /\ [][Next]_vars

(* The scheduler runs every thread; the state thread serves the stream and  *)
(* each request in its turn.                                                *)
FairSpec ==
    /\ Spec
    /\ WF_vars(Consume) /\ WF_vars(Coordinator) /\ WF_vars(Worker)
    /\ WF_vars(ServePoll) /\ WF_vars(ServeCommand)
    /\ WF_vars(ReadUpdate \/ StreamCommand \/ SendEvents)

-----------------------------------------------------------------------------
(* Properties.                                                              *)

Revisions == 1..(MaxCommands + MaxOthers + 1)
Snapshots ==
    {NoSnapshot} \cup
    [epoch : 1..(MaxRestarts + 1), rev : Revisions,
     log : BoundedSeq(0..MaxCommands, MaxCommands + MaxOthers)]

(* Type correctness: what is sent, queued, published and shown is of its    *)
(* kind, a stream that carries commands belongs to the stream mode, and the *)
(* cache of completed commands keeps to its limit.                          *)
SessionTopologyTypeOK ==
    /\ server.epoch \in 1..(MaxRestarts + 1) /\ server.rev \in Revisions
    /\ ToSet(server.log) \subseteq 0..MaxCommands
    /\ Len(server.done) <= CompletedLimit
    /\ applied.now \subseteq applied.ever /\ applied.ever \subseteq Commands
    /\ identity \in 1..server.epoch
    /\ mode \in {"stream", "poll"} /\ streaming \in BOOLEAN
    /\ linked \in BOOLEAN /\ (streaming => mode = "stream")
    /\ Len(sent) + Len(outgoing) + Len(queue) <= issued
    /\ \A i \in DOMAIN sent : sent[i].deferred => sent[i].retry = 1
    /\ policy.last \in {0} \cup Revisions
    /\ peer.rev \in {0} \cup Revisions
    /\ cursor.epoch \in 1..identity /\ cursor.rev \in {0} \cup Revisions
    /\ view \in {0} \cup Revisions
    /\ feed.step \in {"idle", "asked", "lost", "stale", "accept", "revision",
                      "publish"}
    /\ worker.pc \in {"idle", "asked", "lost", "answered", "refreshing",
                      "refreshed", "publish", "probing"}
    /\ answers \in [Commands -> {"none", "ok", "failed"}]

(* Every command the user asked for is in exactly one place of the client,  *)
(* from the queue it enters to the answer it gets: none is forgotten and    *)
(* none is carried twice, whatever falls back, conflicts or is given up.    *)
(* Only the change to another server may drop an answer.                    *)
Count(seq, c) == Cardinality({i \in DOMAIN seq : seq[i].cmd = c})

Places(c) ==
    Count(outgoing, c) + Count(sent, c)
    + Cardinality({i \in DOMAIN queue : queue[i] = c})
    + (IF worker.cmd = c THEN 1 ELSE 0)
    + Count(mailbox.commands, c)
    + (IF answers[c] # "none" THEN 1 ELSE 0)

HeldOnce ==
    \A c \in 1..issued :
        Places(c) = 1 \/ (restarts > 0 /\ Places(c) = 0)

(* The Session keeps what CommandLog promises: at most one application per  *)
(* server, at most one answer, and success only for what was applied.       *)
Promise == INSTANCE CommandLog WITH
    log <- server.log, asked <- 1..issued, applied <- applied.now,
    everApplied <- applied.ever

KeepsPromise == Promise!LogSpec

(* A completed command takes effect in the user interface (a new tab is     *)
(* activated) only when the topology shown contains it.                     *)
ActivatedSeen ==
    [][Consume => \A d \in Waiting \ ui'.waiting :
                     d.cmd \in ToSet(ui'.shown.log) \/ restarts > 0]_vars

(* What is shown never goes back while the server stays the same.           *)
ShownForward ==
    [][\/ restarts > 0
       \/ /\ ui'.shown.epoch = ui.shown.epoch
          /\ ui'.shown.rev >= ui.shown.rev]_vars

(* Every command is answered, unless the server is replaced meanwhile.      *)
AllAnswered ==
    \A c \in Commands : issued >= c ~> answers[c] # "none" \/ restarts > 0

(* The user interface ends up showing the topology of the server.           *)
Converges == <>[](ui.shown = Snapshot)

(* ... as long as the coordinator alone feeds it over the stream.           *)
StreamConverges ==
    [](streaming /\ linked /\ worker.pc = "idle") => Converges
=============================================================================
