---------------------------- MODULE SessionPoll ----------------------------
(***************************************************************************)
(* SessionPollService: the one bounded response that carries a client's    *)
(* topology, agents and terminals, and the schedule by which they take     *)
(* their turns.                                                            *)
(*                                                                         *)
(* Sizes are in arbitrary units.  A terminal is what it has for the client:*)
(* a snapshot to attach or resynchronise by, or its queued events, by      *)
(* size; the client has applied a response before it polls again, so what  *)
(* was sent is gone.  Hidden terminals, which cost nothing, terminals the  *)
(* session does not have, and snapshots that exceed the whole budget are   *)
(* left out.                                                               *)
(***************************************************************************)
EXTENDS Integers, Sequences, FiniteSets, SequencesExt

CONSTANTS
    Subscriptions,      \* subscription ids
    Budget,             \* the payload budget of a response
    Quantum,            \* kSessionPollTerminalQuantum
    EventLimit,         \* kSessionPollTerminalEventLimit
    EventSizes,         \* sizes of events
    SnapshotSize,       \* of every terminal
    ProjectionSize,     \* of the topology and of the agents
    QueueLimit          \* subscriber queue limit

ASSUME PollAssumption ==
    /\ IsFiniteSet(Subscriptions) /\ Subscriptions \subseteq Nat \ {0}
    /\ Budget \in Nat \ {0} /\ Quantum \in 1..Budget
    /\ EventLimit \in Nat \ {0} /\ QueueLimit \in Nat \ {0}
    /\ EventSizes \subseteq 1..Budget
    /\ SnapshotSize \in [Subscriptions -> 1..Budget]

VARIABLES
    wanted,     \* subscriptions of the client's request
    resync,     \* terminals that need a snapshot
    queue,      \* events of the others
    stale,      \* projections the client's revision is behind of
    schedule,   \* next_channel, next_subscription_id
    response,   \* the last response; history: did it have everything?
    skipped,    \* history: polls a wanted subscription was not considered in
    missed      \* history: polls a stale projection was not carried by

vars == <<wanted, resync, queue, stale, schedule, response, skipped, missed>>

Projections == {"topology", "agents"}

ASSUME ProjectionAssumption ==
    ProjectionSize \in [Projections -> 1..Budget]

(* Channels by weight. *)
WeightedChannels == <<"terminals", "topology", "terminals", "agents">>

Schedule == [channel : 0..3, next : Subscriptions \cup {0}]
FreshSchedule == [channel |-> 0, next |-> 0]

-----------------------------------------------------------------------------
(* One terminal: poll_subscription() with a soft and a hard budget *)

Smaller(m, n) == IF m < n THEN m ELSE n

Size(events) ==
    LET sum[n \in 0..Len(events)] ==
            IF n = 0 THEN 0 ELSE sum[n - 1] + events[n]
    IN  sum[Len(events)]

(* The longest prefix that fits a budget. *)
Fitting(events, budget) ==
    LET fits == {n \in 0..Smaller(Len(events), EventLimit) :
                    Size(SubSeq(events, 1, n)) <= budget}
    IN  CHOOSE n \in fits : \A m \in fits : m <= n

(* A snapshot goes out whole, or waits. *)
SnapshotSlice(t, soft, hard) ==
    IF SnapshotSize[t] > hard
    THEN [bytes |-> 0, sent |-> 0, more |-> TRUE, oversized |-> FALSE]
    ELSE [bytes |-> SnapshotSize[t], sent |-> 0, more |-> FALSE,
          oversized |-> SnapshotSize[t] > soft]

(* Events go out up to the soft budget; one that alone exceeds it goes out  *)
(* by itself if the response has room for it.                               *)
EventSlice(t, soft, hard) ==
    LET events == queue[t]
        large == /\ events # <<>>
                 /\ events[1] > soft /\ events[1] <= hard
        sent == IF large THEN 1 ELSE Fitting(events, soft)
    IN  [bytes |-> Size(SubSeq(events, 1, sent)), sent |-> sent,
         more |-> sent < Len(events), oversized |-> large]

-----------------------------------------------------------------------------
(* The terminals of a response: process_terminals() *)

(* Ordered by id, from the one whose turn it is. *)
Before(t, u) ==
    IF (t >= schedule.next) = (u >= schedule.next) THEN t < u
    ELSE t >= schedule.next

Order ==
    [n \in 1..Cardinality(wanted) |->
        CHOOSE t \in wanted :
            Cardinality({u \in wanted : Before(u, t)}) = n - 1]

(* Building is done on sets of one response, so that TLC evaluates a step   *)
(* before the next.                                                         *)

(* A response being built: what it uses of the budget, the channels that    *)
(* had their turn, the projections it carries, and the terminals asked, in  *)
(* order, with what each of them gave.                                      *)
NoSlice == [bytes |-> 0, sent |-> 0, more |-> FALSE, oversized |-> FALSE]

NewTurn ==
    [used |-> 0, more |-> FALSE, stopped |-> FALSE, done |-> {},
     projected |-> {}, considered |-> <<>>,
     slices |-> [t \in Subscriptions |-> NoSlice]]

Remaining(turn) == IF turn.used < Budget THEN Budget - turn.used ELSE 0

Consider(turn, t) ==
    LET hard == Remaining(turn)
        soft == Smaller(hard, Quantum)
        slice == IF t \in resync THEN SnapshotSlice(t, soft, hard)
                 ELSE EventSlice(t, soft, hard)
    IN  IF turn.stopped THEN turn
        ELSE [turn EXCEPT !.used = @ + slice.bytes,
                          !.more = @ \/ slice.more,
                          !.stopped = slice.oversized \/ slice.bytes = hard,
                          !.considered = Append(@, t),
                          !.slices[t] = slice]

ConsideredAll(turn) ==
    LET order == Order
        after[n \in 0..Len(order)] ==
            IF n = 0 THEN {turn}
            ELSE {Consider(before, order[n]) : before \in after[n - 1]}
    IN  after[Len(order)]

(* Mutant: terminals that were not asked any more are not announced. *)
ConsiderAllSilently(turn) == ConsideredAll(turn)

ConsiderAll(turn) ==
    {[after EXCEPT !.more =
         @ \/ Len(after.considered) < Cardinality(wanted)] :
            after \in ConsideredAll(turn)}

-----------------------------------------------------------------------------
(* The whole response: build() *)

(* Mutant: a projection is compared with the whole budget only. *)
ProjectAnyway(turn, projection) ==
    IF projection \notin stale THEN turn
    ELSE [turn EXCEPT !.used = @ + ProjectionSize[projection],
                      !.projected = @ \cup {projection}]

(* A projection goes out whole, or is deferred. *)
Project(turn, projection) ==
    IF projection \notin stale THEN turn
    ELSE IF ProjectionSize[projection] > Remaining(turn)
    THEN [turn EXCEPT !.more = TRUE]
    ELSE [turn EXCEPT !.used = @ + ProjectionSize[projection],
                      !.projected = @ \cup {projection}]

TakeChannel(turn, channel) ==
    IF channel \in turn.done THEN {turn}
    ELSE LET begun == [turn EXCEPT !.done = @ \cup {channel}]
         IN  IF channel = "terminals" THEN ConsiderAll(begun)
             ELSE {Project(begun, channel)}

Build ==
    LET channel(n) == WeightedChannels[((schedule.channel + n - 1)
                                            % Len(WeightedChannels)) + 1]
        after[n \in 0..Len(WeightedChannels)] ==
            IF n = 0 THEN {NewTurn}
            ELSE UNION {TakeChannel(before, channel(n)) :
                           before \in after[n - 1]}
    IN  after[Len(WeightedChannels)]

(* Mutant: the terminals are taken from the same one again. *)
NextTerminalStays(turn) == IF wanted = {} THEN schedule.next ELSE Order[1]

(* The terminal after those considered; the first again after all of them.  *)
NextTerminal(turn) ==
    IF wanted = {} THEN schedule.next
    ELSE Order[(Len(turn.considered) % Cardinality(wanted)) + 1]

(* Mutant: the channels are taken in the same order again. *)
NextChannelStays == schedule.channel

NextChannel == (schedule.channel + 1) % Len(WeightedChannels)

SentAll(turn, t) ==
    /\ t \in resync => turn.slices[t].bytes > 0
    /\ turn.slices[t].sent = Len(queue[t])

(* A response sent and applied. *)
Apply(turn) ==
    /\ response' = [bytes |-> turn.used, more |-> turn.more,
                    all |-> /\ stale \subseteq turn.projected
                            /\ \A t \in wanted : SentAll(turn, t)]
    /\ schedule' = [channel |-> NextChannel, next |-> NextTerminal(turn)]
    /\ stale' = stale \ turn.projected
    /\ resync' = {t \in resync : turn.slices[t].bytes = 0}
    /\ queue' = [t \in Subscriptions |->
                    SubSeq(queue[t], turn.slices[t].sent + 1, Len(queue[t]))]
    /\ skipped' = [t \in Subscriptions |->
                      IF t \in wanted \ ToSet(turn.considered)
                      THEN skipped[t] + 1 ELSE 0]
    /\ missed' = [p \in Projections |->
                     IF p \in stale \ turn.projected
                     THEN missed[p] + 1 ELSE 0]
    /\ UNCHANGED wanted

Poll == \E turn \in Build : Apply(turn)

-----------------------------------------------------------------------------
(* What a response is about *)

(* broadcast(): a queue at its limit becomes a resync. *)
Emit(t, size) ==
    /\ t \in wanted \ resync
    /\ IF Len(queue[t]) < QueueLimit
       THEN /\ queue' = [queue EXCEPT ![t] = Append(@, size)]
            /\ UNCHANGED resync
       ELSE /\ queue' = [queue EXCEPT ![t] = <<>>]
            /\ resync' = resync \cup {t}
    /\ UNCHANGED <<wanted, stale, schedule, response, skipped, missed>>

Change(projection) ==
    /\ projection \notin stale
    /\ stale' = stale \cup {projection}
    /\ UNCHANGED <<wanted, resync, queue, schedule, response, skipped,
                   missed>>

(* A pane is opened: its terminal has to be attached.  Or closed. *)
Subscribe(t) ==
    /\ t \notin wanted
    /\ wanted' = wanted \cup {t} /\ resync' = resync \cup {t}
    /\ UNCHANGED <<queue, stale, schedule, response, skipped, missed>>

Unsubscribe(t) ==
    /\ t \in wanted
    /\ wanted' = wanted \ {t} /\ resync' = resync \ {t}
    /\ queue' = [queue EXCEPT ![t] = <<>>]
    /\ skipped' = [skipped EXCEPT ![t] = 0]
    /\ UNCHANGED <<stale, schedule, response, missed>>

(* The client is detached or expires: disconnect_client(). *)
Disconnect ==
    /\ schedule' = FreshSchedule
    /\ wanted' = {} /\ resync' = {} /\ stale' = Projections
    /\ queue' = [t \in Subscriptions |-> <<>>]
    /\ skipped' = [t \in Subscriptions |-> 0]
    /\ missed' = [p \in Projections |-> 0]
    /\ UNCHANGED response

-----------------------------------------------------------------------------
Init ==
    /\ wanted = {} /\ resync = {} /\ stale = Projections
    /\ queue = [t \in Subscriptions |-> <<>>]
    /\ schedule = FreshSchedule
    /\ response = [bytes |-> 0, more |-> FALSE, all |-> TRUE]
    /\ skipped = [t \in Subscriptions |-> 0]
    /\ missed = [p \in Projections |-> 0]

Next ==
    \/ Poll \/ Disconnect
    \/ \E projection \in Projections : Change(projection)
    \/ \E t \in Subscriptions :
          \/ Subscribe(t) \/ Unsubscribe(t)
          \/ \E size \in EventSizes : Emit(t, size)

Spec == Init /\ [][Next]_vars

-----------------------------------------------------------------------------
(* Properties *)

(* Types; a response stays within its budget, whichever channel and which   *)
(* terminal took its turn first (build).                                    *)
PollTypeOK ==
    /\ wanted \subseteq Subscriptions /\ resync \subseteq wanted
    /\ queue \in [Subscriptions -> Seq(EventSizes)]
    /\ stale \subseteq Projections /\ schedule \in Schedule
    /\ response \in [bytes : 0..Budget, more : BOOLEAN, all : BOOLEAN]
    /\ skipped \in [Subscriptions -> Nat]
    /\ missed \in [Projections -> Nat]

(* Every terminal has its turn: however panes come and go and responses     *)
(* fill up, no terminal goes unasked in as many polls in a row as there are *)
(* terminals ("rotate the first terminal considered", next_subscription_id).*)
InTurn == \A t \in Subscriptions : skipped[t] < Cardinality(Subscriptions)

(* What a response had no room for is announced, so that the client asks    *)
(* again at once (response.more).                                           *)
MoreTold == response.all \/ response.more

(* Terminal output does not hold up the topology or the agents: a client    *)
(* that polls gets a change of either within a round of the weighted        *)
(* channels (kWeightedChannels, next_channel).                              *)
ChannelsServed ==
    \A p \in Projections : missed[p] < Len(WeightedChannels)

=============================================================================
