----------------------- MODULE SessionTopologyProofs -----------------------
(***************************************************************************)
(* Proofs about SessionTopology.  Each command is in one place of the      *)
(* client; a command the stream tracks has at most one frame or result on  *)
(* its way; what the server's cache remembers was applied by this server.  *)
(* From these follow the answers of CommandLog, step by step.              *)
(***************************************************************************)
EXTENDS SessionTopology, Counting

-----------------------------------------------------------------------------
(* The inductive invariant                                                  *)

(* The cache of completed commands never has to forget one: the number of   *)
(* changes made while a server runs stays within its limit.                 *)
CacheHolds == MaxCommands + MaxOthers <= CompletedLimit

Revs == IF CacheHolds THEN {0} \cup Revisions ELSE Nat
Numbers == 0..MaxCommands
Statuses == {"none", "ok", "refused", "revision_conflict",
             "command_result_too_large", "server_handshake_failed"}

SnapType == [epoch : Nat, rev : Revs, log : Seq(Numbers)]
ServerType == [epoch : Nat, rev : Revs \ {0}, log : Seq(Numbers),
               done : Seq(Numbers)]
AppliedType == [now : SUBSET Commands, ever : SUBSET Commands]
OutgoingType == [cmd : Commands, expected : Revs]
SentType == [cmd : Commands, expected : Revs, retry : {0, 1},
             deferred : BOOLEAN]
PolicyType == [last : Revs, ack : BOOLEAN]
UpType == [kind : {"command"}, cmd : Commands, rev : Revs]
             \cup [kind : {"update"}, cmd : {0}, rev : Revs]
DownType == [kind : {"result"}, cmd : Commands, status : Statuses,
             snap : SnapType]
               \cup [kind : {"events"}, cmd : {0}, status : Statuses,
                     snap : SnapType]
PeerType == [awaiting : BOOLEAN, rev : Revs]
WorkerType ==
    [pc : {"idle", "asked", "lost", "answered", "refreshing", "refreshed",
           "publish", "probing"},
     cmd : Numbers, attempt : Nat, expected : Revs, token : Nat,
     status : Statuses, snap : SnapType]
LateType == [cmd : Commands, expected : Revs]
FeedType ==
    [step : {"idle", "asked", "lost", "stale", "accept", "revision",
             "publish"},
     epoch : Nat, after : Revs, snap : SnapType]
CursorType == [epoch : Nat, rev : Revs]
CompletionType == [cmd : Commands, ok : BOOLEAN, rev : Revs]
MailboxType == [topology : SnapType, commands : Seq(CompletionType),
                changed : BOOLEAN]
UiType == [shown : SnapType, accept : BOOLEAN,
           waiting : SUBSET CompletionType]

Types ==
    /\ server \in ServerType /\ applied \in AppliedType /\ identity \in Nat
    /\ mode \in {"stream", "poll"} /\ streaming \in BOOLEAN
    /\ linked \in BOOLEAN
    /\ outgoing \in Seq(OutgoingType) /\ sent \in Seq(SentType)
    /\ policy \in PolicyType
    /\ up \in Seq(UpType) /\ down \in Seq(DownType) /\ peer \in PeerType
    /\ queue \in Seq(Commands) /\ worker \in WorkerType /\ view \in Revs
    /\ late \in SUBSET LateType
    /\ feed \in FeedType /\ cursor \in CursorType
    /\ mailbox \in MailboxType /\ ui \in UiType
    /\ answers \in [Commands -> {"none", "ok", "failed"}]
    /\ issued \in 0..MaxCommands /\ others \in 0..MaxOthers
    /\ faults \in Nat /\ restarts \in 0..MaxRestarts

(* An open stream belongs to a coordinator that streams.                    *)
Phases ==
    /\ linked => streaming
    /\ streaming => mode = "stream"
    /\ worker.pc \in {"idle", "probing"} <=> worker.cmd = 0
    /\ worker.cmd = 0 => worker.status = "none"
    /\ \A i \in 1..Len(sent) : sent[i].deferred => sent[i].retry = 1

(* Servers are numbered; before the first restart all is about the first.   *)
Epochs ==
    /\ server.epoch = restarts + 1
    /\ identity \in 1..server.epoch /\ cursor.epoch \in 1..identity
    /\ feed.step # "idle" => feed.epoch \in 1..server.epoch
    /\ feed.step = "stale" => restarts > 0
    /\ \A i \in 1..Len(down) :
          down[i].kind = "events" => down[i].snap.epoch \in 1..server.epoch
    /\ restarts = 0 => ~mailbox.changed /\ ~ui.accept

(* Of the commands asked for each is in one place.                          *)
Cmds(seq) == [i \in DOMAIN seq |-> seq[i].cmd]

HeldAt(c) ==
    /\ Places(c) <= 1
    /\ restarts = 0 /\ c <= issued => Places(c) = 1
    /\ c > issued => Places(c) = 0

Held == \A c \in Commands : HeldAt(c)

Load == Len(sent) + Len(outgoing) + Len(queue)
           + (IF worker.cmd = 0 THEN 0 ELSE 1)

Asked ==
    /\ Load <= issued
    /\ \A i \in 1..Len(up) : up[i].cmd <= issued
    /\ \A l \in late : l.cmd <= issued

(* A command on the stream, or its result, is there once and tracked.       *)
Tracks(c) ==
    \E i \in 1..Len(sent) : sent[i].cmd = c /\ ~sent[i].deferred

InFlight(c) == Count(down, c) + (IF linked THEN Count(up, c) ELSE 0)

Flight ==
    \A c \in Commands :
        InFlight(c) <= 1 /\ (InFlight(c) # 0 => Tracks(c))

(* What the cache remembers was applied by this server, and, as long as the *)
(* cache holds, it remembers all of that.                                   *)
Cache ==
    /\ Len(server.done) <= CompletedLimit
    /\ \A i \in 1..Len(server.done) :
          server.done[i] = 0 \/ server.done[i] \in applied.now
    /\ applied.now \subseteq applied.ever
    /\ \A c \in applied.ever : c <= issued
    /\ CacheHolds =>
          /\ \A c \in applied.now :
                \E i \in 1..Len(server.done) : server.done[i] = c
          /\ Len(server.done) <= others + Cardinality(applied.now)
          /\ server.rev <= 1 + others + Cardinality(applied.now)

(* Success is reported only of what some server applied.                    *)
Honest ==
    /\ \A i \in 1..Len(down) :
          down[i].status = "ok" /\ down[i].kind = "result"
             => down[i].cmd \in applied.ever
    /\ worker.status = "ok" /\ worker.cmd # 0 => worker.cmd \in applied.ever
    /\ \A i \in 1..Len(mailbox.commands) :
          mailbox.commands[i].ok => mailbox.commands[i].cmd \in applied.ever

(* Until the first restart every snapshot is a beginning of the server's    *)
(* log, and a completed command is in it before the revision it names.      *)
Beginning(srv, s) ==
    s = NoSnapshot \/
    /\ s.epoch = 1 /\ s.rev \in 1..srv.rev /\ Len(s.log) = s.rev - 1
    /\ \A j \in 1..(s.rev - 1) : s.log[j] = srv.log[j]

InLog(srv, c, r) ==
    r \in 1..srv.rev /\ \E j \in 1..(r - 1) : srv.log[j] = c

ServerTrue(srv) ==
    /\ srv.rev = Len(srv.log) + 1
    /\ \A i \in 1..Len(srv.done) : InLog(srv, srv.done[i], srv.rev)

FrameTrue(srv, d) ==
    /\ Beginning(srv, d.snap)
    /\ d.status = "ok" /\ d.kind = "result" => InLog(srv, d.cmd, d.snap.rev)

FramesTrue(srv, seq) == \A i \in 1..Len(seq) : FrameTrue(srv, seq[i])

WorkTrue(srv, w) ==
    /\ Beginning(srv, w.snap)
    /\ w.status = "ok" => InLog(srv, w.cmd, w.snap.rev)

MailTrue(srv, m) ==
    /\ Beginning(srv, m.topology)
    /\ \A i \in 1..Len(m.commands) : m.commands[i].ok =>
          InLog(srv, m.commands[i].cmd, m.commands[i].rev)

ShownTrue(srv, u) ==
    /\ Beginning(srv, u.shown) /\ u.shown # NoSnapshot
    /\ \A d \in u.waiting : InLog(srv, d.cmd, d.rev)

Truthful ==
    restarts = 0 =>
    /\ ServerTrue(server) /\ FramesTrue(server, down)
    /\ WorkTrue(server, worker) /\ Beginning(server, feed.snap)
    /\ MailTrue(server, mailbox) /\ ShownTrue(server, ui)

Inv ==
    /\ Types /\ Phases /\ Epochs /\ Held /\ Asked /\ Flight /\ Cache
    /\ Honest /\ Truthful

-----------------------------------------------------------------------------
(* Types                                                                    *)

(* The range of revisions.                                                  *)
LEMMA RevsFacts ==
    ASSUME SessionTopologyAssumption
    PROVE  /\ 0 \in Revs /\ 1 \in Revs /\ Revs \subseteq Nat
           /\ \A n \in Nat : (CacheHolds => n <= MaxCommands + MaxOthers + 1)
                                => n \in Revs
           /\ CacheHolds =>
                 \A n \in Revs : n <= MaxCommands + MaxOthers + 1
<1>1. Revisions = 1..(MaxCommands + MaxOthers + 1)
  BY DEF Revisions
<1>2. MaxCommands \in Nat /\ MaxOthers \in Nat
  BY DEF SessionTopologyAssumption
<1> QED
  BY <1>1, <1>2 DEF Revs

(* Both snapshots, the empty one and the server's, are snapshots.           *)
LEMMA SnapshotTypes ==
    ASSUME SessionTopologyAssumption
    PROVE  /\ NoSnapshot \in SnapType
           /\ server \in ServerType => Snapshot \in SnapType
<1>1. NoSnapshot \in SnapType
  BY RevsFacts, EmptySeq DEF NoSnapshot, SnapType
<1>2. ASSUME server \in ServerType PROVE Snapshot \in SnapType
  BY <1>2 DEF Snapshot, SnapType, ServerType
<1> QED
  BY <1>1, <1>2

(* remember() keeps the newest completed commands within its limit.         *)
LEMMA RememberFacts ==
    ASSUME SessionTopologyAssumption, NEW done \in Seq(Numbers),
           Len(done) <= CompletedLimit, NEW c \in Numbers
    PROVE  /\ Remember(done, c) \in Seq(Numbers)
           /\ Len(Remember(done, c)) \in 1..CompletedLimit
           /\ Len(Remember(done, c)) <= Len(done) + 1
           /\ \A i \in 1..Len(Remember(done, c)) :
                 \/ Remember(done, c)[i] = c
                 \/ \E j \in 1..Len(done) : Remember(done, c)[i] = done[j]
           /\ \E i \in 1..Len(Remember(done, c)) : Remember(done, c)[i] = c
           /\ Len(done) < CompletedLimit =>
                 \A j \in 1..Len(done) :
                    \E i \in 1..Len(Remember(done, c)) :
                       Remember(done, c)[i] = done[j]
<1> DEFINE kept == IF Len(done) >= CompletedLimit THEN Tail(done) ELSE done
           all == Remember(done, c)
<1>1. Len(done) \in Nat /\ CompletedLimit \in Nat \ {0}
  BY LenProperties DEF SessionTopologyAssumption
<1>2. /\ kept \in Seq(Numbers) /\ Len(kept) \in Nat
      /\ Len(kept) < CompletedLimit /\ Len(kept) <= Len(done)
      /\ \A i \in 1..Len(kept) : \E j \in 1..Len(done) : kept[i] = done[j]
      /\ Len(done) < CompletedLimit => kept = done
  <2>1. CASE Len(done) >= CompletedLimit
    <3>1. done # <<>>
      BY <1>1, <2>1, EmptySeq
    <3>2. /\ Tail(done) \in Seq(Numbers) /\ Len(Tail(done)) = Len(done) - 1
          /\ \A i \in 1..(Len(done) - 1) : Tail(done)[i] = done[i + 1]
      BY <3>1, HeadAndTail
    <3>3. \A i \in 1..(Len(done) - 1) : i + 1 \in 1..Len(done)
      BY <1>1
    <3>4. kept = Tail(done)
      BY <2>1
    <3> HIDE DEF kept
    <3>5. /\ kept \in Seq(Numbers) /\ Len(kept) = Len(done) - 1
          /\ ~(Len(done) < CompletedLimit)
      BY <1>1, <2>1, <3>2, <3>4
    <3>6. \A i \in 1..Len(kept) : \E j \in 1..Len(done) : kept[i] = done[j]
      BY <3>2, <3>3, <3>4, <3>5
    <3>7. Len(done) <= CompletedLimit
      OBVIOUS
    <3> QED
      BY <1>1, <3>5, <3>6, <3>7
  <2>2. CASE ~(Len(done) >= CompletedLimit)
    BY <1>1, <2>2
  <2> QED
    BY <2>1, <2>2
<1>3. all = Append(kept, c)
  BY DEF Remember
<1> HIDE DEF kept, all
<1>4. /\ all \in Seq(Numbers) /\ Len(all) = Len(kept) + 1
      /\ \A i \in 1..Len(kept) : all[i] = kept[i]
      /\ all[Len(kept) + 1] = c
  BY <1>2, <1>3, AppendProperties
<1>5. ASSUME NEW i \in 1..Len(all)
      PROVE  all[i] = c \/ \E j \in 1..Len(done) : all[i] = done[j]
  <2>1. i \in 1..Len(kept) \/ i = Len(kept) + 1
    BY <1>2, <1>4
  <2> QED
    BY <1>2, <1>4, <2>1
<1>6. \E i \in 1..Len(all) : all[i] = c
  BY <1>2, <1>4
<1>7. Len(done) < CompletedLimit =>
         \A j \in 1..Len(done) : \E i \in 1..Len(all) : all[i] = done[j]
  BY <1>1, <1>2, <1>4
<1> QED
  BY <1>1, <1>2, <1>4, <1>5, <1>6, <1>7 DEF all

(* The topology grows by one change.                                        *)
Grows(c) ==
    server' = [server EXCEPT !.rev = @ + 1, !.log = Append(@, c),
                             !.done = Remember(@, c)]

(* One more change: the log and the revision grow by one.                   *)
LEMMA GrowsFacts ==
    ASSUME SessionTopologyAssumption, Types, NEW c \in Numbers, Grows(c),
           Len(server.done) <= CompletedLimit,
           CacheHolds => server.rev <= MaxCommands + MaxOthers
    PROVE  /\ server' \in ServerType
           /\ server'.epoch = server.epoch
           /\ server'.rev = server.rev + 1 /\ server.rev \in Nat
           /\ server'.done = Remember(server.done, c)
           /\ Len(server.log) \in Nat
           /\ Len(server'.log) = Len(server.log) + 1
           /\ \A j \in 1..Len(server.log) : server'.log[j] = server.log[j]
           /\ server'.log[Len(server.log) + 1] = c
<1>1. /\ server \in ServerType /\ server.log \in Seq(Numbers)
      /\ server.done \in Seq(Numbers) /\ server.rev \in Revs
  BY DEF Types, ServerType
<1>2. /\ Append(server.log, c) \in Seq(Numbers)
      /\ Len(Append(server.log, c)) = Len(server.log) + 1
      /\ \A j \in 1..Len(server.log) :
            Append(server.log, c)[j] = server.log[j]
      /\ Append(server.log, c)[Len(server.log) + 1] = c
      /\ Len(server.log) \in Nat
  BY <1>1, AppendProperties, LenProperties
<1>3. Remember(server.done, c) \in Seq(Numbers)
  BY <1>1, RememberFacts
<1>4. server.rev \in Nat /\ server.rev + 1 \in Revs \ {0}
  <2>1. server.rev \in Nat
    BY <1>1, RevsFacts
  <2>2. MaxCommands \in Nat /\ MaxOthers \in Nat
    BY DEF SessionTopologyAssumption
  <2>3. /\ server.rev + 1 \in Nat \ {0}
        /\ CacheHolds => server.rev + 1 <= MaxCommands + MaxOthers + 1
    BY <2>1, <2>2
  <2> QED
    BY <2>1, <2>3, RevsFacts
<1>5. /\ server'.epoch = server.epoch /\ server'.rev = server.rev + 1
      /\ server'.log = Append(server.log, c)
      /\ server'.done = Remember(server.done, c)
  BY <1>1 DEF Grows, ServerType
<1>6. server' \in ServerType
  BY <1>1, <1>2, <1>3, <1>4 DEF Grows, ServerType
<1> QED
  BY <1>2, <1>4, <1>5, <1>6

(* How many commands this server can still apply.                           *)
LEMMA Room ==
    ASSUME SessionTopologyAssumption, Types, Cache
    PROVE  /\ Cardinality(applied.now) \in Nat
           /\ others \in Nat /\ others <= MaxOthers
           /\ Cardinality(applied.now) <= MaxCommands
           /\ \A c \in Commands : c \notin applied.now =>
                 /\ Cardinality(applied.now) + 1 <= MaxCommands
                 /\ Cardinality(applied.now \cup {c})
                       = Cardinality(applied.now) + 1
<1>1. applied.now \in SUBSET Commands /\ others \in 0..MaxOthers
  BY DEF Types, AppliedType
<1>2. MaxCommands \in Nat /\ MaxOthers \in Nat
  BY DEF SessionTopologyAssumption
<1>3. IsFiniteSet(Commands) /\ Cardinality(Commands) = MaxCommands
  <2>1. /\ IsFiniteSet(1..MaxCommands)
        /\ Cardinality(1..MaxCommands) =
              IF 1 > MaxCommands THEN 0 ELSE MaxCommands - 1 + 1
    BY <1>2, FS_Interval
  <2> QED
    BY <1>2, <2>1 DEF Commands
<1>4. ASSUME NEW T \in SUBSET Commands
      PROVE  /\ IsFiniteSet(T) /\ Cardinality(T) \in Nat
             /\ Cardinality(T) <= MaxCommands
  <2>1. IsFiniteSet(T) /\ Cardinality(T) <= Cardinality(Commands)
    BY <1>3, FS_Subset
  <2> QED
    BY <1>3, <2>1, FS_CardinalityType
<1>5. ASSUME NEW c \in Commands, c \notin applied.now
      PROVE  /\ Cardinality(applied.now) + 1 <= MaxCommands
             /\ Cardinality(applied.now \cup {c})
                   = Cardinality(applied.now) + 1
  <2>1. IsFiniteSet(applied.now)
    BY <1>1, <1>4
  <2>2. Cardinality(applied.now \cup {c}) = Cardinality(applied.now) + 1
    BY <1>5, <2>1, FS_AddElement
  <2>3. applied.now \cup {c} \in SUBSET Commands
    BY <1>1
  <2>4. Cardinality(applied.now \cup {c}) <= MaxCommands
    BY <1>4, <2>3
  <2> QED
    BY <2>2, <2>4
<1> QED
  BY <1>1, <1>2, <1>4, <1>5

(* A command is executed: it is found in the cache, refused, or applied.    *)
Applies(c) ==
    /\ ~Completed(c) /\ Grows(c)
    /\ applied' = [now |-> applied.now \cup {c},
                   ever |-> applied.ever \cup {c}]

(* A request changes nothing, or applies its command.                       *)
LEMMA ExecuteKinds ==
    ASSUME NEW c, NEW expected, NEW status, Execute(c, expected, status)
    PROVE  \/ /\ UNCHANGED <<server, applied>>
              /\ status = "ok" => Completed(c)
           \/ Applies(c) /\ status = "ok"
BY DEF Execute, Applies, Grows

(* A command that is applied: while the cache holds, it was not applied     *)
(* before, and there is room for it in the cache and the log.               *)
LEMMA AppliesFacts ==
    ASSUME SessionTopologyAssumption, Types, Cache, NEW c \in Commands,
           Applies(c)
    PROVE  /\ c \in Numbers
           /\ Len(server.done) <= CompletedLimit
           /\ CacheHolds =>
                 /\ c \notin applied.now
                 /\ server.rev <= MaxCommands + MaxOthers
                 /\ Len(server.done) < CompletedLimit
           /\ server' \in ServerType /\ applied' \in AppliedType
           /\ applied'.now = applied.now \cup {c}
           /\ applied'.ever = applied.ever \cup {c}
<1>1. /\ server.done \in Seq(Numbers) /\ server.rev \in Revs
      /\ DOMAIN server.done = 1..Len(server.done)
      /\ Len(server.done) \in Nat
  BY LenProperties DEF Types, ServerType
<1>2. c \in Numbers /\ CompletedLimit \in Nat
      /\ MaxCommands \in Nat /\ MaxOthers \in Nat
  BY DEF Numbers, Commands, SessionTopologyAssumption
<1>3. Len(server.done) <= CompletedLimit
  BY DEF Cache
<1>4. \A i \in 1..Len(server.done) : server.done[i] # c
  BY <1>1 DEF Applies, Completed, ToSet
<1>5. ASSUME CacheHolds
      PROVE  /\ c \notin applied.now
             /\ server.rev <= MaxCommands + MaxOthers
             /\ Len(server.done) < CompletedLimit
  <2>1. c \notin applied.now
    BY <1>4, <1>5 DEF Cache
  <2>2. /\ Cardinality(applied.now) + 1 <= MaxCommands
        /\ Cardinality(applied.now) \in Nat
        /\ others \in Nat /\ others <= MaxOthers
    BY <2>1, Room
  <2>3. /\ Len(server.done) <= others + Cardinality(applied.now)
        /\ server.rev <= 1 + others + Cardinality(applied.now)
    BY <1>5 DEF Cache
  <2>4. server.rev \in Nat
    BY <1>1, RevsFacts
  <2>5. MaxCommands + MaxOthers <= CompletedLimit
    BY <1>5 DEF CacheHolds
  <2> QED
    BY <1>1, <1>2, <2>1, <2>2, <2>3, <2>4, <2>5
<1>6. server' \in ServerType
  BY <1>2, <1>3, <1>5, GrowsFacts DEF Applies
<1>7. /\ applied' \in AppliedType
      /\ applied'.now = applied.now \cup {c}
      /\ applied'.ever = applied.ever \cup {c}
  BY DEF Applies, Types, AppliedType
<1> QED
  BY <1>2, <1>3, <1>5, <1>6, <1>7

(* Whatever comes of a request, the server keeps its type.                  *)
LEMMA ExecuteTypes ==
    ASSUME SessionTopologyAssumption, Types, Cache, NEW c \in Commands,
           NEW expected, NEW status, Execute(c, expected, status)
    PROVE  server' \in ServerType /\ applied' \in AppliedType
<1>1. CASE UNCHANGED <<server, applied>>
  BY <1>1 DEF Types
<1>2. CASE Applies(c)
  BY <1>2, AppliesFacts
<1> QED
  BY <1>1, <1>2, ExecuteKinds

(* The change of another client finds the same room.                        *)
LEMMA OtherFacts ==
    ASSUME SessionTopologyAssumption, Types, Cache, OtherCommand
    PROVE  /\ 0 \in Numbers /\ Grows(0) /\ server' \in ServerType
           /\ Len(server.done) <= CompletedLimit
           /\ CacheHolds => /\ server.rev <= MaxCommands + MaxOthers
                            /\ Len(server.done) < CompletedLimit
<1>1. 0 \in Numbers /\ Grows(0) /\ others < MaxOthers
      /\ CompletedLimit \in Nat /\ MaxCommands \in Nat /\ MaxOthers \in Nat
  BY DEF Numbers, OtherCommand, Grows, SessionTopologyAssumption
<1>2. server.rev \in Nat /\ Len(server.done) \in Nat
  BY RevsFacts, LenProperties DEF Types, ServerType
<1>3. ASSUME CacheHolds
      PROVE  /\ server.rev <= MaxCommands + MaxOthers
             /\ Len(server.done) < CompletedLimit
  <2>1. /\ Cardinality(applied.now) \in Nat
        /\ Cardinality(applied.now) <= MaxCommands /\ others \in Nat
    BY Room
  <2>2. /\ Len(server.done) <= others + Cardinality(applied.now)
        /\ server.rev <= 1 + others + Cardinality(applied.now)
        /\ MaxCommands + MaxOthers <= CompletedLimit
    BY <1>3 DEF Cache, CacheHolds
  <2> QED
    BY <1>1, <1>2, <2>1, <2>2
<1>4. Len(server.done) <= CompletedLimit
  BY DEF Cache
<1>5. server' \in ServerType
  BY <1>1, <1>3, <1>4, GrowsFacts
<1> QED
  BY <1>1, <1>3, <1>4, <1>5

(* What the coordinator takes from the stream and sends over it.            *)
LEMMA CarriedFacts ==
    ASSUME Types, NEW c, Tracks(c)
    PROVE  /\ Carried(c) \in 1..Len(sent)
           /\ sent[Carried(c)].cmd = c /\ ~sent[Carried(c)].deferred
<1> DEFINE T == {i \in DOMAIN sent : sent[i].cmd = c /\ ~sent[i].deferred}
<1>1. DOMAIN sent = 1..Len(sent) /\ Len(sent) \in Nat
  BY LenProperties DEF Types
<1>2. T \in SUBSET Nat /\ T # {}
  BY <1>1 DEF Tracks
<1>3. \E x \in T : \A y \in T : x <= y
  BY <1>2, LeastExists
<1>4. Carried(c) \in T
  BY <1>3 DEF Carried, First
<1> QED
  BY <1>1, <1>4

(* The command to be tried again is one that was deferred.                  *)
LEMMA DeferredFacts ==
    ASSUME Types, Deferred # {}
    PROVE  /\ First(Deferred) \in 1..Len(sent)
           /\ sent[First(Deferred)].deferred
<1>1. DOMAIN sent = 1..Len(sent) /\ Len(sent) \in Nat
  BY LenProperties DEF Types
<1>2. Deferred \in SUBSET Nat
  BY <1>1 DEF Deferred
<1>3. \E x \in Deferred : \A y \in Deferred : x <= y
  BY <1>2, LeastExists
<1>4. First(Deferred) \in Deferred
  BY <1>3 DEF First
<1> QED
  BY <1>1, <1>4 DEF Deferred

(* What SendCommands makes of the commands: the one that is tried again is  *)
(* taken from its place, and all that is sent is tracked behind the rest.   *)
Again ==
    [i \in DOMAIN Retried |-> Tracked(sent[Retried[i]].cmd, cursor.rev, 1)]
Fresh ==
    [i \in DOMAIN outgoing |->
        Tracked(outgoing[i].cmd, outgoing[i].expected, 0)]
Turn == Again \o Fresh
Kept == IF Retried = <<>> THEN sent ELSE RemoveAt(sent, Retried[1])
Frames(turn) ==
    [i \in DOMAIN turn |-> CommandFrame(turn[i].cmd, turn[i].expected)]

(* At most one deferred command leaves its place for the next turn.         *)
LEMMA RetriedFacts ==
    ASSUME SessionTopologyAssumption, Types
    PROVE  \/ Retried = <<>> /\ Again = <<>> /\ Kept = sent
           \/ \E r \in 1..Len(sent) :
                 /\ Retried = <<r>> /\ Kept = RemoveAt(sent, r)
                 /\ sent[r].deferred /\ sent[r] \in SentType
                 /\ Again = <<Tracked(sent[r].cmd, cursor.rev, 1)>>
<1>1. CASE Retried = <<>>
  BY <1>1 DEF Again, Kept
<1>2. CASE Retried # <<>>
  <2>1. Deferred # {} /\ Retried = <<First(Deferred)>>
    BY <1>2 DEF Retried
  <2> DEFINE r == First(Deferred)
  <2>2. r \in 1..Len(sent) /\ sent[r].deferred
    BY <2>1, DeferredFacts
  <2> HIDE DEF r
  <2>3. Retried = <<r>>
    BY <2>1 DEF r
  <2>4. Kept = RemoveAt(sent, r) /\ sent[r] \in SentType
    BY <2>2, <2>3, ElementOfSeq DEF Kept, Types
  <2>5. Again = <<Tracked(sent[r].cmd, cursor.rev, 1)>>
    BY <2>3 DEF Again
  <2> QED
    BY <2>2, <2>3, <2>4, <2>5
<1> QED
  BY <1>1, <1>2

(* What a turn of send_stream_commands() sends and tracks.                  *)
LEMMA SendFacts ==
    ASSUME SessionTopologyAssumption, Types
    PROVE  /\ Again \in Seq(SentType) /\ Fresh \in Seq(SentType)
           /\ Len(Fresh) = Len(outgoing)
           /\ Turn \in Seq(SentType) /\ Kept \in Seq(SentType)
           /\ Kept \o Turn \in Seq(SentType)
           /\ Frames(Turn) \in Seq(UpType)
           /\ Len(Frames(Turn)) = Len(Turn)
           /\ \A i \in 1..Len(Turn) : /\ ~Turn[i].deferred
                                      /\ Turn[i].retry \in {0, 1}
                                      /\ Frames(Turn)[i].cmd = Turn[i].cmd
<1>1. /\ outgoing \in Seq(OutgoingType) /\ sent \in Seq(SentType)
      /\ cursor.rev \in Revs
  BY DEF Types, CursorType
<1>2. \A c \in Commands, e \in Revs, r \in {0, 1} :
         Tracked(c, e, r) \in SentType /\ ~Tracked(c, e, r).deferred
  BY DEF Tracked, SentType
<1>3. /\ Fresh \in Seq(SentType) /\ Len(Fresh) = Len(outgoing)
      /\ \A i \in 1..Len(Fresh) : ~Fresh[i].deferred
  <2>1. DOMAIN outgoing = 1..Len(outgoing) /\ Len(outgoing) \in Nat
    BY <1>1, LenProperties
  <2>2. ASSUME NEW i \in 1..Len(outgoing)
        PROVE  LET t == Tracked(outgoing[i].cmd, outgoing[i].expected, 0)
               IN  t \in SentType /\ ~t.deferred
    <3>1. outgoing[i] \in OutgoingType
      BY <1>1, ElementOfSeq
    <3>2. outgoing[i].cmd \in Commands /\ outgoing[i].expected \in Revs
      BY <3>1 DEF OutgoingType
    <3> QED
      BY <1>2, <3>2
  <2>3. Fresh \in [1..Len(outgoing) -> SentType]
    BY <2>1, <2>2 DEF Fresh
  <2>4. Fresh \in Seq(SentType) /\ Len(Fresh) = Len(outgoing)
    BY <2>1, <2>3, MappedSeq
  <2>5. \A i \in 1..Len(outgoing) : ~Fresh[i].deferred
    BY <2>1, <2>2 DEF Fresh
  <2> QED
    BY <2>4, <2>5
<1>4. /\ Again \in Seq(SentType) /\ Kept \in Seq(SentType)
      /\ \A i \in 1..Len(Again) : ~Again[i].deferred
  <2>1. CASE Again = <<>> /\ Kept = sent
    BY <1>1, <2>1, EmptySeq
  <2>2. ASSUME NEW r \in 1..Len(sent), Kept = RemoveAt(sent, r),
               sent[r] \in SentType,
               Again = <<Tracked(sent[r].cmd, cursor.rev, 1)>>
        PROVE  /\ Again \in Seq(SentType) /\ Kept \in Seq(SentType)
               /\ \A i \in 1..Len(Again) : ~Again[i].deferred
    <3>1. sent[r].cmd \in Commands
      BY <2>2 DEF SentType
    <3> DEFINE t == Tracked(sent[r].cmd, cursor.rev, 1)
    <3>2. t \in SentType /\ ~t.deferred
      BY <1>1, <1>2, <3>1
    <3> HIDE DEF t
    <3>3. Again = <<t>>
      BY <2>2 DEF t
    <3>4. Again \in Seq(SentType) /\ Len(Again) = 1 /\ Again[1] = t
      BY <3>2, <3>3
    <3>5. Kept \in Seq(SentType)
      BY <1>1, <2>2, RemoveAtProperties
    <3> QED
      BY <3>2, <3>4, <3>5
  <2> QED
    BY <2>1, <2>2, RetriedFacts
<1>5. /\ Turn \in Seq(SentType) /\ Len(Turn) = Len(Again) + Len(Fresh)
      /\ \A i \in 1..(Len(Again) + Len(Fresh)) : Turn[i] =
            IF i <= Len(Again) THEN Again[i] ELSE Fresh[i - Len(Again)]
      /\ Len(Again) \in Nat /\ Len(Fresh) \in Nat
  BY <1>3, <1>4, ConcatProperties, LenProperties DEF Turn
<1>6. ASSUME NEW i \in 1..Len(Turn) PROVE ~Turn[i].deferred
  <2>1. CASE i <= Len(Again)
    BY <1>4, <1>5, <2>1
  <2>2. CASE ~(i <= Len(Again))
    <3>1. i - Len(Again) \in 1..Len(Fresh)
      BY <1>5, <2>2
    <3> QED
      BY <1>3, <1>5, <2>2, <3>1
  <2> QED
    BY <2>1, <2>2
<1>7. Kept \o Turn \in Seq(SentType)
  BY <1>4, <1>5, ConcatProperties
<1>8. ASSUME NEW i \in 1..Len(Turn)
      PROVE  /\ Frames(Turn)[i] \in UpType
             /\ Frames(Turn)[i].cmd = Turn[i].cmd
             /\ Turn[i].retry \in {0, 1}
  <2>1. Turn[i] \in SentType /\ DOMAIN Turn = 1..Len(Turn)
    BY <1>5, ElementOfSeq, LenProperties
  <2>2. /\ Turn[i].cmd \in Commands /\ Turn[i].expected \in Revs
        /\ Turn[i].retry \in {0, 1}
    BY <2>1 DEF SentType
  <2>3. Frames(Turn)[i] = CommandFrame(Turn[i].cmd, Turn[i].expected)
    BY <2>1 DEF Frames
  <2>4. CommandFrame(Turn[i].cmd, Turn[i].expected) \in UpType
    BY <2>2 DEF CommandFrame, UpType
  <2>5. CommandFrame(Turn[i].cmd, Turn[i].expected).cmd = Turn[i].cmd
    BY DEF CommandFrame
  <2> QED
    BY <2>2, <2>3, <2>4, <2>5
<1>9. Frames(Turn) \in Seq(UpType) /\ Len(Frames(Turn)) = Len(Turn)
  <2>1. DOMAIN Frames(Turn) = 1..Len(Turn) /\ Len(Turn) \in Nat
    BY <1>5, LenProperties DEF Frames
  <2>2. Frames(Turn) = [i \in 1..Len(Turn) |-> Frames(Turn)[i]]
    BY <2>1 DEF Frames
  <2>3. Frames(Turn) \in [1..Len(Turn) -> UpType]
    BY <1>8, <2>1, <2>2
  <2> QED
    BY <2>1, <2>3, MappedSeq
<1> QED
  BY <1>3, <1>4, <1>5, <1>6, <1>7, <1>8, <1>9

(* SendCommands in the words of these definitions.                          *)
LEMMA SendCommandsAs ==
    ASSUME SendCommands
    PROVE  /\ sent' = Kept \o Turn /\ up' = up \o Frames(Turn)
           /\ outgoing' = <<>>
BY DEF SendCommands, Kept, Turn, Frames, Again, Fresh

(* Counting commands in sequences of records.                               *)
Carries(S, T) == \A e \in S : e.cmd \in T

(* The commands in a queue of records, as a sequence of numbers.            *)
LEMMA CountAs ==
    ASSUME NEW S, NEW T, NEW s \in Seq(S), Carries(S, T), NEW c
    PROVE  /\ Cmds(s) \in Seq(T) /\ Len(Cmds(s)) = Len(s)
           /\ DOMAIN Cmds(s) = 1..Len(s)
           /\ \A i \in 1..Len(s) : Cmds(s)[i] = s[i].cmd
           /\ Count(s, c) = Number(Cmds(s), c)
           /\ Count(s, c) \in Nat
<1>1. /\ DOMAIN s = 1..Len(s) /\ Len(s) \in Nat
      /\ \A i \in 1..Len(s) : s[i] \in S
  BY LenProperties, ElementOfSeq
<1>2. DOMAIN Cmds(s) = DOMAIN s /\ \A i \in DOMAIN s : Cmds(s)[i] = s[i].cmd
  BY DEF Cmds
<1>3. \A i \in 1..Len(s) : s[i].cmd \in T
  BY <1>1 DEF Carries
<1>4. Cmds(s) \in [1..Len(s) -> T]
  BY <1>1, <1>3 DEF Cmds
<1>5. Cmds(s) \in Seq(T) /\ Len(Cmds(s)) = Len(s)
  BY <1>1, <1>4, MappedSeq
<1>6. {i \in DOMAIN s : s[i].cmd = c} = Where(Cmds(s), c)
  BY <1>2 DEF Where
<1>7. Count(s, c) = Number(Cmds(s), c)
  BY <1>6 DEF Count, Number
<1>8. Number(Cmds(s), c) \in Nat
  BY <1>5, NumberType
<1> QED
  BY <1>1, <1>2, <1>5, <1>7, <1>8

(* Two queues that follow each other add up.                                *)
LEMMA CmdsConcat ==
    ASSUME NEW S, NEW T, NEW s \in Seq(S), NEW t \in Seq(S),
           Carries(S, T), NEW c
    PROVE  /\ Cmds(s \o t) = Cmds(s) \o Cmds(t)
           /\ Count(s \o t, c) = Count(s, c) + Count(t, c)
<1> DEFINE u == s \o t
           v == Cmds(s) \o Cmds(t)
<1>1. /\ u \in Seq(S) /\ Len(u) = Len(s) + Len(t)
      /\ \A i \in 1..(Len(s) + Len(t)) :
            u[i] = IF i <= Len(s) THEN s[i] ELSE t[i - Len(s)]
      /\ Len(s) \in Nat /\ Len(t) \in Nat
  BY ConcatProperties, LenProperties
<1> HIDE DEF u
<1>2. /\ Cmds(s) \in Seq(T) /\ Len(Cmds(s)) = Len(s)
      /\ \A i \in 1..Len(s) : Cmds(s)[i] = s[i].cmd
      /\ Count(s, c) = Number(Cmds(s), c)
  BY CountAs
<1>3. /\ Cmds(t) \in Seq(T) /\ Len(Cmds(t)) = Len(t)
      /\ \A i \in 1..Len(t) : Cmds(t)[i] = t[i].cmd
      /\ Count(t, c) = Number(Cmds(t), c)
  BY CountAs
<1>4. /\ Cmds(u) \in Seq(T) /\ Len(Cmds(u)) = Len(u)
      /\ \A i \in 1..Len(u) : Cmds(u)[i] = u[i].cmd
      /\ Count(u, c) = Number(Cmds(u), c)
  BY <1>1, CountAs
<1>5. /\ v \in Seq(T) /\ Len(v) = Len(s) + Len(t)
      /\ \A i \in 1..(Len(s) + Len(t)) :
            v[i] = IF i <= Len(s) THEN Cmds(s)[i] ELSE Cmds(t)[i - Len(s)]
  <2> DEFINE a == Cmds(s)
             b == Cmds(t)
  <2>1. /\ a \in Seq(T) /\ Len(a) = Len(s)
        /\ b \in Seq(T) /\ Len(b) = Len(t)
    BY <1>2, <1>3
  <2> HIDE DEF a, b
  <2>2. /\ a \o b \in Seq(T) /\ Len(a \o b) = Len(a) + Len(b)
        /\ \A i \in 1..(Len(a) + Len(b)) : (a \o b)[i] =
              IF i <= Len(a) THEN a[i] ELSE b[i - Len(a)]
    BY <2>1, ConcatProperties
  <2> QED
    BY <2>1, <2>2 DEF a, b
<1> HIDE DEF v
<1>6. ASSUME NEW i \in 1..(Len(s) + Len(t)) PROVE Cmds(u)[i] = v[i]
  <2>1. CASE i <= Len(s)
    <3>1. i \in 1..Len(s)
      BY <1>1, <2>1
    <3> QED
      BY <1>1, <1>2, <1>4, <1>5, <2>1, <3>1
  <2>2. CASE ~(i <= Len(s))
    <3>1. i - Len(s) \in 1..Len(t)
      BY <1>1, <2>2
    <3>2. Cmds(u)[i] = u[i].cmd /\ u[i] = t[i - Len(s)]
      BY <1>1, <1>4, <2>2
    <3>3. v[i] = Cmds(t)[i - Len(s)]
      BY <1>5, <2>2
    <3> QED
      BY <1>3, <3>1, <3>2, <3>3
  <2> QED
    BY <2>1, <2>2
<1>7. Cmds(u) = v
  <2>1. Len(Cmds(u)) = Len(v) /\ Len(Cmds(u)) = Len(s) + Len(t)
    BY <1>1, <1>4, <1>5
  <2> QED
    BY <1>4, <1>5, <1>6, <2>1, SeqEqual
<1>8. Number(v, c) = Number(Cmds(s), c) + Number(Cmds(t), c)
  BY <1>2, <1>3, NumberConcat DEF v
<1> QED
  BY <1>2, <1>3, <1>4, <1>7, <1>8 DEF u, v

(* A queue of one record ...                                                *)
LEMMA CountSingle ==
    ASSUME NEW e, NEW c
    PROVE  Count(<<e>>, c) = IF e.cmd = c THEN 1 ELSE 0
<1>1. {i \in DOMAIN <<e>> : <<e>>[i].cmd = c} =
         IF e.cmd = c THEN {1} ELSE {}
  OBVIOUS
<1> QED
  BY <1>1, FS_Singleton, FS_EmptySet DEF Count

(* ... one record more ...                                                  *)
LEMMA CountAppend ==
    ASSUME NEW S, NEW T, NEW s \in Seq(S), NEW e \in S, Carries(S, T), NEW c
    PROVE  Count(Append(s, e), c)
              = Count(s, c) + (IF e.cmd = c THEN 1 ELSE 0)
<1> DEFINE one == <<e>>
<1>1. Append(s, e) = s \o one /\ one \in Seq(S)
  BY AppendIsConcat
<1>2. Count(one, c) = IF e.cmd = c THEN 1 ELSE 0
  BY CountSingle
<1> HIDE DEF one
<1>3. Count(s \o one, c) = Count(s, c) + Count(one, c)
  BY <1>1, CmdsConcat
<1> QED
  BY <1>1, <1>2, <1>3

(* ... none at all ...                                                      *)
LEMMA CountEmpty == \A c : Count(<<>>, c) = 0 /\ Cmds(<<>>) = <<>>
<1>1. ASSUME NEW c PROVE {i \in DOMAIN <<>> : <<>>[i].cmd = c} = {}
  BY EmptySeq
<1> QED
  BY <1>1, FS_EmptySet DEF Count, Cmds

(* ... the first one gone ...                                               *)
LEMMA CountTail ==
    ASSUME NEW S, NEW T, NEW s \in Seq(S), s # <<>>,
           Carries(S, T), NEW c
    PROVE  Count(s, c)
              = Count(Tail(s), c) + (IF Head(s).cmd = c THEN 1 ELSE 0)
<1> DEFINE h == Head(s)
           t == Tail(s)
           one == <<h>>
<1>1. s = one \o t /\ h \in S /\ t \in Seq(S) /\ one \in Seq(S)
  BY HeadAndTail
<1>4. Count(one, c) = IF h.cmd = c THEN 1 ELSE 0
  BY CountSingle
<1> HIDE DEF h, t, one
<1>5. Count(s, c) = Count(one, c) + Count(t, c)
  BY <1>1, CmdsConcat
<1>6. Count(one, c) \in Nat /\ Count(t, c) \in Nat
  BY <1>1, CountAs
<1>7. Count(s, c) = Count(t, c) + Count(one, c)
  BY <1>5, <1>6
<1> QED
  BY <1>4, <1>7 DEF h, t

(* ... or any one removed.                                                  *)
LEMMA CountRemoveAt ==
    ASSUME NEW S, NEW T, NEW s \in Seq(S), NEW i \in 1..Len(s),
           Carries(S, T), NEW c
    PROVE  Count(s, c)
              = Count(RemoveAt(s, i), c) + (IF s[i].cmd = c THEN 1 ELSE 0)
<1> DEFINE r == RemoveAt(s, i)
           q == RemoveAt(Cmds(s), i)
<1>1. /\ r \in Seq(S) /\ Len(r) = Len(s) - 1 /\ Len(s) \in Nat
      /\ \A j \in 1..(Len(s) - 1) :
            r[j] = IF j < i THEN s[j] ELSE s[j + 1]
  BY RemoveAtProperties, LenProperties
<1>2. /\ Cmds(s) \in Seq(T) /\ Len(Cmds(s)) = Len(s)
      /\ \A j \in 1..Len(s) : Cmds(s)[j] = s[j].cmd
      /\ Count(s, c) = Number(Cmds(s), c)
  BY CountAs
<1>3. /\ q \in Seq(T) /\ Len(q) = Len(s) - 1
      /\ \A j \in 1..(Len(s) - 1) :
            q[j] = IF j < i THEN Cmds(s)[j] ELSE Cmds(s)[j + 1]
  BY <1>2, RemoveAtProperties
<1>4. Number(Cmds(s), c)
         = Number(q, c) + (IF Cmds(s)[i] = c THEN 1 ELSE 0)
  BY <1>2, NumberRemoveAt
<1> HIDE DEF r, q
<1>5. /\ Cmds(r) \in Seq(T) /\ Len(Cmds(r)) = Len(r)
      /\ \A j \in 1..Len(r) : Cmds(r)[j] = r[j].cmd
      /\ Count(r, c) = Number(Cmds(r), c)
  BY <1>1, CountAs
<1>6. ASSUME NEW j \in 1..(Len(s) - 1) PROVE Cmds(r)[j] = q[j]
  <2>1. j \in 1..Len(s) /\ j + 1 \in 1..Len(s) /\ j \in 1..Len(r)
    BY <1>1
  <2>2. Cmds(r)[j] = r[j].cmd /\ Cmds(s)[j] = s[j].cmd
        /\ Cmds(s)[j + 1] = s[j + 1].cmd
    BY <1>2, <1>5, <2>1
  <2> QED
    BY <1>1, <1>3, <2>2
<1>7. Cmds(r) = q
  <2>1. Len(Cmds(r)) = Len(q) /\ Len(Cmds(r)) = Len(s) - 1
    BY <1>1, <1>3, <1>5
  <2> QED
    BY <1>3, <1>5, <1>6, <2>1, SeqEqual
<1> QED
  BY <1>2, <1>4, <1>5, <1>7 DEF r

(* What is found once, is found.                                            *)
LEMMA CountPlaces ==
    ASSUME NEW S, NEW T, NEW s \in Seq(S), Carries(S, T), NEW c
    PROVE  /\ Count(s, c) = 0 <=> \A i \in 1..Len(s) : s[i].cmd # c
           /\ Count(s, c) <= 1 =>
                 \A i, j \in 1..Len(s) : s[i].cmd = c /\ s[j].cmd = c => i = j
<1>1. /\ Cmds(s) \in Seq(T) /\ Len(Cmds(s)) = Len(s)
      /\ \A j \in 1..Len(s) : Cmds(s)[j] = s[j].cmd
      /\ Count(s, c) = Number(Cmds(s), c)
  BY CountAs
<1>2. Count(s, c) = 0 <=> \A i \in 1..Len(s) : s[i].cmd # c
  BY <1>1, NumberZero
<1>3. ASSUME Count(s, c) <= 1, NEW i \in 1..Len(s), NEW j \in 1..Len(s),
             s[i].cmd = c, s[j].cmd = c
      PROVE  i = j
  BY <1>1, <1>3, NumberOnce
<1> QED
  BY <1>2, <1>3

(* All records that are counted carry a number of a command.                *)
LEMMA CarryNumbers ==
    /\ Carries(OutgoingType, Numbers)
    /\ Carries(SentType, Numbers)
    /\ Carries(UpType, Numbers)
    /\ Carries(DownType, Numbers)
    /\ Carries(CompletionType, Numbers)
<1>1. Commands \subseteq Numbers /\ \A c \in Commands : c # 0
  BY DEF Commands, Numbers
<1>2. SessionTopologyAssumption => 0 \in Numbers
  BY DEF Numbers, SessionTopologyAssumption
<1>3. 0 \in Numbers
  BY <1>2, SessionTopologyAssumption
<1>4. Carries(OutgoingType, Numbers)
  BY <1>1 DEF OutgoingType, Carries
<1>5. Carries(SentType, Numbers)
  BY <1>1 DEF SentType, Carries
<1>6. Carries(UpType, Numbers)
  BY <1>1, <1>3 DEF UpType, Carries
<1>7. Carries(DownType, Numbers)
  BY <1>1, <1>3 DEF DownType, Carries
<1>8. Carries(CompletionType, Numbers)
  BY <1>1 DEF CompletionType, Carries
<1> QED
  BY <1>4, <1>5, <1>6, <1>7, <1>8

(* A result that arrives is one of a command the policy tracks.             *)
LEMMA ResultTracked ==
    ASSUME Types, Flight, down # <<>>, Head(down).kind = "result"
    PROVE  Head(down).cmd \in Commands /\ Tracks(Head(down).cmd)
<1> DEFINE c == Head(down).cmd
<1>1. down \in Seq(DownType) /\ up \in Seq(UpType) /\ Head(down) \in DownType
      /\ Tail(down) \in Seq(DownType)
  BY HeadAndTail DEF Types
<1>2. c \in Commands
  BY <1>1 DEF DownType, Carries
<1>3. Count(down, c) = Count(Tail(down), c) + 1
  BY <1>1, CountTail, CarryNumbers
<1>4. Count(Tail(down), c) \in Nat /\ Count(up, c) \in Nat
  BY <1>1, CountAs, CarryNumbers
<1> HIDE DEF c
<1>5. InFlight(c) # 0
  BY <1>3, <1>4 DEF InFlight
<1> QED
  BY <1>2, <1>5 DEF Flight, c

(* A command whose revision is out of date stays in its place and waits.    *)
Postponed(i) == [sent EXCEPT ![i].deferred = TRUE, ![i].retry = 1]

(* A command that is deferred keeps its place.                              *)
LEMMA PostponedFacts ==
    ASSUME Types, NEW i \in 1..Len(sent)
    PROVE  /\ Postponed(i) \in Seq(SentType)
           /\ Len(Postponed(i)) = Len(sent) /\ Len(sent) \in Nat
           /\ Postponed(i)[i].deferred /\ Postponed(i)[i].retry = 1
           /\ \A j \in 1..Len(sent) :
                 /\ Postponed(i)[j].cmd = sent[j].cmd
                 /\ j # i => Postponed(i)[j] = sent[j]
           /\ Cmds(Postponed(i)) = Cmds(sent)
           /\ \A c : Count(Postponed(i), c) = Count(sent, c)
<1> DEFINE e == [[sent[i] EXCEPT !.deferred = TRUE] EXCEPT !.retry = 1]
           p == Postponed(i)
<1>1. sent \in Seq(SentType) /\ sent[i] \in SentType
  BY ElementOfSeq DEF Types
<1>2. DOMAIN sent = 1..Len(sent) /\ Len(sent) \in Nat
  BY <1>1, LenProperties
<1>3. /\ e \in SentType /\ e.deferred /\ e.retry = 1
      /\ e.cmd = sent[i].cmd
  BY <1>1 DEF SentType
<1>4. p = [sent EXCEPT ![i] = e]
  BY <1>1, <1>2 DEF Postponed
<1> HIDE DEF e, p
<1>5. /\ p \in Seq(SentType) /\ Len(p) = Len(sent)
      /\ \A j \in 1..Len(sent) : p[j] = IF j = i THEN e ELSE sent[j]
  BY <1>1, <1>3, <1>4, ExceptSeq
<1>6. DOMAIN p = DOMAIN sent
  BY <1>4
<1>7. \A j \in 1..Len(sent) :
         p[j].cmd = sent[j].cmd /\ (j # i => p[j] = sent[j])
  BY <1>3, <1>5
<1>8. Cmds(p) = Cmds(sent)
  BY <1>2, <1>6, <1>7 DEF Cmds
<1>9. ASSUME NEW c PROVE Count(p, c) = Count(sent, c)
  <2>1. {j \in DOMAIN p : p[j].cmd = c}
           = {j \in DOMAIN sent : sent[j].cmd = c}
    BY <1>2, <1>6, <1>7
  <2> QED
    BY <2>1 DEF Count
<1> QED
  BY <1>2, <1>3, <1>5, <1>7, <1>8, <1>9 DEF p

(* What goes back to the worker's queue.                                    *)
LEMMA AbandonedTypes ==
    ASSUME Types
    PROVE  /\ Abandoned = Cmds(sent) \o Cmds(outgoing)
           /\ Cmds(sent) \in Seq(Commands) /\ Len(Cmds(sent)) = Len(sent)
           /\ Cmds(outgoing) \in Seq(Commands)
           /\ Len(Cmds(outgoing)) = Len(outgoing)
           /\ Abandoned \in Seq(Commands)
           /\ Len(Abandoned) = Len(sent) + Len(outgoing)
<1>1. sent \in Seq(SentType) /\ outgoing \in Seq(OutgoingType)
  BY DEF Types
<1>2. /\ Carries(SentType, Commands)
      /\ Carries(OutgoingType, Commands)
  BY DEF SentType, OutgoingType, Carries
<1>3. Cmds(sent) \in Seq(Commands) /\ Len(Cmds(sent)) = Len(sent)
  BY <1>1, <1>2, CountAs
<1>4. Cmds(outgoing) \in Seq(Commands) /\ Len(Cmds(outgoing)) = Len(outgoing)
  BY <1>1, <1>2, CountAs
<1>5. Abandoned = Cmds(sent) \o Cmds(outgoing)
  BY DEF Abandoned, Cmds
<1> DEFINE a == Cmds(sent)
           b == Cmds(outgoing)
<1>6. /\ a \in Seq(Commands) /\ b \in Seq(Commands)
      /\ Len(a) = Len(sent) /\ Len(b) = Len(outgoing)
  BY <1>3, <1>4
<1> HIDE DEF a, b
<1>7. a \o b \in Seq(Commands) /\ Len(a \o b) = Len(a) + Len(b)
  BY <1>6, ConcatProperties
<1> QED
  BY <1>3, <1>4, <1>5, <1>6, <1>7 DEF a, b

(* A result is written behind the frames that wait, or before the event     *)
(* nobody has written yet.                                                  *)
Puts(queued, frame, d) ==
    \/ d = Append(queued, frame)
    \/ queued # <<>> /\ d = Append(Front(queued), frame) \o <<Last(queued)>>

(* A result that is queued is one more, wherever it is put.                 *)
LEMMA PutsFacts ==
    ASSUME NEW queued \in Seq(DownType), NEW frame \in DownType, NEW d,
           Puts(queued, frame, d)
    PROVE  /\ d \in Seq(DownType)
           /\ \A i \in 1..Len(d) :
                 d[i] = frame \/ \E j \in 1..Len(queued) : d[i] = queued[j]
           /\ \A c : Count(d, c) =
                        Count(queued, c) + (IF frame.cmd = c THEN 1 ELSE 0)
<1>0. Carries(DownType, Numbers) /\ Len(queued) \in Nat
  BY CarryNumbers, LenProperties
<1>1. CASE d = Append(queued, frame)
  <2>1. /\ d \in Seq(DownType) /\ Len(d) = Len(queued) + 1
        /\ \A i \in 1..Len(queued) : d[i] = queued[i]
        /\ d[Len(queued) + 1] = frame
    BY <1>1, AppendProperties
  <2>2. ASSUME NEW i \in 1..Len(d)
        PROVE  d[i] = frame \/ \E j \in 1..Len(queued) : d[i] = queued[j]
    <3>1. i \in 1..Len(queued) \/ i = Len(queued) + 1
      BY <1>0, <2>1
    <3> QED
      BY <2>1, <3>1
  <2>3. ASSUME NEW c
        PROVE  Count(d, c) =
                  Count(queued, c) + (IF frame.cmd = c THEN 1 ELSE 0)
    BY <1>0, <1>1, CountAppend
  <2> QED
    BY <2>1, <2>2, <2>3
<1>2. CASE queued # <<>> /\ d = Append(Front(queued), frame)
                                   \o <<Last(queued)>>
  <2> DEFINE f == Front(queued)
             l == Last(queued)
             fr == Append(f, frame)
             one == <<l>>
  <2>1. /\ f \in Seq(DownType) /\ l \in DownType /\ queued = Append(f, l)
    BY <1>2, FrontAndLast
  <2> HIDE DEF f, l
  <2>2. fr \in Seq(DownType) /\ one \in Seq(DownType)
        /\ Len(fr) = Len(f) + 1 /\ Len(one) = 1 /\ one[1] = l
        /\ (\A i \in 1..Len(f) : fr[i] = f[i]) /\ fr[Len(f) + 1] = frame
        /\ Len(f) \in Nat
    BY <2>1, AppendProperties, LenProperties
  <2>3. /\ Len(queued) = Len(f) + 1 /\ queued[Len(f) + 1] = l
        /\ \A i \in 1..Len(f) : queued[i] = f[i]
    BY <2>1, AppendProperties
  <2>4. d = fr \o one
    BY <1>2 DEF f, l
  <2>5. ASSUME NEW c
        PROVE  /\ Count(fr, c) =
                     Count(f, c) + (IF frame.cmd = c THEN 1 ELSE 0)
               /\ Count(one, c) = IF l.cmd = c THEN 1 ELSE 0
               /\ Count(queued, c) =
                     Count(f, c) + (IF l.cmd = c THEN 1 ELSE 0)
               /\ Count(f, c) \in Nat
    BY <1>0, <2>1, CountAppend, CountSingle, CountAs
  <2> HIDE DEF fr, one
  <2>6. /\ d \in Seq(DownType) /\ Len(d) = Len(fr) + Len(one)
        /\ \A i \in 1..(Len(fr) + Len(one)) :
              d[i] = IF i <= Len(fr) THEN fr[i] ELSE one[i - Len(fr)]
    BY <2>2, <2>4, ConcatProperties
  <2>7. ASSUME NEW i \in 1..Len(d)
        PROVE  d[i] = frame \/ \E j \in 1..Len(queued) : d[i] = queued[j]
    <3>1. CASE i \in 1..Len(f)
      <4>1. i \in 1..Len(queued) /\ i \in 1..(Len(fr) + Len(one))
            /\ i <= Len(fr)
        BY <2>2, <2>3, <3>1
      <4> QED
        BY <2>2, <2>3, <2>6, <3>1, <4>1
    <3>2. CASE i = Len(f) + 1
      BY <2>2, <2>6, <3>2
    <3>3. CASE i = Len(f) + 2
      <4>1. ~(i <= Len(fr)) /\ i - Len(fr) = 1
        BY <2>2, <3>3
      <4>2. d[i] = l /\ Len(f) + 1 \in 1..Len(queued)
        BY <2>2, <2>3, <2>6, <3>3, <4>1
      <4> QED
        BY <2>3, <4>2
    <3>4. i \in 1..Len(f) \/ i = Len(f) + 1 \/ i = Len(f) + 2
      BY <2>2, <2>6
    <3> QED
      BY <3>1, <3>2, <3>3, <3>4
  <2>8. ASSUME NEW c
        PROVE  Count(d, c) =
                  Count(queued, c) + (IF frame.cmd = c THEN 1 ELSE 0)
    <3>1. Count(fr \o one, c) = Count(fr, c) + Count(one, c)
      BY <1>0, <2>2, CmdsConcat
    <3> QED
      BY <2>4, <2>5, <3>1
  <2> QED
    BY <2>6, <2>7, <2>8
<1> QED
  BY <1>1, <1>2 DEF Puts

(* The state thread takes a command from the stream, executes it and, as    *)
(* long as the stream is open, writes a result.                             *)
LEMMA StreamCommandAs ==
    ASSUME SessionTopologyAssumption, Types, Cache, StreamCommand
    PROVE  /\ up # <<>> /\ up' = Tail(up) /\ Head(up).cmd \in Commands
           /\ UNCHANGED <<identity, clientVars, peer, workerVars, feed,
                          cursor, mailbox, uiVars, bounds>>
           /\ \E status \in {"ok", "refused", "revision_conflict"} :
              \E frame \in DownType :
                 /\ Execute(Head(up).cmd, Head(up).rev, status)
                 /\ frame.kind = "result" /\ frame.cmd = Head(up).cmd
                 /\ frame.status = "ok" =>
                       status = "ok" /\ frame.snap = Snapshot'
                 /\ frame.snap = NoSnapshot \/ frame.snap = Snapshot'
                 /\ IF linked THEN Puts(down, frame, down')
                    ELSE down' = down
<1>1. /\ up # <<>> /\ Head(up).kind = "command" /\ up' = Tail(up)
  BY DEF StreamCommand
<1>2. up \in Seq(UpType)
  BY DEF Types
<1>3. Head(up) \in UpType
  BY <1>1, <1>2, HeadAndTail
<1>4. Head(up).cmd \in Commands
  BY <1>1, <1>3 DEF UpType
<1> DEFINE c == Head(up).cmd
           answer(status) ==
              IF status = "ok" /\ c \in LargeResults
              THEN ResultFrame(c, "command_result_too_large", NoSnapshot)
              ELSE ResultFrame(c, status, IF status = "ok" THEN Snapshot'
                                          ELSE NoSnapshot)
<1>5. PICK status \in {"ok", "refused", "revision_conflict"} :
         /\ Execute(c, Head(up).rev, status)
         /\ IF ~linked THEN UNCHANGED down
            ELSE \/ down' = Append(down, answer(status))
                 \/ /\ down # <<>>
                    /\ down' = Append(Front(down), answer(status))
                                  \o <<Last(down)>>
  BY DEF StreamCommand
<1>6. server' \in ServerType
  BY <1>4, <1>5, ExecuteTypes
<1>7. Snapshot' \in SnapType /\ NoSnapshot \in SnapType
  BY <1>6, SnapshotTypes DEF Snapshot, SnapType, ServerType
<1>8. /\ answer(status) \in DownType
      /\ answer(status).kind = "result" /\ answer(status).cmd = c
      /\ answer(status).status = "ok" =>
            status = "ok" /\ answer(status).snap = Snapshot'
      /\ answer(status).snap = NoSnapshot
            \/ answer(status).snap = Snapshot'
  BY <1>4, <1>7 DEF ResultFrame, DownType, Statuses
<1> HIDE DEF answer
<1>9. IF linked THEN Puts(down, answer(status), down') ELSE down' = down
  BY <1>5 DEF Puts
<1> QED
  BY <1>1, <1>4, <1>5, <1>8, <1>9 DEF StreamCommand

(* A command that is tried again only moves; what was asked for is sent.    *)
LEMMA AgainCount ==
    ASSUME SessionTopologyAssumption, Types, NEW c
    PROVE  /\ Count(Kept, c) + Count(Again, c) = Count(sent, c)
           /\ Len(Kept) + Len(Again) = Len(sent)
<1>0. sent \in Seq(SentType) /\ Carries(SentType, Numbers)
  BY CarryNumbers DEF Types
<1>1. CASE Again = <<>> /\ Kept = sent
  <2>1. /\ Count(sent, c) \in Nat /\ Count(Again, c) = 0
        /\ Len(sent) \in Nat /\ Len(Again) = 0
    BY <1>0, <1>1, CountAs, CountEmpty, LenProperties, EmptySeq
  <2> QED
    BY <1>1, <2>1
<1>2. ASSUME NEW r \in 1..Len(sent), Kept = RemoveAt(sent, r),
             Again = <<Tracked(sent[r].cmd, cursor.rev, 1)>>
      PROVE  /\ Count(Kept, c) + Count(Again, c) = Count(sent, c)
             /\ Len(Kept) + Len(Again) = Len(sent)
  <2> DEFINE t == Tracked(sent[r].cmd, cursor.rev, 1)
  <2>1. t.cmd = sent[r].cmd
    BY DEF Tracked
  <2> HIDE DEF t
  <2>2. Count(<<t>>, c) = IF t.cmd = c THEN 1 ELSE 0
    BY CountSingle
  <2>3. Count(sent, c) = Count(RemoveAt(sent, r), c)
                            + (IF sent[r].cmd = c THEN 1 ELSE 0)
    BY <1>0, CountRemoveAt
  <2>4. Len(RemoveAt(sent, r)) = Len(sent) - 1 /\ Len(sent) \in Nat
    BY <1>0, RemoveAtProperties, LenProperties
  <2>5. Again = <<t>> /\ Len(<<t>>) = 1
    BY <1>2 DEF t
  <2> QED
    BY <1>2, <2>1, <2>2, <2>3, <2>4, <2>5
<1> QED
  BY <1>1, <1>2, RetriedFacts

(* The commands sent for the first time are those that were outgoing.       *)
LEMMA FreshCount ==
    ASSUME SessionTopologyAssumption, Types, NEW c
    PROVE  Count(Fresh, c) = Count(outgoing, c) /\ Len(Fresh) = Len(outgoing)
<1>1. DOMAIN Fresh = DOMAIN outgoing
  BY DEF Fresh
<1>2. \A i \in DOMAIN outgoing : Fresh[i].cmd = outgoing[i].cmd
  BY DEF Fresh, Tracked
<1>3. {i \in DOMAIN Fresh : Fresh[i].cmd = c}
         = {i \in DOMAIN outgoing : outgoing[i].cmd = c}
  BY <1>1, <1>2
<1>4. Len(Fresh) = Len(outgoing)
  BY SendFacts
<1> QED
  BY <1>3, <1>4 DEF Count

(* Every step keeps the types.                                              *)
LEMMA TypesStep ==
    ASSUME SessionTopologyAssumption, Types, Phases, Epochs, Flight, Cache,
           Next
    PROVE  Types'
<1>0. /\ 0 \in Revs /\ Revs \subseteq Nat /\ NoSnapshot \in SnapType
      /\ Snapshot \in SnapType
      /\ MaxCommands \in Nat /\ MaxOthers \in Nat /\ MaxRestarts \in Nat
      /\ issued \in 0..MaxCommands /\ others \in 0..MaxOthers
      /\ faults \in Nat /\ restarts \in 0..MaxRestarts
  BY RevsFacts, SnapshotTypes DEF Types, SessionTopologyAssumption
<1>00. /\ server \in ServerType /\ worker \in WorkerType
       /\ feed \in FeedType /\ cursor \in CursorType
       /\ mailbox \in MailboxType /\ ui \in UiType /\ identity \in Nat
       /\ policy \in PolicyType /\ peer \in PeerType
       /\ queue \in Seq(Commands) /\ up \in Seq(UpType)
       /\ down \in Seq(DownType) /\ sent \in Seq(SentType)
       /\ outgoing \in Seq(OutgoingType) /\ late \in SUBSET LateType
       /\ view \in Revs
  BY DEF Types
<1>01. /\ server.epoch \in Nat /\ server.rev \in Revs
       /\ cursor.rev \in Revs /\ cursor.epoch \in Nat
       /\ feed.epoch \in Nat /\ feed.snap \in SnapType
       /\ feed.snap.rev \in Revs
       /\ worker.snap \in SnapType /\ worker.cmd \in Numbers
       /\ worker.expected \in Revs /\ worker.snap.rev \in Revs
       /\ mailbox.commands \in Seq(CompletionType)
       /\ mailbox.topology \in SnapType
  BY <1>00 DEF ServerType, CursorType, FeedType, WorkerType, MailboxType,
               SnapType
<1>02. faults + 1 \in Nat
  BY <1>0
<1>03. \A snap \in SnapType, c \in Commands, ok \in BOOLEAN :
          /\ Completion(c, ok, snap.rev) \in CompletionType
          /\ Append(mailbox.commands, Completion(c, ok, snap.rev))
                \in Seq(CompletionType)
  <2> TAKE snap \in SnapType, c \in Commands, ok \in BOOLEAN
  <2>1. Completion(c, ok, snap.rev) \in CompletionType
    BY DEF Completion, CompletionType, SnapType
  <2> QED
    BY <1>01, <2>1, AppendProperties
<1>04. ASSUME NEW snap \in SnapType, NEW c \in Commands, NEW ok \in BOOLEAN,
              PublishCompletion(c, ok, snap)
       PROVE  mailbox' \in MailboxType /\ cursor' \in CursorType
  <2>1. Append(mailbox.commands, Completion(c, ok, snap.rev))
           \in Seq(CompletionType)
    BY <1>03
  <2>2. mailbox' \in MailboxType
    BY <1>00, <1>04, <2>1 DEF PublishCompletion, MailboxType
  <2>3. snap.rev \in Revs
    BY DEF SnapType
  <2>4. cursor' \in CursorType
    BY <1>00, <1>04, <2>3 DEF PublishCompletion, CursorType
  <2> QED
    BY <2>2, <2>4
<1>05. ASSUME NEW epoch \in Nat, Invalidate(epoch)
       PROVE  /\ mailbox' \in MailboxType /\ cursor' \in CursorType
              /\ identity' \in Nat
  <2>1. mailbox' \in MailboxType
    BY <1>0, <1>05, EmptySeq DEF Invalidate, EmptyMailbox, MailboxType
  <2>2. cursor' \in CursorType
    BY <1>0, <1>05 DEF Invalidate, CursorType
  <2> QED
    BY <1>05, <2>1, <2>2 DEF Invalidate
<1>06. IdleWorker \in WorkerType /\ IdleFeed \in FeedType
  BY <1>0 DEF IdleWorker, IdleFeed, WorkerType, FeedType, Statuses, Numbers
<1>1. CASE IssueCommand
  <2>1. issued' \in 0..MaxCommands /\ issued' \in Commands
    BY <1>0, <1>1 DEF IssueCommand, Commands
  <2>2. [cmd |-> issued', expected |-> cursor.rev] \in OutgoingType
    BY <1>01, <2>1 DEF OutgoingType
  <2>5. /\ Append(outgoing, [cmd |-> issued', expected |-> cursor.rev])
              \in Seq(OutgoingType)
        /\ Append(queue, issued') \in Seq(Commands)
    BY <1>00, <2>1, <2>2, AppendProperties
  <2>3. outgoing' \in Seq(OutgoingType)
    BY <1>00, <1>1, <2>5 DEF IssueCommand
  <2>4. queue' \in Seq(Commands)
    BY <1>00, <1>1, <2>5 DEF IssueCommand
  <2> QED
    BY <1>1, <2>1, <2>3, <2>4 DEF Types, IssueCommand, wireVars, uiVars
<1>2. CASE Consume
  <2>1. mailbox' \in MailboxType
    BY <1>0, <1>2, EmptySeq DEF Consume, EmptyMailbox, MailboxType
  <2>2. answers' \in [Commands -> {"none", "ok", "failed"}]
    BY <1>2 DEF Types, Consume
  <2>3. Waiting \subseteq CompletionType
    <3>1. ToSet(mailbox.commands) \subseteq CompletionType
      BY <1>01, ElementOfSeq, LenProperties DEF ToSet
    <3> QED
      BY <1>00, <3>1 DEF Waiting, UiType
  <2>4. ui' \in UiType
    <3>1. /\ ui.shown \in SnapType /\ ui.accept \in BOOLEAN
          /\ mailbox.changed \in BOOLEAN
      BY <1>00 DEF UiType, MailboxType
    <3> DEFINE accept == ui.accept \/ mailbox.changed
               shows == Shows(accept, mailbox.topology)
               shown == IF shows THEN mailbox.topology ELSE ui.shown
    <3>2. shown \in SnapType /\ accept \in BOOLEAN /\ shows \in BOOLEAN
      BY <1>01, <3>1 DEF Shows
    <3>3. ui' = [shown |-> shown, accept |-> accept /\ ~shows,
                 waiting |-> {d \in Waiting : Waits(d, shown)}]
      BY <1>2 DEF Consume
    <3> HIDE DEF accept, shows, shown
    <3>4. {d \in Waiting : Waits(d, shown)} \in SUBSET CompletionType
      BY <2>3
    <3>5. (accept /\ ~shows) \in BOOLEAN
      BY <3>2
    <3> QED
      BY <3>2, <3>3, <3>4, <3>5 DEF UiType
  <2> QED
    BY <1>2, <2>1, <2>2, <2>4
    DEF Types, Consume, clientVars, wireVars, workerVars, bounds
<1>3. CASE OtherCommand
  <2>1. server' \in ServerType
    BY <1>3, OtherFacts
  <2>2. others' \in 0..MaxOthers
    BY <1>0, <1>3 DEF OtherCommand
  <2> QED
    BY <1>3, <2>1, <2>2
    DEF Types, OtherCommand, clientVars, wireVars, workerVars, uiVars
<1>4. CASE Restart
  <2>1. server' \in ServerType
    <3>1. PICK k \in 0..Len(server.log) :
             server' = [epoch |-> server.epoch + 1, rev |-> 1,
                        log |-> SubSeq(server.log, 1, k), done |-> <<>>]
      BY <1>4 DEF Restart
    <3>2. server.log \in Seq(Numbers) /\ Len(server.log) \in Nat
      BY <1>00, LenProperties DEF ServerType
    <3>3. \A i \in 1..k : server.log[i] \in Numbers
      BY <3>2, ElementOfSeq
    <3>4. SubSeq(server.log, 1, k) \in Seq(Numbers)
      BY <3>2, <3>3, SubSeqProperties
    <3>5. server.epoch + 1 \in Nat /\ 1 \in Revs \ {0}
          /\ <<>> \in Seq(Numbers)
      BY <1>01, RevsFacts, EmptySeq
    <3> QED
      BY <3>1, <3>4, <3>5 DEF ServerType
  <2>2. applied' \in AppliedType
    BY <1>4 DEF Types, Restart, AppliedType
  <2>3. worker' \in WorkerType
    BY <1>00, <1>4 DEF Restart, WorkerType
  <2>4. feed' \in FeedType
    BY <1>00, <1>4 DEF Restart, FeedType
  <2>5. restarts' \in 0..MaxRestarts
    BY <1>0, <1>4 DEF Restart
  <2>6. /\ linked' \in BOOLEAN /\ up' \in Seq(UpType)
        /\ late' \in SUBSET LateType /\ down' \in Seq(DownType)
    BY <1>00, <1>4, EmptySeq DEF Restart
  <2> QED
    BY <1>4, <2>1, <2>2, <2>3, <2>4, <2>5, <2>6 DEF Types, Restart, uiVars
<1>5. CASE LoseStream
  <2>1. linked' \in BOOLEAN /\ down' \in Seq(DownType) /\ faults' \in Nat
    BY <1>00, <1>02, <1>5, EmptySeq DEF LoseStream
  <2> QED
    BY <1>5, <2>1 DEF Types, LoseStream, workerVars, uiVars
<1>6. CASE ServeLate
  <2>1. PICK call \in late :
           /\ \E status \in {"ok", "refused", "revision_conflict"} :
                 Execute(call.cmd, call.expected, status)
           /\ late' = late \ {call}
           /\ UNCHANGED <<identity, clientVars, wireVars, queue, worker,
                          view, feed, cursor, mailbox, uiVars, bounds>>
    BY <1>6 DEF ServeLate
  <2>2. call.cmd \in Commands
    BY <1>00 DEF LateType
  <2>3. server' \in ServerType /\ applied' \in AppliedType
    BY <2>1, <2>2, ExecuteTypes
  <2> QED
    BY <2>1, <2>3 DEF Types, clientVars, wireVars, uiVars, bounds
<1>7. CASE ReadUpdate
  <2> DEFINE T == {i \in DOMAIN up : up[i].kind = "update"}
  <2>1. /\ T # {} /\ peer' = Acknowledged(up[First(T)])
        /\ up' = RemoveAt(up, First(T))
    BY <1>7 DEF ReadUpdate
  <2>2. First(T) \in T /\ DOMAIN up = 1..Len(up)
    <3>1. T \in SUBSET Nat /\ DOMAIN up = 1..Len(up)
      BY <1>00, LenProperties
    <3>2. \E x \in T : \A y \in T : x <= y
      BY <2>1, <3>1, LeastExists
    <3> QED
      BY <3>1, <3>2 DEF First
  <2>3. First(T) \in 1..Len(up)
    BY <2>2
  <2>4. up' \in Seq(UpType) /\ up[First(T)] \in UpType
    BY <1>00, <2>1, <2>3, RemoveAtProperties, ElementOfSeq
  <2>5. up[First(T)].rev \in Revs
    BY <2>4 DEF UpType
  <2> HIDE DEF T
  <2>6. peer' \in PeerType
    BY <2>1, <2>5 DEF Acknowledged, PeerType
  <2> QED
    BY <1>7, <2>4, <2>6
    DEF Types, ReadUpdate, clientVars, workerVars, uiVars, bounds
<1>8. CASE StreamCommand
  <2>1. /\ up # <<>> /\ Head(up).kind = "command" /\ up' = Tail(up)
    BY <1>8 DEF StreamCommand
  <2>2. Head(up) \in UpType /\ up' \in Seq(UpType)
    BY <1>00, <2>1, HeadAndTail
  <2>3. Head(up).cmd \in Commands
    BY <2>1, <2>2 DEF UpType
  <2> DEFINE c == Head(up).cmd
             answer(status) ==
                IF status = "ok" /\ c \in LargeResults
                THEN ResultFrame(c, "command_result_too_large", NoSnapshot)
                ELSE ResultFrame(c, status, IF status = "ok" THEN Snapshot'
                                            ELSE NoSnapshot)
  <2>4. PICK status \in {"ok", "refused", "revision_conflict"} :
           /\ Execute(c, Head(up).rev, status)
           /\ IF ~linked THEN UNCHANGED down
              ELSE \/ down' = Append(down, answer(status))
                   \/ /\ down # <<>>
                      /\ down' = Append(Front(down), answer(status))
                                    \o <<Last(down)>>
    BY <1>8 DEF StreamCommand
  <2>5. server' \in ServerType /\ applied' \in AppliedType
    BY <2>3, <2>4, ExecuteTypes
  <2>6. Snapshot' \in SnapType
    BY <2>5 DEF Snapshot, SnapType, ServerType
  <2>7. answer(status) \in DownType
    BY <1>0, <2>3, <2>6 DEF ResultFrame, DownType, Statuses
  <2> HIDE DEF answer, c
  <2>8. down' \in Seq(DownType)
    <3>1. CASE UNCHANGED down
      BY <1>00, <3>1
    <3>2. CASE down' = Append(down, answer(status))
      BY <1>00, <2>7, <3>2, AppendProperties
    <3>3. CASE /\ down # <<>>
               /\ down' = Append(Front(down), answer(status))
                             \o <<Last(down)>>
      <4>1. Front(down) \in Seq(DownType) /\ Last(down) \in DownType
        BY <1>00, <3>3, FrontAndLast
      <4>2. Append(Front(down), answer(status)) \in Seq(DownType)
        BY <2>7, <4>1, AppendProperties
      <4>3. <<Last(down)>> \in Seq(DownType)
        BY <4>1
      <4> QED
        BY <3>3, <4>2, <4>3, ConcatProperties
    <3> QED
      BY <2>4, <3>1, <3>2, <3>3
  <2> QED
    BY <1>8, <2>2, <2>5, <2>8
    DEF Types, StreamCommand, clientVars, workerVars, uiVars, bounds
<1>9. CASE SendEvents
  <2>1. EventsFrame(Snapshot) \in DownType
    BY <1>0 DEF EventsFrame, DownType, Statuses
  <2>2. down' \in Seq(DownType)
    BY <1>00, <1>9, <2>1, AppendProperties DEF SendEvents
  <2>3. peer' \in PeerType
    BY <1>00, <1>9 DEF SendEvents, PeerType
  <2> QED
    BY <1>9, <2>2, <2>3
    DEF Types, SendEvents, clientVars, workerVars, uiVars, bounds
<1>10. CASE SeeClose
  BY <1>10, EmptySeq
  DEF Types, SeeClose, clientVars, workerVars, uiVars, bounds
<1>11. CASE ServePoll
  <2>1. feed' \in FeedType
    BY <1>0, <1>00, <1>11 DEF ServePoll, FeedType
  <2> QED
    BY <1>01, <1>11, <2>1
    DEF Types, ServePoll, clientVars, wireVars, workerVars, uiVars, bounds
<1>12. CASE ServeCommand
  <2>1. worker.cmd \in Commands
    BY <1>01, <1>12 DEF ServeCommand, Phases, Numbers, Commands
  <2>2. PICK status \in {"ok", "refused", "revision_conflict"} :
           /\ Execute(worker.cmd, worker.expected, status)
           /\ worker' = [worker EXCEPT !.pc = "answered", !.status = status,
                            !.snap = IF status = "ok" THEN Snapshot'
                                     ELSE NoSnapshot]
    BY <1>12 DEF ServeCommand
  <2>3. server' \in ServerType /\ applied' \in AppliedType
    BY <2>1, <2>2, ExecuteTypes
  <2>4. Snapshot' \in SnapType
    BY <2>3 DEF Snapshot, SnapType, ServerType
  <2>5. worker' \in WorkerType
    BY <1>0, <1>00, <2>2, <2>4 DEF WorkerType, Statuses
  <2> QED
    BY <1>12, <2>3, <2>5
    DEF Types, ServeCommand, clientVars, wireVars, uiVars, bounds
<1>13. CASE SendCommands
  <2>1. /\ sent' = Kept \o Turn /\ up' = up \o Frames(Turn)
        /\ outgoing' = <<>>
    BY <1>13, SendCommandsAs
  <2>2. /\ sent' \in Seq(SentType) /\ up' \in Seq(UpType)
        /\ outgoing' \in Seq(OutgoingType)
    BY <1>00, <2>1, SendFacts, ConcatProperties, EmptySeq
  <2> QED
    BY <1>13, <2>2 DEF Types, SendCommands, workerVars, uiVars, bounds
<1>14. CASE SendUpdate
  <2>1. UpdateFrame(cursor.rev) \in UpType
    BY <1>01 DEF UpdateFrame, UpType
  <2>2. up' \in Seq(UpType)
    BY <1>00, <1>14, <2>1, AppendProperties DEF SendUpdate
  <2>3. policy' \in PolicyType
    BY <1>01, <1>14 DEF SendUpdate, PolicyType
  <2> QED
    BY <1>14, <2>2, <2>3 DEF Types, SendUpdate, workerVars, uiVars, bounds
<1>15. CASE AcceptResult
  <2> DEFINE frame == Head(down)
             i == Carried(frame.cmd)
  <2>1. /\ down # <<>> /\ frame.kind = "result" /\ down' = Tail(down)
    BY <1>15 DEF AcceptResult
  <2>2. frame \in DownType /\ down' \in Seq(DownType)
    BY <1>00, <2>1, HeadAndTail
  <2>3. frame.cmd \in Commands /\ frame.snap \in SnapType
    BY <2>1, <2>2 DEF DownType
  <2>4. i \in 1..Len(sent)
    BY <2>1, <2>3, ResultTracked, CarriedFacts
  <2>6. RemoveAt(sent, i) \in Seq(SentType) /\ Postponed(i) \in Seq(SentType)
    BY <1>00, <2>4, RemoveAtProperties, PostponedFacts
  <2>7. sent' \in Seq(SentType)
    BY <1>15, <2>6 DEF AcceptResult, Postponed
  <2>10. Append(queue, frame.cmd) \in Seq(Commands)
    BY <1>00, <2>3, AppendProperties
  <2>8. queue' \in Seq(Commands)
    BY <1>00, <1>15, <2>10 DEF AcceptResult
  <2>9. mailbox' \in MailboxType /\ cursor' \in CursorType
    BY <1>00, <1>04, <1>15, <2>3 DEF AcceptResult
  <2> QED
    BY <1>15, <2>2, <2>7, <2>8, <2>9
    DEF Types, AcceptResult, uiVars, bounds
<1>16. CASE AcceptEvents
  <2>1. Head(down) \in DownType /\ down' \in Seq(DownType)
    BY <1>00, <1>16, HeadAndTail DEF AcceptEvents
  <2>2. Head(down).snap \in SnapType /\ Head(down).snap.epoch \in Nat
    BY <2>1 DEF DownType, SnapType
  <2>3. feed' \in FeedType
    BY <1>06, <1>16, <2>2 DEF AcceptEvents, FeedType
  <2>4. policy' \in PolicyType
    BY <1>00, <1>16 DEF AcceptEvents, PolicyType
  <2> QED
    BY <1>16, <2>1, <2>3, <2>4
    DEF Types, AcceptEvents, workerVars, uiVars, bounds
<1>17. CASE FallBack
  BY <1>17
  DEF Types, FallBack, wireVars, workerVars, uiVars, bounds
<1>18. CASE AbandonCommands
  <2>1. queue' \in Seq(Commands)
    BY <1>00, <1>18, AbandonedTypes, ConcatProperties DEF AbandonCommands
  <2> QED
    BY <1>18, <2>1, EmptySeq DEF Types, AbandonCommands, uiVars, bounds
<1>19. CASE PollBegins
  <2>1. feed' \in FeedType
    BY <1>00, <1>01, <1>06, <1>19 DEF PollBegins, FeedType
  <2> QED
    BY <1>19, <2>1
    DEF Types, PollBegins, clientVars, wireVars, workerVars, uiVars, bounds
<1>20. CASE PollFails
  BY <1>02, <1>06, <1>20
  DEF Types, PollFails, clientVars, wireVars, workerVars, uiVars
<1>21. CASE AcceptStale
  BY <1>01, <1>05, <1>06, <1>21
  DEF Types, AcceptStale, clientVars, wireVars, workerVars, uiVars, bounds
<1>22. CASE AcceptEpoch
  <2>1. feed' \in FeedType
    BY <1>00, <1>06, <1>22 DEF AcceptEpoch, FeedType
  <2>2. /\ mailbox' \in MailboxType /\ cursor' \in CursorType
        /\ identity' \in Nat
    BY <1>00, <1>01, <1>05, <1>22 DEF AcceptEpoch
  <2> QED
    BY <1>22, <2>1, <2>2
    DEF Types, AcceptEpoch, clientVars, wireVars, workerVars, uiVars, bounds
<1>23. CASE AcceptRevision
  <2>1. feed' \in FeedType
    BY <1>00, <1>23 DEF AcceptRevision, FeedType
  <2>2. cursor' \in CursorType
    BY <1>00, <1>01, <1>23 DEF AcceptRevision, CursorType
  <2> QED
    BY <1>23, <2>1, <2>2
    DEF Types, AcceptRevision, clientVars, wireVars, workerVars, uiVars,
        bounds
<1>24. CASE AcceptTopology
  <2>1. mailbox' \in MailboxType
    BY <1>00, <1>01, <1>24
    DEF AcceptTopology, PublishTopology, MailboxType
  <2> QED
    BY <1>06, <1>24, <2>1
    DEF Types, AcceptTopology, clientVars, wireVars, workerVars, uiVars,
        bounds
<1>25. CASE WorkerTakes
  <2>1. Head(queue) \in Commands /\ queue' \in Seq(Commands)
    BY <1>00, <1>25, HeadAndTail DEF WorkerTakes
  <2>2. Head(queue) \in Numbers
    BY <2>1 DEF Commands, Numbers
  <2>3. worker' \in WorkerType
    BY <1>00, <1>25, <2>2 DEF WorkerTakes, Call, WorkerType
  <2> QED
    BY <1>25, <2>1, <2>3
    DEF Types, WorkerTakes, clientVars, wireVars, uiVars, bounds
<1>26. CASE Handshake
  <2>1. worker' \in WorkerType
    BY <1>00, <1>01, <1>26 DEF Handshake, WorkerType
  <2> QED
    BY <1>01, <1>26, <2>1
    DEF Types, Handshake, clientVars, wireVars, uiVars, bounds
<1>27. CASE HandshakeFails
  <2>1. worker' \in WorkerType
    BY <1>00, <1>27 DEF HandshakeFails, WorkerType, Statuses
  <2> QED
    BY <1>02, <1>27, <2>1
    DEF Types, HandshakeFails, clientVars, wireVars, uiVars
<1>28. CASE WorkerAnswered
  <2>1. worker' \in WorkerType
    BY <1>00, <1>28 DEF WorkerAnswered, WorkerType
  <2> QED
    BY <1>00, <1>01, <1>28, <2>1
    DEF Types, WorkerAnswered, clientVars, wireVars, uiVars, bounds
<1>29. CASE Refresh
  <2>1. worker' \in WorkerType
    BY <1>0, <1>00, <1>29 DEF Refresh, WorkerType
  <2> QED
    BY <1>01, <1>29, <2>1
    DEF Types, Refresh, clientVars, wireVars, uiVars, bounds
<1>30. CASE RefreshFails
  <2>1. worker' \in WorkerType
    BY <1>00, <1>30 DEF RefreshFails, WorkerType
  <2> QED
    BY <1>02, <1>30, <2>1
    DEF Types, RefreshFails, clientVars, wireVars, uiVars
<1>31. CASE TryAgain
  <2>1. worker' \in WorkerType
    BY <1>00, <1>31 DEF TryAgain, Call, WorkerType
  <2>2. mailbox' \in MailboxType
    BY <1>00, <1>01, <1>31 DEF TryAgain, PublishTopology, MailboxType
  <2> QED
    BY <1>31, <2>1, <2>2
    DEF Types, TryAgain, clientVars, wireVars, uiVars, bounds
<1>32. CASE WorkerPublishes
  <2>1. worker.cmd \in Commands
    BY <1>01, <1>32 DEF WorkerPublishes, Phases, Numbers, Commands
  <2>2. mailbox' \in MailboxType /\ cursor' \in CursorType
    BY <1>01, <1>04, <1>32, <2>1 DEF WorkerPublishes
  <2> QED
    BY <1>06, <1>32, <2>2
    DEF Types, WorkerPublishes, clientVars, wireVars, uiVars, bounds
<1>33. CASE GiveUp
  <2>1. worker.cmd \in Commands
    BY <1>01, <1>33 DEF GiveUp, Phases, Numbers, Commands
  <2>2. queue' \in Seq(Commands)
    <3>1. <<worker.cmd>> \in Seq(Commands)
      BY <2>1
    <3> QED
      BY <1>00, <1>33, <3>1, ConcatProperties DEF GiveUp, PutBack
  <2>3. [IdleWorker EXCEPT !.pc = "probing"] \in WorkerType
    BY <1>06 DEF WorkerType
  <2>4. [cmd |-> worker.cmd, expected |-> worker.expected] \in LateType
    BY <1>01, <2>1 DEF LateType
  <2>5. late' \in SUBSET LateType /\ faults' \in Nat
    BY <1>0, <1>00, <1>02, <1>33, <2>4 DEF GiveUp
  <2> QED
    BY <1>33, <2>2, <2>3, <2>5
    DEF Types, GiveUp, clientVars, wireVars, uiVars
<1>34. CASE Probe
  <2>1. mailbox' \in MailboxType
    BY <1>0, <1>00, <1>34, EmptySeq DEF Probe, EmptyMailbox, MailboxType
  <2>2. cursor' \in CursorType
    BY <1>0, <1>00, <1>34 DEF Probe, CursorType
  <2> QED
    BY <1>01, <1>06, <1>34, <2>1, <2>2
    DEF Types, Probe, clientVars, wireVars, uiVars, bounds
<1> QED
  BY <1>1, <1>2, <1>3, <1>4, <1>5, <1>6, <1>7, <1>8, <1>9, <1>10, <1>11,
     <1>12, <1>13, <1>14, <1>15, <1>16, <1>17, <1>18, <1>19, <1>20, <1>21,
     <1>22, <1>23, <1>24, <1>25, <1>26, <1>27, <1>28, <1>29, <1>30, <1>31,
     <1>32, <1>33, <1>34
  DEF Next, StateThread, Coordinator, Worker

(* Every step keeps the phases.                                             *)
LEMMA PhasesStep ==
    ASSUME SessionTopologyAssumption, Types, Phases, Flight, Next
    PROVE  Phases'
<1> USE DEF clientVars, wireVars, workerVars, uiVars, bounds
<1>0. /\ sent \in Seq(SentType) /\ down \in Seq(DownType)
      /\ queue \in Seq(Commands) /\ worker \in WorkerType
  BY DEF Types
<1>1. CASE IssueCommand \/ Consume \/ OtherCommand
  BY <1>1 DEF Phases, IssueCommand, Consume, OtherCommand
<1>2. CASE ServeLate \/ ReadUpdate \/ StreamCommand \/ SendEvents
           \/ SeeClose \/ ServePoll
  BY <1>2 DEF Phases, ServeLate, ReadUpdate, StreamCommand, SendEvents,
              SeeClose, ServePoll
<1>3. CASE SendUpdate \/ AcceptEvents \/ PollBegins \/ PollFails
           \/ AcceptStale \/ AcceptEpoch \/ AcceptRevision \/ AcceptTopology
  BY <1>3 DEF Phases, SendUpdate, AcceptEvents, PollBegins, PollFails,
              AcceptStale, AcceptEpoch, AcceptRevision, AcceptTopology
<1>4. CASE Restart
  <2>1. /\ worker'.cmd = worker.cmd /\ worker'.status = worker.status
        /\ worker'.pc \in {"idle", "probing"}
              <=> worker.pc \in {"idle", "probing"}
    BY <1>0, <1>4 DEF Restart, WorkerType
  <2> QED
    BY <1>4, <2>1 DEF Phases, Restart
<1>5. CASE LoseStream \/ FallBack
  BY <1>5 DEF Phases, LoseStream, FallBack
<1>6. CASE AbandonCommands
  <2>1. Len(sent') = 0
    BY <1>6, EmptySeq DEF AbandonCommands
  <2> QED
    BY <1>6, <2>1 DEF Phases, AbandonCommands
<1>7. CASE SendCommands
  <2>1. sent' = Kept \o Turn
    BY <1>7, SendCommandsAs
  <2>2. \A i \in 1..Len(Kept) : Kept[i].deferred => Kept[i].retry = 1
    <3>1. CASE Kept = sent
      BY <3>1 DEF Phases
    <3>2. ASSUME NEW r \in 1..Len(sent), Kept = RemoveAt(sent, r)
          PROVE  \A i \in 1..Len(Kept) :
                    Kept[i].deferred => Kept[i].retry = 1
      <4>1. /\ Len(sent) \in Nat /\ Len(Kept) = Len(sent) - 1
            /\ \A j \in 1..(Len(sent) - 1) :
                  Kept[j] = IF j < r THEN sent[j] ELSE sent[j + 1]
        BY <1>0, <3>2, RemoveAtProperties, LenProperties
      <4>2. \A j \in 1..(Len(sent) - 1) :
               j \in 1..Len(sent) /\ j + 1 \in 1..Len(sent)
        BY <4>1
      <4> QED
        BY <4>1, <4>2 DEF Phases
    <3> QED
      BY <3>1, <3>2, RetriedFacts
  <2>3. /\ Kept \in Seq(SentType) /\ Turn \in Seq(SentType)
        /\ \A i \in 1..Len(Turn) : ~Turn[i].deferred
    BY SendFacts
  <2>4. /\ Len(Kept \o Turn) = Len(Kept) + Len(Turn)
        /\ \A i \in 1..(Len(Kept) + Len(Turn)) : (Kept \o Turn)[i] =
              IF i <= Len(Kept) THEN Kept[i] ELSE Turn[i - Len(Kept)]
        /\ Len(Kept) \in Nat /\ Len(Turn) \in Nat
    BY <2>3, ConcatProperties, LenProperties
  <2>5. ASSUME NEW i \in 1..Len(sent'), sent'[i].deferred
        PROVE  sent'[i].retry = 1
    <3>1. CASE i <= Len(Kept)
      BY <2>1, <2>2, <2>4, <2>5, <3>1
    <3>2. CASE ~(i <= Len(Kept))
      <4>1. i - Len(Kept) \in 1..Len(Turn)
        BY <2>1, <2>4, <3>2
      <4>2. sent'[i] = Turn[i - Len(Kept)]
        BY <2>1, <2>4, <3>2
      <4> QED
        BY <2>3, <2>5, <4>1, <4>2
    <3> QED
      BY <3>1, <3>2
  <2> QED
    BY <1>7, <2>5 DEF Phases, SendCommands
<1>8. CASE AcceptResult
  <2> DEFINE i == Carried(Head(down).cmd)
  <2>1. i \in 1..Len(sent) /\ Len(sent) \in Nat
    BY <1>0, <1>8, ResultTracked, CarriedFacts, LenProperties
    DEF AcceptResult
  <2>2. \/ sent' = RemoveAt(sent, i)
        \/ sent' = [sent EXCEPT ![i].deferred = TRUE, ![i].retry = 1]
    BY <1>8 DEF AcceptResult
  <2> HIDE DEF i
  <2>3. CASE sent' = RemoveAt(sent, i)
    <3>1. /\ Len(sent') = Len(sent) - 1
          /\ \A j \in 1..(Len(sent) - 1) :
                sent'[j] = IF j < i THEN sent[j] ELSE sent[j + 1]
      BY <1>0, <2>1, <2>3, RemoveAtProperties
    <3>2. \A j \in 1..(Len(sent) - 1) :
             j \in 1..Len(sent) /\ j + 1 \in 1..Len(sent)
      BY <2>1
    <3>3. \A j \in 1..Len(sent') : sent'[j].deferred => sent'[j].retry = 1
      BY <3>1, <3>2 DEF Phases
    <3> QED
      BY <1>8, <3>3 DEF Phases, AcceptResult
  <2>4. CASE sent' = [sent EXCEPT ![i].deferred = TRUE, ![i].retry = 1]
    <3>1. sent' = Postponed(i)
      BY <2>4 DEF Postponed
    <3>2. \A j \in 1..Len(sent') : sent'[j].deferred => sent'[j].retry = 1
      BY <2>1, <3>1, PostponedFacts DEF Phases
    <3> QED
      BY <1>8, <3>2 DEF Phases, AcceptResult
  <2> QED
    BY <2>2, <2>3, <2>4
<1>9. CASE WorkerTakes
  <2>1. Head(queue) \in Commands
    BY <1>0, <1>9, HeadAndTail DEF WorkerTakes
  <2>2. worker'.pc = "asked" /\ worker'.cmd # 0
    BY <1>0, <1>9, <2>1 DEF WorkerTakes, Call, WorkerType, Commands
  <2> QED
    BY <1>9, <2>2 DEF Phases, WorkerTakes
<1>10. CASE Handshake \/ HandshakeFails \/ ServeCommand
  <2>1. worker'.cmd = worker.cmd /\ worker.pc = "asked"
    BY <1>0, <1>10 DEF Handshake, HandshakeFails, ServeCommand, WorkerType
  <2>2. worker'.pc \in {"asked", "publish", "answered"}
    BY <1>0, <1>10 DEF Handshake, HandshakeFails, ServeCommand, WorkerType
  <2> QED
    BY <1>10, <2>1, <2>2
    DEF Phases, Handshake, HandshakeFails, ServeCommand
<1>11. CASE WorkerAnswered \/ Refresh \/ RefreshFails
  <2>1. /\ worker'.cmd = worker.cmd
        /\ worker.pc \in {"answered", "refreshing"}
        /\ worker'.pc \in {"publish", "refreshing", "refreshed"}
    BY <1>0, <1>11 DEF WorkerAnswered, Refresh, RefreshFails, WorkerType
  <2> QED
    BY <1>11, <2>1 DEF Phases, WorkerAnswered, Refresh, RefreshFails
<1>12. CASE TryAgain
  <2>1. /\ worker'.cmd = worker.cmd /\ worker.pc = "refreshed"
        /\ worker'.pc \in {"publish", "asked"}
    BY <1>0, <1>12 DEF TryAgain, Call, WorkerType
  <2> QED
    BY <1>12, <2>1 DEF Phases, TryAgain
<1>13. CASE WorkerPublishes \/ GiveUp \/ Probe
  <2>1. /\ worker'.cmd = 0 /\ worker'.pc \in {"idle", "probing"}
        /\ worker'.status = "none"
    BY <1>13 DEF WorkerPublishes, GiveUp, Probe, IdleWorker
  <2> QED
    BY <1>13, <2>1 DEF Phases, WorkerPublishes, GiveUp, Probe
<1> QED
  BY <1>1, <1>2, <1>3, <1>4, <1>5, <1>6, <1>7, <1>8, <1>9, <1>10, <1>11,
     <1>12, <1>13
  DEF Next, StateThread, Coordinator, Worker

(* Every step keeps the numbering of the servers.                           *)
LEMMA EpochsStep ==
    ASSUME SessionTopologyAssumption, Types, Epochs, Cache, Next
    PROVE  Epochs'
<1> USE DEF clientVars, wireVars, workerVars, uiVars, bounds
<1>0. /\ server \in ServerType /\ feed \in FeedType /\ cursor \in CursorType
      /\ mailbox \in MailboxType /\ ui \in UiType
      /\ restarts \in Nat /\ identity \in Nat
      /\ down \in Seq(DownType) /\ Len(down) \in Nat
      /\ server.epoch \in Nat
  BY LenProperties DEF Types, ServerType
<1>01. ASSUME NEW c, NEW e, NEW s, Execute(c, e, s)
       PROVE  server'.epoch = server.epoch
  BY <1>0, <1>01 DEF Execute, ServerType
<1>02. ASSUME NEW epoch \in 1..server.epoch, Invalidate(epoch),
              feed' = IdleFeed \/ feed' = [feed EXCEPT !.step = "revision"],
              feed.step \in {"accept", "stale"},
              restarts > 0 \/ epoch = cursor.epoch,
              UNCHANGED <<server, down, restarts, ui>>
       PROVE  Epochs'
  <2>3. cursor'.epoch = epoch /\ identity' = epoch
    BY <1>02 DEF Invalidate
  <2>4. mailbox'.changed = (cursor.epoch # epoch)
    BY <1>02 DEF Invalidate, EmptyMailbox
  <2>5. restarts = 0 => epoch = cursor.epoch
    BY <1>0, <1>02
  <2>1. /\ cursor'.epoch = epoch /\ identity' = epoch
        /\ restarts = 0 => ~mailbox'.changed
    BY <2>3, <2>4, <2>5, Zenon
  <2>2. feed'.step # "idle" => /\ feed'.epoch = feed.epoch
                               /\ feed'.step = "revision"
    BY <1>0, <1>02 DEF IdleFeed, FeedType
  <2> QED
    BY <1>0, <1>02, <2>1, <2>2 DEF Epochs
<1>1. CASE IssueCommand \/ SendUpdate \/ LoseStream \/ FallBack
           \/ SendCommands
  <2>1. \/ down' = down
        \/ down' = <<>>
    BY <1>1 DEF IssueCommand, SendUpdate, LoseStream, FallBack, SendCommands
  <2>2. UNCHANGED <<server, feed, cursor, mailbox, ui, restarts, identity>>
    BY <1>1 DEF IssueCommand, SendUpdate, LoseStream, FallBack, SendCommands
  <2> QED
    BY <2>1, <2>2, EmptySeq DEF Epochs
<1>2. CASE Consume
  <2>1. /\ ~mailbox'.changed
        /\ ui'.accept => ui.accept \/ mailbox.changed
    BY <1>2 DEF Consume, EmptyMailbox
  <2> QED
    BY <1>2, <2>1 DEF Epochs, Consume
<1>3. CASE OtherCommand
  <2>1. server'.epoch = server.epoch
    BY <1>0, <1>3 DEF OtherCommand, ServerType
  <2> QED
    BY <1>3, <2>1 DEF Epochs, OtherCommand
<1>4. CASE Restart
  <2>1. /\ server'.epoch = server.epoch + 1 /\ restarts' = restarts + 1
        /\ UNCHANGED <<identity, cursor, mailbox, ui>>
    BY <1>4 DEF Restart
  <2>2. /\ feed'.epoch = feed.epoch
        /\ feed'.step # "idle" => feed.step # "idle"
    BY <1>0, <1>4 DEF Restart, FeedType
  <2>3. down' = down \/ Len(down') = 0
    BY <1>4, EmptySeq DEF Restart
  <2>4. /\ restarts' > 0 /\ server'.epoch = restarts' + 1
        /\ \A n \in 1..server.epoch : n \in 1..server'.epoch
    BY <1>0, <2>1 DEF Epochs
  <2> QED
    BY <2>1, <2>2, <2>3, <2>4 DEF Epochs
<1>5. CASE AcceptResult \/ AbandonCommands
  <2>1. /\ mailbox'.changed = mailbox.changed /\ cursor'.epoch = cursor.epoch
        /\ UNCHANGED <<server, feed, ui, restarts, identity>>
    BY <1>0, <1>5 DEF AcceptResult, PublishCompletion, AbandonCommands,
                      MailboxType, CursorType
  <2>2. \/ down' = <<>>
        \/ down # <<>> /\ down' = Tail(down)
    BY <1>5 DEF AcceptResult, AbandonCommands
  <2>3. ASSUME NEW i \in 1..Len(down'), down'[i].kind = "events"
        PROVE  down'[i].snap.epoch \in 1..server.epoch
    <3>1. down # <<>> /\ down' = Tail(down)
      BY <2>2, EmptySeq
    <3>2. i \in 1..(Len(down) - 1) /\ down'[i] = down[i + 1]
      BY <1>0, <3>1, HeadAndTail
    <3>3. i + 1 \in 1..Len(down)
      BY <1>0, <3>2
    <3> QED
      BY <2>3, <3>2, <3>3 DEF Epochs
  <2> QED
    BY <2>1, <2>3 DEF Epochs
<1>6. CASE AcceptEvents
  <2>1. down # <<>> /\ down' = Tail(down) /\ Head(down).kind = "events"
    BY <1>6 DEF AcceptEvents
  <2>2. /\ Head(down) = down[1] /\ 1 \in 1..Len(down)
        /\ Len(Tail(down)) = Len(down) - 1
        /\ \A i \in 1..(Len(down) - 1) : Tail(down)[i] = down[i + 1]
    BY <1>0, <2>1, HeadAndTail
  <2>3. Head(down).snap.epoch \in 1..server.epoch
    BY <2>1, <2>2 DEF Epochs
  <2>4. feed'.epoch = Head(down).snap.epoch /\ feed'.step = "accept"
    BY <1>6 DEF AcceptEvents, IdleFeed
  <2>5. ASSUME NEW i \in 1..Len(down'), down'[i].kind = "events"
        PROVE  down'[i].snap.epoch \in 1..server.epoch
    <3>1. i \in 1..(Len(down) - 1) /\ i + 1 \in 1..Len(down)
      BY <1>0, <2>1, <2>2
    <3>2. down'[i] = down[i + 1]
      BY <2>1, <2>2, <3>1
    <3> QED
      BY <2>5, <3>1, <3>2 DEF Epochs
  <2> QED
    BY <1>6, <2>3, <2>4, <2>5 DEF Epochs, AcceptEvents
<1>7. CASE SendEvents
  <2>1. EventsFrame(Snapshot).snap.epoch = server.epoch
    BY DEF EventsFrame, Snapshot
  <2> DEFINE frame == EventsFrame(Snapshot)
  <2>2. frame \in DownType
    <3>1. Snapshot \in SnapType
      BY <1>0, SnapshotTypes
    <3> QED
      BY <3>1 DEF EventsFrame, DownType, Statuses
  <2> HIDE DEF frame
  <2>3. down' = Append(down, frame)
    BY <1>7 DEF SendEvents, frame
  <2>4. ASSUME NEW i \in 1..Len(down'), down'[i].kind = "events"
        PROVE  down'[i].snap.epoch \in 1..server.epoch
    <3>1. i \in 1..(Len(down) + 1)
      BY <1>0, <2>2, <2>3, AppendProperties
    <3>2. CASE i = Len(down) + 1
      <4>1. down'[i] = frame
        BY <1>0, <2>2, <2>3, <3>2, AppendProperties
      <4>2. server.epoch \in 1..server.epoch
        BY <1>0 DEF Epochs
      <4> QED
        BY <2>1, <4>1, <4>2 DEF frame
    <3>3. CASE i # Len(down) + 1
      <4>1. i \in 1..Len(down)
        BY <1>0, <3>1, <3>3
      <4>2. down'[i] = down[i]
        BY <1>0, <2>2, <2>3, <4>1, AppendProperties
      <4> QED
        BY <2>4, <4>1, <4>2 DEF Epochs
    <3> QED
      BY <3>2, <3>3
  <2> QED
    BY <1>7, <2>4 DEF Epochs, SendEvents
<1>8. CASE ReadUpdate \/ SeeClose
  BY <1>8 DEF Epochs, ReadUpdate, SeeClose
<1>9. CASE ServeLate
  <2>1. server'.epoch = server.epoch
    BY <1>01, <1>9 DEF ServeLate
  <2> QED
    BY <1>9, <2>1 DEF Epochs, ServeLate
<1>10. CASE ServePoll
  <2>1. /\ feed'.epoch = feed.epoch
        /\ feed'.step \in {"stale", "accept"}
        /\ feed'.step = "stale" => feed.epoch # server.epoch
    BY <1>0, <1>10 DEF ServePoll, FeedType
  <2>2. feed.epoch \in 1..server.epoch
    BY <1>10 DEF ServePoll, Epochs
  <2>3. feed.epoch # server.epoch => restarts > 0
    BY <1>0, <2>2 DEF Epochs
  <2>4. identity' = server.epoch
    BY <1>10 DEF ServePoll
  <2>5. identity' \in 1..server.epoch /\ cursor.epoch \in 1..identity'
    BY <1>0, <2>4 DEF Epochs, CursorType
  <2> QED
    BY <1>10, <2>1, <2>2, <2>3, <2>5 DEF Epochs, ServePoll
<1>11. CASE ServeCommand
  <2>1. server'.epoch = server.epoch
    BY <1>01, <1>11 DEF ServeCommand
  <2> QED
    BY <1>11, <2>1 DEF Epochs, ServeCommand
<1>12. CASE PollBegins
  <2>1. feed'.epoch = identity /\ feed'.step = "asked"
    BY <1>12 DEF PollBegins, IdleFeed
  <2> QED
    BY <1>12, <2>1 DEF Epochs, PollBegins
<1>13. CASE PollFails \/ AcceptTopology
  <2>1. feed'.step = "idle" /\ mailbox'.changed = mailbox.changed
    BY <1>0, <1>13
    DEF PollFails, AcceptTopology, PublishTopology, IdleFeed, MailboxType
  <2> QED
    BY <1>13, <2>1 DEF Epochs, PollFails, AcceptTopology
<1>14. CASE AcceptStale
  <2>1. restarts > 0 /\ server.epoch \in 1..server.epoch
    BY <1>0, <1>14 DEF Epochs, AcceptStale
  <2> QED
    BY <1>02, <1>14, <2>1 DEF AcceptStale
<1>15. CASE AcceptEpoch
  <2>1. feed.step = "accept" /\ feed.epoch \in 1..server.epoch
    BY <1>15 DEF AcceptEpoch, Epochs
  <2>2. feed' = IdleFeed \/ feed' = [feed EXCEPT !.step = "revision"]
    BY <1>15 DEF AcceptEpoch
  <2>3. CASE feed.epoch = cursor.epoch
    <3>1. feed'.step # "idle" => /\ feed'.epoch = feed.epoch
                                 /\ feed'.step = "revision"
      BY <1>0, <2>2 DEF IdleFeed, FeedType
    <3> QED
      BY <1>15, <2>1, <2>3, <3>1 DEF Epochs, AcceptEpoch
  <2>4. CASE feed.epoch # cursor.epoch
    <3>1. restarts > 0
      BY <1>0, <2>1, <2>4 DEF Epochs, CursorType
    <3> QED
      BY <1>02, <1>15, <2>1, <2>2, <2>4, <3>1 DEF AcceptEpoch
  <2> QED
    BY <2>3, <2>4
<1>16. CASE AcceptRevision
  <2>1. /\ feed'.epoch = feed.epoch /\ feed'.step = "publish"
        /\ cursor'.epoch = cursor.epoch
    BY <1>0, <1>16 DEF AcceptRevision, FeedType, CursorType
  <2> QED
    BY <1>16, <2>1 DEF Epochs, AcceptRevision
<1>17. CASE WorkerTakes \/ HandshakeFails \/ WorkerAnswered \/ RefreshFails
            \/ GiveUp
  BY <1>17 DEF Epochs, WorkerTakes, HandshakeFails, WorkerAnswered,
               RefreshFails, GiveUp
<1>18. CASE Handshake \/ Refresh
  <2>1. /\ identity' = server.epoch
        /\ UNCHANGED <<server, feed, cursor, mailbox, ui, restarts, down>>
    BY <1>18 DEF Handshake, Refresh
  <2>2. identity' \in 1..server.epoch /\ cursor.epoch \in 1..identity'
    BY <1>0, <2>1 DEF Epochs, CursorType
  <2> QED
    BY <2>1, <2>2 DEF Epochs
<1>19. CASE TryAgain \/ WorkerPublishes
  <2>1. /\ mailbox'.changed = mailbox.changed /\ cursor'.epoch = cursor.epoch
    BY <1>0, <1>19 DEF TryAgain, WorkerPublishes, PublishTopology,
                       PublishCompletion, MailboxType, CursorType
  <2> QED
    BY <1>19, <2>1 DEF Epochs, TryAgain, WorkerPublishes
<1>20. CASE Probe
  <2>1. /\ identity' = server.epoch /\ cursor'.epoch = cursor.epoch
        /\ UNCHANGED <<server, feed, ui, restarts, down>>
    BY <1>0, <1>20 DEF Probe, CursorType
  <2>2. identity' \in 1..server.epoch /\ cursor.epoch \in 1..identity'
    BY <1>0, <2>1 DEF Epochs, CursorType
  <2>3. restarts = 0 => ~mailbox'.changed
    <3>1. restarts = 0 => identity = server.epoch
      BY <1>0 DEF Epochs
    <3> QED
      BY <1>20, <3>1 DEF Probe, Epochs
  <2> QED
    BY <2>1, <2>2, <2>3 DEF Epochs
<1>21. CASE StreamCommand
  <2>1. /\ server'.epoch = server.epoch
        /\ UNCHANGED <<feed, cursor, mailbox, ui, restarts, identity>>
    BY <1>01, <1>21, StreamCommandAs
  <2>2. PICK frame \in DownType :
           /\ frame.kind = "result"
           /\ IF linked THEN Puts(down, frame, down') ELSE down' = down
    BY <1>21, StreamCommandAs
  <2>3. ASSUME NEW i \in 1..Len(down'), down'[i].kind = "events"
        PROVE  \E j \in 1..Len(down) : down'[i] = down[j]
    <3>1. CASE Puts(down, frame, down')
      BY <1>0, <2>2, <2>3, <3>1, PutsFacts
    <3> QED
      BY <2>2, <2>3, <3>1
  <2> QED
    BY <2>1, <2>3 DEF Epochs
<1> QED
  BY <1>1, <1>2, <1>3, <1>4, <1>5, <1>6, <1>7, <1>8, <1>9, <1>10, <1>11,
     <1>12, <1>13, <1>14, <1>15, <1>16, <1>17, <1>18, <1>19, <1>20, <1>21
  DEF Next, StateThread, Coordinator, Worker

(* What Places adds up, before and after a step.                            *)
Waits0(c) == IF worker.cmd = c THEN 1 ELSE 0
Told(c) == IF answers[c] # "none" THEN 1 ELSE 0

(* The places of a command, by name ...                                     *)
LEMMA PlacesAre ==
    ASSUME NEW c
    PROVE  Places(c) = Count(outgoing, c) + Count(sent, c)
              + Number(queue, c) + Waits0(c) + Count(mailbox.commands, c)
              + Told(c)
BY DEF Places, Number, Where, Waits0, Told

(* ... and each of them a number.                                           *)
LEMMA PlacesTypes ==
    ASSUME Types, NEW c
    PROVE  /\ Count(outgoing, c) \in Nat /\ Count(sent, c) \in Nat
           /\ Number(queue, c) \in Nat /\ Waits0(c) \in {0, 1}
           /\ Count(mailbox.commands, c) \in Nat /\ Told(c) \in {0, 1}
           /\ Places(c) \in Nat
<1>1. /\ Count(outgoing, c) \in Nat /\ Count(sent, c) \in Nat
      /\ Count(mailbox.commands, c) \in Nat
  BY CountAs, CarryNumbers DEF Types, MailboxType
<1>2. Number(queue, c) \in Nat
  BY NumberType DEF Types
<1>3. Waits0(c) \in {0, 1} /\ Told(c) \in {0, 1}
  BY DEF Waits0, Told
<1> QED
  BY <1>1, <1>2, <1>3, PlacesAre

(* Every step keeps each command in one place.                              *)
LEMMA HeldStep ==
    ASSUME SessionTopologyAssumption, Types, Types', Phases, Epochs, Held,
           Flight, Next
    PROVE  Held'
<1> USE DEF clientVars, wireVars, workerVars, uiVars, bounds
<1> SUFFICES ASSUME NEW c \in Commands PROVE HeldAt(c)'
  BY DEF Held
<1>0. /\ Carries(OutgoingType, Numbers) /\ Carries(SentType, Numbers)
      /\ Carries(UpType, Numbers) /\ Carries(DownType, Numbers)
      /\ Carries(CompletionType, Numbers)
  BY CarryNumbers
<1>00. /\ outgoing \in Seq(OutgoingType) /\ sent \in Seq(SentType)
       /\ down \in Seq(DownType) /\ queue \in Seq(Commands)
       /\ mailbox.commands \in Seq(CompletionType)
       /\ mailbox \in MailboxType /\ worker \in WorkerType
       /\ issued \in Nat /\ restarts \in Nat /\ restarts' \in Nat
       /\ c \in Nat /\ c # 0
  BY DEF Types, MailboxType, Commands
<1>000. answers \in [Commands -> {"none", "ok", "failed"}]
  BY DEF Types
<1>01. HeldAt(c)
  BY DEF Held
<1>02. /\ Count(outgoing, c) \in Nat /\ Count(sent, c) \in Nat
       /\ Number(queue, c) \in Nat /\ Waits0(c) \in {0, 1}
       /\ Count(mailbox.commands, c) \in Nat /\ Told(c) \in {0, 1}
       /\ Places(c) \in Nat
  BY PlacesTypes
<1>03. Places(c) = Count(outgoing, c) + Count(sent, c)
          + Number(queue, c) + Waits0(c) + Count(mailbox.commands, c)
          + Told(c)
  BY PlacesAre
<1>04. Places(c)' = Count(outgoing', c) + Count(sent', c)
          + Number(queue', c) + Waits0(c)' + Count(mailbox'.commands, c)
          + Told(c)'
  BY DEF Places, Number, Where, Waits0, Told
<1>05. ASSUME Places(c)' = Places(c), UNCHANGED issued,
              restarts' >= restarts
       PROVE  HeldAt(c)'
  BY <1>00, <1>01, <1>02, <1>05 DEF HeldAt
<1>06. ASSUME NEW d \in Commands, NEW ok \in BOOLEAN, NEW snap \in SnapType,
              PublishCompletion(d, ok, snap)
       PROVE  Count(mailbox'.commands, c)
                 = Count(mailbox.commands, c) + (IF d = c THEN 1 ELSE 0)
  <2> DEFINE e == Completion(d, ok, snap.rev)
  <2>1. e \in CompletionType /\ e.cmd = d
    BY DEF Completion, CompletionType, SnapType
  <2>2. mailbox'.commands = Append(mailbox.commands, e)
    BY <1>00, <1>06 DEF PublishCompletion, MailboxType
  <2> HIDE DEF e
  <2>3. Count(Append(mailbox.commands, e), c)
           = Count(mailbox.commands, c) + (IF e.cmd = c THEN 1 ELSE 0)
    BY <1>0, <1>00, <2>1, CountAppend
  <2> QED
    BY <2>1, <2>2, <2>3
<1>07. ASSUME mailbox' = EmptyMailbox \/ mailbox'.commands = <<>>
       PROVE  Count(mailbox'.commands, c) = 0
  BY <1>07, CountEmpty DEF EmptyMailbox
<1>08. UNCHANGED worker => Waits0(c)' = Waits0(c)
  BY DEF Waits0
<1>09. UNCHANGED answers => Told(c)' = Told(c)
  BY DEF Told
<1>10. ASSUME UNCHANGED <<outgoing, sent, queue, answers, issued>>,
              worker'.cmd = worker.cmd, mailbox'.commands = mailbox.commands,
              restarts' >= restarts
       PROVE  HeldAt(c)'
  <2>1. Waits0(c)' = Waits0(c)
    BY <1>10 DEF Waits0
  <2> QED
    BY <1>03, <1>04, <1>05, <1>09, <1>10, <2>1
<1>11. ASSUME Count(mailbox'.commands, c) = 0, restarts > 0,
              UNCHANGED <<outgoing, sent, queue, worker, answers, issued,
                          restarts>>
       PROVE  HeldAt(c)'
  <2>1. Places(c)' <= Places(c) /\ Places(c)' \in Nat
    BY <1>02, <1>03, <1>04, <1>08, <1>09, <1>11
  <2> QED
    BY <1>00, <1>01, <1>02, <1>11, <2>1 DEF HeldAt
<1>1. CASE IssueCommand
  <2>1. /\ issued' = issued + 1
        /\ UNCHANGED <<sent, worker, mailbox, answers, restarts>>
    BY <1>1 DEF IssueCommand
  <2>2. issued' \in Commands
    BY <1>00, <1>1, <2>1
    DEF IssueCommand, Commands, SessionTopologyAssumption
  <2> DEFINE e == [cmd |-> issued', expected |-> cursor.rev]
             plus == IF issued' = c THEN 1 ELSE 0
  <2>3. e \in OutgoingType /\ e.cmd = issued'
    BY <2>2 DEF OutgoingType, Types, CursorType
  <2>4. Count(outgoing', c) + Number(queue', c)
           = Count(outgoing, c) + Number(queue, c) + plus
    <3>1. Number(Append(queue, issued'), c) = Number(queue, c) + plus
      BY <1>00, <2>2, NumberAppend
    <3>2. CASE streaming
      <4>1. outgoing' = Append(outgoing, e) /\ queue' = queue
        BY <1>1, <3>2 DEF IssueCommand
      <4> HIDE DEF e
      <4>2. Count(Append(outgoing, e), c) = Count(outgoing, c) + plus
        <5>1. Count(Append(outgoing, e), c)
                 = Count(outgoing, c) + (IF e.cmd = c THEN 1 ELSE 0)
          BY <1>0, <1>00, <2>3, CountAppend
        <5> QED
          BY <2>3, <5>1
      <4> HIDE DEF plus
      <4>3. plus \in Nat
        BY DEF plus
      <4> QED
        BY <1>02, <4>1, <4>2, <4>3
    <3>3. CASE ~streaming
      <4>1. outgoing' = outgoing /\ queue' = Append(queue, issued')
        BY <1>1, <3>3 DEF IssueCommand
      <4> HIDE DEF plus
      <4>3. plus \in Nat
        BY DEF plus
      <4> QED
        BY <1>02, <3>1, <4>1, <4>3
    <3> QED
      BY <3>2, <3>3
  <2>5. Places(c)' = Places(c) + plus
    <3>1. plus \in Nat /\ Count(outgoing', c) \in Nat
          /\ Number(queue', c) \in Nat
      BY CountAs, CarryNumbers, NumberType DEF Types
    <3> HIDE DEF plus
    <3> QED
      BY <1>02, <1>03, <1>04, <1>08, <1>09, <2>1, <2>4, <3>1
  <2>6. CASE issued' = c
    <3>1. c > issued
      BY <1>00, <2>1, <2>6
    <3>2. Places(c)' = 1
      BY <1>01, <2>5, <2>6, <3>1 DEF HeldAt
    <3> QED
      BY <1>00, <2>1, <2>6, <3>2 DEF HeldAt
  <2>7. CASE issued' # c
    <3>1. /\ c <= issued' => c <= issued
          /\ c > issued' => c > issued
          /\ Places(c)' = Places(c)
      BY <1>00, <1>02, <2>1, <2>5, <2>7
    <3> QED
      BY <1>01, <2>1, <3>1 DEF HeldAt
  <2> QED
    BY <2>6, <2>7
<1>2. CASE Consume
  <2>1. /\ mailbox' = EmptyMailbox
        /\ UNCHANGED <<outgoing, sent, queue, worker, issued, restarts>>
    BY <1>2 DEF Consume
  <2> DEFINE told == {d \in ToSet(mailbox.commands) : d.cmd = c}
  <2>2. answers'[c] = IF told = {} THEN answers[c]
                      ELSE IF \E d \in told : d.ok THEN "ok" ELSE "failed"
    BY <1>2 DEF Consume
  <2>3. told = {} <=> Count(mailbox.commands, c) = 0
    <3>1. Count(mailbox.commands, c) = 0
             <=> \A i \in 1..Len(mailbox.commands) :
                    mailbox.commands[i].cmd # c
      BY <1>0, <1>00, CountPlaces
    <3>2. DOMAIN mailbox.commands = 1..Len(mailbox.commands)
      BY <1>00, LenProperties
    <3> QED
      BY <3>1, <3>2 DEF ToSet
  <2> HIDE DEF told
  <2>4. Told(c)' = IF told = {} THEN Told(c) ELSE 1
    BY <2>2 DEF Told
  <2>5. Count(mailbox'.commands, c) = 0
    BY <1>07, <2>1
  <2>6. Places(c) <= 1
    BY <1>01 DEF HeldAt
  <2>7. Told(c)' + Count(mailbox'.commands, c)
           = Told(c) + Count(mailbox.commands, c)
    <3>1. CASE told = {}
      BY <1>02, <2>3, <2>4, <2>5, <3>1
    <3>2. CASE told # {}
      <4>1. Told(c)' = 1 /\ Count(mailbox.commands, c) # 0
        BY <2>3, <2>4, <3>2
      <4>2. Told(c) = 0 /\ Count(mailbox.commands, c) = 1
        BY <1>02, <1>03, <2>6, <4>1
      <4> QED
        BY <2>5, <4>1, <4>2
    <3> QED
      BY <3>1, <3>2
  <2>8. Places(c)' = Places(c)
    <3>1. Told(c)' \in Nat
      BY DEF Told
    <3> QED
      BY <1>02, <1>03, <1>04, <1>08, <2>1, <2>5, <2>7, <3>1
  <2> QED
    BY <1>00, <1>05, <2>1, <2>8
<1>3. CASE OtherCommand \/ LoseStream \/ ServeLate \/ ReadUpdate
           \/ SendEvents \/ SeeClose \/ ServePoll \/ SendUpdate
  BY <1>00, <1>3, <1>10 DEF OtherCommand, LoseStream, ServeLate, ReadUpdate,
     SendEvents, SeeClose, ServePoll, SendUpdate
<1>4. CASE StreamCommand \/ AcceptEvents \/ FallBack \/ PollBegins
           \/ PollFails \/ AcceptRevision
  BY <1>00, <1>4, <1>10 DEF StreamCommand, AcceptEvents, FallBack,
     PollBegins, PollFails, AcceptRevision
<1>5. CASE Restart
  <2>1. worker'.cmd = worker.cmd /\ restarts' = restarts + 1
    BY <1>00, <1>5 DEF Restart, WorkerType
  <2> QED
    BY <1>00, <1>5, <1>10, <2>1 DEF Restart
<1>6. CASE SendCommands
  <2>1. sent' = Kept \o Turn /\ outgoing' = <<>>
    BY <1>6, SendCommandsAs
  <2>2. Again \in Seq(SentType) /\ Fresh \in Seq(SentType)
        /\ Turn \in Seq(SentType) /\ Kept \in Seq(SentType)
    BY SendFacts
  <2>3. Count(sent', c) = Count(Kept, c) + (Count(Again, c) + Count(Fresh, c))
    <3>1. Count(Turn, c) = Count(Again, c) + Count(Fresh, c)
      BY <1>0, <2>2, CmdsConcat DEF Turn
    <3>2. Count(Kept \o Turn, c) = Count(Kept, c) + Count(Turn, c)
      BY <1>0, <2>2, CmdsConcat
    <3> QED
      BY <2>1, <3>1, <3>2
  <2>4. Count(Kept, c) + Count(Again, c) = Count(sent, c)
    BY AgainCount
  <2>5. Count(Fresh, c) = Count(outgoing, c)
    BY FreshCount
  <2>6. Count(outgoing', c) = 0
    BY <2>1, CountEmpty
  <2>7. Count(Kept, c) \in Nat /\ Count(Again, c) \in Nat
    BY <1>0, <2>2, CountAs
  <2>8. UNCHANGED <<queue, worker, mailbox, answers, issued, restarts>>
    BY <1>6 DEF SendCommands
  <2>9. Places(c)' = Places(c)
    BY <1>02, <1>03, <1>04, <1>08, <1>09, <2>3, <2>4, <2>5, <2>6, <2>7, <2>8
  <2> QED
    BY <1>00, <1>05, <2>8, <2>9
<1>7. CASE AcceptResult
  <2> DEFINE frame == Head(down)
             i == Carried(frame.cmd)
  <2>1. down # <<>> /\ frame.kind = "result"
        /\ UNCHANGED <<outgoing, worker, answers, issued, restarts>>
    BY <1>7 DEF AcceptResult
  <2>2. frame \in DownType
    BY <1>00, <2>1, HeadAndTail
  <2>3. frame.cmd \in Commands /\ frame.snap \in SnapType
    BY <2>1, <2>2 DEF DownType
  <2>4. i \in 1..Len(sent) /\ sent[i].cmd = frame.cmd
    BY <2>1, <2>3, ResultTracked, CarriedFacts
  <2>5. Count(sent, c) = Count(RemoveAt(sent, i), c)
                            + (IF frame.cmd = c THEN 1 ELSE 0)
    <3>1. Count(sent, c) = Count(RemoveAt(sent, i), c)
                              + (IF sent[i].cmd = c THEN 1 ELSE 0)
      BY <1>0, <1>00, <2>4, CountRemoveAt
    <3> QED
      BY <2>4, <3>1
  <2>6. Count(RemoveAt(sent, i), c) \in Nat
    BY <1>0, <1>00, <2>4, RemoveAtProperties, CountAs
  <2>7. \/ /\ sent' = RemoveAt(sent, i)
           /\ queue' = Append(queue, frame.cmd) /\ UNCHANGED mailbox
        \/ sent' = Postponed(i) /\ UNCHANGED <<queue, mailbox>>
        \/ /\ sent' = RemoveAt(sent, i)
           /\ PublishCompletion(frame.cmd, frame.status = "ok", frame.snap)
           /\ UNCHANGED queue
    BY <1>7 DEF AcceptResult, Postponed
  <2> HIDE DEF frame, i
  <2>8. CASE /\ sent' = RemoveAt(sent, i)
             /\ queue' = Append(queue, frame.cmd) /\ UNCHANGED mailbox
    <3>1. Number(queue', c)
             = Number(queue, c) + (IF frame.cmd = c THEN 1 ELSE 0)
      BY <1>00, <2>3, <2>8, NumberAppend
    <3>2. Places(c)' = Places(c)
      <4> DEFINE plus == IF frame.cmd = c THEN 1 ELSE 0
                 less == RemoveAt(sent, i)
      <4>1. Count(sent, c) = Count(less, c) + plus /\ Count(less, c) \in Nat
        BY <2>5, <2>6
      <4>2. Number(queue', c) = Number(queue, c) + plus
        BY <3>1
      <4>3. plus \in Nat
        OBVIOUS
      <4>4. /\ sent' = less /\ UNCHANGED <<outgoing, worker, answers, mailbox>>
        BY <2>1, <2>8
      <4> HIDE DEF plus, less
      <4> QED
        BY <1>02, <1>03, <1>04, <1>08, <1>09, <4>1, <4>2, <4>3, <4>4
    <3> QED
      BY <1>00, <1>05, <2>1, <3>2
  <2>9. CASE sent' = Postponed(i) /\ UNCHANGED <<queue, mailbox>>
    <3>1. Count(sent', c) = Count(sent, c)
      BY <2>4, <2>9, PostponedFacts
    <3>2. Places(c)' = Places(c)
      BY <1>02, <1>03, <1>04, <1>08, <1>09, <2>1, <2>9, <3>1
    <3> QED
      BY <1>00, <1>05, <2>1, <3>2
  <2>10. CASE /\ sent' = RemoveAt(sent, i)
              /\ PublishCompletion(frame.cmd, frame.status = "ok",
                                   frame.snap)
              /\ UNCHANGED queue
    <3>1. Count(mailbox'.commands, c) = Count(mailbox.commands, c)
                                      + (IF frame.cmd = c THEN 1 ELSE 0)
      <4>1. (frame.status = "ok") \in BOOLEAN
        OBVIOUS
      <4> QED
        BY <1>06, <2>3, <2>10, <4>1
    <3>2. Places(c)' = Places(c)
      <4> DEFINE plus == IF frame.cmd = c THEN 1 ELSE 0
                 less == RemoveAt(sent, i)
      <4>1. Count(sent, c) = Count(less, c) + plus /\ Count(less, c) \in Nat
        BY <2>5, <2>6
      <4>2. Count(mailbox'.commands, c) = Count(mailbox.commands, c) + plus
        BY <3>1
      <4>3. plus \in Nat
        OBVIOUS
      <4>4. /\ sent' = less /\ UNCHANGED <<outgoing, worker, answers, queue>>
        BY <2>1, <2>10
      <4> HIDE DEF plus, less
      <4> QED
        BY <1>02, <1>03, <1>04, <1>08, <1>09, <4>1, <4>2, <4>3, <4>4
    <3> QED
      BY <1>00, <1>05, <2>1, <3>2
  <2> QED
    BY <2>7, <2>8, <2>9, <2>10
<1>8. CASE AbandonCommands
  <2>1. /\ queue' = queue \o Abandoned /\ sent' = <<>> /\ outgoing' = <<>>
        /\ UNCHANGED <<worker, mailbox, answers, issued, restarts>>
    BY <1>8 DEF AbandonCommands
  <2>2. /\ Abandoned = Cmds(sent) \o Cmds(outgoing)
        /\ Cmds(sent) \in Seq(Commands) /\ Cmds(outgoing) \in Seq(Commands)
        /\ Abandoned \in Seq(Commands)
    BY AbandonedTypes
  <2>3. Number(queue', c) = Number(queue, c) + Number(Abandoned, c)
    <3>1. queue \in Seq(Commands) /\ Abandoned \in Seq(Commands)
      BY <1>00, <2>2
    <3>2. Number(queue \o Abandoned, c)
             = Number(queue, c) + Number(Abandoned, c)
      BY <3>1, NumberConcat
    <3> QED
      BY <2>1, <3>2
  <2>4. Number(Abandoned, c) = Number(Cmds(sent), c) + Number(Cmds(outgoing), c)
    BY <2>2, NumberConcat
  <2>5. /\ Number(Cmds(sent), c) = Count(sent, c)
        /\ Number(Cmds(outgoing), c) = Count(outgoing, c)
    BY <1>0, <1>00, CountAs
  <2>6. Count(sent', c) = 0 /\ Count(outgoing', c) = 0
    BY <2>1, CountEmpty
  <2>7. Places(c)' = Places(c)
    BY <1>02, <1>03, <1>04, <1>08, <1>09, <2>1, <2>3, <2>4, <2>5, <2>6
  <2> QED
    BY <1>00, <1>05, <2>1, <2>7
<1>9. CASE AcceptStale
  <2>1. restarts > 0
    BY <1>00, <1>9 DEF AcceptStale, Epochs
  <2>2. Count(mailbox'.commands, c) = 0
    BY <1>07, <1>9 DEF AcceptStale, Invalidate, EmptyMailbox
  <2> QED
    BY <1>9, <1>11, <2>1, <2>2 DEF AcceptStale
<1>12. CASE AcceptEpoch
  <2>1. CASE feed.epoch = cursor.epoch
    BY <1>00, <1>10, <1>12, <2>1 DEF AcceptEpoch
  <2>2. CASE feed.epoch # cursor.epoch
    <3>3. feed.epoch \in 1..server.epoch
      BY <1>12 DEF AcceptEpoch, Epochs
    <3>1. restarts > 0
      BY <1>00, <2>2, <3>3 DEF Epochs
    <3>2. Count(mailbox'.commands, c) = 0
      BY <1>07, <1>12, <2>2 DEF AcceptEpoch, Invalidate, EmptyMailbox
    <3> QED
      BY <1>11, <1>12, <3>1, <3>2 DEF AcceptEpoch
  <2> QED
    BY <2>1, <2>2
<1>13. CASE AcceptTopology \/ TryAgain
  <2>1. mailbox'.commands = mailbox.commands /\ worker'.cmd = worker.cmd
    BY <1>00, <1>13
    DEF AcceptTopology, TryAgain, PublishTopology, MailboxType, Call,
        WorkerType
  <2> QED
    BY <1>00, <1>10, <1>13, <2>1 DEF AcceptTopology, TryAgain
<1>14. CASE WorkerTakes
  <2>1. /\ queue # <<>> /\ queue' = Tail(queue)
        /\ UNCHANGED <<outgoing, sent, mailbox, answers, issued, restarts>>
    BY <1>14 DEF WorkerTakes
  <2>2. worker.cmd = 0 /\ worker'.cmd = Head(queue)
    BY <1>00, <1>14 DEF WorkerTakes, Call, WorkerType, Phases
  <2>3. Number(queue, c)
           = Number(queue', c) + (IF Head(queue) = c THEN 1 ELSE 0)
    BY <1>00, <2>1, NumberTail
  <2>4. Waits0(c) = 0 /\ Waits0(c)' = IF Head(queue) = c THEN 1 ELSE 0
    BY <1>00, <2>2 DEF Waits0
  <2>5. Number(queue', c) \in Nat
    BY NumberType DEF Types
  <2>6. Places(c)' = Places(c)
    BY <1>02, <1>03, <1>04, <1>09, <2>1, <2>3, <2>4, <2>5
  <2> QED
    BY <1>00, <1>05, <2>1, <2>6
<1>15. CASE Handshake \/ HandshakeFails \/ ServeCommand \/ WorkerAnswered
            \/ Refresh \/ RefreshFails
  <2>1. worker'.cmd = worker.cmd
    BY <1>00, <1>15 DEF Handshake, HandshakeFails, ServeCommand,
       WorkerAnswered, Refresh, RefreshFails, WorkerType
  <2> QED
    BY <1>00, <1>10, <1>15, <2>1 DEF Handshake, HandshakeFails,
       ServeCommand, WorkerAnswered, Refresh, RefreshFails
<1>16. CASE WorkerPublishes
  <2>1. /\ worker.pc = "publish" /\ worker' = IdleWorker
        /\ PublishCompletion(worker.cmd, worker.status = "ok", worker.snap)
        /\ UNCHANGED <<outgoing, sent, queue, answers, issued, restarts>>
    BY <1>16 DEF WorkerPublishes
  <2>2. worker.cmd \in Commands /\ worker.snap \in SnapType
    BY <1>00, <2>1 DEF Phases, WorkerType, Numbers, Commands
  <2>3. (worker.status = "ok") \in BOOLEAN
    OBVIOUS
  <2>4. Count(mailbox'.commands, c) = Count(mailbox.commands, c)
                                    + (IF worker.cmd = c THEN 1 ELSE 0)
    BY <1>06, <2>1, <2>2, <2>3
  <2>5. /\ Waits0(c) = IF worker.cmd = c THEN 1 ELSE 0
        /\ Waits0(c)' = 0
    BY <1>00, <2>1 DEF Waits0, IdleWorker
  <2>6. Places(c)' = Places(c)
    BY <1>02, <1>03, <1>04, <1>09, <2>1, <2>4, <2>5
  <2> QED
    BY <1>00, <1>05, <2>1, <2>6
<1>17. CASE GiveUp
  <2>1. /\ worker.pc \in {"lost", "asked", "answered"}
        /\ worker' = [IdleWorker EXCEPT !.pc = "probing"]
        /\ queue' = <<worker.cmd>> \o queue
        /\ UNCHANGED <<outgoing, sent, mailbox, answers, issued, restarts>>
    BY <1>17 DEF GiveUp, PutBack
  <2>2. worker.cmd \in Commands
    BY <1>00, <2>1 DEF Phases, WorkerType, Numbers, Commands
  <2>3. Number(queue', c)
           = Number(queue, c) + (IF worker.cmd = c THEN 1 ELSE 0)
    BY <1>00, <2>1, <2>2, NumberFront
  <2>4. /\ Waits0(c) = IF worker.cmd = c THEN 1 ELSE 0
        /\ Waits0(c)' = 0
    BY <1>00, <2>1 DEF Waits0, IdleWorker
  <2>5. Places(c)' = Places(c)
    BY <1>02, <1>03, <1>04, <1>09, <2>1, <2>3, <2>4
  <2> QED
    BY <1>00, <1>05, <2>1, <2>5
<1>18. CASE Probe
  <2>1. worker.cmd = 0 /\ worker'.cmd = 0
    BY <1>00, <1>18 DEF Probe, Phases, IdleWorker
  <2>2. CASE identity = server.epoch
    BY <1>00, <1>10, <1>18, <2>1, <2>2 DEF Probe
  <2>3. CASE identity # server.epoch
    <3>1. restarts > 0
      BY <1>00, <2>3 DEF Epochs, Types, ServerType
    <3>2. Count(mailbox'.commands, c) = 0
      BY <1>07, <1>18, <2>3 DEF Probe, EmptyMailbox
    <3>3. Waits0(c)' = Waits0(c)
      BY <2>1 DEF Waits0
    <3>4. UNCHANGED <<outgoing, sent, queue, answers, issued, restarts>>
      BY <1>18 DEF Probe
    <3>5. Places(c)' <= Places(c) /\ Places(c)' \in Nat
      BY <1>02, <1>03, <1>04, <1>09, <3>2, <3>3, <3>4
    <3> QED
      BY <1>00, <1>01, <1>02, <3>1, <3>4, <3>5 DEF HeldAt
  <2> QED
    BY <2>2, <2>3
<1> QED
  BY <1>1, <1>2, <1>3, <1>4, <1>5, <1>6, <1>7, <1>8, <1>9, <1>12, <1>13,
     <1>14, <1>15, <1>16, <1>17, <1>18
  DEF Next, StateThread, Coordinator, Worker

(* What is in a place of the client was asked for.                          *)
LEMMA PlacedAsked ==
    ASSUME SessionTopologyAssumption, Types, Held
    PROVE  /\ \A i \in 1..Len(sent) : sent[i].cmd <= issued
           /\ \A i \in 1..Len(outgoing) : outgoing[i].cmd <= issued
           /\ \A i \in 1..Len(mailbox.commands) :
                 mailbox.commands[i].cmd <= issued
           /\ worker.cmd <= issued
           /\ \A c \in Commands : answers[c] # "none" => c <= issued
<1>0. /\ Carries(OutgoingType, Numbers) /\ Carries(SentType, Numbers)
      /\ Carries(CompletionType, Numbers)
  BY CarryNumbers
<1>1. /\ outgoing \in Seq(OutgoingType) /\ sent \in Seq(SentType)
      /\ mailbox.commands \in Seq(CompletionType)
      /\ worker.cmd \in Numbers /\ issued \in Nat
  BY DEF Types, MailboxType, WorkerType
<1>2. ASSUME NEW c \in Commands, c > issued
      PROVE  /\ Count(outgoing, c) = 0 /\ Count(sent, c) = 0
             /\ Waits0(c) = 0 /\ Count(mailbox.commands, c) = 0
             /\ Told(c) = 0
  <2>1. Places(c) = 0
    BY <1>2 DEF Held, HeldAt
  <2> QED
    BY <2>1, PlacesAre, PlacesTypes
<1>3. \A c \in Commands : c \in Nat /\ (c > issued \/ c <= issued)
  BY <1>1 DEF Commands
<1>4. ASSUME NEW i \in 1..Len(sent) PROVE sent[i].cmd <= issued
  <2>3. sent[i] \in SentType
    BY <1>1, ElementOfSeq
  <2>1. sent[i].cmd \in Commands
    BY <2>3 DEF SentType
  <2>2. Count(sent, sent[i].cmd) # 0
    BY <1>0, <1>1, CountPlaces
  <2> QED
    BY <1>2, <1>3, <2>1, <2>2
<1>5. ASSUME NEW i \in 1..Len(outgoing) PROVE outgoing[i].cmd <= issued
  <2>3. outgoing[i] \in OutgoingType
    BY <1>1, ElementOfSeq
  <2>1. outgoing[i].cmd \in Commands
    BY <2>3 DEF OutgoingType
  <2>2. Count(outgoing, outgoing[i].cmd) # 0
    BY <1>0, <1>1, CountPlaces
  <2> QED
    BY <1>2, <1>3, <2>1, <2>2
<1>6. ASSUME NEW i \in 1..Len(mailbox.commands)
      PROVE  mailbox.commands[i].cmd <= issued
  <2>3. mailbox.commands[i] \in CompletionType
    BY <1>1, ElementOfSeq
  <2>1. mailbox.commands[i].cmd \in Commands
    BY <2>3 DEF CompletionType
  <2>2. Count(mailbox.commands, mailbox.commands[i].cmd) # 0
    BY <1>0, <1>1, CountPlaces
  <2> QED
    BY <1>2, <1>3, <2>1, <2>2
<1>7. worker.cmd <= issued
  <2>1. CASE worker.cmd = 0
    BY <1>1, <2>1
  <2>2. CASE worker.cmd # 0
    <3>1. worker.cmd \in Commands /\ Waits0(worker.cmd) = 1
      BY <1>1, <2>2 DEF Numbers, Commands, Waits0
    <3> QED
      BY <1>2, <1>3, <3>1
  <2> QED
    BY <2>1, <2>2
<1>8. ASSUME NEW c \in Commands, answers[c] # "none" PROVE c <= issued
  <2>1. Told(c) = 1
    BY <1>8 DEF Told
  <2> QED
    BY <1>2, <1>3, <2>1
<1> QED
  BY <1>4, <1>5, <1>6, <1>7, <1>8

(* What is sent in a turn was asked for.                                    *)
LEMMA TurnFrom ==
    ASSUME SessionTopologyAssumption, Types, NEW i \in 1..Len(Turn)
    PROVE  \/ \E r \in 1..Len(sent) :
                 /\ sent[r].deferred /\ Turn[i].cmd = sent[r].cmd
                 /\ Kept = RemoveAt(sent, r)
           \/ \E j \in 1..Len(outgoing) : Turn[i].cmd = outgoing[j].cmd
<1>1. /\ Again \in Seq(SentType) /\ Fresh \in Seq(SentType)
      /\ Len(Fresh) = Len(outgoing)
  BY SendFacts
<1>2. /\ Len(Turn) = Len(Again) + Len(Fresh)
      /\ \A j \in 1..(Len(Again) + Len(Fresh)) : Turn[j] =
            IF j <= Len(Again) THEN Again[j] ELSE Fresh[j - Len(Again)]
      /\ Len(Again) \in Nat /\ Len(Fresh) \in Nat
  BY <1>1, ConcatProperties, LenProperties DEF Turn
<1>3. CASE i <= Len(Again)
  <2>1. Turn[i] = Again[i] /\ Len(Again) # 0
    BY <1>2, <1>3
  <2>2. PICK r \in 1..Len(sent) :
           /\ sent[r].deferred /\ Kept = RemoveAt(sent, r)
           /\ Again = <<Tracked(sent[r].cmd, cursor.rev, 1)>>
    BY <2>1, RetriedFacts, EmptySeq
  <2> DEFINE t == Tracked(sent[r].cmd, cursor.rev, 1)
  <2>3. t.cmd = sent[r].cmd
    BY DEF Tracked
  <2> HIDE DEF t
  <2>4. Again = <<t>>
    BY <2>2 DEF t
  <2>5. Again[i] = t
    BY <1>2, <1>3, <2>4
  <2> QED
    BY <2>1, <2>2, <2>3, <2>5
<1>4. CASE ~(i <= Len(Again))
  <2>1. i - Len(Again) \in 1..Len(Fresh) /\ Turn[i] = Fresh[i - Len(Again)]
    BY <1>2, <1>4
  <2>2. DOMAIN outgoing = 1..Len(outgoing)
    BY LenProperties DEF Types
  <2>3. \A j \in 1..Len(outgoing) : Fresh[j].cmd = outgoing[j].cmd
    BY <2>2 DEF Fresh, Tracked
  <2> QED
    BY <1>1, <2>1, <2>3
<1> QED
  BY <1>3, <1>4

(* So what a turn sends was asked for.                                      *)
LEMMA TurnAsked ==
    ASSUME SessionTopologyAssumption, Types, Held
    PROVE  \A i \in 1..Len(Turn) : Turn[i].cmd <= issued
BY TurnFrom, PlacedAsked

(* Every step keeps the queues to what was asked for.                       *)
LEMMA AskedStep ==
    ASSUME SessionTopologyAssumption, Types, Types', Phases, Held, Asked,
           Flight, Next
    PROVE  Asked'
<1> USE DEF clientVars, wireVars, workerVars, uiVars, bounds
<1> DEFINE busy == IF worker.cmd = 0 THEN 0 ELSE 1
           load == Len(sent) + Len(outgoing) + Len(queue) + busy
<1>0. /\ sent \in Seq(SentType) /\ outgoing \in Seq(OutgoingType)
      /\ queue \in Seq(Commands) /\ up \in Seq(UpType)
      /\ down \in Seq(DownType) /\ worker \in WorkerType /\ issued \in Nat
      /\ Len(sent) \in Nat /\ Len(outgoing) \in Nat /\ Len(queue) \in Nat
      /\ Len(up) \in Nat
  BY LenProperties DEF Types
<1>1. /\ load <= issued /\ \A i \in 1..Len(up) : up[i].cmd <= issued
      /\ \A l \in late : l.cmd <= issued
  BY DEF Asked, Load
<1>2. ASSUME issued' = issued,
             Len(sent') + Len(outgoing') + Len(queue') + busy' <= load,
             \A i \in 1..Len(up') : up'[i].cmd <= issued,
             \A l \in late' : l.cmd <= issued
      PROVE  Asked'
  <2>1. Load' = Len(sent') + Len(outgoing') + Len(queue') + busy'
    BY DEF Load
  <2>2. Len(sent') \in Nat /\ Len(outgoing') \in Nat /\ Len(queue') \in Nat
        /\ busy' \in {0, 1} /\ busy \in {0, 1}
    BY LenProperties DEF Types
  <2> HIDE DEF busy
  <2>3. Load' <= issued
    BY <1>0, <1>1, <1>2, <2>1, <2>2
  <2> QED
    BY <1>2, <2>3 DEF Asked
<1>3. busy \in {0, 1} /\ (worker'.cmd = worker.cmd => busy' = busy)
  OBVIOUS
<1>4. ASSUME UNCHANGED <<issued, sent, outgoing, queue>>,
             worker'.cmd = worker.cmd \/ worker'.cmd = 0,
             \A i \in 1..Len(up') : up'[i].cmd <= issued,
             \A l \in late' : l.cmd <= issued
      PROVE  Asked'
  <2>1. busy' <= busy /\ busy' \in Nat
    BY <1>4
  <2> HIDE DEF busy
  <2>2. Len(sent') + Len(outgoing') + Len(queue') + busy' <= load
    BY <1>0, <1>3, <1>4, <2>1
  <2> QED
    BY <1>2, <1>4, <2>2
<1>5. ASSUME up # <<>>, up' = Tail(up)
      PROVE  \A i \in 1..Len(up') : up'[i].cmd <= issued
  <2>1. /\ Len(up') = Len(up) - 1
        /\ \A i \in 1..(Len(up) - 1) : up'[i] = up[i + 1]
    BY <1>0, <1>5, HeadAndTail
  <2>2. \A i \in 1..(Len(up) - 1) : i + 1 \in 1..Len(up)
    BY <1>0
  <2> QED
    BY <1>1, <2>1, <2>2
<1> HIDE DEF busy, load
<1>6. CASE IssueCommand
  <2>1. /\ issued' = issued + 1 /\ UNCHANGED <<sent, worker, up, late>>
    BY <1>6 DEF IssueCommand
  <2>2. Len(outgoing') + Len(queue') = Len(outgoing) + Len(queue) + 1
    <3>1. CASE streaming
      <4>1. /\ outgoing' = Append(outgoing, [cmd |-> issued',
                                             expected |-> cursor.rev])
            /\ queue' = queue
        BY <1>6, <3>1 DEF IssueCommand
      <4>2. Len(outgoing') = Len(outgoing) + 1
        <5>1. [cmd |-> issued', expected |-> cursor.rev] \in OutgoingType
          BY <1>0, <1>6, <2>1 DEF IssueCommand, OutgoingType, Commands,
             Types, CursorType, SessionTopologyAssumption
        <5> QED
          BY <1>0, <4>1, <5>1, AppendProperties
      <4> QED
        BY <1>0, <4>1, <4>2
    <3>2. CASE ~streaming
      <4>1. outgoing' = outgoing /\ queue' = Append(queue, issued')
        BY <1>6, <3>2 DEF IssueCommand
      <4>2. issued' \in Commands
        BY <1>0, <1>6, <2>1
        DEF IssueCommand, Commands, SessionTopologyAssumption
      <4>3. Len(queue') = Len(queue) + 1
        BY <1>0, <4>1, <4>2, AppendProperties
      <4> QED
        BY <1>0, <4>1, <4>3
    <3> QED
      BY <3>1, <3>2
  <2>3. /\ Load' = Len(sent) + Len(outgoing') + Len(queue') + busy
        /\ Len(outgoing') \in Nat /\ Len(queue') \in Nat
    BY <1>3, <2>1, LenProperties DEF Load, busy, Types
  <2>4. Load' <= issued'
    BY <1>0, <1>1, <1>3, <2>1, <2>2, <2>3 DEF load
  <2>5. \A i \in 1..Len(up) : up[i].cmd <= issued + 1
    <3> TAKE i \in 1..Len(up)
    <3>1. up[i].cmd \in Nat /\ up[i].cmd <= issued
      BY <1>0, <1>1, ElementOfSeq, CarryNumbers DEF Carries, Numbers
    <3> QED
      BY <1>0, <3>1
  <2>6. \A l \in late : l.cmd <= issued + 1
    <3> TAKE l \in late
    <3>1. l.cmd \in Nat /\ l.cmd <= issued
      <4>1. l \in LateType /\ l.cmd <= issued
        BY <1>1 DEF Types
      <4> QED
        BY <4>1 DEF LateType, Commands
    <3> QED
      BY <1>0, <3>1
  <2> QED
    BY <2>1, <2>4, <2>5, <2>6 DEF Asked
<1>7. CASE OtherCommand \/ Consume \/ LoseStream \/ SendEvents \/ ServePoll
           \/ AcceptEvents \/ FallBack \/ PollBegins \/ PollFails
           \/ AcceptRevision \/ AcceptStale \/ AcceptEpoch
           \/ AcceptTopology
  BY <1>1, <1>4, <1>7 DEF OtherCommand, Consume, LoseStream, SendEvents,
     ServePoll, AcceptEvents, FallBack, PollBegins, PollFails,
     AcceptRevision, AcceptStale, AcceptEpoch, AcceptTopology
<1>8. CASE Restart
  <2>1. worker'.cmd = worker.cmd /\ Len(up') = 0 /\ late' = {}
    BY <1>0, <1>8, EmptySeq DEF Restart, WorkerType
  <2> QED
    BY <1>4, <1>8, <2>1 DEF Restart
<1>9. CASE ServeLate
  <2>1. late' \subseteq late
    BY <1>9 DEF ServeLate
  <2> QED
    BY <1>1, <1>4, <1>9, <2>1 DEF ServeLate
<1>10. CASE ReadUpdate
  <2> DEFINE T == {i \in DOMAIN up : up[i].kind = "update"}
             u == First(T)
  <2>1. T # {} /\ up' = RemoveAt(up, u)
    BY <1>10 DEF ReadUpdate
  <2>2. u \in 1..Len(up)
    <3>1. T \in SUBSET Nat /\ DOMAIN up = 1..Len(up)
      BY <1>0, LenProperties
    <3>2. \E x \in T : \A y \in T : x <= y
      BY <2>1, <3>1, LeastExists
    <3> QED
      BY <3>1, <3>2 DEF First
  <2> HIDE DEF u
  <2>3. /\ Len(up') = Len(up) - 1
        /\ \A j \in 1..(Len(up) - 1) :
              up'[j] = IF j < u THEN up[j] ELSE up[j + 1]
    BY <1>0, <2>1, <2>2, RemoveAtProperties
  <2>4. \A j \in 1..(Len(up) - 1) : j \in 1..Len(up) /\ j + 1 \in 1..Len(up)
    BY <1>0
  <2>5. \A j \in 1..Len(up') : up'[j].cmd <= issued
    BY <1>1, <2>3, <2>4
  <2> QED
    BY <1>1, <1>4, <1>10, <2>5 DEF ReadUpdate
<1>11. CASE StreamCommand
  <2>1. up # <<>> /\ up' = Tail(up)
    BY <1>11 DEF StreamCommand
  <2> QED
    BY <1>1, <1>4, <1>5, <1>11, <2>1 DEF StreamCommand
<1>12. CASE SeeClose
  <2>1. Len(up') = 0
    BY <1>12, EmptySeq DEF SeeClose
  <2> QED
    BY <1>1, <1>4, <1>12, <2>1 DEF SeeClose
<1>13. CASE SendUpdate
  <2> DEFINE e == UpdateFrame(cursor.rev)
  <2>1. e \in UpType /\ e.cmd = 0
    BY DEF UpdateFrame, UpType, Types, CursorType
  <2> HIDE DEF e
  <2>2. up' = Append(up, e)
    BY <1>13 DEF SendUpdate, e
  <2>3. /\ Len(up') = Len(up) + 1 /\ up'[Len(up) + 1] = e
        /\ \A i \in 1..Len(up) : up'[i] = up[i]
    BY <1>0, <2>1, <2>2, AppendProperties
  <2>4. ASSUME NEW i \in 1..Len(up') PROVE up'[i].cmd <= issued
    <3>1. i \in 1..Len(up) \/ i = Len(up) + 1
      BY <1>0, <2>3
    <3> QED
      <4>1. CASE i \in 1..Len(up)
        BY <1>1, <2>3, <4>1
      <4>2. CASE i = Len(up) + 1
        BY <1>0, <2>1, <2>3, <4>2
      <4> QED
        BY <3>1, <4>1, <4>2
  <2> QED
    BY <1>1, <1>4, <1>13, <2>4 DEF SendUpdate
<1>14. CASE SendCommands
  <2>1. /\ sent' = Kept \o Turn /\ up' = up \o Frames(Turn)
        /\ outgoing' = <<>>
    BY <1>14, SendCommandsAs
  <2>2. UNCHANGED <<issued, queue, worker, late>>
    BY <1>14 DEF SendCommands
  <2>3. /\ Again \in Seq(SentType) /\ Fresh \in Seq(SentType)
        /\ Turn \in Seq(SentType) /\ Kept \in Seq(SentType)
        /\ Frames(Turn) \in Seq(UpType) /\ Len(Frames(Turn)) = Len(Turn)
        /\ Len(Fresh) = Len(outgoing)
        /\ \A i \in 1..Len(Turn) : Frames(Turn)[i].cmd = Turn[i].cmd
    BY SendFacts
  <2>4. Len(sent') + Len(outgoing') = Len(sent) + Len(outgoing)
    <3>1. /\ Len(Turn) = Len(Again) + Len(Fresh)
          /\ Len(sent') = Len(Kept) + Len(Turn) /\ Len(outgoing') = 0
      BY <2>1, <2>3, ConcatProperties, EmptySeq DEF Turn
    <3>2. Len(Kept) + Len(Again) = Len(sent)
      BY AgainCount
    <3>3. Len(Kept) \in Nat /\ Len(Again) \in Nat
      BY <2>3, LenProperties
    <3>4. Len(sent') = Len(Kept) + (Len(Again) + Len(outgoing))
      BY <2>3, <3>1
    <3> QED
      BY <1>0, <3>1, <3>2, <3>3, <3>4
  <2>5. /\ Len(up') = Len(up) + Len(Turn) /\ Len(Turn) \in Nat
        /\ \A i \in 1..(Len(up) + Len(Turn)) : up'[i] =
              IF i <= Len(up) THEN up[i] ELSE Frames(Turn)[i - Len(up)]
    <3> DEFINE s == Frames(Turn)
    <3>1. s \in Seq(UpType) /\ Len(s) = Len(Turn) /\ up \in Seq(UpType)
      BY <1>0, <2>3
    <3> HIDE DEF s
    <3>2. /\ Len(up \o s) = Len(up) + Len(s) /\ Len(s) \in Nat
          /\ \A i \in 1..(Len(up) + Len(s)) : (up \o s)[i] =
                IF i <= Len(up) THEN up[i] ELSE s[i - Len(up)]
      BY <3>1, ConcatProperties, LenProperties
    <3>3. up' = up \o s
      BY <2>1 DEF s
    <3> QED
      BY <3>1, <3>2, <3>3 DEF s
  <2>6. \A i \in 1..Len(Turn) : Turn[i].cmd <= issued
    BY TurnAsked
  <2>7. ASSUME NEW i \in 1..Len(up') PROVE up'[i].cmd <= issued
    <3>1. CASE i <= Len(up)
      <4>1. i \in 1..Len(up) /\ up[i].cmd <= issued
        BY <1>0, <1>1, <3>1
      <4>2. i \in 1..(Len(up) + Len(Turn))
        BY <2>5
      <4>3. up'[i] = up[i]
        BY <2>5, <3>1, <4>2
      <4> QED
        BY <4>1, <4>3
    <3>2. CASE ~(i <= Len(up))
      <4>1. i - Len(up) \in 1..Len(Turn)
        BY <1>0, <2>5, <3>2
      <4>2. up'[i] = Frames(Turn)[i - Len(up)]
        BY <2>5, <3>2
      <4> QED
        BY <2>3, <2>6, <4>1, <4>2
    <3> QED
      BY <3>1, <3>2
  <2>8. busy' = busy
    BY <2>2 DEF busy
  <2>9. Len(sent') \in Nat /\ Len(outgoing') \in Nat
    BY LenProperties DEF Types
  <2>10. Len(sent') + Len(outgoing') + Len(queue') + busy' <= load
    BY <1>0, <1>3, <2>2, <2>4, <2>8, <2>9 DEF load
  <2> QED
    BY <1>1, <1>2, <2>2, <2>7, <2>10
<1>15. CASE AcceptResult
  <2> DEFINE frame == Head(down)
             i == Carried(frame.cmd)
  <2>1. down # <<>> /\ frame.kind = "result"
        /\ UNCHANGED <<outgoing, worker, up, late, issued>>
    BY <1>15 DEF AcceptResult
  <2>2. frame.cmd \in Commands
    <3>1. frame \in DownType
      BY <1>0, <2>1, HeadAndTail
    <3> QED
      BY <2>1, <3>1 DEF DownType
  <2>3. i \in 1..Len(sent)
    BY <2>1, <2>2, ResultTracked, CarriedFacts
  <2>4. \/ sent' = RemoveAt(sent, i) /\ queue' = Append(queue, frame.cmd)
        \/ sent' = Postponed(i) /\ UNCHANGED queue
        \/ sent' = RemoveAt(sent, i) /\ UNCHANGED queue
    BY <1>15 DEF AcceptResult, Postponed
  <2> HIDE DEF frame, i
  <2>5. /\ Len(RemoveAt(sent, i)) = Len(sent) - 1
        /\ Len(Append(queue, frame.cmd)) = Len(queue) + 1
        /\ Len(Postponed(i)) = Len(sent)
    BY <1>0, <2>2, <2>3, RemoveAtProperties, AppendProperties,
       PostponedFacts
  <2>6. Len(sent') + Len(queue') <= Len(sent) + Len(queue)
    BY <1>0, <2>4, <2>5
  <2>7. busy' = busy
    BY <2>1 DEF busy
  <2>8. Len(sent') \in Nat /\ Len(queue') \in Nat
    BY LenProperties DEF Types
  <2>9. Len(sent') + Len(outgoing') + Len(queue') + busy' <= load
    BY <1>0, <1>3, <2>1, <2>6, <2>7, <2>8 DEF load
  <2> QED
    BY <1>1, <1>2, <2>1, <2>9
<1>16. CASE AbandonCommands
  <2>1. /\ queue' = queue \o Abandoned /\ sent' = <<>> /\ outgoing' = <<>>
        /\ UNCHANGED <<worker, up, late, issued>>
    BY <1>16 DEF AbandonCommands
  <2>2. /\ Abandoned = Cmds(sent) \o Cmds(outgoing)
        /\ Cmds(sent) \in Seq(Commands) /\ Cmds(outgoing) \in Seq(Commands)
        /\ Abandoned \in Seq(Commands) /\ Len(Cmds(sent)) = Len(sent)
        /\ Len(Cmds(outgoing)) = Len(outgoing)
        /\ Len(Abandoned) = Len(sent) + Len(outgoing)
    BY AbandonedTypes
  <2>3. Len(queue') = Len(queue) + Len(Abandoned)
        /\ Len(sent') = 0 /\ Len(outgoing') = 0
    <3>1. Len(queue \o Abandoned) = Len(queue) + Len(Abandoned)
      BY <1>0, <2>2, ConcatProperties
    <3>2. Len(sent') = 0 /\ Len(outgoing') = 0
      BY <2>1, EmptySeq
    <3> QED
      BY <2>1, <3>1, <3>2
  <2>4. busy' = busy
    BY <2>1 DEF busy
  <2>5. Len(sent') + Len(outgoing') + Len(queue') + busy' <= load
    BY <1>0, <1>3, <2>2, <2>3, <2>4 DEF load
  <2> QED
    BY <1>1, <1>2, <2>1, <2>5
<1>17. CASE WorkerTakes
  <2>1. /\ queue # <<>> /\ queue' = Tail(queue)
        /\ UNCHANGED <<outgoing, sent, up, late, issued>>
    BY <1>17 DEF WorkerTakes
  <2>2. worker.cmd = 0
    BY <1>17 DEF WorkerTakes, Phases
  <2>3. busy = 0 /\ busy' \in {0, 1} /\ Len(queue') = Len(queue) - 1
    BY <1>0, <2>1, <2>2, HeadAndTail DEF busy
  <2>4. Len(sent') + Len(outgoing') + Len(queue') + busy' <= load
    BY <1>0, <2>1, <2>3 DEF load
  <2> QED
    BY <1>1, <1>2, <2>1, <2>4
<1>18. CASE Handshake \/ HandshakeFails \/ ServeCommand \/ WorkerAnswered
            \/ Refresh \/ RefreshFails \/ TryAgain
  <2>1. worker'.cmd = worker.cmd
    BY <1>0, <1>18 DEF Handshake, HandshakeFails, ServeCommand,
       WorkerAnswered, Refresh, RefreshFails, TryAgain, Call, WorkerType
  <2> QED
    BY <1>1, <1>4, <1>18, <2>1 DEF Handshake, HandshakeFails, ServeCommand,
       WorkerAnswered, Refresh, RefreshFails, TryAgain
<1>19. CASE WorkerPublishes \/ Probe
  <2>1. worker'.cmd = 0
    BY <1>19 DEF WorkerPublishes, Probe, IdleWorker
  <2> QED
    BY <1>1, <1>4, <1>19, <2>1 DEF WorkerPublishes, Probe
<1>20. CASE GiveUp
  <2>1. /\ worker.pc \in {"lost", "asked", "answered"}
        /\ worker' = [IdleWorker EXCEPT !.pc = "probing"]
        /\ queue' = <<worker.cmd>> \o queue
        /\ UNCHANGED <<outgoing, sent, up, issued>>
    BY <1>20 DEF GiveUp, PutBack
  <2>2. worker.cmd \in Commands /\ worker.cmd # 0
    BY <1>0, <2>1 DEF Phases, WorkerType, Numbers, Commands
  <2> DEFINE one == <<worker.cmd>>
  <2>3. one \in Seq(Commands) /\ Len(one) = 1
    BY <2>2
  <2> HIDE DEF one
  <2>4. Len(one \o queue) = Len(one) + Len(queue)
    BY <1>0, <2>3, ConcatProperties
  <2>5. busy = 1 /\ busy' = 0
    BY <2>1, <2>2 DEF busy, IdleWorker
  <2>6. Len(queue') = 1 + Len(queue)
    BY <2>1, <2>3, <2>4 DEF one
  <2>7. Len(sent') + Len(outgoing') + Len(queue') + busy' <= load
    BY <1>0, <2>1, <2>5, <2>6 DEF load
  <2>8. \A l \in late' : l.cmd <= issued
    <3>1. worker.cmd <= issued
      BY PlacedAsked
    <3>2. ASSUME NEW l \in late' PROVE l \in late \/ l.cmd = worker.cmd
      BY <1>20 DEF GiveUp
    <3> QED
      BY <1>1, <3>1, <3>2
  <2> QED
    BY <1>1, <1>2, <2>1, <2>7, <2>8
<1> QED
  BY <1>6, <1>7, <1>8, <1>9, <1>10, <1>11, <1>12, <1>13, <1>14, <1>15,
     <1>16, <1>17, <1>18, <1>19, <1>20
  DEF Next, StateThread, Coordinator, Worker

(* What remains when one command is taken out.                              *)
LEMMA OthersRemain ==
    ASSUME NEW S, NEW s \in Seq(S), NEW i \in 1..Len(s),
           NEW j \in 1..Len(s), i # j
    PROVE  \E k \in 1..Len(RemoveAt(s, i)) : RemoveAt(s, i)[k] = s[j]
<1>1. /\ Len(s) \in Nat /\ Len(RemoveAt(s, i)) = Len(s) - 1
      /\ \A k \in 1..(Len(s) - 1) :
            RemoveAt(s, i)[k] = IF k < i THEN s[k] ELSE s[k + 1]
  BY RemoveAtProperties, LenProperties
<1>2. CASE j < i
  <2>1. j \in 1..(Len(s) - 1)
    BY <1>1, <1>2
  <2> QED
    BY <1>1, <1>2, <2>1
<1>3. CASE j > i
  <2>1. /\ j - 1 \in 1..(Len(s) - 1) /\ ~(j - 1 < i)
        /\ (j - 1) + 1 = j
    BY <1>1, <1>3
  <2>2. RemoveAt(s, i)[j - 1] = s[(j - 1) + 1]
    BY <1>1, <2>1
  <2> QED
    BY <1>1, <2>1, <2>2
<1> QED
  BY <1>1, <1>2, <1>3

(* Every step keeps what is on its way single and tracked.                  *)
LEMMA FlightStep ==
    ASSUME SessionTopologyAssumption, Types, Types', Phases, Held, Flight,
           Cache, Next
    PROVE  Flight'
<1> USE DEF clientVars, wireVars, workerVars, uiVars, bounds
<1> SUFFICES ASSUME NEW c \in Commands
             PROVE  InFlight(c)' <= 1 /\ (InFlight(c)' # 0 => Tracks(c)')
  BY DEF Flight
<1>0. /\ Carries(SentType, Numbers) /\ Carries(UpType, Numbers)
      /\ Carries(DownType, Numbers) /\ Carries(OutgoingType, Numbers)
  BY CarryNumbers
<1>1. /\ sent \in Seq(SentType) /\ up \in Seq(UpType)
      /\ down \in Seq(DownType) /\ outgoing \in Seq(OutgoingType)
      /\ up' \in Seq(UpType) /\ down' \in Seq(DownType)
      /\ sent' \in Seq(SentType)
      /\ linked \in BOOLEAN /\ linked' \in BOOLEAN /\ c # 0
  BY DEF Types, Commands
<1>2. /\ Count(down, c) \in Nat /\ Count(up, c) \in Nat
      /\ Count(down', c) \in Nat /\ Count(up', c) \in Nat
  BY <1>0, <1>1, CountAs
<1>3. /\ InFlight(c) = Count(down, c) + (IF linked THEN Count(up, c) ELSE 0)
      /\ InFlight(c)' =
            Count(down', c) + (IF linked' THEN Count(up', c) ELSE 0)
  BY DEF InFlight
<1>4. InFlight(c) <= 1 /\ (InFlight(c) # 0 => Tracks(c))
  BY DEF Flight
<1>5. InFlight(c) \in Nat /\ InFlight(c)' \in Nat
  BY <1>1, <1>2, <1>3
<1>6. ASSUME InFlight(c)' <= InFlight(c), Tracks(c) => Tracks(c)'
      PROVE  InFlight(c)' <= 1 /\ (InFlight(c)' # 0 => Tracks(c)')
  BY <1>4, <1>5, <1>6
<1>7. UNCHANGED sent => Tracks(c)' = Tracks(c)
  BY DEF Tracks
<1>8. ASSUME UNCHANGED <<sent, linked>>, Count(down', c) <= Count(down, c),
             ~linked \/ Count(up', c) <= Count(up, c)
      PROVE  InFlight(c)' <= 1 /\ (InFlight(c)' # 0 => Tracks(c)')
  BY <1>1, <1>2, <1>3, <1>6, <1>7, <1>8
<1>9. CASE IssueCommand \/ Consume \/ OtherCommand \/ ServeLate
           \/ ServePoll \/ ServeCommand
  BY <1>2, <1>8, <1>9 DEF IssueCommand, Consume, OtherCommand, ServeLate,
     ServePoll, ServeCommand
<1>10. CASE FallBack \/ PollBegins \/ PollFails \/ AcceptStale
            \/ AcceptEpoch \/ AcceptRevision \/ AcceptTopology
  BY <1>2, <1>8, <1>10 DEF FallBack, PollBegins, PollFails, AcceptStale,
     AcceptEpoch, AcceptRevision, AcceptTopology
<1>11. CASE WorkerTakes \/ Handshake \/ HandshakeFails \/ WorkerAnswered
            \/ Refresh \/ RefreshFails \/ TryAgain \/ WorkerPublishes
            \/ GiveUp \/ Probe
  BY <1>2, <1>8, <1>11 DEF WorkerTakes, Handshake, HandshakeFails,
     WorkerAnswered, Refresh, RefreshFails, TryAgain, WorkerPublishes,
     GiveUp, Probe
<1>12. CASE Restart \/ LoseStream
  <2>1. ~linked' /\ down' \in {down, <<>>} /\ UNCHANGED sent
    BY <1>12 DEF Restart, LoseStream
  <2>2. Count(down', c) <= Count(down, c)
    BY <1>2, <2>1, CountEmpty
  <2> QED
    BY <1>1, <1>2, <1>3, <1>6, <1>7, <2>1, <2>2
<1>13. CASE ReadUpdate
  <2> DEFINE T == {i \in DOMAIN up : up[i].kind = "update"}
             u == First(T)
  <2>1. T # {} /\ up' = RemoveAt(up, u) /\ UNCHANGED <<sent, linked, down>>
    BY <1>13 DEF ReadUpdate
  <2>2. u \in 1..Len(up)
    <3>1. T \in SUBSET Nat /\ DOMAIN up = 1..Len(up)
      BY <1>1, LenProperties
    <3>2. \E x \in T : \A y \in T : x <= y
      BY <2>1, <3>1, LeastExists
    <3> QED
      BY <3>1, <3>2 DEF First
  <2> HIDE DEF u
  <2>3. Count(up, c) = Count(up', c) + (IF up[u].cmd = c THEN 1 ELSE 0)
    BY <1>0, <1>1, <2>1, <2>2, CountRemoveAt
  <2> QED
    BY <1>2, <1>8, <2>1, <2>3
<1>14. CASE StreamCommand
  <2>1. up # <<>> /\ up' = Tail(up) /\ UNCHANGED <<sent, linked>>
    BY <1>14, StreamCommandAs
  <2>2. PICK frame \in DownType :
           /\ frame.cmd = Head(up).cmd
           /\ IF linked THEN Puts(down, frame, down') ELSE down' = down
    BY <1>14, StreamCommandAs
  <2>3. Count(up, c) = Count(up', c) + (IF Head(up).cmd = c THEN 1 ELSE 0)
    BY <1>0, <1>1, <2>1, CountTail
  <2>4. CASE linked
    <3>1. Count(down', c) =
             Count(down, c) + (IF frame.cmd = c THEN 1 ELSE 0)
      BY <1>1, <2>2, <2>4, PutsFacts
    <3>2. InFlight(c)' = InFlight(c)
      BY <1>2, <1>3, <2>1, <2>2, <2>3, <2>4, <3>1
    <3> QED
      BY <1>5, <1>6, <1>7, <2>1, <3>2
  <2>5. CASE ~linked
    BY <1>2, <1>8, <2>1, <2>2, <2>5
  <2> QED
    BY <2>4, <2>5
<1>15. CASE SendEvents
  <2> DEFINE e == EventsFrame(Snapshot)
  <2>1. e \in DownType /\ e.cmd = 0
    BY SnapshotTypes DEF EventsFrame, DownType, Statuses, Types
  <2> HIDE DEF e
  <2>2. down' = Append(down, e) /\ UNCHANGED <<sent, linked, up>>
    BY <1>15 DEF SendEvents, e
  <2>3. Count(down', c) = Count(down, c) + (IF e.cmd = c THEN 1 ELSE 0)
    BY <1>0, <1>1, <2>1, <2>2, CountAppend
  <2> QED
    BY <1>1, <1>2, <1>8, <2>1, <2>2, <2>3
<1>16. CASE SeeClose
  <2>1. ~linked /\ UNCHANGED <<sent, linked, down>>
    BY <1>16 DEF SeeClose
  <2> QED
    BY <1>2, <1>8, <2>1
<1>17. CASE SendUpdate
  <2> DEFINE e == UpdateFrame(cursor.rev)
  <2>1. e \in UpType /\ e.cmd = 0
    BY DEF UpdateFrame, UpType, Types, CursorType
  <2> HIDE DEF e
  <2>2. up' = Append(up, e) /\ UNCHANGED <<sent, linked, down>>
    BY <1>17 DEF SendUpdate, e
  <2>3. Count(up', c) = Count(up, c) + (IF e.cmd = c THEN 1 ELSE 0)
    BY <1>0, <1>1, <2>1, <2>2, CountAppend
  <2> QED
    BY <1>1, <1>2, <1>8, <2>1, <2>2, <2>3
<1>18. CASE AcceptEvents
  <2>1. /\ down # <<>> /\ down' = Tail(down) /\ UNCHANGED <<sent, linked, up>>
    BY <1>18 DEF AcceptEvents
  <2>2. Count(down, c)
           = Count(down', c) + (IF Head(down).cmd = c THEN 1 ELSE 0)
    BY <1>0, <1>1, <2>1, CountTail
  <2> QED
    BY <1>2, <1>8, <2>1, <2>2
<1>19. CASE AbandonCommands
  <2>1. ~streaming /\ down' = <<>> /\ UNCHANGED linked
    BY <1>19 DEF AbandonCommands
  <2>2. ~linked'
    BY <2>1 DEF Phases
  <2>3. Count(down', c) = 0
    BY <2>1, CountEmpty
  <2> QED
    BY <1>3, <2>2, <2>3
<1>20. CASE AcceptResult
  <2> DEFINE d == Head(down).cmd
             i == Carried(d)
  <2>1. /\ down # <<>> /\ Head(down).kind = "result" /\ down' = Tail(down)
        /\ UNCHANGED <<up, linked>>
    BY <1>20 DEF AcceptResult
  <2>2. i \in 1..Len(sent) /\ sent[i].cmd = d
    BY <2>1, ResultTracked, CarriedFacts
  <2>3. Count(down, c) = Count(down', c) + (IF d = c THEN 1 ELSE 0)
    BY <1>0, <1>1, <2>1, CountTail
  <2>4. sent' = RemoveAt(sent, i) \/ sent' = Postponed(i)
    BY <1>20 DEF AcceptResult, Postponed
  <2> HIDE DEF d, i
  <2>5. CASE d = c
    <3>1. InFlight(c)' = 0
      BY <1>1, <1>2, <1>3, <1>4, <2>1, <2>3, <2>5
    <3> QED
      BY <3>1
  <2>6. CASE d # c
    <3>1. ASSUME Tracks(c) PROVE Tracks(c)'
      <4>1. PICK j \in 1..Len(sent) : sent[j].cmd = c /\ ~sent[j].deferred
        BY <3>1 DEF Tracks
      <4>2. j # i
        BY <2>2, <2>6, <4>1
      <4>3. CASE sent' = RemoveAt(sent, i)
        <5>1. \E k \in 1..Len(sent') : sent'[k] = sent[j]
          BY <1>1, <2>2, <4>2, <4>3, OthersRemain
        <5> QED
          BY <4>1, <5>1 DEF Tracks
      <4>4. CASE sent' = Postponed(i)
        <5>1. Len(sent') = Len(sent) /\ sent'[j] = sent[j]
          BY <2>2, <4>2, <4>4, PostponedFacts
        <5> QED
          BY <4>1, <5>1 DEF Tracks
      <4> QED
        BY <2>4, <4>3, <4>4
    <3>2. InFlight(c)' <= InFlight(c)
      BY <1>1, <1>2, <1>3, <2>1, <2>3, <2>6
    <3> QED
      BY <1>6, <3>1, <3>2
  <2> QED
    BY <2>5, <2>6
<1>21. CASE SendCommands
  <2>1. /\ sent' = Kept \o Turn /\ up' = up \o Frames(Turn)
        /\ UNCHANGED <<down, linked>> /\ linked
    BY <1>21, SendCommandsAs DEF SendCommands
  <2>2. /\ Again \in Seq(SentType) /\ Fresh \in Seq(SentType)
        /\ Turn \in Seq(SentType) /\ Kept \in Seq(SentType)
        /\ Frames(Turn) \in Seq(UpType) /\ Len(Frames(Turn)) = Len(Turn)
        /\ \A i \in 1..Len(Turn) : /\ ~Turn[i].deferred
                                   /\ Frames(Turn)[i].cmd = Turn[i].cmd
    BY SendFacts
  <2>3. Count(Frames(Turn), c) = Count(Turn, c)
    <3>1. DOMAIN Frames(Turn) = DOMAIN Turn /\ DOMAIN Turn = 1..Len(Turn)
      BY <2>2, LenProperties DEF Frames
    <3>2. {i \in DOMAIN Frames(Turn) : Frames(Turn)[i].cmd = c}
             = {i \in DOMAIN Turn : Turn[i].cmd = c}
      BY <2>2, <3>1
    <3> QED
      BY <3>2 DEF Count
  <2>4. Count(up', c) = Count(up, c) + Count(Turn, c)
    BY <1>0, <1>1, <2>1, <2>2, <2>3, CmdsConcat
  <2>5. Count(Turn, c) \in Nat /\ Count(Kept, c) \in Nat
        /\ Count(Again, c) \in Nat
    BY <1>0, <2>2, CountAs
  <2>6. /\ Count(Turn, c) = Count(Again, c) + Count(outgoing, c)
        /\ Count(Kept, c) + Count(Again, c) = Count(sent, c)
    <3>1. Count(Turn, c) = Count(Again, c) + Count(Fresh, c)
      BY <1>0, <2>2, CmdsConcat DEF Turn
    <3> QED
      BY <3>1, AgainCount, FreshCount
  <2>7. Count(outgoing, c) + Count(sent, c) <= 1
    <3>1. Places(c) <= 1
      BY DEF Held, HeldAt
    <3> QED
      BY <3>1, PlacesAre, PlacesTypes
  <2>8. /\ Len(sent') = Len(Kept) + Len(Turn)
        /\ \A k \in 1..(Len(Kept) + Len(Turn)) : sent'[k] =
              IF k <= Len(Kept) THEN Kept[k] ELSE Turn[k - Len(Kept)]
        /\ Len(Kept) \in Nat /\ Len(Turn) \in Nat
    BY <2>1, <2>2, ConcatProperties, LenProperties
  <2>9. CASE Count(Turn, c) = 0
    <3>1. InFlight(c)' = InFlight(c)
      BY <1>2, <1>3, <2>1, <2>4, <2>9
    <3>2. ASSUME Tracks(c) PROVE Tracks(c)'
      <4>1. PICK j \in 1..Len(sent) : sent[j].cmd = c /\ ~sent[j].deferred
        BY <3>2 DEF Tracks
      <4>2. \E k \in 1..Len(Kept) : Kept[k] = sent[j]
        <5>1. CASE Kept = sent
          BY <4>1, <5>1
        <5>2. ASSUME NEW r \in 1..Len(sent), sent[r].deferred,
                     Kept = RemoveAt(sent, r)
              PROVE  \E k \in 1..Len(Kept) : Kept[k] = sent[j]
          <6>1. r # j
            BY <4>1, <5>2
          <6> QED
            BY <1>1, <4>1, <5>2, <6>1, OthersRemain
        <5> QED
          BY <5>1, <5>2, RetriedFacts
      <4>3. PICK k \in 1..Len(Kept) : Kept[k] = sent[j]
        BY <4>2
      <4>4. /\ k \in 1..Len(sent') /\ k \in 1..(Len(Kept) + Len(Turn))
            /\ k <= Len(Kept)
        BY <2>8
      <4>5. sent'[k] = sent[j]
        BY <2>8, <4>3, <4>4
      <4> QED
        BY <4>1, <4>4, <4>5 DEF Tracks
    <3> QED
      BY <1>5, <1>6, <3>1, <3>2
  <2>10. CASE Count(Turn, c) # 0
    <3>1. PICK k \in 1..Len(Turn) : Turn[k].cmd = c
      BY <1>0, <2>2, <2>10, CountPlaces
    <3>2. Tracks(c)'
      <4>1. /\ Len(Kept) + k \in 1..Len(sent')
            /\ Len(Kept) + k \in 1..(Len(Kept) + Len(Turn))
            /\ ~(Len(Kept) + k <= Len(Kept))
            /\ (Len(Kept) + k) - Len(Kept) = k
        BY <2>8
      <4>2. sent'[Len(Kept) + k] = Turn[k]
        BY <2>8, <4>1
      <4> QED
        BY <2>2, <3>1, <4>1, <4>2 DEF Tracks
    <3>3. ~Tracks(c)
      <4>1. ASSUME NEW j \in 1..Len(sent), sent[j].cmd = c,
                   ~sent[j].deferred
            PROVE  FALSE
        <5>1. Count(sent, c) # 0
          BY <1>0, <1>1, <4>1, CountPlaces
        <5>2. Count(sent, c) \in Nat /\ Count(outgoing, c) \in Nat
          BY PlacesTypes
        <5>3. Count(sent, c) <= 1 /\ Count(outgoing, c) = 0
          BY <2>7, <5>1, <5>2
        <5>4. \A l \in 1..Len(outgoing) : outgoing[l].cmd # c
          BY <1>0, <1>1, <5>3, CountPlaces
        <5>5. PICK r \in 1..Len(sent) :
                 sent[r].deferred /\ Turn[k].cmd = sent[r].cmd
          BY <3>1, <5>4, TurnFrom
        <5>6. r = j
          BY <1>0, <1>1, <3>1, <4>1, <5>3, <5>5, CountPlaces
        <5> QED
          BY <4>1, <5>5, <5>6
      <4> QED
        BY <4>1 DEF Tracks
    <3>4. InFlight(c) = 0
      BY <1>4, <3>3
    <3>5. Count(Turn, c) <= 1
      <4>1. Count(sent, c) \in Nat /\ Count(outgoing, c) \in Nat
        BY PlacesTypes
      <4> QED
        BY <2>5, <2>6, <2>7, <4>1
    <3>6. InFlight(c)' <= 1
      BY <1>2, <1>3, <2>1, <2>4, <2>5, <3>4, <3>5
    <3> QED
      BY <3>2, <3>6
  <2> QED
    BY <2>9, <2>10
<1> QED
  BY <1>9, <1>10, <1>11, <1>12, <1>13, <1>14, <1>15, <1>16, <1>17, <1>18,
     <1>19, <1>20, <1>21
  DEF Next, StateThread, Coordinator, Worker

(* Every step keeps the cache of completed commands true.                   *)
LEMMA CacheStep ==
    ASSUME SessionTopologyAssumption, Types, Phases, Held, Asked, Cache, Next
    PROVE  Cache'
<1> USE DEF clientVars, wireVars, workerVars, uiVars, bounds
<1>0. /\ server \in ServerType /\ applied \in AppliedType
      /\ server.done \in Seq(Numbers) /\ server.rev \in Nat
      /\ issued \in Nat /\ others \in Nat
      /\ up \in Seq(UpType) /\ late \in SUBSET LateType
      /\ worker \in WorkerType
  BY RevsFacts DEF Types, ServerType
<1>1. ASSUME UNCHANGED <<server, applied, others>>, issued' \in Nat,
             issued' >= issued
      PROVE  Cache'
  <2>1. \A c \in applied.ever : c <= issued'
    <3> TAKE c \in applied.ever
    <3>1. c \in Nat /\ c <= issued
      BY <1>0 DEF Cache, AppliedType, Commands
    <3> QED
      BY <1>0, <1>1, <3>1
  <2> QED
    BY <1>1, <2>1 DEF Cache
<1>2. ASSUME NEW c \in Commands, NEW expected, NEW status,
             Execute(c, expected, status), c <= issued,
             UNCHANGED <<issued, others>>
      PROVE  Cache'
  <2>1. CASE UNCHANGED <<server, applied>>
    BY <1>0, <1>1, <1>2, <2>1
  <2>2. CASE Applies(c)
    <3>1. /\ c \in Numbers /\ Len(server.done) <= CompletedLimit
          /\ CacheHolds => c \notin applied.now
          /\ CacheHolds => Len(server.done) < CompletedLimit
          /\ CacheHolds => server.rev <= MaxCommands + MaxOthers
          /\ applied'.now = applied.now \cup {c}
          /\ applied'.ever = applied.ever \cup {c}
      BY <2>2, AppliesFacts
    <3>2. /\ server'.done = Remember(server.done, c)
          /\ server'.rev = server.rev + 1
      BY <2>2, <3>1, GrowsFacts DEF Applies
    <3>3. /\ Remember(server.done, c) \in Seq(Numbers)
          /\ Len(Remember(server.done, c)) \in 1..CompletedLimit
          /\ Len(Remember(server.done, c)) <= Len(server.done) + 1
          /\ \A i \in 1..Len(Remember(server.done, c)) :
                \/ Remember(server.done, c)[i] = c
                \/ \E j \in 1..Len(server.done) :
                      Remember(server.done, c)[i] = server.done[j]
          /\ \E i \in 1..Len(Remember(server.done, c)) :
                Remember(server.done, c)[i] = c
          /\ Len(server.done) < CompletedLimit =>
                \A j \in 1..Len(server.done) :
                   \E i \in 1..Len(Remember(server.done, c)) :
                      Remember(server.done, c)[i] = server.done[j]
      BY <1>0, <3>1, RememberFacts
    <3> DEFINE all == server'.done
    <3>4. /\ Len(all) \in Nat /\ Len(all) <= CompletedLimit
          /\ Len(all) <= Len(server.done) + 1 /\ Len(server.done) \in Nat
      BY <1>0, <3>2, <3>3, LenProperties DEF SessionTopologyAssumption
    <3>5. \A i \in 1..Len(all) : all[i] = 0 \/ all[i] \in applied'.now
      BY <3>1, <3>2, <3>3 DEF Cache
    <3>6. /\ applied'.now \subseteq applied'.ever
          /\ \A d \in applied'.ever : d <= issued
      BY <1>2, <3>1 DEF Cache
    <3>7. ASSUME CacheHolds
          PROVE  /\ \A d \in applied'.now :
                       \E i \in 1..Len(all) : all[i] = d
                 /\ Len(all) <= others + Cardinality(applied'.now)
                 /\ server'.rev <= 1 + others + Cardinality(applied'.now)
      <4>1. /\ Cardinality(applied'.now) = Cardinality(applied.now) + 1
            /\ Cardinality(applied.now) \in Nat
        BY <3>1, <3>7, Room
      <4>2. /\ Len(server.done) <= others + Cardinality(applied.now)
            /\ server.rev <= 1 + others + Cardinality(applied.now)
        BY <3>7 DEF Cache
      <4>3. ASSUME NEW d \in applied'.now
            PROVE  \E i \in 1..Len(all) : all[i] = d
        <5>1. CASE d = c
          BY <3>2, <3>3, <5>1
        <5>2. CASE d # c
          <6>1. d \in applied.now
            BY <3>1, <5>2
          <6>2. PICK j \in 1..Len(server.done) : server.done[j] = d
            BY <3>7, <6>1 DEF Cache
          <6> QED
            BY <3>1, <3>2, <3>3, <3>7, <6>2
        <5> QED
          BY <5>1, <5>2
      <4> QED
        <5> DEFINE k == Cardinality(applied.now)
        <5>1. /\ others \in Nat /\ server.rev \in Nat
              /\ server'.rev = server.rev + 1
          BY <1>0, <3>2
        <5> HIDE DEF k, all
        <5>2. /\ Len(all) <= others + Cardinality(applied'.now)
              /\ server'.rev <= 1 + others + Cardinality(applied'.now)
          BY <3>4, <4>1, <4>2, <5>1
        <5> QED
          BY <4>3, <5>2
    <3> QED
      BY <1>2, <3>4, <3>5, <3>6, <3>7 DEF Cache
  <2> QED
    BY <1>2, <2>1, <2>2, ExecuteKinds
<1>3. CASE IssueCommand
  BY <1>0, <1>1, <1>3 DEF IssueCommand
<1>4. CASE OtherCommand
  <2>1. /\ 0 \in Numbers /\ Grows(0) /\ Len(server.done) <= CompletedLimit
        /\ CacheHolds => server.rev <= MaxCommands + MaxOthers
        /\ CacheHolds => Len(server.done) < CompletedLimit
    BY <1>4, OtherFacts
  <2>2. /\ UNCHANGED <<applied, issued>> /\ others' = others + 1
    BY <1>4 DEF OtherCommand
  <2>3. /\ server'.done = Remember(server.done, 0)
        /\ server'.rev = server.rev + 1
    BY <2>1, GrowsFacts
  <2>4. /\ Remember(server.done, 0) \in Seq(Numbers)
        /\ Len(Remember(server.done, 0)) \in 1..CompletedLimit
        /\ Len(Remember(server.done, 0)) <= Len(server.done) + 1
        /\ \A i \in 1..Len(Remember(server.done, 0)) :
              \/ Remember(server.done, 0)[i] = 0
              \/ \E j \in 1..Len(server.done) :
                    Remember(server.done, 0)[i] = server.done[j]
        /\ Len(server.done) < CompletedLimit =>
              \A j \in 1..Len(server.done) :
                 \E i \in 1..Len(Remember(server.done, 0)) :
                    Remember(server.done, 0)[i] = server.done[j]
    BY <1>0, <2>1, RememberFacts
  <2> DEFINE all == server'.done
  <2>5. /\ Len(all) \in Nat /\ Len(all) <= CompletedLimit
        /\ Len(all) <= Len(server.done) + 1 /\ Len(server.done) \in Nat
    BY <1>0, <2>3, <2>4, LenProperties DEF SessionTopologyAssumption
  <2>6. \A i \in 1..Len(all) : all[i] = 0 \/ all[i] \in applied.now
    BY <2>3, <2>4 DEF Cache
  <2>7. ASSUME CacheHolds
        PROVE  /\ \A d \in applied.now : \E i \in 1..Len(all) : all[i] = d
               /\ Len(all) <= others' + Cardinality(applied.now)
               /\ server'.rev <= 1 + others' + Cardinality(applied.now)
    <3>1. /\ Len(server.done) <= others + Cardinality(applied.now)
          /\ server.rev <= 1 + others + Cardinality(applied.now)
      BY <2>7 DEF Cache
    <3>2. Cardinality(applied.now) \in Nat
      BY Room
    <3>3. ASSUME NEW d \in applied.now PROVE \E i \in 1..Len(all) : all[i] = d
      <4>1. PICK j \in 1..Len(server.done) : server.done[j] = d
        BY <2>7 DEF Cache
      <4> QED
        BY <2>1, <2>3, <2>4, <2>7, <4>1
    <3> QED
      <4>1. others \in Nat /\ others' = others + 1 /\ server.rev \in Nat
        BY <1>0, <2>2
      <4> HIDE DEF all
      <4>2. /\ Len(all) <= others' + Cardinality(applied.now)
            /\ server'.rev <= 1 + others' + Cardinality(applied.now)
        BY <2>3, <2>5, <3>1, <3>2, <4>1
      <4> QED
        BY <3>3, <4>2
  <2> QED
    BY <2>2, <2>5, <2>6, <2>7 DEF Cache
<1>5. CASE Restart
  <2>1. /\ server'.done = <<>> /\ server'.rev = 1
        /\ applied'.now = {} /\ applied'.ever = applied.ever
        /\ UNCHANGED <<issued, others>>
    BY <1>0, <1>5 DEF Restart, AppliedType
  <2>2. Len(server'.done) = 0 /\ Cardinality({}) = 0
    BY <2>1, EmptySeq, FS_EmptySet
  <2>3. CompletedLimit \in Nat
    BY DEF SessionTopologyAssumption
  <2> QED
    BY <1>0, <2>1, <2>2, <2>3 DEF Cache
<1>6. CASE ServeLate
  <2>1. PICK call \in late :
           /\ \E status \in {"ok", "refused", "revision_conflict"} :
                 Execute(call.cmd, call.expected, status)
           /\ UNCHANGED bounds
    BY <1>6 DEF ServeLate
  <2>2. call.cmd \in Commands /\ call.cmd <= issued
    BY <1>0 DEF LateType, Asked
  <2> QED
    BY <1>2, <2>1, <2>2
<1>7. CASE StreamCommand
  <2>1. /\ up # <<>> /\ Head(up).cmd \in Commands /\ UNCHANGED bounds
        /\ \E status \in {"ok", "refused", "revision_conflict"} :
              Execute(Head(up).cmd, Head(up).rev, status)
    BY <1>7, StreamCommandAs
  <2>2. Head(up).cmd <= issued
    <3>1. Head(up) = up[1] /\ 1 \in 1..Len(up)
      BY <1>0, <2>1, HeadAndTail
    <3> QED
      BY <3>1 DEF Asked
  <2> QED
    BY <1>2, <2>1, <2>2
<1>8. CASE ServeCommand
  <2>1. worker.cmd \in Commands /\ worker.cmd <= issued
    BY <1>0, <1>8, PlacedAsked
    DEF ServeCommand, Phases, WorkerType, Numbers, Commands
  <2> QED
    BY <1>2, <1>8, <2>1 DEF ServeCommand
<1>9. CASE Consume \/ LoseStream \/ ReadUpdate \/ SendEvents \/ SeeClose
           \/ ServePoll
  BY <1>0, <1>1, <1>9 DEF Consume, LoseStream, ReadUpdate, SendEvents,
     SeeClose, ServePoll
<1>12. CASE SendCommands \/ SendUpdate \/ AcceptResult
            \/ AcceptEvents \/ FallBack \/ AbandonCommands
  <2>1. UNCHANGED <<server, applied, issued, others>>
    BY <1>12 DEF SendCommands, SendUpdate, AcceptResult, AcceptEvents,
       FallBack, AbandonCommands
  <2> QED
    BY <1>0, <1>1, <2>1
<1>10. CASE PollBegins \/ PollFails \/ AcceptStale \/ AcceptEpoch
            \/ AcceptRevision \/ AcceptTopology
  BY <1>0, <1>1, <1>10 DEF PollBegins, PollFails, AcceptStale, AcceptEpoch,
     AcceptRevision, AcceptTopology
<1>11. CASE Worker
  BY <1>0, <1>1, <1>11 DEF Worker, WorkerTakes, Handshake, HandshakeFails,
     WorkerAnswered, Refresh, RefreshFails, TryAgain, WorkerPublishes,
     GiveUp, Probe
<1> QED
  BY <1>3, <1>4, <1>5, <1>6, <1>7, <1>8, <1>9, <1>10, <1>11, <1>12
  DEF Next, StateThread, Coordinator

(* Every step keeps what is reported honest.                                *)
LEMMA HonestStep ==
    ASSUME SessionTopologyAssumption, Types, Phases, Cache, Honest, Next
    PROVE  Honest'
<1> USE DEF clientVars, wireVars, workerVars, uiVars, bounds
<1>0. /\ applied \in AppliedType /\ down \in Seq(DownType)
      /\ Len(down) \in Nat /\ server.done \in Seq(Numbers)
      /\ mailbox \in MailboxType /\ worker \in WorkerType
      /\ mailbox.commands \in Seq(CompletionType)
      /\ Len(mailbox.commands) \in Nat
  BY LenProperties DEF Types, ServerType, MailboxType
<1> DEFINE Told1(d, set) ==
              d.status = "ok" /\ d.kind = "result" => d.cmd \in set
           Sent(seq, set) == \A i \in 1..Len(seq) : Told1(seq[i], set)
           Works(w, set) == w.status = "ok" /\ w.cmd # 0 => w.cmd \in set
           Done(seq, set) ==
              \A i \in 1..Len(seq) : seq[i].ok => seq[i].cmd \in set
<1>1. /\ Sent(down, applied.ever) /\ Works(worker, applied.ever)
      /\ Done(mailbox.commands, applied.ever)
  BY DEF Honest
<1>2. ASSUME Sent(down', applied'.ever), Works(worker', applied'.ever),
             Done(mailbox'.commands, applied'.ever)
      PROVE  Honest'
  BY <1>2 DEF Honest
<1>3. ASSUME NEW c \in Commands, NEW expected, NEW status,
             Execute(c, expected, status)
      PROVE  /\ applied.ever \subseteq applied'.ever
             /\ status = "ok" => c \in applied'.ever
  <2>1. CASE UNCHANGED <<server, applied>> /\ (status = "ok" => Completed(c))
    <3>1. ASSUME Completed(c) PROVE c \in applied.ever
      <4>1. \E i \in 1..Len(server.done) : server.done[i] = c
        BY <1>0, <3>1, LenProperties DEF Completed, ToSet
      <4>2. c # 0
        BY DEF Commands
      <4> QED
        BY <4>1, <4>2 DEF Cache
    <3> QED
      BY <2>1, <3>1
  <2>2. CASE Applies(c)
    BY <2>2 DEF Applies
  <2> QED
    BY <1>3, <2>1, <2>2, ExecuteKinds
<1>4. ASSUME applied.ever \subseteq applied'.ever
      PROVE  /\ Sent(down, applied'.ever) /\ Works(worker, applied'.ever)
             /\ Done(mailbox.commands, applied'.ever)
  BY <1>1, <1>4
<1>5. ASSUME down # <<>>
      PROVE  Sent(Tail(down), applied.ever) /\ Told1(Head(down), applied.ever)
  <2>1. /\ Head(down) = down[1] /\ Len(Tail(down)) = Len(down) - 1
        /\ \A i \in 1..(Len(down) - 1) : Tail(down)[i] = down[i + 1]
        /\ 1 \in 1..Len(down)
        /\ \A i \in 1..(Len(down) - 1) : i + 1 \in 1..Len(down)
    BY <1>0, <1>5, HeadAndTail
  <2> QED
    BY <1>1, <2>1
<1>6. ASSUME NEW c \in Commands, NEW ok \in BOOLEAN, NEW snap \in SnapType,
             PublishCompletion(c, ok, snap), ok => c \in applied.ever
      PROVE  Done(mailbox'.commands, applied.ever)
  <2> DEFINE e == Completion(c, ok, snap.rev)
  <2>1. e \in CompletionType /\ e.ok = ok /\ e.cmd = c
    BY DEF Completion, CompletionType, SnapType
  <2>2. mailbox'.commands = Append(mailbox.commands, e)
    BY <1>0, <1>6 DEF PublishCompletion, MailboxType
  <2> HIDE DEF e
  <2>3. /\ Len(mailbox'.commands) = Len(mailbox.commands) + 1
        /\ mailbox'.commands[Len(mailbox.commands) + 1] = e
        /\ \A i \in 1..Len(mailbox.commands) :
              mailbox'.commands[i] = mailbox.commands[i]
    BY <1>0, <2>1, <2>2, AppendProperties
  <2>4. ASSUME NEW i \in 1..Len(mailbox'.commands), mailbox'.commands[i].ok
        PROVE  mailbox'.commands[i].cmd \in applied.ever
    <3>1. i \in 1..Len(mailbox.commands) \/ i = Len(mailbox.commands) + 1
      BY <1>0, <2>3
    <3>2. CASE i \in 1..Len(mailbox.commands)
      BY <1>1, <2>3, <2>4, <3>2
    <3>3. CASE i = Len(mailbox.commands) + 1
      BY <1>6, <2>1, <2>3, <2>4, <3>3
    <3> QED
      BY <3>1, <3>2, <3>3
  <2> QED
    BY <2>4
<1>7. Done(<<>>, applied.ever) /\ Sent(<<>>, applied.ever)
  BY EmptySeq
<1> HIDE DEF Told1, Sent, Works, Done
<1>8. CASE \/ IssueCommand \/ OtherCommand \/ ReadUpdate \/ SeeClose
           \/ ServePoll \/ FallBack \/ SendCommands \/ SendUpdate
  <2>1. UNCHANGED <<applied, down, worker, mailbox>>
    BY <1>8 DEF IssueCommand, OtherCommand, ReadUpdate, SeeClose, ServePoll,
       FallBack, SendCommands, SendUpdate
  <2> QED
    BY <1>1, <1>2, <2>1
<1>9. CASE PollBegins \/ PollFails \/ AcceptRevision \/ WorkerTakes
           \/ Handshake
  <2>1. /\ UNCHANGED <<applied, down, mailbox>>
        /\ worker'.status = worker.status
        /\ worker'.cmd = worker.cmd \/ worker.status = "none"
    BY <1>0, <1>9 DEF PollBegins, PollFails, AcceptRevision, WorkerTakes,
       Call, Handshake, WorkerType, Phases
  <2>2. Works(worker', applied.ever)
    BY <1>1, <2>1 DEF Works
  <2> QED
    BY <1>1, <1>2, <2>1, <2>2
<1>10. CASE Consume
  <2>1. mailbox'.commands = <<>> /\ UNCHANGED <<applied, down, worker>>
    BY <1>10 DEF Consume, EmptyMailbox
  <2> QED
    BY <1>1, <1>2, <1>7, <2>1
<1>11. CASE Restart
  <2>1. /\ applied'.ever = applied.ever /\ down' \in {down, <<>>}
        /\ UNCHANGED mailbox
    BY <1>0, <1>11 DEF Restart, AppliedType
  <2>2. worker'.status = worker.status /\ worker'.cmd = worker.cmd
    BY <1>0, <1>11 DEF Restart, WorkerType
  <2>3. Works(worker', applied.ever)
    BY <1>1, <2>2 DEF Works
  <2> QED
    BY <1>1, <1>2, <1>7, <2>1, <2>3
<1>12. CASE LoseStream \/ AbandonCommands
  <2>1. down' \in {down, <<>>} /\ UNCHANGED <<applied, mailbox, worker>>
    BY <1>12 DEF LoseStream, AbandonCommands
  <2> QED
    BY <1>1, <1>2, <1>7, <2>1
<1>13. CASE ServeLate
  <2>1. PICK call \in late :
           /\ \E status \in {"ok", "refused", "revision_conflict"} :
                 Execute(call.cmd, call.expected, status)
           /\ UNCHANGED <<down, worker, mailbox>>
    BY <1>13 DEF ServeLate
  <2>2. call.cmd \in Commands
    BY DEF Types, LateType
  <2>3. applied.ever \subseteq applied'.ever
    BY <1>3, <2>1, <2>2
  <2> QED
    BY <1>2, <1>4, <2>1, <2>3
<1>14. CASE StreamCommand
  <2>1. PICK status \in {"ok", "refused", "revision_conflict"},
             frame \in DownType :
           /\ Execute(Head(up).cmd, Head(up).rev, status)
           /\ frame.cmd = Head(up).cmd
           /\ frame.status = "ok" => status = "ok"
           /\ IF linked THEN Puts(down, frame, down') ELSE down' = down
    BY <1>14, StreamCommandAs
  <2>2. Head(up).cmd \in Commands /\ UNCHANGED <<worker, mailbox>>
    BY <1>14, StreamCommandAs
  <2>3. /\ applied.ever \subseteq applied'.ever
        /\ status = "ok" => Head(up).cmd \in applied'.ever
    BY <1>3, <2>1, <2>2
  <2>4. Sent(down, applied'.ever) /\ Told1(frame, applied'.ever)
    BY <1>4, <2>1, <2>3 DEF Told1
  <2>5. Sent(down', applied'.ever)
    <3>1. CASE Puts(down, frame, down')
      <4>1. \A i \in 1..Len(down') :
               \/ down'[i] = frame
               \/ \E j \in 1..Len(down) : down'[i] = down[j]
        BY <1>0, <2>1, <3>1, PutsFacts
      <4> QED
        BY <2>4, <4>1 DEF Sent
    <3> QED
      BY <2>1, <2>4, <3>1
  <2> QED
    BY <1>2, <1>4, <2>2, <2>3, <2>5
<1>15. CASE SendEvents
  <2> DEFINE e == EventsFrame(Snapshot)
  <2>1. e \in DownType /\ e.kind = "events"
    BY SnapshotTypes DEF EventsFrame, DownType, Statuses, Types
  <2> HIDE DEF e
  <2>2. Puts(down, e, down') /\ UNCHANGED <<applied, worker, mailbox>>
    BY <1>15 DEF SendEvents, e, Puts
  <2>3. \A i \in 1..Len(down') :
           down'[i] = e \/ \E j \in 1..Len(down) : down'[i] = down[j]
    BY <1>0, <2>1, <2>2, PutsFacts
  <2>4. Told1(e, applied.ever)
    BY <2>1 DEF Told1
  <2>5. Sent(down', applied.ever)
    BY <1>1, <2>3, <2>4 DEF Sent
  <2> QED
    BY <1>1, <1>2, <2>2, <2>5
<1>16. CASE AcceptResult
  <2> DEFINE frame == Head(down)
  <2>1. /\ down # <<>> /\ down' = Tail(down) /\ frame.kind = "result"
        /\ UNCHANGED <<applied, worker>>
        /\ \/ UNCHANGED mailbox
           \/ PublishCompletion(frame.cmd, frame.status = "ok", frame.snap)
    BY <1>16 DEF AcceptResult
  <2>2. frame \in DownType
    BY <1>0, <2>1, HeadAndTail
  <2>3. frame.cmd \in Commands /\ frame.snap \in SnapType
    BY <2>1, <2>2 DEF DownType
  <2>4. Sent(down', applied.ever) /\ Told1(frame, applied.ever)
    BY <1>5, <2>1
  <2>5. frame.status = "ok" => frame.cmd \in applied.ever
    BY <2>1, <2>4 DEF Told1
  <2> HIDE DEF frame
  <2>6. Done(mailbox'.commands, applied.ever)
    <3>1. (frame.status = "ok") \in BOOLEAN
      OBVIOUS
    <3>2. CASE UNCHANGED mailbox
      BY <1>1, <3>2
    <3>3. CASE PublishCompletion(frame.cmd, frame.status = "ok", frame.snap)
      BY <1>6, <2>3, <2>5, <3>1, <3>3
    <3> QED
      BY <2>1, <3>2, <3>3
  <2> QED
    BY <1>1, <1>2, <2>1, <2>4, <2>6
<1>17. CASE AcceptEvents
  <2>1. /\ down # <<>> /\ down' = Tail(down)
        /\ UNCHANGED <<applied, worker, mailbox>>
    BY <1>17 DEF AcceptEvents
  <2> QED
    BY <1>1, <1>2, <1>5, <2>1
<1>18. CASE AcceptStale \/ AcceptEpoch \/ AcceptTopology
  <2>1. /\ UNCHANGED <<applied, worker, down>>
        /\ mailbox'.commands \in {mailbox.commands, <<>>}
    BY <1>0, <1>18 DEF AcceptStale, AcceptEpoch, AcceptTopology,
       PublishTopology, Invalidate, EmptyMailbox, MailboxType
  <2> QED
    BY <1>1, <1>2, <1>7, <2>1
<1>19. CASE HandshakeFails \/ WorkerAnswered \/ Refresh \/ RefreshFails
            \/ TryAgain
  <2>1. /\ UNCHANGED <<applied, down>>
        /\ mailbox'.commands = mailbox.commands
        /\ worker'.cmd = worker.cmd
        /\ worker'.status \in {worker.status, "server_handshake_failed"}
    BY <1>0, <1>19 DEF HandshakeFails, WorkerAnswered, Refresh,
       RefreshFails, TryAgain, Call, PublishTopology, MailboxType,
       WorkerType
  <2>2. Works(worker', applied.ever)
    BY <1>1, <2>1 DEF Works
  <2> QED
    BY <1>1, <1>2, <2>1, <2>2
<1>20. CASE ServeCommand
  <2>1. PICK status \in {"ok", "refused", "revision_conflict"} :
           /\ Execute(worker.cmd, worker.expected, status)
           /\ worker' = [worker EXCEPT !.pc = "answered", !.status = status,
                            !.snap = IF status = "ok" THEN Snapshot'
                                     ELSE NoSnapshot]
           /\ UNCHANGED <<down, mailbox>>
    BY <1>20 DEF ServeCommand
  <2>2. worker.cmd \in Commands
    BY <1>0, <1>20 DEF ServeCommand, Phases, WorkerType, Numbers, Commands
  <2>3. /\ applied.ever \subseteq applied'.ever
        /\ status = "ok" => worker.cmd \in applied'.ever
    BY <1>3, <2>1, <2>2
  <2>4. worker'.cmd = worker.cmd /\ worker'.status = status
    BY <1>0, <2>1 DEF WorkerType
  <2>5. Works(worker', applied'.ever)
    BY <2>3, <2>4 DEF Works
  <2> QED
    BY <1>2, <1>4, <2>1, <2>3, <2>5
<1>21. CASE WorkerPublishes
  <2>1. /\ worker.pc = "publish" /\ worker' = IdleWorker
        /\ PublishCompletion(worker.cmd, worker.status = "ok", worker.snap)
        /\ UNCHANGED <<applied, down>>
    BY <1>21 DEF WorkerPublishes
  <2>2. worker.cmd \in Commands /\ worker.snap \in SnapType
    BY <1>0, <2>1 DEF Phases, WorkerType, Numbers, Commands
  <2>3. /\ (worker.status = "ok") \in BOOLEAN
        /\ worker.status = "ok" => worker.cmd \in applied.ever
    BY <1>1, <2>2 DEF Works, Commands
  <2>4. Done(mailbox'.commands, applied.ever)
    BY <1>6, <2>1, <2>2, <2>3
  <2>5. Works(worker', applied.ever)
    BY <2>1 DEF Works, IdleWorker
  <2> QED
    BY <1>1, <1>2, <2>1, <2>4, <2>5
<1>22. CASE GiveUp \/ Probe
  <2>1. /\ UNCHANGED <<applied, down>> /\ worker'.status = "none"
        /\ mailbox'.commands \in {mailbox.commands, <<>>}
    BY <1>22 DEF GiveUp, Probe, IdleWorker, EmptyMailbox
  <2>2. Works(worker', applied.ever)
    BY <2>1 DEF Works
  <2> QED
    BY <1>1, <1>2, <1>7, <2>1, <2>2
<1> QED
  BY <1>8, <1>9, <1>10, <1>11, <1>12, <1>13, <1>14, <1>15, <1>16, <1>17,
     <1>18, <1>19, <1>20, <1>21, <1>22
  DEF Next, StateThread, Coordinator, Worker

(* A server that goes on keeps what was true of it.                         *)
Follows(old, new) ==
    /\ \A s : Beginning(old, s) => Beginning(new, s)
    /\ \A c, r : InLog(old, c, r) => InLog(new, c, r)

(* What was true of a server stays true of one that follows it.             *)
LEMMA FollowsFacts ==
    ASSUME NEW old, NEW new, Follows(old, new)
    PROVE  /\ \A seq : FramesTrue(old, seq) => FramesTrue(new, seq)
           /\ \A w : WorkTrue(old, w) => WorkTrue(new, w)
           /\ \A m : MailTrue(old, m) => MailTrue(new, m)
           /\ \A u : ShownTrue(old, u) => ShownTrue(new, u)
           /\ \A s : Beginning(old, s) => Beginning(new, s)
<1>1. \A seq : FramesTrue(old, seq) => FramesTrue(new, seq)
  BY DEF Follows, FramesTrue, FrameTrue
<1>2. \A w : WorkTrue(old, w) => WorkTrue(new, w)
  BY DEF Follows, WorkTrue
<1>3. \A m : MailTrue(old, m) => MailTrue(new, m)
  BY DEF Follows, MailTrue
<1>4. \A u : ShownTrue(old, u) => ShownTrue(new, u)
  BY DEF Follows, ShownTrue
<1> QED
  BY <1>1, <1>2, <1>3, <1>4 DEF Follows

(* A server with one more change follows the one before ...                 *)
LEMMA GrowsTrue ==
    ASSUME SessionTopologyAssumption, Types, NEW c \in Numbers, Grows(c),
           Len(server.done) <= CompletedLimit,
           CacheHolds => server.rev <= MaxCommands + MaxOthers,
           ServerTrue(server)
    PROVE  /\ Follows(server, server') /\ ServerTrue(server')
           /\ InLog(server', c, server'.rev)
<1>1. /\ server'.rev = server.rev + 1 /\ server.rev \in Nat
      /\ server'.done = Remember(server.done, c)
      /\ Len(server.log) \in Nat /\ server.rev = Len(server.log) + 1
      /\ Len(server'.log) = Len(server.log) + 1
      /\ \A j \in 1..Len(server.log) : server'.log[j] = server.log[j]
      /\ server'.log[Len(server.log) + 1] = c
  BY GrowsFacts DEF ServerTrue
<1>2. ASSUME NEW s, Beginning(server, s) PROVE Beginning(server', s)
  <2>1. CASE s = NoSnapshot
    BY <2>1 DEF Beginning
  <2>2. CASE s # NoSnapshot
    <3>1. /\ s.epoch = 1 /\ s.rev \in 1..server.rev
          /\ Len(s.log) = s.rev - 1
          /\ \A j \in 1..(s.rev - 1) : s.log[j] = server.log[j]
      BY <1>2, <2>2 DEF Beginning
    <3>2. /\ s.rev \in 1..server'.rev
          /\ \A j \in 1..(s.rev - 1) : j \in 1..Len(server.log)
      BY <1>1, <3>1
    <3> QED
      BY <1>1, <3>1, <3>2 DEF Beginning
  <2> QED
    BY <2>1, <2>2
<1>3. ASSUME NEW d, NEW r, InLog(server, d, r) PROVE InLog(server', d, r)
  <2>1. r \in 1..server.rev /\ \E j \in 1..(r - 1) : server.log[j] = d
    BY <1>3 DEF InLog
  <2>2. /\ r \in 1..server'.rev
        /\ \A j \in 1..(r - 1) : j \in 1..Len(server.log)
    BY <1>1, <2>1
  <2> QED
    BY <1>1, <2>1, <2>2 DEF InLog
<1>4. InLog(server', c, server'.rev)
  <2>1. /\ server'.rev \in 1..server'.rev
        /\ Len(server.log) + 1 \in 1..(server'.rev - 1)
    BY <1>1
  <2> QED
    BY <1>1, <2>1 DEF InLog
<1>5. ASSUME NEW i \in 1..Len(server'.done)
      PROVE  InLog(server', server'.done[i], server'.rev)
  <2>1. \/ server'.done[i] = c
        \/ \E j \in 1..Len(server.done) : server'.done[i] = server.done[j]
    <3>1. server.done \in Seq(Numbers)
      BY DEF Types, ServerType
    <3>2. \A k \in 1..Len(Remember(server.done, c)) :
             \/ Remember(server.done, c)[k] = c
             \/ \E j \in 1..Len(server.done) :
                   Remember(server.done, c)[k] = server.done[j]
      BY <3>1, RememberFacts
    <3> QED
      BY <1>1, <3>2
  <2>2. CASE server'.done[i] = c
    BY <1>4, <2>2
  <2>3. ASSUME NEW j \in 1..Len(server.done), server'.done[i] = server.done[j]
        PROVE  InLog(server', server'.done[i], server'.rev)
    <3>1. InLog(server', server.done[j], server.rev)
      BY <1>3 DEF ServerTrue
    <3>2. /\ server'.rev \in 1..server'.rev
          /\ \A k \in 1..(server.rev - 1) : k \in 1..(server'.rev - 1)
      BY <1>1
    <3> QED
      BY <2>3, <3>1, <3>2 DEF InLog
  <2> QED
    BY <2>1, <2>2, <2>3
<1>6. server'.rev = Len(server'.log) + 1
  BY <1>1
<1> QED
  BY <1>2, <1>3, <1>4, <1>5, <1>6 DEF Follows, ServerTrue

(* ... and so does one that executed a request.                             *)
LEMMA ExecuteTrue ==
    ASSUME SessionTopologyAssumption, Types, Cache, ServerTrue(server),
           NEW c \in Commands, NEW expected, NEW status,
           Execute(c, expected, status)
    PROVE  /\ Follows(server, server') /\ ServerTrue(server')
           /\ status = "ok" => InLog(server', c, server'.rev)
<1>1. CASE /\ UNCHANGED <<server, applied>>
           /\ status = "ok" => Completed(c)
  <2>1. Follows(server, server') /\ ServerTrue(server')
    BY <1>1 DEF Follows
  <2>2. ASSUME Completed(c) PROVE InLog(server, c, server.rev)
    <3>1. \E i \in 1..Len(server.done) : server.done[i] = c
      BY <2>2, LenProperties DEF Completed, ToSet, Types, ServerType
    <3> QED
      BY <3>1 DEF ServerTrue
  <2> QED
    BY <1>1, <2>1, <2>2
<1>2. CASE Applies(c)
  <2>1. /\ c \in Numbers /\ Len(server.done) <= CompletedLimit
        /\ CacheHolds => server.rev <= MaxCommands + MaxOthers
    BY <1>2, AppliesFacts
  <2> QED
    BY <1>2, <2>1, GrowsTrue DEF Applies
<1> QED
  BY <1>1, <1>2, ExecuteKinds

(* While the first server runs, a completed command is in the server's log  *)
(* before the revision its completion names.                                *)
LEMMA WaitingTrue ==
    ASSUME Types, Truthful, restarts = 0, NEW d \in Waiting
    PROVE  InLog(server, d.cmd, d.rev) /\ d.rev \in Nat
<1>1. d \in ui.waiting
      \/ \E i \in 1..Len(mailbox.commands) :
            d = mailbox.commands[i] /\ mailbox.commands[i].ok
  <2>1. mailbox.commands \in Seq(CompletionType)
    BY DEF Types, MailboxType
  <2>2. DOMAIN mailbox.commands = 1..Len(mailbox.commands)
    BY <2>1, LenProperties
  <2> QED
    BY <2>2 DEF Waiting, ToSet
<1>2. InLog(server, d.cmd, d.rev)
  BY <1>1 DEF Truthful, MailTrue, ShownTrue
<1>3. server.rev \in Nat
  BY RevsFacts, SessionTopologyAssumption DEF Types, ServerType
<1> QED
  BY <1>2, <1>3 DEF InLog

(* Until the first restart every step keeps the snapshots true.             *)
LEMMA TruthfulStep ==
    ASSUME SessionTopologyAssumption, Types, Phases, Epochs, Cache,
           Truthful, Next
    PROVE  Truthful'
<1> USE DEF clientVars, wireVars, workerVars, uiVars, bounds
<1>0. /\ server \in ServerType /\ down \in Seq(DownType)
      /\ server.rev \in Nat /\ server.rev # 0 /\ restarts \in Nat
      /\ Len(down) \in Nat /\ mailbox \in MailboxType
      /\ worker \in WorkerType /\ feed \in FeedType /\ ui \in UiType
      /\ mailbox.commands \in Seq(CompletionType)
      /\ Len(mailbox.commands) \in Nat
  BY RevsFacts, LenProperties DEF Types, ServerType, MailboxType
<1>1. CASE Restart
  <2>1. restarts' # 0
    BY <1>0, <1>1 DEF Restart
  <2> QED
    BY <2>1 DEF Truthful
<1>01. ASSUME ~Restart PROVE UNCHANGED restarts
  <2>1. CASE \/ IssueCommand \/ Consume \/ OtherCommand \/ LoseStream
             \/ ServeLate
    BY <2>1 DEF IssueCommand, Consume, OtherCommand, LoseStream, ServeLate
  <2>2. CASE StateThread
    BY <2>2 DEF StateThread, ReadUpdate, StreamCommand, SendEvents,
       SeeClose, ServePoll, ServeCommand
  <2>3. CASE Coordinator
    BY <2>3 DEF Coordinator, SendCommands, SendUpdate, AcceptResult,
       AcceptEvents, FallBack, AbandonCommands, PollBegins, PollFails,
       AcceptStale, AcceptEpoch, AcceptRevision, AcceptTopology
  <2>4. CASE Worker
    BY <2>4 DEF Worker, WorkerTakes, Handshake, HandshakeFails,
       WorkerAnswered, Refresh, RefreshFails, TryAgain, WorkerPublishes,
       GiveUp, Probe
  <2> QED
    BY <1>01, <2>1, <2>2, <2>3, <2>4 DEF Next
<1> SUFFICES ASSUME ~Restart, restarts = 0 PROVE Truthful'
  <2>1. ASSUME ~Restart, restarts # 0 PROVE Truthful'
    BY <1>01, <2>1 DEF Truthful
  <2> QED
    BY <1>1, <2>1
<1>2. /\ ServerTrue(server) /\ FramesTrue(server, down)
      /\ WorkTrue(server, worker) /\ Beginning(server, feed.snap)
      /\ MailTrue(server, mailbox) /\ ShownTrue(server, ui)
  BY DEF Truthful
<1>3. ASSUME ServerTrue(server'), FramesTrue(server', down'),
             WorkTrue(server', worker'), Beginning(server', feed'.snap),
             MailTrue(server', mailbox'), ShownTrue(server', ui')
      PROVE  Truthful'
  BY <1>3 DEF Truthful
<1>4. /\ Beginning(server, NoSnapshot) /\ Beginning(server, Snapshot)
      /\ Snapshot.rev = server.rev
  <2>1. server.epoch = 1
    BY DEF Epochs
  <2> QED
    BY <1>0, <1>2, <2>1 DEF Beginning, Snapshot, ServerTrue
<1>5. ASSUME ServerTrue(server'), server' \in ServerType,
             server'.epoch = server.epoch
      PROVE  Beginning(server', Snapshot') /\ Snapshot'.rev = server'.rev
  <2>1. /\ server'.epoch = 1 /\ server'.rev \in Nat /\ server'.rev # 0
    BY <1>5, RevsFacts DEF Epochs, ServerType
  <2> QED
    BY <1>5, <2>1 DEF Beginning, Snapshot, ServerTrue
<1>6. ASSUME down # <<>>
      PROVE  FramesTrue(server, Tail(down)) /\ FrameTrue(server, Head(down))
  <2>1. /\ Head(down) = down[1] /\ Len(Tail(down)) = Len(down) - 1
        /\ \A i \in 1..(Len(down) - 1) : Tail(down)[i] = down[i + 1]
        /\ 1 \in 1..Len(down)
        /\ \A i \in 1..(Len(down) - 1) : i + 1 \in 1..Len(down)
    BY <1>0, <1>6, HeadAndTail
  <2> QED
    BY <1>2, <2>1 DEF FramesTrue
<1>7. FramesTrue(server, <<>>)
  BY EmptySeq DEF FramesTrue
<1>8. ASSUME NEW c \in Commands, NEW ok \in BOOLEAN, NEW snap \in SnapType,
             PublishCompletion(c, ok, snap), Beginning(server, snap),
             ok => InLog(server, c, snap.rev)
      PROVE  MailTrue(server, mailbox')
  <2> DEFINE e == Completion(c, ok, snap.rev)
  <2>1. /\ e \in CompletionType /\ e.ok = ok /\ e.cmd = c
        /\ e.rev = snap.rev
    BY DEF Completion, CompletionType, SnapType
  <2>2. /\ mailbox'.commands = Append(mailbox.commands, e)
        /\ mailbox'.topology \in {snap, mailbox.topology}
    BY <1>0, <1>8 DEF PublishCompletion, MailboxType
  <2> HIDE DEF e
  <2>3. /\ Len(mailbox'.commands) = Len(mailbox.commands) + 1
        /\ mailbox'.commands[Len(mailbox.commands) + 1] = e
        /\ \A i \in 1..Len(mailbox.commands) :
              mailbox'.commands[i] = mailbox.commands[i]
    BY <1>0, <2>1, <2>2, AppendProperties
  <2>4. ASSUME NEW i \in 1..Len(mailbox'.commands), mailbox'.commands[i].ok
        PROVE  InLog(server, mailbox'.commands[i].cmd,
                     mailbox'.commands[i].rev)
    <3>1. i \in 1..Len(mailbox.commands) \/ i = Len(mailbox.commands) + 1
      BY <1>0, <2>3
    <3>2. CASE i \in 1..Len(mailbox.commands)
      BY <1>2, <2>3, <2>4, <3>2 DEF MailTrue
    <3>3. CASE i = Len(mailbox.commands) + 1
      BY <1>8, <2>1, <2>3, <2>4, <3>3
    <3> QED
      BY <3>1, <3>2, <3>3
  <2>5. Beginning(server, mailbox'.topology)
    BY <1>2, <1>8, <2>2 DEF MailTrue
  <2> QED
    BY <2>4, <2>5 DEF MailTrue
<1>9. MailTrue(server, EmptyMailbox)
      /\ \A flag : MailTrue(server, [EmptyMailbox EXCEPT !.changed = flag])
  BY <1>4, EmptySeq DEF MailTrue, EmptyMailbox
<1>10. ASSUME NEW snap, PublishTopology(snap), Beginning(server, snap)
       PROVE  MailTrue(server, mailbox')
  <2>1. mailbox'.topology = snap /\ mailbox'.commands = mailbox.commands
    BY <1>0, <1>10 DEF PublishTopology, MailboxType
  <2> QED
    BY <1>2, <1>10, <2>1 DEF MailTrue
<1>11. CASE \/ IssueCommand \/ ReadUpdate \/ SeeClose \/ FallBack
            \/ SendCommands \/ SendUpdate
  <2>1. UNCHANGED <<server, down, worker, feed, mailbox, ui>>
    BY <1>11 DEF IssueCommand, ReadUpdate, SeeClose, FallBack,
       SendCommands, SendUpdate
  <2> QED
    BY <1>2, <1>3, <2>1
<1>12. CASE Consume
  <2>1. /\ UNCHANGED <<server, down, worker, feed>>
        /\ mailbox' = EmptyMailbox
    BY <1>12 DEF Consume
  <2> DEFINE accept == ui.accept \/ mailbox.changed
             shows == Shows(accept, mailbox.topology)
             shown == IF shows THEN mailbox.topology ELSE ui.shown
  <2>2. /\ ui'.shown = shown
        /\ ui'.waiting = {d \in Waiting : Waits(d, shown)}
    BY <1>12 DEF Consume
  <2>3. shows => mailbox.topology # NoSnapshot
    BY DEF Shows
  <2> HIDE DEF shows
  <2>4. Beginning(server, shown) /\ shown # NoSnapshot
    BY <1>2, <2>3 DEF MailTrue, ShownTrue
  <2> HIDE DEF shown
  <2>5. ASSUME NEW d \in Waiting PROVE InLog(server, d.cmd, d.rev)
    BY WaitingTrue
  <2>6. ShownTrue(server, ui')
    BY <2>2, <2>4, <2>5 DEF ShownTrue
  <2> QED
    BY <1>2, <1>3, <1>9, <2>1, <2>6
<1>13. CASE OtherCommand
  <2>1. /\ 0 \in Numbers /\ Grows(0) /\ Len(server.done) <= CompletedLimit
        /\ CacheHolds => server.rev <= MaxCommands + MaxOthers
    BY <1>13, OtherFacts
  <2>2. Follows(server, server') /\ ServerTrue(server')
    BY <1>2, <2>1, GrowsTrue
  <2>3. UNCHANGED <<down, worker, feed, mailbox, ui>>
    BY <1>13 DEF OtherCommand
  <2> QED
    BY <1>2, <1>3, <2>2, <2>3, FollowsFacts
<1>14. CASE LoseStream \/ AbandonCommands
  <2>1. /\ down' \in {down, <<>>}
        /\ UNCHANGED <<server, worker, feed, mailbox, ui>>
    BY <1>14 DEF LoseStream, AbandonCommands
  <2> QED
    BY <1>2, <1>3, <1>7, <2>1
<1>15. CASE ServeLate
  <2>1. PICK call \in late :
           /\ \E status \in {"ok", "refused", "revision_conflict"} :
                 Execute(call.cmd, call.expected, status)
           /\ UNCHANGED <<down, worker, feed, mailbox, ui>>
    BY <1>15 DEF ServeLate
  <2>2. call.cmd \in Commands
    BY DEF Types, LateType
  <2>3. Follows(server, server') /\ ServerTrue(server')
    BY <1>2, <2>1, <2>2, ExecuteTrue
  <2> QED
    BY <1>2, <1>3, <2>1, <2>3, FollowsFacts
<1>16. CASE StreamCommand
  <2>1. PICK status \in {"ok", "refused", "revision_conflict"},
             frame \in DownType :
           /\ Execute(Head(up).cmd, Head(up).rev, status)
           /\ frame.cmd = Head(up).cmd
           /\ frame.status = "ok" =>
                 status = "ok" /\ frame.snap = Snapshot'
           /\ frame.snap = NoSnapshot \/ frame.snap = Snapshot'
           /\ IF linked THEN Puts(down, frame, down') ELSE down' = down
    BY <1>16, StreamCommandAs
  <2>2. /\ Head(up).cmd \in Commands
        /\ UNCHANGED <<worker, feed, mailbox, ui>>
    BY <1>16, StreamCommandAs
  <2>3. /\ Follows(server, server') /\ ServerTrue(server')
        /\ status = "ok" => InLog(server', Head(up).cmd, server'.rev)
    BY <1>2, <2>1, <2>2, ExecuteTrue
  <2>4. server' \in ServerType
    BY <2>1, <2>2, ExecuteTypes
  <2>5. server'.epoch = server.epoch
    BY <1>0, <2>1 DEF Execute, ServerType
  <2>6. Beginning(server', Snapshot') /\ Snapshot'.rev = server'.rev
    BY <1>5, <2>3, <2>4, <2>5
  <2>7. FrameTrue(server', frame)
    <3>1. Beginning(server', NoSnapshot)
      BY DEF Beginning
    <3> QED
      BY <2>1, <2>3, <2>6, <3>1 DEF FrameTrue
  <2>8. FramesTrue(server', down)
    BY <1>2, <2>3, FollowsFacts
  <2>9. FramesTrue(server', down')
    <3>1. CASE Puts(down, frame, down')
      <4>1. \A i \in 1..Len(down') :
               \/ down'[i] = frame
               \/ \E j \in 1..Len(down) : down'[i] = down[j]
        BY <1>0, <2>1, <3>1, PutsFacts
      <4> QED
        BY <2>7, <2>8, <4>1 DEF FramesTrue
    <3> QED
      BY <2>1, <2>8, <3>1
  <2> QED
    BY <1>2, <1>3, <2>2, <2>3, <2>9, FollowsFacts
<1>17. CASE SendEvents
  <2> DEFINE e == EventsFrame(Snapshot)
  <2>1. e \in DownType /\ e.kind = "events" /\ e.snap = Snapshot
    BY SnapshotTypes DEF EventsFrame, DownType, Statuses, Types
  <2> HIDE DEF e
  <2>2. /\ Puts(down, e, down')
        /\ UNCHANGED <<server, worker, feed, mailbox, ui>>
    BY <1>17 DEF SendEvents, e, Puts
  <2>3. \A i \in 1..Len(down') :
           down'[i] = e \/ \E j \in 1..Len(down) : down'[i] = down[j]
    BY <1>0, <2>1, <2>2, PutsFacts
  <2>4. FrameTrue(server, e)
    BY <1>4, <2>1 DEF FrameTrue
  <2>5. FramesTrue(server, down')
    BY <1>2, <2>3, <2>4 DEF FramesTrue
  <2> QED
    BY <1>2, <1>3, <2>2, <2>5
<1>18. CASE ServePoll \/ PollBegins \/ PollFails \/ AcceptRevision
  <2>1. UNCHANGED <<server, down, worker, mailbox, ui>>
    BY <1>18 DEF ServePoll, PollBegins, PollFails, AcceptRevision
  <2>2. CASE ServePoll
    <3>1. feed'.snap \in {feed.snap, NoSnapshot, Snapshot}
      <4>1. CASE feed.epoch # server.epoch
        BY <1>0, <2>2, <4>1 DEF ServePoll, FeedType
      <4>2. CASE feed.epoch = server.epoch /\ feed.after = server.rev
        BY <1>0, <2>2, <4>2 DEF ServePoll, FeedType
      <4>3. CASE feed.epoch = server.epoch /\ feed.after # server.rev
        BY <1>0, <2>2, <4>3 DEF ServePoll, FeedType
      <4> QED
        BY <4>1, <4>2, <4>3
    <3> QED
      BY <1>2, <1>3, <1>4, <2>1, <3>1
  <2>3. CASE PollBegins \/ PollFails
    <3>1. feed' \in {IdleFeed, [IdleFeed EXCEPT !.step = "asked",
                        !.epoch = identity, !.after = cursor.rev]}
      BY <2>3 DEF PollBegins, PollFails
    <3>2. feed'.snap = NoSnapshot
      <4>1. CASE feed' = IdleFeed
        BY <4>1 DEF IdleFeed
      <4>2. CASE feed' = [IdleFeed EXCEPT !.step = "asked",
                             !.epoch = identity, !.after = cursor.rev]
        BY <4>2 DEF IdleFeed
      <4> QED
        BY <3>1, <4>1, <4>2
    <3> QED
      BY <1>2, <1>3, <1>4, <2>1, <3>2
  <2>4. CASE AcceptRevision
    <3>1. feed'.snap = feed.snap
      BY <1>0, <2>4 DEF AcceptRevision, FeedType
    <3> QED
      BY <1>2, <1>3, <2>1, <3>1
  <2> QED
    BY <1>18, <2>2, <2>3, <2>4
<1>19. CASE AcceptResult
  <2> DEFINE frame == Head(down)
  <2>1. /\ down # <<>> /\ down' = Tail(down) /\ frame.kind = "result"
        /\ UNCHANGED <<server, worker, feed, ui>>
        /\ \/ UNCHANGED mailbox
           \/ PublishCompletion(frame.cmd, frame.status = "ok", frame.snap)
    BY <1>19 DEF AcceptResult
  <2>2. frame \in DownType
    BY <1>0, <2>1, HeadAndTail
  <2>3. frame.cmd \in Commands /\ frame.snap \in SnapType
    BY <2>1, <2>2 DEF DownType
  <2>4. FramesTrue(server, down') /\ FrameTrue(server, frame)
    BY <1>6, <2>1
  <2>5. /\ frame.status = "ok" => InLog(server, frame.cmd, frame.snap.rev)
        /\ Beginning(server, frame.snap)
    BY <2>1, <2>4 DEF FrameTrue
  <2> HIDE DEF frame
  <2>6. MailTrue(server, mailbox')
    <3>1. (frame.status = "ok") \in BOOLEAN
      OBVIOUS
    <3>2. CASE UNCHANGED mailbox
      BY <1>2, <3>2
    <3>3. CASE PublishCompletion(frame.cmd, frame.status = "ok", frame.snap)
      BY <1>8, <2>3, <2>5, <3>1, <3>3
    <3> QED
      BY <2>1, <3>2, <3>3
  <2> QED
    BY <1>2, <1>3, <2>1, <2>4, <2>6
<1>20. CASE AcceptEvents
  <2>1. /\ down # <<>> /\ down' = Tail(down) /\ feed'.snap = Head(down).snap
        /\ UNCHANGED <<server, worker, mailbox, ui>>
    BY <1>20 DEF AcceptEvents, IdleFeed
  <2>2. FramesTrue(server, down') /\ Beginning(server, feed'.snap)
    BY <1>6, <2>1 DEF FrameTrue
  <2> QED
    BY <1>2, <1>3, <2>1, <2>2
<1>21. CASE AcceptStale \/ AcceptEpoch
  <2>1. /\ UNCHANGED <<server, down, worker, ui>>
        /\ feed'.snap \in {feed.snap, NoSnapshot}
    BY <1>0, <1>21 DEF AcceptStale, AcceptEpoch, IdleFeed, FeedType
  <2>2. \/ UNCHANGED mailbox
        \/ \E flag : mailbox' = [EmptyMailbox EXCEPT !.changed = flag]
    BY <1>21 DEF AcceptStale, AcceptEpoch, Invalidate
  <2>3. MailTrue(server, mailbox')
    BY <1>2, <1>9, <2>2
  <2> QED
    BY <1>2, <1>3, <1>4, <2>1, <2>3
<1>22. CASE AcceptTopology
  <2>1. /\ UNCHANGED <<server, down, worker, ui>> /\ feed'.snap = NoSnapshot
        /\ PublishTopology(feed.snap)
    BY <1>22 DEF AcceptTopology, IdleFeed
  <2> QED
    BY <1>2, <1>3, <1>4, <1>10, <2>1
<1>23. CASE WorkerTakes \/ Handshake \/ HandshakeFails \/ WorkerAnswered
            \/ RefreshFails
  <2>1. /\ UNCHANGED <<server, down, feed, mailbox, ui>>
        /\ worker'.snap = worker.snap
        /\ \/ worker'.status = worker.status /\ worker'.cmd = worker.cmd
           \/ worker'.status # "ok"
    BY <1>0, <1>23 DEF WorkerTakes, Handshake, HandshakeFails,
       WorkerAnswered, RefreshFails, Call, WorkerType, Phases
  <2>2. WorkTrue(server, worker')
    BY <1>2, <2>1 DEF WorkTrue
  <2> QED
    BY <1>2, <1>3, <2>1, <2>2
<1>24. CASE ServeCommand
  <2>1. PICK status \in {"ok", "refused", "revision_conflict"} :
           /\ Execute(worker.cmd, worker.expected, status)
           /\ worker' = [worker EXCEPT !.pc = "answered", !.status = status,
                            !.snap = IF status = "ok" THEN Snapshot'
                                     ELSE NoSnapshot]
           /\ UNCHANGED <<down, feed, mailbox, ui>>
    BY <1>24 DEF ServeCommand
  <2>2. worker.cmd \in Commands
    BY <1>0, <1>24 DEF ServeCommand, Phases, WorkerType, Numbers, Commands
  <2>3. /\ Follows(server, server') /\ ServerTrue(server')
        /\ status = "ok" => InLog(server', worker.cmd, server'.rev)
    BY <1>2, <2>1, <2>2, ExecuteTrue
  <2>4. server' \in ServerType
    BY <2>1, <2>2, ExecuteTypes
  <2>5. server'.epoch = server.epoch
    BY <1>0, <2>1 DEF Execute, ServerType
  <2>6. Beginning(server', Snapshot') /\ Snapshot'.rev = server'.rev
    BY <1>5, <2>3, <2>4, <2>5
  <2>7. /\ worker'.cmd = worker.cmd /\ worker'.status = status
        /\ worker'.snap = IF status = "ok" THEN Snapshot' ELSE NoSnapshot
    BY <1>0, <2>1 DEF WorkerType
  <2>8. WorkTrue(server', worker')
    <3>1. Beginning(server', NoSnapshot)
      BY DEF Beginning
    <3> QED
      BY <2>3, <2>6, <2>7, <3>1 DEF WorkTrue
  <2> QED
    BY <1>2, <1>3, <2>1, <2>3, <2>8, FollowsFacts
<1>25. CASE Refresh
  <2>1. /\ UNCHANGED <<server, down, feed, mailbox, ui>>
        /\ worker'.snap = Snapshot /\ worker'.status = worker.status
        /\ worker'.cmd = worker.cmd
    BY <1>0, <1>25 DEF Refresh, WorkerType
  <2>2. \A c, r : InLog(server, c, r) => InLog(server, c, server.rev)
    BY <1>0 DEF InLog
  <2>3. WorkTrue(server, worker')
    BY <1>2, <1>4, <2>1, <2>2 DEF WorkTrue
  <2> QED
    BY <1>2, <1>3, <2>1, <2>3
<1>26. CASE TryAgain
  <2>1. /\ UNCHANGED <<server, down, feed, ui>>
        /\ worker'.snap = worker.snap /\ worker'.status = worker.status
        /\ worker'.cmd = worker.cmd /\ PublishTopology(worker.snap)
    BY <1>0, <1>26 DEF TryAgain, Call, WorkerType
  <2>2. WorkTrue(server, worker') /\ Beginning(server, worker.snap)
    BY <1>2, <2>1 DEF WorkTrue
  <2> QED
    BY <1>2, <1>3, <1>10, <2>1, <2>2
<1>27. WorkTrue(server, IdleWorker)
       /\ WorkTrue(server, [IdleWorker EXCEPT !.pc = "probing"])
  BY <1>4 DEF WorkTrue, IdleWorker
<1>28. CASE WorkerPublishes
  <2>1. /\ worker.pc = "publish" /\ worker' = IdleWorker
        /\ PublishCompletion(worker.cmd, worker.status = "ok", worker.snap)
        /\ UNCHANGED <<server, down, feed, ui>>
    BY <1>28 DEF WorkerPublishes
  <2>2. worker.cmd \in Commands /\ worker.snap \in SnapType
    BY <1>0, <2>1 DEF Phases, WorkerType, Numbers, Commands
  <2>3. /\ (worker.status = "ok") \in BOOLEAN
        /\ worker.status = "ok" => InLog(server, worker.cmd, worker.snap.rev)
        /\ Beginning(server, worker.snap)
    BY <1>2 DEF WorkTrue
  <2>4. MailTrue(server, mailbox')
    BY <1>8, <2>1, <2>2, <2>3
  <2> QED
    BY <1>2, <1>3, <1>27, <2>1, <2>4
<1>29. CASE GiveUp \/ Probe
  <2>1. /\ UNCHANGED <<server, down, feed, ui>>
        /\ worker' \in {IdleWorker, [IdleWorker EXCEPT !.pc = "probing"]}
        /\ \/ UNCHANGED mailbox
           \/ mailbox' = [EmptyMailbox EXCEPT !.changed = TRUE]
    BY <1>29 DEF GiveUp, Probe
  <2>2. MailTrue(server, mailbox')
    BY <1>2, <1>9, <2>1
  <2> QED
    BY <1>2, <1>3, <1>27, <2>1, <2>2
<1> QED
  BY <1>11, <1>12, <1>13, <1>14, <1>15, <1>16, <1>17, <1>18, <1>19, <1>20,
     <1>21, <1>22, <1>23, <1>24, <1>25, <1>26, <1>28, <1>29
  DEF Next, StateThread, Coordinator, Worker

-----------------------------------------------------------------------------
(* The invariant                                                            *)

(* A Session that begins satisfies the invariant.                           *)
LEMMA InitOK ==
    ASSUME SessionTopologyAssumption, Init
    PROVE  Inv
<1>0. /\ MaxCommands \in Nat /\ MaxOthers \in Nat /\ MaxRestarts \in Nat
      /\ CompletedLimit \in Nat \ {0}
  BY DEF SessionTopologyAssumption
<1>1. /\ \A S : <<>> \in Seq(S)
      /\ Len(<<>>) = 0 /\ 1..0 = {} /\ DOMAIN <<>> = {}
  BY EmptySeq
<1>2. server \in ServerType /\ NoSnapshot \in SnapType
      /\ server.done = <<>> /\ server.rev = 1 /\ server.log = <<>>
      /\ server.epoch = 1
  <2>1. NoSnapshot \in SnapType
    BY SnapshotTypes
  <2>2. /\ 1 \in Revs \ {0}
        /\ server = [epoch |-> 1, rev |-> 1, log |-> <<>>, done |-> <<>>]
    BY RevsFacts DEF Init
  <2> QED
    BY <1>1, <2>1, <2>2 DEF ServerType
<1>3. Snapshot \in SnapType
  BY <1>2, SnapshotTypes
<1>4. Types
  <2>1. /\ applied \in AppliedType /\ identity \in Nat
        /\ mode \in {"stream", "poll"} /\ streaming \in BOOLEAN
        /\ linked \in BOOLEAN
    BY <1>0 DEF Init, AppliedType, SessionTopologyAssumption
  <2>2. /\ outgoing \in Seq(OutgoingType) /\ sent \in Seq(SentType)
        /\ up \in Seq(UpType) /\ down \in Seq(DownType)
        /\ queue \in Seq(Commands)
    BY <1>1 DEF Init
  <2>3. policy \in PolicyType /\ peer \in PeerType
    BY RevsFacts DEF Init, PolicyType, PeerType
  <2>4. worker \in WorkerType
    BY <1>0, <1>2, RevsFacts
    DEF Init, IdleWorker, WorkerType, Numbers, Statuses
  <2>5. view \in Revs /\ late \in SUBSET LateType
    BY RevsFacts DEF Init
  <2>6. feed \in FeedType
    BY <1>2, RevsFacts DEF Init, IdleFeed, FeedType
  <2>7. cursor \in CursorType /\ mailbox \in MailboxType
    BY <1>1, <1>2, RevsFacts
    DEF Init, CursorType, EmptyMailbox, MailboxType
  <2>8. ui \in UiType
    BY <1>3 DEF Init, UiType
  <2>9. /\ answers \in [Commands -> {"none", "ok", "failed"}]
        /\ issued \in 0..MaxCommands /\ others \in 0..MaxOthers
        /\ faults \in Nat /\ restarts \in 0..MaxRestarts
    BY <1>0 DEF Init
  <2> QED
    BY <1>2, <2>1, <2>2, <2>3, <2>4, <2>5, <2>6, <2>7, <2>8, <2>9 DEF Types
<1>5. Phases
  BY <1>1 DEF Init, Phases, IdleWorker
<1>6. Epochs
  BY <1>1, <1>2 DEF Init, Epochs, IdleFeed, EmptyMailbox
<1>7. Held
  <2>1. ASSUME NEW c \in Commands PROVE HeldAt(c)
    <3>1. /\ Count(outgoing, c) = 0 /\ Count(sent, c) = 0
          /\ Number(queue, c) = 0 /\ Count(mailbox.commands, c) = 0
      BY CountEmpty, NumberEmpty DEF Init, EmptyMailbox
    <3>2. Waits0(c) = 0 /\ Told(c) = 0 /\ c \in Nat /\ c > 0
      BY <1>0 DEF Init, Waits0, Told, IdleWorker, Commands
    <3>3. Places(c) = 0 /\ issued = 0
      BY <3>1, <3>2, PlacesAre DEF Init
    <3> QED
      BY <3>2, <3>3 DEF HeldAt
  <2> QED
    BY <2>1 DEF Held
<1>8. Asked
  BY <1>1 DEF Init, Asked, Load, IdleWorker
<1>9. Flight
  <2>1. \A c : Count(up, c) = 0 /\ Count(down, c) = 0
    BY CountEmpty DEF Init
  <2>2. \A c : InFlight(c) = 0
    BY <2>1 DEF InFlight
  <2> QED
    BY <2>2 DEF Flight
<1>10. Cache
  <2>1. Cardinality({}) = 0 /\ applied.now = {} /\ applied.ever = {}
        /\ others = 0
    BY FS_EmptySet DEF Init
  <2> QED
    BY <1>0, <1>1, <1>2, <2>1 DEF Cache
<1>11. Honest
  BY <1>1 DEF Init, Honest, IdleWorker, EmptyMailbox
<1>12. Truthful
  <2>1. ServerTrue(server) /\ FramesTrue(server, down)
    BY <1>1, <1>2 DEF Init, ServerTrue, FramesTrue
  <2>2. Beginning(server, NoSnapshot)
    BY DEF Beginning
  <2>3. WorkTrue(server, worker) /\ Beginning(server, feed.snap)
    BY <2>2 DEF Init, WorkTrue, IdleWorker, IdleFeed
  <2>4. MailTrue(server, mailbox)
    BY <1>1, <2>2 DEF Init, MailTrue, EmptyMailbox
  <2>5. ShownTrue(server, ui)
    BY <1>1, <1>2 DEF Init, ShownTrue, Beginning, Snapshot, NoSnapshot
  <2> QED
    BY <2>1, <2>3, <2>4, <2>5 DEF Truthful
<1> QED
  BY <1>4, <1>5, <1>6, <1>7, <1>8, <1>9, <1>10, <1>11, <1>12 DEF Inv

(* Every step of the Session keeps the invariant.                           *)
LEMMA InvStep ==
    ASSUME SessionTopologyAssumption, Inv, [Next]_vars
    PROVE  Inv'
<1>1. CASE Next
  <2>1. Types'
    BY <1>1, TypesStep DEF Inv
  <2> QED
    BY <1>1, <2>1, PhasesStep, EpochsStep, HeldStep, AskedStep, FlightStep,
       CacheStep, HonestStep, TruthfulStep DEF Inv
<1>2. CASE UNCHANGED vars
  <2> USE <1>2 DEF vars, clientVars, wireVars, workerVars, uiVars, bounds
  <2>1. Types' /\ Phases' /\ Epochs'
    BY DEF Inv, Types, Phases, Epochs
  <2>2. Held'
    <3>1. ASSUME NEW c
          PROVE  /\ Count(outgoing, c)' = Count(outgoing, c)
                 /\ Count(sent, c)' = Count(sent, c)
                 /\ Count(mailbox.commands, c)' = Count(mailbox.commands, c)
      BY DEF Count
    <3>2. ASSUME NEW c PROVE Places(c)' = Places(c)
      BY <3>1 DEF Places
    <3> QED
      BY <3>2 DEF Inv, Held, HeldAt
  <2>3. Asked' /\ Cache' /\ Honest'
    BY DEF Inv, Asked, Load, Cache, Honest
  <2>4. Flight'
    BY DEF Inv, Flight, InFlight, Tracks, Count
  <2>5. Truthful'
    BY DEF Inv, Truthful
  <2> QED
    BY <2>1, <2>2, <2>3, <2>4, <2>5 DEF Inv
<1> QED
  BY <1>1, <1>2

(* The invariant holds in every state of every behaviour: the conjuncts of  *)
(* it are what the theorems below are read off from.                        *)
THEOREM Invariance == Spec => []Inv
<1>1. Init => Inv
  BY InitOK, SessionTopologyAssumption
<1>2. Inv /\ [Next]_vars => Inv'
  BY InvStep, SessionTopologyAssumption
<1> QED
  BY <1>1, <1>2, PTL DEF Spec

(* What is sent, queued, published and shown is of its kind, as long as the *)
(* cache of completed commands (remember() in TopologyService) holds them.  *)
THEOREM TypeCorrect ==
    ASSUME CacheHolds
    PROVE  Spec => []SessionTopologyTypeOK
<1>1. ASSUME Inv PROVE SessionTopologyTypeOK
  <2> USE <1>1 DEF Inv
  <2>0. Revs = {0} \cup Revisions /\ Revs \subseteq Nat
    BY RevsFacts, SessionTopologyAssumption DEF Revs
  <2>1. /\ server \in ServerType /\ applied \in AppliedType
        /\ policy \in PolicyType /\ peer \in PeerType
        /\ worker \in WorkerType /\ feed \in FeedType
        /\ cursor \in CursorType /\ view \in Revs
        /\ issued \in Nat /\ restarts \in 0..MaxRestarts
        /\ MaxRestarts \in Nat
    BY SessionTopologyAssumption DEF Types, SessionTopologyAssumption
  <2>2. server.epoch \in 1..(MaxRestarts + 1)
    BY <2>1 DEF Epochs
  <2>3. server.rev \in Revisions
    BY <2>0, <2>1 DEF ServerType
  <2>4. ToSet(server.log) \subseteq 0..MaxCommands
    <3>1. server.log \in Seq(Numbers)
      BY <2>1 DEF ServerType
    <3>2. /\ DOMAIN server.log = 1..Len(server.log)
          /\ \A i \in 1..Len(server.log) : server.log[i] \in Numbers
      BY <3>1, LenProperties, ElementOfSeq
    <3> QED
      BY <3>2 DEF ToSet, Numbers
  <2>5. /\ Len(server.done) <= CompletedLimit
        /\ applied.now \subseteq applied.ever
        /\ applied.ever \subseteq Commands
    BY <2>1 DEF Cache, AppliedType
  <2>6. identity \in 1..server.epoch /\ cursor.epoch \in 1..identity
    BY DEF Epochs
  <2>7. Len(sent) + Len(outgoing) + Len(queue) <= issued
    <3>1. Len(sent) \in Nat /\ Len(outgoing) \in Nat /\ Len(queue) \in Nat
      BY LenProperties DEF Types
    <3>2. (IF worker.cmd = 0 THEN 0 ELSE 1) \in Nat
      OBVIOUS
    <3> QED
      BY <2>1, <3>1, <3>2 DEF Asked, Load
  <2>8. \A i \in DOMAIN sent : sent[i].deferred => sent[i].retry = 1
    BY LenProperties DEF Types, Phases
  <2>9. /\ policy.last \in {0} \cup Revisions
        /\ peer.rev \in {0} \cup Revisions
        /\ cursor.rev \in {0} \cup Revisions /\ view \in {0} \cup Revisions
    BY <2>0, <2>1 DEF PolicyType, PeerType, CursorType
  <2>10. /\ feed.step \in {"idle", "asked", "lost", "stale", "accept",
                           "revision", "publish"}
         /\ worker.pc \in {"idle", "asked", "lost", "answered",
                           "refreshing", "refreshed", "publish", "probing"}
    BY <2>1 DEF FeedType, WorkerType
  <2> QED
    BY <2>2, <2>3, <2>4, <2>5, <2>6, <2>7, <2>8, <2>9, <2>10
    DEF Types, Phases, SessionTopologyTypeOK
<1> QED
  BY <1>1, Invariance, PTL

(* Every command the user asked for is in exactly one place: the queue of   *)
(* the worker, the stream's lists, the worker's hands, the mailbox or the   *)
(* answers; only a replaced server drops one.                               *)
THEOREM CommandsHeldOnce == Spec => []HeldOnce
<1>1. ASSUME Inv PROVE HeldOnce
  <2> SUFFICES ASSUME NEW c \in 1..issued
               PROVE  Places(c) = 1 \/ (restarts > 0 /\ Places(c) = 0)
    BY DEF HeldOnce
  <2>1. /\ c \in Commands /\ c <= issued /\ restarts \in Nat
        /\ Places(c) \in Nat
    BY <1>1, SessionTopologyAssumption, PlacesTypes
    DEF Inv, Types, Commands, SessionTopologyAssumption
  <2>2. HeldAt(c)
    BY <1>1, <2>1 DEF Inv, Held
  <2> QED
    BY <2>1, <2>2 DEF HeldAt
<1> QED
  BY <1>1, Invariance, PTL

-----------------------------------------------------------------------------
(* What the Session promises                                                *)

(* A command that is executed is asked for; while the cache holds it is     *)
(* applied once.                                                            *)
LEMMA ExecutePromised ==
    ASSUME SessionTopologyAssumption, CacheHolds, Inv,
           NEW c \in Commands, c <= issued, NEW expected, NEW status,
           Execute(c, expected, status), UNCHANGED <<issued, answers>>
    PROVE  UNCHANGED Promise!logVars \/ Promise!ApplyCommand(c)
<1>1. CASE UNCHANGED <<server, applied>>
  BY <1>1 DEF Promise!logVars
<1>2. CASE Applies(c)
  <2>1. /\ c \notin applied.now
        /\ applied'.now = applied.now \cup {c}
        /\ applied'.ever = applied.ever \cup {c}
    BY <1>2, AppliesFacts DEF Inv
  <2>2. server'.log = Append(server.log, c)
    BY <1>2 DEF Applies, Grows, Inv, Types, ServerType
  <2>3. c \in 1..issued
    BY SessionTopologyAssumption DEF Inv, Types, Commands
  <2> QED
    BY <2>1, <2>2, <2>3 DEF Promise!ApplyCommand
<1> QED
  BY <1>1, <1>2, ExecuteKinds

(* The user interface tells of a command once, and of success only when it  *)
(* was applied.                                                             *)
LEMMA ConsumePromised ==
    ASSUME SessionTopologyAssumption, Inv, answers' \in
             [Commands -> {"none", "ok", "failed"}], Consume
    PROVE  Promise!Answer
<1>1. ASSUME NEW c \in Commands, answers'[c] # answers[c]
      PROVE  /\ answers[c] = "none" /\ c \in 1..issued
             /\ answers'[c] = "ok" => c \in applied.ever
  <2> DEFINE told == {d \in ToSet(mailbox.commands) : d.cmd = c}
  <2>1. answers'[c] = IF told = {} THEN answers[c]
                      ELSE IF \E d \in told : d.ok THEN "ok" ELSE "failed"
    BY DEF Consume
  <2>2. /\ mailbox.commands \in Seq(CompletionType)
        /\ Len(mailbox.commands) \in Nat
        /\ DOMAIN mailbox.commands = 1..Len(mailbox.commands)
    BY LenProperties DEF Inv, Types, MailboxType
  <2>3. \A d \in told : \E i \in 1..Len(mailbox.commands) :
           d = mailbox.commands[i] /\ mailbox.commands[i].cmd = c
    BY <2>2 DEF ToSet
  <2>4. told # {} /\ (answers'[c] = "ok" => \E d \in told : d.ok)
    BY <1>1, <2>1
  <2> HIDE DEF told
  <2>5. PICK i \in 1..Len(mailbox.commands) : mailbox.commands[i].cmd = c
    BY <2>3, <2>4
  <2>6. Count(mailbox.commands, c) # 0
    BY <2>2, <2>5, CountPlaces, CarryNumbers
  <2>7. Told(c) = 0
    <3>1. HeldAt(c)
      BY DEF Inv, Held
    <3>2. Places(c) <= 1
      BY <3>1 DEF HeldAt
    <3>3. /\ Count(outgoing, c) \in Nat /\ Count(sent, c) \in Nat
          /\ Number(queue, c) \in Nat /\ Waits0(c) \in Nat
          /\ Count(mailbox.commands, c) \in Nat /\ Told(c) \in Nat
      BY PlacesTypes DEF Inv
    <3>4. Places(c) = Count(outgoing, c) + Count(sent, c)
              + Number(queue, c) + Waits0(c) + Count(mailbox.commands, c)
              + Told(c)
      BY PlacesAre
    <3> QED
      BY <2>6, <3>2, <3>3, <3>4
  <2>8. answers[c] = "none"
    BY <2>7 DEF Told
  <2>9. c \in 1..issued
    <3>1. c <= issued /\ issued \in Nat
      <4>1. Types /\ Held
        BY DEF Inv
      <4>2. mailbox.commands[i].cmd <= issued
        BY <4>1, PlacedAsked, SessionTopologyAssumption
      <4> QED
        BY <2>5, <4>1, <4>2 DEF Types
    <3> QED
      BY <3>1 DEF Commands
  <2>10. ASSUME answers'[c] = "ok" PROVE c \in applied.ever
    <3>1. PICK d \in told : d.ok
      BY <2>4, <2>10
    <3>2. PICK j \in 1..Len(mailbox.commands) :
             d = mailbox.commands[j] /\ mailbox.commands[j].cmd = c
      BY <2>3
    <3> QED
      BY <3>1, <3>2 DEF Inv, Honest
  <2> QED
    BY <2>8, <2>9, <2>10
<1>2. UNCHANGED <<server, applied, issued>>
  BY DEF Consume, bounds
<1> QED
  BY <1>1, <1>2 DEF Promise!Answer, Promise!Answers

(* Each step of the Session is a step of CommandLog, or leaves it alone.    *)
LEMMA PromiseStep ==
    ASSUME SessionTopologyAssumption, CacheHolds, Inv, Inv', Next
    PROVE  [Promise!LogNext]_(Promise!logVars)
<1> USE DEF clientVars, wireVars, workerVars, uiVars, bounds
<1>0. /\ MaxCommands \in Nat /\ issued \in Nat /\ issued' \in Nat
      /\ issued' <= MaxCommands
      /\ answers' \in [Commands -> {"none", "ok", "failed"}]
  BY DEF Inv, Types, SessionTopologyAssumption
<1>1. ASSUME UNCHANGED <<server, applied, issued, answers>>
      PROVE  UNCHANGED Promise!logVars
  BY <1>1 DEF Promise!logVars
<1>2. CASE IssueCommand
  <2>1. /\ issued' = issued + 1
        /\ UNCHANGED <<server, applied, answers>>
    BY <1>2 DEF IssueCommand
  <2>2. /\ issued' \in Commands /\ issued' \notin 1..issued
        /\ (1..issued)' = (1..issued) \cup {issued'}
    BY <1>0, <2>1 DEF Commands
  <2>3. Promise!Ask(issued')
    BY <2>1, <2>2 DEF Promise!Ask
  <2> QED
    BY <2>2, <2>3 DEF Promise!LogNext
<1>3. CASE Consume
  BY <1>0, <1>3, ConsumePromised DEF Promise!LogNext
<1>4. CASE OtherCommand
  <2>1. /\ server'.log = Append(server.log, 0)
        /\ UNCHANGED <<applied, issued, answers>>
    BY <1>4 DEF OtherCommand, Inv, Types, ServerType
  <2> QED
    BY <2>1 DEF Promise!LogNext, Promise!ApplyOther
<1>5. CASE Restart
  <2>1. /\ \E k \in 0..Len(server.log) :
              server'.log = SubSeq(server.log, 1, k)
        /\ applied'.now = {} /\ applied'.ever = applied.ever
        /\ UNCHANGED <<issued, answers>>
    <3>1. \E k \in 0..Len(server.log) :
             server'.log = SubSeq(server.log, 1, k)
      BY <1>5 DEF Restart
    <3>2. applied'.now = {} /\ applied'.ever = applied.ever
      BY <1>5 DEF Restart, Inv, Types, AppliedType
    <3> QED
      BY <1>5, <3>1, <3>2 DEF Restart
  <2> QED
    BY <2>1 DEF Promise!LogNext, Promise!Recover
<1>6. CASE ServeLate
  <2>1. PICK call \in late :
           /\ \E status \in {"ok", "refused", "revision_conflict"} :
                 Execute(call.cmd, call.expected, status)
           /\ UNCHANGED <<issued, answers>>
    BY <1>6 DEF ServeLate
  <2>2. call.cmd \in Commands /\ call.cmd <= issued
    BY DEF Inv, Types, LateType, Asked
  <2>3. UNCHANGED Promise!logVars \/ Promise!ApplyCommand(call.cmd)
    BY <2>1, <2>2, ExecutePromised
  <2> QED
    BY <2>2, <2>3 DEF Promise!LogNext
<1>7. CASE StreamCommand
  <2>1. /\ up # <<>> /\ Head(up).cmd \in Commands
        /\ UNCHANGED <<issued, answers>>
        /\ \E status \in {"ok", "refused", "revision_conflict"} :
              Execute(Head(up).cmd, Head(up).rev, status)
    BY <1>7, StreamCommandAs DEF Inv
  <2>2. Head(up).cmd <= issued
    <3>1. Head(up) = up[1] /\ 1 \in 1..Len(up)
      BY <2>1, HeadAndTail DEF Inv, Types
    <3> QED
      BY <3>1 DEF Inv, Asked
  <2>3. UNCHANGED Promise!logVars \/ Promise!ApplyCommand(Head(up).cmd)
    BY <2>1, <2>2, ExecutePromised
  <2> QED
    BY <2>1, <2>3 DEF Promise!LogNext
<1>8. CASE ServeCommand
  <2>1. /\ worker.pc = "asked" /\ UNCHANGED <<issued, answers>>
        /\ \E status \in {"ok", "refused", "revision_conflict"} :
              Execute(worker.cmd, worker.expected, status)
    BY <1>8 DEF ServeCommand
  <2>2. worker.cmd \in Commands /\ worker.cmd <= issued
    <3>1. worker.cmd \in Numbers /\ worker.cmd # 0
      BY <2>1 DEF Inv, Types, Phases, WorkerType
    <3>2. worker.cmd <= issued
      BY PlacedAsked DEF Inv
    <3> QED
      BY <1>0, <3>1, <3>2 DEF Numbers, Commands
  <2>3. UNCHANGED Promise!logVars \/ Promise!ApplyCommand(worker.cmd)
    BY <2>1, <2>2, ExecutePromised
  <2> QED
    BY <2>2, <2>3 DEF Promise!LogNext
<1>9. CASE \/ ReadUpdate \/ SendEvents \/ SeeClose \/ ServePoll
           \/ LoseStream
  BY <1>1, <1>9 DEF ReadUpdate, SendEvents, SeeClose, ServePoll, LoseStream
<1>10. CASE Coordinator
  <2>1. CASE \/ SendCommands \/ SendUpdate \/ AcceptResult \/ AcceptEvents
             \/ FallBack \/ AbandonCommands
    BY <1>1, <2>1 DEF SendCommands, SendUpdate, AcceptResult, AcceptEvents,
       FallBack, AbandonCommands
  <2>2. CASE \/ PollBegins \/ PollFails \/ AcceptStale \/ AcceptEpoch
             \/ AcceptRevision \/ AcceptTopology
    BY <1>1, <2>2 DEF PollBegins, PollFails, AcceptStale, AcceptEpoch,
       AcceptRevision, AcceptTopology
  <2> QED
    BY <1>10, <2>1, <2>2 DEF Coordinator
<1>11. CASE Worker
  <2>1. CASE \/ WorkerTakes \/ Handshake \/ HandshakeFails
             \/ WorkerAnswered \/ Refresh
    BY <1>1, <2>1 DEF WorkerTakes, Handshake, HandshakeFails,
       WorkerAnswered, Refresh
  <2>2. CASE RefreshFails \/ TryAgain \/ WorkerPublishes \/ GiveUp \/ Probe
    BY <1>1, <2>2 DEF RefreshFails, TryAgain, WorkerPublishes, GiveUp,
       Probe
  <2> QED
    BY <1>11, <2>1, <2>2 DEF Worker
<1> QED
  BY <1>2, <1>3, <1>4, <1>5, <1>6, <1>7, <1>8, <1>9, <1>10, <1>11
  DEF Next, StateThread

(* The Session implements CommandLog: however a command travels, is retried *)
(* or given up, a running server applies it at most once, the user is told  *)
(* of it at most once, and of success only when it was applied.             *)
THEOREM PromiseKept ==
    ASSUME CacheHolds
    PROVE  Spec => KeepsPromise
<1>1. Init => Promise!LogInit
  BY DEF Init, Promise!LogInit
<1>2. Inv /\ Inv' /\ [Next]_vars => [Promise!LogNext]_(Promise!logVars)
  <2>1. UNCHANGED vars => UNCHANGED Promise!logVars
    BY DEF vars, uiVars, bounds, Promise!logVars
  <2> QED
    BY <2>1, PromiseStep, SessionTopologyAssumption
<1> QED
  BY <1>1, <1>2, Invariance, PTL DEF Spec, KeepsPromise, Promise!LogSpec

(* The topology shown never goes back while the server stays the same       *)
(* (consume_remote_session_state()).                                        *)
THEOREM ShownNeverBack == Spec => ShownForward
<1> DEFINE Forward == \/ restarts > 0
                      \/ /\ ui'.shown.epoch = ui.shown.epoch
                         /\ ui'.shown.rev >= ui.shown.rev
<1>1. ASSUME Inv, [Next]_vars PROVE [Forward]_vars
  <2>0. /\ restarts \in Nat /\ ui \in UiType /\ Revs \subseteq Nat
        /\ mailbox \in MailboxType
    BY <1>1, RevsFacts, SessionTopologyAssumption DEF Inv, Types
  <2>1. ui.shown.rev \in Nat /\ mailbox.topology.rev \in Nat
    BY <2>0 DEF UiType, MailboxType, SnapType
  <2>2. CASE UNCHANGED ui
    BY <2>1, <2>2
  <2>3. CASE Consume /\ restarts = 0
    <3>1. ~(ui.accept \/ mailbox.changed)
      BY <1>1, <2>3 DEF Inv, Epochs
    <3>2. ui'.shown = IF Shows(FALSE, mailbox.topology)
                      THEN mailbox.topology ELSE ui.shown
      BY <2>3, <3>1 DEF Consume, Shows
    <3>3. /\ ui.shown.epoch = 1
          /\ mailbox.topology # NoSnapshot => mailbox.topology.epoch = 1
      BY <1>1, <2>3 DEF Inv, Truthful, ShownTrue, MailTrue, Beginning
    <3> QED
      BY <2>1, <3>2, <3>3 DEF Shows
  <2>4. CASE Next /\ ~Consume
    <3> USE DEF clientVars, wireVars, workerVars, uiVars, bounds
    <3>1. CASE IssueCommand \/ OtherCommand \/ Restart \/ LoseStream
               \/ ServeLate
      BY <2>2, <3>1 DEF IssueCommand, OtherCommand, Restart, LoseStream,
         ServeLate
    <3>2. CASE StateThread
      BY <2>2, <3>2 DEF StateThread, ReadUpdate, StreamCommand, SendEvents,
         SeeClose, ServePoll, ServeCommand
    <3>3. CASE Coordinator
      BY <2>2, <3>3 DEF Coordinator, SendCommands, SendUpdate,
         AcceptResult, AcceptEvents, FallBack, AbandonCommands, PollBegins,
         PollFails, AcceptStale, AcceptEpoch, AcceptRevision,
         AcceptTopology
    <3>4. CASE Worker
      BY <2>2, <3>4 DEF Worker, WorkerTakes, Handshake, HandshakeFails,
         WorkerAnswered, Refresh, RefreshFails, TryAgain, WorkerPublishes,
         GiveUp, Probe
    <3> QED
      BY <2>4, <3>1, <3>2, <3>3, <3>4 DEF Next
  <2>5. CASE Consume /\ restarts # 0
    BY <2>0, <2>5
  <2>6. CASE UNCHANGED vars
    BY <2>6
  <2> QED
    BY <1>1, <2>3, <2>4, <2>5, <2>6
<1>2. Inv /\ [Next]_vars => [Forward]_vars
  BY <1>1
<1> QED
  BY <1>2, Invariance, PTL DEF Spec, ShownForward

(* A completed command takes effect in the user interface only when the     *)
(* topology shown contains it, as long as the first server runs.            *)
THEOREM ActivationsSeen == Spec => ActivatedSeen
<1> DEFINE Seen == Consume => \A d \in Waiting \ ui'.waiting :
                      d.cmd \in ToSet(ui'.shown.log) \/ restarts > 0
<1>1. ASSUME Inv, Inv', Next, Consume,
             NEW d \in Waiting \ ui'.waiting, restarts = 0
      PROVE  d.cmd \in ToSet(ui'.shown.log)
  <2> DEFINE shown == ui'.shown
  <2>1. /\ ui'.waiting = {e \in Waiting : Waits(e, shown)}
        /\ UNCHANGED <<server, restarts>>
    BY <1>1 DEF Consume, bounds
  <2>2. ~(d.rev > shown.rev)
    BY <1>1, <2>1 DEF Waits
  <2>3. InLog(server, d.cmd, d.rev) /\ d.rev \in Nat
    BY <1>1, WaitingTrue DEF Inv
  <2>4. ShownTrue(server', ui')
    BY <1>1, <2>1 DEF Inv, Truthful
  <2>5. /\ shown \in SnapType /\ server.rev \in Nat
    BY <1>1, RevsFacts, SessionTopologyAssumption
    DEF Inv, Types, UiType, ServerType
  <2> HIDE DEF shown
  <2>6. Beginning(server, shown) /\ shown # NoSnapshot
    BY <2>1, <2>4 DEF ShownTrue, shown
  <2>7. /\ shown.rev \in 1..server.rev /\ Len(shown.log) = shown.rev - 1
        /\ \A j \in 1..(shown.rev - 1) : shown.log[j] = server.log[j]
    BY <2>6 DEF Beginning
  <2>8. PICK j \in 1..(d.rev - 1) : server.log[j] = d.cmd
    BY <2>3 DEF InLog
  <2>9. j \in 1..(shown.rev - 1)
    BY <2>2, <2>3, <2>5, <2>7
  <2>10. shown.log[j] = d.cmd /\ j \in DOMAIN shown.log
    BY <2>5, <2>7, <2>8, <2>9, LenProperties DEF SnapType
  <2> QED
    BY <2>10 DEF ToSet, shown
<1>2. Inv /\ Inv' /\ [Next]_vars => [Seen]_vars
  <2>1. ASSUME Inv PROVE restarts \in Nat
    BY <2>1 DEF Inv, Types
  <2> QED
    BY <1>1, <2>1
<1> QED
  BY <1>2, Invariance, PTL DEF Spec, ActivatedSeen
=============================================================================
