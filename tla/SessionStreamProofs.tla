------------------------- MODULE SessionStreamProofs -------------------------
(***************************************************************************)
(* Proofs about SessionStream.  The frames on their way to the client are  *)
(* numbered without a gap; the Events frames among them answer ever later  *)
(* requests, because the state thread asks nothing of a connection that    *)
(* awaits an Update; and a command is at one stage of its way at a time.   *)
(* So the client has no reason to refuse a frame, and nobody waits for an  *)
(* Update that nothing asks for.                                           *)
(***************************************************************************)
EXTENDS SessionStream, Counting

-----------------------------------------------------------------------------
(* The inductive invariant                                                  *)

(* Frames as they are sent: one that carries a command or a result names   *)
(* the command.                                                             *)
Sent == {f \in ClientFrame : f.kind = "command" => f.command \in Commands}

Replies == {f \in ServerFrame : f.kind = "result" => f.command \in Commands}

(* The state thread pumps a connection that was bound, and what it holds    *)
(* fits the stage it is at.                                                 *)
Pumping ==
    /\ pump.conn <= current
    /\ pump.stage # "idle" =>
          /\ pump.conn \in Connections
          /\ conn[pump.conn].closed \/ conn[pump.conn].phase = "bound"
    /\ pump.stage # "commands" => pump.commands = <<>>
    /\ pump.stage = "events" => pump.frame.kind = "events"
    /\ pump.stage = "error" => pump.frame.kind = "error"
    /\ pump.frame.command = 0

(* What a connection holds is of its type, within its limits, and fits its  *)
(* phase; a closed one holds nothing.                                       *)
CoreOK(core) ==
    /\ core \in Core
    /\ Len(core.commands) <= CommandRoom
    /\ Outbound(core) <= EventRoom + ControlRoom

Fits(core) ==
    /\ CoreOK(core)
    /\ core.closed => core = Close(FreshCore)
    /\ \A n \in 1..Len(core.control) : core.control[n].kind # "events"
                                        /\ core.control[n] \in Replies
    /\ \A n \in 1..Len(core.events) :
          core.events[n].kind = "events" /\ core.events[n].command = 0
    /\ ~core.closed /\ core.phase # "bound" =>
          /\ core.commands = <<>> /\ core.control = <<>>
          /\ core.events = <<>> /\ ~core.awaiting

(* Nothing happens to a connection before it is opened, and nothing comes   *)
(* out of it before it is bound.                                            *)
Placed(i) ==
    /\ i > current =>
          conn[i] = FreshCore /\ toServer[i] = <<>> /\ toClient[i] = <<>>
    /\ ~conn[i].closed /\ conn[i].phase # "bound" => toClient[i] = <<>>

Opening ==
    /\ mode # "closed" => current \in Connections
    /\ mode = "opening" => /\ conn[current].phase \in {"none", "ticket"}
                           /\ toServer[current] = <<>>

SessionOK ==
    head \in [Terminals -> Nat] /\ subscriber \in [Terminals -> Subscriber]

PumpOK ==
    /\ pump \in PumpState /\ refusals \in Nat
    /\ Pumping

ConnsOK ==
    /\ conn \in [Connections -> Core]
    /\ \A i \in Connections : Fits(conn[i])

WiresOK ==
    /\ toServer \in [Connections -> Seq(Sent)]
    /\ toClient \in [Connections -> Seq(Replies)]
    /\ \A i \in Connections : Placed(i)

ClientOK ==
    /\ mode \in Modes /\ current \in Connections \cup {0}
    /\ policy \in Policy /\ unsent \subseteq Commands
    /\ view \in [Terminals -> View]
    /\ Opening

Shape == SessionOK /\ PumpOK /\ ConnsOK /\ WiresOK /\ ClientOK

(* Frames of the connection in use are numbered from the last one accepted. *)
NumberedFrom(wire, last) ==
    \A n \in 1..Len(wire) : wire[n].serial = last + n

Numbered ==
    mode # "closed" =>
       /\ NumberedFrom(toClient[current], policy.lastFrame)
       /\ ~conn[current].closed => conn[current].nextSerial =
             policy.lastFrame + Len(toClient[current]) + 1

(* A command has one place between its sending and its result.              *)
Named(frames, c) == Cardinality({n \in DOMAIN frames : frames[n].command = c})

Held(c) == IF pump.conn = current THEN Number(pump.commands, c) ELSE 0

Total(c) ==
    Named(toServer[current], c) + Number(conn[current].commands, c)
    + Held(c) + Named(conn[current].control, c)
    + Named(toClient[current], c)

Once ==
    /\ policy.pending \cap unsent = {}
    /\ mode # "closed" =>
          \A c \in Commands :
             Total(c) <= 1 /\ (Total(c) # 0 => c \in policy.pending)

(* The requests that Events frames on their way answer.                     *)
Asks(frames, r) ==
    \E n \in 1..Len(frames) :
       frames[n].kind = "events" /\ frames[n].request = r

Rising(frames) ==
    \A m, n \in 1..Len(frames) :
       m < n /\ frames[m].kind = "events" /\ frames[n].kind = "events"
          => frames[m].request < frames[n].request

Told(r) ==
    \/ r = policy.lastEvent
    \/ Asks(toClient[current], r)
    \/ Asks(conn[current].events, r)

Staged(r) ==
    pump.stage = "events" /\ pump.conn = current /\ pump.frame.request = r

(* Ordered among themselves, after the last that was accepted ...           *)
Ordered ==
    /\ Rising(toClient[current]) /\ Rising(conn[current].events)
    /\ \A r, s \in Nat :
          Asks(toClient[current], r) /\ Asks(conn[current].events, s)
             => r < s
    /\ \A r \in Nat :
          Asks(toClient[current], r) \/ Asks(conn[current].events, r)
             => policy.lastEvent < r
    /\ \A r, s \in Nat : Told(r) /\ Staged(s) => r < s

(* ... none newer than the client's last request, and, while the connection *)
(* does not await an Update, all older than the request it has.             *)
Timely ==
    /\ \A r \in Nat : Told(r) \/ Staged(r) => r <= policy.lastPoll.serial
    /\ \A n \in 1..Len(toServer[current]) :
          toServer[current][n].request.serial <= policy.lastPoll.serial
    /\ ~conn[current].closed =>
          /\ conn[current].request.serial <= policy.lastPoll.serial
          /\ \A r \in Nat : Told(r) \/ Staged(r) =>
                /\ r <= conn[current].request.serial
                /\ ~conn[current].awaiting
                      => r < conn[current].request.serial

(* What the state thread has read of the connection is not newer.           *)
Asking ==
    pump.stage = "commands" /\ pump.conn = current =>
       /\ pump.request.serial <= policy.lastPoll.serial
       /\ ~conn[current].closed =>
             pump.request.serial <= conn[current].request.serial
       /\ ~pump.awaiting =>
             \A r \in Nat : Told(r) => r < pump.request.serial

Answers == mode # "closed" => Ordered /\ Timely /\ Asking

Inv == Shape /\ Numbered /\ Once /\ Answers /\ NoLostWait

-----------------------------------------------------------------------------
(* Queues of frames                                                         *)

(* Frames that name a command, or none.                                     *)
Framed(S) == \A f \in S : f.command \in Commands \cup {0}

(* The commands a queue of frames names.                                    *)
Commanded(frames) == [n \in DOMAIN frames |-> frames[n].command]

(* The commands a queue names are counted where the queue is.               *)
LEMMA CommandedFacts ==
    ASSUME NEW S, Framed(S), NEW q \in Seq(S), NEW c
    PROVE  /\ Commanded(q) \in Seq(Commands \cup {0})
           /\ Len(Commanded(q)) = Len(q) /\ Len(q) \in Nat
           /\ \A n \in 1..Len(q) : Commanded(q)[n] = q[n].command
           /\ Named(q, c) = Number(Commanded(q), c)
           /\ Named(q, c) \in Nat
<1>1. /\ DOMAIN q = 1..Len(q) /\ Len(q) \in Nat
      /\ \A n \in 1..Len(q) : q[n] \in S
  BY LenProperties, ElementOfSeq
<1>2. DOMAIN Commanded(q) = DOMAIN q
      /\ \A n \in DOMAIN q : Commanded(q)[n] = q[n].command
  BY DEF Commanded
<1>3. \A n \in 1..Len(q) : q[n].command \in Commands \cup {0}
  BY <1>1 DEF Framed
<1>4. Commanded(q) \in [1..Len(q) -> Commands \cup {0}]
  BY <1>1, <1>3 DEF Commanded
<1>5. Commanded(q) \in Seq(Commands \cup {0}) /\ Len(Commanded(q)) = Len(q)
  BY <1>1, <1>4, MappedSeq
<1>6. {n \in DOMAIN q : q[n].command = c} = Where(Commanded(q), c)
  BY <1>2 DEF Where
<1>7. Named(q, c) = Number(Commanded(q), c)
  BY <1>6 DEF Named, Number
<1> QED
  BY <1>1, <1>2, <1>5, <1>7, NumberType

(* An empty queue names no command.                                         *)
LEMMA NamedEmpty == \A c : Named(<<>>, c) = 0
<1>1. ASSUME NEW c PROVE {n \in DOMAIN <<>> : <<>>[n].command = c} = {}
  BY EmptySeq
<1> QED
  BY <1>1, FS_EmptySet DEF Named

(* A frame that is appended adds the command it names.                      *)
LEMMA NamedAppend ==
    ASSUME NEW S, Framed(S), NEW q \in Seq(S), NEW f \in S, NEW c
    PROVE  Named(Append(q, f), c)
              = Named(q, c) + (IF f.command = c THEN 1 ELSE 0)
<1> DEFINE longer == Append(q, f)
           names == Commanded(q)
<1>1. /\ longer \in Seq(S) /\ Len(longer) = Len(q) + 1
      /\ \A n \in 1..Len(q) : longer[n] = q[n]
      /\ longer[Len(q) + 1] = f
  BY AppendProperties
<1>2. /\ names \in Seq(Commands \cup {0}) /\ Len(names) = Len(q)
      /\ Len(q) \in Nat
      /\ \A n \in 1..Len(q) : names[n] = q[n].command
      /\ Named(q, c) = Number(names, c)
  BY CommandedFacts
<1>3. f.command \in Commands \cup {0}
  BY DEF Framed
<1> DEFINE more == Append(names, f.command)
<1>4. /\ more \in Seq(Commands \cup {0}) /\ Len(more) = Len(q) + 1
      /\ \A n \in 1..Len(q) : more[n] = q[n].command
      /\ more[Len(q) + 1] = f.command
      /\ Number(more, c) = Number(names, c)
                              + (IF f.command = c THEN 1 ELSE 0)
  <2> HIDE DEF names
  <2> QED
    BY <1>2, <1>3, AppendProperties, NumberAppend
<1>5. /\ Commanded(longer) \in Seq(Commands \cup {0})
      /\ Len(Commanded(longer)) = Len(longer)
      /\ \A n \in 1..Len(longer) : Commanded(longer)[n] = longer[n].command
      /\ Named(longer, c) = Number(Commanded(longer), c)
  <2> HIDE DEF longer
  <2> QED
    BY <1>1, CommandedFacts
<1> HIDE DEF more, names, longer
<1>6. Commanded(longer) = more
  <2>1. \A n \in 1..(Len(q) + 1) : n \in 1..Len(q) \/ n = Len(q) + 1
    BY <1>2
  <2>2. \A n \in 1..Len(longer) : Commanded(longer)[n] = more[n]
    BY <1>1, <1>4, <1>5, <2>1
  <2>3. Len(Commanded(longer)) = Len(more)
    BY <1>1, <1>4, <1>5
  <2> QED
    BY <1>1, <1>4, <1>5, <2>2, <2>3, SeqEqual
<1> QED
  BY <1>2, <1>4, <1>5, <1>6 DEF longer

(* A frame that is taken leaves with the command it names.                  *)
LEMMA NamedTail ==
    ASSUME NEW S, Framed(S), NEW q \in Seq(S), q # <<>>, NEW c
    PROVE  Named(q, c)
              = Named(Tail(q), c) + (IF Head(q).command = c THEN 1 ELSE 0)
<1> DEFINE rest == Tail(q)
           names == Commanded(q)
<1>1. /\ rest \in Seq(S) /\ Len(rest) = Len(q) - 1 /\ Head(q) = q[1]
      /\ Len(q) \in Nat \ {0}
      /\ \A n \in 1..(Len(q) - 1) : rest[n] = q[n + 1]
  BY HeadAndTail
<1>2. /\ names \in Seq(Commands \cup {0}) /\ Len(names) = Len(q)
      /\ \A n \in 1..Len(q) : names[n] = q[n].command
      /\ Named(q, c) = Number(names, c)
  BY CommandedFacts
<1>3. names # <<>>
  BY <1>1, <1>2, EmptySeq
<1>4. /\ Tail(names) \in Seq(Commands \cup {0})
      /\ Len(Tail(names)) = Len(q) - 1
      /\ \A n \in 1..(Len(q) - 1) : Tail(names)[n] = names[n + 1]
      /\ Head(names) = names[1]
      /\ Number(names, c) = Number(Tail(names), c)
                               + (IF Head(names) = c THEN 1 ELSE 0)
  <2> HIDE DEF names
  <2> QED
    BY <1>2, <1>3, HeadAndTail, NumberTail
<1>5. /\ Commanded(rest) \in Seq(Commands \cup {0})
      /\ Len(Commanded(rest)) = Len(rest)
      /\ \A n \in 1..Len(rest) : Commanded(rest)[n] = rest[n].command
      /\ Named(rest, c) = Number(Commanded(rest), c)
  <2> HIDE DEF rest
  <2> QED
    BY <1>1, CommandedFacts
<1> HIDE DEF names, rest
<1>6. Commanded(rest) = Tail(names)
  <2>1. \A n \in 1..(Len(q) - 1) : n + 1 \in 1..Len(q)
    BY <1>1
  <2>2. \A n \in 1..Len(rest) : Commanded(rest)[n] = Tail(names)[n]
    BY <1>1, <1>2, <1>4, <1>5, <2>1
  <2>3. Len(Commanded(rest)) = Len(Tail(names))
    BY <1>1, <1>4, <1>5
  <2> QED
    BY <1>1, <1>4, <1>5, <2>2, <2>3, SeqEqual
<1>7. Head(names) = Head(q).command
  BY <1>1, <1>2, <1>4
<1> QED
  BY <1>2, <1>4, <1>5, <1>6, <1>7 DEF rest

(* An Events frame that is appended answers one more request.               *)
LEMMA AsksAppend ==
    ASSUME NEW S, NEW q \in Seq(S), NEW f \in S,
           NEW longer, longer = Append(q, f)
    PROVE  /\ \A r : Asks(longer, r) <=>
                 \/ Asks(q, r)
                 \/ f.kind = "events" /\ f.request = r
           /\ Rising(q) /\ (f.kind = "events" =>
                 \A r \in Nat : Asks(q, r) => r < f.request)
                 /\ (\A r : Asks(q, r) => r \in Nat)
              => Rising(longer)
<1>1. /\ Len(longer) = Len(q) + 1 /\ Len(q) \in Nat
      /\ \A n \in 1..Len(q) : longer[n] = q[n]
      /\ longer[Len(q) + 1] = f
  BY AppendProperties, LenProperties
<1>2. \A n \in 1..Len(longer) : n \in 1..Len(q) \/ n = Len(q) + 1
  BY <1>1
<1>3. 1..Len(q) \subseteq 1..Len(longer) /\ Len(q) + 1 \in 1..Len(longer)
  BY <1>1
<1>4. ASSUME NEW r
      PROVE  Asks(longer, r) <=>
                Asks(q, r) \/ (f.kind = "events" /\ f.request = r)
  <2>1. ASSUME Asks(longer, r)
        PROVE  Asks(q, r) \/ (f.kind = "events" /\ f.request = r)
    <3>1. PICK n \in 1..Len(longer) :
             longer[n].kind = "events" /\ longer[n].request = r
      BY <2>1 DEF Asks
    <3>2. CASE n \in 1..Len(q)
      <4>1. q[n].kind = "events" /\ q[n].request = r
        BY <1>1, <3>1, <3>2
      <4> QED
        BY <3>2, <4>1 DEF Asks
    <3>3. CASE n = Len(q) + 1
      BY <1>1, <3>1, <3>3
    <3> QED
      BY <1>2, <3>2, <3>3
  <2>2. ASSUME Asks(q, r) PROVE Asks(longer, r)
    BY <1>1, <1>3, <2>2 DEF Asks
  <2>3. ASSUME f.kind = "events", f.request = r PROVE Asks(longer, r)
    BY <1>1, <1>3, <2>3 DEF Asks
  <2> QED
    BY <2>1, <2>2, <2>3
<1>5. ASSUME Rising(q), f.kind = "events" =>
                           \A r \in Nat : Asks(q, r) => r < f.request,
             \A r : Asks(q, r) => r \in Nat,
             NEW m \in 1..Len(longer), NEW n \in 1..Len(longer), m < n,
             longer[m].kind = "events", longer[n].kind = "events"
      PROVE  longer[m].request < longer[n].request
  <2>1. m \in 1..Len(q)
    BY <1>1, <1>2, <1>5
  <2>2. CASE n \in 1..Len(q)
    BY <1>1, <1>5, <2>1, <2>2 DEF Rising
  <2>3. CASE n = Len(q) + 1
    <3>1. Asks(q, longer[m].request)
      BY <1>1, <1>5, <2>1 DEF Asks
    <3> QED
      BY <1>1, <1>5, <2>3, <3>1
  <2> QED
    BY <1>2, <2>2, <2>3
<1>6. Rising(q) /\ (f.kind = "events" =>
                       \A r \in Nat : Asks(q, r) => r < f.request)
                /\ (\A r : Asks(q, r) => r \in Nat)
         => Rising(longer)
  BY <1>5 DEF Rising
<1>7. \A r : Asks(longer, r) <=>
                Asks(q, r) \/ (f.kind = "events" /\ f.request = r)
  BY <1>4
<1> QED
  BY <1>6, <1>7

(* The oldest frame goes, and answers an older request than the rest.       *)
LEMMA AsksTail ==
    ASSUME NEW S, NEW q \in Seq(S), q # <<>>, NEW rest, rest = Tail(q)
    PROVE  /\ \A r : Asks(q, r) <=>
                 \/ Asks(rest, r)
                 \/ Head(q).kind = "events" /\ Head(q).request = r
           /\ Rising(q) =>
                 /\ Rising(rest)
                 /\ Head(q).kind = "events" =>
                       \A r : Asks(rest, r) => Head(q).request < r
<1>1. /\ Len(rest) = Len(q) - 1 /\ Head(q) = q[1] /\ Len(q) \in Nat \ {0}
      /\ \A n \in 1..(Len(q) - 1) : rest[n] = q[n + 1]
  BY HeadAndTail
<1>2. /\ 1 \in 1..Len(q)
      /\ \A n \in 1..Len(rest) : rest[n] = q[n + 1] /\ n + 1 \in 1..Len(q)
                                    /\ 1 < n + 1
      /\ \A n \in 1..Len(q) : n = 1 \/ (n - 1 \in 1..Len(rest)
                                          /\ rest[n - 1] = q[n])
  BY <1>1
<1>3. ASSUME NEW r
      PROVE  Asks(q, r) <=>
                \/ Asks(rest, r)
                \/ Head(q).kind = "events" /\ Head(q).request = r
  <2>1. ASSUME Asks(q, r)
        PROVE  \/ Asks(rest, r)
               \/ Head(q).kind = "events" /\ Head(q).request = r
    <3>1. PICK n \in 1..Len(q) : q[n].kind = "events" /\ q[n].request = r
      BY <2>1 DEF Asks
    <3>2. CASE n = 1
      BY <1>1, <3>1, <3>2
    <3>3. CASE n # 1
      <4> DEFINE m == n - 1
      <4>1. m \in 1..Len(rest) /\ rest[m] = q[n]
        BY <1>2, <3>3
      <4> HIDE DEF m
      <4>2. rest[m].kind = "events" /\ rest[m].request = r
        BY <3>1, <4>1
      <4> QED
        BY <4>1, <4>2 DEF Asks
    <3> QED
      BY <3>2, <3>3
  <2>2. ASSUME Asks(rest, r) PROVE Asks(q, r)
    BY <1>2, <2>2 DEF Asks
  <2>3. ASSUME Head(q).kind = "events", Head(q).request = r PROVE Asks(q, r)
    BY <1>1, <1>2, <2>3 DEF Asks
  <2> QED
    BY <2>1, <2>2, <2>3
<1>4. ASSUME Rising(q) PROVE Rising(rest)
  <2> SUFFICES ASSUME NEW m \in 1..Len(rest), NEW n \in 1..Len(rest), m < n,
                      rest[m].kind = "events", rest[n].kind = "events"
               PROVE  rest[m].request < rest[n].request
    BY DEF Rising
  <2>1. m + 1 < n + 1
    BY <1>1
  <2> QED
    BY <1>2, <1>4, <2>1 DEF Rising
<1>5. ASSUME Rising(q), Head(q).kind = "events", NEW r, Asks(rest, r)
      PROVE  Head(q).request < r
  <2>1. PICK n \in 1..Len(rest) :
           rest[n].kind = "events" /\ rest[n].request = r
    BY <1>5 DEF Asks
  <2> QED
    BY <1>1, <1>2, <1>5, <2>1 DEF Rising
<1>6. \A r : Asks(q, r) <=>
                \/ Asks(rest, r)
                \/ Head(q).kind = "events" /\ Head(q).request = r
  BY <1>3
<1>7. Rising(q) => /\ Rising(rest)
                   /\ Head(q).kind = "events" =>
                         \A r : Asks(rest, r) => Head(q).request < r
  BY <1>4, <1>5
<1> QED
  BY <1>6, <1>7

(* An empty queue answers nothing.                                          *)
LEMMA AsksEmpty == Rising(<<>>) /\ \A r : ~Asks(<<>>, r)
BY EmptySeq DEF Rising, Asks

-----------------------------------------------------------------------------
(* Types                                                                    *)

(* The numbers of the frames go on at the end and at the front.             *)
LEMMA NumberedAppend ==
    ASSUME NEW S, NEW q \in Seq(S), NEW f \in S, NEW last \in Nat,
           NumberedFrom(q, last), f.serial = last + Len(q) + 1,
           NEW longer, longer = Append(q, f)
    PROVE  NumberedFrom(longer, last) /\ Len(longer) = Len(q) + 1
<1>1. /\ Len(longer) = Len(q) + 1 /\ Len(q) \in Nat
      /\ \A n \in 1..Len(q) : longer[n] = q[n]
      /\ longer[Len(q) + 1] = f
  BY AppendProperties, LenProperties
<1>2. \A n \in 1..Len(longer) : n \in 1..Len(q) \/ n = Len(q) + 1
  BY <1>1
<1>3. \A n \in 1..Len(q) : longer[n].serial = last + n
  BY <1>1 DEF NumberedFrom
<1>4. longer[Len(q) + 1].serial = last + (Len(q) + 1)
  <2>1. last + Len(q) + 1 = last + (Len(q) + 1)
    BY <1>1
  <2> QED
    BY <1>1, <2>1
<1>5. NumberedFrom(longer, last)
  BY <1>2, <1>3, <1>4 DEF NumberedFrom
<1> QED
  BY <1>1, <1>5

(* When the oldest frame is taken the others are numbered after it.         *)
LEMMA NumberedTail ==
    ASSUME NEW S, NEW q \in Seq(S), q # <<>>, NEW last \in Nat,
           NumberedFrom(q, last), NEW rest, rest = Tail(q)
    PROVE  /\ Head(q).serial = last + 1 /\ Len(rest) + 1 = Len(q)
           /\ NumberedFrom(rest, last + 1)
<1>1. /\ Len(rest) = Len(q) - 1 /\ Head(q) = q[1] /\ Len(q) \in Nat \ {0}
      /\ \A n \in 1..(Len(q) - 1) : rest[n] = q[n + 1]
  BY HeadAndTail
<1>2. /\ 1 \in 1..Len(q) /\ Len(rest) + 1 = Len(q)
      /\ \A n \in 1..Len(rest) : n + 1 \in 1..Len(q)
  BY <1>1
<1>3. \A n \in 1..Len(q) : q[n].serial = last + n
  BY DEF NumberedFrom
<1>4. ASSUME NEW n \in 1..Len(rest)
      PROVE  rest[n].serial = (last + 1) + n
  <2>1. rest[n] = q[n + 1] /\ q[n + 1].serial = last + (n + 1)
    BY <1>1, <1>2, <1>3
  <2>2. last + (n + 1) = (last + 1) + n
    OBVIOUS
  <2> QED
    BY <2>1, <2>2
<1>5. NumberedFrom(rest, last + 1)
  BY <1>4 DEF NumberedFrom
<1> QED
  BY <1>1, <1>2, <1>3, <1>5

(* What the module builds its records with.                                 *)
LEMMA FrameTypes ==
    /\ NoRequest \in Request /\ NoBatches \in [Terminals -> Batch]
    /\ ConnectFrame \in Sent
    /\ \A r \in Request : UpdateFrame(r) \in Sent
    /\ \A c \in Commands : CommandFrame(c) \in Sent
    /\ Heartbeat \in Replies /\ ErrorFrame \in Replies
    /\ \A c \in Commands : ResultFrame(c) \in Replies
    /\ NoFrame \in ServerFrame /\ Heartbeat \in ServerFrame
    /\ ErrorFrame \in ServerFrame
    /\ \A c \in Commands : ResultFrame(c) \in ServerFrame
    /\ \A n \in Nat, b \in [Terminals -> Batch] :
          EventsFrame(n, b) \in ServerFrame
<1>1. NoRequest \in Request
  BY DEF NoRequest, Request, Unseen, Subscription
<1>2. Nothing \in Batch
  BY DEF Nothing, NewBatch, Batch, BatchKinds
<1>3. NoBatches \in [Terminals -> Batch]
  BY <1>2 DEF NoBatches
<1>4. /\ ConnectFrame \in Sent
      /\ \A r \in Request : UpdateFrame(r) \in Sent
      /\ \A c \in Commands : CommandFrame(c) \in Sent
  BY <1>1 DEF ConnectFrame, UpdateFrame, CommandFrame, ClientFrame, Sent
<1>5. /\ NoFrame \in ServerFrame /\ Heartbeat \in ServerFrame
      /\ ErrorFrame \in ServerFrame
      /\ \A c \in Commands : ResultFrame(c) \in ServerFrame
      /\ \A n \in Nat, b \in [Terminals -> Batch] :
            EventsFrame(n, b) \in ServerFrame
  BY <1>3 DEF NoFrame, Heartbeat, ErrorFrame, ResultFrame, EventsFrame,
     NewFrame, ServerFrame
<1>6. /\ Heartbeat \in Replies /\ ErrorFrame \in Replies
      /\ \A c \in Commands : ResultFrame(c) \in Replies
  BY <1>5 DEF Heartbeat, ErrorFrame, ResultFrame, NewFrame, Replies
<1> QED
  BY <1>1, <1>3, <1>4, <1>5, <1>6

(* Frames of either direction name a command, or none.                      *)
LEMMA FramesNamed == Framed(Sent) /\ Framed(ServerFrame) /\ Framed(Replies)
BY DEF Framed, ClientFrame, ServerFrame, Sent, Replies

(* The fields of a core. *)
LEMMA CoreFields ==
    ASSUME NEW core \in Core
    PROVE  /\ core.request \in Request /\ core.awaiting \in BOOLEAN
           /\ core.closed \in BOOLEAN /\ core.phase \in Phases
           /\ core.closeAfterFlush \in BOOLEAN
           /\ core.clientClosed \in BOOLEAN
           /\ core.commands \in Seq(Commands)
           /\ core.control \in Seq(ServerFrame)
           /\ core.events \in Seq(ServerFrame)
           /\ core.nextSerial \in Nat /\ core.request.serial \in Nat
           /\ Len(core.commands) \in Nat /\ Len(core.control) \in Nat
           /\ Len(core.events) \in Nat /\ Outbound(core) \in Nat
<1>1. /\ core.commands \in Seq(Commands)
      /\ core.control \in Seq(ServerFrame)
      /\ core.events \in Seq(ServerFrame) /\ core.request \in Request
  BY DEF Core
<1>2. /\ Len(core.commands) \in Nat /\ Len(core.control) \in Nat
      /\ Len(core.events) \in Nat
  BY <1>1, LenProperties
<1>3. core.request.serial \in Nat
  BY <1>1 DEF Request
<1> QED
  BY <1>1, <1>2, <1>3 DEF Core, Outbound

(* The cores the module begins and ends with.                               *)
LEMMA FreshFacts ==
    /\ CoreOK(FreshCore)
    /\ FreshCore.phase = "none" /\ ~FreshCore.closed
    /\ FreshCore.commands = <<>> /\ FreshCore.control = <<>>
    /\ FreshCore.events = <<>> /\ ~FreshCore.awaiting
    /\ FreshCore.nextSerial = 1 /\ ~FreshCore.clientClosed
<1>1. \A S : <<>> \in Seq(S)
  BY EmptySeq
<1>2. FreshCore \in Core
  BY <1>1, FrameTypes DEF FreshCore, Core, Phases
<1>3. Len(<<>>) = 0
  BY EmptySeq
<1> QED
  BY <1>2, <1>3, StreamAssumption
  DEF CoreOK, FreshCore, Outbound, StreamAssumption

(* A closed connection is a fresh one, closed.                              *)
LEMMA CloseFacts ==
    ASSUME NEW core
    PROVE  /\ CoreOK(Close(core)) /\ Close(core) = Close(FreshCore)
           /\ Close(core).closed /\ Close(core).phase = "none"
           /\ Close(core).commands = <<>> /\ Close(core).control = <<>>
           /\ Close(core).events = <<>> /\ ~Close(core).awaiting
           /\ ~Close(core).clientClosed
<1>1. Close(core) \in Core
  BY FreshFacts DEF Close, CoreOK, Core
<1>2. /\ Close(core).closed /\ Close(core).phase = "none"
      /\ Close(core).commands = <<>> /\ Close(core).control = <<>>
      /\ Close(core).events = <<>> /\ ~Close(core).awaiting
      /\ ~Close(core).clientClosed
  BY DEF Close, FreshCore
<1>3. Close(core) = Close(FreshCore)
  BY DEF Close
<1>4. Len(<<>>) = 0
  BY EmptySeq
<1> QED
  BY <1>1, <1>2, <1>3, <1>4, StreamAssumption
  DEF CoreOK, Outbound, StreamAssumption

(* What enqueue() makes of a connection.                                    *)
Queues(core, frame, e) ==
    /\ ~core.closed /\ ~e.closed
    /\ e.phase = core.phase /\ e.request = core.request
    /\ e.awaiting = core.awaiting /\ e.commands = core.commands
    /\ e.nextSerial = core.nextSerial
    /\ e.clientClosed = core.clientClosed
    /\ IF frame.kind = "events"
       THEN e.events = Append(core.events, frame)
            /\ e.control = core.control
       ELSE e.control = Append(core.control, frame)
            /\ e.events = core.events

(* enqueue() leaves, closes, or queues the one frame.                       *)
LEMMA EnqueueFacts ==
    ASSUME NEW core, CoreOK(core), NEW frame \in ServerFrame
    PROVE  /\ CoreOK(Enqueue(core, frame))
           /\ \/ core.closed /\ Enqueue(core, frame) = core
              \/ ~core.closed /\ Enqueue(core, frame) = Close(core)
              \/ Queues(core, frame, Enqueue(core, frame))
<1> DEFINE e == Enqueue(core, frame)
           later == [core EXCEPT !.events = Append(@, frame)]
           first == [core EXCEPT !.control = Append(@, frame)]
<1>0. /\ core \in Core /\ core.closed \in BOOLEAN
      /\ core.control \in Seq(ServerFrame)
      /\ core.events \in Seq(ServerFrame)
      /\ Len(core.control) \in Nat /\ Len(core.events) \in Nat
      /\ EventRoom \in Nat /\ ControlRoom \in Nat
  BY CoreFields, StreamAssumption DEF CoreOK, StreamAssumption
<1>1. /\ Append(core.events, frame) \in Seq(ServerFrame)
      /\ Len(Append(core.events, frame)) = Len(core.events) + 1
      /\ Append(core.control, frame) \in Seq(ServerFrame)
      /\ Len(Append(core.control, frame)) = Len(core.control) + 1
  BY <1>0, AppendProperties
<1>2. later \in Core /\ first \in Core
  BY <1>0, <1>1 DEF Core
<1>3. CASE core.closed
  BY <1>3 DEF Enqueue
<1>4. CASE /\ ~core.closed
           /\ \/ Outbound(core) >= Room(frame)
              \/ frame.kind # "events" /\ Len(core.control) >= CommandRoom
  BY <1>4, CloseFacts DEF Enqueue
<1>5. CASE /\ ~core.closed /\ ~(Outbound(core) >= Room(frame))
           /\ frame.kind = "events"
  <2>1. e = later
    BY <1>5 DEF Enqueue
  <2>2. /\ later.events = Append(core.events, frame)
        /\ later.control = core.control /\ later.closed = core.closed
        /\ later.phase = core.phase /\ later.request = core.request
        /\ later.awaiting = core.awaiting
        /\ later.commands = core.commands
        /\ later.nextSerial = core.nextSerial
        /\ later.clientClosed = core.clientClosed
    BY <1>0 DEF Core
  <2> HIDE DEF later, e
  <2>3. Queues(core, frame, e)
    BY <1>5, <2>1, <2>2 DEF Queues
  <2>4. PICK m \in Nat, n \in Nat :
           Len(core.control) = m /\ Len(core.events) = n
    BY <1>0
  <2>5. /\ Outbound(later) = Outbound(core) + 1
        /\ Outbound(core) \in Nat /\ Outbound(core) < EventRoom
    <3>1. /\ Len(later.events) = Len(core.events) + 1
          /\ Len(later.control) = Len(core.control)
      BY <1>1, <2>2
    <3>2. Outbound(core) = m + n
      BY <2>4 DEF Outbound
    <3>3. Outbound(later) = m + n + 1
      BY <2>4, <3>1 DEF Outbound
    <3>4. ~(Outbound(core) >= EventRoom) /\ EventRoom \in Nat
      BY <1>0, <1>5 DEF Room
    <3> QED
      BY <3>2, <3>3, <3>4
  <2>6. CoreOK(e)
    BY <1>0, <1>2, <2>1, <2>2, <2>5 DEF CoreOK
  <2> QED
    BY <2>3, <2>6 DEF e
<1>6. CASE /\ ~core.closed /\ ~(Outbound(core) >= Room(frame))
           /\ frame.kind # "events" /\ ~(Len(core.control) >= CommandRoom)
  <2>1. e = first
    BY <1>6 DEF Enqueue
  <2>2. /\ first.control = Append(core.control, frame)
        /\ first.events = core.events /\ first.closed = core.closed
        /\ first.phase = core.phase /\ first.request = core.request
        /\ first.awaiting = core.awaiting
        /\ first.commands = core.commands
        /\ first.nextSerial = core.nextSerial
        /\ first.clientClosed = core.clientClosed
    BY <1>0 DEF Core
  <2> HIDE DEF first, e
  <2>3. Queues(core, frame, e)
    BY <1>6, <2>1, <2>2 DEF Queues
  <2>4. PICK m \in Nat, n \in Nat :
           Len(core.control) = m /\ Len(core.events) = n
    BY <1>0
  <2>5. /\ Outbound(first) = Outbound(core) + 1
        /\ Outbound(core) \in Nat /\ Outbound(core) < EventRoom + ControlRoom
    <3>1. /\ Len(first.control) = Len(core.control) + 1
          /\ Len(first.events) = Len(core.events)
      BY <1>1, <2>2
    <3>2. Outbound(core) = m + n
      BY <2>4 DEF Outbound
    <3>3. Outbound(first) = m + n + 1
      BY <2>4, <3>1 DEF Outbound
    <3>4. /\ ~(Outbound(core) >= EventRoom + ControlRoom)
          /\ EventRoom + ControlRoom \in Nat
      BY <1>0, <1>6 DEF Room
    <3> QED
      BY <3>2, <3>3, <3>4
  <2>6. CoreOK(e)
    BY <1>0, <1>2, <2>1, <2>2, <2>5 DEF CoreOK
  <2> QED
    BY <2>3, <2>6 DEF e
<1> QED
  BY <1>0, <1>3, <1>4, <1>5, <1>6

-----------------------------------------------------------------------------
(* Connections                                                              *)

(* What fits has its type and its limits.                                   *)
LEMMA FitsFacts ==
    ASSUME NEW core, Fits(core)
    PROVE  CoreOK(core) /\ core \in Core
BY DEF Fits, CoreOK

(* The cores the module begins and ends with fit.                           *)
LEMMA FreshFits == Fits(FreshCore)
<1>1. \A n \in 1..Len(<<>>) : FALSE
  BY EmptySeq
<1> QED
  BY <1>1, FreshFacts DEF Fits

(* A closed connection fits, whatever it was.                               *)
LEMMA CloseFits == \A core : Fits(Close(core))
<1>1. \A n \in 1..Len(<<>>) : FALSE
  BY EmptySeq
<1>2. ASSUME NEW core PROVE Fits(Close(core))
  BY <1>1, CloseFacts DEF Fits
<1> QED
  BY <1>2

(* A core that changes in nothing but what its queues do not show.          *)
Alike(core, e) ==
    /\ e \in Core
    /\ e.closed = core.closed /\ e.commands = core.commands
    /\ e.control = core.control /\ e.events = core.events
    /\ e.nextSerial = core.nextSerial

(* A connection that is alike fits as well.                                 *)
LEMMA AlikeFits ==
    ASSUME NEW core, Fits(core), NEW e, Alike(core, e), ~core.closed,
           e.phase # "bound" => core.phase # "bound" /\ ~e.awaiting
    PROVE  Fits(e)
<1>1. Outbound(e) = Outbound(core)
  BY DEF Alike, Outbound
<1>2. CoreOK(e)
  BY <1>1 DEF Alike, CoreOK, Fits
<1>3. /\ \A n \in 1..Len(e.control) : e.control[n].kind # "events"
                                      /\ e.control[n] \in Replies
      /\ \A n \in 1..Len(e.events) :
            e.events[n].kind = "events" /\ e.events[n].command = 0
  BY DEF Alike, Fits
<1>4. ~e.closed
  BY DEF Alike
<1>5. e.phase # "bound" =>
          /\ e.commands = <<>> /\ e.control = <<>>
          /\ e.events = <<>> /\ ~e.awaiting
  BY DEF Alike, Fits
<1> QED
  BY <1>2, <1>3, <1>4, <1>5 DEF Fits

(* Fewer or more commands, as long as they have room.                       *)
LEMMA CommandsFit ==
    ASSUME NEW core, Fits(core), ~core.closed, core.phase = "bound",
           NEW q \in Seq(Commands), Len(q) <= CommandRoom,
           NEW e, e = [core EXCEPT !.commands = q]
    PROVE  /\ Fits(e) /\ e.commands = q
           /\ e.closed = core.closed /\ e.phase = core.phase
           /\ e.request = core.request /\ e.awaiting = core.awaiting
           /\ e.control = core.control /\ e.events = core.events
           /\ e.nextSerial = core.nextSerial
           /\ e.clientClosed = core.clientClosed
<1>1. core \in Core /\ CoreOK(core)
  BY FitsFacts
<1>2. /\ e \in Core /\ e.commands = q
      /\ e.closed = core.closed /\ e.phase = core.phase
      /\ e.request = core.request /\ e.awaiting = core.awaiting
      /\ e.control = core.control /\ e.events = core.events
      /\ e.nextSerial = core.nextSerial
      /\ e.clientClosed = core.clientClosed
  BY <1>1 DEF Core
<1>3. Outbound(e) = Outbound(core)
  BY <1>2 DEF Outbound
<1>4. CoreOK(e)
  BY <1>1, <1>2, <1>3 DEF CoreOK
<1>5. Fits(e)
  BY <1>2, <1>4 DEF Fits
<1> QED
  BY <1>2, <1>5

(* What enqueue() makes of a connection fits.                               *)
LEMMA EnqueueFits ==
    ASSUME NEW core, Fits(core), core.closed \/ core.phase = "bound",
           NEW frame \in Replies,
           frame.kind = "events" => frame.command = 0
    PROVE  Fits(Enqueue(core, frame))
<1> DEFINE e == Enqueue(core, frame)
<1>1. /\ CoreOK(e)
      /\ \/ core.closed /\ e = core
         \/ ~core.closed /\ e = Close(core)
         \/ Queues(core, frame, e)
  <2>1. frame \in ServerFrame
    BY DEF Replies
  <2> QED
    BY <2>1, FitsFacts, EnqueueFacts
<1> HIDE DEF e
<1>2. CASE Queues(core, frame, e)
  <2>0. frame \in ServerFrame
    BY DEF Replies
  <2>1. /\ core.control \in Seq(ServerFrame)
        /\ core.events \in Seq(ServerFrame)
    BY FitsFacts, CoreFields
  <2>2. ~e.closed /\ ~core.closed /\ e.phase = "bound"
    BY <1>2 DEF Queues
  <2>3. CASE frame.kind = "events"
    <3>1. e.events = Append(core.events, frame) /\ e.control = core.control
      BY <1>2, <2>3 DEF Queues
    <3>2. /\ Len(e.events) = Len(core.events) + 1
          /\ \A n \in 1..Len(core.events) : e.events[n] = core.events[n]
          /\ e.events[Len(core.events) + 1] = frame
          /\ Len(core.events) \in Nat
      BY <2>0, <2>1, <3>1, AppendProperties, LenProperties
    <3>3. \A n \in 1..Len(e.events) :
             n \in 1..Len(core.events) \/ n = Len(core.events) + 1
      BY <3>2
    <3>4. \A n \in 1..Len(e.events) :
             e.events[n].kind = "events" /\ e.events[n].command = 0
      BY <2>3, <3>2, <3>3 DEF Fits
    <3> QED
      BY <1>1, <2>2, <3>1, <3>4 DEF Fits, e
  <2>4. CASE frame.kind # "events"
    <3>1. e.control = Append(core.control, frame) /\ e.events = core.events
      BY <1>2, <2>4 DEF Queues
    <3>2. /\ Len(e.control) = Len(core.control) + 1
          /\ \A n \in 1..Len(core.control) : e.control[n] = core.control[n]
          /\ e.control[Len(core.control) + 1] = frame
          /\ Len(core.control) \in Nat
      BY <2>0, <2>1, <3>1, AppendProperties, LenProperties
    <3>3. \A n \in 1..Len(e.control) :
             n \in 1..Len(core.control) \/ n = Len(core.control) + 1
      BY <3>2
    <3>4. \A n \in 1..Len(e.control) : e.control[n].kind # "events"
                                   /\ e.control[n] \in Replies
      BY <2>4, <3>2, <3>3 DEF Fits
    <3> QED
      BY <1>1, <2>2, <3>1, <3>4 DEF Fits, e
  <2> QED
    BY <2>3, <2>4
<1>3. CASE e = core \/ e = Close(core)
  BY <1>3, CloseFits DEF e
<1> QED
  BY <1>1, <1>2, <1>3 DEF e

(* One connection changes, the others stay.                                 *)
LEMMA CoreChanges ==
    ASSUME ConnsOK, NEW i \in Connections, NEW e, Fits(e),
           conn' = [conn EXCEPT ![i] = e]
    PROVE  /\ ConnsOK' /\ conn'[i] = e
           /\ \A j \in Connections : j # i => conn'[j] = conn[j]
<1>1. e \in Core
  BY FitsFacts
<1>2. /\ conn' \in [Connections -> Core] /\ conn'[i] = e
      /\ \A j \in Connections : j # i => conn'[j] = conn[j]
  BY <1>1 DEF ConnsOK
<1>3. \A j \in Connections : Fits(conn'[j])
  BY <1>2 DEF ConnsOK
<1> QED
  BY <1>2, <1>3 DEF ConnsOK

(* A connection where nothing moves stays placed, one that is in use and    *)
(* closed or bound is.                                                      *)
LEMMA PlacedKept ==
    ASSUME NEW j \in Connections, Placed(j), current' = current,
           conn'[j] = conn[j], toServer'[j] = toServer[j],
           toClient'[j] = toClient[j]
    PROVE  Placed(j)'
BY DEF Placed

(* A connection that was opened is placed when it is closed or bound.       *)
LEMMA PlacedOpened ==
    ASSUME NEW j \in Connections, ~(j > current'),
           \/ conn'[j].closed
           \/ conn'[j].phase = "bound"
           \/ toClient'[j] = <<>>
    PROVE  Placed(j)'
BY DEF Placed

(* Sequences over a subset are sequences over the set.                      *)
LEMMA SeqWider ==
    ASSUME NEW S, NEW T, S \subseteq T
    PROVE  Seq(S) \subseteq Seq(T)
<1>1. ASSUME NEW q \in Seq(S) PROVE q \in Seq(T)
  <2>1. /\ Len(q) \in Nat /\ q = [n \in 1..Len(q) |-> q[n]]
        /\ \A n \in 1..Len(q) : q[n] \in T
    BY LenProperties, ElementOfSeq
  <2>2. q \in [1..Len(q) -> T]
    BY <2>1
  <2> QED
    BY <2>1, <2>2, SeqDef
<1> QED
  BY <1>1

(* What the state thread and the client rely on.                            *)
LEMMA ShapeFacts ==
    ASSUME Shape
    PROVE  /\ SessionOK /\ PumpOK /\ ConnsOK /\ WiresOK /\ ClientOK
           /\ StreamTypeOK
           /\ \A i \in Connections :
                 /\ conn[i] \in Core /\ Fits(conn[i]) /\ Placed(i)
                 /\ toServer[i] \in Seq(Sent)
                 /\ toClient[i] \in Seq(Replies)
           /\ mode # "closed" => current \in Connections
<1>1. SessionOK /\ PumpOK /\ ConnsOK /\ WiresOK /\ ClientOK
  BY DEF Shape
<1>2. \A i \in Connections :
         /\ conn[i] \in Core /\ Fits(conn[i]) /\ Placed(i)
         /\ toServer[i] \in Seq(Sent)
         /\ toClient[i] \in Seq(Replies)
  BY <1>1 DEF ConnsOK, WiresOK
<1>3. mode # "closed" => current \in Connections
  BY <1>1 DEF ClientOK, Opening
<1>4. \A i \in Connections : /\ Len(conn[i].commands) <= CommandRoom
                             /\ Outbound(conn[i]) <= EventRoom + ControlRoom
  BY <1>2 DEF Fits, CoreOK
<1>5. /\ toServer \in [Connections -> Seq(ClientFrame)]
      /\ toClient \in [Connections -> Seq(ServerFrame)]
  <2>1. Sent \subseteq ClientFrame /\ Replies \subseteq ServerFrame
    BY DEF Sent, Replies
  <2>2. /\ Seq(Sent) \subseteq Seq(ClientFrame)
        /\ Seq(Replies) \subseteq Seq(ServerFrame)
    BY <2>1, SeqWider
  <2> QED
    BY <1>1, <2>2 DEF WiresOK
<1>6. StreamTypeOK
  BY <1>1, <1>4, <1>5
  DEF SessionOK, PumpOK, ConnsOK, WiresOK, ClientOK, StreamTypeOK
<1> QED
  BY <1>1, <1>2, <1>3, <1>6

-----------------------------------------------------------------------------
(* What keeps the parts of the invariant                                    *)

(* Nothing is numbered, and nothing read by the client.                     *)
LEMMA NumberedKept ==
    ASSUME Numbered, current' = current,
           mode' # "closed" => mode # "closed",
           policy'.lastFrame = policy.lastFrame,
           toClient'[current] = toClient[current],
           \/ conn'[current].closed
           \/ /\ ~conn[current].closed
              /\ conn'[current].nextSerial = conn[current].nextSerial
    PROVE  Numbered'
<1>1. NumberedFrom(toClient[current], policy.lastFrame)' <=>
         NumberedFrom(toClient[current], policy.lastFrame)
  BY DEF NumberedFrom
<1> QED
  BY <1>1 DEF Numbered

(* No command is in more places.                                            *)
LEMMA OnceKept ==
    ASSUME Once, mode' # "closed" => mode # "closed",
           policy'.pending = policy.pending, unsent' = unsent,
           \A c \in Commands : /\ Total(c) \in Nat /\ Total(c)' \in Nat
                               /\ Total(c)' <= Total(c)
    PROVE  Once'
<1>1. policy'.pending \cap unsent' = {}
  BY DEF Once
<1>2. ASSUME mode' # "closed", NEW c \in Commands
      PROVE  Total(c)' <= 1 /\ (Total(c)' # 0 => c \in policy'.pending)
  <2>1. Total(c) <= 1 /\ (Total(c) # 0 => c \in policy.pending)
    BY <1>2 DEF Once
  <2>2. Total(c)' <= 1 /\ (Total(c)' # 0 => Total(c) # 0)
    BY <2>1
  <2> QED
    BY <2>1, <2>2
<1> QED
  BY <1>1, <1>2 DEF Once

(* The Events frames and requests of the connection in use stay.            *)
LEMMA AnswersKept ==
    ASSUME Answers, current' = current,
           mode' # "closed" => mode # "closed",
           policy'.lastEvent = policy.lastEvent,
           policy'.lastPoll.serial = policy.lastPoll.serial,
           toClient'[current] = toClient[current],
           \/ pump'.stage \notin {"commands", "events"}
           \/ pump'.conn # current
           \/ pump'.stage # "events" /\ Asking'
           \/ /\ pump'.stage = pump.stage /\ pump'.conn = pump.conn
              /\ pump'.request = pump.request
              /\ pump'.awaiting = pump.awaiting
              /\ pump'.frame = pump.frame,
           \/ conn'[current].closed /\ conn'[current].events = <<>>
           \/ /\ ~conn[current].closed /\ ~conn'[current].closed
              /\ conn'[current].events = conn[current].events
              /\ conn'[current].request = conn[current].request
              /\ conn'[current].awaiting = conn[current].awaiting,
           mode' # "closed" => \A n \in 1..Len(toServer'[current]) :
              toServer'[current][n].request.serial
                 <= policy'.lastPoll.serial
    PROVE  Answers'
<1> SUFFICES ASSUME mode' # "closed" PROVE (Ordered /\ Timely /\ Asking)'
  BY DEF Answers
<1>1. Ordered /\ Timely /\ Asking
  BY DEF Answers
<1> DEFINE wire == toClient[current]
           queue == conn[current].events
           queued == conn'[current].events
<1>2. ASSUME NEW r PROVE ~Asks(<<>>, r)
  BY AsksEmpty
<1>3. Rising(<<>>)
  BY AsksEmpty
<1>4. \A r : Asks(queued, r) => Asks(queue, r)
  BY <1>2
<1>5. Rising(queued)
  BY <1>1, <1>3 DEF Ordered
<1>6. \A r : Told(r)' => Told(r)
  <2>1. \A r : Told(r)' <=> \/ r = policy'.lastEvent
                            \/ Asks(toClient'[current'], r)
                            \/ Asks(conn'[current'].events, r)
    BY DEF Told, Asks
  <2> QED
    BY <1>4, <2>1 DEF Told
<1>7. \A r : Staged(r)' => Staged(r)
  BY DEF Staged
<1>8. Ordered'
  <2>1. /\ Rising(toClient[current])' /\ Rising(conn[current].events)'
        /\ \A r : Asks(toClient[current], r)' <=> Asks(wire, r)
        /\ \A r : Asks(conn[current].events, r)' <=> Asks(queued, r)
    BY <1>1, <1>5 DEF Ordered, Rising, Asks
  <2>2. \A r, s \in Nat : Told(r)' /\ Staged(s)' => r < s
    BY <1>1, <1>6, <1>7 DEF Ordered
  <2>3. \A r, s \in Nat : Asks(wire, r) /\ Asks(queued, s) => r < s
    BY <1>1, <1>4 DEF Ordered
  <2>4. \A r \in Nat : Asks(wire, r) \/ Asks(queued, r)
                          => policy.lastEvent < r
    BY <1>1, <1>4 DEF Ordered
  <2> HIDE DEF wire, queued
  <2> QED
    BY <2>1, <2>2, <2>3, <2>4 DEF Ordered
<1>9. Timely'
  <2>1. \A r \in Nat : Told(r)' \/ Staged(r)'
                          => r <= policy'.lastPoll.serial
    BY <1>1, <1>6, <1>7 DEF Timely
  <2>2. ~conn'[current].closed =>
          /\ conn'[current].request.serial <= policy'.lastPoll.serial
          /\ \A r \in Nat : Told(r)' \/ Staged(r)' =>
                /\ r <= conn'[current].request.serial
                /\ ~conn'[current].awaiting
                      => r < conn'[current].request.serial
    BY <1>1, <1>6, <1>7 DEF Timely
  <2> QED
    BY <2>1, <2>2 DEF Timely
<1>10. Asking'
  <2>1. CASE pump'.stage # "commands" \/ pump'.conn # current \/ Asking'
    BY <2>1 DEF Asking
  <2>2. CASE /\ pump'.stage = "commands" /\ pump.stage = "commands"
             /\ pump'.conn = pump.conn
             /\ pump'.request = pump.request
             /\ pump'.awaiting = pump.awaiting
    <3>1. ~conn'[current].closed => ~conn[current].closed
             /\ conn'[current].request = conn[current].request
      OBVIOUS
    <3> QED
      BY <1>1, <1>6, <2>2, <3>1 DEF Asking
  <2> QED
    BY <2>1, <2>2
<1> QED
  BY <1>8, <1>9, <1>10

(* Who waits has waited, and what is under way for it stays.                *)
Waits(core) == Live(core) /\ ~core.clientClosed /\ core.awaiting

(* Who waits has waited, and what is under way for it stays.                *)
LEMMA WaitKept ==
    ASSUME NoLostWait,
           \A i \in Connections : Waits(conn'[i]) =>
              \/ Answering(i)'
              \/ Waits(conn[i]) /\ (Answering(i) => Answering(i)')
    PROVE  NoLostWait'
BY DEF NoLostWait, Waits, Live

-----------------------------------------------------------------------------
(* Types of what the state thread polls                                     *)

(* A change counts up, and its queue is an offer to the subscriber.         *)
LEMMA ChangeOK ==
    ASSUME SessionOK, NEW t \in Terminals, Change(t)
    PROVE  SessionOK'
<1>1. head[t] \in Nat /\ subscriber[t] \in Subscriber
  BY DEF SessionOK
<1>2. Offered(t) \in Subscriber
  BY <1>1 DEF Offered, NewSubscriber, Subscriber
<1>3. head[t] + 1 \in Nat
  BY <1>1
<1>4. head' \in [Terminals -> Nat]
  BY <1>3 DEF Change, SessionOK
<1>5. subscriber' \in [Terminals -> Subscriber]
  BY <1>2 DEF Change, SessionOK
<1> QED
  BY <1>4, <1>5 DEF SessionOK

(* A poll of a terminal makes a subscriber, and answers with a batch.       *)
LEMMA PolledTypes ==
    ASSUME SessionOK, NEW t \in Terminals, NEW s \in Subscription
    PROVE  PolledSubscriber(t, s) \in Subscriber
           /\ PolledBatch(t, s) \in Batch
<1>1. head[t] \in Nat /\ subscriber[t] \in Subscriber
  BY DEF SessionOK
<1>2. /\ subscriber[t].acked \in Nat /\ s.visGeneration \in Nat
      /\ s.cursor \in Nat \cup {NoCursor}
  BY <1>1 DEF Subscriber, Subscription
<1>3. \A n \in Nat : /\ NewSubscriber(TRUE, TRUE, n) \in Subscriber
                     /\ NewSubscriber(FALSE, FALSE, n) \in Subscriber
  BY DEF NewSubscriber, Subscriber
<1>4. \A kind \in BatchKinds : \A g, m, n \in Nat :
         NewBatch(kind, g, m, n) \in Batch
  BY DEF NewBatch, Batch
<1>5. s.cursor # NoCursor =>
         /\ MaxOf(subscriber[t].acked, s.cursor) \in Nat
         /\ MaxOf(subscriber[t].acked, s.cursor) + 1 \in Nat
  BY <1>2 DEF MaxOf
<1>6. PolledSubscriber(t, s) \in Subscriber
  <2>1. CASE ~s.visible
    BY <1>2, <1>3, <2>1 DEF PolledSubscriber
  <2>2. CASE /\ s.visible
             /\ \/ ~subscriber[t].present \/ subscriber[t].suspended
                \/ subscriber[t].needsResync
                \/ s.cursor = NoCursor \/ s.cursor > head[t]
    BY <1>1, <1>3, <2>2 DEF PolledSubscriber
  <2>3. CASE /\ s.visible
             /\ ~(\/ ~subscriber[t].present \/ subscriber[t].suspended
                  \/ subscriber[t].needsResync
                  \/ s.cursor = NoCursor \/ s.cursor > head[t])
    <3>1. PolledSubscriber(t, s) =
             NewSubscriber(FALSE, FALSE,
                           MaxOf(subscriber[t].acked, s.cursor))
      BY <2>3 DEF PolledSubscriber
    <3> QED
      BY <1>3, <1>5, <2>3, <3>1
  <2> QED
    BY <2>1, <2>2, <2>3
<1>7. PolledBatch(t, s) \in Batch
  <2>1. {"none", "attach", "resync", "events", "suspended"} = BatchKinds
    BY DEF BatchKinds
  <2>2. Nothing \in Batch
    BY <1>4, <2>1 DEF Nothing
  <2>3. CASE ~s.visible
    BY <1>2, <1>4, <2>1, <2>3 DEF PolledBatch
  <2>4. CASE /\ s.visible
             /\ \/ ~subscriber[t].present \/ subscriber[t].suspended
                \/ s.cursor = NoCursor
    BY <1>1, <1>2, <1>4, <2>1, <2>4 DEF PolledBatch
  <2>5. CASE /\ s.visible
             /\ ~(\/ ~subscriber[t].present \/ subscriber[t].suspended
                  \/ s.cursor = NoCursor)
             /\ subscriber[t].needsResync \/ s.cursor > head[t]
    BY <1>1, <1>2, <1>4, <2>1, <2>5 DEF PolledBatch
  <2>6. CASE /\ s.visible
             /\ ~(\/ ~subscriber[t].present \/ subscriber[t].suspended
                  \/ s.cursor = NoCursor)
             /\ ~(subscriber[t].needsResync \/ s.cursor > head[t])
    <3> DEFINE from == MaxOf(subscriber[t].acked, s.cursor)
    <3>1. PolledBatch(t, s) =
             IF from < head[t]
             THEN NewBatch("events", s.visGeneration, from + 1, head[t])
             ELSE Nothing
      BY <2>6 DEF PolledBatch
    <3>2. from + 1 \in Nat
      BY <1>5, <2>6
    <3> HIDE DEF from
    <3>3. NewBatch("events", s.visGeneration, from + 1, head[t]) \in Batch
      BY <1>1, <1>2, <1>4, <2>1, <3>2
    <3> QED
      BY <2>2, <3>1, <3>3
  <2> QED
    BY <2>3, <2>4, <2>5, <2>6
<1> QED
  BY <1>6, <1>7

(* The poll of a session answers with batches, and remembers subscribers.   *)
LEMMA PollTypes ==
    ASSUME SessionOK, PumpOK, NEW polled \in SUBSET Terminals
    PROVE  /\ EventsFrame(pump.request.serial, PollAnswer(polled))
                 \in ServerFrame
           /\ PollSubscribers(polled) /\ head' = head => SessionOK'
<1>1. pump.request \in Request
  BY DEF PumpOK, PumpState
<1>2. /\ pump.request.serial \in Nat
      /\ \A t \in Terminals : pump.request.terminals[t] \in Subscription
  BY <1>1 DEF Request
<1>3. Nothing \in Batch
  BY DEF Nothing, NewBatch, Batch, BatchKinds
<1>4. PollAnswer(polled) \in [Terminals -> Batch]
  BY <1>2, <1>3, PolledTypes DEF PollAnswer
<1>5. ASSUME PollSubscribers(polled), head' = head PROVE SessionOK'
  <2>1. \A t \in Terminals : subscriber[t] \in Subscriber
    BY DEF SessionOK
  <2>2. subscriber' \in [Terminals -> Subscriber]
    BY <1>2, <1>5, <2>1, PolledTypes DEF PollSubscribers
  <2> QED
    BY <1>5, <2>2 DEF SessionOK
<1> QED
  BY <1>2, <1>4, <1>5, FrameTypes

(* The places of a command can be counted.                                  *)
LEMMA TotalParts ==
    ASSUME Shape, current \in Connections, NEW c
    PROVE  /\ Named(toServer[current], c) \in Nat
           /\ Number(conn[current].commands, c) \in Nat
           /\ Number(pump.commands, c) \in Nat /\ Held(c) \in Nat
           /\ Named(conn[current].control, c) \in Nat
           /\ Named(toClient[current], c) \in Nat
           /\ Total(c) \in Nat
<1>1. /\ toServer[current] \in Seq(Sent)
      /\ toClient[current] \in Seq(Replies)
      /\ conn[current] \in Core
  BY ShapeFacts
<1>2. /\ conn[current].commands \in Seq(Commands)
      /\ conn[current].control \in Seq(ServerFrame)
  BY <1>1, CoreFields
<1>3. pump.commands \in Seq(Commands)
  BY ShapeFacts DEF PumpOK, PumpState
<1>4. /\ Named(toServer[current], c) \in Nat
      /\ Named(toClient[current], c) \in Nat
      /\ Named(conn[current].control, c) \in Nat
  BY <1>1, <1>2, FramesNamed, CommandedFacts
<1>5. /\ Number(conn[current].commands, c) \in Nat
      /\ Number(pump.commands, c) \in Nat
  BY <1>2, <1>3, NumberType
<1>6. Held(c) \in Nat
  BY <1>5 DEF Held
<1> QED
  BY <1>4, <1>5, <1>6 DEF Total

-----------------------------------------------------------------------------
(* Steps that move no command, no Events frame and no Update                *)

(* What is on the wire stays, but for an Update when its reader is gone.    *)
Calm(q, r, core) ==
    \/ r = q
    \/ q # <<>> /\ r = Tail(q) /\ (core.closed \/ Head(q).kind # "update")
    \/ r = Append(q, ConnectFrame)

(* A calm wire names no command anew, and loses no Update.                  *)
LEMMA CalmFacts ==
    ASSUME NEW q \in Seq(Sent), NEW r, NEW core, Calm(q, r, core)
    PROVE  /\ \A c \in Commands : /\ Named(r, c) \in Nat
                                  /\ Named(q, c) \in Nat
                                  /\ Named(r, c) <= Named(q, c)
           /\ \A m \in Nat : (\A n \in 1..Len(q) : q[n].request.serial <= m)
                 => \A n \in 1..Len(r) : r[n].request.serial <= m
           /\ ~core.closed /\ (\E n \in DOMAIN q : q[n].kind = "update")
                 => \E n \in DOMAIN r : r[n].kind = "update"
<1>1. ASSUME NEW s \in Seq(Sent), NEW c \in Commands
      PROVE  Named(s, c) \in Nat
  BY FramesNamed, CommandedFacts
<1>2. Len(q) \in Nat /\ DOMAIN q = 1..Len(q)
  BY LenProperties
<1>3. CASE r = q
  <2>1. \A c \in Commands : Named(q, c) \in Nat
    BY <1>1
  <2> QED
    BY <1>3, <2>1
<1>4. CASE q # <<>> /\ r = Tail(q) /\ (core.closed \/ Head(q).kind # "update")
  <2>1. /\ r \in Seq(Sent) /\ Len(r) = Len(q) - 1
        /\ Head(q) = q[1] /\ Len(q) \in Nat \ {0}
        /\ \A n \in 1..(Len(q) - 1) : r[n] = q[n + 1]
        /\ DOMAIN r = 1..Len(r)
    BY <1>4, HeadAndTail, LenProperties
  <2>2. ASSUME NEW c \in Commands
        PROVE  /\ Named(r, c) \in Nat /\ Named(q, c) \in Nat
               /\ Named(r, c) <= Named(q, c)
    <3>1. Named(r, c) \in Nat /\ Named(q, c) \in Nat
      BY <1>1, <2>1
    <3>2. Named(q, c) = Named(r, c)
                           + (IF Head(q).command = c THEN 1 ELSE 0)
      BY <1>4, FramesNamed, NamedTail
    <3> QED
      BY <3>1, <3>2
  <2>3. \A n \in 1..Len(r) : n + 1 \in 1..Len(q) /\ r[n] = q[n + 1]
    BY <2>1
  <2>4. \A n \in 1..Len(q) : n = 1 \/ (n - 1 \in 1..Len(r)
                                         /\ r[n - 1] = q[n])
    <3>1. ASSUME NEW n \in 1..Len(q), n # 1
          PROVE  n - 1 \in 1..Len(r) /\ (n - 1) + 1 = n
      BY <2>1, <3>1
    <3> QED
      BY <2>3, <3>1
  <2>5. \A m \in Nat : (\A n \in 1..Len(q) : q[n].request.serial <= m)
                 => \A n \in 1..Len(r) : r[n].request.serial <= m
    BY <2>3
  <2>6. ASSUME NEW n \in DOMAIN q, q[n].kind = "update", ~core.closed
        PROVE  \E k \in DOMAIN r : r[k].kind = "update"
    <3>1. n # 1
      BY <1>4, <2>1, <2>6
    <3>2. n - 1 \in DOMAIN r /\ r[n - 1] = q[n]
      BY <1>2, <2>1, <2>4, <3>1
    <3> QED
      BY <2>6, <3>2
  <2> QED
    BY <2>2, <2>5, <2>6
<1>5. CASE r = Append(q, ConnectFrame)
  <2>0. ConnectFrame \in Sent
    BY FrameTypes
  <2>1. /\ r \in Seq(Sent) /\ Len(r) = Len(q) + 1
        /\ \A n \in 1..Len(q) : r[n] = q[n]
        /\ r[Len(q) + 1] = ConnectFrame
        /\ DOMAIN r = 1..Len(r)
    BY <1>5, <2>0, AppendProperties, LenProperties
  <2>2. ConnectFrame.command = 0 /\ ConnectFrame.request.serial = 0
    BY DEF ConnectFrame, NoRequest
  <2>3. ASSUME NEW c \in Commands
        PROVE  /\ Named(r, c) \in Nat /\ Named(q, c) \in Nat
               /\ Named(r, c) <= Named(q, c)
    <3>1. Named(r, c) \in Nat /\ Named(q, c) \in Nat
      BY <1>1, <2>1
    <3>2. Named(r, c) = Named(q, c)
             + (IF ConnectFrame.command = c THEN 1 ELSE 0)
      BY <1>5, <2>0, FramesNamed, NamedAppend
    <3>3. c # 0
      BY StreamAssumption DEF StreamAssumption
    <3> QED
      BY <2>2, <3>1, <3>2, <3>3
  <2>4. \A n \in 1..Len(r) : n \in 1..Len(q) \/ n = Len(q) + 1
    BY <1>2, <2>1
  <2>5. ASSUME NEW m \in Nat, \A n \in 1..Len(q) : q[n].request.serial <= m,
               NEW n \in 1..Len(r)
        PROVE  r[n].request.serial <= m
    <3>1. CASE n \in 1..Len(q)
      BY <2>1, <2>5, <3>1
    <3>2. CASE n = Len(q) + 1
      BY <2>1, <2>2, <3>2
    <3> QED
      BY <2>4, <3>1, <3>2
  <2>6. ASSUME NEW n \in DOMAIN q, q[n].kind = "update"
        PROVE  \E k \in DOMAIN r : r[k].kind = "update"
    <3>1. n \in DOMAIN r /\ r[n] = q[n]
      BY <1>2, <2>1
    <3> QED
      BY <2>6, <3>1
  <2> QED
    BY <2>3, <2>5, <2>6
<1> QED
  BY <1>3, <1>4, <1>5 DEF Calm

(* Sums of the places of a command are compared part by part.               *)
LEMMA SumOrder ==
    ASSUME NEW a \in Nat, NEW b \in Nat, NEW c \in Nat, NEW d \in Nat,
           NEW e \in Nat, NEW f \in Nat, NEW g \in Nat, NEW h \in Nat,
           NEW k \in Nat, a <= e, b <= f, c <= g, d <= h
    PROVE  /\ a + b + c + d + k \in Nat
           /\ a + b + c + d + k <= e + f + g + h + k
OBVIOUS

Quiet(core, e) ==
    \/ /\ e.closed /\ e.commands = <<>> /\ e.control = <<>>
       /\ e.events = <<>>
    \/ /\ ~core.closed /\ ~e.closed
       /\ e.commands = core.commands /\ e.events = core.events
       /\ e.nextSerial = core.nextSerial
       /\ e.request = core.request /\ e.awaiting = core.awaiting
       /\ \A c \in Commands : Named(e.control, c) = Named(core.control, c)
       /\ Waits(e) => Waits(core)

(* Steps that leave the queues quiet and the wires calm keep it all.        *)
LEMMA QuietOK ==
    ASSUME Inv, Shape',
           current' = current, policy' = policy, unsent' = unsent,
           toClient' = toClient,
           mode' # "closed" => mode # "closed",
           mode = "active" => mode' = "active",
           \A i \in Connections : Quiet(conn[i], conn'[i]),
           \A i \in Connections : Calm(toServer[i], toServer'[i], conn'[i]),
           \/ pump' = pump
           \/ /\ pump'.stage \notin {"commands", "events"}
              /\ pump'.commands = <<>>
              /\ pump.stage = "events" => conn'[pump.conn].closed
    PROVE  Inv'
<1>1. /\ Shape /\ Numbered /\ Once /\ Answers /\ NoLostWait
      /\ StreamTypeOK
      /\ mode # "closed" => current \in Connections
      /\ policy.lastPoll.serial \in Nat
  <2>1. Shape /\ Numbered /\ Once /\ Answers /\ NoLostWait
    BY DEF Inv
  <2>2. policy.lastPoll \in Request
    BY <2>1, ShapeFacts DEF StreamTypeOK, Policy
  <2> QED
    BY <2>1, <2>2, ShapeFacts DEF Request
<1>2. ASSUME mode # "closed" PROVE Quiet(conn[current], conn'[current])
  BY <1>1, <1>2
<1>3. Numbered'
  <2>1. CASE mode' = "closed"
    BY <2>1 DEF Numbered
  <2>2. CASE mode' # "closed"
    BY <1>1, <1>2, <2>2, NumberedKept DEF Quiet
  <2> QED
    BY <2>1, <2>2
<1>4. Once'
  <2>1. CASE mode' = "closed"
    BY <1>1, <2>1 DEF Once
  <2>2. CASE mode' # "closed"
    <3>1. ASSUME NEW c \in Commands
          PROVE  /\ Total(c) \in Nat /\ Total(c)' \in Nat
                 /\ Total(c)' <= Total(c)
      <4>1. current \in Connections
        BY <1>1, <2>2
      <4>2. /\ Named(toServer[current], c) \in Nat
            /\ Number(conn[current].commands, c) \in Nat
            /\ Number(pump.commands, c) \in Nat /\ Held(c) \in Nat
            /\ Named(conn[current].control, c) \in Nat
            /\ Named(toClient[current], c) \in Nat
            /\ Total(c) \in Nat
        BY <1>1, <4>1, TotalParts
      <4>3. /\ Named(toServer'[current], c) \in Nat
            /\ Named(toServer'[current], c) <= Named(toServer[current], c)
        BY <1>1, <4>1, ShapeFacts, CalmFacts
      <4>4. /\ Number(conn'[current].commands, c) \in Nat
            /\ Number(conn'[current].commands, c)
                  <= Number(conn[current].commands, c)
            /\ Named(conn'[current].control, c) \in Nat
            /\ Named(conn'[current].control, c)
                  <= Named(conn[current].control, c)
        <5>1. CASE /\ conn'[current].commands = <<>>
                   /\ conn'[current].control = <<>>
          BY <4>2, <5>1, NumberEmpty, NamedEmpty
        <5>2. CASE /\ conn'[current].commands = conn[current].commands
                   /\ \A x \in Commands : Named(conn'[current].control, x)
                         = Named(conn[current].control, x)
          BY <4>2, <5>2
        <5> QED
          BY <4>1, <5>1, <5>2 DEF Quiet
      <4>5. Held(c)' \in Nat /\ Held(c)' <= Held(c)
        <5>1. CASE pump' = pump
          <6>1. Held(c)' = Held(c)
            BY <5>1 DEF Held
          <6> QED
            BY <4>2, <6>1
        <5>2. CASE pump'.commands = <<>>
          <6>1. Held(c)' = 0
            BY <5>2, NumberEmpty DEF Held
          <6> QED
            BY <4>2, <6>1
        <5> QED
          BY <5>1, <5>2
      <4>6. Total(c)' = Named(toServer'[current], c)
                           + Number(conn'[current].commands, c)
                           + Held(c)' + Named(conn'[current].control, c)
                           + Named(toClient[current], c)
        BY DEF Total, Named, Number, Where
      <4>7. Total(c) = Named(toServer[current], c)
                          + Number(conn[current].commands, c)
                          + Held(c) + Named(conn[current].control, c)
                          + Named(toClient[current], c)
        BY DEF Total
      <4> QED
        BY <4>2, <4>3, <4>4, <4>5, <4>6, <4>7, SumOrder, SMTT(30)
    <3> QED
      BY <1>1, <3>1, OnceKept
  <2> QED
    BY <2>1, <2>2
<1>5. Answers'
  <2>1. CASE mode' = "closed"
    BY <2>1 DEF Answers
  <2>2. CASE mode' # "closed"
    <3>1. \A n \in 1..Len(toServer'[current]) :
             toServer'[current][n].request.serial <= policy.lastPoll.serial
      <4>1. Timely
        BY <1>1, <2>2 DEF Answers
      <4>2. /\ toServer[current] \in Seq(Sent)
            /\ Calm(toServer[current], toServer'[current], conn'[current])
        BY <1>1, <2>2, ShapeFacts
      <4> QED
        <5>1. \A m \in Nat :
                 (\A n \in 1..Len(toServer[current]) :
                     toServer[current][n].request.serial <= m)
                    => \A n \in 1..Len(toServer'[current]) :
                          toServer'[current][n].request.serial <= m
          BY <4>2, CalmFacts
        <5> QED
          BY <1>1, <4>1, <5>1 DEF Timely
    <3>2. \/ conn'[current].closed /\ conn'[current].events = <<>>
          \/ /\ ~conn[current].closed /\ ~conn'[current].closed
             /\ conn'[current].events = conn[current].events
             /\ conn'[current].request = conn[current].request
             /\ conn'[current].awaiting = conn[current].awaiting
      BY <1>2, <2>2 DEF Quiet
    <3>3. \/ pump'.stage \notin {"commands", "events"}
          \/ /\ pump'.stage = pump.stage /\ pump'.conn = pump.conn
             /\ pump'.request = pump.request
             /\ pump'.awaiting = pump.awaiting
             /\ pump'.frame = pump.frame
      OBVIOUS
    <3> QED
      BY <1>1, <3>1, <3>2, <3>3, AnswersKept
  <2> QED
    BY <2>1, <2>2
<1>6. NoLostWait'
  <2>1. ASSUME NEW i \in Connections, Waits(conn'[i])
        PROVE  Waits(conn[i]) /\ (Answering(i) => Answering(i)')
    <3>1. /\ ~conn'[i].closed /\ conn'[i].events = conn[i].events
          /\ Waits(conn[i])
      BY <2>1 DEF Quiet, Waits, Live
    <3>2. (\E n \in DOMAIN toServer[i] : toServer[i][n].kind = "update") =>
             \E n \in DOMAIN toServer'[i] : toServer'[i][n].kind = "update"
      <4>1. /\ toServer[i] \in Seq(Sent)
            /\ Calm(toServer[i], toServer'[i], conn'[i])
        BY <1>1, ShapeFacts
      <4> QED
        BY <3>1, <4>1, CalmFacts
    <3>3. pump.stage = "events" /\ pump.conn = i =>
             pump'.stage = "events" /\ pump'.conn = i
      BY <3>1
    <3>4. Answering(i) => Answering(i)'
      BY <3>1, <3>2, <3>3 DEF Answering
    <3> QED
      BY <3>1, <3>4
  <2> QED
    BY <1>1, <2>1, WaitKept
<1> QED
  BY <1>3, <1>4, <1>5, <1>6 DEF Inv

-----------------------------------------------------------------------------
(* Shapes                                                                   *)

(* The state thread rests while connections stay closed or bound.           *)
LEMMA PumpKept ==
    ASSUME PumpOK, pump' = pump, current' = current,
           refusals' \in Nat,
           \A j \in Connections :
              conn[j].closed \/ conn[j].phase = "bound" =>
                 conn'[j].closed \/ conn'[j].phase = "bound"
    PROVE  PumpOK'
<1>1. Pumping'
  BY DEF PumpOK, Pumping
<1> QED
  BY <1>1 DEF PumpOK

(* The state thread may always be done.                                     *)
LEMMA IdleOK ==
    ASSUME PumpOK, ClientOK, pump' = Idle, current' = current,
           refusals' \in Nat
    PROVE  PumpOK'
<1>1. pump' \in PumpState
  BY EmptySeq, FrameTypes DEF Idle, PumpState, Stages
<1>2. 0 <= current
  BY StreamAssumption DEF ClientOK, StreamAssumption
<1>3. Pumping'
  BY <1>2 DEF Pumping, Idle, NoFrame, NewFrame
<1> QED
  BY <1>1, <1>3 DEF PumpOK

(* One connection changes, and perhaps what is on its wires.                *)
LEMMA ShapeKept ==
    ASSUME Shape, SessionOK', PumpOK', UNCHANGED clientVars,
           NEW i \in Connections, ~(i > current),
           NEW e, Fits(e), conn' = [conn EXCEPT ![i] = e],
           toServer' \in [Connections -> Seq(Sent)],
           toClient' \in [Connections -> Seq(Replies)],
           \A j \in Connections : j # i =>
              toServer'[j] = toServer[j] /\ toClient'[j] = toClient[j],
           e.closed \/ e.phase = "bound" \/ toClient'[i] = <<>>,
           mode = "opening" /\ i = current =>
              e.phase \in {"none", "ticket"} /\ toServer'[i] = <<>>
    PROVE  /\ Shape' /\ conn'[i] = e
           /\ \A j \in Connections : j # i => conn'[j] = conn[j]
<1> USE DEF clientVars
<1>1. /\ ConnsOK' /\ conn'[i] = e
      /\ \A j \in Connections : j # i => conn'[j] = conn[j]
  BY CoreChanges DEF Shape
<1>2. \A j \in Connections : Placed(j)'
  <2>1. ASSUME NEW j \in Connections, j # i PROVE Placed(j)'
    BY <1>1, <2>1, PlacedKept, ShapeFacts
  <2>2. Placed(i)'
    BY <1>1, PlacedOpened
  <2> QED
    BY <2>1, <2>2
<1>3. WiresOK'
  BY <1>2 DEF WiresOK
<1>4. ClientOK'
  <2>1. ClientOK /\ (mode # "closed" => current \in Connections)
    BY ShapeFacts
  <2>2. Opening'
    <3>1. ASSUME mode = "opening"
          PROVE  /\ conn'[current].phase \in {"none", "ticket"}
                 /\ toServer'[current] = <<>>
      BY <1>1, <2>1, <3>1 DEF ClientOK, Opening
    <3> QED
      BY <2>1, <3>1 DEF Opening
  <2> QED
    BY <2>1, <2>2 DEF ClientOK
<1> QED
  BY <1>1, <1>3, <1>4 DEF Shape

(* A connection in use has been opened.                                     *)
LEMMA InUse ==
    ASSUME Shape, NEW i \in Connections,
           \/ conn[i].phase # "none"
           \/ conn[i].closed \/ conn[i].clientClosed
           \/ toServer[i] # <<>> \/ toClient[i] # <<>>
           \/ ~conn[i].closed /\ Outbound(conn[i]) > 0
    PROVE  ~(i > current)
<1>1. Placed(i)
  BY ShapeFacts
<1>2. Len(<<>>) = 0
  BY EmptySeq
<1>3. Outbound(FreshCore) = 0
  BY <1>2, FreshFacts DEF Outbound
<1> QED
  BY <1>1, <1>3, FreshFacts DEF Placed

(* Nothing but the session, or what the user sees of it, changes.           *)
LEMMA ServerOnly ==
    ASSUME Shape, SessionOK', PumpOK',
           UNCHANGED <<conn, toServer, toClient, clientVars>>
    PROVE  Shape'
<1> USE DEF clientVars
<1>1. ConnsOK' /\ ClientOK'
  BY DEF Shape, ConnsOK, ClientOK, Opening
<1>2. WiresOK'
  BY DEF Shape, WiresOK, Placed
<1> QED
  BY <1>1, <1>2 DEF Shape

(* Nothing on the server changes, and no wire to the client.                *)
LEMMA ServerSame ==
    ASSUME Shape, UNCHANGED <<serverVars, current>>
    PROVE  SessionOK' /\ PumpOK' /\ ConnsOK'
<1> USE DEF serverVars
<1>1. SessionOK' /\ ConnsOK'
  BY DEF Shape, SessionOK, ConnsOK
<1>2. PumpOK'
  BY DEF Shape, PumpOK, Pumping
<1> QED
  BY <1>1, <1>2

-----------------------------------------------------------------------------
(* The quiet actions                                                        *)

(* A connection that stays is quiet.                                        *)
LEMMA QuietSame == \A core : Fits(core) => Quiet(core, core)
<1>1. ASSUME NEW core, Fits(core) PROVE Quiet(core, core)
  <2>1. CASE core.closed
    <3>1. core = Close(FreshCore)
      BY <1>1, <2>1 DEF Fits
    <3> QED
      BY <3>1, CloseFacts DEF Quiet
  <2>2. CASE ~core.closed
    BY <2>2 DEF Quiet
  <2> QED
    BY <2>1, <2>2
<1> QED
  BY <1>1

(* A connection that closes is quiet.                                       *)
LEMMA QuietClose == \A core, other : Quiet(core, Close(other))
BY CloseFacts DEF Quiet

(* A wire that stays is calm.                                               *)
LEMMA CalmSame == \A q, core : Calm(q, q, core)
BY DEF Calm

(* A step that touches one connection, and that quietly.                    *)
LEMMA OneQuiet ==
    ASSUME Inv, Shape', UNCHANGED clientVars, toClient' = toClient,
           NEW i \in Connections,
           \A j \in Connections : j # i => conn'[j] = conn[j],
           Quiet(conn[i], conn'[i]),
           \A j \in Connections : Calm(toServer[j], toServer'[j], conn'[j]),
           \/ pump' = pump
           \/ /\ pump'.stage \notin {"commands", "events"}
              /\ pump'.commands = <<>>
              /\ pump.stage = "events" => conn'[pump.conn].closed
    PROVE  Inv'
<1> USE DEF clientVars
<1>1. \A j \in Connections : Quiet(conn[j], conn'[j])
  BY ShapeFacts, QuietSame DEF Inv
<1> QED
  BY <1>1, QuietOK

(* Output() keeps the invariant.                                            *)
LEMMA OutputOK ==
    ASSUME Inv, NEW t \in Terminals, Output(t)
    PROVE  Inv'
<1> USE DEF clientVars
<1>1. Shape
  BY DEF Inv
<1>2. SessionOK'
  BY <1>1, ChangeOK DEF Output, Shape
<1>3. PumpOK'
  BY <1>1, PumpKept DEF Output, Shape, PumpOK
<1>4. Shape'
  BY <1>1, <1>2, <1>3, ServerOnly DEF Output
<1>5. /\ \A i \in Connections : Quiet(conn[i], conn'[i])
      /\ \A i \in Connections : Calm(toServer[i], toServer'[i], conn'[i])
  BY <1>1, ShapeFacts, QuietSame, CalmSame DEF Output
<1> QED
  BY <1>4, <1>5, QuietOK DEF Output

(* Toggle() keeps the invariant.                                            *)
LEMMA ToggleOK ==
    ASSUME Inv, NEW t \in Terminals, Toggle(t)
    PROVE  Inv'
<1> USE DEF serverVars
<1>1. Shape
  BY DEF Inv
<1>2. view[t] \in View /\ view \in [Terminals -> View]
  BY <1>1 DEF Shape, ClientOK
<1>3. /\ view[t].visGeneration + 1 \in Nat /\ (~view[t].visible) \in BOOLEAN
  BY <1>2 DEF View
<1>4. view' \in [Terminals -> View]
  BY <1>2, <1>3 DEF Toggle, View
<1>5. SessionOK' /\ PumpOK' /\ ConnsOK'
  BY <1>1, ServerSame DEF Toggle
<1>6. ClientOK'
  BY <1>1, <1>4 DEF Toggle, Shape, ClientOK, Opening
<1>7. WiresOK'
  BY <1>1 DEF Toggle, Shape, WiresOK, Placed
<1>8. Shape'
  BY <1>5, <1>6, <1>7 DEF Shape
<1>9. /\ \A i \in Connections : Quiet(conn[i], conn'[i])
      /\ \A i \in Connections : Calm(toServer[i], toServer'[i], conn'[i])
  BY <1>1, ShapeFacts, QuietSame, CalmSame DEF Toggle
<1> QED
  BY <1>8, <1>9, QuietOK DEF Toggle

(* Connect keeps the invariant: the first frame of a connection.            *)
LEMMA ConnectOK ==
    ASSUME Inv, Connect
    PROVE  Inv'
<1> USE DEF serverVars
<1>1. /\ Shape /\ current \in Connections /\ mode = "opening"
      /\ mode' = "active" /\ current' = current
  BY ShapeFacts DEF Inv, Connect
<1>2. SessionOK' /\ PumpOK' /\ ConnsOK'
  BY <1>1, ServerSame DEF Connect
<1>3. ClientOK'
  BY <1>1 DEF Connect, Shape, ClientOK, Opening, Modes
<1>4. /\ toServer' = [toServer EXCEPT ![current] =
             IF conn[current].closed THEN @ ELSE Append(@, ConnectFrame)]
      /\ toServer \in [Connections -> Seq(Sent)]
  BY <1>1 DEF Connect, Send, Shape, WiresOK
<1>5. ASSUME NEW j \in Connections
      PROVE  /\ toServer'[j] \in Seq(Sent)
             /\ Calm(toServer[j], toServer'[j], conn'[j])
             /\ j # current => toServer'[j] = toServer[j]
  <2>1. Append(toServer[j], ConnectFrame) \in Seq(Sent)
    BY <1>4, FrameTypes, AppendProperties
  <2> QED
    BY <1>1, <1>4, <2>1 DEF Calm
<1>6. toServer' \in [Connections -> Seq(Sent)]
  BY <1>4, <1>5
<1>7. \A j \in Connections : Placed(j)'
  <2>1. ASSUME NEW j \in Connections PROVE Placed(j)'
    <3>1. Placed(j) /\ toClient'[j] = toClient[j] /\ conn'[j] = conn[j]
      BY <1>1, ShapeFacts DEF Connect
    <3>2. current <= current
      BY <1>1, StreamAssumption DEF StreamAssumption
    <3>3. j > current => j # current
      BY <1>1, StreamAssumption DEF StreamAssumption
    <3> QED
      BY <1>1, <1>5, <3>1, <3>3 DEF Placed
  <2> QED
    BY <2>1
<1>8. WiresOK'
  BY <1>1, <1>6, <1>7 DEF Connect, Shape, WiresOK
<1>9. Shape'
  BY <1>2, <1>3, <1>8 DEF Shape
<1>10. \A i \in Connections : Quiet(conn[i], conn'[i])
  BY <1>1, ShapeFacts, QuietSame DEF Connect
<1> QED
  BY <1>1, <1>5, <1>9, <1>10, QuietOK DEF Connect

(* Tickets go, bound connections close.                                     *)
LEMMA ReplacedFacts ==
    ASSUME NEW core, Fits(core)
    PROVE  /\ Fits(Replaced(core)) /\ Quiet(core, Replaced(core))
           /\ core.closed \/ core.phase = "bound" =>
                 Replaced(core).closed \/ Replaced(core).phase = "bound"
           /\ core.phase \in {"none", "ticket"} =>
                 Replaced(core).phase \in {"none", "ticket"}
           /\ ~Replaced(core).closed => Replaced(core).phase # "bound"
           /\ ~Replaced(core).closed => ~core.closed /\ core.phase # "bound"
           /\ core = FreshCore => Replaced(core) = core
<1>1. core \in Core
  BY FitsFacts
<1>2. CASE core.phase = "ticket"
  <2> DEFINE e == [core EXCEPT !.phase = "none"]
  <2>1. Replaced(core) = e
    BY <1>2 DEF Replaced
  <2>2. ~core.closed
    BY <1>2, CloseFacts DEF Fits
  <2>3. /\ Alike(core, e) /\ e.phase = "none"
        /\ e.request = core.request /\ e.awaiting = core.awaiting
        /\ e.clientClosed = core.clientClosed
    BY <1>1 DEF Alike, Core, Phases
  <2> HIDE DEF e
  <2>4. ~core.awaiting
    BY <1>2, <2>2 DEF Fits
  <2>5. Fits(e)
    BY <1>2, <2>2, <2>3, <2>4, AlikeFits
  <2>6. Quiet(core, e)
    BY <2>2, <2>3 DEF Quiet, Alike, Waits, Live
  <2>7. ~e.closed
    BY <2>2, <2>3 DEF Alike
  <2> QED
    BY <1>2, <2>1, <2>2, <2>3, <2>5, <2>6, FreshFacts
<1>3. CASE core.phase = "bound"
  <2>1. Replaced(core) = Close(core)
    BY <1>3 DEF Replaced
  <2> QED
    BY <1>3, <2>1, CloseFits, CloseFacts, QuietClose, FreshFacts
<1>4. CASE core.phase # "ticket" /\ core.phase # "bound"
  <2>1. Replaced(core) = core
    BY <1>4 DEF Replaced
  <2> QED
    BY <1>4, <2>1, QuietSame
<1> QED
  BY <1>2, <1>3, <1>4

(* DisconnectClient keeps the invariant.                                    *)
LEMMA DisconnectClientOK ==
    ASSUME Inv, DisconnectClient
    PROVE  Inv'
<1> USE DEF clientVars
<1>1. /\ Shape /\ pump.stage = "idle"
      /\ \A i \in Connections : conn'[i] = Replaced(conn[i])
      /\ \A i \in Connections : Fits(conn[i]) /\ Placed(i)
  BY ShapeFacts DEF Inv, DisconnectClient
<1>2. SessionOK'
  <2>1. Absent \in Subscriber
    BY DEF Absent, Subscriber
  <2> QED
    BY <1>1, <2>1 DEF DisconnectClient, Shape, SessionOK
<1>3. ConnsOK'
  <2>1. \A i \in Connections : Fits(Replaced(conn[i]))
    BY <1>1, ReplacedFacts
  <2>2. \A i \in Connections : Replaced(conn[i]) \in Core
    BY <2>1, FitsFacts
  <2> QED
    BY <1>1, <2>1, <2>2 DEF DisconnectClient, ConnsOK
<1>4. PumpOK'
  <2>1. refusals' \in Nat
    BY <1>1 DEF DisconnectClient, Shape, PumpOK
  <2> QED
    BY <1>1, <2>1, ReplacedFacts, PumpKept DEF DisconnectClient, Shape
<1>5. WiresOK'
  <2>1. ASSUME NEW j \in Connections PROVE Placed(j)'
    <3>1. /\ Placed(j) /\ conn'[j] = Replaced(conn[j])
          /\ ~conn'[j].closed => ~conn[j].closed /\ conn[j].phase # "bound"
          /\ conn[j] = FreshCore => conn'[j] = conn[j]
          /\ toServer' = toServer /\ toClient' = toClient
          /\ current' = current
      BY <1>1, ReplacedFacts DEF DisconnectClient
    <3> QED
      BY <3>1 DEF Placed
  <2> QED
    BY <1>1, <2>1 DEF DisconnectClient, Shape, WiresOK
<1>6. ClientOK'
  <2>1. ClientOK /\ (mode # "closed" => current \in Connections)
    BY <1>1, ShapeFacts
  <2>2. mode = "opening" => conn'[current].phase \in {"none", "ticket"}
    BY <1>1, <2>1, ReplacedFacts DEF ClientOK, Opening
  <2> QED
    BY <2>1, <2>2 DEF DisconnectClient, ClientOK, Opening
<1>7. Shape'
  BY <1>2, <1>3, <1>4, <1>5, <1>6 DEF Shape
<1>8. /\ \A i \in Connections : Quiet(conn[i], conn'[i])
      /\ \A i \in Connections : Calm(toServer[i], toServer'[i], conn'[i])
  BY <1>1, ReplacedFacts, CalmSame DEF DisconnectClient
<1> QED
  BY <1>7, <1>8, QuietOK DEF DisconnectClient

(* RetireConnection keeps the invariant.                                    *)
LEMMA RetireConnectionOK ==
    ASSUME Inv, NEW i \in Connections, RetireConnection(i)
    PROVE  Inv'
<1> USE DEF clientVars
<1>1. Shape /\ ~conn[i].closed /\ pump.stage = "idle"
  BY DEF Inv, RetireConnection
<1> DEFINE e == Close(conn[i])
<1>2. Fits(e) /\ conn' = [conn EXCEPT ![i] = e] /\ e.closed
      /\ Quiet(conn[i], e)
  BY CloseFits, CloseFacts, QuietClose DEF RetireConnection
<1> HIDE DEF e
<1>3. ~(i > current)
  BY <1>1, InUse DEF RetireConnection
<1>4. mode = "opening" /\ i = current => FALSE
  BY <1>1 DEF RetireConnection, Shape, ClientOK, Opening
<1>5. SessionOK'
  BY <1>1 DEF RetireConnection, Shape, SessionOK
<1>6. PumpOK'
  BY <1>1 DEF RetireConnection, Shape, PumpOK, Pumping
<1>7. /\ Shape' /\ conn'[i] = e
      /\ \A j \in Connections : j # i => conn'[j] = conn[j]
  BY <1>1, <1>2, <1>3, <1>4, <1>5, <1>6, ShapeKept
  DEF RetireConnection, Shape, WiresOK
<1> QED
  BY <1>2, <1>7, OneQuiet, CalmSame DEF RetireConnection

(* ExpireTicket keeps the invariant.                                        *)
LEMMA ExpireTicketOK ==
    ASSUME Inv, NEW i \in Connections, ExpireTicket(i)
    PROVE  Inv'
<1> USE DEF clientVars
<1>1. /\ Shape /\ pump.stage = "idle" /\ Fits(conn[i]) /\ Placed(i)
      /\ conn[i].phase = "ticket"
  BY ShapeFacts DEF Inv, ExpireTicket
<1> DEFINE e == [conn[i] EXCEPT !.phase = "none"]
<1>2. e = Replaced(conn[i])
  BY <1>1 DEF Replaced
<1>3. conn' = [conn EXCEPT ![i] = e]
  BY DEF ExpireTicket
<1>4. ~conn[i].closed
  BY <1>1, CloseFacts DEF Fits
<1> HIDE DEF e
<1>5. Fits(e) /\ Quiet(conn[i], e) /\ e.phase \in {"none", "ticket"}
  BY <1>1, <1>2, ReplacedFacts
<1>6. ~(i > current)
  BY <1>1, InUse
<1>7. toClient[i] = <<>>
  BY <1>1, <1>4 DEF Placed
<1>8. mode = "opening" /\ i = current => toServer[i] = <<>>
  BY <1>1 DEF Shape, ClientOK, Opening
<1>9. SessionOK'
  BY <1>1 DEF ExpireTicket, Shape, SessionOK
<1>10. PumpOK'
  BY <1>1 DEF ExpireTicket, Shape, PumpOK, Pumping
<1>11. /\ Shape' /\ conn'[i] = e
       /\ \A j \in Connections : j # i => conn'[j] = conn[j]
  BY <1>1, <1>3, <1>5, <1>6, <1>7, <1>8, <1>9, <1>10, ShapeKept
  DEF ExpireTicket, Shape, WiresOK
<1> QED
  BY <1>5, <1>11, OneQuiet, CalmSame DEF ExpireTicket

(* A reader takes a frame.                                                  *)
LEMMA ReadsFacts ==
    ASSUME Shape, NEW i \in Connections, NEW kind, Reads(i, kind)
    PROVE  /\ toServer[i] \in Seq(Sent) /\ toServer[i] # <<>>
           /\ Head(toServer[i]).kind = kind
           /\ Head(toServer[i]) \in Sent
           /\ toServer'[i] = Tail(toServer[i])
           /\ toServer'[i] \in Seq(Sent)
           /\ \A j \in Connections : j # i => toServer'[j] = toServer[j]
           /\ toServer' \in [Connections -> Seq(Sent)]
           /\ ~conn[i].closed /\ ~(i > current)
           /\ ~(mode = "opening" /\ i = current)
           /\ toClient' = toClient /\ pump' = pump /\ SessionOK'
           /\ refusals' = refusals
           /\ current' = current /\ UNCHANGED clientVars
<1> USE DEF clientVars
<1>1. /\ toServer \in [Connections -> Seq(Sent)]
      /\ toServer[i] \in Seq(Sent)
  BY DEF Shape, WiresOK
<1>2. toServer[i] # <<>> /\ Head(toServer[i]).kind = kind
      /\ toServer' = [toServer EXCEPT ![i] = Tail(@)]
  BY DEF Reads
<1>3. Head(toServer[i]) \in Sent
      /\ Tail(toServer[i]) \in Seq(Sent)
  BY <1>1, <1>2, HeadAndTail
<1>4. /\ toServer'[i] = Tail(toServer[i])
      /\ \A j \in Connections : j # i => toServer'[j] = toServer[j]
      /\ toServer' \in [Connections -> Seq(Sent)]
  BY <1>1, <1>2, <1>3
<1>5. ~(i > current)
  BY <1>2, InUse
<1>6. ~(mode = "opening" /\ i = current)
  BY <1>2 DEF Shape, ClientOK, Opening
<1>7. SessionOK'
  BY DEF Reads, Shape, SessionOK
<1> QED
  BY <1>1, <1>2, <1>3, <1>4, <1>5, <1>6, <1>7 DEF Reads

(* What a reader leaves is of its shape.                                    *)
LEMMA ReadShape ==
    ASSUME Shape, NEW i \in Connections, NEW kind, Reads(i, kind),
           NEW e, Fits(e), conn' = [conn EXCEPT ![i] = e],
           \/ e.closed \/ e.phase = "bound"
           \/ e.phase = "taken" /\ conn[i].phase = "ticket"
    PROVE  /\ Shape' /\ conn'[i] = e
           /\ \A j \in Connections : j # i => conn'[j] = conn[j]
<1>1. /\ ~(i > current) /\ ~(mode = "opening" /\ i = current)
      /\ \A j \in Connections : j # i => toServer'[j] = toServer[j]
      /\ toServer' \in [Connections -> Seq(Sent)]
      /\ toClient' = toClient /\ pump' = pump /\ SessionOK'
      /\ refusals' = refusals
      /\ current' = current /\ UNCHANGED clientVars /\ ~conn[i].closed
  BY ReadsFacts
<1>2. /\ conn'[i] = e /\ Placed(i)
      /\ \A j \in Connections : j # i => conn'[j] = conn[j]
  BY CoreChanges, ShapeFacts
<1>3. \A j \in Connections :
         conn[j].closed \/ conn[j].phase = "bound" =>
            conn'[j].closed \/ conn'[j].phase = "bound"
  BY <1>1, <1>2
<1>4. PumpOK'
  BY <1>1, <1>3, PumpKept DEF Shape, PumpOK
<1>5. e.closed \/ e.phase = "bound" \/ toClient'[i] = <<>>
  BY <1>1, <1>2 DEF Placed
<1>6. toClient' \in [Connections -> Seq(Replies)]
  BY <1>1 DEF Shape, WiresOK
<1> QED
  BY <1>1, <1>4, <1>5, <1>6, ShapeKept

(* ReadConnect keeps the invariant: the ticket is taken once.               *)
LEMMA ReadConnectOK ==
    ASSUME Inv, NEW i \in Connections, ReadConnect(i)
    PROVE  Inv'
<1>1. /\ Shape /\ Reads(i, "connect") /\ Fits(conn[i])
      /\ conn[i] \in Core
  BY ShapeFacts DEF Inv, ReadConnect
<1>2. ~conn[i].closed
  BY <1>1 DEF Reads
<1> DEFINE taken == [conn[i] EXCEPT !.phase = "taken"]
           e == IF conn[i].phase = "ticket" THEN taken ELSE Close(conn[i])
<1>3. conn' = [conn EXCEPT ![i] = e]
  BY DEF ReadConnect
<1>4. /\ Fits(e) /\ Quiet(conn[i], e)
      /\ \/ e.closed
         \/ e.phase = "taken" /\ conn[i].phase = "ticket"
  <2>1. CASE conn[i].phase = "ticket"
    <3>1. /\ Alike(conn[i], taken) /\ taken.phase = "taken"
          /\ taken.request = conn[i].request
          /\ taken.awaiting = conn[i].awaiting
          /\ taken.clientClosed = conn[i].clientClosed
      BY <1>1 DEF Alike, Core, Phases
    <3> HIDE DEF taken
    <3>2. ~conn[i].awaiting
      BY <1>1, <1>2, <2>1 DEF Fits
    <3>3. Fits(taken)
      BY <1>1, <1>2, <2>1, <3>1, <3>2, AlikeFits
    <3>4. Quiet(conn[i], taken)
      BY <1>2, <3>1 DEF Quiet, Alike, Waits, Live
    <3> QED
      BY <2>1, <3>1, <3>3, <3>4
  <2>2. CASE conn[i].phase # "ticket"
    BY <2>2, CloseFits, CloseFacts, QuietClose
  <2> QED
    BY <2>1, <2>2
<1> HIDE DEF e
<1>5. /\ Shape' /\ conn'[i] = e
      /\ \A j \in Connections : j # i => conn'[j] = conn[j]
  BY <1>1, <1>3, <1>4, ReadShape
<1>6. /\ UNCHANGED clientVars /\ toClient' = toClient /\ pump' = pump
      /\ \A j \in Connections : Calm(toServer[j], toServer'[j], conn'[j])
  BY <1>1, ReadsFacts DEF Calm
<1> QED
  BY <1>4, <1>5, <1>6, OneQuiet

(* Bind keeps the invariant.                                                *)
LEMMA BindOK ==
    ASSUME Inv, NEW i \in Connections, Bind(i)
    PROVE  Inv'
<1> USE DEF clientVars
<1>1. /\ Shape /\ Fits(conn[i]) /\ conn[i] \in Core
      /\ conn[i].phase = "taken"
  BY ShapeFacts DEF Inv, Bind
<1>2. ~conn[i].closed
  BY <1>1, CloseFacts DEF Fits
<1> DEFINE e == [conn[i] EXCEPT !.phase = "bound", !.awaiting = FALSE]
<1>3. conn' = [conn EXCEPT ![i] = e]
  BY DEF Bind
<1>4. /\ Alike(conn[i], e) /\ e.phase = "bound" /\ ~e.awaiting
      /\ e.request = conn[i].request
      /\ e.clientClosed = conn[i].clientClosed
  BY <1>1 DEF Alike, Core, Phases
<1>5. e.awaiting = FALSE
  BY <1>1 DEF Core
<1> HIDE DEF e
<1>6. conn[i].awaiting = FALSE
  BY <1>1, <1>2 DEF Fits, Core
<1>7. Fits(e)
  BY <1>1, <1>2, <1>4, AlikeFits
<1>8. Quiet(conn[i], e)
  BY <1>2, <1>4, <1>5, <1>6 DEF Quiet, Alike, Waits
<1>9. ~(i > current)
  BY <1>1, InUse
<1>10. ~(mode = "opening" /\ i = current)
  BY <1>1 DEF Shape, ClientOK, Opening
<1>11. SessionOK'
  BY <1>1 DEF Bind, Shape, SessionOK
<1>12. /\ conn'[i] = e
       /\ \A j \in Connections : j # i => conn'[j] = conn[j]
  BY <1>1, <1>3, <1>7, CoreChanges, ShapeFacts
<1>13. PumpOK'
  BY <1>1, <1>4, <1>12, PumpKept DEF Bind, Shape, PumpOK
<1>14. Shape'
  BY <1>1, <1>3, <1>4, <1>7, <1>9, <1>10, <1>11, <1>13, ShapeKept
  DEF Bind, Shape, WiresOK
<1> QED
  BY <1>8, <1>12, <1>14, OneQuiet, CalmSame DEF Bind

(* ReadEnd keeps the invariant.                                             *)
LEMMA ReadEndOK ==
    ASSUME Inv, NEW i \in Connections, ReadEnd(i)
    PROVE  Inv'
<1> USE DEF clientVars
<1>1. /\ Shape /\ conn[i] \in Core /\ conn[i].clientClosed
      /\ ~conn[i].closed /\ Placed(i)
  BY ShapeFacts DEF Inv, ReadEnd
<1> DEFINE e == Close(conn[i])
<1>2. Fits(e) /\ conn' = [conn EXCEPT ![i] = e] /\ e.closed
      /\ Quiet(conn[i], e) /\ e.phase = "none"
  BY CloseFits, CloseFacts, QuietClose DEF ReadEnd
<1> HIDE DEF e
<1>3. ~(i > current)
  BY <1>1, InUse
<1>4. mode = "opening" /\ i = current => toServer[i] = <<>>
  BY <1>1 DEF Shape, ClientOK, Opening
<1>5. SessionOK'
  BY <1>1 DEF ReadEnd, Shape, SessionOK
<1>6. /\ conn'[i] = e
      /\ \A j \in Connections : j # i => conn'[j] = conn[j]
  BY <1>1, <1>2, CoreChanges, ShapeFacts
<1>7. PumpOK'
  BY <1>1, <1>2, <1>6, PumpKept DEF ReadEnd, Shape, PumpOK
<1>8. Shape'
  BY <1>1, <1>2, <1>3, <1>4, <1>5, <1>7, ShapeKept
  DEF ReadEnd, Shape, WiresOK
<1> QED
  BY <1>2, <1>6, <1>8, OneQuiet, CalmSame DEF ReadEnd

-----------------------------------------------------------------------------
(* The state thread                                                         *)

(* The connection that is pumped was opened, and bound.                     *)
LEMMA PumpFacts ==
    ASSUME Shape, pump.stage # "idle"
    PROVE  /\ pump.conn \in Connections /\ ~(pump.conn > current)
           /\ conn[pump.conn].closed \/ conn[pump.conn].phase = "bound"
           /\ mode = "opening" /\ pump.conn = current
                 => conn[pump.conn].closed
           /\ pump \in PumpState
<1>1. PumpOK /\ Pumping /\ ClientOK
  BY ShapeFacts DEF PumpOK
<1>2. pump.conn \in Connections /\ pump.conn <= current
      /\ (conn[pump.conn].closed \/ conn[pump.conn].phase = "bound")
  BY <1>1 DEF Pumping
<1>3. pump.conn \in Nat /\ current \in Nat
  <2>1. \A i \in Connections : i \in Nat
    BY StreamAssumption DEF StreamAssumption
  <2>2. current \in Connections \cup {0}
    BY <1>1 DEF ClientOK
  <2> QED
    BY <1>2, <2>1, <2>2
<1>4. ~(pump.conn > current)
  BY <1>2, <1>3
<1> QED
  BY <1>1, <1>2, <1>4 DEF PumpOK, ClientOK, Opening

(* The pumped connection changes.                                           *)
LEMMA PumpShape ==
    ASSUME Shape, SessionOK', PumpOK', pump.stage # "idle",
           UNCHANGED <<clientVars, toServer, toClient>>,
           NEW e, Fits(e), conn' = [conn EXCEPT ![pump.conn] = e],
           e.closed \/ e.phase = "bound",
           conn[pump.conn].closed => e = conn[pump.conn]
    PROVE  /\ Shape' /\ conn'[pump.conn] = e
           /\ \A j \in Connections : j # pump.conn => conn'[j] = conn[j]
<1>1. /\ pump.conn \in Connections /\ ~(pump.conn > current)
      /\ mode = "opening" /\ pump.conn = current
            => conn[pump.conn].closed
  BY PumpFacts
<1>2. /\ toServer' \in [Connections -> Seq(Sent)]
      /\ toClient' \in [Connections -> Seq(Replies)]
  BY DEF Shape, WiresOK
<1>3. mode = "opening" /\ pump.conn = current =>
         e.phase \in {"none", "ticket"} /\ toServer'[pump.conn] = <<>>
  BY <1>1 DEF Shape, ClientOK, Opening
<1> QED
  BY <1>1, <1>2, <1>3, ShapeKept

(* A frame that names no command and asks for no Update is queued.          *)
LEMMA EnqueueQuiet ==
    ASSUME NEW core, Fits(core), core.closed \/ core.phase = "bound",
           NEW frame \in Replies, frame.kind # "events",
           frame.command = 0
    PROVE  /\ Fits(Enqueue(core, frame))
           /\ Quiet(core, Enqueue(core, frame))
           /\ Enqueue(core, frame).closed
                 \/ Enqueue(core, frame).phase = "bound"
           /\ core.closed => Enqueue(core, frame) = core
<1> DEFINE e == Enqueue(core, frame)
<1>1. /\ Fits(e) /\ core \in Core
      /\ \/ core.closed /\ e = core
         \/ ~core.closed /\ e = Close(core)
         \/ Queues(core, frame, e)
  BY FitsFacts, EnqueueFits, EnqueueFacts DEF Replies
<1> HIDE DEF e
<1>2. CASE Queues(core, frame, e)
  <2>1. /\ ~core.closed /\ ~e.closed /\ e.phase = core.phase
        /\ e.request = core.request /\ e.awaiting = core.awaiting
        /\ e.commands = core.commands /\ e.events = core.events
        /\ e.nextSerial = core.nextSerial
        /\ e.clientClosed = core.clientClosed
        /\ e.control = Append(core.control, frame)
    BY <1>2 DEF Queues
  <2>2. ASSUME NEW c \in Commands
        PROVE  Named(e.control, c) = Named(core.control, c)
    <3>1. core.control \in Seq(ServerFrame) /\ frame \in ServerFrame
      BY <1>1, CoreFields DEF Replies
    <3>2. Named(e.control, c) = Named(core.control, c)
             + (IF frame.command = c THEN 1 ELSE 0)
      BY <2>1, <3>1, FramesNamed, NamedAppend
    <3>3. Named(core.control, c) \in Nat
      BY <3>1, FramesNamed, CommandedFacts
    <3>4. frame.command # c
      BY StreamAssumption DEF StreamAssumption
    <3> QED
      BY <3>2, <3>3, <3>4
  <2>3. Quiet(core, e)
    BY <2>1, <2>2 DEF Quiet, Waits, Live
  <2> QED
    BY <1>1, <2>1, <2>3 DEF e
<1>3. CASE core.closed /\ e = core
  BY <1>1, <1>3, QuietSame DEF e
<1>4. CASE ~core.closed /\ e = Close(core)
  BY <1>1, <1>4, QuietClose, CloseFacts DEF e
<1> QED
  BY <1>1, <1>2, <1>3, <1>4

(* PumpQuiet keeps the invariant, heartbeat or not.                         *)
LEMMA PumpQuietOK ==
    ASSUME Inv, pump.stage = "commands", PumpQuiet(pump.conn), SessionOK',
           UNCHANGED <<refusals, clientVars, toServer, toClient>>
    PROVE  Inv'
<1> USE DEF clientVars
<1> DEFINE core == conn[pump.conn]
<1>1. /\ Shape /\ pump.conn \in Connections /\ Fits(core)
      /\ core.closed \/ core.phase = "bound"
      /\ conn \in [Connections -> Core]
  BY ShapeFacts, PumpFacts DEF Inv, ConnsOK
<1>2. pump' = Idle
  BY DEF PumpQuiet
<1>3. PumpOK'
  <2>1. refusals' \in Nat
    BY <1>1 DEF Shape, PumpOK
  <2> QED
    BY <1>1, <1>2, <2>1, IdleOK DEF Shape
<1>4. PICK e : /\ e = core \/ e = Enqueue(core, Heartbeat)
               /\ conn' = [conn EXCEPT ![pump.conn] = e]
  <2>1. CASE conn' = conn
    <3>1. conn' = [conn EXCEPT ![pump.conn] = core]
      BY <1>1, <2>1
    <3> QED
      BY <3>1
  <2>2. CASE conn' = [conn EXCEPT ![pump.conn] = Enqueue(@, Heartbeat)]
    BY <2>2
  <2> QED
    BY <2>1, <2>2 DEF PumpQuiet
<1>5. Heartbeat \in Replies /\ Heartbeat.kind # "events"
      /\ Heartbeat.command = 0
  BY FrameTypes DEF Heartbeat, NewFrame
<1> HIDE DEF core
<1>6. /\ Fits(e) /\ Quiet(core, e)
      /\ e.closed \/ e.phase = "bound"
      /\ core.closed => e = core
  BY <1>1, <1>4, <1>5, EnqueueQuiet, QuietSame
<1>7. /\ Shape' /\ conn'[pump.conn] = e
      /\ \A j \in Connections : j # pump.conn => conn'[j] = conn[j]
  BY <1>1, <1>3, <1>4, <1>6, PumpShape DEF core
<1>8. pump'.stage = "idle" /\ pump'.commands = <<>>
  BY <1>2 DEF Idle
<1> QED
  BY <1>1, <1>6, <1>7, <1>8, OneQuiet, CalmSame DEF core

(* PumpPollFails keeps the invariant.                                       *)
LEMMA PumpPollFailsOK ==
    ASSUME Inv, PumpPollFails
    PROVE  Inv'
<1> USE DEF clientVars
<1> DEFINE core == conn[pump.conn]
           e == [core EXCEPT !.closeAfterFlush = TRUE]
<1>1. /\ Shape /\ pump.conn \in Connections /\ Fits(core)
      /\ core \in Core
      /\ core.closed \/ core.phase = "bound"
      /\ pump \in PumpState /\ PumpOK
  BY ShapeFacts, PumpFacts DEF Inv, PumpPollFails
<1>2. /\ ~core.closed /\ pump.commands = <<>> /\ pump.stage = "commands"
      /\ conn' = [conn EXCEPT ![pump.conn] = e]
      /\ pump' = [pump EXCEPT !.stage = "error", !.frame = ErrorFrame]
  BY DEF PumpPollFails
<1>3. /\ Alike(core, e) /\ e.phase = core.phase
      /\ e.request = core.request /\ e.awaiting = core.awaiting
      /\ e.clientClosed = core.clientClosed
  BY <1>1 DEF Alike, Core
<1> HIDE DEF e, core
<1>4. Fits(e)
  BY <1>1, <1>2, <1>3, AlikeFits
<1>5. Quiet(core, e)
  BY <1>2, <1>3 DEF Quiet, Alike, Waits, Live
<1>6. ErrorFrame \in ServerFrame /\ ErrorFrame.kind = "error"
      /\ ErrorFrame.command = 0
  BY FrameTypes DEF ErrorFrame, NewFrame
<1>7. /\ pump' \in PumpState /\ pump'.stage = "error"
      /\ pump'.conn = pump.conn /\ pump'.commands = <<>>
      /\ pump'.frame = ErrorFrame
  BY <1>1, <1>2, <1>6 DEF PumpState, Stages
<1>8. conn'[pump.conn] = e
  BY <1>1, <1>2, <1>4, CoreChanges DEF Shape
<1>9. PumpOK'
  <2>1. /\ pump.conn <= current /\ current' = current
    BY <1>1 DEF PumpOK, Pumping, PumpPollFails
  <2>2. Pumping'
    <3>1. pump'.conn <= current'
      BY <1>7, <2>1
    <3>2. /\ pump'.conn \in Connections
          /\ conn'[pump'.conn].closed \/ conn'[pump'.conn].phase = "bound"
      BY <1>1, <1>3, <1>7, <1>8 DEF Alike
    <3>3. /\ pump'.frame.kind = "error" /\ pump'.frame.command = 0
          /\ pump'.stage = "error" /\ pump'.commands = <<>>
      BY <1>6, <1>7
    <3> QED
      BY <3>1, <3>2, <3>3 DEF Pumping
  <2>3. refusals' \in Nat
    BY <1>1 DEF PumpOK, PumpPollFails
  <2> QED
    BY <1>7, <2>2, <2>3 DEF PumpOK
<1>10. SessionOK'
  BY <1>1 DEF PumpPollFails, Shape, SessionOK
<1>11. /\ Shape' /\ conn'[pump.conn] = e
       /\ \A j \in Connections : j # pump.conn => conn'[j] = conn[j]
  BY <1>1, <1>2, <1>3, <1>4, <1>9, <1>10, PumpShape
  DEF PumpPollFails, core
<1> QED
  BY <1>1, <1>2, <1>5, <1>7, <1>11, OneQuiet, CalmSame
  DEF PumpPollFails, core

(* The places of a command can be counted after a step as well.             *)
LEMMA TotalNext ==
    ASSUME Shape', current' \in Connections, NEW c
    PROVE  /\ Named(toServer'[current'], c) \in Nat
           /\ Number(conn'[current'].commands, c) \in Nat
           /\ Number(pump'.commands, c) \in Nat /\ Held(c)' \in Nat
           /\ Named(conn'[current'].control, c) \in Nat
           /\ Named(toClient'[current'], c) \in Nat
           /\ Held(c)' = IF pump'.conn = current'
                         THEN Number(pump'.commands, c) ELSE 0
           /\ Total(c)' = Named(toServer'[current'], c)
                             + Number(conn'[current'].commands, c)
                             + Held(c)' + Named(conn'[current'].control, c)
                             + Named(toClient'[current'], c)
<1>1. /\ toServer'[current'] \in Seq(Sent)
      /\ toClient'[current'] \in Seq(Replies)
      /\ conn'[current'] \in Core /\ pump' \in PumpState
  BY DEF Shape, WiresOK, ConnsOK, PumpOK
<1>2. /\ conn'[current'].commands \in Seq(Commands)
      /\ conn'[current'].control \in Seq(ServerFrame)
  BY <1>1, CoreFields
<1>3. pump'.commands \in Seq(Commands)
  BY <1>1 DEF PumpState
<1>4. /\ Named(toServer'[current'], c) \in Nat
      /\ Named(toClient'[current'], c) \in Nat
      /\ Named(conn'[current'].control, c) \in Nat
  BY <1>1, <1>2, FramesNamed, CommandedFacts
<1>5. /\ Number(conn'[current'].commands, c) \in Nat
      /\ Number(pump'.commands, c) \in Nat
  BY <1>2, <1>3, NumberType
<1>6. Held(c)' = IF pump'.conn = current'
                 THEN Number(pump'.commands, c) ELSE 0
  BY DEF Held, Number, Where
<1>7. Held(c)' \in Nat
  BY <1>5, <1>6
<1>8. Total(c)' = Named(toServer'[current'], c)
                     + Number(conn'[current'].commands, c)
                     + Held(c)' + Named(conn'[current'].control, c)
                     + Named(toClient'[current'], c)
  BY DEF Total, Named, Number, Where
<1> QED
  BY <1>4, <1>5, <1>6, <1>7, <1>8

(* Nothing moves between the places.                                        *)
LEMMA OnceSame ==
    ASSUME Inv, Shape', UNCHANGED <<clientVars, toServer, toClient>>,
           mode # "closed" =>
              /\ conn'[current].commands = conn[current].commands
              /\ conn'[current].control = conn[current].control,
           \/ pump'.commands = <<>>
           \/ pump'.conn = pump.conn /\ pump'.commands = pump.commands
    PROVE  Once'
<1> USE DEF clientVars
<1>1. /\ Shape /\ Once /\ (mode # "closed" => current \in Connections)
  BY ShapeFacts DEF Inv
<1>2. CASE mode = "closed"
  BY <1>1, <1>2 DEF Once
<1>3. CASE mode # "closed"
  <2>1. ASSUME NEW c \in Commands
        PROVE  /\ Total(c) \in Nat /\ Total(c)' \in Nat
               /\ Total(c)' <= Total(c)
    <3>1. /\ Named(toServer[current], c) \in Nat
          /\ Number(conn[current].commands, c) \in Nat
          /\ Number(pump.commands, c) \in Nat /\ Held(c) \in Nat
          /\ Named(conn[current].control, c) \in Nat
          /\ Named(toClient[current], c) \in Nat
          /\ Total(c) \in Nat
      BY <1>1, <1>3, TotalParts
    <3>2. /\ Held(c)' \in Nat
          /\ Held(c)' = IF pump'.conn = current'
                         THEN Number(pump'.commands, c) ELSE 0
          /\ Total(c)' = Named(toServer'[current'], c)
                             + Number(conn'[current'].commands, c)
                             + Held(c)' + Named(conn'[current'].control, c)
                             + Named(toClient'[current'], c)
      BY <1>1, <1>3, TotalNext
    <3>3. Total(c) = Named(toServer[current], c)
                        + Number(conn[current].commands, c)
                        + Held(c) + Named(conn[current].control, c)
                        + Named(toClient[current], c)
      BY DEF Total
    <3>4. Held(c)' <= Held(c)
      <4>1. CASE pump'.commands = <<>>
        BY <3>1, <3>2, <4>1, NumberEmpty
      <4>2. CASE pump'.conn = pump.conn /\ pump'.commands = pump.commands
        <5>1. Held(c)' = Held(c)
          BY <3>2, <4>2 DEF Held
        <5> QED
          BY <3>1, <5>1
      <4> QED
        BY <4>1, <4>2
    <3>5. Total(c)' = Named(toServer[current], c)
                         + Number(conn[current].commands, c)
                         + Held(c)' + Named(conn[current].control, c)
                         + Named(toClient[current], c)
      BY <1>3, <3>2
    <3> QED
      BY <3>1, <3>2, <3>3, <3>4, <3>5, SumOrder
  <2> QED
    BY <1>1, <1>3, <2>1, OnceKept
<1> QED
  BY <1>2, <1>3

(* The requests that frames answer are numbers.                             *)
LEMMA AsksNat ==
    ASSUME NEW S, S \subseteq ServerFrame, NEW q \in Seq(S), NEW r, Asks(q, r)
    PROVE  r \in Nat
<1>1. PICK n \in 1..Len(q) : q[n].request = r
  BY DEF Asks
<1>2. q[n] \in ServerFrame
  BY ElementOfSeq
<1> QED
  BY <1>1, <1>2 DEF ServerFrame

(* What is told are numbers of requests.                                    *)
LEMMA ToldNat ==
    ASSUME Shape, current \in Connections, NEW r, Told(r)
    PROVE  r \in Nat
<1>1. /\ toClient[current] \in Seq(Replies)
      /\ conn[current].events \in Seq(ServerFrame)
      /\ policy.lastEvent \in Nat
  BY ShapeFacts, CoreFields DEF ClientOK, Policy
<1> QED
  BY <1>1, AsksNat DEF Told, Replies

(* An Events frame is queued: from now on the queue asks what the state     *)
(* thread was about to ask.                                                 *)
LEMMA EventQueuedOK ==
    ASSUME Inv, Shape', pump.stage = "events", pump' = Idle,
           UNCHANGED <<clientVars, toServer, toClient>>,
           Queues(conn[pump.conn], pump.frame, conn'[pump.conn]),
           \A j \in Connections : j # pump.conn => conn'[j] = conn[j]
    PROVE  Inv'
<1> USE DEF clientVars
<1> DEFINE core == conn[pump.conn]
           e == conn'[pump.conn]
           frame == pump.frame
<1>1. /\ Shape /\ Numbered /\ Once /\ Answers /\ NoLostWait
      /\ pump.conn \in Connections /\ core \in Core
      /\ mode # "closed" => current \in Connections
      /\ \A i \in Connections : Fits(conn[i])
  BY ShapeFacts, PumpFacts DEF Inv
<1>2. /\ frame.kind = "events" /\ frame \in ServerFrame
      /\ pump.commands = <<>> /\ frame.request \in Nat
  <2>1. pump \in PumpState /\ Pumping
    BY <1>1 DEF Shape, PumpOK
  <2>2. frame \in ServerFrame
    BY <2>1 DEF PumpState
  <2> QED
    BY <2>1, <2>2 DEF Pumping, ServerFrame
<1>3. /\ ~core.closed /\ ~e.closed /\ e.phase = core.phase
      /\ e.request = core.request /\ e.awaiting = core.awaiting
      /\ e.commands = core.commands /\ e.control = core.control
      /\ e.nextSerial = core.nextSerial
      /\ e.clientClosed = core.clientClosed
      /\ e.events = Append(core.events, frame)
  BY <1>2 DEF Queues
<1>4. pump'.stage = "idle" /\ pump'.commands = <<>>
  BY DEF Idle
<1>5. core.events \in Seq(ServerFrame)
  BY <1>1, CoreFields
<1>6. Numbered'
  <2>1. CASE mode = "closed"
    BY <2>1 DEF Numbered
  <2>2. CASE mode # "closed"
    <3>1. \/ conn'[current].closed
          \/ /\ ~conn[current].closed
             /\ conn'[current].nextSerial = conn[current].nextSerial
      BY <1>1, <1>3, <2>2
    <3> QED
      BY <1>1, <3>1, NumberedKept
  <2> QED
    BY <2>1, <2>2
<1>7. Once'
  BY <1>1, <1>3, <1>4, OnceSame
<1>8. NoLostWait'
  <2>1. ASSUME NEW i \in Connections, Waits(conn'[i])
        PROVE  Waits(conn[i]) /\ (Answering(i) => Answering(i)')
    <3>1. CASE i = pump.conn
      <4>1. Waits(conn[i])
        BY <1>3, <2>1, <3>1 DEF Waits, Live
      <4>2. conn'[i].events # <<>>
        BY <1>2, <1>3, <1>5, <3>1, AppendProperties
      <4> QED
        BY <4>1, <4>2 DEF Answering
    <3>2. CASE i # pump.conn
      BY <2>1, <3>2 DEF Answering
    <3> QED
      BY <3>1, <3>2
  <2> QED
    BY <1>1, <2>1, WaitKept
<1>9. Answers'
  <2>1. CASE mode = "closed"
    BY <2>1 DEF Answers
  <2>2. CASE mode # "closed" /\ pump.conn # current
    <3>1. \A n \in 1..Len(toServer[current]) :
             toServer[current][n].request.serial <= policy.lastPoll.serial
      BY <1>1, <2>2 DEF Answers, Timely
    <3>2. \/ conn'[current].closed /\ conn'[current].events = <<>>
          \/ /\ ~conn[current].closed /\ ~conn'[current].closed
             /\ conn'[current].events = conn[current].events
             /\ conn'[current].request = conn[current].request
             /\ conn'[current].awaiting = conn[current].awaiting
      <4>1. conn'[current] = conn[current] /\ Fits(conn[current])
        BY <1>1, <2>2
      <4> QED
        BY <4>1, CloseFacts DEF Fits
    <3> QED
      BY <1>1, <1>4, <3>1, <3>2, AnswersKept
  <2>3. CASE mode # "closed" /\ pump.conn = current
    <3> SUFFICES (Ordered /\ Timely /\ Asking)'
      BY DEF Answers
    <3> DEFINE wire == toClient[current]
               queue == conn[current].events
               queued == conn'[current].events
               s == pump.frame.request
    <3>1. /\ Ordered /\ Timely /\ Staged(s) /\ s \in Nat
          /\ current \in Connections
      BY <1>1, <1>2, <2>3 DEF Answers, Staged
    <3>2. /\ \A r : Asks(queued, r) <=> Asks(queue, r) \/ s = r
          /\ Rising(queue)
                /\ (\A r \in Nat : Asks(queue, r) => r < s)
                /\ (\A r : Asks(queue, r) => r \in Nat)
             => Rising(queued)
      <4>1. queued = Append(queue, frame) /\ queue \in Seq(ServerFrame)
        BY <1>3, <1>5, <2>3
      <4>2. frame.kind = "events" /\ frame \in ServerFrame
            /\ frame.request = s
        BY <1>2
      <4> HIDE DEF queue, queued, frame, s
      <4> QED
        BY <4>1, <4>2, AsksAppend
    <3>3. /\ \A r : Asks(wire, r) => Told(r) /\ r \in Nat
          /\ \A r : Asks(queue, r) => Told(r) /\ r \in Nat
          /\ Told(policy.lastEvent) /\ policy.lastEvent \in Nat
      <4>1. \A r : Told(r) => r \in Nat
        BY <1>1, <3>1, ToldNat
      <4>2. /\ \A r : Asks(wire, r) => Told(r)
            /\ \A r : Asks(queue, r) => Told(r)
            /\ Told(policy.lastEvent)
        BY DEF Told
      <4> QED
        BY <4>1, <4>2
    <3>4. \A r \in Nat : Told(r) => r < s
      BY <3>1 DEF Ordered
    <3>5. Rising(queued)
      BY <3>1, <3>2, <3>3, <3>4 DEF Ordered
    <3>6. /\ \A r : Told(r)' <=> Told(r) \/ r = s
          /\ \A r : ~Staged(r)'
      <4>1. \A r : Told(r)' <=> \/ r = policy.lastEvent
                                \/ Asks(wire, r) \/ Asks(queued, r)
        BY DEF Told, Asks
      <4> QED
        BY <1>4, <3>2, <4>1 DEF Told, Staged
    <3>7. Ordered'
      <4>1. /\ Rising(toClient[current])' <=> Rising(wire)
            /\ Rising(conn[current].events)' <=> Rising(queued)
            /\ \A r : Asks(toClient[current], r)' <=> Asks(wire, r)
            /\ \A r : Asks(conn[current].events, r)' <=> Asks(queued, r)
        BY DEF Rising, Asks
      <4>2. Rising(wire)
        BY <3>1 DEF Ordered
      <4>3. \A r, t \in Nat : Asks(wire, r) /\ Asks(queued, t) => r < t
        BY <3>1, <3>2, <3>3, <3>4 DEF Ordered
      <4>4. \A r \in Nat : Asks(wire, r) \/ Asks(queued, r)
                              => policy.lastEvent < r
        BY <3>1, <3>2, <3>3, <3>4 DEF Ordered
      <4> HIDE DEF wire, queued
      <4> QED
        BY <3>5, <3>6, <4>1, <4>2, <4>3, <4>4 DEF Ordered
    <3>8. Timely'
      <4>1. \A r \in Nat : Told(r)' \/ Staged(r)'
               => Told(r) \/ Staged(r)
        BY <3>1, <3>6
      <4>2. /\ ~conn'[current].closed /\ ~conn[current].closed
            /\ conn'[current].request = conn[current].request
            /\ conn'[current].awaiting = conn[current].awaiting
        BY <1>3, <2>3
      <4> QED
        BY <3>1, <4>1, <4>2 DEF Timely
    <3>9. Asking'
      BY <1>4 DEF Asking
    <3> QED
      BY <3>7, <3>8, <3>9
  <2> QED
    BY <2>1, <2>2, <2>3
<1> QED
  BY <1>6, <1>7, <1>8, <1>9 DEF Inv

(* PumpEnqueue keeps the invariant: the staged frame is queued.             *)
LEMMA PumpEnqueueOK ==
    ASSUME Inv, PumpEnqueue
    PROVE  Inv'
<1> USE DEF clientVars
<1> DEFINE core == conn[pump.conn]
           frame == pump.frame
           e == Enqueue(core, frame)
<1>1. /\ Shape /\ pump.conn \in Connections /\ Fits(core)
      /\ core.closed \/ core.phase = "bound"
      /\ pump \in PumpState /\ PumpOK /\ Pumping
  BY ShapeFacts, PumpFacts DEF Inv, PumpEnqueue, PumpOK
<1>2. /\ conn' = [conn EXCEPT ![pump.conn] = e] /\ pump' = Idle
      /\ pump.stage \in {"events", "error"}
  BY DEF PumpEnqueue
<1>3. /\ frame \in ServerFrame /\ frame.command = 0
      /\ frame \in Replies
  <2>1. frame \in ServerFrame /\ frame.command = 0
    BY <1>1 DEF PumpState, Pumping
  <2>2. frame.kind # "result"
    BY <1>1, <1>2 DEF Pumping
  <2> QED
    BY <2>1, <2>2 DEF Replies
<1>4. /\ Fits(e)
      /\ \/ core.closed /\ e = core
         \/ ~core.closed /\ e = Close(core)
         \/ Queues(core, frame, e)
  BY <1>1, <1>3, FitsFacts, EnqueueFits, EnqueueFacts
<1> HIDE DEF e, core
<1>5. /\ e.closed \/ e.phase = "bound"
      /\ core.closed => e = core
  BY <1>1, <1>4, CloseFacts DEF Queues
<1>6. SessionOK'
  BY <1>1 DEF PumpEnqueue, Shape, SessionOK
<1>7. PumpOK'
  BY <1>1, <1>2, IdleOK DEF PumpEnqueue, Shape, PumpOK
<1>8. /\ Shape' /\ conn'[pump.conn] = e
      /\ \A j \in Connections : j # pump.conn => conn'[j] = conn[j]
  BY <1>1, <1>2, <1>4, <1>5, <1>6, <1>7, PumpShape DEF PumpEnqueue, core
<1>9. pump'.stage = "idle" /\ pump'.commands = <<>>
  BY <1>2 DEF Idle
<1>10. CASE pump.stage = "error"
  <2>1. frame.kind = "error"
    BY <1>1, <1>10 DEF Pumping
  <2>2. Quiet(core, e)
    BY <1>1, <1>3, <2>1, EnqueueQuiet DEF e
  <2> QED
    BY <1>1, <1>8, <1>9, <1>10, <2>2, OneQuiet, CalmSame
    DEF PumpEnqueue, core
<1>11. CASE pump.stage = "events" /\ e.closed
  <2>1. Quiet(core, e)
    BY <1>1, <1>4, <1>11, QuietSame, QuietClose DEF Queues
  <2> QED
    BY <1>1, <1>8, <1>9, <1>11, <2>1, OneQuiet, CalmSame
    DEF PumpEnqueue, core
<1>12. CASE pump.stage = "events" /\ ~e.closed
  <2>1. Queues(core, frame, e)
    BY <1>4, <1>12, CloseFacts
  <2> QED
    BY <1>2, <1>8, <1>12, <2>1, EventQueuedOK DEF PumpEnqueue, core
<1> QED
  BY <1>2, <1>10, <1>11, <1>12

(* The session is asked, and answers: the connection waits for an Update,   *)
(* and the frame that asks for one is about to be queued.                   *)
LEMMA PumpAnswerOK ==
    ASSUME Inv, pump.stage = "commands", pump.commands = <<>>,
           ~conn[pump.conn].closed, ~pump.awaiting, SessionOK',
           UNCHANGED <<refusals, clientVars, toServer, toClient>>,
           NEW frame \in ServerFrame, frame.kind = "events",
           frame.command = 0, frame.request = pump.request.serial,
           conn' = [conn EXCEPT ![pump.conn].awaiting = TRUE],
           pump' = [pump EXCEPT !.stage = "events", !.frame = frame]
    PROVE  Inv'
<1> USE DEF clientVars
<1> DEFINE core == conn[pump.conn]
           e == [core EXCEPT !.awaiting = TRUE]
<1>1. /\ Shape /\ Numbered /\ Once /\ Answers /\ NoLostWait
      /\ pump.conn \in Connections /\ core \in Core /\ Fits(core)
      /\ core.phase = "bound" /\ pump \in PumpState
      /\ mode # "closed" => current \in Connections
      /\ \A i \in Connections : Fits(conn[i])
      /\ PumpOK /\ Pumping
  BY ShapeFacts, PumpFacts DEF Inv, PumpOK
<1>2. conn' = [conn EXCEPT ![pump.conn] = e]
  OBVIOUS
<1>3. /\ Alike(core, e) /\ e.phase = core.phase
      /\ e.request = core.request /\ e.awaiting = TRUE
      /\ e.clientClosed = core.clientClosed
  BY <1>1 DEF Alike, Core
<1>4. Fits(e)
  <2> HIDE DEF e, core
  <2> QED
    BY <1>1, <1>3, AlikeFits DEF core
<1>5. /\ pump' \in PumpState /\ pump'.stage = "events"
      /\ pump'.conn = pump.conn /\ pump'.commands = <<>>
      /\ pump'.frame = frame
  BY <1>1 DEF PumpState, Stages
<1> HIDE DEF e
<1>6. /\ conn'[pump.conn] = e
      /\ \A j \in Connections : j # pump.conn => conn'[j] = conn[j]
  BY <1>1, <1>2, <1>4, CoreChanges DEF Shape
<1>7. PumpOK'
  <2>1. pump'.conn <= current'
    BY <1>1, <1>5 DEF Pumping
  <2>2. /\ pump'.conn \in Connections /\ conn'[pump'.conn].phase = "bound"
    BY <1>1, <1>3, <1>5, <1>6
  <2>3. /\ pump'.frame.kind = "events" /\ pump'.frame.command = 0
        /\ pump'.stage = "events" /\ pump'.commands = <<>>
    BY <1>5
  <2>4. Pumping'
    BY <2>1, <2>2, <2>3 DEF Pumping
  <2> QED
    BY <1>1, <1>5, <2>4 DEF PumpOK
<1>8. Shape'
  BY <1>1, <1>2, <1>3, <1>4, <1>7, PumpShape DEF core
<1>9. ~core.closed /\ ~e.closed
  BY <1>3 DEF Alike
<1>10. Numbered'
  <2>1. CASE mode = "closed"
    BY <2>1 DEF Numbered
  <2>2. CASE mode # "closed"
    <3>1. \/ conn'[current].closed
          \/ /\ ~conn[current].closed
             /\ conn'[current].nextSerial = conn[current].nextSerial
      <4>1. CASE pump.conn = current
        BY <1>3, <1>6, <1>9, <4>1 DEF Alike
      <4>2. CASE pump.conn # current
        BY <1>1, <1>6, <2>2, <4>2
      <4> QED
        BY <4>1, <4>2
    <3> QED
      BY <1>1, <3>1, NumberedKept
  <2> QED
    BY <2>1, <2>2
<1>11. Once'
  <2>1. mode # "closed" =>
           /\ conn'[current].commands = conn[current].commands
           /\ conn'[current].control = conn[current].control
    <3>1. CASE pump.conn = current
      BY <1>3, <1>6, <3>1 DEF Alike
    <3>2. CASE pump.conn # current
      BY <1>1, <1>6, <3>2
    <3> QED
      BY <3>1, <3>2
  <2> QED
    BY <1>5, <1>8, <2>1, OnceSame
<1>12. NoLostWait'
  <2>1. ASSUME NEW i \in Connections, Waits(conn'[i])
        PROVE  \/ Answering(i)'
               \/ Waits(conn[i]) /\ (Answering(i) => Answering(i)')
    <3>1. CASE i = pump.conn
      BY <1>5, <3>1 DEF Answering
    <3>2. CASE i # pump.conn
      <4>1. conn'[i] = conn[i]
        BY <1>6, <3>2
      <4> QED
        BY <2>1, <3>2, <4>1 DEF Answering
    <3> QED
      BY <3>1, <3>2
  <2> QED
    BY <1>1, <2>1, WaitKept
<1>13. Answers'
  <2>1. CASE mode = "closed"
    BY <2>1 DEF Answers
  <2>2. CASE mode # "closed" /\ pump.conn # current
    <3>1. \A n \in 1..Len(toServer[current]) :
             toServer[current][n].request.serial <= policy.lastPoll.serial
      BY <1>1, <2>2 DEF Answers, Timely
    <3>2. \/ conn'[current].closed /\ conn'[current].events = <<>>
          \/ /\ ~conn[current].closed /\ ~conn'[current].closed
             /\ conn'[current].events = conn[current].events
             /\ conn'[current].request = conn[current].request
             /\ conn'[current].awaiting = conn[current].awaiting
      <4>1. conn'[current] = conn[current] /\ Fits(conn[current])
        BY <1>1, <1>6, <2>2
      <4> QED
        BY <4>1, CloseFacts DEF Fits
    <3>3. pump'.conn # current
      BY <1>5, <2>2
    <3> QED
      BY <1>1, <3>1, <3>2, <3>3, AnswersKept
  <2>3. CASE mode # "closed" /\ pump.conn = current
    <3> SUFFICES (Ordered /\ Timely /\ Asking)'
      BY DEF Answers
    <3>1. /\ Ordered /\ Timely /\ Asking
      BY <1>1, <2>3 DEF Answers
    <3> DEFINE s == pump.request.serial
    <3>2. /\ s <= policy.lastPoll.serial
          /\ s <= conn[current].request.serial
          /\ \A r \in Nat : Told(r) => r < s
      BY <2>3, <3>1 DEF Asking
    <3>3. /\ conn'[current].events = conn[current].events
          /\ conn'[current].request = conn[current].request
          /\ conn'[current].awaiting /\ ~conn'[current].closed
          /\ ~conn[current].closed
      BY <1>3, <1>6, <1>9, <2>3 DEF Alike
    <3>4. /\ \A r : Told(r)' <=> Told(r)
          /\ \A r : Staged(r)' <=> r = s
      <4>1. \A r : Told(r)' <=> Told(r)
        BY <3>3 DEF Told, Asks
      <4>2. \A r : Staged(r)' <=> r = s
        BY <1>5, <2>3 DEF Staged
      <4> QED
        BY <4>1, <4>2
    <3>5. Ordered'
      <4>1. /\ Rising(toClient[current])' <=> Rising(toClient[current])
            /\ Rising(conn[current].events)'
                  <=> Rising(conn[current].events)
            /\ \A r : Asks(toClient[current], r)'
                         <=> Asks(toClient[current], r)
            /\ \A r : Asks(conn[current].events, r)'
                         <=> Asks(conn[current].events, r)
        BY <3>3 DEF Rising, Asks
      <4>2. \A r, t \in Nat : Told(r)' /\ Staged(t)' => r < t
        BY <3>2, <3>4
      <4> QED
        BY <3>1, <4>1, <4>2 DEF Ordered
    <3>6. Timely'
      <4>1. \A r \in Nat : Told(r)' \/ Staged(r)' =>
               /\ r <= policy'.lastPoll.serial
               /\ r <= conn'[current].request.serial
        BY <3>1, <3>2, <3>3, <3>4 DEF Timely
      <4> QED
        BY <3>1, <3>3, <4>1 DEF Timely
    <3>7. Asking'
      BY <1>5 DEF Asking
    <3> QED
      BY <3>5, <3>6, <3>7
  <2> QED
    BY <2>1, <2>2, <2>3
<1> QED
  BY <1>8, <1>10, <1>11, <1>12, <1>13 DEF Inv

(* PumpPoll keeps the invariant.                                            *)
LEMMA PumpPollOK ==
    ASSUME Inv, PumpPoll
    PROVE  Inv'
<1> USE DEF clientVars
<1>1. /\ Shape /\ pump.stage = "commands" /\ pump.commands = <<>>
      /\ pump.conn \in Connections /\ SessionOK /\ PumpOK /\ ClientOK
      /\ head' = head /\ refusals' = refusals
      /\ UNCHANGED <<clientVars, toServer, toClient>>
  BY ShapeFacts, PumpFacts DEF Inv, PumpPoll
<1>2. CASE conn[pump.conn].closed
  <2>1. /\ pump' = Idle /\ conn' = conn /\ subscriber' = subscriber
    BY <1>2 DEF PumpPoll
  <2>2. SessionOK' /\ PumpOK'
    <3>1. SessionOK'
      BY <1>1, <2>1 DEF SessionOK
    <3>2. PumpOK'
      BY <1>1, <2>1, IdleOK DEF PumpOK
    <3> QED
      BY <3>1, <3>2
  <2>3. Shape'
    BY <1>1, <2>1, <2>2, ServerOnly
  <2>4. /\ pump'.stage = "idle" /\ pump'.commands = <<>>
        /\ Quiet(conn[pump.conn], conn'[pump.conn])
    BY <1>1, <2>1, ShapeFacts, QuietSame DEF Idle
  <2> QED
    BY <1>1, <1>2, <2>1, <2>3, <2>4, OneQuiet, CalmSame
<1>3. CASE ~conn[pump.conn].closed /\ pump.awaiting
  <2>1. PumpQuiet(pump.conn) /\ subscriber' = subscriber
    BY <1>3 DEF PumpPoll
  <2>2. SessionOK'
    BY <1>1, <2>1 DEF SessionOK
  <2> QED
    BY <1>1, <2>1, <2>2, PumpQuietOK
<1>4. CASE ~conn[pump.conn].closed /\ ~pump.awaiting
  <2>1. PICK polled \in SUBSET Terminals : PumpAnswer(polled)
    BY <1>4 DEF PumpPoll
  <2> DEFINE frame == EventsFrame(pump.request.serial, PollAnswer(polled))
  <2>2. SessionOK' /\ frame \in ServerFrame
    BY <1>1, <2>1, PollTypes DEF PumpAnswer
  <2>3. CASE HasEvents(polled)
    <3>1. /\ conn' = [conn EXCEPT ![pump.conn].awaiting = TRUE]
          /\ pump' = [pump EXCEPT !.stage = "events", !.frame = frame]
      BY <2>1, <2>3 DEF PumpAnswer
    <3>2. /\ frame.kind = "events" /\ frame.command = 0
          /\ frame.request = pump.request.serial
      BY DEF EventsFrame, NewFrame
    <3> HIDE DEF frame
    <3> QED
      BY <1>1, <1>4, <2>2, <3>1, <3>2, PumpAnswerOK
  <2>4. CASE ~HasEvents(polled)
    <3>1. PumpQuiet(pump.conn)
      BY <2>1, <2>4 DEF PumpAnswer
    <3> QED
      BY <1>1, <2>2, <3>1, PumpQuietOK
  <2> QED
    BY <2>3, <2>4
<1> QED
  BY <1>2, <1>3, <1>4

(* A command is taken from what the state thread holds, and its result is   *)
(* queued.                                                                  *)
LEMMA PumpCommandOK ==
    ASSUME Inv, PumpCommand
    PROVE  Inv'
<1> USE DEF clientVars
<1> DEFINE core == conn[pump.conn]
           d == Head(pump.commands)
           frame == ResultFrame(d)
           e == Enqueue(core, frame)
           rest == IF e.closed THEN <<>> ELSE Tail(pump.commands)
<1>1. /\ Shape /\ Numbered /\ Once /\ Answers /\ NoLostWait
      /\ pump.conn \in Connections /\ core \in Core /\ Fits(core)
      /\ pump.stage = "commands" /\ pump.commands # <<>>
      /\ pump \in PumpState /\ PumpOK /\ Pumping /\ SessionOK
      /\ mode # "closed" => current \in Connections
      /\ \A i \in Connections : Fits(conn[i])
      /\ UNCHANGED <<refusals, clientVars, toServer, toClient>>
  BY ShapeFacts, PumpFacts DEF Inv, PumpOK, PumpCommand
<1>2. core.closed \/ core.phase = "bound"
  BY <1>1, PumpFacts
<1>3. /\ conn' = [conn EXCEPT ![pump.conn] = e]
      /\ pump' = [pump EXCEPT !.commands = rest]
  BY DEF PumpCommand
<1>4. /\ pump.commands \in Seq(Commands) /\ d \in Commands
      /\ Tail(pump.commands) \in Seq(Commands)
      /\ frame \in ServerFrame /\ frame \in Replies
  <2>1. pump.commands \in Seq(Commands)
    BY <1>1 DEF PumpState
  <2> QED
    BY <1>1, <2>1, HeadAndTail, FrameTypes
<1>5. frame.kind = "result" /\ frame.command = d
  BY DEF ResultFrame, NewFrame
<1> HIDE DEF frame, core
<1>6. /\ Fits(e)
      /\ \/ core.closed /\ e = core
         \/ ~core.closed /\ e = Close(core)
         \/ Queues(core, frame, e)
  BY <1>1, <1>2, <1>4, <1>5, FitsFacts, EnqueueFits, EnqueueFacts
<1> HIDE DEF e
<1>7. /\ e.closed \/ e.phase = "bound"
      /\ core.closed => e = core
  BY <1>2, <1>6, CloseFacts DEF Queues
<1>8. \/ /\ e.closed /\ e.commands = <<>> /\ e.control = <<>>
         /\ e.events = <<>>
      \/ /\ ~core.closed /\ ~e.closed /\ e.phase = core.phase
         /\ e.request = core.request /\ e.awaiting = core.awaiting
         /\ e.commands = core.commands /\ e.events = core.events
         /\ e.nextSerial = core.nextSerial
         /\ e.clientClosed = core.clientClosed
         /\ e.control = Append(core.control, frame)
  <2>1. CASE core.closed /\ e = core
    BY <1>1, <2>1, CloseFacts DEF Fits
  <2>2. CASE ~core.closed /\ e = Close(core)
    BY <2>2, CloseFacts
  <2>3. CASE Queues(core, frame, e)
    BY <1>5, <2>3 DEF Queues
  <2> QED
    BY <1>6, <2>1, <2>2, <2>3
<1>9. /\ conn'[pump.conn] = e
      /\ \A j \in Connections : j # pump.conn => conn'[j] = conn[j]
  BY <1>1, <1>3, <1>6, CoreChanges DEF Shape
<1>10. /\ pump' \in PumpState /\ pump'.stage = "commands"
       /\ pump'.conn = pump.conn /\ pump'.request = pump.request
       /\ pump'.awaiting = pump.awaiting /\ pump'.frame = pump.frame
       /\ pump'.commands = rest
  <2>1. rest \in Seq(Commands)
    BY <1>4, EmptySeq
  <2> HIDE DEF rest
  <2> QED
    BY <1>1, <1>3, <2>1 DEF PumpState
<1>11. PumpOK'
  <2>1. conn'[pump'.conn].closed \/ conn'[pump'.conn].phase = "bound"
    BY <1>7, <1>9, <1>10
  <2>2. pump'.conn <= current' /\ pump'.conn \in Connections
    BY <1>1, <1>10 DEF Pumping
  <2>3. pump'.frame.command = 0
    BY <1>1, <1>10 DEF Pumping
  <2>4. Pumping'
    BY <1>10, <2>1, <2>2, <2>3 DEF Pumping
  <2> QED
    BY <1>1, <1>10, <2>4 DEF PumpOK
<1>12. SessionOK'
  <2>1. CASE UNCHANGED <<head, subscriber>>
    BY <1>1, <2>1 DEF SessionOK
  <2>2. CASE \E t \in Terminals : Change(t)
    BY <1>1, <2>2, ChangeOK
  <2> QED
    BY <2>1, <2>2 DEF PumpCommand
<1>13. Shape'
  BY <1>1, <1>3, <1>6, <1>7, <1>11, <1>12, PumpShape DEF core
<1>14. ASSUME mode # "closed"
       PROVE  \/ conn'[current].closed /\ conn'[current].events = <<>>
              \/ /\ ~conn[current].closed /\ ~conn'[current].closed
                 /\ conn'[current].events = conn[current].events
                 /\ conn'[current].request = conn[current].request
                 /\ conn'[current].awaiting = conn[current].awaiting
                 /\ conn'[current].nextSerial = conn[current].nextSerial
  <2>1. CASE pump.conn = current
    BY <1>8, <1>9, <2>1 DEF core
  <2>2. CASE pump.conn # current
    <3>1. conn'[current] = conn[current] /\ Fits(conn[current])
      BY <1>1, <1>9, <1>14, <2>2
    <3> QED
      BY <3>1, CloseFacts DEF Fits
  <2> QED
    BY <2>1, <2>2
<1>15. Numbered'
  <2>1. CASE mode = "closed"
    BY <1>1, <2>1 DEF Numbered
  <2>2. CASE mode # "closed"
    BY <1>1, <1>14, <2>2, NumberedKept
  <2> QED
    BY <2>1, <2>2
<1>16. Answers'
  <2>1. CASE mode = "closed"
    BY <1>1, <2>1 DEF Answers
  <2>2. CASE mode # "closed"
    <3>1. \A n \in 1..Len(toServer'[current]) :
             toServer'[current][n].request.serial <= policy.lastPoll.serial
      BY <1>1, <2>2 DEF Answers, Timely
    <3> QED
      BY <1>1, <1>10, <1>14, <2>2, <3>1, AnswersKept
  <2> QED
    BY <2>1, <2>2
<1>17. NoLostWait'
  <2>1. ASSUME NEW i \in Connections, Waits(conn'[i])
        PROVE  Waits(conn[i]) /\ (Answering(i) => Answering(i)')
    <3>1. conn'[i].events = conn[i].events /\ Waits(conn[i])
      <4>1. CASE i = pump.conn
        BY <1>8, <1>9, <2>1, <4>1 DEF Waits, Live, core
      <4>2. CASE i # pump.conn
        BY <1>9, <2>1, <4>2
      <4> QED
        BY <4>1, <4>2
    <3>2. pump.stage # "events"
      BY <1>1
    <3> QED
      BY <1>1, <3>1, <3>2 DEF Answering
  <2> QED
    BY <1>1, <2>1, WaitKept
<1>18. Once'
  <2>1. CASE mode = "closed"
    BY <1>1, <2>1 DEF Once
  <2>2. CASE mode # "closed" /\ pump.conn # current
    <3>1. conn'[current] = conn[current]
      BY <1>1, <1>9, <2>2
    <3>2. ASSUME NEW c \in Commands
          PROVE  /\ Total(c) \in Nat /\ Total(c)' \in Nat
                 /\ Total(c)' <= Total(c)
      <4>1. Total(c) \in Nat
        BY <1>1, <2>2, TotalParts
      <4>2. Held(c) = 0 /\ Held(c)' = 0
        BY <1>1, <1>10, <2>2 DEF Held
      <4>3. Total(c)' = Total(c)
        BY <1>1, <3>1, <4>2 DEF Total, Named, Number, Where
      <4> QED
        BY <4>1, <4>3
    <3> QED
      BY <1>1, <2>2, <3>2, OnceKept
  <2>3. CASE mode # "closed" /\ pump.conn = current
    <3>1. ASSUME NEW c \in Commands
          PROVE  /\ Total(c) \in Nat /\ Total(c)' \in Nat
                 /\ Total(c)' <= Total(c)
      <4>1. /\ Named(toServer[current], c) \in Nat
            /\ Number(core.commands, c) \in Nat
            /\ Number(pump.commands, c) \in Nat /\ Held(c) \in Nat
            /\ Named(core.control, c) \in Nat
            /\ Named(toClient[current], c) \in Nat
            /\ Total(c) \in Nat
        BY <1>1, <2>3, TotalParts DEF core
      <4>2. Total(c) = Named(toServer[current], c)
                          + Number(core.commands, c)
                          + Held(c) + Named(core.control, c)
                          + Named(toClient[current], c)
        BY <2>3 DEF Total, core
      <4>3. /\ Number(e.commands, c) \in Nat /\ Held(c)' \in Nat
            /\ Named(e.control, c) \in Nat
            /\ Held(c)' = Number(rest, c)
            /\ Total(c)' = Named(toServer[current], c)
                              + Number(e.commands, c)
                              + Held(c)' + Named(e.control, c)
                              + Named(toClient[current], c)
        BY <1>1, <1>9, <1>10, <1>13, <2>3, TotalNext
      <4>4. Held(c) = Number(pump.commands, c)
        BY <2>3 DEF Held
      <4>5. CASE e.closed
        <5>1. /\ e.commands = <<>> /\ e.control = <<>> /\ rest = <<>>
          BY <1>8, <4>5
        <5>2. /\ Number(e.commands, c) <= Number(core.commands, c)
              /\ Held(c)' <= Held(c)
              /\ Named(e.control, c) <= Named(core.control, c)
          <6>1. /\ Number(e.commands, c) = 0 /\ Named(e.control, c) = 0
                /\ Number(rest, c) = 0
            <7> HIDE DEF rest
            <7> QED
              BY <5>1, NumberEmpty, NamedEmpty
          <6> HIDE DEF rest
          <6> QED
            BY <4>1, <4>3, <6>1
        <5> QED
          BY <4>1, <4>2, <4>3, <5>2, SumOrder, SMTT(30)
      <4>6. CASE ~e.closed
        <5>1. /\ e.commands = core.commands /\ rest = Tail(pump.commands)
              /\ e.control = Append(core.control, frame)
          BY <1>8, <4>6
        <5> DEFINE one == IF d = c THEN 1 ELSE 0
        <5>2. /\ Number(pump.commands, c)
                    = Number(Tail(pump.commands), c) + one
          BY <1>1, <1>4, NumberTail
        <5>3. Named(e.control, c) = Named(core.control, c) + one
          <6>1. core.control \in Seq(ServerFrame)
            BY <1>1, CoreFields
          <6> QED
            BY <1>4, <1>5, <5>1, <6>1, FramesNamed, NamedAppend
        <5>4. one \in Nat
          OBVIOUS
        <5>5. Held(c) = Held(c)' + one
          BY <4>3, <4>4, <5>1, <5>2
        <5>6. Number(e.commands, c) = Number(core.commands, c)
          BY <5>1
        <5> HIDE DEF one, rest, d
        <5>7. Total(c)' = Total(c)
          BY <4>1, <4>2, <4>3, <5>3, <5>4, <5>5, <5>6
        <5> QED
          BY <4>1, <5>7
      <4> QED
        BY <4>5, <4>6
    <3> QED
      BY <1>1, <2>3, <3>1, OnceKept
  <2> QED
    BY <2>1, <2>2, <2>3
<1> QED
  BY <1>13, <1>15, <1>16, <1>17, <1>18 DEF Inv

(* The state thread reads a connection: some of its commands become its     *)
(* own, and the request it has is the one the session will be asked.        *)
LEMMA PumpBeginOK ==
    ASSUME Inv, NEW i \in Connections, PumpBegin(i)
    PROVE  Inv'
<1> USE DEF clientVars
<1> DEFINE core == conn[i]
           taken == IF Len(core.commands) < CommandsPerPump
                    THEN Len(core.commands) ELSE CommandsPerPump
           first == SubSeq(core.commands, 1, taken)
           rest == SubSeq(core.commands, taken + 1, Len(core.commands))
           e == [core EXCEPT !.commands = rest]
<1>1. /\ Shape /\ Numbered /\ Once /\ Answers /\ NoLostWait
      /\ core \in Core /\ Fits(core) /\ PumpOK /\ Pumping
      /\ pump.stage = "idle" /\ core.phase = "bound" /\ ~core.closed
      /\ mode # "closed" => current \in Connections
      /\ \A j \in Connections : Fits(conn[j])
      /\ UNCHANGED <<head, subscriber, refusals, clientVars,
                     toServer, toClient>>
  BY ShapeFacts DEF Inv, PumpOK, PumpBegin, Live
<1>2. /\ conn' = [conn EXCEPT ![i] = e]
      /\ pump' = [stage |-> "commands", conn |-> i,
                  request |-> core.request, awaiting |-> core.awaiting,
                  commands |-> first, frame |-> NoFrame]
  BY DEF PumpBegin
<1> HIDE DEF core
<1>3. /\ core.commands \in Seq(Commands) /\ Len(core.commands) \in Nat
      /\ core.request \in Request /\ core.awaiting \in BOOLEAN
      /\ Len(core.commands) <= CommandRoom
  BY <1>1, CoreFields DEF Fits, CoreOK
<1>4. taken \in 0..Len(core.commands)
  BY <1>3, StreamAssumption DEF StreamAssumption
<1> HIDE DEF taken
<1>5. /\ first \in Seq(Commands) /\ rest \in Seq(Commands)
      /\ Len(rest) <= CommandRoom
      /\ core.commands = first \o rest
  <2> DEFINE q == core.commands
  <2>1. /\ 1 \in 1..(Len(q) + 1) /\ taken \in (1 - 1)..Len(q)
        /\ Len(q) \in taken..Len(q)
    BY <1>3, <1>4
  <2>2. SubSeq(q, 1, taken) \o SubSeq(q, taken + 1, Len(q))
           = SubSeq(q, 1, Len(q))
    BY <1>3, <2>1, ConcatAdjacentSubSeq
  <2>3. SubSeq(q, 1, Len(q)) = q
    BY <1>3, SubSeqFull
  <2>4. \A n \in 1..Len(q) : q[n] \in Commands
    BY <1>3, ElementOfSeq
  <2>5. /\ \A n \in 1..taken : n \in 1..Len(q)
        /\ \A n \in (taken + 1)..Len(q) : n \in 1..Len(q)
        /\ taken \in Nat /\ taken + 1 \in Nat
    BY <1>3, <1>4
  <2>6. first \in Seq(Commands)
    BY <1>3, <2>4, <2>5, SubSeqProperties
  <2>7. /\ rest \in Seq(Commands)
        /\ Len(rest) = IF taken + 1 <= Len(q)
                       THEN Len(q) - (taken + 1) + 1 ELSE 0
    BY <1>3, <2>4, <2>5, SubSeqProperties
  <2>8. Len(rest) <= CommandRoom
    <3> HIDE DEF rest, q
    <3> QED
      BY <1>3, <1>4, <2>5, <2>7, StreamAssumption
      DEF StreamAssumption, q
  <2> QED
    BY <2>2, <2>3, <2>6, <2>7, <2>8
<1> HIDE DEF first, rest
<1>6. /\ Fits(e) /\ e.commands = rest
      /\ e.phase = "bound" /\ ~e.closed
      /\ e.request = core.request /\ e.awaiting = core.awaiting
      /\ e.control = core.control /\ e.events = core.events
      /\ e.nextSerial = core.nextSerial
      /\ e.clientClosed = core.clientClosed
  BY <1>1, <1>5, CommandsFit
<1> HIDE DEF e
<1>7. /\ conn'[i] = e
      /\ \A j \in Connections : j # i => conn'[j] = conn[j]
  BY <1>1, <1>2, <1>6, CoreChanges DEF Shape
<1>8. /\ pump' \in PumpState /\ pump'.stage = "commands"
      /\ pump'.conn = i /\ pump'.request = core.request
      /\ pump'.awaiting = core.awaiting /\ pump'.commands = first
      /\ pump'.frame = NoFrame
  BY <1>2, <1>3, <1>5, FrameTypes DEF PumpState, Stages
<1>9. ~(i > current)
  BY <1>1, InUse DEF core
<1>10. PumpOK'
  <2>1. i <= current
    <3>1. i \in Nat /\ current \in Nat
      BY <1>1, StreamAssumption DEF StreamAssumption, Shape, ClientOK
    <3> QED
      BY <1>9, <3>1
  <2>2. NoFrame.command = 0
    BY DEF NoFrame, NewFrame
  <2>3. Pumping'
    BY <1>1, <1>6, <1>7, <1>8, <2>1, <2>2 DEF Pumping
  <2> QED
    BY <1>1, <1>8, <2>3 DEF PumpOK
<1>11. SessionOK'
  BY <1>1 DEF Shape, SessionOK
<1>12. Shape'
  <2>1. ~(mode = "opening" /\ i = current)
    BY <1>1 DEF Shape, ClientOK, Opening, core
  <2> QED
    BY <1>1, <1>2, <1>6, <1>9, <1>10, <1>11, <2>1, ShapeKept
    DEF Shape, WiresOK
<1>13. ASSUME mode # "closed"
       PROVE  \/ conn'[current].closed /\ conn'[current].events = <<>>
              \/ /\ ~conn[current].closed /\ ~conn'[current].closed
                 /\ conn'[current].events = conn[current].events
                 /\ conn'[current].request = conn[current].request
                 /\ conn'[current].awaiting = conn[current].awaiting
                 /\ conn'[current].nextSerial = conn[current].nextSerial
  <2>1. CASE i = current
    BY <1>1, <1>6, <1>7, <2>1 DEF core
  <2>2. CASE i # current
    <3>1. conn'[current] = conn[current] /\ Fits(conn[current])
      BY <1>1, <1>7, <1>13, <2>2
    <3> QED
      BY <3>1, CloseFacts DEF Fits
  <2> QED
    BY <2>1, <2>2
<1>14. Numbered'
  <2>1. CASE mode = "closed"
    BY <1>1, <2>1 DEF Numbered
  <2>2. CASE mode # "closed"
    BY <1>1, <1>13, <2>2, NumberedKept
  <2> QED
    BY <2>1, <2>2
<1>15. Answers'
  <2>1. CASE mode = "closed"
    BY <1>1, <2>1 DEF Answers
  <2>2. CASE mode # "closed"
    <3>1. /\ Timely
          /\ \A n \in 1..Len(toServer'[current]) :
             toServer'[current][n].request.serial <= policy.lastPoll.serial
      BY <1>1, <2>2 DEF Answers, Timely
    <3>2. pump'.conn # current \/ Asking'
      <4>1. CASE i # current
        BY <1>8, <4>1
      <4>2. CASE i = current
        <5>1. conn'[current].events = conn[current].events
          BY <1>6, <1>7, <4>2 DEF core
        <5>2. \A r : Told(r)' <=> Told(r)
          BY <1>1, <5>1 DEF Told, Asks
        <5>3. /\ core.request.serial <= policy.lastPoll.serial
              /\ core.request.serial \in Nat
              /\ ~core.awaiting =>
                    \A r \in Nat : Told(r) => r < core.request.serial
          BY <1>1, <3>1, <4>2, CoreFields DEF Timely, core
        <5>4. core.request.serial <= conn'[current].request.serial
          BY <1>6, <1>7, <4>2, <5>3
        <5> QED
          BY <1>1, <1>8, <5>2, <5>3, <5>4 DEF Asking
      <4> QED
        BY <4>1, <4>2
    <3>3. pump'.stage # "events"
      BY <1>8
    <3> QED
      BY <1>1, <1>13, <2>2, <3>1, <3>2, <3>3, AnswersKept
  <2> QED
    BY <2>1, <2>2
<1>16. NoLostWait'
  <2>1. ASSUME NEW j \in Connections, Waits(conn'[j])
        PROVE  Waits(conn[j]) /\ (Answering(j) => Answering(j)')
    <3>1. conn'[j].events = conn[j].events /\ Waits(conn[j])
      <4>1. CASE j = i
        BY <1>1, <1>6, <1>7, <2>1, <4>1 DEF Waits, Live, core
      <4>2. CASE j # i
        BY <1>7, <2>1, <4>2
      <4> QED
        BY <4>1, <4>2
    <3>2. pump.stage # "events"
      BY <1>1
    <3> QED
      BY <1>1, <3>1, <3>2 DEF Answering
  <2> QED
    BY <1>1, <2>1, WaitKept
<1>17. Once'
  <2>1. CASE mode = "closed"
    BY <1>1, <2>1 DEF Once
  <2>2. CASE mode # "closed" /\ i # current
    <3>1. conn'[current] = conn[current]
      BY <1>1, <1>7, <2>2
    <3>2. pump.commands = <<>>
      BY <1>1 DEF Pumping
    <3>3. ASSUME NEW c \in Commands
          PROVE  /\ Total(c) \in Nat /\ Total(c)' \in Nat
                 /\ Total(c)' <= Total(c)
      <4>1. Total(c) \in Nat
        BY <1>1, <2>2, TotalParts
      <4>2. Held(c) = 0
        BY <3>2, NumberEmpty DEF Held
      <4>3. Held(c)' = 0
        BY <1>1, <1>8, <2>2 DEF Held
      <4>4. Total(c)' = Total(c)
        BY <1>1, <3>1, <4>2, <4>3 DEF Total, Named, Number, Where
      <4> QED
        BY <4>1, <4>4
    <3> QED
      BY <1>1, <2>2, <3>3, OnceKept
  <2>3. CASE mode # "closed" /\ i = current
    <3>1. pump.commands = <<>>
      BY <1>1 DEF Pumping
    <3>2. ASSUME NEW c \in Commands
          PROVE  /\ Total(c) \in Nat /\ Total(c)' \in Nat
                 /\ Total(c)' <= Total(c)
      <4>1. /\ Named(toServer[current], c) \in Nat
            /\ Number(core.commands, c) \in Nat /\ Held(c) \in Nat
            /\ Named(core.control, c) \in Nat
            /\ Named(toClient[current], c) \in Nat
            /\ Total(c) \in Nat
        BY <1>1, <2>3, TotalParts DEF core
      <4>2. Total(c) = Named(toServer[current], c)
                          + Number(core.commands, c)
                          + Held(c) + Named(core.control, c)
                          + Named(toClient[current], c)
        BY <2>3 DEF Total, core
      <4>3. /\ Number(rest, c) \in Nat /\ Number(first, c) \in Nat
            /\ Held(c)' = Number(first, c)
            /\ Total(c)' = Named(toServer[current], c)
                              + Number(rest, c)
                              + Held(c)' + Named(core.control, c)
                              + Named(toClient[current], c)
        BY <1>1, <1>6, <1>7, <1>8, <1>12, <2>3, TotalNext
      <4>4. Held(c) = 0
        BY <3>1, NumberEmpty DEF Held
      <4>5. Number(core.commands, c) = Number(first, c) + Number(rest, c)
        BY <1>5, NumberConcat
      <4>6. Total(c)' = Total(c)
        BY <4>1, <4>2, <4>3, <4>4, <4>5
      <4> QED
        BY <4>1, <4>6
    <3> QED
      BY <1>1, <2>3, <3>2, OnceKept
  <2> QED
    BY <2>1, <2>2, <2>3
<1> QED
  BY <1>12, <1>14, <1>15, <1>16, <1>17 DEF Inv


(* The reader takes a command.                                              *)
LEMMA ReadCommandOK ==
    ASSUME Inv, NEW i \in Connections, ReadCommand(i)
    PROVE  Inv'
<1> DEFINE core == conn[i]
           d == Head(toServer[i]).command
           longer == Append(core.commands, d)
           e == IF Len(core.commands) >= CommandRoom THEN Close(core)
                ELSE [core EXCEPT !.commands = longer]
<1>0. Reads(i, "command") /\ conn[i].phase = "bound" /\ ~conn[i].closed
  BY DEF ReadCommand, Reads
<1>1. /\ Shape /\ Numbered /\ Once /\ Answers /\ NoLostWait
      /\ Fits(core) /\ core \in Core
      /\ core.phase = "bound" /\ ~core.closed
      /\ mode # "closed" => current \in Connections
      /\ \A j \in Connections : Fits(conn[j])
  <2>1. Shape /\ Numbered /\ Once /\ Answers /\ NoLostWait
    BY DEF Inv
  <2>2. /\ mode # "closed" => current \in Connections
        /\ \A j \in Connections : Fits(conn[j]) /\ conn[j] \in Core
    BY <2>1, ShapeFacts
  <2> QED
    BY <1>0, <2>1, <2>2
<1>2. conn' = [conn EXCEPT ![i] = e]
  BY DEF ReadCommand
<1>3. /\ toServer[i] \in Seq(Sent) /\ toServer[i] # <<>>
      /\ Head(toServer[i]).kind = "command"
      /\ Head(toServer[i]) \in Sent
      /\ toServer'[i] = Tail(toServer[i])
      /\ \A j \in Connections : j # i => toServer'[j] = toServer[j]
      /\ toClient' = toClient /\ pump' = pump /\ UNCHANGED clientVars
  BY <1>0, <1>1, ReadsFacts
<1>4. \A j \in Connections :
         Calm(toServer[j], toServer'[j], conn'[j])
  BY <1>3 DEF Calm
<1>5. CASE Len(core.commands) >= CommandRoom
  <2>1. e = Close(core)
    BY <1>5
  <2> HIDE DEF e, core
  <2>2. Fits(e) /\ e.closed /\ Quiet(core, e)
    BY <2>1, CloseFits, CloseFacts, QuietClose
  <2>3. /\ Shape' /\ conn'[i] = e
        /\ \A j \in Connections : j # i => conn'[j] = conn[j]
    BY <1>0, <1>1, <1>2, <2>2, ReadShape
  <2> QED
    BY <1>3, <1>4, <2>2, <2>3, OneQuiet DEF core
<1>6. CASE ~(Len(core.commands) >= CommandRoom)
  <2> USE DEF clientVars
  <2>1. e = [core EXCEPT !.commands = longer]
    BY <1>6
  <2> HIDE DEF e, core
  <2>2. d \in Commands
    BY <1>3 DEF Sent
  <2>3. /\ core.commands \in Seq(Commands) /\ Len(core.commands) \in Nat
    BY <1>1, CoreFields
  <2> HIDE DEF d
  <2>4. longer \in Seq(Commands) /\ Len(longer) = Len(core.commands) + 1
    BY <2>2, <2>3, AppendProperties
  <2> HIDE DEF longer
  <2>5. Len(longer) <= CommandRoom
    BY <1>6, <2>3, <2>4, StreamAssumption DEF StreamAssumption
  <2>6. /\ Fits(e) /\ e.commands = longer /\ ~e.closed
        /\ e.phase = "bound"
        /\ e.request = core.request /\ e.awaiting = core.awaiting
        /\ e.control = core.control /\ e.events = core.events
        /\ e.nextSerial = core.nextSerial
        /\ e.clientClosed = core.clientClosed
    BY <1>1, <2>1, <2>4, <2>5, CommandsFit
  <2>7. /\ Shape' /\ conn'[i] = e
        /\ \A j \in Connections : j # i => conn'[j] = conn[j]
    BY <1>0, <1>1, <1>2, <2>6, ReadShape
  <2>8. ASSUME mode # "closed"
        PROVE  \/ conn'[current].closed /\ conn'[current].events = <<>>
               \/ /\ ~conn[current].closed /\ ~conn'[current].closed
                  /\ conn'[current].events = conn[current].events
                  /\ conn'[current].request = conn[current].request
                  /\ conn'[current].awaiting = conn[current].awaiting
                  /\ conn'[current].nextSerial = conn[current].nextSerial
    <3>1. CASE i = current
      BY <1>1, <2>6, <2>7, <3>1 DEF core
    <3>2. CASE i # current
      <4>1. conn'[current] = conn[current] /\ Fits(conn[current])
        BY <1>1, <2>7, <2>8, <3>2
      <4> QED
        BY <4>1, CloseFacts DEF Fits
    <3> QED
      BY <3>1, <3>2
  <2>9. Numbered'
    <3>1. CASE mode = "closed"
      BY <1>3, <3>1 DEF Numbered
    <3>2. CASE mode # "closed"
      BY <1>1, <1>3, <2>8, <3>2, NumberedKept
    <3> QED
      BY <3>1, <3>2
  <2>10. Answers'
    <3>1. CASE mode = "closed"
      BY <1>3, <3>1 DEF Answers
    <3>2. CASE mode # "closed"
      <4>1. \A n \in 1..Len(toServer'[current]) :
               toServer'[current][n].request.serial
                  <= policy.lastPoll.serial
        <5>1. /\ Timely /\ toServer[current] \in Seq(Sent)
              /\ policy.lastPoll.serial \in Nat
          BY <1>1, <3>2, ShapeFacts DEF Answers, ClientOK, Policy, Request
        <5>2. Calm(toServer[current], toServer'[current], conn'[current])
          BY <1>1, <1>4, <3>2
        <5>3. \A m \in Nat :
                 (\A n \in 1..Len(toServer[current]) :
                     toServer[current][n].request.serial <= m)
                    => \A n \in 1..Len(toServer'[current]) :
                          toServer'[current][n].request.serial <= m
          BY <5>1, <5>2, CalmFacts
        <5> QED
          BY <5>1, <5>3 DEF Timely
      <4> QED
        BY <1>1, <1>3, <2>8, <3>2, <4>1, AnswersKept
    <3> QED
      BY <3>1, <3>2
  <2>11. NoLostWait'
    <3>1. ASSUME NEW j \in Connections, Waits(conn'[j])
          PROVE  Waits(conn[j]) /\ (Answering(j) => Answering(j)')
      <4>1. /\ conn'[j].events = conn[j].events /\ Waits(conn[j])
            /\ ~conn'[j].closed
        <5>1. CASE j = i
          BY <1>1, <2>6, <2>7, <3>1, <5>1 DEF Waits, Live, core
        <5>2. CASE j # i
          BY <2>7, <3>1, <5>2 DEF Waits, Live
        <5> QED
          BY <5>1, <5>2
      <4>2. (\E n \in DOMAIN toServer[j] : toServer[j][n].kind = "update")
               => \E n \in DOMAIN toServer'[j] :
                     toServer'[j][n].kind = "update"
        <5>1. toServer[j] \in Seq(Sent)
          BY <1>1, ShapeFacts
        <5> QED
          BY <1>4, <4>1, <5>1, CalmFacts
      <4> QED
        BY <1>3, <4>1, <4>2 DEF Answering
    <3> QED
      BY <1>1, <3>1, WaitKept
  <2>12. Once'
    <3>1. CASE mode = "closed"
      BY <1>1, <1>3, <3>1 DEF Once
    <3>2. CASE mode # "closed"
      <4>1. ASSUME NEW c \in Commands
            PROVE  /\ Total(c) \in Nat /\ Total(c)' \in Nat
                   /\ Total(c)' <= Total(c)
        <5>1. /\ Named(toServer[current], c) \in Nat
              /\ Number(conn[current].commands, c) \in Nat
              /\ Held(c) \in Nat
              /\ Named(conn[current].control, c) \in Nat
              /\ Named(toClient[current], c) \in Nat
              /\ Total(c) \in Nat
              /\ Total(c) = Named(toServer[current], c)
                               + Number(conn[current].commands, c)
                               + Held(c) + Named(conn[current].control, c)
                               + Named(toClient[current], c)
          BY <1>1, <3>2, TotalParts DEF Total
        <5>2. /\ Named(toServer'[current], c) \in Nat
              /\ Number(conn'[current].commands, c) \in Nat
              /\ Held(c)' = Held(c)
              /\ Total(c)' = Named(toServer'[current], c)
                                + Number(conn'[current].commands, c)
                                + Held(c)
                                + Named(conn[current].control, c)
                                + Named(toClient[current], c)
          <6>1. conn'[current].control = conn[current].control
            BY <1>1, <2>6, <2>7, <3>2 DEF core
          <6>2. /\ Named(toServer'[current'], c) \in Nat
                /\ Number(conn'[current'].commands, c) \in Nat
                /\ Total(c)' = Named(toServer'[current'], c)
                      + Number(conn'[current'].commands, c)
                      + Held(c)' + Named(conn'[current'].control, c)
                      + Named(toClient'[current'], c)
            BY <1>1, <1>3, <2>7, <3>2, TotalNext
          <6>3. Held(c)' = Held(c)
            BY <1>3 DEF Held, Number, Where
          <6> QED
            BY <1>3, <6>1, <6>2, <6>3
        <5>3. CASE i # current
          <6>1. /\ toServer'[current] = toServer[current]
                /\ conn'[current] = conn[current]
            BY <1>1, <1>3, <2>7, <3>2, <5>3
          <6> QED
            BY <5>1, <5>2, <6>1
        <5>4. CASE i = current
          <6> DEFINE one == IF d = c THEN 1 ELSE 0
          <6>1. Named(toServer[current], c)
                   = Named(toServer'[current], c) + one
            BY <1>3, <5>4, FramesNamed, NamedTail DEF d
          <6>2. Number(conn'[current].commands, c)
                   = Number(conn[current].commands, c) + one
            <7>1. Number(longer, c) = Number(core.commands, c) + one
              BY <2>2, <2>3, NumberAppend DEF longer
            <7> HIDE DEF one
            <7> QED
              BY <2>6, <2>7, <5>4, <7>1 DEF core
          <6>3. one \in Nat
            OBVIOUS
          <6> HIDE DEF one
          <6> QED
            BY <5>1, <5>2, <6>1, <6>2, <6>3
        <5> QED
          BY <5>3, <5>4
      <4> QED
        BY <1>1, <1>3, <3>2, <4>1, OnceKept
    <3> QED
      BY <3>1, <3>2
  <2> QED
    BY <2>7, <2>9, <2>10, <2>11, <2>12 DEF Inv
<1> QED
  BY <1>5, <1>6

(* The reader takes an Update: the connection has a newer request, which    *)
(* nothing has answered yet, and no longer waits.                           *)
LEMMA ReadUpdateOK ==
    ASSUME Inv, NEW i \in Connections, ReadUpdate(i)
    PROVE  Inv'
<1> DEFINE core == conn[i]
           request == Head(toServer[i]).request
           later == [core EXCEPT !.request = request, !.awaiting = FALSE]
           e == IF request.serial <= core.request.serial THEN Close(core)
                ELSE later
<1>0. Reads(i, "update") /\ conn[i].phase = "bound" /\ ~conn[i].closed
  BY DEF ReadUpdate, Reads
<1>1. /\ Shape /\ Numbered /\ Once /\ Answers /\ NoLostWait
      /\ Fits(core) /\ core \in Core
      /\ core.phase = "bound" /\ ~core.closed
      /\ mode # "closed" => current \in Connections
      /\ \A j \in Connections : Fits(conn[j]) /\ conn[j] \in Core
  BY <1>0, ShapeFacts DEF Inv
<1>2. conn' = [conn EXCEPT ![i] = e]
  BY DEF ReadUpdate
<1>3. /\ toServer[i] \in Seq(Sent) /\ toServer[i] # <<>>
      /\ Head(toServer[i]).kind = "update"
      /\ Head(toServer[i]) \in Sent
      /\ toServer'[i] = Tail(toServer[i])
      /\ \A j \in Connections : j # i => toServer'[j] = toServer[j]
      /\ toClient' = toClient /\ pump' = pump /\ UNCHANGED clientVars
  BY <1>0, <1>1, ReadsFacts
<1>4. /\ request \in Request /\ request.serial \in Nat
      /\ core.request.serial \in Nat
  <2>1. request \in Request
    BY <1>3 DEF Sent, ClientFrame
  <2> QED
    BY <1>1, <2>1, CoreFields DEF Request
<1>5. CASE request.serial <= core.request.serial
  <2>1. e = Close(core)
    BY <1>5
  <2> HIDE DEF e, core, request
  <2>2. Fits(e) /\ e.closed /\ Quiet(core, e)
    BY <2>1, CloseFits, CloseFacts, QuietClose
  <2>3. /\ Shape' /\ conn'[i] = e
        /\ \A j \in Connections : j # i => conn'[j] = conn[j]
    BY <1>0, <1>1, <1>2, <2>2, ReadShape
  <2>4. \A j \in Connections : Calm(toServer[j], toServer'[j], conn'[j])
    BY <1>3, <2>2, <2>3 DEF Calm
  <2> QED
    BY <1>3, <2>2, <2>3, <2>4, OneQuiet DEF core
<1>6. CASE core.request.serial < request.serial
  <2> USE DEF clientVars
  <2>1. e = later
    BY <1>4, <1>6
  <2> HIDE DEF e, core, request
  <2>2. /\ Alike(core, later) /\ later.request = request
        /\ later.phase = core.phase /\ later.awaiting = FALSE
        /\ later.clientClosed = core.clientClosed
    BY <1>1, <1>4 DEF Alike, Core
  <2> HIDE DEF later
  <2>3. Fits(e) /\ ~e.closed /\ e.phase = "bound"
    BY <1>1, <2>1, <2>2, AlikeFits DEF Alike
  <2>4. /\ Shape' /\ conn'[i] = e
        /\ \A j \in Connections : j # i => conn'[j] = conn[j]
    BY <1>0, <1>1, <1>2, <2>3, ReadShape
  <2>5. /\ e.commands = core.commands /\ e.control = core.control
        /\ e.events = core.events /\ e.nextSerial = core.nextSerial
        /\ e.request = request /\ e.awaiting = FALSE
    BY <2>1, <2>2 DEF Alike
  <2>6. Numbered'
    <3>1. CASE mode = "closed"
      BY <1>3, <3>1 DEF Numbered
    <3>2. CASE mode # "closed"
      <4>1. \/ conn'[current].closed
            \/ /\ ~conn[current].closed
               /\ conn'[current].nextSerial = conn[current].nextSerial
        <5>1. CASE i = current
          BY <1>1, <2>4, <2>5, <5>1 DEF core
        <5>2. CASE i # current
          BY <1>1, <2>4, <3>2, <5>2
        <5> QED
          BY <5>1, <5>2
      <4> QED
        BY <1>1, <1>3, <3>2, <4>1, NumberedKept
    <3> QED
      BY <3>1, <3>2
  <2>7. Once'
    <3>1. CASE mode = "closed"
      BY <1>1, <1>3, <3>1 DEF Once
    <3>2. CASE mode # "closed"
      <4>1. ASSUME NEW c \in Commands
            PROVE  /\ Total(c) \in Nat /\ Total(c)' \in Nat
                   /\ Total(c)' <= Total(c)
        <5>1. /\ Named(toServer[current], c) \in Nat
              /\ Number(conn[current].commands, c) \in Nat
              /\ Held(c) \in Nat
              /\ Named(conn[current].control, c) \in Nat
              /\ Named(toClient[current], c) \in Nat
              /\ Total(c) \in Nat
              /\ Total(c) = Named(toServer[current], c)
                               + Number(conn[current].commands, c)
                               + Held(c) + Named(conn[current].control, c)
                               + Named(toClient[current], c)
          BY <1>1, <3>2, TotalParts DEF Total
        <5>2. /\ Named(toServer'[current], c) \in Nat
              /\ Total(c)' = Named(toServer'[current], c)
                                + Number(conn[current].commands, c)
                                + Held(c)
                                + Named(conn[current].control, c)
                                + Named(toClient[current], c)
          <6>1. /\ conn'[current].control = conn[current].control
                /\ conn'[current].commands = conn[current].commands
            BY <1>1, <2>4, <2>5, <3>2 DEF core
          <6>2. /\ Named(toServer'[current'], c) \in Nat
                /\ Total(c)' = Named(toServer'[current'], c)
                      + Number(conn'[current'].commands, c)
                      + Held(c)' + Named(conn'[current'].control, c)
                      + Named(toClient'[current'], c)
            BY <1>1, <1>3, <2>4, <3>2, TotalNext
          <6>3. Held(c)' = Held(c)
            BY <1>3 DEF Held, Number, Where
          <6> QED
            BY <1>3, <6>1, <6>2, <6>3
        <5>3. Named(toServer'[current], c) <= Named(toServer[current], c)
          <6>1. CASE i # current
            <7>1. toServer'[current] = toServer[current]
              BY <1>1, <1>3, <3>2, <6>1
            <7> QED
              BY <5>1, <7>1
          <6>2. CASE i = current
            <7>1. Named(toServer[current], c)
                     = Named(toServer'[current], c)
                          + (IF Head(toServer[i]).command = c THEN 1 ELSE 0)
              BY <1>3, <6>2, FramesNamed, NamedTail
            <7> QED
              BY <5>1, <5>2, <7>1
          <6> QED
            BY <6>1, <6>2
        <5> QED
          BY <5>1, <5>2, <5>3, SumOrder
      <4> QED
        BY <1>1, <1>3, <3>2, <4>1, OnceKept
    <3> QED
      BY <3>1, <3>2
  <2>8. NoLostWait'
    <3>1. ASSUME NEW j \in Connections, Waits(conn'[j])
          PROVE  Waits(conn[j]) /\ (Answering(j) => Answering(j)')
      <4>1. j # i
        BY <2>4, <2>5, <3>1 DEF Waits
      <4>2. conn'[j] = conn[j] /\ toServer'[j] = toServer[j]
        BY <1>3, <2>4, <4>1
      <4> QED
        BY <1>3, <3>1, <4>2 DEF Answering
    <3> QED
      BY <1>1, <3>1, WaitKept
  <2>9. Answers'
    <3>1. CASE mode = "closed"
      BY <1>3, <3>1 DEF Answers
    <3>2. CASE mode # "closed" /\ i # current
      <4>1. /\ conn'[current] = conn[current]
            /\ toServer'[current] = toServer[current]
            /\ Fits(conn[current])
        BY <1>1, <1>3, <2>4, <3>2
      <4>2. \/ conn'[current].closed /\ conn'[current].events = <<>>
            \/ ~conn[current].closed
        BY <4>1, CloseFacts DEF Fits
      <4>3. \A n \in 1..Len(toServer'[current]) :
               toServer'[current][n].request.serial
                  <= policy.lastPoll.serial
        BY <1>1, <3>2, <4>1 DEF Answers, Timely
      <4> QED
        BY <1>1, <1>3, <3>2, <4>1, <4>2, <4>3, AnswersKept
    <3>3. CASE mode # "closed" /\ i = current
      <4> SUFFICES (Ordered /\ Timely /\ Asking)'
        BY DEF Answers
      <4>1. /\ Ordered /\ Timely /\ Asking /\ current \in Connections
            /\ policy.lastPoll.serial \in Nat
        BY <1>1, <3>3, ShapeFacts DEF Answers, ClientOK, Policy, Request
      <4>2. /\ conn'[current].events = conn[current].events
            /\ conn'[current].request = request
            /\ ~conn[current].closed
            /\ conn[current].request.serial = core.request.serial
        BY <1>1, <2>4, <2>5, <3>3 DEF core
      <4>3. /\ \A r : Asks(toClient[current], r)'
                         <=> Asks(toClient[current], r)
            /\ \A r : Asks(conn[current].events, r)'
                         <=> Asks(conn[current].events, r)
            /\ Rising(toClient[current])' <=> Rising(toClient[current])
            /\ Rising(conn[current].events)'
                  <=> Rising(conn[current].events)
        BY <1>3, <4>2 DEF Asks, Rising
      <4>4. /\ \A r : Told(r)' <=> Told(r)
            /\ \A r : Staged(r)' <=> Staged(r)
        BY <1>3, <4>3 DEF Told, Staged
      <4>5. Ordered'
        BY <1>3, <4>1, <4>3, <4>4 DEF Ordered
      <4>6. /\ request.serial <= policy.lastPoll.serial
            /\ \A n \in 1..Len(toServer'[current]) :
                  toServer'[current][n].request.serial
                     <= policy.lastPoll.serial
        <5>1. /\ Len(toServer[i]) \in Nat \ {0}
              /\ Len(Tail(toServer[i])) = Len(toServer[i]) - 1
              /\ Head(toServer[i]) = toServer[i][1]
              /\ \A n \in 1..(Len(toServer[i]) - 1) :
                    Tail(toServer[i])[n] = toServer[i][n + 1]
          BY <1>3, HeadAndTail
        <5>2. /\ 1 \in 1..Len(toServer[i])
              /\ \A n \in 1..Len(Tail(toServer[i])) :
                    /\ n + 1 \in 1..Len(toServer[i])
                    /\ Tail(toServer[i])[n] = toServer[i][n + 1]
          BY <5>1
        <5>3. \A n \in 1..Len(toServer[i]) :
                 toServer[i][n].request.serial <= policy.lastPoll.serial
          BY <3>3, <4>1 DEF Timely
        <5>4. request.serial <= policy.lastPoll.serial
          BY <5>1, <5>2, <5>3 DEF request
        <5>5. \A n \in 1..Len(Tail(toServer[i])) :
                 Tail(toServer[i])[n].request.serial
                    <= policy.lastPoll.serial
          BY <5>2, <5>3
        <5>6. toServer'[current] = Tail(toServer[i])
          BY <1>3, <3>3
        <5> QED
          BY <5>4, <5>5, <5>6
      <4>7. \A r \in Nat : Told(r) \/ Staged(r) => r < request.serial
        <5>1. \A r \in Nat : Told(r) \/ Staged(r)
                                => r <= core.request.serial
          BY <4>1, <4>2 DEF Timely
        <5> QED
          BY <1>4, <1>6, <5>1
      <4>8. Timely'
        <5>1. \A r \in Nat : Told(r)' \/ Staged(r)'
                 => r <= policy'.lastPoll.serial
          BY <1>3, <4>1, <4>4 DEF Timely
        <5>2. /\ conn'[current].request.serial <= policy'.lastPoll.serial
              /\ \A r \in Nat : Told(r)' \/ Staged(r)' =>
                    /\ r <= conn'[current].request.serial
                    /\ r < conn'[current].request.serial
          BY <1>3, <1>4, <4>2, <4>4, <4>6, <4>7
        <5> QED
          BY <1>3, <4>6, <5>1, <5>2 DEF Timely
      <4>9. Asking'
        <5>1. /\ pump.request.serial \in Nat
          BY <1>1 DEF Shape, PumpOK, PumpState, Request
        <5>2. pump.stage = "commands" /\ pump.conn = current =>
                 pump.request.serial <= request.serial
          BY <1>4, <1>6, <4>1, <4>2, <5>1 DEF Asking
        <5> QED
          BY <1>3, <4>1, <4>2, <4>4, <5>2 DEF Asking
      <4> QED
        BY <4>5, <4>8, <4>9
    <3> QED
      BY <3>1, <3>2, <3>3
  <2> QED
    BY <2>4, <2>6, <2>7, <2>8, <2>9 DEF Inv
<1> QED
  BY <1>4, <1>5, <1>6

-----------------------------------------------------------------------------
(* The writer                                                               *)

(* What the writer selects, and what it leaves.                             *)
Selects(core, frame, left) ==
    /\ frame \in Replies
    /\ left.commands = core.commands /\ left.request = core.request
    /\ left.awaiting = core.awaiting
    /\ left.clientClosed = core.clientClosed
    /\ left.nextSerial = core.nextSerial + 1
    /\ \/ /\ core.control # <<>> /\ frame = Head(core.control)
          /\ left.control = Tail(core.control)
          /\ left.events = core.events /\ frame.kind # "events"
       \/ /\ core.events # <<>> /\ frame = Head(core.events)
          /\ left.events = Tail(core.events)
          /\ left.control = core.control
          /\ frame.kind = "events" /\ frame.command = 0

Left(core, control, events) ==
    [core EXCEPT !.control = control, !.events = events,
                 !.nextSerial = core.nextSerial + 1]

(* What the writer leaves behind fits.                                      *)
LEMMA SelectFits ==
    ASSUME NEW core, Fits(core), ~core.closed, Outbound(core) > 0,
           NEW control, NEW events, NEW frame, NEW left,
           \/ /\ core.control # <<>> /\ frame = Head(core.control)
              /\ control = Tail(core.control) /\ events = core.events
           \/ /\ core.control = <<>> /\ frame = Head(core.events)
              /\ control = core.control /\ events = Tail(core.events),
           left = Left(core, control, events)
    PROVE  /\ Selects(core, frame, left) /\ Fits(left)
           /\ ~left.closed /\ left.phase = "bound" /\ core.phase = "bound"
<1>1. /\ core \in Core /\ CoreOK(core)
      /\ core.control \in Seq(ServerFrame)
      /\ core.events \in Seq(ServerFrame)
      /\ Len(core.control) \in Nat /\ Len(core.events) \in Nat
      /\ core.nextSerial \in Nat
  BY FitsFacts, CoreFields
<1>2. PICK m \in Nat, n \in Nat :
         Len(core.control) = m /\ Len(core.events) = n
  BY <1>1
<1>3. Outbound(core) = m + n
  BY <1>2 DEF Outbound
<1>4. Len(<<>>) = 0
  BY EmptySeq
<1>5. core.phase = "bound"
  <2>1. ASSUME core.phase # "bound" PROVE FALSE
    <3>1. core.control = <<>> /\ core.events = <<>>
      BY <2>1 DEF Fits
    <3>2. m = 0 /\ n = 0
      BY <1>2, <1>4, <3>1
    <3> QED
      BY <1>3, <3>2
  <2> QED
    BY <2>1
<1>6. /\ \A k \in 1..Len(core.control) : core.control[k].kind # "events"
                                         /\ core.control[k] \in Replies
      /\ \A k \in 1..Len(core.events) :
            core.events[k].kind = "events" /\ core.events[k].command = 0
  BY DEF Fits
<1>7. core.nextSerial + 1 \in Nat
  BY <1>1
<1>8. CASE /\ core.control # <<>> /\ frame = Head(core.control)
           /\ control = Tail(core.control) /\ events = core.events
  <2>1. /\ control \in Seq(ServerFrame) /\ Len(control) + 1 = m
        /\ frame = core.control[1] /\ 1 \in 1..Len(core.control)
        /\ \A k \in 1..Len(control) : /\ k + 1 \in 1..Len(core.control)
                                      /\ control[k] = core.control[k + 1]
    <3>1. /\ control \in Seq(ServerFrame) /\ frame = core.control[1]
          /\ Len(core.control) \in Nat \ {0}
          /\ Len(control) = Len(core.control) - 1
          /\ \A k \in 1..(Len(core.control) - 1) :
                control[k] = core.control[k + 1]
      BY <1>1, <1>8, HeadAndTail
    <3> QED
      BY <1>2, <3>1
  <2>2. /\ left \in Core /\ left.control = control /\ left.events = events
        /\ left.nextSerial = core.nextSerial + 1
        /\ left.commands = core.commands /\ left.request = core.request
        /\ left.awaiting = core.awaiting /\ left.phase = core.phase
        /\ left.closed = core.closed
        /\ left.clientClosed = core.clientClosed
    BY <1>1, <1>7, <1>8, <2>1 DEF Core, Left
  <2>3. frame \in Replies /\ frame.kind # "events"
    BY <1>6, <2>1
  <2>4. Selects(core, frame, left)
    BY <1>8, <2>2, <2>3 DEF Selects
  <2>5. Outbound(left) + 1 = Outbound(core) /\ Outbound(left) \in Nat
    <3>1. PICK k \in Nat : Len(control) = k
      BY <2>1, LenProperties
    <3>2. Outbound(left) = k + n /\ k + 1 = m
      BY <1>2, <1>8, <2>1, <2>2, <3>1 DEF Outbound
    <3> QED
      BY <1>3, <3>2
  <2>6. Outbound(left) <= EventRoom + ControlRoom
    BY <1>1, <2>5, StreamAssumption DEF CoreOK, StreamAssumption
  <2>7. CoreOK(left)
    BY <1>1, <2>2, <2>6 DEF CoreOK
  <2>8. Fits(left)
    <3>1. /\ \A k \in 1..Len(left.control) :
                left.control[k].kind # "events"
                /\ left.control[k] \in Replies
          /\ \A k \in 1..Len(left.events) :
                left.events[k].kind = "events" /\ left.events[k].command = 0
      <4>1. \A k \in 1..Len(control) :
               control[k].kind # "events" /\ control[k] \in Replies
        BY <1>6, <2>1
      <4>2. \A k \in 1..Len(events) :
               events[k].kind = "events" /\ events[k].command = 0
        BY <1>6, <1>8
      <4> QED
        BY <2>2, <4>1, <4>2
    <3>2. left.phase = "bound" /\ ~left.closed
      BY <1>5, <2>2
    <3> QED
      BY <2>7, <3>1, <3>2 DEF Fits
  <2> QED
    BY <1>5, <2>2, <2>4, <2>8
<1>9. CASE /\ core.control = <<>> /\ frame = Head(core.events)
           /\ control = core.control /\ events = Tail(core.events)
  <2>0. core.events # <<>>
    BY <1>2, <1>3, <1>4, <1>9
  <2>1. /\ events \in Seq(ServerFrame) /\ Len(events) + 1 = n
        /\ frame = core.events[1] /\ 1 \in 1..Len(core.events)
        /\ frame \in ServerFrame
        /\ \A k \in 1..Len(events) : /\ k + 1 \in 1..Len(core.events)
                                     /\ events[k] = core.events[k + 1]
    <3>1. /\ events \in Seq(ServerFrame) /\ frame = core.events[1]
          /\ Len(core.events) \in Nat \ {0} /\ frame \in ServerFrame
          /\ Len(events) = Len(core.events) - 1
          /\ \A k \in 1..(Len(core.events) - 1) :
                events[k] = core.events[k + 1]
      BY <1>1, <1>9, <2>0, HeadAndTail
    <3> QED
      BY <1>2, <3>1
  <2>2. /\ left \in Core /\ left.control = control /\ left.events = events
        /\ left.nextSerial = core.nextSerial + 1
        /\ left.commands = core.commands /\ left.request = core.request
        /\ left.awaiting = core.awaiting /\ left.phase = core.phase
        /\ left.closed = core.closed
        /\ left.clientClosed = core.clientClosed
    BY <1>1, <1>7, <1>9, <2>1 DEF Core, Left
  <2>3. frame \in Replies /\ frame.kind = "events" /\ frame.command = 0
    BY <1>6, <2>1 DEF Replies
  <2>4. Selects(core, frame, left)
    BY <1>9, <2>0, <2>2, <2>3 DEF Selects
  <2>5. Outbound(left) + 1 = Outbound(core) /\ Outbound(left) \in Nat
    <3>1. PICK k \in Nat : Len(events) = k
      BY <2>1, LenProperties
    <3>2. Outbound(left) = m + k /\ k + 1 = n
      BY <1>2, <1>9, <2>1, <2>2, <3>1 DEF Outbound
    <3> QED
      BY <1>3, <3>2
  <2>6. Outbound(left) <= EventRoom + ControlRoom
    BY <1>1, <2>5, StreamAssumption DEF CoreOK, StreamAssumption
  <2>7. CoreOK(left)
    BY <1>1, <2>2, <2>6 DEF CoreOK
  <2>8. Fits(left)
    <3>1. /\ \A k \in 1..Len(left.control) :
                left.control[k].kind # "events"
                /\ left.control[k] \in Replies
          /\ \A k \in 1..Len(left.events) :
                left.events[k].kind = "events" /\ left.events[k].command = 0
      <4>1. \A k \in 1..Len(control) :
               control[k].kind # "events" /\ control[k] \in Replies
        BY <1>6, <1>9
      <4>2. \A k \in 1..Len(events) :
               events[k].kind = "events" /\ events[k].command = 0
        BY <1>6, <2>1
      <4> QED
        BY <2>2, <4>1, <4>2
    <3>2. left.phase = "bound" /\ ~left.closed
      BY <1>5, <2>2
    <3> QED
      BY <2>7, <3>1, <3>2 DEF Fits
  <2> QED
    BY <1>5, <2>2, <2>4, <2>8
<1> QED
  BY <1>8, <1>9

(* A frame goes from a queue to the wire, or off it: what is on its way is  *)
(* still in order, and nothing is told that was not.                        *)
LEMMA AnswersMoved ==
    ASSUME Inv, Shape', mode # "closed", UNCHANGED clientVars,
           pump' = pump, toServer' = toServer,
           NEW wired, wired = toClient'[current],
           NEW queued, queued = conn'[current].events,
           Rising(wired), Rising(queued),
           \A r, s \in Nat : Asks(wired, r) /\ Asks(queued, s) => r < s,
           \A r : Asks(wired, r) => \/ Asks(toClient[current], r)
                                    \/ Asks(conn[current].events, r),
           \A r : Asks(queued, r) => Asks(conn[current].events, r),
           conn'[current].closed \/
              /\ ~conn[current].closed
              /\ conn'[current].request = conn[current].request
              /\ conn'[current].awaiting = conn[current].awaiting
    PROVE  Answers'
<1> USE DEF clientVars
<1>1. /\ Ordered /\ Timely /\ Asking /\ mode' # "closed"
  BY DEF Inv, Answers
<1>2. /\ \A r : Asks(toClient[current], r)' <=> Asks(wired, r)
      /\ \A r : Asks(conn[current].events, r)' <=> Asks(queued, r)
      /\ Rising(toClient[current])' <=> Rising(wired)
      /\ Rising(conn[current].events)' <=> Rising(queued)
  BY DEF Asks, Rising
<1>3. /\ \A r : Told(r)' => Told(r)
      /\ \A r : Staged(r)' <=> Staged(r)
  BY <1>2 DEF Told, Staged
<1>4. Ordered'
  BY <1>1, <1>2, <1>3 DEF Ordered
<1>5. Timely'
  <2>1. \A r \in Nat : Told(r)' \/ Staged(r)'
           => Told(r) \/ Staged(r)
    BY <1>3
  <2> QED
    BY <1>1, <2>1 DEF Timely
<1>6. Asking'
  BY <1>1, <1>3 DEF Asking
<1> QED
  BY <1>4, <1>5, <1>6 DEF Answers

(* WriteFrame keeps the invariant: a frame is numbered and written.         *)
LEMMA WriteFrameOK ==
    ASSUME Inv, NEW i \in Connections, WriteFrame(i)
    PROVE  Inv'
<1> USE DEF clientVars
<1> DEFINE core == conn[i]
           fromControl == core.control # <<>>
           frame == IF fromControl THEN Head(core.control)
                    ELSE Head(core.events)
           control == IF fromControl THEN Tail(core.control)
                      ELSE core.control
           events == IF fromControl THEN core.events ELSE Tail(core.events)
           left == [core EXCEPT !.control = control, !.events = events,
                                !.nextSerial = core.nextSerial + 1]
           sent == [frame EXCEPT !.serial = core.nextSerial]
           e == IF core.closeAfterFlush /\ Outbound(left) = 0
                THEN Close(left) ELSE left
<1>1. /\ Shape /\ Numbered /\ Once /\ Answers /\ NoLostWait
      /\ Fits(core) /\ core \in Core /\ ~core.closed
      /\ Outbound(core) > 0
      /\ mode # "closed" => current \in Connections
      /\ \A j \in Connections :
            /\ Fits(conn[j]) /\ conn[j] \in Core
            /\ toClient[j] \in Seq(Replies)
  <2>1. Shape /\ Numbered /\ Once /\ Answers /\ NoLostWait
    BY DEF Inv
  <2>2. ~core.closed /\ Outbound(core) > 0
    BY DEF WriteFrame
  <2> QED
    BY <2>1, <2>2, ShapeFacts
<1>2. /\ UNCHANGED <<head, subscriber, pump, refusals, clientVars,
                     toServer>>
      /\ toClient' = [toClient EXCEPT ![i] = Append(@, sent)]
      /\ conn' = [conn EXCEPT ![i] = e]
  BY DEF WriteFrame
<1>3. /\ Selects(core, frame, left) /\ Fits(left)
      /\ ~left.closed /\ left.phase = "bound" /\ core.phase = "bound"
  <2>1. \/ /\ core.control # <<>> /\ frame = Head(core.control)
           /\ control = Tail(core.control) /\ events = core.events
        \/ /\ core.control = <<>> /\ frame = Head(core.events)
           /\ control = core.control /\ events = Tail(core.events)
    OBVIOUS
  <2>2. left = Left(core, control, events)
    BY DEF Left
  <2> HIDE DEF core, frame, control, events, left
  <2> QED
    BY <1>1, <2>1, <2>2, SelectFits
<1> HIDE DEF frame, control, events, left, fromControl
<1>4. e = left \/ e = Close(left)
  OBVIOUS
<1> HIDE DEF e
<1>5. Fits(e) /\ (e.closed \/ e.phase = "bound")
  BY <1>3, <1>4, CloseFits, CloseFacts
<1>6. /\ sent \in Replies /\ sent.kind = frame.kind
      /\ sent.request = frame.request /\ sent.command = frame.command
      /\ sent.serial = core.nextSerial /\ core.nextSerial \in Nat
      /\ frame \in Replies
  <2>1. core.nextSerial \in Nat /\ frame \in Replies
    BY <1>1, <1>3, CoreFields DEF Selects
  <2> QED
    BY <2>1 DEF Replies, ServerFrame
<1> HIDE DEF sent, core
<1> DEFINE longer == Append(toClient[i], sent)
<1>7. /\ longer \in Seq(Replies) /\ toClient'[i] = longer
      /\ \A j \in Connections : j # i => toClient'[j] = toClient[j]
      /\ toClient' \in [Connections -> Seq(Replies)]
      /\ toClient[i] \in Seq(Replies)
  <2>1. toClient[i] \in Seq(Replies)
    BY <1>1
  <2>2. longer \in Seq(Replies)
    BY <1>6, <2>1, AppendProperties
  <2>3. toClient \in [Connections -> Seq(Replies)]
    BY <1>1 DEF Shape, WiresOK
  <2> QED
    BY <1>2, <2>1, <2>2, <2>3
<1> HIDE DEF longer
<1>8. Shape' /\ conn'[i] = e
      /\ \A j \in Connections : j # i => conn'[j] = conn[j]
  <2>1. ~(i > current) /\ ~(mode = "opening" /\ i = current)
    BY <1>1, <1>3, InUse DEF core, Shape, ClientOK, Opening
  <2>2. /\ conn'[i] = e
        /\ \A j \in Connections : j # i => conn'[j] = conn[j]
    BY <1>1, <1>2, <1>5, CoreChanges DEF Shape
  <2>3. PumpOK'
    BY <1>1, <1>2, <1>5, <2>2, PumpKept DEF Shape, PumpOK
  <2>4. SessionOK'
    BY <1>1, <1>2 DEF Shape, SessionOK
  <2>5. toServer' \in [Connections -> Seq(Sent)]
    BY <1>1, <1>2 DEF Shape, WiresOK
  <2> QED
    BY <1>1, <1>2, <1>5, <1>7, <2>1, <2>3, <2>4, <2>5, ShapeKept
<1>9. \/ e.closed /\ e.commands = <<>> /\ e.control = <<>>
         /\ e.events = <<>>
      \/ ~e.closed /\ e = left
  BY <1>3, <1>4, CloseFacts
<1>10. /\ core.control \in Seq(ServerFrame)
       /\ core.events \in Seq(ServerFrame)
  BY <1>1, CoreFields
<1>11. Numbered'
  <2>1. CASE mode = "closed"
    BY <1>2, <2>1 DEF Numbered
  <2>2. CASE mode # "closed" /\ i # current
    <3>1. /\ conn'[current] = conn[current]
          /\ toClient'[current] = toClient[current]
      BY <1>1, <1>7, <1>8, <2>2
    <3> QED
      BY <1>1, <1>2, <3>1, NumberedKept
  <2>3. CASE mode # "closed" /\ i = current
    <3>1. /\ NumberedFrom(toClient[i], policy.lastFrame)
          /\ core.nextSerial = policy.lastFrame + Len(toClient[i]) + 1
          /\ policy.lastFrame \in Nat
      BY <1>1, <2>3 DEF Numbered, core, Shape, ClientOK, Policy
    <3>2. NumberedFrom(longer, policy.lastFrame)
          /\ Len(longer) = Len(toClient[i]) + 1
      BY <1>6, <1>7, <3>1, NumberedAppend DEF longer
    <3>3. ~e.closed => e.nextSerial = policy.lastFrame + Len(longer) + 1
      <4>1. ~e.closed => e.nextSerial = core.nextSerial + 1
        BY <1>3, <1>9 DEF Selects
      <4>2. Len(toClient[i]) \in Nat
        BY <1>7, LenProperties
      <4> QED
        BY <3>1, <3>2, <4>1, <4>2
    <3>4. /\ toClient'[current] = longer /\ conn'[current] = e
          /\ policy' = policy /\ mode' = mode /\ current' = current
      BY <1>2, <1>7, <1>8, <2>3
    <3> QED
      BY <2>3, <3>2, <3>3, <3>4 DEF Numbered, NumberedFrom
  <2> QED
    BY <2>1, <2>2, <2>3
<1>12. NoLostWait'
  <2>1. ASSUME NEW j \in Connections, Waits(conn'[j])
        PROVE  Waits(conn[j]) /\ (Answering(j) => Answering(j)')
    <3>1. CASE j # i
      <4>1. conn'[j] = conn[j] /\ toClient'[j] = toClient[j]
        BY <1>7, <1>8, <3>1
      <4> QED
        BY <1>2, <2>1, <4>1 DEF Answering
    <3>2. CASE j = i
      <4>1. ~e.closed /\ e = left /\ Waits(core)
        BY <1>1, <1>3, <1>8, <1>9, <2>1, <3>2
        DEF Waits, Live, Selects
      <4>2. /\ DOMAIN toClient[i] = 1..Len(toClient[i])
            /\ DOMAIN longer = 1..Len(longer)
            /\ Len(longer) = Len(toClient[i]) + 1
            /\ \A n \in 1..Len(toClient[i]) : longer[n] = toClient[i][n]
            /\ longer[Len(toClient[i]) + 1] = sent
            /\ Len(toClient[i]) \in Nat
        BY <1>6, <1>7, AppendProperties, LenProperties DEF longer
      <4>3. ASSUME \E n \in DOMAIN toClient[i] :
                      toClient[i][n].kind = "events"
            PROVE  \E n \in DOMAIN longer : longer[n].kind = "events"
        <5>1. PICK n \in DOMAIN toClient[i] :
                 toClient[i][n].kind = "events"
          BY <4>3
        <5>2. n \in DOMAIN longer /\ longer[n] = toClient[i][n]
          BY <4>2
        <5> QED
          BY <5>1, <5>2
      <4>4. core.events # <<>> =>
               \/ e.events # <<>>
               \/ \E n \in DOMAIN longer : longer[n].kind = "events"
        <5>1. CASE frame.kind = "events"
          <6>1. /\ Len(toClient[i]) + 1 \in DOMAIN longer
                /\ longer[Len(toClient[i]) + 1].kind = "events"
            BY <1>6, <4>2, <5>1
          <6> QED
            BY <6>1
        <5>2. CASE frame.kind # "events"
          <6>1. e.events = core.events
            BY <1>3, <4>1, <5>2 DEF Selects
          <6> QED
            BY <6>1
        <5> QED
          BY <5>1, <5>2
      <4>5. Answering(i) => Answering(i)'
        BY <1>2, <1>7, <1>8, <4>3, <4>4 DEF Answering, core
      <4> QED
        BY <3>2, <4>1, <4>5 DEF core
    <3> QED
      BY <3>1, <3>2
  <2> QED
    BY <1>1, <2>1, WaitKept
<1>13. Once'
  <2>1. CASE mode = "closed"
    BY <1>1, <1>2, <2>1 DEF Once
  <2>2. CASE mode # "closed"
    <3>1. ASSUME NEW c \in Commands
          PROVE  /\ Total(c) \in Nat /\ Total(c)' \in Nat
                 /\ Total(c)' <= Total(c)
      <4>1. /\ Named(toServer[current], c) \in Nat
            /\ Number(conn[current].commands, c) \in Nat
            /\ Held(c) \in Nat
            /\ Named(conn[current].control, c) \in Nat
            /\ Named(toClient[current], c) \in Nat
            /\ Total(c) \in Nat
            /\ Total(c) = Named(toServer[current], c)
                             + Number(conn[current].commands, c)
                             + Held(c) + Named(conn[current].control, c)
                             + Named(toClient[current], c)
        BY <1>1, <2>2, TotalParts DEF Total
      <4>2. /\ Number(conn'[current].commands, c) \in Nat
            /\ Named(conn'[current].control, c) \in Nat
            /\ Named(toClient'[current], c) \in Nat
            /\ Total(c)' = Named(toServer[current], c)
                              + Number(conn'[current].commands, c)
                              + Held(c)
                              + Named(conn'[current].control, c)
                              + Named(toClient'[current], c)
        <5>1. /\ Number(conn'[current'].commands, c) \in Nat
              /\ Named(conn'[current'].control, c) \in Nat
              /\ Named(toClient'[current'], c) \in Nat
              /\ Total(c)' = Named(toServer'[current'], c)
                    + Number(conn'[current'].commands, c)
                    + Held(c)' + Named(conn'[current'].control, c)
                    + Named(toClient'[current'], c)
          BY <1>1, <1>2, <1>8, <2>2, TotalNext
        <5>2. Held(c)' = Held(c)
          BY <1>2 DEF Held, Number, Where
        <5> QED
          BY <1>2, <5>1, <5>2
      <4>3. CASE i # current
        <5>1. /\ conn'[current] = conn[current]
              /\ toClient'[current] = toClient[current]
          BY <1>1, <1>7, <1>8, <2>2, <4>3
        <5> QED
          BY <4>1, <4>2, <5>1
      <4>4. CASE i = current
        <5> DEFINE one == IF frame.command = c THEN 1 ELSE 0
        <5>1. one \in Nat
          OBVIOUS
        <5>2. Named(toClient'[current], c) = Named(toClient[current], c) + one
          <6>1. Named(longer, c) = Named(toClient[i], c)
                    + (IF sent.command = c THEN 1 ELSE 0)
            BY <1>6, <1>7, FramesNamed, NamedAppend DEF longer
          <6> QED
            BY <1>6, <1>7, <4>4, <6>1
        <5>3. Number(conn'[current].commands, c)
                 <= Number(conn[current].commands, c)
          <6>1. CASE e.commands = <<>>
            BY <1>8, <4>1, <4>4, <6>1, NumberEmpty
          <6>2. CASE e.commands = core.commands
            BY <1>8, <4>1, <4>4, <6>2 DEF core
          <6> QED
            BY <1>3, <1>9, <6>1, <6>2 DEF Selects
        <5>4. Named(conn'[current].control, c) + one
                 <= Named(conn[current].control, c)
          <6>1. CASE frame.kind = "events"
            <7>1. one = 0
              BY <1>3, <6>1, StreamAssumption
              DEF Selects, StreamAssumption
            <7>2. e.control = core.control \/ e.control = <<>>
              BY <1>3, <1>9, <6>1 DEF Selects
            <7>3. Named(e.control, c) <= Named(core.control, c)
              BY <4>1, <4>4, <7>2, NamedEmpty DEF core
            <7>4. Named(conn'[current].control, c) = Named(e.control, c)
              BY <1>8, <4>4
            <7> HIDE DEF one
            <7> QED
              BY <4>1, <4>2, <4>4, <7>1, <7>3, <7>4 DEF core
          <6>2. CASE frame.kind # "events"
            <7>1. /\ core.control # <<>> /\ frame = Head(core.control)
                  /\ left.control = Tail(core.control)
              BY <1>3, <6>2 DEF Selects
            <7>2. Named(core.control, c)
                     = Named(Tail(core.control), c) + one
              BY <1>10, <7>1, FramesNamed, NamedTail
            <7>3. Named(Tail(core.control), c) \in Nat
              <8>1. Tail(core.control) \in Seq(ServerFrame)
                BY <1>10, <7>1, HeadAndTail
              <8> QED
                BY <8>1, FramesNamed, CommandedFacts
            <7>4. e.control = Tail(core.control) \/ e.control = <<>>
              BY <1>9, <7>1
            <7>5. Named(e.control, c) <= Named(Tail(core.control), c)
              BY <7>3, <7>4, NamedEmpty
            <7>6. Named(conn'[current].control, c) = Named(e.control, c)
              BY <1>8, <4>4
            <7> HIDE DEF one
            <7> QED
              BY <4>2, <4>4, <5>1, <7>2, <7>3, <7>5, <7>6 DEF core
          <6> QED
            BY <6>1, <6>2
        <5> HIDE DEF one
        <5> QED
          BY <4>1, <4>2, <5>1, <5>2, <5>3, <5>4
      <4> QED
        BY <4>3, <4>4
    <3> QED
      BY <1>1, <1>2, <2>2, <3>1, OnceKept
  <2> QED
    BY <2>1, <2>2
<1>14. Answers'
  <2>1. CASE mode = "closed"
    BY <1>2, <2>1 DEF Answers
  <2>2. CASE mode # "closed" /\ i # current
    <3>1. /\ conn'[current] = conn[current]
          /\ toClient'[current] = toClient[current]
          /\ Fits(conn[current])
      BY <1>1, <1>7, <1>8, <2>2
    <3>2. \/ conn'[current].closed /\ conn'[current].events = <<>>
          \/ ~conn[current].closed
      BY <3>1, CloseFacts DEF Fits
    <3>3. \A n \in 1..Len(toServer'[current]) :
             toServer'[current][n].request.serial
                <= policy.lastPoll.serial
      BY <1>1, <1>2, <2>2 DEF Answers, Timely
    <3> QED
      BY <1>1, <1>2, <2>2, <3>1, <3>2, <3>3, AnswersKept
  <2>3. CASE mode # "closed" /\ i = current
    <3> DEFINE wire == toClient[current]
               queue == conn[current].events
               wired == toClient'[current]
               queued == conn'[current].events
    <3>1. /\ Ordered /\ current \in Connections
          /\ queue = core.events /\ queued = e.events
          /\ wire = toClient[i] /\ wired = longer
      BY <1>1, <1>7, <1>8, <2>3 DEF Answers, core
    <3>2. /\ \A r : Asks(wire, r) => r \in Nat
          /\ \A r : Asks(queue, r) => r \in Nat
      BY <1>7, <1>10, <3>1, AsksNat DEF Replies
    <3>3. /\ \A r : Asks(longer, r) <=>
                \/ Asks(wire, r)
                \/ sent.kind = "events" /\ sent.request = r
          /\ Rising(wire) /\ (sent.kind = "events" =>
                \A r \in Nat : Asks(wire, r) => r < sent.request)
                /\ (\A r : Asks(wire, r) => r \in Nat)
             => Rising(longer)
      <4>1. wire \in Seq(Replies) /\ longer = Append(wire, sent)
        BY <1>7, <3>1 DEF longer
      <4> HIDE DEF wire
      <4> QED
        BY <1>6, <4>1, AsksAppend
    <3>4. \A r, s \in Nat : Asks(wire, r) /\ Asks(queue, s) => r < s
      BY <3>1 DEF Ordered
    <3>5. Rising(wire) /\ Rising(queue)
      BY <3>1 DEF Ordered
    <3>6. conn'[current].closed \/
             /\ ~conn[current].closed
             /\ conn'[current].request = conn[current].request
             /\ conn'[current].awaiting = conn[current].awaiting
      BY <1>1, <1>3, <1>8, <1>9, <2>3 DEF core, Selects
    <3> HIDE DEF wire, queue, wired, queued
    <3>7. CASE frame.kind # "events"
      <4>1. \A r : Asks(wired, r) <=> Asks(wire, r)
        BY <1>6, <3>1, <3>3, <3>7
      <4>2. Rising(wired)
        BY <1>6, <3>1, <3>2, <3>3, <3>5, <3>7
      <4>3. queued = queue \/ queued = <<>>
        BY <1>3, <1>9, <3>1, <3>7 DEF Selects
      <4>4. Rising(queued) /\ \A r : Asks(queued, r) => Asks(queue, r)
        BY <3>5, <4>3, AsksEmpty
      <4>5. \A r, s \in Nat : Asks(wired, r) /\ Asks(queued, s) => r < s
        BY <3>4, <4>1, <4>4
      <4> QED
        BY <1>2, <1>8, <2>3, <3>6, <4>1, <4>2, <4>4, <4>5, AnswersMoved
        DEF wire, queue, wired, queued
    <3>8. CASE frame.kind = "events"
      <4> DEFINE s == frame.request
                 rest == Tail(queue)
      <4>1. queue # <<>> /\ frame = Head(queue) /\ left.events = rest
        BY <1>3, <3>1, <3>8 DEF Selects
      <4>2. /\ \A r : Asks(queue, r) <=>
                  \/ Asks(rest, r)
                  \/ Head(queue).kind = "events" /\ Head(queue).request = r
            /\ Rising(queue) =>
                  /\ Rising(rest)
                  /\ Head(queue).kind = "events" =>
                        \A r : Asks(rest, r) => Head(queue).request < r
        <5>1. queue \in Seq(ServerFrame)
          BY <1>10, <3>1
        <5> QED
          BY <4>1, <5>1, AsksTail
      <4> HIDE DEF rest
      <4>3. /\ \A r : Asks(queue, r) <=> Asks(rest, r) \/ r = s
            /\ Rising(rest) /\ \A r : Asks(rest, r) => s < r
        BY <3>5, <3>8, <4>1, <4>2
      <4>4. s \in Nat /\ sent.kind = "events" /\ sent.request = s
        BY <1>6, <3>2, <3>8, <4>3
      <4> HIDE DEF s
      <4>5. /\ \A r : Asks(wired, r) <=> Asks(wire, r) \/ r = s
            /\ Rising(wired)
        BY <3>1, <3>2, <3>3, <3>4, <3>5, <4>3, <4>4
      <4>6. queued = rest \/ queued = <<>>
        BY <1>9, <3>1, <4>1
      <4>7. /\ Rising(queued) /\ \A r : Asks(queued, r) => Asks(rest, r)
        BY <4>3, <4>6, AsksEmpty
      <4>8. \A r, t \in Nat : Asks(wired, r) /\ Asks(queued, t) => r < t
        BY <3>4, <4>3, <4>5, <4>7
      <4>9. \A r : Asks(wired, r) => Asks(wire, r) \/ Asks(queue, r)
        BY <4>3, <4>5
      <4>10. \A r : Asks(queued, r) => Asks(queue, r)
        BY <4>3, <4>7
      <4> QED
        BY <1>2, <1>8, <2>3, <3>6, <4>5, <4>7, <4>8, <4>9, <4>10,
           AnswersMoved
        DEF wire, queue, wired, queued
    <3> QED
      BY <3>7, <3>8
  <2> QED
    BY <2>1, <2>2, <2>3
<1> QED
  BY <1>8, <1>11, <1>12, <1>13, <1>14 DEF Inv

-----------------------------------------------------------------------------
(* The client                                                               *)

(* A coordinator begins with terminals of their type.                       *)
LEMMA ViewsRegistered ==
    [t \in Terminals |-> Registered] \in [Terminals -> View]
BY DEF Registered, View

(* A policy that is activated has its type, and remembers nothing.          *)
LEMMA ActivatedType ==
    ASSUME NEW request \in Request
    PROVE  /\ Activated(request) \in Policy
           /\ Activated(request).lastPoll = request
           /\ Activated(request).lastFrame = 0
           /\ Activated(request).lastEvent = 0
           /\ Activated(request).pending = {}
           /\ ~Activated(request).ackPending
BY DEF Activated, Policy

(* The client leaves its stream: nothing is expected of a connection that   *)
(* is nobody's.                                                             *)
LEMMA FallsBackOK ==
    ASSUME Inv, mode # "closed", FallsBack
    PROVE  Inv'
<1> DEFINE core == conn[current]
           left == mode = "active" /\ ~core.closed
           e == [core EXCEPT !.clientClosed = left]
<1>1. /\ Shape /\ Numbered /\ Once /\ Answers /\ NoLostWait
      /\ current \in Connections /\ Fits(core) /\ core \in Core
      /\ \A j \in Connections : Fits(conn[j]) /\ Placed(j)
  BY ShapeFacts DEF Inv
<1>2. /\ mode' = "closed" /\ policy' = Activated(NoRequest)
      /\ conn' = [conn EXCEPT ![current] = e]
      /\ toClient' = [toClient EXCEPT ![current] = <<>>]
      /\ view' = [t \in Terminals |-> Registered]
      /\ UNCHANGED <<head, subscriber, pump, refusals,
                     current, unsent, toServer>>
  BY DEF FallsBack
<1>3. /\ Fits(e) /\ e.closed = core.closed /\ e.phase = core.phase
      /\ e.events = core.events /\ e.awaiting = core.awaiting
      /\ e.clientClosed = left
  <2>1. left \in BOOLEAN
    OBVIOUS
  <2> HIDE DEF left
  <2>2. /\ Alike(core, e) /\ e.phase = core.phase
        /\ e.request = core.request /\ e.awaiting = core.awaiting
        /\ e.clientClosed = left
    BY <1>1, <2>1 DEF Alike, Core
  <2>3. CASE ~core.closed
    <3>1. Fits(e)
      <4>1. ~core.awaiting \/ core.phase = "bound"
        BY <1>1, <2>3 DEF Fits
      <4> HIDE DEF e, core
      <4> QED
        BY <1>1, <2>2, <2>3, <4>1, AlikeFits
    <3> QED
      BY <2>2, <3>1 DEF Alike
  <2>4. CASE core.closed
    <3>1. core.clientClosed = FALSE
      BY <1>1, <2>4, CloseFacts DEF Fits, Core
    <3>2. left = FALSE
      BY <2>4 DEF left
    <3>3. e = core
      BY <1>1, <3>1, <3>2 DEF Core
    <3> QED
      BY <1>1, <3>1, <3>2, <3>3
  <2> QED
    BY <2>3, <2>4
<1> HIDE DEF e
<1>4. /\ ConnsOK' /\ conn'[current] = e
      /\ \A j \in Connections : j # current => conn'[j] = conn[j]
  BY <1>1, <1>2, <1>3, CoreChanges DEF Shape
<1>5. /\ toClient' \in [Connections -> Seq(Replies)]
      /\ toClient'[current] = <<>>
      /\ \A j \in Connections : j # current => toClient'[j] = toClient[j]
  <2>1. <<>> \in Seq(Replies) /\ toClient \in [Connections -> Seq(Replies)]
    BY <1>1, EmptySeq DEF Shape, WiresOK
  <2> QED
    BY <1>1, <1>2, <2>1
<1>6. Shape'
  <2>1. SessionOK'
    BY <1>1, <1>2 DEF Shape, SessionOK
  <2>2. PumpOK'
    <3>1. \A j \in Connections :
             conn[j].closed \/ conn[j].phase = "bound" =>
                conn'[j].closed \/ conn'[j].phase = "bound"
      BY <1>3, <1>4 DEF core
    <3> QED
      BY <1>1, <1>2, <3>1, PumpKept DEF Shape, PumpOK
  <2>3. \A j \in Connections : Placed(j)'
    <3>1. PICK k \in Connections : k = current
      BY <1>1
    <3>2. Placed(k)'
      <4>1. ~(k > current')
        BY <1>2, <3>1, StreamAssumption DEF StreamAssumption
      <4> QED
        BY <1>5, <3>1, <4>1, PlacedOpened
    <3>3. ASSUME NEW j \in Connections, j # k PROVE Placed(j)'
      BY <1>1, <1>2, <1>4, <1>5, <3>1, <3>3, PlacedKept
    <3> QED
      BY <3>2, <3>3
  <2>4. WiresOK'
    BY <1>1, <1>2, <1>5, <2>3 DEF Shape, WiresOK
  <2>5. ClientOK'
    BY <1>1, <1>2, FrameTypes, ActivatedType, ViewsRegistered
    DEF Shape, ClientOK, Opening, Modes
  <2> QED
    BY <1>4, <2>1, <2>2, <2>4, <2>5 DEF Shape
<1>7. Numbered' /\ Answers'
  BY <1>2 DEF Numbered, Answers
<1>8. Once'
  BY <1>2, FrameTypes, ActivatedType DEF Once
<1>9. NoLostWait'
  <2>1. ASSUME NEW j \in Connections, Waits(conn'[j])
        PROVE  Waits(conn[j]) /\ (Answering(j) => Answering(j)')
    <3>1. j # current
      <4>1. ASSUME j = current PROVE FALSE
        <5>1. ~e.clientClosed /\ ~e.closed /\ e.phase = "bound"
          BY <1>4, <2>1, <4>1 DEF Waits, Live
        <5>2. ~core.closed /\ core.phase = "bound" /\ mode # "active"
          BY <1>3, <5>1
        <5>3. mode = "opening"
          BY <1>1, <5>2 DEF Shape, ClientOK, Modes
        <5> QED
          BY <1>1, <5>2, <5>3 DEF Shape, ClientOK, Opening
      <4> QED
        BY <4>1
    <3>2. conn'[j] = conn[j] /\ toClient'[j] = toClient[j]
      BY <1>4, <1>5, <3>1
    <3> QED
      BY <1>2, <2>1, <3>1, <3>2 DEF Answering
  <2> QED
    BY <1>1, <2>1, WaitKept
<1> QED
  BY <1>6, <1>7, <1>8, <1>9 DEF Inv

(* Another stream is opened: its connection is new, and the others close.   *)
LEMMA OpenOK ==
    ASSUME Inv, NEW i \in Connections, Open(i)
    PROVE  Inv'
<1> DEFINE first == [serial |-> 1, terminals |->
                       [t \in Terminals |->
                           [visible |-> TRUE, visGeneration |-> 1,
                            cursor |-> NoCursor]]]
           e == [FreshCore EXCEPT !.phase = "ticket", !.request = first]
<1>1. /\ Shape /\ NoLostWait /\ mode = "closed" /\ i = current + 1
      /\ pump.stage = "idle" /\ Once
      /\ \A j \in Connections : Fits(conn[j]) /\ Placed(j)
  BY ShapeFacts DEF Inv, Open
<1>2. /\ mode' = "opening" /\ current' = i
      /\ view' = [t \in Terminals |-> Registered]
      /\ policy' = Activated(first)
      /\ conn' = [j \in Connections |->
                     IF j = i THEN e ELSE Replaced(conn[j])]
      /\ UNCHANGED <<head, subscriber, pump, refusals, unsent,
                     toServer, toClient>>
  BY DEF Open, IssueTicket
<1>3. first \in Request /\ first.serial = 1
  BY DEF Request, Subscription
<1>4. /\ policy' \in Policy /\ policy'.lastPoll.serial = 1
      /\ policy'.lastFrame = 0 /\ policy'.lastEvent = 0
      /\ policy'.pending = {} /\ ~policy'.ackPending
  <2> HIDE DEF first
  <2> QED
    BY <1>2, <1>3, ActivatedType
<1>5. /\ Fits(e) /\ e.phase = "ticket" /\ ~e.closed /\ ~e.awaiting
      /\ e.commands = <<>> /\ e.control = <<>> /\ e.events = <<>>
      /\ e.nextSerial = 1 /\ e.request.serial = 1
  <2>1. FreshCore \in Core
    BY FreshFacts DEF CoreOK
  <2> HIDE DEF first
  <2>2. /\ e \in Core /\ e.phase = "ticket" /\ e.request = first
        /\ e.closed = FreshCore.closed /\ e.commands = FreshCore.commands
        /\ e.control = FreshCore.control /\ e.events = FreshCore.events
        /\ e.nextSerial = FreshCore.nextSerial
        /\ e.awaiting = FreshCore.awaiting
    BY <1>3, <2>1 DEF Core, Phases
  <2> HIDE DEF e
  <2>3. Alike(FreshCore, e) /\ ~e.awaiting
    BY <2>2, FreshFacts DEF Alike
  <2>4. Fits(e)
    BY <2>3, FreshFits, FreshFacts, AlikeFits
  <2> QED
    BY <1>3, <2>2, <2>4, FreshFacts
<1> HIDE DEF e, first
<1>6. /\ conn'[i] = e
      /\ \A j \in Connections : j # i => conn'[j] = Replaced(conn[j])
  BY <1>2
<1>7. current \in Nat /\ i \in Nat /\ i > current
  BY <1>1, StreamAssumption DEF Shape, ClientOK, StreamAssumption
<1>8. toServer[i] = <<>> /\ toClient[i] = <<>>
  BY <1>1, <1>7 DEF Placed
<1>9. Shape'
  <2>1. SessionOK'
    BY <1>1, <1>2 DEF Shape, SessionOK
  <2>2. PumpOK'
    <3>1. pump.conn <= current /\ pump.conn \in Nat
      <4>1. pump.conn <= current
        BY <1>1 DEF Shape, PumpOK, Pumping
      <4>2. pump.conn \in Connections \cup {0}
        BY <1>1 DEF Shape, PumpOK, PumpState
      <4>3. \A k \in Connections : k \in Nat
        BY StreamAssumption DEF StreamAssumption
      <4> QED
        BY <4>1, <4>2, <4>3
    <3>2. pump.conn <= i
      BY <1>1, <1>7, <3>1
    <3>3. Pumping'
      BY <1>1, <1>2, <3>2 DEF Shape, PumpOK, Pumping
    <3> QED
      BY <1>1, <1>2, <3>3 DEF Shape, PumpOK
  <2>3. ConnsOK'
    <3>1. \A j \in Connections : Fits(conn'[j])
      BY <1>1, <1>5, <1>6, ReplacedFacts
    <3>2. \A j \in Connections : conn'[j] \in Core
      BY <3>1, FitsFacts
    <3> QED
      BY <1>2, <3>1, <3>2 DEF ConnsOK
  <2>4. \A j \in Connections : Placed(j)'
    <3>1. ASSUME NEW j \in Connections, j # i PROVE Placed(j)'
      <4>1. /\ conn'[j] = Replaced(conn[j]) /\ Placed(j)
            /\ ~conn'[j].closed => ~conn[j].closed
                                   /\ conn[j].phase # "bound"
            /\ conn[j] = FreshCore => conn'[j] = conn[j]
        BY <1>1, <1>6, <3>1, ReplacedFacts
      <4>2. j > i => j > current
        BY <1>1, <1>7, StreamAssumption DEF StreamAssumption
      <4> QED
        BY <1>2, <4>1, <4>2 DEF Placed
    <3>2. Placed(i)'
      BY <1>2, <1>7, <1>8, PlacedOpened
    <3> QED
      BY <3>1, <3>2
  <2>5. WiresOK'
    BY <1>1, <1>2, <2>4 DEF Shape, WiresOK
  <2>6. ClientOK'
    <3>1. Opening'
      BY <1>2, <1>5, <1>6, <1>8 DEF Opening
    <3> QED
      BY <1>1, <1>2, <1>4, <3>1, ViewsRegistered
      DEF Shape, ClientOK, Modes
  <2> QED
    BY <2>1, <2>2, <2>3, <2>5, <2>6 DEF Shape
<1>10. Len(<<>>) = 0 /\ ~(\E n \in 1..Len(<<>>) : TRUE)
  BY EmptySeq
<1>11. Numbered'
  BY <1>2, <1>4, <1>5, <1>6, <1>8, <1>10 DEF Numbered, NumberedFrom
<1>12. Once'
  <2>1. ASSUME NEW c \in Commands PROVE Total(c)' = 0
    <3>1. pump'.commands = <<>>
      BY <1>1, <1>2 DEF Shape, PumpOK, Pumping
    <3>2. /\ Held(c)' = IF pump'.conn = current'
                        THEN Number(pump'.commands, c) ELSE 0
          /\ Total(c)' = Named(toServer'[current'], c)
                + Number(conn'[current'].commands, c)
                + Held(c)' + Named(conn'[current'].control, c)
                + Named(toClient'[current'], c)
      BY <1>2, <1>9, TotalNext
    <3>3. /\ Held(c)' = 0
          /\ Named(toServer'[current'], c) = 0
          /\ Number(conn'[current'].commands, c) = 0
          /\ Named(conn'[current'].control, c) = 0
          /\ Named(toClient'[current'], c) = 0
      BY <1>2, <1>5, <1>6, <1>8, <3>1, <3>2, NamedEmpty, NumberEmpty
    <3> QED
      BY <3>2, <3>3
  <2> QED
    BY <1>4, <2>1 DEF Once
<1>13. Answers'
  <2>1. \A r : Told(r)' <=> r = 0
    BY <1>2, <1>4, <1>5, <1>6, <1>8, <1>10 DEF Told, Asks
  <2>2. \A r : ~Staged(r)'
    BY <1>1, <1>2 DEF Staged
  <2>3. Ordered'
    <3>1. /\ Rising(toClient[current])' /\ Rising(conn[current].events)'
      BY <1>2, <1>5, <1>6, <1>8, <1>10 DEF Rising
    <3>2. /\ \A r : ~Asks(toClient[current], r)'
          /\ \A r : ~Asks(conn[current].events, r)'
      BY <1>2, <1>5, <1>6, <1>8, <1>10 DEF Asks
    <3> QED
      BY <2>2, <3>1, <3>2 DEF Ordered
  <2>4. Timely'
    BY <1>2, <1>4, <1>5, <1>6, <1>8, <1>10, <2>1, <2>2 DEF Timely
  <2>5. Asking'
    BY <1>1, <1>2 DEF Asking
  <2> QED
    BY <2>3, <2>4, <2>5 DEF Answers
<1>14. NoLostWait'
  <2>1. ASSUME NEW j \in Connections PROVE ~Live(conn'[j])
    <3>1. CASE j = i
      BY <1>5, <1>6, <3>1 DEF Live
    <3>2. CASE j # i
      <4>1. ~Replaced(conn[j]).closed => Replaced(conn[j]).phase # "bound"
        BY <1>1, ReplacedFacts
      <4> QED
        BY <1>6, <3>2, <4>1 DEF Live
    <3> QED
      BY <3>1, <3>2
  <2> QED
    BY <1>1, <2>1, WaitKept DEF Waits
<1> QED
  BY <1>9, <1>11, <1>12, <1>13, <1>14 DEF Inv

(* What the client sends is on the wire, unless its connection is closed.   *)
LEMMA SendFacts ==
    ASSUME Shape, mode = "active", NEW frame \in Sent, Send(frame)
    PROVE  /\ current \in Connections
           /\ toServer' \in [Connections -> Seq(Sent)]
           /\ \A j \in Connections : j # current =>
                 toServer'[j] = toServer[j]
           /\ toServer[current] \in Seq(Sent)
           /\ IF conn[current].closed
              THEN toServer'[current] = toServer[current]
              ELSE toServer'[current] = Append(toServer[current], frame)
<1>1. /\ current \in Connections
      /\ toServer \in [Connections -> Seq(Sent)]
  BY ShapeFacts DEF WiresOK
<1>2. toServer[current] \in Seq(Sent)
  BY <1>1
<1>3. Append(toServer[current], frame) \in Seq(Sent)
  BY <1>2, AppendProperties
<1> QED
  BY <1>1, <1>2, <1>3 DEF Send

(* What the client sends leaves the state of its shape.                     *)
LEMMA SendShape ==
    ASSUME Shape, mode = "active", NEW frame \in Sent, Send(frame),
           UNCHANGED <<serverVars, mode, current, view, toClient>>,
           policy' \in Policy, unsent' \subseteq Commands
    PROVE  Shape'
<1> USE DEF serverVars
<1>1. SessionOK' /\ PumpOK' /\ ConnsOK'
  BY ServerSame
<1>2. ClientOK'
  BY DEF Shape, ClientOK, Opening
<1>3. \A j \in Connections : Placed(j)'
  <2>1. ASSUME NEW j \in Connections PROVE Placed(j)'
    <3>1. Placed(j) /\ toClient'[j] = toClient[j] /\ conn'[j] = conn[j]
      BY ShapeFacts
    <3>2. j > current => toServer'[j] = toServer[j]
      <4>1. \A k \in Connections : ~(k > k)
        BY StreamAssumption DEF StreamAssumption
      <4> QED
        BY <4>1, SendFacts
    <3> QED
      BY <3>1, <3>2 DEF Placed
  <2> QED
    BY <2>1
<1>4. WiresOK'
  BY <1>3, SendFacts DEF Shape, WiresOK
<1> QED
  BY <1>1, <1>2, <1>4 DEF Shape

(* One more frame on a wire.                                                *)
LEMMA MoreFacts ==
    ASSUME NEW q \in Seq(Sent), NEW frame \in Sent,
           NEW r, r = q \/ r = Append(q, frame)
    PROVE  /\ \A m \in Nat :
                 /\ \A n \in 1..Len(q) : q[n].request.serial <= m
                 /\ frame.request.serial <= m
                 => \A n \in 1..Len(r) : r[n].request.serial <= m
           /\ (\E n \in DOMAIN q : q[n].kind = "update")
                 => \E n \in DOMAIN r : r[n].kind = "update"
           /\ r = Append(q, frame) /\ frame.kind = "update"
                 => \E n \in DOMAIN r : r[n].kind = "update"
           /\ \A c \in Commands :
                 /\ Named(q, c) \in Nat
                 /\ \/ Named(r, c) = Named(q, c)
                    \/ frame.command = c /\ Named(r, c) = Named(q, c) + 1
<1>1. /\ DOMAIN q = 1..Len(q) /\ Len(q) \in Nat
      /\ \A c \in Commands : Named(q, c) \in Nat
  BY LenProperties, FramesNamed, CommandedFacts
<1>2. CASE r = q /\ r # Append(q, frame)
  BY <1>1, <1>2
<1>3. CASE r = Append(q, frame)
  <2>1. /\ DOMAIN r = 1..Len(r) /\ Len(r) = Len(q) + 1
        /\ \A n \in 1..Len(q) : r[n] = q[n]
        /\ r[Len(q) + 1] = frame
    BY <1>3, AppendProperties, LenProperties
  <2>2. /\ \A n \in 1..Len(q) : n \in 1..Len(r)
        /\ Len(q) + 1 \in 1..Len(r)
        /\ \A n \in 1..Len(r) : n \in 1..Len(q) \/ n = Len(q) + 1
    BY <1>1, <2>1
  <2>3. ASSUME NEW m \in Nat, frame.request.serial <= m,
               \A n \in 1..Len(q) : q[n].request.serial <= m
        PROVE  \A n \in 1..Len(r) : r[n].request.serial <= m
    BY <2>1, <2>2, <2>3
  <2>4. (\E n \in DOMAIN q : q[n].kind = "update")
           => \E n \in DOMAIN r : r[n].kind = "update"
    BY <1>1, <2>1, <2>2
  <2>5. frame.kind = "update" => \E n \in DOMAIN r : r[n].kind = "update"
    BY <2>1, <2>2
  <2>6. ASSUME NEW c \in Commands
        PROVE  \/ Named(r, c) = Named(q, c)
               \/ frame.command = c /\ Named(r, c) = Named(q, c) + 1
    <3>1. Named(r, c) = Named(q, c)
                           + (IF frame.command = c THEN 1 ELSE 0)
      BY <1>3, FramesNamed, NamedAppend
    <3> QED
      BY <1>1, <3>1
  <2> QED
    BY <1>1, <2>3, <2>4, <2>5, <2>6
<1> QED
  BY <1>2, <1>3

(* A wire of older requests stays one when such a frame is added.           *)
LEMMA MoreOlder ==
    ASSUME NEW q \in Seq(Sent), NEW frame \in Sent,
           NEW r, r = q \/ r = Append(q, frame),
           NEW m \in Nat, frame.request.serial <= m,
           \A n \in 1..Len(q) : q[n].request.serial <= m
    PROVE  \A n \in 1..Len(r) : r[n].request.serial <= m
BY MoreFacts

(* A command enters the wire, and takes its slot.                           *)
LEMMA SendCommandOK ==
    ASSUME Inv, NEW d \in Commands, SendCommand(d)
    PROVE  Inv'
<1> USE DEF serverVars
<1> DEFINE frame == CommandFrame(d)
<1>1. /\ Shape /\ Numbered /\ Once /\ Answers /\ NoLostWait
      /\ mode = "active" /\ d \in unsent /\ current \in Connections
      /\ policy \in Policy
      /\ \A j \in Connections : Fits(conn[j])
  BY ShapeFacts DEF Inv, SendCommand, ClientOK
<1>2. /\ unsent' = unsent \ {d}
      /\ policy' = [policy EXCEPT !.pending = @ \cup {d}]
      /\ Send(frame)
      /\ UNCHANGED <<serverVars, mode, current, view, toClient>>
  BY DEF SendCommand
<1>3. /\ frame \in Sent /\ frame.command = d
      /\ frame.kind = "command" /\ frame.request.serial = 0
  BY FrameTypes DEF CommandFrame, NoRequest
<1> HIDE DEF frame
<1>4. /\ policy' \in Policy /\ policy'.pending = policy.pending \cup {d}
      /\ policy'.lastPoll = policy.lastPoll
      /\ policy'.lastFrame = policy.lastFrame
      /\ policy'.lastEvent = policy.lastEvent
      /\ policy'.ackPending = policy.ackPending
      /\ policy.lastPoll.serial \in Nat
  BY <1>1, <1>2 DEF Policy, Request
<1>5. Shape'
  <2>1. unsent' \subseteq Commands
    BY <1>1, <1>2 DEF Shape, ClientOK
  <2> QED
    BY <1>1, <1>2, <1>3, <1>4, <2>1, SendShape
<1>6. /\ \A j \in Connections :
            /\ j # current => toServer'[j] = toServer[j]
            /\ toServer[j] \in Seq(Sent)
      /\ \/ toServer'[current] = toServer[current]
         \/ toServer'[current] = Append(toServer[current], frame)
  BY <1>1, <1>2, <1>3, SendFacts, ShapeFacts
<1>7. /\ (\E n \in DOMAIN toServer[current] :
             toServer[current][n].kind = "update")
            => \E n \in DOMAIN toServer'[current] :
                  toServer'[current][n].kind = "update"
      /\ \A c \in Commands :
            \/ Named(toServer'[current], c) = Named(toServer[current], c)
            \/ /\ d = c
               /\ Named(toServer'[current], c)
                     = Named(toServer[current], c) + 1
  <2>1. toServer[current] \in Seq(Sent)
    BY <1>1, <1>6
  <2> DEFINE q == toServer[current]
             r == toServer'[current]
  <2>2. r = q \/ r = Append(q, frame)
    BY <1>6
  <2> HIDE DEF r
  <2>3. (\E n \in DOMAIN q : q[n].kind = "update")
            => \E n \in DOMAIN r : r[n].kind = "update"
    BY <1>3, <2>1, <2>2, MoreFacts
  <2>4. \A c \in Commands : \/ Named(r, c) = Named(q, c)
                           \/ /\ frame.command = c
                              /\ Named(r, c) = Named(q, c) + 1
    BY <1>3, <2>1, <2>2, MoreFacts
  <2> QED
    BY <1>3, <2>3, <2>4 DEF r
<1>8. /\ ~conn[current].closed \/ conn'[current].closed
      /\ conn'[current].closed => conn'[current].events = <<>>
      /\ conn' = conn
  BY <1>1, <1>2, CloseFacts DEF Fits
<1>9. Numbered'
  BY <1>1, <1>2, <1>4, <1>8, NumberedKept
<1>10. Once'
  <2>1. policy'.pending \cap unsent' = {}
    BY <1>1, <1>2, <1>4 DEF Once
  <2>2. ASSUME NEW c \in Commands
        PROVE  Total(c)' <= 1 /\ (Total(c)' # 0 => c \in policy'.pending)
    <3>1. /\ Named(toServer[current], c) \in Nat
          /\ Number(conn[current].commands, c) \in Nat
          /\ Held(c) \in Nat
          /\ Named(conn[current].control, c) \in Nat
          /\ Named(toClient[current], c) \in Nat
          /\ Total(c) \in Nat
          /\ Total(c) = Named(toServer[current], c)
                           + Number(conn[current].commands, c)
                           + Held(c) + Named(conn[current].control, c)
                           + Named(toClient[current], c)
      BY <1>1, TotalParts DEF Total
    <3>2. Total(c)' = Named(toServer'[current], c)
                         + Number(conn[current].commands, c)
                         + Held(c) + Named(conn[current].control, c)
                         + Named(toClient[current], c)
      <4>1. Held(c)' = Held(c)
        BY <1>2 DEF Held, Number, Where
      <4>2. Total(c)' = Named(toServer'[current'], c)
                           + Number(conn'[current'].commands, c)
                           + Held(c)' + Named(conn'[current'].control, c)
                           + Named(toClient'[current'], c)
        BY <1>1, <1>2, <1>5, TotalNext
      <4> QED
        BY <1>2, <4>1, <4>2
    <3>3. Total(c) <= 1 /\ (Total(c) # 0 => c \in policy.pending)
      BY <1>1 DEF Once
    <3>4. CASE Named(toServer'[current], c) = Named(toServer[current], c)
      <4>1. Total(c)' = Total(c)
        BY <3>1, <3>2, <3>4
      <4> QED
        BY <1>4, <3>3, <4>1
    <3>5. CASE /\ d = c
               /\ Named(toServer'[current], c)
                     = Named(toServer[current], c) + 1
      <4>1. Total(c)' = Total(c) + 1
        BY <3>1, <3>2, <3>5
      <4>2. c \notin policy.pending
        BY <1>1, <3>5 DEF Once
      <4>3. Total(c) = 0
        BY <3>3, <4>2
      <4> QED
        BY <1>4, <3>5, <4>1, <4>3
    <3> QED
      BY <1>7, <3>4, <3>5
  <2> QED
    BY <2>1, <2>2 DEF Once
<1>11. Answers'
  <2>1. \A n \in 1..Len(toServer[current]) :
           toServer[current][n].request.serial <= policy.lastPoll.serial
    BY <1>1 DEF Answers, Timely
  <2>2. 0 <= policy.lastPoll.serial
    BY <1>4
  <2>3. /\ frame.request.serial <= policy.lastPoll.serial
        /\ toServer[current] \in Seq(Sent)
        /\ \/ toServer'[current] = toServer[current]
           \/ toServer'[current] = Append(toServer[current], frame)
    BY <1>1, <1>3, <1>6, <2>2
  <2>4. \A n \in 1..Len(toServer'[current]) :
           toServer'[current][n].request.serial <= policy.lastPoll.serial
    <3>1. PICK q \in Seq(Sent) : q = toServer[current]
      BY <2>3
    <3>2. PICK r : r = toServer'[current]
      OBVIOUS
    <3>3. PICK m \in Nat : m = policy.lastPoll.serial
      BY <1>4
    <3>4. /\ r = q \/ r = Append(q, frame)
          /\ frame.request.serial <= m
          /\ \A n \in 1..Len(q) : q[n].request.serial <= m
      BY <2>1, <2>3, <3>1, <3>2, <3>3
    <3>5. \A n \in 1..Len(r) : r[n].request.serial <= m
      BY <1>3, <3>4, MoreOlder
    <3> QED
      BY <3>2, <3>3, <3>5
  <2>5. \/ conn'[current].closed /\ conn'[current].events = <<>>
        \/ ~conn[current].closed /\ ~conn'[current].closed
    BY <1>8
  <2> QED
    BY <1>1, <1>2, <1>4, <1>8, <2>4, <2>5, AnswersKept
<1>12. NoLostWait'
  <2>1. ASSUME NEW j \in Connections, Waits(conn'[j])
        PROVE  Waits(conn[j]) /\ (Answering(j) => Answering(j)')
    <3>1. CASE j = current
      BY <1>1, <1>2, <1>4, <1>7, <2>1, <3>1 DEF Answering
    <3>2. CASE j # current
      BY <1>2, <1>6, <2>1, <3>2 DEF Answering
    <3> QED
      BY <3>1, <3>2
  <2> QED
    BY <1>1, <2>1, WaitKept
<1> QED
  BY <1>5, <1>9, <1>10, <1>11, <1>12 DEF Inv

(* A newer request of the client leaves the older ones in their order.      *)
LEMMA AnswersRaised ==
    ASSUME Shape, Answers, mode = "active", current \in Connections,
           UNCHANGED <<pump, conn, toClient, mode, current>>,
           policy'.lastEvent = policy.lastEvent,
           NEW m \in Nat, m = policy.lastPoll.serial,
           NEW n \in Nat, n = policy'.lastPoll.serial, m <= n,
           \A k \in 1..Len(toServer'[current]) :
              toServer'[current][k].request.serial <= n
    PROVE  Answers'
<1>1. Ordered /\ Timely /\ Asking
  BY DEF Answers
<1>2. /\ conn[current] \in Core /\ pump \in PumpState
      /\ conn[current].request.serial \in Nat
      /\ pump.request.serial \in Nat
  <2>1. conn[current] \in Core /\ pump \in PumpState
    BY ShapeFacts DEF PumpOK
  <2>2. conn[current].request \in Request /\ pump.request \in Request
    BY <2>1 DEF Core, PumpState
  <2> QED
    BY <2>1, <2>2 DEF Request
<1>3. /\ \A r : Told(r)' <=> Told(r)
      /\ \A r : Staged(r)' <=> Staged(r)
  <2>1. \A r : Told(r)' <=> \/ r = policy'.lastEvent
                            \/ Asks(toClient'[current'], r)
                            \/ Asks(conn'[current'].events, r)
    BY DEF Told, Asks
  <2>2. \A r : Staged(r)' <=> Staged(r)
    BY DEF Staged
  <2> QED
    BY <2>1, <2>2 DEF Told
<1>4. Ordered'
  <2>1. /\ Rising(toClient[current])' /\ Rising(conn[current].events)'
        /\ \A r : Asks(toClient[current], r)' <=> Asks(toClient[current], r)
        /\ \A r : Asks(conn[current].events, r)'
                     <=> Asks(conn[current].events, r)
    BY <1>1 DEF Ordered, Rising, Asks
  <2> QED
    BY <1>1, <1>3, <2>1 DEF Ordered
<1>5. Timely'
  <2>1. \A r \in Nat : Told(r) \/ Staged(r) => r <= n
    BY <1>1 DEF Timely
  <2>2. ~conn[current].closed => conn[current].request.serial <= n
    BY <1>1, <1>2 DEF Timely
  <2>3. ~conn[current].closed =>
           \A r \in Nat : Told(r) \/ Staged(r) =>
              /\ r <= conn[current].request.serial
              /\ ~conn[current].awaiting
                    => r < conn[current].request.serial
    BY <1>1 DEF Timely
  <2> QED
    BY <1>3, <2>1, <2>2, <2>3 DEF Timely
<1>6. Asking'
  <2>1. CASE pump.stage = "commands" /\ pump.conn = current
    <3>1. /\ pump.request.serial <= n
          /\ ~conn[current].closed =>
                pump.request.serial <= conn[current].request.serial
          /\ ~pump.awaiting =>
                \A r \in Nat : Told(r) => r < pump.request.serial
      BY <1>1, <1>2, <2>1 DEF Asking
    <3> QED
      BY <1>3, <3>1 DEF Asking
  <2>2. CASE ~(pump.stage = "commands" /\ pump.conn = current)
    BY <2>2 DEF Asking
  <2> QED
    BY <2>1, <2>2
<1> QED
  BY <1>4, <1>5, <1>6 DEF Answers

(* An Update answers what was accepted, with the state of the client.       *)
LEMMA SendUpdateOK ==
    ASSUME Inv, SendUpdate
    PROVE  Inv'
<1> USE DEF serverVars
<1> DEFINE update == SessionRequest(policy.lastPoll.serial + 1)
           frame == UpdateFrame(update)
<1>1. /\ Shape /\ Numbered /\ Once /\ Answers /\ NoLostWait
      /\ mode = "active" /\ current \in Connections
      /\ policy \in Policy /\ view \in [Terminals -> View]
      /\ unsent \subseteq Commands
      /\ \A j \in Connections : Fits(conn[j])
  BY ShapeFacts DEF Inv, SendUpdate, ClientOK
<1>2. /\ policy' = [policy EXCEPT !.lastPoll = update, !.ackPending = FALSE]
      /\ Send(frame)
      /\ UNCHANGED <<serverVars, mode, current, unsent, view, toClient>>
  BY DEF SendUpdate
<1>3. PICK m \in Nat : m = policy.lastPoll.serial
  BY <1>1 DEF Policy, Request
<1>4. update \in Request /\ update.serial = m + 1
  <2>1. ASSUME NEW t \in Terminals
        PROVE  [visible |-> view[t].visible,
                visGeneration |-> view[t].visGeneration,
                cursor |-> IF view[t].needsAttach \/ ~view[t].attached
                           THEN NoCursor ELSE view[t].applied]
                  \in Subscription
    <3>1. view[t] \in View
      BY <1>1
    <3>2. /\ view[t].visible \in BOOLEAN /\ view[t].visGeneration \in Nat
          /\ view[t].applied \in Nat
      BY <3>1 DEF View
    <3> QED
      BY <3>2 DEF Subscription
  <2> QED
    BY <1>3, <2>1 DEF SessionRequest, Request
<1>5. /\ frame \in Sent /\ frame.kind = "update" /\ frame.command = 0
      /\ frame.request.serial = m + 1
  <2>1. frame \in Sent
    BY <1>4, FrameTypes
  <2>2. /\ frame.kind = "update" /\ frame.command = 0
        /\ frame.request = update
    BY DEF UpdateFrame
  <2> QED
    BY <1>4, <2>1, <2>2
<1> HIDE DEF frame, update
<1>6. /\ policy' \in Policy /\ policy'.pending = policy.pending
      /\ policy'.lastPoll = update
      /\ policy'.lastFrame = policy.lastFrame
      /\ policy'.lastEvent = policy.lastEvent
      /\ ~policy'.ackPending
  BY <1>1, <1>2, <1>4 DEF Policy
<1>7. Shape'
  <2>1. unsent' \subseteq Commands
    BY <1>1, <1>2
  <2> QED
    BY <1>1, <1>2, <1>5, <1>6, <2>1, SendShape
<1>8. /\ \A j \in Connections :
            /\ j # current => toServer'[j] = toServer[j]
            /\ toServer[j] \in Seq(Sent)
      /\ \/ toServer'[current] = toServer[current]
         \/ toServer'[current] = Append(toServer[current], frame)
      /\ ~conn[current].closed =>
            toServer'[current] = Append(toServer[current], frame)
  BY <1>1, <1>2, <1>5, SendFacts, ShapeFacts
<1>9. /\ (\E n \in DOMAIN toServer[current] :
             toServer[current][n].kind = "update")
            => \E n \in DOMAIN toServer'[current] :
                  toServer'[current][n].kind = "update"
      /\ ~conn[current].closed =>
            \E n \in DOMAIN toServer'[current] :
               toServer'[current][n].kind = "update"
      /\ \A c \in Commands :
            Named(toServer'[current], c) = Named(toServer[current], c)
  <2>1. \A c \in Commands : frame.command # c
    BY <1>5, StreamAssumption DEF StreamAssumption
  <2> QED
    BY <1>1, <1>5, <1>8, <2>1, MoreFacts
<1>10. Numbered'
  <2>1. /\ conn' = conn
        /\ conn'[current].closed \/ ~conn[current].closed
    BY <1>2
  <2> QED
    BY <1>1, <1>2, <1>6, <2>1, NumberedKept
<1>11. Once'
  <2>1. ASSUME NEW c \in Commands
        PROVE  Total(c) \in Nat /\ Total(c)' \in Nat /\ Total(c)' <= Total(c)
    <3>1. /\ Total(c) \in Nat
          /\ Total(c) = Named(toServer[current], c)
                           + Number(conn[current].commands, c)
                           + Held(c) + Named(conn[current].control, c)
                           + Named(toClient[current], c)
      BY <1>1, TotalParts DEF Total
    <3>2. Held(c)' = Held(c)
      BY <1>2 DEF Held, Number, Where
    <3>3. Total(c)' = Named(toServer'[current'], c)
                         + Number(conn'[current'].commands, c)
                         + Held(c)' + Named(conn'[current'].control, c)
                         + Named(toClient'[current'], c)
      BY <1>1, <1>2, <1>7, TotalNext
    <3>4. Total(c)' = Total(c)
      BY <1>2, <1>9, <3>1, <3>2, <3>3
    <3> QED
      BY <3>1, <3>4
  <2> QED
    BY <1>1, <1>2, <1>6, <2>1, OnceKept
<1>12. Answers'
  <2>1. \A n \in 1..Len(toServer[current]) :
           toServer[current][n].request.serial <= m + 1
    <3>1. ASSUME NEW n \in 1..Len(toServer[current])
          PROVE  toServer[current][n].request.serial <= m + 1
      <4>1. toServer[current][n].request.serial <= m
        BY <1>1, <1>3 DEF Answers, Timely
      <4>2. toServer[current][n] \in Sent
        BY <1>1, <1>8, ElementOfSeq
      <4>3. toServer[current][n].request \in Request
        BY <4>2 DEF Sent, ClientFrame
      <4>4. toServer[current][n].request.serial \in Nat
        BY <4>3 DEF Request
      <4> QED
        BY <4>1, <4>4
    <3> QED
      BY <3>1
  <2>2. /\ m + 1 \in Nat /\ m <= m + 1
        /\ frame.request.serial <= m + 1
        /\ toServer[current] \in Seq(Sent)
        /\ \/ toServer'[current] = toServer[current]
           \/ toServer'[current] = Append(toServer[current], frame)
    BY <1>1, <1>5, <1>8
  <2>3. \A n \in 1..Len(toServer'[current]) :
           toServer'[current][n].request.serial <= m + 1
    <3> DEFINE r == toServer'[current]
    <3>1. r = toServer[current] \/ r = Append(toServer[current], frame)
      BY <2>2
    <3> HIDE DEF r
    <3>2. \A n \in 1..Len(r) : r[n].request.serial <= m + 1
      BY <1>5, <2>1, <2>2, <3>1, MoreOlder
    <3> QED
      BY <3>2 DEF r
  <2>4. m + 1 = policy'.lastPoll.serial
    BY <1>4, <1>6
  <2>5. UNCHANGED <<pump, conn, toClient, mode, current>>
    BY <1>2
  <2> QED
    BY <1>1, <1>3, <1>6, <2>2, <2>3, <2>4, <2>5, AnswersRaised
<1>13. NoLostWait'
  <2>1. ASSUME NEW j \in Connections, Waits(conn'[j])
        PROVE  Waits(conn[j]) /\ (Answering(j) => Answering(j)')
    <3>1. conn' = conn /\ ~conn[j].closed
      BY <1>2, <2>1 DEF Waits, Live
    <3>2. CASE j = current
      BY <1>2, <1>9, <2>1, <3>1, <3>2 DEF Answering
    <3>3. CASE j # current
      BY <1>2, <1>8, <2>1, <3>1, <3>3 DEF Answering
    <3> QED
      BY <3>2, <3>3
  <2> QED
    BY <1>1, <2>1, WaitKept
<1> QED
  BY <1>7, <1>10, <1>11, <1>12, <1>13 DEF Inv

(* What the client makes of a batch is a view still.                        *)
LEMMA BatchAccepted ==
    ASSUME NEW v \in View, NEW b \in Batch
    PROVE  AcceptBatch(v, b) \in View
<1>1. /\ v.applied \in Nat /\ b.last \in Nat
      /\ MaxOf(v.applied, b.last) \in Nat
  BY DEF View, Batch, MaxOf
<1> QED
  BY <1>1 DEF AcceptBatch, View

(* The client accepts a frame: it is the oldest on the wire, and what it    *)
(* answers or finishes is the client's.                                     *)
LEMMA AcceptFrameOK ==
    ASSUME Inv, AcceptFrame
    PROVE  Inv'
<1> USE DEF serverVars
<1> DEFINE q == toClient[current]
           frame == Head(q)
           rest == Tail(q)
<1>1. /\ Shape /\ Numbered /\ Once /\ Answers /\ NoLostWait
      /\ mode = "active" /\ current \in Connections
      /\ policy \in Policy /\ view \in [Terminals -> View]
      /\ unsent \subseteq Commands
      /\ toClient \in [Connections -> Seq(Replies)]
      /\ q \in Seq(Replies) /\ q # <<>>
      /\ \A j \in Connections : Fits(conn[j]) /\ conn[j] \in Core
  BY ShapeFacts DEF Inv, AcceptFrame, ClientOK, WiresOK
<1>2. /\ toClient' = [toClient EXCEPT ![current] = rest]
      /\ UNCHANGED <<serverVars, mode, current, unsent, toServer>>
      /\ Acceptable(frame)
      /\ \/ /\ frame.kind = "heartbeat"
            /\ policy' = [policy EXCEPT !.lastFrame = frame.serial]
            /\ UNCHANGED view
         \/ /\ frame.kind = "result"
            /\ policy' = [policy EXCEPT
                             !.lastFrame = frame.serial,
                             !.pending = policy.pending \ {frame.command}]
            /\ UNCHANGED view
         \/ /\ frame.kind = "events"
            /\ policy' = [policy EXCEPT !.lastFrame = frame.serial,
                                        !.lastEvent = frame.request,
                                        !.ackPending = TRUE]
            /\ view' = [t \in Terminals |->
                           AcceptBatch(view[t], frame.batches[t])]
  <2>1. UNCHANGED <<serverVars, mode, current, unsent, toServer>>
    BY DEF AcceptFrame
  <2>2. toClient' = [toClient EXCEPT ![current] = rest]
        /\ Acceptable(frame)
    BY DEF AcceptFrame
  <2>3. \/ /\ frame.kind = "heartbeat"
           /\ policy' = [policy EXCEPT !.lastFrame = frame.serial]
           /\ UNCHANGED view
        \/ /\ frame.kind = "result"
           /\ policy' = [policy EXCEPT
                            !.lastFrame = frame.serial,
                            !.pending = policy.pending \ {frame.command}]
           /\ UNCHANGED view
        \/ /\ frame.kind = "events"
           /\ policy' = [policy EXCEPT !.lastFrame = frame.serial,
                                       !.lastEvent = frame.request,
                                       !.ackPending = TRUE]
           /\ view' = [t \in Terminals |->
                          AcceptBatch(view[t], frame.batches[t])]
    BY <1>1 DEF AcceptFrame, Policy
  <2> QED
    BY <2>1, <2>2, <2>3
<1>3. /\ frame \in Replies /\ frame \in ServerFrame
      /\ frame.serial \in Nat /\ frame.request \in Nat
      /\ frame.batches \in [Terminals -> Batch]
      /\ rest \in Seq(Replies)
  <2>1. frame \in Replies /\ rest \in Seq(Replies)
    BY <1>1, HeadAndTail
  <2> QED
    BY <2>1 DEF Replies, ServerFrame
<1>4. /\ Framed(Replies)
      /\ \A c \in Commands :
            Named(q, c) = Named(rest, c)
                             + (IF frame.command = c THEN 1 ELSE 0)
  BY <1>1, FramesNamed, NamedTail
<1>5. /\ \A r : Asks(q, r) <=>
            \/ Asks(rest, r)
            \/ frame.kind = "events" /\ frame.request = r
      /\ Rising(q) =>
            /\ Rising(rest)
            /\ frame.kind = "events" =>
                  \A r : Asks(rest, r) => frame.request < r
  BY <1>1, AsksTail
<1>6. /\ policy.lastFrame \in Nat
      /\ NumberedFrom(q, policy.lastFrame)
      /\ frame.serial = policy.lastFrame + 1
      /\ Len(rest) + 1 = Len(q) /\ Len(rest) \in Nat
      /\ NumberedFrom(rest, policy.lastFrame + 1)
  <2>1. policy.lastFrame \in Nat /\ NumberedFrom(q, policy.lastFrame)
    BY <1>1 DEF Policy, Numbered
  <2>2. Len(rest) \in Nat
    BY <1>3, LenProperties
  <2> QED
    BY <1>1, <2>1, <2>2, NumberedTail
<1>7. /\ toClient' \in [Connections -> Seq(Replies)]
      /\ toClient'[current] = rest
      /\ \A j \in Connections : j # current => toClient'[j] = toClient[j]
  BY <1>1, <1>2, <1>3
<1>8. (\E n \in DOMAIN q : q[n].kind = "events") =>
         \/ frame.kind = "events"
         \/ \E n \in DOMAIN rest : rest[n].kind = "events"
  <2>1. ASSUME NEW n \in DOMAIN q, q[n].kind = "events",
               frame.kind # "events"
        PROVE  \E k \in DOMAIN rest : rest[k].kind = "events"
    <3>1. /\ Len(q) \in Nat \ {0} /\ Len(rest) = Len(q) - 1
          /\ frame = q[1] /\ DOMAIN q = 1..Len(q)
          /\ DOMAIN rest = 1..Len(rest)
          /\ \A k \in 1..(Len(q) - 1) : rest[k] = q[k + 1]
      BY <1>1, <1>3, HeadAndTail, LenProperties
    <3>2. n # 1 /\ n \in 1..Len(q)
      BY <2>1, <3>1
    <3> HIDE DEF frame, rest, q
    <3>3. n - 1 \in 1..Len(rest) /\ n - 1 \in 1..(Len(q) - 1)
          /\ (n - 1) + 1 = n
      BY <3>1, <3>2
    <3>4. rest[n - 1] = q[n]
      BY <3>1, <3>3
    <3> QED
      BY <2>1, <3>1, <3>3, <3>4
  <2> QED
    BY <2>1
<1> HIDE DEF rest
<1>9. /\ policy' \in Policy
      /\ policy'.lastFrame = policy.lastFrame + 1
      /\ policy'.lastPoll = policy.lastPoll
      /\ policy'.lastEvent = IF frame.kind = "events" THEN frame.request
                             ELSE policy.lastEvent
      /\ policy.ackPending => policy'.ackPending
      /\ frame.kind = "events" => policy'.ackPending
      /\ \A c : c \in policy.pending =>
            \/ c \in policy'.pending
            \/ frame.kind = "result" /\ frame.command = c
      /\ policy'.pending \subseteq policy.pending
  BY <1>1, <1>2, <1>3, <1>6 DEF Policy
<1>10. view' \in [Terminals -> View]
  BY <1>1, <1>2, <1>3, BatchAccepted
<1> HIDE DEF frame, q
<1>11. Shape'
  <2>1. SessionOK' /\ PumpOK' /\ ConnsOK'
    BY <1>1, <1>2, ServerSame
  <2>2. ClientOK'
    BY <1>1, <1>2, <1>9, <1>10 DEF Shape, ClientOK, Opening
  <2>3. \A j \in Connections : Placed(j)'
    <3>1. ASSUME NEW j \in Connections PROVE Placed(j)'
      <4>1. Placed(j) /\ conn'[j] = conn[j] /\ toServer'[j] = toServer[j]
        BY <1>1, <1>2, ShapeFacts
      <4>2. CASE j = current
        <5>1. ~(j > current)
          BY <1>1, <4>2, StreamAssumption DEF StreamAssumption
        <5>2. toClient[j] # <<>>
          BY <1>1, <4>2 DEF q
        <5> QED
          BY <1>2, <4>1, <5>1, <5>2 DEF Placed
      <4>3. CASE j # current
        BY <1>2, <1>7, <4>1, <4>3 DEF Placed
      <4> QED
        BY <4>2, <4>3
    <3> QED
      BY <3>1
  <2>4. WiresOK'
    BY <1>1, <1>2, <1>7, <2>3 DEF Shape, WiresOK
  <2> QED
    BY <2>1, <2>2, <2>4 DEF Shape
<1>12. Numbered'
  <2>1. ~conn[current].closed => conn[current].nextSerial =
           policy.lastFrame + Len(q) + 1
    BY <1>1 DEF Numbered, q
  <2>2. ~conn[current].closed => conn[current].nextSerial =
           policy.lastFrame + 1 + Len(rest) + 1
    BY <1>6, <2>1
  <2>3. NumberedFrom(toClient[current], policy.lastFrame)' <=>
           NumberedFrom(rest, policy.lastFrame + 1)
    BY <1>2, <1>7, <1>9 DEF NumberedFrom
  <2> QED
    BY <1>2, <1>6, <1>7, <1>9, <2>2, <2>3 DEF Numbered
<1>13. Once'
  <2>1. policy'.pending \cap unsent' = {}
    BY <1>1, <1>2, <1>9 DEF Once
  <2>2. ASSUME NEW c \in Commands
        PROVE  Total(c)' <= 1 /\ (Total(c)' # 0 => c \in policy'.pending)
    <3>1. /\ Named(toServer[current], c) \in Nat
          /\ Number(conn[current].commands, c) \in Nat
          /\ Held(c) \in Nat
          /\ Named(conn[current].control, c) \in Nat
          /\ Named(q, c) \in Nat
          /\ Total(c) \in Nat
          /\ Total(c) = Named(toServer[current], c)
                           + Number(conn[current].commands, c)
                           + Held(c) + Named(conn[current].control, c)
                           + Named(q, c)
      BY <1>1, TotalParts DEF Total, q
    <3>2. Total(c)' = Named(toServer[current], c)
                         + Number(conn[current].commands, c)
                         + Held(c) + Named(conn[current].control, c)
                         + Named(rest, c)
          /\ Named(rest, c) \in Nat
      <4>1. Held(c)' = Held(c)
        BY <1>2 DEF Held, Number, Where
      <4>2. Total(c)' = Named(toServer'[current'], c)
                           + Number(conn'[current'].commands, c)
                           + Held(c)' + Named(conn'[current'].control, c)
                           + Named(toClient'[current'], c)
            /\ Named(toClient'[current'], c) \in Nat
        BY <1>1, <1>2, <1>11, TotalNext
      <4> QED
        BY <1>2, <1>7, <4>1, <4>2
    <3>3. Total(c) <= 1 /\ (Total(c) # 0 => c \in policy.pending)
      BY <1>1 DEF Once
    <3>4. CASE frame.command = c
      <4>1. Named(q, c) = Named(rest, c) + 1
        BY <1>4, <3>4
      <4>2. Total(c) = Total(c)' + 1 /\ Total(c)' \in Nat
        BY <3>1, <3>2, <4>1
      <4> QED
        BY <3>1, <3>3, <4>2
    <3>5. CASE frame.command # c
      <4>1. Named(q, c) = Named(rest, c)
        BY <1>4, <3>1, <3>2, <3>5
      <4>2. Total(c) = Total(c)'
        BY <3>1, <3>2, <4>1
      <4> QED
        BY <1>9, <3>3, <3>5, <4>2
    <3> QED
      BY <3>4, <3>5
  <2> QED
    BY <2>1, <2>2 DEF Once
<1>14. Answers'
  <2>1. Ordered /\ Timely /\ Asking
    BY <1>1 DEF Answers
  <2>2. /\ policy.lastEvent \in Nat /\ policy'.lastEvent \in Nat
    BY <1>1, <1>9 DEF Policy
  <2>3. /\ \A r : Told(r)' <=> \/ r = policy'.lastEvent
                               \/ Asks(rest, r)
                               \/ Asks(conn[current].events, r)
        /\ \A r : Staged(r)' <=> Staged(r)
    <3>1. \A r : Told(r)' <=> \/ r = policy'.lastEvent
                              \/ Asks(toClient'[current'], r)
                              \/ Asks(conn'[current'].events, r)
      BY DEF Told, Asks
    <3>2. \A r : Staged(r)' <=> Staged(r)
      BY <1>2 DEF Staged
    <3> QED
      BY <1>2, <1>7, <3>1, <3>2
  <2>4. \A r : Told(r)' => Told(r)
    <3>1. \A r : Asks(rest, r) => Asks(q, r)
      BY <1>5
    <3>2. policy'.lastEvent = policy.lastEvent
          \/ Asks(q, policy'.lastEvent)
      BY <1>5, <1>9
    <3> QED
      BY <2>3, <3>1, <3>2 DEF Told, q
  <2>5. /\ Rising(q) /\ Rising(conn[current].events)
        /\ \A r, s \in Nat : Asks(q, r) /\ Asks(conn[current].events, s)
                                => r < s
        /\ \A r \in Nat : Asks(q, r) \/ Asks(conn[current].events, r)
                             => policy.lastEvent < r
    BY <2>1 DEF Ordered, q
  <2>6. Ordered'
    <3>1. Rising(rest)
          /\ \A r, s \in Nat :
                Asks(rest, r) /\ Asks(conn[current].events, s) => r < s
      BY <1>5, <2>5
    <3>2. ASSUME NEW r \in Nat,
                 Asks(rest, r) \/ Asks(conn[current].events, r)
          PROVE  policy'.lastEvent < r
      BY <1>3, <1>5, <1>9, <2>5, <3>2
    <3>3. \A r, s \in Nat : Told(r)' /\ Staged(s)' => r < s
      BY <2>1, <2>3, <2>4 DEF Ordered
    <3>4. /\ Rising(toClient[current])' /\ Rising(conn[current].events)'
          /\ \A r : Asks(toClient[current], r)' <=> Asks(rest, r)
          /\ \A r : Asks(conn[current].events, r)'
                       <=> Asks(conn[current].events, r)
      BY <1>2, <1>7, <2>5, <3>1 DEF Rising, Asks
    <3> QED
      BY <3>1, <3>2, <3>3, <3>4 DEF Ordered
  <2>7. Timely'
    <3>1. \A r \in Nat : Told(r)' \/ Staged(r)'
                            => r <= policy.lastPoll.serial
      BY <2>1, <2>3, <2>4 DEF Timely
    <3>2. ~conn[current].closed =>
             \A r \in Nat : Told(r)' \/ Staged(r)' =>
                /\ r <= conn[current].request.serial
                /\ ~conn[current].awaiting
                      => r < conn[current].request.serial
      BY <2>1, <2>3, <2>4 DEF Timely
    <3> QED
      BY <1>2, <1>9, <2>1, <3>1, <3>2 DEF Timely
  <2>8. Asking'
    BY <1>2, <1>9, <2>1, <2>4 DEF Asking
  <2> QED
    BY <2>6, <2>7, <2>8 DEF Answers
<1>15. NoLostWait'
  <2>1. ASSUME NEW j \in Connections, Waits(conn'[j])
        PROVE  Waits(conn[j]) /\ (Answering(j) => Answering(j)')
    <3>1. CASE j = current
      <4>1. (\E n \in DOMAIN toClient[j] : toClient[j][n].kind = "events")
               => \/ policy'.ackPending
                  \/ \E n \in DOMAIN toClient'[j] :
                        toClient'[j][n].kind = "events"
        BY <1>7, <1>8, <1>9, <3>1 DEF q
      <4> QED
        BY <1>1, <1>2, <1>9, <2>1, <3>1, <4>1 DEF Answering
    <3>2. CASE j # current
      BY <1>2, <1>7, <2>1, <3>2 DEF Answering
    <3> QED
      BY <3>1, <3>2
  <2> QED
    BY <1>1, <2>1, WaitKept
<1> QED
  BY <1>11, <1>12, <1>13, <1>14, <1>15 DEF Inv

-----------------------------------------------------------------------------
(* Every step                                                               *)

(* The first state satisfies the invariant.                                 *)
LEMMA InitOK == Init => Inv
<1> SUFFICES ASSUME Init PROVE Inv
  OBVIOUS
<1>1. /\ mode = "closed" /\ current = 0 /\ pump = Idle
      /\ head = [t \in Terminals |-> 0]
      /\ subscriber = [t \in Terminals |-> Absent]
      /\ conn = [i \in Connections |-> FreshCore]
      /\ refusals = 0
      /\ toServer = [i \in Connections |-> <<>>]
      /\ toClient = [i \in Connections |-> <<>>]
      /\ policy = Activated(NoRequest) /\ unsent = Commands
      /\ view = [t \in Terminals |-> Registered]
  BY DEF Init
<1>2. SessionOK
  <2>1. Absent \in Subscriber
    BY DEF Absent, Subscriber
  <2> QED
    BY <1>1, <2>1 DEF SessionOK
<1>3. PumpOK
  <2>1. <<>> \in Seq(Commands)
    BY EmptySeq
  <2>2. /\ Idle.stage = "idle" /\ Idle.conn = 0 /\ Idle.commands = <<>>
        /\ Idle.frame = NoFrame /\ NoFrame.command = 0
    BY DEF Idle, NoFrame, NewFrame
  <2>3. Idle \in PumpState
    BY <2>1, FrameTypes DEF Idle, PumpState, Stages
  <2> QED
    BY <1>1, <2>2, <2>3 DEF PumpOK, Pumping
<1>4. ConnsOK
  BY <1>1, FreshFits, FreshFacts DEF ConnsOK, CoreOK
<1>5. WiresOK
  <2>1. <<>> \in Seq(Sent) /\ <<>> \in Seq(Replies)
    BY EmptySeq
  <2> QED
    BY <1>1, <2>1 DEF WiresOK, Placed
<1>6. ClientOK
  BY <1>1, ActivatedType, ViewsRegistered, FrameTypes
  DEF ClientOK, Modes, Opening
<1>7. Numbered /\ Answers
  BY <1>1 DEF Numbered, Answers
<1>8. Once
  BY <1>1, ActivatedType, FrameTypes DEF Once
<1>9. NoLostWait
  BY <1>1, FreshFacts DEF NoLostWait
<1> QED
  BY <1>2, <1>3, <1>4, <1>5, <1>6, <1>7, <1>8, <1>9 DEF Inv, Shape

(* So does a step in which nothing happens.                                 *)
LEMMA StutterOK ==
    ASSUME Inv, UNCHANGED vars
    PROVE  Inv'
<1>1. UNCHANGED <<head, subscriber, conn, pump, refusals,
                  mode, current, policy, unsent, view, toServer, toClient>>
  BY DEF vars, serverVars, clientVars
<1>2. UNCHANGED clientVars
  BY <1>1 DEF clientVars
<1>3. Shape
  BY DEF Inv
<1>4. Shape'
  <2>1. UNCHANGED <<serverVars, current>>
    BY <1>1 DEF serverVars
  <2>2. SessionOK' /\ PumpOK'
    BY <1>3, <2>1, ServerSame
  <2> QED
    BY <1>1, <1>2, <1>3, <2>2, ServerOnly
<1>5. \A i \in Connections :
         /\ Quiet(conn[i], conn'[i])
         /\ Calm(toServer[i], toServer'[i], conn'[i])
  BY <1>1, <1>3, ShapeFacts, QuietSame, CalmSame
<1> QED
  BY <1>1, <1>4, <1>5, QuietOK

(* Every step of the state thread keeps the invariant.                      *)
LEMMA StateThreadOK ==
    ASSUME Inv, StateThread
    PROVE  Inv'
<1>1. CASE PumpCommand
  BY <1>1, PumpCommandOK
<1>2. CASE PumpPoll
  BY <1>2, PumpPollOK
<1>3. CASE PumpPollFails
  BY <1>3, PumpPollFailsOK
<1>4. CASE PumpEnqueue
  BY <1>4, PumpEnqueueOK
<1>5. CASE DisconnectClient
  BY <1>5, DisconnectClientOK
<1>6. ASSUME NEW t \in Terminals, Output(t) PROVE Inv'
  BY <1>6, OutputOK
<1>7. ASSUME NEW i \in Connections,
             PumpBegin(i) \/ RetireConnection(i) \/ ExpireTicket(i)
      PROVE  Inv'
  <2>1. CASE PumpBegin(i)
    BY <2>1, PumpBeginOK
  <2>2. CASE RetireConnection(i)
    BY <2>2, RetireConnectionOK
  <2>3. CASE ExpireTicket(i)
    BY <2>3, ExpireTicketOK
  <2> QED
    BY <1>7, <2>1, <2>2, <2>3
<1> QED
  BY <1>1, <1>2, <1>3, <1>4, <1>5, <1>6, <1>7 DEF StateThread

(* Every step of the client keeps it.                                       *)
LEMMA ClientStepOK ==
    ASSUME Inv, Client
    PROVE  Inv'
<1>1. CASE Connect
  BY <1>1, ConnectOK
<1>2. CASE SendUpdate
  BY <1>2, SendUpdateOK
<1>3. CASE AcceptFrame
  BY <1>3, AcceptFrameOK
<1>4. CASE RefuseFrame
  <2>1. mode # "closed" /\ FallsBack
    BY <1>4 DEF RefuseFrame
  <2> QED
    BY <2>1, FallsBackOK
<1>5. CASE FallBack
  <2>1. mode # "closed" /\ FallsBack
    BY <1>5 DEF FallBack
  <2> QED
    BY <2>1, FallsBackOK
<1>6. CASE SeeClose
  <2>1. mode # "closed" /\ FallsBack
    BY <1>6 DEF SeeClose
  <2> QED
    BY <2>1, FallsBackOK
<1>7. ASSUME NEW i \in Connections, Open(i) PROVE Inv'
  BY <1>7, OpenOK
<1>8. ASSUME NEW t \in Terminals, Toggle(t) PROVE Inv'
  BY <1>8, ToggleOK
<1>9. ASSUME NEW c \in Commands, SendCommand(c) PROVE Inv'
  BY <1>9, SendCommandOK
<1> QED
  BY <1>1, <1>2, <1>3, <1>4, <1>5, <1>6, <1>7, <1>8, <1>9 DEF Client

(* Every step of the reader and of the writer keeps it.                     *)
LEMMA ReaderOK ==
    ASSUME Inv, NEW i \in Connections, Reader(i) \/ WriteFrame(i)
    PROVE  Inv'
<1>1. CASE ReadConnect(i)
  BY <1>1, ReadConnectOK
<1>2. CASE Bind(i)
  BY <1>2, BindOK
<1>3. CASE ReadCommand(i)
  BY <1>3, ReadCommandOK
<1>4. CASE ReadUpdate(i)
  BY <1>4, ReadUpdateOK
<1>5. CASE ReadEnd(i)
  BY <1>5, ReadEndOK
<1>6. CASE WriteFrame(i)
  BY <1>6, WriteFrameOK
<1> QED
  BY <1>1, <1>2, <1>3, <1>4, <1>5, <1>6 DEF Reader

(* Every step keeps the invariant.                                          *)
LEMMA NextOK == Inv /\ [Next]_vars => Inv'
<1> SUFFICES ASSUME Inv, [Next]_vars PROVE Inv'
  OBVIOUS
<1>1. CASE StateThread
  BY <1>1, StateThreadOK
<1>2. CASE Client
  BY <1>2, ClientStepOK
<1>3. ASSUME NEW i \in Connections, Reader(i) \/ WriteFrame(i) PROVE Inv'
  BY <1>3, ReaderOK
<1>4. CASE UNCHANGED vars
  BY <1>4, StutterOK
<1> QED
  BY <1>1, <1>2, <1>3, <1>4 DEF Next

-----------------------------------------------------------------------------
(* Theorems                                                                 *)

(* What session_stream_service.cpp and the client's SessionStreamPolicy     *)
(* keep between them: what each connection holds, its numbers, the places   *)
(* of a command, the order of the requests that are answered, and who is    *)
(* waited for.                                                              *)
THEOREM StreamInvariance == Spec => []Inv
<1>1. Init => Inv
  BY InitOK
<1>2. Inv /\ [Next]_vars => Inv'
  BY NextOK
<1> QED
  BY <1>1, <1>2, PTL DEF Spec

(* Types, and enqueue(): no connection's queues grow beyond their limits,   *)
(* however many frames and commands arrive.                                 *)
THEOREM StreamTypeCorrect == Spec => []StreamTypeOK
<1>1. Inv => StreamTypeOK
  BY ShapeFacts DEF Inv
<1> QED
  BY <1>1, StreamInvariance, PTL

(* The invariant leaves the client no reason to refuse the oldest frame.    *)
LEMMA InvAccepts ==
    ASSUME Inv
    PROVE  FramesAccepted
<1> SUFFICES ASSUME mode = "active", toClient[current] # <<>>
             PROVE  Acceptable(Head(toClient[current]))
  BY DEF FramesAccepted
<1> DEFINE q == toClient[current]
           frame == Head(q)
<1>1. /\ Shape /\ Numbered /\ Once /\ Answers /\ current \in Connections
      /\ q \in Seq(Replies) /\ q # <<>> /\ policy.lastFrame \in Nat
  BY ShapeFacts DEF Inv, ClientOK, Policy
<1>2. frame \in Replies /\ frame.request \in Nat
  <2>1. frame \in Replies
    BY <1>1, HeadAndTail
  <2> QED
    BY <2>1 DEF Replies, ServerFrame
<1>3. frame.serial = policy.lastFrame + 1
  <2>1. NumberedFrom(q, policy.lastFrame)
    BY <1>1 DEF Numbered
  <2> QED
    BY <1>1, <2>1, NumberedTail
<1>4. ASSUME frame.kind = "result" PROVE frame.command \in policy.pending
  <2>1. PICK c \in Commands : c = frame.command
    BY <1>2, <1>4 DEF Replies
  <2>2. Named(q, c) = Named(Tail(q), c) + 1 /\ Named(Tail(q), c) \in Nat
    <3>1. Tail(q) \in Seq(Replies)
      BY <1>1, HeadAndTail
    <3>2. Named(Tail(q), c) \in Nat
      BY <3>1, FramesNamed, CommandedFacts
    <3>3. Named(q, c) = Named(Tail(q), c)
                           + (IF frame.command = c THEN 1 ELSE 0)
      BY <1>1, FramesNamed, NamedTail
    <3> QED
      BY <2>1, <3>2, <3>3
  <2>3. Total(c) # 0
    <3>1. /\ Named(toServer[current], c) \in Nat
          /\ Number(conn[current].commands, c) \in Nat
          /\ Held(c) \in Nat
          /\ Named(conn[current].control, c) \in Nat
          /\ Total(c) = Named(toServer[current], c)
                           + Number(conn[current].commands, c)
                           + Held(c) + Named(conn[current].control, c)
                           + Named(q, c)
      BY <1>1, TotalParts DEF Total
    <3> HIDE DEF q, frame
    <3> QED
      BY <2>2, <3>1
  <2> QED
    BY <1>1, <2>1, <2>3 DEF Once
<1>5. ASSUME frame.kind = "events"
      PROVE  /\ frame.request > policy.lastEvent
             /\ frame.request <= policy.lastPoll.serial
  <2>1. Asks(q, frame.request)
    BY <1>1, <1>5, AsksTail
  <2>2. policy.lastEvent < frame.request
    BY <1>1, <1>2, <2>1 DEF Answers, Ordered
  <2>3. frame.request <= policy.lastPoll.serial
    BY <1>1, <1>2, <2>1 DEF Answers, Timely, Told
  <2>4. policy.lastEvent \in Nat
    BY <1>1 DEF Shape, ClientOK, Policy
  <2> QED
    BY <1>2, <2>2, <2>3, <2>4
<1> QED
  BY <1>3, <1>4, <1>5 DEF Acceptable

(* accept_frame(): the client never refuses a frame of the server for its   *)
(* number, its command or the request it answers, whatever the interleaving *)
(* of the state thread, the readers, the writers and the client.            *)
THEOREM FramesAlwaysAccepted == Spec => []FramesAccepted
<1>1. Inv => FramesAccepted
  BY InvAccepts
<1> QED
  BY <1>1, StreamInvariance, PTL

(* awaiting_update: a connection that waits for an Update has been sent, or *)
(* is about to be sent, the frame that asks for one.                        *)
THEOREM WaitsAreAnswered == Spec => []NoLostWait
<1>1. Inv => NoLostWait
  BY DEF Inv
<1> QED
  BY <1>1, StreamInvariance, PTL

=============================================================================
