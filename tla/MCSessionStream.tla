--------------------------- MODULE MCSessionStream ---------------------------
EXTENDS SessionStream

MCConnections == 1..2
MCOneConnection == {1}

-----------------------------------------------------------------------------
(* Serials of requests and frames grow for as long as a stream stays up, but *)
(* the program only compares those of one connection with each other.  States *)
(* that differ by a shift of them have the same steps and satisfy the same    *)
(* properties, so a run numbers from the last request sent and the last frame *)
(* accepted.  Nothing reads what a closed connection holds, and nobody the    *)
(* frames of one its client has left: only the heartbeats are counted.        *)

InUse(i) == mode # "closed" /\ i = current

Shift(i, serial) ==
    IF serial = 0 THEN 0
    ELSE serial - (IF InUse(i) THEN policy.lastPoll.serial
                               ELSE conn[i].request.serial)

ShiftedRequest(i, request) == [request EXCEPT !.serial = Shift(i, @)]

ShiftedFrame(i, frame) ==
    [frame EXCEPT !.request = Shift(i, @),
                  !.serial = IF @ = 0 THEN 0 ELSE @ - policy.lastFrame]

ShiftedFrames(i, frames) ==
    [n \in DOMAIN frames |-> ShiftedFrame(i, frames[n])]

ShiftedCore(i) ==
    IF conn[i].closed THEN conn[i]
    ELSE [conn[i] EXCEPT
             !.request = ShiftedRequest(i, @),
             !.nextSerial = IF InUse(i) THEN @ - policy.lastFrame ELSE 0,
             !.events = ShiftedFrames(i, @)]

ShiftedPump ==
    IF pump.conn = 0 THEN pump
    ELSE IF conn[pump.conn].closed
    THEN <<pump.stage, pump.conn, pump.commands>>
    ELSE [pump EXCEPT !.request = ShiftedRequest(pump.conn, @),
                      !.frame = ShiftedFrame(pump.conn, @)]

SentTo(i) ==
    IF conn[i].closed THEN <<>>
    ELSE [n \in DOMAIN toServer[i] |->
             [toServer[i][n] EXCEPT !.request = ShiftedRequest(i, @)]]

ReadBy(i) == IF InUse(i) THEN ShiftedFrames(i, toClient[i]) ELSE <<>>

Shifted ==
    <<head, subscriber, refusals, mode, current, unsent, view, ShiftedPump,
      policy.lastPoll.terminals, policy.lastPoll.serial - policy.lastEvent,
      policy.ackPending, policy.pending,
      [i \in Connections |-> <<ShiftedCore(i), SentTo(i), ReadBy(i),
                               Cardinality(UnreadHeartbeats(i))>>]>>

=============================================================================
