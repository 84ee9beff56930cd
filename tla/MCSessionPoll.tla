--------------------------- MODULE MCSessionPoll ---------------------------
(* Small sessions for TLC: every terminal and projection of one size. *)
EXTENDS SessionPoll

CONSTANTS MCSnapshot, MCTopology, MCAgents

MCSnapshotSize == [t \in Subscriptions |-> MCSnapshot]
MCProjectionSize ==
    [projection \in Projections |->
        IF projection = "topology" THEN MCTopology ELSE MCAgents]
=============================================================================
