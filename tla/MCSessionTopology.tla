-------------------------- MODULE MCSessionTopology --------------------------
EXTENDS SessionTopology

MCBothModes == {"stream", "poll"}
MCStreamOnly == {"stream"}
MCPollOnly == {"poll"}
MCNone == {}
MCSecond == {2}
=============================================================================
