------------------------------ MODULE MCNvimRpc ------------------------------
EXTENDS NvimRpc

MCOneSize == {1}
MCSizes == {1, 2}

=============================================================================
