---------------------------- MODULE MCFileStreams ----------------------------
EXTENDS FileStreams

CONSTANTS c1, c2, k0, k1, k2

MCCallers == {c1, c2}
MCSrc == <<k1, k2>>
MCOld == <<k0>>
AllFaults == {"open", "read", "close", "mkstemp", "write", "fsync", "send"}
==============================================================================
