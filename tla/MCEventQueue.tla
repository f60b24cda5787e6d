---------------------------- MODULE MCEventQueue ----------------------------
EXTENDS EventQueue

CONSTANTS p1, p2, q1, q2, q3

MCProducers == {p1, p2}
MCQueues == {q1, q2}
MCAllQueues == {q1, q2, q3}
==============================================================================
