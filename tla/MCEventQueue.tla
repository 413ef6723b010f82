---------------------------- MODULE MCEventQueue ----------------------------
EXTENDS EventQueue

CONSTANTS t1, t2, l1, l2, l3

MCTickers == {t1, t2}
MCLambdas == {l1, l2, l3}
MCDelays == {0, 1, 2}
MCRunLengths == {0, 1, 3}
=============================================================================
