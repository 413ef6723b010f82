----------------------------- MODULE MCPortLink -----------------------------
EXTENDS PortLink

\* Channel 0 is buffered at both ends, channel 1 has no output buffer, the
\* receiver lacks channel 2 and both ports lack channel 3.
MCVcIds == {0, 1, 2, 3}
MCOutVCs == {0, 1, 2}
MCInVCs == {0, 1}
MCOutCapacity == [v \in MCOutVCs |-> CASE v = 0 -> 2 [] v = 1 -> 0 [] v = 2 -> 1]
MCInCapacity == [v \in MCInVCs |-> v + 1]

\* The ports of test/test_credit_flow.cc: one channel, sizes 2 and 4.
MCOneChannel == {0}
MCTwo == [v \in MCOneChannel |-> 2]
MCFour == [v \in MCOneChannel |-> 4]
=============================================================================
