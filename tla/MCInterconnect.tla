--------------------------- MODULE MCInterconnect ---------------------------
EXTENDS Interconnect

\* The first generator creates enough packets to find its range.
MCSources == {0, 1}
MCMaxPackets == [s \in MCSources |-> IF s = 0 THEN 4 ELSE 2]
=============================================================================
