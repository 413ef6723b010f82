--------------------------- MODULE MCCreditStream ---------------------------
EXTENDS CreditStream

CONSTANTS p1, p2

\* Together one stream more than the consumer has ports for.
MCProducers == {p1, p2}
MCMaxStreams == [p \in MCProducers |-> IF p = p1 THEN 2 ELSE 1]
=============================================================================
