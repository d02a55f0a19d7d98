--------------------------- MODULE MCStreamState ---------------------------
EXTENDS StreamState, TLC

CONSTANTS r1, r2

MCReaders == {r1, r2}
MCOneReader == {r1}
MCUnboundedDrops == -1
=============================================================================
