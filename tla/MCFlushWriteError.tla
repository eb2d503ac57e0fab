------------------------- MODULE MCFlushWriteError --------------------------
EXTENDS FlushWriteError, MCChainstateFlush
=============================================================================
