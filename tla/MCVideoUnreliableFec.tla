------------------------ MODULE MCVideoUnreliableFec ------------------------
EXTENDS VideoUnreliableFec
=============================================================================
