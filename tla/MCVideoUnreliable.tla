-------------------------- MODULE MCVideoUnreliable --------------------------
EXTENDS VideoUnreliable
=============================================================================
