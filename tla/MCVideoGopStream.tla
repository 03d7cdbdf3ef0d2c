--------------------------- MODULE MCVideoGopStream ---------------------------
EXTENDS VideoGopStream
=============================================================================
