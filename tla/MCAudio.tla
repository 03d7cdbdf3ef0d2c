------------------------------- MODULE MCAudio -------------------------------
EXTENDS Audio
=============================================================================
