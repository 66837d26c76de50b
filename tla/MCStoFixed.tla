----------------------------- MODULE MCStoFixed -----------------------------
EXTENDS StoFixed
=============================================================================
