----------------------------- MODULE MCStoMixed -----------------------------
EXTENDS StoMixed
=============================================================================
