----------------------------- MODULE MCRelayPool -----------------------------
EXTENDS RelayPool
CONSTANTS s1
=============================================================================
