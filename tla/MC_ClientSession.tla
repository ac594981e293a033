-------------------------- MODULE MC_ClientSession --------------------------
EXTENDS ClientSession
=============================================================================
