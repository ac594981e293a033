------------------------------- MODULE MC_Spool -------------------------------
EXTENDS Spool
=============================================================================
