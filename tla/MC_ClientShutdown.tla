-------------------------- MODULE MC_ClientShutdown --------------------------
EXTENDS ClientShutdown

CONSTANT none

(* POSIX lets the kernel pick any thread; Linux picks the main thread     *)
(* unless it already has a signal pending.                                *)
AnyThread == Threads
MainThread == {"main"}
=============================================================================
