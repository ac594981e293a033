---------------------------- MODULE ClientShutdown ----------------------------
(***************************************************************************)
(* The four gpsclient threads at the granularity of the locks they take,  *)
(* and the SIGTERM/SIGINT handler (client.c signal_handler) that runs on  *)
(* whichever thread the kernel picks.  The handler calls send_ctlmsg(),   *)
(* then buffer_stop(): it clears bufrun under bufmutex, signals bufcond   *)
(* under condmutex, joins the drainer, and calls exit(0).  The thread it  *)
(* interrupted keeps every lock it holds while the handler runs.          *)
(*                                                                         *)
(*   main     recv_msg: read_gpsd (rdlock), buffer_insert (sqlite mutex)  *)
(*   writer   location_write: the same two steps                          *)
(*   reader   gpsd_routine: gps_read under the wrlock                     *)
(*   drainer  buffer_routine: sqlite statements, the timed wait under     *)
(*            condmutex, the read of bufrun under bufmutex                *)
(***************************************************************************)
EXTENDS FiniteSets

CONSTANTS NoOne,          \* no thread: a free mutex, no handler running
          SignalTargets   \* threads the kernel may deliver SIGTERM to

Threads == {"main", "writer", "reader", "drainer"}
Producers == {"main", "writer"}

ASSUME NoOne \notin Threads /\ SignalTargets \subseteq Threads

VARIABLES pc,             \* pc[t]: where thread t is
          sq,             \* owner of the sqlite connection mutex
          bm,             \* owner of bufmutex
          cm,             \* owner of condmutex
          rwWriter,       \* owner of the rwlock in write mode
          rwReaders,      \* holders of the rwlock in read mode
          bufrun,         \* bufrun
          sigOn,          \* thread the handler runs on
          hpc,            \* where the handler is
          proc            \* "run", "exited" (exit(0)), "crashed" (exit(1))

vars == <<pc, sq, bm, cm, rwWriter, rwReaders, bufrun, sigOn, hpc, proc>>

(* A thread runs when the process does and no handler runs on top of it. *)
Runs(t) == proc = "run" /\ sigOn # t

Goto(t, l) == pc' = [pc EXCEPT ![t] = l]

Init == /\ pc = [t \in Threads |-> CASE t \in Producers -> "loop"
                                     [] t = "reader"   -> "wait"
                                     [] t = "drainer"  -> "drain"]
        /\ sq = NoOne /\ bm = NoOne /\ cm = NoOne
        /\ rwWriter = NoOne /\ rwReaders = {}
        /\ bufrun = TRUE
        /\ sigOn = NoOne /\ hpc = "none"
        /\ proc = "run"

-----------------------------------------------------------------------------
(* read_gpsd: pthread_rwlock_rdlock, copy the fix, unlock; with a valid   *)
(* fix the caller goes on to buffer_insert.                               *)
PRdLock(t) == /\ Runs(t) /\ pc[t] = "loop"
              /\ rwWriter = NoOne
              /\ rwReaders' = rwReaders \cup {t}
              /\ Goto(t, "rd")
              /\ UNCHANGED <<sq, bm, cm, rwWriter, bufrun, sigOn, hpc, proc>>

PRdUnlock(t) == /\ Runs(t) /\ pc[t] = "rd"
                /\ rwReaders' = rwReaders \ {t}
                /\ \E fix \in BOOLEAN : Goto(t, IF fix THEN "fix" ELSE "loop")
                /\ UNCHANGED <<sq, bm, cm, rwWriter, bufrun, sigOn, hpc, proc>>

(* buffer_insert: sqlite3_exec holds the connection's mutex for the whole *)
(* statement.                                                             *)
PInsLock(t) == /\ Runs(t) /\ pc[t] = "fix"
               /\ sq = NoOne
               /\ sq' = t
               /\ Goto(t, "ins")
               /\ UNCHANGED <<bm, cm, rwWriter, rwReaders, bufrun, sigOn, hpc, proc>>

PInsUnlockLeak(t) == /\ Runs(t) /\ pc[t] = "ins"
                     /\ Goto(t, "loop")
                     /\ UNCHANGED <<sq, bm, cm, rwWriter, rwReaders, bufrun, sigOn, hpc, proc>>
PInsUnlock(t) == /\ Runs(t) /\ pc[t] = "ins"
                 /\ sq' = NoOne
                 /\ Goto(t, "loop")
                 /\ UNCHANGED <<bm, cm, rwWriter, rwReaders, bufrun, sigOn, hpc, proc>>

Producer(t) == PRdLock(t) \/ PRdUnlock(t) \/ PInsLock(t) \/ PInsUnlock(t)

(* gpsd_routine: gps_read under the write lock; a read error is exit(1). *)
RWrLock == /\ Runs("reader") /\ pc["reader"] = "wait"
           /\ rwWriter = NoOne /\ rwReaders = {}
           /\ rwWriter' = "reader"
           /\ Goto("reader", "read")
           /\ UNCHANGED <<sq, bm, cm, rwReaders, bufrun, sigOn, hpc, proc>>

RWrUnlock == /\ Runs("reader") /\ pc["reader"] = "read"
             /\ rwWriter' = NoOne
             /\ Goto("reader", "wait")
             /\ \/ UNCHANGED proc
                \/ proc' = "crashed"
             /\ UNCHANGED <<sq, bm, cm, rwReaders, bufrun, sigOn, hpc>>

Reader == RWrLock \/ RWrUnlock

-----------------------------------------------------------------------------
(* buffer_routine.  db_connect succeeds or fails (then the drain is       *)
(* skipped); a drain that connected runs sqlite statements, each under    *)
(* the connection mutex; one stands for all (they lock alike).            *)
DrainerOthers == <<bm, cm, rwWriter, rwReaders, bufrun, sigOn, hpc, proc>>

DConnect == /\ Runs("drainer") /\ pc["drainer"] \in {"drain", "final"}
            /\ \/ Goto("drainer", IF pc["drainer"] = "drain" THEN "conn" ELSE "fconn")
               \/ Goto("drainer", IF pc["drainer"] = "drain" THEN "towait" ELSE "done")
            /\ UNCHANGED <<sq>>
            /\ UNCHANGED DrainerOthers

DStmt == /\ Runs("drainer") /\ pc["drainer"] = "conn"
         /\ sq = NoOne
         /\ sq' = "drainer"
         /\ Goto("drainer", "sql")
         /\ UNCHANGED DrainerOthers

DStmtEnd == /\ Runs("drainer") /\ pc["drainer"] = "sql"
            /\ sq' = NoOne
            /\ Goto("drainer", "towait")
            /\ UNCHANGED DrainerOthers

(* pthread_mutex_lock(&condmutex); pthread_cond_timedwait releases it     *)
(* while waiting and takes it back on the signal or the timeout.          *)
DLockCm == /\ Runs("drainer") /\ pc["drainer"] = "towait"
           /\ cm = NoOne
           /\ cm' = "drainer"
           /\ Goto("drainer", "cmheld")
           /\ UNCHANGED <<sq, bm, rwWriter, rwReaders, bufrun, sigOn, hpc, proc>>

DTimedWait == /\ Runs("drainer") /\ pc["drainer"] = "cmheld"
              /\ cm' = NoOne
              /\ Goto("drainer", "wait")
              /\ UNCHANGED <<sq, bm, rwWriter, rwReaders, bufrun, sigOn, hpc, proc>>

DWake == /\ Runs("drainer") /\ pc["drainer"] = "wait"
         /\ cm = NoOne
         /\ cm' = "drainer"
         /\ Goto("drainer", "woke")
         /\ UNCHANGED <<sq, bm, rwWriter, rwReaders, bufrun, sigOn, hpc, proc>>

DUnlockCm == /\ Runs("drainer") /\ pc["drainer"] = "woke"
             /\ cm' = NoOne
             /\ Goto("drainer", "check")
             /\ UNCHANGED <<sq, bm, rwWriter, rwReaders, bufrun, sigOn, hpc, proc>>

(* run = bufrun under bufmutex; !run starts the final drain. *)
DLockBm == /\ Runs("drainer") /\ pc["drainer"] = "check"
           /\ bm = NoOne
           /\ bm' = "drainer"
           /\ Goto("drainer", "bmheld")
           /\ UNCHANGED <<sq, cm, rwWriter, rwReaders, bufrun, sigOn, hpc, proc>>

DReadRunStale == /\ Runs("drainer") /\ pc["drainer"] = "bmheld"
                 /\ bm' = NoOne
                 /\ Goto("drainer", "drain")
                 /\ UNCHANGED <<sq, cm, rwWriter, rwReaders, bufrun, sigOn, hpc, proc>>
DReadRun == /\ Runs("drainer") /\ pc["drainer"] = "bmheld"
            /\ bm' = NoOne
            /\ Goto("drainer", IF bufrun THEN "drain" ELSE "final")
            /\ UNCHANGED <<sq, cm, rwWriter, rwReaders, bufrun, sigOn, hpc, proc>>

(* The final drain: buffer_process on the new connection, then the       *)
(* thread returns.                                                        *)
DFinal == /\ Runs("drainer") /\ pc["drainer"] = "fconn"
          /\ sq = NoOne
          /\ sq' = "drainer"
          /\ Goto("drainer", "fsql")
          /\ UNCHANGED DrainerOthers

DFinalEnd == /\ Runs("drainer") /\ pc["drainer"] = "fsql"
             /\ sq' = NoOne
             /\ Goto("drainer", "done")
             /\ UNCHANGED DrainerOthers

Drainer == \/ DConnect \/ DStmt \/ DStmtEnd \/ DLockCm \/ DTimedWait \/ DWake \/ DUnlockCm
           \/ DLockBm \/ DReadRun \/ DFinal \/ DFinalEnd

-----------------------------------------------------------------------------
(* The kernel delivers SIGTERM to a thread that does not block it; none   *)
(* of the client's threads blocks signals.                                *)
Deliver(t) == /\ proc = "run" /\ sigOn = NoOne
              /\ t \in SignalTargets
              /\ sigOn' = t
              /\ hpc' = "send"
              /\ UNCHANGED <<pc, sq, bm, cm, rwWriter, rwReaders, bufrun, proc>>

HandlerOthers == <<pc, sq, rwWriter, rwReaders>>

(* send_ctlmsg(CTL_CLIENT_OFFLINE): a failed socket() is exit(1); a      *)
(* failed connect or send returns -1 and the handler goes on.            *)
HSend == /\ proc = "run" /\ hpc = "send"
         /\ \/ hpc' = "lockbm" /\ UNCHANGED proc
            \/ proc' = "crashed" /\ UNCHANGED hpc
         /\ UNCHANGED <<bm, cm, bufrun, sigOn>>
         /\ UNCHANGED HandlerOthers

(* buffer_stop: the mutexes are default (non-recursive) mutexes, so a    *)
(* handler on the thread that holds one waits for ever.                  *)
HLockBm == /\ proc = "run" /\ hpc = "lockbm"
           /\ bm = NoOne
           /\ bm' = sigOn
           /\ hpc' = "clear"
           /\ UNCHANGED <<cm, bufrun, sigOn, proc>>
           /\ UNCHANGED HandlerOthers

HClear == /\ proc = "run" /\ hpc = "clear"
          /\ bufrun' = FALSE
          /\ bm' = NoOne
          /\ hpc' = "lockcm"
          /\ UNCHANGED <<cm, sigOn, proc>>
          /\ UNCHANGED HandlerOthers

HLockCm == /\ proc = "run" /\ hpc = "lockcm"
           /\ cm = NoOne
           /\ cm' = sigOn
           /\ hpc' = "signal"
           /\ UNCHANGED <<bm, bufrun, sigOn, proc>>
           /\ UNCHANGED HandlerOthers

(* pthread_cond_signal: the drainer's wait may end by it or by the        *)
(* timeout, which DWake already allows.                                   *)
HSignal == /\ proc = "run" /\ hpc = "signal"
           /\ cm' = NoOne
           /\ hpc' = "join"
           /\ UNCHANGED <<bm, bufrun, sigOn, proc>>
           /\ UNCHANGED HandlerOthers

(* pthread_join(bufthread) then exit(0).  On the drainer itself the join  *)
(* fails at once with EDEADLK, which is not checked.                      *)
HJoin == /\ proc = "run" /\ hpc = "join"
         /\ sigOn = "drainer" \/ pc["drainer"] = "done"
         /\ proc' = "exited"
         /\ UNCHANGED <<bm, cm, bufrun, sigOn, hpc>>
         /\ UNCHANGED HandlerOthers

Handler == HSend \/ HLockBm \/ HClear \/ HLockCm \/ HSignal \/ HJoin

Next == \/ \E t \in Producers : Producer(t)
        \/ Reader \/ Drainer \/ Handler
        \/ \E t \in Threads : Deliver(t)

(* Every thread is scheduled, and a thread waiting for a mutex gets it if *)
(* the mutex is free again and again: each is held for one statement or   *)
(* a few instructions, and the producers sleep between rows.             *)
Fairness == /\ \A t \in Producers : SF_vars(Producer(t))
            /\ SF_vars(Reader) /\ SF_vars(Drainer) /\ SF_vars(Handler)

Spec == Init /\ [][Next]_vars /\ Fairness

-----------------------------------------------------------------------------
Owner == Threads \cup {NoOne}

(* Types, and every mutex is owned by a thread that is between its lock   *)
(* and its unlock (the handler's owner is the thread it runs on).         *)
TypeOK == /\ pc \in [Threads -> {"loop", "rd", "fix", "ins", "wait", "read",
                                 "drain", "conn", "sql", "towait", "cmheld", "woke",
                                 "check", "bmheld", "final", "fconn", "fsql", "done"}]
          /\ {sq, bm, cm, rwWriter, sigOn} \subseteq Owner
          /\ rwReaders \subseteq Producers
          /\ bufrun \in BOOLEAN
          /\ hpc \in {"none", "send", "lockbm", "clear", "lockcm", "signal", "join"}
          /\ proc \in {"run", "exited", "crashed"}
          /\ sq # NoOne => pc[sq] \in {"ins", "sql", "fsql"}

(* The promise of the stop path itself: exit(0) comes after the final      *)
(* drain, on whatever thread the handler runs (spec S6).                  *)
FinalDrainBeforeExit == proc = "exited" => pc["drainer"] = "done"

HoldsMutex(t) == t \in {sq, bm, cm}

(* A SIGTERM taken by a producer or the reader while it holds none of the *)
(* client's mutexes ends the process.                                     *)
CleanSignalExits ==
    \A t \in Threads \ {"drainer"} :
        (sigOn = t /\ hpc = "send" /\ ~HoldsMutex(t)) ~> proc # "run"

(* Every SIGTERM ends the process (spec: the client exits after OFFLINE   *)
(* and the final drain).                                                  *)
ShutdownCompletes == sigOn # NoOne ~> proc # "run"
=============================================================================
