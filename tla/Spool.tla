-------------------------------- MODULE Spool --------------------------------
(***************************************************************************)
(* The client's local spool (gpsclient buffer.c) and its drainer thread.  *)
(* Rows are inserted by the receive loop (recv_msg) and the location      *)
(* writer; the drainer (buffer_routine/buffer_process) copies them to the *)
(* central database (db_insert) and deletes them locally, stopping at the *)
(* first failure.  buffer_stop(), called from the signal handler, clears  *)
(* bufrun; the drainer then drains once more and returns.  The client can *)
(* die (exit(1) from any thread) and be started again; the sqlite file    *)
(* survives.                                                              *)
(***************************************************************************)
EXTENDS Naturals, Sequences, SequencesExt, FiniteSets, FiniteSetsExt

CONSTANTS MaxRows,        \* rows produced over the whole run
          MaxStarts,      \* process starts (the first one included)
          MaxFaults       \* failed deletes and lost replies of db_insert

\* A struct db_data row (name, addresses, fix, packet type), told apart
\* from the others by the order it was produced in.
Rows == 1..MaxRows
Entry == [uid : 1..MaxRows, row : Rows]

VARIABLES spool,          \* table buffer, in uid order
          upstream,       \* rows inserted into the central table, in order
          up,             \* the central database accepts connections
          dpc,            \* where buffer_routine is
          final,          \* the drain under way is the one after !run
          snap,           \* rows of the sqlite3_get_table result not yet done
          bufrun,         \* bufrun
          proc,           \* the client process
          produced,       \* rows handed to buffer_insert so far
          starts,         \* process starts so far
          faults,         \* faults injected so far
          inserted,       \* history: rows buffer_insert stored
          atStop,         \* history: rows in the spool when buffer_stop ran
          finalFailed,    \* history: the final drain stopped at a failure
          excused         \* history: rows whose resend the spec allows

vars == <<spool, upstream, up, dpc, final, snap, bufrun, proc, produced,
          starts, faults, inserted, atStop, finalFailed, excused>>

RowsOf(s) == [k \in 1..Len(s) |-> s[k].row]

-----------------------------------------------------------------------------
(* uid INTEGER PRIMARY KEY with a NULL value: one more than the largest   *)
(* uid in the table, 1 in an empty table.                                 *)
NextUidZero == IF spool = <<>> THEN 0
               ELSE Max({spool[k].uid : k \in DOMAIN spool}) + 1
NextUid == IF spool = <<>> THEN 1
           ELSE Max({spool[k].uid : k \in DOMAIN spool}) + 1

Init == /\ spool = <<>>
        /\ upstream = <<>>
        /\ up \in BOOLEAN
        /\ dpc = "connect"
        /\ final = FALSE
        /\ snap = <<>>
        /\ bufrun = TRUE
        /\ proc = "run"
        /\ produced = 0
        /\ starts = 1
        /\ faults = 0
        /\ inserted = {}
        /\ atStop = {}
        /\ finalFailed = FALSE
        /\ excused = {}

(* buffer_insert from recv_msg or location_write; both ignore a failure. *)
Produce == /\ proc \in {"run", "stopping"}
           /\ produced < MaxRows
           /\ produced' = produced + 1
           /\ \/ /\ spool' = Append(spool, [uid |-> NextUid, row |-> produced + 1])
                 /\ inserted' = inserted \cup {produced + 1}
              \/ UNCHANGED <<spool, inserted>>
           /\ UNCHANGED <<upstream, up, dpc, final, snap, bufrun, proc,
                          starts, faults, atStop, finalFailed, excused>>

(* Where a drain ends: the wait, or the thread's return after the final  *)
(* drain.                                                                 *)
AfterDrain == IF final THEN "done" ELSE "wait"

(* A break out of buffer_process or a failed db_connect. *)
Break == /\ dpc' = AfterDrain
         /\ snap' = <<>>
         /\ finalFailed' = (finalFailed \/ final)

DrainerFixed == <<up, final, bufrun, proc, produced, starts, inserted, atStop>>

DConnect == /\ dpc = "connect"
            /\ \/ up /\ dpc' = "select" /\ UNCHANGED <<snap, finalFailed>>
               \/ ~up /\ Break
            /\ UNCHANGED <<spool, upstream, faults, excused>>
            /\ UNCHANGED DrainerFixed

(* sqlite3_get_table("SELECT * FROM buffer"): rows in uid order. *)
DSelect == /\ dpc = "select"
           /\ \/ /\ snap' = spool
                 /\ dpc' = IF spool = <<>> THEN AfterDrain ELSE "insert"
                 /\ UNCHANGED finalFailed
              \/ Break
           /\ UNCHANGED <<spool, upstream, faults, excused>>
           /\ UNCHANGED DrainerFixed

(* db_insert of the first row not yet done: committed and answered,      *)
(* refused, or committed with the reply lost (PQexec returns NULL).      *)
DInsertNoBreak == /\ dpc = "insert"
                  /\ \/ up /\ upstream' = Append(upstream, Head(snap).row)
                     \/ ~up /\ UNCHANGED upstream
                  /\ dpc' = "delete"
                  /\ UNCHANGED <<spool, snap, faults, finalFailed, excused>>
                  /\ UNCHANGED DrainerFixed
DInsertLast == /\ dpc = "insert"
               /\ up
               /\ upstream' = Append(upstream, snap[Len(snap)].row)
               /\ dpc' = "delete"
               /\ UNCHANGED <<spool, snap, faults, finalFailed, excused>>
               /\ UNCHANGED DrainerFixed
DInsert == /\ dpc = "insert"
           /\ \/ /\ up
                 /\ upstream' = Append(upstream, Head(snap).row)
                 /\ dpc' = "delete"
                 /\ UNCHANGED <<snap, faults, finalFailed, excused>>
              \/ /\ ~up
                 /\ Break
                 /\ UNCHANGED <<upstream, faults, excused>>
              \/ /\ faults < MaxFaults
                 /\ upstream' = Append(upstream, Head(snap).row)
                 /\ faults' = faults + 1
                 /\ excused' = excused \cup {Head(snap).row}
                 /\ Break
           /\ UNCHANGED spool
           /\ UNCHANGED DrainerFixed

(* buffer_delete(uid); a failed DELETE (I/O error, full disk) breaks.    *)
DDelete == /\ dpc = "delete"
           /\ \/ /\ spool' = SelectSeq(spool, LAMBDA e : e.uid # Head(snap).uid)
                 /\ snap' = Tail(snap)
                 /\ dpc' = IF Tail(snap) = <<>> THEN AfterDrain ELSE "insert"
                 /\ UNCHANGED <<faults, finalFailed>>
              \/ /\ faults < MaxFaults
                 /\ faults' = faults + 1
                 /\ Break
                 /\ UNCHANGED spool
           /\ UNCHANGED <<upstream, excused>>
           /\ UNCHANGED DrainerFixed

(* pthread_cond_timedwait returns on the signal or after buffer_interval; *)
(* a signal sent while the drainer is not waiting is lost, and the wait   *)
(* then ends by its timeout.                                              *)
DWait == /\ dpc = "wait"
         /\ dpc' = "check"
         /\ UNCHANGED <<spool, upstream, up, final, snap, bufrun, proc, produced,
                        starts, faults, inserted, atStop, finalFailed, excused>>

(* run = bufrun under bufmutex; !run starts the final drain. *)
DCheckNoFinal == /\ dpc = "check"
                 /\ dpc' = IF bufrun THEN "connect" ELSE "done"
                 /\ UNCHANGED <<spool, upstream, up, final, snap, bufrun, proc, produced,
                                starts, faults, inserted, atStop, finalFailed, excused>>
DCheck == /\ dpc = "check"
          /\ dpc' = "connect"
          /\ final' = ~bufrun
          /\ UNCHANGED <<spool, upstream, up, snap, bufrun, proc, produced,
                         starts, faults, inserted, atStop, finalFailed, excused>>

Drainer == DConnect \/ DSelect \/ DInsert \/ DDelete \/ DWait \/ DCheck

-----------------------------------------------------------------------------
(* signal_handler: send_ctlmsg(OFFLINE), then buffer_stop() clears bufrun, *)
(* signals bufcond and joins the drainer.                                 *)
Stop == /\ proc = "run"
        /\ proc' = "stopping"
        /\ bufrun' = FALSE
        /\ atStop' = ToSet(RowsOf(spool))
        /\ UNCHANGED <<spool, upstream, up, dpc, final, snap, produced,
                       starts, faults, inserted, finalFailed, excused>>

(* pthread_join returns, then exit(0). *)
Exit == /\ proc = "stopping"
        /\ dpc = "done"
        /\ proc' = "exited"
        /\ UNCHANGED <<spool, upstream, up, dpc, final, snap, bufrun, produced,
                       starts, faults, inserted, atStop, finalFailed, excused>>

(* exit(1) from any thread (a gpsd read error, a socket or send failure): *)
(* every thread stops where it is; the sqlite file keeps what was         *)
(* committed.  A crash between db_insert and buffer_delete will send the  *)
(* row again.                                                             *)
Crash == /\ proc \in {"run", "stopping"}
         /\ proc' = "crashed"
         /\ dpc' = "dead"
         /\ snap' = <<>>
         /\ excused' = IF dpc = "delete" THEN excused \cup {Head(snap).row}
                       ELSE excused
         /\ UNCHANGED <<spool, upstream, up, final, bufrun, produced,
                        starts, faults, inserted, atStop, finalFailed>>

(* The daemon is started again: buffer_init opens the same file and      *)
(* buffer_start sets bufrun and starts the drainer.                       *)
Restart == /\ proc \in {"crashed", "exited"}
           /\ starts < MaxStarts
           /\ starts' = starts + 1
           /\ proc' = "run"
           /\ bufrun' = TRUE
           /\ dpc' = "connect"
           /\ final' = FALSE
           /\ atStop' = {}
           /\ finalFailed' = FALSE
           /\ UNCHANGED <<spool, upstream, up, snap, produced, faults,
                          inserted, excused>>

(* The central database goes down or comes back. *)
UpstreamFlips == /\ up' = ~up
                 /\ UNCHANGED <<spool, upstream, dpc, final, snap, bufrun, proc,
                                produced, starts, faults, inserted, atStop,
                                finalFailed, excused>>

Next == \/ Produce \/ Drainer \/ Stop \/ Exit
        \/ Crash \/ Restart \/ UpstreamFlips

(* No fairness: the properties checked here are safety properties.  The  *)
(* drainer cannot be assumed to progress, since it can block for ever on  *)
(* the sqlite connection mutex a signalled thread holds (ClientShutdown). *)
Spec == Init /\ [][Next]_vars

-----------------------------------------------------------------------------
TypeOK == /\ spool \in Seq(Entry)
          /\ upstream \in Seq(Rows)
          /\ snap \in Seq(Entry)
          /\ dpc \in {"connect", "select", "insert", "delete", "wait", "check",
                      "done", "dead"}
          /\ proc \in {"run", "stopping", "exited", "crashed"}
          /\ {up, final, bufrun, finalFailed} \subseteq BOOLEAN
          /\ produced \in 0..MaxRows
          /\ starts \in 1..MaxStarts
          /\ faults \in 0..MaxFaults
          /\ inserted \cup atStop \cup excused \subseteq Rows

(* The spool is a queue with at-least-once delivery: buffer_process only  *)
(* sends the oldest spooled row and deletes a row only after db_insert    *)
(* accepted it, across failures, crashes and restarts.  Hence no row      *)
(* buffer_insert stored is lost.                                          *)
Abs == INSTANCE SpoolQueue WITH queue <- RowsOf(spool), upstream <- upstream

Refines == Abs!Spec

(* A clean exit whose final drain met no failure leaves every row that    *)
(* was spooled when buffer_stop ran in the central table (spec S6).       *)
FinalDrainFlushes == proc = "exited" /\ ~finalFailed => atStop \subseteq ToSet(upstream)

(* Spec 4.2: a row reaches the central table twice only when the client   *)
(* died between db_insert and buffer_delete, or db_insert's reply was     *)
(* lost.  buffer_process also resends a row whose buffer_delete failed.   *)
DuplicatesOnlyAfterCrash ==
    \A r \in Rows : Cardinality({i \in DOMAIN upstream : upstream[i] = r}) > 1
                      => r \in excused
=============================================================================
