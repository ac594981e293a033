---------------------------- MODULE ClientSession ----------------------------
(***************************************************************************)
(* The gpsclient main thread (client.c main, get_dbcfg, send_ctlmsg,      *)
(* prepare_sockets, read_sockets, recv_msg, close_sockets) with the       *)
(* process's descriptor table.  Descriptors are numbers handed out        *)
(* lowest-free, as the kernel does, so a stale number kept in ucast_sock, *)
(* mcast_sock or bcast_sock can name a descriptor opened later.  The      *)
(* server, the configuration database, multicast traffic from other       *)
(* clients' sinks, and time are the environment.                          *)
(***************************************************************************)
EXTENDS Naturals, FiniteSets, FiniteSetsExt

CONSTANTS MaxFd,          \* highest descriptor number (0-2 are stdio)
          RetryIval,      \* server_retryival, in select() timeouts
          CfgIval,        \* the 5000 ms config re-read period, same unit
          Builds          \* TRUE: built with _FORTIFY_SOURCE (FD_SET(-1) aborts)

ASSUME MaxFd >= 3 /\ RetryIval >= 1 /\ CfgIval >= 1 /\ Builds \subseteq BOOLEAN

CfgTries == 5             \* the "nretry >= 5" of main's first config loop
Stdin == 0
Fds == {Stdin} \cup 3..MaxFd   \* 1 and 2 stay open and are never handed out
NoSock == -1
Kinds == {"free", "stdin", "gps", "buf", "tcp", "pg", "unbound", "u", "m", "b"}

VARIABLES pc,             \* where main is
          nretry,         \* nretry
          kind,           \* kind[fd]: what descriptor fd is
          us, ms, bs,     \* ucast_sock, mcast_sock, bcast_sock
          cfgAge,         \* time since ts1 of main (last config read)
          sinceTgr,       \* time since ts1 of read_sockets (last unicast TGR)
          srvUp,          \* the server accepts control connections
          sink,           \* the server holds a UDP sink for this client
          utgr,           \* a unicast TGR waits on the unicast port
          mtraffic,       \* other sinks' multicast/broadcast TGRs keep coming
          dbState,        \* "down", "error", "norow" or "ok"
          fortified       \* the build this process runs (fixed)

vars == <<pc, nretry, kind, us, ms, bs, cfgAge, sinceTgr, srvUp, sink, utgr,
          mtraffic, dbState, fortified>>
env == <<srvUp, sink, utgr, mtraffic, dbState, fortified>>

Sat(x, cap) == IF x > cap THEN cap ELSE x

FreeFds == {fd \in Fds : kind[fd] = "free"}
LowestFree == Min(FreeFds)
Open(fd) == fd \in Fds /\ kind[fd] # "free"

Init == /\ pc = "start"
        /\ nretry = 0
        /\ kind = [fd \in Fds |-> IF fd = Stdin THEN "stdin" ELSE "free"]
        /\ us = 0 /\ ms = 0 /\ bs = 0          \* static ints start at 0
        /\ cfgAge = 0 /\ sinceTgr = 0
        /\ srvUp \in BOOLEAN
        /\ sink = FALSE /\ utgr = FALSE
        /\ mtraffic \in BOOLEAN
        /\ dbState \in {"down", "error", "norow", "ok"}
        /\ fortified \in Builds

-----------------------------------------------------------------------------
(* main before its first loop: gps_open connects to gpsd and buffer_init  *)
(* opens the SQLite buffer file, and both stay open for the life of the   *)
(* process; a failure of gps_open, gps_stream, pthread_create(gpsd) or    *)
(* buffer_init is exit().                                                 *)
Startup == /\ pc = "start"
           /\ \/ pc' = "exited" /\ UNCHANGED kind
              \/ /\ pc' = "cfg"
                 /\ kind' = [kind EXCEPT ![LowestFree] = "gps",
                                         ![Min(FreeFds \ {LowestFree})] = "buf"]
           /\ UNCHANGED <<nretry, us, ms, bs, cfgAge, sinceTgr>> /\ UNCHANGED env

(* get_dbcfg: db_connect takes a descriptor (none free or the database    *)
(* down: -1); a failed query (-1) or a missing row (0) returns without    *)
(* db_close, so the connection's descriptor stays open.                   *)
DbcfgRet == IF dbState = "down" \/ FreeFds = {} THEN -1
            ELSE CASE dbState = "error" -> -1
                   [] dbState = "norow" -> 0
                   [] dbState = "ok"    -> 1
DbcfgKind == IF dbState \in {"error", "norow"} /\ FreeFds # {}
             THEN [kind EXCEPT ![LowestFree] = "pg"]
             ELSE kind

(* get_serveraddr: gethostbyname fails (0) or resolves the server (1).   *)
ServerAddrOutcomes == BOOLEAN

RetriesExhaustedLate(n) == n > CfgTries
RetriesExhausted(n) == n >= CfgTries

(* main's first loop: get_dbcfg() > 0 && get_serveraddr(), else         *)
(* msleep(30000) and exit(1) after the fifth try; then the location     *)
(* write thread is created, and exit(1) if that fails.                    *)
FetchCfg == /\ pc = "cfg"
            /\ nretry' = nretry + 1
            /\ kind' = DbcfgKind
            /\ \E resolved \in ServerAddrOutcomes :
                 IF DbcfgRet > 0 /\ resolved
                 THEN /\ \E started \in BOOLEAN : pc' = IF started THEN "top" ELSE "exited"
                      /\ cfgAge' = 0
                 ELSE /\ pc' = IF RetriesExhausted(nretry + 1) THEN "exited" ELSE "cfg"
                      /\ UNCHANGED cfgAge
            /\ UNCHANGED <<us, ms, bs, sinceTgr>> /\ UNCHANGED env

(* Top of the main loop: after 5 s the configuration is read again; a     *)
(* failure sleeps server_retryival and starts over without registering.  *)
Top == /\ pc = "top"
       /\ IF cfgAge >= CfgIval
          THEN /\ kind' = DbcfgKind
               /\ IF DbcfgRet <= 0
                  THEN pc' = "top" /\ cfgAge' = Sat(cfgAge + RetryIval, CfgIval)
                  ELSE pc' = "online" /\ cfgAge' = 0
          ELSE pc' = "online" /\ UNCHANGED <<kind, cfgAge>>
       /\ UNCHANGED <<nretry, us, ms, bs, sinceTgr>> /\ UNCHANGED env

(* send_ctlmsg(CTL_CLIENT_ONLINE): socket() failing is exit(1); a failed *)
(* connect or send closes the socket; a successful send returns without  *)
(* closing it.  The server then holds a sink for the client.             *)
Online == /\ pc = "online"
          /\ IF FreeFds = {}
             THEN pc' = "exited" /\ UNCHANGED <<kind, cfgAge, sink>>
             ELSE IF srvUp
                  THEN /\ kind' = [kind EXCEPT ![LowestFree] = "tcp"]
                       /\ sink' = TRUE
                       /\ pc' = "prep"
                       /\ UNCHANGED cfgAge
                  ELSE /\ pc' = "top"
                       /\ cfgAge' = Sat(cfgAge + RetryIval, CfgIval)
                       /\ UNCHANGED <<kind, sink>>
          /\ UNCHANGED <<nretry, us, ms, bs, sinceTgr, srvUp, utgr, mtraffic, dbState, fortified>>

(* create_socket: socket() fails with no descriptor free (-1); a failed  *)
(* setsockopt or bind returns -1 and leaves the new descriptor open; for  *)
(* the multicast socket, a config-table mcast_group inet_pton() rejects   *)
(* returns 0, also leaving the new descriptor open.                      *)
Outcomes == {"ok", "fail", "badgroup"}
CreateSocket(k, role, outcome) ==
    LET free == {fd \in Fds : k[fd] = "free"}
        kept == [k EXCEPT ![Min(free)] = "unbound"]
    IN  CASE free = {}                            -> [ret |-> NoSock, k |-> k]
          [] outcome = "ok"                       -> [ret |-> Min(free),
                                                      k |-> [k EXCEPT ![Min(free)] = role]]
          [] outcome = "badgroup" /\ role = "m"   -> [ret |-> Stdin, k |-> kept]
          [] OTHER                                -> [ret |-> NoSock, k |-> kept]

(* prepare_sockets stops at the first create_socket that returns -1 and  *)
(* returns 0, leaving the later globals as they were (a 0 from an invalid *)
(* group is kept as mcast_sock and the calls go on); main tests for -1   *)
(* and goes on to read_sockets, which starts its timer (ts1).            *)
PrepareSockets ==
    /\ pc = "prep"
    /\ \E b1, b2, b3 \in Outcomes :
         LET r1 == CreateSocket(kind, "u", b1)
             r2 == CreateSocket(r1.k, "m", b2)
             r3 == CreateSocket(r2.k, "b", b3)
         IN  /\ us' = r1.ret
             /\ ms' = IF r1.ret = NoSock THEN ms ELSE r2.ret
             /\ bs' = IF r1.ret = NoSock \/ r2.ret = NoSock THEN bs ELSE r3.ret
             /\ kind' = CASE r1.ret = NoSock -> r1.k
                          [] r2.ret = NoSock -> r2.k
                          [] OTHER           -> r3.k
    /\ pc' = "recv"
    /\ sinceTgr' = 0
    /\ UNCHANGED <<nretry, cfgAge>> /\ UNCHANGED env

-----------------------------------------------------------------------------
(* read_sockets, one pass of its loop.  FD_SET(-1) is undefined: a       *)
(* fortified build aborts, otherwise a bit outside rset is set and select *)
(* sees the other sockets.  select() fails (EBADF) on a closed number.    *)
Socks == {us, ms, bs}
Watched == Socks \ {NoSock}

(* select() runs: every watched number is open, and FD_SET(-1) did not   *)
(* abort.                                                                 *)
Selects == /\ \A fd \in Watched : Open(fd)
           /\ fortified => NoSock \notin Socks

(* What select reports: a bound socket when its datagrams come, a TCP     *)
(* socket the server has closed (end of file), stdin as it happens.       *)
Ready(stdinReady) ==
    {fd \in Watched : CASE kind[fd] = "u"     -> utgr
                        [] kind[fd] \in {"m", "b"} -> mtraffic
                        [] kind[fd] = "tcp"   -> TRUE
                        [] kind[fd] = "stdin" -> stdinReady
                        [] OTHER              -> FALSE}

(* close_sockets: the three numbers are closed, whatever they name now;  *)
(* datagrams queued on a closed socket are gone.                          *)
CloseSockets(k) == [fd \in Fds |-> IF fd \in Socks THEN "free" ELSE k[fd]]

TimedOut(age) == age >= RetryIval

(* select() returns 0 after one second: return 0 once server_retryival   *)
(* has passed since the last answered unicast TGR.                        *)
SelectTimeout ==
    /\ pc = "recv"
    /\ Selects
    /\ Ready(FALSE) = {}
    /\ sinceTgr' = Sat(sinceTgr + 1, RetryIval)
    /\ cfgAge' = Sat(cfgAge + 1, CfgIval)
    /\ IF TimedOut(sinceTgr + 1)
       THEN /\ pc' = "top"
            /\ kind' = CloseSockets(kind)
            /\ utgr' = FALSE
       ELSE UNCHANGED <<pc, kind, utgr>>
    /\ UNCHANGED <<nretry, us, ms, bs, srvUp, sink, mtraffic, dbState, fortified>>

(* recv_msg(ucast_sock) returns 1: a whole TGR came in on a UDP socket    *)
(* (a TCP socket under that number reads 0 bytes, an invalid length), it *)
(* passed msgtgr_check when packet_validation is on, and read_gpsd gave a *)
(* fix without NaN; fix stands for all three.                            *)
UcastAnswered(R, fix) == us \in R /\ kind[us] \in {"u", "m", "b"} /\ fix

SelectReadableOne ==
    /\ pc = "recv"
    /\ Selects
    /\ \E stdinReady, fix, ackSent \in BOOLEAN :
         LET R0  == Ready(stdinReady)
             R   == IF \E fd \in R0 : kind[fd] \in {"m", "b"}
                    THEN {fd \in R0 : kind[fd] \in {"m", "b"}} ELSE R0
             ack == UcastAnswered(R, fix)
         IN  /\ R # {}
             /\ IF (\E fd \in R : kind[fd] = "stdin") \/ (ack /\ ~ackSent)
                THEN pc' = "exited" /\ UNCHANGED <<utgr, sinceTgr>>
                ELSE /\ utgr' = (utgr /\ ~\E fd \in R : kind[fd] = "u")
                     /\ sinceTgr' = IF ack THEN 0 ELSE sinceTgr
                     /\ UNCHANGED pc
    /\ UNCHANGED <<nretry, kind, us, ms, bs, cfgAge, srvUp, sink, mtraffic, dbState, fortified>>

(* Readable sockets are read in the order ucast, mcast, bcast (recv_msg). *)
(* recvfrom on stdin fails and read_sockets returns -1 (exit(1)); on a    *)
(* closed TCP connection it returns 0 bytes (invalid length).  A TGR read *)
(* on ucast_sock with a fix restarts the timer and is answered with an    *)
(* ACK; a failed sendto is -1.  Each TGR with a fix is a spool row.       *)
SelectReadable ==
    /\ pc = "recv"
    /\ Selects
    /\ \E stdinReady, fix, ackSent \in BOOLEAN :
         LET R   == Ready(stdinReady)
             ack == UcastAnswered(R, fix)
         IN  /\ R # {}
             /\ IF (\E fd \in R : kind[fd] = "stdin") \/ (ack /\ ~ackSent)
                THEN pc' = "exited" /\ UNCHANGED <<utgr, sinceTgr>>
                ELSE /\ utgr' = (utgr /\ ~\E fd \in R : kind[fd] = "u")
                     /\ sinceTgr' = IF ack THEN 0 ELSE sinceTgr
                     /\ UNCHANGED pc
    /\ UNCHANGED <<nretry, kind, us, ms, bs, cfgAge, srvUp, sink, mtraffic, dbState, fortified>>

SelectFails ==
    /\ pc = "recv"
    /\ fortified => NoSock \notin Socks
    /\ \E fd \in Watched : ~Open(fd)
    /\ pc' = "exited"
    /\ UNCHANGED <<nretry, kind, us, ms, bs, cfgAge, sinceTgr>> /\ UNCHANGED env

(* FD_SET(-1) in a fortified build: __fdelt_chk aborts the process. *)
SetBadSocket ==
    /\ pc = "recv"
    /\ fortified /\ NoSock \in Socks
    /\ pc' = "exited"
    /\ UNCHANGED <<nretry, kind, us, ms, bs, cfgAge, sinceTgr>> /\ UNCHANGED env

ReadSockets == \/ SetBadSocket \/ SelectFails \/ SelectTimeout \/ SelectReadable

Main == Startup \/ FetchCfg \/ Top \/ Online \/ PrepareSockets \/ ReadSockets

-----------------------------------------------------------------------------
(* The server goes down (losing its sink table) or comes back. *)
ServerFlips == /\ srvUp' = ~srvUp
               /\ sink' = (sink /\ srvUp')
               /\ UNCHANGED <<pc, nretry, kind, us, ms, bs, cfgAge, sinceTgr,
                              utgr, mtraffic, dbState, fortified>>

(* The server prunes the sink (no ACK within prune_interval). *)
Prune == /\ sink
         /\ sink' = FALSE
         /\ UNCHANGED <<pc, nretry, kind, us, ms, bs, cfgAge, sinceTgr,
                        srvUp, utgr, mtraffic, dbState, fortified>>

(* The sink's unicast TGR reaches the bound unicast socket. *)
Trigger == /\ sink /\ ~utgr
           /\ \E fd \in Fds : kind[fd] = "u"
           /\ utgr' = TRUE
           /\ UNCHANGED <<pc, nretry, kind, us, ms, bs, cfgAge, sinceTgr,
                          srvUp, sink, mtraffic, dbState, fortified>>

(* Other clients' sinks come and go, and with them the multicast and     *)
(* broadcast TGRs on the shared ports.                                    *)
TrafficFlips == /\ mtraffic' = ~mtraffic
                /\ UNCHANGED <<pc, nretry, kind, us, ms, bs, cfgAge, sinceTgr,
                               srvUp, sink, utgr, dbState, fortified>>

DbChanges == /\ dbState' \in {"down", "error", "norow", "ok"} \ {dbState}
             /\ UNCHANGED <<pc, nretry, kind, us, ms, bs, cfgAge, sinceTgr,
                            srvUp, sink, utgr, mtraffic, fortified>>

(* Time passes while TGRs keep select() from timing out. *)
ClockTick == /\ pc = "recv"
             /\ sinceTgr' = Sat(sinceTgr + 1, RetryIval)
             /\ cfgAge' = Sat(cfgAge + 1, CfgIval)
             /\ <<sinceTgr', cfgAge'>> # <<sinceTgr, cfgAge>>
             /\ UNCHANGED <<pc, nretry, kind, us, ms, bs, srvUp, sink, utgr,
                            mtraffic, dbState, fortified>>

Environment == ServerFlips \/ Prune \/ Trigger \/ TrafficFlips \/ DbChanges \/ ClockTick

Next == Main \/ Environment

(* The main thread is scheduled; the server, the database, other clients *)
(* and the clock are not assumed to do anything.                          *)
Spec == Init /\ [][Next]_vars /\ WF_vars(Main)

-----------------------------------------------------------------------------
TypeOK == /\ pc \in {"start", "cfg", "top", "online", "prep", "recv", "exited"}
          /\ nretry \in 0..CfgTries
          /\ kind \in [Fds -> Kinds]
          /\ {us, ms, bs} \subseteq Fds \cup {NoSock}
          /\ cfgAge \in 0..CfgIval /\ sinceTgr \in 0..RetryIval
          /\ {srvUp, sink, utgr, mtraffic} \subseteq BOOLEAN
          /\ dbState \in {"down", "error", "norow", "ok"}
          /\ fortified \in BOOLEAN

OpenFds == {fd \in Fds \ {Stdin} : kind[fd] \notin {"free", "gps", "buf"}}

(* Apart from the gpsd connection and the buffer file, which main keeps   *)
(* for good, every descriptor main opens is one of the three session sockets while  *)
(* read_sockets runs, and none is open between sessions: send_ctlmsg,    *)
(* get_dbcfg and create_socket close what they do not hand back.         *)
NoLeakedDescriptors == OpenFds \subseteq (IF pc = "recv" THEN Socks ELSE {})

(* A client whose sink is gone for good, with the configuration database *)
(* answering, keeps registering (or has died, or has no descriptor left): *)
(* the spec's timeout returns to registration when no unicast TGR came    *)
(* within server_retryival, whatever else arrives.                        *)
ReRegistersWhenPruned ==
    <>[](~sink /\ dbState = "ok")
        => \/ []<>(pc = "online")
           \/ <>(pc = "exited")
           \/ <>[](FreeFds = {})

(* A unicast TGR that reaches the session's socket is read (and answered *)
(* with an ACK) while the session lasts, however much multicast and       *)
(* broadcast traffic arrives: read_sockets serves every readable socket   *)
(* of a select() in the same pass.                                        *)
UnicastTgrAnswered == utgr ~> (~utgr \/ pc # "recv")

(* The same, when neither multicast nor broadcast TGRs arrive and the     *)
(* configuration database answers: select() then times out and main goes  *)
(* back to send_ctlmsg, unless it has died or every descriptor is taken   *)
(* for good (the leaked ones of NoLeakedDescriptors), when get_dbcfg      *)
(* fails forever.                                                         *)
SilentClientReRegisters ==
    <>[](~sink /\ ~mtraffic /\ dbState = "ok")
        => \/ []<>(pc = "online")
           \/ <>(pc = "exited")
           \/ <>[](FreeFds = {})
=============================================================================
