----------------------------- MODULE ServerLoop -----------------------------
(***************************************************************************)
(* The gpsserver control-and-dispatch loop (src/gpsserver/server.c).       *)
(*                                                                         *)
(* One thread runs accept_client() forever: it builds a read set from the  *)
(* descriptor table cstate[], calls select(), and then walks the table in  *)
(* descriptor order.  For a descriptor select() reported readable it calls *)
(* handle_client() (accept a control connection, read a CTL frame, or     *)
(* read an ACK datagram); then, for an ONLINE UDP sink, it sends a TGR     *)
(* when packet_interval has elapsed and prunes the sink when              *)
(* prune_interval has elapsed since its last ACK.                          *)
(*                                                                         *)
(* Descriptors are 0..MaxFd; 0 is the listening socket, and the kernel     *)
(* hands out the lowest free descriptor.  Time is kept as the age of each *)
(* sink's last_tgr and last_ack, saturated at the interval they are       *)
(* compared with.  The clients and the network are an environment that    *)
(* opens control connections, answers or loses TGRs, and lets time pass.  *)
(***************************************************************************)
EXTENDS Naturals, Sequences, FiniteSets, FiniteSetsExt

CONSTANTS
    Names,            \* client names (ctl.name) that register with the server
    MaxFd,            \* highest descriptor the process can hold
    PacketInterval,   \* config.packet_interval, in clock ticks
    PruneInterval,    \* config.prune_interval, in clock ticks
    UnicastEnable,    \* config.unicast_enable
    MulticastEnable,  \* config.multicast_enable
    BroadcastEnable,  \* config.broadcast_enable
    MaxConnects,      \* bound on the control connections the clients open
    NULL,             \* an empty cstate[] slot
    NoName            \* the zeroed ctl.name of a fresh client_state

ASSUME
    /\ MaxFd \in Nat \ {0}
    /\ PacketInterval \in Nat \ {0}
    /\ PruneInterval \in Nat \ {0}
    /\ {UnicastEnable, MulticastEnable, BroadcastEnable} \subseteq BOOLEAN
    /\ MaxConnects \in Nat
    /\ NoName \notin Names

ListenFd  == 0
Fds       == 0..MaxFd
ClientFds == 1..MaxFd
Done      == MaxFd + 1          \* cursor value: the pass is over, at select()

ONLINE  == 1                    \* CTL_CLIENT_ONLINE
OFFLINE == 2                    \* CTL_CLIENT_OFFLINE
BADCTL  == 0                    \* any frame msgctl_check() rejects

\* A client_state: SOCK_STREAM control connection or SOCK_DGRAM sink.
State == [type: {"TCP", "UDP"}, status: {ONLINE, OFFLINE},
          name: Names \cup {NoName}, rcvd: BOOLEAN,
          sinceTgr: 0..PacketInterval, sinceAck: 0..PruneInterval]

\* What a client writes on a control connection; segs is the number of
\* reads the 28-byte frame takes to arrive.
Conn == [ctl: {ONLINE, OFFLINE}, name: Names, segs: {1, 2}]

VARIABLES
    cstate,     \* cstate[fd]: the client_state of descriptor fd, or NULL
    backlog,    \* connections queued on the listening socket
    ctlIn,      \* ctlIn[fd]: what is still to be read on control connection fd
    ackIn,      \* ackIn[fd]: an ACK datagram is queued on sink fd
    tgrOut,     \* tgrOut[fd]: a unicast TGR sent from sink fd is unanswered
    rset,       \* the descriptors select() returned readable for this pass
    cursor,     \* the descriptor the pass is at; Done when at select()
    handled,    \* handle_client(cursor) has run in this pass
    lastEvent,  \* lastEvent[n]: last control event inserted for n
    ctlLog,     \* history: the code sent and the code acted on, per CTL frame
    connects,   \* control connections opened so far
    halted,     \* "start" (in main()'s set-up), "no", "segv" (NULL
                \* dereference) or "exit" (exit/_exit)
    listening,  \* sock_ctl is an open listening socket
    triggered   \* triggered[n]: send_packets() sent n a TGR since the last
                \* ONLINE event recorded for n (history)

vars == <<cstate, backlog, ctlIn, ackIn, tgrOut, rset, cursor, handled,
          lastEvent, ctlLog, connects, halted, listening, triggered>>
hist == <<lastEvent, ctlLog, triggered>>
net  == <<backlog, ctlIn, ackIn, tgrOut>>

-----------------------------------------------------------------------------
(* Helpers                                                                 *)

Sat(x, cap) == IF x >= cap THEN cap ELSE x

\* cstate_new(): zeroed state, OFFLINE, both timestamps set to now.
NewStateNoStatus(t) ==
    [type |-> t, status |-> 0, name |-> NoName, rcvd |-> FALSE,
     sinceTgr |-> 0, sinceAck |-> 0]
NewState(t) ==
    [type |-> t, status |-> OFFLINE, name |-> NoName, rcvd |-> FALSE,
     sinceTgr |-> 0, sinceAck |-> 0]

\* The descriptors socket() and accept() may return: the kernel gives the
\* lowest one that is not open.
FreeFds    == {i \in ClientFds : cstate[i] = NULL}
LowestFree == Min(FreeFds)

IsSink(i) == cstate[i] # NULL /\ cstate[i].type = "UDP"
             /\ cstate[i].status = ONLINE

\* cstate_scan(): the lowest descriptor whose state carries this name, TCP
\* control states included; 0 (never a client descriptor) when none does.
CstateScan(n) ==
    LET hits == {i \in ClientFds : cstate[i] # NULL /\ cstate[i].name = n}
    IN  IF hits = {} THEN ListenFd ELSE Min(hits)

\* Descriptors select() reports readable: the listening socket with a
\* pending connection, control connections with bytes, sinks with an ACK.
Ready ==
    (IF backlog = <<>> THEN {} ELSE {ListenFd})
    \cup {i \in ClientFds :
            /\ cstate[i] # NULL
            /\ \/ cstate[i].type = "TCP" /\ ctlIn[i] # NULL
               \/ cstate[i].type = "UDP" /\ ackIn[i]}

\* Removes the states of the descriptors in S and drops their socket data.
Release(S) ==
    /\ cstate' = [i \in Fds |-> IF i \in S THEN NULL ELSE cstate[i]]
    /\ ctlIn'  = [i \in Fds |-> IF i \in S THEN NULL ELSE ctlIn[i]]
    /\ ackIn'  = [i \in Fds |-> IF i \in S THEN FALSE ELSE ackIn[i]]
    /\ tgrOut' = [i \in Fds |-> IF i \in S THEN FALSE ELSE tgrOut[i]]

\* db_insertctl(): the event row for n.
RecordEvent(n, e) == lastEvent' = [lastEvent EXCEPT ![n] = e]

\* A new ONLINE event: n has not been sent a TGR since.
ResetTriggered(n) == triggered' = [triggered EXCEPT ![n] = FALSE]

-----------------------------------------------------------------------------
(* Server: select() and the walk over the descriptor table                 *)

Init ==
    /\ cstate    = [i \in Fds |-> NULL]
    /\ backlog   = <<>>
    /\ ctlIn     = [i \in Fds |-> NULL]
    /\ ackIn     = [i \in Fds |-> FALSE]
    /\ tgrOut    = [i \in Fds |-> FALSE]
    /\ rset      = {}
    /\ cursor    = Done
    /\ handled   = FALSE
    /\ lastEvent = [n \in Names |-> "NONE"]
    /\ ctlLog    = {}
    /\ connects  = 0
    /\ halted    = "start"
    /\ listening = FALSE
    /\ triggered = [n \in Names |-> FALSE]

\* main() after config_read(): open the log file, daemonize, db_connect()
\* and setup_sockctl(); each failure exits, except a failed listen(),
\* after which setup_sockctl() closes sock_ctl and still returns 1.
Startup ==
    /\ halted = "start"
    /\ \/ halted' = "exit" /\ UNCHANGED listening
       \/ halted' = "no" /\ listening' \in BOOLEAN
    /\ UNCHANGED <<cstate, net, rset, cursor, handled, hist, connects>>

Select ==
    /\ halted = "no" /\ cursor = Done /\ listening
    /\ rset' = Ready
    /\ cursor' = ListenFd
    /\ handled' = FALSE
    /\ UNCHANGED <<cstate, net, lastEvent, ctlLog, connects, halted,
                   listening, triggered>>

\* select() on the closed sock_ctl fails with EBADF on every call:
\* accept_client() returns at once and main() calls it again.
SelectFails ==
    /\ halted = "no" /\ cursor = Done /\ ~listening
    /\ UNCHANGED vars

\* handle_client(i) runs for a descriptor of the read set.
Handling(i) ==
    /\ halted = "no" /\ cursor = i /\ i \in rset /\ ~handled
    /\ handled' = TRUE
    /\ UNCHANGED <<rset, cursor, connects, listening>>

\* accept() on the listening socket; a failed accept (no descriptor left)
\* leaves the connection queued.
Accept ==
    /\ Handling(ListenFd)
    /\ IF FreeFds = {}
         THEN UNCHANGED <<cstate, backlog, ctlIn>>
         ELSE /\ cstate' = [cstate EXCEPT ![LowestFree] = NewState("TCP")]
              /\ ctlIn'  = [ctlIn EXCEPT ![LowestFree] = Head(backlog)]
              /\ backlog' = Tail(backlog)
    /\ UNCHANGED <<ackIn, tgrOut, lastEvent, ctlLog, halted, triggered>>

\* handle_client() on a descriptor whose state an earlier step of the same
\* pass freed: cs = cstate[sock] is NULL and cs->type faults.
DispatchFreed(i) ==
    /\ Handling(i)
    /\ i # ListenFd /\ cstate[i] = NULL
    /\ halted' = "segv"
    /\ UNCHANGED <<cstate, net, hist>>

\* The control codes the frame read_ctlmsg() decodes may carry.  The bytes
\* of an earlier partial read went into the local ctl of an earlier call,
\* so the head of this frame is whatever that stack slot holds.
Assembled(i) ==
    IF cstate[i].rcvd THEN {ONLINE, OFFLINE, BADCTL} ELSE {ctlIn[i].ctl}

\* create_ucastsock(): a fresh state for the new SOCK_DGRAM descriptor,
\* ONLINE, with the CTL record (the client's name) of the control state.
create_ucastsock(n) == [NewState("UDP") EXCEPT !.status = ONLINE, !.name = n]

RejectsDuplicateNever(found, code) == FALSE
\* An ONLINE for a name cstate_scan() found is refused.
RejectsDuplicate(found, code) == found # ListenFd /\ code = ONLINE

\* read_ctlmsg() followed by handle_client()'s close(): a partial read
\* returns 0 and keeps the connection; a complete frame is acted on and
\* the control connection is closed whatever the outcome.
ReadCtl(i) ==
    /\ Handling(i)
    /\ i # ListenFd /\ cstate[i] # NULL /\ cstate[i].type = "TCP"
    /\ \/ /\ ctlIn[i].segs = 2
          /\ cstate' = [cstate EXCEPT ![i].rcvd = TRUE]
          /\ ctlIn'  = [ctlIn EXCEPT ![i].segs = 1]
          /\ UNCHANGED <<backlog, ackIn, tgrOut, hist, halted>>
       \/ /\ ctlIn[i].segs = 1
          /\ \E code \in Assembled(i) :
               LET n     == ctlIn[i].name
                   found == CstateScan(n)
               IN
               /\ ctlLog' = ctlLog \cup {[sent |-> ctlIn[i].ctl, acted |-> code]}
               /\ UNCHANGED backlog
               /\ CASE code = BADCTL \/ RejectsDuplicate(found, code) ->
                         /\ Release({i})
                         /\ UNCHANGED <<lastEvent, halted, triggered>>
                    [] code = OFFLINE ->
                         /\ Release({i} \cup ({found} \ {ListenFd}))
                         /\ RecordEvent(n, "OFFLINE")
                         /\ UNCHANGED <<halted, triggered>>
                    [] code = ONLINE /\ ~UnicastEnable ->
                         /\ Release({i})
                         /\ RecordEvent(n, "ONLINE") /\ ResetTriggered(n)
                         /\ UNCHANGED halted
                    [] code = ONLINE /\ FreeFds = {} ->
                         /\ halted' = "exit"
                         /\ UNCHANGED <<cstate, ctlIn, ackIn, tgrOut, lastEvent,
                                        triggered>>
                    [] OTHER ->
                         LET s == LowestFree IN
                         /\ cstate' = [j \in Fds |->
                                 CASE j = i -> NULL
                                   [] j = s -> create_ucastsock(n)
                                   [] OTHER -> cstate[j]]
                         /\ ctlIn' = [ctlIn EXCEPT ![i] = NULL]
                         /\ UNCHANGED <<ackIn, tgrOut>>
                         /\ RecordEvent(n, "ONLINE") /\ ResetTriggered(n)
                         /\ UNCHANGED halted


\* recvfrom() on a sink: a queued ACK refreshes last_ack (and is inserted
\* into the data table); with nothing queued the non-blocking read fails.
ReadAck(i) ==
    /\ Handling(i)
    /\ i # ListenFd /\ cstate[i] # NULL /\ cstate[i].type = "UDP"
    /\ IF ackIn[i]
         THEN /\ ackIn' = [ackIn EXCEPT ![i] = FALSE]
              /\ cstate' = [cstate EXCEPT ![i].sinceAck = 0]
         ELSE UNCHANGED <<ackIn, cstate>>
    /\ UNCHANGED <<backlog, ctlIn, tgrOut, hist, halted>>

TriggerDueLate(i) == cstate[i].sinceTgr > PacketInterval
\* The packet-interval test of accept_client().
TriggerDue(i) == cstate[i].sinceTgr >= PacketInterval

PruneDueStale(i) == cstate[i].sinceTgr >= PruneInterval
\* The ACK-timeout test of accept_client().
PruneDue(i) == cstate[i].sinceAck >= PruneInterval

\* send_packets() opens a throw-away socket for multicast and for broadcast.
NeedsEphemeral == MulticastEnable \/ BroadcastEnable

TimeoutAckSilent(i) ==
    /\ Release({i})
    /\ UNCHANGED lastEvent
\* timeout_ack(): TIMEOUT row, close the sink, free its state.
TimeoutAck(i) ==
    /\ Release({i})
    /\ RecordEvent(cstate[i].name, "TIMEOUT")

\* send_packets() for the sink at i, when packet_interval has elapsed: a
\* unicast TGR from the sink's own socket, multicast and broadcast copies
\* from throw-away sockets (a failed sendto() is logged and is the same
\* to the client as a lost datagram).
SendsTgr == UnicastEnable \/ NeedsEphemeral
send_packets(i) ==
    triggered' = IF TriggerDue(i) /\ SendsTgr
                   THEN [triggered EXCEPT ![cstate[i].name] = TRUE]
                   ELSE triggered

\* The per-descriptor tick work of accept_client(), after handle_client():
\* an ONLINE sink sends a TGR when packet_interval has elapsed (last_tgr is
\* reset whether or not sendto() succeeded), then is pruned when
\* prune_interval has elapsed since its last ACK.  send_packets() exits
\* the process when socket() fails for the multicast or broadcast copy.
Tick(i) ==
    /\ halted = "no" /\ cursor = i /\ (handled \/ i \notin rset)
    /\ cursor' = i + 1
    /\ handled' = FALSE
    /\ UNCHANGED <<rset, backlog, ctlLog, connects, listening>>
    /\ \/ /\ ~(i # ListenFd /\ IsSink(i))
          /\ UNCHANGED <<cstate, ctlIn, ackIn, tgrOut, lastEvent, halted,
                         triggered>>
       \/ /\ i # ListenFd /\ IsSink(i)
          /\ TriggerDue(i) /\ NeedsEphemeral /\ FreeFds = {}
          /\ halted' = "exit"
          /\ UNCHANGED <<cstate, ctlIn, ackIn, tgrOut, lastEvent, triggered>>
       \/ /\ i # ListenFd /\ IsSink(i)
          /\ ~(TriggerDue(i) /\ NeedsEphemeral /\ FreeFds = {})
          /\ UNCHANGED halted
          /\ send_packets(i)
          /\ IF PruneDue(i)
               THEN TimeoutAck(i)
               ELSE /\ cstate' = [cstate EXCEPT ![i].sinceTgr =
                                     IF TriggerDue(i) THEN 0 ELSE @]
                    /\ tgrOut' = [tgrOut EXCEPT ![i] =
                                     @ \/ (TriggerDue(i) /\ UnicastEnable)]
                    /\ UNCHANGED <<ctlIn, ackIn, lastEvent>>

\* The process has stopped; nothing more happens.
Halted ==
    /\ halted \in {"segv", "exit"}
    /\ UNCHANGED vars

Server ==
    \/ Startup
    \/ Select
    \/ SelectFails
    \/ Accept
    \/ \E i \in ClientFds : DispatchFreed(i) \/ ReadCtl(i) \/ ReadAck(i)
    \/ \E i \in Fds : Tick(i)

-----------------------------------------------------------------------------
(* Environment: clients, the network and the clock                         *)

\* The environment acts while the server waits in select().
AtSelect == cursor = Done

\* A client connects and writes a CTL frame (send_ctlmsg() in gpsclient).
\* connect() is refused unless the server runs with a listening sock_ctl.
Connect(n, c, k) ==
    /\ AtSelect /\ connects < MaxConnects
    /\ halted = "no" /\ listening
    /\ backlog' = Append(backlog, [ctl |-> c, name |-> n, segs |-> k])
    /\ connects' = connects + 1
    /\ UNCHANGED <<cstate, ctlIn, ackIn, tgrOut, rset, cursor, handled,
                   hist, halted, listening>>

\* The client answers the unicast TGR with an ACK to the sink's socket.
ClientAcks(i) ==
    /\ AtSelect /\ IsSink(i) /\ tgrOut[i] /\ ~ackIn[i]
    /\ tgrOut' = [tgrOut EXCEPT ![i] = FALSE]
    /\ ackIn' = [ackIn EXCEPT ![i] = TRUE]
    /\ UNCHANGED <<cstate, backlog, ctlIn, rset, cursor, handled,
                   hist, connects, halted, listening>>

\* The TGR or its ACK is lost on the way.
DatagramLost(i) ==
    /\ AtSelect /\ tgrOut[i]
    /\ tgrOut' = [tgrOut EXCEPT ![i] = FALSE]
    /\ UNCHANGED <<cstate, backlog, ctlIn, ackIn, rset, cursor, handled,
                   hist, connects, halted, listening>>

\* One clock tick: every sink's last_tgr and last_ack grow one tick older
\* (tsdiff() against CLOCK_MONOTONIC), saturated at the intervals.
ClockTick ==
    /\ cstate' = [i \in Fds |->
                    IF cstate[i] # NULL /\ cstate[i].type = "UDP"
                      THEN [cstate[i] EXCEPT
                              !.sinceTgr = Sat(@ + 1, PacketInterval),
                              !.sinceAck = Sat(@ + 1, PruneInterval)]
                      ELSE cstate[i]]
    /\ cstate' # cstate
    /\ UNCHANGED <<net, rset, cursor, handled, hist, connects, halted,
                   listening>>

Environment ==
    \/ \E n \in Names, c \in {ONLINE, OFFLINE}, k \in {1, 2} : Connect(n, c, k)
    \/ \E i \in ClientFds : ClientAcks(i) \/ DatagramLost(i)
    \/ ClockTick

Next == Server \/ Environment \/ Halted

\* The loop thread never blocks for longer than select()'s one second, and
\* the monotonic clock always advances.  The clients are not fair.
Fairness == WF_vars(Server) /\ WF_vars(ClockTick)

Spec == Init /\ [][Next]_vars /\ Fairness

-----------------------------------------------------------------------------
(* Properties                                                              *)

TypeOK ==
    /\ cstate \in [Fds -> State \cup {NULL}]
    /\ cstate[ListenFd] = NULL
    /\ backlog \in Seq(Conn)
    /\ ctlIn \in [Fds -> Conn \cup {NULL}]
    /\ ackIn \in [Fds -> BOOLEAN]
    /\ tgrOut \in [Fds -> BOOLEAN]
    /\ rset \subseteq Fds
    /\ cursor \in 0..Done
    /\ handled \in BOOLEAN
    /\ lastEvent \in [Names -> {"NONE", "ONLINE", "OFFLINE", "TIMEOUT"}]
    /\ ctlLog \subseteq [sent: {ONLINE, OFFLINE}, acted: {ONLINE, OFFLINE, BADCTL}]
    /\ connects \in 0..MaxConnects
    /\ halted \in {"start", "no", "segv", "exit"}
    /\ listening \in BOOLEAN
    /\ triggered \in [Names -> BOOLEAN]

\* At most one ONLINE sink per client name (spec invariant 3): the
\* cstate_scan() check in read_ctlmsg() must refuse a second ONLINE even
\* when both arrive in the same select() pass.
OneSinkPerName ==
    \A i, j \in ClientFds :
        (IsSink(i) /\ IsSink(j) /\ cstate[i].name = cstate[j].name) => i = j

\* The event table mirrors the sink table: a client has a sink exactly when
\* the last control event recorded for it (ONLINE, OFFLINE or TIMEOUT, by
\* read_ctlmsg() and timeout_ack()) is ONLINE.
EventLogMirrorsSinks ==
    \A n \in Names :
        (\E i \in ClientFds : IsSink(i) /\ cstate[i].name = n)
            <=> lastEvent[n] = "ONLINE"

\* handle_client() is never called on a descriptor whose client_state an
\* earlier step of the same select() pass freed.
NoFreedDispatch == halted # "segv"

\* Every CTL frame read_ctlmsg() completes is acted on with the control
\* code the client sent, also when the 28 bytes arrive in two reads.
CtlActedAsSent == \A r \in ctlLog : r.acted = r.sent

\* A sink silent for prune_interval is eventually pruned by accept_client()
\* (or answers in time), unless the server process has stopped.
Silent(i) == IsSink(i) /\ cstate[i].sinceAck = PruneInterval
SilentSinkPruned ==
    \A i \in ClientFds : Silent(i) ~> (~Silent(i) \/ halted # "no")

\* Every client whose ONLINE read_ctlmsg() recorded in the event table is
\* sent a TGR by send_packets() (scenario S1), unless it goes OFFLINE first
\* or the server stops: neither a prune before the first packet_interval
\* nor a registration that creates no sink may leave it untriggered.
RegisteredIsTriggered ==
    \A n \in Names :
        lastEvent[n] = "ONLINE"
            ~> (triggered[n] \/ lastEvent[n] = "OFFLINE" \/ halted # "no")

=============================================================================
