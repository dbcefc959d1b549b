---------------------------- MODULE TCPEndpoints ----------------------------
(***************************************************************************)
(* Two hosts, each with one socket pair towards the other, joined by a     *)
(* network that reorders freely and may lose or duplicate segments.  An    *)
(* action is one event of the simulation kernel: a command that passes the *)
(* guards of TCPSocket.cc, the expiry of a timer, the arrival of a         *)
(* segment, the crash or the restart of a node.                            *)
(* TCP::handleMessage() runs the handler of TCPConnection and then         *)
(* performStateTransition() to completion, so both are one step; the       *)
(* commands and indications cross between application and TCP in zero      *)
(* simulated time and are part of the step that causes them.               *)
(*                                                                         *)
(* Timers may expire whenever they are scheduled, so that a retransmission *)
(* may be premature and 2MSL may end while old segments are about, unless  *)
(* PromptNetwork says that every segment arrives or is lost sooner than    *)
(* the shortest timeout.                                                   *)
(***************************************************************************)
EXTENDS TCPConnection

CONSTANTS
  A, B,                   \* the two hosts
  Active, Passive,        \* which of them call connect(), and listen()
  Quota,                  \* how many units the application of a host writes at most
  Closers, Responders,    \* whose application calls close(): any time, or on PEER_CLOSED
  Aborters,               \* whose application calls abort()
  Careless,               \* whose application relies on the socket to refuse it after close()
  EarlyClose,             \* may close() and abort() come before the connection is up
  PromptNetwork,          \* timers outlast the delays of the network
  MaxOpens,               \* openings of a socket per host
  MaxSynRexmit,           \* expiries of the SYN-REXMIT timer before CONN-ESTAB strikes (at most 4)
  MaxLoss, MaxDup, MaxCrash

Ends == {A, B}

ASSUME EndpointsAssumption ==
  /\ A # B
  /\ Active \subseteq Ends /\ Passive \subseteq Ends
  /\ Closers \subseteq Ends /\ Responders \subseteq Ends /\ Aborters \subseteq Ends
  /\ Careless \subseteq Ends
  /\ Quota \in [Ends -> Nat]
  /\ EarlyClose \in BOOLEAN /\ PromptNetwork \in BOOLEAN
  /\ MaxOpens \in Nat /\ MaxSynRexmit \in 0 .. 4
  /\ MaxLoss \in Nat /\ MaxDup \in Nat /\ MaxCrash \in Nat

VARIABLES
  conn,                   \* the connection of each host
  net,                    \* the segments on their way to each host
  up,                     \* TCP::isOperational of each host
  opens,                  \* how often each host has opened its socket
  lost, dups, crashes     \* the faults so far

vars == <<conn, net, up, opens, lost, dups, crashes>>
faults == <<lost, dups, crashes>>

Peer(e) == IF e = A THEN B ELSE A
\* A throw or a failed ASSERT ends the simulation
Running == \A e \in Ends : conn[e].failed = {}

Init ==
  /\ conn = [e \in Ends |-> FreshConn]
  /\ net = [e \in Ends |-> {}]
  /\ up = [e \in Ends |-> TRUE]
  /\ opens = [e \in Ends |-> 0]
  /\ lost = 0 /\ dups = 0 /\ crashes = 0

-----------------------------------------------------------------------------
(* The shell around every handler *)

Settled(c) == [PerformStateTransition(c) EXCEPT !.out = {}]

\* e runs a handler that leaves c, after consuming the segments of "used"
Handle(e, c, used) ==
  /\ conn' = [conn EXCEPT ![e] = Settled(c)]
  /\ net' = [net EXCEPT ![e] = @ \ used, ![Peer(e)] = @ \cup PerformStateTransition(c).out]

Command(e, c) == Running /\ up[e] /\ Handle(e, c, {})

-----------------------------------------------------------------------------
(* Commands: the guards are those of TCPSocket.  They do not keep an application from
   writing or closing after its close(), because PEER_CLOSED and ESTABLISHED overwrite what
   close() noted in the socket.  An application that is not careless remembers it. *)

\* Mutant: a new connection begins with the sequence numbers of the first
ReopenedSameIss(c) == FreshConn

\* A new socket and connection object; the clock that gives the ISS goes on
Reopened(c) == [FreshConn EXCEPT !.iss = c.iss + IssStep]

\* The connection object as open() finds it
NewConn(e, sock) == [Reopened(conn[e]) EXCEPT !.app.sock = sock]

Open(e, c) ==
  /\ opens[e] < MaxOpens
  /\ conn[e].fsm \in {"INIT", "CLOSED"}
  /\ Command(e, c)
  /\ opens' = [opens EXCEPT ![e] = @ + 1]
  /\ UNCHANGED <<up, faults>>

Connect(e) == e \in Active /\ Open(e, ProcessOpenActive(NewConn(e, "CONNECTING")))
Listen(e) == e \in Passive /\ Open(e, ProcessOpenPassive(NewConn(e, "LISTENING")))

HeedsClose(e) == e \notin Careless => ~conn[e].app.closed

Send(e) ==
  LET c == conn[e]
  IN /\ c.app.sock \in {"CONNECTED", "CONNECTING", "PEER_CLOSED"}
     /\ HeedsClose(e) /\ c.app.wrote < Quota[e]
     /\ Command(e, ProcessSend([c EXCEPT !.app.wrote = @ + 1]))
     /\ UNCHANGED <<up, opens, faults>>

Close(e) ==
  LET c == conn[e]
      sock == IF c.app.sock = "CONNECTED" THEN "LOCALLY_CLOSED" ELSE "CLOSED"
  IN /\ e \in Closers \/ (e \in Responders /\ c.app.sock = "PEER_CLOSED")
     /\ EarlyClose \/ c.app.estab > 0
     /\ c.app.sock \in {"CONNECTED", "PEER_CLOSED", "CONNECTING", "LISTENING"}
     /\ HeedsClose(e)
     /\ Command(e, ProcessClose([c EXCEPT !.app.sock = sock, !.app.closed = TRUE]))
     /\ UNCHANGED <<up, opens, faults>>

Abort(e) ==
  LET c == conn[e]
  IN /\ e \in Aborters
     /\ EarlyClose \/ c.app.estab > 0
     /\ c.app.sock \notin {"NOT_BOUND", "CLOSED", "SOCKERROR"}
     /\ Command(e, ProcessAbort([c EXCEPT !.app.sock = "CLOSED", !.app.aborted = TRUE]))
     /\ UNCHANGED <<up, opens, faults>>

-----------------------------------------------------------------------------
(* Timers *)

Expire(e, timer, c) ==
  /\ timer \in conn[e].timers
  /\ PromptNetwork => \A f \in Ends : net[f] = {}
  /\ Command(e, c)
  /\ UNCHANGED <<up, opens, faults>>

SynRexmitTimeout(e) ==
  /\ conn[e].syn_rexmit_count < MaxSynRexmit
  /\ Expire(e, "synRexmit", ProcessSynRexmitTimer(conn[e]))
\* 75 s, after the expiries of SYN-REXMIT at 3, 9, 21 and 45 s
ConnEstabTimeout(e) ==
  /\ PromptNetwork => conn[e].syn_rexmit_count = MaxSynRexmit
  /\ Expire(e, "connEstab", ProcessConnEstabTimer(conn[e]))
RexmitTimeout(e) == Expire(e, "rexmit", ProcessRexmitTimer(conn[e]))
TwoMSLTimeout(e) == Expire(e, "2msl", Process2MSLTimer(conn[e]))

-----------------------------------------------------------------------------
(* The network and the nodes *)

Deliver(e, s) ==
  /\ s \in net[e] /\ Running /\ up[e]
  /\ Handle(e, ProcessSegment(conn[e], s), {s})
  /\ UNCHANGED <<up, opens, faults>>

\* The segment arrives, and a copy of it is still on its way
Duplicate(e, s) ==
  /\ s \in net[e] /\ Running /\ up[e] /\ dups < MaxDup
  /\ Handle(e, ProcessSegment(conn[e], s), {})
  /\ dups' = dups + 1
  /\ UNCHANGED <<up, opens, lost, crashes>>

Lose(e, s) ==
  /\ s \in net[e] /\ Running /\ lost < MaxLoss
  /\ net' = [net EXCEPT ![e] = @ \ {s}]
  /\ lost' = lost + 1
  /\ UNCHANGED <<conn, up, opens, dups, crashes>>

\* "TCP is turned off, dropping message"
Drop(e, s) ==
  /\ s \in net[e] /\ Running /\ ~up[e]
  /\ net' = [net EXCEPT ![e] = @ \ {s}]
  /\ UNCHANGED <<conn, up, opens, faults>>

\* NodeCrashOperation: TCP::reset() deletes the connections and tells nobody
Crash(e) ==
  /\ Running /\ up[e] /\ crashes < MaxCrash
  /\ conn' = [conn EXCEPT ![e] = Reopened(@)]
  /\ up' = [up EXCEPT ![e] = FALSE]
  /\ crashes' = crashes + 1
  /\ UNCHANGED <<net, opens, lost, dups>>

Restart(e) ==
  /\ Running /\ ~up[e]
  /\ up' = [up EXCEPT ![e] = TRUE]
  /\ UNCHANGED <<conn, net, opens, faults>>

-----------------------------------------------------------------------------
UserStep(e) == Connect(e) \/ Listen(e) \/ Send(e) \/ Close(e) \/ Abort(e)
TimerStep(e) == SynRexmitTimeout(e) \/ ConnEstabTimeout(e) \/ RexmitTimeout(e) \/ TwoMSLTimeout(e)
NetworkStep(e) == \E s \in net[e] : Deliver(e, s) \/ Duplicate(e, s) \/ Lose(e, s) \/ Drop(e, s)
NodeStep(e) == Crash(e) \/ Restart(e)

Next == \E e \in Ends : UserStep(e) \/ TimerStep(e) \/ NetworkStep(e) \/ NodeStep(e)

Spec == Init /\ [][Next]_vars

\* The kernel pops every event it has scheduled: a segment in flight arrives unless it is
\* lost, and a timer that nobody cancels expires.  Applications and faults owe nothing.
\* Expiring and Arriving are the guards of the two actions.  Beside each action stands Never,
\* a step nothing takes: it leaves the fairness as it is, and TLC finds the action ENABLED by
\* its guard without running the handler.
Never == lost' = MaxLoss + 1 /\ UNCHANGED <<conn, net, up, opens, dups, crashes>>

Expiring(e) ==
  /\ Running /\ up[e]
  /\ PromptNetwork => \A f \in Ends : net[f] = {}
  /\ \/ conn[e].timers \cap {"rexmit", "2msl"} # {}
     \/ "synRexmit" \in conn[e].timers /\ conn[e].syn_rexmit_count < MaxSynRexmit
     \/ /\ "connEstab" \in conn[e].timers
        /\ PromptNetwork => conn[e].syn_rexmit_count = MaxSynRexmit
Arriving(e) == Running /\ up[e] /\ net[e] # {}

Fairness ==
  \A e \in Ends :
    /\ WF_vars((Expiring(e) /\ Never) \/ TimerStep(e))
    /\ WF_vars((Arriving(e) /\ Never) \/ \E s \in net[e] : Deliver(e, s))
FairSpec == Spec /\ Fairness

-----------------------------------------------------------------------------
(* Properties *)

TypeOK ==
  /\ conn \in [Ends -> Conn]
  /\ net \in [Ends -> SUBSET Segment]
  /\ up \in [Ends -> BOOLEAN]
  /\ opens \in [Ends -> Nat]
  /\ lost \in Nat /\ dups \in Nat /\ crashes \in Nat

\* e took its peer's ISS from the present incarnation of the peer's connection
Paired(e) == conn[e].irs # 0 /\ conn[e].irs = conn[Peer(e)].iss
Finished(e) == conn[e].app.aborted \/ conn[e].app.error # "NONE"

\* No handler reaches a throw or an ASSERT (createSegmentWithBytes, discardUpTo,
\* retransmitOneSegment, "Internal error" of a timer in a state that has no use for it).
NoInternalError == \A e \in Ends : conn[e].failed = {}

\* A command that passes the guards of TCPSocket is refused with a throw only to an application
\* that has called close() on this socket before, whatever segments and timers come between
\* what the application was told and what it does.
CommandsAreLegal ==
  [][\A e \in Ends : "command" \in conn'[e].failed => conn[e].app.closed]_vars

\* TCPSocket.cc:189: the guard of close() stands for "not connected or close() already called",
\* so that a command which passes it, or that of send(), meets a connection that accepts it.
SocketRefusesFirst == \A e \in Ends : "command" \notin conn[e].failed

\* What a state of the connection means for the socket, which application and TCP keep apart
\* and which the next command is judged by: until close() each value of the socket that
\* admits a command belongs to the states that accept it, and a FIN waits to be sent only
\* behind a close().
SocketMatchesState == \A e \in Ends : SocketMatches(conn[e])

\* What is acknowledged has been sent and what is sent is in the send queue, except for the
\* SYN and one FIN: until the handshake is over the SYN is all there is, and retransmission
\* never goes beyond what was sent or runs where nothing was.
NothingSentUnqueued == \A e \in Ends : SentIsQueued(conn[e])

\* Whatever was lost, repeated or reordered, an application is handed no more units than
\* its peer's application wrote into the same connection.
NothingInvented == \A e \in Ends : Paired(e) => conn[e].app.got <= conn[Peer(e)].app.wrote

\* What a sender drops from its queue as acknowledged is in the hands of the peer's
\* application: an ACK is never ahead of the data it stands for.
AckedIsDelivered ==
  \A e \in Ends :
    Paired(Peer(e)) =>
      Lesser(conn[e].snd_una, conn[e].q_end) - conn[e].iss - 1 <= conn[Peer(e)].app.got

\* TIME_WAIT is reached only when both streams have been delivered to the end.
TimeWaitIsComplete ==
  \A e \in Ends :
    conn[e].fsm = "TIME_WAIT" /\ Paired(e) /\ Paired(Peer(e)) =>
      /\ conn[e].app.got = conn[Peer(e)].app.wrote
      /\ conn[Peer(e)].app.got = conn[e].app.wrote

\* Two ends past the handshake are past the same handshake, old duplicates and rebooted
\* hosts notwithstanding, and each has told its application so once.
HandshakeAgreement ==
  /\ (\A e \in Ends : conn[e].fsm \in Synchronized) => \A e \in Ends : Paired(e)
  /\ \A e \in Ends : conn[e].app.estab <= 1

\* The handshake is timed from its first segment to its last, by the retransmission of the
\* SYN and by CONN-ESTAB, and neither timer survives it to throw in a later state.
HandshakeIsTimed == \A e \in Ends : HandshakeTimed(conn[e])

\* Data and FINs on the wire come from the send queue, the FIN after the last unit of it,
\* also when they are retransmitted after more has been queued or acknowledged.
SegmentsMatchQueue ==
  \A e \in Ends : \A s \in net[Peer(e)] :
    LET c == conn[e]
    IN /\ c.fsm \in Synchronized /\ s.seq > c.iss
       /\ s.len = 1 \/ "FIN" \in s.flags
       => /\ s.seq + s.len <= c.q_end
          /\ "FIN" \in s.flags => c.app.closed /\ s.seq + s.len = c.q_end

\* An established connection is reset only when its peer has aborted or given up, be it
\* with TIMED_OUT, with a reset of its own or by going back from SYN_RCVD to LISTEN.
NoSpuriousReset ==
  \A e \in Ends :
    conn[e].app.error = "CONNECTION_RESET" /\ conn[e].app.estab > 0 =>
      Finished(Peer(e)) \/ conn[Peer(e)].fsm = "LISTEN"

\* While a connection lives, what it has acknowledged and what it knows to be acknowledged
\* are never taken back, and neither is anything it has sent or was given to send.
Keeps(c, d) ==
  c.iss = d.iss /\ c.fsm \in Synchronized /\ d.fsm # "CLOSED" =>
    c.rcv_nxt <= d.rcv_nxt /\ c.snd_una <= d.snd_una /\ c.snd_max <= d.snd_max /\ c.q_end <= d.q_end
NothingIsRetracted == [][\A e \in Ends : Keeps(conn[e], conn'[e])]_vars

\* A pure ACK of something outstanding is taken into account when it arrives, wherever
\* retransmission has put snd_nxt.
NewAckIsAccepted ==
  [][\A e \in Ends : \A s \in net[e] :
       LET c == conn[e]
       IN /\ Deliver(e, s)
          /\ c.fsm \in Synchronized \ {"TIME_WAIT"} /\ s.flags = {"ACK"} /\ s.len = 0
          /\ c.snd_una < s.ack /\ s.ack <= c.snd_max
          => conn'[e].snd_una = s.ack \/ conn'[e].fsm = "CLOSED"]_vars

\* TCPConnection.h: in FIN-WAIT-1 and FIN-WAIT-2 the peer's FIN is still to come.
PeerFinIsAwaited ==
  \A e \in Ends :
    LET p == conn[Peer(e)]
    IN /\ conn[e].fsm \in {"FIN_WAIT_1", "FIN_WAIT_2"} /\ Paired(e)
       /\ p.fsm \in Synchronized /\ p.send_fin
       => conn[e].rcv_nxt <= p.snd_fin_seq

\* Once both applications have closed an established connection, both ends reach CLOSED.
BothCloseBothEnd ==
  (\A e \in Ends : conn[e].app.closed) ~> (\A e \in Ends : conn[e].fsm = "CLOSED")

\* Every unit written to a connection is delivered, unless an end is told of a failure.
WrittenIsDelivered ==
  \A e \in Ends : \A n \in 1 .. Quota[e] :
    conn[e].app.wrote = n ~> (conn[Peer(e)].app.got >= n \/ \E f \in Ends : Finished(f))

-----------------------------------------------------------------------------
(* The promise of TCPService, for the first connection of two hosts that do not crash *)

Service == INSTANCE TCPService WITH
  wrote  <- [e \in Ends |-> conn[e].app.wrote],
  closed <- [e \in Ends |-> conn[e].app.closed],
  open   <- [e \in Ends |-> conn[e].app.estab > 0],
  got    <- [e \in Ends |-> conn[e].app.got],
  eof    <- [e \in Ends |-> conn[e].app.peer_closed],
  over   <- [e \in Ends |-> conn[e].fsm \in {"TIME_WAIT", "CLOSED"}]

\* Each step of the two hosts and the network is a step of the byte pipe, or none of its
\* business.
ImplementsService == Service!Spec
=============================================================================
