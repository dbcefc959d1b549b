-------------------------- MODULE TCPHandlerProofs --------------------------
(***************************************************************************)
(* Every handler of TCPConnection.tla, run on a connection that is well    *)
(* between two events, leaves one that is ready for the state machine and  *)
(* takes nothing back, whatever the timer or the command.  Before that,    *)
(* what the operators they are made of return, what they leave alone and   *)
(* what they only move forward.                                            *)
(***************************************************************************)
EXTENDS TCPConnection, FiniteSetTheorems, TLAPS

\* A handler that came from c to d has only moved forward in the streams, and has touched
\* neither the state machine nor the timers of the handshake.
Progress(c, d) ==
  /\ d.fsm = c.fsm /\ d.active = c.active /\ d.send_fin = c.send_fin /\ d.iss = c.iss
  /\ d.timers \cap HandshakeTimers = c.timers \cap HandshakeTimers
  /\ c.rcv_nxt <= d.rcv_nxt /\ c.snd_una <= d.snd_una
  /\ c.snd_max <= d.snd_max /\ c.q_end <= d.q_end
  /\ SentInOrder(c) => SentInOrder(d)
  /\ "command" \in d.failed => "command" \in c.failed

\* ... and has neither told the application nor raised an event.
Quiet(c, d) == d \in Conn /\ Progress(c, d) /\ d.app = c.app /\ d.event = c.event

-----------------------------------------------------------------------------
(* Events, indications and control segments *)

\* Raising an event keeps the type of a connection.
LEMMA RaiseType ==
  ASSUME NEW c \in Conn, NEW ev \in Events
  PROVE  Raise(c, ev) \in Conn
BY DEF Raise, Conn

\* Two quiet steps are a quiet step.
LEMMA QuietTransitive ==
  ASSUME NEW c \in Conn, NEW d, NEW f, Quiet(c, d), Quiet(d, f)
  PROVE  Quiet(c, f)
BY DEF Quiet, Progress, SentInOrder, Conn

\* Sending a segment is quiet.
LEMMA EmitQuiet ==
  ASSUME NEW c \in Conn, NEW s \in Segment
  PROVE  Quiet(c, Emit(c, s))
<1>1. Emit(c, s) \in Conn
  BY DEF Emit, Conn
<1> QED
  BY <1>1 DEF Emit, Conn, Quiet, Progress, SentInOrder

\* The four fields make a segment.
LEMMA SegType ==
  ASSUME NEW flags \in SUBSET Flags, NEW seq \in Nat, NEW ack \in Nat, NEW len \in {0, 1}
  PROVE  Seg(flags, seq, ack, len) \in Segment
BY DEF Seg, Segment

\* Sending an ACK is quiet.
LEMMA SendAckQuiet ==
  ASSUME NEW c \in Conn
  PROVE  Quiet(c, SendAck(c))
<1>1. Seg({"ACK"}, c.snd_nxt, c.rcv_nxt, 0) \in Segment
  BY SegType DEF Conn, Flags
<1> QED
  BY <1>1, EmitQuiet DEF SendAck

\* Sending a RST is quiet.
LEMMA SendRstQuiet ==
  ASSUME NEW c \in Conn, NEW seq \in Nat
  PROVE  Quiet(c, SendRst(c, seq))
<1>1. Seg({"RST"}, seq, 0, 0) \in Segment
  BY SegType DEF Conn, Flags
<1> QED
  BY <1>1, EmitQuiet DEF SendRst

\* Sending a FIN is quiet.
LEMMA SendFinQuiet ==
  ASSUME NEW c \in Conn
  PROVE  Quiet(c, SendFin(c))
<1>1. Seg({"ACK", "FIN"}, c.snd_nxt, c.rcv_nxt, 0) \in Segment
  BY SegType DEF Conn, Flags
<1> QED
  BY <1>1, EmitQuiet DEF SendFin

\* Starting a timer other than those of the handshake is quiet.
LEMMA StartTimerQuiet ==
  ASSUME NEW c \in Conn, NEW t \in Timers, t \notin HandshakeTimers
  PROVE  Quiet(c, StartTimer(c, t))
<1>1. StartTimer(c, t) \in Conn
  BY DEF StartTimer, Conn
<1> QED
  BY <1>1 DEF StartTimer, Conn, Quiet, Progress, SentInOrder

\* Starting the REXMIT timer is quiet.
LEMMA StartRexmitTimerQuiet ==
  ASSUME NEW c \in Conn
  PROVE  Quiet(c, StartRexmitTimer(c))
<1>1. Quiet(c, StartTimer(c, "rexmit"))
  BY StartTimerQuiet DEF Timers, HandshakeTimers
<1>2. StartTimer(c, "rexmit") \in Conn
  BY <1>1 DEF Quiet
<1>3. Quiet(StartTimer(c, "rexmit"), StartRexmitTimer(c))
  <2> DEFINE d == StartTimer(c, "rexmit")
  <2> HIDE DEF d
  <2>1. ASSUME d \in Conn PROVE Quiet(d, [d EXCEPT !.rexmit_count = 0])
    BY <2>1 DEF Conn, Quiet, Progress, SentInOrder
  <2> QED
    BY <1>2, <2>1 DEF StartRexmitTimer, d
<1> QED
  BY <1>1, <1>3, QuietTransitive

\* Changing what no other handler's guard depends on is quiet.
LEMMA CheckQuiet ==
  ASSUME NEW c \in Conn, NEW assertion \in BOOLEAN
  PROVE  Quiet(c, Check(c, assertion))
<1>1. Fail(c, "queue") \in Conn
  BY DEF Fail, Conn, Failures
<1> QED
  BY <1>1 DEF Check, Fail, Conn, Quiet, Progress, SentInOrder

\* Dropping from the send queue what has been acknowledged is quiet.
LEMMA DiscardUpToQuiet ==
  ASSUME NEW c \in Conn, NEW seq \in Nat
  PROVE  Quiet(c, DiscardUpTo(c, seq))
<1> DEFINE d == [c EXCEPT !.q_begin = seq]
<1>1. Quiet(c, d)
  BY DEF Conn, Quiet, Progress, SentInOrder
<1>2. Quiet(d, Check(d, c.q_begin <= seq /\ seq <= c.q_end))
  BY <1>1, CheckQuiet DEF Quiet
<1> QED
  BY <1>1, <1>2, QuietTransitive DEF DiscardUpTo

-----------------------------------------------------------------------------
(* Sending data *)

\* n units from snd_nxt, and perhaps the FIN with them, move snd_nxt by n or n + 1.
LEMMA SendSegmentsQuiet ==
  ASSUME NEW c \in Conn, NEW n \in Nat
  PROVE  /\ Quiet(c, SendSegments(c, n))
         /\ SendSegments(c, n).snd_nxt \in {c.snd_nxt + n, c.snd_nxt + n + 1}
         /\ SendSegments(c, n).snd_max = c.snd_max
         /\ SendSegments(c, n).timers = c.timers
<1> DEFINE to == c.snd_nxt + n
           fin == c.send_fin /\ c.snd_nxt < c.snd_fin_seq /\ c.snd_fin_seq <= to
           last == IF fin /\ c.snd_fin_seq < to THEN to + 1 ELSE to
           nxt == IF fin THEN to + 1 ELSE to
           Unit(s) == IF fin /\ s + 1 = c.snd_fin_seq
                      THEN Seg({"ACK", "FIN"}, s, c.rcv_nxt, 1)
                      ELSE Seg({"ACK"}, IF fin /\ s >= c.snd_fin_seq THEN s + 1 ELSE s,
                               c.rcv_nxt, 1)
           units == {Unit(s) : s \in c.snd_nxt .. to - 1}
           d == [c EXCEPT !.snd_nxt = nxt, !.out = @ \cup units]
           ok == c.q_begin <= c.snd_nxt /\ last <= c.q_end
<1>1. nxt \in Nat /\ nxt \in {to, to + 1}
  BY DEF Conn
<1>2. units \subseteq Segment
  <2>1. ASSUME NEW s \in c.snd_nxt .. to - 1 PROVE Unit(s) \in Segment
    <3>1. s \in Nat /\ s + 1 \in Nat
      BY DEF Conn
    <3>2. (IF fin /\ s >= c.snd_fin_seq THEN s + 1 ELSE s) \in Nat
      BY <3>1
    <3> QED
      BY <3>1, <3>2 DEF Conn, Seg, Segment, Flags
  <2> QED
    BY <2>1
<1> HIDE DEF nxt, units
<1>3. Quiet(c, d) /\ d.snd_nxt = nxt /\ d.snd_max = c.snd_max /\ d.timers = c.timers
  <2>1. nxt \in Nat /\ c.out \cup units \in SUBSET Segment
    BY <1>1, <1>2 DEF Conn
  <2>2. d \in Conn
    BY <2>1 DEF Conn
  <2> QED
    BY <2>2 DEF Conn, Quiet, Progress, SentInOrder
<1>4. Quiet(d, Check(d, ok))
  BY <1>3, CheckQuiet DEF Quiet
<1>5. /\ Check(d, ok).snd_nxt = nxt /\ Check(d, ok).snd_max = d.snd_max
      /\ Check(d, ok).timers = d.timers
  BY <1>3 DEF Check, Fail, Conn, Quiet
<1>6. SendSegments(c, n) = Check(d, ok)
  BY DEF SendSegments, nxt, units
<1> QED
  BY <1>1, <1>3, <1>4, <1>5, <1>6, QuietTransitive

\* New data goes no further than the send queue.
LEMMA SendableBound ==
  ASSUME NEW c \in Conn
  PROVE  /\ Sendable(c) \in Int
         /\ Sendable(c) > 0 => c.snd_max + Sendable(c) <= c.q_end
<1>1. BytesAvailable(c, c.snd_max) \in Nat
  BY DEF BytesAvailable, Conn
<1>2. BytesAvailable(c, c.snd_max) > 0 => c.snd_max + BytesAvailable(c, c.snd_max) = c.q_end
  BY DEF BytesAvailable, Conn
<1>3. Lesser(Wnd, c.snd_cwnd) \in Int
  BY ConnectionAssumption DEF Lesser, Conn
<1>4. Lesser(Wnd, c.snd_cwnd) - (c.snd_max - c.snd_una) \in Int /\ c.snd_max \in Nat /\ c.q_end \in Nat
  BY <1>3 DEF Conn
<1> QED
  BY <1>1, <1>2, <1>4 DEF Sendable, Lesser

\* Sending new data is quiet: snd_max moves forward, and not beyond the FIN.
LEMMA SendDataQuiet ==
  ASSUME NEW c \in Conn
  PROVE  Quiet(c, SendData(c))
<1> DEFINE n == Sendable(c)
           c1 == [c EXCEPT !.snd_nxt = c.snd_max]
           c2 == SendSegments(c1, n)
           max == Greater(c.snd_max, c2.snd_nxt)
           c3 == [c2 EXCEPT !.snd_max = max]
<1>1. Quiet(c, c1) /\ c1 \in Conn
  BY DEF Conn, Quiet, Progress, SentInOrder
<1>2. CASE n <= 0
  BY <1>1, <1>2 DEF SendData
<1>3. CASE ~(n <= 0)
  <2>1. n \in Nat /\ n > 0 /\ c.snd_max + n <= c.q_end
    BY <1>3, SendableBound
  <2>2. /\ Quiet(c1, c2) /\ c2 \in Conn
        /\ c2.snd_nxt \in {c.snd_max + n, c.snd_max + n + 1}
        /\ c2.snd_max = c.snd_max
    <3>1. c1.snd_nxt = c.snd_max /\ c1.snd_max = c.snd_max
      BY DEF Conn
    <3> QED
      BY <1>1, <2>1, <3>1, SendSegmentsQuiet DEF Quiet
  <2>3. Quiet(c, c2)
    BY <1>1, <2>2, QuietTransitive
  <2> HIDE DEF c1, c2, n
  <2>4. max \in Nat /\ c.snd_max <= max /\ max <= c.q_end + 1
    BY <2>1, <2>2 DEF Greater, Conn
  <2>5. c3 \in Conn
    BY <2>2, <2>4 DEF Conn
  <2>6. Quiet(c, c3)
    <3>1. /\ c2.q_end \in Nat /\ c.q_end \in Nat /\ c.q_end <= c2.q_end
          /\ c.snd_max \in Nat /\ c2.snd_una \in Nat
          /\ SentInOrder(c) => c2.snd_una <= c.snd_max
      BY <2>2, <2>3 DEF Quiet, Progress, SentInOrder, Conn
    <3>2. /\ c.snd_max <= max /\ max <= c2.q_end + 1
          /\ SentInOrder(c) => c2.snd_una <= max
      BY <2>4, <3>1
    <3>3. c3.snd_max = max /\ c3.q_end = c2.q_end
      BY <2>2 DEF Conn
    <3>4. /\ c3.fsm = c2.fsm /\ c3.active = c2.active /\ c3.send_fin = c2.send_fin
          /\ c3.iss = c2.iss /\ c3.timers = c2.timers /\ c3.rcv_nxt = c2.rcv_nxt
          /\ c3.snd_una = c2.snd_una /\ c3.failed = c2.failed /\ c3.app = c2.app
          /\ c3.event = c2.event
      BY <2>2 DEF Conn
    <3> HIDE DEF c3, max
    <3> QED
      BY <2>3, <2>5, <3>2, <3>3, <3>4 DEF Quiet, Progress, SentInOrder
  <2>7. Quiet(c3, StartRexmitTimer(c3))
    BY <2>5, StartRexmitTimerQuiet
  <2>8. Quiet(c, StartRexmitTimer(c3))
    BY <2>6, <2>7, QuietTransitive
  <2> QED
    BY <1>3, <2>6, <2>8 DEF SendData, n, c1, c2
<1> QED
  BY <1>2, <1>3

\* TCPBaseAlg::established() is quiet.
LEMMA EstablishedQuiet ==
  ASSUME NEW c \in Conn, NEW active \in BOOLEAN
  PROVE  Quiet(c, Established(c, active))
<1> DEFINE cwnd == IF c.syn_rexmit_count = 0 THEN InitialWindow ELSE 1
           c1 == [c EXCEPT !.snd_cwnd = cwnd]
<1>1. cwnd \in Nat
  BY ConnectionAssumption
<1>2. Quiet(c, c1) /\ c1 \in Conn
  <2> HIDE DEF cwnd
  <2>1. c1 \in Conn
    BY <1>1 DEF Conn
  <2> QED
    BY <2>1 DEF Conn, Quiet, Progress, SentInOrder
<1> HIDE DEF c1
<1>3. Quiet(c, SendData(c1)) /\ SendData(c1) \in Conn
  BY <1>2, SendDataQuiet, QuietTransitive DEF Quiet
<1>4. Quiet(c, SendAck(SendData(c1)))
  BY <1>3, SendAckQuiet, QuietTransitive
<1> QED
  BY <1>2, <1>3, <1>4 DEF Established, c1

\* receivedDataAck() is quiet.
LEMMA ReceivedDataAckQuiet ==
  ASSUME NEW c \in Conn
  PROVE  Quiet(c, ReceivedDataAck(c))
<1> DEFINE stopped == [c EXCEPT !.timers = @ \ {"rexmit"}]
<1>1. Quiet(c, stopped)
  <2>1. stopped \in Conn
    BY DEF Conn
  <2>2. stopped.timers \cap HandshakeTimers = c.timers \cap HandshakeTimers
    BY DEF Conn, HandshakeTimers
  <2> QED
    BY <2>1, <2>2 DEF Conn, Quiet, Progress, SentInOrder
<1>2. Quiet(c, StartRexmitTimer(c))
  BY StartRexmitTimerQuiet
<1> DEFINE d == IF c.snd_una = c.snd_max THEN stopped ELSE StartRexmitTimer(c)
<1> HIDE DEF stopped
<1>3. Quiet(c, d) /\ d \in Conn
  BY <1>1, <1>2 DEF Quiet
<1> HIDE DEF d
<1>4. Quiet(c, SendData(d))
  BY <1>3, SendDataQuiet, QuietTransitive
<1> QED
  BY <1>4 DEF ReceivedDataAck, d, stopped

\* The FIN that is retransmitted alone is the last thing ever sent.
LEMMA RetransmitOneSegmentQuiet ==
  ASSUME NEW c \in Conn, SentInOrder(c)
  PROVE  Quiet(c, RetransmitOneSegment(c))
<1> DEFINE c1 == [c EXCEPT !.snd_nxt = c.snd_una]
           bytes == Lesser(Lesser(1, c.snd_max - c.snd_una), BytesAvailable(c, c.snd_una))
           b == [c1 EXCEPT !.snd_nxt = c.q_end]
           c2 == SendFin(b)
           c3 == [c2 EXCEPT !.snd_nxt = c.q_end + 1, !.snd_max = c.q_end + 1]
<1>1. Quiet(c, c1) /\ c1 \in Conn
  BY DEF Conn, Quiet, Progress, SentInOrder
<1>2. Quiet(c, b) /\ b \in Conn /\ b.q_end = c.q_end
  <2>1. c1.q_end = c.q_end /\ c.q_end \in Nat
    BY DEF Conn
  <2> HIDE DEF c1
  <2>2. Quiet(c1, b) /\ b \in Conn /\ b.q_end = c.q_end
    BY <1>1, <2>1 DEF Conn, Quiet, Progress, SentInOrder
  <2> QED
    BY <1>1, <2>2, QuietTransitive
<1>3. Quiet(c, c2) /\ c2 \in Conn /\ c2.q_end = c.q_end
  <2> HIDE DEF b
  <2>1. Quiet(c, c2) /\ c2 \in Conn
    BY <1>2, SendFinQuiet, QuietTransitive DEF Quiet
  <2>2. c2.q_end = c.q_end
    BY <1>2 DEF SendFin, Emit, Conn
  <2> QED
    BY <2>1, <2>2
<1> HIDE DEF c2
<1>4. Quiet(c, c3)
  <2>1. /\ c.q_end + 1 \in Nat /\ c.snd_max <= c.q_end + 1
        /\ c2.snd_una <= c.q_end + 1
    BY <1>3 DEF Conn, Quiet, Progress, SentInOrder
  <2>2. c3 \in Conn
    BY <1>3, <2>1 DEF Conn
  <2>3. /\ c3.fsm = c2.fsm /\ c3.active = c2.active /\ c3.send_fin = c2.send_fin
        /\ c3.iss = c2.iss /\ c3.timers = c2.timers /\ c3.rcv_nxt = c2.rcv_nxt
        /\ c3.snd_una = c2.snd_una /\ c3.failed = c2.failed /\ c3.app = c2.app
        /\ c3.event = c2.event /\ c3.q_end = c.q_end /\ c3.snd_max = c.q_end + 1
    BY <1>3 DEF Conn
  <2> HIDE DEF c3
  <2> QED
    BY <1>3, <2>1, <2>2, <2>3 DEF Quiet, Progress, SentInOrder
<1>5. Quiet(c, Fail(c1, "queue"))
  <2> HIDE DEF c1
  <2>1. Quiet(c1, Fail(c1, "queue"))
    BY <1>1, CheckQuiet DEF Check
  <2> QED
    BY <1>1, <2>1, QuietTransitive
<1>6. bytes \in Nat
  BY DEF Lesser, BytesAvailable, SentInOrder, Conn
<1>7. Quiet(c, SendSegments(c1, bytes))
  <2> HIDE DEF c1, bytes
  <2> QED
    BY <1>1, <1>6, SendSegmentsQuiet, QuietTransitive
<1> QED
  BY <1>4, <1>5, <1>7 DEF RetransmitOneSegment, c2

-----------------------------------------------------------------------------
(* Telling the application *)

\* What the application may be told in passing
Indications == Errors \cup {"ESTABLISHED", "PEER_CLOSED", "CLOSED"}

\* What an indication makes of the socket.
LEMMA ToldType ==
  ASSUME NEW a \in App, NEW k \in Indications
  PROVE  /\ Told(a, k) \in App
         /\ Told(a, k).closed = a.closed
         /\ k = "ESTABLISHED" => Told(a, k).sock = "CONNECTED"
         /\ k = "PEER_CLOSED" => Told(a, k).sock = "PEER_CLOSED"
         /\ k = "CLOSED" => Told(a, k).sock = "CLOSED"
         /\ k \in Errors => Told(a, k).sock = "SOCKERROR"
<1> DEFINE sock == CASE k = "ESTABLISHED" -> "CONNECTED"
                     [] k = "PEER_CLOSED" -> "PEER_CLOSED"
                     [] k = "CLOSED"      -> "CLOSED"
                     [] k \in Errors      -> "SOCKERROR"
           estab == IF k = "ESTABLISHED" THEN a.estab + 1 ELSE a.estab
           peer_closed == a.peer_closed \/ k = "PEER_CLOSED"
           error == IF k \in Errors THEN k ELSE a.error
<1>1. /\ sock \in SockStates
      /\ k = "ESTABLISHED" => sock = "CONNECTED"
      /\ k = "PEER_CLOSED" => sock = "PEER_CLOSED"
      /\ k = "CLOSED" => sock = "CLOSED"
      /\ k \in Errors => sock = "SOCKERROR"
  BY DEF Errors, SockStates, Indications
<1>2. estab \in Nat /\ error \in Errors
  BY DEF App
<1>3. peer_closed \in BOOLEAN
  BY DEF App
<1>4. Told(a, k) = [a EXCEPT !.sock = sock, !.estab = estab, !.peer_closed = peer_closed,
                             !.error = error]
  BY DEF Told
<1> HIDE DEF sock, estab, peer_closed, error
<1> QED
  BY <1>1, <1>2, <1>3, <1>4 DEF App

\* Telling the application keeps the type of a connection.
LEMMA IndicateType ==
  ASSUME NEW c \in Conn, NEW k \in Indications
  PROVE  Indicate(c, k) \in Conn /\ Indicate(c, k).app = Told(c.app, k)
<1>1. Told(c.app, k) \in App
  BY ToldType DEF Conn
<1> QED
  BY <1>1 DEF Indicate, Conn

-----------------------------------------------------------------------------
(* The state machine *)

\* The table of performStateTransition() names states.
LEMMA NextStateType ==
  ASSUME NEW c \in Conn
  PROVE  NextState(c) \in States
BY SMTT(60) DEF NextState, Transitions, Conn, States

\* What a handler owes the state machine: the timers of the handshake run if and only if
\* they should in the next state, the socket fits the next state, and so do the queue
\* and the REXMIT timer.
Leaves(d) == NextState(d) # d.fsm
ReadyTimers(d) ==
  /\ NextState(d) \in Embryonic => HandshakeTimers \subseteq d.timers
  /\ NextState(d) \notin Embryonic /\ (~Leaves(d) \/ NextState(d) = "TIME_WAIT") =>
       HandshakeTimers \cap d.timers = {}
ReadySocket(d) ==
  /\ d.send_fin => d.app.closed
  /\ \/ d.app.closed
     \/ Leaves(d) /\ NextState(d) \in {"CLOSE_WAIT", "TIME_WAIT"}
     \/ Leaves(d) /\ NextState(d) = "CLOSED" /\ d.fsm # "TIME_WAIT" /\ d.event # "ABORT"
     \/ SocketFits(d.app.sock, NextState(d), d.active)
ReadyQueue(d) ==
  /\ NextState(d) \in Embryonic \cup Synchronized => SentInOrder(d)
  /\ NextState(d) \in Embryonic => d.snd_max = d.iss + 1
  /\ NextState(d) = "SYN_SENT" => d.snd_nxt = d.snd_max
  /\ "rexmit" \in d.timers =>
       NextState(d) \in Synchronized \/ (Leaves(d) /\ NextState(d) = "CLOSED")
Ready(d) == ReadyTimers(d) /\ ReadySocket(d) /\ ReadyQueue(d)

\* What holds of a connection between two events.
ConnInv(c) ==
  /\ c.event = "IGNORE" /\ c.out = {}
  /\ HandshakeTimed(c) /\ SocketMatches(c) /\ SentIsQueued(c)

\* The record a removed connection leaves behind.
LEMMA RemovedType ==
  ASSUME NEW c \in Conn
  PROVE  /\ Removed(c) \in Conn
         /\ Removed(c).fsm = "CLOSED" /\ Removed(c).event = "IGNORE"
         /\ Removed(c).timers = {} /\ Removed(c).app = c.app
         /\ Removed(c).failed = c.failed /\ Removed(c).send_fin = FALSE
         /\ Removed(c).active = FALSE
<1>1. FreshConn \in Conn
  BY ConnectionAssumption DEF FreshConn, Conn, FreshApp, App, States, SockStates, Errors, Events
<1>2. /\ FreshConn.fsm = "INIT" /\ FreshConn.event = "IGNORE"
      /\ FreshConn.timers = {} /\ FreshConn.send_fin = FALSE /\ FreshConn.active = FALSE
  BY DEF FreshConn
<1> QED
  BY <1>1, <1>2 DEF Removed, Conn, States

\* Nothing is done for the absence of an event.
LEMMA IgnoreStays ==
  ASSUME NEW c \in Conn, c.event = "IGNORE"
  PROVE  NextState(c) = c.fsm
BY SMTT(30) DEF NextState, Transitions, Conn, States

\* The streams of a connection, which the state machine never touches.
SameStreams(c, d) ==
  /\ d.iss = c.iss /\ d.rcv_nxt = c.rcv_nxt /\ d.snd_una = c.snd_una
  /\ d.snd_nxt = c.snd_nxt /\ d.snd_max = c.snd_max /\ d.q_end = c.q_end

\* stateEntered(), state by state: what it makes of c when the next state is n.
Entered(c, n, r) ==
  /\ r \in Conn /\ r.event = "IGNORE" /\ r.fsm = n /\ r.failed = c.failed
  /\ n # "CLOSED" => /\ SameStreams(c, r)
                     /\ r.active = c.active /\ r.send_fin = c.send_fin
                     /\ r.timers = IF n \in Embryonic \cup {"TIME_WAIT"} THEN c.timers
                                   ELSE c.timers \ HandshakeTimers
                     /\ r.app = IF n = "CLOSE_WAIT" THEN Told(c.app, "PEER_CLOSED")
                                ELSE IF n = "TIME_WAIT" THEN Told(c.app, "CLOSED")
                                ELSE c.app
  /\ n = "CLOSED" => /\ r.timers = {} /\ r.send_fin = FALSE
                     /\ r.app = IF c.fsm # "TIME_WAIT" /\ c.event # "ABORT"
                                THEN Told(c.app, "CLOSED") ELSE c.app

\* stateEntered() is what Entered() says.
LEMMA StateEnteredFacts ==
  ASSUME NEW c \in Conn, NEW n \in States
  PROVE  Entered(c, n, StateEntered(c, n))
<1> DEFINE r == StateEntered(c, n)
<1> DEFINE c1 == [c EXCEPT !.fsm = n, !.event = "IGNORE"]
           left == c1.timers \ {"connEstab", "synRexmit"}
           c2 == [c1 EXCEPT !.timers = left]
<1>1. "IGNORE" \in Events
  BY DEF Events
<1>2. /\ c1 \in Conn /\ c1.event = "IGNORE" /\ c1.fsm = n /\ c1.failed = c.failed
      /\ SameStreams(c, c1) /\ c1.active = c.active /\ c1.send_fin = c.send_fin
      /\ c1.timers = c.timers /\ c1.app = c.app
  <2>1. c1 \in Conn
    BY <1>1 DEF Conn
  <2> QED
    BY <2>1 DEF Conn, SameStreams
<1> HIDE DEF c1
<1>3. /\ c2 \in Conn /\ c2.event = "IGNORE" /\ c2.fsm = n /\ c2.failed = c.failed
      /\ SameStreams(c, c2) /\ c2.active = c.active /\ c2.send_fin = c.send_fin
      /\ c2.timers = c.timers \ HandshakeTimers /\ c2.app = c.app
  <2>1. left \in SUBSET Timers /\ left = c.timers \ HandshakeTimers
    BY <1>2 DEF Conn, HandshakeTimers
  <2> HIDE DEF left
  <2>2. c2 \in Conn
    BY <1>2, <2>1 DEF Conn
  <2> QED
    BY <1>2, <2>1, <2>2 DEF Conn, SameStreams
<1> HIDE DEF c2
<1>4. ASSUME NEW d \in Conn, NEW k \in Indications
      PROVE  /\ Indicate(d, k) \in Conn /\ Indicate(d, k).event = d.event
             /\ Indicate(d, k).fsm = d.fsm /\ Indicate(d, k).failed = d.failed
             /\ SameStreams(d, Indicate(d, k)) /\ Indicate(d, k).active = d.active
             /\ Indicate(d, k).send_fin = d.send_fin /\ Indicate(d, k).timers = d.timers
             /\ Indicate(d, k).app = Told(d.app, k)
  <2>1. Indicate(d, k) \in Conn /\ Indicate(d, k).app = Told(d.app, k)
    BY IndicateType
  <2> QED
    BY <2>1 DEF Indicate, Conn, SameStreams
<1>5. CASE n \in Embryonic
  <2>1. r = c1 /\ n # "CLOSED" /\ n # "CLOSE_WAIT" /\ n # "TIME_WAIT"
    BY <1>5 DEF StateEntered, Embryonic, c1
  <2> QED
    BY <1>2, <1>5, <2>1 DEF Entered
<1>6. CASE n = "CLOSE_WAIT"
  <2>1. r = Indicate(c2, "PEER_CLOSED") /\ n \notin Embryonic
    BY <1>6 DEF StateEntered, Embryonic, c1, c2
  <2> QED
    BY <1>3, <1>4, <1>6, <2>1 DEF Entered, Indications, SameStreams
<1>7. CASE n = "TIME_WAIT"
  <2>1. r = Indicate(c1, "CLOSED") /\ n \notin Embryonic
    BY <1>7 DEF StateEntered, Embryonic, c1
  <2> QED
    BY <1>2, <1>4, <1>7, <2>1 DEF Entered, Indications, SameStreams
<1>8. CASE n = "CLOSED"
  <2> DEFINE d == IF c.fsm # "TIME_WAIT" /\ c.event # "ABORT" THEN Indicate(c, "CLOSED") ELSE c
  <2>1. r = Removed(d)
    BY <1>8 DEF StateEntered, Embryonic
  <2>2. /\ d \in Conn /\ d.failed = c.failed
        /\ d.app = IF c.fsm # "TIME_WAIT" /\ c.event # "ABORT" THEN Told(c.app, "CLOSED")
                   ELSE c.app
    BY <1>4 DEF Indications
  <2> HIDE DEF d
  <2> QED
    BY <1>8, <2>1, <2>2, RemovedType DEF Entered
<1>9. CASE n \notin Embryonic \cup {"CLOSE_WAIT", "TIME_WAIT", "CLOSED"}
  <2>1. r = c2
    BY <1>9 DEF StateEntered, Embryonic, c1, c2
  <2> QED
    BY <1>3, <1>9, <2>1 DEF Entered
<1> QED
  BY <1>5, <1>6, <1>7, <1>8, <1>9

\* A handler that leaves things ready for the state machine leaves the connection well,
\* once the state machine has run and the segments are on their way.
LEMMA TransitionInv ==
  ASSUME NEW d \in Conn, Ready(d), NEW r, r = PerformStateTransition(d)
  PROVE  /\ r \in Conn
         /\ [r EXCEPT !.out = {}] \in Conn
         /\ ConnInv([r EXCEPT !.out = {}])
         /\ [r EXCEPT !.out = {}].failed = d.failed
         /\ [r EXCEPT !.out = {}].fsm # "CLOSED" => SameStreams(d, [r EXCEPT !.out = {}])
<1> DEFINE q == [r EXCEPT !.out = {}]
           n == NextState(d)
<1>1. n \in States
  BY NextStateType
<1>2. d.event = "IGNORE" => ~Leaves(d)
  BY IgnoreStays DEF Leaves
<1>3. ASSUME r \in Conn
      PROVE  /\ q \in Conn /\ q.out = {} /\ q.event = r.event /\ q.fsm = r.fsm
             /\ q.failed = r.failed /\ SameStreams(r, q) /\ q.active = r.active
             /\ q.send_fin = r.send_fin /\ q.timers = r.timers /\ q.app = r.app
  <2>1. q \in Conn
    BY <1>3 DEF Conn
  <2> QED
    BY <1>3, <2>1 DEF Conn, SameStreams
<1> HIDE DEF n
<1>4. CASE ~Leaves(d)
  <2>1. r = Raise(d, "IGNORE") /\ n = d.fsm
    BY <1>4 DEF PerformStateTransition, Leaves, n
  <2>2. /\ r \in Conn /\ r.event = "IGNORE" /\ r.fsm = d.fsm
        /\ r.failed = d.failed /\ SameStreams(d, r) /\ r.active = d.active
        /\ r.send_fin = d.send_fin /\ r.timers = d.timers /\ r.app = d.app
    BY <2>1 DEF Raise, Conn, Events, SameStreams
  <2> HIDE DEF q
  <2>3. HandshakeTimed(q)
    BY <1>3, <1>4, <2>1, <2>2 DEF Ready, ReadyTimers, HandshakeTimed, n
  <2>4. SocketMatches(q)
    BY <1>3, <1>4, <2>1, <2>2 DEF Ready, ReadySocket, SocketMatches, n
  <2>5. SentIsQueued(q)
    BY <1>3, <1>4, <2>1, <2>2 DEF Ready, ReadyQueue, SentIsQueued, SentInOrder, SameStreams, n
  <2> QED
    BY <1>3, <2>2, <2>3, <2>4, <2>5 DEF Ready, ConnInv, SameStreams, q
<1>5. CASE Leaves(d)
  <2>1. r = StateEntered(d, n)
    BY <1>2, <1>5 DEF PerformStateTransition, Leaves, n
  <2>0. Entered(d, n, r)
    BY <1>1, <2>1, StateEnteredFacts
  <2>2. /\ r \in Conn /\ r.event = "IGNORE" /\ r.fsm = n /\ r.failed = d.failed
    BY <2>0 DEF Entered
  <2>3. CASE n = "CLOSED"
    <3>1. /\ r.timers = {} /\ r.send_fin = FALSE
          /\ r.app = IF d.fsm # "TIME_WAIT" /\ d.event # "ABORT"
                     THEN Told(d.app, "CLOSED") ELSE d.app
      BY <2>0, <2>3 DEF Entered
    <3>2. n \notin Embryonic /\ n \notin Synchronized
      BY <2>3 DEF Embryonic, Synchronized
    <3> HIDE DEF q
    <3>3. HandshakeTimed(q) /\ SentIsQueued(q)
      BY <1>3, <2>2, <2>3, <3>1, <3>2 DEF HandshakeTimed, SentIsQueued
    <3>4. SocketMatches(q)
      <4>1. Told(d.app, "CLOSED").closed = d.app.closed /\ Told(d.app, "CLOSED").sock = "CLOSED"
        BY ToldType DEF Conn, Indications
      <4>2. CASE d.fsm # "TIME_WAIT" /\ d.event # "ABORT"
        BY <1>3, <2>2, <3>1, <4>1, <4>2 DEF SocketMatches, SocketFits
      <4>3. CASE ~(d.fsm # "TIME_WAIT" /\ d.event # "ABORT")
        <5>1. q.app = d.app /\ q.send_fin = FALSE
          BY <1>3, <2>2, <3>1, <4>3
        <5>2. d.app.closed \/ SocketFits(d.app.sock, "CLOSED", d.active)
          BY <2>3, <4>3 DEF Ready, ReadySocket, n
        <5> QED
          BY <5>1, <5>2 DEF SocketMatches, SocketFits, Embryonic
      <4> QED
        BY <4>2, <4>3
    <3> QED
      BY <1>3, <2>2, <2>3, <3>3, <3>4 DEF Ready, ConnInv, q
  <2>4. CASE n # "CLOSED"
    <3>1. /\ SameStreams(d, r) /\ r.active = d.active /\ r.send_fin = d.send_fin
          /\ r.timers = IF n \in Embryonic \cup {"TIME_WAIT"} THEN d.timers
                        ELSE d.timers \ HandshakeTimers
          /\ r.app = IF n = "CLOSE_WAIT" THEN Told(d.app, "PEER_CLOSED")
                     ELSE IF n = "TIME_WAIT" THEN Told(d.app, "CLOSED") ELSE d.app
      BY <2>0, <2>4 DEF Entered
    <3> HIDE DEF q
    <3>2. HandshakeTimed(q)
      BY <1>3, <2>2, <3>1 DEF Ready, ReadyTimers, HandshakeTimed, n
    <3>3. SocketMatches(q)
      <4>1. /\ Told(d.app, "CLOSED").closed = d.app.closed
            /\ Told(d.app, "CLOSED").sock = "CLOSED"
            /\ Told(d.app, "PEER_CLOSED").closed = d.app.closed
            /\ Told(d.app, "PEER_CLOSED").sock = "PEER_CLOSED"
        BY ToldType DEF Conn, Indications
      <4>2. CASE n = "CLOSE_WAIT" \/ n = "TIME_WAIT"
        BY <1>3, <2>2, <3>1, <4>1, <4>2 DEF Ready, ReadySocket, SocketMatches, SocketFits
      <4>3. CASE ~(n = "CLOSE_WAIT" \/ n = "TIME_WAIT")
        BY <1>3, <2>2, <2>4, <3>1, <4>3 DEF Ready, ReadySocket, SocketMatches, n
      <4> QED
        BY <4>2, <4>3
    <3>4. SentIsQueued(q)
      BY <1>3, <2>2, <2>4, <3>1 DEF Ready, ReadyQueue, SentIsQueued, SentInOrder, SameStreams, n
    <3> QED
      BY <1>3, <2>2, <2>4, <3>1, <3>2, <3>3, <3>4 DEF Ready, ConnInv, SameStreams, q
  <2> QED
    BY <2>3, <2>4
<1> QED
  BY <1>4, <1>5

\* What the rest of the proof knows of the table.
LEMMA NextStateTable ==
  ASSUME NEW c \in Conn
  PROVE  /\ c.fsm \in Synchronized => NextState(c) \in Synchronized \cup {"CLOSED"}
         /\ c.fsm = "INIT" /\ c.event = "OPEN_ACTIVE" => NextState(c) = "SYN_SENT"
         /\ c.fsm = "INIT" /\ c.event = "OPEN_PASSIVE" => NextState(c) = "LISTEN"
         /\ c.fsm = "LISTEN" /\ c.event = "RCV_SYN" => NextState(c) = "SYN_RCVD"
         /\ c.fsm = "SYN_SENT" /\ c.event = "RCV_SYN" => NextState(c) = "SYN_RCVD"
         /\ c.fsm = "SYN_SENT" /\ c.event = "RCV_SYN_ACK" => NextState(c) = "ESTABLISHED"
         /\ c.fsm = "SYN_SENT" /\ c.event \in {"RCV_RST", "TIMEOUT_CONN_ESTAB"} =>
              NextState(c) = "CLOSED"
         /\ c.fsm = "SYN_RCVD" /\ c.event \in {"RCV_RST", "TIMEOUT_CONN_ESTAB"} =>
              NextState(c) = IF c.active THEN "CLOSED" ELSE "LISTEN"
         /\ c.fsm \in {"SYN_RCVD", "ESTABLISHED"} /\ c.event = "CLOSE" =>
              NextState(c) = "FIN_WAIT_1"
         /\ c.fsm \in {"LISTEN", "SYN_SENT"} /\ c.event = "CLOSE" => NextState(c) = "CLOSED"
         /\ c.fsm = "SYN_RCVD" /\ c.event = "RCV_ACK" => NextState(c) = "ESTABLISHED"
         /\ c.fsm \in {"SYN_RCVD", "ESTABLISHED"} /\ c.event = "RCV_FIN" =>
              NextState(c) = "CLOSE_WAIT"
         /\ c.fsm \in {"SYN_RCVD", "ESTABLISHED", "CLOSE_WAIT"} /\ c.event = "RCV_UNEXP_SYN" =>
              NextState(c) = "CLOSED"
         /\ c.fsm \in {"ESTABLISHED", "CLOSE_WAIT"} /\ c.event = "RCV_ACK" =>
              NextState(c) = c.fsm
         /\ c.fsm = "CLOSE_WAIT" /\ c.event = "RCV_FIN" => NextState(c) = c.fsm
         /\ c.event = "ABORT" =>
              NextState(c) = IF c.fsm \in {"INIT", "CLOSED"} THEN c.fsm ELSE "CLOSED"
         /\ c.fsm = "TIME_WAIT" /\ c.event = "TIMEOUT_2MSL" => NextState(c) = "CLOSED"
<1> USE DEF NextState, Transitions, Conn
<1>1. c.fsm \in Synchronized => NextState(c) \in Synchronized \cup {"CLOSED"}
  BY SMTT(60) DEF States, Synchronized
<1>2. c.event = "ABORT" =>
        NextState(c) = IF c.fsm \in {"INIT", "CLOSED"} THEN c.fsm ELSE "CLOSED"
  BY SMTT(60) DEF States
<1> QED
  BY <1>1, <1>2, SMTT(60)

-----------------------------------------------------------------------------
(* The handlers *)

\* What is proved of each handler: d is what it makes of c.
Handled(c, d) ==
  /\ d \in Conn /\ Ready(d)
  /\ "command" \in d.failed => "command" \in c.failed
  /\ c.fsm \in Synchronized => /\ c.rcv_nxt <= d.rcv_nxt /\ c.snd_una <= d.snd_una
                               /\ c.snd_max <= d.snd_max /\ c.q_end <= d.q_end

-----------------------------------------------------------------------------
(* General rules *)

\* In a synchronized state, a handler that makes progress has only the socket to mind.
LEMMA ProgressHandled ==
  ASSUME NEW c \in Conn, ConnInv(c), c.fsm \in Synchronized,
         NEW d \in Conn, Progress(c, d), ReadySocket(d)
  PROVE  Handled(c, d)
<1>1. NextState(d) \in Synchronized \cup {"CLOSED"}
  BY NextStateTable DEF Progress
<1>2. NextState(d) \notin Embryonic /\ c.fsm \notin Embryonic /\ "CLOSED" \notin Synchronized
  BY <1>1 DEF Synchronized, Embryonic
<1>3. ReadyTimers(d)
  BY <1>2 DEF ReadyTimers, ConnInv, HandshakeTimed, Progress
<1>4. ReadyQueue(d)
  BY <1>1, <1>2 DEF ReadyQueue, Leaves, ConnInv, SentIsQueued, Progress, Embryonic
<1> QED
  BY <1>3, <1>4 DEF Handled, Ready, ConnInv, Progress

\* A connection that is well is ready for the state machine, if no event is raised.
LEMMA WellIsReady ==
  ASSUME NEW c \in Conn, ConnInv(c)
  PROVE  Ready(c)
<1>1. NextState(c) = c.fsm
  BY IgnoreStays DEF ConnInv
<1> QED
  BY <1>1 DEF Ready, ReadyTimers, ReadySocket, ReadyQueue, Leaves, ConnInv, HandshakeTimed,
              SocketMatches, SentIsQueued

\* A segment that is dropped leaves things as they were.
LEMMA NothingHandled ==
  ASSUME NEW c \in Conn, ConnInv(c)
  PROVE  Handled(c, c)
BY WellIsReady DEF Handled, Conn

\* A quiet handler in a synchronized state.
LEMMA QuietHandled ==
  ASSUME NEW c \in Conn, ConnInv(c), c.fsm \in Synchronized, NEW d, Quiet(c, d)
  PROVE  Handled(c, d)
<1>1. NextState(d) = d.fsm
  BY IgnoreStays DEF ConnInv, Quiet
<1>2. ReadySocket(d)
  BY <1>1 DEF ReadySocket, ConnInv, SocketMatches, Quiet, Progress
<1> QED
  BY <1>2, ProgressHandled DEF Quiet

\* The fields the guards and the streams consist of: all but out, snd_una and the like.
Alike(c, d) ==
  /\ SameStreams(c, d) /\ d.fsm = c.fsm /\ d.active = c.active /\ d.send_fin = c.send_fin
  /\ d.timers = c.timers /\ d.app = c.app /\ d.failed = c.failed /\ d.event = c.event

\* Sending a segment leaves every other field as it was.
LEMMA EmitAlike ==
  ASSUME NEW c \in Conn, NEW s \in Segment
  PROVE  Emit(c, s) \in Conn /\ Alike(c, Emit(c, s))
<1>1. Emit(c, s) \in Conn
  BY EmitQuiet DEF Quiet
<1> QED
  BY <1>1 DEF Emit, Conn, Alike, SameStreams

\* Answering with a segment, in any state.
LEMMA EmitHandled ==
  ASSUME NEW c \in Conn, ConnInv(c), NEW s \in Segment
  PROVE  Handled(c, Emit(c, s))
<1> DEFINE d == Emit(c, s)
<1>1. d \in Conn /\ Alike(c, d)
  BY EmitAlike
<1> HIDE DEF d
<1>2. NextState(d) = d.fsm /\ NextState(c) = c.fsm
  BY <1>1, IgnoreStays DEF ConnInv, Alike
<1>3. Ready(c)
  BY WellIsReady
<1>4. Ready(d)
  BY <1>1, <1>2, <1>3 DEF Ready, ReadyTimers, ReadySocket, ReadyQueue, Leaves, Alike, SameStreams,
                          SentInOrder
<1> QED
  BY <1>1, <1>4 DEF Handled, Alike, SameStreams, Conn, d

\* Answering with an ACK, in any state.
LEMMA SendAckHandled ==
  ASSUME NEW c \in Conn, ConnInv(c)
  PROVE  Handled(c, SendAck(c))
<1>1. Seg({"ACK"}, c.snd_nxt, c.rcv_nxt, 0) \in Segment
  BY SegType DEF Conn, Flags
<1> QED
  BY <1>1, EmitHandled DEF SendAck

\* Answering with a RST, in any state.
LEMMA SendRstHandled ==
  ASSUME NEW c \in Conn, ConnInv(c), NEW seq \in Nat
  PROVE  Handled(c, SendRst(c, seq))
<1>1. Seg({"RST"}, seq, 0, 0) \in Segment
  BY SegType DEF Conn, Flags
<1> QED
  BY <1>1, EmitHandled DEF SendRst

-----------------------------------------------------------------------------
(* Commands *)

\* Raising an event changes nothing else.
LEMMA RaiseAlike ==
  ASSUME NEW c \in Conn, NEW ev \in Events
  PROVE  /\ Raise(c, ev) \in Conn /\ Raise(c, ev).event = ev
         /\ SameStreams(c, Raise(c, ev)) /\ Raise(c, ev).fsm = c.fsm
         /\ Raise(c, ev).active = c.active /\ Raise(c, ev).send_fin = c.send_fin
         /\ Raise(c, ev).timers = c.timers /\ Raise(c, ev).app = c.app
         /\ Raise(c, ev).failed = c.failed
<1>1. Raise(c, ev) \in Conn
  BY RaiseType
<1> QED
  BY <1>1 DEF Raise, Conn, SameStreams

\* selectInitialSeqNum() puts the streams at their beginning.
LEMMA SelectFacts ==
  ASSUME NEW c \in Conn
  PROVE  LET d == SelectInitialSeqNum(c)
         IN /\ d \in Conn /\ d.snd_una = d.iss /\ d.q_end = d.iss + 1
            /\ d.fsm = c.fsm /\ d.active = c.active /\ d.send_fin = c.send_fin
            /\ d.timers = c.timers /\ d.app = c.app /\ d.failed = c.failed
            /\ d.event = c.event /\ d.rcv_nxt = c.rcv_nxt
<1> DEFINE d == SelectInitialSeqNum(c)
<1>1. c.iss + IssStep \in Nat /\ c.iss + IssStep + 1 \in Nat
  BY ConnectionAssumption DEF Conn
<1>2. d \in Conn
  BY <1>1 DEF SelectInitialSeqNum, Conn
<1>3. d.snd_una = d.iss /\ d.q_end = d.iss + 1
  BY <1>1 DEF SelectInitialSeqNum, Conn
<1>4. /\ d.fsm = c.fsm /\ d.active = c.active /\ d.send_fin = c.send_fin
      /\ d.timers = c.timers /\ d.app = c.app /\ d.failed = c.failed
      /\ d.event = c.event /\ d.rcv_nxt = c.rcv_nxt
  BY DEF SelectInitialSeqNum, Conn
<1> QED
  BY <1>2, <1>3, <1>4

\* After a SYN or SYN+ACK, only the SYN has been sent.
AfterSyn(c, d) ==
  /\ d \in Conn /\ d.snd_nxt = c.iss + 1 /\ d.snd_max = c.iss + 1
  /\ d.iss = c.iss /\ d.snd_una = c.snd_una /\ d.q_end = c.q_end /\ d.rcv_nxt = c.rcv_nxt
  /\ d.fsm = c.fsm /\ d.active = c.active /\ d.send_fin = c.send_fin
  /\ d.timers = c.timers /\ d.app = c.app /\ d.failed = c.failed /\ d.event = c.event

\* sendSyn() and sendSynAck() put snd_nxt and snd_max behind the SYN.
LEMMA SendSynFacts ==
  ASSUME NEW c \in Conn
  PROVE  AfterSyn(c, SendSyn(c)) /\ AfterSyn(c, SendSynAck(c))
<1>1. /\ Seg({"SYN"}, c.iss, 0, 0) \in Segment
      /\ Seg({"SYN", "ACK"}, c.iss, c.rcv_nxt, 0) \in Segment
  BY SegType DEF Conn, Flags
<1>2. ASSUME NEW s \in Segment
      PROVE  AfterSyn(c, [Emit(c, s) EXCEPT !.snd_nxt = c.iss + 1, !.snd_max = c.iss + 1])
  <2> DEFINE b == Emit(c, s)
             d == [b EXCEPT !.snd_nxt = c.iss + 1, !.snd_max = c.iss + 1]
  <2>1. b \in Conn /\ Alike(c, b)
    BY EmitAlike
  <2>2. c.iss + 1 \in Nat
    BY DEF Conn
  <2> HIDE DEF b
  <2>3. d \in Conn
    BY <2>1, <2>2 DEF Conn
  <2> QED
    BY <2>1, <2>3 DEF AfterSyn, Conn, Alike, SameStreams, b
<1> QED
  BY <1>1, <1>2 DEF SendSyn, SendSynAck

\* The SYN-REXMIT timer is started, and nothing else happens.
LEMMA SynRexmitTimerStart ==
  ASSUME NEW c \in Conn
  PROVE  LET d == StartSynRexmitTimer(c)
         IN /\ d \in Conn /\ SameStreams(c, d)
            /\ d.fsm = c.fsm /\ d.active = c.active /\ d.send_fin = c.send_fin
            /\ d.timers = c.timers \cup {"synRexmit"}
            /\ d.app = c.app /\ d.failed = c.failed /\ d.event = c.event
<1> DEFINE b == StartTimer(c, "synRexmit")
           d == StartSynRexmitTimer(c)
<1>1. /\ b \in Conn /\ SameStreams(c, b)
      /\ b.fsm = c.fsm /\ b.active = c.active /\ b.send_fin = c.send_fin
      /\ b.timers = c.timers \cup {"synRexmit"}
      /\ b.app = c.app /\ b.failed = c.failed /\ b.event = c.event
  <2>1. c.timers \cup {"synRexmit"} \in SUBSET Timers
    BY DEF Conn, Timers
  <2>2. b \in Conn
    BY <2>1 DEF StartTimer, Conn
  <2> QED
    BY <2>2 DEF StartTimer, Conn, SameStreams
<1>2. d = [b EXCEPT !.syn_rexmit_count = 0]
  BY DEF StartSynRexmitTimer
<1> HIDE DEF b
<1>3. d \in Conn
  BY <1>1, <1>2 DEF Conn
<1> QED
  BY <1>1, <1>2, <1>3 DEF Conn, SameStreams

\* Both timers of the handshake are started, and nothing else happens.
LEMMA HandshakeTimersStart ==
  ASSUME NEW c \in Conn
  PROVE  LET d == StartTimer(StartSynRexmitTimer(c), "connEstab")
         IN /\ d \in Conn /\ SameStreams(c, d)
            /\ d.fsm = c.fsm /\ d.active = c.active /\ d.send_fin = c.send_fin
            /\ d.timers = c.timers \cup HandshakeTimers
            /\ d.app = c.app /\ d.failed = c.failed /\ d.event = c.event
<1> DEFINE b == StartSynRexmitTimer(c)
           d == StartTimer(b, "connEstab")
<1>1. /\ b \in Conn /\ SameStreams(c, b)
      /\ b.fsm = c.fsm /\ b.active = c.active /\ b.send_fin = c.send_fin
      /\ b.timers = c.timers \cup {"synRexmit"}
      /\ b.app = c.app /\ b.failed = c.failed /\ b.event = c.event
  BY SynRexmitTimerStart
<1> HIDE DEF b
<1>2. b.timers \cup {"connEstab"} \in SUBSET Timers
  BY <1>1 DEF Conn, Timers
<1>3. d \in Conn
  BY <1>1, <1>2 DEF StartTimer, Conn
<1>4. /\ SameStreams(c, d)
      /\ d.fsm = c.fsm /\ d.active = c.active /\ d.send_fin = c.send_fin
      /\ d.timers = b.timers \cup {"connEstab"}
      /\ d.app = c.app /\ d.failed = c.failed /\ d.event = c.event
  BY <1>1, <1>3 DEF StartTimer, Conn, SameStreams
<1>5. d.timers = c.timers \cup HandshakeTimers
  BY <1>1, <1>4 DEF HandshakeTimers
<1> QED
  BY <1>3, <1>4, <1>5 DEF b

\* A connection object that has just been created for a socket.
New(c, sock) ==
  /\ c \in Conn /\ c.fsm = "INIT" /\ c.timers = {} /\ c.send_fin = FALSE
  /\ c.failed = {} /\ c.app.sock = sock

\* OPEN_ACTIVE on a new connection object.
LEMMA OpenActiveReady ==
  ASSUME NEW c, New(c, "CONNECTING")
  PROVE  /\ ProcessOpenActive(c) \in Conn /\ Ready(ProcessOpenActive(c))
         /\ ProcessOpenActive(c).failed = {}
<1> DEFINE a == [c EXCEPT !.active = TRUE]
           b == SelectInitialSeqNum(a)
           c1 == SendSyn(b)
           t == StartTimer(StartSynRexmitTimer(c1), "connEstab")
           d == Raise(t, "OPEN_ACTIVE")
<1>1. /\ a \in Conn /\ a.fsm = "INIT" /\ a.active = TRUE /\ a.timers = {} /\ a.send_fin = FALSE
      /\ a.failed = {} /\ a.app = c.app
  <2>1. a \in Conn
    BY DEF New, Conn
  <2> QED
    BY <2>1 DEF New, Conn
<1> HIDE DEF a
<1>2. /\ b \in Conn /\ b.fsm = "INIT" /\ b.active = TRUE /\ b.timers = {} /\ b.send_fin = FALSE
      /\ b.failed = {} /\ b.app = c.app /\ b.snd_una = b.iss /\ b.q_end = b.iss + 1
  BY <1>1, SelectFacts
<1> HIDE DEF b
<1>3. AfterSyn(b, c1)
  BY <1>2, SendSynFacts
<1>4. /\ t \in Conn /\ SameStreams(c1, t) /\ t.fsm = "INIT" /\ t.active = TRUE
      /\ t.send_fin = FALSE /\ t.timers = HandshakeTimers /\ t.failed = {} /\ t.app = c.app
  <2> HIDE DEF c1
  <2> QED
    BY <1>2, <1>3, HandshakeTimersStart DEF AfterSyn
<1>5. /\ t.snd_una = t.iss /\ t.snd_max = t.iss + 1 /\ t.snd_nxt = t.snd_max
      /\ t.q_end = t.iss + 1 /\ t.iss \in Nat
  BY <1>2, <1>3, <1>4 DEF AfterSyn, SameStreams, Conn
<1> HIDE DEF c1, t
<1>6. /\ d \in Conn /\ d.event = "OPEN_ACTIVE" /\ SameStreams(t, d) /\ d.fsm = "INIT"
      /\ d.active = TRUE /\ d.send_fin = FALSE /\ d.timers = HandshakeTimers
      /\ d.failed = {} /\ d.app = c.app
  BY <1>4, RaiseAlike DEF Events
<1>7. d = ProcessOpenActive(c)
  BY DEF ProcessOpenActive, a, b, c1, t
<1> HIDE DEF d
<1>8. NextState(d) = "SYN_SENT"
  BY <1>6, NextStateTable
<1>9. ReadyTimers(d)
  BY <1>6, <1>8 DEF ReadyTimers, Embryonic
<1>10. ReadySocket(d)
  BY <1>6, <1>8 DEF ReadySocket, SocketFits, Embryonic, New
<1>11. ReadyQueue(d)
  BY <1>5, <1>6, <1>8 DEF ReadyQueue, SentInOrder, SameStreams, HandshakeTimers
<1> QED
  BY <1>6, <1>7, <1>9, <1>10, <1>11 DEF Ready

\* OPEN_PASSIVE on a new connection object.
LEMMA OpenPassiveReady ==
  ASSUME NEW c, New(c, "LISTENING")
  PROVE  /\ ProcessOpenPassive(c) \in Conn /\ Ready(ProcessOpenPassive(c))
         /\ ProcessOpenPassive(c).failed = {}
<1> DEFINE a == [c EXCEPT !.active = FALSE]
           d == Raise(a, "OPEN_PASSIVE")
<1>1. /\ a \in Conn /\ a.fsm = "INIT" /\ a.active = FALSE /\ a.timers = {} /\ a.send_fin = FALSE
      /\ a.failed = {} /\ a.app = c.app
  <2>1. a \in Conn
    BY DEF New, Conn
  <2> QED
    BY <2>1 DEF New, Conn
<1> HIDE DEF a
<1>2. /\ d \in Conn /\ d.event = "OPEN_PASSIVE" /\ d.fsm = "INIT"
      /\ d.active = FALSE /\ d.send_fin = FALSE /\ d.timers = {}
      /\ d.failed = {} /\ d.app = c.app
  BY <1>1, RaiseAlike DEF Events
<1>3. d = ProcessOpenPassive(c)
  BY DEF ProcessOpenPassive, a
<1> HIDE DEF d
<1>4. NextState(d) = "LISTEN"
  BY <1>2, NextStateTable
<1> QED
  BY <1>2, <1>3, <1>4 DEF Ready, ReadyTimers, ReadySocket, ReadyQueue, SocketFits, Embryonic,
                          Synchronized, New

\* Queueing a unit of data.
LEMMA EnqueueFacts ==
  ASSUME NEW c \in Conn
  PROVE  LET d == [c EXCEPT !.q_end = @ + 1]
         IN /\ d \in Conn /\ d.q_end = c.q_end + 1 /\ d.iss = c.iss /\ d.rcv_nxt = c.rcv_nxt
            /\ d.snd_una = c.snd_una /\ d.snd_nxt = c.snd_nxt /\ d.snd_max = c.snd_max
            /\ d.fsm = c.fsm /\ d.active = c.active /\ d.send_fin = c.send_fin
            /\ d.timers = c.timers /\ d.app = c.app /\ d.failed = c.failed /\ d.event = c.event
<1> DEFINE d == [c EXCEPT !.q_end = @ + 1]
<1>1. d \in Conn
  BY DEF Conn
<1> QED
  BY <1>1 DEF Conn

\* SEND is legal in the states the socket allows it in, and goes on with the queue.
LEMMA SendHandled ==
  ASSUME NEW c \in Conn, ConnInv(c), c.fsm \in Embryonic \cup {"ESTABLISHED", "CLOSE_WAIT"}
  PROVE  Handled(c, ProcessSend(c))
<1> DEFINE b == [c EXCEPT !.q_end = @ + 1]
<1>1. /\ b \in Conn /\ b.q_end = c.q_end + 1 /\ b.iss = c.iss /\ b.rcv_nxt = c.rcv_nxt
      /\ b.snd_una = c.snd_una /\ b.snd_nxt = c.snd_nxt /\ b.snd_max = c.snd_max
      /\ b.fsm = c.fsm /\ b.active = c.active /\ b.send_fin = c.send_fin
      /\ b.timers = c.timers /\ b.app = c.app /\ b.failed = c.failed /\ b.event = c.event
  BY EnqueueFacts
<1>2. c.q_end \in Nat /\ c.snd_una \in Nat /\ c.snd_max \in Nat /\ c.rcv_nxt \in Nat
  BY DEF Conn
<1> HIDE DEF b
<1>3. SentInOrder(b)
  BY <1>1, <1>2 DEF ConnInv, SentIsQueued, SentInOrder, Synchronized, Embryonic, States
<1>4. ConnInv(b) \/ b.out # {}
  BY <1>1, <1>3 DEF ConnInv, HandshakeTimed, SocketMatches, SentIsQueued
<1>5. b.out = {}
  BY DEF ConnInv, Conn, b
<1>6. ConnInv(b)
  BY <1>4, <1>5
<1>7. CASE c.fsm \in {"ESTABLISHED", "CLOSE_WAIT"}
  <2>1. ProcessSend(c) = SendData(b)
    BY <1>7 DEF ProcessSend, b
  <2>2. Handled(b, SendData(b))
    BY <1>1, <1>6, <1>7, SendDataQuiet, QuietHandled DEF Synchronized, States
  <2>3. c.q_end <= SendData(b).q_end
    <3>1. SendData(b) \in Conn /\ b.q_end <= SendData(b).q_end
      BY <1>1, SendDataQuiet DEF Quiet, Progress
    <3>2. SendData(b).q_end \in Nat
      BY <3>1 DEF Conn
    <3> HIDE DEF b
    <3> QED
      BY <1>1, <1>2, <3>1, <3>2
  <2> QED
    BY <1>1, <1>7, <2>1, <2>2, <2>3 DEF Handled
<1>8. CASE c.fsm \in Embryonic
  <2>1. ProcessSend(c) = b
    BY <1>8 DEF ProcessSend, Embryonic, b
  <2> QED
    BY <1>1, <1>2, <1>6, <1>8, <2>1, WellIsReady DEF Handled
<1> QED
  BY <1>7, <1>8

\* A command in a state that has no use for it ends the simulation.
LEMMA RefusedReady ==
  ASSUME NEW c \in Conn, ConnInv(c)
  PROVE  /\ Fail(c, "command") \in Conn /\ Ready(Fail(c, "command"))
         /\ SameStreams(c, Fail(c, "command"))
<1> DEFINE d == Fail(c, "command")
<1>1. c.failed \cup {"command"} \in SUBSET Failures
  BY DEF Conn, Failures
<1>2. d \in Conn
  BY <1>1 DEF Fail, Conn
<1>3. /\ SameStreams(c, d) /\ d.fsm = c.fsm /\ d.active = c.active /\ d.send_fin = c.send_fin
      /\ d.timers = c.timers /\ d.app = c.app /\ d.event = c.event
  BY <1>2 DEF Fail, Conn, SameStreams
<1> HIDE DEF d
<1>4. NextState(d) = d.fsm
  BY <1>2, <1>3, IgnoreStays DEF ConnInv
<1>5. Ready(d)
  BY <1>3, <1>4 DEF Ready, ReadyTimers, ReadySocket, ReadyQueue, Leaves, ConnInv,
                    HandshakeTimed, SocketMatches, SentIsQueued, SentInOrder, SameStreams
<1> QED
  BY <1>2, <1>3, <1>5 DEF d

\* CLOSE: the FIN goes out now or waits behind the queue.
LEMMA CloseHandled ==
  ASSUME NEW c \in Conn, ConnInv(c), c.app.closed,
         c.fsm \in Embryonic \cup {"LISTEN", "ESTABLISHED", "CLOSE_WAIT"}
  PROVE  Handled(c, ProcessClose(c))
<1> DEFINE c1 == [c EXCEPT !.send_fin = TRUE, !.snd_fin_seq = c.q_end]
           b == [c1 EXCEPT !.snd_nxt = c.snd_max]
           f == SendFin(b)
           c2 == StartRexmitTimer(f)
           c3 == [c2 EXCEPT !.snd_nxt = c.snd_max + 1, !.snd_max = c.snd_max + 1]
           d == Raise(c3, "CLOSE")
<1>1. CASE c.fsm \in {"LISTEN", "SYN_SENT"}
  <2> DEFINE r == Raise(c, "CLOSE")
  <2>1. ProcessClose(c) = r
    BY <1>1 DEF ProcessClose
  <2>2. /\ r \in Conn /\ r.event = "CLOSE" /\ SameStreams(c, r) /\ r.fsm = c.fsm
        /\ r.send_fin = c.send_fin /\ r.app = c.app /\ r.failed = c.failed
    BY RaiseAlike DEF Events
  <2> HIDE DEF r
  <2>3. NextState(r) = "CLOSED" /\ Leaves(r)
    BY <1>1, <2>2, NextStateTable DEF Leaves
  <2>4. Ready(r)
    BY <2>2, <2>3 DEF Ready, ReadyTimers, ReadySocket, ReadyQueue, Embryonic, Synchronized, ConnInv
  <2> QED
    BY <1>1, <2>1, <2>2, <2>4 DEF Handled, Synchronized
<1>2. CASE c.fsm \in {"SYN_RCVD", "ESTABLISHED", "CLOSE_WAIT"}
  <2>1. c.q_end \in Nat /\ c.snd_una \in Nat /\ c.snd_max \in Nat /\ c.rcv_nxt \in Nat
    BY DEF Conn
  <2>2. /\ c1 \in Conn /\ SameStreams(c, c1) /\ c1.fsm = c.fsm /\ c1.active = c.active
        /\ c1.send_fin = TRUE /\ c1.timers = c.timers /\ c1.app = c.app
        /\ c1.failed = c.failed /\ c1.event = c.event
    <3>1. c1 \in Conn
      BY DEF Conn
    <3> QED
      BY <3>1 DEF Conn, SameStreams
  <2> HIDE DEF c1
  <2>3. CASE c.snd_max # c.q_end
    <3>1. ProcessClose(c) = c1
      BY <1>2, <2>3 DEF ProcessClose, c1
    <3>2. NextState(c1) = c1.fsm
      BY <2>2, IgnoreStays DEF ConnInv
    <3>3. Ready(c1)
      BY <2>2, <3>2 DEF Ready, ReadyTimers, ReadySocket, ReadyQueue, Leaves, ConnInv,
                        HandshakeTimed, SentIsQueued, SentInOrder, SameStreams
    <3> QED
      BY <2>1, <2>2, <3>1, <3>3 DEF Handled, SameStreams
  <2>4. CASE c.snd_max = c.q_end
    <3>1. /\ b \in Conn /\ b.snd_una = c.snd_una /\ b.rcv_nxt = c.rcv_nxt /\ b.q_end = c.q_end
          /\ b.snd_max = c.snd_max /\ b.fsm = c.fsm /\ b.active = c.active /\ b.send_fin = TRUE
          /\ b.timers = c.timers /\ b.app = c.app /\ b.failed = c.failed /\ b.iss = c.iss
      <4>1. b \in Conn
        BY <2>1, <2>2 DEF Conn
      <4> QED
        BY <2>1, <2>2, <4>1 DEF Conn, SameStreams
    <3> HIDE DEF b
    <3>2. f \in Conn /\ Alike(b, f)
      <4>1. Seg({"ACK", "FIN"}, b.snd_nxt, b.rcv_nxt, 0) \in Segment
        BY <3>1, SegType DEF Conn, Flags
      <4> QED
        BY <3>1, <4>1, EmitAlike DEF SendFin
    <3> HIDE DEF f
    <3>3. /\ Quiet(f, c2) /\ c2 \in Conn /\ c2.failed = f.failed
          /\ c2.snd_una = f.snd_una /\ c2.q_end = f.q_end
      <4>1. Quiet(f, c2) /\ c2 \in Conn
        BY <3>2, StartRexmitTimerQuiet DEF Quiet
      <4>2. c2.failed = f.failed /\ c2.snd_una = f.snd_una /\ c2.q_end = f.q_end
        BY <3>2 DEF StartRexmitTimer, StartTimer, Conn
      <4> QED
        BY <4>1, <4>2
    <3> HIDE DEF c2
    <3>4. /\ c3 \in Conn /\ c3.snd_una = c.snd_una /\ c3.rcv_nxt = c2.rcv_nxt
          /\ c3.q_end = c.q_end /\ c3.snd_max = c.snd_max + 1 /\ c3.fsm = c.fsm
          /\ c3.send_fin = TRUE /\ c3.app = c.app /\ c3.failed = c.failed
      <4>1. c.snd_max + 1 \in Nat
        BY <2>1
      <4>2. c3 \in Conn
        BY <3>3, <4>1 DEF Conn
      <4>3. /\ c3.snd_una = c2.snd_una /\ c3.rcv_nxt = c2.rcv_nxt /\ c3.q_end = c2.q_end
            /\ c3.snd_max = c.snd_max + 1 /\ c3.fsm = c2.fsm /\ c3.send_fin = c2.send_fin
            /\ c3.app = c2.app /\ c3.failed = c2.failed
        BY <3>3 DEF Conn
      <4> HIDE DEF c3
      <4> QED
        BY <3>1, <3>2, <3>3, <4>2, <4>3 DEF Quiet, Progress, Alike, SameStreams
    <3>5. c.rcv_nxt <= c2.rcv_nxt
      BY <3>1, <3>2, <3>3 DEF Quiet, Progress, Alike, SameStreams
    <3> HIDE DEF c3
    <3>6. /\ d \in Conn /\ d.event = "CLOSE" /\ SameStreams(c3, d) /\ d.fsm = c.fsm
          /\ d.send_fin = TRUE /\ d.app = c.app /\ d.failed = c.failed
      BY <3>4, RaiseAlike DEF Events
    <3>7. ProcessClose(c) = d
      BY <1>2, <2>4 DEF ProcessClose, Embryonic, d, c3, c2, f, b, c1
    <3> HIDE DEF d
    <3>8. NextState(d) \in {"FIN_WAIT_1", "LAST_ACK"} /\ Leaves(d)
      <4>1. CASE c.fsm \in {"SYN_RCVD", "ESTABLISHED"}
        BY <3>6, <4>1, NextStateTable DEF Leaves
      <4>2. CASE c.fsm = "CLOSE_WAIT"
        BY <3>6, <4>2, SMTT(30) DEF NextState, Transitions, Leaves
      <4> QED
        BY <1>2, <4>1, <4>2
    <3>9. SentInOrder(d)
      BY <1>2, <2>1, <2>4, <3>4, <3>6
         DEF SentInOrder, SameStreams, ConnInv, SentIsQueued, Embryonic, Synchronized, States
    <3>10. Ready(d)
      BY <3>6, <3>8, <3>9 DEF Ready, ReadyTimers, ReadySocket, ReadyQueue, Embryonic,
                              Synchronized, States, ConnInv
    <3> QED
      BY <2>1, <3>4, <3>5, <3>6, <3>7, <3>10 DEF Handled, SameStreams
  <2> QED
    BY <2>3, <2>4
<1> QED
  BY <1>1, <1>2 DEF Embryonic

\* A connection that is told off the socket: ABORT, or the end of its patience.
LEMMA AbortReady ==
  ASSUME NEW c \in Conn, NEW d \in Conn, ConnInv(c), SameStreams(c, d), d.fsm = c.fsm,
         d.active = c.active, d.send_fin = c.send_fin, d.app.closed = c.app.closed,
         d.app.sock \notin {"LISTENING", "CONNECTING", "CONNECTED", "PEER_CLOSED"},
         d.timers \cap HandshakeTimers = c.timers \cap HandshakeTimers,
         "rexmit" \in d.timers => "rexmit" \in c.timers,
         d.failed = c.failed, d.event = "ABORT"
  PROVE  Handled(c, d)
<1>1. NextState(d) = IF d.fsm \in {"INIT", "CLOSED"} THEN d.fsm ELSE "CLOSED"
  BY NextStateTable
<1>2. ReadyTimers(d)
  BY <1>1 DEF ReadyTimers, Leaves, ConnInv, HandshakeTimed, Embryonic
<1>3. ReadySocket(d)
  BY DEF ReadySocket, SocketFits, ConnInv, SocketMatches
<1>4. ReadyQueue(d)
  BY <1>1 DEF ReadyQueue, Leaves, ConnInv, SentIsQueued, Embryonic, Synchronized
<1>5. /\ c.rcv_nxt <= d.rcv_nxt /\ c.snd_una <= d.snd_una
      /\ c.snd_max <= d.snd_max /\ c.q_end <= d.q_end
  BY DEF SameStreams, Conn
<1> QED
  BY <1>2, <1>3, <1>4, <1>5 DEF Handled, Ready, ConnInv

\* ABORT is legal in every state.
LEMMA AbortHandled ==
  ASSUME NEW c \in Conn, ConnInv(c),
         c.app.sock \notin {"LISTENING", "CONNECTING", "CONNECTED", "PEER_CLOSED"}
  PROVE  Handled(c, ProcessAbort(c))
<1> DEFINE b == IF c.fsm \in {"SYN_RCVD", "ESTABLISHED", "FIN_WAIT_1", "FIN_WAIT_2", "CLOSE_WAIT"}
                THEN SendRst(c, c.snd_nxt) ELSE c
           d == Raise(b, "ABORT")
<1>1. b \in Conn /\ Alike(c, b)
  <2>1. Seg({"RST"}, c.snd_nxt, 0, 0) \in Segment
    BY SegType DEF Conn, Flags
  <2>2. SendRst(c, c.snd_nxt) \in Conn /\ Alike(c, SendRst(c, c.snd_nxt))
    BY <2>1, EmitAlike DEF SendRst
  <2>3. Alike(c, c)
    BY DEF Alike, SameStreams
  <2> QED
    BY <2>2, <2>3
<1>2. ProcessAbort(c) = d
  BY DEF ProcessAbort
<1> HIDE DEF b
<1>3. /\ d \in Conn /\ d.event = "ABORT" /\ SameStreams(b, d) /\ d.fsm = b.fsm
      /\ d.active = b.active /\ d.send_fin = b.send_fin /\ d.timers = b.timers
      /\ d.app = b.app /\ d.failed = b.failed
  BY <1>1, RaiseAlike DEF Events
<1> HIDE DEF d
<1>4. SameStreams(c, d)
  BY <1>1, <1>3 DEF Alike, SameStreams
<1> QED
  BY <1>1, <1>2, <1>3, <1>4, AbortReady DEF Alike

-----------------------------------------------------------------------------
(* Timers *)

\* Telling the application changes nothing but what it has been told.
LEMMA IndicateFacts ==
  ASSUME NEW c \in Conn, NEW k \in Indications
  PROVE  LET d == Indicate(c, k)
         IN /\ d \in Conn /\ SameStreams(c, d) /\ d.fsm = c.fsm /\ d.active = c.active
            /\ d.send_fin = c.send_fin /\ d.timers = c.timers /\ d.failed = c.failed
            /\ d.event = c.event /\ d.app = Told(c.app, k) /\ d.app.closed = c.app.closed
<1>1. Indicate(c, k) \in Conn /\ Indicate(c, k).app = Told(c.app, k)
  BY IndicateType
<1>2. Told(c.app, k).closed = c.app.closed
  BY ToldType DEF Conn
<1> QED
  BY <1>1, <1>2 DEF Indicate, Conn, SameStreams

\* The REXMIT timer: a segment is sent again, or the connection is given up.
LEMMA RexmitHandled ==
  ASSUME NEW c \in Conn, ConnInv(c), "rexmit" \in c.timers
  PROVE  Handled(c, ProcessRexmitTimer(c))
<1> DEFINE c1 == [c EXCEPT !.timers = @ \ {"rexmit"}, !.rexmit_count = @ + 1]
           i == Indicate(c1, "TIMED_OUT")
           d == Raise(i, "ABORT")
           t == StartTimer(c1, "rexmit")
<1>1. c.fsm \in Synchronized /\ SentInOrder(c)
  BY DEF ConnInv, SentIsQueued
<1>2. /\ c1 \in Conn /\ SameStreams(c, c1) /\ c1.fsm = c.fsm /\ c1.active = c.active
      /\ c1.send_fin = c.send_fin /\ c1.app = c.app /\ c1.failed = c.failed
      /\ c1.event = c.event /\ c1.timers = c.timers \ {"rexmit"}
  <2>0. c.timers \ {"rexmit"} \in SUBSET Timers /\ c.rexmit_count + 1 \in Nat
    BY DEF Conn
  <2>1. c1 \in Conn
    BY <2>0 DEF Conn
  <2> QED
    BY <2>1 DEF Conn, SameStreams
<1>3. c1.timers \cap HandshakeTimers = c.timers \cap HandshakeTimers
  BY <1>2 DEF HandshakeTimers
<1>4. Quiet(c, c1)
  BY <1>2, <1>3 DEF Quiet, Progress, SentInOrder, SameStreams, Conn
<1> HIDE DEF c1
<1>5. Handled(c, d)
  <2>1. "TIMED_OUT" \in Indications /\ "TIMED_OUT" \in Errors
    BY DEF Indications, Errors
  <2>2. /\ i \in Conn /\ SameStreams(c1, i) /\ i.fsm = c1.fsm /\ i.active = c1.active
        /\ i.send_fin = c1.send_fin /\ i.timers = c1.timers /\ i.failed = c1.failed
        /\ i.app.closed = c1.app.closed /\ i.app.sock = "SOCKERROR"
    BY <1>2, <2>1, IndicateFacts, ToldType DEF Conn
  <2> HIDE DEF i
  <2>3. /\ d \in Conn /\ d.event = "ABORT" /\ SameStreams(i, d) /\ d.fsm = i.fsm
        /\ d.active = i.active /\ d.send_fin = i.send_fin /\ d.timers = i.timers
        /\ d.app = i.app /\ d.failed = i.failed
    BY <2>2, RaiseAlike DEF Events
  <2> HIDE DEF d
  <2>4. SameStreams(c, d)
    BY <1>2, <2>2, <2>3 DEF SameStreams
  <2> QED
    BY <1>2, <1>3, <2>2, <2>3, <2>4, AbortReady
<1>6. Handled(c, RetransmitOneSegment(t))
  <2>1. Quiet(c1, t) /\ t \in Conn
    BY <1>2, StartTimerQuiet DEF Timers, HandshakeTimers, Quiet
  <2> HIDE DEF t
  <2>2. Quiet(c, t) /\ SentInOrder(t)
    BY <1>1, <1>4, <2>1, QuietTransitive DEF Quiet, Progress
  <2>3. Quiet(c, RetransmitOneSegment(t))
    BY <2>1, <2>2, RetransmitOneSegmentQuiet, QuietTransitive
  <2> QED
    BY <1>1, <2>3, QuietHandled
<1> QED
  BY <1>5, <1>6 DEF ProcessRexmitTimer, c1

\* The SYN-REXMIT timer: the SYN, or the SYN+ACK, is sent again.
LEMMA SynRexmitHandled ==
  ASSUME NEW c \in Conn, ConnInv(c), "synRexmit" \in c.timers
  PROVE  Handled(c, ProcessSynRexmitTimer(c))
<1> DEFINE c1 == [c EXCEPT !.syn_rexmit_count = @ + 1]
<1>1. c.fsm \in Embryonic
  BY DEF ConnInv, HandshakeTimed, HandshakeTimers
<1>2. c1 \in Conn /\ Alike(c, c1)
  <2>1. c1 \in Conn
    BY DEF Conn
  <2> QED
    BY <2>1 DEF Conn, Alike, SameStreams
<1> HIDE DEF c1
<1>3. ASSUME NEW d, AfterSyn(c1, d)
      PROVE  Handled(c, d)
  <2>1. /\ d \in Conn /\ d.event = "IGNORE" /\ d.fsm = c.fsm /\ d.snd_max = c.snd_max
        /\ d.snd_max = d.iss + 1 /\ d.snd_nxt = d.snd_max
        /\ d.snd_una = c.snd_una /\ d.q_end = c.q_end
        /\ d.active = c.active /\ d.send_fin = c.send_fin /\ d.timers = c.timers
        /\ d.app = c.app /\ d.failed = c.failed
    BY <1>1, <1>2, <1>3 DEF AfterSyn, Alike, SameStreams, ConnInv, SentIsQueued
  <2>2. NextState(d) = d.fsm
    BY <2>1, IgnoreStays
  <2>3. Ready(d)
    BY <2>1, <2>2 DEF Ready, ReadyTimers, ReadySocket, ReadyQueue, Leaves, ConnInv,
                      HandshakeTimed, SocketMatches, SentIsQueued, SentInOrder
  <2> QED
    BY <1>1, <2>1, <2>3 DEF Handled, Embryonic, Synchronized
<1>4. Handled(c, SendSyn(c1)) /\ Handled(c, SendSynAck(c1))
  BY <1>2, <1>3, SendSynFacts
<1> QED
  BY <1>1, <1>4 DEF ProcessSynRexmitTimer, Embryonic, c1

\* The way back to where the connection came from, LISTEN or nothing.
LEMMA OriginReady ==
  ASSUME NEW c \in Conn, NEW d \in Conn, ConnInv(c), SameStreams(c, d), d.fsm = c.fsm,
         c.fsm \in Embryonic, d.active = c.active, d.send_fin = c.send_fin,
         d.app.closed = c.app.closed,
         d.app.sock = c.app.sock \/ d.app.sock = "SOCKERROR",
         "rexmit" \in d.timers => "rexmit" \in c.timers, d.failed = c.failed,
         d.event \in {"RCV_RST", "TIMEOUT_CONN_ESTAB"}
  PROVE  Handled(c, d)
<1>1. /\ NextState(d) \in {"CLOSED", "LISTEN"} /\ Leaves(d)
      /\ NextState(d) = "LISTEN" => c.fsm = "SYN_RCVD" /\ ~d.active
  BY NextStateTable DEF Leaves, Embryonic, Conn
<1>2. c.fsm \notin Synchronized /\ "rexmit" \notin d.timers
  BY DEF ConnInv, SentIsQueued, Embryonic, Synchronized
<1>3. ReadyTimers(d)
  BY <1>1 DEF ReadyTimers, Embryonic
<1>4. ReadySocket(d)
  BY <1>1 DEF ReadySocket, SocketFits, ConnInv, SocketMatches, Embryonic
<1>5. ReadyQueue(d)
  BY <1>1, <1>2 DEF ReadyQueue, Embryonic, Synchronized
<1> QED
  BY <1>2, <1>3, <1>4, <1>5 DEF Handled, Ready, ConnInv

\* The CONN-ESTAB timer: the handshake is given up.
LEMMA ConnEstabHandled ==
  ASSUME NEW c \in Conn, ConnInv(c), "connEstab" \in c.timers
  PROVE  Handled(c, ProcessConnEstabTimer(c))
<1> DEFINE c1 == [c EXCEPT !.timers = @ \ {"connEstab"}]
           i == IF c.active THEN Indicate(c1, "TIMED_OUT") ELSE c1
           d == Raise(i, "TIMEOUT_CONN_ESTAB")
<1>1. c.fsm \in Embryonic
  BY DEF ConnInv, HandshakeTimed, HandshakeTimers
<1>2. /\ c1 \in Conn /\ SameStreams(c, c1) /\ c1.fsm = c.fsm /\ c1.active = c.active
      /\ c1.send_fin = c.send_fin /\ c1.app = c.app /\ c1.failed = c.failed
      /\ c1.timers = c.timers \ {"connEstab"}
  <2>1. c1 \in Conn
    BY DEF Conn
  <2> QED
    BY <2>1 DEF Conn, SameStreams
<1>3. ProcessConnEstabTimer(c) = d
  BY <1>1 DEF ProcessConnEstabTimer
<1> HIDE DEF c1
<1>4. "TIMED_OUT" \in Indications /\ "TIMED_OUT" \in Errors
  BY DEF Indications, Errors
<1>5. /\ i \in Conn /\ SameStreams(c, i) /\ i.fsm = c.fsm /\ i.active = c.active
      /\ i.send_fin = c.send_fin /\ i.timers = c1.timers /\ i.failed = c.failed
      /\ i.app.closed = c.app.closed
      /\ i.app.sock = c.app.sock \/ i.app.sock = "SOCKERROR"
  <2>1. CASE c.active
    <3>1. Told(c.app, "TIMED_OUT").sock = "SOCKERROR"
      BY <1>4, ToldType DEF Conn
    <3>2. /\ i \in Conn /\ SameStreams(c1, i) /\ i.fsm = c1.fsm /\ i.active = c1.active
          /\ i.send_fin = c1.send_fin /\ i.timers = c1.timers /\ i.failed = c1.failed
          /\ i.app = Told(c1.app, "TIMED_OUT") /\ i.app.closed = c1.app.closed
      BY <1>2, <1>4, <2>1, IndicateFacts
    <3> HIDE DEF i
    <3> QED
      BY <1>2, <3>1, <3>2 DEF SameStreams
  <2>2. CASE ~c.active
    BY <1>2, <2>2
  <2> QED
    BY <2>1, <2>2
<1> HIDE DEF i
<1>6. /\ d \in Conn /\ d.event = "TIMEOUT_CONN_ESTAB" /\ SameStreams(i, d) /\ d.fsm = i.fsm
      /\ d.active = i.active /\ d.send_fin = i.send_fin /\ d.timers = i.timers
      /\ d.app = i.app /\ d.failed = i.failed
  BY <1>5, RaiseAlike DEF Events
<1> HIDE DEF d
<1>7. SameStreams(c, d)
  BY <1>5, <1>6 DEF SameStreams
<1> QED
  BY <1>1, <1>2, <1>3, <1>5, <1>6, <1>7, OriginReady

\* The 2MSL timer ends TIME_WAIT.
LEMMA TwoMSLHandled ==
  ASSUME NEW c \in Conn, ConnInv(c), "2msl" \in c.timers
  PROVE  Handled(c, Process2MSLTimer(c))
<1>1. CASE c.fsm # "TIME_WAIT"
  <2> DEFINE d == Fail(c, "timer")
  <2>1. Process2MSLTimer(c) = d
    BY <1>1 DEF Process2MSLTimer
  <2>2. c.failed \cup {"timer"} \in SUBSET Failures
    BY DEF Conn, Failures
  <2>3. d \in Conn
    BY <2>2 DEF Fail, Conn
  <2>4. /\ SameStreams(c, d) /\ d.fsm = c.fsm /\ d.active = c.active /\ d.send_fin = c.send_fin
        /\ d.timers = c.timers /\ d.app = c.app /\ d.event = c.event
        /\ d.failed = c.failed \cup {"timer"}
    BY <2>3 DEF Fail, Conn, SameStreams
  <2> HIDE DEF d
  <2>5. NextState(d) = d.fsm
    BY <2>3, <2>4, IgnoreStays DEF ConnInv
  <2>6. Ready(d)
    BY <2>4, <2>5 DEF Ready, ReadyTimers, ReadySocket, ReadyQueue, Leaves, ConnInv,
                      HandshakeTimed, SocketMatches, SentIsQueued, SentInOrder, SameStreams
  <2> QED
    BY <2>1, <2>3, <2>4, <2>6 DEF Handled, SameStreams, Conn
<1>2. CASE c.fsm = "TIME_WAIT"
  <2> DEFINE c1 == [c EXCEPT !.timers = @ \ {"2msl"}]
             d == Raise(c1, "TIMEOUT_2MSL")
  <2>1. /\ c1 \in Conn /\ SameStreams(c, c1) /\ c1.fsm = c.fsm /\ c1.active = c.active
        /\ c1.send_fin = c.send_fin /\ c1.app = c.app /\ c1.failed = c.failed
    <3>1. c1 \in Conn
      BY DEF Conn
    <3> QED
      BY <3>1 DEF Conn, SameStreams
  <2>2. Process2MSLTimer(c) = d
    BY <1>2 DEF Process2MSLTimer
  <2> HIDE DEF c1
  <2>3. /\ d \in Conn /\ d.event = "TIMEOUT_2MSL" /\ SameStreams(c1, d) /\ d.fsm = c1.fsm
        /\ d.active = c1.active /\ d.send_fin = c1.send_fin /\ d.app = c1.app
        /\ d.failed = c1.failed
    BY <2>1, RaiseAlike DEF Events
  <2> HIDE DEF d
  <2>4. NextState(d) = "CLOSED" /\ Leaves(d)
    BY <1>2, <2>1, <2>3, NextStateTable DEF Leaves
  <2>5. SameStreams(c, d)
    BY <2>1, <2>3 DEF SameStreams
  <2>6. ReadySocket(d)
    BY <1>2, <2>1, <2>3, <2>4 DEF ReadySocket, SocketFits, ConnInv, SocketMatches, Embryonic
  <2>7. Ready(d)
    BY <2>1, <2>3, <2>4, <2>6 DEF Ready, ReadyTimers, ReadyQueue, Embryonic, Synchronized, ConnInv
  <2> QED
    BY <2>1, <2>2, <2>3, <2>5, <2>7 DEF Handled, SameStreams, Conn
<1> QED
  BY <1>1, <1>2
-----------------------------------------------------------------------------
(* The arrival of a segment, before the handshake is over *)

\* A segment for a connection that does not exist: a RST, at most.
LEMMA ClosedHandled ==
  ASSUME NEW c \in Conn, ConnInv(c), NEW s \in Segment
  PROVE  Handled(c, SegmentArrivalWhileClosed(c, s))
<1> DEFINE segLen == s.len + Cardinality(s.flags \cap {"SYN", "FIN"})
<1>1. s.flags \in SUBSET Flags /\ s.seq \in Nat /\ s.ack \in Nat /\ s.len \in Nat
  BY DEF Segment
<1>2. Cardinality(s.flags \cap {"SYN", "FIN"}) \in Nat
  <2>1. IsFiniteSet({"SYN"}) /\ IsFiniteSet({"SYN"} \cup {"FIN"})
    BY FS_Singleton, FS_AddElement
  <2>2. {"SYN", "FIN"} = {"SYN"} \cup {"FIN"}
    PROOF OBVIOUS
  <2>3. IsFiniteSet(s.flags \cap {"SYN", "FIN"})
    BY <2>1, <2>2, FS_Subset
  <2> QED
    BY <2>3, FS_CardinalityType
<1>3. segLen \in Nat
  BY <1>1, <1>2
<1> HIDE DEF segLen
<1>4. Seg({"RST", "ACK"}, 0, s.seq + segLen, 0) \in Segment
  BY <1>1, <1>3, SegType DEF Flags
<1>5. Handled(c, Emit(c, Seg({"RST", "ACK"}, 0, s.seq + segLen, 0)))
  BY <1>4, EmitHandled
<1>6. Handled(c, SendRst(c, s.ack)) /\ Handled(c, c)
  BY <1>1, SendRstHandled, NothingHandled
<1> QED
  BY <1>5, <1>6 DEF SegmentArrivalWhileClosed, segLen

\* A segment in LISTEN: a SYN starts the handshake.
LEMMA ListenHandled ==
  ASSUME NEW c \in Conn, ConnInv(c), c.fsm = "LISTEN", NEW s \in Segment
  PROVE  Handled(c, ProcessSegmentInListen(c, s))
<1> DEFINE a == [c EXCEPT !.rcv_nxt = s.seq + 1, !.irs = s.seq, !.buf = {}]
           c1 == SelectInitialSeqNum(a)
           c2 == SendSynAck(c1)
           t == StartTimer(StartSynRexmitTimer(c2), "connEstab")
           d == Raise(t, "RCV_SYN")
<1>1. s.seq \in Nat /\ s.seq + 1 \in Nat /\ s.ack \in Nat
  BY DEF Segment
<1>2. /\ a \in Conn /\ a.fsm = c.fsm /\ a.active = c.active /\ a.send_fin = c.send_fin
      /\ a.timers = c.timers /\ a.app = c.app /\ a.failed = c.failed
  <2>1. a \in Conn
    BY <1>1 DEF Conn
  <2> QED
    BY <2>1 DEF Conn
<1> HIDE DEF a
<1>3. /\ c1 \in Conn /\ c1.snd_una = c1.iss /\ c1.q_end = c1.iss + 1 /\ c1.iss \in Nat
      /\ c1.fsm = c.fsm /\ c1.active = c.active /\ c1.send_fin = c.send_fin
      /\ c1.timers = c.timers /\ c1.app = c.app /\ c1.failed = c.failed
  <2>1. /\ c1 \in Conn /\ c1.snd_una = c1.iss /\ c1.q_end = c1.iss + 1
        /\ c1.fsm = a.fsm /\ c1.active = a.active /\ c1.send_fin = a.send_fin
        /\ c1.timers = a.timers /\ c1.app = a.app /\ c1.failed = a.failed
    BY <1>2, SelectFacts
  <2> HIDE DEF c1
  <2> QED
    BY <1>2, <2>1 DEF Conn
<1> HIDE DEF c1
<1>4. AfterSyn(c1, c2)
  BY <1>3, SendSynFacts
<1> HIDE DEF c2
<1>5. /\ t \in Conn /\ SameStreams(c2, t) /\ t.fsm = c2.fsm /\ t.active = c2.active
      /\ t.send_fin = c2.send_fin /\ t.timers = c2.timers \cup HandshakeTimers
      /\ t.failed = c2.failed /\ t.app = c2.app
  BY <1>4, HandshakeTimersStart DEF AfterSyn
<1> HIDE DEF t
<1>6. /\ d \in Conn /\ d.event = "RCV_SYN" /\ SameStreams(t, d) /\ d.fsm = t.fsm
      /\ d.active = t.active /\ d.send_fin = t.send_fin /\ d.timers = t.timers
      /\ d.app = t.app /\ d.failed = t.failed
  BY <1>5, RaiseAlike DEF Events
<1> HIDE DEF d
<1>7. /\ d.fsm = "LISTEN" /\ d.active = c.active /\ d.send_fin = c.send_fin
      /\ d.timers = c.timers \cup HandshakeTimers /\ d.app = c.app /\ d.failed = c.failed
      /\ d.snd_una = c1.iss /\ d.snd_max = c1.iss + 1 /\ d.q_end = c1.iss + 1
      /\ d.iss = c1.iss
  BY <1>3, <1>4, <1>5, <1>6 DEF AfterSyn, SameStreams
<1>8. NextState(d) = "SYN_RCVD"
  BY <1>6, <1>7, NextStateTable
<1>9. ReadyTimers(d)
  BY <1>7, <1>8 DEF ReadyTimers, Embryonic
<1>10. ReadySocket(d)
  BY <1>7, <1>8 DEF ReadySocket, SocketFits, ConnInv, SocketMatches, Embryonic
<1>11. ReadyQueue(d)
  BY <1>3, <1>7, <1>8
     DEF ReadyQueue, SentInOrder, HandshakeTimers, ConnInv, SentIsQueued, Synchronized
<1>12. Handled(c, d)
  BY <1>6, <1>7, <1>9, <1>10, <1>11 DEF Handled, Ready, ConnInv, Synchronized
<1>13. Handled(c, SendRst(c, s.ack)) /\ Handled(c, c)
  BY <1>1, SendRstHandled, NothingHandled
<1> QED
  BY <1>12, <1>13 DEF ProcessSegmentInListen, d, t, c2, c1, a

\* A segment in SYN_SENT: SYN+ACK, SYN or RST.
LEMMA SynSentHandled ==
  ASSUME NEW c \in Conn, ConnInv(c), c.fsm = "SYN_SENT", NEW s \in Segment
  PROVE  Handled(c, ProcessSegmentInSynSent(c, s))
<1> DEFINE badAck == "ACK" \in s.flags /\ (s.ack <= c.iss \/ s.ack > c.snd_nxt)
           c1 == [c EXCEPT !.rcv_nxt = s.seq + 1, !.irs = s.seq, !.buf = {}]
           u == [c1 EXCEPT !.snd_una = s.ack]
           c2 == DiscardUpTo(u, s.ack)
           e == Established(c2, TRUE)
           i == Indicate(e, "ESTABLISHED")
           d == Raise(i, "RCV_SYN_ACK")
           c3 == [c1 EXCEPT !.snd_nxt = c.iss, !.snd_max = c.iss]
           a == SendSynAck(c3)
           t == StartSynRexmitTimer(a)
           g == Raise(t, "RCV_SYN")
           ir == Indicate(c, "CONNECTION_RESET")
           r == Raise(ir, "RCV_RST")
<1>1. /\ s.seq \in Nat /\ s.seq + 1 \in Nat /\ s.ack \in Nat
      /\ c.iss \in Nat /\ c.snd_una \in Nat /\ c.snd_max \in Nat /\ c.q_end \in Nat
  BY DEF Segment, Conn
<1>2. /\ SentInOrder(c) /\ c.snd_nxt = c.snd_max /\ c.snd_max = c.iss + 1
      /\ "rexmit" \notin c.timers /\ HandshakeTimers \subseteq c.timers
      /\ c.fsm \notin Synchronized
  BY DEF ConnInv, SentIsQueued, HandshakeTimed, Embryonic, Synchronized
<1>3. /\ c1 \in Conn /\ c1.fsm = c.fsm /\ c1.active = c.active /\ c1.send_fin = c.send_fin
      /\ c1.timers = c.timers /\ c1.app = c.app /\ c1.failed = c.failed /\ c1.iss = c.iss
      /\ c1.snd_una = c.snd_una /\ c1.snd_max = c.snd_max /\ c1.q_end = c.q_end
      /\ c1.event = c.event
  <2>1. c1 \in Conn
    BY <1>1 DEF Conn
  <2> QED
    BY <2>1 DEF Conn
<1> HIDE DEF c1
\* SYN+ACK: the connection is up
<1>4. ASSUME ~badAck, "ACK" \in s.flags
      PROVE  Handled(c, d)
  <2>1. /\ u \in Conn /\ u.fsm = c.fsm /\ u.active = c.active /\ u.send_fin = c.send_fin
        /\ u.timers = c.timers /\ u.app = c.app /\ u.failed = c.failed /\ u.event = c.event
        /\ u.snd_una = s.ack /\ u.snd_max = c.snd_max /\ u.q_end = c.q_end
    <3>1. u \in Conn
      BY <1>1, <1>3 DEF Conn
    <3> QED
      BY <1>1, <1>3, <3>1 DEF Conn
  <2> HIDE DEF u
  <2>2. SentInOrder(u)
    BY <1>1, <1>2, <1>4, <2>1 DEF SentInOrder
  <2>3. Quiet(u, c2) /\ c2 \in Conn
    BY <1>1, <2>1, DiscardUpToQuiet DEF Quiet
  <2> HIDE DEF c2
  <2>4. Quiet(u, e) /\ e \in Conn
    BY <2>1, <2>3, EstablishedQuiet, QuietTransitive DEF Quiet
  <2> HIDE DEF e
  <2>5. SentInOrder(e) /\ e.fsm = c.fsm /\ e.send_fin = c.send_fin
        /\ ("command" \in e.failed => "command" \in c.failed) /\ e.app = c.app
    BY <2>1, <2>2, <2>4 DEF Quiet, Progress
  <2>6. "ESTABLISHED" \in Indications
    BY DEF Indications
  <2>7. /\ i \in Conn /\ SameStreams(e, i) /\ i.fsm = e.fsm /\ i.active = e.active
        /\ i.send_fin = e.send_fin /\ i.failed = e.failed
        /\ i.app = Told(e.app, "ESTABLISHED") /\ i.app.closed = e.app.closed
    BY <2>4, <2>6, IndicateFacts
  <2>8. Told(e.app, "ESTABLISHED").sock = "CONNECTED"
    BY <2>4, <2>6, ToldType DEF Conn
  <2> HIDE DEF i
  <2>9. /\ d \in Conn /\ d.event = "RCV_SYN_ACK" /\ SameStreams(i, d) /\ d.fsm = i.fsm
        /\ d.send_fin = i.send_fin /\ d.app = i.app /\ d.failed = i.failed
    BY <2>7, RaiseAlike DEF Events
  <2> HIDE DEF d
  <2>10. NextState(d) = "ESTABLISHED" /\ Leaves(d)
    BY <2>5, <2>7, <2>9, NextStateTable DEF Leaves
  <2>11. ReadySocket(d)
    BY <2>5, <2>7, <2>8, <2>9, <2>10 DEF ReadySocket, SocketFits, ConnInv, SocketMatches
  <2>12. SentInOrder(d)
    BY <2>5, <2>7, <2>9 DEF SentInOrder, SameStreams
  <2>13. Ready(d)
    BY <2>5, <2>7, <2>9, <2>10, <2>11, <2>12
       DEF Ready, ReadyTimers, ReadyQueue, Embryonic, Synchronized, States, ConnInv
  <2> QED
    BY <1>2, <2>5, <2>7, <2>9, <2>13 DEF Handled
\* A SYN alone: both ends have opened at once
<1>5. Handled(c, g)
  <2>1. /\ c3 \in Conn /\ c3.fsm = c.fsm /\ c3.active = c.active /\ c3.send_fin = c.send_fin
        /\ c3.timers = c.timers /\ c3.app = c.app /\ c3.failed = c.failed /\ c3.iss = c.iss
        /\ c3.snd_una = c.snd_una /\ c3.q_end = c.q_end
    <3>1. c3 \in Conn
      BY <1>1, <1>3 DEF Conn
    <3> QED
      BY <1>1, <1>3, <3>1 DEF Conn
  <2> HIDE DEF c3
  <2>2. AfterSyn(c3, a)
    BY <2>1, SendSynFacts
  <2> HIDE DEF a
  <2>3. /\ t \in Conn /\ SameStreams(a, t) /\ t.fsm = a.fsm /\ t.active = a.active
        /\ t.send_fin = a.send_fin /\ t.timers = a.timers \cup {"synRexmit"}
        /\ t.failed = a.failed /\ t.app = a.app
    BY <2>2, SynRexmitTimerStart DEF AfterSyn
  <2> HIDE DEF t
  <2>4. /\ g \in Conn /\ g.event = "RCV_SYN" /\ SameStreams(t, g) /\ g.fsm = t.fsm
        /\ g.active = t.active /\ g.send_fin = t.send_fin /\ g.timers = t.timers
        /\ g.app = t.app /\ g.failed = t.failed
    BY <2>3, RaiseAlike DEF Events
  <2> HIDE DEF g
  <2>5. /\ g.fsm = "SYN_SENT" /\ g.active = c.active /\ g.send_fin = c.send_fin
        /\ g.timers = c.timers \cup {"synRexmit"} /\ g.app = c.app /\ g.failed = c.failed
        /\ g.snd_una = c.snd_una /\ g.snd_max = c.snd_max /\ g.q_end = c.q_end
        /\ g.snd_max = g.iss + 1
    BY <1>2, <2>1, <2>2, <2>3, <2>4 DEF AfterSyn, SameStreams
  <2>6. NextState(g) = "SYN_RCVD"
    BY <2>4, <2>5, NextStateTable
  <2>7. ReadyTimers(g) /\ ReadyQueue(g)
    BY <1>2, <2>5, <2>6 DEF ReadyTimers, ReadyQueue, SentInOrder, Embryonic
  <2>8. ReadySocket(g)
    BY <2>5, <2>6 DEF ReadySocket, SocketFits, ConnInv, SocketMatches, Embryonic
  <2> QED
    BY <1>2, <2>4, <2>5, <2>7, <2>8 DEF Handled, Ready, ConnInv
<1>6. Handled(c, r)
  <2>1. "CONNECTION_RESET" \in Indications /\ "CONNECTION_RESET" \in Errors
    BY DEF Indications, Errors
  <2>2. /\ ir \in Conn /\ SameStreams(c, ir) /\ ir.fsm = c.fsm /\ ir.active = c.active
        /\ ir.send_fin = c.send_fin /\ ir.timers = c.timers /\ ir.failed = c.failed
        /\ ir.app = Told(c.app, "CONNECTION_RESET") /\ ir.app.closed = c.app.closed
    BY <2>1, IndicateFacts
  <2>3. Told(c.app, "CONNECTION_RESET").sock = "SOCKERROR"
    BY <2>1, ToldType DEF Conn
  <2> HIDE DEF ir
  <2>4. /\ r \in Conn /\ r.event = "RCV_RST" /\ SameStreams(ir, r) /\ r.fsm = ir.fsm
        /\ r.active = ir.active /\ r.send_fin = ir.send_fin /\ r.timers = ir.timers
        /\ r.app = ir.app /\ r.failed = ir.failed
    BY <2>2, RaiseAlike DEF Events
  <2> HIDE DEF r
  <2>5. SameStreams(c, r)
    BY <2>2, <2>4 DEF SameStreams
  <2> QED
    BY <2>2, <2>3, <2>4, <2>5, OriginReady DEF Embryonic
<1>7. Handled(c, SendRst(c, s.ack)) /\ Handled(c, c)
  BY <1>1, SendRstHandled, NothingHandled
<1> QED
  BY <1>4, <1>5, <1>6, <1>7
     DEF ProcessSegmentInSynSent, d, i, e, c2, u, g, t, a, c3, r, ir, c1

-----------------------------------------------------------------------------
(* RST, and the states that follow the handshake *)

\* A reset leaves no connection, or a listener.
LEMMA RstHandled ==
  ASSUME NEW c \in Conn, ConnInv(c), c.fsm \in Synchronized \cup {"SYN_RCVD"}
  PROVE  Handled(c, ProcessRst(c))
<1> DEFINE told == {"ESTABLISHED", "FIN_WAIT_1", "FIN_WAIT_2", "CLOSE_WAIT"}
           c1 == [c EXCEPT !.q_begin = c.q_end]
           i1 == IF c.active THEN Indicate(c1, "CONNECTION_REFUSED") ELSE c1
           d1 == Raise(i1, "RCV_RST")
           i2 == Indicate(c, "CONNECTION_RESET")
           d2 == Raise(i2, "RCV_RST")
           d3 == Raise(c, "RCV_RST")
<1>1. /\ "CONNECTION_RESET" \in Indications /\ "CONNECTION_RESET" \in Errors
      /\ "CONNECTION_REFUSED" \in Indications /\ "CONNECTION_REFUSED" \in Errors
  BY DEF Indications, Errors
<1>2. /\ Told(c.app, "CONNECTION_RESET").sock = "SOCKERROR"
      /\ Told(c.app, "CONNECTION_REFUSED").sock = "SOCKERROR"
  BY <1>1, ToldType DEF Conn
<1>3. CASE c.fsm = "SYN_RCVD"
  <2>1. ProcessRst(c) = d1
    BY <1>3 DEF ProcessRst
  <2>2. /\ c1 \in Conn /\ SameStreams(c, c1) /\ c1.fsm = c.fsm /\ c1.active = c.active
        /\ c1.send_fin = c.send_fin /\ c1.app = c.app /\ c1.failed = c.failed
        /\ c1.timers = c.timers
    <3>1. c1 \in Conn
      BY DEF Conn
    <3> QED
      BY <3>1 DEF Conn, SameStreams
  <2> HIDE DEF c1
  <2>3. /\ i1 \in Conn /\ SameStreams(c, i1) /\ i1.fsm = c.fsm /\ i1.active = c.active
        /\ i1.send_fin = c.send_fin /\ i1.timers = c.timers /\ i1.failed = c.failed
        /\ i1.app.closed = c.app.closed
        /\ i1.app.sock = c.app.sock \/ i1.app.sock = "SOCKERROR"
    <3>1. CASE c.active
      <4>1. /\ i1 \in Conn /\ SameStreams(c1, i1) /\ i1.fsm = c1.fsm /\ i1.active = c1.active
            /\ i1.send_fin = c1.send_fin /\ i1.timers = c1.timers /\ i1.failed = c1.failed
            /\ i1.app = Told(c1.app, "CONNECTION_REFUSED") /\ i1.app.closed = c1.app.closed
        BY <1>1, <2>2, <3>1, IndicateFacts
      <4> HIDE DEF i1
      <4> QED
        BY <1>2, <2>2, <4>1 DEF SameStreams
    <3>2. CASE ~c.active
      BY <2>2, <3>2
    <3> QED
      BY <3>1, <3>2
  <2> HIDE DEF i1
  <2>4. /\ d1 \in Conn /\ d1.event = "RCV_RST" /\ SameStreams(i1, d1) /\ d1.fsm = i1.fsm
        /\ d1.active = i1.active /\ d1.send_fin = i1.send_fin /\ d1.timers = i1.timers
        /\ d1.app = i1.app /\ d1.failed = i1.failed
    BY <2>3, RaiseAlike DEF Events
  <2> HIDE DEF d1
  <2>5. SameStreams(c, d1)
    BY <2>3, <2>4 DEF SameStreams
  <2> QED
    BY <1>3, <2>1, <2>3, <2>4, <2>5, OriginReady DEF Embryonic
<1>4. ASSUME NEW d \in Conn, SameStreams(c, d), d.fsm = c.fsm, d.active = c.active,
             d.send_fin = c.send_fin, d.timers = c.timers, d.failed = c.failed,
             d.app.closed = c.app.closed, d.event = "RCV_RST", c.fsm \in Synchronized,
             d.app.sock = "SOCKERROR" \/ (c.fsm \notin told /\ d.app = c.app)
      PROVE  Handled(c, d)
  <2>1. Progress(c, d)
    BY <1>4 DEF Progress, SameStreams, SentInOrder, Conn
  <2>2. NextState(d) \in {"CLOSED"}
    <3>1. d.fsm \in Synchronized
      BY <1>4
    <3> QED
      BY <1>4, <3>1, SMTT(30) DEF NextState, Transitions, Synchronized, States
  <2>3. ReadySocket(d)
    BY <1>4, <2>2 DEF ReadySocket, SocketFits, ConnInv, SocketMatches, Synchronized, Embryonic,
                      States
  <2> QED
    BY <1>4, <2>1, <2>3, ProgressHandled
<1>5. CASE c.fsm \in told
  <2>1. ProcessRst(c) = d2
    BY <1>5 DEF ProcessRst
  <2>2. /\ i2 \in Conn /\ SameStreams(c, i2) /\ i2.fsm = c.fsm /\ i2.active = c.active
        /\ i2.send_fin = c.send_fin /\ i2.timers = c.timers /\ i2.failed = c.failed
        /\ i2.app = Told(c.app, "CONNECTION_RESET") /\ i2.app.closed = c.app.closed
    BY <1>1, IndicateFacts
  <2> HIDE DEF i2
  <2>3. /\ d2 \in Conn /\ d2.event = "RCV_RST" /\ SameStreams(i2, d2) /\ d2.fsm = i2.fsm
        /\ d2.active = i2.active /\ d2.send_fin = i2.send_fin /\ d2.timers = i2.timers
        /\ d2.app = i2.app /\ d2.failed = i2.failed
    BY <2>2, RaiseAlike DEF Events
  <2> HIDE DEF d2
  <2>4. SameStreams(c, d2) /\ c.fsm \in Synchronized
    BY <1>5, <2>2, <2>3 DEF SameStreams, Synchronized, States
  <2> QED
    BY <1>2, <1>4, <2>1, <2>2, <2>3, <2>4
<1>6. CASE c.fsm \notin told /\ c.fsm # "SYN_RCVD"
  <2>1. ProcessRst(c) = d3
    BY <1>6 DEF ProcessRst
  <2>2. /\ d3 \in Conn /\ d3.event = "RCV_RST" /\ SameStreams(c, d3) /\ d3.fsm = c.fsm
        /\ d3.active = c.active /\ d3.send_fin = c.send_fin /\ d3.timers = c.timers
        /\ d3.app = c.app /\ d3.failed = c.failed
    BY RaiseAlike DEF Events
  <2> HIDE DEF d3, told
  <2> QED
    BY <1>4, <1>6, <2>1, <2>2
<1> QED
  BY <1>3, <1>5, <1>6

\* A SYN in the window.
LEMMA UnexpectedSynHandled ==
  ASSUME NEW c \in Conn, ConnInv(c), c.fsm \in Synchronized \cup {"SYN_RCVD"}
  PROVE  Handled(c, Raise(Indicate(c, "CONNECTION_RESET"), "RCV_UNEXP_SYN"))
<1> DEFINE i == Indicate(c, "CONNECTION_RESET")
           d == Raise(i, "RCV_UNEXP_SYN")
<1>1. "CONNECTION_RESET" \in Indications /\ "CONNECTION_RESET" \in Errors
  BY DEF Indications, Errors
<1>2. Told(c.app, "CONNECTION_RESET").sock = "SOCKERROR"
  BY <1>1, ToldType DEF Conn
<1>3. /\ i \in Conn /\ SameStreams(c, i) /\ i.fsm = c.fsm /\ i.active = c.active
      /\ i.send_fin = c.send_fin /\ i.timers = c.timers /\ i.failed = c.failed
      /\ i.app = Told(c.app, "CONNECTION_RESET") /\ i.app.closed = c.app.closed
  BY <1>1, IndicateFacts
<1> HIDE DEF i
<1>4. /\ d \in Conn /\ d.event = "RCV_UNEXP_SYN" /\ SameStreams(i, d) /\ d.fsm = i.fsm
      /\ d.active = i.active /\ d.send_fin = i.send_fin /\ d.timers = i.timers
      /\ d.app = i.app /\ d.failed = i.failed
  BY <1>3, RaiseAlike DEF Events
<1> HIDE DEF d
<1>5. SameStreams(c, d)
  BY <1>3, <1>4 DEF SameStreams
<1>6. NextState(d) = "CLOSED" /\ Leaves(d)
  BY <1>3, <1>4, SMTT(30) DEF NextState, Transitions, Leaves, Synchronized, States
<1>7. ReadySocket(d)
  BY <1>2, <1>3, <1>4 DEF ReadySocket, SocketFits, ConnInv, SocketMatches
<1>8. Ready(d)
  BY <1>3, <1>4, <1>6, <1>7 DEF Ready, ReadyTimers, ReadyQueue, Embryonic, Synchronized, ConnInv
<1> QED
  BY <1>3, <1>4, <1>5, <1>8 DEF Handled, SameStreams, Conn, d, i

-----------------------------------------------------------------------------
(* Steps five to eight: the ACK, the text and the FIN *)

\* What these steps may do: make progress, leave the socket as it is and raise the events
\* of an ACK, of a FIN or of a CLOSE that was deferred.
Steps(c, d) ==
  /\ d \in Conn /\ Progress(c, d)
  /\ d.app.sock = c.app.sock /\ d.app.closed = c.app.closed
  /\ \/ d.event = c.event
     \/ d.event \in {"RCV_ACK", "RCV_FIN"}
     \/ d.event = "RCV_FIN_ACK" /\ d.fsm = "FIN_WAIT_1"
     \/ d.event = "CLOSE" /\ d.send_fin

\* A quiet step is one of them.
LEMMA QuietIsSteps ==
  ASSUME NEW c, NEW d, Quiet(c, d)
  PROVE  Steps(c, d)
BY DEF Steps, Quiet

\* They compose.
LEMMA StepsTransitive ==
  ASSUME NEW c \in Conn, NEW d, NEW f, Steps(c, d), Steps(d, f)
  PROVE  Steps(c, f)
<1>1. Progress(c, f)
  BY DEF Steps, Progress, SentInOrder, Conn
<1> QED
  BY <1>1 DEF Steps, Progress

\* Raising such an event is one of them.
LEMMA RaiseSteps ==
  ASSUME NEW c \in Conn, NEW ev \in Events,
         \/ ev \in {"RCV_ACK", "RCV_FIN"}
         \/ ev = "RCV_FIN_ACK" /\ c.fsm = "FIN_WAIT_1"
         \/ ev = "CLOSE" /\ c.send_fin
  PROVE  Steps(c, Raise(c, ev))
<1> DEFINE d == Raise(c, ev)
<1>1. /\ d \in Conn /\ d.event = ev /\ SameStreams(c, d) /\ d.fsm = c.fsm
      /\ d.active = c.active /\ d.send_fin = c.send_fin /\ d.timers = c.timers
      /\ d.app = c.app /\ d.failed = c.failed
  BY RaiseAlike
<1> HIDE DEF d
<1>2. Progress(c, d)
  BY <1>1 DEF Progress, SameStreams, SentInOrder, Conn
<1> QED
  BY <1>1, <1>2 DEF Steps, d

\* In a synchronized state they leave the connection ready for the state machine.
LEMMA StepsHandled ==
  ASSUME NEW c \in Conn, ConnInv(c), c.fsm \in Synchronized, NEW d, Steps(c, d)
  PROVE  Handled(c, d)
<1>1. d \in Conn /\ Progress(c, d) /\ d.fsm = c.fsm /\ d.send_fin = c.send_fin /\ d.active = c.active
  BY DEF Steps, Progress
<1>2. CASE c.app.closed
  <2>1. ReadySocket(d)
    BY <1>2 DEF ReadySocket, Steps
  <2> QED
    BY <1>1, <2>1, ProgressHandled
<1>3. CASE ~c.app.closed
  <2>1. ~d.send_fin /\ SocketFits(c.app.sock, c.fsm, c.active)
    BY <1>1, <1>3 DEF ConnInv, SocketMatches
  <2>2. c.event = "IGNORE" /\ c.fsm \notin Embryonic /\ c.fsm # "LISTEN"
    BY DEF ConnInv, Synchronized, Embryonic
  <2>3. CASE c.app.sock \notin {"LISTENING", "CONNECTING", "CONNECTED", "PEER_CLOSED"}
    BY <1>1, <2>1, <2>3, ProgressHandled DEF ReadySocket, SocketFits, Steps
  <2>4. CASE c.fsm \in {"ESTABLISHED", "CLOSE_WAIT"}
    <3>1. d.event \in {"IGNORE", "RCV_ACK", "RCV_FIN"}
      BY <1>1, <2>1, <2>2, <2>4 DEF Steps
    <3>2. d.event = "IGNORE" => NextState(d) = d.fsm
      BY <1>1, IgnoreStays
    <3>3. \/ NextState(d) = c.fsm
          \/ NextState(d) = "CLOSE_WAIT" /\ c.fsm = "ESTABLISHED"
      BY <1>1, <2>4, <3>1, <3>2, NextStateTable
    <3>4. ReadySocket(d)
      BY <1>1, <2>1, <3>3 DEF ReadySocket, Leaves, Steps
    <3> QED
      BY <1>1, <3>4, ProgressHandled
  <2> QED
    BY <2>1, <2>2, <2>3, <2>4 DEF SocketFits, Embryonic
<1> QED
  BY <1>2, <1>3

\* The ACK of something that was sent.
LEMMA ProcessAckQuiet ==
  ASSUME NEW c \in Conn, SentInOrder(c), NEW s \in Segment, s.ack <= c.snd_max
  PROVE  Quiet(c, ProcessAck(c, s))
<1> DEFINE finAcked == c.send_fin /\ s.ack = c.snd_fin_seq + 1
           upTo == IF finAcked THEN s.ack - 1 ELSE s.ack
           nxt == Greater(c.snd_nxt, s.ack)
           c1 == [c EXCEPT !.snd_una = s.ack, !.snd_nxt = nxt,
                           !.fin_ack_rcvd = @ \/ finAcked]
           c2 == DiscardUpTo(c1, upTo)
<1>1. s.ack \in Nat /\ nxt \in Nat
  BY DEF Segment, Greater, Conn
<1>2. finAcked => c.snd_fin_seq \in Nat /\ s.ack - 1 = c.snd_fin_seq
  BY DEF Conn
<1>3. upTo \in Nat
  BY <1>1, <1>2
<1>4. CASE s.ack <= c.snd_una
  <2>1. Quiet(c, c)
    BY DEF Quiet, Progress, Conn
  <2> QED
    BY <1>4, <2>1 DEF ProcessAck
<1>5. CASE ~(s.ack <= c.snd_una)
  <2>1. c.snd_una <= s.ack /\ c.snd_una \in Nat
    BY <1>1, <1>5 DEF Conn
  <2>2. (c.fin_ack_rcvd \/ finAcked) \in BOOLEAN
    PROOF OBVIOUS
  <2> HIDE DEF nxt, finAcked
  <2>3. c1 \in Conn
    BY <1>1, <2>2 DEF Conn
  <2>4. /\ c1.fsm = c.fsm /\ c1.active = c.active /\ c1.send_fin = c.send_fin
        /\ c1.iss = c.iss /\ c1.timers = c.timers /\ c1.rcv_nxt = c.rcv_nxt
        /\ c1.snd_una = s.ack /\ c1.snd_max = c.snd_max /\ c1.q_end = c.q_end
        /\ c1.failed = c.failed /\ c1.app = c.app /\ c1.event = c.event
    BY DEF Conn
  <2> HIDE DEF c1, upTo
  <2>5. Quiet(c, c1)
    BY <2>1, <2>3, <2>4 DEF Quiet, Progress, SentInOrder, Conn
  <2>6. Quiet(c, c2) /\ c2 \in Conn
    BY <1>3, <2>3, <2>5, DiscardUpToQuiet, QuietTransitive DEF Quiet
  <2> HIDE DEF c2
  <2>7. Quiet(c, ReceivedDataAck(c2))
    BY <2>6, ReceivedDataAckQuiet, QuietTransitive
  <2> QED
    BY <1>5, <2>6, <2>7 DEF ProcessAck, c2, c1, upTo, finAcked, nxt
<1> QED
  BY <1>4, <1>5

\* rcv_nxt moves over the FIN.
LEMMA ConsumeFinSteps ==
  ASSUME NEW c \in Conn
  PROVE  Steps(c, ConsumeFin(c))
<1> DEFINE last == c.fsm = "FIN_WAIT_1" /\ c.fin_ack_rcvd
           ev == IF last THEN "RCV_FIN_ACK" ELSE "RCV_FIN"
           b == [c EXCEPT !.rcv_nxt = @ + 1]
           d == Raise(b, ev)
<1>1. Quiet(c, b) /\ b \in Conn /\ b.fsm = c.fsm
  <2>1. b \in Conn
    BY DEF Conn
  <2>2. /\ b.fsm = c.fsm /\ b.active = c.active /\ b.send_fin = c.send_fin
        /\ b.iss = c.iss /\ b.timers = c.timers /\ b.rcv_nxt = c.rcv_nxt + 1
        /\ b.snd_una = c.snd_una /\ b.snd_max = c.snd_max /\ b.q_end = c.q_end
        /\ b.failed = c.failed /\ b.app = c.app /\ b.event = c.event
    BY DEF Conn
  <2> HIDE DEF b
  <2> QED
    BY <2>1, <2>2 DEF Quiet, Progress, SentInOrder, Conn
<1> HIDE DEF b
<1>2. Steps(b, d)
  <2>1. ev \in Events /\ (ev = "RCV_FIN" \/ (ev = "RCV_FIN_ACK" /\ b.fsm = "FIN_WAIT_1"))
    BY <1>1 DEF Events
  <2> HIDE DEF ev
  <2> QED
    BY <1>1, <2>1, RaiseSteps
<1>3. Steps(c, d) /\ d \in Conn
  BY <1>1, <1>2, QuietIsSteps, StepsTransitive DEF Steps
<1> HIDE DEF d
<1>4. Steps(d, StartTimer(d, "2msl"))
  BY <1>3, StartTimerQuiet, QuietIsSteps DEF Timers, HandshakeTimers
<1>5. Steps(c, StartTimer(d, "2msl"))
  BY <1>3, <1>4, StepsTransitive
<1> QED
  BY <1>3, <1>5 DEF ConsumeFin, d, b

\* The receive queue hands over a natural number of units.
LEMMA InSequenceType ==
  ASSUME NEW from \in Nat, NEW data \in SUBSET Nat
  PROVE  InSequence(from, data) \in Nat
<1> DEFINE units == {i \in 0 .. Wnd - 1 : \A j \in 0 .. i : from + j \in data}
<1>1. IsFiniteSet(0 .. Wnd - 1)
  BY ConnectionAssumption, FS_Interval
<1>2. IsFiniteSet(units)
  BY <1>1, FS_Subset
<1> QED
  BY <1>2, FS_CardinalityType DEF InSequence

\* Step seven.
LEMMA ProcessTextSteps ==
  ASSUME NEW c \in Conn, NEW s \in Segment, NEW old \in Nat
  PROVE  Steps(c, ProcessText(c, s, old))
<1> DEFINE data == c.buf \cup {s.seq}
           n == InSequence(c.rcv_nxt, data)
           buf == {x \in data : x >= c.rcv_nxt + n}
           c1 == [c EXCEPT !.rcv_nxt = @ + n, !.buf = buf]
           c2 == IF c.snd_una > old THEN ReceivedDataAck(c1) ELSE c1
           app == [c2.app EXCEPT !.got = @ + n]
           c3 == [c2 EXCEPT !.app.got = @ + n]
<1>1. c.rcv_nxt \in Nat /\ data \in SUBSET Nat
  BY DEF Conn, Segment
<1>2. n \in Nat
  BY <1>1, InSequenceType
<1>3. buf \in SUBSET Nat
  BY <1>1
<1> HIDE DEF n, buf
<1>4. Quiet(c, c1) /\ c1 \in Conn
  <2>0. c.rcv_nxt + n \in Nat
    BY <1>1, <1>2
  <2>1. c1 \in Conn
    BY <1>3, <2>0 DEF Conn
  <2>2. /\ c1.fsm = c.fsm /\ c1.active = c.active /\ c1.send_fin = c.send_fin
        /\ c1.iss = c.iss /\ c1.timers = c.timers /\ c1.rcv_nxt = c.rcv_nxt + n
        /\ c1.snd_una = c.snd_una /\ c1.snd_max = c.snd_max /\ c1.q_end = c.q_end
        /\ c1.failed = c.failed /\ c1.app = c.app /\ c1.event = c.event
    BY DEF Conn
  <2> HIDE DEF c1
  <2> QED
    BY <1>2, <2>1, <2>2 DEF Quiet, Progress, SentInOrder, Conn
<1> HIDE DEF c1
<1>5. Quiet(c, c2) /\ c2 \in Conn
  BY <1>4, ReceivedDataAckQuiet, QuietTransitive DEF Quiet
<1> HIDE DEF c2
<1>6. app \in App /\ app.sock = c2.app.sock /\ app.closed = c2.app.closed
  <2>1. c2.app \in App
    BY <1>5 DEF Conn
  <2> QED
    BY <1>2, <2>1 DEF App
<1> HIDE DEF app
<1>7. Steps(c, c3) /\ c3 \in Conn
  <2>0. c3 = [c2 EXCEPT !.app = app]
    BY <1>5 DEF app, Conn, App
  <2>1. c3 \in Conn
    BY <1>5, <1>6, <2>0 DEF Conn
  <2>2. /\ c3.fsm = c2.fsm /\ c3.active = c2.active /\ c3.send_fin = c2.send_fin
        /\ c3.iss = c2.iss /\ c3.timers = c2.timers /\ c3.rcv_nxt = c2.rcv_nxt
        /\ c3.snd_una = c2.snd_una /\ c3.snd_max = c2.snd_max /\ c3.q_end = c2.q_end
        /\ c3.failed = c2.failed /\ c3.app = app /\ c3.event = c2.event
    BY <1>5, <2>0 DEF Conn
  <2> HIDE DEF c3
  <2>3. Progress(c, c3)
    BY <1>5, <2>1, <2>2 DEF Quiet, Progress, SentInOrder
  <2> QED
    BY <1>5, <1>6, <2>1, <2>2, <2>3 DEF Steps, Quiet
<1>8. Steps(c, SendAck(c2))
  BY <1>5, SendAckQuiet, QuietTransitive, QuietIsSteps
<1> HIDE DEF c3
<1>9. Steps(c, ConsumeFin(c3))
  BY <1>7, ConsumeFinSteps, StepsTransitive
<1>10. Steps(c, c)
  BY DEF Steps, Progress, Conn
<1> QED
  BY <1>7, <1>8, <1>9, <1>10 DEF ProcessText, c3, c2, c1, n, buf, app

\* Step eight.
LEMMA ProcessFinSteps ==
  ASSUME NEW c \in Conn, NEW s \in Segment
  PROVE  Steps(c, ProcessFin(c, s))
<1> DEFINE fin_seq == s.seq + s.len
           d == [c EXCEPT !.fin_rcvd = TRUE, !.rcv_fin_seq = fin_seq]
<1>1. fin_seq \in Nat
  BY DEF Segment
<1> HIDE DEF fin_seq
<1>2. Steps(c, d)
  <2>1. d \in Conn
    BY <1>1 DEF Conn
  <2> QED
    BY <2>1 DEF Steps, Progress, SentInOrder, Conn
<1>3. Steps(c, c)
  BY DEF Steps, Progress, Conn
<1> QED
  BY <1>2, <1>3, ConsumeFinSteps DEF ProcessFin, fin_seq

\* The ACK for what was received, and the CLOSE that was waiting.
LEMMA LastSteps ==
  ASSUME NEW c \in Conn, NEW nxt
  PROVE  Steps(c, ReceiveSeqChanged(c)) /\ Steps(c, DeferredClose(c, nxt))
<1>1. Steps(c, c)
  BY DEF Steps, Progress, Conn
<1>2. Steps(c, SendAck(c))
  BY SendAckQuiet, QuietIsSteps
<1>3. c.send_fin => Steps(c, Raise(c, "CLOSE"))
  BY RaiseSteps DEF Events
<1> QED
  BY <1>1, <1>2, <1>3 DEF ReceiveSeqChanged, DeferredClose

\* ProcessAckTextFin() from where SYN_RCVD has been dealt with: c1 is c, or c established.
Rest(c, c1, s) ==
  LET c2 == IF c.fsm = "TIME_WAIT" THEN StartTimer(SendAck(c1), "2msl") ELSE ProcessAck(c1, s)
      c3 == IF c2.fin_ack_rcvd /\ c.fsm = "FIN_WAIT_1" THEN Raise(c2, "RCV_ACK")
            ELSE IF c2.fin_ack_rcvd /\ c.fsm = "CLOSING"
              THEN Raise(StartTimer(c2, "2msl"), "RCV_ACK")
            ELSE c2
      c4 == ProcessFin(ProcessText(c3, s, c.snd_una), s)
      c5 == IF c4.rcv_nxt # c.rcv_nxt THEN ReceiveSeqChanged(c4) ELSE c4
  IN IF c.fsm = "LAST_ACK" /\ c.send_fin /\ s.ack = c.snd_fin_seq + 1 THEN Raise(c2, "RCV_ACK")
     ELSE DeferredClose(c5, c.snd_nxt)

\* Whatever the rest of the steps does is one of Steps().
LEMMA RestSteps ==
  ASSUME NEW c \in Conn, NEW c1 \in Conn, NEW s \in Segment, SentInOrder(c1),
         c.fsm # "TIME_WAIT" => s.ack <= c1.snd_max
  PROVE  Steps(c1, Rest(c, c1, s))
<1> DEFINE c2 == IF c.fsm = "TIME_WAIT" THEN StartTimer(SendAck(c1), "2msl")
                 ELSE ProcessAck(c1, s)
           c3 == IF c2.fin_ack_rcvd /\ c.fsm = "FIN_WAIT_1" THEN Raise(c2, "RCV_ACK")
                 ELSE IF c2.fin_ack_rcvd /\ c.fsm = "CLOSING"
                   THEN Raise(StartTimer(c2, "2msl"), "RCV_ACK")
                 ELSE c2
           t == ProcessText(c3, s, c.snd_una)
           c4 == ProcessFin(t, s)
           c5 == IF c4.rcv_nxt # c.rcv_nxt THEN ReceiveSeqChanged(c4) ELSE c4
<1>1. ASSUME NEW d \in Conn
      PROVE  Steps(d, StartTimer(d, "2msl")) /\ StartTimer(d, "2msl") \in Conn
  BY StartTimerQuiet, QuietIsSteps DEF Timers, HandshakeTimers, Steps
<1>2. ASSUME NEW d \in Conn
      PROVE  Steps(d, Raise(d, "RCV_ACK"))
  BY RaiseSteps DEF Events
<1>3. Steps(c1, c2) /\ c2 \in Conn
  <2>1. Steps(c1, SendAck(c1)) /\ SendAck(c1) \in Conn
    BY SendAckQuiet, QuietIsSteps DEF Steps
  <2>2. Steps(c1, StartTimer(SendAck(c1), "2msl"))
    BY <1>1, <2>1, StepsTransitive
  <2>3. c.fsm # "TIME_WAIT" => Steps(c1, ProcessAck(c1, s))
    BY ProcessAckQuiet, QuietIsSteps
  <2> QED
    BY <2>2, <2>3 DEF Steps
<1> HIDE DEF c2
<1>4. Steps(c1, Raise(c2, "RCV_ACK"))
  BY <1>2, <1>3, StepsTransitive
<1>5. Steps(c1, c3) /\ c3 \in Conn
  <2>1. Steps(c1, StartTimer(c2, "2msl"))
    BY <1>1, <1>3, StepsTransitive
  <2>2. Steps(c1, Raise(StartTimer(c2, "2msl"), "RCV_ACK"))
    BY <1>1, <1>2, <1>3, <2>1, StepsTransitive
  <2> QED
    BY <1>3, <1>4, <2>2 DEF Steps
<1> HIDE DEF c3
<1>6. Steps(c1, t) /\ t \in Conn
  <2>1. c.snd_una \in Nat
    BY DEF Conn
  <2> QED
    BY <1>5, <2>1, ProcessTextSteps, StepsTransitive DEF Steps
<1> HIDE DEF t
<1>7. Steps(c1, c4) /\ c4 \in Conn
  BY <1>6, ProcessFinSteps, StepsTransitive DEF Steps
<1> HIDE DEF c4
<1>8. Steps(c1, c5) /\ c5 \in Conn
  BY <1>7, LastSteps, StepsTransitive DEF Steps
<1> HIDE DEF c5
<1>9. Steps(c1, DeferredClose(c5, c.snd_nxt))
  BY <1>8, LastSteps, StepsTransitive
<1> QED
  BY <1>4, <1>9 DEF Rest, c5, c4, t, c3, c2

\* The ACK that completes the handshake, and what comes with it.
LEMMA EstablishingHandled ==
  ASSUME NEW c \in Conn, ConnInv(c), c.fsm = "SYN_RCVD", NEW d,
         Steps(Raise(Indicate(Established(c, FALSE), "ESTABLISHED"), "RCV_ACK"), d)
  PROVE  Handled(c, d)
<1> DEFINE e == Established(c, FALSE)
           i == Indicate(e, "ESTABLISHED")
           c1 == Raise(i, "RCV_ACK")
<1>1. Quiet(c, e) /\ e \in Conn
  BY EstablishedQuiet DEF Quiet
<1> HIDE DEF e
<1>2. "ESTABLISHED" \in Indications
  BY DEF Indications
<1>3. /\ i \in Conn /\ SameStreams(e, i) /\ i.fsm = e.fsm /\ i.active = e.active
      /\ i.send_fin = e.send_fin /\ i.failed = e.failed
      /\ i.app.closed = e.app.closed /\ i.app.sock = "CONNECTED"
  BY <1>1, <1>2, IndicateFacts, ToldType DEF Conn
<1> HIDE DEF i
<1>4. /\ c1 \in Conn /\ c1.event = "RCV_ACK" /\ SameStreams(i, c1) /\ c1.fsm = i.fsm
      /\ c1.active = i.active /\ c1.send_fin = i.send_fin
      /\ c1.app = i.app /\ c1.failed = i.failed
  BY <1>3, RaiseAlike DEF Events
<1>5. Steps(c1, d)
  BY DEF c1, i, e
<1> HIDE DEF c1
<1>6. /\ d \in Conn /\ d.fsm = "SYN_RCVD" /\ SentInOrder(d)
      /\ ("command" \in d.failed => "command" \in c.failed)
      /\ d.send_fin = c.send_fin /\ d.app.closed = c.app.closed /\ d.app.sock = "CONNECTED"
  <2>1. SentInOrder(c)
    BY DEF ConnInv, SentIsQueued, Embryonic
  <2>2. SentInOrder(c1) /\ ("command" \in c1.failed => "command" \in c.failed)
    BY <1>1, <1>3, <1>4, <2>1 DEF Quiet, Progress, SentInOrder, SameStreams
  <2>3. /\ c1.fsm = "SYN_RCVD" /\ c1.send_fin = c.send_fin /\ c1.app.closed = c.app.closed
        /\ c1.app.sock = "CONNECTED"
    BY <1>1, <1>3, <1>4 DEF Quiet, Progress
  <2>4. d \in Conn /\ d.app.closed = c1.app.closed /\ d.app.sock = c1.app.sock
    BY <1>5 DEF Steps
  <2>5. /\ d.fsm = c1.fsm /\ d.send_fin = c1.send_fin /\ SentInOrder(d)
        /\ "command" \in d.failed => "command" \in c.failed
    BY <1>5, <2>2 DEF Steps, Progress
  <2> QED
    BY <2>3, <2>4, <2>5
<1>7. d.event \in {"RCV_ACK", "RCV_FIN"} \/ (d.event = "CLOSE" /\ d.send_fin)
  BY <1>4, <1>5, <1>6 DEF Steps
<1>8. /\ Leaves(d)
      /\ \/ NextState(d) \in {"ESTABLISHED", "CLOSE_WAIT"}
         \/ NextState(d) = "FIN_WAIT_1" /\ d.send_fin
  BY <1>6, <1>7, NextStateTable DEF Leaves
<1>9. ReadySocket(d)
  BY <1>6, <1>8 DEF ReadySocket, SocketFits, ConnInv, SocketMatches
<1>10. ReadyTimers(d) /\ ReadyQueue(d)
  BY <1>6, <1>8 DEF ReadyTimers, ReadyQueue, Embryonic, Synchronized, States
<1> QED
  BY <1>6, <1>9, <1>10 DEF Handled, Ready, Synchronized

\* Steps five to eight.
LEMMA AckTextFinHandled ==
  ASSUME NEW c \in Conn, ConnInv(c), c.fsm \in Synchronized \cup {"SYN_RCVD"},
         NEW s \in Segment, c.fsm # "TIME_WAIT" => s.ack <= c.snd_max
  PROVE  Handled(c, ProcessAckTextFin(c, s))
<1>1. SentInOrder(c)
  BY DEF ConnInv, SentIsQueued, Embryonic
<1>2. CASE c.fsm # "SYN_RCVD"
  <2>1. ProcessAckTextFin(c, s) = Rest(c, c, s)
    BY <1>2 DEF ProcessAckTextFin, Rest
  <2> QED
    BY <1>1, <1>2, <2>1, RestSteps, StepsHandled
<1>3. CASE c.fsm = "SYN_RCVD"
  <2> DEFINE e == Established(c, FALSE)
             i == Indicate(e, "ESTABLISHED")
             c1 == Raise(i, "RCV_ACK")
  <2>1. ProcessAckTextFin(c, s) = Rest(c, c1, s)
    BY <1>3 DEF ProcessAckTextFin, Rest
  <2>2. Quiet(c, e) /\ e \in Conn
    BY EstablishedQuiet DEF Quiet
  <2> HIDE DEF e
  <2>3. i \in Conn /\ SameStreams(e, i)
    BY <2>2, IndicateFacts DEF Indications
  <2> HIDE DEF i
  <2>4. c1 \in Conn /\ SameStreams(i, c1)
    BY <2>3, RaiseAlike DEF Events
  <2> HIDE DEF c1
  <2>5. SentInOrder(c1) /\ c.snd_max <= c1.snd_max
    BY <1>1, <2>2, <2>3, <2>4 DEF SameStreams, Quiet, Progress, SentInOrder
  <2>6. s.ack <= c1.snd_max
    BY <1>3, <2>4, <2>5 DEF Segment, Conn
  <2>7. Steps(c1, Rest(c, c1, s))
    BY <2>4, <2>5, <2>6, RestSteps
  <2> QED
    BY <1>3, <2>1, <2>7, EstablishingHandled DEF c1, i, e
<1> QED
  BY <1>2, <1>3

\* Steps one to eight: a segment in any state after SYN_SENT.
LEMMA SegmentStepsHandled ==
  ASSUME NEW c \in Conn, ConnInv(c), c.fsm \in Synchronized \cup {"SYN_RCVD"}, NEW s \in Segment
  PROVE  Handled(c, ProcessSegment1stThru8th(c, s))
<1>1. s.ack \in Nat /\ c.snd_max \in Nat
  BY DEF Segment, Conn
<1>2. Handled(c, c) /\ Handled(c, SendAck(c)) /\ Handled(c, SendRst(c, s.ack))
  BY <1>1, NothingHandled, SendAckHandled, SendRstHandled
<1>3. Handled(c, ProcessRst(c))
  BY RstHandled
<1>4. Handled(c, Raise(Indicate(c, "CONNECTION_RESET"), "RCV_UNEXP_SYN"))
  BY UnexpectedSynHandled
<1>5. ~(c.fsm # "TIME_WAIT" /\ s.ack > c.snd_max) => Handled(c, ProcessAckTextFin(c, s))
  BY <1>1, AckTextFinHandled
<1> QED
  BY <1>2, <1>3, <1>4, <1>5 DEF ProcessSegment1stThru8th

\* A segment in any state.
LEMMA SegmentHandled ==
  ASSUME NEW c \in Conn, ConnInv(c), NEW s \in Segment
  PROVE  Handled(c, ProcessSegment(c, s))
<1>1. c.fsm \in {"INIT", "CLOSED", "LISTEN", "SYN_SENT"} \cup (Synchronized \cup {"SYN_RCVD"})
  BY DEF Conn, Synchronized
<1>2. /\ c.fsm \in {"INIT", "CLOSED"} => ProcessSegment(c, s) = SegmentArrivalWhileClosed(c, s)
      /\ c.fsm = "LISTEN" => ProcessSegment(c, s) = ProcessSegmentInListen(c, s)
      /\ c.fsm = "SYN_SENT" => ProcessSegment(c, s) = ProcessSegmentInSynSent(c, s)
      /\ c.fsm \in Synchronized \cup {"SYN_RCVD"} =>
           ProcessSegment(c, s) = ProcessSegment1stThru8th(c, s)
  BY DEF ProcessSegment, Synchronized
<1> QED
  BY <1>1, <1>2, ClosedHandled, ListenHandled, SynSentHandled, SegmentStepsHandled

-----------------------------------------------------------------------------
(* What the handlers do to the two streams of a connection.  The sending half: every segment that
   a handler makes up comes from the send queue, which ends where the application stopped writing.
   The receiving half: what is taken from the receive queue is what the peer has put into its
   segments, described by the stream h of the peer: where its sequence numbers begin and end, and
   whether they can still grow. *)

\* States with a connection underway, those in which the peer's ISS is known, and
Live == Embryonic \cup Synchronized
Heard == {"SYN_RCVD"} \cup Synchronized
\* those in which the FIN of the peer has been taken.
FinTaken == {"CLOSE_WAIT", "LAST_ACK", "CLOSING", "TIME_WAIT"}

\* The sequence number after everything the application has written
End(c) == c.iss + 1 + c.app.wrote
\* What takes up a place in the stream, and what acknowledges a place in the other one.
Text(s) == s.len = 1 \/ "FIN" \in s.flags
Echo(s) == "ACK" \in s.flags /\ "RST" \notin s.flags

\* A segment of c carries what is in its send queue, the FIN behind the last unit of it.
Own(c, s) ==
  /\ Text(s) => /\ s.seq + s.len <= c.q_end
                /\ "FIN" \in s.flags => c.app.closed /\ s.seq + s.len = c.q_end
                /\ c.failed = {} => s.seq > c.iss
  /\ "SYN" \in s.flags => s.seq = c.iss

\* The send queue ends with the last write, the FIN is behind it, and what is sent belongs to it.
Fits(c) ==
  /\ c.q_end = End(c)
  /\ c.send_fin => c.app.closed /\ c.snd_fin_seq = c.q_end
  /\ c.failed = {} => c.q_begin > c.iss
  /\ \A s \in c.out : Own(c, s)

\* An ACK is for the SYN of the peer at least, and for no more than has been received.
Echoes(c) == \A s \in c.out : Echo(s) => c.irs < s.ack /\ s.ack <= c.rcv_nxt

\* What no sending changes.
Kept(c, d) ==
  /\ d.iss = c.iss /\ d.irs = c.irs /\ d.fsm = c.fsm /\ d.active = c.active /\ d.event = c.event
  /\ d.rcv_nxt = c.rcv_nxt /\ d.buf = c.buf /\ d.fin_rcvd = c.fin_rcvd
  /\ d.rcv_fin_seq = c.rcv_fin_seq /\ d.app = c.app
  /\ d.q_end = c.q_end /\ d.send_fin = c.send_fin /\ d.snd_fin_seq = c.snd_fin_seq
  /\ d.snd_una = c.snd_una /\ d.fin_ack_rcvd = c.fin_ack_rcvd
  /\ d.failed = {} => c.failed = {}

\* From c to d some segments may have been sent, and all of them fit.
Sends(c, d) ==
  /\ d \in Conn /\ Kept(c, d)
  /\ Fits(c) => Fits(d)
  /\ c.irs < c.rcv_nxt /\ Echoes(c) => Echoes(d)

-----------------------------------------------------------------------------
(* The sending half *)

\* Sending and sending again is sending.
LEMMA SendsTransitive ==
  ASSUME NEW c \in Conn, NEW d, NEW f, Sends(c, d), Sends(d, f)
  PROVE  Sends(c, f)
<1>1. Kept(c, f)
  BY DEF Sends, Kept
<1> QED
  BY <1>1 DEF Sends, Kept

\* Sending nothing.
LEMMA SendsItself ==
  ASSUME NEW c \in Conn
  PROVE  Sends(c, c)
BY DEF Sends, Kept

\* A change to what neither half of the streams reads.
LEMMA AsideSends ==
  ASSUME NEW c \in Conn, NEW d \in Conn, Kept(c, d), d.q_begin = c.q_begin,
         d.failed = c.failed, d.out = c.out
  PROVE  Sends(c, d)
BY DEF Sends, Kept, Fits, Own, End, Echoes

\* One segment.
LEMMA EmitSends ==
  ASSUME NEW c \in Conn, NEW s \in Segment, Fits(c) => Own(c, s),
         Echo(s) => s.ack = c.rcv_nxt
  PROVE  Sends(c, Emit(c, s))
<1> DEFINE d == Emit(c, s)
<1>1. d \in Conn
  BY EmitQuiet DEF Quiet
<1>2. Kept(c, d) /\ d.q_begin = c.q_begin /\ d.failed = c.failed /\ d.out = c.out \cup {s}
  BY DEF Emit, Conn, Kept
<1> HIDE DEF d
<1>3. Fits(c) => Fits(d)
  BY <1>2 DEF Fits, Own, End, Kept
<1>4. c.irs < c.rcv_nxt /\ Echoes(c) => Echoes(d)
  BY <1>2 DEF Echoes, Kept, Conn
<1> QED
  BY <1>1, <1>2, <1>3, <1>4 DEF Sends, d

\* The control segments of a connection.
LEMMA SendAckSends ==
  ASSUME NEW c \in Conn
  PROVE  Sends(c, SendAck(c))
<1> DEFINE s == Seg({"ACK"}, c.snd_nxt, c.rcv_nxt, 0)
<1>1. s \in Segment
  BY SegType DEF Conn, Flags
<1>2. Own(c, s) /\ (Echo(s) => s.ack = c.rcv_nxt)
  BY DEF Seg, Own, Text
<1> QED
  BY <1>1, <1>2, EmitSends DEF SendAck

\* A reset carries nothing of the stream,
LEMMA SendRstSends ==
  ASSUME NEW c \in Conn, NEW seq \in Nat
  PROVE  Sends(c, SendRst(c, seq))
<1> DEFINE s == Seg({"RST"}, seq, 0, 0)
<1>1. s \in Segment
  BY SegType DEF Conn, Flags
<1>2. Own(c, s) /\ ~Echo(s)
  BY DEF Seg, Own, Text, Echo
<1> QED
  BY <1>1, <1>2, EmitSends DEF SendRst

\* The FIN is sent where the queue ends, and after close() alone.
LEMMA SendFinSends ==
  ASSUME NEW c \in Conn, c.send_fin, c.snd_nxt = c.q_end
  PROVE  Sends(c, SendFin(c))
<1> DEFINE s == Seg({"ACK", "FIN"}, c.snd_nxt, c.rcv_nxt, 0)
<1>1. s \in Segment
  BY SegType DEF Conn, Flags
<1>2. /\ s.flags = {"ACK", "FIN"} /\ s.seq = c.q_end /\ s.ack = c.rcv_nxt /\ s.len = 0
  BY DEF Seg
<1> HIDE DEF s
<1>3. Fits(c) => Own(c, s)
  BY <1>2 DEF Own, Fits, End, Conn, App
<1> QED
  BY <1>1, <1>2, <1>3, EmitSends DEF SendFin, s

\* A timer.
LEMMA StartTimerSends ==
  ASSUME NEW c \in Conn, NEW t \in Timers
  PROVE  Sends(c, StartTimer(c, t))
<1> DEFINE d == StartTimer(c, t)
<1>1. d \in Conn
  BY DEF StartTimer, Conn
<1>2. Kept(c, d) /\ d.q_begin = c.q_begin /\ d.failed = c.failed /\ d.out = c.out
  BY <1>1 DEF StartTimer, Conn, Kept
<1> QED
  BY <1>1, <1>2, AsideSends

\* and a timer sends nothing at all.
LEMMA StartRexmitTimerSends ==
  ASSUME NEW c \in Conn
  PROVE  Sends(c, StartRexmitTimer(c))
<1> DEFINE b == StartTimer(c, "rexmit")
           d == [b EXCEPT !.rexmit_count = 0]
<1>1. Sends(c, b) /\ b \in Conn
  BY StartTimerSends DEF Timers, Sends
<1> HIDE DEF b
<1>2. d \in Conn
  BY <1>1 DEF Conn
<1>3. Kept(b, d) /\ d.q_begin = b.q_begin /\ d.failed = b.failed /\ d.out = b.out
  BY <1>1, <1>2 DEF Conn, Kept
<1> HIDE DEF d
<1>4. Sends(c, d)
  BY <1>1, <1>2, <1>3, AsideSends, SendsTransitive
<1> QED
  BY <1>4 DEF StartRexmitTimer, d, b

\* A failed assertion of the send queue ends the simulation.
LEMMA CheckSends ==
  ASSUME NEW c \in Conn, NEW assertion \in BOOLEAN
  PROVE  /\ Sends(c, Check(c, assertion))
         /\ Check(c, assertion).failed = {} => assertion
         /\ Check(c, assertion).q_begin = c.q_begin
         /\ Check(c, assertion).snd_nxt = c.snd_nxt
         /\ Check(c, assertion).snd_max = c.snd_max
         /\ Check(c, assertion).out = c.out
<1> DEFINE d == Fail(c, "queue")
<1>1. /\ d \in Conn /\ Kept(c, d) /\ d.q_begin = c.q_begin /\ d.out = c.out /\ d.failed # {}
      /\ d.snd_nxt = c.snd_nxt /\ d.snd_max = c.snd_max
  BY DEF Fail, Conn, Failures, Kept
<1> HIDE DEF d
<1>2. Sends(c, d)
  BY <1>1 DEF Sends, Kept, Fits, Own, End, Echoes
<1> QED
  BY <1>1, <1>2, SendsItself DEF Check, d

\* What has been acknowledged leaves the queue, and nothing else does.
LEMMA DiscardUpToSends ==
  ASSUME NEW c \in Conn, NEW seq \in Nat
  PROVE  Sends(c, DiscardUpTo(c, seq))
<1> DEFINE b == [c EXCEPT !.q_begin = seq]
           ok == c.q_begin <= seq /\ seq <= c.q_end
           d == Check(b, ok)
<1>1. b \in Conn
  BY DEF Conn
<1>2. Kept(c, b) /\ b.q_begin = seq /\ b.failed = c.failed /\ b.out = c.out
  BY DEF Conn, Kept
<1> HIDE DEF b, ok
<1>3. ok \in BOOLEAN
  BY DEF ok
<1>4. /\ Sends(b, d)
      /\ d.failed = {} => ok
      /\ d.q_begin = seq /\ d.out = c.out
  BY <1>1, <1>2, <1>3, CheckSends
<1> HIDE DEF d
<1>5. d \in Conn /\ Kept(c, d)
  BY <1>2, <1>4 DEF Sends, Kept
<1>6. Fits(c) => Fits(d)
  BY <1>4, <1>5 DEF Fits, Own, End, Kept, Conn, ok
<1>7. Echoes(c) => Echoes(d)
  BY <1>4, <1>5 DEF Echoes, Kept
<1> QED
  BY <1>5, <1>6, <1>7 DEF Sends, DiscardUpTo, d, b, ok

\* Units of the queue from snd_nxt on, the FIN on the last one.
LEMMA SendSegmentsSends ==
  ASSUME NEW c \in Conn, NEW n \in Nat, n > 0, c.snd_nxt + n <= c.q_end
  PROVE  Sends(c, SendSegments(c, n))
<1> DEFINE to == c.snd_nxt + n
           fin == c.send_fin /\ c.snd_nxt < c.snd_fin_seq /\ c.snd_fin_seq <= to
           last == IF fin /\ c.snd_fin_seq < to THEN to + 1 ELSE to
           nxt == IF fin THEN to + 1 ELSE to
           Unit(s) == IF fin /\ s + 1 = c.snd_fin_seq
                      THEN Seg({"ACK", "FIN"}, s, c.rcv_nxt, 1)
                      ELSE Seg({"ACK"}, IF fin /\ s >= c.snd_fin_seq THEN s + 1 ELSE s,
                               c.rcv_nxt, 1)
           units == {Unit(s) : s \in c.snd_nxt .. to - 1}
           b == [c EXCEPT !.snd_nxt = nxt, !.out = @ \cup units]
           ok == c.q_begin <= c.snd_nxt /\ last <= c.q_end
           d == Check(b, ok)
<1>1. nxt \in Nat /\ to \in Nat /\ to <= c.q_end /\ c.snd_nxt \in Nat /\ c.rcv_nxt \in Nat
  BY DEF Conn
<1>2. ASSUME NEW u \in units
      PROVE  /\ u \in Segment /\ u.ack = c.rcv_nxt /\ "SYN" \notin u.flags
             /\ Fits(c) => /\ u.len = 1 /\ u.seq >= c.snd_nxt /\ u.seq + 1 <= to
                           /\ "FIN" \in u.flags => c.send_fin /\ u.seq + 1 = c.q_end
  <2>1. PICK s \in c.snd_nxt .. to - 1 : u = Unit(s)
    OBVIOUS
  <2>2. s \in Nat /\ s >= c.snd_nxt /\ s + 1 <= to /\ c.q_end \in Nat
    BY <1>1, <2>1 DEF Conn
  <2>3. CASE fin /\ s + 1 = c.snd_fin_seq
    <3>1. u = Seg({"ACK", "FIN"}, s, c.rcv_nxt, 1)
      BY <2>1, <2>3
    <3>2. u \in Segment /\ u.ack = c.rcv_nxt /\ "SYN" \notin u.flags /\ u.seq = s /\ u.len = 1
      BY <1>1, <2>2, <3>1 DEF Seg, Segment, Flags
    <3> QED
      BY <2>2, <2>3, <3>2 DEF Fits
  <2>4. CASE ~(fin /\ s + 1 = c.snd_fin_seq)
    <3> DEFINE q == IF fin /\ s >= c.snd_fin_seq THEN s + 1 ELSE s
    <3>1. u = Seg({"ACK"}, q, c.rcv_nxt, 1)
      BY <2>1, <2>4
    <3>2. q \in Nat
      BY <2>2
    <3>3. Fits(c) => q = s
      BY <1>1, <2>2 DEF Fits
    <3> HIDE DEF q
    <3>4. /\ u \in Segment /\ u.ack = c.rcv_nxt /\ u.flags = {"ACK"} /\ u.seq = q
          /\ u.len = 1
      BY <1>1, <3>1, <3>2 DEF Seg, Segment, Flags
    <3> QED
      BY <2>2, <3>3, <3>4
  <2> QED
    BY <2>3, <2>4
<1> HIDE DEF units
<1>3. b \in Conn
  <2>1. c.out \cup units \in SUBSET Segment
    BY <1>2 DEF Conn
  <2> HIDE DEF nxt
  <2> QED
    BY <1>1, <2>1 DEF Conn
<1>4. Kept(c, b) /\ b.q_begin = c.q_begin /\ b.failed = c.failed /\ b.out = c.out \cup units
  BY DEF Conn, Kept
<1> HIDE DEF b
<1>5. ok \in BOOLEAN
  OBVIOUS
<1>6. /\ Sends(b, d)
      /\ d.failed = {} => c.q_begin <= c.snd_nxt
      /\ d.q_begin = c.q_begin /\ d.out = c.out \cup units
  <2>1. Sends(b, d) /\ d.q_begin = b.q_begin /\ d.out = b.out
    <3> HIDE DEF ok
    <3> QED
      BY <1>3, <1>5, CheckSends
  <2>2. CASE ok
    BY <1>4, <2>1, <2>2
  <2>3. CASE ~ok
    <3>1. d = Fail(b, "queue")
      BY <2>3 DEF Check
    <3>2. d.failed # {}
      BY <1>3, <3>1 DEF Fail, Conn
    <3> QED
      BY <1>4, <2>1, <3>2
  <2> QED
    BY <2>2, <2>3
<1> HIDE DEF d
<1>7. d \in Conn /\ Kept(c, d)
  BY <1>4, <1>6 DEF Sends, Kept
<1>8. ASSUME Fits(c), NEW u \in units
      PROVE  Own(d, u)
  <2>1. d.failed = {} => u.seq > c.iss
    BY <1>1, <1>2, <1>6, <1>7, <1>8 DEF Fits, Kept, Conn, Segment
  <2>2. "FIN" \in u.flags => c.app.closed /\ u.seq + u.len = c.q_end
    BY <1>2, <1>8 DEF Fits
  <2>3. u.seq + u.len <= c.q_end
    BY <1>1, <1>2, <1>8 DEF Conn, Segment
  <2> QED
    BY <1>2, <1>7, <2>1, <2>2, <2>3 DEF Own, Kept
<1>9. Fits(c) => Fits(d)
  BY <1>6, <1>7, <1>8 DEF Fits, Own, End, Kept
<1>10. c.irs < c.rcv_nxt /\ Echoes(c) => Echoes(d)
  BY <1>2, <1>6, <1>7 DEF Echoes, Kept, Conn
<1> QED
  BY <1>7, <1>9, <1>10 DEF Sends, SendSegments, d, b, units

\* What the windows leave room for.
LEMMA SendDataSends ==
  ASSUME NEW c \in Conn
  PROVE  Sends(c, SendData(c))
<1> DEFINE n == Sendable(c)
           c1 == [c EXCEPT !.snd_nxt = c.snd_max]
           c2 == SendSegments(c1, n)
           max == Greater(c.snd_max, c2.snd_nxt)
           c3 == [c2 EXCEPT !.snd_max = max]
<1>1. c1 \in Conn /\ c1.snd_nxt = c.snd_max /\ c1.q_end = c.q_end
  BY DEF Conn
<1>2. Sends(c, c1)
  <2>1. Kept(c, c1) /\ c1.q_begin = c.q_begin /\ c1.failed = c.failed /\ c1.out = c.out
    BY DEF Conn, Kept
  <2> QED
    BY <1>1, <2>1, AsideSends
<1> HIDE DEF c1
<1>3. CASE n <= 0
  BY <1>2, <1>3 DEF SendData, c1
<1>4. CASE ~(n <= 0)
  <2>1. n \in Nat /\ n > 0 /\ c.snd_max + n <= c.q_end
    BY <1>4, SendableBound
  <2>2. Sends(c1, c2) /\ c2 \in Conn
    BY <1>1, <2>1, SendSegmentsSends DEF Sends
  <2> HIDE DEF c2, n
  <2>3. max \in Nat
    BY <2>2 DEF Greater, Conn
  <2>4. c3 \in Conn
    BY <2>2, <2>3 DEF Conn
  <2>5. Kept(c2, c3) /\ c3.q_begin = c2.q_begin /\ c3.failed = c2.failed /\ c3.out = c2.out
    BY <2>2 DEF Conn, Kept
  <2> HIDE DEF c3
  <2>6. Sends(c, c3)
    BY <1>2, <2>2, <2>4, <2>5, AsideSends, SendsTransitive
  <2>7. Sends(c, StartRexmitTimer(c3))
    BY <2>4, <2>6, StartRexmitTimerSends, SendsTransitive
  <2> QED
    BY <1>4, <2>6, <2>7 DEF SendData, n, c1, c2, c3
<1> QED
  BY <1>3, <1>4

\* TCPBaseAlg::established().
LEMMA EstablishedSends ==
  ASSUME NEW c \in Conn, NEW active \in BOOLEAN
  PROVE  Sends(c, Established(c, active))
<1> DEFINE cwnd == IF c.syn_rexmit_count = 0 THEN InitialWindow ELSE 1
           c1 == [c EXCEPT !.snd_cwnd = cwnd]
<1>1. cwnd \in Nat
  BY ConnectionAssumption
<1> HIDE DEF cwnd
<1>2. c1 \in Conn
  BY <1>1 DEF Conn
<1>3. Kept(c, c1) /\ c1.q_begin = c.q_begin /\ c1.failed = c.failed /\ c1.out = c.out
  BY DEF Conn, Kept
<1> HIDE DEF c1
<1>4. Sends(c, c1)
  BY <1>2, <1>3, AsideSends
<1>5. Sends(c, SendData(c1)) /\ SendData(c1) \in Conn
  BY <1>2, <1>4, SendDataSends, SendsTransitive DEF Sends
<1>6. Sends(c, SendAck(SendData(c1)))
  BY <1>5, SendAckSends, SendsTransitive
<1> QED
  BY <1>4, <1>5, <1>6 DEF Established, c1, cwnd

\* TCPNoCongestionControl::receivedDataAck().
LEMMA ReceivedDataAckSends ==
  ASSUME NEW c \in Conn
  PROVE  Sends(c, ReceivedDataAck(c))
<1> DEFINE stopped == [c EXCEPT !.timers = @ \ {"rexmit"}]
           d == IF c.snd_una = c.snd_max THEN stopped ELSE StartRexmitTimer(c)
<1>1. stopped \in Conn
  BY DEF Conn
<1>2. /\ Kept(c, stopped) /\ stopped.q_begin = c.q_begin /\ stopped.failed = c.failed
      /\ stopped.out = c.out
  BY DEF Conn, Kept
<1> HIDE DEF stopped
<1>3. Sends(c, d) /\ d \in Conn
  BY <1>1, <1>2, AsideSends, StartRexmitTimerSends DEF Sends
<1> HIDE DEF d
<1>4. Sends(c, SendData(d))
  BY <1>3, SendDataSends, SendsTransitive
<1> QED
  BY <1>4 DEF ReceivedDataAck, d, stopped

\* What is retransmitted is in the queue, or is the FIN behind it.
LEMMA RetransmitOneSegmentSends ==
  ASSUME NEW c \in Conn, SentInOrder(c)
  PROVE  Sends(c, RetransmitOneSegment(c))
<1> DEFINE c1 == [c EXCEPT !.snd_nxt = c.snd_una]
           bytes == Lesser(Lesser(1, c.snd_max - c.snd_una), BytesAvailable(c, c.snd_una))
           b == [c1 EXCEPT !.snd_nxt = c.q_end]
           c2 == SendFin(b)
           c3 == [c2 EXCEPT !.snd_nxt = c.q_end + 1, !.snd_max = c.q_end + 1]
<1>1. /\ c1 \in Conn /\ Kept(c, c1) /\ c1.q_begin = c.q_begin /\ c1.failed = c.failed
      /\ c1.out = c.out /\ c1.snd_nxt = c.snd_una /\ c1.q_end = c.q_end
  BY DEF Conn, Kept
<1> HIDE DEF c1
<1>2. Sends(c, c1)
  BY <1>1, AsideSends
<1>3. ASSUME bytes = 0, c.send_fin, c.snd_fin_seq = c.q_end
      PROVE  Sends(c, c3)
  <2>1. /\ b \in Conn /\ Kept(c1, b) /\ b.q_begin = c1.q_begin /\ b.failed = c1.failed
        /\ b.out = c1.out /\ b.snd_nxt = c.q_end /\ b.q_end = c.q_end /\ b.send_fin = c.send_fin
    BY <1>1 DEF Conn, Kept
  <2> HIDE DEF b
  <2>2. Sends(b, c2) /\ c2 \in Conn
    BY <1>3, <2>1, SendFinSends DEF Sends
  <2> HIDE DEF c2
  <2>3. c.q_end + 1 \in Nat
    BY DEF Conn
  <2>4. c3 \in Conn
    BY <2>2, <2>3 DEF Conn
  <2>5. Kept(c2, c3) /\ c3.q_begin = c2.q_begin /\ c3.failed = c2.failed /\ c3.out = c2.out
    BY <2>2 DEF Conn, Kept
  <2> HIDE DEF c3
  <2>6. Sends(c, b)
    BY <1>1, <1>2, <2>1, AsideSends, SendsTransitive
  <2> QED
    BY <2>2, <2>4, <2>5, <2>6, AsideSends, SendsTransitive
<1>4. Sends(c, Fail(c1, "queue"))
  BY <1>1, <1>2, CheckSends, SendsTransitive DEF Check
<1>5. ASSUME bytes # 0
      PROVE  Sends(c, SendSegments(c1, bytes))
  <2>1. bytes \in Nat /\ bytes > 0 /\ c.snd_una + bytes <= c.q_end
    BY <1>5 DEF Lesser, BytesAvailable, SentInOrder, Conn
  <2> HIDE DEF bytes
  <2> QED
    BY <1>1, <1>2, <2>1, SendSegmentsSends, SendsTransitive
<1> QED
  BY <1>3, <1>4, <1>5 DEF RetransmitOneSegment, c1, c2

-----------------------------------------------------------------------------
(* The receiving half *)

\* The stream of a peer: its ISS, the number after its last write, and whether it has closed.
Streams == [iss : Nat, end : Nat, closed : BOOLEAN]
\* The stream that c writes.
Stream(c) == [iss |-> c.iss, end |-> End(c), closed |-> c.app.closed]

\* The text of s is in the stream, unless it is older than that.
Belongs(s, h) ==
  Text(s) => /\ s.seq + s.len <= h.end
             /\ s.seq > h.iss /\ "FIN" \in s.flags => h.closed /\ s.seq + s.len = h.end

\* A segment of the stream or of one long before: a text that ends right before the ISS
\* could be taken for the beginning of the stream.
Apart(s, h) ==
  /\ Text(s) => s.seq > h.iss \/ s.seq + s.len <= h.iss - 2
  /\ "SYN" \in s.flags => s.seq = h.iss \/ s.seq <= h.iss - 3

\* c has received a piece of the stream h and no more than that, the FIN only after all of
\* it; or it listens to an older stream, and has nothing of this one.
Hears(c, h) ==
  /\ c.irs < c.rcv_nxt /\ Echoes(c)
  /\ \A x \in c.buf : x < h.end
  /\ c.fin_rcvd => c.rcv_fin_seq <= h.end
  /\ c.irs <= h.iss
  /\ c.irs = h.iss =>
       /\ c.rcv_nxt <= h.end + 1
       /\ c.rcv_nxt = h.end + 1 => h.closed
       /\ c.app.got = Lesser(c.rcv_nxt, h.end) - c.irs - 1
       /\ c.fin_rcvd /\ c.rcv_fin_seq > c.irs => c.rcv_fin_seq = h.end /\ h.closed
       /\ c.fsm \in FinTaken \/ c.event \in {"RCV_FIN", "RCV_FIN_ACK"} => c.rcv_nxt = h.end + 1
  /\ c.irs < h.iss =>
       /\ c.rcv_nxt < h.iss /\ h.iss - 1 \notin c.buf
       /\ c.fin_rcvd => c.rcv_fin_seq # h.iss - 1

\* The ACK of our own FIN is known where the state or the event says so, and is the ACK of
\* all that was sent.
FinKnown(c) ==
  /\ c.fin_ack_rcvd => c.send_fin /\ c.snd_una = c.q_end + 1
  /\ \/ c.fsm \in {"FIN_WAIT_2", "TIME_WAIT"}
     \/ c.event = "RCV_FIN_ACK"
     \/ c.event = "RCV_ACK" /\ c.fsm \in {"FIN_WAIT_1", "CLOSING"}
     => c.fin_ack_rcvd

\* What the arrival of s makes of c, when the peer's stream is h.
Moves(c, d, s, h) ==
  /\ d \in Conn
  /\ d.iss = c.iss /\ d.irs = c.irs /\ d.fsm = c.fsm /\ d.active = c.active
  /\ d.q_end = c.q_end /\ d.send_fin = c.send_fin /\ d.snd_fin_seq = c.snd_fin_seq
  /\ d.app.wrote = c.app.wrote /\ d.app.closed = c.app.closed /\ c.app.got <= d.app.got
  /\ d.snd_una \in {c.snd_una, s.ack}
  /\ d.failed = {} => c.failed = {}
  /\ Fits(c) => Fits(d)
  /\ Hears(c, h) => Hears(d, h)
  /\ Fits(c) /\ FinKnown(c) => FinKnown(d)

\* Moving twice is moving.
LEMMA MovesTransitive ==
  ASSUME NEW c \in Conn, NEW d, NEW f, NEW s \in Segment, NEW h \in Streams,
         Moves(c, d, s, h), Moves(d, f, s, h)
  PROVE  Moves(c, f, s, h)
<1>1. c.app.got \in Nat /\ d.app.got \in Nat /\ f.app.got \in Nat
  BY DEF Moves, Conn, App
<1> QED
  BY <1>1 DEF Moves

\* Sending is moving.
LEMMA SendsMoves ==
  ASSUME NEW c \in Conn, NEW d, NEW s \in Segment, NEW h \in Streams, Sends(c, d)
  PROVE  Moves(c, d, s, h)
<1>1. Hears(c, h) => Hears(d, h)
  BY DEF Sends, Kept, Hears
<1>2. FinKnown(c) => FinKnown(d)
  BY DEF Sends, Kept, FinKnown
<1>3. c.app.got \in Nat
  BY DEF Conn, App
<1> QED
  BY <1>1, <1>2, <1>3 DEF Sends, Kept, Moves

\* Raising an event that says nothing new of either FIN.
LEMMA RaiseMoves ==
  ASSUME NEW c \in Conn, NEW s \in Segment, NEW h \in Streams, NEW ev \in Events,
         ev \notin {"RCV_FIN", "RCV_FIN_ACK"},
         ev = "RCV_ACK" /\ c.fsm \in {"FIN_WAIT_1", "CLOSING"} => c.fin_ack_rcvd
  PROVE  Moves(c, Raise(c, ev), s, h)
<1> DEFINE d == Raise(c, ev)
<1>1. d \in Conn
  BY RaiseType
<1>2. d = [c EXCEPT !.event = ev]
  BY DEF Raise
<1> HIDE DEF d
<1>3. /\ d.event = ev /\ d.iss = c.iss /\ d.irs = c.irs /\ d.fsm = c.fsm /\ d.active = c.active
      /\ d.q_end = c.q_end /\ d.send_fin = c.send_fin /\ d.snd_fin_seq = c.snd_fin_seq
      /\ d.app = c.app /\ d.snd_una = c.snd_una /\ d.failed = c.failed /\ d.out = c.out
      /\ d.q_begin = c.q_begin /\ d.rcv_nxt = c.rcv_nxt /\ d.buf = c.buf
      /\ d.fin_rcvd = c.fin_rcvd /\ d.rcv_fin_seq = c.rcv_fin_seq
      /\ d.fin_ack_rcvd = c.fin_ack_rcvd
  BY <1>2 DEF Conn
<1>4. Hears(c, h) => Hears(d, h)
  BY <1>3 DEF Hears, Echoes
<1>5. FinKnown(c) => FinKnown(d)
  BY <1>3 DEF FinKnown
<1>6. Fits(c) => Fits(d)
  BY <1>3 DEF Fits, Own, End
<1>7. c.app.got \in Nat
  BY DEF Conn, App
<1> QED
  BY <1>1, <1>3, <1>4, <1>5, <1>6, <1>7 DEF Moves, d

\* Telling the application changes neither what it wrote nor what it was given.
LEMMA ToldKeeps ==
  ASSUME NEW a \in App, NEW k \in Indications
  PROVE  /\ Told(a, k).wrote = a.wrote /\ Told(a, k).got = a.got
         /\ Told(a, k).closed = a.closed /\ Told(a, k) \in App
<1>1. Told(a, k) \in App /\ Told(a, k).closed = a.closed
  BY ToldType
<1>2. Told(a, k).wrote = a.wrote /\ Told(a, k).got = a.got
  BY DEF Told, App
<1> QED
  BY <1>1, <1>2

\* An indication takes nothing from the receive queue.
LEMMA IndicateMoves ==
  ASSUME NEW c \in Conn, NEW s \in Segment, NEW h \in Streams, NEW k \in Indications
  PROVE  Moves(c, Indicate(c, k), s, h)
<1> DEFINE d == Indicate(c, k)
<1>1. d \in Conn /\ d.app = Told(c.app, k)
  BY IndicateType
<1>2. c.app \in App
  BY DEF Conn
<1>3. d.app.wrote = c.app.wrote /\ d.app.got = c.app.got /\ d.app.closed = c.app.closed
  BY <1>1, <1>2, ToldKeeps
<1>4. /\ d.event = c.event /\ d.iss = c.iss /\ d.irs = c.irs /\ d.fsm = c.fsm
      /\ d.active = c.active
      /\ d.q_end = c.q_end /\ d.send_fin = c.send_fin /\ d.snd_fin_seq = c.snd_fin_seq
      /\ d.snd_una = c.snd_una /\ d.failed = c.failed /\ d.out = c.out
      /\ d.q_begin = c.q_begin /\ d.rcv_nxt = c.rcv_nxt /\ d.buf = c.buf
      /\ d.fin_rcvd = c.fin_rcvd /\ d.rcv_fin_seq = c.rcv_fin_seq
      /\ d.fin_ack_rcvd = c.fin_ack_rcvd
  BY DEF Indicate, Conn
<1> HIDE DEF d
<1>5. Hears(c, h) => Hears(d, h)
  BY <1>3, <1>4 DEF Hears, Echoes
<1>6. FinKnown(c) => FinKnown(d)
  BY <1>4 DEF FinKnown
<1>7. Fits(c) => Fits(d)
  BY <1>3, <1>4 DEF Fits, Own, End
<1>8. c.app.got \in Nat
  BY <1>2 DEF App
<1> QED
  BY <1>1, <1>3, <1>4, <1>5, <1>6, <1>7, <1>8 DEF Moves, d

\* An ACK of something that was sent; it is the ACK of the FIN when it is the last there is.
LEMMA ProcessAckMoves ==
  ASSUME NEW c \in Conn, NEW s \in Segment, NEW h \in Streams,
         SentInOrder(c), s.ack <= c.snd_max
  PROVE  Moves(c, ProcessAck(c, s), s, h)
<1> DEFINE finAcked == c.send_fin /\ s.ack = c.snd_fin_seq + 1
           upTo == IF finAcked THEN s.ack - 1 ELSE s.ack
           nxt == Greater(c.snd_nxt, s.ack)
           known == c.fin_ack_rcvd \/ finAcked
           c1 == [c EXCEPT !.snd_una = s.ack, !.snd_nxt = nxt,
                           !.fin_ack_rcvd = @ \/ finAcked]
           c2 == DiscardUpTo(c1, upTo)
<1>1. s.ack \in Nat /\ nxt \in Nat /\ upTo \in Nat /\ known \in BOOLEAN
  BY DEF Segment, Greater, Conn
<1>2. CASE s.ack <= c.snd_una
  BY <1>2, SendsItself, SendsMoves DEF ProcessAck
<1>3. CASE ~(s.ack <= c.snd_una)
  <2>1. c1 \in Conn
    <3>1. c1 = [c EXCEPT !.snd_una = s.ack, !.snd_nxt = nxt, !.fin_ack_rcvd = known]
      OBVIOUS
    <3> HIDE DEF c1, nxt, known
    <3> QED
      BY <1>1, <3>1 DEF Conn
  <2>2. /\ c1.event = c.event /\ c1.iss = c.iss /\ c1.irs = c.irs /\ c1.fsm = c.fsm
        /\ c1.active = c.active
        /\ c1.q_end = c.q_end /\ c1.send_fin = c.send_fin /\ c1.snd_fin_seq = c.snd_fin_seq
        /\ c1.snd_una = s.ack /\ c1.failed = c.failed /\ c1.out = c.out
        /\ c1.q_begin = c.q_begin /\ c1.rcv_nxt = c.rcv_nxt /\ c1.buf = c.buf
        /\ c1.fin_rcvd = c.fin_rcvd /\ c1.rcv_fin_seq = c.rcv_fin_seq /\ c1.app = c.app
    BY DEF Conn
  <2>3. c1.fin_ack_rcvd <=> c.fin_ack_rcvd \/ finAcked
    BY DEF Conn
  <2> HIDE DEF c1
  <2>4. Fits(c) => Fits(c1)
    BY <2>2 DEF Fits, Own, End
  <2>5. Hears(c, h) => Hears(c1, h)
    BY <2>2 DEF Hears, Echoes
  <2>6. Fits(c) /\ FinKnown(c) => FinKnown(c1)
    <3> SUFFICES ASSUME Fits(c), FinKnown(c) PROVE FinKnown(c1)
      OBVIOUS
    <3>1. ~c.fin_ack_rcvd
      BY <1>1, <1>3 DEF FinKnown, SentInOrder, Conn
    <3>2. c1.fin_ack_rcvd => c.send_fin /\ s.ack = c.q_end + 1
      BY <2>3, <3>1 DEF Fits
    <3> QED
      BY <2>2, <3>1, <3>2 DEF FinKnown
  <2>7. c.app.got \in Nat
    BY DEF Conn, App
  <2>8. Moves(c, c1, s, h)
    BY <2>1, <2>2, <2>4, <2>5, <2>6, <2>7 DEF Moves
  <2> HIDE DEF upTo
  <2>9. Moves(c, c2, s, h) /\ c2 \in Conn
    <3>1. Sends(c1, c2) /\ c2 \in Conn
      BY <1>1, <2>1, DiscardUpToSends DEF Sends
    <3> HIDE DEF c2
    <3>2. Moves(c1, c2, s, h)
      BY <2>1, <3>1, SendsMoves
    <3> QED
      BY <2>8, <3>1, <3>2, MovesTransitive
  <2> HIDE DEF c2
  <2>10. Moves(c, ReceivedDataAck(c2), s, h)
    BY <2>9, ReceivedDataAckSends, SendsMoves, MovesTransitive
  <2> QED
    BY <1>3, <2>9, <2>10 DEF ProcessAck, c2, c1, upTo
<1> QED
  BY <1>2, <1>3

\* The receive queue hands over consecutive units.
LEMMA InSequenceUnits ==
  ASSUME NEW from \in Nat, NEW data \in SUBSET Nat
  PROVE  \A k \in 0 .. InSequence(from, data) - 1 : from + k \in data
<1> DEFINE n == InSequence(from, data)
           units == {i \in 0 .. Wnd - 1 : \A j \in 0 .. i : from + j \in data}
<1>1. n \in Nat /\ n = Cardinality(units)
  BY InSequenceType DEF InSequence
<1> SUFFICES ASSUME NEW k \in 0 .. n - 1, from + k \notin data
             PROVE  FALSE
  OBVIOUS
<1> HIDE DEF n
<1>2. k \in Nat /\ k < n /\ k - 1 \in Int
  BY <1>1
<1>3. units \subseteq 0 .. k - 1
  BY <1>2, ConnectionAssumption
<1> HIDE DEF units
<1>4. IsFiniteSet(0 .. k - 1) /\ Cardinality(0 .. k - 1) = k
  BY <1>2, FS_Interval
<1>5. Cardinality(units) <= k
  BY <1>3, <1>4, FS_Subset
<1> QED
  BY <1>1, <1>2, <1>5

\* rcv_nxt moves over the FIN of the peer, which has just come or has been waiting.
LEMMA ConsumeFinMoves ==
  ASSUME NEW c \in Conn, NEW s \in Segment, NEW h \in Streams, Belongs(s, h), Apart(s, h),
         \/ "FIN" \in s.flags /\ c.rcv_nxt = s.seq + s.len
         \/ c.fin_rcvd /\ c.rcv_nxt = c.rcv_fin_seq
  PROVE  Moves(c, ConsumeFin(c), s, h)
<1> DEFINE last == c.fsm = "FIN_WAIT_1" /\ c.fin_ack_rcvd
           ev == IF last THEN "RCV_FIN_ACK" ELSE "RCV_FIN"
           b == [c EXCEPT !.rcv_nxt = @ + 1]
           d == Raise(b, ev)
<1>1. ev \in Events /\ ev \in {"RCV_FIN", "RCV_FIN_ACK"} /\ (ev = "RCV_FIN_ACK" => c.fin_ack_rcvd)
  BY DEF Events
<1>2. b \in Conn
  BY DEF Conn
<1> HIDE DEF ev
<1>3. d \in Conn
  BY <1>1, <1>2, RaiseType
<1>4. /\ d.iss = c.iss /\ d.irs = c.irs /\ d.fsm = c.fsm /\ d.active = c.active
      /\ d.q_end = c.q_end /\ d.send_fin = c.send_fin /\ d.snd_fin_seq = c.snd_fin_seq
      /\ d.snd_una = c.snd_una /\ d.failed = c.failed /\ d.out = c.out /\ d.event = ev
      /\ d.q_begin = c.q_begin /\ d.rcv_nxt = c.rcv_nxt + 1 /\ d.buf = c.buf
      /\ d.fin_rcvd = c.fin_rcvd /\ d.rcv_fin_seq = c.rcv_fin_seq /\ d.app = c.app
      /\ d.fin_ack_rcvd = c.fin_ack_rcvd
  BY DEF Raise, Conn
<1> HIDE DEF d
<1>5. /\ c.rcv_nxt \in Nat /\ c.irs \in Nat /\ c.rcv_fin_seq \in Nat /\ c.app.got \in Nat
      /\ s.seq \in Nat /\ s.len \in Nat /\ h.iss \in Nat /\ h.end \in Nat
  BY DEF Conn, App, Segment, Streams
<1>6. ASSUME Hears(c, h)
      PROVE  Hears(d, h)
  <2>1. c.irs < c.rcv_nxt + 1 /\ Echoes(d)
    BY <1>4, <1>5, <1>6 DEF Hears, Echoes, Segment, Conn
  <2>2. c.irs = h.iss => c.rcv_nxt = h.end /\ h.closed
    BY <1>5, <1>6 DEF Hears, Belongs, Apart, Text
  <2>3. c.irs < h.iss => c.rcv_nxt + 1 < h.iss
    BY <1>5, <1>6 DEF Hears, Belongs, Apart, Text
  <2>4. c.irs = h.iss => c.app.got = Lesser(c.rcv_nxt + 1, h.end) - c.irs - 1
    BY <1>5, <1>6, <2>2 DEF Hears, Lesser
  <2> QED
    BY <1>4, <1>5, <1>6, <2>1, <2>2, <2>3, <2>4 DEF Hears
<1>7. FinKnown(c) => FinKnown(d)
  BY <1>1, <1>4 DEF FinKnown
<1>8. Fits(c) => Fits(d)
  BY <1>4 DEF Fits, Own, End
<1>9. Moves(c, d, s, h)
  BY <1>3, <1>4, <1>5, <1>6, <1>7, <1>8 DEF Moves
<1>10. Moves(c, StartTimer(d, "2msl"), s, h)
  BY <1>3, <1>9, StartTimerSends, SendsMoves, MovesTransitive DEF Timers
<1> QED
  BY <1>9, <1>10 DEF ConsumeFin, d, b, ev

\* Units from the receive queue are units of the stream, or of an older one that stays apart.
LEMMA UnitsTaken ==
  ASSUME NEW c \in Conn, NEW s \in Segment, NEW h \in Streams, Belongs(s, h), Apart(s, h),
         s.len = 1, c.fsm \in DataStates, Hears(c, h),
         NEW n, n = InSequence(c.rcv_nxt, c.buf \cup {s.seq}),
         NEW d \in Conn, Echoes(d), d.irs = c.irs, d.rcv_nxt = c.rcv_nxt + n,
         d.buf \subseteq c.buf \cup {s.seq}, d.fin_rcvd = c.fin_rcvd,
         d.rcv_fin_seq = c.rcv_fin_seq, d.app.got = c.app.got + n, d.fsm = c.fsm,
         d.event = c.event
  PROVE  Hears(d, h)
<1>1. /\ c.rcv_nxt \in Nat /\ c.irs \in Nat /\ c.rcv_fin_seq \in Nat /\ c.app.got \in Nat
      /\ s.seq \in Nat /\ h.iss \in Nat /\ h.end \in Nat
  BY DEF Conn, App, Segment, Streams
<1>2. n \in Nat /\ \A k \in 0 .. n - 1 : c.rcv_nxt + k \in c.buf \cup {s.seq}
  BY <1>1, InSequenceType, InSequenceUnits DEF Conn
<1>3. s.seq < h.end /\ (s.seq > h.iss \/ s.seq + 1 <= h.iss - 2)
  BY <1>1 DEF Belongs, Apart, Text
<1>4. /\ \A x \in c.buf \cup {s.seq} : x < h.end
      /\ c.irs < h.iss => h.iss - 1 \notin c.buf \cup {s.seq}
  BY <1>1, <1>3 DEF Hears
<1>5. n > 0 => c.rcv_nxt + n <= h.end
  <2> SUFFICES ASSUME n > 0 PROVE c.rcv_nxt + n <= h.end
    OBVIOUS
  <2>1. n - 1 \in 0 .. n - 1
    BY <1>2
  <2>2. c.rcv_nxt + (n - 1) < h.end
    BY <1>2, <1>4, <2>1
  <2> QED
    BY <1>1, <1>2, <2>2
<1>6. c.irs < h.iss => c.rcv_nxt + n < h.iss
  <2> SUFFICES ASSUME c.irs < h.iss, ~(c.rcv_nxt + n < h.iss) PROVE FALSE
    OBVIOUS
  <2> DEFINE k == h.iss - 1 - c.rcv_nxt
  <2>1. c.rcv_nxt < h.iss
    BY DEF Hears
  <2>2. k \in 0 .. n - 1 /\ c.rcv_nxt + k = h.iss - 1
    BY <1>1, <1>2, <2>1
  <2> HIDE DEF k
  <2> QED
    BY <1>2, <1>4, <2>2
<1>7. c.irs = h.iss =>
        /\ c.rcv_nxt + n <= h.end + 1
        /\ c.rcv_nxt + n = h.end + 1 => h.closed
        /\ c.app.got + n = Lesser(c.rcv_nxt + n, h.end) - c.irs - 1
  BY <1>1, <1>2, <1>5 DEF Hears, Lesser
<1>8. c.irs = h.iss /\ (d.fsm \in FinTaken \/ d.event \in {"RCV_FIN", "RCV_FIN_ACK"}) =>
        c.rcv_nxt + n = h.end + 1
  BY <1>1, <1>2, <1>5 DEF Hears
<1>9. c.irs < c.rcv_nxt + n
  BY <1>1, <1>2 DEF Hears
<1>10. \A x \in d.buf : x < h.end
  BY <1>4
<1>11. c.irs < h.iss => h.iss - 1 \notin d.buf
  BY <1>4
<1> QED
  BY <1>6, <1>7, <1>8, <1>9, <1>10, <1>11 DEF Hears

\* Step seven.
LEMMA ProcessTextMoves ==
  ASSUME NEW c \in Conn, NEW s \in Segment, NEW h \in Streams, Belongs(s, h), Apart(s, h),
         NEW old \in Nat
  PROVE  Moves(c, ProcessText(c, s, old), s, h)
<1> DEFINE data == c.buf \cup {s.seq}
           n == InSequence(c.rcv_nxt, data)
           buf == {x \in data : x >= c.rcv_nxt + n}
           c1 == [c EXCEPT !.rcv_nxt = @ + n, !.buf = buf]
           c2 == IF c.snd_una > old THEN ReceivedDataAck(c1) ELSE c1
           app == [c2.app EXCEPT !.got = @ + n]
           c3 == [c2 EXCEPT !.app.got = @ + n]
<1>1. c.rcv_nxt \in Nat /\ data \in SUBSET Nat /\ c.app \in App /\ c.app.got \in Nat
  BY DEF Conn, Segment, App
<1>2. n \in Nat /\ c.rcv_nxt + n \in Nat /\ buf \in SUBSET Nat /\ buf \subseteq data
  BY <1>1, InSequenceType
<1>0. n = InSequence(c.rcv_nxt, data)
  OBVIOUS
<1> HIDE DEF n, buf
<1>3. c1 \in Conn
  BY <1>2 DEF Conn
<1>4. /\ c1.iss = c.iss /\ c1.irs = c.irs /\ c1.fsm = c.fsm /\ c1.active = c.active
      /\ c1.q_end = c.q_end /\ c1.send_fin = c.send_fin /\ c1.snd_fin_seq = c.snd_fin_seq
      /\ c1.snd_una = c.snd_una /\ c1.failed = c.failed /\ c1.out = c.out
      /\ c1.event = c.event
      /\ c1.q_begin = c.q_begin /\ c1.rcv_nxt = c.rcv_nxt + n /\ c1.buf = buf
      /\ c1.fin_rcvd = c.fin_rcvd /\ c1.rcv_fin_seq = c.rcv_fin_seq /\ c1.app = c.app
      /\ c1.fin_ack_rcvd = c.fin_ack_rcvd
  BY DEF Conn
<1> HIDE DEF c1
<1>5. c2 \in Conn /\ Sends(c1, c2)
  BY <1>3, ReceivedDataAckSends, SendsItself DEF Sends
<1> HIDE DEF c2
<1>6. c2.app = c.app
  BY <1>4, <1>5 DEF Sends, Kept
<1>7. app \in App /\ app.got = c.app.got + n /\ app.wrote = c.app.wrote /\ app.closed = c.app.closed
  BY <1>1, <1>2, <1>6 DEF App
<1>8. c3 = [c2 EXCEPT !.app = app]
  BY <1>5 DEF Conn, App
<1> HIDE DEF app
<1>9. c3 \in Conn
  BY <1>5, <1>7, <1>8 DEF Conn
<1>10. /\ c3.app = app /\ c3.out = c2.out /\ c3.q_begin = c2.q_begin /\ c3.failed = c2.failed
       /\ c3.iss = c.iss /\ c3.irs = c.irs /\ c3.fsm = c.fsm /\ c3.active = c.active
       /\ c3.q_end = c.q_end /\ c3.send_fin = c.send_fin /\ c3.snd_fin_seq = c.snd_fin_seq
       /\ c3.snd_una = c.snd_una /\ c3.event = c.event
       /\ c3.rcv_nxt = c.rcv_nxt + n /\ c3.buf = buf
       /\ c3.fin_rcvd = c.fin_rcvd /\ c3.rcv_fin_seq = c.rcv_fin_seq
       /\ c3.fin_ack_rcvd = c.fin_ack_rcvd
  <2>1. /\ c3.app = app /\ c3.out = c2.out /\ c3.q_begin = c2.q_begin /\ c3.failed = c2.failed
        /\ c3.iss = c2.iss /\ c3.irs = c2.irs /\ c3.fsm = c2.fsm /\ c3.active = c2.active
        /\ c3.q_end = c2.q_end /\ c3.send_fin = c2.send_fin /\ c3.snd_fin_seq = c2.snd_fin_seq
        /\ c3.snd_una = c2.snd_una /\ c3.event = c2.event
        /\ c3.rcv_nxt = c2.rcv_nxt /\ c3.buf = c2.buf
        /\ c3.fin_rcvd = c2.fin_rcvd /\ c3.rcv_fin_seq = c2.rcv_fin_seq
        /\ c3.fin_ack_rcvd = c2.fin_ack_rcvd
    BY <1>5, <1>8 DEF Conn
  <2> HIDE DEF c3
  <2> QED
    BY <1>4, <1>5, <2>1 DEF Sends, Kept
<1> HIDE DEF c3
<1>11. (Fits(c) => Fits(c3)) /\ (c3.failed = {} => c.failed = {})
  <2>1. Fits(c) => Fits(c1)
    BY <1>4 DEF Fits, Own, End
  <2>2. Fits(c2) => Fits(c3)
    BY <1>4, <1>5, <1>6, <1>7, <1>10 DEF Fits, Own, End, Sends, Kept
  <2> QED
    BY <1>4, <1>5, <1>10, <2>1, <2>2 DEF Sends, Kept
<1>12. ASSUME s.len = 1, c.fsm \in DataStates
       PROVE  Moves(c, c3, s, h)
  <2>1. ASSUME Hears(c, h)
        PROVE  Hears(c3, h)
    <3>1. c1.irs < c1.rcv_nxt /\ Echoes(c1)
      BY <1>1, <1>2, <1>4, <2>1 DEF Hears, Echoes, Conn, Segment
    <3>2. Echoes(c3)
      BY <1>4, <1>5, <1>10, <3>1 DEF Sends, Kept, Echoes
    <3> QED
      BY <1>0, <1>2, <1>7, <1>9, <1>10, <1>12, <2>1, <3>2, UnitsTaken
  <2>2. FinKnown(c) => FinKnown(c3)
    BY <1>10 DEF FinKnown
  <2>3. c.app.got <= c3.app.got
    BY <1>1, <1>2, <1>7, <1>10
  <2> QED
    BY <1>7, <1>9, <1>10, <1>11, <2>1, <2>2, <2>3 DEF Moves
<1>13. ASSUME s.len = 1, c.fsm \in DataStates, n = 0
       PROVE  Moves(c, SendAck(c2), s, h)
  <2>1. c3 = c2
    <3>1. app = c2.app
      BY <1>1, <1>6, <1>13 DEF app, App
    <3> QED
      BY <1>5, <1>8, <3>1 DEF Conn
  <2> QED
    BY <1>5, <1>12, <1>13, <2>1, SendAckSends, SendsMoves, MovesTransitive
<1>14. ASSUME s.len = 1, c.fsm \in DataStates, c3.fin_rcvd, c3.rcv_nxt = c3.rcv_fin_seq
       PROVE  Moves(c, ConsumeFin(c3), s, h)
  BY <1>9, <1>12, <1>14, ConsumeFinMoves, MovesTransitive
<1>15. Moves(c, c, s, h)
  BY SendsItself, SendsMoves
<1>16. s.len = 0 \/ s.len = 1
  BY DEF Segment
<1> QED
  BY <1>12, <1>13, <1>14, <1>15, <1>16 DEF ProcessText, c3, c2, c1, n, buf

\* Step eight: a FIN that comes before its time waits.
LEMMA ProcessFinMoves ==
  ASSUME NEW c \in Conn, NEW s \in Segment, NEW h \in Streams, Belongs(s, h), Apart(s, h)
  PROVE  Moves(c, ProcessFin(c, s), s, h)
<1> DEFINE fin_seq == s.seq + s.len
           d == [c EXCEPT !.fin_rcvd = TRUE, !.rcv_fin_seq = fin_seq]
<1>1. /\ s.seq \in Nat /\ s.len \in Nat /\ h.iss \in Nat /\ h.end \in Nat /\ fin_seq \in Nat
      /\ c.irs \in Nat /\ c.app.got \in Nat
  BY DEF Segment, Streams, Conn, App
<1>2. ASSUME "FIN" \in s.flags
      PROVE  Moves(c, d, s, h)
  <2>0. /\ fin_seq <= h.end /\ fin_seq # h.iss - 1
        /\ fin_seq > h.iss => fin_seq = h.end /\ h.closed
    BY <1>1, <1>2 DEF Belongs, Apart, Text
  <2> HIDE DEF fin_seq
  <2>1. d \in Conn
    BY <1>1 DEF Conn
  <2>2. /\ d.iss = c.iss /\ d.irs = c.irs /\ d.fsm = c.fsm /\ d.active = c.active
        /\ d.q_end = c.q_end /\ d.send_fin = c.send_fin /\ d.snd_fin_seq = c.snd_fin_seq
        /\ d.snd_una = c.snd_una /\ d.failed = c.failed /\ d.out = c.out
        /\ d.event = c.event
        /\ d.q_begin = c.q_begin /\ d.rcv_nxt = c.rcv_nxt /\ d.buf = c.buf
        /\ d.fin_rcvd = TRUE /\ d.rcv_fin_seq = fin_seq /\ d.app = c.app
        /\ d.fin_ack_rcvd = c.fin_ack_rcvd
    BY DEF Conn
  <2> HIDE DEF d
  <2>3. Hears(c, h) => Hears(d, h)
    BY <2>0, <2>2 DEF Hears, Echoes
  <2>4. FinKnown(c) => FinKnown(d)
    BY <2>2 DEF FinKnown
  <2>5. Fits(c) => Fits(d)
    BY <2>2 DEF Fits, Own, End
  <2> QED
    BY <1>1, <2>1, <2>2, <2>3, <2>4, <2>5 DEF Moves
<1>3. Moves(c, c, s, h)
  BY SendsItself, SendsMoves
<1>4. "FIN" \in s.flags /\ c.rcv_nxt = fin_seq => Moves(c, ConsumeFin(c), s, h)
  BY ConsumeFinMoves
<1> QED
  BY <1>2, <1>3, <1>4 DEF ProcessFin

\* Steps five to eight, from where SYN_RCVD has been dealt with.
LEMMA RestMoves ==
  ASSUME NEW c \in Conn, NEW c1 \in Conn, NEW s \in Segment, NEW h \in Streams,
         Belongs(s, h), Apart(s, h), SentInOrder(c1), c1.fsm = c.fsm,
         c.fsm # "TIME_WAIT" => s.ack <= c1.snd_max
  PROVE  Moves(c1, Rest(c, c1, s), s, h)
<1> DEFINE c2 == IF c.fsm = "TIME_WAIT" THEN StartTimer(SendAck(c1), "2msl")
                 ELSE ProcessAck(c1, s)
           c3 == IF c2.fin_ack_rcvd /\ c.fsm = "FIN_WAIT_1" THEN Raise(c2, "RCV_ACK")
                 ELSE IF c2.fin_ack_rcvd /\ c.fsm = "CLOSING"
                   THEN Raise(StartTimer(c2, "2msl"), "RCV_ACK")
                 ELSE c2
           t == ProcessText(c3, s, c.snd_una)
           c4 == ProcessFin(t, s)
           c5 == IF c4.rcv_nxt # c.rcv_nxt THEN ReceiveSeqChanged(c4) ELSE c4
<1>1. ASSUME NEW d \in Conn
      PROVE  /\ StartTimer(d, "2msl") \in Conn /\ Moves(d, StartTimer(d, "2msl"), s, h)
             /\ StartTimer(d, "2msl").fsm = d.fsm
             /\ StartTimer(d, "2msl").fin_ack_rcvd = d.fin_ack_rcvd
  BY StartTimerSends, SendsMoves DEF Timers, Sends, Kept
<1>2. ASSUME NEW d \in Conn
      PROVE  SendAck(d) \in Conn /\ Moves(d, SendAck(d), s, h)
  BY SendAckSends, SendsMoves DEF Sends
<1>3. Moves(c1, c2, s, h) /\ c2 \in Conn
  <2>1. Moves(c1, StartTimer(SendAck(c1), "2msl"), s, h)
    BY <1>1, <1>2, MovesTransitive
  <2>2. c.fsm # "TIME_WAIT" => Moves(c1, ProcessAck(c1, s), s, h)
    BY ProcessAckMoves
  <2> QED
    BY <2>1, <2>2 DEF Moves
<1> HIDE DEF c2
<1>4. c2.fsm = c.fsm
  BY <1>3 DEF Moves
<1>5. ASSUME NEW d \in Conn, d.fin_ack_rcvd \/ d.fsm = "LAST_ACK"
      PROVE  Moves(d, Raise(d, "RCV_ACK"), s, h)
  BY <1>5, RaiseMoves DEF Events
<1>6. c.fsm = "LAST_ACK" => Moves(c1, Raise(c2, "RCV_ACK"), s, h)
  BY <1>3, <1>4, <1>5, MovesTransitive
<1>7. Moves(c1, c3, s, h) /\ c3 \in Conn
  <2>1. c2.fin_ack_rcvd => Moves(c1, Raise(c2, "RCV_ACK"), s, h)
    BY <1>3, <1>5, MovesTransitive
  <2>2. c2.fin_ack_rcvd => Moves(c1, Raise(StartTimer(c2, "2msl"), "RCV_ACK"), s, h)
    <3> SUFFICES ASSUME c2.fin_ack_rcvd
                 PROVE  Moves(c1, Raise(StartTimer(c2, "2msl"), "RCV_ACK"), s, h)
      OBVIOUS
    <3> DEFINE u == StartTimer(c2, "2msl")
    <3>1. u \in Conn /\ Moves(c2, u, s, h) /\ u.fin_ack_rcvd = c2.fin_ack_rcvd
      BY <1>1, <1>3
    <3> HIDE DEF u
    <3>2. Moves(u, Raise(u, "RCV_ACK"), s, h)
      BY <1>5, <3>1
    <3> QED
      BY <1>3, <3>1, <3>2, MovesTransitive DEF u
  <2> QED
    BY <1>3, <2>1, <2>2 DEF Moves
<1> HIDE DEF c3
<1>8. Moves(c1, t, s, h) /\ t \in Conn
  <2>1. c.snd_una \in Nat
    BY DEF Conn
  <2>2. Moves(c3, t, s, h)
    BY <1>7, <2>1, ProcessTextMoves
  <2> HIDE DEF t
  <2>3. t \in Conn
    BY <2>2 DEF Moves
  <2> QED
    BY <1>7, <2>2, <2>3, MovesTransitive
<1> HIDE DEF t
<1>9. Moves(c1, c4, s, h) /\ c4 \in Conn
  <2>1. Moves(t, c4, s, h)
    BY <1>8, ProcessFinMoves
  <2> HIDE DEF c4
  <2>2. c4 \in Conn
    BY <2>1 DEF Moves
  <2> QED
    BY <1>8, <2>1, <2>2, MovesTransitive
<1> HIDE DEF c4
<1>10. Moves(c1, c5, s, h) /\ c5 \in Conn
  BY <1>2, <1>9, MovesTransitive DEF Moves, ReceiveSeqChanged
<1> HIDE DEF c5
<1>11. Moves(c1, DeferredClose(c5, c.snd_nxt), s, h)
  BY <1>10, RaiseMoves, MovesTransitive DEF DeferredClose, Events
<1> QED
  BY <1>6, <1>11 DEF Rest, c5, c4, t, c3, c2

\* Steps five to eight; from SYN_RCVD they lead on.
LEMMA AckTextFinMoves ==
  ASSUME NEW c \in Conn, ConnInv(c), c.fsm \in Heard, NEW s \in Segment, NEW h \in Streams,
         Belongs(s, h), Apart(s, h), c.fsm # "TIME_WAIT" => s.ack <= c.snd_max
  PROVE  /\ Moves(c, ProcessAckTextFin(c, s), s, h)
         /\ c.fsm = "SYN_RCVD" => NextState(ProcessAckTextFin(c, s)) \in Synchronized
<1>1. SentInOrder(c)
  BY DEF ConnInv, SentIsQueued, Heard, Embryonic
<1>2. CASE c.fsm # "SYN_RCVD"
  <2>1. ProcessAckTextFin(c, s) = Rest(c, c, s)
    BY <1>2 DEF ProcessAckTextFin, Rest
  <2> QED
    BY <1>1, <1>2, <2>1, RestMoves
<1>3. CASE c.fsm = "SYN_RCVD"
  <2> DEFINE e == Established(c, FALSE)
             i == Indicate(e, "ESTABLISHED")
             c1 == Raise(i, "RCV_ACK")
             d == Rest(c, c1, s)
  <2>1. ProcessAckTextFin(c, s) = d
    BY <1>3 DEF ProcessAckTextFin, Rest
  <2>2. Quiet(c, e) /\ Moves(c, e, s, h) /\ e \in Conn
    BY EstablishedQuiet, EstablishedSends, SendsMoves DEF Quiet
  <2> HIDE DEF e
  <2>3. i \in Conn /\ SameStreams(e, i) /\ Moves(c, i, s, h) /\ i.fsm = e.fsm
    <3>1. "ESTABLISHED" \in Indications
      BY DEF Indications
    <3>2. i \in Conn /\ SameStreams(e, i) /\ i.fsm = e.fsm
      BY <2>2, <3>1, IndicateFacts
    <3>3. Moves(e, i, s, h)
      BY <2>2, <3>1, IndicateMoves
    <3> QED
      BY <2>2, <3>2, <3>3, MovesTransitive
  <2> HIDE DEF i
  <2>4. c1 \in Conn /\ SameStreams(i, c1) /\ Moves(c, c1, s, h) /\ c1.event = "RCV_ACK"
    <3>1. "RCV_ACK" \in Events
      BY DEF Events
    <3>2. c1 \in Conn /\ SameStreams(i, c1) /\ c1.event = "RCV_ACK"
      BY <2>3, <3>1, RaiseAlike
    <3>3. i.fsm = "SYN_RCVD"
      BY <1>3, <2>3 DEF Moves
    <3>4. Moves(i, c1, s, h)
      BY <2>3, <3>1, <3>3, RaiseMoves
    <3> QED
      BY <2>3, <3>2, <3>4, MovesTransitive
  <2> HIDE DEF c1
  <2>5. SentInOrder(c1) /\ c.snd_max <= c1.snd_max /\ c1.fsm = "SYN_RCVD"
    BY <1>1, <1>3, <2>2, <2>3, <2>4 DEF SameStreams, Quiet, Progress, SentInOrder, Moves
  <2>6. s.ack <= c1.snd_max
    BY <1>3, <2>4, <2>5 DEF Segment, Conn
  <2>7. Steps(c1, d) /\ Moves(c1, d, s, h)
    BY <1>3, <2>4, <2>5, <2>6, RestSteps, RestMoves
  <2> HIDE DEF d
  <2>8. d \in Conn /\ d.fsm = "SYN_RCVD" /\ d.event \in {"RCV_ACK", "RCV_FIN", "CLOSE"}
    BY <2>4, <2>5, <2>7 DEF Steps, Progress
  <2>9. NextState(d) \in Synchronized
    BY <2>8, NextStateTable DEF Synchronized, States
  <2> QED
    BY <2>1, <2>4, <2>7, <2>9, MovesTransitive
<1> QED
  BY <1>2, <1>3

=============================================================================
