--------------------------- MODULE TCPConnection ---------------------------
(***************************************************************************)
(* One TCP connection of src/inet/src/transport/tcp (TCPConnection with    *)
(* its state block, its send and receive queues and the timers of          *)
(* TCPNoCongestionControl), as operators on a connection record.  Every    *)
(* handler of the C++ class is an operator from connection records to      *)
(* connection records; the segments it sends are collected in the field    *)
(* "out" and the event it hands to the state machine in the field "event", *)
(* both empty between handlers.  TCPEndpoints.tla turns the handlers into  *)
(* actions of two hosts joined by an unreliable network.                   *)
(*                                                                         *)
(* Data.  The unit of data is one full sized segment (snd_mss octets), so  *)
(* every segment carries 0 or 1 units; SYN and FIN take one sequence       *)
(* number as in the code.  Sequence numbers are naturals: the window the   *)
(* runs use never spans 2^31, where seqLess() of TCPSegment.h stops being  *)
(* the order of the integers.  SACK, timestamps, window scaling, delayed   *)
(* ACKs and limited transmit are off, their defaults in TCP.ned.  At most  *)
(* InitialWindow units are in flight (established() overwrites the         *)
(* congestion window), so a receive window of twice that many never binds  *)
(* and is not a field: updateRcvWnd() keeps room for all of them.          *)
(***************************************************************************)
EXTENDS Integers, FiniteSets

CONSTANTS
  Wnd,                    \* advertisedWindow, in segments (14 by default)
  InitialWindow,          \* 1; min(4*MSS, max(2*MSS, 4380)) with increasedIWEnabled
  MaxRexmitCount,         \* MAX_REXMIT_COUNT (12 in the code)
  IssStep                 \* how far the clock moves ISS between two openings

ASSUME ConnectionAssumption ==
  /\ InitialWindow \in 1 .. 4
  /\ Wnd \in Nat /\ Wnd >= 2 * InitialWindow
  /\ MaxRexmitCount \in Nat
  /\ IssStep \in Nat \ {0}

-----------------------------------------------------------------------------
(* Segments, states, timers and the connection record *)

Flags == {"SYN", "ACK", "FIN", "RST"}
Segment == [flags : SUBSET Flags, seq : Nat, ack : Nat, len : {0, 1}]
Seg(flags, seq, ack, len) == [flags |-> flags, seq |-> seq, ack |-> ack, len |-> len]

States == {"INIT", "CLOSED", "LISTEN", "SYN_SENT", "SYN_RCVD", "ESTABLISHED",
           "CLOSE_WAIT", "LAST_ACK", "FIN_WAIT_1", "FIN_WAIT_2", "CLOSING", "TIME_WAIT"}
\* States in which the three way handshake is on, or behind us
Embryonic == {"SYN_SENT", "SYN_RCVD"}
Synchronized == States \ {"INIT", "CLOSED", "LISTEN", "SYN_SENT", "SYN_RCVD"}
\* States in which the text of a segment is processed
DataStates == {"SYN_RCVD", "ESTABLISHED", "FIN_WAIT_1", "FIN_WAIT_2"}

Events == {"IGNORE", "OPEN_ACTIVE", "OPEN_PASSIVE", "CLOSE", "ABORT", "RCV_ACK", "RCV_SYN",
           "RCV_SYN_ACK", "RCV_FIN", "RCV_FIN_ACK", "RCV_RST", "RCV_UNEXP_SYN",
           "TIMEOUT_2MSL", "TIMEOUT_CONN_ESTAB"}
\* finWait2Timer is missing: it is cancelled in places, but nothing ever schedules it
Timers == {"connEstab", "synRexmit", "rexmit", "2msl"}

SockStates == {"NOT_BOUND", "LISTENING", "CONNECTING", "CONNECTED", "PEER_CLOSED",
               "LOCALLY_CLOSED", "CLOSED", "SOCKERROR"}
Errors == {"NONE", "CONNECTION_RESET", "CONNECTION_REFUSED", "TIMED_OUT"}
\* What stops the simulation: a throw at a command the state has no use for ("command") or at
\* a timer that should not be running ("timer"), a failed ASSERT of the send queue ("queue")
Failures == {"command", "timer", "queue"}
\* What the application has done with, and been told by, its socket
App == [sock : SockStates, wrote : Nat, got : Nat, estab : Nat,
        peer_closed : BOOLEAN, closed : BOOLEAN, aborted : BOOLEAN, error : Errors]

Conn == [fsm : States, active : BOOLEAN, iss : Nat, irs : Nat,
         snd_una : Nat, snd_nxt : Nat, snd_max : Nat, snd_cwnd : Nat,
         q_begin : Nat, q_end : Nat,              \* the send queue holds [q_begin, q_end)
         send_fin : BOOLEAN, snd_fin_seq : Nat, fin_ack_rcvd : BOOLEAN,
         rcv_nxt : Nat, buf : SUBSET Nat,         \* buf: data received above rcv_nxt
         fin_rcvd : BOOLEAN, rcv_fin_seq : Nat,
         timers : SUBSET Timers, rexmit_count : Nat, syn_rexmit_count : Nat,
         app : App, failed : SUBSET Failures,
         event : Events, out : SUBSET Segment]

FreshApp == [sock |-> "NOT_BOUND", wrote |-> 0, got |-> 0, estab |-> 0,
             peer_closed |-> FALSE, closed |-> FALSE, aborted |-> FALSE, error |-> "NONE"]
FreshConn ==
  [fsm |-> "INIT", active |-> FALSE, iss |-> 0, irs |-> 0,
   snd_una |-> 0, snd_nxt |-> 0, snd_max |-> 0, snd_cwnd |-> Wnd,
   q_begin |-> 0, q_end |-> 0, send_fin |-> FALSE, snd_fin_seq |-> 0, fin_ack_rcvd |-> FALSE,
   rcv_nxt |-> 0, buf |-> {}, fin_rcvd |-> FALSE, rcv_fin_seq |-> 0,
   timers |-> {}, rexmit_count |-> 0, syn_rexmit_count |-> 0,
   app |-> FreshApp, failed |-> {}, event |-> "IGNORE", out |-> {}]

Lesser(m, n) == IF m <= n THEN m ELSE n
Greater(m, n) == IF m >= n THEN m ELSE n

-----------------------------------------------------------------------------
(* Telling the application, sending control segments *)

\* What TCPSocket::processMessage() makes of an indication
Told(app, kind) ==
  [app EXCEPT !.sock = CASE kind = "ESTABLISHED" -> "CONNECTED"
                         [] kind = "PEER_CLOSED" -> "PEER_CLOSED"
                         [] kind = "CLOSED"      -> "CLOSED"
                         [] kind \in Errors      -> "SOCKERROR",
              !.estab = IF kind = "ESTABLISHED" THEN @ + 1 ELSE @,
              !.peer_closed = @ \/ kind = "PEER_CLOSED",
              !.error = IF kind \in Errors THEN kind ELSE @]

\* sendIndicationToApp()
Indicate(c, kind) == [c EXCEPT !.app = Told(c.app, kind)]

Raise(c, event) == [c EXCEPT !.event = event]
Fail(c, failure) == [c EXCEPT !.failed = @ \cup {failure}]
Check(c, assertion) == IF assertion THEN c ELSE Fail(c, "queue")
Emit(c, seg) == [c EXCEPT !.out = @ \cup {seg}]

SendRst(c, seq) == Emit(c, Seg({"RST"}, seq, 0, 0))
SendAck(c) == Emit(c, Seg({"ACK"}, c.snd_nxt, c.rcv_nxt, 0))
SendFin(c) == Emit(c, Seg({"ACK", "FIN"}, c.snd_nxt, c.rcv_nxt, 0))
SendSyn(c) ==
  [Emit(c, Seg({"SYN"}, c.iss, 0, 0)) EXCEPT !.snd_nxt = c.iss + 1, !.snd_max = c.iss + 1]
SendSynAck(c) ==
  [Emit(c, Seg({"SYN", "ACK"}, c.iss, c.rcv_nxt, 0))
     EXCEPT !.snd_nxt = c.iss + 1, !.snd_max = c.iss + 1]

\* selectInitialSeqNum(): the ISS follows the clock, so a later opening has a larger one
SelectInitialSeqNum(c) ==
  LET iss == c.iss + IssStep
  IN [c EXCEPT !.iss = iss, !.snd_una = iss, !.snd_nxt = iss, !.snd_max = iss,
               !.q_begin = iss + 1, !.q_end = iss + 1]

StartTimer(c, t) == [c EXCEPT !.timers = @ \cup {t}]
StartSynRexmitTimer(c) == [StartTimer(c, "synRexmit") EXCEPT !.syn_rexmit_count = 0]
StartRexmitTimer(c) == [StartTimer(c, "rexmit") EXCEPT !.rexmit_count = 0]

-----------------------------------------------------------------------------
(* Sending data *)

\* Mutant: the last sequence number is counted in, as if the queue held the FIN
BytesAvailableOffByOne(c, from) == IF from <= c.q_end THEN c.q_end - from + 1 ELSE 0

\* sendQueue->getBytesAvailable()
BytesAvailable(c, from) == IF from < c.q_end THEN c.q_end - from ELSE 0

\* TCPVirtualDataSendQueue::discardUpTo()
DiscardUpTo(c, seq) ==
  Check([c EXCEPT !.q_begin = seq], c.q_begin <= seq /\ seq <= c.q_end)

\* n calls of sendSegment(), one unit each, from snd_nxt.  The FIN rides on the unit before
\* snd_fin_seq; if more has been queued behind it, what follows is sent one number further up.
\* createSegmentWithBytes() asserts that the queue holds what is asked for.
SendSegments(c, n) ==
  LET to == c.snd_nxt + n
      fin == c.send_fin /\ c.snd_nxt < c.snd_fin_seq /\ c.snd_fin_seq <= to
      last == IF fin /\ c.snd_fin_seq < to THEN to + 1 ELSE to
      Unit(s) == IF fin /\ s + 1 = c.snd_fin_seq THEN Seg({"ACK", "FIN"}, s, c.rcv_nxt, 1)
                 ELSE Seg({"ACK"}, IF fin /\ s >= c.snd_fin_seq THEN s + 1 ELSE s, c.rcv_nxt, 1)
      c1 == [c EXCEPT !.snd_nxt = IF fin THEN to + 1 ELSE to,
                      !.out = @ \cup {Unit(s) : s \in c.snd_nxt .. to - 1}]
  IN Check(c1, c.q_begin <= c.snd_nxt /\ last <= c.q_end)

\* Mutant: the windows are respected, the end of the queue is not
SendableUnqueued(c) == Lesser(Wnd, c.snd_cwnd) - (c.snd_max - c.snd_una)

\* TCPConnection::sendData(): new data from snd_max, as much as the windows leave room for
Sendable(c) ==
  Lesser(Lesser(Wnd, c.snd_cwnd) - (c.snd_max - c.snd_una), BytesAvailable(c, c.snd_max))
SendData(c) ==
  LET c1 == [c EXCEPT !.snd_nxt = c.snd_max]
      c2 == SendSegments(c1, Sendable(c))
      c3 == [c2 EXCEPT !.snd_max = Greater(c.snd_max, c2.snd_nxt)]
  IN IF Sendable(c) <= 0 THEN c1
     ELSE IF "rexmit" \in c.timers THEN c3 ELSE StartRexmitTimer(c3)

\* TCPBaseAlg::established()
Established(c, active) ==
  LET c1 == [c EXCEPT !.snd_cwnd = IF c.syn_rexmit_count = 0 THEN InitialWindow ELSE 1]
  IN IF ~active THEN c1
     ELSE IF Sendable(c1) <= 0 THEN SendAck(SendData(c1)) ELSE SendData(c1)

\* Mutant: the REXMIT timer goes on when everything has been acknowledged
ReceivedDataAckTimerKept(c) == SendData(StartRexmitTimer(c))
\* Mutant: an ACK does not set the queue moving again
ReceivedDataAckNoSend(c) ==
  IF c.snd_una = c.snd_max THEN [c EXCEPT !.timers = @ \ {"rexmit"}] ELSE StartRexmitTimer(c)

\* TCPNoCongestionControl::receivedDataAck()
ReceivedDataAck(c) ==
  SendData(IF c.snd_una = c.snd_max THEN [c EXCEPT !.timers = @ \ {"rexmit"}]
           ELSE StartRexmitTimer(c))

\* retransmitOneSegment(true)
RetransmitOneSegment(c) ==
  LET c1 == [c EXCEPT !.snd_nxt = c.snd_una]
      bytes == Lesser(Lesser(1, c.snd_max - c.snd_una), BytesAvailable(c, c.snd_una))
      c2 == SendFin([c1 EXCEPT !.snd_nxt = c.q_end])
  IN IF bytes = 0 /\ c.send_fin /\ c.snd_fin_seq = c.q_end
       THEN [c2 EXCEPT !.snd_nxt = c.q_end + 1, !.snd_max = c.q_end + 1]
     ELSE IF bytes = 0 THEN Fail(c1, "queue")
     ELSE SendSegments(c1, bytes)

-----------------------------------------------------------------------------
(* The state machine: performStateTransition() and stateEntered() *)

\* "ORIGIN" stands for state->active ? TCP_S_CLOSED : TCP_S_LISTEN
Transitions ==
  [INIT |-> [OPEN_PASSIVE |-> "LISTEN", OPEN_ACTIVE |-> "SYN_SENT"],
   LISTEN |-> [CLOSE |-> "CLOSED", ABORT |-> "CLOSED", RCV_SYN |-> "SYN_RCVD"],
   SYN_RCVD |-> [CLOSE |-> "FIN_WAIT_1", ABORT |-> "CLOSED", TIMEOUT_CONN_ESTAB |-> "ORIGIN",
                 RCV_RST |-> "ORIGIN", RCV_ACK |-> "ESTABLISHED", RCV_FIN |-> "CLOSE_WAIT",
                 RCV_UNEXP_SYN |-> "CLOSED"],
   SYN_SENT |-> [CLOSE |-> "CLOSED", ABORT |-> "CLOSED", TIMEOUT_CONN_ESTAB |-> "CLOSED",
                 RCV_RST |-> "CLOSED", RCV_SYN_ACK |-> "ESTABLISHED", RCV_SYN |-> "SYN_RCVD"],
   ESTABLISHED |-> [CLOSE |-> "FIN_WAIT_1", ABORT |-> "CLOSED", RCV_FIN |-> "CLOSE_WAIT",
                    RCV_RST |-> "CLOSED", RCV_UNEXP_SYN |-> "CLOSED"],
   CLOSE_WAIT |-> [CLOSE |-> "LAST_ACK", ABORT |-> "CLOSED", RCV_RST |-> "CLOSED",
                   RCV_UNEXP_SYN |-> "CLOSED"],
   LAST_ACK |-> [ABORT |-> "CLOSED", RCV_ACK |-> "CLOSED", RCV_RST |-> "CLOSED",
                 RCV_UNEXP_SYN |-> "CLOSED"],
   FIN_WAIT_1 |-> [ABORT |-> "CLOSED", RCV_FIN |-> "CLOSING", RCV_ACK |-> "FIN_WAIT_2",
                   RCV_FIN_ACK |-> "TIME_WAIT", RCV_RST |-> "CLOSED",
                   RCV_UNEXP_SYN |-> "CLOSED"],
   FIN_WAIT_2 |-> [ABORT |-> "CLOSED", RCV_FIN |-> "TIME_WAIT", RCV_RST |-> "CLOSED",
                   RCV_UNEXP_SYN |-> "CLOSED"],
   CLOSING |-> [ABORT |-> "CLOSED", RCV_ACK |-> "TIME_WAIT", RCV_RST |-> "CLOSED",
                RCV_UNEXP_SYN |-> "CLOSED"],
   TIME_WAIT |-> [ABORT |-> "CLOSED", TIMEOUT_2MSL |-> "CLOSED", RCV_RST |-> "CLOSED",
                  RCV_UNEXP_SYN |-> "CLOSED"],
   CLOSED |-> <<>>]

\* Mutant: the origin of a connection in SYN_RCVD is not looked up
NextStateUnresolved(c) ==
  IF c.event \in DOMAIN Transitions[c.fsm] THEN Transitions[c.fsm][c.event] ELSE c.fsm

NextState(c) ==
  LET row == Transitions[c.fsm]
      to == row[c.event]
  IN IF c.event \notin DOMAIN row THEN c.fsm
     ELSE IF to # "ORIGIN" THEN to
     ELSE IF c.active THEN "CLOSED" ELSE "LISTEN"

\* TCP::removeConnection(): the object is deleted, only the application remembers
Removed(c) == [FreshConn EXCEPT !.fsm = "CLOSED", !.iss = c.iss, !.irs = c.irs,
                                   !.app = c.app, !.failed = c.failed, !.out = c.out]

StateEntered(c, state) ==
  LET c1 == [c EXCEPT !.fsm = state, !.event = "IGNORE"]
      c2 == [c1 EXCEPT !.timers = @ \ {"connEstab", "synRexmit"}]
  IN CASE state \in Embryonic -> c1
       [] state = "CLOSE_WAIT" -> Indicate(c2, "PEER_CLOSED")
       [] state = "TIME_WAIT"  -> Indicate(c1, "CLOSED")
       [] state = "CLOSED" ->
            Removed(IF c.fsm # "TIME_WAIT" /\ c.event # "ABORT" THEN Indicate(c, "CLOSED") ELSE c)
       [] OTHER -> c2

PerformStateTransition(c) ==
  IF c.event = "IGNORE" \/ NextState(c) = c.fsm THEN Raise(c, "IGNORE")
  ELSE StateEntered(c, NextState(c))

-----------------------------------------------------------------------------
(* Commands of the application *)

\* Mutant: CONN-ESTAB is not started
ProcessOpenActiveUntimed(c) ==
  LET c1 == SendSyn(SelectInitialSeqNum([c EXCEPT !.active = TRUE]))
  IN Raise(StartSynRexmitTimer(c1), "OPEN_ACTIVE")

ProcessOpenActive(c) ==
  LET c1 == SendSyn(SelectInitialSeqNum([c EXCEPT !.active = TRUE]))
  IN Raise(StartTimer(StartSynRexmitTimer(c1), "connEstab"), "OPEN_ACTIVE")

\* Mutant: a listener remembers the wrong origin
ProcessOpenPassiveActive(c) == Raise([c EXCEPT !.active = TRUE], "OPEN_PASSIVE")

ProcessOpenPassive(c) == Raise([c EXCEPT !.active = FALSE], "OPEN_PASSIVE")


\* enqueueAppData(), and sendCommandInvoked() once the connection is up
ProcessSend(c) ==
  LET c1 == [c EXCEPT !.q_end = @ + 1]
  IN IF c.fsm \in {"ESTABLISHED", "CLOSE_WAIT"} THEN SendData(c1)
     ELSE IF c.fsm \in Embryonic THEN c1
     ELSE Fail(c, "command")

ProcessClose(c) ==
  LET c1 == [c EXCEPT !.send_fin = TRUE, !.snd_fin_seq = c.q_end]
      c2 == StartRexmitTimer(SendFin([c1 EXCEPT !.snd_nxt = c.snd_max]))
  IN IF c.fsm \in {"LISTEN", "SYN_SENT"} THEN Raise(c, "CLOSE")
     ELSE IF c.fsm \notin {"SYN_RCVD", "ESTABLISHED", "CLOSE_WAIT"} THEN Fail(c, "command")
     ELSE IF c.snd_max = c.q_end
       THEN Raise([c2 EXCEPT !.snd_nxt = c.snd_max + 1, !.snd_max = c.snd_max + 1], "CLOSE")
     ELSE c1                                        \* "deferring sending of FIN"

ProcessAbort(c) ==
  Raise(IF c.fsm \in {"SYN_RCVD", "ESTABLISHED", "FIN_WAIT_1", "FIN_WAIT_2", "CLOSE_WAIT"}
          THEN SendRst(c, c.snd_nxt) ELSE c,
        "ABORT")

-----------------------------------------------------------------------------
(* Timers *)

ProcessRexmitTimer(c) ==
  LET c1 == [c EXCEPT !.timers = @ \ {"rexmit"}, !.rexmit_count = @ + 1]
  IN IF c1.rexmit_count > MaxRexmitCount THEN Raise(Indicate(c1, "TIMED_OUT"), "ABORT")
     ELSE RetransmitOneSegment(StartTimer(c1, "rexmit"))

\* process_TIMEOUT_SYN_REXMIT().  Its MAX_SYN_REXMIT_COUNT branch is left out: the timer
\* fires after 3, 6, 12, 24, 48, ... seconds, and CONN-ESTAB (75 s) always comes first.
ProcessSynRexmitTimer(c) ==
  LET c1 == [c EXCEPT !.syn_rexmit_count = @ + 1]
  IN IF c.fsm = "SYN_SENT" THEN SendSyn(c1)
     ELSE IF c.fsm = "SYN_RCVD" THEN SendSynAck(c1)
     ELSE Fail(c, "timer")

ProcessConnEstabTimer(c) ==
  LET c1 == [c EXCEPT !.timers = @ \ {"connEstab"}]
  IN IF c.fsm \notin Embryonic THEN Fail(c, "timer")
     ELSE Raise(IF c.active THEN Indicate(c1, "TIMED_OUT") ELSE c1, "TIMEOUT_CONN_ESTAB")

Process2MSLTimer(c) ==
  IF c.fsm # "TIME_WAIT" THEN Fail(c, "timer")
  ELSE Raise([c EXCEPT !.timers = @ \ {"2msl"}], "TIMEOUT_2MSL")

-----------------------------------------------------------------------------
(* An incoming segment *)

\* Mutant: a segment just below the window is let in
IsSegmentAcceptableBelow(c, s) ==
  IF s.len = 0
    THEN \/ c.rcv_nxt - 1 <= s.seq /\ s.seq <= c.rcv_nxt + Wnd
         \/ c.snd_una < s.ack /\ s.ack <= c.snd_nxt
    ELSE \/ c.rcv_nxt <= s.seq /\ s.seq < c.rcv_nxt + Wnd
         \/ c.rcv_nxt < s.seq + s.len /\ s.seq + s.len <= c.rcv_nxt + Wnd

IsSegmentAcceptable(c, s) ==
  IF s.len = 0
    THEN \/ c.rcv_nxt <= s.seq /\ s.seq <= c.rcv_nxt + Wnd
         \/ c.snd_una < s.ack /\ s.ack <= c.snd_nxt
    ELSE \/ c.rcv_nxt <= s.seq /\ s.seq < c.rcv_nxt + Wnd
         \/ c.rcv_nxt < s.seq + s.len /\ s.seq + s.len <= c.rcv_nxt + Wnd

SegmentArrivalWhileClosed(c, s) ==
  LET segLen == s.len + Cardinality(s.flags \cap {"SYN", "FIN"})
  IN IF "RST" \in s.flags THEN c
     ELSE IF "ACK" \in s.flags THEN SendRst(c, s.ack)
     ELSE Emit(c, Seg({"RST", "ACK"}, 0, s.seq + segLen, 0))

ProcessSegmentInListen(c, s) ==
  LET c1 == SelectInitialSeqNum([c EXCEPT !.rcv_nxt = s.seq + 1, !.irs = s.seq, !.buf = {}])
  IN IF "RST" \in s.flags THEN c
     ELSE IF "ACK" \in s.flags THEN SendRst(c, s.ack)
     ELSE IF "SYN" \notin s.flags THEN c
     ELSE Raise(StartTimer(StartSynRexmitTimer(SendSynAck(c1)), "connEstab"), "RCV_SYN")

ProcessSegmentInSynSent(c, s) ==
  LET ack == "ACK" \in s.flags
      badAck == ack /\ (s.ack <= c.iss \/ s.ack > c.snd_nxt)
      c1 == [c EXCEPT !.rcv_nxt = s.seq + 1, !.irs = s.seq, !.buf = {}]
      c2 == DiscardUpTo([c1 EXCEPT !.snd_una = s.ack], s.ack)
      c3 == [c1 EXCEPT !.snd_nxt = c.iss, !.snd_max = c.iss]
  IN IF badAck THEN IF "RST" \in s.flags THEN c ELSE SendRst(c, s.ack)
     ELSE IF "RST" \in s.flags
       THEN IF ack THEN Raise(Indicate(c, "CONNECTION_RESET"), "RCV_RST") ELSE c
     ELSE IF "SYN" \notin s.flags THEN c
     ELSE IF ack THEN Raise(Indicate(Established(c2, TRUE), "ESTABLISHED"), "RCV_SYN_ACK")
     ELSE Raise(StartSynRexmitTimer(SendSynAck(c3)), "RCV_SYN")

ProcessRst(c) ==
  CASE c.fsm = "SYN_RCVD" ->
         LET c1 == [c EXCEPT !.q_begin = c.q_end]
         IN Raise(IF c.active THEN Indicate(c1, "CONNECTION_REFUSED") ELSE c1, "RCV_RST")
    [] c.fsm \in {"ESTABLISHED", "FIN_WAIT_1", "FIN_WAIT_2", "CLOSE_WAIT"} ->
         Raise(Indicate(c, "CONNECTION_RESET"), "RCV_RST")
    [] OTHER -> Raise(c, "RCV_RST")

\* Mutant: an old ACK is taken for a new one
ProcessAckOld(c, s) ==
  LET finAcked == c.send_fin /\ s.ack = c.snd_fin_seq + 1
      c1 == [c EXCEPT !.snd_una = s.ack, !.snd_nxt = Greater(@, s.ack),
                      !.fin_ack_rcvd = @ \/ finAcked,
                      !.q_begin = IF finAcked THEN s.ack - 1 ELSE s.ack]
  IN IF s.ack = c.snd_una THEN c
     ELSE IF s.len = 0 /\ c.fsm # "SYN_RCVD" THEN ReceivedDataAck(c1)
     ELSE c1

\* processAckInEstabEtc() for an ACK of something that was sent; a duplicate ACK changes
\* nothing but counters no decision of this flavour reads
ProcessAck(c, s) ==
  LET finAcked == c.send_fin /\ s.ack = c.snd_fin_seq + 1
      upTo == IF finAcked THEN s.ack - 1 ELSE s.ack
      c1 == [c EXCEPT !.snd_una = s.ack, !.snd_nxt = Greater(@, s.ack),
                      !.fin_ack_rcvd = @ \/ finAcked]
      c2 == DiscardUpTo(c1, upTo)
  IN IF s.ack <= c.snd_una THEN c
     ELSE IF s.len = 0 /\ c.fsm # "SYN_RCVD" THEN ReceivedDataAck(c2)
     ELSE c2

\* Mutant: RCV_FIN_ACK also in FIN_WAIT_2, where the state machine does not know it
ConsumeFinWrongEvent(c) ==
  LET c1 == Raise([c EXCEPT !.rcv_nxt = @ + 1],
                  IF c.fin_ack_rcvd THEN "RCV_FIN_ACK" ELSE "RCV_FIN")
  IN IF c.fin_ack_rcvd \/ c.fsm = "TIME_WAIT" THEN StartTimer(c1, "2msl") ELSE c1
\* Mutant: the 2MSL timer is forgotten on the way from FIN_WAIT_2
ConsumeFinUntimed(c) ==
  LET last == c.fsm = "FIN_WAIT_1" /\ c.fin_ack_rcvd
      c1 == Raise([c EXCEPT !.rcv_nxt = @ + 1], IF last THEN "RCV_FIN_ACK" ELSE "RCV_FIN")
  IN IF last THEN StartTimer(c1, "2msl") ELSE c1

\* rcv_nxt moves over the peer's FIN
ConsumeFin(c) ==
  LET last == c.fsm = "FIN_WAIT_1" /\ c.fin_ack_rcvd
      c1 == Raise([c EXCEPT !.rcv_nxt = @ + 1], IF last THEN "RCV_FIN_ACK" ELSE "RCV_FIN")
  IN IF last \/ c.fsm \in {"FIN_WAIT_2", "TIME_WAIT"} THEN StartTimer(c1, "2msl") ELSE c1

\* How many units the receive queue can hand over from rcv_nxt on
InSequence(from, data) == Cardinality({i \in 0 .. Wnd - 1 : \A j \in 0 .. i : from + j \in data})

\* Step seven of RFC 793: the text, with snd_una as it was before the ACK was processed
ProcessText(c, s, old_snd_una) ==
  LET data == c.buf \cup {s.seq}
      n == InSequence(c.rcv_nxt, data)
      c1 == [c EXCEPT !.rcv_nxt = @ + n, !.buf = {x \in data : x >= c.rcv_nxt + n}]
      c2 == IF c.snd_una > old_snd_una THEN ReceivedDataAck(c1) ELSE c1
      c3 == [c2 EXCEPT !.app.got = @ + n]
  IN IF c.fsm \notin DataStates \/ s.len = 0 THEN c
     ELSE IF n = 0 THEN SendAck(c2)
     ELSE IF c3.fin_rcvd /\ c3.rcv_nxt = c3.rcv_fin_seq THEN ConsumeFin(c3)
     ELSE c3

\* Mutant: the FIN is taken at once, whatever is missing before it
ProcessFinAtOnce(c, s) == IF "FIN" \in s.flags THEN ConsumeFin(c) ELSE c

\* Step eight: the FIN
ProcessFin(c, s) ==
  LET fin_seq == s.seq + s.len
  IN IF "FIN" \notin s.flags THEN c
     ELSE IF c.rcv_nxt = fin_seq THEN ConsumeFin(c)
     ELSE [c EXCEPT !.fin_rcvd = TRUE, !.rcv_fin_seq = fin_seq]

\* TCPBaseAlg::receiveSeqChanged(): no ACK when this handler already sent one for rcv_nxt
ReceiveSeqChanged(c) ==
  IF \E s \in c.out : "ACK" \in s.flags /\ s.ack = c.rcv_nxt THEN c ELSE SendAck(c)

\* "Now we can do the CLOSE which was deferred a while ago"
DeferredClose(c, old_snd_nxt) ==
  IF /\ c.send_fin
     /\ c.snd_nxt = c.snd_fin_seq + 1
     /\ \/ c.fsm \in {"ESTABLISHED", "SYN_RCVD"}
        \/ c.fsm = "CLOSE_WAIT" /\ old_snd_nxt # c.snd_nxt
  THEN Raise(c, "CLOSE") ELSE c

\* Steps five to eight for an acceptable segment with an ACK that acknowledges nothing unsent
ProcessAckTextFin(c, s) ==
  LET c1 == IF c.fsm = "SYN_RCVD"
              THEN Raise(Indicate(Established(c, FALSE), "ESTABLISHED"), "RCV_ACK") ELSE c
      c2 == IF c.fsm = "TIME_WAIT" THEN StartTimer(SendAck(c1), "2msl") ELSE ProcessAck(c1, s)
      c3 == IF c2.fin_ack_rcvd /\ c.fsm = "FIN_WAIT_1" THEN Raise(c2, "RCV_ACK")
            ELSE IF c2.fin_ack_rcvd /\ c.fsm = "CLOSING"
              THEN Raise(StartTimer(c2, "2msl"), "RCV_ACK")
            ELSE c2
      c4 == ProcessFin(ProcessText(c3, s, c.snd_una), s)
      c5 == IF c4.rcv_nxt # c.rcv_nxt THEN ReceiveSeqChanged(c4) ELSE c4
  IN IF c.fsm = "LAST_ACK" /\ c.send_fin /\ s.ack = c.snd_fin_seq + 1 THEN Raise(c2, "RCV_ACK")
     ELSE DeferredClose(c5, c.snd_nxt)

\* Mutant: an ACK beyond snd_nxt is refused also when retransmission has put snd_nxt back
ProcessSegmentAckUpToNxt(c, s) ==
  IF ~IsSegmentAcceptable(c, s) THEN IF "RST" \in s.flags THEN c ELSE SendAck(c)
  ELSE IF "RST" \in s.flags THEN ProcessRst(c)
  ELSE IF "SYN" \in s.flags THEN Raise(Indicate(c, "CONNECTION_RESET"), "RCV_UNEXP_SYN")
  ELSE IF "ACK" \notin s.flags THEN c
  ELSE IF s.ack > c.snd_nxt THEN SendAck(c)
  ELSE ProcessAckTextFin(c, s)
\* Mutant: the ACK that completes the handshake is not looked at
ProcessSegmentAnyAck(c, s) ==
  IF ~IsSegmentAcceptable(c, s) THEN IF "RST" \in s.flags THEN c ELSE SendAck(c)
  ELSE IF "RST" \in s.flags THEN ProcessRst(c)
  ELSE IF "SYN" \in s.flags THEN Raise(Indicate(c, "CONNECTION_RESET"), "RCV_UNEXP_SYN")
  ELSE IF "ACK" \notin s.flags THEN c
  ELSE ProcessAckTextFin(c, s)

ProcessSegment1stThru8th(c, s) ==
  IF ~IsSegmentAcceptable(c, s) THEN IF "RST" \in s.flags THEN c ELSE SendAck(c)
  ELSE IF "RST" \in s.flags THEN ProcessRst(c)
  ELSE IF "SYN" \in s.flags THEN Raise(Indicate(c, "CONNECTION_RESET"), "RCV_UNEXP_SYN")
  ELSE IF "ACK" \notin s.flags THEN c
  ELSE IF c.fsm = "SYN_RCVD" /\ (s.ack < c.snd_una \/ s.ack > c.snd_nxt) THEN SendRst(c, s.ack)
  ELSE IF c.fsm # "TIME_WAIT" /\ s.ack > c.snd_max THEN SendAck(c)
  ELSE ProcessAckTextFin(c, s)

ProcessSegment(c, s) ==
  CASE c.fsm \in {"INIT", "CLOSED"} -> SegmentArrivalWhileClosed(c, s)
    [] c.fsm = "LISTEN"             -> ProcessSegmentInListen(c, s)
    [] c.fsm = "SYN_SENT"           -> ProcessSegmentInSynSent(c, s)
    [] OTHER                        -> ProcessSegment1stThru8th(c, s)
-----------------------------------------------------------------------------
(* What holds of a connection between two events *)

\* The handshake is timed from its first segment to its last
HandshakeTimers == {"connEstab", "synRexmit"}
HandshakeTimed(c) == \A t \in HandshakeTimers : c.fsm \in Embryonic <=> t \in c.timers

\* A socket that admits commands is in a state whose connection accepts them
SocketFits(sock, fsm, active) ==
  \/ sock \notin {"LISTENING", "CONNECTING", "CONNECTED", "PEER_CLOSED"}
  \/ sock = "LISTENING" /\ fsm \in {"LISTEN", "SYN_RCVD"} /\ ~active
  \/ sock = "CONNECTING" /\ fsm \in Embryonic /\ active
  \/ sock = "CONNECTED" /\ fsm = "ESTABLISHED"
  \/ sock = "PEER_CLOSED" /\ fsm = "CLOSE_WAIT"
SocketMatches(c) ==
  /\ c.send_fin => c.app.closed
  /\ c.app.closed \/ SocketFits(c.app.sock, c.fsm, c.active)

\* What is acknowledged has been sent, what is sent is in the queue, the SYN and FIN aside,
\* and only the SYN before the handshake is over
SentInOrder(c) == c.snd_una <= c.snd_max /\ c.snd_max <= c.q_end + 1
SentIsQueued(c) ==
  /\ c.fsm \in Embryonic \cup Synchronized => SentInOrder(c)
  /\ c.fsm \in Embryonic => c.snd_max = c.iss + 1
  /\ c.fsm = "SYN_SENT" => c.snd_nxt = c.snd_max
  /\ "rexmit" \in c.timers => c.fsm \in Synchronized
=============================================================================
