-------------------------- MODULE TCPServiceProofs --------------------------
(***************************************************************************)
(* What two ends of TCP are together, proved for every value of the        *)
(* constants: no handler reaches a failed assertion, every step of the two *)
(* connections and the network is a step of the pipe of TCPService, and    *)
(* two ends past the handshake are past the same handshake.                *)
(***************************************************************************)
EXTENDS TCPDeliveryProofs

-----------------------------------------------------------------------------
(* The send queue and the REXMIT timer *)

\* The sending half once the handshake is over: no assertion of the queue can fail.
Orderly(c) ==
  /\ c.failed = {}
  /\ c.iss < c.snd_una /\ c.q_begin <= c.snd_una /\ c.q_begin <= c.q_end
  /\ c.snd_una <= c.snd_max /\ c.snd_max <= c.q_end + 1
  /\ c.snd_max = c.q_end + 1 => c.send_fin
  /\ c.send_fin => c.snd_fin_seq = c.q_end
\* REXMIT runs only while something is outstanding.
Timed(c) == "rexmit" \in c.timers => c.snd_una < c.snd_max
\* From c to d segments may have been sent, in good order and none of them a SYN.
Works(c, d) ==
  /\ d \in Conn /\ Kept(c, d)
  /\ \A x \in d.out \ c.out : "SYN" \notin x.flags
  /\ "2msl" \in d.timers <=> "2msl" \in c.timers
  /\ Orderly(c) => Orderly(d)
  /\ Orderly(c) /\ Timed(c) => Timed(d)

\* Working twice is working.
LEMMA WorksTransitive ==
  ASSUME NEW c \in Conn, NEW d, NEW f, Works(c, d), Works(d, f)
  PROVE  Works(c, f)
<1>1. Kept(c, f)
  BY DEF Works, Kept
<1> QED
  BY <1>1 DEF Works

\* Doing nothing.
LEMMA WorksItself ==
  ASSUME NEW c \in Conn
  PROVE  Works(c, c)
BY DEF Works, Kept

\* A change to what the queue and the timers do not depend on.
LEMMA AsideWorks ==
  ASSUME NEW c \in Conn, NEW d \in Conn, Kept(c, d), d.q_begin = c.q_begin,
         d.snd_max = c.snd_max, d.timers = c.timers, d.failed = c.failed,
         \A x \in d.out \ c.out : "SYN" \notin x.flags
  PROVE  Works(c, d)
BY DEF Works, Kept, Orderly, Timed

\* A segment that is no SYN.
LEMMA EmitWorks ==
  ASSUME NEW c \in Conn, NEW s \in Segment, "SYN" \notin s.flags
  PROVE  Works(c, Emit(c, s))
<1> DEFINE d == Emit(c, s)
<1>1. d \in Conn
  BY EmitQuiet DEF Quiet
<1>2. /\ Kept(c, d) /\ d.q_begin = c.q_begin /\ d.snd_max = c.snd_max /\ d.timers = c.timers
      /\ d.failed = c.failed /\ d.out = c.out \cup {s}
  BY DEF Emit, Conn, Kept
<1> HIDE DEF d
<1> QED
  BY <1>1, <1>2, AsideWorks DEF d

\* The control segments.
LEMMA SendAckWorks ==
  ASSUME NEW c \in Conn
  PROVE  Works(c, SendAck(c))
<1> DEFINE s == Seg({"ACK"}, c.snd_nxt, c.rcv_nxt, 0)
<1>1. s \in Segment
  BY SegType DEF Conn, Flags
<1>2. "SYN" \notin s.flags
  BY DEF Seg
<1> QED
  BY <1>1, <1>2, EmitWorks DEF SendAck

\* A RST,
LEMMA SendRstWorks ==
  ASSUME NEW c \in Conn, NEW seq \in Nat
  PROVE  Works(c, SendRst(c, seq))
<1> DEFINE s == Seg({"RST"}, seq, 0, 0)
<1>1. s \in Segment
  BY SegType DEF Conn, Flags
<1>2. "SYN" \notin s.flags
  BY DEF Seg
<1> QED
  BY <1>1, <1>2, EmitWorks DEF SendRst

\* and a FIN, wherever snd_nxt stands.
LEMMA SendFinWorks ==
  ASSUME NEW c \in Conn
  PROVE  Works(c, SendFin(c)) /\ SendFin(c).snd_max = c.snd_max
         /\ SendFin(c).timers = c.timers /\ SendFin(c).q_begin = c.q_begin
         /\ SendFin(c).failed = c.failed
<1> DEFINE s == Seg({"ACK", "FIN"}, c.snd_nxt, c.rcv_nxt, 0)
<1>1. s \in Segment
  BY SegType DEF Conn, Flags
<1>2. "SYN" \notin s.flags
  BY DEF Seg
<1>3. /\ SendFin(c).snd_max = c.snd_max /\ SendFin(c).timers = c.timers
      /\ SendFin(c).q_begin = c.q_begin /\ SendFin(c).failed = c.failed
  BY DEF SendFin, Emit, Conn
<1> QED
  BY <1>1, <1>2, <1>3, EmitWorks DEF SendFin

\* REXMIT is started, and nothing else happens.
LEMMA StartRexmitTimerWorks ==
  ASSUME NEW c \in Conn
  PROVE  /\ StartRexmitTimer(c) \in Conn /\ Kept(c, StartRexmitTimer(c))
         /\ StartRexmitTimer(c).q_begin = c.q_begin /\ StartRexmitTimer(c).snd_max = c.snd_max
         /\ StartRexmitTimer(c).failed = c.failed /\ StartRexmitTimer(c).out = c.out
         /\ StartRexmitTimer(c).snd_nxt = c.snd_nxt
         /\ StartRexmitTimer(c).timers = c.timers \cup {"rexmit"}
         /\ c.snd_una < c.snd_max => Works(c, StartRexmitTimer(c))
<1> DEFINE b == StartTimer(c, "rexmit")
           d == [b EXCEPT !.rexmit_count = 0]
<1>1. /\ b \in Conn /\ Kept(c, b) /\ b.q_begin = c.q_begin /\ b.snd_max = c.snd_max
      /\ b.timers = c.timers \cup {"rexmit"} /\ b.failed = c.failed /\ b.out = c.out
      /\ b.snd_nxt = c.snd_nxt
  BY DEF StartTimer, Conn, Timers, Kept
<1> HIDE DEF b
<1>2. /\ d \in Conn /\ Kept(b, d) /\ d.q_begin = b.q_begin /\ d.snd_max = b.snd_max
      /\ d.timers = b.timers /\ d.failed = b.failed /\ d.out = b.out /\ d.snd_nxt = b.snd_nxt
  BY <1>1 DEF Conn, Kept
<1> HIDE DEF d
<1>3. Kept(c, d)
  BY <1>1, <1>2 DEF Kept
<1>4. Orderly(c) => Orderly(d)
  BY <1>1, <1>2, <1>3 DEF Kept, Orderly
<1>5. c.snd_una < c.snd_max => Timed(d)
  BY <1>1, <1>2, <1>3 DEF Kept, Timed
<1> QED
  BY <1>1, <1>2, <1>3, <1>4, <1>5 DEF Works, StartRexmitTimer, d, b

\* An assertion of the queue that holds.
LEMMA CheckHolds ==
  ASSUME NEW c \in Conn, NEW assertion \in BOOLEAN
  PROVE  /\ Check(c, assertion) \in Conn /\ Kept(c, Check(c, assertion))
         /\ Check(c, assertion).q_begin = c.q_begin
         /\ Check(c, assertion).snd_nxt = c.snd_nxt
         /\ Check(c, assertion).snd_max = c.snd_max
         /\ Check(c, assertion).timers = c.timers
         /\ Check(c, assertion).out = c.out
         /\ assertion => Check(c, assertion).failed = c.failed
<1>1. Check(c, assertion) \in Conn /\ Kept(c, Check(c, assertion))
  BY CheckSends DEF Sends
<1>2. Fail(c, "queue").timers = c.timers
  BY DEF Fail, Conn
<1> QED
  BY <1>1, <1>2, CheckSends DEF Check

\* Units of the queue from snd_nxt on: they must not have been dropped from it.
LEMMA SendSegmentsWorks ==
  ASSUME NEW c \in Conn, NEW n \in Nat, n > 0, c.snd_nxt + n <= c.q_end
  PROVE  /\ SendSegments(c, n) \in Conn /\ Kept(c, SendSegments(c, n))
         /\ \A x \in SendSegments(c, n).out \ c.out : "SYN" \notin x.flags
         /\ SendSegments(c, n).timers = c.timers
         /\ SendSegments(c, n).snd_max = c.snd_max
         /\ SendSegments(c, n).q_begin = c.q_begin
         /\ SendSegments(c, n).snd_nxt \in {c.snd_nxt + n, c.snd_nxt + n + 1}
         /\ (c.send_fin => c.snd_fin_seq = c.q_end) =>
              /\ c.q_begin <= c.snd_nxt => SendSegments(c, n).failed = c.failed
              /\ SendSegments(c, n).snd_nxt =
                   IF c.send_fin /\ c.snd_nxt + n = c.snd_fin_seq THEN c.snd_nxt + n + 1
                   ELSE c.snd_nxt + n
<1> DEFINE to == c.snd_nxt + n
           fin == c.send_fin /\ c.snd_nxt < c.snd_fin_seq /\ c.snd_fin_seq <= to
           last == IF fin /\ c.snd_fin_seq < to THEN to + 1 ELSE to
           nxt == IF fin THEN to + 1 ELSE to
           Unit(s) == IF fin /\ s + 1 = c.snd_fin_seq
                      THEN Seg({"ACK", "FIN"}, s, c.rcv_nxt, 1)
                      ELSE Seg({"ACK"}, IF fin /\ s >= c.snd_fin_seq THEN s + 1 ELSE s,
                               c.rcv_nxt, 1)
           units == {Unit(s) : s \in c.snd_nxt .. to - 1}
           b == [c EXCEPT !.snd_nxt = nxt, !.out = @ \cup units]
           ok == c.q_begin <= c.snd_nxt /\ last <= c.q_end
           d == Check(b, ok)
<1>1. /\ nxt \in Nat /\ to \in Nat /\ to <= c.q_end /\ c.snd_nxt \in Nat /\ c.rcv_nxt \in Nat
      /\ c.snd_fin_seq \in Nat /\ c.q_end \in Nat /\ nxt \in {to, to + 1}
      /\ (c.send_fin => c.snd_fin_seq = c.q_end) =>
           /\ last = to
           /\ nxt = IF c.send_fin /\ to = c.snd_fin_seq THEN to + 1 ELSE to
  BY DEF Conn
<1>2. ASSUME NEW u \in units
      PROVE  u \in Segment /\ "SYN" \notin u.flags
  <2>1. PICK s \in c.snd_nxt .. to - 1 : u = Unit(s)
    OBVIOUS
  <2>2. s \in Nat
    BY <1>1, <2>1
  <2> DEFINE q == IF fin /\ s >= c.snd_fin_seq THEN s + 1 ELSE s
  <2>3. u = Seg({"ACK", "FIN"}, s, c.rcv_nxt, 1) \/ u = Seg({"ACK"}, q, c.rcv_nxt, 1)
    BY <2>1
  <2>4. q \in Nat
    BY <2>2
  <2> HIDE DEF q
  <2> QED
    BY <1>1, <2>2, <2>3, <2>4 DEF Seg, Segment, Flags
<1> HIDE DEF units
<1>3. b \in Conn
  <2>1. c.out \cup units \in SUBSET Segment
    BY <1>2 DEF Conn
  <2> HIDE DEF nxt
  <2> QED
    BY <1>1, <2>1 DEF Conn
<1>4. /\ Kept(c, b) /\ b.q_begin = c.q_begin /\ b.failed = c.failed /\ b.out = c.out \cup units
      /\ b.snd_nxt = nxt /\ b.snd_max = c.snd_max /\ b.timers = c.timers
  BY DEF Conn, Kept
<1> HIDE DEF b
<1>5. /\ ok \in BOOLEAN
      /\ (c.send_fin => c.snd_fin_seq = c.q_end) /\ c.q_begin <= c.snd_nxt => ok
  BY <1>1
<1> HIDE DEF ok, nxt
<1>6. /\ d \in Conn /\ Kept(b, d) /\ d.q_begin = b.q_begin /\ d.snd_nxt = b.snd_nxt
      /\ d.snd_max = b.snd_max /\ d.timers = b.timers /\ d.out = b.out
      /\ ok => d.failed = b.failed
  BY <1>3, <1>5, CheckHolds
<1> HIDE DEF d
<1>7. Kept(c, d)
  BY <1>4, <1>6 DEF Kept
<1>8. SendSegments(c, n) = d
  BY DEF SendSegments, d, b, units, ok, nxt
<1>9. \A x \in d.out \ c.out : "SYN" \notin x.flags
  BY <1>2, <1>4, <1>6
<1> HIDE DEF to
<1> QED
  BY <1>1, <1>4, <1>5, <1>6, <1>7, <1>8, <1>9 DEF to

\* What the windows leave room for: REXMIT runs from there on.
LEMMA SendDataWorks ==
  ASSUME NEW c \in Conn
  PROVE  Works(c, SendData(c))
<1> DEFINE n == Sendable(c)
           c1 == [c EXCEPT !.snd_nxt = c.snd_max]
           c2 == SendSegments(c1, n)
           max == Greater(c.snd_max, c2.snd_nxt)
           c3 == [c2 EXCEPT !.snd_max = max]
<1>1. /\ c1 \in Conn /\ Kept(c, c1) /\ c1.snd_nxt = c.snd_max /\ c1.q_begin = c.q_begin
      /\ c1.snd_max = c.snd_max /\ c1.timers = c.timers /\ c1.failed = c.failed
      /\ c1.out = c.out
  BY DEF Conn, Kept
<1>2. Works(c, c1)
  BY <1>1, AsideWorks
<1> HIDE DEF c1
<1>3. CASE n <= 0
  BY <1>2, <1>3 DEF SendData, c1
<1>4. CASE ~(n <= 0)
  <2>1. n \in Nat /\ n > 0 /\ c.snd_max + n <= c.q_end
    BY <1>4, SendableBound
  <2> HIDE DEF n
  <2>2. /\ c2 \in Conn /\ Kept(c1, c2) /\ c2.timers = c1.timers /\ c2.snd_max = c1.snd_max
        /\ \A x \in c2.out \ c1.out : "SYN" \notin x.flags
        /\ c2.q_begin = c1.q_begin
        /\ c2.snd_nxt \in {c1.snd_nxt + n, c1.snd_nxt + n + 1}
        /\ (c1.send_fin => c1.snd_fin_seq = c1.q_end) =>
             /\ c1.q_begin <= c1.snd_nxt => c2.failed = c1.failed
             /\ c2.snd_nxt = IF c1.send_fin /\ c1.snd_nxt + n = c1.snd_fin_seq
                             THEN c1.snd_nxt + n + 1 ELSE c1.snd_nxt + n
    <3>1. c1.snd_nxt + n <= c1.q_end
      BY <1>1, <2>1 DEF Kept
    <3> QED
      BY <1>1, <2>1, <3>1, SendSegmentsWorks
  <2> HIDE DEF c2
  <2>3. /\ c.snd_max \in Nat /\ c2.snd_nxt \in Nat /\ c.snd_una \in Nat /\ c.q_end \in Nat
        /\ c.q_begin \in Nat
    BY <2>2 DEF Conn
  <2>4. /\ max \in Nat /\ c.snd_max < max
        /\ Orderly(c) => max <= c.q_end + 1 /\ (max = c.q_end + 1 => c.send_fin)
    BY <1>1, <2>1, <2>2, <2>3 DEF Greater, Orderly, Kept
  <2> HIDE DEF max
  <2>5. /\ c3 \in Conn /\ Kept(c2, c3) /\ c3.q_begin = c2.q_begin /\ c3.failed = c2.failed
        /\ c3.out = c2.out /\ c3.snd_max = max /\ c3.timers = c2.timers
    BY <2>2, <2>4 DEF Conn, Kept
  <2> HIDE DEF c3
  <2>6. Kept(c, c3)
    BY <1>1, <2>2, <2>5 DEF Kept
  <2>7. Orderly(c) => Orderly(c3) /\ c3.snd_una < c3.snd_max
    BY <1>1, <2>2, <2>3, <2>4, <2>5, <2>6 DEF Orderly, Kept
  <2>8. /\ c3.timers = c.timers
        /\ \A x \in c3.out \ c.out : "SYN" \notin x.flags
    BY <1>1, <2>2, <2>5
  <2>9. Works(c, c3)
    BY <2>5, <2>6, <2>7, <2>8 DEF Works, Timed
  <2>10. Works(c, StartRexmitTimer(c3))
    <3> DEFINE d == StartRexmitTimer(c3)
    <3>1. /\ d \in Conn /\ Kept(c3, d) /\ d.q_begin = c3.q_begin /\ d.snd_max = c3.snd_max
          /\ d.failed = c3.failed /\ d.out = c3.out /\ d.timers = c3.timers \cup {"rexmit"}
      BY <2>5, StartRexmitTimerWorks
    <3> HIDE DEF d
    <3>2. Kept(c, d)
      BY <2>6, <3>1 DEF Kept
    <3>3. Orderly(c) => Orderly(d) /\ Timed(d)
      BY <2>7, <3>1 DEF Orderly, Timed, Kept
    <3> QED
      BY <2>8, <3>1, <3>2, <3>3 DEF Works, d
  <2> QED
    BY <1>4, <2>9, <2>10 DEF SendData, c3, max, c2, n, c1
<1> QED
  BY <1>3, <1>4

\* TCPBaseAlg::established().
LEMMA EstablishedWorks ==
  ASSUME NEW c \in Conn, NEW active \in BOOLEAN
  PROVE  Works(c, Established(c, active))
<1> DEFINE cwnd == IF c.syn_rexmit_count = 0 THEN InitialWindow ELSE 1
           c1 == [c EXCEPT !.snd_cwnd = cwnd]
<1>1. cwnd \in Nat
  BY ConnectionAssumption
<1> HIDE DEF cwnd
<1>2. /\ c1 \in Conn /\ Kept(c, c1) /\ c1.q_begin = c.q_begin /\ c1.snd_max = c.snd_max
      /\ c1.timers = c.timers /\ c1.failed = c.failed /\ c1.out = c.out
  BY <1>1 DEF Conn, Kept
<1> HIDE DEF c1
<1>3. Works(c, c1)
  BY <1>2, AsideWorks
<1>4. Works(c, SendData(c1)) /\ SendData(c1) \in Conn
  BY <1>2, <1>3, SendDataWorks, WorksTransitive DEF Works
<1>5. Works(c, SendAck(SendData(c1)))
  BY <1>4, SendAckWorks, WorksTransitive
<1> QED
  BY <1>3, <1>4, <1>5 DEF Established, c1, cwnd

\* TCPNoCongestionControl::receivedDataAck(): REXMIT is put right, whatever it was.
LEMMA ReceivedDataAckWorks ==
  ASSUME NEW c \in Conn
  PROVE  /\ Works(c, ReceivedDataAck(c))
         /\ Orderly(c) => Timed(ReceivedDataAck(c))
<1> DEFINE stopped == [c EXCEPT !.timers = @ \ {"rexmit"}]
           d == IF c.snd_una = c.snd_max THEN stopped ELSE StartRexmitTimer(c)
<1>1. /\ stopped \in Conn /\ Kept(c, stopped) /\ stopped.q_begin = c.q_begin
      /\ stopped.snd_max = c.snd_max /\ stopped.timers = c.timers \ {"rexmit"}
      /\ stopped.failed = c.failed /\ stopped.out = c.out
  BY DEF Conn, Kept
<1>2. Works(c, stopped) /\ Timed(stopped)
  BY <1>1 DEF Works, Kept, Orderly, Timed
<1> HIDE DEF stopped
<1>3. /\ d \in Conn /\ Kept(c, d) /\ d.q_begin = c.q_begin /\ d.snd_max = c.snd_max
      /\ d.failed = c.failed /\ d.out = c.out
      /\ "2msl" \in d.timers <=> "2msl" \in c.timers
  BY <1>1, StartRexmitTimerWorks
<1>4. Orderly(c) => Orderly(d) /\ Timed(d)
  <2>1. c.snd_una \in Nat /\ c.snd_max \in Nat /\ d.snd_una = c.snd_una
    BY <1>3 DEF Conn, Kept
  <2>2. Orderly(c) => Orderly(d)
    BY <1>3 DEF Orderly, Kept
  <2>3. Orderly(c) => c.snd_una = c.snd_max \/ c.snd_una < c.snd_max
    BY <2>1 DEF Orderly
  <2>4. c.snd_una < c.snd_max => Timed(d)
    BY <1>3, <2>1 DEF Timed
  <2> QED
    BY <1>2, <2>2, <2>3, <2>4
<1> HIDE DEF d
<1>5. Works(c, d)
  BY <1>3, <1>4 DEF Works
<1>6. Works(d, SendData(d)) /\ SendData(d) \in Conn
  BY <1>3, SendDataWorks DEF Works
<1>7. ReceivedDataAck(c) = SendData(d)
  BY DEF ReceivedDataAck, d, stopped
<1> QED
  BY <1>4, <1>5, <1>6, <1>7, WorksTransitive DEF Works

\* What is retransmitted is in the queue or is the FIN, as long as something is outstanding.
LEMMA RetransmitOneSegmentWorks ==
  ASSUME NEW c \in Conn, Orderly(c), c.snd_una < c.snd_max
  PROVE  Works(c, RetransmitOneSegment(c)) /\ Timed(RetransmitOneSegment(c))
<1> DEFINE c1 == [c EXCEPT !.snd_nxt = c.snd_una]
           bytes == Lesser(Lesser(1, c.snd_max - c.snd_una), BytesAvailable(c, c.snd_una))
           b == [c1 EXCEPT !.snd_nxt = c.q_end]
           c2 == SendFin(b)
           last == c.q_end + 1
           c3 == [c2 EXCEPT !.snd_nxt = last, !.snd_max = last]
<1>1. /\ c.snd_una \in Nat /\ c.snd_max \in Nat /\ c.q_end \in Nat /\ c.q_begin \in Nat
      /\ c.snd_fin_seq \in Nat
  BY DEF Conn
<1>2. /\ bytes \in {0, 1}
      /\ bytes = 0 => c.send_fin /\ c.snd_fin_seq = c.q_end /\ c.snd_max = c.q_end + 1
      /\ bytes = 1 => c.snd_una + 1 <= c.q_end
  BY <1>1 DEF Lesser, BytesAvailable, Orderly
<1> HIDE DEF bytes
<1>3. /\ c1 \in Conn /\ Kept(c, c1) /\ c1.snd_nxt = c.snd_una /\ c1.q_begin = c.q_begin
      /\ c1.snd_max = c.snd_max /\ c1.timers = c.timers /\ c1.failed = c.failed
      /\ c1.out = c.out
  BY DEF Conn, Kept
<1> HIDE DEF c1
<1>4. CASE bytes = 0
  <2>1. /\ b \in Conn /\ Kept(c1, b) /\ b.q_begin = c1.q_begin
        /\ b.snd_max = c1.snd_max /\ b.timers = c1.timers /\ b.failed = c1.failed
        /\ b.out = c1.out
    BY <1>1, <1>3 DEF Conn, Kept
  <2> HIDE DEF b
  <2>2. /\ c2 \in Conn /\ Kept(b, c2) /\ c2.q_begin = b.q_begin /\ c2.snd_max = b.snd_max
        /\ c2.timers = b.timers /\ c2.failed = b.failed
        /\ \A x \in c2.out \ b.out : "SYN" \notin x.flags
    BY <2>1, SendFinWorks DEF Works
  <2> HIDE DEF c2
  <2>3. /\ c3 \in Conn /\ Kept(c2, c3) /\ c3.q_begin = c2.q_begin
        /\ c3.snd_max = last /\ c3.timers = c2.timers /\ c3.failed = c2.failed
        /\ c3.out = c2.out
    <3>1. last \in Nat
      BY <1>1
    <3> HIDE DEF last
    <3>2. c3 \in Conn
      BY <2>2, <3>1 DEF Conn
    <3> QED
      BY <2>2, <3>2 DEF Conn, Kept
  <2> HIDE DEF c3
  <2>4. Kept(c, c3)
    BY <1>3, <2>1, <2>2, <2>3 DEF Kept
  <2>5. Orderly(c3) /\ Timed(c3)
    BY <1>1, <1>2, <1>3, <1>4, <2>1, <2>2, <2>3, <2>4 DEF Orderly, Timed, Kept
  <2>6. Works(c, c3)
    BY <1>3, <2>1, <2>2, <2>3, <2>4, <2>5 DEF Works
  <2> QED
    BY <1>2, <1>4, <2>5, <2>6 DEF RetransmitOneSegment, c3, c2, b, c1, bytes
<1>5. CASE bytes = 1
  <2> DEFINE d == SendSegments(c1, 1)
  <2>1. /\ d \in Conn /\ Kept(c1, d) /\ d.timers = c1.timers /\ d.snd_max = c1.snd_max
        /\ \A x \in d.out \ c1.out : "SYN" \notin x.flags
        /\ d.q_begin = c1.q_begin
        /\ (c1.send_fin => c1.snd_fin_seq = c1.q_end) /\ c1.q_begin <= c1.snd_nxt =>
             d.failed = c1.failed
    <3>1. c1.snd_nxt + 1 <= c1.q_end
      BY <1>2, <1>3, <1>5 DEF Kept
    <3> QED
      BY <1>3, <3>1, SendSegmentsWorks
  <2> HIDE DEF d
  <2>2. Kept(c, d)
    BY <1>3, <2>1 DEF Kept
  <2>3. Orderly(d) /\ Timed(d)
    BY <1>1, <1>3, <2>1, <2>2 DEF Orderly, Timed, Kept
  <2>4. Works(c, d)
    BY <1>3, <2>1, <2>2, <2>3 DEF Works
  <2> QED
    BY <1>5, <2>3, <2>4 DEF RetransmitOneSegment, c1, bytes, d
<1> QED
  BY <1>2, <1>4, <1>5

\* What has been acknowledged leaves the queue, if it is there.
LEMMA DiscardUpToWorks ==
  ASSUME NEW c \in Conn, NEW seq \in Nat
  PROVE  /\ DiscardUpTo(c, seq) \in Conn /\ Kept(c, DiscardUpTo(c, seq))
         /\ DiscardUpTo(c, seq).q_begin = seq
         /\ DiscardUpTo(c, seq).snd_nxt = c.snd_nxt
         /\ DiscardUpTo(c, seq).snd_max = c.snd_max
         /\ DiscardUpTo(c, seq).timers = c.timers
         /\ DiscardUpTo(c, seq).out = c.out
         /\ c.q_begin <= seq /\ seq <= c.q_end => DiscardUpTo(c, seq).failed = c.failed
<1> DEFINE b == [c EXCEPT !.q_begin = seq]
           ok == c.q_begin <= seq /\ seq <= c.q_end
           d == Check(b, ok)
<1>1. /\ b \in Conn /\ Kept(c, b) /\ b.q_begin = seq /\ b.failed = c.failed /\ b.out = c.out
      /\ b.timers = c.timers /\ b.snd_max = c.snd_max /\ b.snd_nxt = c.snd_nxt
  BY DEF Conn, Kept
<1>2. ok \in BOOLEAN /\ (c.q_begin <= seq /\ seq <= c.q_end => ok)
  OBVIOUS
<1> HIDE DEF b, ok
<1>3. /\ d \in Conn /\ Kept(b, d) /\ d.q_begin = b.q_begin /\ d.snd_nxt = b.snd_nxt
      /\ d.snd_max = b.snd_max /\ d.timers = b.timers /\ d.out = b.out
      /\ ok => d.failed = b.failed
  BY <1>1, <1>2, CheckHolds
<1> HIDE DEF d
<1>4. Kept(c, d)
  BY <1>1, <1>3 DEF Kept
<1> QED
  BY <1>1, <1>2, <1>3, <1>4 DEF DiscardUpTo, d, b, ok

-----------------------------------------------------------------------------
(* What is told, and what is heard of a stream *)

\* Connections that differ in the event, in the timers and in what the application knows.
Twins(c, d) ==
  /\ d \in Conn
  /\ d.fsm = c.fsm /\ d.active = c.active /\ d.iss = c.iss /\ d.irs = c.irs
  /\ d.snd_una = c.snd_una /\ d.snd_nxt = c.snd_nxt /\ d.snd_max = c.snd_max
  /\ d.q_begin = c.q_begin /\ d.q_end = c.q_end
  /\ d.send_fin = c.send_fin /\ d.snd_fin_seq = c.snd_fin_seq
  /\ d.fin_ack_rcvd = c.fin_ack_rcvd /\ d.rcv_nxt = c.rcv_nxt /\ d.buf = c.buf
  /\ d.fin_rcvd = c.fin_rcvd /\ d.rcv_fin_seq = c.rcv_fin_seq
  /\ d.failed = c.failed /\ d.out = c.out

\* Raising an event changes nothing else.
LEMMA RaiseTwins ==
  ASSUME NEW c \in Conn, NEW ev \in Events
  PROVE  /\ Twins(c, Raise(c, ev)) /\ Raise(c, ev).event = ev
         /\ Raise(c, ev).app = c.app /\ Raise(c, ev).timers = c.timers
<1>1. Raise(c, ev) \in Conn
  BY RaiseType
<1> QED
  BY <1>1 DEF Raise, Conn, Twins

\* An indication changes what the application knows.
LEMMA IndicateTwins ==
  ASSUME NEW c \in Conn, NEW k \in Indications
  PROVE  /\ Twins(c, Indicate(c, k)) /\ Indicate(c, k).event = c.event
         /\ Indicate(c, k).timers = c.timers /\ Indicate(c, k).app = Told(c.app, k)
<1>1. Indicate(c, k) \in Conn
  BY IndicateType
<1> QED
  BY <1>1 DEF Indicate, Conn, Twins

\* Starting a timer.
LEMMA StartTimerTwins ==
  ASSUME NEW c \in Conn, NEW t \in Timers
  PROVE  /\ Twins(c, StartTimer(c, t)) /\ StartTimer(c, t).event = c.event
         /\ StartTimer(c, t).app = c.app /\ StartTimer(c, t).timers = c.timers \cup {t}
<1>1. StartTimer(c, t) \in Conn
  BY DEF StartTimer, Conn
<1> QED
  BY <1>1 DEF StartTimer, Conn, Twins

\* The queue is as much in order as before.
LEMMA TwinsOrderly ==
  ASSUME NEW c \in Conn, NEW d, Twins(c, d)
  PROVE  /\ Orderly(c) => Orderly(d)
         /\ d.timers = c.timers => (Timed(c) => Timed(d))
         /\ d.timers = c.timers \cup {"2msl"} => (Timed(c) => Timed(d))
BY DEF Twins, Orderly, Timed

\* Nothing has been heard of any stream of the peer.
Idle(c) ==
  /\ c.buf = {} /\ ~c.fin_rcvd /\ c.app.got = 0
  /\ c.fsm \notin FinTaken /\ c.event \notin {"RCV_FIN", "RCV_FIN_ACK"}
\* Whoever waits for another stream than h has nothing but what is in h.
Fresh(c, h) ==
  c.irs # h.iss =>
    /\ c.app.got = 0
    /\ c.fsm \notin FinTaken /\ c.event \notin {"RCV_FIN", "RCV_FIN_ACK"}
    /\ \A x \in c.buf : x > h.iss
    /\ c.fin_rcvd => c.rcv_fin_seq > h.iss

\* What the arrival of s makes of c, and of what is known of the peer's stream h.
Tells(c, d, s, h) ==
  /\ Moves(c, d, s, h)
  /\ \A x \in d.out \ c.out : "SYN" \notin x.flags
  /\ d.app.estab = c.app.estab /\ d.app.peer_closed = c.app.peer_closed
  /\ d.app.got # c.app.got => c.fsm \in DataStates
  /\ ~Text(s) /\ Idle(c) => Idle(d)
  /\ (Text(s) => s.seq > h.iss) /\ Hears(c, h) /\ Fresh(c, h) => Fresh(d, h)

\* Twice is once.
LEMMA TellsTransitive ==
  ASSUME NEW c \in Conn, NEW d, NEW f, NEW s \in Segment, NEW h \in Streams,
         Tells(c, d, s, h), Tells(d, f, s, h)
  PROVE  Tells(c, f, s, h)
<1>1. Moves(c, f, s, h)
  BY MovesTransitive DEF Tells
<1>2. d.fsm = c.fsm /\ (Hears(c, h) => Hears(d, h))
  BY DEF Tells, Moves
<1> QED
  BY <1>1, <1>2 DEF Tells

\* Sending tells nothing.
LEMMA WorksTells ==
  ASSUME NEW c \in Conn, NEW d, NEW s \in Segment, NEW h \in Streams, Sends(c, d),
         \A x \in d.out \ c.out : "SYN" \notin x.flags
  PROVE  Tells(c, d, s, h)
<1>1. Moves(c, d, s, h)
  BY SendsMoves
<1>2. Kept(c, d)
  BY DEF Sends
<1> QED
  BY <1>1, <1>2 DEF Tells, Kept, Idle, Fresh

\* Nothing at all.
LEMMA TellsItself ==
  ASSUME NEW c \in Conn, NEW s \in Segment, NEW h \in Streams
  PROVE  Tells(c, c, s, h)
BY SendsItself, WorksTells

\* An event that is not about the FIN of the peer.
LEMMA RaiseTells ==
  ASSUME NEW c \in Conn, NEW s \in Segment, NEW h \in Streams, NEW ev \in Events,
         ev \notin {"RCV_FIN", "RCV_FIN_ACK"},
         ev = "RCV_ACK" /\ c.fsm \in {"FIN_WAIT_1", "CLOSING"} => c.fin_ack_rcvd
  PROVE  Tells(c, Raise(c, ev), s, h)
<1> DEFINE d == Raise(c, ev)
<1>1. Moves(c, d, s, h)
  BY RaiseMoves
<1>2. Twins(c, d) /\ d.event = ev /\ d.app = c.app
  BY RaiseTwins
<1> HIDE DEF d
<1> QED
  BY <1>1, <1>2 DEF Tells, Twins, Idle, Fresh, d

\* A timer.
LEMMA StartTimerTells ==
  ASSUME NEW c \in Conn, NEW s \in Segment, NEW h \in Streams, NEW t \in Timers
  PROVE  Tells(c, StartTimer(c, t), s, h)
<1>1. StartTimer(c, t).out = c.out
  BY StartTimerTwins DEF Twins
<1> QED
  BY <1>1, StartTimerSends, WorksTells

\* An ACK is nobody's stream.
LEMMA ProcessAckTells ==
  ASSUME NEW c \in Conn, NEW s \in Segment, NEW h \in Streams,
         SentInOrder(c), s.ack <= c.snd_max
  PROVE  Tells(c, ProcessAck(c, s), s, h)
<1> DEFINE finAcked == c.send_fin /\ s.ack = c.snd_fin_seq + 1
           upTo == IF finAcked THEN s.ack - 1 ELSE s.ack
           nxt == Greater(c.snd_nxt, s.ack)
           known == c.fin_ack_rcvd \/ finAcked
           c1 == [c EXCEPT !.snd_una = s.ack, !.snd_nxt = nxt,
                           !.fin_ack_rcvd = @ \/ finAcked]
           c2 == DiscardUpTo(c1, upTo)
           d == ProcessAck(c, s)
<1>1. s.ack \in Nat /\ nxt \in Nat /\ upTo \in Nat /\ known \in BOOLEAN
  BY DEF Segment, Greater, Conn
<1>2. CASE s.ack <= c.snd_una
  BY <1>2, TellsItself DEF ProcessAck
<1>3. CASE ~(s.ack <= c.snd_una)
  <2>0. d = IF s.len = 0 /\ c.fsm # "SYN_RCVD" THEN ReceivedDataAck(c2) ELSE c2
    BY <1>3 DEF ProcessAck
  <2>1. c1 \in Conn
    <3>1. c1 = [c EXCEPT !.snd_una = s.ack, !.snd_nxt = nxt, !.fin_ack_rcvd = known]
      OBVIOUS
    <3> HIDE DEF c1, nxt, known
    <3> QED
      BY <1>1, <3>1 DEF Conn
  <2>2. /\ c1.event = c.event /\ c1.irs = c.irs /\ c1.fsm = c.fsm /\ c1.out = c.out
        /\ c1.buf = c.buf /\ c1.fin_rcvd = c.fin_rcvd /\ c1.rcv_fin_seq = c.rcv_fin_seq
        /\ c1.app = c.app
    BY DEF Conn
  <2> HIDE DEF c1, upTo
  <2>3. c2 \in Conn /\ Kept(c1, c2) /\ c2.out = c1.out
    BY <1>1, <2>1, DiscardUpToWorks
  <2> HIDE DEF c2
  <2>4. /\ d \in Conn /\ Kept(c2, d) /\ \A x \in d.out \ c2.out : "SYN" \notin x.flags
    BY <2>0, <2>3, ReceivedDataAckWorks, WorksItself DEF Works
  <2>5. Moves(c, d, s, h)
    BY ProcessAckMoves
  <2> HIDE DEF d
  <2>6. /\ d.event = c.event /\ d.irs = c.irs /\ d.fsm = c.fsm
        /\ d.buf = c.buf /\ d.fin_rcvd = c.fin_rcvd /\ d.rcv_fin_seq = c.rcv_fin_seq
        /\ d.app = c.app /\ \A x \in d.out \ c.out : "SYN" \notin x.flags
    BY <2>2, <2>3, <2>4 DEF Kept
  <2> QED
    BY <2>5, <2>6 DEF Tells, Idle, Fresh, d
<1> QED
  BY <1>2, <1>3

\* rcv_nxt moves over a FIN: only in the stream that it belongs to.
LEMMA ConsumeFinTells ==
  ASSUME NEW c \in Conn, NEW s \in Segment, NEW h \in Streams, Belongs(s, h), Apart(s, h),
         \/ "FIN" \in s.flags /\ c.rcv_nxt = s.seq + s.len
         \/ c.fin_rcvd /\ c.rcv_nxt = c.rcv_fin_seq
  PROVE  Tells(c, ConsumeFin(c), s, h)
<1> DEFINE last == c.fsm = "FIN_WAIT_1" /\ c.fin_ack_rcvd
           ev == IF last THEN "RCV_FIN_ACK" ELSE "RCV_FIN"
           b == [c EXCEPT !.rcv_nxt = @ + 1]
           c1 == Raise(b, ev)
           d == ConsumeFin(c)
<1>1. b \in Conn /\ ev \in Events
  BY DEF Conn, Events
<1>2. /\ b.fsm = c.fsm /\ b.irs = c.irs /\ b.buf = c.buf /\ b.fin_rcvd = c.fin_rcvd
      /\ b.rcv_fin_seq = c.rcv_fin_seq /\ b.app = c.app /\ b.out = c.out
  BY DEF Conn
<1> HIDE DEF b, ev
<1>3. Twins(b, c1) /\ c1.app = b.app /\ c1 \in Conn
  BY <1>1, RaiseTwins DEF Twins
<1>4. d = IF last \/ c.fsm \in {"FIN_WAIT_2", "TIME_WAIT"} THEN StartTimer(c1, "2msl") ELSE c1
  BY DEF ConsumeFin, b, ev
<1> HIDE DEF c1
<1>5. Twins(c1, d) /\ d.app = c1.app
  <2>1. "2msl" \in Timers
    BY DEF Timers
  <2>2. Twins(c1, c1)
    BY <1>3 DEF Twins
  <2> QED
    BY <1>3, <1>4, <2>1, <2>2, StartTimerTwins
<1>6. Moves(c, d, s, h)
  BY ConsumeFinMoves
<1> HIDE DEF d
<1>7. /\ d.fsm = c.fsm /\ d.irs = c.irs /\ d.buf = c.buf /\ d.fin_rcvd = c.fin_rcvd
      /\ d.rcv_fin_seq = c.rcv_fin_seq /\ d.app = c.app /\ d.out = c.out
  BY <1>2, <1>3, <1>5 DEF Twins
<1>8. ~Text(s) => ~Idle(c)
  BY DEF Text, Idle
<1>9. (Text(s) => s.seq > h.iss) /\ Hears(c, h) /\ Fresh(c, h) => c.irs = h.iss
  <2>1. /\ c.rcv_nxt \in Nat /\ c.rcv_fin_seq \in Nat /\ c.irs \in Nat
        /\ s.seq \in Nat /\ s.len \in Nat /\ h.iss \in Nat
    BY DEF Conn, Segment, Streams
  <2> QED
    BY <2>1 DEF Text, Hears, Fresh
<1> QED
  BY <1>6, <1>7, <1>8, <1>9 DEF Tells, Fresh, d

\* Step seven.  What is above the stream of the peer stays in the receive queue.
LEMMA ProcessTextTells ==
  ASSUME NEW c \in Conn, NEW s \in Segment, NEW h \in Streams, Belongs(s, h), Apart(s, h),
         NEW old \in Nat
  PROVE  Tells(c, ProcessText(c, s, old), s, h)
<1> DEFINE data == c.buf \cup {s.seq}
           n == InSequence(c.rcv_nxt, data)
           buf == {x \in data : x >= c.rcv_nxt + n}
           c1 == [c EXCEPT !.rcv_nxt = @ + n, !.buf = buf]
           c2 == IF c.snd_una > old THEN ReceivedDataAck(c1) ELSE c1
           app == [c2.app EXCEPT !.got = @ + n]
           c3 == [c2 EXCEPT !.app.got = @ + n]
           d == ProcessText(c, s, old)
<1>1. CASE c.fsm \notin DataStates \/ s.len = 0
  BY <1>1, TellsItself DEF ProcessText
<1>2. CASE ~(c.fsm \notin DataStates \/ s.len = 0)
  <2>1. /\ c.rcv_nxt \in Nat /\ data \in SUBSET Nat /\ c.app \in App /\ c.app.got \in Nat
        /\ c.irs \in Nat /\ h.iss \in Nat
    BY DEF Conn, Segment, App, Streams
  <2>2. n \in Nat /\ c.rcv_nxt + n \in Nat /\ buf \in SUBSET Nat /\ buf \subseteq data
    BY <2>1, InSequenceType
  <2>3. n > 0 => c.rcv_nxt \in data
    <3>1. \A k \in 0 .. n - 1 : c.rcv_nxt + k \in data
      BY <2>1, InSequenceUnits
    <3> HIDE DEF n, data
    <3>2. n > 0 => c.rcv_nxt + 0 \in data
      BY <2>2, <3>1
    <3> QED
      BY <2>1, <3>2
  <2>4. d = IF n = 0 THEN SendAck(c2)
            ELSE IF c3.fin_rcvd /\ c3.rcv_nxt = c3.rcv_fin_seq THEN ConsumeFin(c3) ELSE c3
    BY <1>2 DEF ProcessText
  <2>5. Moves(c, d, s, h)
    BY ProcessTextMoves
  <2> HIDE DEF n, buf
  <2>6. /\ c1 \in Conn /\ c1.irs = c.irs /\ c1.fsm = c.fsm /\ c1.event = c.event
        /\ c1.out = c.out /\ c1.buf = buf /\ c1.rcv_nxt = c.rcv_nxt + n
        /\ c1.fin_rcvd = c.fin_rcvd /\ c1.rcv_fin_seq = c.rcv_fin_seq /\ c1.app = c.app
    BY <2>2 DEF Conn
  <2> HIDE DEF c1
  <2>7. c2 \in Conn /\ Kept(c1, c2) /\ \A x \in c2.out \ c1.out : "SYN" \notin x.flags
    BY <2>6, ReceivedDataAckWorks, WorksItself DEF Works
  <2> HIDE DEF c2
  <2>8. /\ app \in App /\ app.got = c.app.got + n /\ app.estab = c.app.estab
        /\ app.peer_closed = c.app.peer_closed
        /\ c3 = [c2 EXCEPT !.app = app]
    <3>1. c2.app = c.app
      BY <2>6, <2>7 DEF Kept
    <3> QED
      BY <2>1, <2>2, <2>7, <3>1 DEF App, Conn
  <2> HIDE DEF app
  <2>9. c3 \in Conn /\ c3.app = app /\ c3.out = c2.out /\ c3.irs = c2.irs /\ c3.fsm = c2.fsm
        /\ c3.event = c2.event /\ c3.buf = c2.buf /\ c3.fin_rcvd = c2.fin_rcvd
        /\ c3.rcv_fin_seq = c2.rcv_fin_seq /\ c3.rcv_nxt = c2.rcv_nxt
    BY <2>7, <2>8 DEF Conn
  <2> HIDE DEF c3
  <2>10. /\ c3.app = app /\ c3.irs = c.irs /\ c3.fsm = c.fsm /\ c3.event = c.event
         /\ c3.buf = buf /\ c3.fin_rcvd = c.fin_rcvd /\ c3.rcv_fin_seq = c.rcv_fin_seq
         /\ c3.rcv_nxt = c.rcv_nxt + n
         /\ \A x \in c3.out \ c.out : "SYN" \notin x.flags
    BY <2>6, <2>7, <2>9 DEF Kept
  <2>11. Text(s) /\ c.fsm \in DataStates /\ c.fsm \notin FinTaken
    BY <1>2 DEF Text, Segment, DataStates, FinTaken
  <2>12. ASSUME s.seq > h.iss, Hears(c, h), Fresh(c, h)
         PROVE  Fresh(c3, h) /\ (c.irs # h.iss => n = 0)
    <3>1. c.irs # h.iss => c.rcv_nxt < h.iss /\ \A x \in data : x > h.iss
      BY <2>1, <2>12 DEF Hears, Fresh
    <3>2. c.irs # h.iss => n = 0
      <4> HIDE DEF data
      <4> QED
        BY <2>1, <2>2, <2>3, <3>1
    <3>3. c.irs # h.iss => app.got = c.app.got
      BY <2>1, <2>8, <3>2
    <3>4. c.irs # h.iss => \A x \in buf : x > h.iss
      BY <2>2, <3>1
    <3> QED
      BY <2>10, <2>12, <3>2, <3>3, <3>4 DEF Fresh
  <2>13. CASE n = 0
    <3> DEFINE f == SendAck(c2)
    <3>1. /\ f \in Conn /\ Kept(c2, f) /\ \A x \in f.out \ c2.out : "SYN" \notin x.flags
      BY <2>7, SendAckWorks DEF Works
    <3>2. d = f
      BY <2>4, <2>13
    <3> HIDE DEF f, d
    <3>3. /\ d.fsm = c.fsm /\ d.irs = c.irs /\ d.event = c.event /\ d.buf = buf
          /\ d.fin_rcvd = c.fin_rcvd /\ d.rcv_fin_seq = c.rcv_fin_seq /\ d.app = c.app
          /\ \A x \in d.out \ c.out : "SYN" \notin x.flags
      BY <2>6, <2>7, <3>1, <3>2 DEF Kept
    <3>4. c3.buf = buf /\ c3.fsm = c.fsm
      BY <2>10
    <3>5. s.seq > h.iss /\ Hears(c, h) /\ Fresh(c, h) => Fresh(d, h)
      BY <2>10, <2>12, <3>3 DEF Fresh
    <3> QED
      BY <2>5, <2>11, <3>3, <3>5 DEF Tells, d
  <2>14. CASE n # 0
    <3>1. CASE ~(c3.fin_rcvd /\ c3.rcv_nxt = c3.rcv_fin_seq)
      <4>1. d = c3
        BY <2>4, <2>14, <3>1
      <4> HIDE DEF d
      <4> QED
        BY <2>5, <2>8, <2>10, <2>11, <2>12, <4>1 DEF Tells, d
    <3>2. CASE c3.fin_rcvd /\ c3.rcv_nxt = c3.rcv_fin_seq
      <4>1. d = ConsumeFin(c3) /\ Tells(c3, d, s, h)
        BY <2>4, <2>9, <2>14, <3>2, ConsumeFinTells
      <4> HIDE DEF d
      <4>2. (Text(s) => s.seq > h.iss) /\ Hears(c, h) /\ Fresh(c, h) => Fresh(d, h)
        <5> SUFFICES ASSUME Hears(c, h), Fresh(c, h), s.seq > h.iss
                     PROVE  Fresh(d, h)
          BY <2>11
        <5>1. c.irs = h.iss
          BY <2>12, <2>14
        <5>2. d.irs = c.irs
          BY <2>5 DEF Moves, d
        <5> QED
          BY <5>1, <5>2 DEF Fresh
      <4>3. /\ \A x \in d.out \ c.out : "SYN" \notin x.flags
            /\ d.app.estab = c.app.estab /\ d.app.peer_closed = c.app.peer_closed
        BY <2>8, <2>10, <4>1 DEF Tells
      <4> QED
        BY <2>5, <2>11, <4>2, <4>3 DEF Tells, d
    <3> QED
      BY <3>1, <3>2
  <2> QED
    BY <2>13, <2>14
<1> QED
  BY <1>1, <1>2

\* Step eight.
LEMMA ProcessFinTells ==
  ASSUME NEW c \in Conn, NEW s \in Segment, NEW h \in Streams, Belongs(s, h), Apart(s, h)
  PROVE  Tells(c, ProcessFin(c, s), s, h)
<1> DEFINE fin_seq == s.seq + s.len
           d == [c EXCEPT !.fin_rcvd = TRUE, !.rcv_fin_seq = fin_seq]
<1>1. CASE "FIN" \notin s.flags
  BY <1>1, TellsItself DEF ProcessFin
<1>2. CASE "FIN" \in s.flags /\ c.rcv_nxt = fin_seq
  <2>1. Tells(c, ConsumeFin(c), s, h)
    BY <1>2, ConsumeFinTells
  <2> QED
    BY <1>2, <2>1 DEF ProcessFin
<1>3. CASE "FIN" \in s.flags /\ c.rcv_nxt # fin_seq
  <2>1. d = ProcessFin(c, s)
    BY <1>3 DEF ProcessFin
  <2>2. Moves(c, d, s, h)
    BY <2>1, ProcessFinMoves
  <2>3. s.seq \in Nat /\ s.len \in Nat /\ h.iss \in Nat /\ fin_seq \in Nat
    BY DEF Segment, Streams
  <2>4. Text(s) /\ (s.seq > h.iss => fin_seq > h.iss)
    BY <1>3, <2>3 DEF Text
  <2> HIDE DEF fin_seq
  <2>5. /\ d.fsm = c.fsm /\ d.irs = c.irs /\ d.event = c.event /\ d.buf = c.buf
        /\ d.rcv_fin_seq = fin_seq /\ d.app = c.app /\ d.out = c.out
    BY DEF Conn
  <2> HIDE DEF d
  <2>6. Tells(c, d, s, h)
    BY <2>2, <2>4, <2>5 DEF Tells, Fresh
  <2> QED
    BY <2>1, <2>6
<1> QED
  BY <1>1, <1>2, <1>3

\* Steps five to eight, from where SYN_RCVD has been dealt with.
LEMMA RestTells ==
  ASSUME NEW c \in Conn, NEW c1 \in Conn, NEW s \in Segment, NEW h \in Streams,
         Belongs(s, h), Apart(s, h), SentInOrder(c1), c1.fsm = c.fsm,
         c.fsm # "TIME_WAIT" => s.ack <= c1.snd_max
  PROVE  Tells(c1, Rest(c, c1, s), s, h)
<1> DEFINE c2 == IF c.fsm = "TIME_WAIT" THEN StartTimer(SendAck(c1), "2msl")
                 ELSE ProcessAck(c1, s)
           c3 == IF c2.fin_ack_rcvd /\ c.fsm = "FIN_WAIT_1" THEN Raise(c2, "RCV_ACK")
                 ELSE IF c2.fin_ack_rcvd /\ c.fsm = "CLOSING"
                   THEN Raise(StartTimer(c2, "2msl"), "RCV_ACK")
                 ELSE c2
           t == ProcessText(c3, s, c.snd_una)
           c4 == ProcessFin(t, s)
           c5 == IF c4.rcv_nxt # c.rcv_nxt THEN ReceiveSeqChanged(c4) ELSE c4
<1>1. ASSUME NEW d \in Conn
      PROVE  /\ StartTimer(d, "2msl") \in Conn /\ Tells(d, StartTimer(d, "2msl"), s, h)
             /\ StartTimer(d, "2msl").fsm = d.fsm
             /\ StartTimer(d, "2msl").fin_ack_rcvd = d.fin_ack_rcvd
  BY StartTimerTells, StartTimerTwins DEF Timers, Twins
<1>2. ASSUME NEW d \in Conn
      PROVE  SendAck(d) \in Conn /\ Tells(d, SendAck(d), s, h)
  BY SendAckSends, SendAckWorks, WorksTells DEF Sends, Works
<1>3. Tells(c1, c2, s, h) /\ c2 \in Conn
  <2>1. Tells(c1, StartTimer(SendAck(c1), "2msl"), s, h)
    BY <1>1, <1>2, TellsTransitive
  <2>2. c.fsm # "TIME_WAIT" => Tells(c1, ProcessAck(c1, s), s, h)
    BY ProcessAckTells
  <2> QED
    BY <2>1, <2>2 DEF Tells, Moves
<1> HIDE DEF c2
<1>4. c2.fsm = c.fsm
  BY <1>3 DEF Tells, Moves
<1>5. ASSUME NEW d \in Conn, d.fin_ack_rcvd \/ d.fsm = "LAST_ACK"
      PROVE  Tells(d, Raise(d, "RCV_ACK"), s, h)
  BY <1>5, RaiseTells DEF Events
<1>6. c.fsm = "LAST_ACK" => Tells(c1, Raise(c2, "RCV_ACK"), s, h)
  BY <1>3, <1>4, <1>5, TellsTransitive
<1>7. Tells(c1, c3, s, h) /\ c3 \in Conn
  <2>1. c2.fin_ack_rcvd => Tells(c1, Raise(c2, "RCV_ACK"), s, h)
    BY <1>3, <1>5, TellsTransitive
  <2>2. c2.fin_ack_rcvd => Tells(c1, Raise(StartTimer(c2, "2msl"), "RCV_ACK"), s, h)
    <3> SUFFICES ASSUME c2.fin_ack_rcvd
                 PROVE  Tells(c1, Raise(StartTimer(c2, "2msl"), "RCV_ACK"), s, h)
      OBVIOUS
    <3> DEFINE u == StartTimer(c2, "2msl")
    <3>1. u \in Conn /\ Tells(c2, u, s, h) /\ u.fin_ack_rcvd = c2.fin_ack_rcvd
      BY <1>1, <1>3
    <3> HIDE DEF u
    <3>2. Tells(u, Raise(u, "RCV_ACK"), s, h)
      BY <1>5, <3>1
    <3> QED
      BY <1>3, <3>1, <3>2, TellsTransitive DEF u
  <2> QED
    BY <1>3, <2>1, <2>2 DEF Tells, Moves
<1> HIDE DEF c3
<1>8. Tells(c1, t, s, h) /\ t \in Conn
  <2>1. c.snd_una \in Nat
    BY DEF Conn
  <2>2. Tells(c3, t, s, h)
    BY <1>7, <2>1, ProcessTextTells
  <2> HIDE DEF t
  <2>3. t \in Conn
    BY <2>2 DEF Tells, Moves
  <2> QED
    BY <1>7, <2>2, <2>3, TellsTransitive
<1> HIDE DEF t
<1>9. Tells(c1, c4, s, h) /\ c4 \in Conn
  <2>1. Tells(t, c4, s, h)
    BY <1>8, ProcessFinTells
  <2> HIDE DEF c4
  <2>2. c4 \in Conn
    BY <2>1 DEF Tells, Moves
  <2> QED
    BY <1>8, <2>1, <2>2, TellsTransitive
<1> HIDE DEF c4
<1>10. Tells(c1, c5, s, h) /\ c5 \in Conn
  <2> DEFINE r == SendAck(c4)
  <2>1. r \in Conn /\ Tells(c4, r, s, h)
    BY <1>2, <1>9
  <2>2. c5 = c4 \/ c5 = r
    BY DEF ReceiveSeqChanged
  <2> HIDE DEF r, c5
  <2>3. Tells(c1, r, s, h)
    BY <1>9, <2>1, TellsTransitive
  <2> QED
    BY <1>9, <2>1, <2>2, <2>3
<1> HIDE DEF c5
<1>11. Tells(c1, DeferredClose(c5, c.snd_nxt), s, h)
  <2>1. "CLOSE" \in Events
    BY DEF Events
  <2>2. Tells(c5, Raise(c5, "CLOSE"), s, h)
    BY <1>10, <2>1, RaiseTells
  <2> QED
    BY <1>10, <2>2, TellsTransitive DEF DeferredClose
<1> QED
  BY <1>6, <1>11 DEF Rest, c5, c4, t, c3, c2

-----------------------------------------------------------------------------
(* The queue, REXMIT and 2MSL while a segment is processed *)

\* 2MSL runs in TIME_WAIT, and in a state that is about to become TIME_WAIT.
Waits(c) ==
  "2msl" \in c.timers =>
    \/ c.fsm = "TIME_WAIT"
    \/ c.fsm = "FIN_WAIT_2" /\ c.event = "RCV_FIN"
    \/ c.fsm = "FIN_WAIT_1" /\ c.event = "RCV_FIN_ACK" /\ c.fin_ack_rcvd
    \/ c.fsm = "CLOSING" /\ c.event = "RCV_ACK"
\* All three.
Healthy(c) == Orderly(c) /\ Timed(c) /\ Waits(c)

\* Sending keeps a connection healthy.
LEMMA WorksHealthy ==
  ASSUME NEW c \in Conn, NEW d, Works(c, d)
  PROVE  (Healthy(c) => Healthy(d)) /\ (Waits(c) => Waits(d))
BY DEF Works, Kept, Healthy, Waits

\* An ACK of something new that was sent.
LEMMA ProcessAckFacts ==
  ASSUME NEW c \in Conn, NEW s \in Segment, c.snd_una < s.ack, c.iss < s.ack,
         c.failed = {}, c.q_begin <= s.ack, c.q_begin <= c.q_end,
         s.ack <= c.snd_max, c.snd_max <= c.q_end + 1,
         c.snd_max = c.q_end + 1 => c.send_fin, c.send_fin => c.snd_fin_seq = c.q_end
  PROVE  LET d == ProcessAck(c, s)
         IN /\ d \in Conn /\ Orderly(d) /\ d.snd_una = s.ack
            /\ d.fsm = c.fsm /\ d.event = c.event /\ d.rcv_nxt = c.rcv_nxt
            /\ c.fin_ack_rcvd => d.fin_ack_rcvd
            /\ "2msl" \in d.timers <=> "2msl" \in c.timers
            /\ s.len = 0 /\ c.fsm # "SYN_RCVD" => Timed(d)
            /\ c.fsm = "SYN_RCVD" => d.timers = c.timers /\ d.snd_max = c.snd_max
<1> DEFINE finAcked == c.send_fin /\ s.ack = c.snd_fin_seq + 1
           upTo == IF finAcked THEN s.ack - 1 ELSE s.ack
           nxt == Greater(c.snd_nxt, s.ack)
           known == c.fin_ack_rcvd \/ finAcked
           c1 == [c EXCEPT !.snd_una = s.ack, !.snd_nxt = nxt,
                           !.fin_ack_rcvd = @ \/ finAcked]
           c2 == DiscardUpTo(c1, upTo)
           d == ProcessAck(c, s)
<1>0. /\ s.ack \in Nat /\ c.q_end \in Nat /\ c.q_begin \in Nat /\ c.snd_fin_seq \in Nat
      /\ c.snd_max \in Nat /\ c.iss \in Nat /\ c.snd_una \in Nat /\ c.snd_nxt \in Nat
  BY DEF Segment, Conn
<1>1. /\ nxt \in Nat /\ upTo \in Nat /\ known \in BOOLEAN
      /\ c.q_begin <= upTo /\ upTo <= c.q_end /\ upTo <= s.ack
  BY <1>0 DEF Greater
<1>2. d = IF s.len = 0 /\ c.fsm # "SYN_RCVD" THEN ReceivedDataAck(c2) ELSE c2
  BY <1>0 DEF ProcessAck
<1>3. c1 \in Conn
  <2>1. c1 = [c EXCEPT !.snd_una = s.ack, !.snd_nxt = nxt, !.fin_ack_rcvd = known]
    OBVIOUS
  <2> HIDE DEF c1, nxt, known
  <2> QED
    BY <1>0, <1>1, <2>1 DEF Conn
<1>4. /\ c1.event = c.event /\ c1.iss = c.iss /\ c1.fsm = c.fsm /\ c1.rcv_nxt = c.rcv_nxt
      /\ c1.q_begin = c.q_begin /\ c1.q_end = c.q_end /\ c1.send_fin = c.send_fin
      /\ c1.snd_fin_seq = c.snd_fin_seq /\ c1.snd_una = s.ack /\ c1.snd_max = c.snd_max
      /\ c1.failed = c.failed /\ c1.timers = c.timers
  BY DEF Conn
<1>5. c.fin_ack_rcvd => c1.fin_ack_rcvd
  BY DEF Conn
<1> HIDE DEF c1, upTo
<1>6. /\ c2 \in Conn /\ Kept(c1, c2) /\ c2.q_begin = upTo /\ c2.snd_max = c1.snd_max
      /\ c2.timers = c1.timers
      /\ c1.q_begin <= upTo /\ upTo <= c1.q_end => c2.failed = c1.failed
  BY <1>1, <1>3, DiscardUpToWorks
<1> HIDE DEF c2
<1>7. Orderly(c2)
  BY <1>0, <1>1, <1>4, <1>6 DEF Orderly, Kept
<1>8. Works(c2, ReceivedDataAck(c2)) /\ Timed(ReceivedDataAck(c2))
  BY <1>6, <1>7, ReceivedDataAckWorks
<1>9. Works(c2, d) /\ (s.len = 0 /\ c.fsm # "SYN_RCVD" => Timed(d))
      /\ (c.fsm = "SYN_RCVD" => d = c2)
  BY <1>2, <1>6, <1>8, WorksItself
<1> HIDE DEF d
<1>10. /\ d \in Conn /\ Orderly(d) /\ d.snd_una = s.ack
       /\ d.fsm = c.fsm /\ d.event = c.event /\ d.rcv_nxt = c.rcv_nxt
       /\ c.fin_ack_rcvd => d.fin_ack_rcvd
       /\ "2msl" \in d.timers <=> "2msl" \in c.timers
  BY <1>4, <1>5, <1>6, <1>7, <1>9 DEF Works, Kept
<1>11. c.fsm = "SYN_RCVD" => d.timers = c.timers /\ d.snd_max = c.snd_max
  BY <1>4, <1>6, <1>9
<1> QED
  BY <1>9, <1>10, <1>11 DEF d

\* Any ACK of something that was sent: REXMIT is left to the text when there is one.
LEMMA ProcessAckHealthy ==
  ASSUME NEW c \in Conn, Healthy(c), NEW s \in Segment, s.ack <= c.snd_max,
         c.fsm # "SYN_RCVD"
  PROVE  LET d == ProcessAck(c, s)
         IN /\ d \in Conn /\ Orderly(d) /\ Waits(d) /\ d.fsm = c.fsm /\ d.rcv_nxt = c.rcv_nxt
            /\ Timed(d) \/ (s.len = 1 /\ d.snd_una > c.snd_una)
            /\ "2msl" \in d.timers <=> "2msl" \in c.timers
<1> DEFINE d == ProcessAck(c, s)
<1>0. /\ s.ack \in Nat /\ c.snd_una \in Nat /\ c.iss \in Nat /\ c.q_begin \in Nat
      /\ s.len \in {0, 1}
  BY DEF Segment, Conn
<1>1. CASE s.ack <= c.snd_una
  <2>1. d = c
    BY <1>1 DEF ProcessAck
  <2> QED
    BY <2>1 DEF Healthy
<1>2. CASE ~(s.ack <= c.snd_una)
  <2>1. /\ d \in Conn /\ Orderly(d) /\ d.snd_una = s.ack
        /\ d.fsm = c.fsm /\ d.event = c.event /\ d.rcv_nxt = c.rcv_nxt
        /\ c.fin_ack_rcvd => d.fin_ack_rcvd
        /\ "2msl" \in d.timers <=> "2msl" \in c.timers
        /\ s.len = 0 => Timed(d)
    BY <1>0, <1>2, ProcessAckFacts DEF Healthy, Orderly
  <2> HIDE DEF d
  <2>2. Waits(d)
    BY <2>1 DEF Healthy, Waits
  <2> QED
    BY <1>0, <1>2, <2>1, <2>2 DEF d
<1> QED
  BY <1>1, <1>2

\* The ACK that completes the handshake: the SYN is all that it can be for.
LEMMA FirstAckHealthy ==
  ASSUME NEW c \in Conn, NEW s \in Segment, c.fsm = "SYN_RCVD", c.failed = {},
         c.snd_una = c.iss, c.q_begin = c.iss + 1, c.snd_max = c.iss + 1,
         c.q_begin <= c.q_end, ~c.send_fin, s.ack = c.iss + 1,
         c.timers \cap {"rexmit", "2msl"} = {}
  PROVE  LET d == ProcessAck(c, s)
         IN d \in Conn /\ Healthy(d) /\ d.fsm = c.fsm /\ d.rcv_nxt = c.rcv_nxt
<1> DEFINE d == ProcessAck(c, s)
<1>1. /\ c.iss \in Nat /\ c.q_end \in Nat
  BY DEF Conn
<1>2. /\ d \in Conn /\ Orderly(d) /\ d.fsm = c.fsm /\ d.rcv_nxt = c.rcv_nxt
      /\ d.timers = c.timers
  BY <1>1, ProcessAckFacts
<1> HIDE DEF d
<1> QED
  BY <1>2 DEF Healthy, Timed, Waits, d

\* rcv_nxt moves over a FIN, and 2MSL starts where it has to.
LEMMA ConsumeFinHealthy ==
  ASSUME NEW c \in Conn, Healthy(c), c.fsm # "CLOSING"
  PROVE  Healthy(ConsumeFin(c)) /\ ConsumeFin(c) \in Conn
<1> DEFINE last == c.fsm = "FIN_WAIT_1" /\ c.fin_ack_rcvd
           ev == IF last THEN "RCV_FIN_ACK" ELSE "RCV_FIN"
           b == [c EXCEPT !.rcv_nxt = @ + 1]
           c1 == Raise(b, ev)
           d == ConsumeFin(c)
<1>1. b \in Conn /\ ev \in Events
  BY DEF Conn, Events
<1>2. /\ b.fsm = c.fsm /\ b.fin_ack_rcvd = c.fin_ack_rcvd /\ b.timers = c.timers
      /\ Orderly(b) /\ Timed(b)
  <2>1. /\ b.fsm = c.fsm /\ b.fin_ack_rcvd = c.fin_ack_rcvd /\ b.timers = c.timers
        /\ b.iss = c.iss /\ b.snd_una = c.snd_una /\ b.snd_max = c.snd_max
        /\ b.q_begin = c.q_begin /\ b.q_end = c.q_end /\ b.send_fin = c.send_fin
        /\ b.snd_fin_seq = c.snd_fin_seq /\ b.failed = c.failed
    BY DEF Conn
  <2> HIDE DEF b
  <2> QED
    BY <2>1 DEF Healthy, Orderly, Timed
<1>3. d = IF last \/ c.fsm \in {"FIN_WAIT_2", "TIME_WAIT"} THEN StartTimer(c1, "2msl") ELSE c1
  BY DEF ConsumeFin
<1> HIDE DEF b
<1>4. ev = IF last THEN "RCV_FIN_ACK" ELSE "RCV_FIN"
  OBVIOUS
<1> HIDE DEF ev
<1>5. Twins(b, c1) /\ c1.timers = b.timers /\ c1.event = ev /\ c1 \in Conn
  BY <1>1, RaiseTwins DEF Twins
<1> HIDE DEF c1
<1>6. Orderly(c1) /\ Timed(c1) /\ c1.fsm = c.fsm /\ c1.fin_ack_rcvd = c.fin_ack_rcvd
  BY <1>1, <1>2, <1>5, TwinsOrderly DEF Twins
<1>7. /\ StartTimer(c1, "2msl") \in Conn
      /\ Orderly(StartTimer(c1, "2msl")) /\ Timed(StartTimer(c1, "2msl"))
      /\ StartTimer(c1, "2msl").fsm = c.fsm
      /\ StartTimer(c1, "2msl").fin_ack_rcvd = c.fin_ack_rcvd
      /\ StartTimer(c1, "2msl").event = ev
  <2> DEFINE u == StartTimer(c1, "2msl")
  <2>1. "2msl" \in Timers
    BY DEF Timers
  <2>2. Twins(c1, u) /\ u.timers = c1.timers \cup {"2msl"} /\ u.event = c1.event
    BY <1>5, <2>1, StartTimerTwins
  <2> HIDE DEF u
  <2>3. Orderly(u) /\ Timed(u)
    BY <1>5, <1>6, <2>2, TwinsOrderly
  <2> QED
    BY <1>5, <1>6, <2>2, <2>3 DEF Twins, u
<1>8. d \in Conn /\ Orderly(d) /\ Timed(d)
  BY <1>3, <1>5, <1>6, <1>7
<1>9. Waits(d)
  <2>1. /\ d.fsm = c.fsm /\ d.event = ev /\ d.fin_ack_rcvd = c.fin_ack_rcvd
        /\ ~(last \/ c.fsm \in {"FIN_WAIT_2", "TIME_WAIT"}) => d.timers = c.timers
    BY <1>2, <1>3, <1>5, <1>6, <1>7
  <2> HIDE DEF d
  <2> QED
    BY <1>4, <2>1 DEF Healthy, Waits
<1> QED
  BY <1>8, <1>9 DEF Healthy

\* Step seven puts REXMIT right when the ACK of a segment with text has left it to that.
LEMMA ProcessTextHealthy ==
  ASSUME NEW c \in Conn, Orderly(c), Waits(c), NEW s \in Segment, NEW old \in Nat,
         Timed(c) \/ (s.len = 1 /\ c.snd_una > old /\ c.fsm \in DataStates)
  PROVE  LET d == ProcessText(c, s, old)
         IN d \in Conn /\ Healthy(d) /\ d.fsm = c.fsm /\ (c.fsm \notin DataStates => d = c)
<1> DEFINE data == c.buf \cup {s.seq}
           n == InSequence(c.rcv_nxt, data)
           buf == {x \in data : x >= c.rcv_nxt + n}
           c1 == [c EXCEPT !.rcv_nxt = @ + n, !.buf = buf]
           c2 == IF c.snd_una > old THEN ReceivedDataAck(c1) ELSE c1
           app == [c2.app EXCEPT !.got = @ + n]
           c3 == [c2 EXCEPT !.app.got = @ + n]
           d == ProcessText(c, s, old)
<1>1. CASE c.fsm \notin DataStates \/ s.len = 0
  <2>1. d = c
    BY <1>1 DEF ProcessText
  <2> QED
    BY <1>1, <2>1 DEF Healthy
<1>2. CASE ~(c.fsm \notin DataStates \/ s.len = 0)
  <2>1. c.rcv_nxt \in Nat /\ data \in SUBSET Nat /\ c.app \in App /\ c.app.got \in Nat
    BY DEF Conn, Segment, App
  <2>2. n \in Nat /\ c.rcv_nxt + n \in Nat /\ buf \in SUBSET Nat
    BY <2>1, InSequenceType
  <2>3. d = IF n = 0 THEN SendAck(c2)
            ELSE IF c3.fin_rcvd /\ c3.rcv_nxt = c3.rcv_fin_seq THEN ConsumeFin(c3) ELSE c3
    BY <1>2 DEF ProcessText
  <2> HIDE DEF n, buf
  <2>4. /\ c1 \in Conn /\ c1.fsm = c.fsm /\ c1.event = c.event /\ c1.timers = c.timers
        /\ c1.fin_ack_rcvd = c.fin_ack_rcvd /\ c1.app = c.app
        /\ c1.iss = c.iss /\ c1.snd_una = c.snd_una /\ c1.snd_max = c.snd_max
        /\ c1.q_begin = c.q_begin /\ c1.q_end = c.q_end /\ c1.send_fin = c.send_fin
        /\ c1.snd_fin_seq = c.snd_fin_seq /\ c1.failed = c.failed
    BY <2>2 DEF Conn
  <2> HIDE DEF c1
  <2>5. Orderly(c1) /\ Waits(c1) /\ (Timed(c) => Timed(c1))
    BY <2>4 DEF Orderly, Waits, Timed
  <2>6. c2 \in Conn /\ Healthy(c2) /\ c2.fsm = c.fsm /\ c2.app = c.app
    <3>1. Works(c1, ReceivedDataAck(c1)) /\ Timed(ReceivedDataAck(c1))
      BY <2>4, <2>5, ReceivedDataAckWorks
    <3>2. Works(c1, c2) /\ Timed(c2)
      BY <1>2, <2>4, <2>5, <3>1, WorksItself
    <3> HIDE DEF c2
    <3> QED
      BY <2>4, <2>5, <3>2, WorksHealthy DEF Works, Healthy, Kept
  <2> HIDE DEF c2
  <2>7. app \in App /\ c3 = [c2 EXCEPT !.app = app]
    BY <2>1, <2>2, <2>6 DEF App, Conn
  <2> HIDE DEF app
  <2>8. c3 \in Conn /\ Healthy(c3) /\ c3.fsm = c2.fsm
    <3>1. /\ c3 \in Conn /\ c3.fsm = c2.fsm /\ c3.event = c2.event /\ c3.timers = c2.timers
          /\ c3.fin_ack_rcvd = c2.fin_ack_rcvd
          /\ c3.iss = c2.iss /\ c3.snd_una = c2.snd_una /\ c3.snd_max = c2.snd_max
          /\ c3.q_begin = c2.q_begin /\ c3.q_end = c2.q_end /\ c3.send_fin = c2.send_fin
          /\ c3.snd_fin_seq = c2.snd_fin_seq /\ c3.failed = c2.failed
      BY <2>6, <2>7 DEF Conn
    <3> HIDE DEF c3
    <3> QED
      BY <2>6, <3>1 DEF Healthy, Orderly, Waits, Timed
  <2> HIDE DEF c3
  <2>9. SendAck(c2) \in Conn /\ Healthy(SendAck(c2)) /\ SendAck(c2).fsm = c2.fsm
    BY <2>6, SendAckWorks, WorksHealthy DEF Works, Kept
  <2>10. ConsumeFin(c3) \in Conn /\ Healthy(ConsumeFin(c3)) /\ ConsumeFin(c3).fsm = c3.fsm
    <3>1. c3.fsm # "CLOSING"
      BY <1>2, <2>6, <2>8 DEF DataStates
    <3>2. ConsumeFin(c3).fsm = c3.fsm
      BY <2>8 DEF ConsumeFin, Raise, StartTimer, Conn
    <3> QED
      BY <2>8, <3>1, <3>2, ConsumeFinHealthy
  <2> HIDE DEF d
  <2>11. d \in Conn /\ Healthy(d) /\ d.fsm = c.fsm
    BY <2>3, <2>6, <2>8, <2>9, <2>10
  <2> QED
    BY <1>2, <2>11 DEF d
<1> QED
  BY <1>1, <1>2

\* Step eight: in CLOSING the FIN has been taken before.
LEMMA ProcessFinHealthy ==
  ASSUME NEW c \in Conn, Healthy(c), NEW s \in Segment,
         c.fsm = "CLOSING" /\ "FIN" \in s.flags => c.rcv_nxt # s.seq + s.len
  PROVE  Healthy(ProcessFin(c, s)) /\ ProcessFin(c, s) \in Conn
<1> DEFINE fin_seq == s.seq + s.len
           d == [c EXCEPT !.fin_rcvd = TRUE, !.rcv_fin_seq = fin_seq]
<1>1. fin_seq \in Nat
  BY DEF Segment
<1>2. "FIN" \in s.flags /\ c.rcv_nxt = fin_seq =>
        Healthy(ConsumeFin(c)) /\ ConsumeFin(c) \in Conn
  BY ConsumeFinHealthy
<1>3. d \in Conn /\ Healthy(d)
  <2> HIDE DEF fin_seq
  <2>1. /\ d \in Conn /\ d.fsm = c.fsm /\ d.event = c.event /\ d.timers = c.timers
        /\ d.fin_ack_rcvd = c.fin_ack_rcvd
        /\ d.iss = c.iss /\ d.snd_una = c.snd_una /\ d.snd_max = c.snd_max
        /\ d.q_begin = c.q_begin /\ d.q_end = c.q_end /\ d.send_fin = c.send_fin
        /\ d.snd_fin_seq = c.snd_fin_seq /\ d.failed = c.failed
    BY <1>1 DEF Conn
  <2> HIDE DEF d
  <2> QED
    BY <2>1 DEF Healthy, Orderly, Waits, Timed
<1> QED
  BY <1>2, <1>3 DEF ProcessFin

\* What arrives once the FIN of the peer has been taken carries no text, and no other FIN.
Late(c, s) ==
  c.fsm \in FinTaken => s.len = 0 /\ ("FIN" \in s.flags => s.seq # c.rcv_nxt)

\* What the processing of an ACK starts from.
AckReady(c, s) ==
  \/ c.fsm # "SYN_RCVD" /\ Healthy(c)
  \/ /\ c.fsm = "SYN_RCVD" /\ c.failed = {} /\ c.snd_una = c.iss
     /\ c.q_begin = c.iss + 1 /\ c.snd_max = c.iss + 1 /\ c.q_begin <= c.q_end
     /\ ~c.send_fin /\ s.ack = c.iss + 1 /\ c.timers \cap {"rexmit", "2msl"} = {}

\* Steps five to eight.
LEMMA RestHealthy ==
  ASSUME NEW c \in Conn, NEW c1 \in Conn, NEW s \in Segment,
         c1.fsm = c.fsm, c1.snd_una = c.snd_una, c.fsm \in Heard,
         AckReady(c1, s), Late(c1, s), "2msl" \in c1.timers => c.fsm = "TIME_WAIT",
         c.fsm # "TIME_WAIT" => s.ack <= c1.snd_max
  PROVE  Healthy(Rest(c, c1, s))
<1> DEFINE c2 == IF c.fsm = "TIME_WAIT" THEN StartTimer(SendAck(c1), "2msl")
                 ELSE ProcessAck(c1, s)
           c3 == IF c2.fin_ack_rcvd /\ c.fsm = "FIN_WAIT_1" THEN Raise(c2, "RCV_ACK")
                 ELSE IF c2.fin_ack_rcvd /\ c.fsm = "CLOSING"
                   THEN Raise(StartTimer(c2, "2msl"), "RCV_ACK")
                 ELSE c2
           t == ProcessText(c3, s, c.snd_una)
           c4 == ProcessFin(t, s)
           c5 == IF c4.rcv_nxt # c.rcv_nxt THEN ReceiveSeqChanged(c4) ELSE c4
<1>1. "2msl" \in Timers /\ "RCV_ACK" \in Events /\ "CLOSE" \in Events
  BY DEF Timers, Events
<1>2. /\ c2 \in Conn /\ Orderly(c2) /\ Waits(c2) /\ c2.fsm = c.fsm /\ c2.rcv_nxt = c1.rcv_nxt
      /\ Timed(c2) \/ (s.len = 1 /\ c2.snd_una > c.snd_una /\ c.fsm # "SYN_RCVD")
      /\ "2msl" \in c2.timers => c.fsm = "TIME_WAIT"
  <2>1. CASE c.fsm = "TIME_WAIT"
    <3> DEFINE a == SendAck(c1)
    <3>1. a \in Conn /\ Healthy(a) /\ a.fsm = c1.fsm /\ a.rcv_nxt = c1.rcv_nxt
      BY <2>1, SendAckWorks, WorksHealthy DEF AckReady, Works, Kept
    <3>2. c2 = StartTimer(a, "2msl")
      BY <2>1
    <3> HIDE DEF a, c2
    <3>3. Twins(a, c2) /\ c2.timers = a.timers \cup {"2msl"}
      BY <1>1, <3>1, <3>2, StartTimerTwins
    <3>4. Orderly(c2) /\ Timed(c2)
      BY <3>1, <3>3, TwinsOrderly DEF Healthy
    <3> QED
      BY <2>1, <3>1, <3>3, <3>4 DEF Twins, Waits
  <2>2. CASE c.fsm = "SYN_RCVD"
    <3>1. c2 = ProcessAck(c1, s)
      BY <2>2
    <3> QED
      BY <2>2, <3>1, FirstAckHealthy DEF AckReady, Healthy, Waits
  <2>3. CASE c.fsm \notin {"SYN_RCVD", "TIME_WAIT"}
    <3>1. c2 = ProcessAck(c1, s)
      BY <2>3
    <3> QED
      BY <2>3, <3>1, ProcessAckHealthy DEF AckReady
  <2> QED
    BY <2>1, <2>2, <2>3
<1> HIDE DEF c2
<1>3. CASE c.fsm = "LAST_ACK" /\ c.send_fin /\ s.ack = c.snd_fin_seq + 1
  <2>1. Rest(c, c1, s) = Raise(c2, "RCV_ACK")
    BY <1>3 DEF Rest, c2
  <2>2. Timed(c2) /\ "2msl" \notin c2.timers
    BY <1>2, <1>3 DEF Late, FinTaken, Waits
  <2> DEFINE d == Raise(c2, "RCV_ACK")
  <2>3. Twins(c2, d) /\ d.timers = c2.timers
    BY <1>1, <1>2, RaiseTwins
  <2> HIDE DEF d
  <2>4. Orderly(d) /\ Timed(d)
    BY <1>2, <2>2, <2>3, TwinsOrderly
  <2>5. Waits(d)
    BY <2>2, <2>3 DEF Waits
  <2> QED
    BY <2>1, <2>4, <2>5 DEF Healthy, d
<1>4. CASE ~(c.fsm = "LAST_ACK" /\ c.send_fin /\ s.ack = c.snd_fin_seq + 1)
  <2>0. Rest(c, c1, s) = DeferredClose(c5, c.snd_nxt)
    BY <1>4 DEF Rest, c2
  <2>1. /\ c3 \in Conn /\ Orderly(c3) /\ Waits(c3) /\ c3.fsm = c.fsm
        /\ c3.rcv_nxt = c1.rcv_nxt
        /\ Timed(c3) \/ (s.len = 1 /\ c3.snd_una > c.snd_una /\ c.fsm # "SYN_RCVD")
    <3>1. CASE c2.fin_ack_rcvd /\ c.fsm = "FIN_WAIT_1"
      <4> DEFINE d == Raise(c2, "RCV_ACK")
      <4>1. Twins(c2, d) /\ d.timers = c2.timers /\ d.event = "RCV_ACK"
        BY <1>1, <1>2, RaiseTwins
      <4>2. c3 = d
        BY <3>1
      <4> HIDE DEF c3, d
      <4>3. Orderly(c3) /\ (Timed(c2) => Timed(c3))
        BY <1>2, <4>1, <4>2, TwinsOrderly
      <4>4. "2msl" \notin c3.timers
        BY <1>2, <3>1, <4>1, <4>2
      <4> QED
        BY <1>2, <4>1, <4>2, <4>3, <4>4 DEF Twins, Waits
    <3>2. CASE c2.fin_ack_rcvd /\ c.fsm = "CLOSING"
      <4> DEFINE b == StartTimer(c2, "2msl")
                 d == Raise(b, "RCV_ACK")
      <4>1. Twins(c2, b) /\ b.timers = c2.timers \cup {"2msl"} /\ b \in Conn
        BY <1>1, <1>2, StartTimerTwins DEF Twins
      <4>2. c3 = d
        BY <3>2
      <4> HIDE DEF b
      <4>3. Twins(b, d) /\ d.timers = b.timers /\ d.event = "RCV_ACK"
        BY <1>1, <4>1, RaiseTwins
      <4> HIDE DEF c3, d
      <4>4. Orderly(c3) /\ (Timed(c2) => Timed(c3))
        BY <1>2, <4>1, <4>2, <4>3, TwinsOrderly
      <4> QED
        BY <1>2, <3>2, <4>1, <4>2, <4>3, <4>4 DEF Twins, Waits
    <3>3. CASE ~(c2.fin_ack_rcvd /\ c.fsm \in {"FIN_WAIT_1", "CLOSING"})
      <4>1. c3 = c2
        BY <3>3
      <4> QED
        BY <1>2, <4>1
    <3> QED
      BY <3>1, <3>2, <3>3
  <2> HIDE DEF c3
  <2>2. /\ t \in Conn /\ Healthy(t) /\ t.fsm = c.fsm
        /\ c.fsm \notin DataStates => t.rcv_nxt = c1.rcv_nxt
    <3>1. Timed(c3) \/ (s.len = 1 /\ c3.snd_una > c.snd_una /\ c3.fsm \in DataStates)
      BY <2>1 DEF Late, FinTaken, DataStates, Heard, Synchronized, States
    <3>2. c.snd_una \in Nat
      BY DEF Conn
    <3> QED
      BY <2>1, <3>1, <3>2, ProcessTextHealthy
  <2> HIDE DEF t
  <2>3. c4 \in Conn /\ Healthy(c4)
    <3>1. c.fsm = "CLOSING" /\ "FIN" \in s.flags => t.rcv_nxt # s.seq + s.len
      <4>1. s.seq \in Nat
        BY DEF Segment
      <4> QED
        BY <2>2, <4>1 DEF Late, FinTaken, DataStates
    <3> QED
      BY <2>2, <3>1, ProcessFinHealthy
  <2> HIDE DEF c4
  <2>4. c5 \in Conn /\ Healthy(c5)
    BY <2>3, SendAckWorks, WorksHealthy DEF ReceiveSeqChanged, Works
  <2> HIDE DEF c5
  <2>5. c5.fsm \in {"ESTABLISHED", "SYN_RCVD", "CLOSE_WAIT"} => Healthy(Raise(c5, "CLOSE"))
    <3> DEFINE d == Raise(c5, "CLOSE")
    <3>1. Twins(c5, d) /\ d.timers = c5.timers
      BY <1>1, <2>4, RaiseTwins
    <3> HIDE DEF d
    <3>2. Orderly(d) /\ Timed(d)
      BY <2>4, <3>1, TwinsOrderly DEF Healthy
    <3>3. c5.fsm \in {"ESTABLISHED", "SYN_RCVD", "CLOSE_WAIT"} => Waits(d)
      BY <2>4, <3>1 DEF Healthy, Waits, Twins
    <3> QED
      BY <3>2, <3>3 DEF Healthy, d
  <2>6. Healthy(DeferredClose(c5, c.snd_nxt))
    BY <2>4, <2>5 DEF DeferredClose
  <2> QED
    BY <2>0, <2>6
<1> QED
  BY <1>3, <1>4

-----------------------------------------------------------------------------
(* What every handler does for the two ends together *)

\* What the rest of the proof knows of the table of performStateTransition().
LEMMA ServiceStates ==
  ASSUME NEW c \in Conn
  PROVE  /\ NextState(c) \in Synchronized => c.fsm \in Synchronized \cup Embryonic
         /\ c.fsm = "TIME_WAIT" => NextState(c) \in {"TIME_WAIT", "CLOSED"}
         /\ c.fsm = "FIN_WAIT_2" /\ c.event = "RCV_FIN" => NextState(c) = "TIME_WAIT"
         /\ c.fsm = "FIN_WAIT_1" /\ c.event = "RCV_FIN_ACK" => NextState(c) = "TIME_WAIT"
         /\ c.fsm = "CLOSING" /\ c.event = "RCV_ACK" => NextState(c) = "TIME_WAIT"
         /\ c.fsm = "CLOSE_WAIT" => NextState(c) \in {"CLOSE_WAIT", "LAST_ACK", "CLOSED"}
         /\ c.fsm = "LAST_ACK" => NextState(c) \in {"LAST_ACK", "CLOSED"}
         /\ NextState(c) = "CLOSE_WAIT" => c.fsm = "CLOSE_WAIT" \/ c.event = "RCV_FIN"
<1> USE DEF NextState, Transitions, Conn
<1>1. NextState(c) \in Synchronized => c.fsm \in Synchronized \cup Embryonic
  BY SMTT(60) DEF States, Synchronized, Embryonic
<1>2. NextState(c) = "CLOSE_WAIT" => c.fsm = "CLOSE_WAIT" \/ c.event = "RCV_FIN"
  BY SMTT(60) DEF States
<1>3. c.fsm = "CLOSE_WAIT" => NextState(c) \in {"CLOSE_WAIT", "LAST_ACK", "CLOSED"}
  BY SMTT(60) DEF States
<1> QED
  BY <1>1, <1>2, <1>3, SMTT(60) DEF States

\* The connection between two events: no assertion has failed, the queue is as the state
\* wants it, and neither REXMIT nor 2MSL runs where it would find nothing to do.
Sound(c) ==
  /\ c.failed = {}
  /\ c.fsm \in Embryonic => c.q_begin = c.iss + 1
  /\ c.fsm \in Synchronized => Orderly(c) /\ Timed(c)
  /\ "2msl" \in c.timers => c.fsm = "TIME_WAIT"
\* The same before the state machine has run.
SoundReady(d) ==
  /\ d.failed = {}
  /\ NextState(d) \in Embryonic => d.q_begin = d.iss + 1
  /\ NextState(d) \in Synchronized => Orderly(d) /\ Timed(d)
  /\ "2msl" \in d.timers => NextState(d) = "TIME_WAIT" \/ (Leaves(d) /\ NextState(d) = "CLOSED")

\* What a connection of two hosts that open once may count on when s arrives.
Apt(c, s, h) ==
  /\ Fresh(c, h) /\ (Text(s) => s.seq > h.iss)
  /\ c.fsm = "SYN_RCVD" => ~c.app.closed
  /\ c.fsm \in Embryonic => c.snd_una = c.iss
  /\ Echo(s) => s.ack # c.iss

\* What the application is told, as far as the service is concerned.
Tidings(c, d) ==
  /\ d.app.closed = c.app.closed /\ d.app.peer_closed = c.app.peer_closed
  /\ d.app.estab = IF c.fsm \in Embryonic /\ NextState(d) \in Synchronized
                   THEN c.app.estab + 1 ELSE c.app.estab
  /\ d.app.got # c.app.got =>
       c.fsm \in DataStates /\ (c.fsm \in Synchronized \/ NextState(d) \in Synchronized)
\* The handshake: how the ISS of the peer is learnt, and what ends it.
Hands(c, d, s) ==
  \/ /\ d.iss = c.iss /\ d.irs = c.irs
     /\ NextState(d) \in Synchronized =>
          \/ c.fsm \in Synchronized
          \/ /\ c.fsm = "SYN_RCVD" /\ Echo(s)
             /\ c.snd_una <= s.ack /\ s.ack <= c.snd_max
     /\ NextState(d) = "SYN_RCVD" => c.fsm = "SYN_RCVD"
     /\ NextState(d) = "SYN_SENT" => c.fsm = "SYN_SENT"
  \/ /\ c.fsm = "LISTEN" /\ "SYN" \in s.flags /\ "ACK" \notin s.flags
     /\ d.iss = c.iss + IssStep /\ d.irs = s.seq /\ NextState(d) = "SYN_RCVD"
  \/ /\ c.fsm = "SYN_SENT" /\ "SYN" \in s.flags /\ "RST" \notin s.flags
     /\ d.iss = c.iss /\ d.irs = s.seq
     /\ \/ "ACK" \notin s.flags /\ NextState(d) = "SYN_RCVD"
        \/ /\ "ACK" \in s.flags /\ s.ack = c.iss + 1
           /\ NextState(d) = "ESTABLISHED"
\* Text comes from a connection that is up, a SYN from one that is coming up.
Speech(d) ==
  \A x \in d.out :
    /\ Text(x) => NextState(d) \in Synchronized \cup {"CLOSED"}
    /\ "SYN" \in x.flags => IF "ACK" \in x.flags
                            THEN NextState(d) = "SYN_RCVD" /\ x.ack = d.rcv_nxt
                            ELSE NextState(d) = "SYN_SENT"

\* All of it.
Serves(c, d, s, h) ==
  /\ d.fsm = c.fsm /\ d.active = c.active
  /\ NextState(d) \in Embryonic =>
       d.snd_una = d.iss \/ (c.fsm \in Embryonic /\ d.snd_una = c.snd_una /\ d.iss = c.iss)
  /\ Tidings(c, d) /\ Hands(c, d, s) /\ Speech(d)
  /\ ~Text(s) /\ Idle(c) => Idle(d)
  /\ Sound(c) /\ Apt(c, s, h) => SoundReady(d) /\ Fresh(d, h)

\* A segment without text, in any state.
LEMMA EmitServes ==
  ASSUME NEW c \in Conn, ConnInv(c), NEW s \in Segment, NEW h \in Streams, NEW x \in Segment,
         ~Text(x), "SYN" \notin x.flags
  PROVE  Serves(c, Emit(c, x), s, h) /\ Serves(c, c, s, h)
<1> DEFINE d == Emit(c, x)
<1>1. /\ d \in Conn /\ Kept(c, d) /\ d.q_begin = c.q_begin /\ d.snd_max = c.snd_max
      /\ d.timers = c.timers /\ d.failed = c.failed /\ d.out = {x}
  <2>1. d \in Conn
    BY EmitQuiet DEF Quiet
  <2> QED
    BY <2>1 DEF Emit, Conn, Kept, ConnInv
<1> HIDE DEF d
<1>2. c.event = "IGNORE" /\ c.out = {} /\ NextState(c) = c.fsm
  BY IgnoreStays DEF ConnInv
<1>3. NextState(d) = c.fsm /\ d.fsm = c.fsm
  BY <1>1, <1>2, IgnoreStays DEF Kept
<1>4. ~(c.fsm \in Embryonic /\ c.fsm \in Synchronized)
  BY DEF Embryonic, Synchronized
<1>5. ASSUME NEW f, f \in {c, d}
      PROVE  Serves(c, f, s, h)
  <2>1. /\ Kept(c, f) /\ f.q_begin = c.q_begin /\ f.snd_max = c.snd_max
        /\ f.timers = c.timers /\ f.failed = c.failed /\ NextState(f) = c.fsm
    BY <1>1, <1>2, <1>3, <1>5 DEF Kept
  <2>2. Speech(f)
    BY <1>1, <1>2, <1>5 DEF Speech
  <2>3. Tidings(c, f) /\ Hands(c, f, s)
    BY <1>4, <2>1 DEF Tidings, Hands, Kept
  <2>4. (Idle(c) => Idle(f)) /\ (Fresh(c, h) => Fresh(f, h))
    BY <2>1 DEF Idle, Fresh, Kept
  <2>5. Sound(c) => SoundReady(f)
    <3>1. (Orderly(c) => Orderly(f)) /\ (Timed(c) => Timed(f))
      BY <2>1 DEF Orderly, Timed, Kept
    <3> QED
      BY <2>1, <3>1 DEF Sound, SoundReady, Kept
  <2> QED
    BY <2>1, <2>2, <2>3, <2>4, <2>5 DEF Serves, Kept, Apt
<1> QED
  BY <1>5 DEF d

\* What a connection that ends, or goes back to LISTEN, is left with.
Wanes(c, d) ==
  /\ d \in Conn
  /\ d.fsm = c.fsm /\ d.active = c.active /\ d.iss = c.iss /\ d.irs = c.irs
  /\ d.app.closed = c.app.closed
  /\ d.app.peer_closed = c.app.peer_closed /\ d.app.estab = c.app.estab
  /\ d.app.got = c.app.got /\ d.buf = c.buf /\ d.fin_rcvd = c.fin_rcvd
  /\ d.rcv_fin_seq = c.rcv_fin_seq /\ d.failed = c.failed
  /\ "2msl" \in d.timers => "2msl" \in c.timers
  /\ \A x \in d.out : "SYN" \notin x.flags /\ ~Text(x)
\* An indication that something went wrong.
LEMMA IndicateWanes ==
  ASSUME NEW c \in Conn, NEW b, Wanes(c, b),
         NEW k \in {"CONNECTION_RESET", "CONNECTION_REFUSED", "TIMED_OUT"}
  PROVE  Wanes(c, Indicate(b, k))
<1>1. k \in Indications /\ b \in Conn
  BY DEF Indications, Errors, Wanes
<1>2. /\ Twins(b, Indicate(b, k)) /\ Indicate(b, k).timers = b.timers
      /\ Indicate(b, k).app = Told(b.app, k)
  BY <1>1, IndicateTwins
<1>3. /\ Told(b.app, k).got = b.app.got /\ Told(b.app, k).estab = b.app.estab
      /\ Told(b.app, k).peer_closed = b.app.peer_closed
      /\ Told(b.app, k).closed = b.app.closed
  BY <1>1 DEF Told, Conn, App
<1> QED
  BY <1>2, <1>3 DEF Wanes, Twins

\* A connection that ends, or goes back to LISTEN.
LEMMA EndServes ==
  ASSUME NEW c \in Conn, ConnInv(c), NEW s \in Segment, NEW h \in Streams, NEW b, Wanes(c, b),
         NEW ev \in Events, ev \notin {"RCV_FIN", "RCV_FIN_ACK"},
         NEW d, d = Raise(b, ev), NextState(d) \notin Synchronized \cup Embryonic
  PROVE  Serves(c, d, s, h)
<1>0. Twins(b, d) /\ d.event = ev /\ d.app = b.app /\ d.timers = b.timers
  BY RaiseTwins DEF Wanes
<1>1. Wanes(c, d) /\ d \in Conn
  BY <1>0 DEF Wanes, Twins
<1>2. Tidings(c, d) /\ Hands(c, d, s) /\ Speech(d)
  <2>1. Tidings(c, d)
    BY <1>1 DEF Tidings, Wanes
  <2>2. Hands(c, d, s)
    BY <1>1 DEF Hands, Wanes, Embryonic
  <2> QED
    BY <1>1, <2>1, <2>2 DEF Speech, Wanes
<1>3. (Idle(c) => Idle(d)) /\ (Fresh(c, h) => Fresh(d, h))
  BY <1>0, <1>1 DEF Idle, Fresh, Wanes
<1>4. Sound(c) => SoundReady(d)
  <2>1. c.fsm = "TIME_WAIT" => NextState(d) = "CLOSED" /\ Leaves(d)
    <3>1. c.fsm = "TIME_WAIT" => NextState(d) = "CLOSED"
      BY <1>1, ServiceStates DEF Wanes, Synchronized, States
    <3>2. d.event = "IGNORE" => NextState(d) = d.fsm
      BY <1>1, IgnoreStays
    <3> QED
      BY <1>1, <3>1, <3>2 DEF Leaves, Wanes
  <2> QED
    BY <1>1, <2>1 DEF Sound, SoundReady, Wanes
<1> QED
  BY <1>1, <1>2, <1>3, <1>4 DEF Serves, Apt, Wanes

\* Which events end a connection.
LEMMA EndStates ==
  ASSUME NEW c \in Conn
  PROVE  /\ c.fsm \in Heard /\ c.event \in {"RCV_RST", "RCV_UNEXP_SYN"} =>
              NextState(c) \in {"CLOSED", "LISTEN"}
         /\ c.fsm \in Embryonic /\ c.event = "TIMEOUT_CONN_ESTAB" =>
              NextState(c) \in {"CLOSED", "LISTEN"}
         /\ c.fsm = "TIME_WAIT" /\ c.event = "TIMEOUT_2MSL" => NextState(c) = "CLOSED"
         /\ c.event = "ABORT" => NextState(c) \in {"INIT", "CLOSED"}
         /\ c.fsm = "SYN_SENT" /\ c.event = "RCV_RST" => NextState(c) = "CLOSED"
         /\ c.fsm \in {"LISTEN", "SYN_SENT"} /\ c.event = "CLOSE" => NextState(c) = "CLOSED"
<1> USE DEF NextState, Transitions, Conn
<1>1. /\ c.fsm \in Heard /\ c.event = "RCV_RST" => NextState(c) \in {"CLOSED", "LISTEN"}
      /\ c.fsm \in Heard /\ c.event = "RCV_UNEXP_SYN" => NextState(c) = "CLOSED"
  BY SMTT(60) DEF States, Synchronized, Heard
<1>2. c.event = "ABORT" => NextState(c) \in {"INIT", "CLOSED"}
  BY SMTT(60) DEF States
<1> QED
  BY <1>1, <1>2, SMTT(60) DEF States, Embryonic

\* A reset.
LEMMA RstServes ==
  ASSUME NEW c \in Conn, ConnInv(c), NEW s \in Segment, NEW h \in Streams, c.fsm \in Heard
  PROVE  Serves(c, ProcessRst(c), s, h)
<1>1. "RCV_RST" \in Events
  BY DEF Events
<1>2. Wanes(c, c)
  BY DEF Wanes, ConnInv
<1>3. ASSUME NEW b, Wanes(c, b)
      PROVE  Serves(c, Raise(b, "RCV_RST"), s, h)
  <2> DEFINE d == Raise(b, "RCV_RST")
  <2>1. d \in Conn /\ d.fsm = c.fsm /\ d.event = "RCV_RST"
    BY <1>1, <1>3, RaiseTwins DEF Wanes, Twins
  <2>2. NextState(d) \notin Synchronized \cup Embryonic
    BY <2>1, EndStates DEF Synchronized, Embryonic
  <2> QED
    BY <1>1, <1>3, <2>2, EndServes
<1>4. CASE c.fsm = "SYN_RCVD"
  <2> DEFINE b == [c EXCEPT !.q_begin = c.q_end]
  <2>1. b \in Conn
    BY DEF Conn
  <2>2. Wanes(c, b)
    BY <2>1 DEF Wanes, Conn, ConnInv
  <2> HIDE DEF b
  <2>3. Wanes(c, Indicate(b, "CONNECTION_REFUSED"))
    BY <2>2, IndicateWanes
  <2>4. ProcessRst(c) = Raise(IF c.active THEN Indicate(b, "CONNECTION_REFUSED") ELSE b, "RCV_RST")
    BY <1>4 DEF ProcessRst, b
  <2> QED
    BY <1>3, <2>2, <2>3, <2>4
<1>5. CASE c.fsm # "SYN_RCVD"
  <2>1. Wanes(c, Indicate(c, "CONNECTION_RESET"))
    BY <1>2, IndicateWanes
  <2>2. ProcessRst(c) \in {Raise(Indicate(c, "CONNECTION_RESET"), "RCV_RST"), Raise(c, "RCV_RST")}
    BY <1>5 DEF ProcessRst
  <2> QED
    BY <1>2, <1>3, <2>1, <2>2
<1> QED
  BY <1>4, <1>5

\* A healthy connection once the handshake is over.
LEMMA HealthyReady ==
  ASSUME NEW d \in Conn, Healthy(d), NextState(d) \in Synchronized \cup {"CLOSED"}
  PROVE  SoundReady(d)
<1>1. d.event = "IGNORE" => NextState(d) = d.fsm
  BY IgnoreStays
<1>2. "2msl" \in d.timers =>
        NextState(d) = "TIME_WAIT" \/ (d.fsm = "TIME_WAIT" /\ NextState(d) = "CLOSED")
  BY ServiceStates DEF Healthy, Waits
<1>3. NextState(d) \notin Embryonic
  BY DEF Synchronized, Embryonic
<1> QED
  BY <1>1, <1>2, <1>3 DEF SoundReady, Healthy, Orderly, Leaves

\* Steps five to eight after the handshake.
LEMMA RestServes ==
  ASSUME NEW c \in Conn, ConnInv(c), NEW s \in Segment, NEW h \in Streams,
         c.fsm \in Synchronized, Listens(c, h), Belongs(s, h), Apart(s, h),
         IsSegmentAcceptable(c, s), c.fsm # "TIME_WAIT" => s.ack <= c.snd_max
  PROVE  Serves(c, Rest(c, c, s), s, h)
<1> DEFINE d == Rest(c, c, s)
<1>0. c.fsm \notin Embryonic /\ c.fsm # "SYN_RCVD" /\ c.fsm \in Heard
  BY DEF Heard, Synchronized, Embryonic
<1>1. SentInOrder(c) /\ c.out = {} /\ c.event = "IGNORE"
  BY DEF ConnInv, SentIsQueued
<1>2. Tells(c, d, s, h)
  BY <1>1, RestTells
<1>3. Sound(c) /\ Apt(c, s, h) => Healthy(d)
  <2> SUFFICES ASSUME Sound(c), Apt(c, s, h)
               PROVE  Healthy(d)
    OBVIOUS
  <2>1. Healthy(c) /\ ("2msl" \in c.timers => c.fsm = "TIME_WAIT")
    BY DEF Sound, Healthy, Waits
  <2>2. Late(c, s)
    <3> SUFFICES ASSUME c.fsm \in FinTaken
                 PROVE  s.len = 0 /\ ("FIN" \in s.flags => s.seq # c.rcv_nxt)
      BY DEF Late
    <3>1. c.irs = h.iss
      BY DEF Apt, Fresh
    <3>2. Hears(c, h)
      BY <1>0 DEF Listens
    <3>3. c.rcv_nxt = h.end + 1
      BY <3>1, <3>2 DEF Hears
    <3>4. s.len \in {0, 1} /\ s.seq \in Nat /\ h.end \in Nat
      BY DEF Segment, Streams
    <3>5. Text(s) => s.seq + s.len <= h.end
      BY DEF Belongs
    <3>6. s.len = 1 => ~IsSegmentAcceptable(c, s)
      BY <3>3, <3>4, <3>5 DEF Text, IsSegmentAcceptable
    <3> QED
      BY <3>3, <3>4, <3>5, <3>6 DEF Text
  <2>3. AckReady(c, s)
    BY <1>0, <2>1 DEF AckReady
  <2> QED
    BY <1>0, <2>1, <2>2, <2>3, RestHealthy
<1> HIDE DEF d
<1>4. d \in Conn /\ d.fsm = c.fsm /\ d.iss = c.iss /\ d.irs = c.irs /\ d.active = c.active
  BY <1>2 DEF Tells, Moves
<1>5. NextState(d) \in Synchronized \cup {"CLOSED"} /\ NextState(d) \notin Embryonic
  BY <1>4, NextStateTable DEF Synchronized, Embryonic
<1>6. Sound(c) /\ Apt(c, s, h) => SoundReady(d)
  BY <1>3, <1>4, <1>5, HealthyReady
<1>7. Apt(c, s, h) => Fresh(d, h)
  BY <1>0, <1>2 DEF Tells, Apt, Listens
<1>8. Tidings(c, d)
  BY <1>0, <1>2 DEF Tells, Moves, Tidings
<1>9. Hands(c, d, s)
  BY <1>4, <1>5 DEF Hands, Embryonic
<1>10. Speech(d)
  BY <1>1, <1>2, <1>5 DEF Speech, Tells
<1> QED
  BY <1>2, <1>4, <1>5, <1>6, <1>7, <1>8, <1>9, <1>10 DEF Serves, Tells, d

\* Steps five to eight in SYN_RCVD: the handshake ends.
LEMMA FirstServes ==
  ASSUME NEW c \in Conn, ConnInv(c), NEW s \in Segment, NEW h \in Streams,
         c.fsm = "SYN_RCVD", Speaks(c), Listens(c, h), Belongs(s, h), Apart(s, h),
         Echo(s), c.snd_una <= s.ack, s.ack <= c.snd_max
  PROVE  Serves(c, ProcessAckTextFin(c, s), s, h)
<1> DEFINE e == Established(c, FALSE)
           i == Indicate(e, "ESTABLISHED")
           c1 == Raise(i, "RCV_ACK")
           d == Rest(c, c1, s)
<1>1. ProcessAckTextFin(c, s) = d
  BY DEF ProcessAckTextFin, Rest
<1>2. c.fsm \in Heard /\ c.fsm \in Embryonic /\ c.fsm \in Unheard /\ c.fsm \notin Synchronized
      /\ c.fsm \in DataStates /\ c.fsm \notin FinTaken /\ c.fsm \in Live
  BY DEF Heard, Embryonic, Unheard, Synchronized, DataStates, FinTaken, Live
<1>3. Moves(c, d, s, h) /\ NextState(d) \in Synchronized
  BY <1>1, <1>2, AckTextFinMoves
<1>4. "ESTABLISHED" \in Indications /\ "RCV_ACK" \in Events
  BY DEF Indications, Events
<1>5. Twins(c, e) /\ e.timers = c.timers /\ e.app = c.app /\ e \in Conn
  <2> DEFINE w == IF c.syn_rexmit_count = 0 THEN InitialWindow ELSE 1
  <2>1. w \in Nat
    BY ConnectionAssumption
  <2>2. e = [c EXCEPT !.snd_cwnd = w]
    BY DEF Established
  <2> HIDE DEF w, e
  <2>3. e \in Conn
    BY <2>1, <2>2 DEF Conn
  <2> QED
    BY <2>2, <2>3 DEF Twins, Conn
<1> HIDE DEF e
<1>6. Twins(e, i) /\ i.timers = e.timers /\ i.app = Told(e.app, "ESTABLISHED") /\ i \in Conn
  BY <1>4, <1>5, IndicateTwins DEF Twins
<1> HIDE DEF i
<1>7. Twins(i, c1) /\ c1.timers = i.timers /\ c1.app = i.app /\ c1.event = "RCV_ACK"
  BY <1>4, <1>6, RaiseTwins
<1> HIDE DEF c1
<1>8. Twins(c, c1) /\ c1.timers = c.timers /\ c1.app = Told(c.app, "ESTABLISHED") /\ c1 \in Conn
  BY <1>5, <1>6, <1>7 DEF Twins
<1>9. /\ c1.app.got = c.app.got /\ c1.app.estab = c.app.estab + 1
      /\ c1.app.peer_closed = c.app.peer_closed
  BY <1>8 DEF Told, Conn, App, Errors
<1>10. /\ SentInOrder(c) /\ c.out = {} /\ c.event = "IGNORE" /\ c.snd_max = c.iss + 1
       /\ "rexmit" \notin c.timers
  BY <1>2 DEF ConnInv, SentIsQueued
<1>11. SentInOrder(c1) /\ s.ack <= c1.snd_max /\ c1.fsm = c.fsm /\ c1.snd_una = c.snd_una
  BY <1>8, <1>10 DEF SentInOrder, Twins
<1>12. Tells(c1, d, s, h)
  BY <1>8, <1>11, RestTells
<1>13. Sound(c) /\ Apt(c, s, h) => Healthy(d)
  <2> SUFFICES ASSUME Sound(c), Apt(c, s, h)
               PROVE  Healthy(d)
    OBVIOUS
  <2>1. c.snd_una = c.iss /\ ~c.app.closed /\ s.ack # c.iss /\ c.failed = {}
        /\ c.q_begin = c.iss + 1 /\ "2msl" \notin c.timers
    BY <1>2 DEF Sound, Apt
  <2>2. c.q_end = c.iss + 1 + c.app.wrote /\ ~c.send_fin
    BY <1>2, <2>1 DEF Speaks, Fits, End
  <2>3. c.iss \in Nat /\ c.app.wrote \in Nat /\ s.ack \in Nat
    BY DEF Conn, App, Segment
  <2>4. s.ack = c.iss + 1 /\ c.q_begin <= c.q_end
    BY <1>10, <2>1, <2>2, <2>3
  <2>5. c.timers \cap {"rexmit", "2msl"} = {}
    BY <1>10, <2>1
  <2>6. AckReady(c1, s)
    BY <1>8, <1>10, <2>1, <2>2, <2>4, <2>5 DEF AckReady, Twins
  <2>7. Late(c1, s) /\ "2msl" \notin c1.timers
    BY <1>2, <1>8, <1>11, <2>1 DEF Late
  <2> QED
    BY <1>2, <1>8, <1>11, <2>6, <2>7, RestHealthy
<1> HIDE DEF d
<1>14. Hears(c, h)
  BY <1>2 DEF Listens
<1>15. Hears(c1, h)
  BY <1>2, <1>7, <1>8, <1>9, <1>14 DEF Hears, Echoes, Twins
<1>16. (Fresh(c, h) => Fresh(c1, h)) /\ (Idle(c) => Idle(c1))
  BY <1>7, <1>8, <1>9 DEF Fresh, Idle, Twins
<1>17. d \in Conn /\ d.fsm = c.fsm /\ d.iss = c.iss /\ d.irs = c.irs /\ d.active = c.active
       /\ NextState(d) \notin Embryonic
  BY <1>3 DEF Moves, Synchronized, Embryonic
<1>18. Sound(c) /\ Apt(c, s, h) => SoundReady(d) /\ Fresh(d, h)
  BY <1>3, <1>12, <1>13, <1>15, <1>16, <1>17, HealthyReady DEF Tells, Apt
<1>19. Tidings(c, d)
  BY <1>2, <1>3, <1>9, <1>12 DEF Tells, Moves, Tidings
<1>20. Hands(c, d, s)
  BY <1>3, <1>17 DEF Hands, Embryonic
<1>21. Speech(d)
  BY <1>3, <1>8, <1>10, <1>12 DEF Speech, Tells, Twins
<1> QED
  BY <1>1, <1>12, <1>16, <1>17, <1>18, <1>19, <1>20, <1>21 DEF Serves, Tells

\* Any segment, once the SYN of the peer has been received.
LEMMA HeardServes ==
  ASSUME NEW c \in Conn, ConnInv(c), NEW s \in Segment, NEW h \in Streams,
         c.fsm \in Heard, Speaks(c), Listens(c, h), Belongs(s, h), Apart(s, h)
  PROVE  Serves(c, ProcessSegment1stThru8th(c, s), s, h)
<1>1. Serves(c, ProcessRst(c), s, h)
  BY RstServes
<1>2. Serves(c, c, s, h) /\ Serves(c, SendAck(c), s, h) /\ Serves(c, SendRst(c, s.ack), s, h)
  <2>1. /\ Seg({"ACK"}, c.snd_nxt, c.rcv_nxt, 0) \in Segment
        /\ Seg({"RST"}, s.ack, 0, 0) \in Segment
    BY SegType DEF Conn, Flags, Segment
  <2>2. /\ ~Text(Seg({"ACK"}, c.snd_nxt, c.rcv_nxt, 0)) /\ ~Text(Seg({"RST"}, s.ack, 0, 0))
        /\ "SYN" \notin Seg({"ACK"}, c.snd_nxt, c.rcv_nxt, 0).flags
        /\ "SYN" \notin Seg({"RST"}, s.ack, 0, 0).flags
    BY DEF Text, Seg
  <2>3. /\ Serves(c, Emit(c, Seg({"ACK"}, c.snd_nxt, c.rcv_nxt, 0)), s, h)
        /\ Serves(c, Emit(c, Seg({"RST"}, s.ack, 0, 0)), s, h)
        /\ Serves(c, c, s, h)
    BY <2>1, <2>2, EmitServes
  <2> QED
    BY <2>3 DEF SendAck, SendRst
<1>3. Serves(c, Raise(Indicate(c, "CONNECTION_RESET"), "RCV_UNEXP_SYN"), s, h)
  <2> DEFINE b == Indicate(c, "CONNECTION_RESET")
             d == Raise(b, "RCV_UNEXP_SYN")
  <2>1. "RCV_UNEXP_SYN" \in Events
    BY DEF Events
  <2>2. Wanes(c, b)
    <3>1. Wanes(c, c)
      BY DEF Wanes, ConnInv
    <3> QED
      BY <3>1, IndicateWanes
  <2> HIDE DEF b
  <2>3. d \in Conn /\ d.fsm = c.fsm /\ d.event = "RCV_UNEXP_SYN"
    BY <2>1, <2>2, RaiseTwins DEF Wanes, Twins
  <2>4. NextState(d) \notin Synchronized \cup Embryonic
    BY <2>3, EndStates DEF Synchronized, Embryonic
  <2> QED
    BY <2>1, <2>2, <2>4, EndServes DEF b
<1>4. ASSUME IsSegmentAcceptable(c, s), "ACK" \in s.flags, "RST" \notin s.flags,
             ~(c.fsm = "SYN_RCVD" /\ (s.ack < c.snd_una \/ s.ack > c.snd_nxt)),
             ~(c.fsm # "TIME_WAIT" /\ s.ack > c.snd_max)
      PROVE  Serves(c, ProcessAckTextFin(c, s), s, h)
  <2>1. s.ack \in Nat /\ c.snd_una \in Nat /\ c.snd_max \in Nat
    BY DEF Conn, Segment
  <2>2. c.fsm # "TIME_WAIT" => s.ack <= c.snd_max
    BY <1>4, <2>1
  <2>3. CASE c.fsm = "SYN_RCVD"
    <3>1. c.snd_una <= s.ack /\ Echo(s)
      BY <1>4, <2>1, <2>3 DEF Echo
    <3> QED
      BY <2>2, <2>3, <3>1, FirstServes
  <2>4. CASE c.fsm # "SYN_RCVD"
    <3>1. c.fsm \in Synchronized
      BY <2>4 DEF Heard
    <3>2. ProcessAckTextFin(c, s) = Rest(c, c, s)
      BY <2>4 DEF ProcessAckTextFin, Rest
    <3> QED
      BY <1>4, <2>2, <3>1, <3>2, RestServes
  <2> QED
    BY <2>3, <2>4
<1> QED
  BY <1>1, <1>2, <1>3, <1>4 DEF ProcessSegment1stThru8th

-----------------------------------------------------------------------------
(* Timers for the two ends together *)

\* A handler that stays in its state and touches neither the streams nor the application.
LEMMA AsideServes ==
  ASSUME NEW c \in Conn, ConnInv(c), NEW s \in Segment, NEW h \in Streams, NEW d \in Conn,
         Kept(c, d), Speech(d), Sound(c) /\ Apt(c, s, h) => SoundReady(d)
  PROVE  Serves(c, d, s, h)
<1>1. c.event = "IGNORE" /\ NextState(c) = c.fsm
  BY IgnoreStays DEF ConnInv
<1>2. NextState(d) = c.fsm
  BY <1>1, IgnoreStays DEF Kept
<1>3. ~(c.fsm \in Embryonic /\ c.fsm \in Synchronized)
  BY DEF Embryonic, Synchronized
<1>4. Tidings(c, d) /\ Hands(c, d, s)
  BY <1>2, <1>3 DEF Tidings, Hands, Kept
<1>5. (Idle(c) => Idle(d)) /\ (Fresh(c, h) => Fresh(d, h))
  BY DEF Idle, Fresh, Kept
<1> QED
  BY <1>2, <1>4, <1>5 DEF Serves, Kept, Apt

\* The SYN once more.
LEMMA SynRexmitServes ==
  ASSUME NEW c \in Conn, ConnInv(c), NEW s \in Segment, NEW h \in Streams,
         "synRexmit" \in c.timers
  PROVE  Serves(c, ProcessSynRexmitTimer(c), s, h)
<1> DEFINE b == [c EXCEPT !.syn_rexmit_count = @ + 1]
           x == Seg({"SYN"}, c.iss, 0, 0)
           y == Seg({"SYN", "ACK"}, c.iss, c.rcv_nxt, 0)
           n == c.iss + 1
           dx == SendSyn(b)
           dy == SendSynAck(b)
<1>0. c.fsm \in Embryonic
  BY DEF ConnInv, HandshakeTimed, HandshakeTimers
<1>1. b \in Conn
  BY DEF Conn
<1>2. /\ Kept(c, b) /\ b.q_begin = c.q_begin /\ b.failed = c.failed /\ b.out = c.out
      /\ b.timers = c.timers
  BY DEF Conn, Kept
<1> HIDE DEF b
<1>3. x \in Segment /\ y \in Segment /\ n \in Nat
  BY SegType DEF Conn, Flags
<1>4. ~Text(x) /\ ~Text(y) /\ "SYN" \in x.flags /\ "ACK" \notin x.flags
      /\ "ACK" \in y.flags /\ y.ack = c.rcv_nxt
  BY DEF Seg, Text
<1>5. /\ dx = [Emit(b, x) EXCEPT !.snd_nxt = n, !.snd_max = n]
      /\ dy = [Emit(b, y) EXCEPT !.snd_nxt = n, !.snd_max = n]
  BY <1>2 DEF SendSyn, SendSynAck, Kept
<1> HIDE DEF dx, dy, x, y, n
<1>6. ASSUME NEW z \in {x, y}, NEW d, d = [Emit(b, z) EXCEPT !.snd_nxt = n, !.snd_max = n],
             Speech(d)
      PROVE  Serves(c, d, s, h)
  <2>1. Emit(b, z) \in Conn
    BY <1>1, <1>3, EmitQuiet DEF Quiet
  <2>2. d \in Conn
    BY <1>3, <1>6, <2>1 DEF Conn
  <2>3. Kept(c, d) /\ d.q_begin = c.q_begin /\ d.failed = c.failed /\ d.timers = c.timers
    BY <1>1, <1>2, <1>3, <1>6, <2>1, <2>2 DEF Emit, Conn, Kept
  <2>4. NextState(d) = c.fsm
    BY <2>2, <2>3, IgnoreStays DEF Kept, ConnInv
  <2>5. c.fsm \notin Synchronized
    BY <1>0 DEF Embryonic, Synchronized
  <2>6. Sound(c) => SoundReady(d)
    BY <1>0, <2>3, <2>4, <2>5 DEF Sound, SoundReady, Kept, Embryonic
  <2> QED
    BY <1>6, <2>2, <2>3, <2>6, AsideServes
<1>7. ASSUME NEW z \in {x, y}, NEW d, d = [Emit(b, z) EXCEPT !.snd_nxt = n, !.snd_max = n]
      PROVE  d \in Conn /\ d.out = {z} /\ d.fsm = c.fsm /\ d.rcv_nxt = c.rcv_nxt
             /\ NextState(d) = c.fsm
  <2>1. Emit(b, z) \in Conn
    BY <1>1, <1>3, EmitQuiet DEF Quiet
  <2>2. d \in Conn
    BY <1>3, <1>7, <2>1 DEF Conn
  <2>3. d.out = {z} /\ d.fsm = c.fsm /\ d.rcv_nxt = c.rcv_nxt /\ d.event = "IGNORE"
    BY <1>1, <1>2, <1>3, <1>7, <2>1, <2>2 DEF Emit, Conn, Kept, ConnInv
  <2> QED
    BY <2>2, <2>3, IgnoreStays
<1>8. CASE c.fsm = "SYN_SENT"
  <2>1. dx.out = {x} /\ NextState(dx) = "SYN_SENT"
    BY <1>5, <1>7, <1>8
  <2>2. Speech(dx)
    BY <1>4, <2>1 DEF Speech
  <2>3. Serves(c, dx, s, h)
    BY <1>5, <1>6, <2>2
  <2> QED
    BY <1>8, <2>3 DEF ProcessSynRexmitTimer, b, dx
<1>9. CASE c.fsm = "SYN_RCVD"
  <2>1. dy.out = {y} /\ NextState(dy) = "SYN_RCVD" /\ dy.rcv_nxt = c.rcv_nxt
    BY <1>5, <1>7, <1>9
  <2>2. Speech(dy)
    BY <1>4, <2>1 DEF Speech
  <2>3. Serves(c, dy, s, h)
    BY <1>5, <1>6, <2>2
  <2> QED
    BY <1>9, <2>3 DEF ProcessSynRexmitTimer, b, dy
<1> QED
  BY <1>0, <1>8, <1>9 DEF Embryonic

\* CONN-ESTAB.
LEMMA ConnEstabServes ==
  ASSUME NEW c \in Conn, ConnInv(c), NEW s \in Segment, NEW h \in Streams,
         "connEstab" \in c.timers
  PROVE  Serves(c, ProcessConnEstabTimer(c), s, h)
<1> DEFINE b == [c EXCEPT !.timers = @ \ {"connEstab"}]
           i == IF c.active THEN Indicate(b, "TIMED_OUT") ELSE b
           d == Raise(i, "TIMEOUT_CONN_ESTAB")
<1>0. c.fsm \in Embryonic /\ "TIMEOUT_CONN_ESTAB" \in Events
  BY DEF ConnInv, HandshakeTimed, HandshakeTimers, Events
<1>1. b \in Conn
  BY DEF Conn
<1>2. Wanes(c, b)
  BY <1>1 DEF Wanes, Conn, ConnInv
<1> HIDE DEF b
<1>3. Wanes(c, i)
  BY <1>2, IndicateWanes
<1> HIDE DEF i
<1>4. d \in Conn /\ d.fsm = c.fsm /\ d.event = "TIMEOUT_CONN_ESTAB"
  BY <1>0, <1>3, RaiseTwins DEF Wanes, Twins
<1>5. NextState(d) \notin Synchronized \cup Embryonic
  BY <1>0, <1>4, EndStates DEF Synchronized, Embryonic
<1>6. Serves(c, d, s, h)
  BY <1>0, <1>3, <1>5, EndServes
<1> QED
  BY <1>0, <1>6 DEF ProcessConnEstabTimer, i, b

\* No retransmission is a SYN.
LEMMA RetransmitOneSegmentSilent ==
  ASSUME NEW c \in Conn, SentInOrder(c)
  PROVE  \A x \in RetransmitOneSegment(c).out \ c.out : "SYN" \notin x.flags
<1> DEFINE c1 == [c EXCEPT !.snd_nxt = c.snd_una]
           bytes == Lesser(Lesser(1, c.snd_max - c.snd_una), BytesAvailable(c, c.snd_una))
           b == [c1 EXCEPT !.snd_nxt = c.q_end]
           c2 == SendFin(b)
           last == c.q_end + 1
           c3 == [c2 EXCEPT !.snd_nxt = last, !.snd_max = last]
           f == Fail(c1, "queue")
<1>1. c.snd_una \in Nat /\ c.snd_max \in Nat /\ c.q_end \in Nat /\ last \in Nat
  BY DEF Conn
<1>2. bytes \in {0, 1} /\ (bytes = 1 => c.snd_una + 1 <= c.q_end)
  BY <1>1 DEF Lesser, BytesAvailable, SentInOrder
<1> HIDE DEF bytes
<1>3. c1 \in Conn /\ c1.snd_nxt = c.snd_una /\ c1.q_end = c.q_end /\ c1.out = c.out
  BY DEF Conn
<1> HIDE DEF c1
<1>4. CASE bytes = 0
  <2>1. b \in Conn /\ b.out = c.out
    BY <1>1, <1>3 DEF Conn
  <2> HIDE DEF b
  <2>2. c2 \in Conn /\ \A x \in c2.out \ b.out : "SYN" \notin x.flags
    BY <2>1, SendFinWorks DEF Works
  <2> HIDE DEF c2, last
  <2>3. c3.out = c2.out
    BY <2>2 DEF Conn
  <2>4. f.out = c.out
    BY <1>3 DEF Fail, Conn
  <2> HIDE DEF c3, f
  <2> QED
    BY <1>4, <2>1, <2>2, <2>3, <2>4 DEF RetransmitOneSegment, c3, c2, b, c1, bytes, last, f
<1>5. CASE bytes = 1
  <2> DEFINE d == SendSegments(c1, 1)
  <2>1. \A x \in d.out \ c1.out : "SYN" \notin x.flags
    <3>1. c1.snd_nxt + 1 <= c1.q_end
      BY <1>2, <1>3, <1>5
    <3> QED
      BY <1>3, <3>1, SendSegmentsWorks
  <2> HIDE DEF d
  <2> QED
    BY <1>3, <1>5, <2>1 DEF RetransmitOneSegment, c1, bytes, d
<1> QED
  BY <1>2, <1>4, <1>5

\* REXMIT: something is outstanding whenever it runs.
LEMMA RexmitServes ==
  ASSUME NEW c \in Conn, ConnInv(c), "rexmit" \in c.timers, NEW s \in Segment, NEW h \in Streams
  PROVE  Serves(c, ProcessRexmitTimer(c), s, h)
<1> DEFINE left == c.timers \ {"rexmit"}
           count == c.rexmit_count + 1
           b == [c EXCEPT !.timers = left, !.rexmit_count = count]
           i == Indicate(b, "TIMED_OUT")
           g == Raise(i, "ABORT")
           t == StartTimer(b, "rexmit")
           d == RetransmitOneSegment(t)
<1>0. /\ left \in SUBSET Timers /\ count \in Nat
      /\ ("2msl" \in left <=> "2msl" \in c.timers)
      /\ left \cup {"rexmit"} = c.timers
  <2>1. c.timers \in SUBSET Timers /\ c.rexmit_count \in Nat
    BY DEF Conn
  <2>2. count \in Nat
    BY <2>1
  <2>3. left \in SUBSET Timers /\ left \cup {"rexmit"} = c.timers
    BY <2>1
  <2>4. "2msl" \in left <=> "2msl" \in c.timers
    OBVIOUS
  <2> QED
    BY <2>2, <2>3, <2>4
<1> HIDE DEF left, count
<1>1. b \in Conn
  BY <1>0 DEF Conn
<1>2. Twins(c, b) /\ b.app = c.app /\ b.event = c.event /\ b.timers = left
  BY <1>1 DEF Twins, Conn
<1> HIDE DEF b
<1>3. c.fsm \in Synchronized /\ c.fsm \notin Embryonic /\ SentInOrder(c) /\ c.out = {}
  BY DEF ConnInv, SentIsQueued, Synchronized, Embryonic
<1>4. "ABORT" \in Events /\ "rexmit" \in Timers
  BY DEF Events, Timers
<1>5. Serves(c, g, s, h)
  <2>1. Wanes(c, b)
    BY <1>0, <1>2, <1>3 DEF Wanes, Twins
  <2>2. Wanes(c, i)
    BY <2>1, IndicateWanes
  <2> HIDE DEF i
  <2>3. g \in Conn /\ g.event = "ABORT"
    BY <1>4, <2>2, RaiseTwins DEF Wanes, Twins
  <2>4. NextState(g) \notin Synchronized \cup Embryonic
    BY <2>3, EndStates DEF Synchronized, Embryonic
  <2> QED
    BY <1>4, <2>2, <2>4, EndServes
<1> HIDE DEF i, g
<1>6. Serves(c, d, s, h)
  <2>1. Twins(b, t) /\ t.event = b.event /\ t.app = b.app /\ t.timers = c.timers
    BY <1>0, <1>1, <1>2, <1>4, StartTimerTwins
  <2> HIDE DEF t
  <2>2. t \in Conn /\ Twins(c, t) /\ t.event = c.event /\ t.app = c.app /\ SentInOrder(t)
    BY <1>2, <1>3, <2>1 DEF Twins, SentInOrder
  <2>3. d \in Conn /\ Kept(t, d)
    BY <2>2, RetransmitOneSegmentSends DEF Sends
  <2>4. \A x \in d.out \ t.out : "SYN" \notin x.flags
    BY <2>2, RetransmitOneSegmentSilent
  <2>5. Orderly(t) /\ t.snd_una < t.snd_max => Works(t, d) /\ Timed(d)
    BY <2>2, RetransmitOneSegmentWorks
  <2> HIDE DEF d
  <2>6. Kept(c, d)
    BY <2>2, <2>3 DEF Kept, Twins
  <2>7. NextState(d) = c.fsm /\ c.event = "IGNORE"
    BY <2>3, <2>6, IgnoreStays DEF Kept, ConnInv
  <2>8. Speech(d)
    BY <1>3, <2>2, <2>4, <2>7 DEF Speech, Twins
  <2>9. Sound(c) => SoundReady(d)
    <3> SUFFICES ASSUME Sound(c) PROVE SoundReady(d)
      OBVIOUS
    <3>1. Orderly(t) /\ t.snd_una < t.snd_max
      BY <1>3, <2>2 DEF Sound, Orderly, Timed, Twins
    <3>2. Orderly(d) /\ Timed(d) /\ ("2msl" \in d.timers <=> "2msl" \in c.timers)
      BY <2>1, <2>5, <3>1 DEF Works
    <3> QED
      BY <1>3, <2>7, <3>2 DEF SoundReady, Orderly, Sound
  <2> QED
    BY <2>3, <2>6, <2>8, <2>9, AsideServes
<1> QED
  BY <1>5, <1>6 DEF ProcessRexmitTimer, g, i, t, d, b, left, count

\* 2MSL runs in TIME_WAIT alone.
LEMMA TwoMSLServes ==
  ASSUME NEW c \in Conn, ConnInv(c), "2msl" \in c.timers, NEW s \in Segment, NEW h \in Streams
  PROVE  Serves(c, Process2MSLTimer(c), s, h)
<1>1. CASE c.fsm = "TIME_WAIT"
  <2> DEFINE b == [c EXCEPT !.timers = @ \ {"2msl"}]
             d == Raise(b, "TIMEOUT_2MSL")
  <2>1. b \in Conn
    BY DEF Conn
  <2>2. Wanes(c, b) /\ "TIMEOUT_2MSL" \in Events
    BY <2>1 DEF Wanes, Conn, ConnInv, Events
  <2> HIDE DEF b
  <2>3. d \in Conn /\ d.fsm = c.fsm /\ d.event = "TIMEOUT_2MSL"
    BY <2>2, RaiseTwins DEF Wanes, Twins
  <2>4. NextState(d) \notin Synchronized \cup Embryonic
    BY <1>1, <2>3, EndStates DEF Synchronized, Embryonic
  <2>5. Serves(c, d, s, h)
    BY <2>2, <2>4, EndServes
  <2> QED
    BY <1>1, <2>5 DEF Process2MSLTimer, b
<1>2. CASE c.fsm # "TIME_WAIT"
  <2> DEFINE d == Fail(c, "timer")
  <2>1. d \in Conn /\ Kept(c, d) /\ d.out = {}
    BY DEF Fail, Conn, Failures, Kept, ConnInv
  <2> HIDE DEF d
  <2>2. ~Sound(c) /\ Speech(d)
    BY <1>2, <2>1 DEF Sound, Speech
  <2>3. Serves(c, d, s, h)
    BY <2>1, <2>2, AsideServes
  <2> QED
    BY <1>2, <2>3 DEF Process2MSLTimer, d
<1> QED
  BY <1>1, <1>2

-----------------------------------------------------------------------------
(* Segments before the SYN of the peer, for the two ends together *)

\* From c to d the segment x has been sent, which is a SYN.
SendsSyn(c, d, x) ==
  /\ d \in Conn /\ Kept(c, d) /\ d.q_begin = c.q_begin /\ d.timers = c.timers
  /\ d.failed = c.failed /\ d.out = c.out \cup {x}
\* sendSyn() and sendSynAck().
LEMMA SendSynServes ==
  ASSUME NEW c \in Conn
  PROVE  /\ SendsSyn(c, SendSyn(c), Seg({"SYN"}, c.iss, 0, 0))
         /\ SendsSyn(c, SendSynAck(c), Seg({"SYN", "ACK"}, c.iss, c.rcv_nxt, 0))
<1> DEFINE n == c.iss + 1
<1>1. /\ Seg({"SYN"}, c.iss, 0, 0) \in Segment /\ n \in Nat
      /\ Seg({"SYN", "ACK"}, c.iss, c.rcv_nxt, 0) \in Segment
  BY SegType DEF Conn, Flags
<1> HIDE DEF n
<1>2. ASSUME NEW x \in Segment
      PROVE  SendsSyn(c, [Emit(c, x) EXCEPT !.snd_nxt = n, !.snd_max = n], x)
  <2> DEFINE b == Emit(c, x)
             d == [b EXCEPT !.snd_nxt = n, !.snd_max = n]
  <2>1. b \in Conn
    BY <1>2, EmitQuiet DEF Quiet
  <2>2. Kept(c, b) /\ b.q_begin = c.q_begin /\ b.timers = c.timers /\ b.failed = c.failed
        /\ b.out = c.out \cup {x}
    BY <2>1 DEF Emit, Conn, Kept
  <2> HIDE DEF b
  <2>3. d \in Conn
    BY <1>1, <2>1 DEF Conn
  <2>4. Kept(b, d) /\ d.q_begin = b.q_begin /\ d.timers = b.timers /\ d.failed = b.failed
        /\ d.out = b.out
    BY <2>1, <2>3 DEF Conn, Kept
  <2> HIDE DEF d
  <2>5. SendsSyn(c, d, x)
    BY <2>2, <2>3, <2>4 DEF SendsSyn, Kept
  <2> QED
    BY <2>5 DEF d, b
<1> QED
  BY <1>1, <1>2 DEF SendSyn, SendSynAck, n

\* SYN-REXMIT is started, and nothing else happens.
LEMMA SynTimerTwins ==
  ASSUME NEW c \in Conn
  PROVE  LET d == StartSynRexmitTimer(c)
         IN Twins(c, d) /\ d.event = c.event /\ d.app = c.app
            /\ d.timers = c.timers \cup {"synRexmit"}
<1> DEFINE b == StartTimer(c, "synRexmit")
           d == [b EXCEPT !.syn_rexmit_count = 0]
<1>1. Twins(c, b) /\ b.event = c.event /\ b.app = c.app /\ b.timers = c.timers \cup {"synRexmit"}
  BY StartTimerTwins DEF Timers
<1> HIDE DEF b
<1>2. d \in Conn
  BY <1>1 DEF Conn, Twins
<1>3. Twins(b, d) /\ d.event = b.event /\ d.app = b.app /\ d.timers = b.timers
  BY <1>1, <1>2 DEF Twins, Conn
<1> HIDE DEF d
<1>4. Twins(c, d) /\ d.event = c.event /\ d.app = c.app /\ d.timers = c.timers \cup {"synRexmit"}
  BY <1>1, <1>3 DEF Twins
<1> QED
  BY <1>4 DEF StartSynRexmitTimer, d, b

\* A SYN without an ACK is answered.  b is c with the SYN taken note of.
LEMMA SynServes ==
  ASSUME NEW c \in Conn, ConnInv(c), NEW s \in Segment, NEW h \in Streams,
         c.fsm \in {"LISTEN", "SYN_SENT"}, Listens(c, h),
         "SYN" \in s.flags, "RST" \notin s.flags, "ACK" \notin s.flags,
         NEW b \in Conn, b.fsm = c.fsm, b.active = c.active, b.irs = s.seq, b.buf = {},
         b.app = c.app, b.out = {}, b.fin_rcvd = c.fin_rcvd, b.failed = c.failed,
         b.timers = c.timers, Sound(c) => b.q_begin = b.iss + 1,
         IF c.fsm = "LISTEN" THEN b.iss = c.iss + IssStep /\ b.snd_una = b.iss
         ELSE b.iss = c.iss /\ b.snd_una = c.snd_una,
         NEW e, Twins(SendSynAck(b), e), e.app = SendSynAck(b).app,
         "2msl" \in e.timers => "2msl" \in c.timers,
         NEW d, d = Raise(e, "RCV_SYN")
  PROVE  Serves(c, d, s, h)
<1> DEFINE a == SendSynAck(b)
           y == Seg({"SYN", "ACK"}, b.iss, b.rcv_nxt, 0)
<1>1. SendsSyn(b, a, y)
  BY SendSynServes
<1>2. ~Text(y) /\ "SYN" \in y.flags /\ "ACK" \in y.flags /\ y.ack = b.rcv_nxt
  BY DEF Seg, Text
<1> HIDE DEF a, y
<1>3. Twins(a, e) /\ e.app = a.app /\ e \in Conn
  BY DEF a, Twins
<1>4. "RCV_SYN" \in Events
  BY DEF Events
<1>5. Twins(e, d) /\ d.event = "RCV_SYN" /\ d.app = e.app /\ d.timers = e.timers
  BY <1>3, <1>4, RaiseTwins
<1>6. /\ d \in Conn /\ d.fsm = c.fsm /\ d.active = c.active /\ d.iss = b.iss /\ d.irs = s.seq
      /\ d.app = c.app /\ d.buf = {} /\ d.out = {y} /\ d.rcv_nxt = b.rcv_nxt
      /\ d.snd_una = b.snd_una /\ d.fin_rcvd = c.fin_rcvd /\ d.failed = c.failed
      /\ d.q_begin = b.q_begin /\ ("2msl" \in d.timers => "2msl" \in c.timers)
  BY <1>1, <1>3, <1>5 DEF SendsSyn, Kept, Twins
<1>7. NextState(d) = "SYN_RCVD"
  BY <1>5, <1>6, NextStateTable
<1>8. "SYN_RCVD" \in Embryonic /\ "SYN_RCVD" \notin Synchronized /\ c.fsm \in Unheard
      /\ "LISTEN" \notin FinTaken /\ "SYN_SENT" \notin FinTaken /\ "SYN_SENT" \in Embryonic
  BY DEF Embryonic, Synchronized, Unheard, FinTaken
<1>9. c.app.got = 0 /\ ~c.fin_rcvd
  BY <1>8 DEF Listens
<1>10. Tidings(c, d)
  BY <1>6, <1>7, <1>8 DEF Tidings
<1>11. Hands(c, d, s)
  BY <1>6, <1>7 DEF Hands
<1>12. Speech(d)
  BY <1>2, <1>6, <1>7 DEF Speech
<1>13. Idle(d) /\ Fresh(d, h)
  BY <1>5, <1>6, <1>8, <1>9 DEF Idle, Fresh
<1>14. Sound(c) => SoundReady(d)
  BY <1>6, <1>7, <1>8 DEF Sound, SoundReady
<1> QED
  BY <1>6, <1>7, <1>8, <1>10, <1>11, <1>12, <1>13, <1>14 DEF Serves

\* Any segment that comes to a listener.
LEMMA ListenServes ==
  ASSUME NEW c \in Conn, ConnInv(c), NEW s \in Segment, NEW h \in Streams, Listens(c, h),
         c.fsm = "LISTEN"
  PROVE  Serves(c, ProcessSegmentInListen(c, s), s, h)
<1> DEFINE x == Seg({"RST"}, s.ack, 0, 0)
           n == [c EXCEPT !.rcv_nxt = s.seq + 1, !.irs = s.seq, !.buf = {}]
           b == SelectInitialSeqNum(n)
           a == SendSynAck(b)
           t == StartSynRexmitTimer(a)
           e == StartTimer(t, "connEstab")
           d == Raise(e, "RCV_SYN")
<1>1. Serves(c, c, s, h) /\ Serves(c, Emit(c, x), s, h)
  <2>1. x \in Segment
    BY SegType DEF Segment, Flags
  <2>2. ~Text(x) /\ "SYN" \notin x.flags
    BY DEF Seg, Text
  <2> HIDE DEF x
  <2> QED
    BY <2>1, <2>2, EmitServes
<1>2. ASSUME "SYN" \in s.flags, "RST" \notin s.flags, "ACK" \notin s.flags
      PROVE  Serves(c, d, s, h)
  <2> DEFINE iss == c.iss + IssStep
             next == iss + 1
  <2>1. s.seq \in Nat /\ s.seq + 1 \in Nat /\ iss \in Nat /\ next \in Nat /\ c.out = {}
    BY ConnectionAssumption DEF Segment, Conn, ConnInv
  <2>2. n \in Conn
    BY <2>1 DEF Conn
  <2>3. /\ n.irs = s.seq /\ n.buf = {} /\ n.fsm = c.fsm /\ n.app = c.app /\ n.out = {}
        /\ n.fin_rcvd = c.fin_rcvd /\ n.failed = c.failed /\ n.timers = c.timers
        /\ n.active = c.active /\ n.iss = c.iss
    BY <2>1, <2>2 DEF Conn
  <2> HIDE DEF n
  <2>4. b = [n EXCEPT !.iss = iss, !.snd_una = iss, !.snd_nxt = iss, !.snd_max = iss,
                      !.q_begin = next, !.q_end = next]
    BY <2>2, <2>3 DEF SelectInitialSeqNum
  <2>5. b \in Conn /\ iss = c.iss + IssStep /\ next = iss + 1
    BY <2>2, SelectFacts
  <2> HIDE DEF b, iss, next
  <2>6. /\ b.iss = iss /\ b.snd_una = iss /\ b.q_begin = next
        /\ b.irs = n.irs /\ b.buf = n.buf /\ b.fsm = n.fsm /\ b.app = n.app /\ b.out = n.out
        /\ b.fin_rcvd = n.fin_rcvd /\ b.failed = n.failed /\ b.timers = n.timers
        /\ b.active = n.active
    BY <2>2, <2>4 DEF Conn
  <2>7. a \in Conn /\ a.timers = b.timers
    BY <2>5, SendSynServes DEF SendsSyn
  <2> HIDE DEF a
  <2>8. Twins(a, t) /\ t.app = a.app /\ t.timers = a.timers \cup {"synRexmit"} /\ t \in Conn
    BY <2>7, SynTimerTwins DEF Twins
  <2> HIDE DEF t
  <2>9. Twins(t, e) /\ e.app = t.app /\ e.timers = t.timers \cup {"connEstab"}
    BY <2>8, StartTimerTwins DEF Timers
  <2> HIDE DEF e
  <2>10. Twins(a, e) /\ e.app = a.app /\ ("2msl" \in e.timers => "2msl" \in c.timers)
    BY <2>3, <2>6, <2>7, <2>8, <2>9 DEF Twins
  <2> QED
    BY <1>2, <2>3, <2>5, <2>6, <2>10, SynServes DEF a
<1> QED
  BY <1>1, <1>2 DEF ProcessSegmentInListen, SendRst

\* Any segment where there is no connection.
LEMMA ArrivalServes ==
  ASSUME NEW c \in Conn, ConnInv(c), NEW s \in Segment, NEW h \in Streams
  PROVE  Serves(c, SegmentArrivalWhileClosed(c, s), s, h)
<1> DEFINE segLen == s.len + Cardinality(s.flags \cap {"SYN", "FIN"})
           x == Seg({"RST"}, s.ack, 0, 0)
           y == Seg({"RST", "ACK"}, 0, s.seq + segLen, 0)
<1>1. x \in Segment /\ y \in Segment
  <2>1. IsFiniteSet(s.flags \cap {"SYN", "FIN"})
    <3>1. IsFiniteSet({})
      BY FS_EmptySet
    <3>2. IsFiniteSet({} \cup {"SYN"})
      BY <3>1, FS_AddElement
    <3>3. IsFiniteSet(({} \cup {"SYN"}) \cup {"FIN"})
      BY <3>2, FS_AddElement
    <3>4. s.flags \cap {"SYN", "FIN"} \in SUBSET (({} \cup {"SYN"}) \cup {"FIN"})
      OBVIOUS
    <3> QED
      BY <3>3, <3>4, FS_Subset
  <2>2. Cardinality(s.flags \cap {"SYN", "FIN"}) \in Nat
    BY <2>1, FS_CardinalityType
  <2>3. s.seq + segLen \in Nat /\ s.ack \in Nat
    BY <2>2 DEF Segment
  <2> HIDE DEF segLen
  <2> QED
    BY <2>3, SegType DEF Flags
<1>2. ~Text(x) /\ "SYN" \notin x.flags /\ ~Text(y) /\ "SYN" \notin y.flags
  BY DEF Seg, Text
<1> HIDE DEF x, y
<1>3. Serves(c, c, s, h) /\ Serves(c, Emit(c, x), s, h) /\ Serves(c, Emit(c, y), s, h)
  BY <1>1, <1>2, EmitServes
<1> QED
  BY <1>3 DEF SegmentArrivalWhileClosed, SendRst, x, y

\* The answer to our SYN: the handshake is over for this end.
LEMMA SynAckServes ==
  ASSUME NEW c \in Conn, ConnInv(c), NEW s \in Segment, NEW h \in Streams, Speaks(c), Listens(c, h),
         c.fsm = "SYN_SENT", "SYN" \in s.flags, "ACK" \in s.flags, "RST" \notin s.flags,
         c.iss < s.ack, s.ack <= c.snd_nxt,
         NEW u, u = [c EXCEPT !.rcv_nxt = s.seq + 1, !.irs = s.seq, !.buf = {}, !.snd_una = s.ack],
         NEW d, d = Raise(Indicate(Established(DiscardUpTo(u, s.ack), TRUE), "ESTABLISHED"),
                          "RCV_SYN_ACK")
  PROVE  Serves(c, d, s, h)
<1> DEFINE v == DiscardUpTo(u, s.ack)
           w == Established(v, TRUE)
           i == Indicate(w, "ESTABLISHED")
<1>d. d = Raise(i, "RCV_SYN_ACK")
  OBVIOUS
<1>0. c.fsm \in Embryonic /\ c.fsm \in Unheard /\ c.fsm \in Live /\ c.fsm \notin Synchronized
      /\ c.fsm \notin FinTaken /\ "ESTABLISHED" \in Synchronized /\ "ESTABLISHED" \notin Embryonic
  BY DEF Embryonic, Unheard, Live, FinTaken, Synchronized, States
<1>1. /\ s.seq \in Nat /\ s.seq + 1 \in Nat /\ s.ack \in Nat /\ c.iss \in Nat /\ c.q_end \in Nat
      /\ c.app.wrote \in Nat /\ c.app.got = 0 /\ ~c.fin_rcvd /\ c.out = {} /\ Fits(c)
      /\ c.snd_max = c.iss + 1 /\ c.snd_nxt = c.iss + 1 /\ "rexmit" \notin c.timers
  BY <1>0 DEF Segment, Conn, App, Listens, Speaks, ConnInv, SentIsQueued
<1>2. s.ack = c.iss + 1 /\ c.q_end = c.iss + 1 + c.app.wrote
      /\ (c.send_fin => c.snd_fin_seq = c.q_end)
  BY <1>1 DEF Fits, End
<1>3. u \in Conn
  BY <1>1 DEF Conn
<1>4. /\ u.fsm = c.fsm /\ u.active = c.active /\ u.iss = c.iss /\ u.irs = s.seq
      /\ u.snd_una = s.ack /\ u.snd_max = c.snd_max /\ u.q_begin = c.q_begin /\ u.q_end = c.q_end
      /\ u.send_fin = c.send_fin /\ u.snd_fin_seq = c.snd_fin_seq /\ u.buf = {}
      /\ u.fin_rcvd = c.fin_rcvd /\ u.timers = c.timers /\ u.failed = c.failed /\ u.app = c.app
      /\ u.out = {}
  BY <1>1, <1>3 DEF Conn
<1>5. /\ v \in Conn /\ Kept(u, v) /\ v.q_begin = s.ack /\ v.snd_max = u.snd_max
      /\ v.timers = u.timers /\ v.out = u.out
      /\ u.q_begin <= s.ack /\ s.ack <= u.q_end => v.failed = u.failed
  BY <1>1, <1>3, DiscardUpToWorks
<1> HIDE DEF v
<1>6. Works(v, w) /\ w \in Conn /\ Kept(v, w)
  BY <1>5, EstablishedWorks DEF Works
<1> HIDE DEF w
<1>7. Twins(w, i) /\ i.timers = w.timers /\ i.app = Told(w.app, "ESTABLISHED") /\ i \in Conn
  BY <1>6, IndicateTwins DEF Twins, Indications
<1> HIDE DEF i
<1>8. Twins(i, d) /\ d.event = "RCV_SYN_ACK" /\ d.app = i.app /\ d.timers = i.timers
  <2>1. "RCV_SYN_ACK" \in Events
    BY DEF Events
  <2>2. i \in Conn
    BY ONLY <1>7
  <2> QED
    BY ONLY <1>d, <2>1, <2>2, RaiseTwins
<1>9. Twins(w, d) /\ d.timers = w.timers /\ d.app = Told(c.app, "ESTABLISHED") /\ d \in Conn
  <2>1. d \in Conn /\ d.timers = w.timers
    BY ONLY <1>7, <1>8 DEF Twins
  <2>2. Twins(w, d)
    BY ONLY <1>7, <1>8 DEF Twins
  <2>3. w.app = c.app
    BY ONLY <1>4, <1>5, <1>6 DEF Kept
  <2> QED
    BY ONLY <1>7, <1>8, <2>1, <2>2, <2>3
<1>10. /\ d.fsm = c.fsm /\ d.active = c.active /\ d.iss = c.iss /\ d.irs = s.seq
       /\ d.buf = {} /\ d.fin_rcvd = c.fin_rcvd
  <2>1. /\ v.fsm = c.fsm /\ v.active = c.active /\ v.iss = c.iss /\ v.irs = s.seq
        /\ v.buf = {} /\ v.fin_rcvd = c.fin_rcvd
    BY ONLY <1>4, <1>5 DEF Kept
  <2>2. /\ w.fsm = v.fsm /\ w.active = v.active /\ w.iss = v.iss /\ w.irs = v.irs
        /\ w.buf = v.buf /\ w.fin_rcvd = v.fin_rcvd
    BY ONLY <1>6 DEF Kept
  <2>3. /\ d.fsm = w.fsm /\ d.active = w.active /\ d.iss = w.iss /\ d.irs = w.irs
        /\ d.buf = w.buf /\ d.fin_rcvd = w.fin_rcvd
    BY ONLY <1>9 DEF Twins
  <2> QED
    BY ONLY <2>1, <2>2, <2>3
<1>11. NextState(d) = "ESTABLISHED"
  <2>1. d \in Conn /\ d.fsm = "SYN_SENT" /\ d.event = "RCV_SYN_ACK"
    BY <1>8, <1>9, <1>10
  <2> QED
    BY ONLY <2>1, NextStateTable
<1>12. /\ d.app.got = c.app.got /\ d.app.estab = c.app.estab + 1
       /\ d.app.peer_closed = c.app.peer_closed /\ d.app.closed = c.app.closed
  BY <1>9 DEF Told, Conn, App, Errors
<1>13. Tidings(c, d)
  BY <1>0, <1>11, <1>12 DEF Tidings
<1>14. Hands(c, d, s)
  BY <1>2, <1>10, <1>11 DEF Hands
<1>15. Speech(d)
  <2>1. d.out = w.out /\ v.out = {}
    BY <1>4, <1>5, <1>9 DEF Twins
  <2> QED
    BY <1>0, <1>6, <1>11, <2>1 DEF Speech, Works
<1>16. Idle(d) /\ Fresh(d, h)
  BY <1>0, <1>1, <1>8, <1>10, <1>12 DEF Idle, Fresh
<1>17. Sound(c) => SoundReady(d)
  <2> SUFFICES ASSUME Sound(c) PROVE SoundReady(d)
    OBVIOUS
  <2>1. c.failed = {} /\ c.q_begin = c.iss + 1 /\ "2msl" \notin c.timers
    BY <1>0 DEF Sound
  <2>2. Orderly(v) /\ Timed(v)
    BY <1>1, <1>2, <1>4, <1>5, <2>1 DEF Orderly, Timed, Kept
  <2>3. Orderly(w) /\ Timed(w) /\ "2msl" \notin w.timers
    BY <1>4, <1>5, <1>6, <2>1, <2>2 DEF Works
  <2>4. Orderly(d) /\ Timed(d) /\ "2msl" \notin d.timers
    BY <1>6, <1>9, <2>3, TwinsOrderly
  <2> QED
    BY <1>0, <1>11, <2>4 DEF SoundReady, Orderly
<1> QED
  BY <1>0, <1>10, <1>11, <1>13, <1>14, <1>15, <1>16, <1>17 DEF Serves

\* Any segment in SYN_SENT.
LEMMA SynSentServes ==
  ASSUME NEW c \in Conn, ConnInv(c), NEW s \in Segment, NEW h \in Streams, Speaks(c), Listens(c, h),
         c.fsm = "SYN_SENT"
  PROVE  Serves(c, ProcessSegmentInSynSent(c, s), s, h)
<1> DEFINE b == [c EXCEPT !.rcv_nxt = s.seq + 1, !.irs = s.seq, !.buf = {}]
           u == [b EXCEPT !.snd_una = s.ack]
           z == [b EXCEPT !.snd_nxt = c.iss, !.snd_max = c.iss]
           a == SendSynAck(z)
           t == StartSynRexmitTimer(a)
           x == Seg({"RST"}, s.ack, 0, 0)
           k == Indicate(c, "CONNECTION_RESET")
           g == Raise(k, "RCV_RST")
           up2 == Raise(Indicate(Established(DiscardUpTo(u, s.ack), TRUE), "ESTABLISHED"),
                        "RCV_SYN_ACK")
<1>1. s.seq \in Nat /\ s.seq + 1 \in Nat /\ c.iss \in Nat /\ s.ack \in Nat /\ c.snd_nxt \in Nat
      /\ c.out = {}
  BY DEF Segment, Conn, ConnInv
<1>2. Serves(c, c, s, h) /\ Serves(c, Emit(c, x), s, h)
  <2>1. x \in Segment
    BY SegType DEF Segment, Flags
  <2>2. ~Text(x) /\ "SYN" \notin x.flags
    BY DEF Seg, Text
  <2> HIDE DEF x
  <2> QED
    BY <2>1, <2>2, EmitServes
<1>3. Serves(c, g, s, h)
  <2>1. Wanes(c, k) /\ "RCV_RST" \in Events
    <3>1. Wanes(c, c)
      BY DEF Wanes, ConnInv
    <3> QED
      BY <3>1, IndicateWanes DEF Events
  <2> HIDE DEF k
  <2>2. g \in Conn /\ g.fsm = c.fsm /\ g.event = "RCV_RST"
    BY <2>1, RaiseTwins DEF Wanes, Twins
  <2>3. NextState(g) \notin Synchronized \cup Embryonic
    BY <2>2, EndStates DEF Synchronized, Embryonic
  <2> QED
    BY <2>1, <2>3, EndServes
<1>4. ASSUME "SYN" \in s.flags, "RST" \notin s.flags, "ACK" \notin s.flags
      PROVE  Serves(c, Raise(t, "RCV_SYN"), s, h)
  <2>1. b \in Conn /\ z \in Conn
    BY <1>1 DEF Conn
  <2>2. /\ z.fsm = c.fsm /\ z.active = c.active /\ z.irs = s.seq /\ z.buf = {}
        /\ z.app = c.app /\ z.out = {} /\ z.fin_rcvd = c.fin_rcvd /\ z.failed = c.failed
        /\ z.timers = c.timers /\ z.iss = c.iss /\ z.snd_una = c.snd_una
        /\ z.q_begin = c.q_begin
    BY <1>1, <2>1 DEF Conn
  <2> HIDE DEF z
  <2>3. a \in Conn /\ a.timers = z.timers
    BY <2>1, SendSynServes DEF SendsSyn
  <2> HIDE DEF a
  <2>4. Twins(a, t) /\ t.app = a.app /\ t.timers = a.timers \cup {"synRexmit"}
    BY <2>3, SynTimerTwins
  <2> HIDE DEF t
  <2>5. Sound(c) => z.q_begin = z.iss + 1
    BY <2>2 DEF Sound, Embryonic
  <2>6. "2msl" \in t.timers => "2msl" \in c.timers
    BY <2>2, <2>3, <2>4
  <2> QED
    BY <1>4, <2>1, <2>2, <2>4, <2>5, <2>6, SynServes DEF a
<1>5. ASSUME "SYN" \in s.flags, "ACK" \in s.flags, "RST" \notin s.flags,
             ~(s.ack <= c.iss \/ s.ack > c.snd_nxt)
      PROVE  Serves(c, up2, s, h)
  <2>1. u = [c EXCEPT !.rcv_nxt = s.seq + 1, !.irs = s.seq, !.buf = {}, !.snd_una = s.ack]
    BY DEF Conn
  <2>2. c.iss < s.ack /\ s.ack <= c.snd_nxt
    BY <1>1, <1>5
  <2> HIDE DEF u
  <2> QED
    BY <1>5, <2>1, <2>2, SynAckServes
<1> QED
  BY <1>2, <1>3, <1>4, <1>5 DEF ProcessSegmentInSynSent, SendRst

\* Any segment in any state.
LEMMA SegmentServes ==
  ASSUME NEW c \in Conn, ConnInv(c), NEW s \in Segment, NEW h \in Streams, Speaks(c), Listens(c, h),
         Belongs(s, h), Apart(s, h)
  PROVE  Serves(c, ProcessSegment(c, s), s, h)
<1>1. c.fsm \in States
  BY DEF Conn
<1>2. c.fsm \notin {"INIT", "CLOSED", "LISTEN", "SYN_SENT"} => c.fsm \in Heard
  BY <1>1 DEF Heard, Synchronized
<1> QED
  BY <1>2, ArrivalServes, ListenServes, SynSentServes, HeardServes DEF ProcessSegment

-----------------------------------------------------------------------------
(* Commands for the two ends together *)

\* A command that leaves the handshake and the receiving half alone.
LEMMA CommandServes ==
  ASSUME NEW c \in Conn, ConnInv(c), NEW s \in Segment, NEW h \in Streams, NEW d \in Conn,
         d.fsm = c.fsm, d.active = c.active, d.iss = c.iss, d.irs = c.irs,
         d.snd_una = c.snd_una, d.buf = c.buf, d.fin_rcvd = c.fin_rcvd,
         d.rcv_fin_seq = c.rcv_fin_seq, d.app.got = c.app.got, d.app.estab = c.app.estab,
         d.app.peer_closed = c.app.peer_closed, d.app.closed = c.app.closed,
         d.event \in {"IGNORE", "CLOSE"},
         c.fsm \in Embryonic \/ NextState(d) \in Embryonic => NextState(d) = c.fsm,
         Speech(d), Sound(c) => SoundReady(d)
  PROVE  Serves(c, d, s, h)
<1>1. ~(c.fsm \in Embryonic /\ c.fsm \in Synchronized)
  BY DEF Embryonic, Synchronized
<1>2. NextState(d) \in Synchronized => c.fsm \in Synchronized
  BY <1>1, ServiceStates
<1>3. Tidings(c, d)
  BY <1>1 DEF Tidings
<1>4. Hands(c, d, s)
  BY <1>2 DEF Hands, Embryonic
<1>5. (Idle(c) => Idle(d)) /\ (Fresh(c, h) => Fresh(d, h))
  BY DEF Idle, Fresh
<1> QED
  BY <1>3, <1>4, <1>5 DEF Serves, Apt

\* What the application notes has nothing to do with any of this.
LEMMA NotedWanes ==
  ASSUME NEW c \in Conn, ConnInv(c), NEW a \in App, a.got = c.app.got,
         a.estab = c.app.estab, a.peer_closed = c.app.peer_closed, a.closed = c.app.closed,
         NEW n, n = [c EXCEPT !.app = a]
  PROVE  Wanes(c, n) /\ Noted(c, n) /\ n.app = a /\ n.timers = c.timers /\ n.q_end = c.q_end
         /\ n.send_fin = c.send_fin /\ n.snd_nxt = c.snd_nxt
<1>1. Noted(c, n) /\ n.app = a /\ n.q_end = c.q_end /\ n.send_fin = c.send_fin
  BY NotedType
<1>2. n.timers = c.timers /\ n.snd_nxt = c.snd_nxt
  BY DEF Conn
<1> QED
  BY <1>1, <1>2 DEF Noted, Wanes, ConnInv

\* send().
LEMMA SendServes ==
  ASSUME NEW c \in Conn, ConnInv(c), NEW s \in Segment, NEW h \in Streams,
         c.fsm \in Embryonic \cup {"ESTABLISHED", "CLOSE_WAIT"}, ~c.app.closed,
         NEW a \in App, a.got = c.app.got, a.estab = c.app.estab,
         a.peer_closed = c.app.peer_closed, a.closed = c.app.closed,
         NEW n, n = [c EXCEPT !.app = a]
  PROVE  Serves(c, ProcessSend(n), s, h)
<1> DEFINE b == [n EXCEPT !.q_end = @ + 1]
<1>1. /\ Noted(c, n) /\ n.app = a /\ n.timers = c.timers /\ n.q_end = c.q_end
      /\ n.send_fin = c.send_fin /\ n \in Conn
  BY NotedWanes DEF Noted
<1>2. b \in Conn /\ b.q_end = c.q_end + 1
  BY <1>1, EnqueueFacts
<1>3. Noted(n, b) /\ b.send_fin = n.send_fin /\ b.app = n.app /\ b.timers = n.timers
  BY <1>1, <1>2 DEF Noted, Conn
<1> HIDE DEF b
<1>4. /\ Noted(c, b) /\ b.send_fin = c.send_fin /\ b.app = a /\ b.timers = c.timers
  BY <1>1, <1>3 DEF Noted
<1>5. ~c.send_fin /\ c.event = "IGNORE" /\ c.out = {}
  BY DEF ConnInv, SocketMatches
<1>6. ASSUME NEW d, Works(b, d), c.fsm \in Embryonic => d = b
      PROVE  Serves(c, d, s, h)
  <2>1. d \in Conn /\ Kept(b, d)
    BY <1>6 DEF Works
  <2>2. NextState(d) = c.fsm /\ d.fsm = c.fsm /\ d.event = "IGNORE"
    BY <1>4, <1>5, <2>1, IgnoreStays DEF Kept, Noted
  <2>3. \A x \in d.out : "SYN" \notin x.flags /\ (c.fsm \in Embryonic => d.out = {})
    BY <1>4, <1>5, <1>6 DEF Works, Noted
  <2>4. c.fsm \in Embryonic \cup Synchronized
    BY DEF Synchronized, States
  <2>5. Speech(d)
    BY <2>2, <2>3, <2>4 DEF Speech
  <2>6. Sound(c) => SoundReady(d)
    <3> SUFFICES ASSUME Sound(c) PROVE SoundReady(d)
      OBVIOUS
    <3>1. CASE c.fsm \in Embryonic
      <4>1. c.fsm \notin Synchronized
        BY <3>1 DEF Embryonic, Synchronized
      <4> QED
        BY <1>4, <1>6, <2>2, <3>1, <4>1 DEF Sound, SoundReady, Noted
    <3>2. CASE c.fsm \notin Embryonic
      <4>1. Orderly(c) /\ Timed(c)
        BY <2>4, <3>2 DEF Sound
      <4>2. Orderly(b) /\ Timed(b)
        BY <1>2, <1>4, <1>5, <4>1 DEF Orderly, Timed, Noted, Conn
      <4>3. Orderly(d) /\ Timed(d) /\ ("2msl" \in d.timers <=> "2msl" \in b.timers)
        BY <1>6, <4>2 DEF Works
      <4> QED
        BY <1>4, <2>2, <3>2, <4>3 DEF Sound, SoundReady, Orderly
    <3> QED
      BY <3>1, <3>2
  <2> QED
    BY <1>4, <2>1, <2>2, <2>5, <2>6, CommandServes DEF Kept, Noted
<1>7. Works(b, b) /\ Works(b, SendData(b))
  BY <1>2, WorksItself, SendDataWorks
<1>8. n.fsm = c.fsm
  BY <1>1 DEF Noted
<1>9. ProcessSend(n) = IF c.fsm \in Embryonic THEN b ELSE SendData(b)
  BY <1>8 DEF ProcessSend, b, Embryonic
<1> QED
  BY <1>6, <1>7, <1>9

\* close(), once the handshake is over or before it has begun: c has been told that the
\* application is done.
LEMMA CloseServes ==
  ASSUME NEW c \in Conn, ConnInv(c), NEW s \in Segment, NEW h \in Streams,
         c.fsm \in {"LISTEN", "SYN_SENT", "ESTABLISHED", "CLOSE_WAIT"}, ~c.send_fin,
         NEW a \in App, a.got = c.app.got, a.estab = c.app.estab,
         a.peer_closed = c.app.peer_closed, a.closed = c.app.closed,
         NEW n, n = [c EXCEPT !.app = a]
  PROVE  Serves(c, ProcessClose(n), s, h)
<1>1. /\ Wanes(c, n) /\ Noted(c, n) /\ n.app = a /\ n.timers = c.timers /\ n.q_end = c.q_end
      /\ n \in Conn /\ n.fsm = c.fsm /\ n.snd_max = c.snd_max
  BY NotedWanes DEF Noted
<1>2. "CLOSE" \in Events /\ c.event = "IGNORE" /\ c.out = {} /\ ~c.send_fin
  BY DEF Events, ConnInv
<1>3. CASE c.fsm \in {"LISTEN", "SYN_SENT"}
  <2> DEFINE d == Raise(n, "CLOSE")
  <2>1. d \in Conn /\ d.fsm = c.fsm /\ d.event = "CLOSE"
    BY <1>1, <1>2, RaiseTwins DEF Twins
  <2>2. NextState(d) \notin Synchronized \cup Embryonic
    BY <1>3, <2>1, EndStates DEF Synchronized, Embryonic
  <2>3. Serves(c, d, s, h)
    BY <1>1, <1>2, <2>2, EndServes
  <2> QED
    BY <1>1, <1>3, <2>3 DEF ProcessClose
<1>4. CASE c.fsm \in {"ESTABLISHED", "CLOSE_WAIT"}
  <2> DEFINE b == [n EXCEPT !.send_fin = TRUE, !.snd_fin_seq = n.q_end]
             x == [b EXCEPT !.snd_nxt = n.snd_max]
             f == SendFin(x)
             r == StartRexmitTimer(f)
             next == n.snd_max + 1
             t == [r EXCEPT !.snd_nxt = next, !.snd_max = next]
             d == Raise(t, "CLOSE")
  <2>0. c.fsm \in Synchronized /\ c.fsm \notin Embryonic
    BY <1>4 DEF Synchronized, States, Embryonic
  <2>1. /\ Noted(n, b) /\ b.app = n.app /\ b.q_end = n.q_end /\ b.send_fin = TRUE
        /\ b.snd_fin_seq = n.q_end /\ b \in Conn
    <3>1. n \in Conn
      BY <1>1
    <3> QED
      BY ONLY <3>1, FinQueued
  <2>2. b.timers = n.timers
    BY <1>1 DEF Conn
  <2> HIDE DEF b
  <2>3. /\ Noted(c, b) /\ b.app = a /\ b.q_end = c.q_end /\ b.snd_fin_seq = c.q_end
        /\ b.timers = c.timers
    BY <1>1, <2>1, <2>2 DEF Noted
  <2>4. Sound(c) => Orderly(b) /\ Timed(b) /\ ("2msl" \notin b.timers)
    <3> SUFFICES ASSUME Sound(c) PROVE Orderly(b) /\ Timed(b) /\ ("2msl" \notin b.timers)
      OBVIOUS
    <3>1. Orderly(c) /\ Timed(c) /\ "2msl" \notin c.timers
      BY <1>4, <2>0 DEF Sound
    <3> QED
      BY <2>1, <2>3, <3>1 DEF Orderly, Timed, Noted
  <2>5. CASE c.snd_max = c.q_end
    <3>1. x \in Conn
      BY <1>1, <2>1 DEF Conn
    <3>2. Kept(b, x) /\ x.q_begin = b.q_begin /\ x.failed = b.failed /\ x.out = b.out
          /\ x.snd_max = b.snd_max /\ x.timers = b.timers
      BY <2>1, <3>1 DEF Conn, Kept
    <3> HIDE DEF x
    <3>3. /\ f \in Conn /\ Kept(x, f) /\ f.q_begin = x.q_begin /\ f.failed = x.failed
          /\ f.snd_max = x.snd_max /\ f.timers = x.timers
          /\ \A y \in f.out \ x.out : "SYN" \notin y.flags
      BY <3>1, SendFinWorks DEF Works
    <3> HIDE DEF f
    <3>4. /\ r \in Conn /\ Kept(f, r) /\ r.q_begin = f.q_begin /\ r.snd_max = f.snd_max
          /\ r.failed = f.failed /\ r.out = f.out /\ r.timers = f.timers \cup {"rexmit"}
      BY <3>3, StartRexmitTimerWorks
    <3> HIDE DEF r
    <3>5. next \in Nat /\ next = c.snd_max + 1
      BY <1>1 DEF Conn
    <3> HIDE DEF next
    <3>6. t \in Conn
      BY <3>4, <3>5 DEF Conn
    <3>7. /\ Kept(r, t) /\ t.q_begin = r.q_begin /\ t.failed = r.failed /\ t.out = r.out
          /\ t.snd_max = next /\ t.timers = r.timers
      BY <3>4, <3>5, <3>6 DEF Conn, Kept
    <3> HIDE DEF t
    <3>8. /\ Kept(b, t) /\ t.q_begin = b.q_begin /\ t.failed = b.failed
          /\ t.snd_max = c.snd_max + 1 /\ t.timers = b.timers \cup {"rexmit"}
          /\ \A y \in t.out : "SYN" \notin y.flags
      <4>1. Kept(b, t)
        BY <3>2, <3>3, <3>4, <3>7 DEF Kept
      <4>2. b.out = {}
        BY <1>2, <2>3 DEF Noted
      <4> QED
        BY <3>2, <3>3, <3>4, <3>5, <3>7, <4>1, <4>2
    <3>9. Twins(t, d) /\ d.event = "CLOSE" /\ d.app = t.app /\ d.timers = t.timers
      BY <1>2, <3>6, RaiseTwins
    <3> HIDE DEF d
    <3>10. d.fsm = c.fsm /\ d \in Conn
      BY <2>3, <3>8, <3>9 DEF Twins, Kept, Noted
    <3>11. NextState(d) \in {"FIN_WAIT_1", "LAST_ACK"}
      <4>1. c.fsm = "CLOSE_WAIT" => NextState(d) = "LAST_ACK"
        BY <3>9, <3>10, SMTT(30) DEF NextState, Transitions
      <4> QED
        BY <1>4, <3>9, <3>10, <4>1, NextStateTable
    <3>12. NextState(d) \in Synchronized /\ NextState(d) \notin Embryonic
      BY <3>11 DEF Synchronized, States, Embryonic
    <3>13. Speech(d)
      BY <3>8, <3>9, <3>12 DEF Speech, Twins
    <3>14. Sound(c) => SoundReady(d)
      <4> SUFFICES ASSUME Sound(c) PROVE SoundReady(d)
        OBVIOUS
      <4>1. Orderly(t) /\ Timed(t)
        BY <2>1, <2>3, <2>4, <2>5, <3>6, <3>8 DEF Orderly, Timed, Kept, Noted, Conn
      <4>2. Orderly(d) /\ Timed(d)
        BY <3>6, <3>9, <4>1, TwinsOrderly
      <4>3. "2msl" \notin d.timers
        BY <2>4, <3>8, <3>9
      <4> QED
        BY <3>12, <4>2, <4>3 DEF SoundReady, Orderly
    <3>15. Serves(c, d, s, h)
      BY <2>0, <2>3, <3>8, <3>9, <3>10, <3>12, <3>13, <3>14, CommandServes
      DEF Kept, Noted, Twins
    <3>16. n.snd_max = n.q_end
      BY <1>1, <2>5
    <3> QED
      BY <1>1, <1>4, <3>15, <3>16 DEF ProcessClose, d, t, r, f, x, b, next
  <2>6. CASE c.snd_max # c.q_end
    <3>1. b.event = "IGNORE" /\ b.fsm = c.fsm /\ b.out = {}
      BY <1>2, <2>3 DEF Noted
    <3>2. NextState(b) = c.fsm
      BY <2>1, <3>1, IgnoreStays
    <3>3. Speech(b)
      BY <3>1 DEF Speech
    <3>4. Sound(c) => SoundReady(b)
      BY <2>0, <2>4, <3>2 DEF SoundReady, Orderly
    <3>5. Serves(c, b, s, h)
      BY <2>0, <2>1, <2>3, <3>1, <3>2, <3>3, <3>4, CommandServes DEF Noted
    <3>6. n.snd_max # n.q_end
      BY <1>1, <2>6
    <3> QED
      BY <1>1, <1>4, <3>5, <3>6 DEF ProcessClose, b
  <2> QED
    BY <2>5, <2>6
<1> QED
  BY <1>3, <1>4

\* abort().
LEMMA AbortServes ==
  ASSUME NEW c \in Conn, ConnInv(c), NEW s \in Segment, NEW h \in Streams,
         NEW a \in App, a.got = c.app.got, a.estab = c.app.estab,
         a.peer_closed = c.app.peer_closed, a.closed = c.app.closed,
         NEW n, n = [c EXCEPT !.app = a]
  PROVE  Serves(c, ProcessAbort(n), s, h)
<1> DEFINE b == IF n.fsm \in {"SYN_RCVD", "ESTABLISHED", "FIN_WAIT_1", "FIN_WAIT_2", "CLOSE_WAIT"}
                THEN SendRst(n, n.snd_nxt) ELSE n
           x == Seg({"RST"}, n.snd_nxt, 0, 0)
           r == Emit(n, x)
           d == Raise(b, "ABORT")
<1>1. Wanes(c, n) /\ n \in Conn /\ n.snd_nxt \in Nat
  BY NotedWanes DEF Noted, Conn
<1>2. x \in Segment
  BY <1>1, SegType DEF Flags
<1>3. ~Text(x) /\ "SYN" \notin x.flags
  BY DEF Seg, Text
<1>4. SendRst(n, n.snd_nxt) = r
  BY DEF SendRst
<1> HIDE DEF x
<1>5. r \in Conn
  BY <1>1, <1>2, EmitQuiet DEF Quiet
<1>6. Wanes(n, r)
  BY <1>1, <1>3, <1>5 DEF Wanes, Emit, Conn
<1> HIDE DEF r
<1>7. Wanes(c, r)
  BY <1>1, <1>6 DEF Wanes
<1>8. Wanes(c, b) /\ "ABORT" \in Events
  BY <1>1, <1>4, <1>7 DEF Events
<1> HIDE DEF b
<1>9. d \in Conn /\ d.event = "ABORT"
  BY <1>8, RaiseTwins DEF Wanes, Twins
<1>10. NextState(d) \notin Synchronized \cup Embryonic
  BY <1>9, EndStates DEF Synchronized, Embryonic
<1>11. Serves(c, d, s, h)
  BY <1>8, <1>10, EndServes
<1> QED
  BY <1>11 DEF ProcessAbort, b

-----------------------------------------------------------------------------
(* Opening, for the two ends together *)

\* What connect() or listen() has made of a new connection object.
Born(d) ==
  /\ d \in Conn /\ d.fsm = "INIT" /\ d.event \notin {"RCV_FIN", "RCV_FIN_ACK"} /\ d.iss > 0
  /\ d.irs = 0 /\ d.buf = {} /\ ~d.fin_rcvd /\ d.failed = {} /\ "2msl" \notin d.timers
  /\ d.app.got = 0 /\ d.app.estab = 0 /\ ~d.app.closed /\ ~d.app.peer_closed
  /\ \/ /\ d.active /\ NextState(d) = "SYN_SENT" /\ d.snd_una = d.iss
        /\ d.q_begin = d.iss + 1 /\ d.out = {Seg({"SYN"}, d.iss, 0, 0)}
     \/ ~d.active /\ NextState(d) = "LISTEN" /\ d.out = {}
\* The object that they find.
Unborn(n) ==
  /\ n \in Conn /\ n.fsm = "INIT" /\ n.event = "IGNORE" /\ n.iss > 0
  /\ n.irs = 0 /\ n.buf = {} /\ ~n.fin_rcvd /\ n.failed = {} /\ n.timers = {} /\ n.out = {}
  /\ n.app.got = 0 /\ n.app.estab = 0 /\ ~n.app.closed /\ ~n.app.peer_closed

\* A crash leaves such an object, and so does the making of a new socket.
LEMMA ReopenedUnborn ==
  ASSUME NEW c \in Conn, IssStep > 0
  PROVE  /\ Unborn(Reopened(c)) /\ Reopened(c).app = FreshApp
         /\ Reopened(c).active = FALSE /\ Reopened(c).iss = c.iss + IssStep
<1> DEFINE d == Reopened(c)
<1>1. d \in Conn
  BY ReopenedNew
<1>2. /\ d.fsm = "INIT" /\ d.event = "IGNORE" /\ d.iss = c.iss + IssStep /\ d.irs = 0
      /\ d.buf = {} /\ d.fin_rcvd = FALSE /\ d.failed = {} /\ d.timers = {} /\ d.out = {}
      /\ d.app = FreshApp /\ d.active = FALSE
  BY DEF Reopened, FreshConn
<1>3. /\ FreshApp.got = 0 /\ FreshApp.estab = 0 /\ FreshApp.closed = FALSE
      /\ FreshApp.peer_closed = FALSE
  BY DEF FreshApp
<1>4. c.iss \in Nat /\ IssStep \in Nat
  BY ConnectionAssumption DEF Conn
<1> QED
  BY <1>1, <1>2, <1>3, <1>4 DEF Unborn

\* The socket of it is what connect() or listen() was called for.
LEMMA NewConnUnborn ==
  ASSUME NEW c \in Conn, IssStep > 0, NEW sock \in SockStates,
         NEW n, n = [Reopened(c) EXCEPT !.app.sock = sock]
  PROVE  Unborn(n)
<1> DEFINE b == Reopened(c)
           a == [b.app EXCEPT !.sock = sock]
<1>1. Unborn(b) /\ b \in Conn /\ b.app \in App
  BY ReopenedUnborn DEF Unborn, Conn
<1>2. n = [b EXCEPT !.app = a]
  BY <1>1 DEF Conn, App
<1> HIDE DEF b
<1>3. /\ a \in App /\ a.got = b.app.got /\ a.estab = b.app.estab /\ a.closed = b.app.closed
      /\ a.peer_closed = b.app.peer_closed
  BY <1>1 DEF App
<1> HIDE DEF a
<1>4. n \in Conn
  BY <1>1, <1>2, <1>3 DEF Conn
<1>5. /\ n.fsm = b.fsm /\ n.event = b.event /\ n.iss = b.iss /\ n.irs = b.irs /\ n.buf = b.buf
      /\ n.fin_rcvd = b.fin_rcvd /\ n.failed = b.failed /\ n.timers = b.timers /\ n.out = b.out
      /\ n.app = a
  BY <1>1, <1>2 DEF Conn
<1> QED
  BY <1>1, <1>3, <1>4, <1>5 DEF Unborn

\* listen().
LEMMA OpenPassiveBorn ==
  ASSUME NEW n, Unborn(n)
  PROVE  Born(ProcessOpenPassive(n)) /\ ProcessOpenPassive(n).iss = n.iss
<1> DEFINE b == [n EXCEPT !.active = FALSE]
           d == Raise(b, "OPEN_PASSIVE")
<1>1. n \in Conn
  BY DEF Unborn
<1>2. b \in Conn /\ "OPEN_PASSIVE" \in Events
  BY <1>1 DEF Conn, Events
<1>3. /\ b.fsm = n.fsm /\ b.iss = n.iss /\ b.irs = n.irs /\ b.buf = n.buf
      /\ b.fin_rcvd = n.fin_rcvd /\ b.failed = n.failed /\ b.timers = n.timers /\ b.out = n.out
      /\ b.app = n.app /\ b.active = FALSE
  BY <1>1 DEF Conn
<1> HIDE DEF b
<1>4. Twins(b, d) /\ d.event = "OPEN_PASSIVE" /\ d.app = b.app /\ d.timers = b.timers
  BY <1>2, RaiseTwins
<1>5. ProcessOpenPassive(n) = d
  BY DEF ProcessOpenPassive, b
<1> HIDE DEF d
<1>6. d.fsm = "INIT" /\ d \in Conn
  BY <1>3, <1>4 DEF Twins, Unborn
<1>7. NextState(d) = "LISTEN"
  BY <1>4, <1>6, NextStateTable
<1>8. Born(d)
  BY <1>3, <1>4, <1>6, <1>7 DEF Born, Unborn, Twins
<1>9. d.iss = n.iss
  BY <1>3, <1>4 DEF Twins
<1> QED
  BY <1>5, <1>8, <1>9

\* connect().
LEMMA OpenActiveBorn ==
  ASSUME NEW n, Unborn(n)
  PROVE  Born(ProcessOpenActive(n)) /\ ProcessOpenActive(n).iss = n.iss + IssStep
<1> DEFINE iss == n.iss + IssStep
           next == iss + 1
           m == [n EXCEPT !.active = TRUE]
           b == SelectInitialSeqNum(m)
           y == Seg({"SYN"}, b.iss, 0, 0)
           a == SendSyn(b)
           r == StartSynRexmitTimer(a)
           t == StartTimer(r, "connEstab")
           d == Raise(t, "OPEN_ACTIVE")
<1>1. /\ n \in Conn /\ n.iss \in Nat /\ IssStep \in Nat /\ iss \in Nat /\ next \in Nat
      /\ iss = n.iss + IssStep /\ next = iss + 1 /\ iss > 0
  BY ConnectionAssumption DEF Unborn, Conn
<1> HIDE DEF iss, next
<1>2. m \in Conn
  BY <1>1 DEF Conn
<1>3. /\ m.fsm = n.fsm /\ m.active = TRUE /\ m.out = n.out /\ m.app = n.app /\ m.iss = n.iss
      /\ m.irs = n.irs /\ m.buf = n.buf /\ m.fin_rcvd = n.fin_rcvd /\ m.failed = n.failed
      /\ m.timers = n.timers
  BY <1>1 DEF Conn
<1> HIDE DEF m
<1>4. b = [m EXCEPT !.iss = iss, !.snd_una = iss, !.snd_nxt = iss, !.snd_max = iss,
                    !.q_begin = next, !.q_end = next]
  BY <1>1, <1>3 DEF SelectInitialSeqNum
<1>5. b \in Conn
  BY <1>2, SelectFacts
<1> HIDE DEF b
<1>6. /\ b.iss = iss /\ b.q_begin = next /\ b.snd_una = iss /\ b.fsm = n.fsm /\ b.active = TRUE
      /\ b.irs = n.irs /\ b.buf = n.buf /\ b.fin_rcvd = n.fin_rcvd /\ b.failed = n.failed
      /\ b.timers = n.timers /\ b.out = n.out /\ b.app = n.app
  BY <1>2, <1>3, <1>4 DEF Conn
<1>7. SendsSyn(b, a, y) /\ a \in Conn
  BY <1>5, SendSynServes DEF SendsSyn
<1> HIDE DEF a, y
<1>8. Twins(a, r) /\ r.event = a.event /\ r.app = a.app /\ r.timers = a.timers \cup {"synRexmit"}
      /\ r \in Conn
  BY <1>7, SynTimerTwins DEF Twins
<1> HIDE DEF r
<1>9. Twins(r, t) /\ t.app = r.app /\ t.timers = r.timers \cup {"connEstab"} /\ t \in Conn
  BY <1>8, StartTimerTwins DEF Twins, Timers
<1> HIDE DEF t
<1>10. Twins(t, d) /\ d.event = "OPEN_ACTIVE" /\ d.app = t.app /\ d.timers = t.timers
  BY <1>9, RaiseTwins DEF Events
<1>11. ProcessOpenActive(n) = d
  BY DEF ProcessOpenActive, t, r, a, b, m
<1> HIDE DEF d
<1>12. /\ d.fsm = n.fsm /\ d.active = TRUE /\ d.iss = iss /\ d.irs = n.irs /\ d.snd_una = iss
       /\ d.q_begin = next /\ d.buf = n.buf /\ d.fin_rcvd = n.fin_rcvd /\ d.failed = n.failed
       /\ d.out = n.out \cup {y} /\ d.app = n.app /\ d \in Conn
  BY <1>6, <1>7, <1>8, <1>9, <1>10 DEF Twins, SendsSyn, Kept
<1>13. "2msl" \notin d.timers
  BY <1>6, <1>7, <1>8, <1>9, <1>10 DEF SendsSyn, Unborn
<1>14. NextState(d) = "SYN_SENT"
  BY <1>10, <1>12, NextStateTable DEF Unborn
<1>15. y = Seg({"SYN"}, d.iss, 0, 0)
  BY <1>6, <1>12 DEF y
<1>16. d.out = {Seg({"SYN"}, d.iss, 0, 0)}
  BY <1>12, <1>15 DEF Unborn
<1>17. Born(d)
  BY <1>1, <1>10, <1>12, <1>13, <1>14, <1>16 DEF Born, Unborn
<1> QED
  BY <1>1, <1>11, <1>12, <1>17

-----------------------------------------------------------------------------
(* The state machine, for the two ends together *)

\* What is told with a change of state.
LEMMA ToldLast ==
  ASSUME NEW a \in App
  PROVE  /\ Told(a, "CLOSED").estab = a.estab /\ Told(a, "PEER_CLOSED").estab = a.estab
         /\ Told(a, "CLOSED").peer_closed = a.peer_closed /\ Told(a, "PEER_CLOSED").peer_closed
BY DEF Told, App

\* What has been settled, as far as the service is concerned.
LEMMA SettledService ==
  ASSUME NEW d \in Conn, NEW q, q = Settled(d)
  PROVE  /\ q.app.estab = d.app.estab
         /\ q.app.peer_closed = (d.app.peer_closed \/ (Leaves(d) /\ NextState(d) = "CLOSE_WAIT"))
         /\ q.timers \subseteq d.timers
         /\ Leaves(d) /\ q.fsm = "CLOSED" => q.timers = {} /\ q.buf = {} /\ ~q.fin_rcvd /\ ~q.active
         /\ q.fsm # "CLOSED" \/ ~Leaves(d) => q.snd_max = d.snd_max /\ SameQueues(d, q)
<1> DEFINE n == NextState(d)
           r == PerformStateTransition(d)
<1>1. n \in States /\ q.fsm = n
  BY NextStateType, SettledHalves
<1>2. /\ r \in Conn /\ r.app.estab = d.app.estab
      /\ r.app.peer_closed = (d.app.peer_closed \/ (Leaves(d) /\ n = "CLOSE_WAIT"))
      /\ r.timers \subseteq d.timers
      /\ Leaves(d) /\ n = "CLOSED" => r.timers = {} /\ r.buf = {} /\ ~r.fin_rcvd /\ ~r.active
      /\ n # "CLOSED" \/ ~Leaves(d) => r.snd_max = d.snd_max /\ SameQueues(d, r)
  <2>1. CASE ~Leaves(d)
    <3>1. r = [d EXCEPT !.event = "IGNORE"]
      BY <2>1 DEF PerformStateTransition, Leaves, Raise
    <3> HIDE DEF n, r
    <3>2. r \in Conn
      BY <3>1 DEF Conn, Events
    <3>3. /\ r.app = d.app /\ r.timers = d.timers /\ r.snd_max = d.snd_max /\ SameQueues(d, r)
      BY <3>1 DEF Conn, SameQueues
    <3>4. d.app.peer_closed \in BOOLEAN
      BY DEF Conn, App
    <3> QED
      BY <2>1, <3>2, <3>3, <3>4
  <2>2. CASE Leaves(d)
    <3>1. r = StateEntered(d, n)
      BY <2>2, IgnoreStays DEF PerformStateTransition, Leaves
    <3>2. Entered(d, n, r) /\ (n # "CLOSED" => SameQueues(d, r))
      BY <1>1, <3>1, StateEnteredFacts, EnteredHalves
    <3>3. /\ Told(d.app, "CLOSED").estab = d.app.estab
          /\ Told(d.app, "PEER_CLOSED").estab = d.app.estab
          /\ Told(d.app, "CLOSED").peer_closed = d.app.peer_closed
          /\ Told(d.app, "PEER_CLOSED").peer_closed /\ d.app.peer_closed \in BOOLEAN
      BY ToldLast DEF Conn, App
    <3>4. CASE n = "CLOSED"
      <4> DEFINE b == IF d.fsm # "TIME_WAIT" /\ d.event # "ABORT" THEN Indicate(d, "CLOSED") ELSE d
      <4>1. r = Removed(b)
        BY <3>1, <3>4 DEF StateEntered, Embryonic
      <4> HIDE DEF b
      <4>2. r.buf = {} /\ r.fin_rcvd = FALSE /\ r.active = FALSE
        BY <4>1 DEF Removed, FreshConn
      <4> QED
        BY <2>2, <3>2, <3>3, <3>4, <4>2 DEF Entered
    <3>5. CASE n # "CLOSED"
      <4> HIDE DEF r
      <4>1. /\ r \in Conn /\ r.snd_max = d.snd_max /\ r.timers \subseteq d.timers
            /\ r.app = IF n = "CLOSE_WAIT" THEN Told(d.app, "PEER_CLOSED")
                       ELSE IF n = "TIME_WAIT" THEN Told(d.app, "CLOSED") ELSE d.app
        BY <3>2, <3>5 DEF Entered, SameStreams
      <4>2. CASE n = "CLOSE_WAIT"
        BY <2>2, <3>2, <3>3, <3>5, <4>1, <4>2
      <4>3. CASE n = "TIME_WAIT"
        BY <2>2, <3>2, <3>3, <3>5, <4>1, <4>3
      <4>4. CASE n # "CLOSE_WAIT" /\ n # "TIME_WAIT"
        BY <2>2, <3>2, <3>3, <3>5, <4>1, <4>4
      <4> QED
        BY <4>2, <4>3, <4>4
    <3> QED
      BY <3>4, <3>5
  <2> QED
    BY <2>1, <2>2
<1>3. q = [r EXCEPT !.out = {}]
  BY DEF Settled
<1> HIDE DEF r, n
<1>4. /\ q.app = r.app /\ q.timers = r.timers /\ q.snd_max = r.snd_max /\ q.buf = r.buf
      /\ q.fin_rcvd = r.fin_rcvd /\ q.active = r.active
  BY <1>2, <1>3 DEF Conn
<1>5. SameQueues(d, r) => SameQueues(d, q)
  BY <1>2, <1>3 DEF Conn, SameQueues
<1> QED
  BY <1>1, <1>2, <1>4, <1>5 DEF n

\* What is ready becomes what is sound.
LEMMA SettledSound ==
  ASSUME NEW d \in Conn, NEW q, q = Settled(d)
  PROVE  SoundReady(d) => Sound(q)
<1> SUFFICES ASSUME SoundReady(d) PROVE Sound(q)
  OBVIOUS
<1>1. q.fsm = NextState(d) /\ SameHalves(d, q)
  BY SettledHalves
<1>2. /\ q.timers \subseteq d.timers /\ (Leaves(d) /\ q.fsm = "CLOSED" => q.timers = {})
      /\ q.fsm # "CLOSED" => q.snd_max = d.snd_max /\ SameQueues(d, q)
  BY SettledService
<1>3. q.failed = {}
  BY <1>1 DEF SoundReady, SameHalves
<1>4. "CLOSED" \notin Embryonic /\ "CLOSED" \notin Synchronized
  BY DEF Embryonic, Synchronized
<1>5. q.fsm \in Synchronized => Orderly(q) /\ Timed(q)
  <2> SUFFICES ASSUME q.fsm \in Synchronized PROVE Orderly(q) /\ Timed(q)
    OBVIOUS
  <2>1. Orderly(d) /\ Timed(d) /\ SameQueues(d, q) /\ q.snd_max = d.snd_max
    BY <1>1, <1>2, <1>4 DEF SoundReady
  <2> QED
    BY <1>1, <1>2, <2>1 DEF Orderly, Timed, SameQueues, SameHalves
<1>6. q.fsm \in Embryonic => q.q_begin = q.iss + 1
  BY <1>1, <1>2, <1>4 DEF SoundReady, SameQueues, SameHalves
<1> QED
  BY <1>1, <1>2, <1>3, <1>5, <1>6 DEF Sound, SoundReady

\* What is not heard is not heard by changing state.
LEMMA SettledFresh ==
  ASSUME NEW d \in Conn, NEW q, q = Settled(d), NEW h \in Streams
  PROVE  (Fresh(d, h) => Fresh(q, h)) /\ (Idle(d) => Idle(q))
<1>1. q.fsm = NextState(d) /\ SameHalves(d, q) /\ q.event = "IGNORE"
  BY SettledHalves
<1>2. /\ q.fsm # "CLOSED" \/ ~Leaves(d) => SameQueues(d, q)
      /\ Leaves(d) /\ q.fsm = "CLOSED" => q.buf = {} /\ ~q.fin_rcvd
  BY SettledService
<1>3. q.fsm \in FinTaken => d.fsm \in FinTaken \/ d.event \in {"RCV_FIN", "RCV_FIN_ACK"}
  BY <1>1, StreamStates
<1>4. Fresh(d, h) => Fresh(q, h)
  BY <1>1, <1>2, <1>3 DEF Fresh, SameHalves, SameQueues
<1>5. Idle(d) => Idle(q)
  BY <1>1, <1>2, <1>3 DEF Idle, SameHalves, SameQueues
<1> QED
  BY <1>4, <1>5

-----------------------------------------------------------------------------
(* A connection between two events *)

\* The application is told of the connection once, and of the end of the peer's stream where
\* its FIN has been taken; it has not closed before the connection was up.  An ISS is never 0,
\* and nothing but the SYN can have been acknowledged before the handshake is over.
Steady(c) ==
  /\ c.app.estab <= 1
  /\ c.fsm \in Unheard => c.app.estab = 0 /\ ~c.app.closed
  /\ c.fsm \in Synchronized => c.app.estab = 1
  /\ c.fsm \in Embryonic => c.snd_una = c.iss
  /\ c.fsm \in Live => c.iss > 0
  /\ c.fsm \in Heard => c.irs > 0
  /\ c.irs = 0 => c.app.got = 0
  /\ c.fsm = "LISTEN" => ~c.active
  /\ c.app.peer_closed => c.fsm \in {"CLOSE_WAIT", "LAST_ACK", "CLOSED"}

\* m is c with what the application has noted of its own doing.
Noting(c, m) ==
  /\ m \in Conn
  /\ m.fsm = c.fsm /\ m.active = c.active /\ m.event = c.event /\ m.timers = c.timers
  /\ m.iss = c.iss /\ m.irs = c.irs /\ m.failed = c.failed
  /\ m.snd_una = c.snd_una /\ m.snd_max = c.snd_max /\ m.q_begin = c.q_begin
  /\ m.q_end = c.q_end /\ m.send_fin = c.send_fin /\ m.snd_fin_seq = c.snd_fin_seq
  /\ m.buf = c.buf /\ m.fin_rcvd = c.fin_rcvd /\ m.rcv_fin_seq = c.rcv_fin_seq
  /\ m.app.got = c.app.got /\ m.app.estab = c.app.estab /\ m.app.peer_closed = c.app.peer_closed

\* What is noted.
LEMMA NotingApp ==
  ASSUME NEW c \in Conn, NEW a \in App, a.got = c.app.got, a.estab = c.app.estab,
         a.peer_closed = c.app.peer_closed, NEW m, m = [c EXCEPT !.app = a]
  PROVE  Noting(c, m) /\ m.app = a
BY DEF Noting, Conn

\* Nothing need be noted.
LEMMA NotingNothing ==
  ASSUME NEW c \in Conn
  PROVE  Noting(c, c)
BY DEF Noting

\* Which states are left behind for good.
LEMMA UnheardStates ==
  ASSUME NEW d \in Conn
  PROVE  /\ NextState(d) \in Unheard => d.fsm \in Unheard
         /\ NextState(d) \in Live => d.fsm \in Live \cup {"INIT", "LISTEN"}
         /\ NextState(d) \in Unheard \cup Synchronized \cup {"CLOSED"}
         /\ d.fsm \in Unheard \cup Synchronized \cup {"CLOSED"}
<1>1. d.fsm \in States /\ NextState(d) \in States
  BY NextStateType DEF Conn
<1>2. NextState(d) \in Synchronized => d.fsm \in Synchronized \cup Embryonic
  BY ServiceStates
<1>3. NextState(d) \in Unheard => d.fsm \in Unheard
  BY StreamStates DEF Unheard
<1> QED
  BY <1>1, <1>2, <1>3, StreamStates DEF Live, Unheard, Embryonic, Synchronized, States

\* Every handler leaves a steady connection.
LEMMA ServedSteady ==
  ASSUME NEW c \in Conn, Steady(c), NEW m, Noting(c, m), NEW d \in Conn, Lasts(c, d),
         NEW s \in Segment, "SYN" \in s.flags => s.seq > 0, NEW h \in Streams, Serves(m, d, s, h),
         m.app.closed = c.app.closed \/ NextState(d) \notin Unheard, NEW q, q = Settled(d)
  PROVE  Steady(q)
<1>1. /\ c.iss \in Nat /\ c.irs \in Nat /\ c.snd_una \in Nat /\ IssStep \in Nat /\ IssStep > 0
      /\ d.snd_una \in Nat /\ d.iss \in Nat /\ s.seq \in Nat /\ c.fsm \in States
      /\ c.app.estab \in Nat /\ d.app.estab \in Nat /\ d.app.got \in Nat
  BY ConnectionAssumption DEF Conn, App, Segment
<1>2. /\ d.fsm = c.fsm /\ d.active = c.active /\ d.app.closed = m.app.closed
      /\ d.app.peer_closed = c.app.peer_closed
      /\ d.app.estab = IF c.fsm \in Embryonic /\ NextState(d) \in Synchronized
                       THEN c.app.estab + 1 ELSE c.app.estab
      /\ d.app.got # c.app.got => c.fsm \in DataStates
  BY DEF Serves, Tidings, Noting
<1>3. NextState(d) \in Embryonic => d.snd_una = d.iss \/ (c.fsm \in Embryonic /\ d.snd_una = c.snd_una /\ d.iss = c.iss)
  BY DEF Serves, Noting
<1>4. \/ /\ d.iss = c.iss /\ d.irs = c.irs
         /\ NextState(d) \in Heard => c.fsm \in Heard
         /\ NextState(d) = "SYN_SENT" => c.fsm = "SYN_SENT"
      \/ d.iss = c.iss + IssStep /\ d.irs = s.seq /\ s.seq > 0
      \/ c.fsm = "SYN_SENT" /\ d.iss = c.iss /\ d.irs = s.seq /\ s.seq > 0
  BY DEF Serves, Hands, Noting, Heard, Synchronized
<1>5. /\ q.fsm = NextState(d) /\ q.iss = d.iss /\ q.irs = d.irs /\ q.app.got = d.app.got
      /\ q.app.closed = d.app.closed /\ q.app.estab = d.app.estab
      /\ q.app.peer_closed = (d.app.peer_closed \/ (Leaves(d) /\ NextState(d) = "CLOSE_WAIT"))
      /\ q.fsm # "CLOSED" => q.active = d.active /\ q.snd_una = d.snd_una
  BY SettledHalves, SettledService DEF SameHalves, SameQueues
<1>6. /\ NextState(d) \in Unheard => c.fsm \in Unheard
      /\ NextState(d) \in Unheard \cup Synchronized \cup {"CLOSED"}
      /\ NextState(d) \in Synchronized => c.fsm \in Synchronized \cup Embryonic
  BY <1>2, UnheardStates, ServiceStates
<1>7. q.app.estab <= 1 /\ (q.fsm \in Unheard => q.app.estab = 0 /\ ~q.app.closed)
      /\ (q.fsm \in Synchronized => q.app.estab = 1)
  <2>1. Embryonic \subseteq Unheard /\ Unheard \cap Synchronized = {}
    BY DEF Embryonic, Unheard, Synchronized
  <2> QED
    BY <1>1, <1>2, <1>5, <1>6, <2>1 DEF Steady
<1>8. q.fsm \in Embryonic => q.snd_una = q.iss
  BY <1>3, <1>5 DEF Steady, Embryonic
<1>9. q.fsm \in Live => q.iss > 0
  <2>1. NextState(d) \in Live /\ c.fsm \in Heard => c.fsm \in Live
    BY DEF Heard, Live, Embryonic
  <2>2. NextState(d) \in Live => NextState(d) \in Heard \/ NextState(d) = "SYN_SENT"
    BY DEF Heard, Live, Embryonic
  <2>3. "SYN_SENT" \in Live
    BY DEF Live, Embryonic
  <2> QED
    BY <1>1, <1>4, <1>5, <2>1, <2>2, <2>3 DEF Steady
<1>10. q.fsm \in Heard => q.irs > 0
  BY <1>4, <1>5, <1>1 DEF Steady
<1>11. q.irs = 0 => q.app.got = 0
  <2> SUFFICES ASSUME q.irs = 0
               PROVE  q.app.got = 0
    OBVIOUS
  <2>1. c.irs = 0 /\ d.irs = c.irs
    BY <1>1, <1>4, <1>5
  <2>2. c.app.got = 0 /\ c.fsm \notin Heard
    BY <1>1, <2>1 DEF Steady
  <2>3. c.fsm \notin DataStates
    BY <2>2 DEF Heard, DataStates, Synchronized, States
  <2> QED
    BY <1>2, <1>5, <2>2, <2>3
<1>12. q.fsm = "LISTEN" => ~q.active
  <2> SUFFICES ASSUME NextState(d) = "LISTEN"
               PROVE  ~c.active
    BY <1>2, <1>5
  <2>1. c.fsm = "LISTEN" \/ (c.fsm = "SYN_RCVD" /\ ~c.active)
    BY <1>2, StreamStates DEF Lasts
  <2> QED
    BY <2>1 DEF Steady
<1>13. q.app.peer_closed => q.fsm \in {"CLOSE_WAIT", "LAST_ACK", "CLOSED"}
  BY <1>2, <1>5, ServiceStates, StreamStates DEF Steady
<1> QED
  BY <1>7, <1>8, <1>9, <1>10, <1>11, <1>12, <1>13 DEF Steady

-----------------------------------------------------------------------------
(* The two ends and the network *)

\* Nobody closes in SYN_RCVD: close() comes after the connection is up, or only from an end
\* that does not listen while not both of them connect.
LateClose ==
  \/ ~EarlyClose
  \/ Closers \cap Passive = {} /\ ~(A \in Active /\ B \in Active)

\* Who opens how, and what that means for the segments on their way to e.
Roles(e) ==
  LET c == conn[e]
  IN /\ c.active => e \in Active
     /\ c.fsm \in {"LISTEN", "SYN_RCVD"} /\ ~c.active => e \in Passive
     /\ c.fsm = "SYN_RCVD" /\ c.active => Peer(e) \in Active
     /\ \A s \in net[e] :
          /\ "SYN" \in s.flags => s.seq > 0
          /\ "SYN" \in s.flags /\ "ACK" \notin s.flags => Peer(e) \in Active
          /\ Echo(s) => s.ack <= End(c) + 1 /\ s.ack # c.iss

\* What is past the handshake for good.
Past == Synchronized \cup {"CLOSED"}

\* Between two hosts that open once: text comes from a connection that is past its handshake,
\* and nothing is heard that was not said.
Clean(e) ==
  LET c == conn[e]
      p == conn[Peer(e)]
  IN /\ \A s \in net[e] : Text(s) => s.seq > p.iss /\ p.fsm \in Past
     /\ p.fsm \notin Past => Idle(c)
     /\ Fresh(c, Stream(p))
     /\ c.app.peer_closed => c.app.got = p.app.wrote /\ p.app.closed

\* The inductive invariant.
SInv ==
  /\ DInv
  /\ \A e \in Ends : Steady(conn[e]) /\ Roles(e)
  /\ First => \A e \in Ends : Sound(conn[e]) /\ Clean(e)

\* What a step leaves behind.
Serving ==
  /\ \A e \in Ends : Steady(conn'[e]) /\ Roles(e)'
  /\ First => \A e \in Ends : Sound(conn'[e]) /\ Clean(e)'

\* A handler of e has turned m, its connection with what the application has noted, into d.
Ran(e, m, d, s) ==
  /\ s \in Segment /\ (s \in net[e] \/ s = Blank)
  /\ Noting(conn[e], m) /\ Serves(m, d, s, Stream(conn[Peer(e)]))
  /\ Flows(conn[e], d, s, Stream(conn[Peer(e)])) /\ Lasts(conn[e], d)
  /\ conn[e].fsm = "SYN_RCVD" => m.app.closed = conn[e].app.closed
  /\ m.app.closed = conn[e].app.closed \/ NextState(d) \notin Unheard

\* What an ACK may acknowledge grows with the stream.
LEMMA EndGrows ==
  ASSUME NEW c \in Conn, NEW d \in Conn, Widens(Stream(c), Stream(d)), NEW n \in Nat,
         n <= End(c) + 1, n # c.iss
  PROVE  n <= End(d) + 1 /\ n # d.iss
<1>1. /\ c.iss \in Nat /\ d.iss \in Nat /\ c.app.wrote \in Nat /\ d.app.wrote \in Nat
      /\ End(c) = c.iss + 1 + c.app.wrote /\ End(d) = d.iss + 1 + d.app.wrote
      /\ Stream(c).iss = c.iss /\ Stream(d).iss = d.iss
      /\ Stream(c).end = End(c) /\ Stream(d).end = End(d)
  BY DEF Conn, App, End, Stream
<1> QED
  BY <1>1 DEF Widens

\* A connection that hears nothing is fresh for any stream.
LEMMA IdleFresh ==
  ASSUME NEW c, NEW h, Idle(c)
  PROVE  Fresh(c, h)
BY DEF Idle, Fresh

\* Roles after a handler, for the end itself.
LEMMA RolesHere ==
  ASSUME ClockOutruns, SInv, NEW e \in Ends, NEW m, NEW d, NEW s, Ran(e, m, d, s), NEW used,
         Handle(e, d, used)
  PROVE  Roles(e)'
<1> DEFINE c == conn[e]
           h == Stream(conn[Peer(e)])
           q == Settled(d)
<1>1. /\ TypeOK /\ c \in Conn /\ Speaks(c) /\ h \in Streams /\ Steady(c) /\ Roles(e)
      /\ net[e] \subseteq Segment
  BY EndFacts DEF SInv, TypeOK
<1>2. /\ d \in Conn /\ Widens(Stream(c), Stream(d)) /\ Noting(c, m) /\ Serves(m, d, s, h)
      /\ Lasts(c, d) /\ (s \in net[e] \/ s = Blank)
  BY DEF Ran, Flows
<1>3. conn'[e] = q /\ net'[e] \subseteq net[e]
  BY <1>1, <1>2, HandleResult
<1>4. /\ q \in Conn /\ q.fsm = NextState(d) /\ q.iss = d.iss /\ End(q) = End(d)
      /\ q.active = d.active \/ (q.fsm = "CLOSED" /\ ~q.active)
  <2>1. q \in Conn /\ q.fsm = NextState(d) /\ SameHalves(d, q)
        /\ (q.fsm # "CLOSED" \/ d.fsm = "CLOSED" => SameQueues(d, q))
    BY <1>2, SettledHalves
  <2>2. Leaves(d) /\ q.fsm = "CLOSED" => ~q.active
    BY <1>2, SettledService
  <2> QED
    BY <2>1, <2>2 DEF SameHalves, SameQueues, End, Leaves
<1>5. d.fsm = c.fsm /\ d.active = c.active
  BY <1>2 DEF Serves, Noting
<1> HIDE DEF c, h, q
<1>6. c.active => e \in Active
  BY <1>1 DEF Roles, c
<1>7. c.fsm \in {"LISTEN", "SYN_RCVD"} /\ ~c.active => e \in Passive
  BY <1>1 DEF Roles, c
<1>8. c.fsm = "SYN_RCVD" /\ c.active => Peer(e) \in Active
  BY <1>1 DEF Roles, c
<1>9. /\ NextState(d) = "LISTEN" => c.fsm = "LISTEN" \/ (c.fsm = "SYN_RCVD" /\ ~c.active)
      /\ NextState(d) = "SYN_RCVD" =>
           \/ c.fsm \in {"SYN_RCVD", "LISTEN"}
           \/ c.fsm = "SYN_SENT" /\ "SYN" \in s.flags /\ "ACK" \notin s.flags
  <2>1. NextState(d) = "LISTEN" => c.fsm = "LISTEN" \/ (c.fsm = "SYN_RCVD" /\ ~c.active)
    BY <1>2, <1>5, StreamStates DEF Lasts
  <2>2. NextState(d) = "SYN_RCVD" =>
           \/ c.fsm \in {"SYN_RCVD", "LISTEN"}
           \/ c.fsm = "SYN_SENT" /\ "SYN" \in s.flags /\ "ACK" \notin s.flags
    BY <1>2 DEF Serves, Hands, Noting
  <2> QED
    BY <2>1, <2>2
<1>10. (c.fsm = "SYN_SENT" => c.active) /\ (c.fsm = "LISTEN" => ~c.active)
  BY <1>1 DEF Speaks, Steady
<1>11. "SYN" \in s.flags /\ "ACK" \notin s.flags => Peer(e) \in Active
  <2>1. s = Blank => "SYN" \notin s.flags
    BY DEF Blank, Seg
  <2> QED
    BY <1>1, <1>2, <2>1 DEF Roles
<1>12. q.active => e \in Active
  BY <1>4, <1>5, <1>6
<1>13. q.fsm \in {"LISTEN", "SYN_RCVD"} /\ ~q.active => e \in Passive
  BY <1>4, <1>5, <1>7, <1>9, <1>10
<1>14. q.fsm = "SYN_RCVD" /\ q.active => Peer(e) \in Active
  BY <1>4, <1>5, <1>8, <1>9, <1>10, <1>11
<1>15. ASSUME NEW x \in net'[e]
       PROVE  /\ "SYN" \in x.flags => x.seq > 0
              /\ "SYN" \in x.flags /\ "ACK" \notin x.flags => Peer(e) \in Active
              /\ Echo(x) => x.ack <= End(q) + 1 /\ x.ack # q.iss
  <2>1. x \in net[e] /\ x.ack \in Nat
    BY <1>1, <1>3 DEF Segment
  <2>2. /\ "SYN" \in x.flags => x.seq > 0
        /\ "SYN" \in x.flags /\ "ACK" \notin x.flags => Peer(e) \in Active
        /\ Echo(x) => x.ack <= End(c) + 1 /\ x.ack # c.iss
    BY <1>1, <2>1 DEF Roles, c
  <2>3. Echo(x) => x.ack <= End(d) + 1 /\ x.ack # d.iss
    BY <1>1, <1>2, <2>1, <2>2, EndGrows
  <2> QED
    BY <1>4, <2>2, <2>3
<1> QED
  BY <1>3, <1>12, <1>13, <1>14, <1>15 DEF Roles

\* Roles after a handler, for the other end: what it is sent.
LEMMA RolesThere ==
  ASSUME ClockOutruns, SInv, NEW e \in Ends, NEW m, NEW d, NEW s, Ran(e, m, d, s), NEW used,
         Handle(e, d, used), Steady(conn'[e])
  PROVE  Roles(Peer(e))'
<1> DEFINE c == conn[e]
           p == conn[Peer(e)]
           h == Stream(p)
           q == Settled(d)
<1>1. /\ TypeOK /\ c \in Conn /\ p \in Conn /\ h \in Streams /\ h.iss = p.iss /\ h.end = End(p)
      /\ Roles(e) /\ Roles(Peer(e)) /\ Peer(e) \in Ends /\ Peer(Peer(e)) = e
  BY EndFacts, TwoEnds DEF SInv, Stream
<1>2. /\ d \in Conn /\ SpeaksReady(d) /\ OutReady(d, h) /\ Noting(c, m) /\ Serves(m, d, s, h)
  BY DEF Ran, Flows
<1>3. conn'[e] = q /\ conn'[Peer(e)] = p /\ net'[Peer(e)] = net[Peer(e)] \cup d.out
  BY <1>1, <1>2, HandleResult
<1>4. q.fsm = NextState(d) /\ q.iss = d.iss
  BY <1>2, SettledHalves DEF SameHalves
<1>5. Steady(q)
  BY <1>3
<1>6. d.active => e \in Active
  BY <1>1, <1>2 DEF Serves, Noting, Roles
<1> HIDE DEF c, p, h, q
<1>7. /\ p.active => Peer(e) \in Active
      /\ p.fsm \in {"LISTEN", "SYN_RCVD"} /\ ~p.active => Peer(e) \in Passive
      /\ p.fsm = "SYN_RCVD" /\ p.active => e \in Active
      /\ \A x \in net[Peer(e)] :
           /\ "SYN" \in x.flags => x.seq > 0
           /\ "SYN" \in x.flags /\ "ACK" \notin x.flags => e \in Active
           /\ Echo(x) => x.ack <= End(p) + 1 /\ x.ack # p.iss
  BY <1>1 DEF Roles, p
<1>8. ASSUME NEW x \in d.out
      PROVE  /\ "SYN" \in x.flags => x.seq > 0
             /\ "SYN" \in x.flags /\ "ACK" \notin x.flags => e \in Active
             /\ Echo(x) => x.ack <= End(p) + 1 /\ x.ack # p.iss
  <2>1. "SYN" \in x.flags => NextState(d) \in {"SYN_SENT", "SYN_RCVD"}
    BY <1>2 DEF Serves, Speech
  <2>2. "SYN" \in x.flags => x.seq = d.iss
    BY <1>2 DEF OutReady, Fits, Own
  <2>3. "SYN" \in x.flags => x.seq > 0
    BY <1>4, <1>5, <2>1, <2>2 DEF Steady, Live, Embryonic
  <2>4. "SYN" \in x.flags /\ "ACK" \notin x.flags => e \in Active
    BY <1>2, <1>6 DEF Serves, Speech, SpeaksReady
  <2>5. ASSUME Echo(x)
        PROVE  x.ack <= End(p) + 1 /\ x.ack # p.iss
    <3>1. Hears(d, h) /\ x.ack \in Nat /\ d.irs \in Nat /\ d.rcv_nxt \in Nat /\ h.iss \in Nat
          /\ h.end \in Nat
      BY <1>1, <1>2, <2>5 DEF OutReady, Conn, Segment, Streams
    <3>2. d.irs < x.ack /\ x.ack <= d.rcv_nxt
      BY <2>5, <3>1 DEF Hears, Echoes
    <3>3. h.iss < h.end
      BY <1>1, StreamType DEF h, Stream
    <3> QED
      BY <1>1, <3>1, <3>2, <3>3 DEF Hears
  <2> QED
    BY <2>3, <2>4, <2>5
<1> QED
  BY <1>1, <1>3, <1>7, <1>8 DEF Roles

\* Between two hosts that open once, the end itself hears nothing that was not said.
LEMMA CleanHere ==
  ASSUME ClockOutruns, SInv, First, NEW e \in Ends, NEW m, NEW d, NEW s, Ran(e, m, d, s),
         NEW used, Handle(e, d, used)
  PROVE  Sound(conn'[e]) /\ Clean(e)' /\ d.failed = {}
<1> DEFINE c == conn[e]
           p == conn[Peer(e)]
           h == Stream(p)
           q == Settled(d)
<1>1. /\ TypeOK /\ c \in Conn /\ p \in Conn /\ h \in Streams /\ h.iss = p.iss /\ h.end = End(p)
      /\ h.closed = p.app.closed /\ Steady(c) /\ Roles(e) /\ Sound(c) /\ Clean(e)
      /\ Peer(e) \in Ends /\ Peer(Peer(e)) = e
  BY EndFacts, TwoEnds DEF SInv, Stream
<1>2. /\ d \in Conn /\ ListensReady(d, h) /\ Noting(c, m) /\ Serves(m, d, s, h)
      /\ s \in Segment /\ (s \in net[e] \/ s = Blank)
  BY DEF Ran, Flows
<1>3. conn'[e] = q /\ conn'[Peer(e)] = p /\ net'[e] \subseteq net[e]
  BY <1>1, <1>2, HandleResult
<1>4. /\ q.fsm = NextState(d) /\ q.iss = d.iss /\ q.app.got = d.app.got
      /\ q.app.peer_closed = (d.app.peer_closed \/ (Leaves(d) /\ NextState(d) = "CLOSE_WAIT"))
  BY <1>2, SettledHalves, SettledService DEF SameHalves
<1>5. ~Text(Blank) /\ ~Echo(Blank)
  BY DEF Blank, Seg, Text, Echo
<1> HIDE DEF q
<1>6. /\ Fresh(c, h) /\ (Text(s) => s.seq > h.iss /\ p.fsm \in Past)
      /\ Echo(s) => s.ack # c.iss
  BY <1>1, <1>2, <1>5 DEF Clean, Roles
<1>7. c.fsm = "SYN_RCVD" => ~m.app.closed
  BY <1>1 DEF Ran, Steady, Unheard
<1>8. Apt(m, s, h) /\ Sound(m)
  <2>1. Fresh(m, h)
    BY <1>2, <1>6 DEF Fresh, Noting
  <2>2. Apt(m, s, h)
    BY <1>1, <1>2, <1>6, <1>7, <2>1 DEF Apt, Noting, Steady
  <2>3. Sound(m)
    BY <1>1, <1>2 DEF Sound, Orderly, Timed, Noting
  <2> QED
    BY <2>2, <2>3
<1>9. SoundReady(d) /\ Fresh(d, h)
  BY <1>2, <1>8 DEF Serves
<1>10. Sound(q) /\ Fresh(q, h) /\ d.failed = {}
  BY <1>1, <1>2, <1>9, SettledSound, SettledFresh DEF SoundReady, q
<1>11. p.fsm \notin Past => Idle(q)
  <2> SUFFICES ASSUME p.fsm \notin Past
               PROVE  Idle(q)
    OBVIOUS
  <2>1. ~Text(s) /\ Idle(c)
    BY <1>1, <1>6 DEF Clean
  <2>2. Idle(m)
    BY <1>2, <2>1 DEF Idle, Noting
  <2>3. Idle(d)
    BY <1>2, <2>1, <2>2 DEF Serves
  <2> QED
    BY <1>1, <1>2, <2>3, SettledFresh DEF q
<1>12. q.app.peer_closed => q.app.got = p.app.wrote /\ p.app.closed
  <2>1. CASE c.app.peer_closed
    <3>1. c.app.got = p.app.wrote /\ p.app.closed
      BY <1>1, <2>1 DEF Clean
    <3>2. c.fsm \notin DataStates
      BY <1>1, <2>1 DEF Steady, DataStates
    <3>3. d.app.got = c.app.got
      BY <1>2, <3>2 DEF Serves, Tidings, Noting
    <3> QED
      BY <1>4, <3>1, <3>3
  <2>2. CASE ~c.app.peer_closed
    <3> SUFFICES ASSUME Leaves(d), NextState(d) = "CLOSE_WAIT"
                 PROVE  d.app.got = p.app.wrote /\ p.app.closed
      BY <1>2, <1>4, <2>2 DEF Serves, Tidings, Noting
    <3>1. d.event = "RCV_FIN"
      BY <1>2, ServiceStates DEF Leaves
    <3>2. d.irs = h.iss
      BY <1>9, <3>1 DEF Fresh
    <3>3. Hears(d, h)
      BY <1>2 DEF ListensReady, Heard, Synchronized, States
    <3>4. d.rcv_nxt = h.end + 1 /\ d.app.got = Lesser(d.rcv_nxt, h.end) - d.irs - 1 /\ h.closed
      BY <3>1, <3>2, <3>3 DEF Hears
    <3>5. p.iss \in Nat /\ p.app.wrote \in Nat /\ h.end = p.iss + 1 + p.app.wrote
      BY <1>1 DEF Conn, App, End
    <3> QED
      BY <1>1, <3>2, <3>4, <3>5 DEF Lesser
  <2> QED
    BY <2>1, <2>2
<1>13. \A x \in net'[e] : Text(x) => x.seq > p.iss /\ p.fsm \in Past
  BY <1>1, <1>3 DEF Clean
<1> QED
  BY <1>3, <1>10, <1>11, <1>12, <1>13 DEF Clean

\* Between two hosts that open once, the other end hears nothing that was not said.
LEMMA CleanThere ==
  ASSUME ClockOutruns, SInv, First, NEW e \in Ends, NEW m, NEW d, NEW s, Ran(e, m, d, s),
         NEW used, Handle(e, d, used)
  PROVE  Sound(conn'[Peer(e)]) /\ Clean(Peer(e))'
<1> DEFINE c == conn[e]
           p == conn[Peer(e)]
           h == Stream(p)
           q == Settled(d)
<1>1. /\ TypeOK /\ c \in Conn /\ p \in Conn /\ Speaks(c) /\ Steady(c) /\ Clean(Peer(e)) /\ Sound(p)
      /\ Peer(e) \in Ends /\ Peer(Peer(e)) = e
  BY EndFacts, TwoEnds DEF SInv
<1>2. /\ d \in Conn /\ OutReady(d, h) /\ Noting(c, m) /\ Serves(m, d, s, h) /\ Lasts(c, d)
      /\ Widens(Stream(c), Stream(d))
  BY DEF Ran, Flows
<1>3. conn'[e] = q /\ conn'[Peer(e)] = p /\ net'[Peer(e)] = net[Peer(e)] \cup d.out
  BY <1>1, <1>2, HandleResult
<1>4. /\ q.fsm = NextState(d) /\ q.iss = d.iss /\ q.app.wrote = d.app.wrote
      /\ q.app.closed = d.app.closed
  BY <1>2, SettledHalves DEF SameHalves
<1>5. d.failed = {}
  BY CleanHere
<1> HIDE DEF c, p, h, q
<1>6. /\ \A x \in net[Peer(e)] : Text(x) => x.seq > c.iss /\ c.fsm \in Past
      /\ c.fsm \notin Past => Idle(p)
      /\ Fresh(p, Stream(c))
      /\ p.app.peer_closed => p.app.got = c.app.wrote /\ c.app.closed
  BY <1>1 DEF Clean, c, p
<1>7. c.fsm \in Past => q.fsm \in Past
  BY <1>2, <1>4 DEF Lasts, Past
<1>8. c.fsm \notin {"LISTEN", "SYN_SENT"} => q.iss = c.iss
  BY <1>2, <1>4 DEF Serves, Hands, Noting
<1>9. c.fsm # "LISTEN" => q.iss = c.iss
  BY <1>2, <1>4 DEF Serves, Hands, Noting
<1>10. "LISTEN" \notin Past /\ "SYN_SENT" \notin Past /\ "LISTEN" \in Unheard
  BY DEF Past, Synchronized, Unheard
<1>11. \A x \in net[Peer(e)] : Text(x) => x.seq > q.iss /\ q.fsm \in Past
  BY <1>6, <1>7, <1>8, <1>10
<1>12. \A x \in d.out : Text(x) => x.seq > q.iss /\ q.fsm \in Past
  BY <1>2, <1>4, <1>5 DEF OutReady, Fits, Own, Serves, Speech, Past
<1>13. q.fsm \notin Past => Idle(p)
  BY <1>6, <1>7
<1>14. Fresh(p, Stream(q))
  <2>1. CASE c.fsm = "LISTEN"
    BY <1>6, <1>10, <2>1, IdleFresh
  <2>2. CASE c.fsm # "LISTEN"
    BY <1>6, <1>9, <2>2 DEF Fresh, Stream
  <2> QED
    BY <2>1, <2>2
<1>15. p.app.peer_closed => p.app.got = q.app.wrote /\ q.app.closed
  <2> SUFFICES ASSUME p.app.peer_closed
               PROVE  q.app.wrote = c.app.wrote /\ q.app.closed
    BY <1>6
  <2>1. c.app.closed /\ c.fsm # "LISTEN"
    BY <1>1, <1>6, <1>10 DEF Steady
  <2>2. d.iss = c.iss
    BY <1>4, <1>9, <2>1
  <2>3. /\ c.iss \in Nat /\ d.iss \in Nat /\ c.app.wrote \in Nat /\ d.app.wrote \in Nat
        /\ Stream(c).iss = c.iss /\ Stream(d).iss = d.iss
        /\ Stream(c).closed = c.app.closed /\ Stream(d).closed = d.app.closed
        /\ Stream(c).end = c.iss + 1 + c.app.wrote /\ Stream(d).end = d.iss + 1 + d.app.wrote
    BY <1>1, <1>2 DEF Conn, App, End, Stream
  <2> QED
    BY <1>2, <1>4, <2>1, <2>2, <2>3 DEF Widens
<1> QED
  BY <1>1, <1>3, <1>11, <1>12, <1>13, <1>14, <1>15 DEF Clean

\* A handler of either end leaves both as they should be.
LEMMA HandleServes ==
  ASSUME ClockOutruns, SInv, NEW e \in Ends, NEW m, NEW d, NEW s, Ran(e, m, d, s), NEW used,
         Handle(e, d, used)
  PROVE  Serving
<1> DEFINE c == conn[e]
           h == Stream(conn[Peer(e)])
<1>1. /\ TypeOK /\ c \in Conn /\ h \in Streams /\ Steady(c) /\ Roles(e) /\ Steady(conn[Peer(e)])
  BY EndFacts, TwoEnds DEF SInv
<1>2. /\ d \in Conn /\ Noting(c, m) /\ Serves(m, d, s, h) /\ Lasts(c, d) /\ s \in Segment
      /\ m.app.closed = c.app.closed \/ NextState(d) \notin Unheard
      /\ s \in net[e] \/ s = Blank
  BY DEF Ran, Flows
<1>3. conn'[e] = Settled(d) /\ conn'[Peer(e)] = conn[Peer(e)]
  BY <1>1, <1>2, HandleResult
<1>4. "SYN" \in s.flags => s.seq > 0
  <2>1. s = Blank => "SYN" \notin s.flags
    BY DEF Blank, Seg
  <2> QED
    BY <1>1, <1>2, <2>1 DEF Roles
<1>5. Steady(conn'[e])
  <2>1. Steady(Settled(d))
    BY <1>1, <1>2, <1>4, ServedSteady
  <2> QED
    BY <1>3, <2>1
<1>6. Steady(conn'[Peer(e)])
  BY <1>1, <1>3
<1>7. Roles(e)' /\ Roles(Peer(e))'
  BY <1>5, RolesHere, RolesThere
<1>8. First => /\ Sound(conn'[e]) /\ Clean(e)'
               /\ Sound(conn'[Peer(e)]) /\ Clean(Peer(e))'
  BY CleanHere, CleanThere
<1>9. Ends = {e, Peer(e)}
  BY TwoEnds
<1>10. \A f \in Ends : Steady(conn'[f]) /\ Roles(f)'
  BY <1>5, <1>6, <1>7, <1>9
<1>11. First => \A f \in Ends : Sound(conn'[f]) /\ Clean(f)'
  BY <1>8, <1>9
<1> QED
  BY <1>10, <1>11 DEF Serving

-----------------------------------------------------------------------------
(* The actions *)

\* What a handler finds.
LEMMA ServiceFacts ==
  ASSUME ClockOutruns, SInv, NEW e \in Ends
  PROVE  /\ DInv /\ TypeOK /\ Flow /\ Steady(conn[e]) /\ Roles(e)
         /\ conn[e] \in Conn /\ ConnInv(conn[e]) /\ Speaks(conn[e])
         /\ Stream(conn[Peer(e)]) \in Streams /\ Listens(conn[e], Stream(conn[Peer(e)]))
         /\ Blank \in Segment /\ conn[e].app \in App /\ IssStep > 0
<1>1. conn[e] \in Conn
  BY EndFacts DEF SInv
<1> QED
  BY <1>1, EndFacts, BlankFacts, ConnectionAssumption DEF SInv, Conn

\* A handler of the connection as it is.
LEMMA EventRan ==
  ASSUME ClockOutruns, SInv, NEW e \in Ends, NEW d, NEW s \in Segment, s \in net[e] \/ s = Blank,
         Serves(conn[e], d, s, Stream(conn[Peer(e)])),
         Flows(conn[e], d, s, Stream(conn[Peer(e)])), Lasts(conn[e], d)
  PROVE  Ran(e, conn[e], d, s)
BY ServiceFacts, NotingNothing DEF Ran

\* send().
LEMMA SendRan ==
  ASSUME ClockOutruns, AllHeed, SInv, NEW e \in Ends, Send(e)
  PROVE  LET d == ProcessSend([conn[e] EXCEPT !.app.wrote = @ + 1])
         IN /\ Ran(e, conn[e], d, Blank) /\ Handle(e, d, {})
            /\ d.app.wrote = conn[e].app.wrote + 1
            /\ ~conn[e].app.closed /\ conn[e].fsm \notin {"TIME_WAIT", "CLOSED"}
            /\ UNCHANGED <<up, opens, faults>>
<1> DEFINE c == conn[e]
           h == Stream(conn[Peer(e)])
           a == [c.app EXCEPT !.wrote = @ + 1]
           n == [c EXCEPT !.app.wrote = @ + 1]
<1>1. /\ c \in Conn /\ ConnInv(c) /\ Speaks(c) /\ h \in Streams /\ Listens(c, h) /\ c.app \in App
      /\ c.app.wrote \in Nat /\ Blank \in Segment
  BY ServiceFacts DEF App
<1>2. /\ c.app.sock \in {"CONNECTED", "CONNECTING", "PEER_CLOSED"} /\ ~c.app.closed
      /\ Handle(e, ProcessSend(n), {}) /\ UNCHANGED <<up, opens, faults>>
  BY DEF Send, Command, HeedsClose, AllHeed
<1> HIDE DEF h, c
<1>3. /\ c.fsm \in Embryonic \cup {"ESTABLISHED", "CLOSE_WAIT"}
      /\ c.fsm = "SYN_RCVD" => c.active
  BY <1>1, <1>2 DEF ConnInv, SocketMatches, SocketFits
<1>4. n = [c EXCEPT !.app = a]
  BY <1>1 DEF Conn, App
<1>5. /\ a \in App /\ a.wrote = c.app.wrote + 1 /\ a.got = c.app.got /\ a.closed = c.app.closed
      /\ a.estab = c.app.estab /\ a.peer_closed = c.app.peer_closed
  BY <1>1 DEF App
<1> HIDE DEF a, n
<1>6. /\ Flows(c, ProcessSend(n), Blank, h) /\ Lasts(c, ProcessSend(n))
      /\ ProcessSend(n).app.wrote = c.app.wrote + 1
  BY <1>1, <1>2, <1>3, <1>4, <1>5, SendFlows
<1>7. Serves(c, ProcessSend(n), Blank, h)
  BY <1>1, <1>2, <1>3, <1>4, <1>5, SendServes
<1>8. Ran(e, c, ProcessSend(n), Blank)
  BY <1>1, <1>6, <1>7, EventRan DEF c, h
<1>9. c.fsm \notin {"TIME_WAIT", "CLOSED"}
  BY <1>3 DEF Embryonic
<1> QED
  BY <1>2, <1>6, <1>8, <1>9 DEF c, n

\* close() before there is a peer ends the connection.
LEMMA CloseEnds ==
  ASSUME NEW n \in Conn, n.fsm \in {"LISTEN", "SYN_SENT"}
  PROVE  NextState(ProcessClose(n)) = "CLOSED" /\ ProcessClose(n).fsm = n.fsm
<1>1. ProcessClose(n) = Raise(n, "CLOSE")
  BY DEF ProcessClose
<1>2. "CLOSE" \in Events
  BY DEF Events
<1>3. Raise(n, "CLOSE") \in Conn /\ Raise(n, "CLOSE").event = "CLOSE" /\ Raise(n, "CLOSE").fsm = n.fsm
  BY <1>2, RaiseTwins DEF Twins
<1> QED
  BY <1>1, <1>3, EndStates

\* send() tells the application nothing, and stays where it is.
LEMMA SendKeeps ==
  ASSUME NEW n \in Conn, n.fsm \in Embryonic \cup {"ESTABLISHED", "CLOSE_WAIT"}, n.event = "IGNORE",
         NEW d, d = ProcessSend(n)
  PROVE  d \in Conn /\ d.app = n.app /\ NextState(d) = n.fsm /\ d.fsm = n.fsm
<1> DEFINE b == [n EXCEPT !.q_end = @ + 1]
<1>1. b \in Conn /\ b.app = n.app /\ b.fsm = n.fsm /\ b.event = n.event
  BY EnqueueFacts DEF Conn
<1> HIDE DEF b
<1>2. SendData(b) \in Conn /\ Kept(b, SendData(b))
  BY <1>1, SendDataWorks DEF Works
<1>3. d = b \/ d = SendData(b)
  BY DEF ProcessSend, b
<1> QED
  BY <1>1, <1>2, <1>3, IgnoreStays DEF Kept

\* So does close(), which leads out of the connection where there is no peer yet, and to the
\* FIN otherwise.
LEMMA CloseKeeps ==
  ASSUME NEW n \in Conn, n.fsm \in {"LISTEN", "SYN_SENT", "ESTABLISHED", "CLOSE_WAIT"},
         n.event = "IGNORE", NEW d, d = ProcessClose(n)
  PROVE  /\ d \in Conn /\ d.app = n.app /\ d.fsm = n.fsm /\ d.event \in {"IGNORE", "CLOSE"}
         /\ n.fsm \in {"LISTEN", "SYN_SENT"} => NextState(d) = "CLOSED"
         /\ n.fsm \in {"ESTABLISHED", "CLOSE_WAIT"} =>
              NextState(d) \in {"ESTABLISHED", "FIN_WAIT_1", "CLOSE_WAIT", "LAST_ACK"}
<1>1. ASSUME NEW e \in Conn
      PROVE  /\ Raise(e, "CLOSE") \in Conn /\ Raise(e, "CLOSE").app = e.app
             /\ Raise(e, "CLOSE").fsm = e.fsm /\ Raise(e, "CLOSE").event = "CLOSE"
  <2>1. "CLOSE" \in Events
    BY DEF Events
  <2> QED
    BY <2>1, RaiseTwins DEF Twins
<1>2. CASE n.fsm \in {"LISTEN", "SYN_SENT"}
  BY <1>1, <1>2, CloseEnds DEF ProcessClose
<1>3. CASE n.fsm \in {"ESTABLISHED", "CLOSE_WAIT"}
  <2> DEFINE b == [n EXCEPT !.send_fin = TRUE, !.snd_fin_seq = n.q_end]
             x == [b EXCEPT !.snd_nxt = n.snd_max]
             f == SendFin(x)
             r == StartRexmitTimer(f)
             next == n.snd_max + 1
             t == [r EXCEPT !.snd_nxt = next, !.snd_max = next]
  <2>1. b \in Conn /\ b.app = n.app /\ b.fsm = n.fsm /\ b.event = "IGNORE"
    BY FinQueued DEF Noted
  <2> HIDE DEF b
  <2>2. x \in Conn /\ x.app = b.app /\ x.fsm = b.fsm
    BY <2>1 DEF Conn
  <2> HIDE DEF x
  <2>3. f \in Conn /\ f.app = x.app /\ f.fsm = x.fsm
    BY <2>2, SendFinWorks DEF Works, Kept
  <2> HIDE DEF f
  <2>4. r \in Conn /\ r.app = f.app /\ r.fsm = f.fsm
    BY <2>3, StartRexmitTimerWorks DEF Kept
  <2> HIDE DEF r
  <2>5. next \in Nat
    BY DEF Conn
  <2> HIDE DEF next
  <2>6. t \in Conn /\ t.app = r.app /\ t.fsm = r.fsm
    BY <2>4, <2>5 DEF Conn
  <2>7. d = Raise(t, "CLOSE") \/ d = b
    BY <1>3 DEF ProcessClose, t, r, f, x, b, next
  <2> HIDE DEF t
  <2>8. d \in Conn /\ d.app = n.app /\ d.fsm = n.fsm /\ d.event \in {"IGNORE", "CLOSE"}
    BY <1>1, <2>1, <2>2, <2>3, <2>4, <2>6, <2>7
  <2>9. d.event = "IGNORE" => NextState(d) = n.fsm
    BY <2>8, IgnoreStays
  <2>10. d.event = "CLOSE" => NextState(d) \in {"FIN_WAIT_1", "LAST_ACK"}
    BY <1>3, <2>8, SMTT(60) DEF NextState, Transitions
  <2> QED
    BY <1>3, <2>8, <2>9, <2>10
<1> QED
  BY <1>2, <1>3

\* In SYN_RCVD the application does not close.
LEMMA CloseLate ==
  ASSUME ClockOutruns, LateClose, AllHeed, SInv, NEW e \in Ends, Close(e)
  PROVE  conn[e].fsm \in {"LISTEN", "SYN_SENT", "ESTABLISHED", "CLOSE_WAIT"}
<1> DEFINE c == conn[e]
<1>1. /\ ConnInv(c) /\ Steady(c) /\ Roles(e)
  BY ServiceFacts
<1>2. /\ e \in Closers \/ (e \in Responders /\ c.app.sock = "PEER_CLOSED")
      /\ EarlyClose \/ c.app.estab > 0
      /\ c.app.sock \in {"CONNECTED", "PEER_CLOSED", "CONNECTING", "LISTENING"} /\ ~c.app.closed
  BY DEF Close, HeedsClose, AllHeed
<1>3. /\ c.active => e \in Active
      /\ c.fsm \in {"LISTEN", "SYN_RCVD"} /\ ~c.active => e \in Passive
      /\ c.fsm = "SYN_RCVD" /\ c.active => Peer(e) \in Active
  BY <1>1 DEF Roles
<1>4. A \in Ends /\ B \in Ends /\ e \in {A, B} /\ Peer(A) = B /\ Peer(B) = A
  BY EndpointsAssumption DEF Ends, Peer
<1> HIDE DEF c
<1>5. c.fsm \in {"LISTEN", "SYN_SENT", "SYN_RCVD", "ESTABLISHED", "CLOSE_WAIT"}
  BY <1>1, <1>2 DEF ConnInv, SocketMatches, SocketFits, Embryonic
<1>6. c.fsm # "SYN_RCVD"
  <2> SUFFICES ASSUME c.fsm = "SYN_RCVD"
               PROVE  FALSE
    OBVIOUS
  <2>1. c.app.estab = 0
    BY <1>1 DEF Steady, Unheard
  <2>2. c.app.sock \in {"CONNECTING", "LISTENING"}
    BY <1>1, <1>2 DEF ConnInv, SocketMatches, SocketFits
  <2>3. EarlyClose /\ e \in Closers
    BY <1>2, <2>1, <2>2
  <2>4. Closers \cap Passive = {} /\ ~(A \in Active /\ B \in Active)
    BY <2>3 DEF LateClose
  <2>5. c.active
    BY <1>3, <2>3, <2>4
  <2>6. e \in Active /\ Peer(e) \in Active
    BY <1>3, <2>5
  <2> QED
    BY <1>4, <2>4, <2>6
<1> QED
  BY <1>5, <1>6 DEF c

\* close().
LEMMA CloseRan ==
  ASSUME ClockOutruns, LateClose, AllHeed, SInv, NEW e \in Ends, Close(e)
  PROVE  \E m, d : /\ Ran(e, m, d, Blank) /\ Handle(e, d, {}) /\ UNCHANGED <<up, opens, faults>>
                   /\ d = ProcessClose(m) /\ m.app.closed /\ m.app.wrote = conn[e].app.wrote
                   /\ ~conn[e].app.closed /\ m.event = "IGNORE"
                   /\ m.fsm \in {"LISTEN", "SYN_SENT", "ESTABLISHED", "CLOSE_WAIT"}
<1> DEFINE c == conn[e]
           h == Stream(conn[Peer(e)])
           sock == IF c.app.sock = "CONNECTED" THEN "LOCALLY_CLOSED" ELSE "CLOSED"
           a == [c.app EXCEPT !.sock = sock, !.closed = TRUE]
           n == [c EXCEPT !.app.sock = sock, !.app.closed = TRUE]
<1>1. /\ c \in Conn /\ ConnInv(c) /\ Speaks(c) /\ h \in Streams /\ Listens(c, h) /\ c.app \in App
      /\ Blank \in Segment
  BY ServiceFacts
<1>2. /\ ~c.app.closed /\ Handle(e, ProcessClose(n), {}) /\ UNCHANGED <<up, opens, faults>>
  BY DEF Close, Command, HeedsClose, AllHeed
<1>3. c.fsm \in {"LISTEN", "SYN_SENT", "ESTABLISHED", "CLOSE_WAIT"}
  BY CloseLate
<1> HIDE DEF h, c
<1>4. sock \in SockStates
  BY DEF SockStates
<1> HIDE DEF sock
<1>5. n = [c EXCEPT !.app = a]
  BY <1>1 DEF Conn, App
<1>6. /\ a \in App /\ a.wrote = c.app.wrote /\ a.got = c.app.got /\ a.closed = TRUE
      /\ a.estab = c.app.estab /\ a.peer_closed = c.app.peer_closed
  BY <1>1, <1>4 DEF App
<1> HIDE DEF a, n
<1>7. Passes(c, ProcessClose(n), Blank, h)
  BY <1>1, <1>2, <1>3, <1>5, <1>6, ClosePasses DEF Embryonic
<1>8. Noting(c, n) /\ n.app = a
  BY <1>1, <1>5, <1>6, NotingApp
<1>9. n \in Conn /\ n = [n EXCEPT !.app = a] /\ n.snd_nxt = c.snd_nxt /\ n.out = c.out
      /\ n.fsm = c.fsm /\ n.event = c.event /\ n.send_fin = c.send_fin
  BY <1>1, <1>5, <1>8 DEF Noting, Conn
<1>10. ConnInv(n) /\ ~n.send_fin /\ n.event = "IGNORE"
  <2>1. ~c.send_fin
    BY <1>1, <1>2 DEF ConnInv, SocketMatches
  <2>2. HandshakeTimed(n) /\ SentIsQueued(n) /\ SocketMatches(n)
    BY <1>1, <1>6, <1>8, <1>9, <2>1
    DEF ConnInv, Noting, HandshakeTimed, SentIsQueued, SentInOrder, SocketMatches
  <2> QED
    BY <1>1, <1>8, <1>9, <2>1, <2>2 DEF ConnInv, Noting
<1>11. Serves(n, ProcessClose(n), Blank, h)
  BY <1>1, <1>3, <1>6, <1>8, <1>9, <1>10, CloseServes
<1>12. NextState(ProcessClose(n)) \notin Unheard
  BY <1>3, <1>9, <1>10, CloseKeeps DEF Unheard
<1>13. Ran(e, n, ProcessClose(n), Blank)
  BY <1>1, <1>3, <1>7, <1>8, <1>11, <1>12 DEF Ran, Passes, c, h
<1>14. n.app.closed /\ n.app.wrote = c.app.wrote
  BY <1>6, <1>8
<1>15. n.fsm \in {"LISTEN", "SYN_SENT", "ESTABLISHED", "CLOSE_WAIT"}
  BY <1>3, <1>9
<1> QED
  BY <1>2, <1>10, <1>13, <1>14, <1>15 DEF c

\* abort(), a timer or a segment: e has run a handler that neither opens nor writes nor closes.
Reacts(e) ==
  \E d, s, used : /\ Ran(e, conn[e], d, s) /\ d.app.wrote = conn[e].app.wrote
                  /\ Handle(e, d, used) /\ UNCHANGED <<up, opens>>

\* What is enough for it.
LEMMA PassesReacts ==
  ASSUME ClockOutruns, SInv, NEW e \in Ends, NEW d, NEW s \in Segment, s \in net[e] \/ s = Blank,
         Serves(conn[e], d, s, Stream(conn[Peer(e)])),
         Passes(conn[e], d, s, Stream(conn[Peer(e)])),
         NEW used, Handle(e, d, used), UNCHANGED <<up, opens>>
  PROVE  Reacts(e)
<1>1. Ran(e, conn[e], d, s)
  BY EventRan DEF Passes
<1> QED
  BY <1>1 DEF Reacts, Passes

\* abort().
LEMMA AbortReacts ==
  ASSUME ClockOutruns, SInv, NEW e \in Ends, Abort(e)
  PROVE  Reacts(e)
<1> DEFINE c == conn[e]
           h == Stream(conn[Peer(e)])
           a == [c.app EXCEPT !.sock = "CLOSED", !.aborted = TRUE]
           n == [c EXCEPT !.app.sock = "CLOSED", !.app.aborted = TRUE]
<1>1. /\ c \in Conn /\ ConnInv(c) /\ Speaks(c) /\ h \in Streams /\ Listens(c, h) /\ c.app \in App
      /\ Blank \in Segment
  BY ServiceFacts
<1>2. Handle(e, ProcessAbort(n), {}) /\ UNCHANGED <<up, opens>>
  BY DEF Abort, Command
<1> HIDE DEF h, c
<1>3. n = [c EXCEPT !.app = a]
  BY <1>1 DEF Conn, App
<1>4. /\ a \in App /\ a.wrote = c.app.wrote /\ a.got = c.app.got /\ a.closed = c.app.closed
      /\ a.estab = c.app.estab /\ a.peer_closed = c.app.peer_closed
  BY <1>1 DEF App, SockStates
<1> HIDE DEF a, n
<1>5. Passes(c, ProcessAbort(n), Blank, h)
  BY <1>1, <1>3, <1>4, AbortPasses
<1>6. Serves(c, ProcessAbort(n), Blank, h)
  BY <1>1, <1>3, <1>4, AbortServes
<1> QED
  BY <1>1, <1>2, <1>5, <1>6, PassesReacts DEF c, h

\* The timers.
LEMMA TimerReacts ==
  ASSUME ClockOutruns, SInv, NEW e \in Ends, TimerStep(e)
  PROVE  Reacts(e)
<1> DEFINE c == conn[e]
           h == Stream(conn[Peer(e)])
<1>1. /\ c \in Conn /\ ConnInv(c) /\ Speaks(c) /\ h \in Streams /\ Listens(c, h)
      /\ Blank \in Segment
  BY ServiceFacts
<1>2. ASSUME NEW timer, NEW d, Expire(e, timer, d), Passes(c, d, Blank, h), Serves(c, d, Blank, h)
      PROVE  Reacts(e)
  <2>1. Handle(e, d, {}) /\ UNCHANGED <<up, opens>>
    BY <1>2 DEF Expire, Command
  <2> QED
    BY <1>1, <1>2, <2>1, PassesReacts
<1> HIDE DEF h
<1>3. CASE SynRexmitTimeout(e)
  <2>1. "synRexmit" \in c.timers /\ Expire(e, "synRexmit", ProcessSynRexmitTimer(c))
    BY <1>3 DEF SynRexmitTimeout, Expire
  <2> QED
    BY <1>1, <1>2, <2>1, SynRexmitPasses, SynRexmitServes
<1>4. CASE ConnEstabTimeout(e)
  <2>1. "connEstab" \in c.timers /\ Expire(e, "connEstab", ProcessConnEstabTimer(c))
    BY <1>4 DEF ConnEstabTimeout, Expire
  <2> QED
    BY <1>1, <1>2, <2>1, ConnEstabPasses, ConnEstabServes
<1>5. CASE RexmitTimeout(e)
  <2>1. "rexmit" \in c.timers /\ Expire(e, "rexmit", ProcessRexmitTimer(c))
    BY <1>5 DEF RexmitTimeout, Expire
  <2> QED
    BY <1>1, <1>2, <2>1, RexmitPasses, RexmitServes
<1>6. CASE TwoMSLTimeout(e)
  <2>1. "2msl" \in c.timers /\ Expire(e, "2msl", Process2MSLTimer(c))
    BY <1>6 DEF TwoMSLTimeout, Expire
  <2> QED
    BY <1>1, <1>2, <2>1, TwoMSLPasses, TwoMSLServes
<1> QED
  BY <1>3, <1>4, <1>5, <1>6 DEF TimerStep

\* Segments.
LEMMA SegmentReacts ==
  ASSUME ClockOutruns, SInv, NEW e \in Ends, NEW s \in net[e], Deliver(e, s) \/ Duplicate(e, s)
  PROVE  Reacts(e)
<1> DEFINE c == conn[e]
           h == Stream(conn[Peer(e)])
           d == ProcessSegment(c, s)
<1>1. /\ c \in Conn /\ ConnInv(c) /\ Speaks(c) /\ h \in Streams /\ Listens(c, h) /\ TypeOK /\ Flow
      /\ h.iss < h.end /\ c.app.wrote + 3 <= IssStep
  BY ServiceFacts, EndFacts DEF SInv
<1>2. s \in Segment /\ Peer(e) \in Ends /\ Peer(Peer(e)) = e
  BY <1>1, TwoEnds DEF TypeOK
<1>3. Running /\ UNCHANGED <<up, opens>> /\ (Handle(e, d, {s}) \/ Handle(e, d, {}))
  BY DEF Deliver, Duplicate
<1>4. Belongs(s, h) /\ Apart(s, h)
  BY <1>1, <1>2, <1>3 DEF Flow
<1> HIDE DEF h
<1>5. Passes(c, d, s, h) /\ Serves(c, d, s, h)
  BY <1>1, <1>2, <1>4, SegmentPasses, SegmentServes
<1> HIDE DEF d
<1> QED
  BY <1>2, <1>3, <1>5, PassesReacts DEF h

\* A new connection.
LEMMA OpenServes ==
  ASSUME ClockOutruns, SInv, NEW e \in Ends, NEW d, Open(e, d), Born(d),
         Flows(conn[e], d, Blank, Stream(conn[Peer(e)])),
         IF d.active THEN e \in Active ELSE e \in Passive
  PROVE  Serving
<1> DEFINE c == conn[e]
           p == conn[Peer(e)]
           q == Settled(d)
<1>1. /\ TypeOK /\ c \in Conn /\ p \in Conn /\ Steady(c) /\ Roles(e) /\ Steady(p) /\ Roles(Peer(e))
      /\ net[e] \subseteq Segment /\ Peer(e) \in Ends /\ Peer(Peer(e)) = e /\ Ends = {e, Peer(e)}
  BY ServiceFacts, TwoEnds DEF TypeOK
<1>2. d \in Conn /\ Widens(Stream(c), Stream(d))
  BY DEF Flows
<1>3. Handle(e, d, {}) /\ c.fsm \in {"INIT", "CLOSED"} /\ opens[e] < MaxOpens
  BY DEF Open, Command
<1>4. /\ conn'[e] = q /\ conn'[Peer(e)] = p /\ net'[e] \subseteq net[e]
      /\ net'[Peer(e)] = net[Peer(e)] \cup d.out
  BY <1>1, <1>2, <1>3, HandleResult
<1>5. /\ q \in Conn /\ q.fsm = NextState(d) /\ q.event = "IGNORE" /\ q.iss = d.iss /\ q.irs = d.irs
      /\ q.failed = d.failed /\ q.app.got = d.app.got /\ q.app.closed = d.app.closed
      /\ q.app.wrote = d.app.wrote
  BY <1>2, SettledHalves DEF SameHalves
<1>6. /\ q.fsm \in {"LISTEN", "SYN_SENT"}
      /\ (q.fsm = "SYN_SENT" <=> d.active)
  BY <1>5 DEF Born
<1>7. /\ q.app.estab = 0 /\ q.app.peer_closed = FALSE /\ q.timers \subseteq d.timers
      /\ q.active = d.active /\ q.snd_una = d.snd_una /\ q.q_begin = d.q_begin
      /\ q.buf = {} /\ ~q.fin_rcvd
  BY <1>2, <1>5, <1>6, SettledService DEF SameQueues, Born
<1> HIDE DEF q
<1>8. q.fsm \notin Past /\ q.fsm \notin Heard /\ q.fsm \notin Synchronized /\ q.fsm \notin FinTaken
  BY <1>6 DEF Past, Heard, Synchronized, FinTaken
<1>9. Steady(q)
  BY <1>5, <1>6, <1>7, <1>8 DEF Born, Steady, Embryonic
<1>10. \A x \in d.out : /\ "SYN" \in x.flags /\ "ACK" \notin x.flags /\ x.seq = d.iss
                        /\ ~Text(x) /\ d.active
  BY DEF Born, Seg, Text
<1>11. Roles(e)'
  <2>1. q.active => e \in Active
    BY <1>7
  <2>2. q.fsm \in {"LISTEN", "SYN_RCVD"} /\ ~q.active => e \in Passive
    BY <1>7
  <2>3. q.fsm # "SYN_RCVD"
    BY <1>6
  <2>4. ASSUME NEW x \in net'[e]
        PROVE  /\ "SYN" \in x.flags => x.seq > 0
               /\ "SYN" \in x.flags /\ "ACK" \notin x.flags => Peer(e) \in Active
               /\ Echo(x) => x.ack <= End(q) + 1 /\ x.ack # q.iss
    <3>1. x \in net[e] /\ x.ack \in Nat
      BY <1>1, <1>4 DEF Segment
    <3>2. Echo(x) => x.ack <= End(c) + 1 /\ x.ack # c.iss
      BY <1>1, <3>1 DEF Roles
    <3>3. Echo(x) => x.ack <= End(d) + 1 /\ x.ack # d.iss
      BY <1>1, <1>2, <3>1, <3>2, EndGrows
    <3>4. End(q) = End(d)
      BY <1>5 DEF End
    <3> QED
      BY <1>1, <1>5, <3>1, <3>3, <3>4 DEF Roles
  <2> QED
    BY <1>4, <2>1, <2>2, <2>3, <2>4 DEF Roles
<1>12. Roles(Peer(e))'
  <2>1. \A x \in net[Peer(e)] :
          /\ "SYN" \in x.flags => x.seq > 0
          /\ "SYN" \in x.flags /\ "ACK" \notin x.flags => Peer(Peer(e)) \in Active
          /\ Echo(x) => x.ack <= End(p) + 1 /\ x.ack # p.iss
    BY <1>1 DEF Roles
  <2>2. \A x \in d.out : x.seq > 0 /\ e \in Active /\ ~Echo(x)
    BY <1>10 DEF Born, Echo
  <2>3. /\ p.active => Peer(e) \in Active
        /\ p.fsm \in {"LISTEN", "SYN_RCVD"} /\ ~p.active => Peer(e) \in Passive
        /\ p.fsm = "SYN_RCVD" /\ p.active => Peer(Peer(e)) \in Active
    BY <1>1 DEF Roles
  <2> HIDE DEF p
  <2> QED
    BY <1>1, <1>4, <2>1, <2>2, <2>3 DEF Roles
<1>13. ASSUME First
       PROVE  Sound(q) /\ Clean(e)' /\ Sound(p) /\ Clean(Peer(e))'
  <2>1. Sound(p) /\ Clean(e) /\ Clean(Peer(e))
    BY <1>1, <1>13 DEF SInv
  <2>2. c.fsm = "INIT"
    <3>1. c.fsm # "INIT" => opens[e] >= 1
      BY <1>13 DEF SInv, DInv, Acks
    <3>2. opens[e] \in Nat /\ MaxOpens \in Nat
      BY <1>1, EndpointsAssumption DEF TypeOK
    <3> QED
      BY <1>3, <1>13, <3>1, <3>2 DEF First
  <2>3. Sound(q)
    <3>1. q.failed = {} /\ "2msl" \notin q.timers
      BY <1>5, <1>7 DEF Born
    <3>2. q.fsm \in Embryonic => q.q_begin = q.iss + 1
      BY <1>5, <1>6, <1>7 DEF Born, Embryonic
    <3> QED
      BY <1>8, <3>1, <3>2 DEF Sound
  <2>4. Idle(q)
    BY <1>5, <1>7, <1>8 DEF Born, Idle
  <2>5. Clean(e)'
    <3>1. Fresh(q, Stream(p))
      BY <2>4, IdleFresh
    <3>2. \A x \in net'[e] : Text(x) => x.seq > p.iss /\ p.fsm \in Past
      BY <1>4, <2>1 DEF Clean
    <3> QED
      BY <1>4, <1>7, <2>4, <3>1, <3>2 DEF Clean
  <2>6. c.fsm \notin Past /\ ~c.app.closed
    BY <1>1, <2>2 DEF Past, Synchronized, Steady, Unheard
  <2>7. Clean(Peer(e))'
    <3>1. Idle(p) /\ (\A x \in net[Peer(e)] : ~Text(x)) /\ ~p.app.peer_closed
      BY <1>1, <2>1, <2>6 DEF Clean
    <3>2. Fresh(p, Stream(q))
      BY <3>1, IdleFresh
    <3> HIDE DEF p
    <3> QED
      BY <1>1, <1>4, <1>10, <3>1, <3>2 DEF Clean
  <2> QED
    BY <2>1, <2>3, <2>5, <2>7
<1> HIDE DEF p
<1>14. \A f \in Ends : Steady(conn'[f]) /\ Roles(f)'
  BY <1>1, <1>4, <1>9, <1>11, <1>12 DEF p
<1>15. First => \A f \in Ends : Sound(conn'[f]) /\ Clean(f)'
  BY <1>1, <1>4, <1>13
<1> QED
  BY <1>14, <1>15 DEF Serving

\* connect() and listen().
LEMMA ConnectServes ==
  ASSUME ClockOutruns, SInv, NEW e \in Ends, Connect(e) \/ Listen(e)
  PROVE  Serving /\ \E d : /\ Born(d) /\ d.app.wrote = 0 /\ Open(e, d)
                           /\ conn[e].iss + IssStep <= d.iss
<1> DEFINE c == conn[e]
           h == Stream(conn[Peer(e)])
<1>1. c \in Conn /\ c.app.wrote + 3 <= IssStep /\ h \in Streams /\ IssStep > 0 /\ Blank \in Segment
  BY ServiceFacts, EndFacts DEF SInv
<1> HIDE DEF h
<1>2. CASE Connect(e)
  <2> DEFINE n == [Reopened(c) EXCEPT !.app.sock = "CONNECTING"]
             d == ProcessOpenActive(n)
  <2>1. "CONNECTING" \in SockStates
    BY DEF SockStates
  <2>2. Newborn(c, n, "CONNECTING") /\ Unborn(n)
    BY <1>1, <2>1, NewConnFacts, NewConnUnborn
  <2>3. Open(e, d) /\ e \in Active
    BY <1>2 DEF Connect, NewConn
  <2>4. d.active
    BY DEF ProcessOpenActive, SelectInitialSeqNum, StartSynRexmitTimer, StartTimer, Raise, SendSyn, Emit
  <2> HIDE DEF n
  <2>5. Flows(c, d, Blank, h) /\ d.app.wrote = 0
    BY <1>1, <2>2, OpenActiveFlows
  <2>6. Born(d) /\ d.iss = n.iss + IssStep
    BY <2>2, OpenActiveBorn
  <2>7. c.iss + IssStep <= d.iss
    <3>1. IssStep \in Nat /\ c.iss \in Nat
      BY <1>1, ConnectionAssumption DEF Conn
    <3> QED
      BY <2>2, <2>6, <3>1 DEF Newborn
  <2> HIDE DEF d
  <2> QED
    BY <2>3, <2>4, <2>5, <2>6, <2>7, OpenServes DEF h
<1>3. CASE Listen(e)
  <2> DEFINE n == [Reopened(c) EXCEPT !.app.sock = "LISTENING"]
             d == ProcessOpenPassive(n)
  <2>1. "LISTENING" \in SockStates
    BY DEF SockStates
  <2>2. Newborn(c, n, "LISTENING") /\ Unborn(n)
    BY <1>1, <2>1, NewConnFacts, NewConnUnborn
  <2>3. Open(e, d) /\ e \in Passive
    BY <1>3 DEF Listen, NewConn
  <2>4. ~d.active
    BY <2>2 DEF ProcessOpenPassive, Raise, Unborn, Conn
  <2> HIDE DEF n
  <2>5. Flows(c, d, Blank, h) /\ d.app.wrote = 0
    BY <1>1, <2>2, OpenPassiveFlows
  <2>6. Born(d) /\ d.iss = n.iss
    BY <2>2, OpenPassiveBorn
  <2>7. c.iss + IssStep <= d.iss
    BY <2>2, <2>6 DEF Newborn, Born, Conn
  <2> HIDE DEF d
  <2> QED
    BY <2>3, <2>4, <2>5, <2>6, <2>7, OpenServes DEF h
<1> QED
  BY <1>2, <1>3

\* What leaves the connections alone and puts nothing on the wire.
LEMMA IdleServes ==
  ASSUME SInv, conn' = conn, \A f \in Ends : net'[f] \subseteq net[f]
  PROVE  Serving
<1>1. ASSUME NEW f \in Ends
      PROVE  Steady(conn'[f]) /\ Roles(f)'
  BY DEF SInv, Roles
<1>2. ASSUME First, NEW f \in Ends
      PROVE  Sound(conn'[f]) /\ Clean(f)'
  BY <1>2 DEF SInv, Clean
<1> QED
  BY <1>1, <1>2 DEF Serving

\* A crash takes the connection back to its beginning.
LEMMA CrashServes ==
  ASSUME ClockOutruns, SInv, NEW e \in Ends, Crash(e)
  PROVE  Serving /\ ~First
<1> DEFINE p == Peer(e)
           c == conn[e]
           q == Reopened(c)
<1>1. net' = net /\ conn' = [conn EXCEPT ![e] = q] /\ crashes < MaxCrash
  BY DEF Crash
<1>2. p \in Ends /\ p # e /\ Peer(p) = e /\ Ends = {e, p}
  BY TwoEnds
<1>3. /\ c \in Conn /\ conn[p] \in Conn /\ Stream(conn[p]) \in Streams /\ TypeOK /\ Roles(e)
      /\ Roles(p) /\ Steady(conn[p]) /\ c.app.wrote + 3 <= IssStep /\ IssStep > 0
  BY <1>2, ServiceFacts, EndFacts DEF SInv
<1>4. q \in Conn /\ Widens(Stream(c), Stream(q)) /\ q.app = FreshApp
  BY <1>3, ReopenedFlows
<1>5. Unborn(q) /\ q.active = FALSE
  BY <1>3, ReopenedUnborn
<1>6. conn'[e] = q /\ conn'[p] = conn[p]
  BY <1>1, <1>2, <1>3 DEF TypeOK
<1> HIDE DEF q
<1>7. q.fsm = "INIT" /\ q.app.estab = 0 /\ ~q.app.closed /\ q.app.got = 0 /\ ~q.app.peer_closed
  BY <1>4, <1>5 DEF Unborn, FreshApp
<1>8. Steady(q)
  BY <1>7 DEF Steady, Unheard, Synchronized, Embryonic, Live, Heard
<1>9. \A s \in net[e] : /\ "SYN" \in s.flags => s.seq > 0
                        /\ "SYN" \in s.flags /\ "ACK" \notin s.flags => Peer(e) \in Active
                        /\ Echo(s) => s.ack <= End(q) + 1 /\ s.ack # q.iss
  <2> SUFFICES ASSUME NEW s \in net[e]
               PROVE  /\ "SYN" \in s.flags => s.seq > 0
                      /\ "SYN" \in s.flags /\ "ACK" \notin s.flags => Peer(e) \in Active
                      /\ Echo(s) => s.ack <= End(q) + 1 /\ s.ack # q.iss
    OBVIOUS
  <2>1. s.ack \in Nat
    BY <1>3 DEF TypeOK, Segment
  <2>2. Echo(s) => s.ack <= End(c) + 1 /\ s.ack # c.iss
    BY <1>3 DEF Roles
  <2>3. Echo(s) => s.ack <= End(q) + 1 /\ s.ack # q.iss
    BY <1>3, <1>4, <2>1, <2>2, EndGrows
  <2> QED
    BY <1>3, <2>3 DEF Roles
<1>10. Roles(e)'
  BY <1>1, <1>5, <1>6, <1>7, <1>9 DEF Roles
<1>11. Roles(p)'
  BY <1>1, <1>2, <1>3, <1>6 DEF Roles
<1>12. \A f \in Ends : Steady(conn'[f]) /\ Roles(f)'
  BY <1>2, <1>3, <1>6, <1>8, <1>10, <1>11
<1>13. ~First
  BY <1>1, <1>3, EndpointsAssumption DEF First, TypeOK
<1> QED
  BY <1>12, <1>13 DEF Serving

-----------------------------------------------------------------------------
(* The inductive invariant *)

\* At first no connection has anything to tell.
LEMMA InitSInv == ClockOutruns /\ Init => SInv
<1> SUFFICES ASSUME ClockOutruns, Init PROVE SInv
  OBVIOUS
<1>1. DInv
  BY InitDInv
<1>2. /\ FreshConn.fsm = "INIT" /\ FreshConn.irs = 0 /\ FreshConn.event = "IGNORE"
      /\ FreshConn.fin_rcvd = FALSE /\ FreshConn.buf = {} /\ FreshConn.active = FALSE
      /\ FreshConn.timers = {} /\ FreshConn.failed = {} /\ FreshConn.app = FreshApp
  BY DEF FreshConn
<1>3. /\ FreshApp.got = 0 /\ FreshApp.closed = FALSE /\ FreshApp.estab = 0
      /\ FreshApp.peer_closed = FALSE
  BY DEF FreshApp
<1>4. \A e \in Ends : conn[e] = FreshConn /\ net[e] = {}
  BY DEF Init
<1>5. Steady(FreshConn)
  BY <1>2, <1>3 DEF Steady, Unheard, Synchronized, Embryonic, Live, Heard
<1>6. Idle(FreshConn)
  BY <1>2, <1>3 DEF Idle, FinTaken
<1>7. Sound(FreshConn)
  BY <1>2 DEF Sound, Embryonic, Synchronized
<1>8. \A e \in Ends : Roles(e)
  BY <1>2, <1>4 DEF Roles
<1>9. \A e \in Ends : Clean(e)
  <2> SUFFICES ASSUME NEW e \in Ends PROVE Clean(e)
    OBVIOUS
  <2>1. Fresh(FreshConn, Stream(conn[Peer(e)]))
    BY <1>6, IdleFresh
  <2> QED
    BY <1>2, <1>3, <1>4, <1>6, <2>1 DEF Clean
<1> QED
  BY <1>1, <1>4, <1>5, <1>7, <1>8, <1>9 DEF SInv

\* Every action serves.
LEMMA StepServes ==
  ASSUME ClockOutruns, LateClose, AllHeed, SInv, NEW e \in Ends,
         UserStep(e) \/ TimerStep(e) \/ NetworkStep(e) \/ NodeStep(e)
  PROVE  Serving
<1>2. Reacts(e) => Serving
  BY HandleServes DEF Reacts
<1>3. CASE Connect(e) \/ Listen(e)
  BY <1>3, ConnectServes
<1>4. CASE Send(e)
  <2>1. \E d : Ran(e, conn[e], d, Blank) /\ Handle(e, d, {})
    BY <1>4, SendRan
  <2> QED
    BY <2>1, HandleServes
<1>5. CASE Close(e)
  <2>1. \E m, d : Ran(e, m, d, Blank) /\ Handle(e, d, {})
    BY <1>5, CloseRan
  <2> QED
    BY <2>1, HandleServes
<1>6. CASE Abort(e) \/ TimerStep(e)
  BY <1>2, <1>6, AbortReacts, TimerReacts
<1>7. CASE NetworkStep(e)
  <2>1. PICK s \in net[e] : Deliver(e, s) \/ Duplicate(e, s) \/ Lose(e, s) \/ Drop(e, s)
    BY <1>7 DEF NetworkStep
  <2>2. CASE Deliver(e, s) \/ Duplicate(e, s)
    BY <1>2, <2>2, SegmentReacts
  <2>3. CASE Lose(e, s) \/ Drop(e, s)
    <3>1. conn' = conn /\ net' = [net EXCEPT ![e] = @ \ {s}]
      BY <2>3 DEF Lose, Drop
    <3>2. \A f \in Ends : net'[f] \subseteq net[f]
      BY <3>1, ServiceFacts DEF TypeOK
    <3> QED
      BY <3>1, <3>2, IdleServes
  <2> QED
    BY <2>1, <2>2, <2>3
<1>8. CASE NodeStep(e)
  <2>1. CASE Crash(e)
    BY <2>1, CrashServes
  <2>2. CASE Restart(e)
    BY <2>2, IdleServes DEF Restart
  <2> QED
    BY <1>8, <2>1, <2>2 DEF NodeStep
<1> QED
  BY <1>3, <1>4, <1>5, <1>6, <1>7, <1>8 DEF UserStep

\* Every step keeps it.
LEMMA NextSInv == ClockOutruns /\ LateClose /\ AllHeed /\ SInv /\ [Next]_vars => SInv'
<1> SUFFICES ASSUME ClockOutruns, LateClose, AllHeed, SInv, [Next]_vars PROVE SInv'
  OBVIOUS
<1>1. DInv'
  BY NextDInv DEF SInv
<1>2. CASE UNCHANGED vars
  <2>1. Serving
    BY <1>2, IdleServes DEF vars
  <2> QED
    BY <1>1, <2>1 DEF SInv, Serving
<1>3. CASE Next
  <2>1. Serving
    BY <1>3, StepServes DEF Next
  <2> QED
    BY <1>1, <2>1 DEF SInv, Serving
<1> QED
  BY <1>2, <1>3

\* The inductive invariant holds throughout.
THEOREM ServiceHolds ==
  ASSUME ClockOutruns, LateClose, AllHeed
  PROVE  Spec => []SInv
<1>1. Init => SInv
  BY InitSInv
<1>2. SInv /\ [Next]_vars => SInv'
  BY NextSInv
<1> QED
  BY <1>1, <1>2, PTL DEF Spec

\* No handler of TCPConnection reaches a throw or an ASSERT in the first connection of two hosts,
\* whatever is lost, repeated or reordered and whenever the timers expire.
THEOREM HandlersDoNotThrow ==
  ASSUME ClockOutruns, LateClose, AllHeed, First
  PROVE  Spec => []NoInternalError
<1>1. SInv => NoInternalError
  BY DEF SInv, Sound, NoInternalError
<1> QED
  BY <1>1, ServiceHolds, PTL

-----------------------------------------------------------------------------
(* The service *)

\* The service has ended here.
Over(c) == c.fsm \in {"TIME_WAIT", "CLOSED"}
\* The application has been told nothing by what turned c into d,
Untold(c, d) ==
  /\ d.app.got = c.app.got /\ d.app.peer_closed = c.app.peer_closed
  /\ (d.app.estab > 0 <=> c.app.estab > 0)
\* and the service has taken no notice of it.
Unseen(c, d) ==
  /\ Untold(c, d) /\ d.app.wrote = c.app.wrote /\ d.app.closed = c.app.closed
  /\ (Over(d) <=> Over(c))

\* A step that shows neither application anything.
LEMMA PipeIdle ==
  ASSUME \A f \in Ends : Unseen(conn[f], conn'[f])
  PROVE  UNCHANGED Service!vars
<1>1. [f \in Ends |-> conn'[f].app.wrote] = [f \in Ends |-> conn[f].app.wrote]
  BY DEF Unseen, Untold, Over
<1>2. [f \in Ends |-> conn'[f].app.closed] = [f \in Ends |-> conn[f].app.closed]
  BY DEF Unseen, Untold, Over
<1>3. [f \in Ends |-> conn'[f].app.estab > 0] = [f \in Ends |-> conn[f].app.estab > 0]
  BY DEF Unseen, Untold, Over
<1>4. [f \in Ends |-> conn'[f].app.got] = [f \in Ends |-> conn[f].app.got]
  BY DEF Unseen, Untold, Over
<1>5. [f \in Ends |-> conn'[f].app.peer_closed] = [f \in Ends |-> conn[f].app.peer_closed]
  BY DEF Unseen, Untold, Over
<1>6. [f \in Ends |-> conn'[f].fsm \in {"TIME_WAIT", "CLOSED"}]
        = [f \in Ends |-> conn[f].fsm \in {"TIME_WAIT", "CLOSED"}]
  BY DEF Unseen, Untold, Over
<1> QED
  BY ONLY <1>1, <1>2, <1>3, <1>4, <1>5, <1>6 DEF Service!vars

\* An application writes one unit, and nothing else is seen.
LEMMA PipeWrite ==
  ASSUME NEW e \in Ends, \A f \in Ends : f # e => conn'[f] = conn[f],
         Untold(conn[e], conn'[e]), conn'[e].app.closed = conn[e].app.closed,
         conn'[e].app.wrote = conn[e].app.wrote + 1,
         ~conn[e].app.closed, ~Over(conn[e]), ~Over(conn'[e])
  PROVE  Service!Write(e)
<1>1. \A f \in Ends : /\ conn'[f].app.closed = conn[f].app.closed
                      /\ conn'[f].app.got = conn[f].app.got
                      /\ conn'[f].app.peer_closed = conn[f].app.peer_closed
                      /\ (conn'[f].app.estab > 0 <=> conn[f].app.estab > 0)
                      /\ (conn'[f].fsm \in {"TIME_WAIT", "CLOSED"}
                            <=> conn[f].fsm \in {"TIME_WAIT", "CLOSED"})
  BY DEF Untold, Over
<1>2. [f \in Ends |-> conn'[f].app.wrote]
        = [[f \in Ends |-> conn[f].app.wrote] EXCEPT
             ![e] = [f \in Ends |-> conn[f].app.wrote][e] + 1]
  OBVIOUS
<1>3. [f \in Ends |-> conn'[f].app.closed] = [f \in Ends |-> conn[f].app.closed]
  BY <1>1
<1>4. [f \in Ends |-> conn'[f].app.estab > 0] = [f \in Ends |-> conn[f].app.estab > 0]
  BY <1>1
<1>5. [f \in Ends |-> conn'[f].app.got] = [f \in Ends |-> conn[f].app.got]
  BY <1>1
<1>6. [f \in Ends |-> conn'[f].app.peer_closed] = [f \in Ends |-> conn[f].app.peer_closed]
  BY <1>1
<1>7. [f \in Ends |-> conn'[f].fsm \in {"TIME_WAIT", "CLOSED"}]
        = [f \in Ends |-> conn[f].fsm \in {"TIME_WAIT", "CLOSED"}]
  BY <1>1
<1>8. /\ ~[f \in Ends |-> conn[f].app.closed][e]
      /\ ~[f \in Ends |-> conn[f].fsm \in {"TIME_WAIT", "CLOSED"}][e]
  BY DEF Over
<1> QED
  BY ONLY <1>2, <1>3, <1>4, <1>5, <1>6, <1>7, <1>8 DEF Service!Write

\* An application closes; where there is no connection yet, that may be the end of it.
LEMMA PipeShut ==
  ASSUME NEW e \in Ends, \A f \in Ends : f # e => conn'[f] = conn[f],
         Untold(conn[e], conn'[e]), conn'[e].app.wrote = conn[e].app.wrote,
         ~conn[e].app.closed, conn'[e].app.closed = TRUE, ~Over(conn[e]),
         Over(conn'[e]) => ~(conn[e].app.estab > 0)
  PROVE  Service!Shut(e)
<1> DEFINE ov == [f \in Ends |-> conn[f].fsm \in {"TIME_WAIT", "CLOSED"}]
           ov1 == [f \in Ends |-> conn'[f].fsm \in {"TIME_WAIT", "CLOSED"}]
           op == [f \in Ends |-> conn[f].app.estab > 0]
<1>1. \A f \in Ends : /\ conn'[f].app.wrote = conn[f].app.wrote
                      /\ conn'[f].app.got = conn[f].app.got
                      /\ conn'[f].app.peer_closed = conn[f].app.peer_closed
                      /\ (conn'[f].app.estab > 0 <=> conn[f].app.estab > 0)
  BY DEF Untold
<1>2. [f \in Ends |-> conn'[f].app.closed]
        = [[f \in Ends |-> conn[f].app.closed] EXCEPT ![e] = TRUE]
  OBVIOUS
<1>3. [f \in Ends |-> conn'[f].app.wrote] = [f \in Ends |-> conn[f].app.wrote]
  BY <1>1
<1>4. [f \in Ends |-> conn'[f].app.estab > 0] = [f \in Ends |-> conn[f].app.estab > 0]
  BY <1>1
<1>5. [f \in Ends |-> conn'[f].app.got] = [f \in Ends |-> conn[f].app.got]
  BY <1>1
<1>6. [f \in Ends |-> conn'[f].app.peer_closed] = [f \in Ends |-> conn[f].app.peer_closed]
  BY <1>1
<1>7. ov1 \in {ov, [ov EXCEPT ![e] = ~op[e]]}
  <2>1. CASE Over(conn'[e])
    <3>1. ov1 = [ov EXCEPT ![e] = ~op[e]]
      BY <2>1 DEF Over
    <3> QED
      BY <3>1
  <2>2. CASE ~Over(conn'[e])
    <3>1. ov1 = ov
      BY <2>2 DEF Over
    <3> QED
      BY <3>1
  <2> QED
    BY <2>1, <2>2
<1>8. ~[f \in Ends |-> conn[f].app.closed][e] /\ ~ov[e]
  BY DEF Over
<1> HIDE DEF ov, ov1, op
<1>9. /\ ~[f \in Ends |-> conn[f].app.closed][e] /\ ~ov[e]
      /\ [f \in Ends |-> conn'[f].app.closed]
           = [[f \in Ends |-> conn[f].app.closed] EXCEPT ![e] = TRUE]
      /\ ov1 \in {ov, [ov EXCEPT ![e] = ~op[e]]}
  BY ONLY <1>2, <1>7, <1>8
<1> QED
  BY ONLY <1>3, <1>4, <1>5, <1>6, <1>9 DEF Service!Shut, ov, ov1, op

\* What an application may be told.
Tellable(c, d, p) ==
  /\ d.app.wrote = c.app.wrote /\ d.app.closed = c.app.closed
  /\ c.app.got \in Nat /\ d.app.got \in Nat /\ p.app.wrote \in Nat
  /\ c.app.got <= d.app.got /\ d.app.got <= p.app.wrote
  /\ d.app.peer_closed \in BOOLEAN
  /\ c.app.estab > 0 => d.app.estab > 0
  /\ c.app.peer_closed => d.app.peer_closed
  /\ c.app.got < d.app.got \/ (d.app.peer_closed /\ ~c.app.peer_closed) =>
       d.app.estab > 0 /\ ~c.app.peer_closed
  /\ d.app.peer_closed => d.app.got = p.app.wrote /\ p.app.closed

\* It is told just that.
LEMMA PipeTell ==
  ASSUME NEW e \in Ends, \A f \in Ends : f # e => conn'[f] = conn[f], ~Over(conn[e]),
         Peer(e) \in Ends, Tellable(conn[e], conn'[e], conn[Peer(e)])
  PROVE  Service!Tell(e)
<1> DEFINE wr == [f \in Ends |-> conn[f].app.wrote]
           cl == [f \in Ends |-> conn[f].app.closed]
           op == [f \in Ends |-> conn[f].app.estab > 0]
           gt == [f \in Ends |-> conn[f].app.got]
           ef == [f \in Ends |-> conn[f].app.peer_closed]
           ov == [f \in Ends |-> conn[f].fsm \in {"TIME_WAIT", "CLOSED"}]
           wr1 == [f \in Ends |-> conn'[f].app.wrote]
           cl1 == [f \in Ends |-> conn'[f].app.closed]
           op1 == [f \in Ends |-> conn'[f].app.estab > 0]
           gt1 == [f \in Ends |-> conn'[f].app.got]
           ef1 == [f \in Ends |-> conn'[f].app.peer_closed]
           ov1 == [f \in Ends |-> conn'[f].fsm \in {"TIME_WAIT", "CLOSED"}]
           now == conn'[e].app.estab > 0
           end == conn'[e].app.peer_closed
           last == conn'[e].fsm \in {"TIME_WAIT", "CLOSED"}
           n == conn'[e].app.got
<1>1. wr1 = wr /\ cl1 = cl
  BY DEF Tellable
<1>2. op1 = [op EXCEPT ![e] = now]
  OBVIOUS
<1>3. gt1 = [gt EXCEPT ![e] = n]
  OBVIOUS
<1>4. ef1 = [ef EXCEPT ![e] = end]
  OBVIOUS
<1>5. ov1 = [ov EXCEPT ![e] = last]
  OBVIOUS
<1>6. Service!Peer(e) = Peer(e)
  BY DEF Service!Peer, Peer
<1>7. n \in gt[e] .. wr[Service!Peer(e)]
  BY <1>6 DEF Tellable
<1>8. /\ ~ov[e] /\ (op[e] => now) /\ (ef[e] => end)
      /\ (n > gt[e] \/ (end /\ ~ef[e]) => now /\ ~ef[e])
      /\ (end => n = wr[Service!Peer(e)] /\ cl[Service!Peer(e)])
  BY <1>6 DEF Tellable, Over
<1>9. now \in BOOLEAN /\ end \in BOOLEAN /\ last \in BOOLEAN
  BY DEF Tellable
<1> HIDE DEF wr, cl, op, gt, ef, ov, wr1, cl1, op1, gt1, ef1, ov1, now, end, last, n
<1>10. \E u, d, l \in BOOLEAN, m \in gt[e] .. wr[Service!Peer(e)] :
         /\ op[e] => u
         /\ ef[e] => d
         /\ m > gt[e] \/ (d /\ ~ef[e]) => u /\ ~ef[e]
         /\ d => m = wr[Service!Peer(e)] /\ cl[Service!Peer(e)]
         /\ op1 = [op EXCEPT ![e] = u]
         /\ gt1 = [gt EXCEPT ![e] = m]
         /\ ef1 = [ef EXCEPT ![e] = d]
         /\ ov1 = [ov EXCEPT ![e] = l]
  <2>. now \in BOOLEAN /\ end \in BOOLEAN /\ last \in BOOLEAN /\ n \in gt[e] .. wr[Service!Peer(e)]
    BY <1>7, <1>9
  <2> WITNESS now \in BOOLEAN, end \in BOOLEAN, last \in BOOLEAN, n \in gt[e] .. wr[Service!Peer(e)]
  <2> QED
    BY ONLY <1>2, <1>3, <1>4, <1>5, <1>8
<1>11. ~ov[e] /\ wr1 = wr /\ cl1 = cl
  BY ONLY <1>1, <1>8
<1> QED
  BY ONLY <1>10, <1>11 DEF Service!Tell, wr, cl, op, gt, ef, ov, wr1, cl1, op1, gt1, ef1, ov1

\* The state machine on its own tells the application no more than that the peer has closed.
LEMMA SettledTells ==
  ASSUME NEW d \in Conn, NEW q, q = Settled(d)
  PROVE  /\ q \in Conn /\ q.fsm = NextState(d)
         /\ q.app.wrote = d.app.wrote /\ q.app.closed = d.app.closed /\ q.app.got = d.app.got
         /\ q.app.estab = d.app.estab
         /\ q.app.peer_closed = (d.app.peer_closed \/ (Leaves(d) /\ NextState(d) = "CLOSE_WAIT"))
BY SettledHalves, SettledService DEF SameHalves

\* A connection that is over stays so.
LEMMA OverStays ==
  ASSUME NEW d \in Conn, Over(d)
  PROVE  NextState(d) \in {"TIME_WAIT", "CLOSED"}
BY SMTT(60) DEF Over, NextState, Transitions, Conn, States

\* A handler that neither writes nor closes tells the application what it may be told.
LEMMA ReactsTell ==
  ASSUME ClockOutruns, SInv, SInv', First, NEW e \in Ends, Reacts(e)
  PROVE  Service!Tell(e) \/ UNCHANGED Service!vars
<1> DEFINE c == conn[e]
           p == conn[Peer(e)]
           h == Stream(p)
<1>1. PICK d, s, used : /\ Ran(e, c, d, s) /\ d.app.wrote = c.app.wrote
                        /\ Handle(e, d, used)
  BY DEF Reacts
<1> DEFINE q == Settled(d)
<1>2. /\ TypeOK /\ c \in Conn /\ p \in Conn /\ Steady(c) /\ Listens(c, h)
      /\ Peer(e) \in Ends /\ Peer(Peer(e)) = e /\ Ends = {e, Peer(e)} /\ Peer(e) # e
  BY ServiceFacts, TwoEnds DEF TypeOK
<1>3. /\ d \in Conn /\ Lasts(c, d) /\ d.fsm = c.fsm /\ Tidings(c, d)
  BY <1>1 DEF Ran, Flows, Serves
<1>4. conn'[e] = q /\ conn'[Peer(e)] = p /\ \A f \in Ends : f # e => conn'[f] = conn[f]
  BY <1>1, <1>2, <1>3, HandleResult
<1>5. /\ q \in Conn /\ q.fsm = NextState(d) /\ q.app.wrote = c.app.wrote
      /\ q.app.closed = c.app.closed /\ q.app.got = d.app.got /\ q.app.estab = d.app.estab
      /\ q.app.peer_closed = (c.app.peer_closed \/ (Leaves(d) /\ NextState(d) = "CLOSE_WAIT"))
  BY <1>1, <1>3, SettledTells DEF Tidings
<1>6. Steady(q) /\ Listens(q, h) /\ Fresh(q, h)
      /\ (q.app.peer_closed => q.app.got = p.app.wrote /\ p.app.closed)
  <2>1. Steady(conn'[e]) /\ Listens(conn'[e], Stream(conn'[Peer(e)]))
    BY DEF SInv, DInv, Flow
  <2>2. Clean(e)'
    BY DEF SInv
  <2> HIDE DEF p, q
  <2>3. /\ Fresh(q, Stream(p))
        /\ (q.app.peer_closed => q.app.got = p.app.wrote /\ p.app.closed)
    BY <1>4, <2>2 DEF Clean
  <2> QED
    BY <1>4, <2>1, <2>3
<1> HIDE DEF q
<1>7. /\ c.app.got \in Nat /\ c.app.estab \in Nat /\ d.app.got \in Nat /\ d.app.estab \in Nat
      /\ p.app.wrote \in Nat /\ q.app.peer_closed \in BOOLEAN /\ c.app.peer_closed \in BOOLEAN
      /\ c.fsm \in States /\ p.iss \in Nat
  BY <1>2, <1>3, <1>5 DEF Conn, App
<1>8. CASE Over(c)
  <2>1. c.fsm \notin Embryonic /\ c.fsm \notin DataStates
    BY <1>8 DEF Over, Embryonic, DataStates
  <2>2. NextState(d) \in {"TIME_WAIT", "CLOSED"}
    BY <1>3, <1>8, OverStays DEF Over
  <2>3. d.app.estab = c.app.estab /\ d.app.got = c.app.got
    BY <1>3, <2>1 DEF Tidings
  <2>4. Over(q) /\ q.app.peer_closed = c.app.peer_closed
    BY <1>5, <1>7, <2>2 DEF Over
  <2>5. Unseen(c, q)
    BY <1>5, <1>8, <2>3, <2>4 DEF Unseen, Untold
  <2>6. Unseen(p, p)
    BY DEF Unseen, Untold
  <2>7. \A f \in Ends : Unseen(conn[f], conn'[f])
    BY <1>2, <1>4, <2>5, <2>6
  <2> QED
    BY <2>7, PipeIdle
<1>9. CASE ~Over(c)
  <2>1. c.app.got <= d.app.got
    <3>1. c.fsm \in Unheard => c.app.got = 0
      BY <1>2 DEF Listens
    <3>2. c.fsm \in Synchronized => c.app.got <= d.app.got
      BY <1>3 DEF Lasts
    <3>3. c.fsm \in Unheard \cup Synchronized
      BY <1>7, <1>9 DEF Over, Unheard, Synchronized, States
    <3> QED
      BY <1>7, <3>1, <3>2, <3>3
  <2>2. q.app.got <= p.app.wrote
    <3>1. CASE q.irs # p.iss
      <4>1. q.app.got = 0
        BY <1>6, <3>1 DEF Fresh, Stream
      <4> QED
        BY <1>7, <4>1
    <3>2. CASE q.irs = 0
      <4>1. q.app.got = 0
        BY <1>6, <3>2 DEF Steady
      <4> QED
        BY <1>7, <4>1
    <3>3. CASE q.irs # 0 /\ q.irs = p.iss
      <4>1. q.app.got <= h.end - h.iss - 1
        BY <1>6, <3>3 DEF Listens, Stream
      <4>2. h.end - h.iss - 1 = p.app.wrote
        BY <1>7 DEF Stream, End
      <4> QED
        BY <4>1, <4>2
    <3> QED
      BY <3>1, <3>2, <3>3
  <2>3. c.app.estab > 0 => q.app.estab > 0
    BY <1>3, <1>5, <1>7 DEF Tidings
  <2>4. c.app.peer_closed => q.app.peer_closed
    BY <1>5
  <2>5. d.app.got # c.app.got => q.app.estab > 0 /\ ~c.app.peer_closed
    <3> SUFFICES ASSUME d.app.got # c.app.got
                 PROVE  q.app.estab > 0 /\ ~c.app.peer_closed
      OBVIOUS
    <3>1. c.fsm \in DataStates /\ (c.fsm \in Synchronized \/ NextState(d) \in Synchronized)
      BY <1>3 DEF Tidings
    <3>2. ~c.app.peer_closed
      BY <1>2, <3>1 DEF Steady, DataStates
    <3>3. c.fsm \in Synchronized => c.app.estab = 1
      BY <1>2 DEF Steady
    <3>4. NextState(d) \in Synchronized => q.app.estab = 1
      BY <1>5, <1>6 DEF Steady
    <3> QED
      BY <2>3, <3>1, <3>2, <3>3, <3>4
  <2>6. q.app.peer_closed /\ ~c.app.peer_closed => q.app.estab > 0
    <3> SUFFICES ASSUME q.app.peer_closed, ~c.app.peer_closed
                 PROVE  q.app.estab > 0
      OBVIOUS
    <3>1. q.fsm = "CLOSE_WAIT"
      BY <1>5
    <3>2. "CLOSE_WAIT" \in Synchronized
      BY DEF Synchronized, States
    <3>3. q.app.estab = 1
      BY <1>6, <3>1, <3>2 DEF Steady
    <3> QED
      BY <3>1, <3>3
  <2>7. Tellable(c, q, p)
    BY <1>5, <1>6, <1>7, <2>1, <2>2, <2>3, <2>4, <2>5, <2>6 DEF Tellable
  <2> QED
    BY <1>2, <1>4, <1>9, <2>7, PipeTell
<1> QED
  BY <1>8, <1>9

\* send() writes.
LEMMA SendWrites ==
  ASSUME ClockOutruns, AllHeed, SInv, NEW e \in Ends, Send(e)
  PROVE  Service!Write(e)
<1> DEFINE c == conn[e]
           n == [c EXCEPT !.app.wrote = @ + 1]
           a == [c.app EXCEPT !.wrote = @ + 1]
           d == ProcessSend(n)
           q == Settled(d)
<1>1. /\ Handle(e, d, {}) /\ d.app.wrote = c.app.wrote + 1
      /\ ~c.app.closed /\ c.fsm \notin {"TIME_WAIT", "CLOSED"}
      /\ c.app.sock \in {"CONNECTED", "CONNECTING", "PEER_CLOSED"}
  BY SendRan DEF Send
<1>2. /\ TypeOK /\ c \in Conn /\ c.app \in App /\ ConnInv(c) /\ Ends = {e, Peer(e)}
  BY ServiceFacts, TwoEnds
<1>3. c.fsm \in Embryonic \cup {"ESTABLISHED", "CLOSE_WAIT"} /\ c.event = "IGNORE"
  BY <1>1, <1>2 DEF ConnInv, SocketMatches, SocketFits
<1>4. n = [c EXCEPT !.app = a] /\ a \in App
  BY <1>2 DEF Conn, App
<1>5. /\ a.closed = c.app.closed /\ a.got = c.app.got
      /\ a.estab = c.app.estab /\ a.peer_closed = c.app.peer_closed
  BY <1>2 DEF App
<1> HIDE DEF a, n
<1>6. n \in Conn /\ n.app = a /\ n.fsm = c.fsm /\ n.event = c.event
  BY <1>2, <1>4 DEF Conn
<1>7. d \in Conn /\ d.app = a /\ NextState(d) = c.fsm /\ d.fsm = c.fsm
  BY <1>3, <1>6, SendKeeps
<1> HIDE DEF d
<1>8. conn'[e] = q /\ \A f \in Ends : f # e => conn'[f] = conn[f]
  BY <1>1, <1>2, <1>7, HandleResult
<1>9. /\ q.fsm = c.fsm /\ q.app.wrote = c.app.wrote + 1 /\ q.app.closed = c.app.closed
      /\ Untold(c, q)
  <2>1. ~Leaves(d)
    BY <1>7 DEF Leaves
  <2>2. /\ q.fsm = NextState(d) /\ q.app.wrote = d.app.wrote /\ q.app.closed = d.app.closed
        /\ q.app.got = d.app.got /\ q.app.estab = d.app.estab
        /\ q.app.peer_closed = (d.app.peer_closed \/ (Leaves(d) /\ NextState(d) = "CLOSE_WAIT"))
    BY <1>7, SettledTells
  <2>3. c.app.peer_closed \in BOOLEAN
    BY <1>2 DEF App
  <2> HIDE DEF q
  <2> QED
    BY <1>1, <1>5, <1>7, <2>1, <2>2, <2>3 DEF Untold
<1> HIDE DEF q
<1> QED
  BY <1>1, <1>8, <1>9, PipeWrite DEF Over

\* close() shuts.
LEMMA CloseShuts ==
  ASSUME ClockOutruns, LateClose, AllHeed, SInv, NEW e \in Ends, Close(e)
  PROVE  Service!Shut(e)
<1> DEFINE c == conn[e]
<1>1. PICK m, d : /\ Ran(e, m, d, Blank) /\ Handle(e, d, {})
                  /\ d = ProcessClose(m) /\ m.app.closed /\ m.app.wrote = c.app.wrote
                  /\ ~c.app.closed /\ m.event = "IGNORE"
                  /\ m.fsm \in {"LISTEN", "SYN_SENT", "ESTABLISHED", "CLOSE_WAIT"}
  BY CloseRan
<1> DEFINE q == Settled(d)
<1>2. TypeOK /\ c \in Conn /\ Steady(c) /\ Ends = {e, Peer(e)}
  BY ServiceFacts, TwoEnds
<1>3. /\ m \in Conn /\ m.fsm = c.fsm /\ m.app.got = c.app.got /\ m.app.estab = c.app.estab
      /\ m.app.peer_closed = c.app.peer_closed
  BY <1>1 DEF Ran, Noting
<1>4. /\ d \in Conn /\ d.app = m.app /\ d.fsm = m.fsm /\ d.event \in {"IGNORE", "CLOSE"}
      /\ m.fsm \in {"LISTEN", "SYN_SENT"} => NextState(d) = "CLOSED"
      /\ m.fsm \in {"ESTABLISHED", "CLOSE_WAIT"} =>
           NextState(d) \in {"ESTABLISHED", "FIN_WAIT_1", "CLOSE_WAIT", "LAST_ACK"}
  BY <1>1, <1>3, CloseKeeps
<1>5. ~(Leaves(d) /\ NextState(d) = "CLOSE_WAIT")
  <2>1. d.event = "IGNORE" => NextState(d) = d.fsm
    BY <1>4, IgnoreStays
  <2>2. d.event = "CLOSE" /\ d.fsm \in {"ESTABLISHED", "CLOSE_WAIT"} =>
          NextState(d) \in {"FIN_WAIT_1", "LAST_ACK"}
    BY <1>4, SMTT(60) DEF NextState, Transitions
  <2> QED
    BY <1>1, <1>4, <2>1, <2>2 DEF Leaves
<1>6. conn'[e] = q /\ \A f \in Ends : f # e => conn'[f] = conn[f]
  BY <1>1, <1>2, <1>4, HandleResult
<1>7. /\ q.fsm = NextState(d) /\ q.app.wrote = c.app.wrote /\ q.app.closed = TRUE
      /\ Untold(c, q)
  <2>1. /\ q.fsm = NextState(d) /\ q.app.wrote = d.app.wrote /\ q.app.closed = d.app.closed
        /\ q.app.got = d.app.got /\ q.app.estab = d.app.estab
        /\ q.app.peer_closed = (d.app.peer_closed \/ (Leaves(d) /\ NextState(d) = "CLOSE_WAIT"))
    BY <1>4, SettledTells
  <2>2. c.app.peer_closed \in BOOLEAN /\ m.app.closed = TRUE
    BY <1>1, <1>2, <1>3 DEF Conn, App
  <2> HIDE DEF q
  <2> QED
    BY <1>1, <1>3, <1>4, <1>5, <2>1, <2>2 DEF Untold
<1> HIDE DEF q
<1>8. ~Over(c)
  BY <1>1, <1>3 DEF Over
<1>9. Over(q) => ~(c.app.estab > 0)
  <2>1. Over(q) => m.fsm \in {"LISTEN", "SYN_SENT"}
    BY <1>1, <1>4, <1>7 DEF Over
  <2>2. m.fsm \in {"LISTEN", "SYN_SENT"} => c.app.estab = 0
    BY <1>2, <1>3 DEF Steady, Unheard
  <2> QED
    BY <2>1, <2>2
<1> QED
  BY <1>1, <1>6, <1>7, <1>8, <1>9, PipeShut

\* connect() and listen() are not part of the service.
LEMMA ConnectUnseen ==
  ASSUME ClockOutruns, SInv, First, NEW e \in Ends, Connect(e) \/ Listen(e)
  PROVE  UNCHANGED Service!vars
<1> DEFINE c == conn[e]
<1>1. PICK d : Born(d) /\ d.app.wrote = 0 /\ Open(e, d)
  BY ConnectServes
<1> DEFINE q == Settled(d)
<1>2. /\ TypeOK /\ c \in Conn /\ Steady(c) /\ Speaks(c) /\ Ends = {e, Peer(e)}
      /\ Listens(c, Stream(conn[Peer(e)]))
  BY ServiceFacts, TwoEnds
<1>3. c.fsm = "INIT"
  <2>1. c.fsm \in {"INIT", "CLOSED"} /\ opens[e] < MaxOpens
    BY <1>1 DEF Open
  <2>2. c.fsm # "INIT" => opens[e] >= 1
    BY DEF SInv, DInv, Acks
  <2>3. opens[e] \in Nat /\ MaxOpens \in Nat
    BY <1>2, EndpointsAssumption DEF TypeOK
  <2> QED
    BY <2>1, <2>2, <2>3 DEF First
<1>4. /\ c.app.wrote = 0 /\ ~c.app.closed /\ c.app.got = 0 /\ c.app.estab = 0
      /\ ~c.app.peer_closed
  BY <1>2, <1>3 DEF Steady, Speaks, Listens, Unheard
<1>5. /\ d \in Conn /\ d.app.got = 0 /\ d.app.estab = 0 /\ ~d.app.closed /\ ~d.app.peer_closed
      /\ NextState(d) \in {"SYN_SENT", "LISTEN"}
  BY <1>1 DEF Born
<1>6. conn'[e] = q /\ \A f \in Ends : f # e => conn'[f] = conn[f]
  BY <1>1, <1>2, <1>5, HandleResult DEF Open, Command
<1>7. /\ q.fsm = NextState(d) /\ q.app.wrote = d.app.wrote /\ q.app.closed = d.app.closed
      /\ q.app.got = d.app.got /\ q.app.estab = d.app.estab
      /\ q.app.peer_closed = (d.app.peer_closed \/ (Leaves(d) /\ NextState(d) = "CLOSE_WAIT"))
  BY <1>5, SettledTells
<1> HIDE DEF q
<1>8. c.app.closed = FALSE /\ c.app.peer_closed = FALSE /\ d.app.closed = FALSE
      /\ d.app.peer_closed = FALSE
  BY <1>2, <1>4, <1>5 DEF Conn, App
<1>9. Unseen(c, q)
  BY <1>1, <1>3, <1>4, <1>5, <1>7, <1>8 DEF Unseen, Untold, Over
<1>10. \A f \in Ends : Unseen(conn[f], conn'[f])
  BY <1>6, <1>9 DEF Unseen, Untold
<1> QED
  BY <1>10, PipeIdle

\* Every step is a step of the pipe, or none of its business.
LEMMA StepImplements ==
  ASSUME ClockOutruns, LateClose, AllHeed, First, SInv, SInv', NEW e \in Ends,
         UserStep(e) \/ TimerStep(e) \/ NetworkStep(e) \/ NodeStep(e)
  PROVE  Service!Write(e) \/ Service!Shut(e) \/ Service!Tell(e) \/ UNCHANGED Service!vars
<1>1. conn' = conn => UNCHANGED Service!vars
  BY PipeIdle DEF Unseen, Untold
<1>2. Reacts(e) => Service!Tell(e) \/ UNCHANGED Service!vars
  BY ReactsTell
<1>3. CASE Connect(e) \/ Listen(e)
  BY <1>3, ConnectUnseen
<1>4. CASE Send(e)
  BY <1>4, SendWrites
<1>5. CASE Close(e)
  BY <1>5, CloseShuts
<1>6. CASE Abort(e) \/ TimerStep(e)
  BY <1>2, <1>6, AbortReacts, TimerReacts
<1>7. CASE NetworkStep(e)
  <2>1. PICK s \in net[e] : Deliver(e, s) \/ Duplicate(e, s) \/ Lose(e, s) \/ Drop(e, s)
    BY <1>7 DEF NetworkStep
  <2>2. CASE Deliver(e, s) \/ Duplicate(e, s)
    BY <1>2, <2>2, SegmentReacts
  <2>3. CASE Lose(e, s) \/ Drop(e, s)
    BY <1>1, <2>3 DEF Lose, Drop
  <2> QED
    BY <2>1, <2>2, <2>3
<1>8. CASE NodeStep(e)
  <2>1. ~Crash(e)
    BY CrashServes
  <2> QED
    BY <1>1, <1>8, <2>1 DEF NodeStep, Restart
<1> QED
  BY <1>3, <1>4, <1>5, <1>6, <1>7, <1>8 DEF UserStep

\* At first the pipe is empty.
LEMMA InitImplements == Init => Service!Init
<1> SUFFICES ASSUME Init PROVE Service!Init
  OBVIOUS
<1>1. /\ FreshConn.fsm = "INIT" /\ FreshConn.app = FreshApp
  BY DEF FreshConn
<1>2. /\ FreshApp.wrote = 0 /\ FreshApp.closed = FALSE /\ FreshApp.estab = 0 /\ FreshApp.got = 0
      /\ FreshApp.peer_closed = FALSE
  BY DEF FreshApp
<1>3. Service!Ends = Ends
  BY DEF Service!Ends, Ends
<1>4. \A f \in Ends : /\ conn[f].app.wrote = 0 /\ conn[f].app.closed = FALSE
                      /\ ~(conn[f].app.estab > 0) /\ conn[f].app.got = 0
                      /\ conn[f].app.peer_closed = FALSE
                      /\ conn[f].fsm \notin {"TIME_WAIT", "CLOSED"}
  <2>1. \A f \in Ends : conn[f] = FreshConn
    BY DEF Init
  <2>2. ~(FreshApp.estab > 0)
    BY <1>2
  <2> QED
    BY <1>1, <1>2, <2>1, <2>2
<1>5. [f \in Ends |-> conn[f].app.wrote] = [f \in Ends |-> 0]
  BY <1>4
<1>6. [f \in Ends |-> conn[f].app.closed] = [f \in Ends |-> FALSE]
  BY <1>4
<1>7. [f \in Ends |-> conn[f].app.estab > 0] = [f \in Ends |-> FALSE]
  <2>1. \A f \in Ends : (conn[f].app.estab > 0) = FALSE
    BY <1>4
  <2> QED
    BY <2>1
<1>8. [f \in Ends |-> conn[f].app.got] = [f \in Ends |-> 0]
  BY <1>4
<1>9. [f \in Ends |-> conn[f].app.peer_closed] = [f \in Ends |-> FALSE]
  BY <1>4
<1>10. [f \in Ends |-> conn[f].fsm \in {"TIME_WAIT", "CLOSED"}] = [f \in Ends |-> FALSE]
  <2>1. \A f \in Ends : (conn[f].fsm \in {"TIME_WAIT", "CLOSED"}) = FALSE
    BY <1>4
  <2> QED
    BY <2>1
<1> QED
  BY ONLY <1>3, <1>5, <1>6, <1>7, <1>8, <1>9, <1>10 DEF Service!Init

\* Each step of the two hosts and the network is a step of the byte pipe of TCPService, or none
\* of its business.
THEOREM HandlersImplementPipe ==
  ASSUME ClockOutruns, LateClose, AllHeed, First
  PROVE  Spec => ImplementsService
<1>1. SInv /\ SInv' /\ [Next]_vars => [Service!Next]_(Service!vars)
  <2> SUFFICES ASSUME SInv, SInv', [Next]_vars
               PROVE  Service!Next \/ UNCHANGED Service!vars
    OBVIOUS
  <2>1. CASE Next
    <3>1. PICK e \in Ends : UserStep(e) \/ TimerStep(e) \/ NetworkStep(e) \/ NodeStep(e)
      BY <2>1 DEF Next
    <3>2. Service!Write(e) \/ Service!Shut(e) \/ Service!Tell(e) \/ UNCHANGED Service!vars
      BY <3>1, StepImplements
    <3>3. e \in Service!Ends
      BY DEF Service!Ends, Ends
    <3> QED
      BY <3>2, <3>3 DEF Service!Next
  <2>2. CASE UNCHANGED vars
    <3>1. UNCHANGED Service!vars
      BY <2>2, PipeIdle DEF vars, Unseen, Untold
    <3> QED
      BY <3>1
  <2> QED
    BY <2>1, <2>2
<1>2. Spec => []SInv
  BY ServiceHolds
<1> QED
  BY <1>1, <1>2, InitImplements, PTL DEF Spec, ImplementsService, Service!Spec

-----------------------------------------------------------------------------
(* The handshake of an end that connects and one that listens *)

\* a connects and its peer listens.
OneSided(a) == Active \subseteq {a} /\ Passive \subseteq {Peer(a)}
\* A SYN in answer to one.
SynAck(s) == "SYN" \in s.flags /\ Echo(s)
\* b knows that its SYN has arrived, or is about to.
Acked(b, back) ==
  \/ b.fsm \in Synchronized
  \/ b.iss > 0 /\ \E s \in back : Echo(s) /\ s.ack > b.iss
\* c connects to b; "in" is on its way to c, "back" to b.  What answers the present SYN of one
\* end names the present SYN of the other, and what b is told of its SYN comes from a
\* connection that has taken it, unless that has gone.
Shaken(c, b, in, back) ==
  /\ c.fsm \in {"INIT", "SYN_SENT"} => c.irs = 0
  /\ \A s \in in : SynAck(s) /\ s.seq = b.iss => s.ack = b.irs + 1
  /\ c.irs # 0 /\ c.irs = b.iss => b.irs = c.iss
  /\ Acked(b, back) =>
       IF b.irs = c.iss THEN c.irs = b.iss /\ c.fsm \in Past
       ELSE c.fsm \notin Synchronized /\ \A s \in in : SynAck(s) => s.ack # c.iss + 1
\* The same of the two ends.
Agree(a) == Shaken(conn[a], conn[Peer(a)], net[a], net[Peer(a)])

\* Less on the way.
LEMMA ShakenShrinks ==
  ASSUME NEW c, NEW b, NEW in, NEW back, Shaken(c, b, in, back),
         NEW in1, in1 \subseteq in, NEW back1, back1 \subseteq back
  PROVE  Shaken(c, b, in1, back1)
BY DEF Shaken, Acked

\* The connecting end runs a handler: it takes the ISS of its peer from a SYN+ACK of its own
\* SYN, and acknowledges no other.
LEMMA OpenerShaken ==
  ASSUME NEW c \in Conn, NEW b \in Conn, NEW in \in SUBSET Segment, NEW back,
         Shaken(c, b, in, back), c.fsm \in {"INIT", "SYN_SENT"} \cup Past,
         NEW q \in Conn, q.iss = c.iss,
         \/ /\ q.irs = c.irs /\ (q.fsm \in Synchronized => c.fsm \in Synchronized)
            /\ q.fsm \in {"INIT", "SYN_SENT"} => c.fsm \in {"INIT", "SYN_SENT"}
            /\ c.fsm \in Past => q.fsm \in Past
         \/ \E s \in in : /\ SynAck(s) /\ s.ack = c.iss + 1 /\ q.irs = s.seq
                          /\ c.fsm = "SYN_SENT" /\ q.fsm = "ESTABLISHED",
         NEW in1, in1 \subseteq in,
         NEW back1, \A x \in back1 \ back : Echo(x) /\ x.ack > b.iss => q.irs = b.iss
  PROVE  Shaken(q, b, in1, back1)
<1>1. /\ c.iss \in Nat /\ c.irs \in Nat /\ b.iss \in Nat /\ b.irs \in Nat /\ q.irs \in Nat
      /\ \A s \in in : s.seq \in Nat /\ s.ack \in Nat
  BY DEF Conn, Segment
<1>2. Acked(b, back1) => Acked(b, back) \/ (b.iss > 0 /\ q.irs = b.iss)
  BY DEF Acked
<1>3. "ESTABLISHED" \in Synchronized /\ Synchronized \subseteq Past
      /\ "SYN_SENT" \notin Past /\ "INIT" \notin Past
  BY DEF Past, Synchronized, States
<1>4. CASE /\ q.irs = c.irs /\ (q.fsm \in Synchronized => c.fsm \in Synchronized)
           /\ q.fsm \in {"INIT", "SYN_SENT"} => c.fsm \in {"INIT", "SYN_SENT"}
           /\ c.fsm \in Past => q.fsm \in Past
  <2>1. q.fsm \in {"INIT", "SYN_SENT"} => q.irs = 0
    BY <1>4 DEF Shaken
  <2>2. \A s \in in1 : SynAck(s) /\ s.seq = b.iss => s.ack = b.irs + 1
    BY DEF Shaken
  <2>3. q.irs # 0 /\ q.irs = b.iss => b.irs = q.iss
    BY <1>4 DEF Shaken
  <2>4. ASSUME Acked(b, back)
        PROVE  IF b.irs = q.iss THEN q.irs = b.iss /\ q.fsm \in Past
               ELSE q.fsm \notin Synchronized /\ \A s \in in1 : SynAck(s) => s.ack # q.iss + 1
    BY <1>4, <2>4 DEF Shaken
  <2>5. ASSUME b.iss > 0, q.irs = b.iss
        PROVE  b.irs = q.iss /\ q.irs = b.iss /\ q.fsm \in Past
    <3>1. c.irs # 0 /\ c.irs = b.iss
      BY <1>1, <1>4, <2>5
    <3>2. b.irs = c.iss /\ c.fsm \notin {"INIT", "SYN_SENT"}
      BY <3>1 DEF Shaken
    <3> QED
      BY <1>4, <2>5, <3>2
  <2> QED
    BY <1>2, <2>1, <2>2, <2>3, <2>4, <2>5 DEF Shaken
<1>5. ASSUME NEW s \in in, SynAck(s), s.ack = c.iss + 1, q.irs = s.seq,
             c.fsm = "SYN_SENT", q.fsm = "ESTABLISHED"
      PROVE  Shaken(q, b, in1, back1)
  <2>1. ~Acked(b, back)
    BY <1>3, <1>5 DEF Shaken
  <2>2. q.irs = b.iss => b.irs = q.iss
    <3>1. s.seq = b.iss => s.ack = b.irs + 1
      BY <1>5 DEF Shaken
    <3> QED
      BY <1>1, <1>5, <3>1
  <2>3. \A x \in in1 : SynAck(x) /\ x.seq = b.iss => x.ack = b.irs + 1
    BY DEF Shaken
  <2> QED
    BY <1>2, <1>3, <1>5, <2>1, <2>2, <2>3 DEF Shaken
<1> QED
  BY <1>4, <1>5

\* The listening end runs a handler or takes a new connection object: it answers the SYN it has
\* taken, and a new ISS is beyond all that is under way.
LEMMA ListenerShaken ==
  ASSUME NEW c \in Conn, NEW b \in Conn, NEW in \in SUBSET Segment, NEW back \in SUBSET Segment,
         Shaken(c, b, in, back), NEW q \in Conn,
         NEW back1, back1 \subseteq back,
         NEW in1, \A x \in in1 \ in : SynAck(x) => x.ack = q.irs + 1,
         \/ /\ q.iss = b.iss /\ q.irs = b.irs
            /\ q.fsm \in Synchronized => Acked(b, back)
         \/ /\ q.fsm \notin Synchronized /\ c.irs < q.iss
            /\ \A x \in in : SynAck(x) => x.seq < q.iss
            /\ \A x \in back : Echo(x) => x.ack <= q.iss
  PROVE  Shaken(c, q, in1, back1)
<1>1. /\ c.iss \in Nat /\ c.irs \in Nat /\ b.iss \in Nat /\ b.irs \in Nat /\ q.irs \in Nat
      /\ q.iss \in Nat /\ \A s \in in : s.seq \in Nat /\ s.ack \in Nat
      /\ \A s \in back : s.ack \in Nat
  BY DEF Conn, Segment
<1>2. CASE q.iss = b.iss /\ q.irs = b.irs /\ (q.fsm \in Synchronized => Acked(b, back))
  <2>1. Acked(q, back1) => Acked(b, back)
    BY <1>2 DEF Acked
  <2>2. \A x \in in1 : SynAck(x) /\ x.seq = q.iss => x.ack = q.irs + 1
    BY <1>2 DEF Shaken
  <2>3. q.irs # c.iss => \A x \in in1 \ in : SynAck(x) => x.ack # c.iss + 1
    BY <1>1
  <2> QED
    BY <1>2, <2>1, <2>2, <2>3 DEF Shaken
<1>3. CASE /\ q.fsm \notin Synchronized /\ c.irs < q.iss
           /\ \A x \in in : SynAck(x) => x.seq < q.iss
           /\ \A x \in back : Echo(x) => x.ack <= q.iss
  <2>1. ~Acked(q, back1)
    BY <1>1, <1>3 DEF Acked
  <2>2. \A x \in in1 : SynAck(x) /\ x.seq = q.iss => x.ack = q.irs + 1
    BY <1>1, <1>3
  <2>3. c.irs # q.iss
    BY <1>1, <1>3
  <2> QED
    BY <2>1, <2>2, <2>3 DEF Shaken
<1> QED
  BY <1>2, <1>3

\* The connecting end takes a new connection object: nobody has answered its SYN yet.
LEMMA NewcomerShaken ==
  ASSUME NEW c \in Conn, NEW b \in Conn, NEW in, NEW back, Shaken(c, b, in, back),
         NEW q \in Conn, q.irs = 0, q.fsm \notin Synchronized, b.irs # q.iss,
         \A x \in in : Echo(x) => x.ack # q.iss + 1,
         NEW in1, in1 \subseteq in,
         NEW back1, \A x \in back1 \ back : ~Echo(x)
  PROVE  Shaken(q, b, in1, back1)
<1>1. Acked(b, back1) => Acked(b, back)
  BY DEF Acked
<1>2. \A s \in in1 : SynAck(s) => s.ack # q.iss + 1
  BY DEF SynAck
<1> QED
  BY <1>1, <1>2 DEF Shaken

\* The connecting end is never in a state of the listening one.
LEMMA OpenerFacts ==
  ASSUME ClockOutruns, SInv, NEW a \in Ends, OneSided(a)
  PROVE  /\ conn[a].fsm \in {"INIT", "SYN_SENT"} \cup Past
         /\ conn[Peer(a)].fsm # "SYN_SENT"
         /\ \A s \in net[a] : "SYN" \in s.flags => "ACK" \in s.flags
<1> DEFINE c == conn[a]
           p == Peer(a)
           b == conn[p]
<1>1. /\ c \in Conn /\ b \in Conn /\ p \in Ends /\ p # a /\ Peer(p) = a /\ Steady(c)
      /\ Roles(a) /\ Roles(p) /\ Speaks(b)
  BY ServiceFacts, TwoEnds
<1>2. a \notin Passive /\ p \notin Active
  BY <1>1 DEF OneSided
<1>3. /\ c.fsm \in {"LISTEN", "SYN_RCVD"} /\ ~c.active => a \in Passive
      /\ c.fsm = "SYN_RCVD" /\ c.active => p \in Active
      /\ \A s \in net[a] : "SYN" \in s.flags /\ "ACK" \notin s.flags => p \in Active
      /\ b.active => p \in Active
  BY <1>1 DEF Roles
<1> HIDE DEF c, b
<1>4. c.fsm \notin {"LISTEN", "SYN_RCVD"}
  BY <1>1, <1>2, <1>3 DEF Steady
<1>5. c.fsm \in {"INIT", "SYN_SENT"} \cup Past
  BY <1>1, <1>4 DEF Conn, Past, Synchronized, States
<1>6. b.fsm # "SYN_SENT"
  BY <1>1, <1>2, <1>3 DEF Speaks
<1> QED
  BY <1>2, <1>3, <1>5, <1>6 DEF c, b

\* A handler of the connecting end.
LEMMA OpenerAgrees ==
  ASSUME ClockOutruns, SInv, NEW a \in Ends, OneSided(a), Agree(a),
         NEW m, NEW d, NEW s, Ran(a, m, d, s), NEW used, Handle(a, d, used)
  PROVE  Agree(a)'
<1> DEFINE c == conn[a]
           b == conn[Peer(a)]
           h == Stream(b)
           q == Settled(d)
           in == net[a]
           back == net[Peer(a)]
<1>1. /\ TypeOK /\ c \in Conn /\ b \in Conn /\ Peer(a) \in Ends /\ Steady(c)
      /\ h \in Streams /\ h.iss = b.iss /\ in \in SUBSET Segment
  BY ServiceFacts, TwoEnds DEF TypeOK, Stream
<1>2. /\ c.fsm \in {"INIT", "SYN_SENT"} \cup Past
      /\ \A x \in in : "SYN" \in x.flags => "ACK" \in x.flags
  BY OpenerFacts
<1>3. /\ d \in Conn /\ OutReady(d, h) /\ Noting(c, m) /\ Serves(m, d, s, h) /\ Lasts(c, d)
      /\ s \in Segment /\ (s \in in \/ s = Blank)
  BY DEF Ran, Flows
<1>4. /\ conn'[a] = q /\ conn'[Peer(a)] = b /\ net'[a] \subseteq in
      /\ net'[Peer(a)] = back \cup d.out
  BY <1>1, <1>3, HandleResult
<1>5. q \in Conn /\ q.fsm = NextState(d) /\ q.iss = d.iss /\ q.irs = d.irs
  BY <1>3, SettledHalves DEF SameHalves
<1> HIDE DEF q, h
<1>6. Hands(m, d, s) /\ m.iss = c.iss /\ m.irs = c.irs /\ m.fsm = c.fsm /\ d.fsm = c.fsm
  BY <1>3 DEF Serves, Noting
<1>7. "SYN" \notin Blank.flags
  BY DEF Blank, Seg
<1>8. "SYN" \in s.flags => s \in in /\ "ACK" \in s.flags
  BY <1>2, <1>3, <1>7
<1>9. /\ c.fsm \notin {"LISTEN", "SYN_RCVD"} /\ "ESTABLISHED" \in Past
  BY <1>2 DEF Past, Synchronized, States
<1>10. \/ /\ q.irs = c.irs /\ q.iss = c.iss
          /\ q.fsm \in Synchronized => c.fsm \in Synchronized
          /\ q.fsm \in {"INIT", "SYN_SENT"} => c.fsm \in {"INIT", "SYN_SENT"}
       \/ /\ q.iss = c.iss /\ s \in in /\ SynAck(s) /\ s.ack = c.iss + 1 /\ q.irs = s.seq
          /\ c.fsm = "SYN_SENT" /\ q.fsm = "ESTABLISHED"
  <2>1. NextState(d) = "INIT" => d.fsm = "INIT"
    BY <1>3, StreamStates
  <2> QED
    BY <1>5, <1>6, <1>8, <1>9, <2>1 DEF Hands, SynAck, Echo
<1>11. c.fsm \in Past => q.fsm \in Past
  BY <1>3, <1>5 DEF Lasts, Past
<1>12. ASSUME NEW x \in (back \cup d.out) \ back, Echo(x), x.ack > b.iss
       PROVE  q.irs = b.iss
  <2>1. Hears(d, h) /\ x \in d.out
    BY <1>3, <1>12 DEF OutReady
  <2>2. x.ack <= d.rcv_nxt /\ d.irs <= b.iss /\ (d.irs < b.iss => d.rcv_nxt < b.iss)
    BY <1>1, <1>12, <2>1 DEF Hears, Echoes
  <2>3. x.ack \in Nat /\ d.rcv_nxt \in Nat /\ d.irs \in Nat /\ b.iss \in Nat
    BY <1>1, <1>3, <2>1 DEF Conn, Segment
  <2> QED
    BY <1>5, <1>12, <2>2, <2>3
<1> HIDE DEF c, b, in, back
<1>13. Shaken(c, b, in, back)
  BY DEF Agree, c, b, in, back
<1>14. Shaken(q, b, net'[a], back \cup d.out)
  BY <1>1, <1>2, <1>4, <1>5, <1>10, <1>11, <1>12, <1>13, OpenerShaken
<1> QED
  BY <1>4, <1>14 DEF Agree

\* What is under way between the ends is not beyond them.
LEMMA UnderWay ==
  ASSUME ClockOutruns, SInv, Running, NEW e \in Ends
  PROVE  /\ \A s \in net[Peer(e)] : "SYN" \in s.flags => s.seq <= conn[e].iss
         /\ \A s \in net[e] : Echo(s) => s.ack < conn[e].iss + IssStep
         /\ conn[Peer(e)].irs <= conn[e].iss
         /\ IssStep \in Nat /\ IssStep > 0
<1> DEFINE c == conn[e]
           h == Stream(c)
           p == Peer(e)
<1>1. /\ TypeOK /\ Flow /\ c \in Conn /\ Roles(e) /\ c.app.wrote + 3 <= IssStep
      /\ c.app.wrote \in Nat /\ p \in Ends /\ Peer(p) = e
      /\ h.iss = c.iss
  BY ServiceFacts, EndFacts, TwoEnds DEF SInv, Stream
<1>2. IssStep \in Nat /\ IssStep > 0 /\ c.iss \in Nat
  BY <1>1, ConnectionAssumption DEF Conn
<1>3. ASSUME NEW s \in net[p], "SYN" \in s.flags
      PROVE  s.seq <= c.iss
  <2>1. Apart(s, h)
    BY <1>1 DEF Flow
  <2>2. s.seq \in Nat
    BY <1>1 DEF TypeOK, Segment
  <2> QED
    BY <1>1, <1>2, <1>3, <2>1, <2>2 DEF Apart
<1>4. ASSUME NEW s \in net[e], Echo(s)
      PROVE  s.ack < c.iss + IssStep
  <2>1. s.ack <= c.iss + 1 + c.app.wrote + 1
    BY <1>1, <1>4 DEF Roles, End
  <2>2. s.ack \in Nat
    BY <1>1 DEF TypeOK, Segment
  <2> QED
    BY <1>1, <1>2, <2>1, <2>2
<1>5. conn[p].irs <= c.iss
  BY <1>1 DEF Flow, Listens
<1> QED
  BY <1>2, <1>3, <1>4, <1>5

\* A handler of the listening end.
LEMMA ListenerAgrees ==
  ASSUME ClockOutruns, SInv, Running, NEW a \in Ends, OneSided(a), Agree(a), NEW e, e = Peer(a),
         NEW m, NEW d, NEW s, Ran(e, m, d, s), NEW used, Handle(e, d, used)
  PROVE  Agree(a)'
<1> DEFINE c == conn[a]
           b == conn[e]
           h == Stream(c)
           q == Settled(d)
           in == net[a]
           back == net[e]
<1>1. /\ TypeOK /\ c \in Conn /\ b \in Conn /\ e \in Ends /\ Peer(e) = a /\ Steady(b) /\ Roles(e)
      /\ h \in Streams /\ in \in SUBSET Segment /\ back \in SUBSET Segment
  BY ServiceFacts, TwoEnds DEF TypeOK
<1>2. b.fsm # "SYN_SENT"
  BY OpenerFacts
<1>3. /\ d \in Conn /\ ListensReady(d, h) /\ Noting(b, m) /\ Serves(m, d, s, h)
      /\ s \in Segment /\ (s \in back \/ s = Blank)
  BY <1>1 DEF Ran, Flows
<1>4. /\ conn'[e] = q /\ conn'[a] = c /\ net'[e] \subseteq back /\ net'[a] = in \cup d.out
  BY <1>1, <1>3, HandleResult
<1>5. q \in Conn /\ q.fsm = NextState(d) /\ q.iss = d.iss /\ q.irs = d.irs
  BY <1>3, SettledHalves DEF SameHalves
<1>6. /\ Hands(m, d, s) /\ Speech(d) /\ m.iss = b.iss /\ m.irs = b.irs /\ m.fsm = b.fsm
      /\ m.snd_una = b.snd_una
  BY <1>3 DEF Serves, Noting
<1>7. /\ \A x \in in : "SYN" \in x.flags => x.seq <= b.iss
      /\ \A x \in back : Echo(x) => x.ack < b.iss + IssStep
      /\ c.irs <= b.iss /\ IssStep \in Nat /\ IssStep > 0
  BY <1>1, UnderWay
<1> HIDE DEF q, h
<1>8. ASSUME NEW x \in (in \cup d.out) \ in, SynAck(x)
      PROVE  x.ack = q.irs + 1
  BY <1>3, <1>5, <1>6, <1>8 DEF Speech, ListensReady, SynAck, Echo
<1>9. CASE q.iss = b.iss + IssStep /\ q.fsm = "SYN_RCVD"
  <2>1. q.fsm \notin Synchronized
    BY <1>9 DEF Synchronized
  <2>2. c.irs < q.iss
    BY <1>1, <1>7, <1>9 DEF Conn
  <2>3. \A x \in in : SynAck(x) => x.seq < q.iss
    BY <1>1, <1>7, <1>9 DEF Conn, Segment, SynAck
  <2>4. \A x \in back : Echo(x) => x.ack <= q.iss
    BY <1>1, <1>7, <1>9 DEF Conn, Segment
  <2> HIDE DEF c, b, in, back
  <2>5. Shaken(c, b, in, back)
    BY DEF Agree, c, b, in, back
  <2>6. Shaken(c, q, in \cup d.out, net'[e])
    BY <1>1, <1>4, <1>5, <1>8, <2>1, <2>2, <2>3, <2>4, <2>5, ListenerShaken
  <2> QED
    BY <1>4, <2>6 DEF Agree
<1>10. CASE q.iss = b.iss /\ q.irs = b.irs
  <2>1. ASSUME q.fsm \in Synchronized
        PROVE  Acked(b, back)
    <3>1. \/ b.fsm \in Synchronized
          \/ b.fsm = "SYN_RCVD" /\ Echo(s) /\ b.snd_una <= s.ack
      BY <1>2, <1>5, <1>6, <2>1 DEF Hands, Synchronized
    <3>2. CASE b.fsm = "SYN_RCVD" /\ Echo(s) /\ b.snd_una <= s.ack
      <4>1. s \in back
        BY <1>3, <3>2, BlankFacts
      <4>2. s.ack # b.iss
        BY <1>1, <3>2, <4>1 DEF Roles
      <4>3. b.snd_una = b.iss /\ b.iss > 0
        BY <1>1, <3>2 DEF Steady, Embryonic, Live
      <4>4. s.ack \in Nat /\ b.iss \in Nat
        BY <1>1, <1>3 DEF Conn, Segment
      <4>5. s.ack > b.iss
        BY <3>2, <4>2, <4>3, <4>4
      <4> QED
        BY <3>2, <4>1, <4>3, <4>5 DEF Acked
    <3> QED
      BY <3>1, <3>2 DEF Acked
  <2> HIDE DEF c, b, in, back
  <2>2. Shaken(c, b, in, back)
    BY DEF Agree, c, b, in, back
  <2>3. Shaken(c, q, in \cup d.out, net'[e])
    BY <1>1, <1>4, <1>5, <1>8, <1>10, <2>1, <2>2, ListenerShaken
  <2> QED
    BY <1>4, <2>3 DEF Agree
<1> QED
  BY <1>2, <1>5, <1>6, <1>9, <1>10 DEF Hands

\* A new connection object at either end: q is beyond what the old one has said.
LEMMA RenewalAgrees ==
  ASSUME ClockOutruns, SInv, Running, NEW a \in Ends, Agree(a), NEW e \in Ends,
         NEW q \in Conn, conn'[e] = q, conn'[Peer(e)] = conn[Peer(e)],
         q.irs = 0, q.fsm \notin Synchronized, conn[e].iss + IssStep <= q.iss,
         net'[e] \subseteq net[e], \A x \in net'[Peer(e)] \ net[Peer(e)] : ~Echo(x)
  PROVE  Agree(a)'
<1> DEFINE p == Peer(e)
           c == conn[e]
           o == conn[p]
           in == net[e]
           out == net[p]
<1>1. /\ TypeOK /\ c \in Conn /\ o \in Conn /\ p \in Ends /\ Peer(p) = e /\ Ends = {e, p}
      /\ in \in SUBSET Segment /\ out \in SUBSET Segment
  BY ServiceFacts, TwoEnds DEF TypeOK
<1>2. /\ \A x \in out : "SYN" \in x.flags => x.seq <= c.iss
      /\ \A x \in in : Echo(x) => x.ack < c.iss + IssStep
      /\ o.irs <= c.iss /\ IssStep \in Nat /\ IssStep > 0
  BY UnderWay
<1> HIDE DEF c, o, in, out
<1>3. o.irs < q.iss
  BY <1>1, <1>2 DEF Conn, c
<1>4. \A x \in out : SynAck(x) => x.seq < q.iss
  BY <1>1, <1>2 DEF Conn, Segment, SynAck, c
<1>5. \A x \in in : Echo(x) => x.ack <= q.iss
  BY <1>1, <1>2 DEF Conn, Segment, c
<1>6. net'[e] \subseteq in /\ \A x \in net'[p] \ out : ~Echo(x)
  BY DEF in, out
<1>7. CASE a = e
  <2>1. Shaken(c, o, in, out)
    BY <1>7 DEF Agree, c, o, in, out
  <2>2. o.irs # q.iss /\ \A x \in in : Echo(x) => x.ack # q.iss + 1
    BY <1>1, <1>3, <1>5 DEF Conn, Segment
  <2>3. Shaken(q, o, net'[e], net'[p])
    BY <1>1, <1>6, <2>1, <2>2, NewcomerShaken
  <2> QED
    BY <1>7, <2>3 DEF Agree, o
<1>8. CASE a = p
  <2>1. Shaken(o, c, out, in)
    BY <1>1, <1>8 DEF Agree, c, o, in, out
  <2>2. \A x \in net'[p] \ out : SynAck(x) => x.ack = q.irs + 1
    BY <1>6 DEF SynAck
  <2>3. Shaken(o, q, net'[p], net'[e])
    BY <1>1, <1>3, <1>4, <1>5, <1>6, <2>1, <2>2, ListenerShaken
  <2> QED
    BY <1>1, <1>8, <2>3 DEF Agree, o
<1> QED
  BY <1>1, <1>7, <1>8

\* What leaves the connections alone and puts nothing on the wire.
LEMMA IdleAgrees ==
  ASSUME NEW a \in Ends, Agree(a), conn' = conn, \A f \in Ends : net'[f] \subseteq net[f]
  PROVE  Agree(a)'
<1>1. Peer(a) \in Ends
  BY TwoEnds
<1> QED
  BY <1>1, ShakenShrinks DEF Agree

\* A handler of either end.
LEMMA RanAgrees ==
  ASSUME ClockOutruns, SInv, Running, NEW a \in Ends, OneSided(a), Agree(a), NEW e \in Ends,
         NEW m, NEW d, NEW s, Ran(e, m, d, s), NEW used, Handle(e, d, used)
  PROVE  Agree(a)'
<1>1. e = a \/ e = Peer(a)
  BY TwoEnds
<1> QED
  BY <1>1, OpenerAgrees, ListenerAgrees

\* Every action keeps the agreement.
LEMMA StepAgrees ==
  ASSUME ClockOutruns, LateClose, AllHeed, SInv, NEW a \in Ends, OneSided(a), Agree(a), NEW e \in Ends,
         UserStep(e) \/ TimerStep(e) \/ NetworkStep(e) \/ NodeStep(e)
  PROVE  Agree(a)'
<1>1. Running /\ TypeOK /\ Peer(e) # e
  BY StepsRun, ServiceFacts, TwoEnds
<1>2. Reacts(e) => Agree(a)'
  BY <1>1, RanAgrees DEF Reacts
<1>3. CASE Connect(e) \/ Listen(e)
  <2>1. PICK d : Born(d) /\ Open(e, d) /\ conn[e].iss + IssStep <= d.iss
    BY <1>3, ConnectServes
  <2> DEFINE q == Settled(d)
  <2>2. d \in Conn /\ Handle(e, d, {})
    BY <2>1 DEF Born, Open, Command
  <2>3. /\ conn'[e] = q /\ conn'[Peer(e)] = conn[Peer(e)] /\ net'[e] \subseteq net[e]
        /\ net'[Peer(e)] = net[Peer(e)] \cup d.out
    BY <1>1, <2>2, HandleResult
  <2>4. q \in Conn /\ q.fsm = NextState(d) /\ q.iss = d.iss /\ q.irs = d.irs
    BY <2>2, SettledHalves DEF SameHalves
  <2> HIDE DEF q
  <2>5. q.irs = 0 /\ q.fsm \notin Synchronized
    BY <2>1, <2>4 DEF Born, Synchronized
  <2>6. \A x \in d.out : ~Echo(x)
    BY <2>1 DEF Born, Seg, Echo
  <2> QED
    BY <1>1, <2>1, <2>3, <2>4, <2>5, <2>6, RenewalAgrees
<1>4. CASE Send(e)
  <2>1. \E d : Ran(e, conn[e], d, Blank) /\ Handle(e, d, {})
    BY <1>4, SendRan
  <2> QED
    BY <1>1, <2>1, RanAgrees
<1>5. CASE Close(e)
  <2>1. \E m, d : Ran(e, m, d, Blank) /\ Handle(e, d, {})
    BY <1>5, CloseRan
  <2> QED
    BY <1>1, <2>1, RanAgrees
<1>6. CASE Abort(e) \/ TimerStep(e)
  BY <1>2, <1>6, AbortReacts, TimerReacts
<1>7. CASE NetworkStep(e)
  <2>1. PICK s \in net[e] : Deliver(e, s) \/ Duplicate(e, s) \/ Lose(e, s) \/ Drop(e, s)
    BY <1>7 DEF NetworkStep
  <2>2. CASE Deliver(e, s) \/ Duplicate(e, s)
    BY <1>2, <2>2, SegmentReacts
  <2>3. CASE Lose(e, s) \/ Drop(e, s)
    <3>1. conn' = conn /\ net' = [net EXCEPT ![e] = @ \ {s}]
      BY <2>3 DEF Lose, Drop
    <3>2. \A f \in Ends : net'[f] \subseteq net[f]
      BY <1>1, <3>1 DEF TypeOK
    <3> QED
      BY <3>1, <3>2, IdleAgrees
  <2> QED
    BY <2>1, <2>2, <2>3
<1>8. CASE NodeStep(e)
  <2>1. CASE Crash(e)
    <3> DEFINE c == conn[e]
               q == Reopened(c)
    <3>1. net' = net /\ conn' = [conn EXCEPT ![e] = q]
      BY <2>1 DEF Crash
    <3>2. c \in Conn /\ IssStep \in Nat /\ IssStep > 0 /\ Peer(e) \in Ends
      BY ServiceFacts, ConnectionAssumption, TwoEnds
    <3>3. Unborn(q) /\ q.iss = c.iss + IssStep
      BY <3>2, ReopenedUnborn
    <3> HIDE DEF q
    <3>4. conn'[e] = q /\ conn'[Peer(e)] = conn[Peer(e)]
      BY <1>1, <3>1, <3>2 DEF TypeOK
    <3>5. /\ q \in Conn /\ q.irs = 0 /\ q.fsm \notin Synchronized
      BY <3>3 DEF Unborn, Synchronized
    <3>6. c.iss + IssStep <= q.iss
      BY <3>2, <3>3 DEF Conn
    <3> QED
      BY <1>1, <3>1, <3>4, <3>5, <3>6, RenewalAgrees
  <2>2. CASE Restart(e)
    BY <2>2, IdleAgrees DEF Restart
  <2> QED
    BY <1>8, <2>1, <2>2 DEF NodeStep
<1> QED
  BY <1>3, <1>4, <1>5, <1>6, <1>7, <1>8 DEF UserStep

\* At first there is nothing to agree on.
LEMMA InitAgrees ==
  ASSUME Init, NEW a \in Ends
  PROVE  Agree(a)
<1>1. conn[a] = FreshConn /\ conn[Peer(a)] = FreshConn /\ net[a] = {} /\ net[Peer(a)] = {}
  BY TwoEnds DEF Init
<1>2. FreshConn.fsm = "INIT" /\ FreshConn.irs = 0
  BY DEF FreshConn
<1> QED
  BY <1>1, <1>2 DEF Agree, Shaken, Acked, Synchronized

\* Where one end connects and the other listens, two ends past the handshake are past the same
\* one, and each has told its application once: whatever is lost, repeated or left over from
\* connections before a crash or another opening.
THEOREM SameHandshake ==
  ASSUME ClockOutruns, LateClose, AllHeed, NEW a \in Ends, OneSided(a)
  PROVE  Spec => []HandshakeAgreement
<1>1. Init => Agree(a)
  BY InitAgrees
<1>2. SInv /\ Agree(a) /\ [Next]_vars => Agree(a)'
  <2> SUFFICES ASSUME SInv, Agree(a), [Next]_vars
               PROVE  Agree(a)'
    OBVIOUS
  <2>1. CASE Next
    BY <2>1, StepAgrees DEF Next
  <2>2. CASE UNCHANGED vars
    BY <2>2, IdleAgrees DEF vars
  <2> QED
    BY <2>1, <2>2
<1>3. SInv /\ Agree(a) => HandshakeAgreement
  <2> SUFFICES ASSUME SInv, Agree(a)
               PROVE  HandshakeAgreement
    OBVIOUS
  <2> DEFINE p == Peer(a)
             c == conn[a]
             b == conn[p]
  <2>1. /\ Ends = {a, p} /\ Peer(p) = a /\ Peer(a) = p /\ c.irs \in Nat /\ b.irs \in Nat
    BY ServiceFacts, TwoEnds DEF Conn
  <2>2. \A e \in Ends : Steady(conn[e])
    BY ServiceFacts
  <2>3. ASSUME c.fsm \in Synchronized, b.fsm \in Synchronized
        PROVE  Paired(a) /\ Paired(p)
    <3>1. b.irs = c.iss /\ c.irs = b.iss
      BY <2>3 DEF Agree, Shaken, Acked
    <3>2. c.irs > 0 /\ b.irs > 0
      BY <2>1, <2>2, <2>3 DEF Steady, Heard
    <3> QED
      BY <2>1, <3>1, <3>2 DEF Paired
  <2> QED
    BY <2>1, <2>2, <2>3 DEF HandshakeAgreement, Steady
<1>4. Spec => []SInv
  BY ServiceHolds
<1> QED
  BY <1>1, <1>2, <1>3, <1>4, PTL DEF Spec

=============================================================================
