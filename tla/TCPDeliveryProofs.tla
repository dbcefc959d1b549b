-------------------------- MODULE TCPDeliveryProofs --------------------------
(***************************************************************************)
(* What two ends of TCP deliver to each other, proved for every value of   *)
(* the constants: the segments on the wire come from the send queue, what  *)
(* an application is handed was written by its peer, and, between two      *)
(* hosts that open once, what is acknowledged has been delivered.          *)
(*                                                                         *)
(* The inductive invariant DInv says how the two halves of each connection *)
(* stand to the stream of their peer, and what is on the way between them. *)
(* A handler is shown to keep the halves and the streams (Passes), for any *)
(* stream h of the peer and any segment that belongs to it; the actions    *)
(* then join the two ends and the network.                                 *)
(***************************************************************************)
EXTENDS TCPEndpointsProofs

-----------------------------------------------------------------------------
(* What is true of a connection between two events, and of what a handler hands over *)

\* States in which nothing of the peer's stream has been taken.
Unheard == {"INIT", "LISTEN", "SYN_SENT", "SYN_RCVD"}

\* The sending half of a connection between two events.
Speaks(c) ==
  /\ c.fsm \in Live => Fits(c)
  /\ c.fsm \in {"INIT", "LISTEN"} \/ (c.fsm = "SYN_RCVD" /\ ~c.active) =>
       c.app.wrote = 0 /\ ~c.app.closed
  /\ c.fsm = "SYN_SENT" => c.active
  /\ c.fsm \in {"INIT", "CLOSED"} => c.q_end = 0
  /\ c.fsm = "LISTEN" => c.snd_una <= c.iss + 1
  /\ FinKnown(c)

\* The receiving half: what it has of the present stream h of its peer was written there.
Listens(c, h) ==
  /\ c.irs <= h.iss
  /\ c.irs # 0 /\ c.irs = h.iss => c.app.got <= h.end - h.iss - 1
  /\ c.fsm \in Heard => Hears(c, h)
  /\ c.fsm \in Unheard => c.app.got = 0 /\ ~c.fin_rcvd
  /\ c.fsm = "SYN_RCVD" => c.rcv_nxt = c.irs + 1

\* What a handler hands to the state machine, which is about to enter NextState(d).
SpeaksReady(d) ==
  /\ NextState(d) \in Live => Fits(d)
  /\ NextState(d) \in {"INIT", "LISTEN"} \/ (NextState(d) = "SYN_RCVD" /\ ~d.active) =>
       d.app.wrote = 0 /\ ~d.app.closed
  /\ NextState(d) = "SYN_SENT" => d.active
  /\ d.fsm \in {"INIT", "CLOSED"} /\ NextState(d) \in {"INIT", "CLOSED"} => d.q_end = 0
  /\ NextState(d) = "LISTEN" => d.snd_una <= d.iss + 1
  /\ FinKnown(d)
\* and the same for the receiving half.
ListensReady(d, h) ==
  /\ d.irs <= h.iss
  /\ d.irs # 0 /\ d.irs = h.iss => d.app.got <= h.end - h.iss - 1
  /\ NextState(d) \in Heard => Hears(d, h)
  /\ NextState(d) \in Unheard => d.app.got = 0 /\ ~d.fin_rcvd
  /\ NextState(d) = "SYN_RCVD" => d.rcv_nxt = d.irs + 1
\* Text and SYN only from a send queue in order, an ACK only for what has been received.
OutReady(d, h) ==
  /\ Fits(d) \/ \A s \in d.out : ~Text(s) /\ "SYN" \notin s.flags
  /\ Hears(d, h) \/ \A s \in d.out : ~Echo(s)
  /\ NextState(d) \in Unheard => \A s \in d.out : Echo(s) => s.ack <= d.irs + 1

\* What the state machine leaves alone.
SameHalves(c, r) ==
  /\ r.iss = c.iss /\ r.irs = c.irs /\ r.failed = c.failed
  /\ r.app.wrote = c.app.wrote /\ r.app.got = c.app.got /\ r.app.closed = c.app.closed
\* The queues, what is acknowledged and the FINs.
SameQueues(c, r) ==
  /\ r.active = c.active /\ r.q_begin = c.q_begin /\ r.q_end = c.q_end
  /\ r.send_fin = c.send_fin /\ r.snd_fin_seq = c.snd_fin_seq
  /\ r.snd_una = c.snd_una /\ r.fin_ack_rcvd = c.fin_ack_rcvd
  /\ r.rcv_nxt = c.rcv_nxt /\ r.buf = c.buf
  /\ r.fin_rcvd = c.fin_rcvd /\ r.rcv_fin_seq = c.rcv_fin_seq

-----------------------------------------------------------------------------
(* The state machine *)

\* Indications change neither half.
LEMMA IndicateHalves ==
  ASSUME NEW c \in Conn, NEW k \in Indications
  PROVE  LET d == Indicate(c, k)
         IN /\ d \in Conn /\ SameHalves(c, d) /\ SameQueues(c, d)
            /\ d.fsm = c.fsm /\ d.event = c.event /\ d.out = c.out
<1> DEFINE d == Indicate(c, k)
<1>1. d \in Conn /\ d.app = Told(c.app, k)
  BY IndicateType
<1>2. c.app \in App
  BY DEF Conn
<1>3. d.app.wrote = c.app.wrote /\ d.app.got = c.app.got /\ d.app.closed = c.app.closed
  BY <1>1, <1>2, ToldKeeps
<1>4. SameQueues(c, d) /\ d.fsm = c.fsm /\ d.event = c.event /\ d.out = c.out
      /\ d.iss = c.iss /\ d.irs = c.irs /\ d.failed = c.failed
  BY DEF Indicate, Conn, SameQueues
<1> QED
  BY <1>1, <1>3, <1>4 DEF SameHalves

\* Entering a state: CLOSED deletes the connection, the others change the timers at most.
LEMMA EnteredHalves ==
  ASSUME NEW c \in Conn, NEW n \in States
  PROVE  LET r == StateEntered(c, n)
         IN /\ r \in Conn /\ r.fsm = n /\ r.event = "IGNORE" /\ r.out = c.out
            /\ SameHalves(c, r)
            /\ n # "CLOSED" => SameQueues(c, r)
            /\ n = "CLOSED" => r.q_end = 0 /\ ~r.fin_ack_rcvd
<1> DEFINE r == StateEntered(c, n)
           c1 == [c EXCEPT !.fsm = n, !.event = "IGNORE"]
           left == c1.timers \ {"connEstab", "synRexmit"}
           c2 == [c1 EXCEPT !.timers = left]
<1>0. r \in Conn /\ r.fsm = n /\ r.event = "IGNORE"
  <2>1. Entered(c, n, r)
    BY StateEnteredFacts
  <2> HIDE DEF r
  <2> QED
    BY <2>1 DEF Entered
<1>1. "IGNORE" \in Events
  BY DEF Events
<1>2. c1 \in Conn /\ SameHalves(c, c1) /\ SameQueues(c, c1) /\ c1.out = c.out
  <2>1. c1 \in Conn
    BY <1>1 DEF Conn
  <2> QED
    BY <2>1 DEF Conn, SameHalves, SameQueues
<1> HIDE DEF c1
<1>3. c2 \in Conn /\ SameHalves(c, c2) /\ SameQueues(c, c2) /\ c2.out = c.out
  <2>1. left \in SUBSET Timers
    BY <1>2 DEF Conn
  <2> HIDE DEF left
  <2>2. c2 \in Conn
    BY <1>2, <2>1 DEF Conn
  <2> QED
    BY <1>2, <2>1, <2>2 DEF Conn, SameHalves, SameQueues
<1> HIDE DEF c2
<1>4. ASSUME NEW d \in Conn, NEW k \in Indications, SameHalves(c, d), SameQueues(c, d),
             d.out = c.out
      PROVE  /\ SameHalves(c, Indicate(d, k)) /\ SameQueues(c, Indicate(d, k))
             /\ Indicate(d, k).out = c.out /\ Indicate(d, k) \in Conn
  BY <1>4, IndicateHalves DEF SameHalves, SameQueues
<1>5. CASE n = "CLOSED"
  <2> DEFINE d == IF c.fsm # "TIME_WAIT" /\ c.event # "ABORT" THEN Indicate(c, "CLOSED") ELSE c
  <2>1. r = Removed(d)
    BY <1>5 DEF StateEntered, Embryonic
  <2>2. SameHalves(c, d) /\ d.out = c.out
    BY <1>4 DEF Indications, SameHalves, SameQueues
  <2> HIDE DEF d
  <2>3. /\ r.iss = d.iss /\ r.irs = d.irs /\ r.app = d.app /\ r.failed = d.failed
        /\ r.out = d.out /\ r.q_end = 0 /\ r.fin_ack_rcvd = FALSE
    BY <2>1 DEF Removed, FreshConn
  <2> QED
    BY <1>0, <1>5, <2>2, <2>3 DEF SameHalves
<1>6. CASE n # "CLOSED"
  <2>1. r \in {c1, c2, Indicate(c2, "PEER_CLOSED"), Indicate(c1, "CLOSED")}
    BY <1>6 DEF StateEntered, c1, c2
  <2>2. "PEER_CLOSED" \in Indications /\ "CLOSED" \in Indications
    BY DEF Indications
  <2> QED
    BY <1>0, <1>2, <1>3, <1>4, <1>6, <2>1, <2>2
<1> QED
  BY <1>5, <1>6

\* Which states are entered from where, as far as the two streams are concerned.
LEMMA StreamStates ==
  ASSUME NEW c \in Conn
  PROVE  /\ NextState(c) \in FinTaken =>
              c.fsm \in FinTaken \/ c.event \in {"RCV_FIN", "RCV_FIN_ACK"}
         /\ NextState(c) \in {"FIN_WAIT_2", "TIME_WAIT"} =>
              \/ c.fsm \in {"FIN_WAIT_2", "TIME_WAIT"}
              \/ c.event = "RCV_FIN_ACK"
              \/ c.event = "RCV_ACK" /\ c.fsm \in {"FIN_WAIT_1", "CLOSING"}
         /\ NextState(c) = "LISTEN" =>
              c.fsm \in {"INIT", "LISTEN"} \/ (c.fsm = "SYN_RCVD" /\ ~c.active)
         /\ NextState(c) = "INIT" => c.fsm = "INIT"
         /\ NextState(c) = "SYN_SENT" => c.fsm \in {"INIT", "SYN_SENT"}
         /\ NextState(c) = "SYN_RCVD" => c.fsm \in {"LISTEN", "SYN_SENT", "SYN_RCVD"}
         /\ c.fsm = "CLOSED" => NextState(c) = "CLOSED"
<1> USE DEF NextState, Transitions, Conn
<1>1. NextState(c) \in FinTaken =>
        c.fsm \in FinTaken \/ c.event \in {"RCV_FIN", "RCV_FIN_ACK"}
  BY SMTT(60) DEF FinTaken, States
<1>2. NextState(c) \in {"FIN_WAIT_2", "TIME_WAIT"} =>
              \/ c.fsm \in {"FIN_WAIT_2", "TIME_WAIT"}
              \/ c.event = "RCV_FIN_ACK"
              \/ c.event = "RCV_ACK" /\ c.fsm \in {"FIN_WAIT_1", "CLOSING"}
  BY SMTT(60) DEF States
<1>3. NextState(c) = "LISTEN" =>
              c.fsm \in {"INIT", "LISTEN"} \/ (c.fsm = "SYN_RCVD" /\ ~c.active)
  BY SMTT(60) DEF States
<1> QED
  BY <1>1, <1>2, <1>3, SMTT(60) DEF States

\* What has been settled.
LEMMA SettledHalves ==
  ASSUME NEW d \in Conn, NEW q, q = Settled(d)
  PROVE  /\ q \in Conn /\ q.fsm = NextState(d) /\ q.event = "IGNORE" /\ q.out = {}
         /\ SameHalves(d, q) /\ PerformStateTransition(d).out = d.out
         /\ q.fsm # "CLOSED" \/ d.fsm = "CLOSED" => SameQueues(d, q)
         /\ q.fsm = "CLOSED" /\ d.fsm # "CLOSED" => q.q_end = 0 /\ ~q.fin_ack_rcvd
<1> DEFINE n == NextState(d)
           r == PerformStateTransition(d)
<1>1. n \in States
  BY NextStateType
<1>2. /\ r \in Conn /\ r.fsm = n /\ r.event = "IGNORE" /\ r.out = d.out
      /\ SameHalves(d, r)
      /\ n # "CLOSED" \/ d.fsm = "CLOSED" => SameQueues(d, r)
      /\ n = "CLOSED" /\ d.fsm # "CLOSED" => r.q_end = 0 /\ ~r.fin_ack_rcvd
  <2>1. CASE d.event = "IGNORE" \/ n = d.fsm
    <3>1. n = d.fsm
      BY <2>1, IgnoreStays
    <3>2. r = [d EXCEPT !.event = "IGNORE"]
      BY <2>1 DEF PerformStateTransition, Raise
    <3> HIDE DEF n, r
    <3>3. r \in Conn
      BY <3>2 DEF Conn, Events
    <3>4. /\ r.fsm = d.fsm /\ r.event = "IGNORE" /\ r.out = d.out
          /\ SameHalves(d, r) /\ SameQueues(d, r)
      BY <3>2 DEF Conn, SameHalves, SameQueues
    <3> QED
      BY <3>1, <3>3, <3>4
  <2>2. CASE ~(d.event = "IGNORE" \/ n = d.fsm)
    <3>1. r = StateEntered(d, n)
      BY <2>2 DEF PerformStateTransition
    <3>2. d.fsm # "CLOSED"
      BY <2>2, StreamStates
    <3> HIDE DEF n, r
    <3> QED
      BY <1>1, <3>1, <3>2, EnteredHalves
  <2> QED
    BY <2>1, <2>2
<1>3. q = [r EXCEPT !.out = {}]
  BY DEF Settled
<1> HIDE DEF r, n
<1>4. q \in Conn
  BY <1>2, <1>3 DEF Conn
<1>5. q.out = {} /\ q.fsm = r.fsm /\ q.event = r.event /\ SameHalves(r, q) /\ SameQueues(r, q)
  BY <1>2, <1>3 DEF Conn, SameHalves, SameQueues
<1> QED
  BY <1>2, <1>4, <1>5 DEF SameHalves, SameQueues, r, n

\* The state machine turns what is ready into what holds between two events.
LEMMA TransitionStreams ==
  ASSUME NEW d \in Conn, NEW h \in Streams, SpeaksReady(d), ListensReady(d, h),
         NEW q, q = Settled(d)
  PROVE  Speaks(q) /\ Listens(q, h)
<1> DEFINE n == NextState(d)
<1>1. /\ q \in Conn /\ q.fsm = n /\ q.event = "IGNORE" /\ q.out = {}
      /\ SameHalves(d, q)
      /\ n # "CLOSED" \/ d.fsm = "CLOSED" => SameQueues(d, q)
      /\ n = "CLOSED" /\ d.fsm # "CLOSED" => q.q_end = 0 /\ ~q.fin_ack_rcvd
  BY SettledHalves
<1>2. ASSUME n \in Live
      PROVE  Fits(q)
  <2>1. SameQueues(d, q) /\ Fits(d)
    BY <1>1, <1>2 DEF SpeaksReady, Live, Embryonic, Synchronized
  <2> QED
    BY <1>1, <2>1 DEF Fits, Own, End, SameHalves, SameQueues
<1>3. FinKnown(q)
  <2>1. CASE n = "CLOSED" /\ d.fsm # "CLOSED"
    BY <1>1, <2>1 DEF FinKnown
  <2>2. CASE ~(n = "CLOSED" /\ d.fsm # "CLOSED")
    <3>1. SameQueues(d, q) /\ FinKnown(d)
      BY <1>1, <2>2 DEF SpeaksReady
    <3> QED
      BY <1>1, <3>1, StreamStates DEF FinKnown, SameQueues
  <2> QED
    BY <2>1, <2>2
<1>4. Speaks(q)
  <2>1. n # "CLOSED" => SameQueues(d, q)
    BY <1>1
  <2>2. n \in {"INIT", "CLOSED"} => q.q_end = 0
    <3>1. CASE d.fsm \in {"INIT", "CLOSED"}
      <4>1. n = "INIT" \/ d.fsm = "CLOSED" => SameQueues(d, q)
        BY <1>1
      <4>2. n = "CLOSED" /\ d.fsm = "INIT" => q.q_end = 0
        BY <1>1
      <4> QED
        BY <3>1, <4>1, <4>2 DEF SpeaksReady, SameQueues
    <3>2. CASE d.fsm \notin {"INIT", "CLOSED"}
      BY <1>1, <3>2, StreamStates
    <3> QED
      BY <3>1, <3>2
  <2> QED
    BY <1>1, <1>2, <1>3, <2>1, <2>2 DEF Speaks, SpeaksReady, SameHalves, SameQueues
<1>5. ASSUME n \in Heard
      PROVE  Hears(q, h)
  <2>1. SameQueues(d, q) /\ Hears(d, h)
    BY <1>1, <1>5 DEF ListensReady, Heard, Synchronized
  <2>2. Echoes(q)
    BY <1>1 DEF Echoes
  <2>3. n \in FinTaken => d.fsm \in FinTaken \/ d.event \in {"RCV_FIN", "RCV_FIN_ACK"}
    BY StreamStates
  <2> QED
    BY <1>1, <2>1, <2>2, <2>3 DEF Hears, SameHalves, SameQueues
<1>6. Listens(q, h)
  <2>1. n \in Unheard => SameQueues(d, q)
    BY <1>1 DEF Unheard
  <2> QED
    BY <1>1, <1>5, <2>1 DEF Listens, ListensReady, SameHalves, SameQueues, Unheard
<1> QED
  BY <1>4, <1>6

\* A stream goes on, by writes until the application closes; or a new one begins behind it.
Widens(h, k) ==
  \/ k.iss = h.iss /\ h.end <= k.end /\ (h.closed => k.closed /\ k.end = h.end)
  \/ h.end + 2 <= k.iss /\ h.iss + 3 <= k.iss /\ k.iss < k.end

\* What the handler that turns c into d means for the two streams; h is the stream of the
\* peer, and s the segment that has come, if any.
Flows(c, d, s, h) ==
  /\ d \in Conn /\ SpeaksReady(d) /\ ListensReady(d, h) /\ OutReady(d, h)
  /\ Widens(Stream(c), Stream(d))
  /\ NextState(d) \in Live =>
       \/ c.fsm \in Live /\ d.snd_una = c.snd_una
       \/ Echo(s) /\ d.snd_una = s.ack
       \/ d.snd_una <= d.iss + 1
\* A handler that opens nothing keeps what has been received.
Lasts(c, d) ==
  /\ c.fsm \in Synchronized \cup {"CLOSED"} =>
       /\ d.irs = c.irs /\ c.app.got <= d.app.got
       /\ NextState(d) \in Synchronized \cup {"CLOSED"}
  /\ c.fsm = "INIT" => NextState(d) = "INIT"
\* What every handler of a segment or a timer does.
Passes(c, d, s, h) == Flows(c, d, s, h) /\ Lasts(c, d) /\ d.app.wrote = c.app.wrote

-----------------------------------------------------------------------------
(* The growth of a stream *)

\* The stream of a connection.
LEMMA StreamType ==
  ASSUME NEW c \in Conn
  PROVE  Stream(c) \in Streams /\ c.iss < Stream(c).end
BY DEF Stream, Streams, End, Conn, App

\* What is on the way stays where it belongs while the stream goes on.
LEMMA SegmentStable ==
  ASSUME NEW s \in Segment, NEW h \in Streams, NEW k \in Streams, Widens(h, k), Belongs(s, h)
  PROVE  Belongs(s, k) /\ (Apart(s, h) => Apart(s, k))
<1>1. s.seq \in Nat /\ s.len \in Nat /\ h.iss \in Nat /\ h.end \in Nat /\ k.iss \in Nat /\ k.end \in Nat
  BY DEF Segment, Streams
<1>2. Belongs(s, k)
  BY <1>1 DEF Widens, Belongs
<1>3. Apart(s, h) => Apart(s, k)
  BY <1>1 DEF Widens, Belongs, Apart
<1> QED
  BY <1>2, <1>3

\* So does what has been received.
LEMMA ListensStable ==
  ASSUME NEW c \in Conn, NEW h \in Streams, NEW k \in Streams, Widens(h, k), Listens(c, h)
  PROVE  Listens(c, k)
<1>1. /\ h.iss \in Nat /\ h.end \in Nat /\ k.iss \in Nat /\ k.end \in Nat
      /\ c.irs \in Nat /\ c.rcv_nxt \in Nat /\ c.rcv_fin_seq \in Nat /\ c.app.got \in Nat
      /\ c.buf \in SUBSET Nat
  BY DEF Streams, Conn, App
<1>2. ASSUME Hears(c, h)
      PROVE  Hears(c, k)
  <2>1. CASE k.iss = h.iss /\ h.end <= k.end /\ (h.closed => k.closed /\ k.end = h.end)
    <3>1. c.irs = k.iss =>
            /\ c.rcv_nxt <= k.end + 1
            /\ c.rcv_nxt = k.end + 1 => k.closed
            /\ c.app.got = Lesser(c.rcv_nxt, k.end) - c.irs - 1
      BY <1>1, <1>2, <2>1 DEF Hears, Lesser
    <3>2. \A x \in c.buf : x < k.end
      BY <1>1, <1>2, <2>1 DEF Hears
    <3>3. c.irs = h.iss /\ c.rcv_nxt = h.end + 1 => k.end = h.end
      BY <1>2, <2>1 DEF Hears
    <3> QED
      BY <1>1, <1>2, <2>1, <3>1, <3>2, <3>3 DEF Hears
  <2>2. CASE h.end + 2 <= k.iss /\ h.iss + 3 <= k.iss /\ k.iss < k.end
    <3>1. \A x \in c.buf : x < h.end
      BY <1>2 DEF Hears
    <3>2. (\A x \in c.buf : x < k.end) /\ k.iss - 1 \notin c.buf
      BY <1>1, <2>2, <3>1
    <3>3. c.rcv_nxt < k.iss /\ c.irs < k.iss
      BY <1>1, <1>2, <2>2 DEF Hears
    <3> QED
      BY <1>1, <1>2, <2>2, <3>2, <3>3 DEF Hears
  <2> QED
    BY <2>1, <2>2 DEF Widens
<1> QED
  BY <1>1, <1>2 DEF Listens, Widens

\* What is sent belongs to the stream.
LEMMA OutBelongs ==
  ASSUME NEW d \in Conn, NEW h, OutReady(d, h), NEW s \in d.out
  PROVE  Belongs(s, Stream(d)) /\ (d.failed = {} => Apart(s, Stream(d)))
<1>1. /\ Stream(d).iss = d.iss /\ Stream(d).end = End(d) /\ Stream(d).closed = d.app.closed
      /\ s \in Segment
  BY DEF Stream, Conn
<1>2. CASE ~Text(s) /\ "SYN" \notin s.flags
  BY <1>2 DEF Belongs, Apart
<1>3. CASE Fits(d)
  BY <1>1, <1>3 DEF Fits, Own, Belongs, Apart
<1> QED
  BY <1>2, <1>3 DEF OutReady

-----------------------------------------------------------------------------
(* Kinds of handlers *)

\* A handler of a connection that is coming up or is up.  c is the connection c0 with what
\* the application has noted and put into the queue.
LEMMA MovesFlows ==
  ASSUME NEW c0 \in Conn, NEW c \in Conn, NEW d, NEW s \in Segment, NEW h \in Streams,
         c.fsm \in Live, Fits(c), FinKnown(c), Listens(c, h), Moves(c, d, s, h),
         c0.fsm = c.fsm, c0.irs = c.irs, c0.app.got = c.app.got, c0.snd_una = c.snd_una,
         Widens(Stream(c0), Stream(c)),
         d.snd_una = c.snd_una \/ Echo(s),
         NextState(d) \in {"LISTEN", "SYN_RCVD"} =>
           /\ d.rcv_nxt = c.rcv_nxt /\ d.fin_rcvd = c.fin_rcvd /\ d.app.got = c.app.got
           /\ NextState(d) = "LISTEN" \/ ~d.active => d.app.wrote = 0 /\ ~d.app.closed
           /\ NextState(d) = "LISTEN" => d.snd_una <= d.iss + 1
           /\ c.fsm = "SYN_RCVD",
         c.fsm = "SYN_SENT" =>
           /\ c.active
           /\ NextState(d) \in {"SYN_SENT", "CLOSED"} /\ \A x \in d.out : ~Echo(x)
           /\ d.app.got = c.app.got /\ d.fin_rcvd = c.fin_rcvd
  PROVE  Flows(c0, d, s, h) /\ Lasts(c0, d) /\ d.app.wrote = c.app.wrote
<1>1. d \in Conn /\ d.fsm = c.fsm /\ d.irs = c.irs /\ d.iss = c.iss /\ d.app.wrote = c.app.wrote
      /\ d.app.closed = c.app.closed /\ c.app.got <= d.app.got /\ d.active = c.active
      /\ d.snd_una \in {c.snd_una, s.ack} /\ Fits(d) /\ FinKnown(d)
      /\ (Hears(c, h) => Hears(d, h))
  BY DEF Moves
<1>2. Stream(d) = Stream(c)
  BY <1>1 DEF Stream, End
<1>3. c.fsm \in {"SYN_SENT"} \cup Heard /\ d.fsm \notin {"INIT", "LISTEN", "CLOSED"}
  BY <1>1 DEF Live, Heard, Embryonic, Synchronized
<1>4. c.fsm \in Heard => Hears(d, h)
  BY <1>1 DEF Listens
<1>5. NextState(d) # "INIT" /\ (NextState(d) = "SYN_SENT" => c.fsm = "SYN_SENT")
  BY <1>1, <1>3, StreamStates
<1>6. SpeaksReady(d)
  BY <1>1, <1>3, <1>5 DEF SpeaksReady
<1>7. d.irs # 0 /\ d.irs = h.iss => d.app.got <= h.end - h.iss - 1
  <2>1. CASE c.fsm \in Heard
    <3>1. h.end \in Nat /\ h.iss \in Nat /\ d.rcv_nxt \in Nat
      BY <1>1 DEF Streams, Conn
    <3> QED
      BY <1>4, <2>1, <3>1 DEF Hears, Lesser
  <2>2. CASE c.fsm = "SYN_SENT"
    BY <1>1, <2>2 DEF Listens
  <2> QED
    BY <1>3, <2>1, <2>2
<1>8. ListensReady(d, h)
  <2>1. NextState(d) \in Heard => c.fsm \in Heard
    BY <1>3 DEF Heard, Synchronized
  <2>2. NextState(d) \in Unheard => d.app.got = 0 /\ ~d.fin_rcvd
    BY <1>5 DEF Unheard, Listens
  <2>3. NextState(d) = "SYN_RCVD" => d.rcv_nxt = d.irs + 1
    BY <1>1 DEF Listens
  <2>4. d.irs <= h.iss
    BY <1>1 DEF Listens
  <2> QED
    BY <1>4, <1>7, <2>1, <2>2, <2>3, <2>4 DEF ListensReady
<1>9. OutReady(d, h)
  <2>1. Hears(d, h) \/ \A x \in d.out : ~Echo(x)
    BY <1>3, <1>4
  <2>2. NextState(d) \in Unheard => \A x \in d.out : Echo(x) => x.ack <= d.irs + 1
    <3>1. CASE c.fsm = "SYN_SENT"
      BY <3>1
    <3>2. CASE c.fsm \in Heard
      <4> SUFFICES ASSUME NextState(d) \in Unheard
                   PROVE  \A x \in d.out : Echo(x) => x.ack <= d.irs + 1
        OBVIOUS
      <4>1. NextState(d) \in {"LISTEN", "SYN_RCVD"}
        BY <1>5, <3>2 DEF Unheard, Heard, Synchronized
      <4>2. d.rcv_nxt = d.irs + 1
        BY <1>1, <4>1 DEF Listens
      <4> QED
        BY <1>4, <3>2, <4>2 DEF Hears, Echoes
    <3> QED
      BY <1>3, <3>1, <3>2
  <2> QED
    BY <1>1, <2>1, <2>2 DEF OutReady
<1>10. c.fsm \in Synchronized => NextState(d) \in Synchronized \cup {"CLOSED"}
  BY <1>1, NextStateTable
<1>11. c0.fsm \in Synchronized \cup {"CLOSED"} => c.fsm \in Synchronized
  BY DEF Live, Embryonic, Synchronized
<1>12. c0.fsm # "INIT"
  BY DEF Live, Embryonic, Synchronized
<1> QED
  BY <1>1, <1>2, <1>6, <1>8, <1>9, <1>10, <1>11, <1>12 DEF Flows, Lasts

\* A handler of a connection that is not up and stays so.
LEMMA StillPasses ==
  ASSUME NEW c \in Conn, NEW d \in Conn, NEW s \in Segment, NEW h \in Streams,
         c.fsm \notin Live, Speaks(c), Listens(c, h), SameQueues(c, d), d.fsm = c.fsm,
         d.iss = c.iss, d.irs = c.irs, d.app.wrote = c.app.wrote, d.app.got = c.app.got,
         c.app.closed => d.app.closed,
         NextState(d) = "CLOSED" \/ (NextState(d) = d.fsm /\ d.app.closed = c.app.closed),
         d.event \in {"IGNORE", "CLOSE", "ABORT"},
         \A x \in d.out : ~Text(x) /\ "SYN" \notin x.flags /\ ~Echo(x)
  PROVE  Passes(c, d, s, h)
<1>1. c.fsm \in {"INIT", "LISTEN", "CLOSED"}
  BY DEF Conn, Live, Embryonic, Synchronized
<1>2. NextState(d) \in {"INIT", "LISTEN", "CLOSED"}
  BY <1>1
<1>3. FinKnown(d)
  BY <1>1 DEF Speaks, FinKnown, SameQueues
<1>4. SpeaksReady(d)
  BY <1>1, <1>2, <1>3 DEF Speaks, SpeaksReady, SameQueues, Live, Embryonic, Synchronized
<1>5. ListensReady(d, h)
  BY <1>1, <1>2 DEF Listens, ListensReady, SameQueues, Heard, Unheard, Synchronized
<1>6. OutReady(d, h)
  BY DEF OutReady
<1>7. Widens(Stream(c), Stream(d))
  <2>1. End(c) \in Nat
    BY DEF End, Conn, App
  <2>2. Stream(d).iss = Stream(c).iss /\ Stream(d).end = Stream(c).end
    BY DEF Stream, End
  <2>3. Stream(c).end = End(c) /\ Stream(c).closed = c.app.closed /\ Stream(d).closed = d.app.closed
    BY DEF Stream
  <2> QED
    BY <2>1, <2>2, <2>3 DEF Widens
<1>8. c.fsm = "CLOSED" => NextState(d) = "CLOSED"
  BY <1>1, StreamStates
<1>10. c.fsm = "INIT" => NextState(d) = "INIT"
  BY SMTT(30) DEF NextState, Transitions
<1>9. c.app.got \in Nat
  BY DEF Conn, App
<1> QED
  BY <1>1, <1>2, <1>4, <1>5, <1>6, <1>7, <1>8, <1>9, <1>10
  DEF Passes, Flows, Lasts, Live, Embryonic, Synchronized

\* Neither half of the streams has moved.
Unmoved(c, d) ==
  /\ d.rcv_nxt = c.rcv_nxt /\ d.fin_rcvd = c.fin_rcvd
  /\ d.app.got = c.app.got /\ d.snd_una = c.snd_una

\* A timer or a segment, while the connection is coming up or is up.
LEMMA EventPasses ==
  ASSUME NEW c \in Conn, ConnInv(c), NEW d, NEW s \in Segment, NEW h \in Streams,
         c.fsm \in Live, Speaks(c), Listens(c, h), Moves(c, d, s, h),
         d.snd_una = c.snd_una \/ Echo(s),
         NextState(d) \in Unheard => Unmoved(c, d),
         c.fsm = "SYN_SENT" =>
           /\ NextState(d) \in {"SYN_SENT", "CLOSED"} /\ \A x \in d.out : ~Echo(x)
           /\ Unmoved(c, d)
  PROVE  Passes(c, d, s, h)
<1>1. d \in Conn /\ d.fsm = c.fsm /\ d.active = c.active /\ d.iss = c.iss
      /\ d.app.wrote = c.app.wrote /\ d.app.closed = c.app.closed
  BY DEF Moves
<1>2. Fits(c) /\ FinKnown(c)
  BY DEF Speaks
<1>3. NextState(d) \in {"LISTEN", "SYN_RCVD"} => c.fsm = "SYN_RCVD" /\ (NextState(d) = "LISTEN" => ~d.active)
  BY <1>1, StreamStates DEF Live, Embryonic, Synchronized
<1>4. c.fsm = "SYN_RCVD" => c.snd_una <= c.iss + 1
  BY DEF ConnInv, SentIsQueued, SentInOrder, Embryonic, Conn
<1>5. Widens(Stream(c), Stream(c))
  BY StreamType DEF Widens, Streams
<1>6. c.fsm = "SYN_RCVD" /\ ~c.active => c.app.wrote = 0 /\ ~c.app.closed
  BY DEF Speaks
<1>7. NextState(d) \in {"LISTEN", "SYN_RCVD"} =>
           /\ d.rcv_nxt = c.rcv_nxt /\ d.fin_rcvd = c.fin_rcvd /\ d.app.got = c.app.got
           /\ NextState(d) = "LISTEN" \/ ~d.active => d.app.wrote = 0 /\ ~d.app.closed
           /\ NextState(d) = "LISTEN" => d.snd_una <= d.iss + 1
           /\ c.fsm = "SYN_RCVD"
  BY <1>1, <1>3, <1>4, <1>6 DEF Unmoved, Unheard
<1> QED
  BY <1>2, <1>5, <1>7, MovesFlows DEF Unmoved, Speaks, Passes

\* Segments are sent and nothing else happens.
LEMMA SendsPasses ==
  ASSUME NEW c \in Conn, ConnInv(c), NEW d, NEW s \in Segment, NEW h \in Streams,
         c.fsm \in Live, Speaks(c), Listens(c, h), Sends(c, d),
         c.fsm = "SYN_SENT" => \A x \in d.out : ~Echo(x)
  PROVE  Passes(c, d, s, h)
<1>1. d \in Conn /\ d.fsm = c.fsm /\ d.event = "IGNORE" /\ Unmoved(c, d)
  BY DEF Sends, Kept, ConnInv, Unmoved
<1>2. NextState(d) = c.fsm
  BY <1>1, IgnoreStays
<1>3. Moves(c, d, s, h)
  BY SendsMoves
<1> QED
  BY <1>1, <1>2, <1>3, EventPasses DEF Unmoved

\* A reset or a SYN that comes out of the blue, from where the indication has been made.
LEMMA RaisedPasses ==
  ASSUME NEW c \in Conn, ConnInv(c), NEW b \in Conn, NEW s \in Segment, NEW h \in Streams,
         c.fsm \in Live, Speaks(c), Listens(c, h), Moves(c, b, s, h), Unmoved(c, b),
         NEW ev \in {"RCV_RST", "RCV_UNEXP_SYN", "TIMEOUT_CONN_ESTAB", "TIMEOUT_2MSL", "ABORT"},
         c.fsm = "SYN_SENT" =>
           b.out = c.out /\ ev \in {"RCV_RST", "TIMEOUT_CONN_ESTAB", "ABORT"}
  PROVE  Passes(c, Raise(b, ev), s, h)
<1> DEFINE d == Raise(b, ev)
<1>1. ev \in Events /\ ev \notin {"RCV_FIN", "RCV_FIN_ACK", "RCV_ACK"}
  BY DEF Events
<1>2. d \in Conn /\ d.event = ev /\ d.fsm = b.fsm /\ d.app = b.app
  BY <1>1, RaiseAlike
<1>3. d.rcv_nxt = b.rcv_nxt /\ d.fin_rcvd = b.fin_rcvd /\ d.snd_una = b.snd_una /\ d.out = b.out
  BY DEF Raise, Conn
<1>4. Moves(b, d, s, h)
  BY <1>1, RaiseMoves
<1>5. b.fsm = c.fsm
  BY DEF Moves
<1> HIDE DEF d
<1>6. Moves(c, d, s, h) /\ Unmoved(c, d)
  BY <1>2, <1>3, <1>4, MovesTransitive DEF Unmoved
<1>7. c.fsm = "SYN_SENT" => NextState(d) = "CLOSED"
  BY <1>2, <1>5, NextStateTable
<1>8. c.fsm = "SYN_SENT" => \A x \in d.out : ~Echo(x)
  BY <1>3 DEF ConnInv
<1> QED
  BY <1>6, <1>7, <1>8, EventPasses DEF d, Unmoved

\* A reset.
LEMMA RstPasses ==
  ASSUME NEW c \in Conn, ConnInv(c), NEW s \in Segment, NEW h \in Streams,
         c.fsm \in Heard, Speaks(c), Listens(c, h)
  PROVE  Passes(c, ProcessRst(c), s, h)
<1> DEFINE b == [c EXCEPT !.q_begin = c.q_end]
<1>1. c.fsm \in Live /\ c.fsm # "SYN_SENT"
  BY DEF Heard, Live, Embryonic, Synchronized
<1>2. "CONNECTION_REFUSED" \in Indications /\ "CONNECTION_RESET" \in Indications
  BY DEF Indications, Errors
<1>3. Moves(c, c, s, h) /\ Unmoved(c, c)
  BY SendsItself, SendsMoves DEF Unmoved
<1>4. ASSUME NEW a \in Conn, Moves(c, a, s, h), Unmoved(c, a), NEW k \in Indications
      PROVE  Indicate(a, k) \in Conn /\ Moves(c, Indicate(a, k), s, h) /\ Unmoved(c, Indicate(a, k))
  <2> DEFINE i == Indicate(a, k)
  <2>1. i \in Conn /\ SameHalves(a, i) /\ SameQueues(a, i)
    BY IndicateHalves
  <2>2. Moves(a, i, s, h)
    BY IndicateMoves
  <2> HIDE DEF i
  <2>3. Moves(c, i, s, h) /\ Unmoved(c, i)
    BY <1>4, <2>1, <2>2, MovesTransitive DEF SameHalves, SameQueues, Unmoved
  <2> QED
    BY <2>1, <2>3 DEF i
<1>5. CASE c.fsm = "SYN_RCVD"
  <2>1. b \in Conn
    BY DEF Conn
  <2>2. /\ Kept(c, b) /\ b.q_begin = c.q_end /\ b.failed = c.failed /\ b.out = c.out
    BY DEF Conn, Kept
  <2> HIDE DEF b
  <2>3. Fits(c) => Fits(b)
    BY <2>1, <2>2 DEF Fits, Own, End, Kept, Conn, App
  <2>4. Sends(c, b)
    BY <2>1, <2>2, <2>3 DEF Sends, Kept, Echoes
  <2>5. Moves(c, b, s, h) /\ Unmoved(c, b)
    BY <2>4, SendsMoves DEF Sends, Kept, Unmoved
  <2> DEFINE i == IF c.active THEN Indicate(b, "CONNECTION_REFUSED") ELSE b
  <2>6. i \in Conn /\ Moves(c, i, s, h) /\ Unmoved(c, i)
    BY <1>2, <1>4, <2>1, <2>5
  <2> HIDE DEF i
  <2>7. Passes(c, Raise(i, "RCV_RST"), s, h)
    BY <1>1, <2>6, RaisedPasses
  <2> QED
    BY <1>5, <2>7 DEF ProcessRst, i, b
<1>6. CASE c.fsm # "SYN_RCVD"
  <2> DEFINE i == Indicate(c, "CONNECTION_RESET")
  <2>1. i \in Conn /\ Moves(c, i, s, h) /\ Unmoved(c, i)
    BY <1>2, <1>3, <1>4
  <2> HIDE DEF i
  <2>2. Passes(c, Raise(i, "RCV_RST"), s, h) /\ Passes(c, Raise(c, "RCV_RST"), s, h)
    BY <1>1, <1>3, <2>1, RaisedPasses
  <2> QED
    BY <1>6, <2>2 DEF ProcessRst, i
<1> QED
  BY <1>5, <1>6

\* Any segment, once the SYN of the peer has been received.
LEMMA HeardPasses ==
  ASSUME NEW c \in Conn, ConnInv(c), NEW s \in Segment, NEW h \in Streams,
         c.fsm \in Heard, Speaks(c), Listens(c, h), Belongs(s, h), Apart(s, h)
  PROVE  Passes(c, ProcessSegment1stThru8th(c, s), s, h)
<1>1. c.fsm \in Live /\ c.fsm # "SYN_SENT" /\ s.ack \in Nat
  BY DEF Heard, Live, Embryonic, Synchronized, Segment
<1>2. /\ Passes(c, c, s, h) /\ Passes(c, SendAck(c), s, h)
      /\ Passes(c, SendRst(c, s.ack), s, h)
  BY <1>1, SendsItself, SendAckSends, SendRstSends, SendsPasses
<1>3. Passes(c, ProcessRst(c), s, h)
  BY RstPasses
<1>4. Passes(c, Raise(Indicate(c, "CONNECTION_RESET"), "RCV_UNEXP_SYN"), s, h)
  <2> DEFINE i == Indicate(c, "CONNECTION_RESET")
  <2>1. "CONNECTION_RESET" \in Indications
    BY DEF Indications, Errors
  <2>2. i \in Conn /\ SameHalves(c, i) /\ SameQueues(c, i) /\ Moves(c, i, s, h)
    BY <2>1, IndicateHalves, IndicateMoves
  <2> HIDE DEF i
  <2>3. Unmoved(c, i)
    BY <2>2 DEF SameHalves, SameQueues, Unmoved
  <2> QED
    BY <1>1, <2>2, <2>3, RaisedPasses DEF i
<1>5. ASSUME c.fsm # "TIME_WAIT" => s.ack <= c.snd_max, "ACK" \in s.flags, "RST" \notin s.flags
      PROVE  Passes(c, ProcessAckTextFin(c, s), s, h)
  <2> DEFINE d == ProcessAckTextFin(c, s)
  <2>1. Moves(c, d, s, h) /\ (c.fsm = "SYN_RCVD" => NextState(d) \in Synchronized)
    BY <1>5, AckTextFinMoves
  <2> HIDE DEF d
  <2>2. d \in Conn /\ d.fsm = c.fsm
    BY <2>1 DEF Moves
  <2>3. NextState(d) \notin Unheard
    BY <2>1, <2>2, NextStateTable DEF Heard, Synchronized, Unheard
  <2>4. Echo(s)
    BY <1>5 DEF Echo
  <2> QED
    BY <1>1, <2>1, <2>3, <2>4, EventPasses DEF d
<1>6. c.fsm # "TIME_WAIT" /\ ~(s.ack > c.snd_max) => s.ack <= c.snd_max
  BY <1>1 DEF Conn
<1> QED
  BY <1>2, <1>3, <1>4, <1>5, <1>6 DEF ProcessSegment1stThru8th

-----------------------------------------------------------------------------
(* Timers *)

\* The SYN, and the SYN with an ACK.
LEMMA SendSynSends ==
  ASSUME NEW c \in Conn
  PROVE  Sends(c, SendSyn(c)) /\ Sends(c, SendSynAck(c))
<1> DEFINE x == Seg({"SYN"}, c.iss, 0, 0)
           y == Seg({"SYN", "ACK"}, c.iss, c.rcv_nxt, 0)
           n == c.iss + 1
<1>1. x \in Segment /\ y \in Segment /\ n \in Nat
  BY SegType DEF Conn, Flags
<1>2. Own(c, x) /\ Own(c, y) /\ ~Echo(x) /\ y.ack = c.rcv_nxt
  BY DEF Seg, Own, Text, Echo
<1> HIDE DEF x, y, n
<1>3. Sends(c, Emit(c, x)) /\ Sends(c, Emit(c, y))
  BY <1>1, <1>2, EmitSends
<1>4. ASSUME NEW b \in Conn
      PROVE  Sends(b, [b EXCEPT !.snd_nxt = n, !.snd_max = n])
  <2> DEFINE d == [b EXCEPT !.snd_nxt = n, !.snd_max = n]
  <2>1. d \in Conn
    BY <1>1 DEF Conn
  <2>2. Kept(b, d) /\ d.q_begin = b.q_begin /\ d.failed = b.failed /\ d.out = b.out
    BY DEF Conn, Kept
  <2> QED
    BY <2>1, <2>2, AsideSends
<1>5. /\ Sends(c, [Emit(c, x) EXCEPT !.snd_nxt = n, !.snd_max = n])
      /\ Sends(c, [Emit(c, y) EXCEPT !.snd_nxt = n, !.snd_max = n])
  <2>1. Emit(c, x) \in Conn /\ Emit(c, y) \in Conn
    BY <1>3 DEF Sends
  <2> QED
    BY <1>3, <1>4, <2>1, SendsTransitive
<1> QED
  BY <1>5 DEF SendSyn, SendSynAck, x, y, n

\* A timer that should not be running ends the simulation.
LEMMA TimerFails ==
  ASSUME NEW c \in Conn, ConnInv(c), NEW s \in Segment, NEW h \in Streams, Speaks(c), Listens(c, h)
  PROVE  Passes(c, Fail(c, "timer"), s, h)
<1> DEFINE d == Fail(c, "timer")
<1>1. d \in Conn /\ Kept(c, d) /\ SameQueues(c, d) /\ d.out = c.out /\ d.failed # {}
  BY DEF Fail, Conn, Failures, Kept, SameQueues
<1> HIDE DEF d
<1>2. CASE c.fsm \in Live
  <2>1. Sends(c, d)
    BY <1>1 DEF Sends, Kept, SameQueues, Fits, Own, End, Echoes
  <2> QED
    BY <1>1, <1>2, <2>1, SendsPasses DEF ConnInv, d
<1>3. CASE c.fsm \notin Live
  <2>1. NextState(d) = d.fsm
    BY <1>1, IgnoreStays DEF Kept, ConnInv
  <2> QED
    BY <1>1, <1>3, <2>1, StillPasses DEF Kept, ConnInv, d
<1> QED
  BY <1>2, <1>3

\* SYN-REXMIT.
LEMMA SynRexmitPasses ==
  ASSUME NEW c \in Conn, ConnInv(c), NEW s \in Segment, NEW h \in Streams, Speaks(c), Listens(c, h)
  PROVE  Passes(c, ProcessSynRexmitTimer(c), s, h)
<1> DEFINE b == [c EXCEPT !.syn_rexmit_count = @ + 1]
<1>1. b \in Conn
  BY DEF Conn
<1>2. Kept(c, b) /\ b.q_begin = c.q_begin /\ b.failed = c.failed /\ b.out = c.out /\ b.iss = c.iss
  BY DEF Conn, Kept
<1> HIDE DEF b
<1>3. Sends(c, b)
  BY <1>1, <1>2, AsideSends
<1>4. Sends(c, SendSyn(b)) /\ Sends(c, SendSynAck(b))
  BY <1>1, <1>3, SendSynSends, SendsTransitive
<1>5. CASE c.fsm = "SYN_SENT"
  <2>1. SendSyn(b).out = {Seg({"SYN"}, c.iss, 0, 0)}
    BY <1>1, <1>2 DEF SendSyn, Emit, Conn, ConnInv
  <2>2. \A x \in SendSyn(b).out : ~Echo(x)
    BY <2>1 DEF Seg, Echo
  <2>3. Passes(c, SendSyn(b), s, h)
    BY <1>4, <1>5, <2>2, SendsPasses DEF Live, Embryonic
  <2> QED
    BY <1>5, <2>3 DEF ProcessSynRexmitTimer, b
<1>6. CASE c.fsm = "SYN_RCVD"
  <2>1. Passes(c, SendSynAck(b), s, h)
    BY <1>4, <1>6, SendsPasses DEF Live, Embryonic
  <2> QED
    BY <1>6, <2>1 DEF ProcessSynRexmitTimer, b
<1>7. CASE c.fsm \notin {"SYN_SENT", "SYN_RCVD"}
  BY <1>7, TimerFails DEF ProcessSynRexmitTimer
<1> QED
  BY <1>5, <1>6, <1>7

\* CONN-ESTAB.
LEMMA ConnEstabPasses ==
  ASSUME NEW c \in Conn, ConnInv(c), NEW s \in Segment, NEW h \in Streams, Speaks(c), Listens(c, h)
  PROVE  Passes(c, ProcessConnEstabTimer(c), s, h)
<1> DEFINE b == [c EXCEPT !.timers = @ \ {"connEstab"}]
           i == IF c.active THEN Indicate(b, "TIMED_OUT") ELSE b
<1>1. b \in Conn
  BY DEF Conn
<1>2. Kept(c, b) /\ b.q_begin = c.q_begin /\ b.failed = c.failed /\ b.out = c.out
  BY DEF Conn, Kept
<1> HIDE DEF b
<1>3. Moves(c, b, s, h) /\ Unmoved(c, b)
  BY <1>1, <1>2, AsideSends, SendsMoves DEF Kept, Unmoved
<1>4. i \in Conn /\ Moves(c, i, s, h) /\ Unmoved(c, i) /\ i.out = c.out
  <2> DEFINE t == Indicate(b, "TIMED_OUT")
  <2>1. "TIMED_OUT" \in Indications
    BY DEF Indications, Errors
  <2>2. t \in Conn /\ SameHalves(b, t) /\ SameQueues(b, t) /\ t.out = b.out /\ Moves(b, t, s, h)
    BY <1>1, <2>1, IndicateHalves, IndicateMoves
  <2> HIDE DEF t
  <2>3. Moves(c, t, s, h) /\ Unmoved(c, t)
    BY <1>1, <1>3, <2>2, MovesTransitive DEF SameHalves, SameQueues, Unmoved
  <2> QED
    BY <1>1, <1>2, <1>3, <2>2, <2>3 DEF t
<1> HIDE DEF i
<1>5. CASE c.fsm \in Embryonic
  <2>1. Passes(c, Raise(i, "TIMEOUT_CONN_ESTAB"), s, h)
    BY <1>4, <1>5, RaisedPasses DEF Live
  <2> QED
    BY <1>5, <2>1 DEF ProcessConnEstabTimer, i, b
<1>6. CASE c.fsm \notin Embryonic
  BY <1>6, TimerFails DEF ProcessConnEstabTimer
<1> QED
  BY <1>5, <1>6

\* REXMIT: once more, or the connection is given up.
LEMMA RexmitPasses ==
  ASSUME NEW c \in Conn, ConnInv(c), "rexmit" \in c.timers, NEW s \in Segment, NEW h \in Streams,
         Speaks(c), Listens(c, h)
  PROVE  Passes(c, ProcessRexmitTimer(c), s, h)
<1> DEFINE left == c.timers \ {"rexmit"}
           count == c.rexmit_count + 1
           b == [c EXCEPT !.timers = left, !.rexmit_count = count]
           i == Indicate(b, "TIMED_OUT")
           t == StartTimer(b, "rexmit")
<1>0. left \in SUBSET Timers /\ count \in Nat
  BY DEF Conn
<1> HIDE DEF left, count
<1>1. b \in Conn
  BY <1>0 DEF Conn
<1>2. /\ Kept(c, b) /\ b.q_begin = c.q_begin /\ b.failed = c.failed /\ b.out = c.out
      /\ b.snd_max = c.snd_max
  BY DEF Conn, Kept
<1> HIDE DEF b
<1>3. c.fsm \in Synchronized /\ c.fsm \in Live /\ c.fsm # "SYN_SENT" /\ SentInOrder(c)
  BY DEF ConnInv, SentIsQueued, Live, Synchronized
<1>4. Sends(c, b) /\ Moves(c, b, s, h) /\ Unmoved(c, b)
  BY <1>1, <1>2, AsideSends, SendsMoves DEF Kept, Unmoved
<1>5. i \in Conn /\ Moves(c, i, s, h) /\ Unmoved(c, i)
  <2>1. "TIMED_OUT" \in Indications
    BY DEF Indications, Errors
  <2>2. i \in Conn /\ SameHalves(b, i) /\ SameQueues(b, i) /\ Moves(b, i, s, h)
    BY <1>1, <2>1, IndicateHalves, IndicateMoves
  <2> HIDE DEF i
  <2> QED
    BY <1>1, <1>4, <2>2, MovesTransitive DEF SameHalves, SameQueues, Unmoved
<1> HIDE DEF i
<1>6. Passes(c, Raise(i, "ABORT"), s, h)
  BY <1>3, <1>5, RaisedPasses
<1>7. Passes(c, RetransmitOneSegment(t), s, h)
  <2>1. SentInOrder(b)
    BY <1>2, <1>3 DEF Kept, SentInOrder
  <2>2. t \in Conn /\ Sends(b, t) /\ SentInOrder(t)
    BY <1>1, <2>1, StartTimerSends, StartTimerQuiet DEF Timers, HandshakeTimers, Quiet, Progress
  <2> HIDE DEF t
  <2>3. Sends(c, RetransmitOneSegment(t))
    BY <1>1, <1>4, <2>2, RetransmitOneSegmentSends, SendsTransitive
  <2> QED
    BY <1>3, <2>3, SendsPasses
<1> QED
  BY <1>6, <1>7 DEF ProcessRexmitTimer, i, t, b, left, count

\* 2MSL.
LEMMA TwoMSLPasses ==
  ASSUME NEW c \in Conn, ConnInv(c), NEW s \in Segment, NEW h \in Streams, Speaks(c), Listens(c, h)
  PROVE  Passes(c, Process2MSLTimer(c), s, h)
<1> DEFINE b == [c EXCEPT !.timers = @ \ {"2msl"}]
<1>1. b \in Conn
  BY DEF Conn
<1>2. Kept(c, b) /\ b.q_begin = c.q_begin /\ b.failed = c.failed /\ b.out = c.out
  BY DEF Conn, Kept
<1> HIDE DEF b
<1>3. Moves(c, b, s, h) /\ Unmoved(c, b)
  BY <1>1, <1>2, AsideSends, SendsMoves DEF Kept, Unmoved
<1>4. c.fsm = "TIME_WAIT" => Passes(c, Raise(b, "TIMEOUT_2MSL"), s, h)
  BY <1>1, <1>3, RaisedPasses DEF Live, Synchronized, States
<1> QED
  BY <1>4, TimerFails DEF Process2MSLTimer, b

-----------------------------------------------------------------------------
(* Segments, before the SYN of the peer *)

\* There is no connection.
LEMMA ClosedPasses ==
  ASSUME NEW c \in Conn, ConnInv(c), NEW s \in Segment, NEW h \in Streams, Speaks(c), Listens(c, h),
         c.fsm \in {"INIT", "CLOSED", "LISTEN"}, NEW x \in Segment, "RST" \in x.flags, x.len = 0,
         "SYN" \notin x.flags, "FIN" \notin x.flags
  PROVE  Passes(c, c, s, h) /\ Passes(c, Emit(c, x), s, h)
<1> DEFINE d == Emit(c, x)
<1>1. d \in Conn
  BY EmitQuiet DEF Quiet
<1>2. /\ SameQueues(c, d) /\ d.fsm = c.fsm /\ d.iss = c.iss /\ d.irs = c.irs /\ d.app = c.app
      /\ d.event = c.event /\ d.out = c.out \cup {x}
  BY DEF Emit, Conn, SameQueues
<1> HIDE DEF d
<1>3. c.fsm \notin Live
  BY DEF Live, Embryonic, Synchronized
<1>4. c.event = "IGNORE" /\ c.out = {} /\ NextState(c) = c.fsm /\ NextState(d) = d.fsm
  BY <1>1, <1>2, IgnoreStays DEF ConnInv
<1>5. ~Text(x) /\ ~Echo(x)
  BY DEF Text, Echo
<1>6. SameQueues(c, c)
  BY DEF SameQueues
<1>7. Passes(c, c, s, h)
  BY <1>3, <1>4, <1>6, StillPasses
<1>8. Passes(c, d, s, h)
  BY <1>1, <1>2, <1>3, <1>4, <1>5, StillPasses
<1> QED
  BY <1>7, <1>8 DEF d

\* A SYN: the stream of the peer begins for c, or an old stream does.  b is c with the SYN
\* taken note of.
LEMMA SynPasses ==
  ASSUME NEW c \in Conn, NEW b \in Conn, NEW d, NEW s \in Segment, NEW h \in Streams,
         c.fsm \in {"LISTEN", "SYN_SENT"}, b.fsm = c.fsm,
         Apart(s, h), "SYN" \in s.flags, h.iss < h.end,
         b.irs = s.seq, b.rcv_nxt = s.seq + 1, b.buf = {}, b.app.got = 0, ~b.fin_rcvd,
         b.out = {}, b.event = "IGNORE",
         Fits(b), FinKnown(b), Widens(Stream(c), Stream(b)), b.app.wrote = c.app.wrote,
         Moves(b, d, s, h), d.rcv_nxt = b.rcv_nxt, d.app.got = 0, ~d.fin_rcvd,
         NextState(d) \in {"SYN_RCVD", "ESTABLISHED"},
         d.active \/ (d.app.wrote = 0 /\ ~d.app.closed),
         d.snd_una <= d.iss + 1 \/ (Echo(s) /\ d.snd_una = s.ack)
  PROVE  Passes(c, d, s, h)
<1>1. h.iss \in Nat /\ h.end \in Nat /\ s.seq \in Nat
  BY DEF Streams, Segment
<1>2. s.seq <= h.iss /\ (s.seq < h.iss => s.seq <= h.iss - 3)
  BY <1>1 DEF Apart
<1>3. Hears(b, h)
  <2>1. Echoes(b)
    BY DEF Echoes
  <2>2. b.fsm \notin FinTaken
    BY DEF FinTaken
  <2> QED
    BY <1>1, <1>2, <2>1, <2>2 DEF Hears, Lesser
<1>4. /\ d \in Conn /\ d.irs = b.irs /\ d.iss = b.iss /\ d.fsm = b.fsm
      /\ d.app.wrote = b.app.wrote /\ d.app.closed = b.app.closed
      /\ Fits(d) /\ FinKnown(d) /\ Hears(d, h)
  BY <1>3 DEF Moves
<1>5. Stream(d) = Stream(b)
  BY <1>4 DEF Stream, End
<1>6. SpeaksReady(d)
  BY <1>4 DEF SpeaksReady
<1>7. ListensReady(d, h)
  BY <1>1, <1>2, <1>4 DEF ListensReady
<1>8. OutReady(d, h)
  BY <1>4 DEF OutReady, Hears, Echoes
<1>9. c.fsm \notin Synchronized \cup {"CLOSED", "INIT"}
  BY DEF Synchronized
<1> QED
  BY <1>4, <1>5, <1>6, <1>7, <1>8, <1>9 DEF Passes, Flows, Lasts

\* The three way handshake of a listener.
LEMMA ListenSynPasses ==
  ASSUME NEW c \in Conn, ConnInv(c), NEW s \in Segment, NEW h \in Streams, Speaks(c), Listens(c, h),
         c.fsm = "LISTEN", Apart(s, h), "SYN" \in s.flags, h.iss < h.end,
         c.app.wrote + 3 <= IssStep,
         NEW n, n = [c EXCEPT !.rcv_nxt = s.seq + 1, !.irs = s.seq, !.buf = {}],
         NEW d, d = Raise(StartTimer(StartSynRexmitTimer(SendSynAck(SelectInitialSeqNum(n))),
                                     "connEstab"), "RCV_SYN")
  PROVE  Passes(c, d, s, h)
<1> DEFINE iss == c.iss + IssStep
           next == iss + 1
           b == SelectInitialSeqNum(n)
           a == SendSynAck(b)
           r == StartTimer(a, "synRexmit")
           t == [r EXCEPT !.syn_rexmit_count = 0]
           e == StartTimer(t, "connEstab")
<1>1. /\ s.seq \in Nat /\ s.seq + 1 \in Nat /\ iss \in Nat /\ next \in Nat /\ c.iss \in Nat
      /\ c.app \in App /\ c.app.wrote = 0 /\ c.app.got = 0 /\ ~c.app.closed /\ ~c.fin_rcvd
      /\ next = iss + 1 /\ iss = c.iss + IssStep
  BY ConnectionAssumption DEF Segment, Conn, Speaks, Listens, Unheard
<1>2. c.event = "IGNORE" /\ c.out = {} /\ ~c.send_fin /\ ~c.fin_ack_rcvd
  BY <1>1 DEF ConnInv, SocketMatches, Speaks, FinKnown, Conn
<1> HIDE DEF iss, next
<1>3. n \in Conn /\ n.iss = c.iss
  BY <1>1 DEF Conn
<1>4. b = [n EXCEPT !.iss = iss, !.snd_una = iss, !.snd_nxt = iss, !.snd_max = iss,
                    !.q_begin = next, !.q_end = next]
  BY <1>3 DEF SelectInitialSeqNum, iss, next
<1>5. b \in Conn
  BY <1>3, SelectFacts
<1> HIDE DEF b
<1>6. /\ b.iss = iss /\ b.q_begin = next /\ b.q_end = next /\ b.snd_una = iss
      /\ b.irs = s.seq /\ b.rcv_nxt = s.seq + 1 /\ b.buf = {} /\ b.fsm = c.fsm /\ b.app = c.app
      /\ b.out = {} /\ b.event = "IGNORE" /\ ~b.fin_rcvd /\ ~b.send_fin /\ ~b.fin_ack_rcvd
  <2>1. /\ n.irs = s.seq /\ n.rcv_nxt = s.seq + 1 /\ n.buf = {} /\ n.fsm = c.fsm /\ n.app = c.app
        /\ n.out = {} /\ n.event = "IGNORE" /\ n.fin_rcvd = c.fin_rcvd
        /\ n.send_fin = c.send_fin /\ n.fin_ack_rcvd = c.fin_ack_rcvd
    BY <1>2 DEF Conn
  <2>2. /\ b.iss = iss /\ b.q_begin = next /\ b.q_end = next /\ b.snd_una = iss
        /\ b.irs = n.irs /\ b.rcv_nxt = n.rcv_nxt /\ b.buf = n.buf /\ b.fsm = n.fsm
        /\ b.app = n.app /\ b.out = n.out /\ b.event = n.event /\ b.fin_rcvd = n.fin_rcvd
        /\ b.send_fin = n.send_fin /\ b.fin_ack_rcvd = n.fin_ack_rcvd
    BY <1>3, <1>4 DEF Conn
  <2> QED
    BY <1>1, <1>2, <2>1, <2>2
<1>7. Fits(b)
  BY <1>1, <1>6 DEF Fits, End
<1>8. FinKnown(b)
  BY <1>6 DEF FinKnown
<1>9. Widens(Stream(c), Stream(b))
  BY <1>1, <1>6, ConnectionAssumption DEF Widens, Stream, End
<1>10. Sends(b, a) /\ a \in Conn
  BY <1>5, SendSynSends DEF Sends
<1> HIDE DEF a
<1>11. Sends(a, r) /\ r \in Conn
  BY <1>10, StartTimerSends DEF Timers, Sends
<1> HIDE DEF r
<1>12. Sends(r, t) /\ t \in Conn
  <2>1. t \in Conn
    BY <1>11 DEF Conn
  <2>2. Kept(r, t) /\ t.q_begin = r.q_begin /\ t.failed = r.failed /\ t.out = r.out
    BY <1>11 DEF Conn, Kept
  <2> QED
    BY <1>11, <2>1, <2>2, AsideSends
<1> HIDE DEF t
<1>13. Sends(t, e) /\ e \in Conn
  BY <1>12, StartTimerSends DEF Timers, Sends
<1> HIDE DEF e
<1>14. Sends(b, e)
  BY <1>5, <1>10, <1>11, <1>12, <1>13, SendsTransitive
<1>15. d = Raise(e, "RCV_SYN")
  BY DEF StartSynRexmitTimer, e, t, r, a, b
<1>16. Moves(b, d, s, h) /\ d.rcv_nxt = b.rcv_nxt /\ d.app = b.app /\ d.fin_rcvd = b.fin_rcvd
       /\ d.snd_una = b.snd_una /\ d.iss = b.iss /\ NextState(d) = "SYN_RCVD"
  <2>1. "RCV_SYN" \in Events
    BY DEF Events
  <2>2. Moves(e, d, s, h)
    BY <1>13, <1>15, <2>1, RaiseMoves
  <2>3. /\ d \in Conn /\ d.event = "RCV_SYN" /\ d.fsm = e.fsm /\ d.app = e.app
        /\ d.rcv_nxt = e.rcv_nxt /\ d.fin_rcvd = e.fin_rcvd /\ d.snd_una = e.snd_una /\ d.iss = e.iss
    <3>1. d \in Conn
      BY <1>13, <1>15, <2>1, RaiseType
    <3>2. d = [e EXCEPT !.event = "RCV_SYN"]
      BY <1>15 DEF Raise
    <3> QED
      BY <1>13, <3>1, <3>2 DEF Conn
  <2>4. NextState(d) = "SYN_RCVD"
    BY <1>6, <1>14, <2>3, NextStateTable DEF Sends, Kept
  <2>5. Moves(b, e, s, h)
    BY <1>5, <1>14, SendsMoves
  <2>6. Moves(b, d, s, h)
    BY <1>5, <1>13, <2>2, <2>5, MovesTransitive
  <2> QED
    BY <1>14, <2>3, <2>4, <2>6 DEF Sends, Kept
<1> QED
  BY <1>1, <1>5, <1>6, <1>7, <1>8, <1>9, <1>16, SynPasses

\* Any segment that comes to a listener.
LEMMA ListenPasses ==
  ASSUME NEW c \in Conn, ConnInv(c), NEW s \in Segment, NEW h \in Streams, Speaks(c), Listens(c, h),
         c.fsm = "LISTEN", Apart(s, h), h.iss < h.end, c.app.wrote + 3 <= IssStep
  PROVE  Passes(c, ProcessSegmentInListen(c, s), s, h)
<1> DEFINE x == Seg({"RST"}, s.ack, 0, 0)
<1>1. x \in Segment
  BY SegType DEF Segment, Flags
<1>2. "RST" \in x.flags /\ x.len = 0 /\ "SYN" \notin x.flags /\ "FIN" \notin x.flags
  BY DEF Seg
<1> HIDE DEF x
<1>3. Passes(c, c, s, h) /\ Passes(c, Emit(c, x), s, h)
  BY <1>1, <1>2, ClosedPasses
<1> QED
  BY <1>3, ListenSynPasses DEF ProcessSegmentInListen, SendRst, x

\* Any segment where there is no connection.
LEMMA ArrivalPasses ==
  ASSUME NEW c \in Conn, ConnInv(c), NEW s \in Segment, NEW h \in Streams, Speaks(c), Listens(c, h),
         c.fsm \in {"INIT", "CLOSED"}
  PROVE  Passes(c, SegmentArrivalWhileClosed(c, s), s, h)
<1> DEFINE segLen == s.len + Cardinality(s.flags \cap {"SYN", "FIN"})
           x == Seg({"RST"}, s.ack, 0, 0)
           y == Seg({"RST", "ACK"}, 0, s.seq + segLen, 0)
<1>1. s.seq + segLen \in Nat
  <2>1. IsFiniteSet({"SYN"}) /\ IsFiniteSet({"SYN"} \cup {"FIN"})
    BY FS_Singleton, FS_AddElement
  <2>2. {"SYN", "FIN"} = {"SYN"} \cup {"FIN"}
    OBVIOUS
  <2>3. IsFiniteSet({"SYN", "FIN"})
    BY <2>1, <2>2
  <2>4. IsFiniteSet(s.flags \cap {"SYN", "FIN"})
    BY <2>3, FS_Subset
  <2>5. Cardinality(s.flags \cap {"SYN", "FIN"}) \in Nat
    BY <2>4, FS_CardinalityType
  <2>6. s.seq \in Nat /\ s.len \in Nat
    BY DEF Segment
  <2> QED
    BY <2>5, <2>6
<1> HIDE DEF segLen
<1>2. x \in Segment /\ y \in Segment
  BY <1>1, SegType DEF Segment, Flags
<1>3. /\ "RST" \in x.flags /\ x.len = 0 /\ "SYN" \notin x.flags /\ "FIN" \notin x.flags
      /\ "RST" \in y.flags /\ y.len = 0 /\ "SYN" \notin y.flags /\ "FIN" \notin y.flags
  BY DEF Seg
<1> HIDE DEF x, y
<1>4. Passes(c, c, s, h) /\ Passes(c, Emit(c, x), s, h) /\ Passes(c, Emit(c, y), s, h)
  BY <1>2, <1>3, ClosedPasses
<1> QED
  BY <1>4 DEF SegmentArrivalWhileClosed, SendRst, x, y, segLen

\* The answer to our SYN, or the SYN of the peer that crosses it.
LEMMA SynSentPasses ==
  ASSUME NEW c \in Conn, ConnInv(c), NEW s \in Segment, NEW h \in Streams, Speaks(c), Listens(c, h),
         c.fsm = "SYN_SENT", Apart(s, h), h.iss < h.end
  PROVE  Passes(c, ProcessSegmentInSynSent(c, s), s, h)
<1> DEFINE b == [c EXCEPT !.rcv_nxt = s.seq + 1, !.irs = s.seq, !.buf = {}]
           u == [b EXCEPT !.snd_una = s.ack]
           v == DiscardUpTo(u, s.ack)
           w == Established(v, TRUE)
           i == Indicate(w, "ESTABLISHED")
           z == [b EXCEPT !.snd_nxt = c.iss, !.snd_max = c.iss]
           a == SendSynAck(z)
           r == StartTimer(a, "synRexmit")
           t == [r EXCEPT !.syn_rexmit_count = 0]
<1>1. /\ s.seq \in Nat /\ s.seq + 1 \in Nat /\ c.iss \in Nat /\ s.ack \in Nat /\ c.q_end \in Nat
      /\ c.app \in App /\ c.app.got = 0 /\ ~c.fin_rcvd /\ c.active /\ c.fsm \in Live
      /\ Fits(c) /\ FinKnown(c) /\ c.app.wrote \in Nat
  BY DEF Segment, Conn, App, Speaks, Listens, Unheard, Live, Embryonic
<1>2. c.event = "IGNORE" /\ c.out = {}
  BY DEF ConnInv
<1>3. /\ ~c.fin_ack_rcvd /\ c.snd_una <= c.iss + 1
  BY <1>1 DEF ConnInv, SentIsQueued, SentInOrder, Embryonic, FinKnown, Fits, End, Conn
<1>4. b \in Conn
  BY <1>1 DEF Conn
<1>5. /\ b.irs = s.seq /\ b.rcv_nxt = s.seq + 1 /\ b.buf = {} /\ b.fsm = c.fsm /\ b.app = c.app
      /\ b.out = {} /\ b.event = "IGNORE" /\ b.fin_rcvd = c.fin_rcvd /\ b.send_fin = c.send_fin
      /\ b.fin_ack_rcvd = c.fin_ack_rcvd /\ b.iss = c.iss /\ b.q_begin = c.q_begin
      /\ b.q_end = c.q_end /\ b.snd_una = c.snd_una /\ b.snd_fin_seq = c.snd_fin_seq
      /\ b.failed = c.failed /\ b.active = c.active
  BY <1>2 DEF Conn
<1> HIDE DEF b
<1>6. ASSUME NEW d \in Conn, d.irs = s.seq, d.rcv_nxt = s.seq + 1, d.buf = {}, d.fsm = c.fsm,
             d.app = c.app, d.out = {}, d.event = "IGNORE", d.fin_rcvd = c.fin_rcvd,
             d.send_fin = c.send_fin, d.fin_ack_rcvd = c.fin_ack_rcvd, d.iss = c.iss,
             d.q_begin = c.q_begin, d.q_end = c.q_end, d.snd_fin_seq = c.snd_fin_seq,
             d.failed = c.failed, d.active = c.active
      PROVE  Fits(d) /\ FinKnown(d) /\ Widens(Stream(c), Stream(d))
  <2>1. Fits(d)
    BY <1>1, <1>6 DEF Fits, Own, End
  <2>2. FinKnown(d)
    BY <1>3, <1>6 DEF FinKnown
  <2>3. Stream(d) = Stream(c)
    BY <1>6 DEF Stream, End
  <2>4. Widens(Stream(c), Stream(c))
    BY StreamType DEF Widens, Streams
  <2> QED
    BY <2>1, <2>2, <2>3, <2>4
<1>7. ASSUME "SYN" \in s.flags, "ACK" \in s.flags, "RST" \notin s.flags
      PROVE  Passes(c, Raise(i, "RCV_SYN_ACK"), s, h)
  <2> DEFINE d == Raise(i, "RCV_SYN_ACK")
  <2>1. u \in Conn
    BY <1>1, <1>4 DEF Conn
  <2>2. /\ u.irs = s.seq /\ u.rcv_nxt = s.seq + 1 /\ u.buf = {} /\ u.fsm = c.fsm
        /\ u.app = c.app /\ u.out = {} /\ u.event = "IGNORE" /\ u.fin_rcvd = c.fin_rcvd
        /\ u.send_fin = c.send_fin /\ u.fin_ack_rcvd = c.fin_ack_rcvd /\ u.iss = c.iss
        /\ u.q_begin = c.q_begin /\ u.q_end = c.q_end /\ u.snd_fin_seq = c.snd_fin_seq
        /\ u.failed = c.failed /\ u.active = c.active /\ u.snd_una = s.ack
    BY <1>4, <1>5 DEF Conn
  <2> HIDE DEF u
  <2>3. Sends(u, v) /\ v \in Conn
    BY <1>1, <2>1, DiscardUpToSends DEF Sends
  <2> HIDE DEF v
  <2>4. Sends(v, w) /\ w \in Conn
    BY <2>3, EstablishedSends DEF Sends
  <2> HIDE DEF w
  <2>5. Sends(u, w) /\ Moves(u, w, s, h)
    BY <2>1, <2>3, <2>4, SendsTransitive, SendsMoves
  <2>6. i \in Conn /\ SameHalves(w, i) /\ SameQueues(w, i) /\ i.fsm = w.fsm /\ Moves(w, i, s, h)
    <3>1. "ESTABLISHED" \in Indications
      BY DEF Indications
    <3> QED
      BY <2>4, <3>1, IndicateHalves, IndicateMoves
  <2> HIDE DEF i
  <2>7. "RCV_SYN_ACK" \in Events
    BY DEF Events
  <2>8. Moves(i, d, s, h)
    BY <2>6, <2>7, RaiseMoves
  <2>9. /\ d \in Conn /\ d.event = "RCV_SYN_ACK" /\ d.fsm = i.fsm /\ d.app = i.app
        /\ d.active = i.active /\ d.rcv_nxt = i.rcv_nxt /\ d.fin_rcvd = i.fin_rcvd
        /\ d.snd_una = i.snd_una /\ d.iss = i.iss
    BY <2>6, <2>7, RaiseAlike DEF Raise, Conn, SameStreams
  <2> HIDE DEF d
  <2>10. Moves(u, d, s, h)
    BY <2>1, <2>4, <2>5, <2>6, <2>8, <2>9, MovesTransitive
  <2>11. /\ d.rcv_nxt = u.rcv_nxt /\ d.app.got = 0 /\ ~d.fin_rcvd /\ d.active
         /\ d.snd_una = s.ack /\ d.fsm = "SYN_SENT"
    BY <1>1, <2>2, <2>5, <2>6, <2>9 DEF Sends, Kept, SameHalves, SameQueues
  <2>12. NextState(d) = "ESTABLISHED"
    BY <2>9, <2>11, NextStateTable
  <2>13. Fits(u) /\ FinKnown(u) /\ Widens(Stream(c), Stream(u))
    BY <1>6, <2>1, <2>2
  <2>14. Echo(s)
    BY <1>7 DEF Echo
  <2> QED
    BY <1>1, <1>7, <2>1, <2>2, <2>10, <2>11, <2>12, <2>13, <2>14, SynPasses DEF d
<1>8. ASSUME "SYN" \in s.flags
      PROVE  Passes(c, Raise(t, "RCV_SYN"), s, h)
  <2> DEFINE d == Raise(t, "RCV_SYN")
  <2>1. z \in Conn
    BY <1>1, <1>4 DEF Conn
  <2>2. /\ z.irs = s.seq /\ z.rcv_nxt = s.seq + 1 /\ z.buf = {} /\ z.fsm = c.fsm
        /\ z.app = c.app /\ z.out = {} /\ z.event = "IGNORE" /\ z.fin_rcvd = c.fin_rcvd
        /\ z.send_fin = c.send_fin /\ z.fin_ack_rcvd = c.fin_ack_rcvd /\ z.iss = c.iss
        /\ z.q_begin = c.q_begin /\ z.q_end = c.q_end /\ z.snd_fin_seq = c.snd_fin_seq
        /\ z.failed = c.failed /\ z.active = c.active /\ z.snd_una = c.snd_una
    BY <1>4, <1>5 DEF Conn
  <2> HIDE DEF z
  <2>3. Sends(z, a) /\ a \in Conn
    BY <2>1, SendSynSends DEF Sends
  <2> HIDE DEF a
  <2>4. Sends(a, r) /\ r \in Conn
    BY <2>3, StartTimerSends DEF Timers, Sends
  <2> HIDE DEF r
  <2>5. Sends(r, t) /\ t \in Conn
    <3>1. t \in Conn
      BY <2>4 DEF Conn
    <3>2. Kept(r, t) /\ t.q_begin = r.q_begin /\ t.failed = r.failed /\ t.out = r.out
      BY <2>4 DEF Conn, Kept
    <3> QED
      BY <2>4, <3>1, <3>2, AsideSends
  <2> HIDE DEF t
  <2>6. Sends(z, t) /\ Moves(z, t, s, h)
    BY <2>1, <2>3, <2>4, <2>5, SendsTransitive, SendsMoves
  <2>7. "RCV_SYN" \in Events
    BY DEF Events
  <2>8. Moves(t, d, s, h)
    BY <2>5, <2>7, RaiseMoves
  <2>9. /\ d \in Conn /\ d.event = "RCV_SYN" /\ d.fsm = t.fsm /\ d.app = t.app
        /\ d.active = t.active /\ d.rcv_nxt = t.rcv_nxt /\ d.fin_rcvd = t.fin_rcvd
        /\ d.snd_una = t.snd_una /\ d.iss = t.iss
    BY <2>5, <2>7, RaiseAlike DEF Raise, Conn, SameStreams
  <2> HIDE DEF d
  <2>10. Moves(z, d, s, h)
    BY <2>1, <2>5, <2>6, <2>8, MovesTransitive
  <2>11. /\ d.rcv_nxt = z.rcv_nxt /\ d.app.got = 0 /\ ~d.fin_rcvd /\ d.active
         /\ d.snd_una <= d.iss + 1 /\ d.fsm = "SYN_SENT"
    BY <1>1, <1>3, <2>2, <2>6, <2>9 DEF Sends, Kept
  <2>12. NextState(d) = "SYN_RCVD"
    BY <2>9, <2>11, NextStateTable
  <2>13. Fits(z) /\ FinKnown(z) /\ Widens(Stream(c), Stream(z))
    BY <1>6, <2>1, <2>2
  <2> QED
    BY <1>1, <1>8, <2>1, <2>2, <2>10, <2>11, <2>12, <2>13, SynPasses DEF d
<1>9. Passes(c, c, s, h)
  BY <1>1, <1>2, SendsItself, SendsPasses
<1>10. Passes(c, SendRst(c, s.ack), s, h)
  <2>1. SendRst(c, s.ack).out = {Seg({"RST"}, s.ack, 0, 0)}
    BY <1>2 DEF SendRst, Emit, Conn
  <2>2. \A x \in SendRst(c, s.ack).out : ~Echo(x)
    BY <2>1 DEF Seg, Echo
  <2> QED
    BY <1>1, <2>2, SendRstSends, SendsPasses
<1>11. Passes(c, Raise(Indicate(c, "CONNECTION_RESET"), "RCV_RST"), s, h)
  <2> DEFINE k == Indicate(c, "CONNECTION_RESET")
  <2>1. "CONNECTION_RESET" \in Indications
    BY DEF Indications, Errors
  <2>2. k \in Conn /\ SameHalves(c, k) /\ SameQueues(c, k) /\ k.out = c.out /\ Moves(c, k, s, h)
    BY <2>1, IndicateHalves, IndicateMoves
  <2> HIDE DEF k
  <2>3. Unmoved(c, k)
    BY <2>2 DEF SameHalves, SameQueues, Unmoved
  <2> QED
    BY <1>1, <2>2, <2>3, RaisedPasses DEF k
<1> QED
  BY <1>7, <1>8, <1>9, <1>10, <1>11
  DEF ProcessSegmentInSynSent, StartSynRexmitTimer, i, w, v, u, t, r, a, z, b

\* Any segment in any state.
LEMMA SegmentPasses ==
  ASSUME NEW c \in Conn, ConnInv(c), NEW s \in Segment, NEW h \in Streams, Speaks(c), Listens(c, h),
         Belongs(s, h), Apart(s, h), h.iss < h.end, c.app.wrote + 3 <= IssStep
  PROVE  Passes(c, ProcessSegment(c, s), s, h)
<1>1. c.fsm \in {"INIT", "CLOSED", "LISTEN", "SYN_SENT"} \cup Heard
  BY DEF Conn, Heard, Synchronized
<1> QED
  BY <1>1, ArrivalPasses, ListenPasses, SynSentPasses, HeardPasses
  DEF ProcessSegment, Heard, Synchronized

-----------------------------------------------------------------------------
(* Commands *)

\* b is c with what the application has noted and put into its queue, or c on the way to a FIN.
Noted(c, b) ==
  /\ b \in Conn
  /\ b.fsm = c.fsm /\ b.active = c.active /\ b.iss = c.iss /\ b.irs = c.irs
  /\ b.snd_una = c.snd_una /\ b.snd_max = c.snd_max
  /\ b.q_begin = c.q_begin /\ b.fin_ack_rcvd = c.fin_ack_rcvd
  /\ b.rcv_nxt = c.rcv_nxt /\ b.buf = c.buf
  /\ b.fin_rcvd = c.fin_rcvd /\ b.rcv_fin_seq = c.rcv_fin_seq
  /\ b.failed = c.failed /\ b.event = c.event /\ b.out = c.out
  /\ b.app.got = c.app.got

\* What the application notes.
LEMMA NotedType ==
  ASSUME NEW c \in Conn, NEW a \in App, a.got = c.app.got, NEW n, n = [c EXCEPT !.app = a]
  PROVE  Noted(c, n) /\ n.app = a /\ n.q_end = c.q_end /\ n.send_fin = c.send_fin
         /\ n.snd_fin_seq = c.snd_fin_seq
<1>1. n \in Conn
  BY DEF Conn
<1> QED
  BY <1>1 DEF Noted, Conn

\* The receiving half takes no notice.
LEMMA NotedListens ==
  ASSUME NEW c \in Conn, NEW b, NEW h \in Streams, Noted(c, b), Listens(c, h)
  PROVE  Listens(b, h)
<1>1. Hears(c, h) => Hears(b, h)
  BY DEF Noted, Hears, Echoes
<1> QED
  BY <1>1 DEF Noted, Listens

\* A command of a connection that is coming up or is up, from the moment on at which it has
\* been noted and queued.
LEMMA CommandFlows ==
  ASSUME NEW c \in Conn, ConnInv(c), NEW b, NEW d, NEW s \in Segment, NEW h \in Streams,
         c.fsm \in Live, Listens(c, h), Noted(c, b), Fits(b), FinKnown(b),
         Widens(Stream(c), Stream(b)),
         c.fsm = "SYN_SENT" => b.active /\ b.out = d.out /\ NextState(d) \in {"SYN_SENT", "CLOSED"},
         Moves(b, d, s, h), d.snd_una = b.snd_una, d.rcv_nxt = b.rcv_nxt,
         d.fin_rcvd = b.fin_rcvd, d.app.got = b.app.got,
         NextState(d) # "LISTEN",
         NextState(d) = "SYN_RCVD" => c.fsm = "SYN_RCVD" /\ c.active
  PROVE  Flows(c, d, s, h) /\ Lasts(c, d) /\ d.app.wrote = b.app.wrote
<1>1. b \in Conn /\ b.fsm \in Live /\ Listens(b, h)
  BY NotedListens DEF Noted
<1>2. d.active = b.active
  BY DEF Moves
<1>3. c.fsm = "SYN_SENT" => \A x \in d.out : ~Echo(x)
  BY DEF Noted, ConnInv
<1> QED
  BY <1>1, <1>2, <1>3, MovesFlows DEF Noted

\* send(): the stream grows by a unit.
LEMMA SendFlows ==
  ASSUME NEW c \in Conn, ConnInv(c), NEW s \in Segment, NEW h \in Streams, Speaks(c), Listens(c, h),
         c.fsm \in Embryonic \cup {"ESTABLISHED", "CLOSE_WAIT"}, ~c.app.closed,
         c.fsm = "SYN_RCVD" => c.active,
         NEW a \in App, a.wrote = c.app.wrote + 1, a.got = c.app.got, ~a.closed,
         NEW n, n = [c EXCEPT !.app = a]
  PROVE  /\ Flows(c, ProcessSend(n), s, h) /\ Lasts(c, ProcessSend(n))
         /\ ProcessSend(n).app.wrote = c.app.wrote + 1
<1> DEFINE b == [n EXCEPT !.q_end = @ + 1]
<1>1. Noted(c, n) /\ n.app = a /\ n.q_end = c.q_end /\ n.send_fin = c.send_fin
  BY NotedType
<1>2. n \in Conn /\ n.fsm = c.fsm
  BY <1>1 DEF Noted
<1>3. b \in Conn /\ b.q_end = c.q_end + 1
  BY <1>1, <1>2, EnqueueFacts
<1>4. Noted(n, b) /\ b.send_fin = n.send_fin /\ b.app = n.app
  BY <1>2, <1>3 DEF Noted, Conn
<1> HIDE DEF b
<1>5. Noted(c, b) /\ b.send_fin = c.send_fin /\ b.app = a
  BY <1>1, <1>4 DEF Noted
<1>6. c.fsm \in Live /\ ~c.send_fin /\ c.event = "IGNORE" /\ c.out = {}
  BY DEF ConnInv, SocketMatches, Live, Synchronized, States
<1>7. ~c.fin_ack_rcvd /\ Fits(c)
  BY <1>6 DEF Speaks, FinKnown
<1>8. /\ c.app.wrote \in Nat /\ c.iss \in Nat /\ c.q_end \in Nat /\ c.q_begin \in Nat
      /\ c.app.closed \in BOOLEAN
  BY DEF Conn, App
<1>9. Fits(b)
  BY <1>3, <1>5, <1>6, <1>7, <1>8 DEF Noted, Fits, Own, End
<1>10. FinKnown(b)
  BY <1>5, <1>6, <1>7, <1>8 DEF Noted, FinKnown, Embryonic
<1>11. Widens(Stream(c), Stream(b))
  BY <1>5, <1>8 DEF Noted, Widens, Stream, End
<1>12. ASSUME NEW d, Sends(b, d), c.fsm = "SYN_SENT" => d = b
       PROVE  Flows(c, d, s, h) /\ Lasts(c, d) /\ d.app.wrote = b.app.wrote
  <2>1. Moves(b, d, s, h)
    BY <1>3, <1>12, SendsMoves
  <2>2. d \in Conn /\ d.event = "IGNORE" /\ d.fsm = c.fsm
    BY <1>5, <1>6, <1>12 DEF Sends, Kept, Noted
  <2>3. NextState(d) = c.fsm
    BY <2>2, IgnoreStays
  <2>4. /\ d.snd_una = b.snd_una /\ d.rcv_nxt = b.rcv_nxt /\ d.fin_rcvd = b.fin_rcvd
        /\ d.app.got = b.app.got
    BY <1>12 DEF Sends, Kept
  <2>5. c.fsm = "SYN_SENT" => b.active
    BY <1>5 DEF Speaks, Noted
  <2> QED
    BY <1>5, <1>6, <1>9, <1>10, <1>11, <1>12, <2>1, <2>3, <2>4, <2>5, CommandFlows DEF Embryonic
<1>13. Sends(b, b) /\ Sends(b, SendData(b))
  BY <1>3, SendsItself, SendDataSends
<1>14. ProcessSend(n) = IF c.fsm \in Embryonic THEN b ELSE SendData(b)
  BY <1>2 DEF ProcessSend, b, Embryonic
<1>15. b.app.wrote = c.app.wrote + 1
  BY <1>5
<1> QED
  BY <1>12, <1>13, <1>14, <1>15 DEF Embryonic

\* A FIN behind what is in the queue.
LEMMA FinQueued ==
  ASSUME NEW n \in Conn, NEW b, b = [n EXCEPT !.send_fin = TRUE, !.snd_fin_seq = n.q_end]
  PROVE  /\ b \in Conn /\ Noted(n, b) /\ b.app = n.app /\ b.q_end = n.q_end
         /\ b.send_fin = TRUE /\ b.snd_fin_seq = n.q_end
<1> DEFINE end == n.q_end
<1>1. end \in Nat /\ b = [n EXCEPT !.send_fin = TRUE, !.snd_fin_seq = end]
  BY DEF Conn
<1> HIDE DEF end
<1>2. b \in Conn
  BY <1>1 DEF Conn
<1> QED
  BY <1>1, <1>2 DEF Conn, Noted, end

\* close(): the stream has its end, and the FIN goes out at once or behind the queue.
LEMMA ClosePasses ==
  ASSUME NEW c \in Conn, ConnInv(c), NEW s \in Segment, NEW h \in Streams, Speaks(c), Listens(c, h),
         c.fsm \in Embryonic \cup {"LISTEN", "ESTABLISHED", "CLOSE_WAIT"}, ~c.app.closed,
         NEW a \in App, a.wrote = c.app.wrote, a.got = c.app.got, a.closed = TRUE,
         NEW n, n = [c EXCEPT !.app = a]
  PROVE  Passes(c, ProcessClose(n), s, h)
<1>1. /\ Noted(c, n) /\ n.app = a /\ n.q_end = c.q_end /\ n.send_fin = c.send_fin
      /\ n.snd_fin_seq = c.snd_fin_seq
  BY NotedType
<1>2. n \in Conn /\ n.fsm = c.fsm /\ n.snd_max = c.snd_max
  BY <1>1 DEF Noted
<1>3. /\ c.app.wrote \in Nat /\ c.iss \in Nat /\ c.q_end \in Nat /\ c.q_begin \in Nat
      /\ c.app.closed \in BOOLEAN /\ c.event = "IGNORE" /\ c.out = {} /\ ~c.send_fin
      /\ ~c.fin_ack_rcvd
  BY DEF Conn, App, ConnInv, SocketMatches, Speaks, FinKnown
<1>4. "CLOSE" \in Events
  BY DEF Events
<1>5. CASE c.fsm = "LISTEN"
  <2> DEFINE d == Raise(n, "CLOSE")
  <2>1. d \in Conn /\ d.event = "CLOSE"
    BY <1>2, <1>4, RaiseAlike
  <2>2. d = [n EXCEPT !.event = "CLOSE"]
    BY DEF Raise
  <2> HIDE DEF d
  <2>3. SameQueues(n, d) /\ d.fsm = n.fsm /\ d.iss = n.iss /\ d.irs = n.irs /\ d.app = n.app
        /\ d.out = n.out
    BY <1>2, <2>2 DEF SameQueues, Conn
  <2>4. SameQueues(c, d) /\ d.fsm = c.fsm /\ d.iss = c.iss /\ d.irs = c.irs /\ d.app = a
        /\ d.out = {}
    BY <1>1, <1>3, <2>3 DEF SameQueues, Noted
  <2>5. NextState(d) = "CLOSED"
    BY <1>5, <2>1, <2>4, NextStateTable
  <2>6. Passes(c, d, s, h)
    BY <1>5, <2>1, <2>4, <2>5, StillPasses DEF Live, Embryonic, Synchronized
  <2> QED
    BY <1>2, <1>5, <2>6 DEF ProcessClose, d
<1>6. CASE c.fsm = "SYN_SENT"
  <2> DEFINE d == Raise(n, "CLOSE")
  <2>1. d \in Conn /\ d.event = "CLOSE" /\ d.fsm = c.fsm /\ d.app = a
    BY <1>1, <1>2, <1>4, RaiseAlike
  <2>2. d.out = n.out /\ d.snd_una = n.snd_una /\ d.rcv_nxt = n.rcv_nxt /\ d.fin_rcvd = n.fin_rcvd
    BY <1>2 DEF Raise, Conn
  <2>3. Moves(n, d, s, h)
    BY <1>2, <1>4, RaiseMoves
  <2> HIDE DEF d
  <2>4. NextState(d) = "CLOSED"
    BY <1>6, <2>1, NextStateTable
  <2>5. Fits(c) /\ c.active /\ c.fsm \in Live
    BY <1>6 DEF Speaks, Live, Embryonic
  <2>6. Fits(n)
    BY <1>1, <1>3, <2>5 DEF Noted, Fits, Own, End
  <2>7. FinKnown(n)
    BY <1>1, <1>3, <1>6 DEF Noted, FinKnown
  <2>8. Widens(Stream(c), Stream(n))
    BY <1>1, <1>3 DEF Noted, Widens, Stream, End
  <2>9. n.active /\ d.app.got = n.app.got /\ a.wrote = n.app.wrote
    BY <1>1, <2>1, <2>5 DEF Noted
  <2>10. Flows(c, d, s, h) /\ Lasts(c, d) /\ d.app.wrote = n.app.wrote
    BY <1>1, <2>2, <2>3, <2>4, <2>5, <2>6, <2>7, <2>8, <2>9, CommandFlows
  <2>11. Passes(c, d, s, h)
    BY <2>9, <2>10 DEF Passes
  <2> QED
    BY <1>2, <1>6, <2>11 DEF ProcessClose, d
<1>7. CASE c.fsm \notin {"LISTEN", "SYN_SENT"}
  <2> DEFINE b == [n EXCEPT !.send_fin = TRUE, !.snd_fin_seq = n.q_end]
             x == [b EXCEPT !.snd_nxt = n.snd_max]
             f == SendFin(x)
             r == StartRexmitTimer(f)
             next == n.snd_max + 1
             t == [r EXCEPT !.snd_nxt = next, !.snd_max = next]
             d == Raise(t, "CLOSE")
  <2>1. b \in Conn
    BY <1>2, FinQueued
  <2>2. Noted(n, b) /\ b.app = n.app /\ b.q_end = n.q_end /\ b.send_fin = TRUE
        /\ b.snd_fin_seq = n.q_end
    BY <1>2, FinQueued
  <2> HIDE DEF b
  <2>3. Noted(c, b) /\ b.app = a /\ b.q_end = c.q_end /\ b.snd_fin_seq = c.q_end
    BY <1>1, <2>2 DEF Noted
  <2>4. Fits(c) /\ c.fsm \in Live /\ c.fsm \in {"SYN_RCVD", "ESTABLISHED", "CLOSE_WAIT"}
    BY <1>7 DEF Speaks, Live, Embryonic, Synchronized, States
  <2>5. Fits(b)
    BY <1>3, <2>2, <2>3, <2>4 DEF Noted, Fits, Own, End
  <2>6. FinKnown(b)
    BY <1>3, <2>3, <2>4 DEF Noted, FinKnown
  <2>7. Widens(Stream(c), Stream(b))
    BY <1>3, <2>3 DEF Noted, Widens, Stream, End
  <2>8. b.app.wrote = c.app.wrote
    BY <2>3
  <2>9. CASE c.snd_max = c.q_end
    <3>1. x \in Conn
      BY <1>2, <2>1 DEF Conn
    <3>2. Kept(b, x) /\ x.q_begin = b.q_begin /\ x.failed = b.failed /\ x.out = b.out
          /\ x.snd_nxt = n.snd_max
      BY <2>1 DEF Conn, Kept
    <3> HIDE DEF x
    <3>3. Sends(b, x)
      BY <2>1, <3>1, <3>2, AsideSends
    <3>4. x.send_fin /\ x.snd_nxt = x.q_end
      BY <1>1, <2>2, <2>9, <3>2 DEF Kept, Noted
    <3>5. Sends(x, f) /\ f \in Conn
      BY <3>1, <3>4, SendFinSends DEF Sends
    <3> HIDE DEF f
    <3>6. Sends(f, r) /\ r \in Conn
      BY <3>5, StartRexmitTimerSends DEF Sends
    <3> HIDE DEF r
    <3>7. next \in Nat
      BY <1>2 DEF Conn
    <3> HIDE DEF next
    <3>8. t \in Conn
      BY <3>6, <3>7 DEF Conn
    <3>9. Kept(r, t) /\ t.q_begin = r.q_begin /\ t.failed = r.failed /\ t.out = r.out
      BY <3>6 DEF Conn, Kept
    <3> HIDE DEF t
    <3>10. Sends(r, t)
      BY <3>6, <3>8, <3>9, AsideSends
    <3>11. Sends(b, t) /\ Moves(b, t, s, h)
      BY <2>1, <3>1, <3>3, <3>5, <3>6, <3>10, SendsTransitive, SendsMoves
    <3>12. Moves(t, d, s, h)
      BY <1>4, <3>8, RaiseMoves
    <3>13. d \in Conn /\ d.event = "CLOSE" /\ d.fsm = t.fsm /\ d.app = t.app
      BY <1>4, <3>8, RaiseAlike
    <3>14. d.snd_una = t.snd_una /\ d.rcv_nxt = t.rcv_nxt /\ d.fin_rcvd = t.fin_rcvd
      BY <3>8 DEF Raise, Conn
    <3> HIDE DEF d
    <3>15. Moves(b, d, s, h)
      BY <2>1, <3>8, <3>11, <3>12, MovesTransitive
    <3>16. /\ d.snd_una = b.snd_una /\ d.rcv_nxt = b.rcv_nxt /\ d.fin_rcvd = b.fin_rcvd
           /\ d.app.got = b.app.got /\ d.fsm = c.fsm
      BY <2>3, <3>11, <3>13, <3>14 DEF Sends, Kept, Noted
    <3>17. NextState(d) \in {"FIN_WAIT_1", "LAST_ACK"}
      <4>1. c.fsm = "CLOSE_WAIT" => NextState(d) = "LAST_ACK"
        BY <3>13, <3>16, SMTT(30) DEF NextState, Transitions
      <4> QED
        BY <2>4, <3>13, <3>16, <4>1, NextStateTable
    <3>18. Flows(c, d, s, h) /\ Lasts(c, d) /\ d.app.wrote = b.app.wrote
      BY <1>7, <2>3, <2>4, <2>5, <2>6, <2>7, <3>15, <3>16, <3>17, CommandFlows
    <3>19. Passes(c, d, s, h)
      BY <2>8, <3>18 DEF Passes
    <3>20. n.snd_max = n.q_end
      BY <1>1, <1>2, <2>9
    <3> QED
      BY <1>2, <2>4, <3>19, <3>20 DEF ProcessClose, d, t, r, f, x, b, next
  <2>10. CASE c.snd_max # c.q_end
    <3>1. b.event = "IGNORE" /\ b.fsm = c.fsm
      BY <1>3, <2>3 DEF Noted
    <3>2. NextState(b) = c.fsm
      BY <2>1, <3>1, IgnoreStays
    <3>3. Moves(b, b, s, h)
      BY <2>1, SendsItself, SendsMoves
    <3>4. c.fsm = "SYN_RCVD" => c.active
      BY <1>3, <2>4, <2>10 DEF Speaks, Fits, End, ConnInv, SentIsQueued, Embryonic
    <3>5. Flows(c, b, s, h) /\ Lasts(c, b)
      BY <1>7, <2>3, <2>4, <2>5, <2>6, <2>7, <3>2, <3>3, <3>4, CommandFlows
    <3>6. Passes(c, b, s, h)
      BY <2>8, <3>5 DEF Passes
    <3>7. n.snd_max # n.q_end
      BY <1>1, <1>2, <2>10
    <3> QED
      BY <1>2, <2>4, <3>6, <3>7 DEF ProcessClose, b
  <2> QED
    BY <2>9, <2>10
<1> QED
  BY <1>5, <1>6, <1>7

\* abort(): the peer is told with a RST, from the states that have one.
LEMMA AbortPasses ==
  ASSUME NEW c \in Conn, ConnInv(c), NEW s \in Segment, NEW h \in Streams, Speaks(c), Listens(c, h),
         NEW a \in App, a.wrote = c.app.wrote, a.got = c.app.got, a.closed = c.app.closed,
         NEW n, n = [c EXCEPT !.app = a]
  PROVE  Passes(c, ProcessAbort(n), s, h)
<1> DEFINE resets == c.fsm \in {"SYN_RCVD", "ESTABLISHED", "FIN_WAIT_1", "FIN_WAIT_2", "CLOSE_WAIT"}
           b == IF resets THEN SendRst(n, n.snd_nxt) ELSE n
           d == Raise(b, "ABORT")
<1>1. /\ Noted(c, n) /\ n.app = a /\ n.q_end = c.q_end /\ n.send_fin = c.send_fin
      /\ n.snd_fin_seq = c.snd_fin_seq
  BY NotedType
<1>2. n \in Conn /\ n.fsm = c.fsm /\ n.snd_nxt \in Nat
  BY <1>1 DEF Noted, Conn
<1>3. c.event = "IGNORE" /\ c.out = {} /\ "ABORT" \in Events
  BY DEF ConnInv, Events
<1>4. d = ProcessAbort(n)
  BY <1>2 DEF ProcessAbort
<1>5. Sends(n, b) /\ b \in Conn
  BY <1>2, SendRstSends, SendsItself DEF Sends
<1>6. ~resets => b = n
  OBVIOUS
<1> HIDE DEF b
<1>7. d \in Conn /\ d.event = "ABORT" /\ d.fsm = b.fsm /\ d.app = b.app
  BY <1>3, <1>5, RaiseAlike
<1>8. d = [b EXCEPT !.event = "ABORT"]
  BY DEF Raise
<1>9. Moves(b, d, s, h)
  BY <1>3, <1>5, RaiseMoves
<1> HIDE DEF d
<1>10. d.fsm = c.fsm
  BY <1>2, <1>5, <1>7 DEF Sends, Kept
<1>11. NextState(d) = IF c.fsm \in {"INIT", "CLOSED"} THEN c.fsm ELSE "CLOSED"
  BY <1>7, <1>10, NextStateTable
<1>12. CASE c.fsm \in Live
  <2>1. /\ d.snd_una = n.snd_una /\ d.rcv_nxt = n.rcv_nxt /\ d.fin_rcvd = n.fin_rcvd
        /\ d.app.got = n.app.got /\ d.out = b.out
    BY <1>5, <1>7, <1>8 DEF Conn, Sends, Kept
  <2>2. Moves(n, d, s, h)
    BY <1>2, <1>5, <1>9, SendsMoves, MovesTransitive
  <2>3. Fits(n)
    BY <1>1, <1>12 DEF Speaks, Noted, Fits, Own, End
  <2>4. FinKnown(n)
    BY <1>1 DEF Speaks, Noted, FinKnown
  <2>5. Widens(Stream(c), Stream(n))
    <3>1. Stream(n) = Stream(c)
      BY <1>1 DEF Noted, Stream, End
    <3> QED
      BY <3>1, StreamType DEF Widens, Streams
  <2>6. c.fsm = "SYN_SENT" => n.active /\ n.out = d.out
    BY <1>1, <1>6, <2>1 DEF Speaks, Noted
  <2>7. NextState(d) = "CLOSED"
    BY <1>11, <1>12 DEF Live, Embryonic, Synchronized
  <2>8. Flows(c, d, s, h) /\ Lasts(c, d) /\ d.app.wrote = n.app.wrote
    BY <1>1, <1>12, <2>1, <2>2, <2>3, <2>4, <2>5, <2>6, <2>7, CommandFlows
  <2> QED
    BY <1>1, <1>4, <2>8 DEF Passes
<1>13. CASE c.fsm \notin Live
  <2>1. ~resets
    BY <1>13 DEF Live, Embryonic, Synchronized, States
  <2>2. SameQueues(n, d) /\ d.iss = n.iss /\ d.irs = n.irs /\ d.out = n.out /\ d.app = n.app
    BY <1>2, <1>6, <1>7, <1>8, <2>1 DEF SameQueues, Conn
  <2>3. SameQueues(c, d) /\ d.iss = c.iss /\ d.irs = c.irs /\ d.out = {} /\ d.app = a
    BY <1>1, <1>3, <2>2 DEF SameQueues, Noted
  <2>4. Passes(c, d, s, h)
    BY <1>7, <1>10, <1>11, <1>13, <2>3, StillPasses
  <2> QED
    BY <1>4, <2>4
<1> QED
  BY <1>12, <1>13

-----------------------------------------------------------------------------
(* A new connection object *)

\* The clock has outrun the last stream.
LEMMA ReopenedFlows ==
  ASSUME NEW c \in Conn, NEW h \in Streams, c.app.wrote + 3 <= IssStep, NEW d, d = Reopened(c)
  PROVE  /\ d \in Conn /\ Speaks(d) /\ Listens(d, h) /\ Widens(Stream(c), Stream(d))
         /\ d.fsm = "INIT" /\ d.event = "IGNORE" /\ d.out = {} /\ d.app = FreshApp
         /\ d.iss = c.iss + IssStep /\ d.irs = 0 /\ ~d.fin_rcvd /\ ~d.fin_ack_rcvd /\ ~d.send_fin
         /\ d.snd_una = 0 /\ d.failed = {}
<1>1. d \in Conn
  BY ReopenedNew
<1>2. /\ d.fsm = "INIT" /\ d.event = "IGNORE" /\ d.out = {} /\ d.app = FreshApp
      /\ d.iss = c.iss + IssStep /\ d.irs = 0 /\ d.fin_rcvd = FALSE /\ d.fin_ack_rcvd = FALSE
      /\ d.send_fin = FALSE /\ d.q_end = 0 /\ d.snd_una = 0 /\ d.failed = {}
  BY DEF Reopened, FreshConn
<1>3. FreshApp.wrote = 0 /\ FreshApp.got = 0 /\ FreshApp.closed = FALSE
  BY DEF FreshApp
<1>4. c.iss \in Nat /\ c.app.wrote \in Nat /\ h.iss \in Nat
  BY DEF Conn, App, Streams
<1>5. Speaks(d)
  BY <1>2, <1>3 DEF Speaks, FinKnown, Live, Embryonic, Synchronized
<1>6. Listens(d, h)
  BY <1>2, <1>3, <1>4 DEF Listens, Heard, Synchronized
<1>7. Widens(Stream(c), Stream(d))
  BY <1>2, <1>3, <1>4, ConnectionAssumption DEF Widens, Stream, End
<1> QED
  BY <1>1, <1>2, <1>5, <1>6, <1>7

\* What connect() and listen() find: the object, and the state of the socket.
Newborn(c, n, sock) ==
  /\ n \in Conn /\ n.fsm = "INIT" /\ n.event = "IGNORE" /\ n.out = {}
  /\ n.app.wrote = 0 /\ n.app.got = 0 /\ ~n.app.closed
  /\ n.iss = c.iss + IssStep /\ n.irs = 0 /\ ~n.fin_rcvd /\ ~n.fin_ack_rcvd /\ ~n.send_fin
  /\ n.snd_una = 0 /\ n.failed = {}
\* Both find such an object.
LEMMA NewConnFacts ==
  ASSUME NEW c \in Conn, NEW sock \in SockStates, c.app.wrote + 3 <= IssStep,
         NEW n, n = [Reopened(c) EXCEPT !.app.sock = sock]
  PROVE  Newborn(c, n, sock)
<1> DEFINE b == Reopened(c)
           a == [b.app EXCEPT !.sock = sock]
<1>1. [iss |-> 0, end |-> 0, closed |-> FALSE] \in Streams
  BY DEF Streams
<1>2. /\ b \in Conn /\ b.fsm = "INIT" /\ b.event = "IGNORE" /\ b.out = {} /\ b.app = FreshApp
      /\ b.iss = c.iss + IssStep /\ b.irs = 0 /\ ~b.fin_rcvd /\ ~b.fin_ack_rcvd /\ ~b.send_fin
      /\ b.snd_una = 0 /\ b.failed = {}
  BY <1>1, ReopenedFlows
<1> HIDE DEF b
<1>3. a \in App /\ a.wrote = 0 /\ a.got = 0 /\ a.closed = FALSE
  <2>1. b.app \in App
    BY <1>2 DEF Conn
  <2>2. a \in App
    BY <2>1 DEF App
  <2>3. a.wrote = b.app.wrote /\ a.got = b.app.got /\ a.closed = b.app.closed
    BY <2>1 DEF App
  <2>4. FreshApp.wrote = 0 /\ FreshApp.got = 0 /\ FreshApp.closed = FALSE
    BY DEF FreshApp
  <2> QED
    BY <1>2, <2>2, <2>3, <2>4
<1>4. n = [b EXCEPT !.app = a]
  BY <1>2 DEF Conn, App, b
<1> HIDE DEF a
<1>5. n \in Conn
  BY <1>2, <1>3, <1>4 DEF Conn
<1> QED
  BY <1>2, <1>3, <1>4, <1>5 DEF Newborn, Conn

\* listen().
LEMMA OpenPassiveFlows ==
  ASSUME NEW c \in Conn, NEW n, NEW sock, Newborn(c, n, sock), c.app.wrote + 3 <= IssStep,
         NEW s \in Segment, NEW h \in Streams
  PROVE  Flows(c, ProcessOpenPassive(n), s, h) /\ ProcessOpenPassive(n).app.wrote = 0
<1> DEFINE b == [n EXCEPT !.active = FALSE]
           d == Raise(b, "OPEN_PASSIVE")
<1>1. n \in Conn
  BY DEF Newborn
<1>2. b \in Conn /\ "OPEN_PASSIVE" \in Events
  BY <1>1 DEF Conn, Events
<1>3. d \in Conn /\ d.event = "OPEN_PASSIVE"
  BY <1>2, RaiseAlike
<1>4. /\ d.fsm = "INIT" /\ d.app = n.app /\ d.out = {} /\ d.iss = n.iss /\ d.irs = 0
      /\ ~d.fin_rcvd /\ ~d.fin_ack_rcvd /\ d.snd_una = 0
  BY <1>1, <1>2 DEF Raise, Newborn, Conn
<1>5. ProcessOpenPassive(n) = d
  BY DEF ProcessOpenPassive
<1> HIDE DEF d
<1>6. NextState(d) = "LISTEN"
  BY <1>3, <1>4, NextStateTable
<1>7. /\ c.iss \in Nat /\ c.app.wrote \in Nat /\ h.iss \in Nat /\ d.iss = c.iss + IssStep
      /\ d.app.wrote = 0 /\ d.app.got = 0 /\ ~d.app.closed /\ IssStep \in Nat
  BY <1>4, ConnectionAssumption DEF Newborn, Conn, App, Streams
<1>8. SpeaksReady(d)
  BY <1>3, <1>4, <1>6, <1>7 DEF SpeaksReady, FinKnown, Live, Embryonic, Synchronized
<1>9. ListensReady(d, h)
  BY <1>4, <1>6, <1>7 DEF ListensReady, Heard, Synchronized
<1>10. OutReady(d, h)
  BY <1>4 DEF OutReady
<1>11. Widens(Stream(c), Stream(d))
  BY <1>7 DEF Widens, Stream, End
<1> QED
  BY <1>3, <1>5, <1>6, <1>7, <1>8, <1>9, <1>10, <1>11 DEF Flows, Live, Embryonic, Synchronized

\* connect().
LEMMA OpenActiveFlows ==
  ASSUME NEW c \in Conn, NEW n, NEW sock, Newborn(c, n, sock), c.app.wrote + 3 <= IssStep,
         NEW s \in Segment, NEW h \in Streams
  PROVE  Flows(c, ProcessOpenActive(n), s, h) /\ ProcessOpenActive(n).app.wrote = 0
<1> DEFINE iss == n.iss + IssStep
           next == iss + 1
           m == [n EXCEPT !.active = TRUE]
           b == SelectInitialSeqNum(m)
           a == SendSyn(b)
           r == StartTimer(a, "synRexmit")
           t == [r EXCEPT !.syn_rexmit_count = 0]
           e == StartTimer(t, "connEstab")
           d == Raise(e, "OPEN_ACTIVE")
<1>1. /\ n \in Conn /\ n.iss \in Nat /\ c.iss \in Nat /\ c.app.wrote \in Nat /\ h.iss \in Nat
      /\ n.iss = c.iss + IssStep /\ IssStep \in Nat /\ iss \in Nat /\ next \in Nat
      /\ iss = n.iss + IssStep /\ next = iss + 1
  BY ConnectionAssumption DEF Newborn, Conn, App, Streams
<1> HIDE DEF iss, next
<1>2. m \in Conn
  BY <1>1 DEF Conn
<1>3. /\ m.fsm = "INIT" /\ m.event = "IGNORE" /\ m.out = {} /\ m.app = n.app /\ m.active = TRUE
      /\ m.iss = n.iss /\ m.irs = 0 /\ ~m.fin_rcvd /\ ~m.fin_ack_rcvd /\ ~m.send_fin
  BY <1>1 DEF Newborn, Conn
<1> HIDE DEF m
<1>4. b = [m EXCEPT !.iss = iss, !.snd_una = iss, !.snd_nxt = iss, !.snd_max = iss,
                    !.q_begin = next, !.q_end = next]
  BY <1>3 DEF SelectInitialSeqNum, iss, next
<1>5. b \in Conn
  BY <1>2, SelectFacts
<1> HIDE DEF b
<1>6. /\ b.iss = iss /\ b.q_begin = next /\ b.q_end = next /\ b.snd_una = iss
      /\ b.irs = 0 /\ b.fsm = "INIT" /\ b.app = n.app /\ b.out = {} /\ b.event = "IGNORE"
      /\ ~b.fin_rcvd /\ ~b.send_fin /\ ~b.fin_ack_rcvd /\ b.active
  BY <1>2, <1>3, <1>4 DEF Conn
<1>7. b.app.wrote = 0 /\ b.app.got = 0 /\ ~b.app.closed
  BY <1>6 DEF Newborn
<1>8. Fits(b) /\ FinKnown(b)
  BY <1>1, <1>6, <1>7 DEF Fits, End, FinKnown
<1>9. Sends(b, a) /\ a \in Conn
  BY <1>5, SendSynSends DEF Sends
<1>10. a.out = {Seg({"SYN"}, b.iss, 0, 0)}
  BY <1>5, <1>6 DEF SendSyn, Emit, Conn
<1> HIDE DEF a
<1>11. Sends(a, r) /\ r \in Conn /\ r.out = a.out
  BY <1>9, StartTimerSends DEF Timers, Sends, StartTimer, Conn
<1> HIDE DEF r
<1>12. Sends(r, t) /\ t \in Conn /\ t.out = r.out
  <2>1. t \in Conn
    BY <1>11 DEF Conn
  <2>2. Kept(r, t) /\ t.q_begin = r.q_begin /\ t.failed = r.failed /\ t.out = r.out
    BY <1>11 DEF Conn, Kept
  <2> QED
    BY <1>11, <2>1, <2>2, AsideSends
<1> HIDE DEF t
<1>13. Sends(t, e) /\ e \in Conn /\ e.out = t.out
  BY <1>12, StartTimerSends DEF Timers, Sends, StartTimer, Conn
<1> HIDE DEF e
<1>14. Sends(b, e) /\ Moves(b, e, s, h)
  BY <1>5, <1>9, <1>11, <1>12, <1>13, SendsTransitive, SendsMoves
<1>15. "OPEN_ACTIVE" \in Events
  BY DEF Events
<1>16. Moves(e, d, s, h)
  BY <1>13, <1>15, RaiseMoves
<1>17. d \in Conn /\ d.event = "OPEN_ACTIVE" /\ d.fsm = e.fsm /\ d.app = e.app
       /\ d.active = e.active
  BY <1>13, <1>15, RaiseAlike
<1>18. d.out = e.out /\ d.snd_una = e.snd_una /\ d.fin_rcvd = e.fin_rcvd
  BY <1>13 DEF Raise, Conn
<1>19. ProcessOpenActive(n) = d
  BY DEF ProcessOpenActive, StartSynRexmitTimer, d, e, t, r, a, b, m
<1> HIDE DEF d
<1>20. Moves(b, d, s, h)
  BY <1>5, <1>13, <1>14, <1>16, MovesTransitive
<1>21. /\ d.iss = iss /\ d.irs = 0 /\ d.snd_una = iss /\ Fits(d) /\ FinKnown(d)
       /\ d.app = n.app /\ d.active /\ ~d.fin_rcvd /\ d.fsm = "INIT"
       /\ \A x \in d.out : ~Echo(x)
  <2>1. ~Echo(Seg({"SYN"}, b.iss, 0, 0))
    BY DEF Echo, Seg
  <2>2. d.out = {Seg({"SYN"}, b.iss, 0, 0)}
    BY <1>10, <1>11, <1>12, <1>13, <1>18
  <2>3. d.iss = b.iss /\ d.irs = b.irs /\ Fits(d) /\ FinKnown(d) /\ d.fsm = b.fsm /\ d.active = b.active
    BY <1>8, <1>20 DEF Moves
  <2>4. d.app = b.app /\ d.snd_una = b.snd_una /\ d.fin_rcvd = b.fin_rcvd
    BY <1>14, <1>17, <1>18 DEF Sends, Kept
  <2> QED
    BY <1>6, <2>1, <2>2, <2>3, <2>4
<1>22. NextState(d) = "SYN_SENT"
  BY <1>17, <1>21, NextStateTable
<1>23. d.app.wrote = 0 /\ d.app.got = 0 /\ ~d.app.closed
  BY <1>21 DEF Newborn
<1>24. SpeaksReady(d)
  BY <1>21, <1>22 DEF SpeaksReady
<1>25. ListensReady(d, h)
  BY <1>1, <1>21, <1>22, <1>23 DEF ListensReady, Heard, Synchronized
<1>26. OutReady(d, h)
  <2>1. NextState(d) \in Unheard => \A x \in d.out : Echo(x) => x.ack <= d.irs + 1
    BY <1>21
  <2> QED
    BY <1>21, <2>1 DEF OutReady
<1>27. Widens(Stream(c), Stream(d))
  BY <1>1, <1>21, <1>23 DEF Widens, Stream, End
<1> QED
  BY <1>1, <1>17, <1>19, <1>21, <1>22, <1>23, <1>24, <1>25, <1>26, <1>27 DEF Flows

-----------------------------------------------------------------------------
(* The two ends and the network *)

\* The clock that gives the ISS is ahead of what one connection can use up.
ClockOutruns == \A e \in Ends : Quota[e] + 3 <= IssStep
\* Every application remembers its close(): it writes nothing and closes no more after it.
AllHeed == Careless = {}
\* Neither host opens a second connection.
First == MaxOpens <= 1 /\ MaxCrash = 0

\* What is on the way from an end belongs to its stream, which the other end listens to.
Flow ==
  \A e \in Ends :
    /\ Speaks(conn[e]) /\ Listens(conn[e], Stream(conn[Peer(e)]))
    /\ conn[e].app.wrote <= Quota[e]
    /\ \A s \in net[Peer(e)] :
         Belongs(s, Stream(conn[e])) /\ (Running => Apart(s, Stream(conn[e])))

\* An ACK n for the stream h: p has received what it acknowledges.
AckTrue(h, p, n) ==
  /\ n <= h.end + 1
  /\ n > h.iss + 1 =>
       /\ p.irs = h.iss /\ p.fsm \in Synchronized \cup {"CLOSED"}
       /\ n = h.end + 1 => h.closed
       /\ Lesser(n, h.end) <= h.iss + 1 + p.app.got
\* Every ACK on its way, and every one taken, is true of the peer.
Acks ==
  \A e \in Ends :
    /\ \A s \in net[e] : Echo(s) => AckTrue(Stream(conn[e]), conn[Peer(e)], s.ack)
    /\ conn[e].fsm \in Live => AckTrue(Stream(conn[e]), conn[Peer(e)], conn[e].snd_una)
    /\ conn[e].fsm # "INIT" => opens[e] >= 1

\* The inductive invariant.
DInv == IInv /\ Flow /\ (First => Acks)

\* An ACK stays true while the stream goes on,
LEMMA AckStable ==
  ASSUME NEW h \in Streams, NEW k \in Streams, Widens(h, k), NEW p \in Conn, NEW n \in Nat,
         AckTrue(h, p, n)
  PROVE  AckTrue(k, p, n)
<1>1. /\ h.iss \in Nat /\ h.end \in Nat /\ k.iss \in Nat /\ k.end \in Nat
      /\ p.app.got \in Nat /\ h.closed \in BOOLEAN /\ k.closed \in BOOLEAN
  BY DEF Streams, Conn, App
<1>2. CASE k.iss = h.iss /\ h.end <= k.end /\ (h.closed => k.closed /\ k.end = h.end)
  <2>1. n <= k.end + 1
    BY <1>1, <1>2 DEF AckTrue
  <2>2. ASSUME n > k.iss + 1
        PROVE  /\ n = k.end + 1 => k.closed
               /\ Lesser(n, k.end) <= k.iss + 1 + p.app.got
    <3>1. n <= h.end \/ (n = h.end + 1 /\ k.end = h.end /\ k.closed)
      BY <1>1, <1>2, <2>2 DEF AckTrue
    <3>2. Lesser(n, h.end) <= h.iss + 1 + p.app.got
      BY <1>2, <2>2 DEF AckTrue
    <3> QED
      BY <1>1, <1>2, <3>1, <3>2 DEF Lesser
  <2> QED
    BY <1>2, <2>1, <2>2 DEF AckTrue
<1>3. CASE h.end + 2 <= k.iss /\ k.iss < k.end
  BY <1>1, <1>3 DEF AckTrue
<1> QED
  BY <1>2, <1>3 DEF Widens

\* and while the receiver keeps what it has.
LEMMA AckLasts ==
  ASSUME NEW h \in Streams, NEW c \in Conn, NEW d \in Conn, Lasts(c, d), NEW n \in Nat,
         AckTrue(h, c, n), NEW q, q = Settled(d)
  PROVE  AckTrue(h, q, n)
<1>1. q.fsm = NextState(d) /\ q.irs = d.irs /\ q.app.got = d.app.got
  BY SettledHalves DEF SameHalves
<1>2. h.iss \in Nat /\ h.end \in Nat /\ c.app.got \in Nat /\ d.app.got \in Nat
  BY DEF Streams, Conn, App
<1> QED
  BY <1>1, <1>2 DEF AckTrue, Lasts, Lesser

\* What a handler acknowledges has been received.
LEMMA EchoTrue ==
  ASSUME NEW h \in Streams, h.iss < h.end, NEW d \in Conn, OutReady(d, h), NEW x \in d.out, Echo(x),
         NEW q, q = Settled(d)
  PROVE  AckTrue(h, q, x.ack)
<1>1. q.fsm = NextState(d) /\ q.irs = d.irs /\ q.app.got = d.app.got /\ NextState(d) \in States
  BY SettledHalves, NextStateType DEF SameHalves
<1>2. /\ h.iss \in Nat /\ h.end \in Nat /\ d.app.got \in Nat /\ d.irs \in Nat /\ d.rcv_nxt \in Nat
      /\ x.ack \in Nat
  BY DEF Streams, Conn, App, Segment
<1>3. Hears(d, h)
  BY DEF OutReady
<1>4. d.irs < x.ack /\ x.ack <= d.rcv_nxt
  BY <1>3 DEF Hears, Echoes
<1>5. CASE d.irs < h.iss
  BY <1>2, <1>3, <1>4, <1>5 DEF Hears, AckTrue
<1>6. CASE d.irs = h.iss
  <2>1. /\ d.rcv_nxt <= h.end + 1
        /\ d.rcv_nxt = h.end + 1 => h.closed
        /\ d.app.got = Lesser(d.rcv_nxt, h.end) - d.irs - 1
    BY <1>3, <1>6 DEF Hears
  <2>2. x.ack > h.iss + 1 => q.fsm \in Synchronized \cup {"CLOSED"}
    <3>1. NextState(d) \in Unheard => x.ack <= d.irs + 1
      BY DEF OutReady
    <3> QED
      BY <1>1, <1>2, <1>6, <3>1 DEF Unheard, Synchronized
  <2> QED
    BY <1>1, <1>2, <1>4, <1>6, <2>1, <2>2 DEF AckTrue, Lesser
<1> QED
  BY <1>2, <1>3, <1>5, <1>6 DEF Hears

-----------------------------------------------------------------------------
(* What a handler of one end does to both *)

\* The two ends.
LEMMA TwoEnds ==
  ASSUME NEW e \in Ends
  PROVE  Peer(e) \in Ends /\ Peer(e) # e /\ Peer(Peer(e)) = e /\ Ends = {e, Peer(e)}
BY EndpointsAssumption DEF Peer, Ends

\* The connections and the network after a handler.
LEMMA HandleResult ==
  ASSUME TypeOK, NEW e \in Ends, NEW d \in Conn, NEW used, Handle(e, d, used)
  PROVE  /\ conn'[e] = Settled(d) /\ conn'[Peer(e)] = conn[Peer(e)]
         /\ net'[e] \subseteq net[e] /\ net'[Peer(e)] = net[Peer(e)] \cup d.out
<1> DEFINE q == Settled(d)
           out == PerformStateTransition(d).out
<1>1. out = d.out
  BY SettledHalves
<1>2. conn' = [conn EXCEPT ![e] = q] /\ net' = [net EXCEPT ![e] = @ \ used, ![Peer(e)] = @ \cup out]
  BY DEF Handle
<1> HIDE DEF q, out
<1>3. conn \in [Ends -> Conn] /\ net \in [Ends -> SUBSET Segment]
  BY DEF TypeOK
<1> QED
  BY <1>1, <1>2, <1>3, TwoEnds DEF q

\* The streams flow on.
LEMMA HandleFlow ==
  ASSUME TypeOK, Flow, Running, NEW e \in Ends, NEW d, NEW s \in Segment, NEW used,
         Handle(e, d, used), Flows(conn[e], d, s, Stream(conn[Peer(e)])), d.app.wrote <= Quota[e]
  PROVE  Flow'
<1> DEFINE p == Peer(e)
           q == Settled(d)
           h == Stream(conn[p])
<1>1. p \in Ends /\ p # e /\ Peer(p) = e /\ Ends = {e, p}
  BY TwoEnds
<1>2. conn[e] \in Conn /\ conn[p] \in Conn /\ net[e] \subseteq Segment /\ net[p] \subseteq Segment
  BY <1>1 DEF TypeOK
<1>3. /\ d \in Conn /\ SpeaksReady(d) /\ ListensReady(d, h) /\ OutReady(d, h)
      /\ Widens(Stream(conn[e]), Stream(d))
  BY DEF Flows
<1>4. /\ conn'[e] = q /\ conn'[p] = conn[p] /\ net'[e] \subseteq net[e]
      /\ net'[p] = net[p] \cup d.out
  BY <1>3, HandleResult
<1>5. h \in Streams /\ Stream(conn[e]) \in Streams /\ Stream(d) \in Streams
  BY <1>2, <1>3, StreamType
<1>6. Speaks(q) /\ Listens(q, h)
  BY <1>3, <1>5, TransitionStreams
<1>7. q \in Conn /\ Stream(q) = Stream(d) /\ q.failed = d.failed /\ q.app.wrote = d.app.wrote
  BY <1>3, SettledHalves DEF SameHalves, Stream, End
<1>8. Listens(conn[p], Stream(q))
  <2>1. Listens(conn[p], Stream(conn[e]))
    BY <1>1 DEF Flow
  <2> QED
    BY <1>2, <1>3, <1>5, <1>7, <2>1, ListensStable
<1>9. ASSUME NEW x \in net'[p]
      PROVE  Belongs(x, Stream(q)) /\ (q.failed = {} => Apart(x, Stream(q)))
  <2>1. CASE x \in net[p]
    <3>1. Belongs(x, Stream(conn[e])) /\ Apart(x, Stream(conn[e])) /\ x \in Segment
      BY <1>1, <1>2, <2>1 DEF Flow
    <3> QED
      BY <1>3, <1>5, <1>7, <3>1, SegmentStable
  <2>2. CASE x \in d.out
    BY <1>3, <1>7, <2>2, OutBelongs
  <2> QED
    BY <1>4, <1>9, <2>1, <2>2
<1>10. \A x \in net'[e] : Belongs(x, h) /\ Apart(x, h)
  BY <1>1, <1>4 DEF Flow
<1>11. Running' => q.failed = {}
  BY <1>1, <1>4 DEF Running
<1>12. Speaks(conn[p]) /\ conn[p].app.wrote <= Quota[p]
  BY <1>1 DEF Flow
<1> HIDE DEF p, q, h
<1>13. /\ Speaks(conn'[e]) /\ Listens(conn'[e], Stream(conn'[p])) /\ conn'[e].app.wrote <= Quota[e]
       /\ \A x \in net'[p] : Belongs(x, Stream(conn'[e])) /\ (Running' => Apart(x, Stream(conn'[e])))
  BY <1>4, <1>6, <1>7, <1>9, <1>11 DEF h
<1>14. /\ Speaks(conn'[p]) /\ Listens(conn'[p], Stream(conn'[e])) /\ conn'[p].app.wrote <= Quota[p]
       /\ \A x \in net'[e] : Belongs(x, Stream(conn'[p])) /\ (Running' => Apart(x, Stream(conn'[p])))
  BY <1>4, <1>8, <1>10, <1>12 DEF h
<1>15. \A f \in Ends :
         /\ Speaks(conn'[f]) /\ Listens(conn'[f], Stream(conn'[Peer(f)]))
         /\ conn'[f].app.wrote <= Quota[f]
         /\ \A x \in net'[Peer(f)] :
              Belongs(x, Stream(conn'[f])) /\ (Running' => Apart(x, Stream(conn'[f])))
  BY <1>1, <1>13, <1>14 DEF p
<1> QED
  BY <1>15 DEF Flow

\* Every ACK stays true, and the new ones are.
LEMMA HandleAcks ==
  ASSUME TypeOK, Acks, NEW e \in Ends, NEW d, NEW s \in Segment, NEW used,
         Handle(e, d, used), Flows(conn[e], d, s, Stream(conn[Peer(e)])),
         Echo(s) => s \in net[e],
         \/ Lasts(conn[e], d) /\ opens' = opens
         \/ conn[e].fsm = "INIT" /\ opens'[e] >= 1 /\ opens'[Peer(e)] = opens[Peer(e)]
  PROVE  Acks'
<1> DEFINE p == Peer(e)
           q == Settled(d)
           h == Stream(conn[p])
           g == Stream(conn[e])
<1>1. p \in Ends /\ p # e /\ Peer(p) = e /\ Ends = {e, p}
  BY TwoEnds
<1>2. conn[e] \in Conn /\ conn[p] \in Conn /\ net[e] \subseteq Segment /\ net[p] \subseteq Segment
  BY <1>1 DEF TypeOK
<1>3. d \in Conn /\ OutReady(d, h) /\ Widens(g, Stream(d))
  BY DEF Flows
<1>4. /\ conn'[e] = q /\ conn'[p] = conn[p] /\ net'[e] \subseteq net[e]
      /\ net'[p] = net[p] \cup d.out
  BY <1>3, HandleResult
<1>5. h \in Streams /\ h.iss < h.end /\ g \in Streams /\ Stream(d) \in Streams
  BY <1>2, <1>3, StreamType DEF Stream
<1>6. q \in Conn /\ q.fsm = NextState(d) /\ Stream(q) = Stream(d)
      /\ (q.fsm \in Live => q.snd_una = d.snd_una)
  BY <1>3, SettledHalves DEF SameHalves, SameQueues, Stream, End, Live, Embryonic, Synchronized
<1>7. /\ \A x \in net[e] : Echo(x) => AckTrue(g, conn[p], x.ack)
      /\ conn[e].fsm \in Live => AckTrue(g, conn[p], conn[e].snd_una)
      /\ conn[e].fsm # "INIT" => opens[e] >= 1
  BY <1>1 DEF Acks
<1>8. /\ \A x \in net[p] : Echo(x) => AckTrue(h, conn[e], x.ack)
      /\ conn[p].fsm \in Live => AckTrue(h, conn[e], conn[p].snd_una)
      /\ conn[p].fsm # "INIT" => opens[p] >= 1
  BY <1>1 DEF Acks
<1>9. \A n \in Nat : AckTrue(g, conn[p], n) => AckTrue(Stream(q), conn[p], n)
  BY <1>2, <1>3, <1>5, <1>6, AckStable
<1>10. \A n \in Nat : AckTrue(h, conn[e], n) => AckTrue(h, q, n)
  <2>1. CASE Lasts(conn[e], d)
    BY <1>2, <1>3, <1>5, <2>1, AckLasts
  <2>2. CASE conn[e].fsm = "INIT"
    BY <2>2 DEF AckTrue, Synchronized
  <2> QED
    BY <2>1, <2>2
<1>11. \A x \in net'[p] : Echo(x) => AckTrue(h, q, x.ack)
  <2>1. \A x \in d.out : Echo(x) => AckTrue(h, q, x.ack)
    BY <1>3, <1>5, EchoTrue
  <2>2. \A x \in net[p] : x.ack \in Nat
    BY <1>2 DEF Segment
  <2> QED
    BY <1>4, <1>8, <1>10, <2>1, <2>2
<1>12. \A x \in net'[e] : Echo(x) => AckTrue(Stream(q), conn[p], x.ack)
  <2>1. \A x \in net[e] : x.ack \in Nat
    BY <1>2 DEF Segment
  <2> QED
    BY <1>4, <1>7, <1>9, <2>1
<1>13. conn[p].fsm \in Live => AckTrue(h, q, conn[p].snd_una)
  <2>1. conn[p].snd_una \in Nat
    BY <1>2 DEF Conn
  <2> QED
    BY <1>8, <1>10, <2>1
<1>14. q.fsm \in Live => AckTrue(Stream(q), conn[p], q.snd_una)
  <2> SUFFICES ASSUME q.fsm \in Live
               PROVE  AckTrue(Stream(q), conn[p], q.snd_una)
    OBVIOUS
  <2>1. /\ conn[e].snd_una \in Nat /\ s.ack \in Nat /\ d.iss \in Nat /\ d.snd_una \in Nat
        /\ q.snd_una = d.snd_una
    BY <1>2, <1>3, <1>6 DEF Conn, Segment
  <2>2. \/ conn[e].fsm \in Live /\ d.snd_una = conn[e].snd_una
        \/ Echo(s) /\ d.snd_una = s.ack
        \/ d.snd_una <= d.iss + 1
    BY <1>6 DEF Flows
  <2>3. CASE conn[e].fsm \in Live /\ d.snd_una = conn[e].snd_una
    BY <1>7, <1>9, <2>1, <2>3
  <2>4. CASE Echo(s) /\ d.snd_una = s.ack
    BY <1>7, <1>9, <2>1, <2>4
  <2>5. CASE d.snd_una <= d.iss + 1
    <3>1. /\ Stream(q).iss = d.iss /\ Stream(q).end \in Nat /\ Stream(q).iss < Stream(q).end
      BY <1>3, <1>5, <1>6, StreamType DEF Stream, Streams
    <3> QED
      BY <2>1, <2>5, <3>1 DEF AckTrue
  <2> QED
    BY <2>2, <2>3, <2>4, <2>5
<1>15. /\ q.fsm # "INIT" => opens'[e] >= 1
       /\ conn[p].fsm # "INIT" => opens'[p] >= 1
  BY <1>6, <1>7, <1>8 DEF Lasts
<1> HIDE DEF p, q, h, g
<1>16. /\ \A x \in net'[e] : Echo(x) => AckTrue(Stream(conn'[e]), conn'[p], x.ack)
       /\ conn'[e].fsm \in Live => AckTrue(Stream(conn'[e]), conn'[p], conn'[e].snd_una)
       /\ conn'[e].fsm # "INIT" => opens'[e] >= 1
  BY <1>4, <1>12, <1>14, <1>15
<1>17. /\ \A x \in net'[p] : Echo(x) => AckTrue(Stream(conn'[p]), conn'[e], x.ack)
       /\ conn'[p].fsm \in Live => AckTrue(Stream(conn'[p]), conn'[e], conn'[p].snd_una)
       /\ conn'[p].fsm # "INIT" => opens'[p] >= 1
  BY <1>4, <1>11, <1>13, <1>15 DEF h
<1>18. \A f \in Ends :
         /\ \A x \in net'[f] : Echo(x) => AckTrue(Stream(conn'[f]), conn'[Peer(f)], x.ack)
         /\ conn'[f].fsm \in Live => AckTrue(Stream(conn'[f]), conn'[Peer(f)], conn'[f].snd_una)
         /\ conn'[f].fsm # "INIT" => opens'[f] >= 1
  BY <1>1, <1>16, <1>17 DEF p
<1> QED
  BY <1>18 DEF Acks

-----------------------------------------------------------------------------
(* The actions *)

\* What a step leaves behind.
Flowing == Flow' /\ (First => Acks')

\* What a handler finds.
LEMMA EndFacts ==
  ASSUME ClockOutruns, DInv, NEW e \in Ends
  PROVE  /\ TypeOK /\ Flow /\ conn[e] \in Conn /\ ConnInv(conn[e]) /\ Speaks(conn[e])
         /\ Stream(conn[Peer(e)]) \in Streams
         /\ Stream(conn[Peer(e)]).iss < Stream(conn[Peer(e)]).end
         /\ Listens(conn[e], Stream(conn[Peer(e)]))
         /\ conn[e].app.wrote <= Quota[e] /\ conn[e].app.wrote + 3 <= IssStep
         /\ conn[e].app.wrote \in Nat /\ Quota[e] \in Nat
<1>1. conn[e] \in Conn /\ conn[Peer(e)] \in Conn
  BY TwoEnds DEF DInv, IInv, TypeOK
<1>2. /\ Stream(conn[Peer(e)]) \in Streams
      /\ Stream(conn[Peer(e)]).iss < Stream(conn[Peer(e)]).end
  BY <1>1, StreamType DEF Stream
<1>3. conn[e].app.wrote \in Nat /\ Quota[e] \in Nat /\ IssStep \in Nat
  BY <1>1, EndpointsAssumption, ConnectionAssumption DEF Conn, App
<1>4. conn[e].app.wrote <= Quota[e]
  BY DEF DInv, Flow
<1> QED
  BY <1>1, <1>2, <1>3, <1>4 DEF DInv, IInv, Flow, ClockOutruns

\* A segment that carries nothing, for the events that have none.
Blank == Seg({}, 0, 0, 0)
\* It is a segment, and no ACK.
LEMMA BlankFacts == Blank \in Segment /\ ~Echo(Blank)
BY DEF Blank, Seg, Segment, Flags, Echo

\* A handler of a connection as it is, or as the application has just noted.
LEMMA EventFlows ==
  ASSUME ClockOutruns, DInv, Running, NEW e \in Ends, NEW d, NEW used, Handle(e, d, used),
         NEW s \in Segment, Echo(s) => s \in net[e],
         Flows(conn[e], d, s, Stream(conn[Peer(e)])), Lasts(conn[e], d),
         d.app.wrote <= Quota[e], opens' = opens
  PROVE  Flowing
<1>1. TypeOK /\ Flow
  BY EndFacts
<1>2. Flow'
  BY <1>1, HandleFlow
<1>3. First => Acks'
  BY <1>1, HandleAcks DEF DInv
<1> QED
  BY <1>2, <1>3 DEF Flowing

\* The handlers that neither open nor write.
LEMMA PassesFlows ==
  ASSUME ClockOutruns, DInv, Running, NEW e \in Ends, NEW d, NEW used, Handle(e, d, used),
         NEW s \in Segment, Echo(s) => s \in net[e],
         Passes(conn[e], d, s, Stream(conn[Peer(e)])), opens' = opens
  PROVE  Flowing
<1>1. d.app.wrote <= Quota[e]
  BY EndFacts DEF Passes
<1> QED
  BY <1>1, EventFlows DEF Passes

\* A new connection: under First it is the first.
LEMMA OpenFlows ==
  ASSUME ClockOutruns, DInv, NEW e \in Ends, NEW c, Open(e, c),
         Flows(conn[e], c, Blank, Stream(conn[Peer(e)])), c.app.wrote = 0
  PROVE  Flowing
<1>1. /\ Running /\ Handle(e, c, {}) /\ conn[e].fsm \in {"INIT", "CLOSED"}
      /\ opens[e] < MaxOpens /\ opens' = [opens EXCEPT ![e] = @ + 1]
  BY DEF Open, Command
<1>2. TypeOK /\ Flow /\ Quota[e] \in Nat
  BY EndFacts
<1>3. Flow'
  <2>1. c.app.wrote <= Quota[e]
    BY <1>2
  <2> QED
    BY <1>1, <1>2, <2>1, BlankFacts, HandleFlow
<1>4. ASSUME First
      PROVE  Acks'
  <2>1. Acks
    BY <1>4 DEF DInv
  <2>2. opens \in [Ends -> Nat] /\ MaxOpens \in Nat
    BY <1>2, EndpointsAssumption DEF TypeOK
  <2>3. conn[e].fsm = "INIT"
    BY <1>1, <1>4, <2>1, <2>2 DEF Acks, First
  <2>4. opens'[e] >= 1 /\ opens'[Peer(e)] = opens[Peer(e)]
    BY <1>1, <2>2, TwoEnds
  <2> QED
    BY <1>1, <1>2, <2>1, <2>3, <2>4, BlankFacts, HandleAcks
<1> QED
  BY <1>3, <1>4 DEF Flowing

\* connect() and listen().
LEMMA ConnectFlows ==
  ASSUME ClockOutruns, DInv, NEW e \in Ends, Connect(e) \/ Listen(e)
  PROVE  Flowing
<1> DEFINE c == conn[e]
           h == Stream(conn[Peer(e)])
<1>1. c \in Conn /\ c.app.wrote + 3 <= IssStep /\ h \in Streams
  BY EndFacts
<1> HIDE DEF h
<1>2. CASE Connect(e)
  <2> DEFINE n == [Reopened(c) EXCEPT !.app.sock = "CONNECTING"]
  <2>1. "CONNECTING" \in SockStates
    BY DEF SockStates
  <2>2. Newborn(c, n, "CONNECTING")
    BY <1>1, <2>1, NewConnFacts
  <2>3. Open(e, ProcessOpenActive(n))
    BY <1>2 DEF Connect, NewConn
  <2> HIDE DEF n
  <2>4. Flows(c, ProcessOpenActive(n), Blank, h) /\ ProcessOpenActive(n).app.wrote = 0
    BY <1>1, <2>2, BlankFacts, OpenActiveFlows
  <2> QED
    BY <2>3, <2>4, OpenFlows DEF h
<1>3. CASE Listen(e)
  <2> DEFINE n == [Reopened(c) EXCEPT !.app.sock = "LISTENING"]
  <2>1. "LISTENING" \in SockStates
    BY DEF SockStates
  <2>2. Newborn(c, n, "LISTENING")
    BY <1>1, <2>1, NewConnFacts
  <2>3. Open(e, ProcessOpenPassive(n))
    BY <1>3 DEF Listen, NewConn
  <2> HIDE DEF n
  <2>4. Flows(c, ProcessOpenPassive(n), Blank, h) /\ ProcessOpenPassive(n).app.wrote = 0
    BY <1>1, <2>2, BlankFacts, OpenPassiveFlows
  <2> QED
    BY <2>3, <2>4, OpenFlows DEF h
<1> QED
  BY <1>2, <1>3

\* send().
LEMMA SendStepFlows ==
  ASSUME ClockOutruns, AllHeed, DInv, NEW e \in Ends, Send(e)
  PROVE  Flowing
<1> DEFINE c == conn[e]
           h == Stream(conn[Peer(e)])
           a == [c.app EXCEPT !.wrote = @ + 1]
           n == [c EXCEPT !.app.wrote = @ + 1]
<1>1. /\ c \in Conn /\ ConnInv(c) /\ Speaks(c) /\ h \in Streams /\ Listens(c, h) /\ c.app \in App
      /\ c.app.wrote \in Nat /\ Quota[e] \in Nat
  BY EndFacts DEF Conn
<1>2. /\ c.app.sock \in {"CONNECTED", "CONNECTING", "PEER_CLOSED"} /\ ~c.app.closed
      /\ c.app.wrote < Quota[e] /\ Running /\ Handle(e, ProcessSend(n), {}) /\ opens' = opens
  BY DEF Send, Command, HeedsClose, AllHeed
<1> HIDE DEF h, c
<1>3. /\ c.fsm \in Embryonic \cup {"ESTABLISHED", "CLOSE_WAIT"}
      /\ c.fsm = "SYN_RCVD" => c.active
  BY <1>1, <1>2 DEF ConnInv, SocketMatches, SocketFits
<1>4. n = [c EXCEPT !.app = a]
  BY <1>1 DEF Conn, App
<1>5. a \in App /\ a.wrote = c.app.wrote + 1 /\ a.got = c.app.got /\ a.closed = c.app.closed
  BY <1>1 DEF App
<1> HIDE DEF a, n
<1>6. /\ Flows(c, ProcessSend(n), Blank, h) /\ Lasts(c, ProcessSend(n))
      /\ ProcessSend(n).app.wrote = c.app.wrote + 1
  BY <1>1, <1>2, <1>3, <1>4, <1>5, BlankFacts, SendFlows
<1>7. ProcessSend(n).app.wrote <= Quota[e]
  BY <1>1, <1>2, <1>6
<1> QED
  BY <1>2, <1>6, <1>7, BlankFacts, EventFlows DEF c, h

\* close().
LEMMA CloseStepFlows ==
  ASSUME ClockOutruns, AllHeed, DInv, NEW e \in Ends, Close(e)
  PROVE  Flowing
<1> DEFINE c == conn[e]
           h == Stream(conn[Peer(e)])
           sock == IF c.app.sock = "CONNECTED" THEN "LOCALLY_CLOSED" ELSE "CLOSED"
           a == [c.app EXCEPT !.sock = sock, !.closed = TRUE]
           n == [c EXCEPT !.app.sock = sock, !.app.closed = TRUE]
<1>1. /\ c \in Conn /\ ConnInv(c) /\ Speaks(c) /\ h \in Streams /\ Listens(c, h) /\ c.app \in App
  BY EndFacts DEF Conn
<1>2. /\ c.app.sock \in {"CONNECTED", "PEER_CLOSED", "CONNECTING", "LISTENING"} /\ ~c.app.closed
      /\ Running /\ Handle(e, ProcessClose(n), {}) /\ opens' = opens
  BY DEF Close, Command, HeedsClose, AllHeed
<1> HIDE DEF h, c
<1>3. c.fsm \in Embryonic \cup {"LISTEN", "ESTABLISHED", "CLOSE_WAIT"}
  BY <1>1, <1>2 DEF ConnInv, SocketMatches, SocketFits, Embryonic
<1>4. sock \in SockStates
  BY DEF SockStates
<1> HIDE DEF sock
<1>5. n = [c EXCEPT !.app = a]
  BY <1>1 DEF Conn, App
<1>6. a \in App /\ a.wrote = c.app.wrote /\ a.got = c.app.got /\ a.closed = TRUE
  BY <1>1, <1>4 DEF App
<1> HIDE DEF a, n
<1>7. Passes(c, ProcessClose(n), Blank, h)
  BY <1>1, <1>2, <1>3, <1>5, <1>6, BlankFacts, ClosePasses
<1> QED
  BY <1>2, <1>7, BlankFacts, PassesFlows DEF c, h

\* abort().
LEMMA AbortStepFlows ==
  ASSUME ClockOutruns, DInv, NEW e \in Ends, Abort(e)
  PROVE  Flowing
<1> DEFINE c == conn[e]
           h == Stream(conn[Peer(e)])
           a == [c.app EXCEPT !.sock = "CLOSED", !.aborted = TRUE]
           n == [c EXCEPT !.app.sock = "CLOSED", !.app.aborted = TRUE]
<1>1. /\ c \in Conn /\ ConnInv(c) /\ Speaks(c) /\ h \in Streams /\ Listens(c, h) /\ c.app \in App
  BY EndFacts DEF Conn
<1>2. Running /\ Handle(e, ProcessAbort(n), {}) /\ opens' = opens
  BY DEF Abort, Command
<1> HIDE DEF h, c
<1>3. n = [c EXCEPT !.app = a]
  BY <1>1 DEF Conn, App
<1>4. a \in App /\ a.wrote = c.app.wrote /\ a.got = c.app.got /\ a.closed = c.app.closed
  BY <1>1 DEF App, SockStates
<1> HIDE DEF a, n
<1>5. Passes(c, ProcessAbort(n), Blank, h)
  BY <1>1, <1>3, <1>4, BlankFacts, AbortPasses
<1> QED
  BY <1>2, <1>5, BlankFacts, PassesFlows DEF c, h

\* The timers.
LEMMA TimerStepFlows ==
  ASSUME ClockOutruns, DInv, NEW e \in Ends, TimerStep(e)
  PROVE  Flowing
<1> DEFINE c == conn[e]
           h == Stream(conn[Peer(e)])
<1>1. c \in Conn /\ ConnInv(c) /\ Speaks(c) /\ h \in Streams /\ Listens(c, h)
  BY EndFacts
<1>2. ASSUME NEW timer, NEW d, Expire(e, timer, d), Passes(c, d, Blank, h)
      PROVE  Flowing
  <2>1. Running /\ Handle(e, d, {}) /\ opens' = opens
    BY <1>2 DEF Expire, Command
  <2> QED
    BY <1>2, <2>1, BlankFacts, PassesFlows
<1> HIDE DEF h
<1>3. CASE SynRexmitTimeout(e)
  BY <1>1, <1>2, <1>3, BlankFacts, SynRexmitPasses DEF SynRexmitTimeout
<1>4. CASE ConnEstabTimeout(e)
  BY <1>1, <1>2, <1>4, BlankFacts, ConnEstabPasses DEF ConnEstabTimeout
<1>5. CASE RexmitTimeout(e)
  <2>1. "rexmit" \in c.timers /\ Expire(e, "rexmit", ProcessRexmitTimer(c))
    BY <1>5 DEF RexmitTimeout, Expire
  <2> QED
    BY <1>1, <1>2, <2>1, BlankFacts, RexmitPasses
<1>6. CASE TwoMSLTimeout(e)
  BY <1>1, <1>2, <1>6, BlankFacts, TwoMSLPasses DEF TwoMSLTimeout
<1> QED
  BY <1>3, <1>4, <1>5, <1>6 DEF TimerStep

\* A step that leaves the connections and the openings alone, and may take a segment away.
LEMMA IdleFlows ==
  ASSUME ClockOutruns, DInv, Running, conn' = conn, opens' = opens,
         \A f \in Ends : net'[f] \subseteq net[f]
  PROVE  Flowing
<1>1. Flow'
  <2>1. \A f \in Ends : net'[Peer(f)] \subseteq net[Peer(f)]
    BY TwoEnds
  <2>2. ASSUME NEW f \in Ends
        PROVE  /\ Speaks(conn'[f]) /\ Listens(conn'[f], Stream(conn'[Peer(f)]))
               /\ conn'[f].app.wrote <= Quota[f]
               /\ \A s \in net'[Peer(f)] :
                    Belongs(s, Stream(conn'[f])) /\ (Running' => Apart(s, Stream(conn'[f])))
    BY <2>1 DEF DInv, Flow
  <2> QED
    BY <2>2 DEF Flow
<1>2. First => Acks'
  BY DEF DInv, Acks
<1> QED
  BY <1>1, <1>2 DEF Flowing

\* The network.
LEMMA NetworkStepFlows ==
  ASSUME ClockOutruns, DInv, NEW e \in Ends, NEW s \in net[e],
         Deliver(e, s) \/ Duplicate(e, s) \/ Lose(e, s) \/ Drop(e, s)
  PROVE  Flowing
<1> DEFINE c == conn[e]
           h == Stream(conn[Peer(e)])
<1>1. /\ c \in Conn /\ ConnInv(c) /\ Speaks(c) /\ h \in Streams /\ Listens(c, h)
      /\ h.iss < h.end /\ c.app.wrote + 3 <= IssStep /\ TypeOK /\ Flow
  BY EndFacts
<1>2. s \in Segment /\ net \in [Ends -> SUBSET Segment]
  BY <1>1 DEF TypeOK
<1>3. ASSUME Running
      PROVE  Passes(c, ProcessSegment(c, s), s, h)
  <2>1. Peer(e) \in Ends /\ Peer(Peer(e)) = e
    BY TwoEnds
  <2>2. Belongs(s, h) /\ Apart(s, h)
    BY <1>1, <1>3, <2>1 DEF Flow
  <2> QED
    BY <1>1, <1>2, <2>2, SegmentPasses
<1>4. CASE Deliver(e, s)
  <2>1. Running /\ Handle(e, ProcessSegment(c, s), {s}) /\ opens' = opens
    BY <1>4 DEF Deliver
  <2> QED
    BY <1>2, <1>3, <2>1, PassesFlows
<1>5. CASE Duplicate(e, s)
  <2>1. Running /\ Handle(e, ProcessSegment(c, s), {}) /\ opens' = opens
    BY <1>5 DEF Duplicate
  <2> QED
    BY <1>2, <1>3, <2>1, PassesFlows
<1>6. CASE Lose(e, s) \/ Drop(e, s)
  <2>1. Running /\ conn' = conn /\ opens' = opens /\ net' = [net EXCEPT ![e] = @ \ {s}]
    BY <1>6 DEF Lose, Drop
  <2>2. \A f \in Ends : net'[f] \subseteq net[f]
    BY <1>2, <2>1
  <2> QED
    BY <2>1, <2>2, IdleFlows
<1> QED
  BY <1>4, <1>5, <1>6

\* Crash and restart: the stream that was ends where it is, and the next begins behind it.
LEMMA NodeStepFlows ==
  ASSUME ClockOutruns, DInv, NEW e \in Ends, NodeStep(e)
  PROVE  Flowing
<1>1. CASE Restart(e)
  <2>1. Running /\ conn' = conn /\ opens' = opens /\ net' = net
    BY <1>1 DEF Restart
  <2> QED
    BY <2>1, IdleFlows
<1>2. CASE Crash(e)
  <2> DEFINE p == Peer(e)
             q == Reopened(conn[e])
             h == Stream(conn[p])
             g == Stream(conn[e])
  <2>1. Running /\ net' = net /\ conn' = [conn EXCEPT ![e] = q] /\ crashes < MaxCrash
    BY <1>2 DEF Crash
  <2>2. p \in Ends /\ p # e /\ Peer(p) = e /\ Ends = {e, p}
    BY TwoEnds
  <2>3. /\ conn[e] \in Conn /\ conn[p] \in Conn /\ h \in Streams /\ TypeOK /\ Flow
        /\ conn[e].app.wrote + 3 <= IssStep /\ net[p] \subseteq Segment
    BY <2>2, EndFacts DEF TypeOK
  <2>4. /\ q \in Conn /\ Speaks(q) /\ Listens(q, h) /\ Widens(g, Stream(q)) /\ q.app = FreshApp
        /\ q.failed = {}
    BY <2>3, ReopenedFlows
  <2>5. conn'[e] = q /\ conn'[p] = conn[p]
    BY <2>1, <2>2, <2>3 DEF TypeOK
  <2>6. g \in Streams /\ Stream(q) \in Streams
    BY <2>3, <2>4, StreamType
  <2>7. Listens(conn[p], Stream(q))
    <3>1. Listens(conn[p], g)
      BY <2>2, <2>3 DEF Flow
    <3> QED
      BY <2>3, <2>4, <2>6, <3>1, ListensStable
  <2>8. \A x \in net[p] : Belongs(x, Stream(q)) /\ Apart(x, Stream(q))
    <3>1. \A x \in net[p] : Belongs(x, g) /\ Apart(x, g)
      BY <2>1, <2>2, <2>3 DEF Flow
    <3> QED
      BY <2>3, <2>4, <2>6, <3>1, SegmentStable
  <2>9. /\ \A x \in net[e] : Belongs(x, h) /\ Apart(x, h)
        /\ Speaks(conn[p]) /\ conn[p].app.wrote <= Quota[p]
    BY <2>1, <2>2, <2>3 DEF Flow
  <2>10. q.app.wrote <= Quota[e]
    BY <2>4, EndFacts DEF FreshApp
  <2> HIDE DEF p, q, h, g
  <2>11. /\ Speaks(conn'[e]) /\ Listens(conn'[e], Stream(conn'[p])) /\ conn'[e].app.wrote <= Quota[e]
         /\ \A x \in net'[p] : Belongs(x, Stream(conn'[e])) /\ (Running' => Apart(x, Stream(conn'[e])))
    BY <2>1, <2>4, <2>5, <2>8, <2>10 DEF h
  <2>12. /\ Speaks(conn'[p]) /\ Listens(conn'[p], Stream(conn'[e])) /\ conn'[p].app.wrote <= Quota[p]
         /\ \A x \in net'[e] : Belongs(x, Stream(conn'[p])) /\ (Running' => Apart(x, Stream(conn'[p])))
    BY <2>1, <2>5, <2>7, <2>9 DEF h
  <2>13. \A f \in Ends :
           /\ Speaks(conn'[f]) /\ Listens(conn'[f], Stream(conn'[Peer(f)]))
           /\ conn'[f].app.wrote <= Quota[f]
           /\ \A x \in net'[Peer(f)] :
                Belongs(x, Stream(conn'[f])) /\ (Running' => Apart(x, Stream(conn'[f])))
    BY <2>2, <2>11, <2>12 DEF p
  <2>14. Flow'
    BY <2>13 DEF Flow
  <2>15. ~First
    BY <2>1, <2>3, EndpointsAssumption DEF First, TypeOK
  <2> QED
    BY <2>14, <2>15 DEF Flowing
<1> QED
  BY <1>1, <1>2 DEF NodeStep

-----------------------------------------------------------------------------
(* The theorems *)

\* At first nothing has been said.
LEMMA InitDInv == ClockOutruns /\ Init => DInv
<1> SUFFICES ASSUME ClockOutruns, Init PROVE DInv
  OBVIOUS
<1>1. IInv
  BY InitInv
<1>2. /\ FreshConn.fsm = "INIT" /\ FreshConn.irs = 0 /\ FreshConn.iss = 0 /\ FreshConn.q_end = 0
      /\ FreshConn.event = "IGNORE" /\ FreshConn.fin_ack_rcvd = FALSE
      /\ FreshConn.fin_rcvd = FALSE /\ FreshConn.app = FreshApp
  BY DEF FreshConn
<1>3. FreshApp.wrote = 0 /\ FreshApp.got = 0 /\ FreshApp.closed = FALSE
  BY DEF FreshApp
<1>4. Speaks(FreshConn)
  BY <1>2, <1>3 DEF Speaks, FinKnown, Live, Embryonic, Synchronized
<1>5. Stream(FreshConn).iss = 0
  BY <1>2 DEF Stream
<1>6. Listens(FreshConn, Stream(FreshConn))
  BY <1>2, <1>3, <1>5 DEF Listens, Heard, Synchronized
<1>7. \A e \in Ends : /\ conn[e] = FreshConn /\ conn[Peer(e)] = FreshConn /\ net[e] = {}
                      /\ net[Peer(e)] = {} /\ Quota[e] \in Nat
  BY TwoEnds, EndpointsAssumption DEF Init
<1>8. Flow
  BY <1>2, <1>3, <1>4, <1>6, <1>7 DEF Flow
<1>9. Acks
  BY <1>2, <1>7 DEF Acks, Live, Embryonic, Synchronized
<1> QED
  BY <1>1, <1>8, <1>9 DEF DInv

\* Every step keeps it.
LEMMA NextDInv == ClockOutruns /\ AllHeed /\ DInv /\ [Next]_vars => DInv'
<1> SUFFICES ASSUME ClockOutruns, AllHeed, DInv, [Next]_vars PROVE DInv'
  OBVIOUS
<1>1. IInv'
  BY NextInv DEF DInv
<1>2. CASE UNCHANGED vars
  BY <1>1, <1>2 DEF DInv, Flow, Acks, Running, vars
<1>3. CASE Next
  <2>1. PICK e \in Ends : UserStep(e) \/ TimerStep(e) \/ NetworkStep(e) \/ NodeStep(e)
    BY <1>3 DEF Next
  <2>2. UserStep(e) => Flowing
    BY ConnectFlows, SendStepFlows, CloseStepFlows, AbortStepFlows DEF UserStep
  <2>3. NetworkStep(e) => Flowing
    BY NetworkStepFlows DEF NetworkStep
  <2>4. Flowing
    BY <2>1, <2>2, <2>3, TimerStepFlows, NodeStepFlows
  <2> QED
    BY <1>1, <2>4 DEF Flowing, DInv
<1> QED
  BY <1>2, <1>3

\* The inductive invariant holds throughout, whatever is lost, repeated, reordered or reset.
THEOREM StreamsFlow ==
  ASSUME ClockOutruns, AllHeed
  PROVE  Spec => []DInv
<1>1. Init => DInv
  BY InitDInv
<1>2. DInv /\ [Next]_vars => DInv'
  BY NextDInv
<1> QED
  BY <1>1, <1>2, PTL DEF Spec

\* Data and FINs on the wire come from the send queue, the FIN after the last unit of it, also
\* when they are retransmitted after more has been queued or acknowledged.
THEOREM WireMatchesQueue ==
  ASSUME ClockOutruns, AllHeed
  PROVE  Spec => []SegmentsMatchQueue
<1>1. DInv => SegmentsMatchQueue
  <2> SUFFICES ASSUME DInv, NEW e \in Ends, NEW s \in net[Peer(e)],
                      conn[e].fsm \in Synchronized, s.seq > conn[e].iss,
                      s.len = 1 \/ "FIN" \in s.flags
               PROVE  /\ s.seq + s.len <= conn[e].q_end
                      /\ "FIN" \in s.flags =>
                           conn[e].app.closed /\ s.seq + s.len = conn[e].q_end
    BY DEF SegmentsMatchQueue
  <2>1. Belongs(s, Stream(conn[e])) /\ Fits(conn[e])
    BY DEF DInv, Flow, Speaks, Live
  <2> QED
    BY <2>1 DEF Belongs, Text, Stream, Fits
<1> QED
  BY <1>1, StreamsFlow, PTL

\* Whatever was lost, repeated or reordered, an application is handed no more units than its
\* peer's application wrote into the same connection.
THEOREM NothingMadeUp ==
  ASSUME ClockOutruns, AllHeed
  PROVE  Spec => []NothingInvented
<1>1. DInv => NothingInvented
  <2> SUFFICES ASSUME DInv, NEW e \in Ends, Paired(e)
               PROVE  conn[e].app.got <= conn[Peer(e)].app.wrote
    BY DEF NothingInvented
  <2> DEFINE h == Stream(conn[Peer(e)])
  <2>1. conn[e].app.got <= h.end - h.iss - 1
    BY DEF DInv, Flow, Listens, Paired, Stream
  <2>2. conn[Peer(e)] \in Conn
    BY TwoEnds DEF DInv, IInv, TypeOK
  <2>3. h.end - h.iss - 1 = conn[Peer(e)].app.wrote
    BY <2>2 DEF Stream, End, Conn, App
  <2> QED
    BY <2>1, <2>3
<1> QED
  BY <1>1, StreamsFlow, PTL

\* What a sender drops from its queue as acknowledged is in the hands of the peer's application:
\* an ACK is never ahead of the data it stands for, in the first connection of two hosts.
THEOREM AckedIsReceived ==
  ASSUME ClockOutruns, AllHeed, First
  PROVE  Spec => []AckedIsDelivered
<1>1. DInv => AckedIsDelivered
  <2> SUFFICES ASSUME DInv, NEW e \in Ends
               PROVE  Lesser(conn[e].snd_una, conn[e].q_end) - conn[e].iss - 1
                        <= conn[Peer(e)].app.got
    BY DEF AckedIsDelivered
  <2> DEFINE c == conn[e]
             p == conn[Peer(e)]
  <2>1. /\ c \in Conn /\ c.snd_una \in Nat /\ c.q_end \in Nat /\ c.iss \in Nat /\ p.app.got \in Nat
        /\ c.fsm \in States
    BY TwoEnds DEF DInv, IInv, TypeOK, Conn, App
  <2>2. Speaks(c) /\ (c.fsm \in Live => AckTrue(Stream(c), p, c.snd_una))
    BY DEF DInv, Flow, Acks
  <2> HIDE DEF c, p
  <2>3. c.fsm \in Live \cup {"INIT", "CLOSED", "LISTEN"}
    BY <2>1 DEF Live, Embryonic, Synchronized
  <2>4. Lesser(c.snd_una, c.q_end) - c.iss - 1 <= p.app.got
    <3>1. CASE c.fsm \in Live
      <4>1. /\ c.q_end = Stream(c).end /\ c.iss = Stream(c).iss
        BY <2>2, <3>1 DEF Speaks, Fits, Stream
      <4> QED
        BY <2>1, <2>2, <3>1, <4>1 DEF AckTrue, Lesser
    <3>2. CASE c.fsm \in {"INIT", "CLOSED"}
      BY <2>1, <2>2, <3>2 DEF Speaks, Lesser
    <3>3. CASE c.fsm = "LISTEN"
      BY <2>1, <2>2, <3>3 DEF Speaks, Lesser
    <3> QED
      BY <2>3, <3>1, <3>2, <3>3
  <2> QED
    BY <2>4 DEF c, p
<1> QED
  BY <1>1, StreamsFlow, PTL

\* TIME_WAIT is reached only when both streams have been delivered to the end.
THEOREM TimeWaitAfterAll ==
  ASSUME ClockOutruns, AllHeed, First
  PROVE  Spec => []TimeWaitIsComplete
<1>1. DInv => TimeWaitIsComplete
  <2> SUFFICES ASSUME DInv, NEW e \in Ends, conn[e].fsm = "TIME_WAIT",
                      Paired(e), Paired(Peer(e))
               PROVE  /\ conn[e].app.got = conn[Peer(e)].app.wrote
                      /\ conn[Peer(e)].app.got = conn[e].app.wrote
    BY DEF TimeWaitIsComplete
  <2> DEFINE c == conn[e]
             p == conn[Peer(e)]
             h == Stream(p)
             g == Stream(c)
  <2>1. Peer(e) \in Ends /\ Peer(Peer(e)) = e /\ c \in Conn /\ p \in Conn
    BY TwoEnds DEF DInv, IInv, TypeOK
  <2>2. /\ c.app.got \in Nat /\ c.app.wrote \in Nat /\ p.app.got \in Nat /\ p.app.wrote \in Nat
        /\ c.iss \in Nat /\ p.iss \in Nat
        /\ h.iss = p.iss /\ h.end = p.iss + 1 + p.app.wrote
        /\ g.iss = c.iss /\ g.end = c.iss + 1 + c.app.wrote
    BY <2>1 DEF Conn, App, Stream, End
  <2>3. c.fsm \in Live /\ c.fsm \in Heard /\ c.fsm \in FinTaken /\ c.fsm = "TIME_WAIT"
    BY DEF Live, Heard, FinTaken, Synchronized, States
  <2>4. Fits(c) /\ FinKnown(c) /\ Hears(c, h) /\ AckTrue(g, p, c.snd_una)
    BY <2>3 DEF DInv, Flow, Acks, Speaks, Listens
  <2>5. Listens(p, g)
    BY <2>1 DEF DInv, Flow
  <2>6. c.irs = p.iss /\ p.irs = c.iss /\ p.irs # 0
    BY <2>1 DEF Paired
  <2> HIDE DEF c, p, h, g
  <2>7. c.app.got = p.app.wrote
    <3>1. c.rcv_nxt = h.end + 1 /\ c.app.got = Lesser(c.rcv_nxt, h.end) - c.irs - 1
      BY <2>2, <2>3, <2>4, <2>6 DEF Hears
    <3> QED
      BY <2>2, <2>6, <3>1 DEF Lesser
  <2>8. p.app.got = c.app.wrote
    <3>1. c.snd_una = c.q_end + 1
      BY <2>3, <2>4 DEF FinKnown
    <3>2. c.q_end = g.end
      BY <2>2, <2>4 DEF Fits, End
    <3>3. Lesser(c.snd_una, g.end) <= g.iss + 1 + p.app.got
      BY <2>2, <2>4, <3>1, <3>2 DEF AckTrue
    <3>4. p.app.got <= g.end - g.iss - 1
      BY <2>2, <2>5, <2>6 DEF Listens
    <3> QED
      BY <2>2, <3>1, <3>2, <3>3, <3>4 DEF Lesser
  <2> QED
    BY <2>7, <2>8 DEF c, p
<1> QED
  BY <1>1, StreamsFlow, PTL

=============================================================================
