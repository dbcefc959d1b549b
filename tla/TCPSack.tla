------------------------------- MODULE TCPSack ------------------------------
(***************************************************************************)
(* One direction of an established TCP connection with selective           *)
(* acknowledgments: a TCPReno sender with its SACK scoreboard, the         *)
(* receiver with its reassembly queue and SACK list, and a network that    *)
(* reorders and loses segments and acknowledgments.                        *)
(*                                                                         *)
(* The configuration is the one of the tests of the repository: SACK and   *)
(* Nagle on, delayed acknowledgments, limited transmit, timestamps and     *)
(* window scaling off, virtual data queues.  The receiver's window is      *)
(* constant and larger than the stream; the FIN is not sent (TCPEndpoints  *)
(* models the opening and the end of a connection).                        *)
(***************************************************************************)
EXTENDS TCPQueues, FiniteSets

CONSTANTS
  ISS,                    \* the sequence number of the first octet
  Octets,                 \* how many octets the application writes: a bound
  WriteSizes,             \* how many of them in one SEND
  Mss, Window,            \* snd_mss, and the window the receiver advertises
  DupThresh,              \* DUPTHRESH, 3 in the code
  MaxRto                  \* bound on the retransmission timeouts

ASSUME SackAssumption ==
  /\ ISS \in SeqNo /\ Octets \in Nat /\ Octets < SeqModulus \div 2
  /\ WriteSizes \subseteq 1..Octets
  /\ Mss \in Nat \ {0} /\ Window \in Nat /\ Window > Octets /\ Window < SeqModulus \div 2
  /\ DupThresh \in Nat \ {0} /\ MaxRto \in Nat

VARIABLES
  snd,                    \* the sender's state variables, with its rexmitQueue
  rcv,                    \* the receiver's, with its receiveQueue and sacks_array
  data, acks,             \* segments and acknowledgments under way
  rtos,                   \* retransmission timeouts so far
  arrived                 \* history: the octets that reached the receiver

vars == <<snd, rcv, data, acks, rtos, arrived>>

Block == [begin : SeqNo, end : SeqNo]
Smaller(a, b) == IF a < b THEN a ELSE b
Larger(a, b) == IF a < b THEN b ELSE a

\* The octets of a block, counted from the first of the stream
OctetsOf(b) == Diff(b.begin, ISS) .. (Diff(b.begin, ISS) + Length(b) - 1)

InitialWindow == 4 * Mss  \* min(4*MSS, max(2*MSS, 4380)), for an MSS below 1095
Init ==
  /\ snd = [una |-> ISS, nxt |-> ISS, max |-> ISS, written |-> ISS, afterRto |-> FALSE,
            dupacks |-> 0, lossRecovery |-> FALSE, recoveryPoint |-> 0, pipe |-> 0,
            cwnd |-> InitialWindow, ssthresh |-> SeqModulus, queue |-> EmptyQueue(ISS),
            sent |-> 0, out |-> {}, failed |-> FALSE]
  /\ rcv = [nxt |-> ISS, regions |-> <<>>, sacks |-> <<>>, delivered |-> 0, failed |-> FALSE]
  /\ data = {} /\ acks = {}
  /\ rtos = 0
  /\ arrived = {}

-----------------------------------------------------------------------------
(* The sender.  Each operator maps the sender to the one after the call;   *)
(* "out" collects the segments it sends, "failed" a failed assertion.      *)

Buffered(s, seq) == IF Less(seq, s.written) THEN Diff(s.written, seq) ELSE 0
Fail(s) == [s EXCEPT !.failed = TRUE]

\* What was sacked or retransmitted is not sent again after an RTO
ForwardNxt(s) == [s EXCEPT !.nxt = IF s.afterRto THEN Add(@, Forward(s.queue, @)) ELSE @]

\* Sends the octets from snd_nxt up to "to"
SendUpTo(s, to) ==
  IF ~MayEnqueue(s.queue, s.nxt, to) THEN Fail(s)
  ELSE [s EXCEPT !.nxt = to, !.sent = Diff(to, s.nxt), !.out = @ \cup {[begin |-> s.nxt, end |-> to]},
                 !.queue = EnqueueSentData(@, s.nxt, to),
                 !.afterRto = @ /\ Less(to, s.max)]

SendFromNxt(s, bytes) ==
  SendUpTo(s, Add(s.nxt, Smaller(Smaller(bytes, Mss), Buffered(s, s.nxt))))
SendSegment(s, bytes) == IF s.failed THEN s ELSE SendFromNxt(ForwardNxt(s), bytes)

\* The sender and how many of the bytes to send are left
Sent(s, bytes) == [s |-> s, left |-> bytes - s.sent]
SendFull(x) ==
  IF x.left < Mss \/ x.s.failed THEN x ELSE Sent(SendSegment(x.s, Mss), x.left)
SendSegments(s, bytes) ==
  IF bytes <= Mss THEN Sent(SendSegment(s, bytes), bytes)
  ELSE FoldLeft(LAMBDA x, i : SendFull(x), [s |-> s, left |-> bytes], [i \in 1..Octets |-> i])

\* The last segment may be less than a full one
SendLast(x) ==
  IF x.left # 0 /\ x.left = Buffered(x.s, x.s.nxt) THEN SendSegment(x.s, x.left) ELSE x.s
RaiseMax(s) == [s EXCEPT !.max = Later(@, s.nxt)]

SendBytes(s, bytesToSend, fullSegmentsOnly) ==
  IF bytesToSend <= 0 \/ (fullSegmentsOnly /\ bytesToSend < Mss) THEN s
  ELSE RaiseMax(SendLast(SendSegments(s, bytesToSend)))
EffectiveWin(s) == Smaller(Window, s.cwnd) - Diff(s.nxt, s.una)
SendFrom(s, fullSegmentsOnly) ==
  IF s.failed THEN s
  ELSE SendBytes(s, Smaller(EffectiveWin(s), Buffered(s, s.nxt)), fullSegmentsOnly)
SendData(s, fullSegmentsOnly) ==
  SendFrom(IF s.afterRto THEN s ELSE [s EXCEPT !.nxt = s.max], fullSegmentsOnly)

\* TCPBaseAlg::sendData: an idle connection goes back to the initial window
AlgSendData(s, sendCommandInvoked, idle) ==
  LET restart == idle /\ Buffered(s, s.nxt) # 0
  IN SendData([s EXCEPT !.cwnd = IF restart THEN Smaller(@, InitialWindow) ELSE @],
              sendCommandInvoked /\ s.una # s.max)

Restored(s, old, atRto) == [s EXCEPT !.nxt = IF atRto THEN @ ELSE Later(@, old)]
RetransmitOneSegment(s, atRto) ==
  LET bytes == Smaller(Smaller(Mss, Diff(s.max, s.una)), Buffered(s, s.una))
  IN IF bytes = 0 THEN Fail(s)
     ELSE Restored(SendSegment([s EXCEPT !.nxt = s.una], bytes), s.nxt, atRto)

-----------------------------------------------------------------------------
(* Loss recovery (RFC 3517) *)

IsLost(q, seq) ==
  \/ NumOfDiscontiguousSacks(q, seq) >= DupThresh
  \/ AmountOfSackedBytes(q, seq) >= DupThresh * Mss

InPipe(q, r, highRxt) ==
  IF r.sacked THEN 0
  ELSE (IF IsLost(q, r.begin) THEN 0 ELSE Length(r)) + (IF Less(r.begin, highRxt) THEN Length(r) ELSE 0)
SetPipe(s) ==
  [s EXCEPT !.pipe =
     FoldLeft(LAMBDA n, r : n + InPipe(s.queue, r, HighestRexmitted(s.queue)), 0,
              SelectSeq(From(s.queue, s.una), LAMBDA r : Less(r.begin, s.max)))]

\* The sequence numbers to send next, none or one: the first hole behind what was retransmitted
\* if it is lost, else new data, else that hole all the same
Holes(s) ==
  SelectSeq(From(s.queue, HighestRexmitted(s.queue)),
            LAMBDA r : ~r.sacked /\ Less(r.begin, s.max) /\ Less(r.begin, HighestSacked(s.queue)))
HasNew(s) == Buffered(s, s.max) > 0 /\ Window - s.pipe >= Mss
Preferred(s, holes) ==
  IF holes # <<>> /\ (IsLost(s.queue, holes[1].begin) \/ ~HasNew(s)) THEN {holes[1].begin}
  ELSE IF HasNew(s) THEN {s.max} ELSE {}
NextSeg(s) == Preferred(s, Holes(s))

AfterRecoverySegment(s, sentTo) ==
  IF s.failed \/ ~LE(s.nxt, Add(sentTo, 1)) THEN Fail(s)
  ELSE [s EXCEPT !.max = Later(@, sentTo), !.pipe = @ + s.sent]
AfterSend(s, seq) == AfterRecoverySegment(s, Add(seq, s.sent))
SendSegmentDuringLossRecoveryPhase(s, seq) == AfterSend(SendSegment([s EXCEPT !.nxt = seq], Mss), seq)

SendAny(s, seqs) ==
  IF seqs = {} THEN s ELSE SendSegmentDuringLossRecoveryPhase(s, CHOOSE seq \in seqs : TRUE)
SendDataDuringLossRecoveryPhase(s) ==
  FoldLeft(LAMBDA x, i : IF x.failed \/ x.cwnd - x.pipe < Mss THEN x ELSE SendAny(x, NextSeg(x)),
           s, [i \in 1..Octets |-> i])

-----------------------------------------------------------------------------
(* TCPReno *)

RecalculateSlowStartThreshold(s) ==
  [s EXCEPT !.ssthresh = Larger(Smaller(s.cwnd, Window) \div 2, 2 * Mss)]

GrowWindow(s) ==
  IF s.dupacks >= DupThresh THEN [s EXCEPT !.cwnd = s.ssthresh]
  ELSE IF s.cwnd < s.ssthresh THEN [s EXCEPT !.cwnd = @ + Mss]
  ELSE [s EXCEPT !.cwnd = @ + Larger((Mss * Mss) \div s.cwnd, 1)]

\* receivedDataAck of TCPReno
Recover(s) ==
  IF ~s.lossRecovery THEN s
  ELSE IF LE(s.recoveryPoint, s.una) THEN [s EXCEPT !.lossRecovery = FALSE]
  ELSE SendDataDuringLossRecoveryPhase(SetPipe(s))
ReceivedDataAck(s, idle) == AlgSendData(Recover(GrowWindow(s)), FALSE, idle)

\* receivedDuplicateAck of TCPReno
EnterRecovery(s) ==
  IF s.recoveryPoint = 0 \/ LE(s.recoveryPoint, s.una)
  THEN [s EXCEPT !.recoveryPoint = s.max, !.lossRecovery = TRUE] ELSE s
Inflate(s) == [s EXCEPT !.cwnd = s.ssthresh + 3 * Mss]
SendLost(s) == IF s.lossRecovery THEN SendDataDuringLossRecoveryPhase(s) ELSE s
FastRetransmit(s) ==
  SendLost(SetPipe(
    RetransmitOneSegment(Inflate(RecalculateSlowStartThreshold(EnterRecovery(s))), FALSE)))
ReceivedDuplicateAck(s, idle) ==
  IF s.dupacks < DupThresh THEN s
  ELSE AlgSendData(IF s.dupacks = DupThresh THEN FastRetransmit(s) ELSE [s EXCEPT !.cwnd = @ + Mss],
                   FALSE, idle)

\* processSACKOption; the blocks are applied before the acknowledgment itself
ProcessSACKOption(s0, ack) ==
  FoldLeft(LAMBDA s, b :
             IF s.failed \/ LE(b.end, ack.ackNo) \/ LE(b.end, s.una) THEN s
             ELSE IF ~MaySack(s.queue, b.begin, b.end) THEN Fail(s)
             ELSE [s EXCEPT !.queue = SetSackedBit(@, b.begin, b.end)],
           s0, ack.sacks)

\* processAckInEstabEtc, for an acknowledgment without data.  One of something not yet sent would
\* be answered with an ACK that the receiver ignores.
Acked(s, ackNo) ==
  [s EXCEPT !.una = ackNo, !.nxt = Later(@, ackNo), !.queue = DiscardUpTo(@, ackNo)]
NoDuplicates(s) == [s EXCEPT !.dupacks = 0]
TakeAck(s, ackNo, idle) ==
  IF s.failed THEN s
  ELSE IF LE(ackNo, s.una)
  THEN IF ackNo = s.una /\ s.una # s.max
       THEN ReceivedDuplicateAck([s EXCEPT !.dupacks = @ + 1], idle) ELSE NoDuplicates(s)
  ELSE NoDuplicates(IF LE(ackNo, s.max) THEN ReceivedDataAck(Acked(s, ackNo), idle) ELSE s)
ProcessAck(s, ack, idle) == TakeAck(ProcessSACKOption(s, ack), ack.ackNo, idle)

\* processRexmitTimer of TCPBaseAlg and TCPReno
ProcessRexmitTimer(s) ==
  LET r == [s EXCEPT !.queue = ResetBits(@), !.lossRecovery = FALSE,
                     !.recoveryPoint = IF s.lossRecovery THEN s.max ELSE @]
  IN RetransmitOneSegment([RecalculateSlowStartThreshold(r) EXCEPT !.cwnd = Mss, !.afterRto = TRUE],
                          TRUE)

-----------------------------------------------------------------------------
(* The receiver *)

Encloses(a, b) == LE(a.begin, b.begin) /\ LE(b.end, a.end)
MaxBlocks == 4            \* what 40 octets of options hold

\* addSacks: the list after the call, and the blocks the acknowledgment carries
AddSacks(r, block, dsack) ==
  LET kept == SelectSeq(r.sacks, LAMBDA b : ~LE(b.end, r.nxt))
      new == IF dsack
             THEN [block EXCEPT !.end = IF Less(block.begin, r.nxt) THEN Earlier(@, r.nxt) ELSE @]
             ELSE [begin |-> LeftEdge(r.regions, block.begin), end |-> RightEdge(r.regions, block.end)]
      Prune(bs, i) == SubSeq(bs, 1, i)
                        \o SelectSeq(SubSeq(bs, i + 1, Len(bs)), LAMBDA b : ~Encloses(bs[i], b))
      pushed == <<new>> \o kept
      pruned == FoldLeft(LAMBDA bs, i : IF i > Len(bs) THEN bs ELSE Prune(bs, i), pushed,
                         SubSeq([i \in DOMAIN pushed |-> i], IF dsack THEN 2 ELSE 1, Len(pushed)))
  IN [failed |-> \E i \in DOMAIN kept : Less(kept[i].begin, r.nxt),
      list |-> IF dsack THEN Tail(pruned) ELSE pruned,
      blocks |-> SubSeq(pruned, 1, Smaller(MaxBlocks, Len(pruned)))]

\* The acknowledgment of receiver r: without SACK blocks, or with them
PlainAck(r) == [rcv |-> r, ack |-> [ackNo |-> r.nxt, sacks |-> <<>>]]
SackAck(r, block, dsack) ==
  LET a == AddSacks(r, block, dsack)
  IN [rcv |-> [r EXCEPT !.sacks = a.list, !.failed = @ \/ a.failed],
      ack |-> [ackNo |-> r.nxt, sacks |-> a.blocks]]

\* Mutant: the segment is taken as it came
TruncateNothing(seg, nxt) == seg
\* truncateSegment: the octets before rcv_nxt are cut off
Truncate(seg, nxt) == [seg EXCEPT !.begin = Later(@, nxt)]

\* A data segment in state ESTABLISHED
ProcessData(r, seg) ==
  LET text == Truncate(seg, r.nxt)
      merged == Merge(r.regions, text)
      nxt == IF LE(merged[1].begin, r.nxt) THEN merged[1].end ELSE r.nxt
      kept == [r EXCEPT !.regions = merged]
      taken == [r EXCEPT !.nxt = nxt, !.delivered = @ + Diff(nxt, merged[1].begin),
                         !.regions = ExtractUpTo(merged, nxt)]
  IN CASE ~Less(r.nxt, seg.end) ->
            IF Less(seg.end, r.nxt) THEN SackAck(r, seg, TRUE) ELSE PlainAck(r)
       [] Less(r.nxt, seg.end) /\ ~InRange(r.regions, text) -> PlainAck([r EXCEPT !.failed = TRUE])
       [] Less(r.nxt, seg.end) /\ InRange(r.regions, text) /\ nxt = r.nxt ->
            SackAck(kept, text, TotalLength(merged) = TotalLength(r.regions))
       [] Less(r.nxt, seg.end) /\ InRange(r.regions, text) /\ nxt # r.nxt ->
            IF taken.regions # <<>> THEN SackAck(taken, text, FALSE) ELSE PlainAck(taken)

-----------------------------------------------------------------------------
(* Steps *)

Running == ~snd.failed /\ ~rcv.failed

\* The sender after a call; what it sent goes to the network, what no later call reads is forgotten
SenderBecomes(s) ==
  /\ snd' = [s EXCEPT !.out = {}, !.sent = 0, !.pipe = 0]
  /\ data' = data \cup s.out

Write(n) ==
  /\ Running /\ Diff(snd.written, ISS) + n <= Octets
  /\ \E idle \in BOOLEAN :
       SenderBecomes(AlgSendData([snd EXCEPT !.written = Add(@, n)], TRUE, idle))
  /\ UNCHANGED <<rcv, acks, rtos, arrived>>

ReceiveAck(ack) ==
  /\ Running /\ ack \in acks
  /\ acks' = acks \ {ack}
  /\ \E idle \in BOOLEAN : SenderBecomes(ProcessAck(snd, ack, idle))
  /\ UNCHANGED <<rcv, rtos, arrived>>

\* rexmitTimer runs while something sent is not acknowledged
RexmitTimeout ==
  /\ Running /\ snd.una # snd.max /\ rtos < MaxRto
  /\ SenderBecomes(ProcessRexmitTimer(snd))
  /\ rtos' = rtos + 1
  /\ UNCHANGED <<rcv, acks, arrived>>

ReceiveData(seg) ==
  /\ Running /\ seg \in data
  /\ LET result == ProcessData(rcv, seg)
     IN rcv' = result.rcv /\ acks' = acks \cup {result.ack}
  /\ arrived' = arrived \cup OctetsOf(seg)
  /\ data' = data \ {seg}
  /\ UNCHANGED <<snd, rtos>>

Next ==
  \/ \E n \in WriteSizes : Write(n)
  \/ \E ack \in acks : ReceiveAck(ack)
  \/ RexmitTimeout
  \/ \E seg \in data : ReceiveData(seg)

Spec == Init /\ [][Next]_vars

-----------------------------------------------------------------------------
(* Properties *)

\* Types.
TypeOK ==
  /\ snd.una \in SeqNo /\ snd.nxt \in SeqNo /\ snd.max \in SeqNo /\ snd.written \in SeqNo
  /\ snd.afterRto \in BOOLEAN /\ snd.lossRecovery \in BOOLEAN /\ snd.failed \in BOOLEAN
  /\ snd.dupacks \in Nat /\ snd.cwnd \in Nat \ {0} /\ snd.ssthresh \in Nat
  /\ snd.recoveryPoint \in SeqNo
  /\ rcv.nxt \in SeqNo /\ rcv.delivered \in 0..Octets /\ rcv.failed \in BOOLEAN
  /\ data \subseteq Block
  /\ \A a \in acks : a.ackNo \in SeqNo /\ \A i \in DOMAIN a.sacks : a.sacks[i] \in Block
  /\ rtos \in 0..MaxRto /\ arrived \subseteq 0..(Octets - 1)

Held == UNION {OctetsOf(rcv.regions[i]) : i \in DOMAIN rcv.regions}

\* What arrived is handed to the application once and in order, or held in regions that neither
\* overlap nor touch, whatever order, duplicates and overlaps it arrived in and across the wrap.
StreamIsExact ==
  /\ ~rcv.failed
  /\ rcv.delivered = Diff(rcv.nxt, ISS)
  /\ arrived = Held \cup 0..(rcv.delivered - 1)
  /\ Held \cap 0..rcv.delivered = {}
  /\ \A i \in DOMAIN rcv.regions : i > 1 => Less(rcv.regions[i - 1].end, rcv.regions[i].begin)

\* An octet is marked as sacked only if the receiver has it: the sender may skip it for good.
ScoreboardIsTrue ==
  \A i \in DOMAIN snd.queue.regions :
    snd.queue.regions[i].sacked => OctetsOf(snd.queue.regions[i]) \subseteq arrived

\* The scoreboard is a partition of exactly what was sent and is not acknowledged, after any
\* sequence of sends, retransmissions, SACKs, acknowledgments and timeouts.
ScoreboardIsWhole ==
  Running => /\ CheckQueue(snd.queue)
             /\ snd.queue.begin = snd.una /\ snd.queue.end = snd.max

\* No assertion of the sender's queue fails (enqueueSentData: "ASSERT(seqLess(fromSeqNum, toSeqNum));").
NoFailedAssert == ~snd.failed
=============================================================================
