------------------------------ MODULE TCPQueues -----------------------------
(***************************************************************************)
(* The two queues that track octets by sequence number: the SACK           *)
(* scoreboard of the sender (TCPSACKRexmitQueue) and the reassembly queue  *)
(* of the receiver (TCPVirtualDataRcvQueue), each an ordered list of       *)
(* regions [begin, end).  Sequence numbers are unsigned integers that wrap *)
(* at SeqModulus, 2^32 in the code.                                        *)
(***************************************************************************)
EXTENDS Integers, SequencesExt

CONSTANT SeqModulus

ASSUME SeqModulusAssumption == SeqModulus \in Nat /\ SeqModulus > 0 /\ SeqModulus % 2 = 0

SeqNo == 0 .. (SeqModulus - 1)

\* Mutant: the sum does not wrap
AddUnwrapped(a, n) == a + n
Add(a, n) == (a + n) % SeqModulus
Diff(a, b) == (a - b) % SeqModulus
Less(a, b) == a # b /\ Diff(b, a) < SeqModulus \div 2
LE(a, b) == a = b \/ Less(a, b)
Earlier(a, b) == IF LE(a, b) THEN a ELSE b
Later(a, b) == IF LE(a, b) THEN b ELSE a
Length(r) == Diff(r.end, r.begin)
Covers(r, s) == LE(r.begin, s) /\ Less(s, r.end)

\* The sum of the lengths of the regions of a list
TotalLength(regions) == FoldLeft(LAMBDA n, r : n + Length(r), 0, regions)

-----------------------------------------------------------------------------
(* TCPSACKRexmitQueue: what was sent and is not acknowledged *)

EmptyQueue(seq) == [begin |-> seq, end |-> seq, regions |-> <<>>]

\* The region that holds s is cut in two there
SplitAt(regions, s) ==
  FlattenSeq([i \in DOMAIN regions |->
    LET r == regions[i]
    IN IF Less(r.begin, s) /\ Less(s, r.end)
       THEN <<[r EXCEPT !.end = s], [r EXCEPT !.begin = s]>> ELSE <<r>>])

Within(r, from, to) == LE(from, r.begin) /\ LE(r.end, to)

\* Mutant: the region that ends at seq is cut instead of dropped
DiscardUpToLess(q, seq) ==
  LET left == SelectSeq(q.regions, LAMBDA r : ~Less(r.end, seq))
  IN [q EXCEPT !.begin = seq,
               !.regions = IF left = <<>> THEN <<>> ELSE [left EXCEPT ![1].begin = seq]]
DiscardUpTo(q, seq) ==
  LET left == SelectSeq(q.regions, LAMBDA r : ~LE(r.end, seq))
  IN [q EXCEPT !.begin = seq,
               !.regions = IF left = <<>> THEN <<>> ELSE [left EXCEPT ![1].begin = seq]]

\* The assertions of enqueueSentData on its arguments
MayEnqueue(q, from, to) == LE(q.begin, from) /\ LE(from, q.end) /\ Less(from, to)
EnqueueSentData(q, from, to) ==
  LET fresh == [begin |-> from, end |-> to, sacked |-> FALSE, rexmitted |-> FALSE]
      split == SplitAt(SplitAt(q.regions, from), to)
      marked == [i \in DOMAIN split |->
                   [split[i] EXCEPT !.rexmitted = @ \/ Within(split[i], from, to)]]
  IN IF q.regions = <<>> \/ q.end = from
     THEN [q EXCEPT !.regions = Append(@, fresh), !.end = to,
                    !.begin = IF q.regions = <<>> THEN from ELSE @]
     ELSE [q EXCEPT !.regions = IF Less(q.end, to) THEN Append(marked, [fresh EXCEPT !.begin = q.end])
                                                   ELSE marked,
                    !.end = Later(@, to)]

\* The assertions of setSackedBit on its arguments
MaySack(q, from, to) ==
  LET first == Later(from, q.begin)
  IN Less(first, q.end) /\ Less(q.begin, to) /\ LE(to, q.end) /\ Less(first, to)
\* Mutant: the region that begins where the block ends is marked too
SetSackedBitBehind(q, from, to) ==
  [q EXCEPT !.regions = [i \in DOMAIN @ |->
     [@[i] EXCEPT !.sacked = @ \/ (LE(from, q.regions[i].begin) /\ LE(q.regions[i].begin, to))]]]
SetSackedBit(q, from, to) ==
  LET first == Later(from, q.begin)
      split == SplitAt(SplitAt(q.regions, first), to)
  IN [q EXCEPT !.regions =
        [i \in DOMAIN split |-> [split[i] EXCEPT !.sacked = @ \/ Within(split[i], first, to)]]]

ResetBits(q) ==
  [q EXCEPT !.regions = [i \in DOMAIN @ |-> [@[i] EXCEPT !.sacked = FALSE, !.rexmitted = FALSE]]]

\* The end of the last sacked, or retransmitted, region
HighestSacked(q) == LET i == SelectLastInSeq(q.regions, LAMBDA r : r.sacked)
                    IN IF i = 0 THEN q.begin ELSE q.regions[i].end
HighestRexmitted(q) == LET i == SelectLastInSeq(q.regions, LAMBDA r : r.rexmitted)
                       IN IF i = 0 THEN q.begin ELSE q.regions[i].end

\* The regions from s on, the first one cut at s
From(q, s) == SelectSeq(SplitAt(q.regions, s), LAMBDA r : LE(s, r.begin))

\* checkRexmitQueueForSackedOrRexmittedSegments: how far s may be forwarded
Forward(q, s) ==
  LET rest == From(q, s)
      i == SelectInSeq(rest, LAMBDA r : ~(r.sacked \/ r.rexmitted))
  IN TotalLength(IF i = 0 THEN rest ELSE SubSeq(rest, 1, i - 1))

AmountOfSackedBytes(q, s) == TotalLength(SelectSeq(From(q, s), LAMBDA r : r.sacked))
NumOfDiscontiguousSacks(q, s) ==
  LET rest == From(q, s)
  IN FoldLeft(LAMBDA n, i : IF rest[i].sacked /\ (i = 1 \/ ~rest[i - 1].sacked) THEN n + 1 ELSE n,
              0, [i \in DOMAIN rest |-> i])

\* checkQueue: the regions are not empty and follow one another from begin to end
CheckQueue(q) ==
  LET n == Len(q.regions)
  IN /\ \A i \in 1..n : /\ Less(q.regions[i].begin, q.regions[i].end)
                        /\ q.regions[i].begin = IF i = 1 THEN q.begin ELSE q.regions[i - 1].end
     /\ q.end = IF n = 0 THEN q.begin ELSE q.regions[n].end

-----------------------------------------------------------------------------
(* TCPVirtualDataRcvQueue: what arrived and was not handed to the application *)

Touch(a, b) == LE(a.begin, b.end) /\ LE(b.begin, a.end)
\* merge: the new region swallows the regions it touches and takes their place
Merge(regions, seg) ==
  LET touched == SelectSeq(regions, LAMBDA r : Touch(r, seg))
      whole == FoldLeft(LAMBDA m, r : [begin |-> Earlier(m.begin, r.begin), end |-> Later(m.end, r.end)],
                        seg, touched)
  IN SelectSeq(regions, LAMBDA r : Less(r.end, seg.begin)) \o <<whole>>
       \o SelectSeq(regions, LAMBDA r : Less(seg.end, r.begin))

\* The out-of-range check of insertBytesFromSegment
InRange(regions, seg) ==
  \/ regions = <<>>
  \/ LET begin == Earlier(regions[1].begin, seg.begin)
         end == Later(regions[Len(regions)].end, seg.end)
     IN /\ \A e \in {regions[Len(regions)].end, seg.end} : Less(begin, e)
        /\ \A b \in {regions[1].begin, seg.begin} : Less(b, end)

\* extractBytesUpTo, called until nothing is left below seq
ExtractUpTo(regions, seq) ==
  LET left == SelectSeq(regions, LAMBDA r : Less(seq, r.end))
  IN IF left # <<>> /\ Less(left[1].begin, seq) THEN [left EXCEPT ![1].begin = seq] ELSE left

\* The edges of the region around a block
LeftEdge(regions, s) ==
  LET i == SelectInSeq(regions, LAMBDA r : Covers(r, s)) IN IF i = 0 THEN s ELSE regions[i].begin
RightEdge(regions, s) ==
  LET i == SelectInSeq(regions, LAMBDA r : Less(r.begin, s) /\ LE(s, r.end))
  IN IF i = 0 THEN s ELSE regions[i].end
=============================================================================
