----------------------------- MODULE ARPProofs -----------------------------
(***************************************************************************)
(* What holds of address resolution for every LAN, every set of addresses  *)
(* answered for and any number of hosts, datagrams, retries and faults:    *)
(* the types, that waiting datagrams are awaited, that caches are true,    *)
(* and that the queues are those of ARPQueue.                              *)
(***************************************************************************)
EXTENDS ARP, TLAPS

-----------------------------------------------------------------------------
(* Entries and packets *)

\* The entry a resolution starts with
Pending == [state |-> "pending", mac |-> NoMAC, numRetries |-> 0, timer |-> TRUE, fresh |-> FALSE]

\* Entries are made well-formed and stay so when an address is learned.
LEMMA EntryTypes ==
  /\ Absent \in Entry /\ Pending \in Entry
  /\ \A e \in Entry, mac \in Host : Updated(e, mac) \in Entry
  BY DEF Absent, Pending, Updated, Entry

\* A broadcast request is a packet for every other host.
LEMMA RequestType ==
  ASSUME NEW h \in Host, NEW a \in Addr, NEW retry \in Nat
  PROVE  Requests(h, a, retry) \subseteq ARPPacket
  BY LanAssumption DEF Requests, ARPPacket

\* A reply is a packet.
LEMMA ReplyType ==
  ASSUME NEW h \in Host, NEW p \in ARPPacket
  PROVE  ReplyTo(h, p) \in ARPPacket
  BY DEF ReplyTo, ARPPacket

\* A flow goes from a host to an address.
LEMMA FlowType == \A f \in Flows : f[1] \in Host /\ f[2] \in Addr
  BY LanAssumption

\* What startAddressResolution() leaves: nothing new where a resolution is under way
LEMMA ResolutionStarted ==
  ASSUME NEW h \in Host, NEW a \in Addr, TypeOK, StartAddressResolution(h, a)
  PROVE  /\ arpCache' \in [Host -> [Addr -> Entry]]
         /\ net' \subseteq ARPPacket
         /\ arpCache'[h][a].state = "pending"
         /\ arpCache'[h][a] \in {arpCache[h][a], Pending}
         /\ \A g \in Host, b \in Addr :
              <<g, b>> # <<h, a>> => arpCache'[g][b] = arpCache[g][b]
         /\ net' \subseteq net \cup Requests(h, a, 0)
<1>1. CASE arpCache[h][a].state = "pending"
  BY <1>1 DEF StartAddressResolution, TypeOK
<1>2. CASE arpCache[h][a].state # "pending"
  <2>1. /\ arpCache' = [arpCache EXCEPT ![h][a] = Pending]
        /\ net' = net \cup Requests(h, a, 0)
    BY <1>2 DEF StartAddressResolution, Pending
  <2>2. arpCache' \in [Host -> [Addr -> Entry]]
    BY <2>1, EntryTypes DEF TypeOK
  <2>3. net' \subseteq ARPPacket
    BY <2>1, RequestType DEF TypeOK
  <2>4. arpCache'[h][a] = Pending
    BY <2>1 DEF TypeOK
  <2>. QED BY <2>1, <2>2, <2>3, <2>4 DEF TypeOK, Pending
<1>. QED BY <1>1, <1>2

-----------------------------------------------------------------------------
(* Types *)

\* Caches are empty at first.
LEMMA TypeInit == Init => TypeOK
  BY EntryTypes DEF Init, TypeOK, EmptyCache, NoPackets

\* Sending may start a resolution, or append to its queue.
LEMMA SendDatagramType ==
  ASSUME TypeOK, NEW h \in Host, NEW a \in Addr, SendDatagram(h, a)
  PROVE  TypeOK'
<1>1. submitted' \in [Host -> [Addr -> Nat]] /\ isUp' = isUp /\ faults' = faults
  BY DEF SendDatagram, TypeOK
<1>2. CASE GetMACAddressFor(h, a) # NoMAC
  <2>1. Append(sent[h][a], submitted[h][a]) \in Seq(Nat)
    BY DEF TypeOK
  <2>2. sent' = [sent EXCEPT ![h][a] = Append(@, submitted[h][a])]
    BY <1>2 DEF SendDatagram
  <2>3. sent' \in [Host -> [Addr -> Seq(Nat)]]
    BY <2>1, <2>2 DEF TypeOK
  <2>. QED BY <1>1, <1>2, <2>3 DEF SendDatagram, TypeOK
<1>3. CASE GetMACAddressFor(h, a) = NoMAC
  <2>0. /\ Append(pendingPackets[h][a], submitted[h][a]) \in Seq(Nat)
        /\ pendingPackets' = [pendingPackets EXCEPT ![h][a] = Append(@, submitted[h][a])]
    BY <1>3 DEF SendDatagram, TypeOK
  <2>1. pendingPackets' \in [Host -> [Addr -> Seq(Nat)]]
    BY <2>0 DEF TypeOK
  <2>2. StartAddressResolution(h, a) /\ sent' = sent
    BY <1>3 DEF SendDatagram
  <2>3. arpCache' \in [Host -> [Addr -> Entry]] /\ net' \subseteq ARPPacket
    BY <2>2, ResolutionStarted
  <2>. QED BY <1>1, <2>1, <2>2, <2>3 DEF TypeOK
<1>. QED BY <1>2, <1>3

\* A retry counts on, a failure removes the entry.
LEMMA RequestTimedOutType ==
  ASSUME TypeOK, NEW h \in Host, NEW a \in Addr, RequestTimedOut(h, a)
  PROVE  TypeOK'
<1>1. UNCHANGED <<isUp, submitted, faults>>
  BY DEF RequestTimedOut
<1>2. CASE arpCache[h][a].numRetries + 1 < retryCount
  <2> DEFINE e == arpCache[h][a]
             d == [e EXCEPT !.numRetries = e.numRetries + 1]
  <2>1. e \in Entry /\ e.numRetries + 1 \in Nat
    BY DEF TypeOK, Entry
  <2>2. d \in Entry
    BY <2>1 DEF Entry
  <2>3. /\ arpCache' = [arpCache EXCEPT ![h][a] = d]
        /\ net' = net \cup Requests(h, a, arpCache[h][a].numRetries + 1)
        /\ UNCHANGED <<pendingPackets, sent>>
    BY <1>2 DEF RequestTimedOut
  <2>4. arpCache' \in [Host -> [Addr -> Entry]]
    BY <2>2, <2>3 DEF TypeOK
  <2>5. net' \subseteq ARPPacket
    BY <2>1, <2>3, RequestType DEF TypeOK
  <2>. QED BY <1>1, <2>3, <2>4, <2>5 DEF TypeOK
<1>3. CASE ~(arpCache[h][a].numRetries + 1 < retryCount)
  <2>1. /\ arpCache' = [arpCache EXCEPT ![h][a] = Absent]
        /\ pendingPackets' = [pendingPackets EXCEPT ![h][a] = <<>>]
        /\ UNCHANGED <<net, sent>>
    BY <1>3 DEF RequestTimedOut, ArpResolutionTimedOut
  <2>2. arpCache' \in [Host -> [Addr -> Entry]]
    BY <2>1, EntryTypes DEF TypeOK
  <2>3. pendingPackets' \in [Host -> [Addr -> Seq(Nat)]]
    BY <2>1 DEF TypeOK
  <2>. QED BY <1>1, <2>1, <2>2, <2>3 DEF TypeOK
<1>. QED BY <1>2, <1>3

\* What is learned from a packet is a host, what is answered is a packet.
LEMMA ProcessARPPacketType ==
  ASSUME TypeOK, NEW p \in net, ProcessARPPacket(p)
  PROVE  TypeOK'
<1> DEFINE h == p.to
<1>1. p \in ARPPacket /\ h \in Host /\ p.src \in Addr /\ p.srcMAC \in Host
  BY DEF TypeOK, ARPPacket
<1>2. UNCHANGED <<isUp, submitted, faults>>
  BY DEF ProcessARPPacket
<1>3. net' \subseteq ARPPacket
  BY <1>1, ReplyType DEF ProcessARPPacket, TypeOK
<1>4. CASE arpCache[h][p.src].state # "absent" \/ p.dest \in Recognized[h]
  <2>1. /\ arpCache' = [arpCache EXCEPT ![h][p.src] = Updated(@, p.srcMAC)]
        /\ ArpResolutionCompleted(h, p.src)
    BY <1>4 DEF ProcessARPPacket
  <2>2. Updated(arpCache[h][p.src], p.srcMAC) \in Entry
    BY <1>1, EntryTypes DEF TypeOK
  <2>3. arpCache' \in [Host -> [Addr -> Entry]]
    BY <1>1, <2>1, <2>2 DEF TypeOK
  <2>4. pendingPackets' \in [Host -> [Addr -> Seq(Nat)]]
    BY <1>1, <2>1 DEF TypeOK, ArpResolutionCompleted
  <2>5. sent[h][p.src] \o pendingPackets[h][p.src] \in Seq(Nat)
    BY <1>1 DEF TypeOK
  <2>6. sent' \in [Host -> [Addr -> Seq(Nat)]]
    BY <1>1, <2>1, <2>5 DEF TypeOK, ArpResolutionCompleted
  <2>. QED BY <1>2, <1>3, <2>3, <2>4, <2>6 DEF TypeOK
<1>5. CASE ~(arpCache[h][p.src].state # "absent" \/ p.dest \in Recognized[h])
  BY <1>2, <1>3, <1>5 DEF ProcessARPPacket, TypeOK
<1>. QED BY <1>4, <1>5

\* Losses, expiry, stops and starts change no kinds.
LEMMA FaultType ==
  ASSUME TypeOK, NEW h \in Host
  PROVE  /\ \A a \in Addr : Expire(h, a) => TypeOK'
         /\ Stop(h) => TypeOK'
         /\ Start(h) => TypeOK'
<1>1. ASSUME NEW a \in Addr, Expire(h, a)
      PROVE  TypeOK'
  <2> DEFINE d == [arpCache[h][a] EXCEPT !.fresh = FALSE]
  <2>0. arpCache[h][a] \in Entry
    BY DEF TypeOK
  <2>1. d \in Entry
    BY <2>0 DEF Entry
  <2>2. arpCache' = [arpCache EXCEPT ![h][a] = d]
    BY <1>1 DEF Expire
  <2>3. arpCache' \in [Host -> [Addr -> Entry]]
    BY <2>1, <2>2 DEF TypeOK
  <2>. QED BY <1>1, <2>3 DEF Expire, TypeOK
<1>2. ASSUME Stop(h)
      PROVE  TypeOK'
  <2>1. EmptyCache \in [Addr -> Entry] /\ NoPackets \in [Addr -> Seq(Nat)]
    BY EntryTypes DEF EmptyCache, NoPackets
  <2>2. /\ arpCache' \in [Host -> [Addr -> Entry]]
        /\ pendingPackets' \in [Host -> [Addr -> Seq(Nat)]]
        /\ isUp' \in [Host -> BOOLEAN]
        /\ faults' \in Nat
    BY <1>2, <2>1 DEF Stop, TypeOK
  <2>. QED BY <1>2, <2>2 DEF Stop, TypeOK
<1>3. ASSUME Start(h)
      PROVE  TypeOK'
  BY <1>3 DEF Start, TypeOK
<1>. QED BY <1>1, <1>2, <1>3

\* Every action keeps the types.
LEMMA TypeStep == TypeOK /\ [Next]_vars => TypeOK'
<1> SUFFICES ASSUME TypeOK, [Next]_vars
             PROVE  TypeOK'
  OBVIOUS
<1>1. CASE \E f \in Flows : SendDatagram(f[1], f[2])
  BY <1>1, FlowType, SendDatagramType
<1>2. CASE \E h \in Host, a \in Addr : RequestTimedOut(h, a) \/ Expire(h, a)
  BY <1>2, RequestTimedOutType, FaultType
<1>3. CASE \E p \in net : ProcessARPPacket(p) \/ Lose(p)
  <2>1. ASSUME NEW p \in net, Lose(p)
        PROVE  TypeOK'
    BY <2>1 DEF Lose, TypeOK
  <2>. QED BY <1>3, <2>1, ProcessARPPacketType
<1>4. CASE \E h \in Host : Stop(h) \/ Start(h)
  BY <1>4, FaultType
<1>5. CASE UNCHANGED vars
  BY <1>5 DEF vars, TypeOK
<1>. QED BY <1>1, <1>2, <1>3, <1>4, <1>5 DEF Next

\* Every cache, queue and packet has its type: for every LAN and any bounds.
THEOREM TypeCorrect == Spec => []TypeOK
BY TypeInit, TypeStep, PTL DEF Spec

-----------------------------------------------------------------------------
(* Waiting datagrams are awaited *)

\* QueuesAreAwaited for one address of one host
Awaited(h, a) ==
  /\ pendingPackets[h][a] # <<>> => arpCache[h][a].state = "pending"
  /\ arpCache[h][a].state = "pending" <=> arpCache[h][a].timer
  /\ ~isUp[h] => arpCache[h][a].state = "absent"

\* QueuesAreAwaited speaks of each queue on its own.
LEMMA AwaitedEverywhere == QueuesAreAwaited <=> \A h \in Host, a \in Addr : Awaited(h, a)
  BY DEF QueuesAreAwaited, Awaited

\* Nothing waits at first.
LEMMA AwaitedInit == Init => QueuesAreAwaited
  BY DEF Init, QueuesAreAwaited, EmptyCache, NoPackets, Absent

\* An event that concerns one address of one host cannot disturb another queue
LEMMA AwaitedElsewhere ==
  ASSUME QueuesAreAwaited, NEW h \in Host, NEW a \in Addr, isUp' = isUp, Awaited(h, a)',
         \A g \in Host, b \in Addr : <<g, b>> # <<h, a>> =>
           arpCache'[g][b] = arpCache[g][b] /\ pendingPackets'[g][b] = pendingPackets[g][b]
  PROVE  QueuesAreAwaited'
<1>1. ASSUME NEW g \in Host, NEW b \in Addr
      PROVE  Awaited(g, b)'
  <2>1. CASE <<g, b>> = <<h, a>>
    BY <2>1
  <2>2. CASE <<g, b>> # <<h, a>>
    BY <2>2, AwaitedEverywhere DEF Awaited
  <2>. QED BY <2>1, <2>2
<1>. QED BY <1>1 DEF QueuesAreAwaited, Awaited

\* A datagram is queued behind a pending entry only, or starts one with its timer.
LEMMA SendDatagramAwaited ==
  ASSUME TypeOK, QueuesAreAwaited, NEW h \in Host, NEW a \in Addr, SendDatagram(h, a)
  PROVE  QueuesAreAwaited'
<1>1. CASE GetMACAddressFor(h, a) # NoMAC
  BY <1>1 DEF SendDatagram, QueuesAreAwaited
<1>2. CASE GetMACAddressFor(h, a) = NoMAC
  <2>1. /\ isUp[h] /\ isUp' = isUp
        /\ StartAddressResolution(h, a)
        /\ pendingPackets' = [pendingPackets EXCEPT ![h][a] = Append(@, submitted[h][a])]
    BY <1>2 DEF SendDatagram
  <2>2. /\ arpCache'[h][a].state = "pending"
        /\ arpCache'[h][a] \in {arpCache[h][a], Pending}
        /\ \A g \in Host, b \in Addr :
             <<g, b>> # <<h, a>> => arpCache'[g][b] = arpCache[g][b]
    BY <2>1, ResolutionStarted
  <2>3. Awaited(h, a)'
    BY <2>1, <2>2, AwaitedEverywhere DEF Awaited, Pending
  <2>4. \A g \in Host, b \in Addr :
          <<g, b>> # <<h, a>> => pendingPackets'[g][b] = pendingPackets[g][b]
    BY <2>1 DEF TypeOK
  <2>. QED BY <2>1, <2>2, <2>3, <2>4, AwaitedElsewhere
<1>. QED BY <1>1, <1>2

\* When a resolution fails its queue goes with it.
LEMMA RequestTimedOutAwaited ==
  ASSUME TypeOK, QueuesAreAwaited, NEW h \in Host, NEW a \in Addr, RequestTimedOut(h, a)
  PROVE  QueuesAreAwaited'
<1> DEFINE e == arpCache[h][a]
           d == [e EXCEPT !.numRetries = e.numRetries + 1]
<1>1. isUp[h] /\ isUp' = isUp /\ e.timer /\ e \in Entry
  BY DEF RequestTimedOut, TypeOK
<1>2. CASE e.numRetries + 1 < retryCount
  <2>1. arpCache' = [arpCache EXCEPT ![h][a] = d] /\ pendingPackets' = pendingPackets
    BY <1>2 DEF RequestTimedOut
  <2>2. arpCache'[h][a] = d
    BY <2>1 DEF TypeOK
  <2>3. d.state = e.state /\ d.timer = e.timer
    BY <1>1 DEF Entry
  <2>4. Awaited(h, a)'
    BY <1>1, <2>1, <2>2, <2>3, AwaitedEverywhere DEF Awaited
  <2>5. \A g \in Host, b \in Addr : <<g, b>> # <<h, a>> => arpCache'[g][b] = arpCache[g][b]
    BY <2>1 DEF TypeOK
  <2>. QED BY <1>1, <2>1, <2>4, <2>5, AwaitedElsewhere
<1>3. CASE ~(e.numRetries + 1 < retryCount)
  <2>1. /\ arpCache' = [arpCache EXCEPT ![h][a] = Absent]
        /\ pendingPackets' = [pendingPackets EXCEPT ![h][a] = <<>>]
    BY <1>3 DEF RequestTimedOut, ArpResolutionTimedOut
  <2>2. arpCache'[h][a] = Absent /\ pendingPackets'[h][a] = <<>>
    BY <2>1 DEF TypeOK
  <2>3. Awaited(h, a)'
    BY <1>1, <2>2 DEF Awaited, Absent
  <2>4. \A g \in Host, b \in Addr : <<g, b>> # <<h, a>> =>
          arpCache'[g][b] = arpCache[g][b] /\ pendingPackets'[g][b] = pendingPackets[g][b]
    BY <2>1 DEF TypeOK
  <2>. QED BY <1>1, <2>3, <2>4, AwaitedElsewhere
<1>. QED BY <1>2, <1>3

\* When a resolution completes its queue is sent and its timer cancelled.
LEMMA ProcessARPPacketAwaited ==
  ASSUME TypeOK, QueuesAreAwaited, NEW p \in net, ProcessARPPacket(p)
  PROVE  QueuesAreAwaited'
<1> DEFINE h == p.to
           a == p.src
           d == Updated(arpCache[h][a], p.srcMAC)
<1>1. h \in Host /\ a \in Addr /\ isUp[h] /\ isUp' = isUp
  BY DEF TypeOK, ARPPacket, ProcessARPPacket
<1>2. CASE arpCache[h][a].state # "absent" \/ p.dest \in Recognized[h]
  <2>1. /\ arpCache' = [arpCache EXCEPT ![h][a] = d]
        /\ pendingPackets' = [pendingPackets EXCEPT ![h][a] = <<>>]
    BY <1>2 DEF ProcessARPPacket, ArpResolutionCompleted
  <2>2. arpCache'[h][a] = d /\ pendingPackets'[h][a] = <<>>
    BY <1>1, <2>1 DEF TypeOK
  <2>3. arpCache[h][a].state = "pending" <=> arpCache[h][a].timer
    BY <1>1, AwaitedEverywhere DEF Awaited
  <2>4. d.state = "resolved" /\ d.timer = FALSE
    BY <1>1, <2>3 DEF Updated, TypeOK, Entry
  <2>5. Awaited(h, a)'
    BY <1>1, <2>2, <2>4 DEF Awaited
  <2>6. \A g \in Host, b \in Addr : <<g, b>> # <<h, a>> =>
          arpCache'[g][b] = arpCache[g][b] /\ pendingPackets'[g][b] = pendingPackets[g][b]
    BY <1>1, <2>1 DEF TypeOK
  <2>. QED BY <1>1, <2>5, <2>6, AwaitedElsewhere
<1>3. CASE ~(arpCache[h][a].state # "absent" \/ p.dest \in Recognized[h])
  BY <1>3 DEF ProcessARPPacket, QueuesAreAwaited
<1>. QED BY <1>2, <1>3

\* A host that stops drops its queues with its cache.
LEMMA FaultAwaited ==
  ASSUME TypeOK, QueuesAreAwaited, NEW h \in Host
  PROVE  /\ \A a \in Addr : Expire(h, a) => QueuesAreAwaited'
         /\ Stop(h) => QueuesAreAwaited'
         /\ Start(h) => QueuesAreAwaited'
<1>1. ASSUME NEW a \in Addr, Expire(h, a)
      PROVE  QueuesAreAwaited'
  <2> DEFINE d == [arpCache[h][a] EXCEPT !.fresh = FALSE]
  <2>1. arpCache[h][a] \in Entry
    BY DEF TypeOK
  <2>2. arpCache' = [arpCache EXCEPT ![h][a] = d] /\ UNCHANGED <<pendingPackets, isUp>>
    BY <1>1 DEF Expire
  <2>3. arpCache'[h][a] = d
    BY <2>2 DEF TypeOK
  <2>4. d.state = arpCache[h][a].state /\ d.timer = arpCache[h][a].timer
    BY <2>1 DEF Entry
  <2>5. Awaited(h, a)'
    BY <2>2, <2>3, <2>4, AwaitedEverywhere DEF Awaited
  <2>6. \A g \in Host, b \in Addr : <<g, b>> # <<h, a>> => arpCache'[g][b] = arpCache[g][b]
    BY <2>2 DEF TypeOK
  <2>. QED BY <2>2, <2>5, <2>6, AwaitedElsewhere
<1>2. ASSUME Stop(h)
      PROVE  QueuesAreAwaited'
  <2>1. ASSUME NEW g \in Host, NEW b \in Addr
        PROVE  Awaited(g, b)'
    <3>1. CASE g = h
      <4>1. arpCache'[g][b] = Absent /\ pendingPackets'[g][b] = <<>>
        BY <1>2, <3>1 DEF Stop, TypeOK, EmptyCache, NoPackets
      <4>. QED BY <4>1 DEF Awaited, Absent
    <3>2. CASE g # h
      <4>1. /\ arpCache'[g] = arpCache[g] /\ pendingPackets'[g] = pendingPackets[g]
            /\ isUp'[g] = isUp[g]
        BY <1>2, <3>2 DEF Stop, TypeOK
      <4>. QED BY <4>1, AwaitedEverywhere DEF Awaited
    <3>. QED BY <3>1, <3>2
  <2>. QED BY <2>1 DEF QueuesAreAwaited, Awaited
<1>3. ASSUME Start(h)
      PROVE  QueuesAreAwaited'
  BY <1>3 DEF Start, QueuesAreAwaited, TypeOK
<1>. QED BY <1>1, <1>2, <1>3

\* Every action keeps the queues awaited.
LEMMA AwaitedStep == TypeOK /\ QueuesAreAwaited /\ [Next]_vars => QueuesAreAwaited'
<1> SUFFICES ASSUME TypeOK, QueuesAreAwaited, [Next]_vars
             PROVE  QueuesAreAwaited'
  OBVIOUS
<1>1. CASE \E f \in Flows : SendDatagram(f[1], f[2])
  BY <1>1, FlowType, SendDatagramAwaited
<1>2. CASE \E h \in Host, a \in Addr : RequestTimedOut(h, a) \/ Expire(h, a)
  BY <1>2, RequestTimedOutAwaited, FaultAwaited
<1>3. CASE \E p \in net : ProcessARPPacket(p) \/ Lose(p)
  <2>1. ASSUME NEW p \in net, Lose(p)
        PROVE  QueuesAreAwaited'
    BY <2>1 DEF Lose, QueuesAreAwaited
  <2>. QED BY <1>3, <2>1, ProcessARPPacketAwaited
<1>4. CASE \E h \in Host : Stop(h) \/ Start(h)
  BY <1>4, FaultAwaited
<1>5. CASE UNCHANGED vars
  BY <1>5 DEF vars, QueuesAreAwaited
<1>. QED BY <1>1, <1>2, <1>3, <1>4, <1>5 DEF Next

\* A datagram waits only where a retry timer runs that will release or drop it, a timer runs only
\* for a pending entry, and a host that is down has no entries.
THEOREM WaitingIsAwaited == Spec => []QueuesAreAwaited
<1>1. TypeOK /\ QueuesAreAwaited /\ [Next]_vars => (TypeOK /\ QueuesAreAwaited)'
  BY TypeStep, AwaitedStep
<1>. QED BY TypeInit, AwaitedInit, <1>1, PTL DEF Spec

-----------------------------------------------------------------------------
(* Caches are true *)

\* CacheIsTrue for one entry, and for one packet: it tells an address its sender answers for
TrueEntry(e, a) == e.state = "resolved" => e.mac \in Host /\ a \in Recognized[e.mac]
TruePacket(p) == p.src \in Recognized[p.srcMAC]

\* CacheIsTrue speaks of each entry and each packet on its own.
LEMMA CacheIsTrueBy ==
  CacheIsTrue <=> /\ \A h \in Host, a \in Addr : TrueEntry(arpCache[h][a], a)
                  /\ \A p \in net : TruePacket(p)
  BY DEF CacheIsTrue, TrueEntry, TruePacket

\* Empty caches tell nothing.
LEMMA TrueInit == Init => CacheIsTrue
  BY DEF Init, CacheIsTrue, EmptyCache, Absent

\* A host asks with its own address, and answers with one it answers for
LEMMA PacketsTrue ==
  /\ \A h \in Host, a \in Addr, n \in Nat : \A p \in Requests(h, a, n) : TruePacket(p)
  /\ \A h \in Host, p \in ARPPacket : p.dest \in Recognized[h] => TruePacket(ReplyTo(h, p))
  BY LanAssumption DEF Requests, ReplyTo, TruePacket

\* An entry changes to what a true packet says, and packets are made true.
LEMMA TrueStep == TypeOK /\ CacheIsTrue /\ [Next]_vars => CacheIsTrue'
<1> SUFFICES ASSUME TypeOK, CacheIsTrue, [Next]_vars
             PROVE  /\ \A h \in Host, a \in Addr : TrueEntry(arpCache'[h][a], a)
                    /\ \A p \in net' : TruePacket(p)
  BY DEF CacheIsTrue, TrueEntry, TruePacket
<1> USE CacheIsTrueBy
<1>1. ASSUME NEW h \in Host, NEW a \in Addr, SendDatagram(h, a)
      PROVE  /\ \A g \in Host, b \in Addr : TrueEntry(arpCache'[g][b], b)
             /\ \A p \in net' : TruePacket(p)
  <2>1. CASE GetMACAddressFor(h, a) # NoMAC
    BY <1>1, <2>1 DEF SendDatagram
  <2>2. CASE GetMACAddressFor(h, a) = NoMAC
    <3>1. /\ arpCache'[h][a].state = "pending"
          /\ \A g \in Host, b \in Addr :
               <<g, b>> # <<h, a>> => arpCache'[g][b] = arpCache[g][b]
          /\ net' \subseteq net \cup Requests(h, a, 0)
      BY <1>1, <2>2, ResolutionStarted DEF SendDatagram
    <3>2. TrueEntry(arpCache'[h][a], a)
      BY <3>1 DEF TrueEntry
    <3>. QED BY <3>1, <3>2, PacketsTrue
  <2>. QED BY <2>1, <2>2
<1>2. ASSUME NEW h \in Host, NEW a \in Addr, RequestTimedOut(h, a)
      PROVE  /\ \A g \in Host, b \in Addr : TrueEntry(arpCache'[g][b], b)
             /\ \A p \in net' : TruePacket(p)
  <2> DEFINE e == arpCache[h][a]
             d == [e EXCEPT !.numRetries = e.numRetries + 1]
  <2>0. e \in Entry
    BY DEF TypeOK
  <2>1. e.numRetries + 1 \in Nat
    BY <2>0 DEF Entry
  <2>2. TrueEntry(d, a) /\ TrueEntry(Absent, a)
    <3>1. d.state = e.state /\ d.mac = e.mac
      BY <2>0 DEF Entry
    <3>. QED BY <3>1 DEF TrueEntry, Absent
  <2>3. \/ /\ arpCache' = [arpCache EXCEPT ![h][a] = d]
           /\ net' = net \cup Requests(h, a, e.numRetries + 1)
        \/ arpCache' = [arpCache EXCEPT ![h][a] = Absent] /\ net' = net
    BY <1>2 DEF RequestTimedOut, ArpResolutionTimedOut
  <2>4. /\ arpCache'[h][a] \in {d, Absent}
        /\ \A g \in Host, b \in Addr : <<g, b>> # <<h, a>> => arpCache'[g][b] = arpCache[g][b]
    BY <2>3 DEF TypeOK
  <2>5. \A p \in net' : TruePacket(p)
    BY <2>1, <2>3, PacketsTrue
  <2>. QED BY <2>2, <2>4, <2>5
<1>3. ASSUME NEW h \in Host, NEW a \in Addr, Expire(h, a)
      PROVE  /\ \A g \in Host, b \in Addr : TrueEntry(arpCache'[g][b], b)
             /\ \A p \in net' : TruePacket(p)
  <2> DEFINE d == [arpCache[h][a] EXCEPT !.fresh = FALSE]
  <2>1. arpCache[h][a] \in Entry
    BY DEF TypeOK
  <2>2. TrueEntry(d, a)
    BY <2>1 DEF Entry, TrueEntry
  <2>3. arpCache' = [arpCache EXCEPT ![h][a] = d] /\ net' = net
    BY <1>3 DEF Expire
  <2>4. /\ arpCache'[h][a] = d
        /\ \A g \in Host, b \in Addr : <<g, b>> # <<h, a>> => arpCache'[g][b] = arpCache[g][b]
    BY <2>3 DEF TypeOK
  <2>. QED BY <2>2, <2>3, <2>4
<1>4. ASSUME NEW p \in net, ProcessARPPacket(p)
      PROVE  /\ \A g \in Host, b \in Addr : TrueEntry(arpCache'[g][b], b)
             /\ \A q \in net' : TruePacket(q)
  <2> DEFINE h == p.to
             a == p.src
             d == Updated(arpCache[h][a], p.srcMAC)
  <2>1. p \in ARPPacket /\ h \in Host /\ a \in Addr /\ p.srcMAC \in Host
    BY DEF TypeOK, ARPPacket
  <2>2. TrueEntry(d, a)
    BY <2>1 DEF Updated, TrueEntry, TruePacket
  <2>3. arpCache' = arpCache \/ arpCache' = [arpCache EXCEPT ![h][a] = d]
    BY <1>4 DEF ProcessARPPacket
  <2> HIDE DEF d
  <2>4. ASSUME NEW g \in Host, NEW b \in Addr
        PROVE  \/ arpCache'[g][b] = arpCache[g][b]
               \/ g = h /\ b = a /\ arpCache'[g][b] = d
    <3>1. CASE arpCache' = [arpCache EXCEPT ![h][a] = d]
      BY <2>1, <3>1 DEF TypeOK
    <3>. QED BY <2>3, <3>1
  <2>5. \/ net' = net \ {p}
        \/ p.dest \in Recognized[h] /\ net' = (net \ {p}) \cup {ReplyTo(h, p)}
    <3>1. CASE p.dest \in Recognized[h] /\ p.opcode = "REQUEST"
      BY <1>4, <3>1 DEF ProcessARPPacket
    <3>2. CASE ~(p.dest \in Recognized[h] /\ p.opcode = "REQUEST")
      <4>1. net' = (net \ {p}) \cup {}
        BY <1>4, <3>2 DEF ProcessARPPacket
      <4>. QED BY <4>1
    <3>. QED BY <3>1, <3>2
  <2>. QED BY <2>1, <2>2, <2>4, <2>5, PacketsTrue
<1>5. ASSUME NEW h \in Host, Stop(h)
      PROVE  /\ \A g \in Host, b \in Addr : TrueEntry(arpCache'[g][b], b)
             /\ \A p \in net' : TruePacket(p)
  <2>1. \A g \in Host, b \in Addr : arpCache'[g][b] \in {Absent, arpCache[g][b]}
    BY <1>5 DEF Stop, TypeOK, EmptyCache
  <2>2. \A b \in Addr : TrueEntry(Absent, b)
    BY DEF Absent, TrueEntry
  <2>. QED BY <1>5, <2>1, <2>2 DEF Stop
<1>6. CASE (\E h \in Host : Start(h)) \/ (\E p \in net : Lose(p)) \/ UNCHANGED vars
  BY <1>6 DEF Start, Lose, vars
<1>. QED BY <1>1, <1>2, <1>3, <1>4, <1>5, <1>6, FlowType DEF Next

\* Whatever proxies answer and whatever is picked up from requests to others: a cached address leads
\* to a host that answers for it.
THEOREM CachesAreTrue == Spec => []CacheIsTrue
<1>1. TypeOK /\ CacheIsTrue /\ [Next]_vars => (TypeOK /\ CacheIsTrue)'
  BY TypeStep, TrueStep
<1>. QED BY TypeInit, TrueInit, <1>1, PTL DEF Spec

-----------------------------------------------------------------------------
(* The queues are those of ARPQueue *)

\* An address in the cache has no queue, so that what is sent at once overtakes nothing
LEMMA SendDatagramQueues ==
  ASSUME TypeOK, QueuesAreAwaited, NEW h \in Host, NEW a \in Addr, SendDatagram(h, a)
  PROVE  Queue!Pass(h, a) \/ Queue!Hold(h, a)
<1>1. CASE GetMACAddressFor(h, a) # NoMAC
  <2>1. pendingPackets[h][a] = <<>>
    BY <1>1, AwaitedEverywhere DEF GetMACAddressFor, Awaited
  <2>. QED BY <1>1, <2>1 DEF SendDatagram, Queue!Pass
<1>2. CASE GetMACAddressFor(h, a) = NoMAC
  BY <1>2 DEF SendDatagram, Queue!Hold
<1>. QED BY <1>1, <1>2

\* A retry is no step of the queue, a failure drops it.
LEMMA RequestTimedOutQueues ==
  ASSUME NEW h \in Host, NEW a \in Addr, RequestTimedOut(h, a)
  PROVE  Queue!Drop(h, a) \/ UNCHANGED Queue!vars
<1>1. CASE arpCache[h][a].numRetries + 1 < retryCount
  BY <1>1 DEF RequestTimedOut, Queue!vars
<1>2. CASE ~(arpCache[h][a].numRetries + 1 < retryCount)
  BY <1>2 DEF RequestTimedOut, ArpResolutionTimedOut, Queue!Drop
<1>. QED BY <1>1, <1>2

\* A packet that resolves an address releases its queue, any other leaves it alone.
LEMMA ProcessARPPacketQueues ==
  ASSUME NEW p \in net, ProcessARPPacket(p)
  PROVE  Queue!Release(p.to, p.src) \/ UNCHANGED Queue!vars
<1>1. CASE arpCache[p.to][p.src].state # "absent" \/ p.dest \in Recognized[p.to]
  BY <1>1 DEF ProcessARPPacket, ArpResolutionCompleted, Queue!Release
<1>2. CASE ~(arpCache[p.to][p.src].state # "absent" \/ p.dest \in Recognized[p.to])
  BY <1>2 DEF ProcessARPPacket, Queue!vars
<1>. QED BY <1>1, <1>2

\* Both start with nothing waiting.
LEMMA QueueInit == Init => Queue!Init
  BY DEF Init, Queue!Init, NoPackets

\* Every action is a step of the abstract queue or leaves it alone.
LEMMA QueueStep == TypeOK /\ QueuesAreAwaited /\ [Next]_vars => [Queue!Next]_(Queue!vars)
<1> SUFFICES ASSUME TypeOK, QueuesAreAwaited, [Next]_vars
             PROVE  Queue!Next \/ UNCHANGED Queue!vars
  OBVIOUS
<1>1. ASSUME NEW h \in Host, NEW a \in Addr,
             Queue!Pass(h, a) \/ Queue!Hold(h, a) \/ Queue!Release(h, a) \/ Queue!Drop(h, a)
      PROVE  Queue!Next
  BY <1>1 DEF Queue!Next
<1>2. CASE \E f \in Flows : SendDatagram(f[1], f[2])
  BY <1>1, <1>2, FlowType, SendDatagramQueues
<1>3. CASE \E h \in Host, a \in Addr : RequestTimedOut(h, a)
  BY <1>1, <1>3, RequestTimedOutQueues
<1>4. CASE \E p \in net : ProcessARPPacket(p)
  <2>1. \A p \in net : p.to \in Host /\ p.src \in Addr
    BY DEF TypeOK, ARPPacket
  <2>. QED BY <1>1, <1>4, <2>1, ProcessARPPacketQueues
<1>5. CASE \E h \in Host : Stop(h)
  <2>1. ASSUME NEW h \in Host, Stop(h)
        PROVE  Queue!DropAll(h)
    BY <2>1 DEF Stop, Queue!DropAll, NoPackets
  <2>. QED BY <1>5, <2>1 DEF Queue!Next
<1>6. CASE \/ \E h \in Host, a \in Addr : Expire(h, a)
           \/ \E h \in Host : Start(h)
           \/ \E p \in net : Lose(p)
           \/ UNCHANGED vars
  BY <1>6 DEF Expire, Start, Lose, vars, Queue!vars
<1>. QED BY <1>2, <1>3, <1>4, <1>5, <1>6 DEF Next

\* Address resolution keeps IPv4's promise about order and loss, on every LAN.
THEOREM ResolutionImplementsQueue == Spec => ImplementsQueue
<1>1. TypeOK /\ QueuesAreAwaited /\ [Next]_vars => (TypeOK /\ QueuesAreAwaited)'
  BY TypeStep, AwaitedStep
<1>. QED BY TypeInit, AwaitedInit, <1>1, QueueInit, QueueStep, PTL
         DEF Spec, ImplementsQueue, Queue!Spec

=============================================================================
