-------------------------------- MODULE ARP --------------------------------
(***************************************************************************)
(* Address resolution on a LAN: the ARP module of each host and the part   *)
(* of IPv4 that holds datagrams back until their next hop is resolved.     *)
(* The MAC address of a host is the host itself.  A host may answer for    *)
(* addresses that are not its own (proxy ARP).  The LAN delivers ARP       *)
(* packets in any order and may lose them.                                 *)
(*                                                                         *)
(* An action is one event of the simulation kernel; the signals between    *)
(* ARP and IPv4 are method calls within it.  Times are left out: a retry   *)
(* timer that runs may expire, a cache entry may become too old, at any    *)
(* moment.  The globalARP mode, a table shared by all nodes, is not        *)
(* modelled; it is off by default.                                         *)
(***************************************************************************)
EXTENDS Naturals, Sequences

CONSTANTS
  Host, Addr,
  address,                \* the address of each host's interface
  Recognized,             \* the addresses a host answers for: addressRecognized()
  NoMAC,                  \* the unspecified MAC address
  retryCount,
  Flows,                  \* the pairs of host and next hop that have datagrams to send
  MaxDatagrams,           \* how many of each flow
  MaxFaults               \* how often an entry becomes too old or a host stops

ASSUME LanAssumption ==
  /\ NoMAC \notin Host
  /\ address \in [Host -> Addr] /\ Recognized \in [Host -> SUBSET Addr]
  /\ \A h \in Host : address[h] \in Recognized[h]
  /\ retryCount \in Nat /\ MaxFaults \in Nat
  /\ Flows \subseteq Host \X Addr /\ MaxDatagrams \in [Flows -> Nat]

VARIABLES
  arpCache,               \* the cache of each host, by address
  pendingPackets,         \* the datagrams IPv4 holds back, by next hop
  isUp,
  net,                    \* the ARP packets on the LAN, a broadcast once for each receiver
  submitted,              \* how many datagrams IPv4 was to send, by next hop
  sent,                   \* the ones it gave to the NIC, in that order
  faults

vars == <<arpCache, pendingPackets, isUp, net, submitted, sent, faults>>

\* fresh: lastUpdate + cacheTimeout has not passed.  timer: the retry timer is scheduled
Entry == [state : {"absent", "pending", "resolved"}, mac : Host \cup {NoMAC},
          numRetries : Nat, timer : BOOLEAN, fresh : BOOLEAN]
Absent == [state |-> "absent", mac |-> NoMAC, numRetries |-> 0, timer |-> FALSE, fresh |-> FALSE]
EmptyCache == [a \in Addr |-> Absent]
NoPackets == [a \in Addr |-> <<>>]

\* "retry" tells requests for one address apart that are on the LAN at the same time
ARPPacket == [opcode : {"REQUEST", "REPLY"}, to : Host, srcMAC : Host, src : Addr, dest : Addr,
              retry : Nat]

Init ==
  /\ arpCache = [h \in Host |-> EmptyCache]
  /\ pendingPackets = [h \in Host |-> NoPackets]
  /\ isUp = [h \in Host |-> TRUE]
  /\ net = {}
  /\ submitted = [h \in Host |-> [a \in Addr |-> 0]]
  /\ sent = [h \in Host |-> NoPackets]
  /\ faults = 0

-----------------------------------------------------------------------------
(* IPv4 *)

\* Mutant: the queue is sent but not emptied
ArpResolutionCompletedKept(h, a) ==
  /\ sent' = [sent EXCEPT ![h][a] = @ \o pendingPackets[h][a]]
  /\ UNCHANGED pendingPackets
ArpResolutionCompleted(h, a) ==
  /\ sent' = [sent EXCEPT ![h][a] = @ \o pendingPackets[h][a]]
  /\ pendingPackets' = [pendingPackets EXCEPT ![h][a] = <<>>]

ArpResolutionTimedOut(h, a) ==
  /\ pendingPackets' = [pendingPackets EXCEPT ![h][a] = <<>>]
  /\ UNCHANGED sent

-----------------------------------------------------------------------------
(* ARP *)

Requests(h, a, retry) ==
  {[opcode |-> "REQUEST", to |-> g, srcMAC |-> h, src |-> address[h], dest |-> a, retry |-> retry]
     : g \in Host \ {h}}

\* Mutants: the reply goes to the address instead of the MAC; the MAC of the requester stays in
ReplyToAddress(h, p) ==
  [opcode |-> "REPLY", to |-> p.src, srcMAC |-> h, src |-> p.dest, dest |-> p.src,
   retry |-> p.retry]
ReplyToUnswapped(h, p) ==
  [opcode |-> "REPLY", to |-> p.srcMAC, srcMAC |-> p.srcMAC, src |-> p.dest, dest |-> p.src,
   retry |-> p.retry]
\* "Swap hardware and protocol fields"
ReplyTo(h, p) ==
  [opcode |-> "REPLY", to |-> p.srcMAC, srcMAC |-> h, src |-> p.dest, dest |-> p.src,
   retry |-> p.retry]

GetMACAddressFor(h, a) ==
  IF arpCache[h][a].state = "resolved" /\ arpCache[h][a].fresh THEN arpCache[h][a].mac ELSE NoMAC

\* Mutant: an old entry is taken for a pending one
StartAddressResolutionOnce(h, a) ==
  IF arpCache[h][a].state # "absent" THEN UNCHANGED <<arpCache, net>>
  ELSE /\ arpCache' = [arpCache EXCEPT ![h][a] =
                         [state |-> "pending", mac |-> NoMAC, numRetries |-> 0,
                          timer |-> TRUE, fresh |-> FALSE]]
       /\ net' = net \cup Requests(h, a, 0)
\* startAddressResolution() and initiateARPResolution()
StartAddressResolution(h, a) ==
  IF arpCache[h][a].state = "pending" THEN UNCHANGED <<arpCache, net>>
  ELSE /\ arpCache' = [arpCache EXCEPT ![h][a] =
                         [state |-> "pending", mac |-> NoMAC, numRetries |-> 0,
                          timer |-> TRUE, fresh |-> FALSE]]
       /\ net' = net \cup Requests(h, a, 0)

\* updateARPCache(): only the timer of a pending entry is cancelled
Updated(e, mac) ==
  [state |-> "resolved", mac |-> mac, fresh |-> TRUE,
   numRetries |-> IF e.state = "pending" THEN 0 ELSE e.numRetries,
   timer |-> IF e.state = "pending" THEN FALSE ELSE e.timer]

-----------------------------------------------------------------------------
(* Events *)

\* sendDatagramToOutput(): the miss path holds the datagram back before it starts the resolution
SendDatagram(h, a) ==
  /\ isUp[h] /\ submitted[h][a] < MaxDatagrams[<<h, a>>]
  /\ submitted' = [submitted EXCEPT ![h][a] = @ + 1]
  /\ IF GetMACAddressFor(h, a) # NoMAC
     THEN /\ sent' = [sent EXCEPT ![h][a] = Append(@, submitted[h][a])]
          /\ UNCHANGED <<pendingPackets, arpCache, net>>
     ELSE /\ pendingPackets' = [pendingPackets EXCEPT ![h][a] = Append(@, submitted[h][a])]
          /\ StartAddressResolution(h, a)
          /\ UNCHANGED sent
  /\ UNCHANGED <<isUp, faults>>

\* Mutant: retries are not counted
RequestTimedOutUncounted(h, a) ==
  /\ isUp[h] /\ arpCache[h][a].timer
  /\ net' = net \cup Requests(h, a, 0)
  /\ UNCHANGED <<arpCache, pendingPackets, isUp, submitted, sent, faults>>
\* requestTimedOut(): the failure is told before the entry goes
RequestTimedOut(h, a) ==
  LET e == arpCache[h][a] IN
  /\ isUp[h] /\ e.timer
  /\ IF e.numRetries + 1 < retryCount
     THEN /\ arpCache' = [arpCache EXCEPT ![h][a].numRetries = @ + 1]
          /\ net' = net \cup Requests(h, a, e.numRetries + 1)
          /\ UNCHANGED <<pendingPackets, sent>>
     ELSE /\ ArpResolutionTimedOut(h, a)
          /\ arpCache' = [arpCache EXCEPT ![h][a] = Absent]
          /\ UNCHANGED net
  /\ UNCHANGED <<isUp, submitted, faults>>

\* processARPPacket(): an entry of the sender is updated in any case ("merge"), a new one is made
\* when this host is asked or answered
ProcessARPPacket(p) ==
  LET h == p.to
      known == arpCache[h][p.src].state # "absent"
      recognized == p.dest \in Recognized[h]
  IN /\ isUp[h]
     /\ IF known \/ recognized
        THEN /\ arpCache' = [arpCache EXCEPT ![h][p.src] = Updated(@, p.srcMAC)]
             /\ ArpResolutionCompleted(h, p.src)
        ELSE UNCHANGED <<arpCache, pendingPackets, sent>>
     /\ net' = (net \ {p}) \cup IF recognized /\ p.opcode = "REQUEST" THEN {ReplyTo(h, p)} ELSE {}
     /\ UNCHANGED <<isUp, submitted, faults>>

\* The LAN loses a packet, or it finds its receiver down
Lose(p) ==
  /\ net' = net \ {p}
  /\ UNCHANGED <<arpCache, pendingPackets, isUp, submitted, sent, faults>>

\* cacheTimeout after the last update
Expire(h, a) ==
  /\ arpCache[h][a].state = "resolved" /\ arpCache[h][a].fresh /\ faults < MaxFaults
  /\ arpCache' = [arpCache EXCEPT ![h][a].fresh = FALSE]
  /\ faults' = faults + 1
  /\ UNCHANGED <<pendingPackets, isUp, net, submitted, sent>>

\* stop() of ARP and of IPv4, in a crash or a shutdown
Stop(h) ==
  /\ isUp[h] /\ faults < MaxFaults
  /\ isUp' = [isUp EXCEPT ![h] = FALSE]
  /\ arpCache' = [arpCache EXCEPT ![h] = EmptyCache]
  /\ pendingPackets' = [pendingPackets EXCEPT ![h] = NoPackets]
  /\ faults' = faults + 1
  /\ UNCHANGED <<net, submitted, sent>>

Start(h) ==
  /\ ~isUp[h]
  /\ isUp' = [isUp EXCEPT ![h] = TRUE]
  /\ UNCHANGED <<arpCache, pendingPackets, net, submitted, sent, faults>>

Next ==
  \/ \E f \in Flows : SendDatagram(f[1], f[2])
  \/ \E h \in Host, a \in Addr : RequestTimedOut(h, a) \/ Expire(h, a)
  \/ \E p \in net : ProcessARPPacket(p) \/ Lose(p)
  \/ \E h \in Host : Stop(h) \/ Start(h)

Spec == Init /\ [][Next]_vars

\* The kernel lets a retry timer expire in the end unless it is cancelled.  The LAN is not asked
\* to deliver anything.
FairSpec == Spec /\ \A h \in Host, a \in Addr : WF_vars(RequestTimedOut(h, a))

-----------------------------------------------------------------------------
(* Properties *)

TypeOK ==
  /\ arpCache \in [Host -> [Addr -> Entry]]
  /\ pendingPackets \in [Host -> [Addr -> Seq(Nat)]]
  /\ isUp \in [Host -> BOOLEAN]
  /\ net \subseteq ARPPacket
  /\ submitted \in [Host -> [Addr -> Nat]]
  /\ sent \in [Host -> [Addr -> Seq(Nat)]]
  /\ faults \in Nat

\* A datagram waits only where a retry timer runs that will release or drop it.  IPv4 and ARP keep
\* this in two modules, joined by signals; the ASSERT2 of sendDatagramToOutput(), that no datagram
\* waits for an address in the cache, and the ASSERT of start() follow from it.
QueuesAreAwaited ==
  \A h \in Host, a \in Addr :
    LET e == arpCache[h][a]
    IN /\ pendingPackets[h][a] # <<>> => e.state = "pending"
       /\ e.state = "pending" <=> e.timer
       /\ ~isUp[h] => e.state = "absent"

\* A cached address, and every ARP packet, leads to a host that answers for it: requests, replies
\* of the host itself and of a proxy, and what is picked up from requests to others.
CacheIsTrue ==
  /\ \A h \in Host, a \in Addr : arpCache[h][a].state = "resolved" =>
       arpCache[h][a].mac \in Host /\ a \in Recognized[arpCache[h][a].mac]
  /\ \A p \in net : p.src \in Recognized[p.srcMAC]

\* Resolution keeps the promise about order and loss: the direct path never overtakes the queue,
\* a late reply brings back nothing that was dropped, nothing leaves twice.
Queue == INSTANCE ARPQueue WITH waiting <- pendingPackets
ImplementsQueue == Queue!Spec

\* Every queue is emptied, by an answer or by giving up, even if the LAN loses everything.
QueuesDrain ==
  \A f \in Flows : pendingPackets[f[1]][f[2]] # <<>> ~> pendingPackets[f[1]][f[2]] = <<>>
=============================================================================
