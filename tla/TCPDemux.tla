------------------------------ MODULE TCPDemux ------------------------------
(***************************************************************************)
(* The TCP module of one host: which connection a segment or a command     *)
(* goes to.  It keeps two maps, from socket pairs and from the ids that    *)
(* applications use, and the multiset of ephemeral ports in use; they      *)
(* change when a connection is opened, learns its addresses, forks off a   *)
(* listener, or is removed.                                                *)
(*                                                                         *)
(* Of the connections only the states that matter here are kept:           *)
(* CONNECTED stands for ESTABLISHED and CLOSE_WAIT, CLOSING for all states *)
(* behind the CLOSE of the application.  Whether the numbers in a segment  *)
(* are acceptable is left open: a segment may always be ignored.           *)
(***************************************************************************)
EXTENDS Integers, FiniteSets

CONSTANTS
  Conns,                  \* the connection objects: a bound, a fork needs a free one
  LocalAddr, Unspecified,         \* the addresses of the host, and the unspecified one
  Remote, Blank,          \* remote addresses with their ports, and the unspecified one
  ServerPort,             \* ports that applications name in OPEN commands
  EPHEMERAL_PORTRANGE_START, EPHEMERAL_PORTRANGE_END,
  None,                   \* no connection, no error
  MaxId                   \* bound on the connection ids handed out

Ephemeral == EPHEMERAL_PORTRANGE_START .. (EPHEMERAL_PORTRANGE_END - 1)
Port == ServerPort \cup Ephemeral
SockPair ==
  [localAddr : LocalAddr \cup {Unspecified}, remote : Remote \cup {Blank}, localPort : Port]

ASSUME DemuxAssumption ==
  /\ Unspecified \notin LocalAddr /\ Blank \notin Remote
  /\ None \notin Conns \cup {"in use", "exhausted"}
  /\ EPHEMERAL_PORTRANGE_START \in Nat /\ EPHEMERAL_PORTRANGE_END \in Nat
  /\ EPHEMERAL_PORTRANGE_START < EPHEMERAL_PORTRANGE_END
  /\ ServerPort \subseteq Nat /\ MaxId \in Nat

VARIABLES
  conn,                   \* the connection objects
  tcpConnMap,             \* socket pairs to connections
  tcpAppConnMap,          \* connection ids to connections
  usedEphemeralPorts,     \* a multiset: how often each port is in it
  lastEphemeralPort,
  isOperational,
  nextId,                 \* what ev.getUniqueNumber() returns next
  sockets,                \* the ids applications know and have not closed
  servers,                \* the ones of them that listen and fork
  failed                  \* the error that ended the simulation

maps == <<conn, tcpConnMap, tcpAppConnMap, usedEphemeralPorts>>
apps == <<sockets, servers>>
vars == <<maps, lastEphemeralPort, isOperational, nextId, apps, failed>>

States == {"FREE", "LISTEN", "SYN_SENT", "SYN_RCVD", "CONNECTED", "CLOSING"}
Connection == [state : States, active : BOOLEAN, fork : BOOLEAN, sock : SockPair, connId : Nat]
Free ==
  [state |-> "FREE", active |-> FALSE, fork |-> FALSE, connId |-> 0,
   sock |-> [localAddr |-> Unspecified, remote |-> Blank, localPort |-> EPHEMERAL_PORTRANGE_START]]
Segment == [dest : LocalAddr, destPort : Port, src : Remote, kind : {"SYN", "SYN_ACK", "ACK", "RST"}]

Live == {c \in Conns : conn[c].state # "FREE"}
Running == isOperational /\ failed = None

Init ==
  /\ conn = [c \in Conns |-> Free]
  /\ tcpConnMap = [p \in {} |-> None] /\ tcpAppConnMap = [i \in {} |-> None]
  /\ usedEphemeralPorts = [p \in Ephemeral |-> 0]
  /\ lastEphemeralPort = EPHEMERAL_PORTRANGE_START
  /\ isOperational = TRUE
  /\ nextId = 1
  /\ sockets = {} /\ servers = {}
  /\ failed = None

-----------------------------------------------------------------------------
(* The maps *)

Put(map, key, c) == [k \in DOMAIN map \cup {key} |-> IF k = key THEN c ELSE map[k]]
Erase(map, key) == [k \in DOMAIN map \ {key} |-> map[k]]

\* Mutant: listeners are tried first
KeysListenersFirst(seg) ==
  LET key == [localAddr |-> seg.dest, remote |-> seg.src, localPort |-> seg.destPort]
  IN <<[key EXCEPT !.remote = Blank],
       [key EXCEPT !.localAddr = Unspecified, !.remote = Blank],
       key, [key EXCEPT !.localAddr = Unspecified]>>

\* The socket pairs a segment is looked up with, in this order
Keys(seg) ==
  LET key == [localAddr |-> seg.dest, remote |-> seg.src, localPort |-> seg.destPort]
  IN <<key, [key EXCEPT !.localAddr = Unspecified],
       [key EXCEPT !.remote = Blank], [key EXCEPT !.localAddr = Unspecified, !.remote = Blank]>>

FindConnForSegment(seg) ==
  LET hits == {i \in 1..4 : Keys(seg)[i] \in DOMAIN tcpConnMap}
  IN IF hits = {} THEN None
     ELSE tcpConnMap[Keys(seg)[CHOOSE i \in hits : \A j \in hits : i <= j]]

\* The ports behind the last one that was given out, around to that port itself
Nth(n) ==
  EPHEMERAL_PORTRANGE_START + ((lastEphemeralPort - EPHEMERAL_PORTRANGE_START + n)
                               % (EPHEMERAL_PORTRANGE_END - EPHEMERAL_PORTRANGE_START))
Unused == {n \in 1..(EPHEMERAL_PORTRANGE_END - EPHEMERAL_PORTRANGE_START) :
             usedEphemeralPorts[Nth(n)] = 0}
EphemeralPort == Nth(CHOOSE n \in Unused : \A m \in Unused : n <= m)

Marked(port) == [p \in Ephemeral |-> usedEphemeralPorts[p] + (IF p = port THEN 1 ELSE 0)]

\* Mutant: the multiset loses every occurrence of the port
UnmarkedAll(port) == [p \in Ephemeral |-> IF p = port THEN 0 ELSE usedEphemeralPorts[p]]
Unmarked(port) ==
  [p \in Ephemeral |-> IF p = port /\ usedEphemeralPorts[p] > 0 THEN usedEphemeralPorts[p] - 1
                       ELSE usedEphemeralPorts[p]]

Error(e) == failed' = e /\ UNCHANGED <<maps, isOperational, nextId, sockets>>

\* A new connection comes into both maps, unless its socket pair is taken
AddSockPair(c, new) ==
  /\ new.sock \notin DOMAIN tcpConnMap
  /\ conn' = [conn EXCEPT ![c] = new]
  /\ tcpConnMap' = Put(tcpConnMap, new.sock, c)
  /\ tcpAppConnMap' = Put(tcpAppConnMap, new.connId, c)
  /\ usedEphemeralPorts' = Marked(new.sock.localPort)

UpdateSockPair(c, new) ==
  /\ conn' = [conn EXCEPT ![c] = new]
  /\ tcpConnMap' = Put(Erase(tcpConnMap, conn[c].sock), new.sock, c)
  /\ UNCHANGED <<tcpAppConnMap, usedEphemeralPorts>>

\* Connection c takes the full socket pair and a new id, its clone goes on listening
Clone(c) ==
  [Free EXCEPT !.state = "LISTEN", !.fork = TRUE, !.connId = conn[c].connId,
               !.sock = [conn[c].sock EXCEPT !.remote = Blank]]

\* Mutant: the listener's clone does not come into the map of ids
AddForkedConnectionUnknown(c, free, new, clone) ==
  LET moved == Put(Erase(tcpConnMap, conn[c].sock), new.sock, c)
  IN /\ clone.sock \notin DOMAIN moved
     /\ conn' = [conn EXCEPT ![c] = new, ![free] = clone]
     /\ tcpConnMap' = Put(moved, clone.sock, free)
     /\ tcpAppConnMap' = Put(Erase(tcpAppConnMap, clone.connId), new.connId, c)
     /\ usedEphemeralPorts' = Marked(clone.sock.localPort)
AddForkedConnection(c, free, new, clone) ==
  LET moved == Put(Erase(tcpConnMap, conn[c].sock), new.sock, c)
  IN /\ clone.sock \notin DOMAIN moved
     /\ conn' = [conn EXCEPT ![c] = new, ![free] = clone]
     /\ tcpConnMap' = Put(moved, clone.sock, free)
     /\ tcpAppConnMap' = Put(Put(tcpAppConnMap, clone.connId, free), new.connId, c)
     /\ usedEphemeralPorts' = Marked(clone.sock.localPort)

RemoveConnection(c) ==
  /\ conn' = [conn EXCEPT ![c] = Free]
  /\ tcpConnMap' = Erase(tcpConnMap, conn[c].sock)
  /\ tcpAppConnMap' = Erase(tcpAppConnMap, conn[c].connId)
  /\ usedEphemeralPorts' = Unmarked(conn[c].sock.localPort)
  /\ sockets' = sockets \ {conn[c].connId} /\ servers' = servers \ {conn[c].connId}
  /\ UNCHANGED <<lastEphemeralPort, isOperational, nextId, failed>>

-----------------------------------------------------------------------------
(* Commands of applications *)

Opened(state, localAddr, remote, localPort, fork) ==
  [state |-> state, active |-> state = "SYN_SENT", fork |-> fork, connId |-> nextId,
   sock |-> [localAddr |-> localAddr, remote |-> remote, localPort |-> localPort]]

Open(c, new) ==
  /\ Running /\ conn[c].state = "FREE" /\ nextId <= MaxId
  /\ \/ /\ AddSockPair(c, new)
        /\ nextId' = nextId + 1
        /\ sockets' = sockets \cup {nextId}
        /\ UNCHANGED <<isOperational, failed>>
     \/ new.sock \in DOMAIN tcpConnMap /\ Error("in use")

OpenActive(c, localAddr, remote, port) ==
  /\ Open(c, Opened("SYN_SENT", localAddr, remote, port, FALSE))
  /\ UNCHANGED <<lastEphemeralPort, servers>>

\* The local port is left to the TCP module
OpenActiveEphemeral(c, localAddr, remote) ==
  \/ /\ Unused # {}
     /\ Open(c, Opened("SYN_SENT", localAddr, remote, EphemeralPort, FALSE))
     /\ lastEphemeralPort' = EphemeralPort
     /\ UNCHANGED servers
  \/ /\ Running /\ conn[c].state = "FREE" /\ nextId <= MaxId
     /\ Unused = {}
     /\ Error("exhausted")
     /\ UNCHANGED <<lastEphemeralPort, servers>>

OpenPassive(c, localAddr, port, fork) ==
  /\ Open(c, Opened("LISTEN", localAddr, Blank, port, fork))
  /\ servers' = IF fork /\ failed' = None THEN servers \cup {nextId} ELSE servers
  /\ UNCHANGED lastEphemeralPort

\* CLOSE, once, of a socket that is open
Close(id) ==
  LET c == tcpAppConnMap[id]
  IN /\ Running /\ id \in sockets
     /\ \/ /\ conn[c].state \in {"LISTEN", "SYN_SENT"}
           /\ RemoveConnection(c)
        \/ /\ conn[c].state \in {"SYN_RCVD", "CONNECTED"}
           /\ conn' = [conn EXCEPT ![c].state = "CLOSING"]
           /\ UNCHANGED <<tcpConnMap, tcpAppConnMap, usedEphemeralPorts, lastEphemeralPort,
                          isOperational, nextId, apps, failed>>

Abort(id) ==
  /\ Running /\ id \in sockets
  /\ RemoveConnection(tcpAppConnMap[id])

-----------------------------------------------------------------------------
(* Segments and timers *)

Full(seg) == [localAddr |-> seg.dest, remote |-> seg.src, localPort |-> seg.destPort]
Received(c, seg, state) == [conn[c] EXCEPT !.state = state, !.sock = Full(seg)]

SynInListen(c, seg) ==
  /\ Running /\ conn[c].state = "LISTEN" /\ seg.kind = "SYN"
  /\ ~conn[c].fork
  /\ UpdateSockPair(c, Received(c, seg, "SYN_RCVD"))
  /\ UNCHANGED <<lastEphemeralPort, isOperational, nextId, apps, failed>>

SynForks(c, free, seg) ==
  /\ Running /\ conn[c].state = "LISTEN" /\ seg.kind = "SYN"
  /\ conn[c].fork
  /\ conn[free].state = "FREE" /\ nextId <= MaxId
  /\ \/ /\ AddForkedConnection(c, free, [Received(c, seg, "SYN_RCVD") EXCEPT !.connId = nextId],
                               Clone(c))
        /\ nextId' = nextId + 1
        /\ UNCHANGED <<lastEphemeralPort, isOperational, apps, failed>>
     \/ /\ conn[c].sock # Clone(c).sock /\ Clone(c).sock \in DOMAIN tcpConnMap
        /\ Error("in use")
        /\ UNCHANGED <<lastEphemeralPort, servers>>

SegmentInSynSent(c, seg) ==
  /\ Running /\ conn[c].state = "SYN_SENT"
  /\ \/ /\ seg.kind = "SYN"
        /\ UpdateSockPair(c, Received(c, seg, "SYN_RCVD"))
        /\ UNCHANGED <<lastEphemeralPort, isOperational, nextId, apps, failed>>
     \/ /\ seg.kind = "SYN_ACK"
        /\ UpdateSockPair(c, Received(c, seg, "CONNECTED"))
        /\ UNCHANGED <<lastEphemeralPort, isOperational, nextId, apps, failed>>
     \/ /\ seg.kind = "RST"
        /\ RemoveConnection(c)

\* A connection that was opened passively goes back to LISTEN with its full socket pair
Refused(c) ==
  \/ conn[c].active /\ RemoveConnection(c)
  \/ /\ ~conn[c].active
     /\ conn' = [conn EXCEPT ![c].state = "LISTEN"]
     /\ UNCHANGED <<tcpConnMap, tcpAppConnMap, usedEphemeralPorts, lastEphemeralPort,
                    isOperational, nextId, apps, failed>>

\* The application learns the id of a forked connection when it is established
SegmentInSynRcvd(c, seg) ==
  /\ Running /\ conn[c].state = "SYN_RCVD"
  /\ \/ seg.kind = "RST" /\ Refused(c)
     \/ seg.kind \in {"SYN", "SYN_ACK"} /\ RemoveConnection(c)
     \/ /\ seg.kind = "ACK"
        /\ conn' = [conn EXCEPT ![c].state = "CONNECTED"]
        /\ sockets' = sockets \cup {conn[c].connId}
        /\ UNCHANGED <<tcpConnMap, tcpAppConnMap, usedEphemeralPorts, lastEphemeralPort,
                       isOperational, nextId, servers, failed>>

\* RST, a SYN in the window, or the last acknowledgment
SegmentEnds(c, seg) ==
  /\ Running
  /\ \/ conn[c].state = "CONNECTED" /\ seg.kind # "ACK"
     \/ conn[c].state = "CLOSING"
  /\ RemoveConnection(c)

TimeoutConnEstab(c) ==
  /\ Running
  /\ \/ conn[c].state = "SYN_SENT" /\ RemoveConnection(c)
     \/ conn[c].state = "SYN_RCVD" /\ Refused(c)

\* The retransmissions are given up, or 2MSL is over
Timeout(c) ==
  /\ Running /\ conn[c].state \in {"CONNECTED", "CLOSING"}
  /\ RemoveConnection(c)

\* Mutant: the first port would be the first of the range
ResetBelow ==
  /\ Running
  /\ conn' = [c \in Conns |-> Free]
  /\ tcpConnMap' = [p \in {} |-> None] /\ tcpAppConnMap' = [i \in {} |-> None]
  /\ usedEphemeralPorts' = [p \in Ephemeral |-> 0]
  /\ lastEphemeralPort' = EPHEMERAL_PORTRANGE_START - 1
  /\ isOperational' = FALSE
  /\ sockets' = {} /\ servers' = {}
  /\ UNCHANGED <<nextId, failed>>
\* Shutdown or crash of the node, with its applications
Reset ==
  /\ Running
  /\ conn' = [c \in Conns |-> Free]
  /\ tcpConnMap' = [p \in {} |-> None] /\ tcpAppConnMap' = [i \in {} |-> None]
  /\ usedEphemeralPorts' = [p \in Ephemeral |-> 0]
  /\ lastEphemeralPort' = EPHEMERAL_PORTRANGE_START
  /\ isOperational' = FALSE
  /\ sockets' = {} /\ servers' = {}
  /\ UNCHANGED <<nextId, failed>>

Start ==
  /\ ~isOperational
  /\ isOperational' = TRUE
  /\ UNCHANGED <<maps, lastEphemeralPort, nextId, apps, failed>>

Next ==
  \/ \E c \in Conns, a \in LocalAddr \cup {Unspecified} :
       \/ \E r \in Remote : OpenActiveEphemeral(c, a, r)
       \/ \E r \in Remote, p \in ServerPort : OpenActive(c, a, r, p)
       \/ \E p \in ServerPort, fork \in BOOLEAN : OpenPassive(c, a, p, fork)
  \/ \E id \in sockets : Close(id) \/ Abort(id)
  \/ \E seg \in Segment : \E c \in {FindConnForSegment(seg)} \ {None} :
       \/ SynInListen(c, seg) \/ \E free \in Conns : SynForks(c, free, seg)
       \/ SegmentInSynSent(c, seg) \/ SegmentInSynRcvd(c, seg) \/ SegmentEnds(c, seg)
  \/ \E c \in Conns : TimeoutConnEstab(c) \/ Timeout(c)
  \/ Reset \/ Start

Spec == Init /\ [][Next]_vars

-----------------------------------------------------------------------------
(* Properties *)

TypeOK ==
  /\ conn \in [Conns -> Connection]
  /\ DOMAIN tcpConnMap \subseteq SockPair
  /\ \A p \in DOMAIN tcpConnMap : tcpConnMap[p] \in Conns
  /\ DOMAIN tcpAppConnMap \subseteq Nat
  /\ \A i \in DOMAIN tcpAppConnMap : tcpAppConnMap[i] \in Conns
  /\ usedEphemeralPorts \in [Ephemeral -> Nat]
  /\ lastEphemeralPort \in Ephemeral
  /\ isOperational \in BOOLEAN
  /\ nextId \in Nat
  /\ sockets \subseteq Nat /\ servers \subseteq sockets
  /\ failed \in {None, "in use", "exhausted"}

\* Both maps hold exactly the live connections, each under its own socket pair and id: a
\* connection never takes over the entry of another one, whatever addresses it learns
\* (updateSockPair() does not look), and no entry outlives the object it points to.
MapsAgree ==
  /\ DOMAIN tcpConnMap = {conn[c].sock : c \in Live}
  /\ DOMAIN tcpAppConnMap = {conn[c].connId : c \in Live}
  /\ \A c \in Live : tcpConnMap[conn[c].sock] = c /\ tcpAppConnMap[conn[c].connId] = c

\* A port is in the multiset of ephemeral ports as often as live connections have it, forked
\* ones included: none is handed out while it is in use, none is lost when one of several goes.
PortsAreCounted ==
  \A p \in Ephemeral :
    usedEphemeralPorts[p] = Cardinality({c \in Live : conn[c].sock.localPort = p})

\* Every id an application may use finds a connection, so that handleMessage() never makes one
\* up for a command; and a forking server that its application has not closed listens under the
\* id it was opened with, for every peer, whatever becomes of the connections it forks off.
SocketsAreServed ==
  /\ sockets \subseteq DOMAIN tcpAppConnMap
  /\ \A id \in servers :
       LET c == conn[tcpAppConnMap[id]]
       IN c.state = "LISTEN" /\ c.fork /\ c.sock.remote = Blank
=============================================================================
