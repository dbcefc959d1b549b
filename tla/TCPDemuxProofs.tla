--------------------------- MODULE TCPDemuxProofs ---------------------------
(***************************************************************************)
(* What holds of the TCP module of a host for any number of connections,   *)
(* addresses, ports and ids: the types, that both maps agree with the      *)
(* connections, that ephemeral ports are counted, and that every socket    *)
(* and every forking server is served.                                     *)
(***************************************************************************)
EXTENDS TCPDemux, FiniteSetTheorems, TLAPS

-----------------------------------------------------------------------------
(* Maps from keys to connections *)

\* The map holds exactly the connections in S, each under its own key
Agrees(map, key, S) ==
  /\ DOMAIN map = {key[c] : c \in S}
  /\ \A c \in S : map[key[c]] = c

\* A new connection under a new key
LEMMA PutAgrees ==
  ASSUME NEW map, NEW key, NEW S, NEW c, NEW k, NEW new,
         Agrees(map, key, S), c \notin S, k \notin DOMAIN map,
         new[c] = k, \A d \in S : new[d] = key[d]
  PROVE  Agrees(Put(map, k, c), new, S \cup {c})
<1> DEFINE put == Put(map, k, c)
<1>1. DOMAIN put = DOMAIN map \cup {k}
  BY DEF Put
<1>2. put[k] = c
  BY DEF Put
<1>3. ASSUME NEW d \in S
      PROVE  put[new[d]] = d
  <2>1. key[d] \in DOMAIN map /\ key[d] # k /\ map[key[d]] = d
    BY DEF Agrees
  <2>2. put[key[d]] = map[key[d]]
    BY <2>1 DEF Put
  <2>. QED BY <2>1, <2>2
<1>4. DOMAIN put = {new[d] : d \in S \cup {c}}
  BY <1>1 DEF Agrees
<1>. QED BY <1>2, <1>3, <1>4 DEF Agrees

\* A connection leaves with its key.
LEMMA EraseAgrees ==
  ASSUME NEW map, NEW key, NEW S, NEW c \in S, NEW new,
         Agrees(map, key, S), \A d \in S \ {c} : new[d] = key[d]
  PROVE  Agrees(Erase(map, key[c]), new, S \ {c})
<1> DEFINE erased == Erase(map, key[c])
<1>1. DOMAIN erased = DOMAIN map \ {key[c]}
  BY DEF Erase
<1>2. ASSUME NEW d \in S \ {c}
      PROVE  key[d] # key[c] /\ key[d] \in DOMAIN map
  BY DEF Agrees
<1>3. ASSUME NEW d \in S \ {c}
      PROVE  erased[new[d]] = d
  <2>1. erased[key[d]] = map[key[d]]
    BY <1>2 DEF Erase
  <2>. QED BY <2>1 DEF Agrees
<1>4. DOMAIN erased = {new[d] : d \in S \ {c}}
  <2>1. DOMAIN map = {key[d] : d \in S}
    BY DEF Agrees
  <2>. QED BY <1>1, <1>2, <2>1
<1>. QED BY <1>3, <1>4 DEF Agrees

\* A connection moves to another key, which may be its own
LEMMA MoveAgrees ==
  ASSUME NEW map, NEW key, NEW S, NEW c \in S, NEW k, NEW new,
         Agrees(map, key, S), k \notin DOMAIN map \/ k = key[c],
         new[c] = k, \A d \in S \ {c} : new[d] = key[d]
  PROVE  Agrees(Put(Erase(map, key[c]), k, c), new, S)
<1>1. Agrees(Erase(map, key[c]), new, S \ {c})
  BY EraseAgrees
<1>2. k \notin DOMAIN Erase(map, key[c])
  BY DEF Erase
<1>3. Agrees(Put(Erase(map, key[c]), k, c), new, (S \ {c}) \cup {c})
  BY <1>1, <1>2, PutAgrees
<1>. QED BY <1>3, (S \ {c}) \cup {c} = S

\* A key passes to another connection, and its connection takes a new one
LEMMA HandOverAgrees ==
  ASSUME NEW map, NEW key, NEW S, NEW c \in S, NEW d, d \notin S, NEW k, NEW new,
         Agrees(map, key, S), k \notin DOMAIN map,
         new[c] = k, new[d] = key[c], \A e \in S \ {c} : new[e] = key[e]
  PROVE  Agrees(Put(Put(map, key[c], d), k, c), new, S \cup {d})
<1> DEFINE erased == Erase(map, key[c])
<1>1. Agrees(erased, new, S \ {c})
  BY EraseAgrees
<1>2. Put(map, key[c], d) = Put(erased, key[c], d)
  <2>1. key[c] \in DOMAIN map
    BY DEF Agrees
  <2>. QED BY <2>1 DEF Put, Erase
<1>3. Agrees(Put(erased, key[c], d), new, (S \ {c}) \cup {d})
  BY <1>1, PutAgrees DEF Erase
<1>4. k \notin DOMAIN Put(map, key[c], d)
  BY DEF Put, Agrees
<1>5. Agrees(Put(Put(map, key[c], d), k, c), new, ((S \ {c}) \cup {d}) \cup {c})
  <2>1. c \notin (S \ {c}) \cup {d}
    OBVIOUS
  <2>. QED BY <1>2, <1>3, <1>4, <2>1, PutAgrees
<1>. QED BY <1>5, ((S \ {c}) \cup {d}) \cup {c} = S \cup {d}

-----------------------------------------------------------------------------
(* The inductive invariant *)

\* What makes a new id new
Fresh == \A c \in Live : conn[c].connId < nextId

\* The inductive invariant: with ids that are new when given and finitely many connections to count
Inv == TypeOK /\ MapsAgree /\ Fresh /\ IsFiniteSet(Live) /\ PortsAreCounted /\ SocketsAreServed

socks == [c \in Conns |-> conn[c].sock]
ids == [c \in Conns |-> conn[c].connId]

\* MapsAgree says the same of the two maps.
LEMMA MapsAgreeBy ==
  MapsAgree <=> Agrees(tcpConnMap, socks, Live) /\ Agrees(tcpAppConnMap, ids, Live)
<1>1. \A c \in Live : c \in Conns
  BY DEF Live
<1>2. /\ {socks[c] : c \in Live} = {conn[c].sock : c \in Live}
      /\ {ids[c] : c \in Live} = {conn[c].connId : c \in Live}
  BY <1>1 DEF socks, ids
<1>3. \A c \in Live : socks[c] = conn[c].sock /\ ids[c] = conn[c].connId
  BY <1>1 DEF socks, ids
<1>. QED BY <1>2, <1>3 DEF MapsAgree, Agrees

\* ... and after a step.
LEMMA MapsAgreeNext ==
  ASSUME Agrees(tcpConnMap', socks', Live'), Agrees(tcpAppConnMap', ids', Live')
  PROVE  MapsAgree'
<1>1. \A c \in Live' : c \in Conns
  BY DEF Live
<1>2. /\ {socks'[c] : c \in Live'} = {conn'[c].sock : c \in Live'}
      /\ {ids'[c] : c \in Live'} = {conn'[c].connId : c \in Live'}
  BY <1>1 DEF socks, ids
<1>3. \A c \in Live' : socks'[c] = conn'[c].sock /\ ids'[c] = conn'[c].connId
  BY <1>1 DEF socks, ids
<1>. QED BY <1>2, <1>3 DEF MapsAgree, Agrees

\* The live connections that have a port
Having(p) == {c \in Live : conn[c].sock.localPort = p}

\* The types of the fields of a connection
LEMMA LiveTypes ==
  ASSUME TypeOK, NEW c \in Conns
  PROVE  /\ conn[c] \in Connection
         /\ conn[c].sock \in SockPair /\ conn[c].sock.localPort \in Port
         /\ conn[c].connId \in Nat
  BY DEF TypeOK, Connection, SockPair

\* Ports are numbers, and there is an ephemeral one.
LEMMA PortTypes ==
  /\ Ephemeral \subseteq Port /\ Port \subseteq Nat
  /\ EPHEMERAL_PORTRANGE_START \in Ephemeral
<1> DEFINE s == EPHEMERAL_PORTRANGE_START
           e == EPHEMERAL_PORTRANGE_END
<1>0. s \in Nat /\ e \in Nat /\ s < e
  BY DemuxAssumption
<1> HIDE DEF s, e
<1>1. (\A p \in s .. (e - 1) : p \in Nat) /\ s \in s .. (e - 1)
  BY <1>0
<1>2. Ephemeral = s .. (e - 1)
  BY DEF Ephemeral, s, e
<1>. QED BY <1>1, <1>2, DemuxAssumption DEF Port, s

\* A free object is well-formed.
LEMMA FreeType == Free \in Connection
<1>1. EPHEMERAL_PORTRANGE_START \in Port
  BY PortTypes
<1>. QED BY <1>1 DEF Free, Connection, SockPair, States

\* The module starts without connections.
LEMMA InvInit == Init => Inv
<1> SUFFICES ASSUME Init PROVE Inv
  OBVIOUS
<1>1. Live = {}
  BY DEF Init, Live, Free
<1>2. TypeOK
  BY FreeType, PortTypes DEF Init, TypeOK
<1>3. MapsAgree /\ Fresh /\ SocketsAreServed
  BY <1>1 DEF Init, MapsAgree, Fresh, SocketsAreServed
<1>4. IsFiniteSet(Live)
  BY <1>1, FS_EmptySet
<1>5. \A p \in Ephemeral : {c \in Live : conn[c].sock.localPort = p} = {}
  BY <1>1
<1>6. PortsAreCounted
  BY <1>5, FS_EmptySet DEF Init, PortsAreCounted
<1>. QED BY <1>2, <1>3, <1>4, <1>6 DEF Inv

-----------------------------------------------------------------------------
(* A segment finds the connection whose socket pair is most specific *)

\* The connection findConnForSegment() finds has the port of the segment; where it is not the one of
\* the full pair there is none, so that updateSockPair() overwrites nothing.
LEMMA FindsMostSpecific ==
  ASSUME TypeOK, MapsAgree, NEW seg \in Segment, NEW c, c = FindConnForSegment(seg), c # None
  PROVE  /\ c \in Live
         /\ conn[c].sock.localPort = seg.destPort
         /\ Full(seg) \notin DOMAIN tcpConnMap \/ Full(seg) = conn[c].sock
<1> DEFINE hits == {i \in 1..4 : Keys(seg)[i] \in DOMAIN tcpConnMap}
           first == CHOOSE i \in hits : \A j \in hits : i <= j
<1>1. hits # {} /\ c = tcpConnMap[Keys(seg)[first]]
  BY DEF FindConnForSegment
<1>2. first \in hits /\ \A j \in hits : first <= j
  <2>1. \E i \in hits : \A j \in hits : i <= j
    BY <1>1
  <2>. QED BY <2>1
<1>3. Keys(seg)[first] \in DOMAIN tcpConnMap
  BY <1>2
<1>4. PICK d \in Live : conn[d].sock = Keys(seg)[first]
  BY <1>3 DEF MapsAgree
<1>5. c = d
  BY <1>1, <1>4 DEF MapsAgree
<1>6. Keys(seg)[1] = Full(seg)
  BY DEF Keys, Full
<1>7. \A i \in 1..4 : Keys(seg)[i].localPort = seg.destPort
  <2> DEFINE key == Full(seg)
             k2 == [key EXCEPT !.localAddr = Unspecified]
             k3 == [key EXCEPT !.remote = Blank]
             k4 == [key EXCEPT !.localAddr = Unspecified, !.remote = Blank]
  <2>1. key.localPort = seg.destPort
    BY DEF Full
  <2>2. k2.localPort = seg.destPort /\ k3.localPort = seg.destPort /\ k4.localPort = seg.destPort
    BY DEF Full
  <2>3. Keys(seg) = <<key, k2, k3, k4>>
    BY DEF Keys, Full
  <2> HIDE DEF key, k2, k3, k4
  <2>. QED BY <2>1, <2>2, <2>3
<1>8. CASE Full(seg) \in DOMAIN tcpConnMap
  <2>1. 1 \in hits
    BY <1>6, <1>8
  <2>2. first = 1
    BY <1>2, <2>1
  <2>. QED BY <1>2, <1>4, <1>5, <1>6, <1>7, <2>2
<1>9. CASE Full(seg) \notin DOMAIN tcpConnMap
  BY <1>2, <1>4, <1>5, <1>7, <1>9
<1>. QED BY <1>8, <1>9

-----------------------------------------------------------------------------
(* What a step does to the connections.  Every step of the module is one of these. *)

\* A command creates connection c in the state new.
Added(c, new) ==
  /\ c \in Conns /\ conn[c].state = "FREE"
  /\ new \in Connection /\ new.state # "FREE" /\ new.connId = nextId
  /\ AddSockPair(c, new)
  /\ nextId' = nextId + 1
  /\ sockets' = sockets \cup {nextId}
  /\ servers \subseteq servers' /\ servers' \subseteq servers \cup {nextId}
  /\ nextId \in servers' => new.state = "LISTEN" /\ new.fork /\ new.sock.remote = Blank
  /\ lastEphemeralPort' \in Ephemeral
  /\ UNCHANGED <<isOperational, failed>>

\* Connection c takes the state new, perhaps with the full socket pair of a segment.
Changed(c, new) ==
  /\ c \in Live /\ conn[c].connId \notin servers
  /\ new \in Connection /\ new.state # "FREE" /\ new.connId = conn[c].connId
  /\ new.sock.localPort = conn[c].sock.localPort
  /\ conn' = [conn EXCEPT ![c] = new]
  /\ \/ new.sock = conn[c].sock /\ UNCHANGED tcpConnMap
     \/ /\ new.sock \notin DOMAIN tcpConnMap \/ new.sock = conn[c].sock
        /\ tcpConnMap' = Put(Erase(tcpConnMap, conn[c].sock), new.sock, c)
  /\ sockets \subseteq sockets' /\ sockets' \subseteq sockets \cup {conn[c].connId}
  /\ UNCHANGED <<tcpAppConnMap, usedEphemeralPorts, lastEphemeralPort, isOperational, nextId,
                 servers, failed>>

\* Connection c takes the state new, and its listener moves to the object free.
Forked(c, free, new, clone) ==
  /\ c \in Live /\ free \in Conns /\ conn[free].state = "FREE"
  /\ new \in Connection /\ new.state # "FREE" /\ new.connId = nextId
  /\ clone \in Connection /\ clone.state # "FREE" /\ clone.connId = conn[c].connId
  /\ {new.sock.localPort, clone.sock.localPort} = {conn[c].sock.localPort}
  /\ new.sock \notin DOMAIN tcpConnMap \/ new.sock = conn[c].sock
  /\ conn[c].connId \in servers =>
       clone.state = "LISTEN" /\ clone.fork /\ clone.sock.remote = Blank
  /\ AddForkedConnection(c, free, new, clone)
  /\ nextId' = nextId + 1
  /\ UNCHANGED <<lastEphemeralPort, isOperational, apps, failed>>

\* A connection ends.
Removed(c) == c \in Live /\ RemoveConnection(c)

\* No connection changes.
Kept ==
  /\ UNCHANGED <<maps, nextId, apps>>
  /\ lastEphemeralPort' \in Ephemeral /\ isOperational' \in BOOLEAN
  /\ failed' \in {None, "in use", "exhausted"}

\* The connections an id stands for
LEMMA IdsFound ==
  ASSUME TypeOK, MapsAgree, Fresh
  PROVE  /\ nextId \notin DOMAIN tcpAppConnMap
         /\ \A id \in DOMAIN tcpAppConnMap :
              tcpAppConnMap[id] \in Live /\ conn[tcpAppConnMap[id]].connId = id
<1>1. nextId \notin DOMAIN tcpAppConnMap
  <2>1. \A c \in Live : conn[c].connId \in Nat /\ conn[c].connId < nextId /\ nextId \in Nat
    BY LiveTypes DEF Fresh, Live, TypeOK
  <2>2. \A c \in Live : conn[c].connId # nextId
    BY <2>1
  <2>. QED BY <2>2 DEF MapsAgree
<1>2. ASSUME NEW id \in DOMAIN tcpAppConnMap
      PROVE  tcpAppConnMap[id] \in Live /\ conn[tcpAppConnMap[id]].connId = id
  <2>1. PICK d \in Live : conn[d].connId = id
    BY DEF MapsAgree
  <2>. QED BY <2>1 DEF MapsAgree
<1>. QED BY <1>1, <1>2

\* The multiset of ephemeral ports
LEMMA MarkedAs ==
  ASSUME TypeOK, NEW port
  PROVE  /\ Marked(port) \in [Ephemeral -> Nat]
         /\ \A p \in Ephemeral : Marked(port)[p] = IF p = port THEN usedEphemeralPorts[p] + 1
                                                 ELSE usedEphemeralPorts[p]
<1>1. ASSUME NEW p \in Ephemeral
      PROVE  /\ usedEphemeralPorts[p] \in Nat
             /\ Marked(port)[p] = usedEphemeralPorts[p] + (IF p = port THEN 1 ELSE 0)
  BY DEF TypeOK, Marked
<1>2. ASSUME NEW p \in Ephemeral
      PROVE  /\ Marked(port)[p] \in Nat
             /\ Marked(port)[p] = IF p = port THEN usedEphemeralPorts[p] + 1
                                  ELSE usedEphemeralPorts[p]
  BY <1>1
<1>. QED BY <1>2 DEF Marked

\* ... and with one port less
LEMMA UnmarkedAs ==
  ASSUME TypeOK, NEW port
  PROVE  /\ Unmarked(port) \in [Ephemeral -> Nat]
         /\ \A p \in Ephemeral :
              /\ p = port /\ usedEphemeralPorts[p] > 0 =>
                   Unmarked(port)[p] = usedEphemeralPorts[p] - 1
              /\ p # port => Unmarked(port)[p] = usedEphemeralPorts[p]
<1>1. ASSUME NEW p \in Ephemeral
      PROVE  /\ usedEphemeralPorts[p] \in Nat
             /\ Unmarked(port)[p] = IF p = port /\ usedEphemeralPorts[p] > 0
                                    THEN usedEphemeralPorts[p] - 1 ELSE usedEphemeralPorts[p]
  BY DEF TypeOK, Unmarked
<1>2. ASSUME NEW p \in Ephemeral
      PROVE  Unmarked(port)[p] \in Nat
  BY <1>1
<1>. QED BY <1>1, <1>2 DEF Unmarked

\* A new id and a free pair keep both maps; the port is counted once more.
LEMMA AddedInv ==
  ASSUME Inv, NEW c, NEW new, Added(c, new)
  PROVE  Inv'
<1> USE DEF Inv
<1>1. c \in Conns /\ c \notin Live /\ conn' = [conn EXCEPT ![c] = new]
  BY DEF Added, AddSockPair, Live
<1>2. /\ conn' \in [Conns -> Connection]
      /\ conn'[c] = new /\ \A d \in Conns \ {c} : conn'[d] = conn[d]
  BY <1>1 DEF TypeOK, Added
<1>3. Live' = Live \cup {c}
  BY <1>1, <1>2 DEF Live, Added
<1>4. new.sock \in SockPair /\ new.sock.localPort \in Port /\ new.connId = nextId /\ nextId \in Nat
  BY DEF Added, TypeOK, Connection, SockPair
<1>5. /\ tcpConnMap' = Put(tcpConnMap, new.sock, c)
      /\ tcpAppConnMap' = Put(tcpAppConnMap, nextId, c)
      /\ usedEphemeralPorts' = Marked(new.sock.localPort)
  BY <1>4 DEF Added, AddSockPair
<1>6. TypeOK'
  <2>1. /\ DOMAIN tcpConnMap' \subseteq SockPair
        /\ \A p \in DOMAIN tcpConnMap' : tcpConnMap'[p] \in Conns
    BY <1>1, <1>4, <1>5 DEF TypeOK, Put
  <2>2. /\ DOMAIN tcpAppConnMap' \subseteq Nat
        /\ \A i \in DOMAIN tcpAppConnMap' : tcpAppConnMap'[i] \in Conns
    BY <1>1, <1>4, <1>5 DEF TypeOK, Put
  <2>3. usedEphemeralPorts' \in [Ephemeral -> Nat]
    BY <1>5, MarkedAs
  <2>4. sockets' \subseteq Nat /\ servers' \subseteq sockets' /\ nextId' \in Nat
    <3>1. /\ sockets \subseteq Nat /\ servers \subseteq sockets /\ nextId \in Nat
          /\ sockets' = sockets \cup {nextId} /\ servers' \subseteq servers \cup {nextId}
          /\ nextId' = nextId + 1
      BY DEF TypeOK, Added
    <3>. QED BY <3>1
  <2>. QED BY <1>2, <2>1, <2>2, <2>3, <2>4 DEF TypeOK, Added
<1>7. MapsAgree'
  <2>1. \A d \in Live : d \in Conns /\ d # c
    BY <1>1 DEF Live
  <2>2. /\ socks'[c] = new.sock /\ ids'[c] = nextId
        /\ \A d \in Live : socks'[d] = socks[d] /\ ids'[d] = ids[d]
    BY <1>1, <1>2, <1>4, <2>1 DEF socks, ids
  <2>3. new.sock \notin DOMAIN tcpConnMap /\ nextId \notin DOMAIN tcpAppConnMap
    BY IdsFound DEF Added, AddSockPair
  <2>4. Agrees(tcpConnMap', socks', Live')
    BY <1>1, <1>3, <1>5, <2>2, <2>3, MapsAgreeBy, PutAgrees
  <2>5. Agrees(tcpAppConnMap', ids', Live')
    BY <1>1, <1>3, <1>5, <2>2, <2>3, MapsAgreeBy, PutAgrees
  <2>. QED BY <2>4, <2>5, MapsAgreeNext
<1>8. Fresh'
  <2>1. \A d \in Live : d \in Conns \ {c} /\ conn[d].connId \in Nat /\ conn[d].connId < nextId
    BY <1>1, LiveTypes DEF Live, Fresh
  <2>2. \A d \in Live : conn'[d].connId < nextId'
    BY <1>2, <1>4, <2>1 DEF Added
  <2>. QED BY <1>2, <1>3, <1>4, <2>2 DEF Fresh, Added
<1>9. IsFiniteSet(Live')
  BY <1>3, FS_AddElement
<1>10. PortsAreCounted'
  <2>1. ASSUME NEW p \in Ephemeral
        PROVE  usedEphemeralPorts'[p] = Cardinality(Having(p)')
    <3>1. IsFiniteSet(Having(p)) /\ usedEphemeralPorts[p] = Cardinality(Having(p))
      BY FS_Subset DEF Having, PortsAreCounted
    <3>2. c \notin Having(p) /\ \A d \in Live : conn'[d] = conn[d]
      BY <1>1, <1>2 DEF Having, Live
    <3>3. CASE new.sock.localPort = p
      <4>1. Having(p)' = Having(p) \cup {c}
        BY <1>2, <1>3, <3>2, <3>3 DEF Having
      <4>2. Cardinality(Having(p)') = Cardinality(Having(p)) + 1
        BY <3>1, <3>2, <4>1, FS_AddElement
      <4>. QED BY <1>5, <3>1, <3>3, <4>2, MarkedAs
    <3>4. CASE new.sock.localPort # p
      <4>1. Having(p)' = Having(p)
        BY <1>2, <1>3, <3>2, <3>4 DEF Having
      <4>. QED BY <1>5, <3>1, <3>4, <4>1, MarkedAs
    <3>. QED BY <3>3, <3>4
  <2>. QED BY <2>1 DEF PortsAreCounted, Having
<1>11. SocketsAreServed'
  <2>1. sockets' \subseteq DOMAIN tcpAppConnMap'
    BY <1>5 DEF Added, Put, SocketsAreServed
  <2>2. ASSUME NEW id \in servers'
        PROVE  LET d == conn'[tcpAppConnMap'[id]]
               IN d.state = "LISTEN" /\ d.fork /\ d.sock.remote = Blank
    <3>1. CASE id = nextId
      <4>1. tcpAppConnMap'[id] = c
        BY <1>5, <3>1 DEF Put
      <4>. QED BY <1>2, <2>2, <3>1, <4>1 DEF Added
    <3>2. CASE id # nextId
      <4>1. id \in servers /\ id \in DOMAIN tcpAppConnMap
        BY <3>2 DEF Added, SocketsAreServed, TypeOK
      <4>2. tcpAppConnMap'[id] = tcpAppConnMap[id]
        BY <1>5, <3>2, <4>1 DEF Put
      <4>3. tcpAppConnMap[id] \in Live /\ conn'[tcpAppConnMap[id]] = conn[tcpAppConnMap[id]]
        BY <1>1, <1>2, <4>1, IdsFound DEF Live
      <4>. QED BY <4>1, <4>2, <4>3 DEF SocketsAreServed
    <3>. QED BY <3>1, <3>2
  <2>. QED BY <2>1, <2>2 DEF SocketsAreServed
<1>. QED BY <1>6, <1>7, <1>8, <1>9, <1>10, <1>11


\* A pair nobody has, or the own one, may replace that of the connection.
LEMMA ChangedInv ==
  ASSUME Inv, NEW c, NEW new, Changed(c, new)
  PROVE  Inv'
<1> USE DEF Inv
<1>1. c \in Live /\ c \in Conns /\ conn' = [conn EXCEPT ![c] = new]
  BY DEF Changed, Live
<1>2. /\ conn' \in [Conns -> Connection]
      /\ conn'[c] = new /\ \A d \in Conns \ {c} : conn'[d] = conn[d]
  BY <1>1 DEF TypeOK, Changed
<1>3. Live' = Live
  BY <1>1, <1>2 DEF Live, Changed
<1>4. new.sock \in SockPair /\ new.connId = conn[c].connId /\ conn[c].connId \in Nat
  BY <1>1, LiveTypes DEF Changed, Connection
<1>5. /\ UNCHANGED <<tcpAppConnMap, usedEphemeralPorts, nextId, servers>>
      /\ conn[c].connId \notin servers /\ new.sock.localPort = conn[c].sock.localPort
  BY DEF Changed
<1>6. TypeOK'
  <2>1. /\ DOMAIN tcpConnMap' \subseteq SockPair
        /\ \A p \in DOMAIN tcpConnMap' : tcpConnMap'[p] \in Conns
    <3>1. CASE tcpConnMap' = tcpConnMap
      BY <3>1 DEF TypeOK
    <3>2. CASE tcpConnMap' = Put(Erase(tcpConnMap, conn[c].sock), new.sock, c)
      BY <1>1, <1>4, <3>2 DEF TypeOK, Put, Erase
    <3>. QED BY <3>1, <3>2 DEF Changed
  <2>2. sockets' \subseteq Nat /\ servers' \subseteq sockets'
    <3>1. /\ sockets \subseteq Nat /\ servers \subseteq sockets /\ servers' = servers
          /\ sockets \subseteq sockets' /\ sockets' \subseteq sockets \cup {conn[c].connId}
      BY DEF TypeOK, Changed
    <3>. QED BY <1>4, <3>1
  <2>. QED BY <1>2, <2>1, <2>2 DEF TypeOK, Changed
<1>7. MapsAgree'
  <2>1. \A d \in Live : d \in Conns
    BY DEF Live
  <2>2. /\ socks'[c] = new.sock /\ socks[c] = conn[c].sock
        /\ \A d \in Live \ {c} : socks'[d] = socks[d]
        /\ ids' = ids
    BY <1>1, <1>2, <1>4, <2>1 DEF socks, ids
  <2>3. Agrees(tcpConnMap', socks', Live')
    <3>1. CASE new.sock = conn[c].sock /\ tcpConnMap' = tcpConnMap
      <4>1. socks' = socks
        BY <1>1, <1>2, <3>1 DEF socks
      <4>. QED BY <1>3, <3>1, <4>1, MapsAgreeBy
    <3>2. CASE /\ new.sock \notin DOMAIN tcpConnMap \/ new.sock = conn[c].sock
               /\ tcpConnMap' = Put(Erase(tcpConnMap, conn[c].sock), new.sock, c)
      BY <1>1, <1>3, <2>2, <3>2, MapsAgreeBy, MoveAgrees
    <3>. QED BY <3>1, <3>2 DEF Changed
  <2>4. Agrees(tcpAppConnMap', ids', Live')
    BY <1>3, <1>5, <2>2, MapsAgreeBy
  <2>. QED BY <2>3, <2>4, MapsAgreeNext
<1>8. Fresh'
  <2>1. \A d \in Live : d \in Conns
    BY DEF Live
  <2>. QED BY <1>2, <1>3, <1>4, <1>5, <2>1 DEF Fresh
<1>9. PortsAreCounted'
  <2>1. ASSUME NEW p \in Ephemeral
        PROVE  Having(p)' = Having(p)
    <3>1. \A d \in Live : d \in Conns
      BY DEF Live
    <3>. QED BY <1>2, <1>3, <1>5, <3>1 DEF Having
  <2>. QED BY <1>5, <2>1 DEF PortsAreCounted, Having
<1>10. SocketsAreServed'
  <2>1. sockets' \subseteq DOMAIN tcpAppConnMap'
    BY <1>1, <1>5 DEF Changed, SocketsAreServed, MapsAgree
  <2>2. ASSUME NEW id \in servers
        PROVE  /\ tcpAppConnMap'[id] = tcpAppConnMap[id]
               /\ conn'[tcpAppConnMap[id]] = conn[tcpAppConnMap[id]]
    <3>1. id \in DOMAIN tcpAppConnMap
      BY DEF SocketsAreServed, TypeOK
    <3>2. tcpAppConnMap[id] \in Conns \ {c}
      BY <1>5, <3>1, IdsFound DEF Live
    <3>. QED BY <1>2, <1>5, <3>2
  <2>. QED BY <1>5, <2>1, <2>2 DEF SocketsAreServed
<1>. QED BY <1>3, <1>6, <1>7, <1>8, <1>9, <1>10

\* A fork takes the pair of the segment and a new id and leaves its own to the listener.
LEMMA ForkedInv ==
  ASSUME Inv, NEW c, NEW free, NEW new, NEW clone, Forked(c, free, new, clone)
  PROVE  Inv'
<1> USE DEF Inv
<1> DEFINE moved == Put(Erase(tcpConnMap, conn[c].sock), new.sock, c)
<1>1. /\ c \in Live /\ c \in Conns /\ free \in Conns /\ free \notin Live /\ free # c
      /\ conn' = [conn EXCEPT ![c] = new, ![free] = clone]
  BY DEF Forked, AddForkedConnection, Live
<1>2. /\ conn' \in [Conns -> Connection]
      /\ conn'[c] = new /\ conn'[free] = clone
      /\ \A d \in Conns \ {c, free} : conn'[d] = conn[d]
  BY <1>1 DEF TypeOK, Forked
<1>3. Live' = Live \cup {free}
  BY <1>1, <1>2 DEF Live, Forked
<1>4. /\ new.sock \in SockPair /\ clone.sock \in SockPair
      /\ new.connId = nextId /\ clone.connId = conn[c].connId
      /\ nextId \in Nat /\ conn[c].connId \in Nat
  BY <1>1, LiveTypes DEF Forked, Connection, TypeOK
<1>5. /\ clone.sock \notin DOMAIN moved
      /\ tcpConnMap' = Put(moved, clone.sock, free)
      /\ tcpAppConnMap' = Put(Put(tcpAppConnMap, conn[c].connId, free), nextId, c)
      /\ usedEphemeralPorts' = Marked(clone.sock.localPort)
  BY <1>4 DEF Forked, AddForkedConnection
<1>6. nextId' = nextId + 1 /\ sockets' = sockets /\ servers' = servers
  BY DEF Forked, apps
<1>7. TypeOK'
  <2>1. DOMAIN moved \subseteq SockPair /\ \A p \in DOMAIN moved : moved[p] \in Conns
    BY <1>1, <1>4 DEF TypeOK, Put, Erase
  <2>2. /\ DOMAIN tcpConnMap' \subseteq SockPair
        /\ \A p \in DOMAIN tcpConnMap' : tcpConnMap'[p] \in Conns
    BY <1>1, <1>4, <1>5, <2>1 DEF Put
  <2>3. /\ DOMAIN tcpAppConnMap' \subseteq Nat
        /\ \A i \in DOMAIN tcpAppConnMap' : tcpAppConnMap'[i] \in Conns
    BY <1>1, <1>4, <1>5 DEF TypeOK, Put
  <2>4. usedEphemeralPorts' \in [Ephemeral -> Nat]
    BY <1>5, MarkedAs
  <2>5. UNCHANGED <<lastEphemeralPort, isOperational, failed>> /\ nextId' \in Nat
    BY <1>4, <1>6 DEF Forked
  <2>. QED BY <1>2, <1>6, <2>2, <2>3, <2>4, <2>5 DEF TypeOK
<1>8. MapsAgree'
  <2>1. \A d \in Live : d \in Conns /\ d # free
    BY <1>1 DEF Live
  <2>2. /\ socks'[c] = new.sock /\ socks[c] = conn[c].sock /\ socks'[free] = clone.sock
        /\ ids'[c] = nextId /\ ids[c] = conn[c].connId /\ ids'[free] = conn[c].connId
        /\ \A d \in Live \ {c} : socks'[d] = socks[d] /\ ids'[d] = ids[d]
    BY <1>1, <1>2, <1>4, <2>1 DEF socks, ids
  <2>3. Agrees(tcpConnMap', socks', Live')
    <3>1. new.sock \notin DOMAIN tcpConnMap \/ new.sock = socks[c]
      BY <2>2 DEF Forked
    <3>2. Agrees(moved, socks', Live)
      BY <1>1, <2>2, <3>1, MapsAgreeBy, MoveAgrees
    <3>3. \A d \in Live : socks'[d] = socks'[d]
      OBVIOUS
    <3> HIDE DEF moved
    <3>. QED BY <1>1, <1>3, <1>5, <2>2, <3>2, <3>3, PutAgrees
  <2>4. Agrees(tcpAppConnMap', ids', Live')
    <3>1. tcpAppConnMap' = Put(Put(tcpAppConnMap, ids[c], free), nextId, c)
      BY <1>5, <2>2
    <3>2. nextId \notin DOMAIN tcpAppConnMap /\ Agrees(tcpAppConnMap, ids, Live)
      BY IdsFound, MapsAgreeBy
    <3>3. Agrees(tcpAppConnMap', ids', Live \cup {free})
      BY <1>1, <2>2, <3>1, <3>2, HandOverAgrees
    <3>. QED BY <1>3, <3>3
  <2>. QED BY <2>3, <2>4, MapsAgreeNext
<1>9. Fresh'
  <2>1. \A d \in Live : d \in Conns /\ d # free /\ conn[d].connId \in Nat /\ conn[d].connId < nextId
    BY <1>1, LiveTypes DEF Live, Fresh
  <2>2. ASSUME NEW d \in Live'
        PROVE  conn'[d].connId < nextId'
    <3>1. CASE d = c
      BY <1>2, <1>4, <1>6, <3>1
    <3>2. CASE d = free
      BY <1>1, <1>2, <1>4, <1>6, <2>1, <3>2
    <3>3. CASE d # c /\ d # free
      BY <1>2, <1>3, <1>4, <1>6, <2>1, <3>3
    <3>. QED BY <3>1, <3>2, <3>3
  <2>. QED BY <2>2 DEF Fresh
<1>10. IsFiniteSet(Live')
  BY <1>3, FS_AddElement
<1>11. PortsAreCounted'
  <2>1. new.sock.localPort = conn[c].sock.localPort /\ clone.sock.localPort = conn[c].sock.localPort
    BY DEF Forked
  <2>2. ASSUME NEW p \in Ephemeral
        PROVE  usedEphemeralPorts'[p] = Cardinality(Having(p)')
    <3>1. IsFiniteSet(Having(p)) /\ usedEphemeralPorts[p] = Cardinality(Having(p))
      BY FS_Subset DEF Having, PortsAreCounted
    <3>2. /\ free \notin Having(p)
          /\ \A d \in Live : conn'[d].sock.localPort = conn[d].sock.localPort
      <4>1. \A d \in Live : d \in Conns /\ d # free
        BY <1>1 DEF Live
      <4>. QED BY <1>1, <1>2, <2>1, <4>1 DEF Having
    <3>3. CASE clone.sock.localPort = p
      <4>1. Having(p)' = Having(p) \cup {free}
        BY <1>2, <1>3, <3>2, <3>3 DEF Having
      <4>2. Cardinality(Having(p)') = Cardinality(Having(p)) + 1
        BY <3>1, <3>2, <4>1, FS_AddElement
      <4>. QED BY <1>5, <3>1, <3>3, <4>2, MarkedAs
    <3>4. CASE clone.sock.localPort # p
      <4>1. Having(p)' = Having(p)
        BY <1>2, <1>3, <3>2, <3>4 DEF Having
      <4>. QED BY <1>5, <3>1, <3>4, <4>1, MarkedAs
    <3>. QED BY <3>3, <3>4
  <2>. QED BY <2>2 DEF PortsAreCounted, Having
<1>12. SocketsAreServed'
  <2>1. DOMAIN tcpAppConnMap' = DOMAIN tcpAppConnMap \cup {conn[c].connId, nextId}
    BY <1>5 DEF Put
  <2>2. ASSUME NEW id \in servers
        PROVE  LET d == conn'[tcpAppConnMap'[id]]
               IN d.state = "LISTEN" /\ d.fork /\ d.sock.remote = Blank
    <3>1. id \in DOMAIN tcpAppConnMap /\ id # nextId
      BY IdsFound DEF SocketsAreServed, TypeOK
    <3>2. CASE id = conn[c].connId
      <4>1. tcpAppConnMap'[id] = free
        BY <1>5, <3>1, <3>2 DEF Put
      <4>. QED BY <1>2, <3>2, <4>1 DEF Forked
    <3>3. CASE id # conn[c].connId
      <4>1. tcpAppConnMap'[id] = tcpAppConnMap[id]
        BY <1>5, <3>1, <3>3 DEF Put
      <4>2. tcpAppConnMap[id] \in Live \ {c}
        BY <3>1, <3>3, IdsFound
      <4>3. conn'[tcpAppConnMap[id]] = conn[tcpAppConnMap[id]]
        BY <1>1, <1>2, <4>2 DEF Live
      <4>. QED BY <4>1, <4>3 DEF SocketsAreServed
    <3>. QED BY <3>2, <3>3
  <2>. QED BY <1>6, <2>1, <2>2 DEF SocketsAreServed
<1>. QED BY <1>7, <1>8, <1>9, <1>10, <1>11, <1>12


\* What ends takes its entries and one count of its port with it.
LEMMA RemovedInv ==
  ASSUME Inv, NEW c, Removed(c)
  PROVE  Inv'
<1> USE DEF Inv
<1>1. /\ c \in Live /\ c \in Conns /\ conn' = [conn EXCEPT ![c] = Free]
      /\ tcpConnMap' = Erase(tcpConnMap, conn[c].sock)
      /\ tcpAppConnMap' = Erase(tcpAppConnMap, conn[c].connId)
      /\ usedEphemeralPorts' = Unmarked(conn[c].sock.localPort)
      /\ sockets' = sockets \ {conn[c].connId} /\ servers' = servers \ {conn[c].connId}
      /\ UNCHANGED <<lastEphemeralPort, isOperational, nextId, failed>>
  BY DEF Removed, RemoveConnection, Live
<1>2. /\ conn' \in [Conns -> Connection]
      /\ conn'[c] = Free /\ \A d \in Conns \ {c} : conn'[d] = conn[d]
  BY <1>1, FreeType DEF TypeOK
<1>3. Live' = Live \ {c}
  <2>1. Free.state = "FREE"
    BY DEF Free
  <2>. QED BY <1>1, <1>2, <2>1 DEF Live
<1>4. TypeOK'
  <2>1. /\ DOMAIN tcpConnMap' \subseteq SockPair
        /\ \A p \in DOMAIN tcpConnMap' : tcpConnMap'[p] \in Conns
    BY <1>1 DEF TypeOK, Erase
  <2>2. /\ DOMAIN tcpAppConnMap' \subseteq Nat
        /\ \A i \in DOMAIN tcpAppConnMap' : tcpAppConnMap'[i] \in Conns
    BY <1>1 DEF TypeOK, Erase
  <2>3. usedEphemeralPorts' \in [Ephemeral -> Nat]
    BY <1>1, UnmarkedAs
  <2>. QED BY <1>1, <1>2, <2>1, <2>2, <2>3 DEF TypeOK
<1>5. MapsAgree'
  <2>1. \A d \in Live : d \in Conns
    BY DEF Live
  <2>2. /\ socks[c] = conn[c].sock /\ ids[c] = conn[c].connId
        /\ \A d \in Live \ {c} : socks'[d] = socks[d] /\ ids'[d] = ids[d]
    BY <1>1, <1>2, <2>1 DEF socks, ids
  <2>3. Agrees(tcpConnMap', socks', Live')
    BY <1>1, <1>3, <2>2, MapsAgreeBy, EraseAgrees
  <2>4. Agrees(tcpAppConnMap', ids', Live')
    BY <1>1, <1>3, <2>2, MapsAgreeBy, EraseAgrees
  <2>. QED BY <2>3, <2>4, MapsAgreeNext
<1>6. Fresh'
  BY <1>1, <1>2, <1>3 DEF Fresh, Live
<1>7. IsFiniteSet(Live')
  BY <1>3, FS_RemoveElement
<1>8. PortsAreCounted'
  <2>1. ASSUME NEW p \in Ephemeral
        PROVE  usedEphemeralPorts'[p] = Cardinality(Having(p)')
    <3>1. IsFiniteSet(Having(p)) /\ usedEphemeralPorts[p] = Cardinality(Having(p))
      BY FS_Subset DEF Having, PortsAreCounted
    <3>2. \A d \in Live \ {c} : conn'[d] = conn[d]
      BY <1>2 DEF Live
    <3>3. Having(p)' = Having(p) \ {c}
      BY <1>3, <3>2 DEF Having
    <3>4. CASE conn[c].sock.localPort = p
      <4>1. c \in Having(p)
        BY <1>1, <3>4 DEF Having
      <4>2. /\ Cardinality(Having(p)') = Cardinality(Having(p)) - 1
            /\ Cardinality(Having(p)) # 0 /\ Cardinality(Having(p)) \in Nat
        BY <3>1, <3>3, <4>1, FS_RemoveElement, FS_EmptySet, FS_CardinalityType
      <4>3. usedEphemeralPorts[p] > 0
        BY <3>1, <4>2
      <4>. QED BY <1>1, <3>1, <3>4, <4>2, <4>3, UnmarkedAs
    <3>5. CASE conn[c].sock.localPort # p
      <4>1. Having(p)' = Having(p)
        BY <3>3, <3>5 DEF Having
      <4>. QED BY <1>1, <3>1, <3>5, <4>1, UnmarkedAs
    <3>. QED BY <3>4, <3>5
  <2>. QED BY <2>1 DEF PortsAreCounted, Having
<1>9. SocketsAreServed'
  <2>1. sockets' \subseteq DOMAIN tcpAppConnMap'
    BY <1>1 DEF SocketsAreServed, Erase
  <2>2. ASSUME NEW id \in servers'
        PROVE  /\ id \in servers
               /\ tcpAppConnMap'[id] = tcpAppConnMap[id]
               /\ conn'[tcpAppConnMap[id]] = conn[tcpAppConnMap[id]]
    <3>1. id \in servers /\ id \in DOMAIN tcpAppConnMap /\ id # conn[c].connId
      BY <1>1 DEF SocketsAreServed, TypeOK
    <3>2. tcpAppConnMap[id] \in Conns \ {c}
      BY <3>1, IdsFound DEF Live
    <3>. QED BY <1>1, <1>2, <3>1, <3>2 DEF Erase
  <2>. QED BY <2>1, <2>2 DEF SocketsAreServed
<1>. QED BY <1>4, <1>5, <1>6, <1>7, <1>8, <1>9

\* What changes no connection disturbs nothing.
LEMMA KeptInv ==
  ASSUME Inv, Kept
  PROVE  Inv'
<1>1. UNCHANGED <<conn, tcpConnMap, tcpAppConnMap, usedEphemeralPorts, nextId, sockets, servers>>
  BY DEF Kept, maps, apps
<1>2. Live' = Live
  BY <1>1 DEF Live
<1>3. TypeOK'
  BY <1>1 DEF Inv, TypeOK, Kept
<1>4. (MapsAgree /\ Fresh /\ IsFiniteSet(Live) /\ PortsAreCounted /\ SocketsAreServed)'
  BY <1>1, <1>2 DEF Inv, MapsAgree, Fresh, PortsAreCounted, SocketsAreServed
<1>. QED BY <1>3, <1>4 DEF Inv

\* A reset leaves what Init leaves, except for the next id
LEMMA ResetInv ==
  ASSUME Inv, Reset
  PROVE  Inv'
<1>1. Live' = {}
  BY DEF Reset, Live, Free
<1>2. TypeOK'
  BY FreeType, PortTypes DEF Inv, Reset, TypeOK
<1>3. MapsAgree' /\ Fresh' /\ SocketsAreServed'
  BY <1>1 DEF Reset, MapsAgree, Fresh, SocketsAreServed
<1>4. IsFiniteSet(Live')
  BY <1>1, FS_EmptySet
<1>5. \A p \in Ephemeral : {c \in Live' : conn'[c].sock.localPort = p} = {}
  BY <1>1
<1>6. PortsAreCounted'
  BY <1>5, FS_EmptySet DEF Reset, PortsAreCounted
<1>. QED BY <1>2, <1>3, <1>4, <1>6 DEF Inv


-----------------------------------------------------------------------------
(* Commands *)

\* A set of naturals has a least element: the minimum of a search is found
LEMMA LeastElement ==
  ASSUME NEW T, T \subseteq Nat, T # {}
  PROVE  \E n \in T : \A m \in T : n <= m
<1>1. PICK n \in T : \A m \in T : ~ (<<m, n>> \in OpToRel(<, Nat))
  BY NatLessThanWellFounded, WFMin
<1>2. \A m \in T : m \in Nat /\ n \in Nat
  OBVIOUS
<1>3. \A m \in T : m < n => <<m, n>> \in OpToRel(<, Nat)
  BY <1>2 DEF OpToRel
<1>4. \A m \in T : ~ (m < n)
  BY <1>1, <1>3, Zenon
<1>5. \A m \in T : n <= m
  BY <1>2, <1>4
<1>. QED BY <1>5

\* The search for a port, which wraps, ends in the range.
LEMMA EphemeralPortType ==
  ASSUME TypeOK, Unused # {}
  PROVE  EphemeralPort \in Ephemeral
<1> DEFINE s == EPHEMERAL_PORTRANGE_START
           e == EPHEMERAL_PORTRANGE_END
           n == CHOOSE n \in Unused : \A m \in Unused : n <= m
           k == lastEphemeralPort - s + n
<1>1. s \in Nat /\ e \in Nat /\ s < e
  BY DemuxAssumption
<1>2. Ephemeral = s .. (e - 1) /\ Unused \subseteq 1..(e - s)
  BY DEF Ephemeral, Unused
<1>3. n \in Unused
  <2>1. Unused \subseteq Nat
    BY <1>1, <1>2
  <2>. QED BY <2>1, LeastElement
<1>4. EphemeralPort = s + (k % (e - s))
  BY DEF EphemeralPort, Nth
<1>5. lastEphemeralPort \in Ephemeral
  BY DEF TypeOK
<1> HIDE DEF s, e, n
<1>6. k \in Nat /\ e - s \in Nat /\ e - s > 0
  BY <1>1, <1>2, <1>3, <1>5
<1>7. k % (e - s) \in 0 .. (e - s - 1)
  BY <1>6
<1>8. s + (k % (e - s)) \in s .. (e - 1)
  BY <1>1, <1>7
<1>. QED BY <1>2, <1>4, <1>8

\* The connection a command makes is well-formed.
LEMMA OpenedType ==
  ASSUME TypeOK, NEW state \in States, NEW localAddr \in LocalAddr \cup {Unspecified},
         NEW remote \in Remote \cup {Blank}, NEW localPort \in Port, NEW fork \in BOOLEAN
  PROVE  LET new == Opened(state, localAddr, remote, localPort, fork)
         IN /\ new \in Connection /\ new.state = state /\ new.connId = nextId
            /\ new.fork = fork /\ new.sock.remote = remote
  BY DEF Opened, Connection, SockPair, TypeOK

\* A command creates a connection or stops with an error.
LEMMA OpenIs ==
  ASSUME Inv, NEW c \in Conns, NEW new \in Connection, Open(c, new),
         new.state # "FREE", new.connId = nextId,
         lastEphemeralPort' \in Ephemeral,
         \/ UNCHANGED servers
         \/ /\ servers' = IF failed' = None THEN servers \cup {nextId} ELSE servers
            /\ new.state = "LISTEN" /\ new.fork /\ new.sock.remote = Blank
  PROVE  Added(c, new) \/ Kept
<1>1. CASE new.sock \in DOMAIN tcpConnMap /\ Error("in use")
  <2>1. failed' = "in use" /\ "in use" # None /\ UNCHANGED <<maps, isOperational, nextId, sockets>>
    BY <1>1, DemuxAssumption DEF Error
  <2>2. UNCHANGED servers
    BY <2>1
  <2>. QED BY <2>1, <2>2 DEF Kept, apps, Inv, TypeOK
<1>2. CASE /\ AddSockPair(c, new)
           /\ nextId' = nextId + 1
           /\ sockets' = sockets \cup {nextId}
           /\ UNCHANGED <<isOperational, failed>>
  <2>1. failed = None /\ failed' = None /\ conn[c].state = "FREE"
    BY <1>2 DEF Open, Running
  <2>2. /\ servers \subseteq servers' /\ servers' \subseteq servers \cup {nextId}
        /\ \/ servers' = servers
           \/ new.state = "LISTEN" /\ new.fork /\ new.sock.remote = Blank
    <3>1. CASE servers' = servers
      BY <3>1
    <3>2. CASE servers' # servers
      <4>1. servers' = servers \cup {nextId}
        BY <2>1, <3>2
      <4>. QED BY <3>2, <4>1
    <3>. QED BY <3>1, <3>2
  <2>3. nextId \notin servers
    BY IdsFound DEF Inv, TypeOK, SocketsAreServed
  <2>. QED BY <1>2, <2>1, <2>2, <2>3 DEF Added
<1>. QED BY <1>1, <1>2 DEF Open


\* The three ways to open keep the invariant.
LEMMA CommandInv ==
  ASSUME Inv, NEW c \in Conns, NEW localAddr \in LocalAddr \cup {Unspecified}
  PROVE  /\ \A r \in Remote : OpenActiveEphemeral(c, localAddr, r) => Inv'
         /\ \A r \in Remote, p \in ServerPort : OpenActive(c, localAddr, r, p) => Inv'
         /\ \A p \in ServerPort, fork \in BOOLEAN : OpenPassive(c, localAddr, p, fork) => Inv'
<1> USE DEF Inv
<1>1. ASSUME NEW r \in Remote, OpenActiveEphemeral(c, localAddr, r)
      PROVE  Inv'
  <2> DEFINE new == Opened("SYN_SENT", localAddr, r, EphemeralPort, FALSE)
  <2>1. CASE Unused = {} /\ Error("exhausted") /\ UNCHANGED <<lastEphemeralPort, servers>>
    <3>1. Kept
      BY <2>1 DEF Error, Kept, apps, TypeOK
    <3>. QED BY <3>1, KeptInv
  <2>2. CASE /\ Unused # {} /\ Open(c, new)
             /\ lastEphemeralPort' = EphemeralPort /\ UNCHANGED servers
    <3>1. EphemeralPort \in Ephemeral /\ EphemeralPort \in Port
      BY <2>2, EphemeralPortType, PortTypes
    <3>2. new \in Connection /\ new.state = "SYN_SENT" /\ new.connId = nextId
      BY <3>1 DEF Opened, Connection, SockPair, States, TypeOK
    <3> HIDE DEF new
    <3>3. Added(c, new) \/ Kept
      BY <2>2, <3>1, <3>2, OpenIs
    <3>. QED BY <3>3, AddedInv, KeptInv
  <2>. QED BY <1>1, <2>1, <2>2 DEF OpenActiveEphemeral
<1>2. ASSUME NEW r \in Remote, NEW p \in ServerPort, OpenActive(c, localAddr, r, p)
      PROVE  Inv'
  <2> DEFINE new == Opened("SYN_SENT", localAddr, r, p, FALSE)
  <2>1. new \in Connection /\ new.state = "SYN_SENT" /\ new.connId = nextId
    <3>1. p \in Port
      BY DEF Port
    <3>. QED BY <3>1 DEF Opened, Connection, SockPair, States, TypeOK
  <2>2. Open(c, new) /\ UNCHANGED <<lastEphemeralPort, servers>>
    BY <1>2 DEF OpenActive
  <2> HIDE DEF new
  <2>3. Added(c, new) \/ Kept
    BY <2>1, <2>2, OpenIs DEF TypeOK
  <2>. QED BY <2>3, AddedInv, KeptInv
<1>3. ASSUME NEW p \in ServerPort, NEW fork \in BOOLEAN, OpenPassive(c, localAddr, p, fork)
      PROVE  Inv'
  <2> DEFINE new == Opened("LISTEN", localAddr, Blank, p, fork)
  <2>1. /\ new \in Connection /\ new.state = "LISTEN" /\ new.connId = nextId
        /\ new.fork = fork /\ new.sock.remote = Blank
    <3>1. p \in Port
      BY DEF Port
    <3>. QED BY <3>1, OpenedType DEF States
  <2>2. /\ Open(c, new) /\ UNCHANGED lastEphemeralPort
        /\ servers' = IF fork /\ failed' = None THEN servers \cup {nextId} ELSE servers
    BY <1>3 DEF OpenPassive
  <2> HIDE DEF new
  <2>3. Added(c, new) \/ Kept
    BY <2>1, <2>2, OpenIs DEF TypeOK
  <2>. QED BY <2>3, AddedInv, KeptInv
<1>. QED BY <1>1, <1>2, <1>3

\* A connection that is not listening, or does not fork, is no server
LEMMA NotServer ==
  ASSUME Inv, NEW c \in Live, conn[c].state # "LISTEN" \/ ~ conn[c].fork
  PROVE  conn[c].connId \notin servers
<1>1. tcpAppConnMap[conn[c].connId] = c
  BY DEF Inv, MapsAgree
<1>. QED BY <1>1 DEF Inv, SocketsAreServed

\* A connection in another state is well-formed.
LEMMA WithState ==
  ASSUME TypeOK, NEW c \in Conns, NEW state \in States
  PROVE  LET new == [conn[c] EXCEPT !.state = state]
         IN /\ new \in Connection /\ new.state = state
            /\ new.connId = conn[c].connId /\ new.sock = conn[c].sock
<1>1. conn[c] \in Connection
  BY DEF TypeOK
<1>. QED BY <1>1 DEF Connection

\* A connection changes its state, and perhaps the application learns of it
LEMMA StateInv ==
  ASSUME Inv, NEW c \in Live, conn[c].state # "LISTEN", NEW state \in States, state # "FREE",
         conn' = [conn EXCEPT ![c] = [conn[c] EXCEPT !.state = state]],
         sockets' \in {sockets, sockets \cup {conn[c].connId}},
         UNCHANGED <<tcpConnMap, tcpAppConnMap, usedEphemeralPorts, lastEphemeralPort,
                     isOperational, nextId, servers, failed>>
  PROVE  Inv'
<1> DEFINE new == [conn[c] EXCEPT !.state = state]
<1>1. c \in Conns /\ TypeOK
  BY DEF Live, Inv
<1>2. /\ new \in Connection /\ new.state = state
      /\ new.connId = conn[c].connId /\ new.sock = conn[c].sock
  BY <1>1, WithState
<1>3. conn[c].connId \notin servers
  BY NotServer
<1>4. conn' = [conn EXCEPT ![c] = new]
  OBVIOUS
<1> HIDE DEF new
<1>5. Changed(c, new)
  BY <1>2, <1>3, <1>4 DEF Changed
<1>. QED BY <1>5, ChangedInv

\* CLOSE and ABORT keep the invariant.
LEMMA SocketInv ==
  ASSUME Inv, NEW id \in sockets
  PROVE  (Close(id) => Inv') /\ (Abort(id) => Inv')
<1> DEFINE c == tcpAppConnMap[id]
<1>1. c \in Live /\ conn[c].connId = id
  BY IdsFound DEF Inv, SocketsAreServed
<1>2. ASSUME RemoveConnection(c)
      PROVE  Inv'
  BY <1>1, <1>2, RemovedInv DEF Removed
<1>3. ASSUME Close(id), ~ RemoveConnection(c)
      PROVE  Inv'
  <2>1. /\ conn[c].state \in {"SYN_RCVD", "CONNECTED"}
        /\ conn' = [conn EXCEPT ![c] = [conn[c] EXCEPT !.state = "CLOSING"]]
        /\ UNCHANGED <<tcpConnMap, tcpAppConnMap, usedEphemeralPorts, lastEphemeralPort,
                       isOperational, nextId, apps, failed>>
    BY <1>3 DEF Close
  <2>2. UNCHANGED <<sockets, servers>>
    BY <2>1 DEF apps
  <2> HIDE DEF c
  <2>. QED BY <1>1, <2>1, <2>2, StateInv DEF States
<1>4. Abort(id) => RemoveConnection(c)
  BY DEF Abort
<1>. QED BY <1>2, <1>3, <1>4

-----------------------------------------------------------------------------
(* Segments and timers *)

\* The connection a segment leaves is well-formed, under either id.
LEMMA ReceivedType ==
  ASSUME TypeOK, NEW c \in Conns, NEW seg \in Segment, NEW state \in States
  PROVE  LET new == Received(c, seg, state)
         IN /\ new \in Connection /\ new.state = state
            /\ new.connId = conn[c].connId /\ new.sock = Full(seg)
            /\ [new EXCEPT !.connId = nextId] \in Connection
            /\ [new EXCEPT !.connId = nextId].connId = nextId
            /\ [new EXCEPT !.connId = nextId].sock = Full(seg)
            /\ [new EXCEPT !.connId = nextId].state = state
<1>1. conn[c] \in Connection /\ nextId \in Nat
  BY DEF TypeOK
<1>2. Full(seg) \in SockPair
  BY DEF Full, SockPair, Segment
<1>. QED BY <1>1, <1>2 DEF Received, Connection

\* updateSockPair(): the socket pair of the segment is free, or the connection has it
LEMMA UpdatedInv ==
  ASSUME Inv, NEW seg \in Segment, NEW c, c = FindConnForSegment(seg), c # None,
         conn[c].state # "LISTEN" \/ ~ conn[c].fork,
         NEW state \in States, state # "FREE", UpdateSockPair(c, Received(c, seg, state)),
         UNCHANGED <<lastEphemeralPort, isOperational, nextId, apps, failed>>
  PROVE  Inv'
<1> DEFINE new == Received(c, seg, state)
<1>1. /\ c \in Live /\ conn[c].sock.localPort = seg.destPort
      /\ Full(seg) \notin DOMAIN tcpConnMap \/ Full(seg) = conn[c].sock
  BY FindsMostSpecific DEF Inv
<1>2. /\ new \in Connection /\ new.state = state
      /\ new.connId = conn[c].connId /\ new.sock = Full(seg)
  BY <1>1, ReceivedType DEF Inv, Live
<1>3. conn[c].connId \notin servers
  BY <1>1, NotServer
<1>4. Full(seg).localPort = seg.destPort
  BY DEF Full
<1>5. /\ conn' = [conn EXCEPT ![c] = new]
      /\ tcpConnMap' = Put(Erase(tcpConnMap, conn[c].sock), new.sock, c)
      /\ UNCHANGED <<tcpAppConnMap, usedEphemeralPorts>>
  BY DEF UpdateSockPair
<1> HIDE DEF new
<1>6. Changed(c, new)
  BY <1>1, <1>2, <1>3, <1>4, <1>5 DEF Changed, apps
<1>. QED BY <1>6, ChangedInv

\* The clone of a listener is a listener with the same id and port, open to every peer.
LEMMA CloneType ==
  ASSUME TypeOK, NEW c \in Conns
  PROVE  /\ Clone(c) \in Connection /\ Clone(c).state = "LISTEN" /\ Clone(c).fork
         /\ Clone(c).connId = conn[c].connId /\ Clone(c).sock.remote = Blank
         /\ Clone(c).sock.localPort = conn[c].sock.localPort
<1> DEFINE sock == [conn[c].sock EXCEPT !.remote = Blank]
<1>1. conn[c].sock \in SockPair /\ conn[c].connId \in Nat
  BY LiveTypes
<1>2. sock \in SockPair /\ sock.remote = Blank /\ sock.localPort = conn[c].sock.localPort
  BY <1>1 DEF SockPair
<1> HIDE DEF sock
<1>3. Clone(c) = [Free EXCEPT !.state = "LISTEN", !.fork = TRUE, !.connId = conn[c].connId,
                              !.sock = sock]
  BY DEF Clone, sock
<1>. QED BY <1>1, <1>2, <1>3, FreeType DEF Connection, States

\* A SYN at a forking listener keeps the invariant.
LEMMA SynForksInv ==
  ASSUME Inv, NEW seg \in Segment, NEW c, c = FindConnForSegment(seg), c # None,
         NEW free \in Conns, SynForks(c, free, seg)
  PROVE  Inv'
<1> DEFINE new == [Received(c, seg, "SYN_RCVD") EXCEPT !.connId = nextId]
           clone == Clone(c)
<1>1. /\ c \in Live /\ c \in Conns /\ conn[c].sock.localPort = seg.destPort
      /\ Full(seg) \notin DOMAIN tcpConnMap \/ Full(seg) = conn[c].sock
      /\ TypeOK
  BY FindsMostSpecific DEF Inv, Live
<1>2. CASE Error("in use") /\ UNCHANGED <<lastEphemeralPort, servers>>
  <2>1. Kept
    BY <1>1, <1>2 DEF Error, Kept, apps, TypeOK
  <2>. QED BY <2>1, KeptInv
<1>3. CASE /\ AddForkedConnection(c, free, new, clone)
           /\ nextId' = nextId + 1
           /\ UNCHANGED <<lastEphemeralPort, isOperational, apps, failed>>
  <2>1. new \in Connection /\ new.state = "SYN_RCVD" /\ new.connId = nextId /\ new.sock = Full(seg)
    <3>1. "SYN_RCVD" \in States
      BY DEF States
    <3>. QED BY <1>1, <3>1, ReceivedType
  <2>2. /\ clone \in Connection /\ clone.state = "LISTEN" /\ clone.fork
        /\ clone.connId = conn[c].connId /\ clone.sock.remote = Blank
        /\ clone.sock.localPort = conn[c].sock.localPort
    BY <1>1, CloneType
  <2>3. Full(seg).localPort = seg.destPort
    BY DEF Full
  <2>4. conn[free].state = "FREE"
    BY DEF SynForks
  <2> HIDE DEF new, clone
  <2>5. Forked(c, free, new, clone)
    BY <1>1, <1>3, <2>1, <2>2, <2>3, <2>4 DEF Forked
  <2>. QED BY <2>5, ForkedInv
<1>. QED BY <1>2, <1>3 DEF SynForks

\* So does a refused handshake, which may lead back to LISTEN,
LEMMA RefusedInv ==
  ASSUME Inv, NEW c \in Live, conn[c].state = "SYN_RCVD", Refused(c)
  PROVE  Inv'
<1>1. CASE RemoveConnection(c)
  BY <1>1, RemovedInv DEF Removed
<1>2. CASE ~ RemoveConnection(c)
  <2>1. /\ conn' = [conn EXCEPT ![c] = [conn[c] EXCEPT !.state = "LISTEN"]]
        /\ UNCHANGED <<tcpConnMap, tcpAppConnMap, usedEphemeralPorts, lastEphemeralPort,
                       isOperational, nextId, apps, failed>>
    BY <1>2 DEF Refused
  <2>. QED BY <2>1, StateInv DEF States, apps
<1>. QED BY <1>1, <1>2

\* every other segment,
LEMMA SegmentInv ==
  ASSUME Inv, NEW seg \in Segment, NEW c, c = FindConnForSegment(seg), c # None
  PROVE  /\ SynInListen(c, seg) => Inv'
         /\ SegmentInSynSent(c, seg) => Inv'
         /\ SegmentInSynRcvd(c, seg) => Inv'
         /\ SegmentEnds(c, seg) => Inv'
<1>1. c \in Live
  BY FindsMostSpecific DEF Inv
<1>2. RemoveConnection(c) => Inv'
  BY <1>1, RemovedInv DEF Removed
<1>3. ASSUME SynInListen(c, seg)
      PROVE  Inv'
  BY <1>3, UpdatedInv DEF SynInListen, States
<1>4. ASSUME SegmentInSynSent(c, seg)
      PROVE  Inv'
  <2>1. \/ UpdateSockPair(c, Received(c, seg, "SYN_RCVD"))
        \/ UpdateSockPair(c, Received(c, seg, "CONNECTED"))
        \/ RemoveConnection(c)
    BY <1>4 DEF SegmentInSynSent
  <2>2. CASE /\ UpdateSockPair(c, Received(c, seg, "SYN_RCVD"))
             /\ UNCHANGED <<lastEphemeralPort, isOperational, nextId, apps, failed>>
    BY <1>4, <2>2, UpdatedInv DEF SegmentInSynSent, States
  <2>3. CASE /\ UpdateSockPair(c, Received(c, seg, "CONNECTED"))
             /\ UNCHANGED <<lastEphemeralPort, isOperational, nextId, apps, failed>>
    BY <1>4, <2>3, UpdatedInv DEF SegmentInSynSent, States
  <2>. QED BY <1>2, <1>4, <2>2, <2>3 DEF SegmentInSynSent
<1>5. ASSUME SegmentInSynRcvd(c, seg)
      PROVE  Inv'
  <2>1. conn[c].state = "SYN_RCVD"
    BY <1>5 DEF SegmentInSynRcvd
  <2>2. CASE Refused(c)
    BY <1>1, <2>1, <2>2, RefusedInv
  <2>3. CASE /\ conn' = [conn EXCEPT ![c] = [conn[c] EXCEPT !.state = "CONNECTED"]]
             /\ sockets' = sockets \cup {conn[c].connId}
             /\ UNCHANGED <<tcpConnMap, tcpAppConnMap, usedEphemeralPorts, lastEphemeralPort,
                            isOperational, nextId, servers, failed>>
    BY <1>1, <2>1, <2>3, StateInv DEF States
  <2>. QED BY <1>2, <1>5, <2>2, <2>3 DEF SegmentInSynRcvd
<1>6. SegmentEnds(c, seg) => RemoveConnection(c)
  BY DEF SegmentEnds
<1>. QED BY <1>2, <1>3, <1>4, <1>5, <1>6

\* and every timer.
LEMMA TimerInv ==
  ASSUME Inv, NEW c \in Conns
  PROVE  (TimeoutConnEstab(c) => Inv') /\ (Timeout(c) => Inv')
<1>1. ASSUME RemoveConnection(c), conn[c].state # "FREE"
      PROVE  Inv'
  BY <1>1, RemovedInv DEF Removed, Live
<1>2. ASSUME conn[c].state = "SYN_RCVD", Refused(c)
      PROVE  Inv'
  BY <1>2, RefusedInv DEF Live
<1>. QED BY <1>1, <1>2 DEF TimeoutConnEstab, Timeout

\* Every action keeps the invariant.
LEMMA InvStep == Inv /\ [Next]_vars => Inv'
<1> SUFFICES ASSUME Inv, [Next]_vars
             PROVE  Inv'
  OBVIOUS
<1>1. CASE \E c \in Conns, a \in LocalAddr \cup {Unspecified} :
             \/ \E r \in Remote : OpenActiveEphemeral(c, a, r)
             \/ \E r \in Remote, p \in ServerPort : OpenActive(c, a, r, p)
             \/ \E p \in ServerPort, fork \in BOOLEAN : OpenPassive(c, a, p, fork)
  BY <1>1, CommandInv
<1>2. CASE \E id \in sockets : Close(id) \/ Abort(id)
  BY <1>2, SocketInv
<1>3. CASE \E seg \in Segment : \E c \in {FindConnForSegment(seg)} \ {None} :
             \/ SynInListen(c, seg) \/ \E free \in Conns : SynForks(c, free, seg)
             \/ SegmentInSynSent(c, seg) \/ SegmentInSynRcvd(c, seg) \/ SegmentEnds(c, seg)
  BY <1>3, SegmentInv, SynForksInv
<1>4. CASE \E c \in Conns : TimeoutConnEstab(c) \/ Timeout(c)
  BY <1>4, TimerInv
<1>5. CASE Reset
  BY <1>5, ResetInv
<1>6. CASE Start \/ UNCHANGED vars
  <2>1. Kept
    BY <1>6 DEF Start, vars, maps, apps, Kept, Inv, TypeOK
  <2>. QED BY <2>1, KeptInv
<1>. QED BY <1>1, <1>2, <1>3, <1>4, <1>5, <1>6 DEF Next

\* Connections, maps, ports and ids have their types: for any number of connections and ports.
THEOREM TypeCorrect == Spec => []TypeOK
<1>1. Inv => TypeOK
  BY DEF Inv
<1>. QED BY InvInit, InvStep, <1>1, PTL DEF Spec

\* Both maps hold exactly the live connections, each under its own key, although updateSockPair()
\* and addForkedConnection() overwrite entries without looking.
THEOREM MapsAlwaysAgree == Spec => []MapsAgree
<1>1. Inv => MapsAgree
  BY DEF Inv
<1>. QED BY InvInit, InvStep, <1>1, PTL DEF Spec

\* A port is in the multiset as often as live connections have it.
THEOREM PortsAlwaysCounted == Spec => []PortsAreCounted
<1>1. Inv => PortsAreCounted
  BY DEF Inv
<1>. QED BY InvInit, InvStep, <1>1, PTL DEF Spec

\* Every id an application may use finds a connection, a server that was not closed listens.
THEOREM SocketsAlwaysServed == Spec => []SocketsAreServed
<1>1. Inv => SocketsAreServed
  BY DEF Inv
<1>. QED BY InvInit, InvStep, <1>1, PTL DEF Spec

=============================================================================
