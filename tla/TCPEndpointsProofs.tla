------------------------- MODULE TCPEndpointsProofs --------------------------
(***************************************************************************)
(* What holds of TCPEndpoints.tla for every value of its constants: any    *)
(* quota and window, any number of openings, losses, duplicates, crashes.  *)
(* The induction is on one connection at a time: ConnInv holds of each end *)
(* whatever the network holds, because every handler keeps it, whatever    *)
(* the segment that calls it.                                              *)
(***************************************************************************)
EXTENDS TCPEndpoints, TCPHandlerProofs

\* The inductive invariant.
IInv == TypeOK /\ \A e \in Ends : ConnInv(conn[e])

\* What a step does to the two connections and to the network.
Preserved ==
  /\ conn' \in [Ends -> Conn] /\ net' \in [Ends -> SUBSET Segment]
  /\ \A e \in Ends : ConnInv(conn'[e])
  /\ \A e \in Ends : Keeps(conn[e], conn'[e])
  /\ \A e \in Ends : "command" \in conn'[e].failed =>
                        conn[e].app.closed \/ "command" \in conn[e].failed

-----------------------------------------------------------------------------
(* One step of one end *)

\* The other end is an end.
LEMMA PeerType ==
  ASSUME NEW e \in Ends
  PROVE  Peer(e) \in Ends
BY DEF Peer, Ends

\* A connection that does not change keeps everything.
LEMMA KeepsItself ==
  ASSUME NEW c \in Conn
  PROVE  Keeps(c, c)
BY DEF Keeps, Conn

\* A new connection object, for a socket or after a crash.
LEMMA ReopenedNew ==
  ASSUME NEW c \in Conn
  PROVE  /\ Reopened(c) \in Conn /\ ConnInv(Reopened(c))
         /\ Reopened(c).iss # c.iss /\ Reopened(c).fsm = "INIT" /\ Reopened(c).timers = {}
         /\ Reopened(c).send_fin = FALSE /\ Reopened(c).failed = {}
<1> DEFINE d == Reopened(c)
<1>1. FreshConn \in Conn
  BY ConnectionAssumption DEF FreshConn, Conn, FreshApp, App, States, SockStates, Errors, Events
<1>2. c.iss + IssStep \in Nat /\ c.iss + IssStep # c.iss
  BY ConnectionAssumption DEF Conn
<1>3. d \in Conn
  BY <1>1, <1>2 DEF Reopened, Conn
<1>4. /\ d.fsm = "INIT" /\ d.timers = {} /\ d.event = "IGNORE" /\ d.out = {}
      /\ d.send_fin = FALSE /\ d.failed = {} /\ d.app = FreshApp /\ d.iss = c.iss + IssStep
  BY DEF Reopened, FreshConn
<1>5. FreshApp.sock = "NOT_BOUND"
  BY DEF FreshApp
<1> HIDE DEF d
<1>6. ConnInv(d)
  BY <1>4, <1>5 DEF ConnInv, HandshakeTimed, SocketMatches, SocketFits, SentIsQueued, Embryonic,
                    Synchronized
<1> QED
  BY <1>2, <1>3, <1>4, <1>6 DEF d

\* The state machine runs, and the segments leave.
LEMMA HandleReady ==
  ASSUME IInv, NEW e \in Ends, NEW d \in Conn, Ready(d), NEW used, Handle(e, d, used),
         "command" \in d.failed => conn[e].app.closed \/ "command" \in conn[e].failed,
         conn[e].fsm \in Synchronized =>
           /\ conn[e].rcv_nxt <= d.rcv_nxt /\ conn[e].snd_una <= d.snd_una
           /\ conn[e].snd_max <= d.snd_max /\ conn[e].q_end <= d.q_end
  PROVE  Preserved
<1> DEFINE r == PerformStateTransition(d)
           q == [r EXCEPT !.out = {}]
<1>1. /\ r \in Conn /\ q \in Conn /\ ConnInv(q) /\ q.failed = d.failed
      /\ q.fsm # "CLOSED" => SameStreams(d, q)
  BY TransitionInv
<1>2. /\ conn' = [conn EXCEPT ![e] = q]
      /\ net' = [net EXCEPT ![e] = @ \ used, ![Peer(e)] = @ \cup r.out]
  BY DEF Handle, Settled
<1>3. r.out \in SUBSET Segment
  BY <1>1 DEF Conn
<1> HIDE DEF q, r
<1>4. conn \in [Ends -> Conn] /\ net \in [Ends -> SUBSET Segment]
  BY DEF IInv, TypeOK
<1>5. conn' \in [Ends -> Conn] /\ conn'[e] = q /\ \A f \in Ends \ {e} : conn'[f] = conn[f]
  BY <1>1, <1>2, <1>4
<1>6. net' \in [Ends -> SUBSET Segment]
  BY <1>2, <1>3, <1>4, PeerType
<1>7. \A f \in Ends : ConnInv(conn'[f])
  BY <1>1, <1>5 DEF IInv
<1>8. Keeps(conn[e], q)
  BY <1>1 DEF Keeps, SameStreams
<1>9. \A f \in Ends : Keeps(conn[f], conn'[f])
  BY <1>4, <1>5, <1>8, KeepsItself
<1> QED
  BY <1>1, <1>5, <1>6, <1>7, <1>9 DEF Preserved

\* A handler of a connection that differs from that of the end by what the application has
\* just noted.
LEMMA HandleStep ==
  ASSUME IInv, NEW e \in Ends, NEW c \in Conn, SameStreams(conn[e], c), c.fsm = conn[e].fsm,
         c.failed = conn[e].failed, NEW d, Handled(c, d), NEW used, Handle(e, d, used)
  PROVE  Preserved
<1>1. d \in Conn /\ Ready(d) /\ ("command" \in d.failed => "command" \in conn[e].failed)
  BY DEF Handled
<1>2. conn[e].fsm \in Synchronized =>
        /\ conn[e].rcv_nxt <= d.rcv_nxt /\ conn[e].snd_una <= d.snd_una
        /\ conn[e].snd_max <= d.snd_max /\ conn[e].q_end <= d.q_end
  BY DEF Handled, SameStreams
<1> QED
  BY <1>1, <1>2, HandleReady

\* A command that is refused, to an application that has closed before.
LEMMA RefusedStep ==
  ASSUME IInv, NEW e \in Ends, conn[e].app.closed, NEW c \in Conn, ConnInv(c),
         SameStreams(conn[e], c), Handle(e, Fail(c, "command"), {})
  PROVE  Preserved
<1> DEFINE d == Fail(c, "command")
<1>1. d \in Conn /\ Ready(d) /\ SameStreams(c, d)
  BY RefusedReady
<1>2. conn[e] \in Conn
  BY DEF IInv, TypeOK
<1> HIDE DEF d
<1>3. /\ conn[e].rcv_nxt <= d.rcv_nxt /\ conn[e].snd_una <= d.snd_una
      /\ conn[e].snd_max <= d.snd_max /\ conn[e].q_end <= d.q_end
  BY <1>1, <1>2 DEF SameStreams, Conn
<1> QED
  BY <1>1, <1>3, HandleReady DEF d

-----------------------------------------------------------------------------
(* The actions *)

\* What the application notes about its socket leaves the connection well, as long as it is
\* a legal value of the socket or close() has been called.
LEMMA NotedFacts ==
  ASSUME NEW c \in Conn, ConnInv(c), NEW a \in App,
         c.app.closed => a.closed,
         \/ a.closed
         \/ a.sock = c.app.sock
         \/ a.sock = "CLOSED",
         NEW d, d = [c EXCEPT !.app = a]
  PROVE  /\ d \in Conn /\ ConnInv(d) /\ SameStreams(c, d) /\ d.fsm = c.fsm /\ d.app = a
         /\ d.failed = c.failed
<1>1. d \in Conn
  BY DEF Conn
<1>2. /\ SameStreams(c, d) /\ d.fsm = c.fsm /\ d.app = a /\ d.active = c.active
      /\ d.send_fin = c.send_fin /\ d.timers = c.timers /\ d.failed = c.failed
      /\ d.event = c.event /\ d.out = c.out
  BY <1>1 DEF Conn, SameStreams
<1>3. SocketMatches(d)
  BY <1>2 DEF ConnInv, SocketMatches, SocketFits
<1> QED
  BY <1>1, <1>2, <1>3 DEF ConnInv, HandshakeTimed, SentIsQueued, SentInOrder, SameStreams

\* The constants of the two openings: what a fresh connection needs.
LEMMA OpenedNew ==
  ASSUME NEW c \in Conn, NEW sock \in SockStates, NEW d, d = [Reopened(c) EXCEPT !.app.sock = sock]
  PROVE  New(d, sock)
<1> DEFINE b == Reopened(c)
           a == [b.app EXCEPT !.sock = sock]
<1>1. b \in Conn /\ b.fsm = "INIT" /\ b.timers = {} /\ b.send_fin = FALSE /\ b.failed = {}
  BY ReopenedNew
<1> HIDE DEF b
<1>2. a \in App /\ a.sock = sock
  <2>1. b.app \in App
    BY <1>1 DEF Conn
  <2> QED
    BY <2>1 DEF App
<1>3. d = [b EXCEPT !.app = a]
  BY <1>1 DEF Conn, App, b
<1> HIDE DEF a
<1>4. d \in Conn
  BY <1>1, <1>2, <1>3 DEF Conn
<1> QED
  BY <1>1, <1>2, <1>3, <1>4 DEF New, Conn

\* connect().
LEMMA ConnectStep ==
  ASSUME IInv, NEW e \in Ends, Connect(e)
  PROVE  Preserved
<1> DEFINE c == [Reopened(conn[e]) EXCEPT !.app.sock = "CONNECTING"]
<1>1. conn[e] \in Conn /\ "CONNECTING" \in SockStates
  BY DEF IInv, TypeOK, SockStates
<1>2. New(c, "CONNECTING")
  BY <1>1, OpenedNew
<1>3. conn[e].fsm \notin Synchronized /\ Handle(e, ProcessOpenActive(c), {})
  BY DEF Connect, Open, NewConn, Command, Synchronized
<1> HIDE DEF c
<1>4. /\ ProcessOpenActive(c) \in Conn /\ Ready(ProcessOpenActive(c))
      /\ ProcessOpenActive(c).failed = {}
  BY <1>2, OpenActiveReady
<1> QED
  BY <1>3, <1>4, HandleReady

\* listen().
LEMMA ListenStep ==
  ASSUME IInv, NEW e \in Ends, Listen(e)
  PROVE  Preserved
<1> DEFINE c == [Reopened(conn[e]) EXCEPT !.app.sock = "LISTENING"]
<1>1. conn[e] \in Conn /\ "LISTENING" \in SockStates
  BY DEF IInv, TypeOK, SockStates
<1>2. New(c, "LISTENING")
  BY <1>1, OpenedNew
<1>3. conn[e].fsm \notin Synchronized /\ Handle(e, ProcessOpenPassive(c), {})
  BY DEF Listen, Open, NewConn, Command, Synchronized
<1> HIDE DEF c
<1>4. /\ ProcessOpenPassive(c) \in Conn /\ Ready(ProcessOpenPassive(c))
      /\ ProcessOpenPassive(c).failed = {}
  BY <1>2, OpenPassiveReady
<1> QED
  BY <1>3, <1>4, HandleReady

\* send().
LEMMA SendStep ==
  ASSUME IInv, NEW e \in Ends, Send(e)
  PROVE  Preserved
<1> DEFINE b == conn[e]
           a == [b.app EXCEPT !.wrote = @ + 1]
           c == [b EXCEPT !.app.wrote = @ + 1]
<1>1. b \in Conn /\ ConnInv(b) /\ b.app \in App
  BY DEF IInv, TypeOK, Conn
<1>2. /\ b.app.sock \in {"CONNECTED", "CONNECTING", "PEER_CLOSED"}
      /\ Handle(e, ProcessSend(c), {})
  BY DEF Send, Command
<1>3. b.app.closed \/ b.fsm \in Embryonic \cup {"ESTABLISHED", "CLOSE_WAIT"}
  BY <1>1, <1>2 DEF ConnInv, SocketMatches, SocketFits
<1> HIDE DEF b
<1>4. c = [b EXCEPT !.app = a]
  BY <1>1 DEF Conn, App
<1>5. a \in App /\ a.sock = b.app.sock /\ a.closed = b.app.closed
  BY <1>1 DEF App
<1> HIDE DEF a, c
<1>6. c \in Conn /\ ConnInv(c) /\ SameStreams(b, c) /\ c.fsm = b.fsm /\ c.failed = b.failed
  BY <1>1, <1>4, <1>5, NotedFacts
<1>7. CASE c.fsm \in Embryonic \cup {"ESTABLISHED", "CLOSE_WAIT"}
  <2>1. Handled(c, ProcessSend(c))
    BY <1>6, <1>7, SendHandled
  <2> QED
    BY <1>2, <1>6, <2>1, HandleStep DEF b
<1>8. CASE c.fsm \notin Embryonic \cup {"ESTABLISHED", "CLOSE_WAIT"}
  <2>1. ProcessSend(c) = Fail(c, "command")
    BY <1>8 DEF ProcessSend
  <2> QED
    BY <1>2, <1>3, <1>6, <1>8, <2>1, RefusedStep DEF b
<1> QED
  BY <1>7, <1>8

\* close().
LEMMA CloseStep ==
  ASSUME IInv, NEW e \in Ends, Close(e)
  PROVE  Preserved
<1> DEFINE b == conn[e]
           sock == IF b.app.sock = "CONNECTED" THEN "LOCALLY_CLOSED" ELSE "CLOSED"
           a == [b.app EXCEPT !.sock = sock, !.closed = TRUE]
           c == [b EXCEPT !.app.sock = sock, !.app.closed = TRUE]
<1>1. b \in Conn /\ ConnInv(b) /\ b.app \in App
  BY DEF IInv, TypeOK, Conn
<1>2. /\ b.app.sock \in {"CONNECTED", "PEER_CLOSED", "CONNECTING", "LISTENING"}
      /\ Handle(e, ProcessClose(c), {})
  BY DEF Close, Command
<1>3. b.app.closed \/ b.fsm \in Embryonic \cup {"LISTEN", "ESTABLISHED", "CLOSE_WAIT"}
  BY <1>1, <1>2 DEF ConnInv, SocketMatches, SocketFits, Embryonic
<1> HIDE DEF b
<1>4. sock \in SockStates
  BY DEF SockStates
<1> HIDE DEF sock
<1>5. c = [b EXCEPT !.app = a]
  BY <1>1 DEF Conn, App
<1>6. a \in App /\ a.closed = TRUE
  BY <1>1, <1>4 DEF App
<1> HIDE DEF a, c
<1>7. /\ c \in Conn /\ ConnInv(c) /\ SameStreams(b, c) /\ c.fsm = b.fsm /\ c.app.closed
      /\ c.failed = b.failed
  BY <1>1, <1>5, <1>6, NotedFacts
<1>8. CASE c.fsm \in Embryonic \cup {"LISTEN", "ESTABLISHED", "CLOSE_WAIT"}
  <2>1. Handled(c, ProcessClose(c))
    BY <1>7, <1>8, CloseHandled
  <2> QED
    BY <1>2, <1>7, <2>1, HandleStep DEF b, sock
<1>9. CASE c.fsm \notin Embryonic \cup {"LISTEN", "ESTABLISHED", "CLOSE_WAIT"}
  <2>1. ProcessClose(c) = Fail(c, "command")
    BY <1>9 DEF ProcessClose, Embryonic
  <2> QED
    BY <1>2, <1>3, <1>7, <1>9, <2>1, RefusedStep DEF b, sock
<1> QED
  BY <1>8, <1>9

\* abort().
LEMMA AbortStep ==
  ASSUME IInv, NEW e \in Ends, Abort(e)
  PROVE  Preserved
<1> DEFINE b == conn[e]
           a == [b.app EXCEPT !.sock = "CLOSED", !.aborted = TRUE]
           c == [b EXCEPT !.app.sock = "CLOSED", !.app.aborted = TRUE]
<1>1. b \in Conn /\ ConnInv(b) /\ b.app \in App
  BY DEF IInv, TypeOK, Conn
<1>2. Handle(e, ProcessAbort(c), {})
  BY DEF Abort, Command
<1> HIDE DEF b
<1>3. c = [b EXCEPT !.app = a]
  BY <1>1 DEF Conn, App
<1>4. a \in App /\ a.closed = b.app.closed /\ a.sock = "CLOSED"
  BY <1>1 DEF App, SockStates
<1> HIDE DEF a, c
<1>5. /\ c \in Conn /\ ConnInv(c) /\ SameStreams(b, c) /\ c.fsm = b.fsm /\ c.app.sock = "CLOSED"
      /\ c.failed = b.failed
  BY <1>1, <1>3, <1>4, NotedFacts
<1>6. Handled(c, ProcessAbort(c))
  BY <1>5, AbortHandled
<1> QED
  BY <1>2, <1>5, <1>6, HandleStep DEF b

\* A timer or a segment: the handler works on the connection as it is.
LEMMA EventStep ==
  ASSUME IInv, NEW e \in Ends, NEW d, Handled(conn[e], d), NEW used, Handle(e, d, used)
  PROVE  Preserved
<1>1. conn[e] \in Conn /\ SameStreams(conn[e], conn[e])
  BY DEF IInv, TypeOK, SameStreams
<1> QED
  BY <1>1, HandleStep

\* The expiry of a timer.
LEMMA TimerStepPreserves ==
  ASSUME IInv, NEW e \in Ends, TimerStep(e)
  PROVE  Preserved
<1>1. conn[e] \in Conn /\ ConnInv(conn[e])
  BY DEF IInv, TypeOK
<1>2. CASE SynRexmitTimeout(e)
  <2>1. "synRexmit" \in conn[e].timers /\ Handle(e, ProcessSynRexmitTimer(conn[e]), {})
    BY <1>2 DEF SynRexmitTimeout, Expire, Command
  <2> QED
    BY <1>1, <2>1, SynRexmitHandled, EventStep
<1>3. CASE ConnEstabTimeout(e)
  <2>1. "connEstab" \in conn[e].timers /\ Handle(e, ProcessConnEstabTimer(conn[e]), {})
    BY <1>3 DEF ConnEstabTimeout, Expire, Command
  <2> QED
    BY <1>1, <2>1, ConnEstabHandled, EventStep
<1>4. CASE RexmitTimeout(e)
  <2>1. "rexmit" \in conn[e].timers /\ Handle(e, ProcessRexmitTimer(conn[e]), {})
    BY <1>4 DEF RexmitTimeout, Expire, Command
  <2> QED
    BY <1>1, <2>1, RexmitHandled, EventStep
<1>5. CASE TwoMSLTimeout(e)
  <2>1. "2msl" \in conn[e].timers /\ Handle(e, Process2MSLTimer(conn[e]), {})
    BY <1>5 DEF TwoMSLTimeout, Expire, Command
  <2> QED
    BY <1>1, <2>1, TwoMSLHandled, EventStep
<1> QED
  BY <1>2, <1>3, <1>4, <1>5 DEF TimerStep

\* A step that leaves the connections alone and takes a segment off the network, or nothing.
LEMMA IdleStep ==
  ASSUME IInv, conn' = conn, NEW e \in Ends, NEW s,
         net' = net \/ net' = [net EXCEPT ![e] = @ \ {s}]
  PROVE  Preserved
<1>1. conn \in [Ends -> Conn] /\ net \in [Ends -> SUBSET Segment] /\ \A f \in Ends : ConnInv(conn[f])
  BY DEF IInv, TypeOK
<1>2. net' \in [Ends -> SUBSET Segment]
  BY <1>1
<1>3. \A f \in Ends : Keeps(conn[f], conn[f])
  BY <1>1, KeepsItself
<1> QED
  BY <1>1, <1>2, <1>3 DEF Preserved

\* What the network does.
LEMMA NetworkStepPreserves ==
  ASSUME IInv, NEW e \in Ends, NEW s \in net[e],
         Deliver(e, s) \/ Duplicate(e, s) \/ Lose(e, s) \/ Drop(e, s)
  PROVE  Preserved
<1>1. conn[e] \in Conn /\ ConnInv(conn[e]) /\ s \in Segment
  BY DEF IInv, TypeOK
<1>2. Handled(conn[e], ProcessSegment(conn[e], s))
  BY <1>1, SegmentHandled
<1>3. CASE Deliver(e, s)
  BY <1>2, <1>3, EventStep DEF Deliver
<1>4. CASE Duplicate(e, s)
  BY <1>2, <1>4, EventStep DEF Duplicate
<1>5. CASE Lose(e, s)
  BY <1>5, IdleStep DEF Lose
<1>6. CASE Drop(e, s)
  BY <1>6, IdleStep DEF Drop
<1> QED
  BY <1>3, <1>4, <1>5, <1>6

\* The crash and the restart of a node.
LEMMA NodeStepPreserves ==
  ASSUME IInv, NEW e \in Ends, NodeStep(e)
  PROVE  Preserved
<1>1. conn \in [Ends -> Conn] /\ net \in [Ends -> SUBSET Segment] /\ \A f \in Ends : ConnInv(conn[f])
  BY DEF IInv, TypeOK
<1>2. CASE Crash(e)
  <2> DEFINE q == Reopened(conn[e])
  <2>1. q \in Conn /\ ConnInv(q) /\ q.iss # conn[e].iss /\ q.failed = {}
    BY <1>1, ReopenedNew
  <2>2. conn' = [conn EXCEPT ![e] = q] /\ net' = net
    BY <1>2 DEF Crash
  <2> HIDE DEF q
  <2>3. conn' \in [Ends -> Conn] /\ conn'[e] = q /\ \A f \in Ends \ {e} : conn'[f] = conn[f]
    BY <1>1, <2>1, <2>2
  <2>4. Keeps(conn[e], q)
    BY <2>1 DEF Keeps
  <2>5. \A f \in Ends : Keeps(conn[f], conn'[f])
    BY <1>1, <2>3, <2>4, KeepsItself
  <2> QED
    BY <1>1, <2>1, <2>2, <2>3, <2>5 DEF Preserved
<1>3. CASE Restart(e)
  BY <1>3, IdleStep DEF Restart
<1> QED
  BY <1>2, <1>3 DEF NodeStep

\* The counters stay counters.
LEMMA CountersStay ==
  ASSUME TypeOK, NEW e \in Ends, UserStep(e) \/ TimerStep(e) \/ NetworkStep(e) \/ NodeStep(e)
  PROVE  /\ up' \in [Ends -> BOOLEAN] /\ opens' \in [Ends -> Nat]
         /\ lost' \in Nat /\ dups' \in Nat /\ crashes' \in Nat
<1> USE DEF TypeOK, faults
<1>1. CASE UserStep(e)
  <2>1. CASE Connect(e)
    BY <2>1 DEF Connect, Open
  <2>2. CASE Listen(e)
    BY <2>2 DEF Listen, Open
  <2>3. CASE Send(e) \/ Close(e) \/ Abort(e)
    BY <2>3 DEF Send, Close, Abort
  <2> QED
    BY <1>1, <2>1, <2>2, <2>3 DEF UserStep
<1>2. CASE TimerStep(e)
  BY <1>2 DEF TimerStep, SynRexmitTimeout, ConnEstabTimeout, RexmitTimeout, TwoMSLTimeout, Expire
<1>3. CASE NetworkStep(e)
  BY <1>3 DEF NetworkStep, Deliver, Duplicate, Lose, Drop
<1>4. CASE NodeStep(e)
  <2>1. CASE Crash(e)
    BY <2>1 DEF Crash
  <2>2. CASE Restart(e)
    BY <2>2 DEF Restart
  <2> QED
    BY <1>4, <2>1, <2>2 DEF NodeStep
<1> QED
  BY <1>1, <1>2, <1>3, <1>4

\* The commands of the application.
LEMMA UserStepPreserves ==
  ASSUME IInv, NEW e \in Ends, UserStep(e)
  PROVE  Preserved
BY ConnectStep, ListenStep, SendStep, CloseStep, AbortStep DEF UserStep

-----------------------------------------------------------------------------
(* The theorems *)

\* The invariant holds at first.
LEMMA InitInv == Init => IInv
<1> SUFFICES ASSUME Init PROVE IInv
  OBVIOUS
<1>1. FreshConn \in Conn
  BY ConnectionAssumption DEF FreshConn, Conn, FreshApp, App, States, SockStates, Errors, Events
<1>2. TypeOK
  BY <1>1 DEF Init, TypeOK
<1>3. /\ FreshConn.fsm = "INIT" /\ FreshConn.timers = {} /\ FreshConn.event = "IGNORE"
      /\ FreshConn.out = {} /\ FreshConn.send_fin = FALSE /\ FreshConn.failed = {}
      /\ FreshConn.app.sock = "NOT_BOUND"
  BY DEF FreshConn, FreshApp
<1>4. ConnInv(FreshConn)
  BY <1>3 DEF ConnInv, HandshakeTimed, SocketMatches, SocketFits, SentIsQueued, Embryonic,
              Synchronized
<1> QED
  BY <1>2, <1>4 DEF Init, IInv

\* Nothing happens after a throw.
LEMMA StepsRun ==
  ASSUME NEW e \in Ends, UserStep(e) \/ TimerStep(e) \/ NetworkStep(e) \/ NodeStep(e)
  PROVE  Running
<1>1. CASE UserStep(e)
  BY <1>1 DEF UserStep, Connect, Listen, Open, Send, Close, Abort, Command
<1>2. CASE TimerStep(e)
  BY <1>2 DEF TimerStep, SynRexmitTimeout, ConnEstabTimeout, RexmitTimeout, TwoMSLTimeout, Expire,
              Command
<1>3. CASE NetworkStep(e)
  BY <1>3 DEF NetworkStep, Deliver, Duplicate, Lose, Drop
<1>4. CASE NodeStep(e)
  BY <1>4 DEF NodeStep, Crash, Restart
<1> QED
  BY <1>1, <1>2, <1>3, <1>4

\* Every step keeps it, takes nothing back, and refuses a command only after a close().
LEMMA NextInv ==
  IInv /\ [Next]_vars => /\ IInv' /\ \A e \in Ends : Keeps(conn[e], conn'[e])
                        /\ \/ UNCHANGED vars
                           \/ \A e \in Ends : "command" \in conn'[e].failed => conn[e].app.closed
<1> SUFFICES ASSUME IInv, [Next]_vars
             PROVE  /\ IInv' /\ \A e \in Ends : Keeps(conn[e], conn'[e])
                    /\ \/ UNCHANGED vars
                       \/ \A e \in Ends : "command" \in conn'[e].failed => conn[e].app.closed
  OBVIOUS
<1>1. CASE UNCHANGED vars
  <2>1. \A e \in Ends : Keeps(conn[e], conn[e])
    BY KeepsItself DEF IInv, TypeOK
  <2> QED
    BY <1>1, <2>1 DEF vars, IInv, TypeOK
<1>2. CASE Next
  <2>1. PICK e \in Ends : UserStep(e) \/ TimerStep(e) \/ NetworkStep(e) \/ NodeStep(e)
    BY <1>2 DEF Next
  <2>2. NetworkStep(e) => Preserved
    BY NetworkStepPreserves DEF NetworkStep
  <2>3. Preserved
    BY <2>1, <2>2, UserStepPreserves, TimerStepPreserves, NodeStepPreserves
  <2>4. TypeOK'
    BY <2>1, <2>3, CountersStay DEF IInv, TypeOK, Preserved
  <2>5. \A f \in Ends : conn[f].failed = {}
    BY <2>1, StepsRun DEF Running
  <2> QED
    BY <2>3, <2>4, <2>5 DEF IInv, Preserved
<1> QED
  BY <1>1, <1>2

\* The inductive invariant holds throughout.
THEOREM Inductive == Spec => []IInv
<1>1. IInv /\ [Next]_vars => IInv'
  BY NextInv
<1> QED
  BY <1>1, InitInv, PTL DEF Spec

\* Every variable has its type in every reachable state: no handler builds a sequence number
\* below zero, a segment with a flag or a length of its own, or an unknown state or timer.
THEOREM TypeCorrect == Spec => []TypeOK
<1>1. IInv => TypeOK
  BY DEF IInv
<1> QED
  BY <1>1, Inductive, PTL

\* Only an application that has called close() on its socket before can have a command that
\* passes the guards of TCPSocket refused with a throw: before that, whatever segments, faults
\* and timers come between what it was told and what it does, every such command is accepted.
THEOREM CommandsAccepted == Spec => CommandsAreLegal
<1>1. IInv /\ [Next]_vars =>
        [\A e \in Ends : "command" \in conn'[e].failed => conn[e].app.closed]_vars
  BY NextInv
<1> QED
  BY <1>1, Inductive, PTL DEF Spec, CommandsAreLegal

\* Until close(), what the application knows of its socket agrees with the state machine of
\* TCP, and no FIN waits to be sent without a close().
THEOREM SocketAgrees == Spec => []SocketMatchesState
<1>1. IInv => SocketMatchesState
  BY DEF IInv, ConnInv, SocketMatchesState
<1> QED
  BY <1>1, Inductive, PTL

\* CONN-ESTAB and SYN-REXMIT run in SYN_SENT and SYN_RCVD, and nowhere else.
THEOREM HandshakeTimedAlways == Spec => []HandshakeIsTimed
<1>1. IInv => HandshakeIsTimed
  BY DEF IInv, ConnInv, HandshakeIsTimed
<1> QED
  BY <1>1, Inductive, PTL

\* Nothing but the SYN and one FIN is ever sent from outside the send queue, nothing is
\* acknowledged that was not sent, and the REXMIT timer runs only after the handshake.
THEOREM SendQueueRespected == Spec => []NothingSentUnqueued
<1>1. IInv => NothingSentUnqueued
  BY DEF IInv, ConnInv, NothingSentUnqueued
<1> QED
  BY <1>1, Inductive, PTL

\* rcv_nxt, snd_una, snd_max and the end of the send queue never go back while a synchronized
\* connection lives, whatever old, repeated or foreign segment comes in.
THEOREM NothingRetracted == Spec => NothingIsRetracted
<1>1. IInv /\ [Next]_vars => [\A e \in Ends : Keeps(conn[e], conn'[e])]_vars
  BY NextInv
<1> QED
  BY <1>1, Inductive, PTL DEF Spec, NothingIsRetracted
=============================================================================
