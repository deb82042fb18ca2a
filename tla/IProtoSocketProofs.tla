-------------------------- MODULE IProtoSocketProofs --------------------------
(***************************************************************************)
(* Proofs about the socket of IProtoConn, for any packets and any bounds:  *)
(* an open one has somebody who will notice its end, the packets of        *)
(* write_queue never wait behind nothing, a packet's buffer has exactly    *)
(* one owner until it is freed, and an established connection pings on.    *)
(*                                                                         *)
(* What matters of a queued completion is its handler and its error code,  *)
(* its signal.  Most methods only add signals and leave the socket's own   *)
(* fields alone (Calm).  SocketInv is inductive because of Writing:        *)
(* write_is_active on an open socket means that a write is in flight,      *)
(* though the code also clears it while one is.  OwnInv counts a packet's  *)
(* holders and names the one the running handler has in its hand; PingInv  *)
(* adds to the chain of pings where the next onConnect is in the queue.    *)
(***************************************************************************)
EXTENDS IProtoConnProofs, FiniteSetTheorems

Signal(x) == <<x.h, x.ec>>
SignalsOf(q) == {Signal(q[k]) : k \in DOMAIN q}
Signals(c) == SignalsOf(c.ready) \cup SignalsOf(c.posted)

Alarms == {<<"reconnectByTimer", "ok">>, <<"onRead", "error">>, <<"onWrite", "epipe">>,
           <<"onWrite", "error">>, <<"pingCb", "CB_TIMEOUT">>, <<"onConnect", "ok">>}
WriteEnds == {<<"onWrite", "ok">>, <<"onWrite", "epipe">>, <<"onWrite", "error">>}
Rings(c, alarms) == \E s \in alarms : s \in Signals(c)

Watched(c) ==
  Open(c) => \/ c.reads > 0 \/ c.timer = "armed"
             \/ Rings(c, Alarms) \/ Rings(c, {<<"onRead", "ok">>})
InFlight(c) == c.writes # <<>> \/ Rings(c, WriteEnds)
Writing(c) == Open(c) /\ c.write_is_active => InFlight(c)
Moves(c) ==
  Open(c) /\ c.write_queue # <<>> =>
    InFlight(c) \/ c.sock \in {"connecting", "dead"} \/ c.timer = "armed" \/ Rings(c, Alarms)

SocketInv(c) == Watched(c) /\ Writing(c) /\ Moves(c)

(***************************************************************************)
(* Signals that are kept.                                                  *)
(***************************************************************************)
LEMMA SignalsAppend ==
  ASSUME NEW q \in Seq(Completion), NEW e \in Completion
  PROVE  SignalsOf(q) \subseteq SignalsOf(Append(q, e)) /\ Signal(e) \in SignalsOf(Append(q, e))
<1> DEFINE a == Append(q, e)
<1>1. /\ DOMAIN q = 1..Len(q) /\ Len(q) \in Nat /\ DOMAIN a = 1..(Len(q) + 1)
      /\ a[Len(q) + 1] = e /\ \A k \in 1..Len(q) : a[k] = q[k]
  BY AppendProperties
<1> HIDE DEF a
<1>2. ASSUME NEW k \in DOMAIN q PROVE k \in DOMAIN a /\ a[k] = q[k] BY <1>1
<1>3. Len(q) + 1 \in DOMAIN a BY <1>1
<1> QED BY <1>1, <1>2, <1>3 DEF SignalsOf, a

LEMMA SignalsConcat ==
  ASSUME NEW q \in Seq(Completion), NEW t \in Seq(Completion)
  PROVE  SignalsOf(q) \subseteq SignalsOf(q \o t)
<1>1. ASSUME NEW k \in DOMAIN q PROVE In(q[k], q \o t) BY InConcat DEF In
<1> QED BY <1>1 DEF SignalsOf, In

LEMMA SignalsTail ==
  ASSUME NEW q \in Seq(Completion), q # <<>>, NEW s \in SignalsOf(q), s # Signal(Head(q))
  PROVE  s \in SignalsOf(Tail(q))
<1>1. PICK k \in DOMAIN q : s = Signal(q[k]) BY DEF SignalsOf
<1>2. q[k] # Head(q) /\ In(q[k], q) BY <1>1 DEF In
<1>3. In(q[k], Tail(q)) BY <1>2, InTail
<1> QED BY <1>1, <1>3 DEF SignalsOf, In

\* The socket's own fields are left alone, and no signal is lost.
Calm(c, d) ==
  /\ d.sock = c.sock /\ d.timer = c.timer /\ d.reads = c.reads /\ d.writes = c.writes
  /\ d.write_is_active = c.write_is_active /\ d.write_queue = c.write_queue
  /\ Signals(c) \subseteq Signals(d)

LEMMA CalmInv ==
  ASSUME NEW c, NEW d, Calm(c, d)
  PROVE  /\ SocketInv(c) => SocketInv(d)
         /\ Watched(c) => Watched(d)
         /\ Writing(c) => Writing(d)
  BY DEF Calm, SocketInv, Watched, Writing, Moves, InFlight, Rings, Open

LEMMA CalmTrans == ASSUME NEW c, NEW d, NEW e, Calm(c, d), Calm(d, e) PROVE Calm(c, e)
  BY DEF Calm

LEMMA PostCallbacksSignals ==
  ASSUME NEW c \in ConnType, NEW who, NEW code \in Results
  PROVE  SignalsOf(c.posted) \subseteq SignalsOf(PostCallbacks(c, who, code))
<1>1. Done("pingCb", code, None) \in Completion BY DEF Done, Completion
<1>2. c.posted \in Seq(Completion) BY DEF ConnType
<1> QED BY <1>1, <1>2, SignalsAppend DEF PostCallbacks

LEMMA DismissCalm ==
  ASSUME NEW c \in ConnType, NEW code \in Results PROVE Calm(c, DismissCallbacks(c, code))
<1> DEFINE d == DismissCallbacks(c, code)
<1>1. /\ d.sock = c.sock /\ d.timer = c.timer /\ d.reads = c.reads /\ d.writes = c.writes
      /\ d.write_is_active = c.write_is_active /\ d.write_queue = c.write_queue
      /\ d.ready = c.ready /\ d.posted = PostCallbacks(c, Waiting(c), code)
  BY DEF DismissCallbacks, ConnType
<1> HIDE DEF d
<1> QED BY <1>1, PostCallbacksSignals DEF Calm, Signals, d

LEMMA InvokeCalm ==
  ASSUME NEW c \in ConnType, NEW sync, NEW code \in Results
  PROVE  Calm(c, InvokeCallback(c, sync, code))
<1> DEFINE d == InvokeCallback(c, sync, code)
           who == {c.callbacks_map[sync]} \ {None}
<1>1. /\ d.sock = c.sock /\ d.timer = c.timer /\ d.reads = c.reads /\ d.writes = c.writes
      /\ d.write_is_active = c.write_is_active /\ d.write_queue = c.write_queue
      /\ d.ready = c.ready /\ d.posted = PostCallbacks(c, who, code)
  BY DEF InvokeCallback, ConnType
<1> HIDE DEF d, who
<1> QED BY <1>1, PostCallbacksSignals DEF Calm, Signals, d

\* A completion is posted.
LEMMA PostedSignals ==
  ASSUME NEW c \in ConnType, NEW d, NEW e \in Completion,
         d.ready = c.ready, d.posted = Append(c.posted, e)
  PROVE  Signals(c) \subseteq Signals(d) /\ Signal(e) \in Signals(d)
<1>1. c.posted \in Seq(Completion) BY DEF ConnType
<1> QED BY <1>1, SignalsAppend DEF Signals

-------------------------------------------------------------------------------
(***************************************************************************)
(* The methods.                                                            *)
(***************************************************************************)
LEMMA BeginConnectSocket ==
  ASSUME NEW c \in ConnType PROVE SocketInv(BeginConnect(c))
<1> DEFINE d == BeginConnect(c)
<1>1. d.timer = "armed" /\ d.write_is_active = FALSE BY DEF BeginConnect, ConnType
<1> HIDE DEF d
<1> QED BY <1>1 DEF SocketInv, Watched, Writing, Moves, d

LEMMA ReconnectSocket ==
  ASSUME NEW c \in ConnType PROVE SocketInv(Reconnect(c))
  BY CloseType, BeginConnectSocket DEF Reconnect

LEMMA CloseSocket ==
  ASSUME NEW c \in ConnType PROVE SocketInv(Close(c))
<1> DEFINE d == Close(c)
<1>1. d.sock = "closed" BY DEF Close, ConnType
<1> HIDE DEF d
<1> QED BY <1>1 DEF SocketInv, Watched, Writing, Moves, Open, d

LEMMA CheckConnectSocket ==
  ASSUME NEW c \in ConnType, SocketInv(c) PROVE SocketInv(CheckConnect(c))
  BY BeginConnectSocket DEF CheckConnect

\* A write is started unless one is in flight: that one's end takes the next packet.
LEMMA EnsureWriteBufferSocket ==
  ASSUME NEW c \in ConnType, NEW finished \in BOOLEAN,
         Watched(c), finished \/ Writing(c)
  PROVE  SocketInv(EnsureWriteBuffer(c, finished))
<1>1. CASE c.write_queue # <<>> /\ (finished \/ ~c.write_is_active)
  <2> DEFINE d == StartWrite(c)
             wr == Head(c.write_queue)
  <2>1. wr \in Packets /\ c.writes \in Seq(Packets) BY <1>1 DEF ConnType
  <2>2. /\ d.sock = c.sock /\ d.timer = c.timer /\ d.reads = c.reads /\ d.ready = c.ready
        /\ d.writes = IF Open(c) THEN Append(c.writes, wr) ELSE c.writes
        /\ Open(c) => d.posted = c.posted
    BY DEF StartWrite, ConnType
  <2>3. EnsureWriteBuffer(c, finished) = d BY <1>1 DEF EnsureWriteBuffer
  <2> HIDE DEF d, wr
  <2>4. Open(c) => d.writes # <<>> /\ Signals(d) = Signals(c)
    BY <2>1, <2>2, AppendProperties DEF Signals
  <2> QED BY <2>2, <2>3, <2>4 DEF SocketInv, Watched, Writing, Moves, InFlight, Rings, Open
<1>2. CASE ~(c.write_queue # <<>> /\ (finished \/ ~c.write_is_active))
  <2> DEFINE d == [c EXCEPT !.write_is_active = FALSE]
  <2>1. /\ d.sock = c.sock /\ d.timer = c.timer /\ d.reads = c.reads /\ d.ready = c.ready
        /\ d.writes = c.writes /\ d.posted = c.posted /\ d.write_queue = c.write_queue
        /\ d.write_is_active = FALSE
    BY DEF ConnType
  <2>2. EnsureWriteBuffer(c, finished) = d BY <1>2 DEF EnsureWriteBuffer
  <2> HIDE DEF d
  <2>3. Signals(d) = Signals(c) BY <2>1 DEF Signals
  <2>4. c.write_queue # <<>> /\ Open(c) => InFlight(c) BY <1>2 DEF Writing
  <2> QED BY <2>1, <2>2, <2>3, <2>4
      DEF SocketInv, Watched, Writing, Moves, InFlight, Rings, Open
<1> QED BY <1>1, <1>2

LEMMA DropPacketWriteSocket ==
  ASSUME NEW c \in ConnType, NEW pkt \in Packets, Watched(c), Writing(c)
  PROVE  SocketInv(DropPacketWrite(c, pkt))
<1> DEFINE q == [c EXCEPT !.write_queue = Append(c.write_queue, pkt),
                          !.live = c.live \cup {pkt}]
<1>1. q \in ConnType
  <2>1. Append(c.write_queue, pkt) \in Seq(Packets) BY DEF ConnType
  <2>2. c.live \cup {pkt} \in SUBSET Packets BY DEF ConnType
  <2> QED BY <2>1, <2>2 DEF ConnType
<1>2. /\ q.sock = c.sock /\ q.timer = c.timer /\ q.reads = c.reads /\ q.writes = c.writes
      /\ q.write_is_active = c.write_is_active /\ q.ready = c.ready /\ q.posted = c.posted
  BY DEF ConnType
<1>3. DropPacketWrite(c, pkt) = IF Open(c) THEN EnsureWriteBuffer(q, FALSE) ELSE BeginConnect(q)
  BY DEF DropPacketWrite
<1> HIDE DEF q
<1>4. Watched(q) /\ Writing(q)
  BY <1>2 DEF Watched, Writing, InFlight, Rings, Signals, Open
<1> QED BY <1>1, <1>3, <1>4, EnsureWriteBufferSocket, BeginConnectSocket

LEMMA WriteSocket ==
  ASSUME NEW c \in ConnType, NEW pkt \in Answered, Watched(c), Writing(c)
  PROVE  SocketInv(Write(c, pkt))
<1> DEFINE d == Registered(c, pkt)
<1>1. d \in ConnType BY RegisteredType
<1>2. /\ d.sock = c.sock /\ d.timer = c.timer /\ d.reads = c.reads /\ d.writes = c.writes
      /\ d.write_is_active = c.write_is_active /\ d.ready = c.ready /\ d.posted = c.posted
  BY DEF Registered, ConnType
<1>3. Write(c, pkt) = DropPacketWrite(d, pkt) /\ pkt \in Packets
  BY DEF Write, Registered, Answered, Packets
<1> HIDE DEF d
<1>4. Watched(d) /\ Writing(d) BY <1>2 DEF Watched, Writing, InFlight, Rings, Signals, Open
<1> QED BY <1>1, <1>3, <1>4, DropPacketWriteSocket

\* On an open socket no invariant of the queue is needed.
LEMMA SetupPingSocket ==
  ASSUME NEW c \in ConnType, NEW p \in Pings, Watched(c), Writing(c)
  PROVE  SocketInv(SetupPing(c, p))
<1>1. CheckConnect(c) \in ConnType /\ p \in Answered BY CheckConnectType DEF Answered
<1>2. Watched(CheckConnect(c)) /\ Writing(CheckConnect(c))
  BY BeginConnectSocket DEF CheckConnect, SocketInv
<1> QED BY <1>1, <1>2, WriteSocket DEF SetupPing

LEMMA ReadMoreSocket ==
  ASSUME NEW c \in ConnType
  PROVE  /\ Watched(ReadMore(c))
         /\ Writing(c) => Writing(ReadMore(c))
         /\ Moves(c) => Moves(ReadMore(c))
<1> DEFINE d == ReadMore(c)
<1>1. c.reads \in Nat BY DEF ConnType
<1>2. /\ d.sock = c.sock /\ d.timer = c.timer /\ d.reads = c.reads + 1 /\ d.writes = c.writes
      /\ d.write_is_active = c.write_is_active /\ d.write_queue = c.write_queue
      /\ d.ready = c.ready /\ d.posted = c.posted
  BY DEF ReadMore, ConnType
<1> HIDE DEF d
<1>3. d.reads > 0 BY <1>1, <1>2
<1>4. Signals(d) = Signals(c) BY <1>2 DEF Signals
<1> QED BY <1>2, <1>3, <1>4 DEF Watched, Writing, Moves, InFlight, Rings, Open, d

-------------------------------------------------------------------------------
(***************************************************************************)
(* The handlers.  What is taken off the queue is the only signal lost.     *)
(***************************************************************************)
LEMMA TakenSignals ==
  ASSUME conn \in ConnType, conn.ready # <<>>
  PROVE  /\ Taken \in ConnType /\ Head(conn.ready) \in Completion
         /\ Taken.sock = conn.sock /\ Taken.timer = conn.timer /\ Taken.reads = conn.reads
         /\ Taken.writes = conn.writes /\ Taken.write_is_active = conn.write_is_active
         /\ Taken.write_queue = conn.write_queue
         /\ \A s \in Signals(conn) : s = Signal(Head(conn.ready)) \/ s \in Signals(Taken)
<1>1. Taken \in ConnType /\ Head(conn.ready) \in Completion BY TakenType
<1>2. /\ Taken.sock = conn.sock /\ Taken.timer = conn.timer /\ Taken.reads = conn.reads
      /\ Taken.writes = conn.writes /\ Taken.write_is_active = conn.write_is_active
      /\ Taken.write_queue = conn.write_queue
      /\ Taken.ready = Tail(conn.ready) /\ Taken.posted = conn.posted
  BY DEF Taken, ConnType
<1>3. conn.ready \in Seq(Completion) BY DEF ConnType
<1> QED BY <1>1, <1>2, <1>3, SignalsTail DEF Signals

\* Nothing relies on a completion of another kind.
LEMMA TakenSocket ==
  ASSUME conn \in ConnType, conn.ready # <<>>, SocketInv(conn),
         Signal(Head(conn.ready)) \notin Alarms
  PROVE  /\ Signal(Head(conn.ready)) # <<"onRead", "ok">> => Watched(Taken)
         /\ Signal(Head(conn.ready)) \notin WriteEnds => Writing(Taken) /\ Moves(Taken)
  BY TakenSignals DEF SocketInv, Watched, Writing, Moves, InFlight, Rings, Open

LEMMA OnConnectSocket ==
  ASSUME conn \in ConnType, SocketInv(conn), OnConnect PROVE SocketInv(conn')
<1> DEFINE c == [Taken EXCEPT !.timer = "idle"]
<1>1. conn.ready # <<>> /\ Head(conn.ready).h = "onConnect" BY DEF OnConnect, Next1
<1>2. /\ c \in ConnType /\ c.sock = Taken.sock /\ c.writes = Taken.writes
      /\ c.write_is_active = Taken.write_is_active /\ Signals(c) = Signals(Taken)
  BY <1>1, TakenSignals DEF ConnType, Signals
<1>3. \/ conn' = c /\ ~Open(c)
      \/ \E p \in Pings : conn' = SetupPing(ReadMore(c), p)
      \/ conn' = EnsureWriteBuffer(ReadMore(c), FALSE)
  BY DEF OnConnect, UnusedPings
<1> HIDE DEF c
<1>4. Signal(Head(conn.ready)) \notin WriteEnds BY <1>1 DEF Signal, WriteEnds
<1>5. Writing(c)
  BY <1>1, <1>2, <1>4, TakenSignals DEF SocketInv, Writing, InFlight, Rings, Open
<1>6. ReadMore(c) \in ConnType /\ Watched(ReadMore(c)) /\ Writing(ReadMore(c))
  BY <1>2, <1>5, ReadMoreType, ReadMoreSocket
<1>7. CASE conn' = c /\ ~Open(c) BY <1>7 DEF SocketInv, Watched, Writing, Moves
<1> QED BY <1>3, <1>6, <1>7, SetupPingSocket, EnsureWriteBufferSocket

LEMMA OnReadDataSocket ==
  ASSUME conn \in ConnType, SocketInv(conn), OnReadData PROVE SocketInv(conn')
<1> DEFINE c == IF Arg = None THEN Taken ELSE InvokeCallback(Taken, Arg, "CB_OK")
<1>1. conn.ready # <<>> /\ Head(conn.ready).h = "onRead" /\ Head(conn.ready).ec = "ok"
  BY DEF OnReadData, Next1, Ec
<1>2. Taken \in ConnType /\ Head(conn.ready) \in Completion BY <1>1, TakenType
<1>3. Arg \in Syncs \cup {None} BY <1>1, <1>2 DEF Completion, Arg
<1>4. c \in ConnType BY <1>2, <1>3, InvokeCallbackType DEF Results
<1>5. Signal(Head(conn.ready)) \notin Alarms \cup WriteEnds BY <1>1 DEF Signal, Alarms, WriteEnds
<1>6. Writing(Taken) /\ Moves(Taken) BY <1>1, <1>5, TakenSocket
<1>7. Calm(Taken, c) BY <1>2, InvokeCalm DEF Results, Calm
<1>8. \/ Open(c) /\ conn' = ReadMore(c)
      \/ ~Open(c) /\ conn' = c
      \/ ~Open(c) /\ conn' = [c EXCEPT !.posted = Append(@, Done("onRead", "error", None))]
  BY DEF OnReadData, ReadOnClosed
<1> HIDE DEF c
<1>9. Writing(c) /\ Moves(c)
  BY <1>6, <1>7 DEF Calm, Writing, Moves, InFlight, Rings, Open
<1>10. CASE conn' = ReadMore(c) BY <1>4, <1>9, <1>10, ReadMoreSocket DEF SocketInv
<1>11. CASE ~Open(c) /\ conn'.sock = c.sock
  BY <1>11 DEF SocketInv, Watched, Writing, Moves, Open
<1> QED BY <1>4, <1>8, <1>10, <1>11 DEF ConnType

LEMMA OnReadErrorSocket ==
  ASSUME conn \in ConnType, SocketInv(conn), OnReadError PROVE SocketInv(conn')
<1> DEFINE c == DismissCallbacks(Taken, "CB_ERR")
<1>1. conn.ready # <<>> /\ Head(conn.ready).h = "onRead" /\ Head(conn.ready).ec # "ok"
  BY DEF OnReadError, Next1, Ec
<1>2. Taken \in ConnType BY <1>1, TakenType
<1>3. c \in ConnType /\ Calm(Taken, c) BY <1>2, DismissType, DismissCalm DEF Results
<1>4. (conn' = c /\ Head(conn.ready).ec = "aborted") \/ conn' = Reconnect(c)
  BY DEF OnReadError, Ec
<1> HIDE DEF c
<1>5. CASE conn' = c /\ Head(conn.ready).ec = "aborted"
  <2>1. Signal(Head(conn.ready)) \notin Alarms \cup WriteEnds \cup {<<"onRead", "ok">>}
    BY <1>1, <1>5 DEF Signal, Alarms, WriteEnds
  <2>2. SocketInv(Taken) BY <1>1, <2>1, TakenSocket DEF SocketInv
  <2> QED BY <1>3, <1>5, <2>2, CalmInv
<1> QED BY <1>3, <1>4, <1>5, ReconnectSocket

LEMMA OnWriteDoneSocket ==
  ASSUME conn \in ConnType, SocketInv(conn), OnWriteDone PROVE SocketInv(conn')
<1> DEFINE c == [Taken EXCEPT !.live = @ \ {Arg}]
<1>1. conn.ready # <<>> /\ Head(conn.ready).h = "onWrite" /\ Head(conn.ready).ec = "ok"
  BY DEF OnWriteDone, Next1, Ec
<1>2. Taken \in ConnType BY <1>1, TakenType
<1>3. /\ c \in ConnType /\ Calm(Taken, c)
  BY <1>2 DEF ConnType, Calm, Signals
<1>4. conn' = EnsureWriteBuffer(c, TRUE) BY DEF OnWriteDone
<1> HIDE DEF c
<1>5. Signal(Head(conn.ready)) \notin Alarms \cup {<<"onRead", "ok">>}
  BY <1>1 DEF Signal, Alarms
<1>6. Watched(c) BY <1>1, <1>3, <1>5, TakenSocket, CalmInv
<1> QED BY <1>3, <1>4, <1>6, EnsureWriteBufferSocket

\* What is freed plays no part.
LEMMA FreedCalm ==
  ASSUME NEW c \in ConnType, NEW pkt PROVE Calm(c, [c EXCEPT !.live = @ \ {pkt}])
  BY DEF Calm, Signals, ConnType

LEMMA OnWriteErrorSocket ==
  ASSUME conn \in ConnType, SocketInv(conn), OnWriteError PROVE SocketInv(conn')
<1>1. conn.ready # <<>> /\ Head(conn.ready).h = "onWrite" /\ Head(conn.ready).ec # "ok"
  BY DEF OnWriteError, Next1, Ec
<1>2. Taken \in ConnType /\ Head(conn.ready) \in Completion BY <1>1, TakenType
<1>3. Arg \in Packets /\ Ec \in {"aborted", "epipe", "error"}
  BY <1>1, <1>2 DEF Completion, Ec, Arg
<1>4. CASE Ec = "aborted"
  <2> DEFINE c == DismissCallbacks(Taken, "CB_ERR")
  <2>1. c \in ConnType /\ Calm(Taken, c) BY <1>2, DismissType, DismissCalm DEF Results
  <2>2. conn' = [c EXCEPT !.live = @ \ {Arg}] BY <1>4 DEF OnWriteError
  <2> HIDE DEF c
  <2>3. Signal(Head(conn.ready)) \notin Alarms \cup WriteEnds \cup {<<"onRead", "ok">>}
    BY <1>1, <1>4 DEF Signal, Alarms, WriteEnds, Ec
  <2>4. SocketInv(Taken) BY <1>1, <2>3, TakenSocket DEF SocketInv
  <2>5. SocketInv(c) BY <2>1, <2>4, CalmInv
  <2> QED BY <2>1, <2>2, <2>5, FreedCalm, CalmInv
<1>5. CASE Ec = "epipe"
  <2> DEFINE q == Append(Taken.write_queue, Arg)
             c == [Taken EXCEPT !.write_queue = q]
  <2>1. q \in Seq(Packets) BY <1>2, <1>3 DEF ConnType
  <2>2. conn' = Reconnect(c) BY <1>5 DEF OnWriteError
  <2> HIDE DEF q
  <2>3. c \in ConnType BY <1>2, <2>1 DEF ConnType
  <2> QED BY <2>2, <2>3, ReconnectSocket
<1>6. CASE Ec = "error"
  <2> DEFINE c == Reconnect(Taken)
  <2>1. c \in ConnType /\ SocketInv(c) BY <1>2, ReconnectType, ReconnectSocket
  <2>2. conn' = [c EXCEPT !.live = @ \ {Arg}] BY <1>6 DEF OnWriteError
  <2> HIDE DEF c
  <2> QED BY <2>1, <2>2, FreedCalm, CalmInv
<1> QED BY <1>3, <1>4, <1>5, <1>6

LEMMA OnTimeoutSocket ==
  ASSUME conn \in ConnType, SocketInv(conn), OnTimeout PROVE SocketInv(conn')
<1> DEFINE c == [Taken EXCEPT !.req_timer[Arg] = "idle"]
<1>1. conn.ready # <<>> /\ Head(conn.ready).h = "onTimeout" BY DEF OnTimeout, Next1
<1>2. Taken \in ConnType /\ Head(conn.ready) \in Completion BY <1>1, TakenType
<1>3. Arg \in Answered BY <1>1, <1>2 DEF Completion, Arg
<1>4. c \in ConnType /\ Calm(Taken, c) BY <1>2, <1>3 DEF ConnType, Calm, Signals
<1>5. conn' = InvokeCallback(c, SyncOf[Arg], "CB_TIMEOUT") BY DEF OnTimeout
<1> HIDE DEF c
<1>6. Signal(Head(conn.ready)) \notin Alarms \cup WriteEnds \cup {<<"onRead", "ok">>}
  BY <1>1 DEF Signal, Alarms, WriteEnds
<1>7. SocketInv(c) BY <1>1, <1>4, <1>6, TakenSocket, CalmInv DEF SocketInv
<1>8. Calm(c, conn') BY <1>4, <1>5, InvokeCalm DEF Results
<1> QED BY <1>7, <1>8, CalmInv

LEMMA TimerHandlersSocket ==
  ASSUME conn \in ConnType, SocketInv(conn), ReconnectByTimer \/ PingByTimer \/ PingCb
  PROVE  SocketInv(conn')
<1>1. conn.ready # <<>> BY DEF ReconnectByTimer, PingByTimer, PingCb, Next1
<1>2. Taken \in ConnType /\ Head(conn.ready) \in Completion BY <1>1, TakenType
<1>3. CASE ReconnectByTimer BY <1>2, <1>3, ReconnectSocket DEF ReconnectByTimer
<1>4. CASE PingByTimer
  <2>1. Head(conn.ready).h = "setupPing" BY <1>4 DEF PingByTimer, Next1
  <2>2. Signal(Head(conn.ready)) \notin Alarms \cup WriteEnds \cup {<<"onRead", "ok">>}
    BY <2>1 DEF Signal, Alarms, WriteEnds
  <2>3. SocketInv(Taken) BY <1>1, <2>2, TakenSocket DEF SocketInv
  <2>4. conn' = Taken \/ \E p \in Pings : conn' = SetupPing(Taken, p)
    BY <1>4 DEF PingByTimer, UnusedPings
  <2> QED BY <1>2, <2>3, <2>4, SetupPingSocket DEF SocketInv
<1>5. CASE PingCb
  <2>1. Head(conn.ready).h = "pingCb" BY <1>5 DEF PingCb, Next1
  <2>2. CASE Ec = "CB_TIMEOUT" BY <1>2, <1>5, <2>2, ReconnectSocket DEF PingCb
  <2>3. CASE Ec # "CB_TIMEOUT"
    <3>1. Signal(Head(conn.ready)) \notin Alarms \cup WriteEnds \cup {<<"onRead", "ok">>}
      BY <2>1, <2>3 DEF Signal, Alarms, WriteEnds, Ec
    <3>2. SocketInv(Taken) BY <1>1, <3>1, TakenSocket DEF SocketInv
    <3>3. conn' = [Taken EXCEPT !.ping_timer = "armed"] BY <1>5, <2>3 DEF PingCb
    <3>4. Calm(Taken, conn') BY <1>2, <3>3 DEF ConnType, Calm, Signals
    <3> QED BY <3>2, <3>4, CalmInv
  <2> QED BY <2>2, <2>3
<1> QED BY <1>3, <1>4, <1>5

-------------------------------------------------------------------------------
(***************************************************************************)
(* The caller, the clock and the network.                                  *)
(***************************************************************************)
LEMMA UserStepSocket ==
  ASSUME conn \in ConnType, SocketInv(conn), UserStep PROVE SocketInv(conn')
<1>1. ASSUME NEW p PROVE Calm(conn, Wrote(conn, p)) BY DEF Wrote, ConnType, Calm, Signals
<1>2. ASSUME NEW r \in Requests, UserWrite(r) PROVE SocketInv(conn')
  <2>1. Wrote(conn, r) \in ConnType BY DEF Wrote, ConnType
  <2>2. Watched(Wrote(conn, r)) /\ Writing(Wrote(conn, r)) BY <1>1, CalmInv DEF SocketInv
  <2> QED BY <1>2, <2>1, <2>2, WriteSocket DEF UserWrite, Answered
<1>3. ASSUME NEW d \in Drops, UserDropWrite(d) PROVE SocketInv(conn')
  <2>1. Wrote(conn, d) \in ConnType BY DEF Wrote, ConnType
  <2>2. Watched(Wrote(conn, d)) /\ Writing(Wrote(conn, d)) BY <1>1, CalmInv DEF SocketInv
  <2> QED BY <1>3, <2>1, <2>2, DropPacketWriteSocket DEF UserDropWrite, Packets
<1>4. CASE DisablePing
  <2>1. Calm(conn, conn') BY <1>4 DEF DisablePing, ConnType, Calm, Signals
  <2> QED BY <2>1, CalmInv
<1>5. CASE UserCheckConnect \/ UserReconnect \/ UserClose
  BY <1>5, CheckConnectSocket, ReconnectSocket, CloseSocket
  DEF UserCheckConnect, UserReconnect, UserClose
<1>6. CASE UserShutdown \/ GentleShutdown
  <2>1. Close(conn) \in ConnType /\ SocketInv(Close(conn)) BY CloseType, CloseSocket
  <2>2. conn' = DismissCallbacks(Close(conn), "CB_ERR")
    BY <1>6 DEF UserShutdown, GentleShutdown, Shutdown
  <2> QED BY <2>1, <2>2, DismissCalm, CalmInv DEF Results
<1> QED BY <1>2, <1>3, <1>4, <1>5, <1>6 DEF UserStep

\* The clock or the network posts a completion and changes the socket's fields.
LEMMA PostedOK ==
  ASSUME conn \in ConnType, NEW c \in ConnType, c.ready = conn.ready, c.posted = conn.posted,
         NEW h, NEW ec, NEW arg, Done(h, ec, arg) \in Completion,
         conn' = Post(c, h, ec, arg)
  PROVE  /\ Signals(conn) \subseteq Signals(conn') /\ <<h, ec>> \in Signals(conn')
         /\ conn'.sock = c.sock /\ conn'.timer = c.timer /\ conn'.reads = c.reads
         /\ conn'.writes = c.writes /\ conn'.write_is_active = c.write_is_active
         /\ conn'.write_queue = c.write_queue
<1> DEFINE e == Done(h, ec, arg)
<1>1. /\ conn'.ready = c.ready /\ conn'.posted = Append(c.posted, e)
      /\ conn'.sock = c.sock /\ conn'.timer = c.timer /\ conn'.reads = c.reads
      /\ conn'.writes = c.writes /\ conn'.write_is_active = c.write_is_active
      /\ conn'.write_queue = c.write_queue
  BY DEF Post, ConnType
<1>2. Signal(e) = <<h, ec>> BY DEF Signal, Done
<1> HIDE DEF e
<1>3. Signals(c) \subseteq Signals(conn') /\ Signal(e) \in Signals(conn')
  BY <1>1, PostedSignals DEF e
<1>4. Signals(c) = Signals(conn) BY DEF Signals
<1> QED BY <1>1, <1>2, <1>3, <1>4

LEMMA ClockSocket ==
  ASSUME conn \in ConnType, SocketInv(conn), Clock PROVE SocketInv(conn')
<1>1. CASE PollReturns
  <2>1. Calm(conn, conn') BY <1>1 DEF PollReturns, Polling, ConnType, Calm, Signals, SignalsOf
  <2> QED BY <2>1, CalmInv
<1>2. CASE ConnectTimerExpires
  <2> DEFINE c == [conn EXCEPT !.timer = "idle"]
  <2>1. c \in ConnType BY DEF ConnType
  <2>2. Done("reconnectByTimer", "ok", None) \in Completion BY DEF Done, Completion
  <2>3. conn' = Post(c, "reconnectByTimer", "ok", None) BY <1>2 DEF ConnectTimerExpires
  <2>4. /\ c.sock = conn.sock /\ c.writes = conn.writes
        /\ c.write_is_active = conn.write_is_active
        /\ c.ready = conn.ready /\ c.posted = conn.posted
    BY DEF ConnType
  <2> HIDE DEF c
  <2>5. /\ Signals(conn) \subseteq Signals(conn')
        /\ <<"reconnectByTimer", "ok">> \in Signals(conn')
        /\ conn'.sock = conn.sock /\ conn'.writes = conn.writes
        /\ conn'.write_is_active = conn.write_is_active
    BY <2>1, <2>2, <2>3, <2>4, PostedOK
  <2>6. Rings(conn', Alarms) BY <2>5 DEF Rings, Alarms
  <2> QED BY <2>5, <2>6 DEF SocketInv, Watched, Writing, Moves, InFlight, Rings, Open
<1>3. CASE PingTimerExpires
  <2> DEFINE c == [conn EXCEPT !.ping_timer = "idle"]
  <2>1. c \in ConnType /\ c.ready = conn.ready /\ c.posted = conn.posted BY DEF ConnType
  <2>2. Done("setupPing", "ok", None) \in Completion BY DEF Done, Completion
  <2>3. conn' = Post(c, "setupPing", "ok", None) BY <1>3 DEF PingTimerExpires
  <2>4. Calm(conn, conn')
    <3>1. /\ c.sock = conn.sock /\ c.timer = conn.timer /\ c.reads = conn.reads
          /\ c.writes = conn.writes /\ c.write_is_active = conn.write_is_active
          /\ c.write_queue = conn.write_queue
      BY DEF ConnType
    <3> HIDE DEF c
    <3> QED BY <2>1, <2>2, <2>3, <3>1, PostedOK DEF Calm
  <2> QED BY <2>4, CalmInv
<1>4. ASSUME NEW i \in Answered, RequestTimerExpires(i) PROVE SocketInv(conn')
  <2> DEFINE c == [conn EXCEPT !.req_timer[i] = "expired"]
  <2>1. c \in ConnType /\ c.ready = conn.ready /\ c.posted = conn.posted BY DEF ConnType
  <2>2. Done("onTimeout", "ok", i) \in Completion BY DEF Done, Completion
  <2>3. conn' = Post(c, "onTimeout", "ok", i) BY <1>4 DEF RequestTimerExpires
  <2>4. Calm(conn, conn')
    <3>1. /\ c.sock = conn.sock /\ c.timer = conn.timer /\ c.reads = conn.reads
          /\ c.writes = conn.writes /\ c.write_is_active = conn.write_is_active
          /\ c.write_queue = conn.write_queue
      BY DEF ConnType
    <3> HIDE DEF c
    <3> QED BY <2>1, <2>2, <2>3, <3>1, PostedOK DEF Calm
  <2> QED BY <2>4, CalmInv
<1> QED BY <1>1, <1>2, <1>3, <1>4 DEF Clock

\* A read ends, and what it has found is queued.
LEMMA ReadsSocket ==
  ASSUME conn \in ConnType, SocketInv(conn),
         (\E i \in Answered : ReadFrame(i)) \/ ReadPart \/ ReadFails
  PROVE  SocketInv(conn')
<1>1. \E c \in ConnType, ec \in {"ok", "error"}, arg \in Syncs \cup {None} :
        /\ conn' = Post(c, "onRead", ec, arg) /\ Done("onRead", ec, arg) \in Completion
        /\ c.sock = conn.sock /\ c.timer = conn.timer /\ c.writes = conn.writes
        /\ c.write_is_active = conn.write_is_active /\ c.write_queue = conn.write_queue
        /\ c.ready = conn.ready /\ c.posted = conn.posted
  <2> DEFINE reads == conn.reads - 1
  <2>1. reads \in Nat
    <3>1. conn.reads \in Nat /\ conn.reads > 0 BY DEF ConnType, ReadFrame, ReadPart, ReadFails
    <3> QED BY <3>1
  <2> HIDE DEF reads
  <2>2. CASE \E i \in Answered : ReadFrame(i)
    <3>1. PICK i \in Answered : ReadFrame(i) BY <2>2
    <3> DEFINE sent == conn.sent \ {i}
               c == [conn EXCEPT !.reads = reads, !.sent = sent]
    <3>2. sent \in SUBSET Answered BY DEF ConnType
    <3>3. conn' = Post(c, "onRead", "ok", SyncOf[i]) BY <3>1 DEF ReadFrame, reads
    <3>4. Done("onRead", "ok", SyncOf[i]) \in Completion BY SyncsAssigned DEF Done, Completion
    <3>7. SyncOf[i] \in Syncs BY SyncsAssigned
    <3> HIDE DEF sent
    <3>5. c \in ConnType BY <2>1, <3>2 DEF ConnType
    <3>6. /\ c.sock = conn.sock /\ c.timer = conn.timer /\ c.writes = conn.writes
          /\ c.write_is_active = conn.write_is_active /\ c.write_queue = conn.write_queue
          /\ c.ready = conn.ready /\ c.posted = conn.posted
      BY DEF ConnType
    <3> HIDE DEF c
    <3> QED BY <3>3, <3>4, <3>5, <3>6, <3>7
  <2>3. CASE ReadPart \/ ReadFails
    <3> DEFINE c == [conn EXCEPT !.reads = reads]
    <3>1. c \in ConnType BY <2>1 DEF ConnType
    <3>2. conn' = Post(c, "onRead", "ok", None) \/ conn' = Post(c, "onRead", "error", None)
      BY <2>3 DEF ReadPart, ReadFails, reads
    <3>3. Done("onRead", "ok", None) \in Completion /\ Done("onRead", "error", None) \in Completion
      BY DEF Done, Completion
    <3>4. /\ c.sock = conn.sock /\ c.timer = conn.timer /\ c.writes = conn.writes
          /\ c.write_is_active = conn.write_is_active /\ c.write_queue = conn.write_queue
          /\ c.ready = conn.ready /\ c.posted = conn.posted
      BY DEF ConnType
    <3> HIDE DEF c
    <3> QED BY <3>1, <3>2, <3>3, <3>4
  <2> QED BY <2>2, <2>3
<1>2. PICK c \in ConnType, ec \in {"ok", "error"}, arg \in Syncs \cup {None} :
        /\ conn' = Post(c, "onRead", ec, arg) /\ Done("onRead", ec, arg) \in Completion
        /\ c.sock = conn.sock /\ c.timer = conn.timer /\ c.writes = conn.writes
        /\ c.write_is_active = conn.write_is_active /\ c.write_queue = conn.write_queue
        /\ c.ready = conn.ready /\ c.posted = conn.posted
  BY <1>1
<1>3. /\ Signals(conn) \subseteq Signals(conn') /\ <<"onRead", ec>> \in Signals(conn')
      /\ conn'.sock = conn.sock /\ conn'.timer = conn.timer /\ conn'.writes = conn.writes
      /\ conn'.write_is_active = conn.write_is_active /\ conn'.write_queue = conn.write_queue
  BY <1>2, PostedOK
<1>4. Rings(conn', Alarms) \/ Rings(conn', {<<"onRead", "ok">>}) BY <1>3 DEF Rings, Alarms
<1> QED BY <1>3, <1>4 DEF SocketInv, Watched, Writing, Moves, InFlight, Rings, Open

\* A write ends: it is no more in flight, but its end is queued.
LEMMA WritesSocket ==
  ASSUME conn \in ConnType, SocketInv(conn), WriteSucceeds \/ WriteFails
  PROVE  SocketInv(conn')
<1> DEFINE wr == Head(conn.writes)
           rest == Tail(conn.writes)
<1>1. wr \in Packets /\ rest \in Seq(Packets)
  BY DEF ConnType, WriteSucceeds, WriteFails
<1> HIDE DEF wr, rest
<1>2. \E sent \in SUBSET Answered, ec \in {"ok", "epipe", "error"} :
        conn' = Post([conn EXCEPT !.writes = rest, !.sent = sent], "onWrite", ec, wr)
  <2>1. CASE WriteSucceeds
    <3> DEFINE sent == IF conn.sock = "connected" THEN conn.sent \cup ({wr} \cap Answered)
                                                  ELSE conn.sent
    <3>1. sent \in SUBSET Answered BY DEF ConnType
    <3>2. conn' = Post([conn EXCEPT !.writes = rest, !.sent = sent], "onWrite", "ok", wr)
      BY <2>1 DEF WriteSucceeds, wr, rest
    <3> HIDE DEF sent
    <3> QED BY <3>1, <3>2
  <2>2. CASE WriteFails
    <3>1. PICK ec \in {"epipe", "error"} :
            conn' = Post([conn EXCEPT !.writes = rest], "onWrite", ec, wr)
      BY <2>2 DEF WriteFails, wr, rest
    <3>2. [conn EXCEPT !.writes = rest] = [conn EXCEPT !.writes = rest, !.sent = conn.sent]
          /\ conn.sent \in SUBSET Answered
      BY DEF ConnType
    <3> QED BY <3>1, <3>2
  <2> QED BY <2>1, <2>2
<1>3. PICK sent \in SUBSET Answered, ec \in {"ok", "epipe", "error"} :
        conn' = Post([conn EXCEPT !.writes = rest, !.sent = sent], "onWrite", ec, wr)
  BY <1>2
<1> DEFINE c == [conn EXCEPT !.writes = rest, !.sent = sent]
<1>4. c \in ConnType BY <1>1 DEF ConnType
<1>5. /\ c.sock = conn.sock /\ c.timer = conn.timer /\ c.reads = conn.reads
      /\ c.write_is_active = conn.write_is_active /\ c.write_queue = conn.write_queue
      /\ c.ready = conn.ready /\ c.posted = conn.posted
  BY DEF ConnType
<1>6. conn' = Post(c, "onWrite", ec, wr) BY <1>3
<1>7. Done("onWrite", ec, wr) \in Completion BY <1>1 DEF Done, Completion
<1> HIDE DEF c
<1>8. /\ Signals(conn) \subseteq Signals(conn') /\ <<"onWrite", ec>> \in Signals(conn')
      /\ conn'.sock = conn.sock /\ conn'.timer = conn.timer /\ conn'.reads = conn.reads
      /\ conn'.write_is_active = conn.write_is_active /\ conn'.write_queue = conn.write_queue
  BY <1>4, <1>5, <1>6, <1>7, PostedOK
<1>9. InFlight(conn') BY <1>8 DEF InFlight, Rings, WriteEnds
<1> QED BY <1>8, <1>9 DEF SocketInv, Watched, Writing, Moves, Rings, Open

LEMMA NetworkSocket ==
  ASSUME conn \in ConnType, SocketInv(conn), Network PROVE SocketInv(conn')
<1>1. CASE ConnectSucceeds
  <2> DEFINE c == [conn EXCEPT !.sock = "connected"]
  <2>1. c \in ConnType BY DEF ConnType
  <2>2. Done("onConnect", "ok", None) \in Completion BY DEF Done, Completion
  <2>3. conn' = Post(c, "onConnect", "ok", None) /\ Open(conn) BY <1>1 DEF ConnectSucceeds, Open
  <2>4. /\ c.writes = conn.writes /\ c.write_is_active = conn.write_is_active
        /\ c.ready = conn.ready /\ c.posted = conn.posted
    BY DEF ConnType
  <2> HIDE DEF c
  <2>5. /\ Signals(conn) \subseteq Signals(conn') /\ <<"onConnect", "ok">> \in Signals(conn')
        /\ conn'.writes = conn.writes /\ conn'.write_is_active = conn.write_is_active
    BY <2>1, <2>2, <2>3, <2>4, PostedOK
  <2>6. Rings(conn', Alarms) BY <2>5 DEF Rings, Alarms
  <2> QED BY <2>3, <2>5, <2>6 DEF SocketInv, Watched, Writing, Moves, InFlight, Rings
<1>2. CASE ConnectFails \/ PeerCloses
  <2>1. /\ conn'.sock = "dead" /\ Open(conn) /\ Signals(conn') = Signals(conn)
        /\ conn'.timer = conn.timer /\ conn'.reads = conn.reads /\ conn'.writes = conn.writes
        /\ conn'.write_is_active = conn.write_is_active
    BY <1>2 DEF ConnectFails, PeerCloses, Lost, ConnType, Signals, Open
  <2> QED BY <2>1 DEF SocketInv, Watched, Writing, Moves, InFlight, Rings
<1>3. CASE PeerVanishes
  <2>1. /\ conn'.sock = "silent" /\ conn.sock = "connected" /\ Signals(conn') = Signals(conn)
        /\ conn'.timer = conn.timer /\ conn'.reads = conn.reads /\ conn'.writes = conn.writes
        /\ conn'.write_is_active = conn.write_is_active
        /\ conn'.write_queue = conn.write_queue
    BY <1>3 DEF PeerVanishes, Lost, ConnType, Signals
  <2> QED BY <2>1 DEF SocketInv, Watched, Writing, Moves, InFlight, Rings, Open
<1> QED BY <1>1, <1>2, <1>3, ReadsSocket, WritesSocket DEF Network

-------------------------------------------------------------------------------
SocketOK == SocketInv(conn)

LEMMA SocketCorrect == Spec => []SocketOK
<1>1. Init => SocketOK
  <2> SUFFICES ASSUME Init PROVE SocketOK OBVIOUS
  <2>1. conn.sock = "closed" BY DEF Init, NewConn
  <2> QED BY <2>1 DEF SocketOK, SocketInv, Watched, Writing, Moves, Open
<1>2. TypeOK /\ SocketOK /\ [Next]_vars => SocketOK'
  <2> SUFFICES ASSUME TypeOK, SocketOK, [Next]_vars PROVE SocketOK' OBVIOUS
  <2>1. CASE UNCHANGED vars BY <2>1 DEF SocketOK, vars
  <2>2. CASE Next
    <3>1. conn \in ConnType /\ SocketInv(conn) BY DEF TypeOK, SocketOK
    <3>2. SocketInv(conn')
      BY <2>2, <3>1, OnConnectSocket, OnReadDataSocket, OnReadErrorSocket, OnWriteDoneSocket,
         OnWriteErrorSocket, OnTimeoutSocket, TimerHandlersSocket, UserStepSocket,
         ClockSocket, NetworkSocket DEF Next, RunHandler
    <3> QED BY <3>2 DEF SocketOK
  <2> QED BY <2>1, <2>2
<1> QED BY <1>1, <1>2, TypeCorrect, PTL DEF Spec

\* A signal is what Queued looks for.
LEMMA SignalQueued ==
  ASSUME NEW h, NEW ec, <<h, ec>> \in Signals(conn), NEW ecs, ec \in ecs PROVE Queued(h, ecs)
<1>1. PICK q \in {conn.ready, conn.posted} : <<h, ec>> \in SignalsOf(q) BY DEF Signals
<1>2. PICK k \in DOMAIN q : <<h, ec>> = <<q[k].h, q[k].ec>> BY <1>1 DEF SignalsOf, Signal
<1>3. q[k].h = h /\ q[k].ec \in ecs BY <1>2
<1> QED BY <1>1, <1>3 DEF Queued

LEMMA AlarmQueued ==
  ASSUME Rings(conn, Alarms) PROVE Reconnects \/ Queued("onConnect", {"ok"})
  BY SignalQueued DEF Rings, Alarms, Reconnects

(***************************************************************************)
(* An open socket is never left alone: a read, the connect timer or a      *)
(* queued completion will notice its end, whatever completions of sockets  *)
(* already replaced are handled meanwhile (onConnect, onRead, reconnect).  *)
(***************************************************************************)
THEOREM OpenSocketWatched == Spec => []SocketWatched
<1>1. SocketOK => SocketWatched
  <2> SUFFICES ASSUME SocketOK, Open(conn), ~(conn.reads > 0), conn.timer # "armed"
               PROVE  Reconnects \/ Queued("onConnect", {"ok"}) \/ Queued("onRead", {"ok"})
    BY DEF SocketWatched
  <2>1. Rings(conn, Alarms) \/ Rings(conn, {<<"onRead", "ok">>})
    BY DEF SocketOK, SocketInv, Watched
  <2> QED BY <2>1, AlarmQueued, SignalQueued DEF Rings
<1> QED BY <1>1, SocketCorrect, PTL

(***************************************************************************)
(* No packet of write_queue is stranded on an open socket, though          *)
(* write_is_active may be false with a write in flight and a call of       *)
(* Write() may clear it without starting one (ensureWriteBuffer).          *)
(***************************************************************************)
THEOREM QueueNeverStranded == Spec => []QueueMoves
<1>1. SocketOK => QueueMoves
  <2> SUFFICES ASSUME SocketOK, Open(conn), conn.write_queue # <<>>, conn.writes = <<>>,
                      conn.sock \notin {"connecting", "dead"}, conn.timer # "armed"
               PROVE  \/ Queued("onWrite", {"ok", "epipe", "error"})
                      \/ Reconnects \/ Queued("onConnect", {"ok"})
    BY DEF QueueMoves
  <2>1. Rings(conn, WriteEnds) \/ Rings(conn, Alarms)
    BY DEF SocketOK, SocketInv, Moves, InFlight
  <2> QED BY <2>1, AlarmQueued, SignalQueued DEF Rings, WriteEnds
<1> QED BY <1>1, SocketCorrect, PTL

-------------------------------------------------------------------------------
(***************************************************************************)
(* How often something is in a sequence: never, once, or more often (2).   *)
(***************************************************************************)
Places(q, X) == {k \in DOMAIN q : q[k] \in X}
HowMany(P) == IF P = {} THEN 0 ELSE IF \E k : P = {k} THEN 1 ELSE 2
Tally(q, X) == HowMany(Places(q, X))

LEMMA HowManyTyped == \A P : HowMany(P) \in 0..2 BY DEF HowMany

LEMMA HowManyOne ==
  ASSUME NEW P, HowMany(P) = 1 PROVE \E k : P = {k}
<1>1. P = {} => HowMany(P) = 0 BY DEF HowMany
<1>2. ASSUME ~ \E k : P = {k}, P # {} PROVE HowMany(P) = 2
  <2>1. HowMany(P) = IF \E k : P = {k} THEN 1 ELSE 2 BY <1>2, Zenon DEF HowMany
  <2> QED BY <1>2, <2>1, Zenon
<1> QED BY <1>1, <1>2

LEMMA HowManyShift ==
  ASSUME NEW P, NEW R, P \subseteq Int, NEW n \in Int, R = {k + n : k \in P}
  PROVE  HowMany(R) = HowMany(P)
<1>1. \A k \in P : k + n \in R OBVIOUS
<1>2. \A j \in R : j - n \in P /\ j \in Int
  <2> SUFFICES ASSUME NEW j \in R PROVE j - n \in P /\ j \in Int OBVIOUS
  <2>1. PICK k \in P : j = k + n OBVIOUS
  <2>2. k \in Int /\ j - n = k BY <2>1
  <2> QED BY <2>1, <2>2
<1>3. P = {} <=> R = {} BY <1>1, <1>2
<1>4. ASSUME NEW k, P = {k} PROVE R = {k + n} BY <1>4
<1>5. ASSUME NEW j, R = {j} PROVE P = {j - n}
  <2>1. j - n \in P /\ j \in Int BY <1>2, <1>5
  <2>2. \A k \in P : k + n = j BY <1>1, <1>5
  <2>3. \A k \in P : k = j - n BY <2>1, <2>2
  <2> QED BY <2>1, <2>3
<1> QED BY <1>3, <1>4, <1>5 DEF HowMany

LEMMA TallyEmpty == \A X : Tally(<<>>, X) = 0
  BY DEF Tally, HowMany, Places

LEMMA TallyAppend ==
  ASSUME NEW S, NEW q \in Seq(S), NEW e \in S, NEW X
  PROVE  /\ e \notin X => Tally(Append(q, e), X) = Tally(q, X)
         /\ e \in X /\ Tally(q, X) = 0 => Tally(Append(q, e), X) = 1
<1> DEFINE a == Append(q, e)
<1>1. /\ DOMAIN q = 1..Len(q) /\ Len(q) \in Nat /\ DOMAIN a = 1..(Len(q) + 1)
      /\ a[Len(q) + 1] = e /\ \A k \in 1..Len(q) : a[k] = q[k]
  BY AppendProperties
<1> HIDE DEF a
<1>2. Places(a, X) = Places(q, X) \cup (IF e \in X THEN {Len(q) + 1} ELSE {})
  <2>1. \A k \in DOMAIN a : k \in DOMAIN q \/ k = Len(q) + 1 BY <1>1
  <2>2. \A k \in DOMAIN q : k \in DOMAIN a /\ a[k] = q[k] BY <1>1
  <2>3. Len(q) + 1 \in DOMAIN a BY <1>1
  <2> QED BY <1>1, <2>1, <2>2, <2>3 DEF Places
<1>3. Tally(q, X) = 0 => Places(q, X) = {} BY DEF Tally, HowMany
<1>4. HowMany({Len(q) + 1}) = 1 BY DEF HowMany
<1>5. CASE e \in X
  <2>1. Tally(q, X) = 0 => Places(a, X) = {Len(q) + 1} BY <1>2, <1>3, <1>5
  <2> QED BY <1>4, <1>5, <2>1 DEF Tally, a
<1>6. CASE e \notin X
  <2>1. Places(a, X) = Places(q, X) BY <1>2, <1>6
  <2> QED BY <1>6, <2>1 DEF Tally, a
<1> QED BY <1>5, <1>6

LEMMA TallyTail ==
  ASSUME NEW S, NEW q \in Seq(S), q # <<>>, NEW X
  PROVE  /\ Head(q) \notin X => Tally(Tail(q), X) = Tally(q, X)
         /\ Head(q) \in X /\ Tally(q, X) = 1 => Tally(Tail(q), X) = 0
<1> DEFINE t == Tail(q)
           rest == Places(q, X) \ {1}
<1>1. /\ DOMAIN q = 1..Len(q) /\ Len(q) \in Nat /\ Len(q) > 0
      /\ DOMAIN t = 1..(Len(q) - 1) /\ \A k \in 1..(Len(q) - 1) : t[k] = q[k + 1]
      /\ Head(q) = q[1]
  BY HeadTailProperties
<1> HIDE DEF t
<1>2. Places(t, X) = {k + (-1) : k \in rest}
  <2>1. ASSUME NEW k \in Places(t, X) PROVE \E j \in rest : k = j + (-1)
    <3>1. k \in 1..(Len(q) - 1) /\ q[k + 1] \in X BY <1>1, <2>1 DEF Places
    <3>2. k + 1 \in 1..Len(q) /\ k + 1 # 1 /\ k = (k + 1) + (-1) BY <1>1, <3>1
    <3> QED BY <1>1, <3>1, <3>2 DEF Places
  <2>2. ASSUME NEW j \in rest PROVE j + (-1) \in Places(t, X)
    <3>1. j \in 1..Len(q) /\ j # 1 /\ q[j] \in X BY <1>1, <2>2 DEF Places
    <3>2. j + (-1) \in 1..(Len(q) - 1) /\ (j + (-1)) + 1 = j BY <1>1, <3>1
    <3> QED BY <1>1, <3>1, <3>2 DEF Places
  <2> QED BY <2>1, <2>2
<1>3. rest \subseteq Int BY <1>1 DEF Places
<1>4. Tally(t, X) = HowMany(rest)
  <2>1. \E n \in Int : Places(t, X) = {k + n : k \in rest} BY <1>2
  <2> HIDE DEF rest
  <2> QED BY <1>3, <2>1, HowManyShift DEF Tally
<1>5. CASE Head(q) \notin X
  <2>1. rest = Places(q, X) BY <1>1, <1>5 DEF Places
  <2> QED BY <1>4, <1>5, <2>1 DEF Tally, t
<1>6. CASE Head(q) \in X
  <2>1. 1 \in Places(q, X) BY <1>1, <1>6 DEF Places
  <2>2. Tally(q, X) = 1 => \E k : Places(q, X) = {k} BY HowManyOne DEF Tally
  <2>3. Tally(q, X) = 1 => rest = {} BY <2>1, <2>2
  <2> QED BY <1>4, <1>6, <2>3 DEF HowMany, t
<1> QED BY <1>5, <1>6

LEMMA TallyConcat ==
  ASSUME NEW S, NEW q \in Seq(S), NEW t \in Seq(S), NEW X
  PROVE  /\ Tally(q, X) = 0 => Tally(q \o t, X) = Tally(t, X)
         /\ Tally(t, X) = 0 => Tally(q \o t, X) = Tally(q, X)
<1> DEFINE c == q \o t
           moved == {k + Len(q) : k \in Places(t, X)}
<1>1. /\ DOMAIN q = 1..Len(q) /\ Len(q) \in Nat /\ DOMAIN t = 1..Len(t) /\ Len(t) \in Nat
      /\ DOMAIN c = 1..(Len(q) + Len(t))
      /\ \A k \in 1..(Len(q) + Len(t)) : c[k] = IF k <= Len(q) THEN q[k] ELSE t[k - Len(q)]
  BY ConcatProperties
<1> HIDE DEF c
<1>2. ASSUME NEW k \in Places(c, X) PROVE k \in Places(q, X) \cup moved
  <2>1. k \in 1..(Len(q) + Len(t)) /\ c[k] \in X BY <1>1 DEF Places
  <2>2. CASE k <= Len(q)
    <3>1. k \in DOMAIN q /\ q[k] \in X BY <1>1, <2>1, <2>2
    <3> QED BY <3>1 DEF Places
  <2>3. CASE k > Len(q)
    <3>1. k - Len(q) \in DOMAIN t /\ t[k - Len(q)] \in X /\ k = (k - Len(q)) + Len(q)
      BY <1>1, <2>1, <2>3
    <3> QED BY <3>1 DEF Places
  <2> QED BY <1>1, <2>1, <2>2, <2>3
<1>3. ASSUME NEW k \in Places(q, X) PROVE k \in Places(c, X)
  <2>1. k \in 1..Len(q) /\ q[k] \in X BY <1>1 DEF Places
  <2>2. k \in 1..(Len(q) + Len(t)) /\ k <= Len(q) BY <1>1, <2>1
  <2> QED BY <1>1, <2>1, <2>2 DEF Places
<1>4. ASSUME NEW j \in Places(t, X) PROVE j + Len(q) \in Places(c, X)
  <2>1. j \in 1..Len(t) /\ t[j] \in X BY <1>1 DEF Places
  <2>2. /\ j + Len(q) \in 1..(Len(q) + Len(t)) /\ ~(j + Len(q) <= Len(q))
        /\ (j + Len(q)) - Len(q) = j
    BY <1>1, <2>1
  <2> QED BY <1>1, <2>1, <2>2 DEF Places
<1>5. Places(c, X) = Places(q, X) \cup moved BY <1>2, <1>3, <1>4
<1>6. Places(t, X) \subseteq Int BY <1>1 DEF Places
<1>7. HowMany(moved) = Tally(t, X) /\ (Places(t, X) = {} => moved = {})
  <2>1. Len(q) \in Int /\ moved = {k + Len(q) : k \in Places(t, X)} BY <1>1
  <2>2. Places(t, X) = {} => moved = {} OBVIOUS
  <2> HIDE DEF moved
  <2>3. HowMany(moved) = HowMany(Places(t, X)) BY <1>6, <2>1, HowManyShift
  <2> QED BY <2>2, <2>3 DEF Tally
<1>8. \A P : HowMany(P) = 0 => P = {} BY DEF HowMany
<1> HIDE DEF moved
<1>9. ASSUME Tally(q, X) = 0 PROVE Places(c, X) = moved BY <1>5, <1>8, <1>9 DEF Tally
<1>10. ASSUME Tally(t, X) = 0 PROVE Places(c, X) = Places(q, X)
  BY <1>5, <1>7, <1>8, <1>10 DEF Tally
<1> QED BY <1>7, <1>9, <1>10 DEF Tally, c

LEMMA TallyHead ==
  ASSUME NEW S, NEW q \in Seq(S), q # <<>>, NEW X, Head(q) \in X PROVE Tally(q, X) # 0
<1>1. 1 \in DOMAIN q /\ q[1] = Head(q) OBVIOUS
<1>2. Places(q, X) # {} BY <1>1 DEF Places
<1> QED BY <1>2 DEF Tally, HowMany

-------------------------------------------------------------------------------
(***************************************************************************)
(* How many hold a packet.  `loose': packets the running handler has in    *)
(* its hand (wr_buf).                                                      *)
(***************************************************************************)
WriteOf(pkt) == {e \in Completion : e.h = "onWrite" /\ e.arg = pkt}
Held(c, pkt) == Tally(c.write_queue, {pkt}) + Tally(c.writes, {pkt})
                + Tally(c.ready, WriteOf(pkt)) + Tally(c.posted, WriteOf(pkt))

OwnInv(c, loose) ==
  /\ \A pkt \in Packets : Held(c, pkt) = IF pkt \in c.live \ loose THEN 1 ELSE 0
  /\ loose \subseteq c.live
  /\ c.live \subseteq c.written \cup Pings

Single(c) == \A pkt \in Packets : Held(c, pkt) \in 0..1

\* Nobody gets or loses a packet, but one holder may hand it to another.
Holds(c, d) ==
  /\ d.live = c.live /\ c.written \subseteq d.written
  /\ \A pkt \in Packets : Held(d, pkt) = Held(c, pkt)

LEMMA OwnSingle == ASSUME NEW c, NEW loose, OwnInv(c, loose) PROVE Single(c)
  BY DEF OwnInv, Single

LEMMA HoldsInv ==
  ASSUME NEW c, NEW d, NEW loose, OwnInv(c, loose), Holds(c, d) PROVE OwnInv(d, loose)
  BY DEF OwnInv, Holds

LEMMA HoldsTrans == ASSUME NEW c, NEW d, NEW e, Holds(c, d), Holds(d, e) PROVE Holds(c, e)
  BY DEF Holds

LEMMA HoldsSingle == ASSUME NEW c, NEW d, Holds(c, d), Single(c) PROVE Single(d)
  BY DEF Holds, Single

LEMMA HoldsSame ==
  ASSUME NEW c, NEW d, d.live = c.live, c.written \subseteq d.written,
         d.write_queue = c.write_queue, d.writes = c.writes,
         d.ready = c.ready, d.posted = c.posted
  PROVE  Holds(c, d)
  BY DEF Holds, Held

\* The four holders of a packet, and that at most one of them has it.
LEMMA HeldParts ==
  ASSUME NEW c, NEW pkt \in Packets
  PROVE  /\ Tally(c.write_queue, {pkt}) \in 0..2 /\ Tally(c.writes, {pkt}) \in 0..2
         /\ Tally(c.ready, WriteOf(pkt)) \in 0..2 /\ Tally(c.posted, WriteOf(pkt)) \in 0..2
  BY HowManyTyped DEF Tally

\* A completion that is not a write's is posted.
LEMMA HoldsPost ==
  ASSUME NEW c \in ConnType, NEW d, NEW e \in Completion, e.h # "onWrite",
         d.live = c.live, c.written \subseteq d.written,
         d.write_queue = c.write_queue, d.writes = c.writes,
         d.ready = c.ready, d.posted = Append(c.posted, e)
  PROVE  Holds(c, d)
<1>1. c.posted \in Seq(Completion) BY DEF ConnType
<1>2. ASSUME NEW pkt \in Packets PROVE Held(d, pkt) = Held(c, pkt)
  <2>1. e \notin WriteOf(pkt) BY DEF WriteOf
  <2>2. Tally(d.posted, WriteOf(pkt)) = Tally(c.posted, WriteOf(pkt)) BY <1>1, <2>1, TallyAppend
  <2> QED BY <2>2 DEF Held
<1> QED BY <1>2 DEF Holds

\* The writes in flight on a socket that is closed.
LEMMA TallyAborted ==
  ASSUME NEW c \in ConnType, NEW pkt \in Packets
  PROVE  Tally(Aborted(c), WriteOf(pkt)) = Tally(c.writes, {pkt})
<1> DEFINE rd == [i \in 1..c.reads |-> Done("onRead", "aborted", None)]
           wr == [i \in 1..Len(c.writes) |-> Done("onWrite", "aborted", c.writes[i])]
<1>1. c.reads \in Nat /\ c.writes \in Seq(Packets) /\ Len(c.writes) \in Nat
      /\ DOMAIN c.writes = 1..Len(c.writes)
  BY DEF ConnType
<1>2. rd \in Seq(Completion)
  <2>1. Done("onRead", "aborted", None) \in Completion BY DEF Done, Completion
  <2>2. rd \in [1..c.reads -> Completion] BY <2>1
  <2> QED BY <1>1, <2>2, SeqDef
<1>3. \A i \in 1..Len(c.writes) : c.writes[i] \in Packets BY <1>1
<1>4. wr \in Seq(Completion)
  <2>1. \A i \in 1..Len(c.writes) : Done("onWrite", "aborted", c.writes[i]) \in Completion
    BY <1>3 DEF Done, Completion
  <2>2. wr \in [1..Len(c.writes) -> Completion] BY <2>1
  <2> QED BY <1>1, <2>2, SeqDef
<1>5. Tally(rd, WriteOf(pkt)) = 0
  <2>1. \A k \in DOMAIN rd : rd[k] \notin WriteOf(pkt) BY DEF WriteOf, Done
  <2>2. Places(rd, WriteOf(pkt)) = {} BY <2>1 DEF Places
  <2> QED BY <2>2 DEF Tally, HowMany
<1>6. Tally(wr, WriteOf(pkt)) = Tally(c.writes, {pkt})
  <2>1. DOMAIN wr = DOMAIN c.writes BY <1>1
  <2>2. ASSUME NEW k \in DOMAIN wr PROVE wr[k] \in WriteOf(pkt) <=> c.writes[k] \in {pkt}
    <3>1. wr[k] = Done("onWrite", "aborted", c.writes[k]) BY <2>2
    <3>2. wr[k] \in Completion BY <1>3, <2>2, <3>1 DEF Done, Completion
    <3>3. wr[k].h = "onWrite" /\ wr[k].arg = c.writes[k] BY <3>1 DEF Done
    <3> HIDE DEF wr
    <3> QED BY <3>2, <3>3 DEF WriteOf
  <2> HIDE DEF wr
  <2>3. Places(wr, WriteOf(pkt)) = Places(c.writes, {pkt}) BY <2>1, <2>2 DEF Places
  <2> QED BY <2>3 DEF Tally
<1>7. Aborted(c) = rd \o wr BY DEF Aborted
<1> HIDE DEF rd, wr
<1> QED BY <1>2, <1>4, <1>5, <1>6, <1>7, TallyConcat

LEMMA CloseHolds ==
  ASSUME NEW c \in ConnType, Single(c) PROVE Holds(c, Close(c))
<1> DEFINE d == Close(c)
<1>1. /\ d.live = c.live /\ d.written = c.written /\ d.write_queue = c.write_queue
      /\ d.writes = <<>> /\ d.ready = c.ready /\ d.posted = c.posted \o Aborted(c)
  BY DEF Close, ConnType
<1> HIDE DEF d
<1>2. c.posted \in Seq(Completion) /\ Aborted(c) \in Seq(Completion) BY AbortedType DEF ConnType
<1>3. ASSUME NEW pkt \in Packets PROVE Held(d, pkt) = Held(c, pkt)
  <2> DEFINE p == Tally(c.posted, WriteOf(pkt))
             w == Tally(c.writes, {pkt})
             q == Tally(c.write_queue, {pkt})
             r == Tally(c.ready, WriteOf(pkt))
             n == Tally(d.posted, WriteOf(pkt))
  <2>1. Tally(Aborted(c), WriteOf(pkt)) = w BY TallyAborted
  <2>2. (p = 0 => n = w) /\ (w = 0 => n = p) BY <1>1, <1>2, <2>1, TallyConcat
  <2>3. Tally(d.writes, {pkt}) = 0 BY <1>1, TallyEmpty
  <2>4. p \in 0..2 /\ w \in 0..2 /\ q \in 0..2 /\ r \in 0..2 BY HeldParts
  <2>5. Held(c, pkt) = q + w + r + p /\ Held(c, pkt) \in 0..1 BY DEF Held, Single
  <2>6. Held(d, pkt) = q + 0 + r + n BY <1>1, <2>3 DEF Held
  <2> HIDE DEF p, w, q, r, n
  <2> QED BY <2>2, <2>4, <2>5, <2>6
<1> QED BY <1>1, <1>3 DEF Holds, d

LEMMA BeginConnectHolds == ASSUME NEW c \in ConnType PROVE Holds(c, BeginConnect(c))
<1> DEFINE d == BeginConnect(c)
<1>1. /\ d.live = c.live /\ d.written = c.written /\ d.write_queue = c.write_queue
      /\ d.writes = c.writes /\ d.ready = c.ready /\ d.posted = c.posted
  BY DEF BeginConnect, ConnType
<1> HIDE DEF d
<1> QED BY <1>1, HoldsSame DEF d

LEMMA ReconnectHolds == ASSUME NEW c \in ConnType, Single(c) PROVE Holds(c, Reconnect(c))
  BY CloseType, CloseHolds, BeginConnectHolds, HoldsTrans DEF Reconnect

LEMMA CheckConnectHolds == ASSUME NEW c \in ConnType PROVE Holds(c, CheckConnect(c))
<1>1. Holds(c, c) BY DEF Holds
<1> QED BY <1>1, BeginConnectHolds DEF CheckConnect

LEMMA PostCallbacksHolds ==
  ASSUME NEW c \in ConnType, NEW d, NEW who, NEW code \in Results,
         d.live = c.live, d.written = c.written,
         d.write_queue = c.write_queue, d.writes = c.writes,
         d.ready = c.ready, d.posted = PostCallbacks(c, who, code)
  PROVE  Holds(c, d)
<1>1. Done("pingCb", code, None) \in Completion /\ Done("pingCb", code, None).h # "onWrite"
  BY DEF Done, Completion
<1> QED BY <1>1, HoldsPost, HoldsSame DEF PostCallbacks

LEMMA DismissHolds ==
  ASSUME NEW c \in ConnType, NEW code \in Results PROVE Holds(c, DismissCallbacks(c, code))
<1> DEFINE d == DismissCallbacks(c, code)
<1>1. /\ d.live = c.live /\ d.written = c.written /\ d.write_queue = c.write_queue
      /\ d.writes = c.writes /\ d.ready = c.ready
      /\ d.posted = PostCallbacks(c, Waiting(c), code)
  BY DEF DismissCallbacks, ConnType
<1> HIDE DEF d
<1> QED BY <1>1, PostCallbacksHolds DEF d

LEMMA InvokeHolds ==
  ASSUME NEW c \in ConnType, NEW sync, NEW code \in Results
  PROVE  Holds(c, InvokeCallback(c, sync, code))
<1> DEFINE d == InvokeCallback(c, sync, code)
           who == {c.callbacks_map[sync]} \ {None}
<1>1. /\ d.live = c.live /\ d.written = c.written /\ d.write_queue = c.write_queue
      /\ d.writes = c.writes /\ d.ready = c.ready
      /\ d.posted = PostCallbacks(c, who, code)
  BY DEF InvokeCallback, ConnType
<1> HIDE DEF d, who
<1> QED BY <1>1, PostCallbacksHolds DEF d

LEMMA ReadMoreHolds == ASSUME NEW c \in ConnType PROVE Holds(c, ReadMore(c))
<1> DEFINE d == ReadMore(c)
<1>1. /\ d.live = c.live /\ d.written = c.written /\ d.write_queue = c.write_queue
      /\ d.writes = c.writes /\ d.ready = c.ready /\ d.posted = c.posted
  BY DEF ReadMore, ConnType
<1> HIDE DEF d
<1> QED BY <1>1, HoldsSame DEF d

\* The first packet of the queue goes to the socket, or fails at once on a closed one.
LEMMA StartWriteHolds ==
  ASSUME NEW c \in ConnType, c.write_queue # <<>>, Single(c) PROVE Holds(c, StartWrite(c))
<1> DEFINE d == StartWrite(c)
           wr == Head(c.write_queue)
           e == Done("onWrite", "error", wr)
<1>1. /\ d.live = c.live /\ d.written = c.written /\ d.ready = c.ready
      /\ d.write_queue = Tail(c.write_queue)
      /\ d.writes = IF Open(c) THEN Append(c.writes, wr) ELSE c.writes
      /\ d.posted = IF Open(c) THEN c.posted ELSE Append(c.posted, e)
  BY DEF StartWrite, ConnType
<1>2. /\ wr \in Packets /\ c.write_queue \in Seq(Packets) /\ c.writes \in Seq(Packets)
      /\ c.posted \in Seq(Completion)
  BY DEF ConnType
<1>3. e \in Completion BY <1>2 DEF Done, Completion
<1>4. \A pkt \in Packets : e \in WriteOf(pkt) <=> pkt = wr BY <1>3 DEF WriteOf, Done
<1> HIDE DEF d, e
<1>5. ASSUME NEW pkt \in Packets PROVE Held(d, pkt) = Held(c, pkt)
  <2> DEFINE p == Tally(c.posted, WriteOf(pkt))
             w == Tally(c.writes, {pkt})
             q == Tally(c.write_queue, {pkt})
             r == Tally(c.ready, WriteOf(pkt))
  <2>1. p \in 0..2 /\ w \in 0..2 /\ q \in 0..2 /\ r \in 0..2 BY HeldParts
  <2>2. Held(c, pkt) = q + w + r + p /\ Held(c, pkt) \in 0..1 BY DEF Held, Single
  <2>3. Held(d, pkt) = Tally(Tail(c.write_queue), {pkt}) + Tally(d.writes, {pkt}) + r
                       + Tally(d.posted, WriteOf(pkt))
    BY <1>1 DEF Held
  <2>4. CASE pkt = wr
    <3>1. q # 0 BY <1>2, <2>4, TallyHead
    <3>2. q = 1 /\ w = 0 /\ r = 0 /\ p = 0
      <4> HIDE DEF p, w, q, r
      <4> QED BY <2>1, <2>2, <3>1
    <3>3. Tally(Tail(c.write_queue), {pkt}) = 0 BY <1>2, <2>4, <3>2, TallyTail
    <3>4. CASE Open(c)
      <4>1. Tally(d.writes, {pkt}) = 1 BY <1>1, <1>2, <2>4, <3>2, <3>4, TallyAppend
      <4>2. Tally(d.posted, WriteOf(pkt)) = 0 BY <1>1, <3>2, <3>4
      <4> HIDE DEF p, w, q, r
      <4> QED BY <2>2, <2>3, <3>2, <3>3, <4>1, <4>2
    <3>5. CASE ~Open(c)
      <4>1. Tally(d.writes, {pkt}) = 0 BY <1>1, <3>2, <3>5
      <4>2. Tally(d.posted, WriteOf(pkt)) = 1
        BY <1>1, <1>2, <1>3, <1>4, <2>4, <3>2, <3>5, TallyAppend
      <4> HIDE DEF p, w, q, r
      <4> QED BY <2>2, <2>3, <3>2, <3>3, <4>1, <4>2
    <3> QED BY <3>4, <3>5
  <2>5. CASE pkt # wr
    <3>1. Tally(Tail(c.write_queue), {pkt}) = q BY <1>2, <2>5, TallyTail
    <3>2. Tally(d.writes, {pkt}) = w BY <1>1, <1>2, <2>5, TallyAppend
    <3>3. e \notin WriteOf(pkt) BY <1>4, <2>5
    <3>4. Tally(d.posted, WriteOf(pkt)) = p BY <1>1, <1>2, <1>3, <3>3, TallyAppend
    <3> HIDE DEF p, w, q, r
    <3> QED BY <2>2, <2>3, <3>1, <3>2, <3>4
  <2> QED BY <2>4, <2>5
<1> QED BY <1>1, <1>5 DEF Holds, d

LEMMA EnsureWriteBufferHolds ==
  ASSUME NEW c \in ConnType, NEW finished, Single(c)
  PROVE  Holds(c, EnsureWriteBuffer(c, finished))
<1> DEFINE d == [c EXCEPT !.write_is_active = FALSE]
<1>1. /\ d.live = c.live /\ d.written = c.written /\ d.write_queue = c.write_queue
      /\ d.writes = c.writes /\ d.ready = c.ready /\ d.posted = c.posted
  BY DEF ConnType
<1>2. \/ EnsureWriteBuffer(c, finished) = d
      \/ c.write_queue # <<>> /\ EnsureWriteBuffer(c, finished) = StartWrite(c)
  BY DEF EnsureWriteBuffer
<1> HIDE DEF d
<1>3. Holds(c, d) BY <1>1, HoldsSame
<1> QED BY <1>2, <1>3, StartWriteHolds DEF d


\* A packet nobody has is put at the end of the queue: by its writer, or by the
\* handler that has it in its hand.
LEMMA QueuedOwn ==
  ASSUME NEW c \in ConnType, NEW d, NEW pkt \in Packets, NEW loose, OwnInv(c, loose),
         pkt \in loose \/ pkt \notin c.live, pkt \in c.written \cup Pings,
         loose \subseteq {pkt},
         d.write_queue = Append(c.write_queue, pkt), d.live = c.live \cup {pkt},
         d.writes = c.writes, d.ready = c.ready, d.posted = c.posted, d.written = c.written
  PROVE  OwnInv(d, {})
<1>1. c.write_queue \in Seq(Packets) BY DEF ConnType
<1>2. ASSUME NEW i \in Packets PROVE Held(d, i) = IF i \in d.live THEN 1 ELSE 0
  <2> DEFINE p == Tally(c.posted, WriteOf(i))
             w == Tally(c.writes, {i})
             q == Tally(c.write_queue, {i})
             r == Tally(c.ready, WriteOf(i))
             n == Tally(d.write_queue, {i})
  <2>1. p \in 0..2 /\ w \in 0..2 /\ q \in 0..2 /\ r \in 0..2 BY HeldParts
  <2>2. Held(c, i) = q + w + r + p /\ Held(d, i) = n + w + r + p BY DEF Held
  <2>3. Held(c, i) = IF i \in c.live \ loose THEN 1 ELSE 0 BY DEF OwnInv
  <2>4. CASE i = pkt
    <3>1. Held(c, i) = 0 BY <2>3, <2>4
    <3>2. q = 0 /\ w = 0 /\ r = 0 /\ p = 0
      <4> HIDE DEF p, w, q, r
      <4> QED BY <2>1, <2>2, <3>1
    <3>3. n = 1 BY <1>1, <2>4, <3>2, TallyAppend
    <3>4. i \in d.live BY <2>4
    <3> HIDE DEF p, w, q, r, n
    <3> QED BY <2>2, <3>2, <3>3, <3>4
  <2>5. CASE i # pkt
    <3>1. n = q BY <1>1, <2>5, TallyAppend
    <3>2. i \in d.live <=> i \in c.live \ loose BY <2>5
    <3> HIDE DEF p, w, q, r, n
    <3> QED BY <2>2, <2>3, <3>1, <3>2
  <2> QED BY <2>4, <2>5
<1>3. d.live \subseteq d.written \cup Pings BY DEF OwnInv
<1> QED BY <1>2, <1>3 DEF OwnInv

LEMMA DropPacketWriteOwn ==
  ASSUME NEW c \in ConnType, NEW pkt \in Packets, OwnInv(c, {}),
         pkt \notin c.live, pkt \in c.written \cup Pings
  PROVE  OwnInv(DropPacketWrite(c, pkt), {})
<1> DEFINE q == [c EXCEPT !.write_queue = Append(c.write_queue, pkt),
                          !.live = c.live \cup {pkt}]
<1>1. q \in ConnType
  <2>1. Append(c.write_queue, pkt) \in Seq(Packets) BY DEF ConnType
  <2>2. c.live \cup {pkt} \in SUBSET Packets BY DEF ConnType
  <2> QED BY <2>1, <2>2 DEF ConnType
<1>2. /\ q.write_queue = Append(c.write_queue, pkt) /\ q.live = c.live \cup {pkt}
      /\ q.writes = c.writes /\ q.ready = c.ready /\ q.posted = c.posted
      /\ q.written = c.written
  BY DEF ConnType
<1>3. DropPacketWrite(c, pkt) = IF Open(c) THEN EnsureWriteBuffer(q, FALSE) ELSE BeginConnect(q)
  BY DEF DropPacketWrite
<1> HIDE DEF q
<1>4. OwnInv(q, {}) BY <1>2, QueuedOwn
<1> QED BY <1>1, <1>3, <1>4, OwnSingle, EnsureWriteBufferHolds, BeginConnectHolds, HoldsInv

LEMMA WriteOwn ==
  ASSUME NEW c \in ConnType, NEW pkt \in Answered, OwnInv(c, {}),
         pkt \notin c.live, pkt \in c.written \cup Pings
  PROVE  OwnInv(Write(c, pkt), {})
<1> DEFINE d == Registered(c, pkt)
<1>1. d \in ConnType BY RegisteredType
<1>2. /\ d.live = c.live /\ d.written = c.written /\ d.write_queue = c.write_queue
      /\ d.writes = c.writes /\ d.ready = c.ready /\ d.posted = c.posted
  BY DEF Registered, ConnType
<1>3. Write(c, pkt) = DropPacketWrite(d, pkt) /\ pkt \in Packets
  BY DEF Write, Registered, Answered, Packets
<1> HIDE DEF d
<1>4. OwnInv(d, {}) BY <1>2, HoldsSame, HoldsInv
<1> QED BY <1>1, <1>2, <1>3, <1>4, DropPacketWriteOwn

\* A copy of the ping packet of which no trace is left is nobody's.
LEMMA UnusedPingFree ==
  ASSUME NEW c \in ConnType, NEW p \in UnusedPings(c), OwnInv(c, {}) PROVE p \notin c.live
<1>1. p \in Packets BY DEF UnusedPings, Packets
<1>2. Tally(c.write_queue, {p}) = 0 /\ Tally(c.writes, {p}) = 0
  BY DEF UnusedPings, Tally, Places, HowMany
<1>3. Tally(c.ready, WriteOf(p)) = 0 /\ Tally(c.posted, WriteOf(p)) = 0
  BY DEF UnusedPings, Mentions, Tally, Places, HowMany, WriteOf
<1>4. Held(c, p) = 0 BY <1>2, <1>3 DEF Held
<1> QED BY <1>1, <1>4 DEF OwnInv

LEMMA SetupPingOwn ==
  ASSUME NEW c \in ConnType, NEW p \in Pings, OwnInv(c, {}), p \notin c.live
  PROVE  OwnInv(SetupPing(c, p), {})
<1> DEFINE d == CheckConnect(c)
<1>1. d \in ConnType /\ Holds(c, d) /\ p \in Answered
  BY CheckConnectType, CheckConnectHolds DEF Answered
<1> HIDE DEF d
<1>2. OwnInv(d, {}) /\ p \notin d.live BY <1>1, HoldsInv DEF Holds
<1> QED BY <1>1, <1>2, WriteOwn DEF SetupPing, d

-------------------------------------------------------------------------------
(***************************************************************************)
(* The handlers.                                                           *)
(***************************************************************************)
OwnersOK == OwnInv(conn, {})

\* The handler of a write has the packet in its hand.
LEMMA TakenOwn ==
  ASSUME conn \in ConnType, conn.ready # <<>>, OwnersOK
  PROVE  /\ Head(conn.ready).h # "onWrite" => OwnInv(Taken, {})
         /\ Head(conn.ready).h = "onWrite" => OwnInv(Taken, {Arg}) /\ Arg \in Packets
<1> DEFINE e == Head(conn.ready)
<1>1. /\ Taken.live = conn.live /\ Taken.written = conn.written
      /\ Taken.write_queue = conn.write_queue /\ Taken.writes = conn.writes
      /\ Taken.ready = Tail(conn.ready) /\ Taken.posted = conn.posted
  BY DEF Taken, ConnType
<1>2. conn.ready \in Seq(Completion) /\ e \in Completion BY DEF ConnType
<1>3. e.h = "onWrite" => e.arg \in Packets BY <1>2 DEF Completion
<1>4. \A i \in Packets : e \in WriteOf(i) <=> e.h = "onWrite" /\ i = e.arg
  BY <1>2 DEF WriteOf
<1> DEFINE loose == IF e.h = "onWrite" THEN {e.arg} ELSE {}
<1> HIDE DEF e
<1>5. ASSUME NEW i \in Packets
      PROVE  /\ Held(Taken, i) = IF i \in conn.live \ loose THEN 1 ELSE 0
             /\ i \in loose => i \in conn.live
  <2> DEFINE p == Tally(conn.posted, WriteOf(i))
             w == Tally(conn.writes, {i})
             q == Tally(conn.write_queue, {i})
             r == Tally(conn.ready, WriteOf(i))
             n == Tally(Taken.ready, WriteOf(i))
  <2>1. p \in 0..2 /\ w \in 0..2 /\ q \in 0..2 /\ r \in 0..2 BY HeldParts
  <2>2. Held(conn, i) = q + w + r + p /\ Held(Taken, i) = q + w + n + p BY <1>1 DEF Held
  <2>3. Held(conn, i) = IF i \in conn.live THEN 1 ELSE 0 BY DEF OwnersOK, OwnInv
  <2>4. CASE i \in loose
    <3>1. Head(conn.ready) \in WriteOf(i) BY <1>4, <2>4 DEF e
    <3>2. r # 0 BY <1>2, <3>1, TallyHead
    <3>3. i \in conn.live /\ q = 0 /\ w = 0 /\ r = 1 /\ p = 0
      <4> HIDE DEF p, w, q, r
      <4> QED BY <2>1, <2>2, <2>3, <3>2
    <3>4. n = 0 BY <1>1, <1>2, <3>1, <3>3, TallyTail
    <3> HIDE DEF p, w, q, r, n, loose
    <3> QED BY <2>2, <2>4, <3>3, <3>4
  <2>5. CASE i \notin loose
    <3>1. Head(conn.ready) \notin WriteOf(i) BY <1>4, <2>5 DEF e
    <3>2. n = r BY <1>1, <1>2, <3>1, TallyTail
    <3> HIDE DEF p, w, q, r, n, loose
    <3> QED BY <2>2, <2>3, <2>5, <3>2
  <2> QED BY <2>4, <2>5
<1>6. loose \subseteq Packets BY <1>3
<1>7. Arg = e.arg BY DEF Arg, e
<1> HIDE DEF loose
<1>8. OwnInv(Taken, loose) BY <1>1, <1>5, <1>6 DEF OwnInv, OwnersOK
<1> QED BY <1>3, <1>7, <1>8 DEF loose, e

\* The packet in the handler's hand is freed.
LEMMA FreedOwn ==
  ASSUME NEW c \in ConnType, NEW pkt, OwnInv(c, {pkt})
  PROVE  OwnInv([c EXCEPT !.live = c.live \ {pkt}], {})
<1> DEFINE d == [c EXCEPT !.live = c.live \ {pkt}]
<1>1. /\ d.live = c.live \ {pkt} /\ d.written = c.written /\ d.write_queue = c.write_queue
      /\ d.writes = c.writes /\ d.ready = c.ready /\ d.posted = c.posted
  BY DEF ConnType
<1> HIDE DEF d
<1>2. \A i \in Packets : Held(d, i) = Held(c, i) BY <1>1 DEF Held
<1>3. OwnInv(d, {}) BY <1>1, <1>2 DEF OwnInv
<1> QED BY <1>3 DEF d

LEMMA OnConnectOwn ==
  ASSUME conn \in ConnType, OwnersOK, OnConnect PROVE OwnersOK'
<1> DEFINE c == [Taken EXCEPT !.timer = "idle"]
           d == ReadMore(c)
<1>1. conn.ready # <<>> /\ Head(conn.ready).h = "onConnect" BY DEF OnConnect, Next1
<1>2. Taken \in ConnType /\ OwnInv(Taken, {}) BY <1>1, TakenType, TakenOwn
<1>3. /\ c \in ConnType /\ c.live = Taken.live /\ c.written = Taken.written
      /\ c.write_queue = Taken.write_queue /\ c.writes = Taken.writes
      /\ c.ready = Taken.ready /\ c.posted = Taken.posted
  BY <1>2 DEF ConnType
<1>4. \/ conn' = c
      \/ \E p \in UnusedPings(c) : conn' = SetupPing(d, p)
      \/ conn' = EnsureWriteBuffer(d, FALSE)
  BY DEF OnConnect
<1> HIDE DEF c
<1>5. OwnInv(c, {}) BY <1>2, <1>3, HoldsSame, HoldsInv
<1>6. d \in ConnType /\ Holds(c, d) BY <1>3, ReadMoreType, ReadMoreHolds
<1>7. OwnInv(d, {}) BY <1>5, <1>6, HoldsInv
<1>8. ASSUME NEW p \in UnusedPings(c), conn' = SetupPing(d, p) PROVE OwnersOK'
  <2>1. p \notin c.live /\ p \in Pings BY <1>3, <1>5, UnusedPingFree DEF UnusedPings
  <2>2. p \notin d.live BY <1>6, <2>1 DEF Holds
  <2> HIDE DEF d
  <2> QED BY <1>6, <1>7, <1>8, <2>1, <2>2, SetupPingOwn DEF OwnersOK
<1>9. CASE conn' = EnsureWriteBuffer(d, FALSE)
  BY <1>6, <1>7, <1>9, OwnSingle, EnsureWriteBufferHolds, HoldsInv DEF OwnersOK
<1> QED BY <1>4, <1>5, <1>8, <1>9 DEF OwnersOK

LEMMA OnReadDataOwn ==
  ASSUME conn \in ConnType, OwnersOK, OnReadData PROVE OwnersOK'
<1> DEFINE c == IF Arg = None THEN Taken ELSE InvokeCallback(Taken, Arg, "CB_OK")
           e == Done("onRead", "error", None)
           x == [c EXCEPT !.posted = Append(c.posted, e)]
<1>1. conn.ready # <<>> /\ Head(conn.ready).h = "onRead" /\ Head(conn.ready).ec = "ok"
  BY DEF OnReadData, Next1, Ec
<1>2. Taken \in ConnType /\ Head(conn.ready) \in Completion /\ OwnInv(Taken, {})
  BY <1>1, TakenType, TakenOwn
<1>3. Arg \in Syncs \cup {None} BY <1>1, <1>2 DEF Completion, Arg
<1>4. c \in ConnType /\ OwnInv(c, {})
  BY <1>2, <1>3, InvokeCallbackType, InvokeHolds, HoldsInv DEF Results
<1>5. conn' = ReadMore(c) \/ conn' = c \/ conn' = x BY DEF OnReadData, ReadOnClosed
<1> HIDE DEF c
<1>6. e \in Completion /\ e.h # "onWrite" BY DEF Done, Completion
<1>7. OwnInv(x, {})
  <2>1. /\ x.live = c.live /\ x.written = c.written /\ x.write_queue = c.write_queue
        /\ x.writes = c.writes /\ x.ready = c.ready /\ x.posted = Append(c.posted, e)
    BY <1>4 DEF ConnType
  <2> HIDE DEF x, e
  <2> QED BY <1>4, <1>6, <2>1, HoldsPost, HoldsInv
<1> QED BY <1>4, <1>5, <1>7, ReadMoreHolds, HoldsInv DEF OwnersOK

LEMMA OnReadErrorOwn ==
  ASSUME conn \in ConnType, OwnersOK, OnReadError PROVE OwnersOK'
<1> DEFINE c == DismissCallbacks(Taken, "CB_ERR")
<1>1. conn.ready # <<>> /\ Head(conn.ready).h = "onRead" BY DEF OnReadError, Next1
<1>2. Taken \in ConnType /\ OwnInv(Taken, {}) BY <1>1, TakenType, TakenOwn
<1>3. c \in ConnType /\ OwnInv(c, {}) BY <1>2, DismissType, DismissHolds, HoldsInv DEF Results
<1>4. conn' = c \/ conn' = Reconnect(c) BY DEF OnReadError
<1> HIDE DEF c
<1> QED BY <1>3, <1>4, OwnSingle, ReconnectHolds, HoldsInv DEF OwnersOK

LEMMA OnWriteDoneOwn ==
  ASSUME conn \in ConnType, OwnersOK, OnWriteDone PROVE OwnersOK'
<1> DEFINE c == [Taken EXCEPT !.live = Taken.live \ {Arg}]
<1>1. conn.ready # <<>> /\ Head(conn.ready).h = "onWrite" BY DEF OnWriteDone, Next1
<1>2. Taken \in ConnType /\ OwnInv(Taken, {Arg}) BY <1>1, TakenType, TakenOwn
<1>3. c \in ConnType /\ OwnInv(c, {}) BY <1>2, FreedOwn DEF ConnType
<1>4. conn' = EnsureWriteBuffer(c, TRUE) BY DEF OnWriteDone
<1> HIDE DEF c
<1> QED BY <1>3, <1>4, OwnSingle, EnsureWriteBufferHolds, HoldsInv DEF OwnersOK

LEMMA OnWriteErrorOwn ==
  ASSUME conn \in ConnType, OwnersOK, OnWriteError PROVE OwnersOK'
<1>1. conn.ready # <<>> /\ Head(conn.ready).h = "onWrite" BY DEF OnWriteError, Next1
<1>2. Taken \in ConnType /\ OwnInv(Taken, {Arg}) /\ Arg \in Packets
  BY <1>1, TakenType, TakenOwn
<1>3. CASE \/ conn' = [DismissCallbacks(Taken, "CB_ERR") EXCEPT !.live = @ \ {Arg}]
           \/ conn' = [Reconnect(Taken) EXCEPT !.live = @ \ {Arg}]
  <2>1. \A c \in ConnType : OwnInv(c, {Arg}) => OwnInv([c EXCEPT !.live = @ \ {Arg}], {})
    BY FreedOwn
  <2>2. DismissCallbacks(Taken, "CB_ERR") \in ConnType
        /\ OwnInv(DismissCallbacks(Taken, "CB_ERR"), {Arg})
    BY <1>2, DismissType, DismissHolds, HoldsInv DEF Results
  <2>3. Reconnect(Taken) \in ConnType /\ OwnInv(Reconnect(Taken), {Arg})
    BY <1>2, OwnSingle, ReconnectType, ReconnectHolds, HoldsInv
  <2> QED BY <1>3, <2>1, <2>2, <2>3 DEF OwnersOK
<1>4. CASE conn' = Reconnect([Taken EXCEPT !.write_queue = Append(@, Arg)])
  <2> DEFINE c == [Taken EXCEPT !.write_queue = Append(Taken.write_queue, Arg)]
  <2>1. Append(Taken.write_queue, Arg) \in Seq(Packets) BY <1>2 DEF ConnType
  <2>2. /\ c \in ConnType /\ c.write_queue = Append(Taken.write_queue, Arg)
        /\ c.live = Taken.live /\ c.writes = Taken.writes /\ c.ready = Taken.ready
        /\ c.posted = Taken.posted /\ c.written = Taken.written
    BY <1>2, <2>1 DEF ConnType
  <2>3. Arg \in Taken.live /\ Arg \in Taken.written \cup Pings BY <1>2 DEF OwnInv
  <2>4. conn' = Reconnect(c) BY <1>4
  <2> HIDE DEF c
  <2>5. c.live = Taken.live \cup {Arg} BY <2>2, <2>3
  <2>6. OwnInv(c, {}) BY <1>2, <2>2, <2>3, <2>5, QueuedOwn
  <2> QED BY <2>2, <2>4, <2>6, OwnSingle, ReconnectHolds, HoldsInv DEF OwnersOK
<1> QED BY <1>3, <1>4 DEF OnWriteError

LEMMA OnTimeoutOwn ==
  ASSUME conn \in ConnType, OwnersOK, OnTimeout PROVE OwnersOK'
<1> DEFINE c == [Taken EXCEPT !.req_timer[Arg] = "idle"]
<1>1. conn.ready # <<>> /\ Head(conn.ready).h = "onTimeout" BY DEF OnTimeout, Next1
<1>2. Taken \in ConnType /\ OwnInv(Taken, {}) BY <1>1, TakenType, TakenOwn
<1>3. Head(conn.ready) \in Completion BY <1>1, TakenType
<1>4. Arg \in Answered BY <1>1, <1>3 DEF Completion, Arg
<1>5. /\ c \in ConnType /\ c.live = Taken.live /\ c.written = Taken.written
      /\ c.write_queue = Taken.write_queue /\ c.writes = Taken.writes
      /\ c.ready = Taken.ready /\ c.posted = Taken.posted
  BY <1>2, <1>4 DEF ConnType
<1>6. conn' = InvokeCallback(c, SyncOf[Arg], "CB_TIMEOUT") BY DEF OnTimeout
<1> HIDE DEF c
<1>7. OwnInv(c, {}) BY <1>2, <1>5, HoldsSame, HoldsInv
<1> QED BY <1>5, <1>6, <1>7, InvokeHolds, HoldsInv DEF OwnersOK, Results

LEMMA TimerHandlersOwn ==
  ASSUME conn \in ConnType, OwnersOK, ReconnectByTimer \/ PingByTimer \/ PingCb
  PROVE  OwnersOK'
<1>1. conn.ready # <<>> /\ Head(conn.ready).h # "onWrite"
  BY DEF ReconnectByTimer, PingByTimer, PingCb, Next1
<1>2. Taken \in ConnType /\ OwnInv(Taken, {}) BY <1>1, TakenType, TakenOwn
<1>3. CASE conn' = Reconnect(Taken)
  BY <1>2, <1>3, OwnSingle, ReconnectHolds, HoldsInv DEF OwnersOK
<1>4. CASE PingByTimer
  BY <1>2, <1>4, UnusedPingFree, SetupPingOwn DEF PingByTimer, OwnersOK, UnusedPings
<1>5. CASE conn' = [Taken EXCEPT !.ping_timer = "armed"]
  <2>1. /\ conn'.live = Taken.live /\ conn'.written = Taken.written
        /\ conn'.write_queue = Taken.write_queue /\ conn'.writes = Taken.writes
        /\ conn'.ready = Taken.ready /\ conn'.posted = Taken.posted
    BY <1>2, <1>5 DEF ConnType
  <2> QED BY <1>2, <2>1, HoldsSame, HoldsInv DEF OwnersOK
<1> QED BY <1>3, <1>4, <1>5 DEF ReconnectByTimer, PingCb

-------------------------------------------------------------------------------
LEMMA UserStepOwn ==
  ASSUME conn \in ConnType, OwnersOK, UserStep PROVE OwnersOK'
<1>1. ASSUME NEW pkt \in Requests \cup Drops, Fresh(pkt)
      PROVE  LET c == Wrote(conn, pkt)
             IN  c \in ConnType /\ OwnInv(c, {}) /\ pkt \notin c.live /\ pkt \in c.written
  <2> DEFINE c == Wrote(conn, pkt)
  <2>1. /\ c \in ConnType /\ c.live = conn.live /\ c.written = conn.written \cup {pkt}
        /\ c.write_queue = conn.write_queue /\ c.writes = conn.writes
        /\ c.ready = conn.ready /\ c.posted = conn.posted
    BY DEF Wrote, ConnType
  <2> HIDE DEF c
  <2>2. OwnInv(c, {}) BY <2>1, HoldsSame, HoldsInv DEF OwnersOK
  <2>3. pkt \notin conn.live BY <1>1, PacketsDisjoint DEF OwnersOK, OwnInv, Fresh
  <2> QED BY <2>1, <2>2, <2>3 DEF c
<1>2. ASSUME NEW r \in Requests, UserWrite(r) PROVE OwnersOK'
  <2>1. r \in Answered BY DEF Answered
  <2> QED BY <1>1, <1>2, <2>1, WriteOwn DEF UserWrite, OwnersOK
<1>3. ASSUME NEW d \in Drops, UserDropWrite(d) PROVE OwnersOK'
  <2>1. d \in Packets BY DEF Packets
  <2> QED BY <1>1, <1>3, <2>1, DropPacketWriteOwn DEF UserDropWrite, OwnersOK
<1>4. CASE UserCheckConnect
  BY <1>4, CheckConnectHolds, HoldsInv DEF UserCheckConnect, OwnersOK
<1>5. CASE UserReconnect
  BY <1>5, OwnSingle, ReconnectHolds, HoldsInv DEF UserReconnect, OwnersOK
<1>6. CASE UserClose
  BY <1>6, OwnSingle, CloseHolds, HoldsInv DEF UserClose, OwnersOK
<1>7. CASE DisablePing
  <2>1. /\ conn'.live = conn.live /\ conn'.written = conn.written
        /\ conn'.write_queue = conn.write_queue /\ conn'.writes = conn.writes
        /\ conn'.ready = conn.ready /\ conn'.posted = conn.posted
    BY <1>7 DEF DisablePing, ConnType
  <2> QED BY <2>1, HoldsSame, HoldsInv DEF OwnersOK
<1>8. CASE UserShutdown \/ GentleShutdown
  <2>1. conn' = DismissCallbacks(Close(conn), "CB_ERR")
    BY <1>8 DEF UserShutdown, GentleShutdown, Shutdown
  <2>2. Close(conn) \in ConnType /\ OwnInv(Close(conn), {})
    BY CloseType, OwnSingle, CloseHolds, HoldsInv DEF OwnersOK
  <2> QED BY <2>1, <2>2, DismissHolds, HoldsInv DEF OwnersOK, Results
<1> QED BY <1>2, <1>3, <1>4, <1>5, <1>6, <1>7, <1>8 DEF UserStep

\* The clock and the network post completions that are not a write's.
LEMMA PostedOwn ==
  ASSUME conn \in ConnType, OwnersOK, NEW c \in ConnType,
         c.live = conn.live, c.written = conn.written,
         c.write_queue = conn.write_queue, c.writes = conn.writes,
         c.ready = conn.ready, c.posted = conn.posted,
         NEW h, NEW ec, NEW arg, h # "onWrite", Done(h, ec, arg) \in Completion,
         conn' = Post(c, h, ec, arg)
  PROVE  OwnersOK'
<1> DEFINE e == Done(h, ec, arg)
<1>1. OwnInv(c, {}) BY HoldsSame, HoldsInv DEF OwnersOK
<1>2. /\ conn'.live = c.live /\ conn'.written = c.written
      /\ conn'.write_queue = c.write_queue /\ conn'.writes = c.writes
      /\ conn'.ready = c.ready /\ conn'.posted = Append(c.posted, e)
  BY DEF Post, ConnType
<1>3. e.h # "onWrite" BY DEF Done
<1> HIDE DEF e
<1>4. Holds(c, conn') BY <1>2, <1>3, HoldsPost DEF e
<1> QED BY <1>1, <1>4, HoldsInv DEF OwnersOK

LEMMA ClockOwn ==
  ASSUME conn \in ConnType, OwnersOK, Clock PROVE OwnersOK'
<1>1. CASE PollReturns
  <2>1. /\ conn'.live = conn.live /\ conn'.written = conn.written
        /\ conn'.write_queue = conn.write_queue /\ conn'.writes = conn.writes
        /\ conn'.ready = conn.posted /\ conn'.posted = <<>> /\ conn.ready = <<>>
    BY <1>1 DEF PollReturns, Polling, ConnType
  <2>2. ASSUME NEW i \in Packets PROVE Held(conn', i) = Held(conn, i)
    <3>1. Tally(conn.ready, WriteOf(i)) = 0 /\ Tally(conn'.posted, WriteOf(i)) = 0
      BY <2>1, TallyEmpty
    <3>2. /\ Tally(conn.write_queue, {i}) \in 0..2 /\ Tally(conn.writes, {i}) \in 0..2
          /\ Tally(conn.posted, WriteOf(i)) \in 0..2
      BY HeldParts
    <3> QED BY <2>1, <3>1, <3>2 DEF Held
  <2>3. Holds(conn, conn') BY <2>1, <2>2 DEF Holds
  <2> QED BY <2>3, HoldsInv DEF OwnersOK
<1>2. CASE ConnectTimerExpires
  <2> DEFINE c == [conn EXCEPT !.timer = "idle"]
  <2>1. /\ c \in ConnType /\ c.live = conn.live /\ c.written = conn.written
        /\ c.write_queue = conn.write_queue /\ c.writes = conn.writes
        /\ c.ready = conn.ready /\ c.posted = conn.posted
    BY DEF ConnType
  <2>2. Done("reconnectByTimer", "ok", None) \in Completion BY DEF Done, Completion
  <2>3. conn' = Post(c, "reconnectByTimer", "ok", None) BY <1>2 DEF ConnectTimerExpires
  <2> HIDE DEF c
  <2> QED BY <2>1, <2>2, <2>3, PostedOwn
<1>3. CASE PingTimerExpires
  <2> DEFINE c == [conn EXCEPT !.ping_timer = "idle"]
  <2>1. /\ c \in ConnType /\ c.live = conn.live /\ c.written = conn.written
        /\ c.write_queue = conn.write_queue /\ c.writes = conn.writes
        /\ c.ready = conn.ready /\ c.posted = conn.posted
    BY DEF ConnType
  <2>2. Done("setupPing", "ok", None) \in Completion BY DEF Done, Completion
  <2>3. conn' = Post(c, "setupPing", "ok", None) BY <1>3 DEF PingTimerExpires
  <2> HIDE DEF c
  <2> QED BY <2>1, <2>2, <2>3, PostedOwn
<1>4. ASSUME NEW i \in Answered, RequestTimerExpires(i) PROVE OwnersOK'
  <2> DEFINE c == [conn EXCEPT !.req_timer[i] = "expired"]
  <2>1. /\ c \in ConnType /\ c.live = conn.live /\ c.written = conn.written
        /\ c.write_queue = conn.write_queue /\ c.writes = conn.writes
        /\ c.ready = conn.ready /\ c.posted = conn.posted
    BY DEF ConnType
  <2>2. Done("onTimeout", "ok", i) \in Completion BY DEF Done, Completion
  <2>3. conn' = Post(c, "onTimeout", "ok", i) BY <1>4 DEF RequestTimerExpires
  <2> HIDE DEF c
  <2> QED BY <2>1, <2>2, <2>3, PostedOwn
<1> QED BY <1>1, <1>2, <1>3, <1>4 DEF Clock

LEMMA ReadsOwn ==
  ASSUME conn \in ConnType, OwnersOK, (\E i \in Answered : ReadFrame(i)) \/ ReadPart \/ ReadFails
  PROVE  OwnersOK'
<1>1. ASSUME NEW reads \in Nat, NEW sent \in SUBSET Answered,
             NEW ec \in {"ok", "error"}, NEW arg,
             Done("onRead", ec, arg) \in Completion,
             conn' = Post([conn EXCEPT !.reads = reads, !.sent = sent], "onRead", ec, arg)
      PROVE  OwnersOK'
  <2> DEFINE c == [conn EXCEPT !.reads = reads, !.sent = sent]
  <2>1. /\ c \in ConnType /\ c.live = conn.live /\ c.written = conn.written
        /\ c.write_queue = conn.write_queue /\ c.writes = conn.writes
        /\ c.ready = conn.ready /\ c.posted = conn.posted
    BY DEF ConnType
  <2>2. conn' = Post(c, "onRead", ec, arg) BY <1>1
  <2> HIDE DEF c
  <2> QED BY <1>1, <2>1, <2>2, PostedOwn
<1> DEFINE reads == conn.reads - 1
<1>2. reads \in Nat
  <2>1. conn.reads \in Nat /\ conn.reads > 0 BY DEF ConnType, ReadFrame, ReadPart, ReadFails
  <2> QED BY <2>1
<1>3. ASSUME NEW i \in Answered, ReadFrame(i) PROVE OwnersOK'
  <2> DEFINE sent == conn.sent \ {i}
  <2>1. sent \in SUBSET Answered BY DEF ConnType
  <2>2. Done("onRead", "ok", SyncOf[i]) \in Completion BY SyncsAssigned DEF Done, Completion
  <2>3. conn' = Post([conn EXCEPT !.reads = reads, !.sent = sent], "onRead", "ok", SyncOf[i])
    BY <1>3 DEF ReadFrame
  <2> HIDE DEF reads, sent
  <2> QED BY <1>1, <1>2, <2>1, <2>2, <2>3
<1>4. CASE ReadPart \/ ReadFails
  <2>1. /\ Done("onRead", "ok", None) \in Completion
        /\ Done("onRead", "error", None) \in Completion
    BY DEF Done, Completion
  <2>2. /\ conn.sent \in SUBSET Answered
        /\ [conn EXCEPT !.reads = reads] = [conn EXCEPT !.reads = reads, !.sent = conn.sent]
    BY DEF ConnType
  <2>3. \/ conn' = Post([conn EXCEPT !.reads = reads], "onRead", "ok", None)
        \/ conn' = Post([conn EXCEPT !.reads = reads], "onRead", "error", None)
    BY <1>4 DEF ReadPart, ReadFails
  <2> HIDE DEF reads
  <2> QED BY <1>1, <1>2, <2>1, <2>2, <2>3
<1> QED BY <1>3, <1>4

\* A write ends: its packet goes from the socket to the completion.
LEMMA WritesOwn ==
  ASSUME conn \in ConnType, OwnersOK, WriteSucceeds \/ WriteFails PROVE OwnersOK'
<1> DEFINE wr == Head(conn.writes)
<1>1. /\ wr \in Packets /\ conn.writes \in Seq(Packets) /\ conn.writes # <<>>
      /\ conn.posted \in Seq(Completion)
  BY DEF ConnType, WriteSucceeds, WriteFails
<1>2. \E ec \in {"ok", "epipe", "error"} :
        /\ conn'.live = conn.live /\ conn'.written = conn.written
        /\ conn'.write_queue = conn.write_queue /\ conn'.ready = conn.ready
        /\ conn'.writes = Tail(conn.writes)
        /\ conn'.posted = Append(conn.posted, Done("onWrite", ec, wr))
  <2>1. CASE WriteSucceeds
    <3>1. /\ conn'.live = conn.live /\ conn'.written = conn.written
          /\ conn'.write_queue = conn.write_queue /\ conn'.ready = conn.ready
          /\ conn'.writes = Tail(conn.writes)
          /\ conn'.posted = Append(conn.posted, Done("onWrite", "ok", wr))
      BY <2>1 DEF WriteSucceeds, Post, ConnType
    <3> QED BY <3>1
  <2>2. CASE WriteFails
    <3>1. PICK ec \in {"epipe", "error"} :
            conn' = Post([conn EXCEPT !.writes = Tail(@)], "onWrite", ec, wr)
      BY <2>2 DEF WriteFails
    <3>2. /\ conn'.live = conn.live /\ conn'.written = conn.written
          /\ conn'.write_queue = conn.write_queue /\ conn'.ready = conn.ready
          /\ conn'.writes = Tail(conn.writes)
          /\ conn'.posted = Append(conn.posted, Done("onWrite", ec, wr))
      BY <3>1 DEF Post, ConnType
    <3> QED BY <3>2
  <2> QED BY <2>1, <2>2
<1>3. PICK ec \in {"ok", "epipe", "error"} :
        /\ conn'.live = conn.live /\ conn'.written = conn.written
        /\ conn'.write_queue = conn.write_queue /\ conn'.ready = conn.ready
        /\ conn'.writes = Tail(conn.writes)
        /\ conn'.posted = Append(conn.posted, Done("onWrite", ec, wr))
  BY <1>2
<1> DEFINE e == Done("onWrite", ec, wr)
<1>4. e \in Completion BY <1>1 DEF Done, Completion
<1>5. \A i \in Packets : e \in WriteOf(i) <=> i = wr BY <1>4 DEF WriteOf, Done
<1>6. conn'.posted = Append(conn.posted, e) BY <1>3
<1> HIDE DEF e
<1>7. ASSUME NEW i \in Packets PROVE Held(conn', i) = Held(conn, i)
  <2> DEFINE p == Tally(conn.posted, WriteOf(i))
             w == Tally(conn.writes, {i})
             q == Tally(conn.write_queue, {i})
             r == Tally(conn.ready, WriteOf(i))
             n == Tally(conn'.posted, WriteOf(i))
             v == Tally(conn'.writes, {i})
  <2>1. p \in 0..2 /\ w \in 0..2 /\ q \in 0..2 /\ r \in 0..2 BY HeldParts
  <2>2. Held(conn, i) = q + w + r + p /\ Held(conn, i) \in 0..1
    BY OwnSingle DEF Held, Single, OwnersOK
  <2>3. Held(conn', i) = q + v + r + n BY <1>3 DEF Held
  <2>4. CASE i = wr
    <3>1. w # 0 BY <1>1, <2>4, TallyHead
    <3>2. w = 1 /\ q = 0 /\ r = 0 /\ p = 0
      <4> HIDE DEF p, w, q, r
      <4> QED BY <2>1, <2>2, <3>1
    <3>3. v = 0 BY <1>1, <1>3, <2>4, <3>2, TallyTail
    <3>4. n = 1 BY <1>1, <1>4, <1>5, <1>6, <2>4, <3>2, TallyAppend
    <3> HIDE DEF p, w, q, r, n, v
    <3> QED BY <2>2, <2>3, <3>2, <3>3, <3>4
  <2>5. CASE i # wr
    <3>1. v = w BY <1>1, <1>3, <2>5, TallyTail
    <3>2. e \notin WriteOf(i) BY <1>5, <2>5
    <3>3. n = p BY <1>1, <1>4, <1>6, <3>2, TallyAppend
    <3> HIDE DEF p, w, q, r, n, v
    <3> QED BY <2>2, <2>3, <3>1, <3>3
  <2> QED BY <2>4, <2>5
<1>8. Holds(conn, conn') BY <1>3, <1>7 DEF Holds
<1> QED BY <1>8, HoldsInv DEF OwnersOK

LEMMA NetworkOwn ==
  ASSUME conn \in ConnType, OwnersOK, Network PROVE OwnersOK'
<1>1. CASE ConnectSucceeds
  <2> DEFINE c == [conn EXCEPT !.sock = "connected"]
  <2>1. /\ c \in ConnType /\ c.live = conn.live /\ c.written = conn.written
        /\ c.write_queue = conn.write_queue /\ c.writes = conn.writes
        /\ c.ready = conn.ready /\ c.posted = conn.posted
    BY DEF ConnType
  <2>2. Done("onConnect", "ok", None) \in Completion BY DEF Done, Completion
  <2>3. conn' = Post(c, "onConnect", "ok", None) BY <1>1 DEF ConnectSucceeds
  <2> HIDE DEF c
  <2> QED BY <2>1, <2>2, <2>3, PostedOwn
<1>2. CASE ConnectFails \/ PeerCloses \/ PeerVanishes
  <2>1. /\ conn'.live = conn.live /\ conn'.written = conn.written
        /\ conn'.write_queue = conn.write_queue /\ conn'.writes = conn.writes
        /\ conn'.ready = conn.ready /\ conn'.posted = conn.posted
    BY <1>2 DEF ConnectFails, PeerCloses, PeerVanishes, Lost, ConnType
  <2> QED BY <2>1, HoldsSame, HoldsInv DEF OwnersOK
<1> QED BY <1>1, <1>2, ReadsOwn, WritesOwn DEF Network

LEMMA OwnersCorrect == Spec => []OwnersOK
<1>1. Init => OwnersOK
  <2> SUFFICES ASSUME Init PROVE OwnersOK OBVIOUS
  <2>1. /\ conn.live = {} /\ conn.write_queue = <<>> /\ conn.writes = <<>>
        /\ conn.ready = <<>> /\ conn.posted = <<>>
    BY DEF Init, NewConn
  <2>2. \A i \in Packets : Held(conn, i) = 0 BY <2>1, TallyEmpty DEF Held
  <2> QED BY <2>1, <2>2 DEF OwnersOK, OwnInv
<1>2. TypeOK /\ OwnersOK /\ [Next]_vars => OwnersOK'
  <2> SUFFICES ASSUME TypeOK, OwnersOK, [Next]_vars PROVE OwnersOK' OBVIOUS
  <2>1. conn \in ConnType BY DEF TypeOK
  <2>2. CASE UNCHANGED vars BY <2>2 DEF OwnersOK, vars
  <2>3. CASE Next
    BY <2>1, <2>3, OnConnectOwn, OnReadDataOwn, OnReadErrorOwn, OnWriteDoneOwn,
       OnWriteErrorOwn, OnTimeoutOwn, TimerHandlersOwn, UserStepOwn, ClockOwn, NetworkOwn
       DEF Next, RunHandler
  <2> QED BY <2>2, <2>3
<1> QED BY <1>1, <1>2, TypeCorrect, PTL DEF Spec

\* What Tally counts is what Owners collects.
LEMMA PlacesCounted ==
  ASSUME NEW q, NEW X, NEW tag
  PROVE  /\ Tally(q, X) = 0 => {<<tag, k>> : k \in Places(q, X)} = {}
         /\ Tally(q, X) = 1 => \E o : {<<tag, k>> : k \in Places(q, X)} = {o}
<1>1. ASSUME Tally(q, X) = 0 PROVE Places(q, X) = {}
  <2>1. ASSUME Places(q, X) # {} PROVE HowMany(Places(q, X)) # 0 BY <2>1 DEF HowMany
  <2> QED BY <1>1, <2>1 DEF Tally
<1>2. ASSUME Tally(q, X) = 1 PROVE \E o : {<<tag, k>> : k \in Places(q, X)} = {o}
  <2>1. PICK k : Places(q, X) = {k} BY <1>2, HowManyOne DEF Tally
  <2>2. {<<tag, j>> : j \in Places(q, X)} = {<<tag, k>>} BY <2>1
  <2> QED BY <2>2
<1> QED BY <1>1, <1>2, Zenon

(***************************************************************************)
(* A packet's buffer has exactly one owner until it is freed, and none     *)
(* after: the queue, a write in flight or the completion of one.  So       *)
(* nothing leaks and nothing is freed twice, whatever is aborted, retried  *)
(* after broken_pipe or written while another write is in flight           *)
(* (ensureWriteBuffer, onWrite, close).                                    *)
(***************************************************************************)
THEOREM PacketHasOneOwner == Spec => []OneOwner
<1>1. TypeOK /\ OwnersOK => OneOwner
  <2> SUFFICES ASSUME TypeOK, OwnersOK, NEW pkt \in Packets
               PROVE  Cardinality(Owners(pkt)) = IF pkt \in conn.live THEN 1 ELSE 0
    BY DEF OneOwner
  <2> DEFINE a == {<<"queue", k>> : k \in Places(conn.write_queue, {pkt})}
             b == {<<"write", k>> : k \in Places(conn.writes, {pkt})}
             r == {<<"ready", k>> : k \in Places(conn.ready, WriteOf(pkt))}
             p == {<<"posted", k>> : k \in Places(conn.posted, WriteOf(pkt))}
  <2>1. Owners(pkt) = a \cup b \cup r \cup p
    <3>1. ASSUME NEW q \in {"ready", "posted"}
          PROVE  {j \in DOMAIN conn[q] : conn[q][j].h = "onWrite" /\ conn[q][j].arg = pkt}
                 = Places(conn[q], WriteOf(pkt))
      <4>1. conn[q] \in Seq(Completion) BY DEF TypeOK, ConnType
      <4>2. \A j \in DOMAIN conn[q] : conn[q][j] \in Completion BY <4>1
      <4> QED BY <4>2 DEF Places, WriteOf
    <3>2. UNION {{<<q, k>> : k \in {j \in DOMAIN conn[q] : conn[q][j].h = "onWrite"
                                                        /\ conn[q][j].arg = pkt}}
              : q \in {"ready", "posted"}}
          = {<<"ready", k>> : k \in Places(conn["ready"], WriteOf(pkt))}
            \cup {<<"posted", k>> : k \in Places(conn["posted"], WriteOf(pkt))}
      BY <3>1
    <3>3. /\ {j \in DOMAIN conn.write_queue : conn.write_queue[j] = pkt}
             = Places(conn.write_queue, {pkt})
          /\ {j \in DOMAIN conn.writes : conn.writes[j] = pkt} = Places(conn.writes, {pkt})
      BY DEF Places
    <3> QED BY <3>2, <3>3 DEF Owners
  <2>2. /\ Tally(conn.write_queue, {pkt}) \in 0..2 /\ Tally(conn.writes, {pkt}) \in 0..2
        /\ Tally(conn.ready, WriteOf(pkt)) \in 0..2 /\ Tally(conn.posted, WriteOf(pkt)) \in 0..2
    BY HeldParts
  <2>3. Tally(conn.write_queue, {pkt}) + Tally(conn.writes, {pkt})
        + Tally(conn.ready, WriteOf(pkt)) + Tally(conn.posted, WriteOf(pkt))
        = IF pkt \in conn.live THEN 1 ELSE 0
    BY DEF OwnersOK, OwnInv, Held
  <2>4. /\ Tally(conn.write_queue, {pkt}) \in 0..1 /\ Tally(conn.writes, {pkt}) \in 0..1
        /\ Tally(conn.ready, WriteOf(pkt)) \in 0..1 /\ Tally(conn.posted, WriteOf(pkt)) \in 0..1
    BY <2>2, <2>3
  <2>5. /\ Tally(conn.write_queue, {pkt}) = 0 => a = {}
        /\ Tally(conn.write_queue, {pkt}) = 1 => \E o : a = {o}
        /\ Tally(conn.writes, {pkt}) = 0 => b = {}
        /\ Tally(conn.writes, {pkt}) = 1 => \E o : b = {o}
    <3>1. \A X : /\ Tally(conn.write_queue, X) = 0
                      => {<<"queue", k>> : k \in Places(conn.write_queue, X)} = {}
                 /\ Tally(conn.write_queue, X) = 1
                      => \E o : {<<"queue", k>> : k \in Places(conn.write_queue, X)} = {o}
                 /\ Tally(conn.writes, X) = 0
                      => {<<"write", k>> : k \in Places(conn.writes, X)} = {}
                 /\ Tally(conn.writes, X) = 1
                      => \E o : {<<"write", k>> : k \in Places(conn.writes, X)} = {o}
      BY PlacesCounted
    <3> QED BY <3>1, Zenon
  <2>6. /\ Tally(conn.ready, WriteOf(pkt)) = 0 => r = {}
        /\ Tally(conn.ready, WriteOf(pkt)) = 1 => \E o : r = {o}
        /\ Tally(conn.posted, WriteOf(pkt)) = 0 => p = {}
        /\ Tally(conn.posted, WriteOf(pkt)) = 1 => \E o : p = {o}
    BY PlacesCounted
  <2> HIDE DEF a, b, r, p
  <2>7. CASE pkt \in conn.live
    <3>1. \/ /\ Tally(conn.write_queue, {pkt}) = 1 /\ Tally(conn.writes, {pkt}) = 0
             /\ Tally(conn.ready, WriteOf(pkt)) = 0 /\ Tally(conn.posted, WriteOf(pkt)) = 0
          \/ /\ Tally(conn.write_queue, {pkt}) = 0 /\ Tally(conn.writes, {pkt}) = 1
             /\ Tally(conn.ready, WriteOf(pkt)) = 0 /\ Tally(conn.posted, WriteOf(pkt)) = 0
          \/ /\ Tally(conn.write_queue, {pkt}) = 0 /\ Tally(conn.writes, {pkt}) = 0
             /\ Tally(conn.ready, WriteOf(pkt)) = 1 /\ Tally(conn.posted, WriteOf(pkt)) = 0
          \/ /\ Tally(conn.write_queue, {pkt}) = 0 /\ Tally(conn.writes, {pkt}) = 0
             /\ Tally(conn.ready, WriteOf(pkt)) = 0 /\ Tally(conn.posted, WriteOf(pkt)) = 1
      BY <2>3, <2>4, <2>7
    <3>2. \E o : Owners(pkt) = {o} BY <2>1, <2>5, <2>6, <3>1
    <3> QED BY <2>7, <3>2, FS_Singleton
  <2>8. CASE pkt \notin conn.live
    <3>1. /\ Tally(conn.write_queue, {pkt}) = 0 /\ Tally(conn.writes, {pkt}) = 0
          /\ Tally(conn.ready, WriteOf(pkt)) = 0 /\ Tally(conn.posted, WriteOf(pkt)) = 0
      BY <2>3, <2>4, <2>8
    <3>2. Owners(pkt) = {} BY <2>1, <2>5, <2>6, <3>1
    <3> QED BY <2>8, <3>2, FS_EmptySet
  <2> QED BY <2>7, <2>8
<1> QED BY <1>1, TypeCorrect, OwnersCorrect, PTL

-------------------------------------------------------------------------------
(***************************************************************************)
(* The chain of pings.  A connection is `Up' from its connect to its end.  *)
(* Everything queued, in the order it is run, is one sequence: what a      *)
(* close() has aborted comes before the onConnect of the next connection.  *)
(***************************************************************************)
Up(c) == c.sock \in {"connected", "silent"}
Line(c) == c.ready \o c.posted
ConnectAhead(q) ==
  \A k \in DOMAIN q : q[k].ec = "aborted" =>
    \E j \in DOMAIN q : k < j /\ Signal(q[j]) = <<"onConnect", "ok">>

PingSignals == Alarms \cup {<<"setupPing", "ok">>} \cup {<<"pingCb", res>> : res \in Results}
Chained(c) == Waiting(c) \cap Pings # {} \/ c.ping_timer = "armed" \/ Rings(c, PingSignals)
PingInv(c) == Up(c) => ConnectAhead(Line(c)) /\ (c.ping_enabled => Chained(c))


LEMMA AheadAppend ==
  ASSUME NEW q \in Seq(Completion), NEW e \in Completion, ConnectAhead(q)
  PROVE  /\ e.ec # "aborted" => ConnectAhead(Append(q, e))
         /\ Signal(e) = <<"onConnect", "ok">> => ConnectAhead(Append(q, e))
<1> DEFINE a == Append(q, e)
<1>1. /\ DOMAIN q = 1..Len(q) /\ Len(q) \in Nat /\ DOMAIN a = 1..(Len(q) + 1)
      /\ a[Len(q) + 1] = e /\ \A k \in 1..Len(q) : a[k] = q[k]
  BY AppendProperties
<1> HIDE DEF a
<1>2. ASSUME NEW k \in DOMAIN q, a[k].ec = "aborted"
      PROVE  \E j \in DOMAIN a : k < j /\ Signal(a[j]) = <<"onConnect", "ok">>
  <2>1. q[k].ec = "aborted" BY <1>1, <1>2
  <2>2. PICK j \in DOMAIN q : k < j /\ Signal(q[j]) = <<"onConnect", "ok">>
    BY <1>2, <2>1 DEF ConnectAhead
  <2>3. j \in DOMAIN a /\ a[j] = q[j] BY <1>1
  <2> QED BY <2>2, <2>3
<1>3. \A k \in DOMAIN a : k \in DOMAIN q \/ k = Len(q) + 1 BY <1>1
<1>4. ASSUME e.ec # "aborted" PROVE ConnectAhead(a) BY <1>1, <1>2, <1>3, <1>4 DEF ConnectAhead
<1>5. Signal(e) = <<"onConnect", "ok">> => e.ec # "aborted" BY DEF Signal
<1> QED BY <1>4, <1>5 DEF a

\* Whatever is in the line, the connect that has just ended is behind it.
LEMMA AheadOfNew ==
  ASSUME NEW q \in Seq(Completion), NEW e \in Completion, Signal(e) = <<"onConnect", "ok">>
  PROVE  ConnectAhead(Append(q, e))
<1> DEFINE a == Append(q, e)
<1>1. Len(q) \in Nat /\ DOMAIN a = 1..(Len(q) + 1) /\ a[Len(q) + 1] = e BY AppendProperties
<1> HIDE DEF a
<1>2. e.ec = "ok" BY DEF Signal
<1>3. ASSUME NEW k \in DOMAIN a, a[k].ec = "aborted"
      PROVE  k < Len(q) + 1 /\ Len(q) + 1 \in DOMAIN a
  <2>1. k # Len(q) + 1 BY <1>1, <1>2, <1>3
  <2> QED BY <1>1, <2>1
<1> QED BY <1>1, <1>3 DEF ConnectAhead, a

LEMMA AheadTail ==
  ASSUME NEW q \in Seq(Completion), q # <<>>, ConnectAhead(q) PROVE ConnectAhead(Tail(q))
<1> DEFINE t == Tail(q)
<1>1. /\ DOMAIN q = 1..Len(q) /\ Len(q) \in Nat /\ Len(q) > 0 /\ DOMAIN t = 1..(Len(q) - 1)
      /\ \A k \in 1..(Len(q) - 1) : t[k] = q[k + 1]
  BY HeadTailProperties
<1> HIDE DEF t
<1>2. ASSUME NEW k \in DOMAIN t, t[k].ec = "aborted"
      PROVE  \E j \in DOMAIN t : k < j /\ Signal(t[j]) = <<"onConnect", "ok">>
  <2>1. k \in 1..(Len(q) - 1) /\ k + 1 \in DOMAIN q /\ q[k + 1].ec = "aborted" BY <1>1, <1>2
  <2>2. PICK j \in DOMAIN q : k + 1 < j /\ Signal(q[j]) = <<"onConnect", "ok">>
    BY <2>1 DEF ConnectAhead
  <2>3. j - 1 \in DOMAIN t /\ k < j - 1 /\ (j - 1) + 1 = j BY <1>1, <2>1, <2>2
  <2>4. t[j - 1] = q[j] BY <1>1, <2>3
  <2> QED BY <2>2, <2>3, <2>4
<1> QED BY <1>2 DEF ConnectAhead, t

\* What is queued joins the end of the line; what is run leaves its front.
LEMMA LineAppend ==
  ASSUME NEW r \in Seq(Completion), NEW p \in Seq(Completion), NEW e \in Completion
  PROVE  r \o Append(p, e) = Append(r \o p, e) /\ r \o p \in Seq(Completion)
<1>1. <<e>> \in Seq(Completion) OBVIOUS
<1>2. Append(p, e) = p \o <<e>> BY AppendIsConcat
<1>3. r \o p \in Seq(Completion) BY ConcatProperties
<1>4. Append(r \o p, e) = (r \o p) \o <<e>> BY <1>3, AppendIsConcat
<1> QED BY <1>1, <1>2, <1>3, <1>4, ConcatAssociative

LEMMA LineTail ==
  ASSUME NEW r \in Seq(Completion), r # <<>>, NEW p \in Seq(Completion)
  PROVE  Tail(r) \o p = Tail(r \o p) /\ r \o p \in Seq(Completion) /\ r \o p # <<>>
<1> DEFINE c == r \o p
           s == Tail(r)
           t == Tail(c)
           d == s \o p
<1>1. Len(r) \in Nat /\ Len(p) \in Nat /\ Len(r) > 0 OBVIOUS
<1>2. /\ c \in Seq(Completion) /\ Len(c) = Len(r) + Len(p)
      /\ \A i \in 1..(Len(r) + Len(p)) : c[i] = IF i <= Len(r) THEN r[i] ELSE p[i - Len(r)]
  BY ConcatProperties
<1>3. /\ s \in Seq(Completion) /\ Len(s) = Len(r) - 1 /\ \A i \in 1..Len(s) : s[i] = r[i + 1]
  BY HeadTailProperties
<1>4. c # <<>> BY <1>1, <1>2
<1> HIDE DEF c, s
<1>5. /\ t \in Seq(Completion) /\ Len(t) = Len(c) - 1 /\ \A i \in 1..Len(t) : t[i] = c[i + 1]
  BY <1>2, <1>4, HeadTailProperties
<1>6. /\ d \in Seq(Completion) /\ Len(d) = Len(s) + Len(p)
      /\ \A i \in 1..(Len(s) + Len(p)) : d[i] = IF i <= Len(s) THEN s[i] ELSE p[i - Len(s)]
  BY <1>3, ConcatProperties
<1> HIDE DEF t, d
<1>7. Len(d) = Len(t) BY <1>1, <1>2, <1>3, <1>5, <1>6
<1>8. ASSUME NEW i \in 1..Len(d) PROVE d[i] = t[i]
  <2>1. i \in 1..(Len(r) + Len(p) - 1) BY <1>1, <1>3, <1>6
  <2>2. t[i] = c[i + 1] /\ i + 1 \in 1..(Len(r) + Len(p)) BY <1>1, <1>2, <1>5, <2>1
  <2>3. CASE i <= Len(s)
    <3>1. d[i] = s[i] /\ s[i] = r[i + 1] BY <1>1, <1>3, <1>6, <2>1, <2>3
    <3>2. c[i + 1] = r[i + 1] BY <1>1, <1>2, <1>3, <2>1, <2>2, <2>3
    <3> QED BY <2>2, <3>1, <3>2
  <2>4. CASE ~(i <= Len(s))
    <3>1. d[i] = p[i - Len(s)] BY <1>1, <1>3, <1>6, <2>1, <2>4
    <3>2. c[i + 1] = p[(i + 1) - Len(r)] BY <1>1, <1>2, <1>3, <2>1, <2>2, <2>4
    <3>3. i - Len(s) = (i + 1) - Len(r) BY <1>1, <1>3, <2>1
    <3> QED BY <2>2, <3>1, <3>2, <3>3
  <2> QED BY <2>3, <2>4
<1>9. d = t BY <1>5, <1>6, <1>7, <1>8, SeqEqual
<1> QED BY <1>2, <1>4, <1>9 DEF c, s, t, d

LEMMA AheadOfHead ==
  ASSUME NEW r \in Seq(Completion), r # <<>>, NEW p \in Seq(Completion),
         ConnectAhead(r \o p), Head(r).ec = "aborted"
  PROVE  <<"onConnect", "ok">> \in SignalsOf(r) \cup SignalsOf(p)
<1> DEFINE c == r \o p
<1>1. /\ Len(r) \in Nat /\ Len(p) \in Nat /\ Len(r) > 0 /\ Head(r) = r[1]
      /\ DOMAIN r = 1..Len(r) /\ DOMAIN p = 1..Len(p)
  OBVIOUS
<1>2. /\ c \in Seq(Completion) /\ Len(c) = Len(r) + Len(p)
      /\ \A i \in 1..(Len(r) + Len(p)) : c[i] = IF i <= Len(r) THEN r[i] ELSE p[i - Len(r)]
  BY ConcatProperties
<1>3. ConnectAhead(c) OBVIOUS
<1> HIDE DEF c
<1>4. DOMAIN c = 1..(Len(r) + Len(p)) BY <1>2
<1>5. 1 \in DOMAIN c /\ 1 \in 1..(Len(r) + Len(p)) /\ 1 <= Len(r) BY <1>1, <1>4
<1>6. c[1] = r[1] BY <1>2, <1>5
<1>7. PICK j \in DOMAIN c : 1 < j /\ Signal(c[j]) = <<"onConnect", "ok">>
  BY <1>1, <1>3, <1>5, <1>6 DEF ConnectAhead
<1>8. CASE j <= Len(r)
  <2>1. j \in DOMAIN r /\ c[j] = r[j] BY <1>1, <1>2, <1>4, <1>7, <1>8
  <2> QED BY <1>7, <2>1 DEF SignalsOf
<1>9. CASE ~(j <= Len(r))
  <2>1. j - Len(r) \in DOMAIN p /\ c[j] = p[j - Len(r)] BY <1>1, <1>2, <1>4, <1>7, <1>9
  <2> QED BY <1>7, <2>1 DEF SignalsOf
<1> QED BY <1>8, <1>9

\* No link of the chain is lost, and nothing is queued but what may be.
Steady(c, d) ==
  /\ d.sock = c.sock /\ d.ping_enabled = c.ping_enabled /\ d.ping_timer = c.ping_timer
  /\ Signals(c) \subseteq Signals(d)
  /\ Waiting(c) \cap Pings # {} => Waiting(d) \cap Pings # {} \/ Rings(d, PingSignals)
  /\ ConnectAhead(Line(c)) => ConnectAhead(Line(d))

LEMMA SteadyInv == ASSUME NEW c, NEW d, Steady(c, d), PingInv(c) PROVE PingInv(d)
  BY DEF Steady, PingInv, Chained, Rings, Up

LEMMA SteadySame ==
  ASSUME NEW c, NEW d, d.sock = c.sock, d.ping_enabled = c.ping_enabled,
         d.ping_timer = c.ping_timer, d.callbacks_map = c.callbacks_map,
         d.ready = c.ready, d.posted = c.posted
  PROVE  Steady(c, d)
  BY DEF Steady, Signals, Waiting, Line

LEMMA SteadyPost ==
  ASSUME NEW c \in ConnType, NEW d, NEW e \in Completion, e.ec # "aborted",
         d.sock = c.sock, d.ping_enabled = c.ping_enabled,
         d.ping_timer = c.ping_timer, d.callbacks_map = c.callbacks_map,
         d.ready = c.ready, d.posted = Append(c.posted, e)
  PROVE  Steady(c, d)
<1>1. c.ready \in Seq(Completion) /\ c.posted \in Seq(Completion) BY DEF ConnType
<1>2. Signals(c) \subseteq Signals(d) BY PostedSignals
<1>3. Waiting(d) = Waiting(c) BY DEF Waiting
<1>4. Line(d) = Append(Line(c), e) /\ Line(c) \in Seq(Completion) BY <1>1, LineAppend DEF Line
<1>5. ConnectAhead(Line(c)) => ConnectAhead(Line(d)) BY <1>4, AheadAppend
<1> QED BY <1>2, <1>3, <1>5 DEF Steady

LEMMA NotUp ==
  ASSUME NEW c \in ConnType
  PROVE  PingInv(Close(c)) /\ PingInv(BeginConnect(c)) /\ PingInv(Reconnect(c))
<1>1. \A d \in ConnType : PingInv(BeginConnect(d)) BY DEF BeginConnect, ConnType, PingInv, Up
<1>2. PingInv(Close(c)) BY DEF Close, ConnType, PingInv, Up
<1> QED BY <1>1, <1>2, CloseType DEF Reconnect

LEMMA StartWriteSteady ==
  ASSUME NEW c \in ConnType, c.write_queue # <<>> PROVE Steady(c, StartWrite(c))
<1> DEFINE d == StartWrite(c)
           e == Done("onWrite", "error", Head(c.write_queue))
<1>1. /\ d.sock = c.sock /\ d.ping_enabled = c.ping_enabled /\ d.ping_timer = c.ping_timer
      /\ d.callbacks_map = c.callbacks_map /\ d.ready = c.ready
      /\ d.posted = c.posted \/ d.posted = Append(c.posted, e)
  BY DEF StartWrite, ConnType
<1>2. Head(c.write_queue) \in Packets BY DEF ConnType
<1>3. e \in Completion /\ e.ec # "aborted" BY <1>2 DEF Done, Completion
<1> HIDE DEF d, e
<1> QED BY <1>1, <1>3, SteadySame, SteadyPost DEF d

LEMMA EnsureWriteBufferSteady ==
  ASSUME NEW c \in ConnType, NEW finished PROVE Steady(c, EnsureWriteBuffer(c, finished))
<1> DEFINE d == [c EXCEPT !.write_is_active = FALSE]
<1>1. /\ d.sock = c.sock /\ d.ping_enabled = c.ping_enabled /\ d.ping_timer = c.ping_timer
      /\ d.callbacks_map = c.callbacks_map /\ d.ready = c.ready /\ d.posted = c.posted
  BY DEF ConnType
<1>2. \/ EnsureWriteBuffer(c, finished) = d
      \/ c.write_queue # <<>> /\ EnsureWriteBuffer(c, finished) = StartWrite(c)
  BY DEF EnsureWriteBuffer
<1> HIDE DEF d
<1>3. Steady(c, d) BY <1>1, SteadySame
<1> QED BY <1>2, <1>3, StartWriteSteady

LEMMA DropPacketWritePing ==
  ASSUME NEW c \in ConnType, NEW pkt \in Packets, PingInv(c)
  PROVE  PingInv(DropPacketWrite(c, pkt))
<1> DEFINE q == [c EXCEPT !.write_queue = Append(c.write_queue, pkt),
                          !.live = c.live \cup {pkt}]
<1>1. q \in ConnType
  <2>1. Append(c.write_queue, pkt) \in Seq(Packets) BY DEF ConnType
  <2>2. c.live \cup {pkt} \in SUBSET Packets BY DEF ConnType
  <2> QED BY <2>1, <2>2 DEF ConnType
<1>2. /\ q.sock = c.sock /\ q.ping_enabled = c.ping_enabled /\ q.ping_timer = c.ping_timer
      /\ q.callbacks_map = c.callbacks_map /\ q.ready = c.ready /\ q.posted = c.posted
  BY DEF ConnType
<1>3. DropPacketWrite(c, pkt) = IF Open(c) THEN EnsureWriteBuffer(q, FALSE) ELSE BeginConnect(q)
  BY DEF DropPacketWrite
<1> HIDE DEF q
<1>4. PingInv(q) BY <1>2, SteadySame, SteadyInv
<1> QED BY <1>1, <1>3, <1>4, NotUp, EnsureWriteBufferSteady, SteadyInv

-------------------------------------------------------------------------------
\* No request takes the sync of the ping packet.
PingSyncReserved == \A r \in Requests : SyncOf[r] # PingSync

\* Whoever waits under a sync has that sync.
UnderOwnSync(c) ==
  \A s \in Syncs : c.callbacks_map[s] # None => SyncOf[c.callbacks_map[s]] = s

\* A ping renews the chain; another packet does not displace it.
LEMMA WritePing ==
  ASSUME PingSyncReserved, NEW c \in ConnType, NEW pkt \in Answered, UnderOwnSync(c),
         PingInv(c) \/ (pkt \in Pings /\ (Up(c) => ConnectAhead(Line(c))))
  PROVE  PingInv(Write(c, pkt))
<1> DEFINE d == Registered(c, pkt)
<1>1. d \in ConnType BY RegisteredType
<1>2. /\ d.sock = c.sock /\ d.ping_enabled = c.ping_enabled /\ d.ping_timer = c.ping_timer
      /\ d.callbacks_map = [c.callbacks_map EXCEPT ![SyncOf[pkt]] = pkt]
      /\ d.ready = c.ready /\ d.posted = c.posted
  BY DEF Registered, ConnType
<1>3. Write(c, pkt) = DropPacketWrite(d, pkt) /\ pkt \in Packets
  BY DEF Write, Registered, Answered, Packets
<1>4. c.callbacks_map \in [Syncs -> Answered \cup {None}] BY DEF ConnType
<1>5. SyncOf[pkt] \in Syncs BY SyncsAssigned
<1> HIDE DEF d
<1>6. CASE pkt \in Pings
  <2>1. d.callbacks_map[SyncOf[pkt]] = pkt BY <1>2, <1>4, <1>5
  <2>2. pkt # None BY <1>3, PacketsDisjoint
  <2>3. pkt \in Waiting(d) BY <1>5, <2>1, <2>2 DEF Waiting
  <2>4. Up(d) => ConnectAhead(Line(d)) BY <1>2 DEF Up, Line, PingInv
  <2> QED BY <1>6, <2>3, <2>4, <1>1, <1>3, DropPacketWritePing DEF PingInv, Chained
<1>7. CASE pkt \notin Pings
  <2>1. SyncOf[pkt] # PingSync BY <1>7 DEF PingSyncReserved, Answered
  <2>2. ASSUME NEW p \in Waiting(c) \cap Pings PROVE p \in Waiting(d)
    <3>1. PICK s \in Syncs : c.callbacks_map[s] = p /\ p # None BY <2>2 DEF Waiting
    <3>2. s = PingSync BY <2>2, <3>1, SyncsAssigned DEF UnderOwnSync
    <3>3. d.callbacks_map[s] = p BY <1>2, <1>4, <2>1, <3>1, <3>2
    <3> QED BY <3>1, <3>3 DEF Waiting
  <2>3. Steady(c, d) BY <1>2, <2>2 DEF Steady, Signals, Line
  <2> QED BY <1>1, <1>3, <1>7, <2>3, SteadyInv, DropPacketWritePing
<1> QED BY <1>6, <1>7

LEMMA SetupPingChained ==
  ASSUME PingSyncReserved, NEW c \in ConnType, NEW p \in Pings, UnderOwnSync(c),
         Up(c) => ConnectAhead(Line(c))
  PROVE  PingInv(SetupPing(c, p))
<1> DEFINE d == CheckConnect(c)
<1>1. d \in ConnType /\ p \in Answered BY CheckConnectType DEF Answered
<1>2. UnderOwnSync(d) BY CheckConnectKeeps DEF UnderOwnSync, Keeps
<1>3. Up(d) => ConnectAhead(Line(d)) BY NotUp DEF CheckConnect, PingInv
<1> HIDE DEF d
<1> QED BY <1>1, <1>2, <1>3, WritePing DEF SetupPing, d

LEMMA PostCallbacksPing ==
  ASSUME NEW c \in ConnType, NEW d, NEW who, NEW code \in Results,
         d.ready = c.ready, d.posted = PostCallbacks(c, who, code)
  PROVE  /\ Signals(c) \subseteq Signals(d)
         /\ who \cap Pings # {} => Rings(d, PingSignals)
         /\ ConnectAhead(Line(c)) => ConnectAhead(Line(d))
<1> DEFINE e == Done("pingCb", code, None)
<1>1. /\ e \in Completion /\ e.ec # "aborted" /\ Signal(e) \in PingSignals
  BY DEF Done, Completion, Signal, PingSignals, Results
<1>2. d.posted = IF who \cap Pings # {} THEN Append(c.posted, e) ELSE c.posted
  BY DEF PostCallbacks
<1>3. c.ready \in Seq(Completion) /\ c.posted \in Seq(Completion) BY DEF ConnType
<1> HIDE DEF e
<1>4. CASE who \cap Pings # {}
  <2>1. d.posted = Append(c.posted, e) BY <1>2, <1>4
  <2>2. Signals(c) \subseteq Signals(d) /\ Signal(e) \in Signals(d) BY <1>1, <2>1, PostedSignals
  <2>3. Line(d) = Append(Line(c), e) /\ Line(c) \in Seq(Completion)
    <3>1. /\ c.ready \o Append(c.posted, e) = Append(c.ready \o c.posted, e)
          /\ c.ready \o c.posted \in Seq(Completion)
      BY <1>1, <1>3, LineAppend
    <3> QED BY <2>1, <3>1 DEF Line
  <2>4. ConnectAhead(Line(c)) => ConnectAhead(Line(d)) BY <1>1, <2>3, AheadAppend
  <2>5. Rings(d, PingSignals) BY <1>1, <2>2 DEF Rings
  <2> QED BY <2>2, <2>4, <2>5
<1>5. CASE who \cap Pings = {}
  <2>1. d.posted = c.posted BY <1>2, <1>5
  <2> QED BY <1>5, <2>1 DEF Signals, Line
<1> QED BY <1>4, <1>5

\* invokeCallback: the ping that waited no more has its callback queued.
LEMMA InvokeSteady ==
  ASSUME NEW c \in ConnType, NEW sync, NEW code \in Results
  PROVE  Steady(c, InvokeCallback(c, sync, code))
<1> DEFINE d == InvokeCallback(c, sync, code)
           who == {c.callbacks_map[sync]} \ {None}
<1>1. /\ d.sock = c.sock /\ d.ping_enabled = c.ping_enabled /\ d.ping_timer = c.ping_timer
      /\ d.callbacks_map = [c.callbacks_map EXCEPT ![sync] = None]
      /\ d.ready = c.ready /\ d.posted = PostCallbacks(c, who, code)
  BY DEF InvokeCallback, ConnType
<1>2. c.callbacks_map \in [Syncs -> Answered \cup {None}] BY DEF ConnType
<1>3. Waiting(c) \subseteq Waiting(d) \cup who
  <2> HIDE DEF d
  <2>1. ASSUME NEW s \in Syncs, c.callbacks_map[s] # None
        PROVE  c.callbacks_map[s] \in Waiting(d) \cup who
    <3>1. CASE s = sync BY <2>1, <3>1
    <3>2. CASE s # sync
      <4>1. d.callbacks_map[s] = c.callbacks_map[s] BY <1>1, <1>2, <3>2
      <4> QED BY <2>1, <4>1 DEF Waiting
    <3> QED BY <3>1, <3>2
  <2> QED BY <2>1 DEF Waiting
<1> HIDE DEF d, who
<1>4. /\ Signals(c) \subseteq Signals(d)
      /\ who \cap Pings # {} => Rings(d, PingSignals)
      /\ ConnectAhead(Line(c)) => ConnectAhead(Line(d))
  BY <1>1, PostCallbacksPing
<1> QED BY <1>1, <1>3, <1>4 DEF Steady, d

\* dismissCallbacks for an aborted operation: the connect that comes will ping.
LEMMA DismissPing ==
  ASSUME NEW c \in ConnType, NEW code \in Results,
         Up(c) => ConnectAhead(Line(c)) /\ Rings(c, {<<"onConnect", "ok">>})
  PROVE  PingInv(DismissCallbacks(c, code))
<1> DEFINE d == DismissCallbacks(c, code)
<1>1. /\ d.sock = c.sock /\ d.ready = c.ready /\ d.posted = PostCallbacks(c, Waiting(c), code)
  BY DEF DismissCallbacks, ConnType
<1> HIDE DEF d
<1>2. /\ Signals(c) \subseteq Signals(d)
      /\ ConnectAhead(Line(c)) => ConnectAhead(Line(d))
  BY <1>1, PostCallbacksPing
<1>3. Rings(c, {<<"onConnect", "ok">>}) => Rings(d, PingSignals)
  BY <1>2 DEF Rings, PingSignals, Alarms
<1> QED BY <1>1, <1>2, <1>3 DEF PingInv, Chained, Up, d

-------------------------------------------------------------------------------
PingOK == PingInv(conn)

LEMMA TakenPing ==
  ASSUME conn \in ConnType, conn.ready # <<>>, PingOK
  PROVE  /\ Taken \in ConnType /\ Head(conn.ready) \in Completion
         /\ Up(Taken) => ConnectAhead(Line(Taken))
         /\ Signal(Head(conn.ready)) \notin PingSignals => PingInv(Taken)
         /\ Up(Taken) /\ Head(conn.ready).ec = "aborted" => Rings(Taken, {<<"onConnect", "ok">>})
         /\ Taken.callbacks_map = conn.callbacks_map
<1>1. Taken \in ConnType /\ Head(conn.ready) \in Completion BY TakenType
<1>2. /\ Taken.sock = conn.sock /\ Taken.ping_enabled = conn.ping_enabled
      /\ Taken.ping_timer = conn.ping_timer /\ Taken.callbacks_map = conn.callbacks_map
      /\ Taken.ready = Tail(conn.ready) /\ Taken.posted = conn.posted
  BY DEF Taken, ConnType
<1>3. conn.ready \in Seq(Completion) /\ conn.posted \in Seq(Completion) BY DEF ConnType
<1>4. /\ Line(Taken) = Tail(Line(conn)) /\ Line(conn) \in Seq(Completion) /\ Line(conn) # <<>>
  BY <1>2, <1>3, LineTail DEF Line
<1>5. Up(Taken) <=> Up(conn) BY <1>2 DEF Up
<1>6. Up(Taken) => ConnectAhead(Line(Taken)) BY <1>4, <1>5, AheadTail DEF PingOK, PingInv
<1>7. \A s \in Signals(conn) : s = Signal(Head(conn.ready)) \/ s \in Signals(Taken)
  BY TakenSignals
<1>8. ASSUME Signal(Head(conn.ready)) \notin PingSignals PROVE PingInv(Taken)
  <2>1. Chained(conn) => Chained(Taken) BY <1>2, <1>7, <1>8 DEF Chained, Rings, Waiting
  <2> QED BY <1>2, <1>5, <1>6, <2>1 DEF PingOK, PingInv
<1>9. ASSUME Up(Taken), Head(conn.ready).ec = "aborted"
      PROVE  Rings(Taken, {<<"onConnect", "ok">>})
  <2>1. ConnectAhead(conn.ready \o conn.posted) BY <1>5, <1>9 DEF PingOK, PingInv, Line
  <2>2. CASE <<"onConnect", "ok">> \in SignalsOf(conn.ready)
    <3>1. Signal(Head(conn.ready)) # <<"onConnect", "ok">> BY <1>9 DEF Signal
    <3> QED BY <1>7, <2>2, <3>1 DEF Rings, Signals
  <2>3. CASE <<"onConnect", "ok">> \in SignalsOf(conn.posted)
    BY <1>2, <2>3 DEF Rings, Signals
  <2> QED BY <1>3, <1>9, <2>1, <2>2, <2>3, AheadOfHead
<1> QED BY <1>1, <1>2, <1>6, <1>8, <1>9


LEMMA OnConnectPing ==
  ASSUME PingSyncReserved, conn \in ConnType, RequestsOK, PingOK, OnConnect PROVE PingOK'
<1> DEFINE c == [Taken EXCEPT !.timer = "idle"]
           d == ReadMore(c)
<1>1. conn.ready # <<>> BY DEF OnConnect, Next1
<1>2. /\ Taken \in ConnType /\ Taken.callbacks_map = conn.callbacks_map
      /\ Up(Taken) => ConnectAhead(Line(Taken))
  BY <1>1, TakenPing
<1>3. /\ c \in ConnType /\ c.sock = Taken.sock /\ c.ping_enabled = Taken.ping_enabled
      /\ c.callbacks_map = Taken.callbacks_map
      /\ c.ready = Taken.ready /\ c.posted = Taken.posted
  BY <1>2 DEF ConnType
<1>4. \/ conn' = c /\ ~Open(c)
      \/ \E p \in Pings : conn' = SetupPing(d, p)
      \/ conn' = EnsureWriteBuffer(d, FALSE) /\ ~c.ping_enabled
  BY DEF OnConnect, UnusedPings
<1> HIDE DEF c
<1>5. /\ d \in ConnType /\ d.sock = c.sock /\ d.ping_enabled = c.ping_enabled
      /\ d.callbacks_map = c.callbacks_map /\ d.ready = c.ready /\ d.posted = c.posted
  BY <1>3, ReadMoreType DEF ReadMore, ConnType
<1> HIDE DEF d
<1>6. Up(d) => ConnectAhead(Line(d)) BY <1>2, <1>3, <1>5 DEF Up, Line
<1>7. UnderOwnSync(d) BY <1>2, <1>3, <1>5 DEF RequestsOK, ReqInv, UnderOwnSync
<1>8. CASE conn' = c /\ ~Open(c) BY <1>8 DEF PingOK, PingInv, Up, Open
<1>9. CASE conn' = EnsureWriteBuffer(d, FALSE) /\ ~c.ping_enabled
  <2>1. PingInv(d) BY <1>5, <1>6, <1>9 DEF PingInv
  <2> QED BY <1>5, <1>9, <2>1, EnsureWriteBufferSteady, SteadyInv DEF PingOK
<1> QED BY <1>4, <1>5, <1>6, <1>7, <1>8, <1>9, SetupPingChained DEF PingOK

LEMMA OnReadDataPing ==
  ASSUME conn \in ConnType, PingOK, OnReadData PROVE PingOK'
<1> DEFINE c == IF Arg = None THEN Taken ELSE InvokeCallback(Taken, Arg, "CB_OK")
           e == Done("onRead", "error", None)
           x == [c EXCEPT !.posted = Append(c.posted, e)]
<1>1. conn.ready # <<>> /\ Head(conn.ready).h = "onRead" /\ Head(conn.ready).ec = "ok"
  BY DEF OnReadData, Next1, Ec
<1>2. Signal(Head(conn.ready)) \notin PingSignals BY <1>1 DEF Signal, PingSignals, Alarms
<1>3. Taken \in ConnType /\ Head(conn.ready) \in Completion /\ PingInv(Taken)
  BY <1>1, <1>2, TakenPing
<1>4. Arg \in Syncs \cup {None} BY <1>1, <1>3 DEF Completion, Arg
<1>5. c \in ConnType /\ PingInv(c)
  BY <1>3, <1>4, InvokeCallbackType, InvokeSteady, SteadyInv DEF Results
<1>6. conn' = ReadMore(c) \/ conn' = c \/ conn' = x BY DEF OnReadData, ReadOnClosed
<1> HIDE DEF c
<1>7. e \in Completion /\ e.ec # "aborted" BY DEF Done, Completion
<1>8. PingInv(x)
  <2>1. /\ x.sock = c.sock /\ x.ping_enabled = c.ping_enabled /\ x.ping_timer = c.ping_timer
        /\ x.callbacks_map = c.callbacks_map /\ x.ready = c.ready
        /\ x.posted = Append(c.posted, e)
    BY <1>5 DEF ConnType
  <2> HIDE DEF x, e
  <2> QED BY <1>5, <1>7, <2>1, SteadyPost, SteadyInv
<1>9. PingInv(ReadMore(c))
  <2> DEFINE d == ReadMore(c)
  <2>1. /\ d.sock = c.sock /\ d.ping_enabled = c.ping_enabled /\ d.ping_timer = c.ping_timer
        /\ d.callbacks_map = c.callbacks_map /\ d.ready = c.ready /\ d.posted = c.posted
    BY <1>5 DEF ReadMore, ConnType
  <2> HIDE DEF d
  <2> QED BY <1>5, <2>1, SteadySame, SteadyInv DEF d
<1> QED BY <1>5, <1>6, <1>8, <1>9 DEF PingOK

LEMMA OnReadErrorPing ==
  ASSUME conn \in ConnType, PingOK, OnReadError PROVE PingOK'
<1> DEFINE c == DismissCallbacks(Taken, "CB_ERR")
<1>1. conn.ready # <<>> BY DEF OnReadError, Next1
<1>2. /\ Taken \in ConnType /\ (Up(Taken) => ConnectAhead(Line(Taken)))
      /\ Up(Taken) /\ Head(conn.ready).ec = "aborted" => Rings(Taken, {<<"onConnect", "ok">>})
  BY <1>1, TakenPing
<1>3. c \in ConnType BY <1>2, DismissType DEF Results
<1>4. conn' = Reconnect(c) \/ (conn' = c /\ Head(conn.ready).ec = "aborted")
  BY DEF OnReadError, Ec
<1>5. Head(conn.ready).ec = "aborted" => PingInv(c) BY <1>2, DismissPing DEF Results
<1> HIDE DEF c
<1> QED BY <1>3, <1>4, <1>5, NotUp DEF PingOK

LEMMA OnWritePing ==
  ASSUME conn \in ConnType, PingOK, OnWriteDone \/ OnWriteError PROVE PingOK'
<1>1. conn.ready # <<>> /\ Head(conn.ready).h = "onWrite"
  BY DEF OnWriteDone, OnWriteError, Next1
<1>2. /\ Taken \in ConnType /\ (Up(Taken) => ConnectAhead(Line(Taken)))
      /\ Signal(Head(conn.ready)) \notin PingSignals => PingInv(Taken)
      /\ Up(Taken) /\ Head(conn.ready).ec = "aborted" => Rings(Taken, {<<"onConnect", "ok">>})
      /\ Head(conn.ready) \in Completion
  BY <1>1, TakenPing
<1>3. Arg \in Packets BY <1>1, <1>2 DEF Completion, Arg
<1>4. ASSUME NEW c \in ConnType, PingInv(c)
      PROVE  [c EXCEPT !.live = @ \ {Arg}] \in ConnType /\ PingInv([c EXCEPT !.live = @ \ {Arg}])
  <2> DEFINE d == [c EXCEPT !.live = @ \ {Arg}]
  <2>1. /\ d.sock = c.sock /\ d.ping_enabled = c.ping_enabled /\ d.ping_timer = c.ping_timer
        /\ d.callbacks_map = c.callbacks_map /\ d.ready = c.ready /\ d.posted = c.posted
        /\ d \in ConnType
    BY DEF ConnType
  <2> HIDE DEF d
  <2> QED BY <1>4, <2>1, SteadySame, SteadyInv DEF d
<1>5. CASE OnWriteDone
  <2>1. Signal(Head(conn.ready)) \notin PingSignals
    BY <1>1, <1>5 DEF OnWriteDone, Ec, Signal, PingSignals, Alarms
  <2>2. conn' = EnsureWriteBuffer([Taken EXCEPT !.live = @ \ {Arg}], TRUE)
    BY <1>5 DEF OnWriteDone
  <2> DEFINE d == [Taken EXCEPT !.live = @ \ {Arg}]
  <2>3. d \in ConnType /\ PingInv(d) BY <1>2, <1>4, <2>1
  <2> HIDE DEF d
  <2>4. PingInv(EnsureWriteBuffer(d, TRUE)) BY <2>3, EnsureWriteBufferSteady, SteadyInv
  <2> QED BY <2>2, <2>4 DEF PingOK, d
<1>6. CASE OnWriteError
  <2>1. \/ /\ conn' = [DismissCallbacks(Taken, "CB_ERR") EXCEPT !.live = @ \ {Arg}]
           /\ Head(conn.ready).ec = "aborted"
        \/ conn' = Reconnect([Taken EXCEPT !.write_queue = Append(@, Arg)])
        \/ conn' = [Reconnect(Taken) EXCEPT !.live = @ \ {Arg}]
    BY <1>6 DEF OnWriteError, Ec
  <2>2. [Taken EXCEPT !.write_queue = Append(@, Arg)] \in ConnType
    <3>1. Append(Taken.write_queue, Arg) \in Seq(Packets) BY <1>2, <1>3 DEF ConnType
    <3> QED BY <1>2, <3>1 DEF ConnType
  <2>3. Head(conn.ready).ec = "aborted" => PingInv(DismissCallbacks(Taken, "CB_ERR"))
    BY <1>2, DismissPing DEF Results
  <2>4. DismissCallbacks(Taken, "CB_ERR") \in ConnType BY <1>2, DismissType DEF Results
  <2>5. Reconnect(Taken) \in ConnType /\ PingInv(Reconnect(Taken)) BY <1>2, ReconnectType, NotUp
  <2> QED BY <1>4, <2>1, <2>2, <2>3, <2>4, <2>5, NotUp DEF PingOK
<1> QED BY <1>5, <1>6

LEMMA OnTimeoutPing ==
  ASSUME conn \in ConnType, PingOK, OnTimeout PROVE PingOK'
<1> DEFINE c == [Taken EXCEPT !.req_timer[Arg] = "idle"]
<1>1. conn.ready # <<>> /\ Head(conn.ready).h = "onTimeout" BY DEF OnTimeout, Next1
<1>2. Signal(Head(conn.ready)) \notin PingSignals BY <1>1 DEF Signal, PingSignals, Alarms
<1>3. Taken \in ConnType /\ Head(conn.ready) \in Completion /\ PingInv(Taken)
  BY <1>1, <1>2, TakenPing
<1>4. Arg \in Answered BY <1>1, <1>3 DEF Completion, Arg
<1>5. /\ c \in ConnType /\ c.sock = Taken.sock /\ c.ping_enabled = Taken.ping_enabled
      /\ c.ping_timer = Taken.ping_timer /\ c.callbacks_map = Taken.callbacks_map
      /\ c.ready = Taken.ready /\ c.posted = Taken.posted
  BY <1>3, <1>4 DEF ConnType
<1>6. conn' = InvokeCallback(c, SyncOf[Arg], "CB_TIMEOUT") BY DEF OnTimeout
<1> HIDE DEF c
<1>7. PingInv(c) BY <1>3, <1>5, SteadySame, SteadyInv
<1> QED BY <1>5, <1>6, <1>7, InvokeSteady, SteadyInv DEF PingOK, Results

LEMMA TimerHandlersPing ==
  ASSUME PingSyncReserved, conn \in ConnType, RequestsOK, PingOK,
         ReconnectByTimer \/ PingByTimer \/ PingCb
  PROVE  PingOK'
<1>1. conn.ready # <<>> BY DEF ReconnectByTimer, PingByTimer, PingCb, Next1
<1>2. /\ Taken \in ConnType /\ Taken.callbacks_map = conn.callbacks_map
      /\ Up(Taken) => ConnectAhead(Line(Taken))
  BY <1>1, TakenPing
<1>3. UnderOwnSync(Taken) BY <1>2 DEF RequestsOK, ReqInv, UnderOwnSync
<1>4. CASE conn' = Reconnect(Taken) BY <1>2, <1>4, NotUp DEF PingOK
<1>5. CASE PingByTimer
  <2>1. CASE conn' = Taken /\ ~conn.ping_enabled
    <3>1. Taken.ping_enabled = conn.ping_enabled BY DEF Taken, ConnType
    <3> QED BY <1>2, <2>1, <3>1 DEF PingOK, PingInv
  <2>2. CASE \E p \in Pings : conn' = SetupPing(Taken, p)
    BY <1>2, <1>3, <2>2, SetupPingChained DEF PingOK
  <2> QED BY <1>5, <2>1, <2>2 DEF PingByTimer, UnusedPings
<1>6. CASE conn' = [Taken EXCEPT !.ping_timer = "armed"]
  <2>1. /\ conn'.sock = Taken.sock /\ conn'.ping_timer = "armed"
        /\ conn'.ready = Taken.ready /\ conn'.posted = Taken.posted
    BY <1>2, <1>6 DEF ConnType
  <2> QED BY <1>2, <2>1 DEF PingOK, PingInv, Chained, Up, Line
<1> QED BY <1>4, <1>5, <1>6 DEF ReconnectByTimer, PingCb

LEMMA UserStepPing ==
  ASSUME PingSyncReserved, conn \in ConnType, RequestsOK, PingOK, UserStep PROVE PingOK'
<1>1. ASSUME NEW pkt \in Requests \cup Drops
      PROVE  LET c == Wrote(conn, pkt) IN c \in ConnType /\ PingInv(c) /\ UnderOwnSync(c)
  <2> DEFINE c == Wrote(conn, pkt)
  <2>1. /\ c \in ConnType /\ c.sock = conn.sock /\ c.ping_enabled = conn.ping_enabled
        /\ c.ping_timer = conn.ping_timer /\ c.callbacks_map = conn.callbacks_map
        /\ c.ready = conn.ready /\ c.posted = conn.posted
    BY DEF Wrote, ConnType
  <2> HIDE DEF c
  <2>2. PingInv(c) BY <2>1, SteadySame, SteadyInv DEF PingOK
  <2>3. UnderOwnSync(c) BY <2>1 DEF RequestsOK, ReqInv, UnderOwnSync
  <2> QED BY <2>1, <2>2, <2>3 DEF c
<1>2. ASSUME NEW r \in Requests, UserWrite(r) PROVE PingOK'
  <2>1. r \in Answered BY DEF Answered
  <2> QED BY <1>1, <1>2, <2>1, WritePing DEF UserWrite, PingOK
<1>3. ASSUME NEW d \in Drops, UserDropWrite(d) PROVE PingOK'
  <2>1. d \in Packets BY DEF Packets
  <2> QED BY <1>1, <1>3, <2>1, DropPacketWritePing DEF UserDropWrite, PingOK
<1>4. CASE UserCheckConnect BY <1>4, NotUp DEF UserCheckConnect, CheckConnect, PingOK
<1>5. CASE UserReconnect BY <1>5, NotUp DEF UserReconnect, PingOK
<1>6. CASE UserClose BY <1>6, NotUp DEF UserClose, PingOK
<1>7. CASE DisablePing
  <2>1. /\ conn'.sock = conn.sock /\ conn'.ping_enabled = FALSE
        /\ conn'.ready = conn.ready /\ conn'.posted = conn.posted
    BY <1>7 DEF DisablePing, ConnType
  <2> QED BY <2>1 DEF PingOK, PingInv, Up, Line
<1>8. CASE UserShutdown \/ GentleShutdown
  <2>1. conn' = DismissCallbacks(Close(conn), "CB_ERR")
    BY <1>8 DEF UserShutdown, GentleShutdown, Shutdown
  <2>2. Close(conn) \in ConnType /\ ~Up(Close(conn))
    BY CloseType DEF Close, ConnType, Up
  <2> QED BY <2>1, <2>2, DismissPing DEF PingOK, Results
<1> QED BY <1>2, <1>3, <1>4, <1>5, <1>6, <1>7, <1>8 DEF UserStep

\* The clock or the network posts a completion that no close() has aborted.
LEMMA PostedPing ==
  ASSUME conn \in ConnType, PingOK, NEW c \in ConnType,
         c.sock = conn.sock, c.ping_enabled = conn.ping_enabled,
         c.callbacks_map = conn.callbacks_map, c.ready = conn.ready, c.posted = conn.posted,
         NEW h, NEW ec, NEW arg, ec # "aborted", Done(h, ec, arg) \in Completion,
         c.ping_timer = conn.ping_timer \/ <<h, ec>> \in PingSignals,
         conn' = Post(c, h, ec, arg)
  PROVE  PingOK'
<1> DEFINE e == Done(h, ec, arg)
<1>1. /\ conn'.sock = conn.sock /\ conn'.ping_enabled = conn.ping_enabled
      /\ conn'.callbacks_map = conn.callbacks_map /\ conn'.ping_timer = c.ping_timer
      /\ conn'.ready = conn.ready /\ conn'.posted = Append(conn.posted, e)
  BY DEF Post, ConnType
<1>2. e.ec # "aborted" /\ Signal(e) = <<h, ec>> BY DEF Done, Signal
<1>3. e \in Completion OBVIOUS
<1> HIDE DEF e
<1>4. CASE c.ping_timer = conn.ping_timer
  BY <1>1, <1>2, <1>3, <1>4, SteadyPost, SteadyInv DEF PingOK
<1>5. CASE <<h, ec>> \in PingSignals
  <2>1. Signal(e) \in Signals(conn') BY <1>1, <1>3, PostedSignals
  <2>2. Chained(conn') BY <1>2, <1>5, <2>1 DEF Chained, Rings
  <2>3. conn.ready \in Seq(Completion) /\ conn.posted \in Seq(Completion) BY DEF ConnType
  <2>4. Line(conn') = Append(Line(conn), e) /\ Line(conn) \in Seq(Completion)
    <3>1. /\ conn.ready \o Append(conn.posted, e) = Append(conn.ready \o conn.posted, e)
          /\ conn.ready \o conn.posted \in Seq(Completion)
      BY <1>3, <2>3, LineAppend
    <3> QED BY <1>1, <3>1 DEF Line
  <2>5. ConnectAhead(Line(conn)) => ConnectAhead(Line(conn')) BY <1>2, <1>3, <2>4, AheadAppend
  <2> QED BY <1>1, <2>2, <2>5 DEF PingOK, PingInv, Up
<1> QED BY <1>4, <1>5

LEMMA ClockPing ==
  ASSUME conn \in ConnType, PingOK, Clock PROVE PingOK'
<1>1. CASE PollReturns
  <2>1. /\ conn'.sock = conn.sock /\ conn'.ping_enabled = conn.ping_enabled
        /\ conn'.callbacks_map = conn.callbacks_map /\ conn'.ping_timer = conn.ping_timer
        /\ conn'.ready = conn.posted /\ conn'.posted = <<>> /\ conn.ready = <<>>
    BY <1>1 DEF PollReturns, Polling, ConnType
  <2>2. conn.posted \in Seq(Completion) BY DEF ConnType
  <2>3. Line(conn') = Line(conn) BY <2>1, <2>2, ConcatEmptySeq DEF Line
  <2>4. Signals(conn') = Signals(conn) BY <2>1 DEF Signals
  <2> QED BY <2>1, <2>3, <2>4 DEF PingOK, PingInv, Up, Chained, Waiting, Rings
<1>2. CASE ConnectTimerExpires
  <2> DEFINE c == [conn EXCEPT !.timer = "idle"]
  <2>1. /\ c \in ConnType /\ c.sock = conn.sock /\ c.ping_enabled = conn.ping_enabled
        /\ c.ping_timer = conn.ping_timer /\ c.callbacks_map = conn.callbacks_map
        /\ c.ready = conn.ready /\ c.posted = conn.posted
    BY DEF ConnType
  <2>2. Done("reconnectByTimer", "ok", None) \in Completion BY DEF Done, Completion
  <2>3. conn' = Post(c, "reconnectByTimer", "ok", None) BY <1>2 DEF ConnectTimerExpires
  <2> HIDE DEF c
  <2> QED BY <2>1, <2>2, <2>3, PostedPing
<1>3. CASE PingTimerExpires
  <2> DEFINE c == [conn EXCEPT !.ping_timer = "idle"]
  <2>1. /\ c \in ConnType /\ c.sock = conn.sock /\ c.ping_enabled = conn.ping_enabled
        /\ c.callbacks_map = conn.callbacks_map
        /\ c.ready = conn.ready /\ c.posted = conn.posted
    BY DEF ConnType
  <2>2. Done("setupPing", "ok", None) \in Completion BY DEF Done, Completion
  <2>3. conn' = Post(c, "setupPing", "ok", None) BY <1>3 DEF PingTimerExpires
  <2>4. <<"setupPing", "ok">> \in PingSignals BY DEF PingSignals
  <2> HIDE DEF c
  <2> QED BY <2>1, <2>2, <2>3, <2>4, PostedPing
<1>4. ASSUME NEW i \in Answered, RequestTimerExpires(i) PROVE PingOK'
  <2> DEFINE c == [conn EXCEPT !.req_timer[i] = "expired"]
  <2>1. /\ c \in ConnType /\ c.sock = conn.sock /\ c.ping_enabled = conn.ping_enabled
        /\ c.ping_timer = conn.ping_timer /\ c.callbacks_map = conn.callbacks_map
        /\ c.ready = conn.ready /\ c.posted = conn.posted
    BY DEF ConnType
  <2>2. Done("onTimeout", "ok", i) \in Completion BY DEF Done, Completion
  <2>3. conn' = Post(c, "onTimeout", "ok", i) BY <1>4 DEF RequestTimerExpires
  <2> HIDE DEF c
  <2> QED BY <2>1, <2>2, <2>3, PostedPing
<1> QED BY <1>1, <1>2, <1>3, <1>4 DEF Clock

\* A read or a write of the socket ends; neither is aborted.
LEMMA TransferPing ==
  ASSUME conn \in ConnType, PingOK,
         \/ \E i \in Answered : ReadFrame(i)
         \/ ReadPart \/ ReadFails \/ WriteSucceeds \/ WriteFails
  PROVE  PingOK'
<1>1. ASSUME NEW h, NEW ec \in {"ok", "epipe", "error"}, NEW arg, Done(h, ec, arg) \in Completion,
             conn'.sock = conn.sock, conn'.ping_enabled = conn.ping_enabled,
             conn'.ping_timer = conn.ping_timer, conn'.callbacks_map = conn.callbacks_map,
             conn'.ready = conn.ready, conn'.posted = Append(conn.posted, Done(h, ec, arg))
      PROVE  PingOK'
  <2> DEFINE e == Done(h, ec, arg)
  <2>1. e.ec # "aborted" BY DEF Done
  <2>2. e \in Completion /\ conn'.posted = Append(conn.posted, e) BY <1>1
  <2> HIDE DEF e
  <2>3. Steady(conn, conn') BY <1>1, <2>1, <2>2, SteadyPost
  <2> QED BY <2>3, SteadyInv DEF PingOK
<1>2. ASSUME NEW i \in Answered, ReadFrame(i) PROVE PingOK'
  <2>1. Done("onRead", "ok", SyncOf[i]) \in Completion BY SyncsAssigned DEF Done, Completion
  <2>2. /\ conn'.sock = conn.sock /\ conn'.ping_enabled = conn.ping_enabled
        /\ conn'.ping_timer = conn.ping_timer /\ conn'.callbacks_map = conn.callbacks_map
        /\ conn'.ready = conn.ready
        /\ conn'.posted = Append(conn.posted, Done("onRead", "ok", SyncOf[i]))
    BY <1>2 DEF ReadFrame, Post, ConnType
  <2> QED BY <1>1, <2>1, <2>2
<1>3. CASE ReadPart \/ ReadFails
  <2>1. PICK ec \in {"ok", "error"} :
          conn' = Post([conn EXCEPT !.reads = @ - 1], "onRead", ec, None)
    BY <1>3 DEF ReadPart, ReadFails
  <2>2. Done("onRead", ec, None) \in Completion BY DEF Done, Completion
  <2>3. /\ conn'.sock = conn.sock /\ conn'.ping_enabled = conn.ping_enabled
        /\ conn'.ping_timer = conn.ping_timer /\ conn'.callbacks_map = conn.callbacks_map
        /\ conn'.ready = conn.ready
        /\ conn'.posted = Append(conn.posted, Done("onRead", ec, None))
    BY <2>1 DEF Post, ConnType
  <2> QED BY <1>1, <2>2, <2>3
<1>4. CASE WriteSucceeds
  <2> DEFINE wr == Head(conn.writes)
  <2>1. wr \in Packets BY <1>4 DEF WriteSucceeds, ConnType
  <2>2. Done("onWrite", "ok", wr) \in Completion BY <2>1 DEF Done, Completion
  <2>3. /\ conn'.sock = conn.sock /\ conn'.ping_enabled = conn.ping_enabled
        /\ conn'.ping_timer = conn.ping_timer /\ conn'.callbacks_map = conn.callbacks_map
        /\ conn'.ready = conn.ready
        /\ conn'.posted = Append(conn.posted, Done("onWrite", "ok", wr))
    BY <1>4 DEF WriteSucceeds, Post, ConnType
  <2> HIDE DEF wr
  <2> QED BY <1>1, <2>2, <2>3
<1>5. CASE WriteFails
  <2> DEFINE wr == Head(conn.writes)
  <2>1. wr \in Packets BY <1>5 DEF WriteFails, ConnType
  <2>2. PICK ec \in {"epipe", "error"} :
          conn' = Post([conn EXCEPT !.writes = Tail(@)], "onWrite", ec, wr)
    BY <1>5 DEF WriteFails
  <2>3. Done("onWrite", ec, wr) \in Completion BY <2>1 DEF Done, Completion
  <2>4. /\ conn'.sock = conn.sock /\ conn'.ping_enabled = conn.ping_enabled
        /\ conn'.ping_timer = conn.ping_timer /\ conn'.callbacks_map = conn.callbacks_map
        /\ conn'.ready = conn.ready
        /\ conn'.posted = Append(conn.posted, Done("onWrite", ec, wr))
    BY <2>2 DEF Post, ConnType
  <2> HIDE DEF wr
  <2> QED BY <1>1, <2>3, <2>4
<1> QED BY <1>2, <1>3, <1>4, <1>5

LEMMA NetworkPing ==
  ASSUME conn \in ConnType, PingOK, Network PROVE PingOK'
<1>1. CASE ConnectSucceeds
  <2> DEFINE e == Done("onConnect", "ok", None)
  <2>1. conn.ready = <<>> /\ conn.posted \in Seq(Completion)
    BY <1>1 DEF ConnectSucceeds, Collects, Polling, ConnType
  <2>2. conn'.ready = <<>> /\ conn'.posted = Append(conn.posted, e)
    BY <1>1, <2>1 DEF ConnectSucceeds, Post, ConnType
  <2>3. e \in Completion /\ Signal(e) = <<"onConnect", "ok">> BY DEF Done, Completion, Signal
  <2> HIDE DEF e
  <2>4. Append(conn.posted, e) \in Seq(Completion) BY <2>1, <2>3, AppendProperties
  <2>5. Line(conn') = Append(conn.posted, e) BY <2>2, <2>4, ConcatEmptySeq DEF Line
  <2>6. ConnectAhead(Append(conn.posted, e)) BY <2>1, <2>3, AheadOfNew
  <2>7. Chained(conn')
    <3>1. Signal(e) \in SignalsOf(conn'.posted) BY <2>1, <2>2, <2>3, SignalsAppend
    <3> QED BY <2>3, <3>1 DEF Chained, Rings, PingSignals, Alarms, Signals
  <2> QED BY <2>5, <2>6, <2>7 DEF PingOK, PingInv
<1>2. CASE ConnectFails \/ PeerCloses
  <2>1. conn'.sock = "dead" BY <1>2 DEF ConnectFails, PeerCloses, Lost, ConnType
  <2> QED BY <2>1 DEF PingOK, PingInv, Up
<1>3. CASE PeerVanishes
  <2>1. /\ Up(conn) /\ conn'.ping_enabled = conn.ping_enabled
        /\ conn'.ping_timer = conn.ping_timer /\ conn'.callbacks_map = conn.callbacks_map
        /\ conn'.ready = conn.ready /\ conn'.posted = conn.posted
    BY <1>3 DEF PeerVanishes, Lost, ConnType, Up
  <2> QED BY <2>1 DEF PingOK, PingInv, Chained, Waiting, Rings, Signals, Line
<1> QED BY <1>1, <1>2, <1>3, TransferPing DEF Network

LEMMA PingCorrect == ASSUME PingSyncReserved PROVE Spec => []PingOK
<1>1. Init => PingOK
  <2> SUFFICES ASSUME Init PROVE PingOK OBVIOUS
  <2>1. conn.sock = "closed" BY DEF Init, NewConn
  <2> QED BY <2>1 DEF PingOK, PingInv, Up
<1>2. TypeOK /\ RequestsOK /\ PingOK /\ [Next]_vars => PingOK'
  <2> SUFFICES ASSUME TypeOK, RequestsOK, PingOK, [Next]_vars PROVE PingOK' OBVIOUS
  <2>1. conn \in ConnType BY DEF TypeOK
  <2>2. CASE UNCHANGED vars BY <2>2 DEF PingOK, vars
  <2>3. CASE Next
    BY <2>1, <2>3, OnConnectPing, OnReadDataPing, OnReadErrorPing, OnWritePing,
       OnTimeoutPing, TimerHandlersPing, UserStepPing, ClockPing, NetworkPing
       DEF Next, RunHandler
  <2> QED BY <2>2, <2>3
<1> QED BY <1>1, <1>2, TypeCorrect, RequestsCorrect, PTL DEF Spec

(***************************************************************************)
(* On an established connection the chain of pings never breaks, though    *)
(* dismissCallbacks(), called for an aborted operation of the connection   *)
(* before it, cancels ping_timer: what a close() aborts is handled before  *)
(* the onConnect of the next connection, whose handler sends a ping.       *)
(* Holds if no request takes the sync of the ping packet (setupPing,       *)
(* pingCb, onConnect, dismissCallbacks).                                   *)
(***************************************************************************)
THEOREM PingsGoOn == ASSUME PingSyncReserved PROVE Spec => []PingChain
<1>1. PingOK => PingChain
  <2> SUFFICES ASSUME PingOK, Up(conn), conn.ping_enabled,
                      Waiting(conn) \cap Pings = {}, conn.ping_timer # "armed"
               PROVE  \/ Reconnects \/ Queued("setupPing", {"ok"}) \/ Queued("pingCb", Results)
                      \/ Queued("onConnect", {"ok"})
    BY DEF PingChain, Up
  <2>1. PICK s \in PingSignals : s \in Signals(conn) BY DEF PingOK, PingInv, Chained, Rings
  <2>2. CASE s \in Alarms BY <2>1, <2>2, AlarmQueued DEF Rings
  <2>3. CASE s = <<"setupPing", "ok">> BY <2>1, <2>3, SignalQueued
  <2>4. ASSUME NEW res \in Results, s = <<"pingCb", res>> PROVE Queued("pingCb", Results)
    BY <2>1, <2>4, SignalQueued
  <2> QED BY <2>2, <2>3, <2>4 DEF PingSignals
<1> QED BY <1>1, PingCorrect, PTL
===============================================================================
