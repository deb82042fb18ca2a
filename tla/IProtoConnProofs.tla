--------------------------- MODULE IProtoConnProofs ---------------------------
(***************************************************************************)
(* Proofs about IProtoConn, for any number of requests, syncs, pings,      *)
(* queued completions, faults and calls.                                   *)
(*                                                                         *)
(* The first part types every method (lemmas FooType) and every action,    *)
(* and ends in TypeCorrect.  The second is about requests: ReqInv is the   *)
(* inductive invariant, a predicate of a state of the connection; methods  *)
(* that leave the requests alone are shown to (lemmas FooKeeps, see Keeps),*)
(* the three that do not, invokeCallback, dismissCallbacks and Write,      *)
(* to re-establish it; then come the actions (FooReqInv) and the theorems. *)
(***************************************************************************)
EXTENDS IProtoConn, SequenceTheorems, TLAPS

LEMMA BeginConnectType ==
  ASSUME NEW c \in ConnType PROVE BeginConnect(c) \in ConnType
  BY DEF ConnType, BeginConnect

LEMMA CancelTimersType ==
  ASSUME NEW c \in ConnType, NEW who
  PROVE  CancelTimers(c, who) \in [Answered -> {"idle", "armed", "expired"}]
  BY DEF ConnType, CancelTimers

LEMMA PostCallbacksType ==
  ASSUME NEW c \in ConnType, NEW who, NEW code \in Results
  PROVE  PostCallbacks(c, who, code) \in Seq(Completion)
<1>1. Done("pingCb", code, None) \in Completion
  BY DEF Done, Completion
<1> QED BY <1>1 DEF ConnType, PostCallbacks

LEMMA DismissType ==
  ASSUME NEW c \in ConnType, NEW code \in Results PROVE DismissCallbacks(c, code) \in ConnType
<1> DEFINE t == CancelTimers(c, Waiting(c))
           a == [r \in Requests |-> IF r \in Waiting(c) THEN c.answers[r] + 1 ELSE c.answers[r]]
           p == PostCallbacks(c, Waiting(c), code)
           m == [s \in Syncs |-> None]
<1>1. t \in [Answered -> {"idle", "armed", "expired"}] BY CancelTimersType
<1>2. a \in [Requests -> Nat] BY DEF ConnType
<1>3. p \in Seq(Completion) BY PostCallbacksType
<1>4. m \in [Syncs -> Answered \cup {None}] OBVIOUS
<1>5. DismissCallbacks(c, code) = [c EXCEPT !.ping_timer = "idle", !.callbacks_map = m, !.req_timer = t, !.answers = a, !.posted = p]
  BY DEF DismissCallbacks, ConnType
<1> HIDE DEF t, a, p, m
<1> QED BY <1>1, <1>2, <1>3, <1>4, <1>5 DEF ConnType

LEMMA InvokeCallbackType ==
  ASSUME NEW c \in ConnType, NEW sync \in Syncs, NEW code \in Results
  PROVE  InvokeCallback(c, sync, code) \in ConnType
<1> DEFINE who == {c.callbacks_map[sync]} \ {None}
           t == IF code = "CB_TIMEOUT" THEN c.req_timer ELSE CancelTimers(c, who)
           a == [r \in Requests |-> IF r \in who THEN c.answers[r] + 1 ELSE c.answers[r]]
           p == PostCallbacks(c, who, code)
           m == [c.callbacks_map EXCEPT ![sync] = None]
<1>1. t \in [Answered -> {"idle", "armed", "expired"}]
  <2>1. CancelTimers(c, who) \in [Answered -> {"idle", "armed", "expired"}] BY CancelTimersType
  <2> HIDE DEF who
  <2> QED BY <2>1 DEF ConnType
<1>2. a \in [Requests -> Nat]
  <2> HIDE DEF who
  <2> QED BY DEF ConnType
<1>3. p \in Seq(Completion) BY PostCallbacksType
<1>4. m \in [Syncs -> Answered \cup {None}] BY DEF ConnType
<1>5. InvokeCallback(c, sync, code)
        = [c EXCEPT !.callbacks_map = m, !.req_timer = t, !.answers = a, !.posted = p]
  BY DEF InvokeCallback, ConnType
<1> HIDE DEF t, a, p, m
<1> QED BY <1>1, <1>2, <1>3, <1>4, <1>5 DEF ConnType

LEMMA AbortedType ==
  ASSUME NEW c \in ConnType PROVE Aborted(c) \in Seq(Completion)
<1>1. [i \in 1..c.reads |-> Done("onRead", "aborted", None)] \in Seq(Completion)
  <2>1. Done("onRead", "aborted", None) \in Completion BY DEF Done, Completion
  <2>2. c.reads \in Nat BY DEF ConnType
  <2>3. [i \in 1..c.reads |-> Done("onRead", "aborted", None)] \in [1..c.reads -> Completion]
    BY <2>1
  <2> QED BY <2>2, <2>3, SeqDef
<1>2. [i \in 1..Len(c.writes) |-> Done("onWrite", "aborted", c.writes[i])] \in Seq(Completion)
  <2>1. \A i \in 1..Len(c.writes) : Done("onWrite", "aborted", c.writes[i]) \in Completion
    BY DEF Done, Completion, ConnType
  <2>2. Len(c.writes) \in Nat BY DEF ConnType
  <2> QED BY <2>1, <2>2
<1> QED BY <1>1, <1>2, ConcatProperties DEF Aborted

LEMMA CloseType ==
  ASSUME NEW c \in ConnType PROVE Close(c) \in ConnType
<1> DEFINE p == c.posted \o Aborted(c)
           e == <<>>
           d == [c EXCEPT !.sock = "closed", !.reads = 0, !.sent = {}]
<1>1. p \in Seq(Completion)
  <2>1. c.posted \in Seq(Completion) BY DEF ConnType
  <2> QED BY <2>1, AbortedType, ConcatProperties
<1>2. Close(c) = [d EXCEPT !.writes = e, !.posted = p] BY DEF Close, ConnType
<1>3. d \in ConnType BY DEF ConnType
<1>4. e \in Seq(Packets) OBVIOUS
<1> HIDE DEF p, e, d
<1> QED BY <1>1, <1>2, <1>3, <1>4 DEF ConnType

LEMMA ReconnectType ==
  ASSUME NEW c \in ConnType PROVE Reconnect(c) \in ConnType
  BY CloseType, BeginConnectType DEF Reconnect

LEMMA CheckConnectType ==
  ASSUME NEW c \in ConnType PROVE CheckConnect(c) \in ConnType
  BY BeginConnectType DEF CheckConnect

LEMMA StartWriteType ==
  ASSUME NEW c \in ConnType, c.write_queue # <<>> PROVE StartWrite(c) \in ConnType
<1> DEFINE wr == Head(c.write_queue)
           w == IF Open(c) THEN Append(c.writes, wr) ELSE c.writes
           p == IF Open(c) THEN c.posted ELSE Append(c.posted, Done("onWrite", "error", wr))
<1>1. wr \in Packets /\ Tail(c.write_queue) \in Seq(Packets) BY DEF ConnType
<1>2. w \in Seq(Packets) BY <1>1 DEF ConnType
<1>3. p \in Seq(Completion)
  <2>1. Done("onWrite", "error", wr) \in Completion BY <1>1 DEF Done, Completion
  <2> QED BY <2>1 DEF ConnType
<1>4. StartWrite(c) = [c EXCEPT !.write_queue = Tail(c.write_queue), !.write_is_active = TRUE,
                                !.writes = w, !.posted = p]
  BY DEF StartWrite, ConnType
<1> HIDE DEF wr, w, p
<1> QED BY <1>1, <1>2, <1>3, <1>4 DEF ConnType

LEMMA EnsureWriteBufferType ==
  ASSUME NEW c \in ConnType, NEW finished \in BOOLEAN
  PROVE  EnsureWriteBuffer(c, finished) \in ConnType
<1>1. [c EXCEPT !.write_is_active = FALSE] \in ConnType BY DEF ConnType
<1> QED BY <1>1, StartWriteType DEF EnsureWriteBuffer

LEMMA DropPacketWriteType ==
  ASSUME NEW c \in ConnType, NEW pkt \in Packets PROVE DropPacketWrite(c, pkt) \in ConnType
<1> DEFINE q == [c EXCEPT !.write_queue = Append(c.write_queue, pkt), !.live = c.live \cup {pkt}]
<1>1. q \in ConnType
  <2>1. Append(c.write_queue, pkt) \in Seq(Packets) BY DEF ConnType
  <2>2. c.live \cup {pkt} \in SUBSET Packets BY DEF ConnType
  <2> QED BY <2>1, <2>2 DEF ConnType
<1>2. DropPacketWrite(c, pkt) = IF Open(c) THEN EnsureWriteBuffer(q, FALSE) ELSE BeginConnect(q)
  BY DEF DropPacketWrite
<1> HIDE DEF q
<1> QED BY <1>1, <1>2, EnsureWriteBufferType, BeginConnectType

\* The entry of callbacks_map and the timer that Write() makes.
Registered(c, pkt) == [c EXCEPT !.req_timer[pkt] = "armed",
                                !.callbacks_map[SyncOf[pkt]] = pkt]

LEMMA RegisteredType ==
  ASSUME NEW c \in ConnType, NEW pkt \in Answered PROVE Registered(c, pkt) \in ConnType
<1>1. SyncOf[pkt] \in Syncs BY SyncsAssigned
<1>2. [c.req_timer EXCEPT ![pkt] = "armed"] \in [Answered -> {"idle", "armed", "expired"}]
  BY DEF ConnType
<1>3. [c.callbacks_map EXCEPT ![SyncOf[pkt]] = pkt] \in [Syncs -> Answered \cup {None}]
  BY <1>1 DEF ConnType
<1> QED BY <1>2, <1>3 DEF Registered, ConnType

LEMMA WriteType ==
  ASSUME NEW c \in ConnType, NEW pkt \in Answered PROVE Write(c, pkt) \in ConnType
<1>1. pkt \in Packets BY DEF Answered, Packets
<1>2. Write(c, pkt) = DropPacketWrite(Registered(c, pkt), pkt) BY DEF Write, Registered
<1> QED BY <1>1, <1>2, RegisteredType, DropPacketWriteType

LEMMA SetupPingType ==
  ASSUME NEW c \in ConnType, NEW p \in Pings PROVE SetupPing(c, p) \in ConnType
  BY CheckConnectType, WriteType DEF SetupPing, Answered

LEMMA ReadMoreType ==
  ASSUME NEW c \in ConnType PROVE ReadMore(c) \in ConnType
<1>1. c.reads + 1 \in Nat BY DEF ConnType
<1>2. ReadMore(c) = [c EXCEPT !.reads = c.reads + 1] BY DEF ReadMore
<1> QED BY <1>1, <1>2 DEF ConnType

LEMMA PostType ==
  ASSUME NEW c \in ConnType, NEW h, NEW ec, NEW arg, Done(h, ec, arg) \in Completion
  PROVE  Post(c, h, ec, arg) \in ConnType
<1> DEFINE p == Append(c.posted, Done(h, ec, arg))
<1>1. p \in Seq(Completion) BY DEF ConnType
<1>2. Post(c, h, ec, arg) = [c EXCEPT !.posted = p] BY DEF Post
<1> HIDE DEF p
<1> QED BY <1>1, <1>2 DEF ConnType

LEMMA TakenType ==
  ASSUME conn \in ConnType, conn.ready # <<>>
  PROVE  Taken \in ConnType /\ Head(conn.ready) \in Completion
<1> DEFINE t == Tail(conn.ready)
<1>1. t \in Seq(Completion) /\ Head(conn.ready) \in Completion BY DEF ConnType
<1>2. Taken = [conn EXCEPT !.ready = t] BY DEF Taken
<1> HIDE DEF t
<1> QED BY <1>1, <1>2 DEF ConnType

LEMMA OnConnectType ==
  ASSUME conn \in ConnType, OnConnect PROVE conn' \in ConnType
<1> DEFINE c == [Taken EXCEPT !.timer = "idle"]
<1>1. c \in ConnType
  <2>1. Taken \in ConnType BY TakenType DEF OnConnect, Next1
  <2> QED BY <2>1 DEF ConnType
<1>2. \/ conn' = c
      \/ \E p \in Pings : conn' = SetupPing(ReadMore(c), p)
      \/ conn' = EnsureWriteBuffer(ReadMore(c), FALSE)
  BY DEF OnConnect, UnusedPings
<1> HIDE DEF c
<1> QED BY <1>1, <1>2, ReadMoreType, SetupPingType, EnsureWriteBufferType

LEMMA OnReadDataType ==
  ASSUME conn \in ConnType, OnReadData PROVE conn' \in ConnType
<1> DEFINE c == IF Arg = None THEN Taken ELSE InvokeCallback(Taken, Arg, "CB_OK")
<1>1. Taken \in ConnType /\ Head(conn.ready) \in Completion
  BY TakenType DEF OnReadData, Next1
<1>2. Arg \in Syncs \cup {None} BY <1>1 DEF OnReadData, Next1, Completion, Ec, Arg
<1>3. c \in ConnType BY <1>1, <1>2, InvokeCallbackType DEF Results
<1>4. conn' = ReadMore(c) \/ conn' = c
      \/ conn' = [c EXCEPT !.posted = Append(@, Done("onRead", "error", None))]
  BY DEF OnReadData, ReadOnClosed
<1> HIDE DEF c
<1>5. Done("onRead", "error", None) \in Completion BY DEF Done, Completion
<1>6. Append(c.posted, Done("onRead", "error", None)) \in Seq(Completion)
  BY <1>3, <1>5 DEF ConnType
<1>7. [c EXCEPT !.posted = Append(c.posted, Done("onRead", "error", None))] \in ConnType
  BY <1>3, <1>6 DEF ConnType
<1> QED BY <1>3, <1>4, <1>7, ReadMoreType

LEMMA OnReadErrorType ==
  ASSUME conn \in ConnType, OnReadError PROVE conn' \in ConnType
<1>1. Taken \in ConnType BY TakenType DEF OnReadError, Next1
<1> QED BY <1>1, DismissType, ReconnectType DEF OnReadError, Results

LEMMA OnWriteDoneType ==
  ASSUME conn \in ConnType, OnWriteDone PROVE conn' \in ConnType
<1>1. Taken \in ConnType BY TakenType DEF OnWriteDone, Next1
<1>2. [Taken EXCEPT !.live = @ \ {Arg}] \in ConnType BY <1>1 DEF ConnType
<1> QED BY <1>2, EnsureWriteBufferType DEF OnWriteDone

LEMMA OnWriteErrorType ==
  ASSUME conn \in ConnType, OnWriteError PROVE conn' \in ConnType
<1>1. Taken \in ConnType /\ Head(conn.ready) \in Completion
  BY TakenType DEF OnWriteError, Next1
<1>2. Arg \in Packets /\ Ec \in {"aborted", "epipe", "error"}
  BY <1>1 DEF OnWriteError, Next1, Completion, Ec, Arg
<1>3. \A c \in ConnType : [c EXCEPT !.live = @ \ {Arg}] \in ConnType BY DEF ConnType
<1>4. [Taken EXCEPT !.write_queue = Append(@, Arg)] \in ConnType
  <2>1. Append(Taken.write_queue, Arg) \in Seq(Packets) BY <1>1, <1>2 DEF ConnType
  <2> QED BY <1>1, <2>1 DEF ConnType
<1>5. CASE Ec = "aborted"
  <2>1. DismissCallbacks(Taken, "CB_ERR") \in ConnType BY <1>1, DismissType DEF Results
  <2> QED BY <1>3, <1>5, <2>1 DEF OnWriteError
<1>6. CASE Ec = "epipe" BY <1>4, <1>6, ReconnectType DEF OnWriteError
<1>7. CASE Ec = "error" BY <1>1, <1>3, <1>7, ReconnectType DEF OnWriteError
<1> QED BY <1>2, <1>5, <1>6, <1>7

LEMMA OnTimeoutType ==
  ASSUME conn \in ConnType, OnTimeout PROVE conn' \in ConnType
<1>1. Taken \in ConnType /\ Head(conn.ready) \in Completion
  BY TakenType DEF OnTimeout, Next1
<1>2. Arg \in Answered BY <1>1 DEF OnTimeout, Next1, Completion, Arg
<1>3. SyncOf[Arg] \in Syncs BY <1>2, SyncsAssigned
<1>4. [Taken EXCEPT !.req_timer[Arg] = "idle"] \in ConnType BY <1>1, <1>2 DEF ConnType
<1> QED BY <1>3, <1>4, InvokeCallbackType DEF OnTimeout, Results

LEMMA TimerHandlersType ==
  ASSUME conn \in ConnType, ReconnectByTimer \/ PingByTimer \/ PingCb
  PROVE  conn' \in ConnType
<1>1. Taken \in ConnType BY TakenType DEF ReconnectByTimer, PingByTimer, PingCb, Next1
<1>2. CASE ReconnectByTimer BY <1>1, <1>2, ReconnectType DEF ReconnectByTimer
<1>3. CASE PingByTimer
  BY <1>1, <1>3, SetupPingType DEF PingByTimer, UnusedPings
<1>4. CASE PingCb
  <2>1. [Taken EXCEPT !.ping_timer = "armed"] \in ConnType BY <1>1 DEF ConnType
  <2> QED BY <1>1, <1>4, <2>1, ReconnectType DEF PingCb
<1> QED BY <1>2, <1>3, <1>4

LEMMA ShutdownType ==
  ASSUME NEW c \in ConnType PROVE Shutdown(c) \in ConnType
  BY CloseType, DismissType DEF Shutdown, Results

LEMMA UserStepType ==
  ASSUME conn \in ConnType, UserStep PROVE conn' \in ConnType
<1>1. ASSUME NEW r \in Requests, UserWrite(r) PROVE conn' \in ConnType
  <2>1. Wrote(conn, r) \in ConnType BY DEF Wrote, ConnType
  <2> QED BY <1>1, <2>1, WriteType DEF UserWrite, Answered
<1>2. ASSUME NEW d \in Drops, UserDropWrite(d) PROVE conn' \in ConnType
  <2>1. Wrote(conn, d) \in ConnType BY DEF Wrote, ConnType
  <2> QED BY <1>2, <2>1, DropPacketWriteType DEF UserDropWrite, Packets
<1>3. CASE DisablePing BY <1>3 DEF DisablePing, ConnType
<1>4. CASE UserCheckConnect \/ UserReconnect \/ UserClose \/ UserShutdown \/ GentleShutdown
  BY <1>4, CheckConnectType, ReconnectType, CloseType, ShutdownType
  DEF UserCheckConnect, UserReconnect, UserClose, UserShutdown, GentleShutdown
<1> QED BY <1>1, <1>2, <1>3, <1>4 DEF UserStep

LEMMA ClockType ==
  ASSUME conn \in ConnType, Clock PROVE conn' \in ConnType
<1>1. CASE PollReturns
  <2> DEFINE e == <<>>
  <2>1. e \in Seq(Completion) /\ conn.posted \in Seq(Completion) BY DEF ConnType
  <2>2. conn' = [conn EXCEPT !.ready = conn.posted, !.posted = e] BY <1>1 DEF PollReturns
  <2> HIDE DEF e
  <2> QED BY <2>1, <2>2 DEF ConnType
<1>2. CASE ConnectTimerExpires
  <2>1. [conn EXCEPT !.timer = "idle"] \in ConnType BY DEF ConnType
  <2>2. Done("reconnectByTimer", "ok", None) \in Completion BY DEF Done, Completion
  <2> QED BY <1>2, <2>1, <2>2, PostType DEF ConnectTimerExpires
<1>3. CASE PingTimerExpires
  <2>1. [conn EXCEPT !.ping_timer = "idle"] \in ConnType BY DEF ConnType
  <2>2. Done("setupPing", "ok", None) \in Completion BY DEF Done, Completion
  <2> QED BY <1>3, <2>1, <2>2, PostType DEF PingTimerExpires
<1>4. ASSUME NEW i \in Answered, RequestTimerExpires(i) PROVE conn' \in ConnType
  <2>1. [conn EXCEPT !.req_timer[i] = "expired"] \in ConnType BY DEF ConnType
  <2>2. Done("onTimeout", "ok", i) \in Completion BY DEF Done, Completion
  <2> QED BY <1>4, <2>1, <2>2, PostType DEF RequestTimerExpires
<1> QED BY <1>1, <1>2, <1>3, <1>4 DEF Clock

LEMMA ReadsType ==
  ASSUME conn \in ConnType,
         \/ \E i \in Answered : ReadFrame(i)
         \/ ReadPart \/ ReadFails
  PROVE  conn' \in ConnType
<1>1. ASSUME conn.reads > 0 PROVE conn.reads - 1 \in Nat BY <1>1 DEF ConnType
<1> DEFINE less == [conn EXCEPT !.reads = conn.reads - 1]
<1>2. ASSUME conn.reads > 0 PROVE less \in ConnType BY <1>1, <1>2 DEF ConnType
<1>3. ASSUME NEW i \in Answered, ReadFrame(i) PROVE conn' \in ConnType
  <2> DEFINE sent == conn.sent \ {i}
             c == [conn EXCEPT !.reads = conn.reads - 1, !.sent = sent]
  <2>1. sent \in SUBSET Answered BY DEF ConnType
  <2>2. conn.reads - 1 \in Nat BY <1>1, <1>3 DEF ReadFrame
  <2>3. conn' = Post(c, "onRead", "ok", SyncOf[i]) BY <1>3 DEF ReadFrame
  <2> HIDE DEF sent
  <2>4. c \in ConnType BY <2>1, <2>2 DEF ConnType
  <2>5. Done("onRead", "ok", SyncOf[i]) \in Completion BY SyncsAssigned DEF Done, Completion
  <2> HIDE DEF c
  <2> QED BY <2>3, <2>4, <2>5, PostType
<1>4. CASE ReadPart
  <2>1. conn' = Post(less, "onRead", "ok", None) BY <1>4 DEF ReadPart
  <2>2. Done("onRead", "ok", None) \in Completion BY DEF Done, Completion
  <2> QED BY <1>2, <1>4, <2>1, <2>2, PostType DEF ReadPart
<1>5. CASE ReadFails
  <2>1. conn' = Post(less, "onRead", "error", None) BY <1>5 DEF ReadFails
  <2>2. Done("onRead", "error", None) \in Completion BY DEF Done, Completion
  <2> QED BY <1>2, <1>5, <2>1, <2>2, PostType DEF ReadFails
<1> QED BY <1>3, <1>4, <1>5

LEMMA WritesType ==
  ASSUME conn \in ConnType, WriteSucceeds \/ WriteFails PROVE conn' \in ConnType
<1> DEFINE wr == Head(conn.writes)
           rest == Tail(conn.writes)
<1>1. wr \in Packets /\ rest \in Seq(Packets)
  BY DEF ConnType, WriteSucceeds, WriteFails
<1> HIDE DEF wr, rest
<1>2. CASE WriteSucceeds
  <2> DEFINE sent == IF conn.sock = "connected" THEN conn.sent \cup ({wr} \cap Answered)
                                                ELSE conn.sent
             c == [conn EXCEPT !.writes = rest, !.sent = sent]
  <2>1. sent \in SUBSET Answered BY DEF ConnType
  <2>2. conn' = Post(c, "onWrite", "ok", wr) BY <1>2 DEF WriteSucceeds, wr, rest
  <2> HIDE DEF sent
  <2>3. c \in ConnType BY <1>1, <2>1 DEF ConnType
  <2>4. Done("onWrite", "ok", wr) \in Completion BY <1>1 DEF Done, Completion
  <2> HIDE DEF c
  <2> QED BY <2>2, <2>3, <2>4, PostType
<1>3. CASE WriteFails
  <2> DEFINE c == [conn EXCEPT !.writes = rest]
  <2>1. c \in ConnType BY <1>1 DEF ConnType
  <2>2. PICK ec \in {"epipe", "error"} : conn' = Post(c, "onWrite", ec, wr)
    BY <1>3 DEF WriteFails, wr, rest
  <2>3. Done("onWrite", ec, wr) \in Completion BY <1>1 DEF Done, Completion
  <2> HIDE DEF c
  <2> QED BY <2>1, <2>2, <2>3, PostType
<1> QED BY <1>2, <1>3

LEMMA NetworkType ==
  ASSUME conn \in ConnType, Network PROVE conn' \in ConnType
<1>1. CASE ConnectSucceeds
  <2>1. [conn EXCEPT !.sock = "connected"] \in ConnType BY DEF ConnType
  <2>2. Done("onConnect", "ok", None) \in Completion BY DEF Done, Completion
  <2> QED BY <1>1, <2>1, <2>2, PostType DEF ConnectSucceeds
<1>2. CASE ConnectFails BY <1>2 DEF ConnectFails, ConnType
<1>3. CASE PeerCloses \/ PeerVanishes
  <2>1. {} \in SUBSET Answered OBVIOUS
  <2>2. Lost("dead") \in ConnType BY <2>1 DEF Lost, ConnType
  <2>3. Lost("silent") \in ConnType BY <2>1 DEF Lost, ConnType
  <2> QED BY <1>3, <2>2, <2>3 DEF PeerCloses, PeerVanishes
<1> QED BY <1>1, <1>2, <1>3, ReadsType, WritesType DEF Network

LEMMA BudgetType ==
  ASSUME budget \in Budget, Next PROVE budget' \in Budget
<1>1. CASE UNCHANGED budget BY <1>1
<1>2. CASE Control BY <1>2, BoundsTyped DEF Control, Budget
<1>3. CASE Fault BY <1>3, BoundsTyped DEF Fault, Budget
<1> QED BY <1>1, <1>2, <1>3
  DEF Next, RunHandler, UserStep, Clock, Network, OnConnect, OnReadData, OnReadError,
      OnWriteDone, OnWriteError, OnTimeout, ReconnectByTimer, PingByTimer, PingCb,
      UserWrite, UserDropWrite, UserCheckConnect, UserReconnect, UserClose, DisablePing,
      UserShutdown, GentleShutdown, PollReturns, ConnectTimerExpires, PingTimerExpires,
      RequestTimerExpires, ConnectSucceeds, ConnectFails, PeerCloses, PeerVanishes,
      ReadFrame, ReadPart, ReadFails, WriteSucceeds, WriteFails

LEMMA InitType == Init => TypeOK
<1> SUFFICES ASSUME Init PROVE TypeOK OBVIOUS
<1>1. budget \in Budget BY BoundsTyped DEF Init, Budget
<1>2. <<>> \in Seq(Packets) /\ <<>> \in Seq(Completion) OBVIOUS
<1>3. conn \in ConnType BY <1>2, BoundsTyped DEF Init, NewConn, ConnType
<1> QED BY <1>1, <1>3 DEF TypeOK

(***************************************************************************)
(* The state of the connection keeps its type, whatever the handlers, the  *)
(* callers, the clock and the network do: in particular every handler gets *)
(* an argument of its kind.                                                *)
(***************************************************************************)
THEOREM TypeCorrect == Spec => []TypeOK
<1>1. TypeOK /\ [Next]_vars => TypeOK'
  <2> SUFFICES ASSUME TypeOK, [Next]_vars PROVE TypeOK' OBVIOUS
  <2>1. CASE UNCHANGED vars BY <2>1 DEF TypeOK, vars
  <2>2. CASE Next
    <3>1. conn \in ConnType /\ budget \in Budget BY DEF TypeOK
    <3>2. conn' \in ConnType
      BY <2>2, <3>1, OnConnectType, OnReadDataType, OnReadErrorType, OnWriteDoneType,
         OnWriteErrorType, OnTimeoutType, TimerHandlersType, UserStepType, ClockType,
         NetworkType DEF Next, RunHandler
    <3>3. budget' \in Budget BY <2>2, <3>1, BudgetType
    <3> QED BY <3>2, <3>3 DEF TypeOK
  <2> QED BY <2>1, <2>2
<1> QED BY <1>1, InitType, PTL DEF Spec

-------------------------------------------------------------------------------
(***************************************************************************)
(* The requests.  Their invariant speaks of five fields of the connection; *)
(* most methods leave four of them alone and only add completions.         *)
(***************************************************************************)
SyncsUnique == \A r \in Requests, i \in Answered : SyncOf[r] = SyncOf[i] => r = i

TimeoutDue(c, i) == Pending(c, Done("onTimeout", "ok", i))

\* `late': packets whose wait has ended and whose entry is about to be erased.
ReqInv(c, late) ==
  /\ \A s \in Syncs : c.callbacks_map[s] # None => SyncOf[c.callbacks_map[s]] = s
  /\ \A s \in Syncs : c.callbacks_map[s] \in Requests =>
       c.answers[c.callbacks_map[s]] = 0 /\ c.callbacks_map[s] \in c.written
  /\ \A r \in Requests : c.answers[r] <= 1 /\ (r \notin c.written => c.answers[r] = 0)
  /\ SyncsUnique => \A r \in Requests \cap c.written :
       c.callbacks_map[SyncOf[r]] = r \/ c.answers[r] = 1
  /\ \A s \in Syncs : c.callbacks_map[s] \notin late \cup {None} =>
       c.req_timer[c.callbacks_map[s]] \in {"armed", "expired"}
  /\ \A i \in Answered : c.req_timer[i] = "expired" => TimeoutDue(c, i)

Keeps(c, d) ==
  /\ d.callbacks_map = c.callbacks_map /\ d.req_timer = c.req_timer
  /\ d.answers = c.answers /\ d.written = c.written
  /\ \A i \in Answered : TimeoutDue(c, i) => TimeoutDue(d, i)

LEMMA KeepsReqInv ==
  ASSUME NEW c, NEW d, NEW late, ReqInv(c, late), Keeps(c, d) PROVE ReqInv(d, late)
  BY DEF ReqInv, Keeps

LEMMA KeepsTrans ==
  ASSUME NEW c, NEW d, NEW e, Keeps(c, d), Keeps(d, e) PROVE Keeps(c, e)
  BY DEF Keeps

(***************************************************************************)
(* What Append, \o and Tail keep of a sequence.                            *)
(***************************************************************************)
LEMMA InAppend ==
  ASSUME NEW S, NEW q \in Seq(S), NEW e \in S, NEW x, In(x, q) PROVE In(x, Append(q, e))
<1>1. PICK k \in DOMAIN q : q[k] = x BY DEF In
<1>2. DOMAIN q = 1..Len(q) /\ DOMAIN Append(q, e) = 1..(Len(q) + 1) /\ Len(q) \in Nat
  OBVIOUS
<1>3. Append(q, e)[k] = x BY <1>1, <1>2, AppendProperties
<1>4. k \in DOMAIN Append(q, e) BY <1>2
<1> QED BY <1>3, <1>4 DEF In

LEMMA InConcat ==
  ASSUME NEW S, NEW q \in Seq(S), NEW t \in Seq(S), NEW x, In(x, q) PROVE In(x, q \o t)
<1>1. PICK k \in DOMAIN q : q[k] = x BY DEF In
<1>2. DOMAIN q = 1..Len(q) /\ Len(q) \in Nat /\ Len(t) \in Nat OBVIOUS
<1>3. q \o t \in Seq(S) /\ Len(q \o t) = Len(q) + Len(t) BY ConcatProperties
<1>4. k \in 1..(Len(q) + Len(t)) BY <1>1, <1>2
<1>5. (q \o t)[k] = x BY <1>1, <1>2, <1>4, ConcatProperties
<1>6. DOMAIN (q \o t) = 1..Len(q \o t) BY <1>3
<1> QED BY <1>3, <1>4, <1>5, <1>6 DEF In

LEMMA InTail ==
  ASSUME NEW S, NEW q \in Seq(S), q # <<>>, NEW x, x # Head(q), In(x, q)
  PROVE  In(x, Tail(q))
<1>1. PICK k \in DOMAIN q : q[k] = x BY DEF In
<1>2. DOMAIN q = 1..Len(q) /\ Len(q) \in Nat /\ q[1] = Head(q) OBVIOUS
<1>3. k # 1 BY <1>1, <1>2
<1>4. k - 1 \in 1..(Len(q) - 1) BY <1>1, <1>2, <1>3
<1>5. Tail(q) \in Seq(S) /\ Len(Tail(q)) = Len(q) - 1
      /\ \A i \in 1 .. Len(Tail(q)) : Tail(q)[i] = q[i+1]
  BY HeadTailProperties
<1>6. Tail(q)[k - 1] = x /\ k - 1 \in DOMAIN Tail(q) BY <1>1, <1>4, <1>5
<1> QED BY <1>6 DEF In

\* Four ways to change a connection that leave the requests alone.
LEMMA KeepsAppend ==
  ASSUME NEW c \in ConnType, NEW d \in ConnType, NEW e \in Completion,
         d.callbacks_map = c.callbacks_map, d.req_timer = c.req_timer,
         d.answers = c.answers, d.written = c.written, d.ready = c.ready,
         d.posted = Append(c.posted, e)
  PROVE  Keeps(c, d)
<1>1. c.posted \in Seq(Completion) BY DEF ConnType
<1> QED BY <1>1, InAppend DEF Keeps, TimeoutDue, Pending

LEMMA KeepsConcat ==
  ASSUME NEW c \in ConnType, NEW d \in ConnType, NEW t \in Seq(Completion),
         d.callbacks_map = c.callbacks_map, d.req_timer = c.req_timer,
         d.answers = c.answers, d.written = c.written, d.ready = c.ready,
         d.posted = c.posted \o t
  PROVE  Keeps(c, d)
<1>1. c.posted \in Seq(Completion) BY DEF ConnType
<1> QED BY <1>1, InConcat DEF Keeps, TimeoutDue, Pending

LEMMA KeepsSame ==
  ASSUME NEW c, NEW d,
         d.callbacks_map = c.callbacks_map, d.req_timer = c.req_timer,
         d.answers = c.answers, d.written = c.written, d.ready = c.ready,
         d.posted = c.posted
  PROVE  Keeps(c, d)
  BY DEF Keeps, TimeoutDue, Pending

LEMMA CloseKeeps ==
  ASSUME NEW c \in ConnType PROVE Keeps(c, Close(c))
<1> DEFINE d == Close(c)
<1>1. /\ d.callbacks_map = c.callbacks_map /\ d.req_timer = c.req_timer
      /\ d.answers = c.answers /\ d.written = c.written /\ d.ready = c.ready
      /\ d.posted = c.posted \o Aborted(c)
  BY DEF Close, ConnType
<1>2. d \in ConnType BY CloseType
<1> HIDE DEF d
<1> QED BY <1>1, <1>2, AbortedType, KeepsConcat DEF d

LEMMA BeginConnectKeeps ==
  ASSUME NEW c \in ConnType PROVE Keeps(c, BeginConnect(c))
<1> DEFINE d == BeginConnect(c)
<1>1. /\ d.callbacks_map = c.callbacks_map /\ d.req_timer = c.req_timer
      /\ d.answers = c.answers /\ d.written = c.written /\ d.ready = c.ready
      /\ d.posted = c.posted
  BY DEF BeginConnect, ConnType
<1> HIDE DEF d
<1> QED BY <1>1, KeepsSame DEF d

LEMMA ReconnectKeeps ==
  ASSUME NEW c \in ConnType PROVE Keeps(c, Reconnect(c))
  BY CloseType, CloseKeeps, BeginConnectKeeps, KeepsTrans DEF Reconnect

LEMMA StartWriteKeeps ==
  ASSUME NEW c \in ConnType, c.write_queue # <<>> PROVE Keeps(c, StartWrite(c))
<1> DEFINE d == StartWrite(c)
           e == Done("onWrite", "error", Head(c.write_queue))
<1>1. /\ d.callbacks_map = c.callbacks_map /\ d.req_timer = c.req_timer
      /\ d.answers = c.answers /\ d.written = c.written /\ d.ready = c.ready
      /\ d.posted = IF Open(c) THEN c.posted ELSE Append(c.posted, e)
  BY DEF StartWrite, ConnType
<1>2. d \in ConnType BY StartWriteType
<1>3. Head(c.write_queue) \in Packets BY DEF ConnType
<1>4. e \in Completion BY <1>3 DEF Done, Completion
<1> HIDE DEF d, e
<1>5. CASE Open(c) BY <1>1, <1>5, KeepsSame DEF d
<1>6. CASE ~Open(c) BY <1>1, <1>2, <1>4, <1>6, KeepsAppend DEF d
<1> QED BY <1>5, <1>6

LEMMA EnsureWriteBufferKeeps ==
  ASSUME NEW c \in ConnType, NEW finished PROVE Keeps(c, EnsureWriteBuffer(c, finished))
<1>1. Keeps(c, [c EXCEPT !.write_is_active = FALSE])
  <2> DEFINE d == [c EXCEPT !.write_is_active = FALSE]
  <2>1. /\ d.callbacks_map = c.callbacks_map /\ d.req_timer = c.req_timer
        /\ d.answers = c.answers /\ d.written = c.written /\ d.ready = c.ready
        /\ d.posted = c.posted
    BY DEF ConnType
  <2> HIDE DEF d
  <2> QED BY <2>1, KeepsSame DEF d
<1> QED BY <1>1, StartWriteKeeps DEF EnsureWriteBuffer

LEMMA DropPacketWriteKeeps ==
  ASSUME NEW c \in ConnType, NEW pkt \in Packets PROVE Keeps(c, DropPacketWrite(c, pkt))
<1> DEFINE q == [c EXCEPT !.write_queue = Append(c.write_queue, pkt), !.live = c.live \cup {pkt}]
<1>1. q \in ConnType
  <2>1. Append(c.write_queue, pkt) \in Seq(Packets) BY DEF ConnType
  <2>2. c.live \cup {pkt} \in SUBSET Packets BY DEF ConnType
  <2> QED BY <2>1, <2>2 DEF ConnType
<1>2. /\ q.callbacks_map = c.callbacks_map /\ q.req_timer = c.req_timer
      /\ q.answers = c.answers /\ q.written = c.written /\ q.ready = c.ready
      /\ q.posted = c.posted
  BY DEF ConnType
<1>3. DropPacketWrite(c, pkt) = IF Open(c) THEN EnsureWriteBuffer(q, FALSE) ELSE BeginConnect(q)
  BY DEF DropPacketWrite
<1> HIDE DEF q
<1>4. Keeps(c, q) BY <1>2, KeepsSame
<1>5. Keeps(q, EnsureWriteBuffer(q, FALSE)) BY <1>1, EnsureWriteBufferKeeps
<1>6. Keeps(q, BeginConnect(q)) BY <1>1, BeginConnectKeeps
<1>7. CASE Open(c) BY <1>3, <1>4, <1>5, <1>7, KeepsTrans
<1>8. CASE ~Open(c) BY <1>3, <1>4, <1>6, <1>8, KeepsTrans
<1> QED BY <1>7, <1>8

LEMMA CheckConnectKeeps ==
  ASSUME NEW c \in ConnType PROVE Keeps(c, CheckConnect(c))
<1>1. Keeps(c, c) BY DEF Keeps
<1> QED BY <1>1, BeginConnectKeeps DEF CheckConnect

LEMMA ReadMoreKeeps ==
  ASSUME NEW c \in ConnType PROVE Keeps(c, ReadMore(c))
<1> DEFINE d == ReadMore(c)
<1>1. /\ d.callbacks_map = c.callbacks_map /\ d.req_timer = c.req_timer
      /\ d.answers = c.answers /\ d.written = c.written /\ d.ready = c.ready
      /\ d.posted = c.posted
  BY DEF ReadMore, ConnType
<1> HIDE DEF d
<1> QED BY <1>1, KeepsSame DEF d

LEMMA PostKeeps ==
  ASSUME NEW c \in ConnType, NEW h, NEW ec, NEW arg, Done(h, ec, arg) \in Completion
  PROVE  Keeps(c, Post(c, h, ec, arg))
<1> DEFINE d == Post(c, h, ec, arg)
<1>1. /\ d.callbacks_map = c.callbacks_map /\ d.req_timer = c.req_timer
      /\ d.answers = c.answers /\ d.written = c.written /\ d.ready = c.ready
      /\ d.posted = Append(c.posted, Done(h, ec, arg))
  BY DEF Post, ConnType
<1>2. d \in ConnType BY PostType
<1> HIDE DEF d
<1> QED BY <1>1, <1>2, KeepsAppend DEF d

LEMMA PostCallbacksDue ==
  ASSUME NEW c \in ConnType, NEW who, NEW code \in Results, NEW x, In(x, c.posted)
  PROVE  In(x, PostCallbacks(c, who, code))
<1>1. Done("pingCb", code, None) \in Completion BY DEF Done, Completion
<1>2. c.posted \in Seq(Completion) BY DEF ConnType
<1> QED BY <1>1, <1>2, InAppend DEF PostCallbacks

(***************************************************************************)
(* invokeCallback: the entry goes and its request is answered, whether the *)
(* reason is its answer or a timeout that may be another packet's.         *)
(***************************************************************************)
LEMMA InvokeCallbackReqInv ==
  ASSUME NEW c \in ConnType, NEW sync \in Syncs, NEW code \in Results, NEW late,
         \A i \in late : SyncOf[i] = sync, ReqInv(c, late)
  PROVE  ReqInv(InvokeCallback(c, sync, code), {})
<1> DEFINE d == InvokeCallback(c, sync, code)
           i == c.callbacks_map[sync]
           who == {i} \ {None}
<1>1. d \in ConnType BY InvokeCallbackType
<1>2. /\ d.callbacks_map = [c.callbacks_map EXCEPT ![sync] = None]
      /\ d.answers = [r \in Requests |-> IF r \in who THEN c.answers[r] + 1 ELSE c.answers[r]]
      /\ d.req_timer = IF code = "CB_TIMEOUT" THEN c.req_timer ELSE CancelTimers(c, who)
      /\ d.ready = c.ready /\ d.written = c.written
      /\ d.posted = PostCallbacks(c, who, code)
  BY DEF InvokeCallback, ConnType
<1>3. c.callbacks_map \in [Syncs -> Answered \cup {None}]
      /\ c.answers \in [Requests -> Nat]
      /\ c.req_timer \in [Answered -> {"idle", "armed", "expired"}]
  BY DEF ConnType
<1>4. None \notin Answered /\ Requests \subseteq Answered
  BY PacketsDisjoint DEF Answered, Packets
<1> HIDE DEF d
<1>5. \A s \in Syncs : /\ d.callbacks_map[s] # None => s # sync
                       /\ s # sync => d.callbacks_map[s] = c.callbacks_map[s]
  BY <1>2, <1>3
<1>6. \A s \in Syncs : d.callbacks_map[s] # None => SyncOf[d.callbacks_map[s]] = s
  BY <1>5 DEF ReqInv
<1>7. \A s \in Syncs : d.callbacks_map[s] # None => d.callbacks_map[s] # i
  <2> SUFFICES ASSUME NEW s \in Syncs, d.callbacks_map[s] # None, d.callbacks_map[s] = i
               PROVE  FALSE
    OBVIOUS
  <2>1. s # sync /\ c.callbacks_map[s] = c.callbacks_map[sync] /\ c.callbacks_map[s] # None
    BY <1>5
  <2> QED BY <2>1 DEF ReqInv
<1>8. \A r \in Requests : r # i => d.answers[r] = c.answers[r] BY <1>2
<1>9. i \in Requests => c.answers[i] = 0 /\ i \in c.written /\ d.answers[i] = 1
  BY <1>2, <1>3, <1>4 DEF ReqInv
<1>10. \A s \in Syncs : d.callbacks_map[s] \in Requests =>
         d.answers[d.callbacks_map[s]] = 0 /\ d.callbacks_map[s] \in d.written
  BY <1>2, <1>4, <1>5, <1>7, <1>8 DEF ReqInv
<1>11. \A r \in Requests : d.answers[r] <= 1 /\ (r \notin d.written => d.answers[r] = 0)
  BY <1>2, <1>8, <1>9 DEF ReqInv
<1>12. SyncsUnique => \A r \in Requests \cap d.written :
         d.callbacks_map[SyncOf[r]] = r \/ d.answers[r] = 1
  <2> SUFFICES ASSUME SyncsUnique, NEW r \in Requests \cap d.written
               PROVE  d.callbacks_map[SyncOf[r]] = r \/ d.answers[r] = 1
    OBVIOUS
  <2>1. SyncOf[r] \in Syncs BY <1>4, SyncsAssigned
  <2>2. CASE r = i BY <1>9, <2>2
  <2>3. CASE r # i
    <3>1. c.callbacks_map[SyncOf[r]] = r \/ c.answers[r] = 1 BY <1>2 DEF ReqInv
    <3> QED BY <1>5, <1>8, <2>1, <2>3, <3>1
  <2> QED BY <2>2, <2>3
<1>13. \A j \in Answered : d.req_timer[j] = c.req_timer[j] \/ (j = i /\ d.req_timer[j] = "idle")
  BY <1>2, <1>3 DEF CancelTimers
<1>14. \A s \in Syncs : d.callbacks_map[s] # None =>
         d.req_timer[d.callbacks_map[s]] \in {"armed", "expired"}
  <2> SUFFICES ASSUME NEW s \in Syncs, d.callbacks_map[s] # None
               PROVE  d.req_timer[d.callbacks_map[s]] \in {"armed", "expired"}
    OBVIOUS
  <2>1. s # sync /\ d.callbacks_map[s] = c.callbacks_map[s] BY <1>5
  <2>2. SyncOf[c.callbacks_map[s]] = s BY <2>1 DEF ReqInv
  <2>3. c.callbacks_map[s] \notin late BY <2>1, <2>2
  <2>4. c.req_timer[c.callbacks_map[s]] \in {"armed", "expired"}
    BY <2>1, <2>3 DEF ReqInv
  <2>5. c.callbacks_map[s] \in Answered /\ c.callbacks_map[s] # i BY <1>3, <1>7, <2>1
  <2> QED BY <1>13, <2>1, <2>4, <2>5
<1>15. \A j \in Answered : d.req_timer[j] = "expired" => TimeoutDue(d, j)
  <2> SUFFICES ASSUME NEW j \in Answered, d.req_timer[j] = "expired" PROVE TimeoutDue(d, j)
    OBVIOUS
  <2>1. TimeoutDue(c, j) BY <1>13 DEF ReqInv
  <2> HIDE DEF who
  <2> QED BY <1>2, <2>1, PostCallbacksDue DEF TimeoutDue, Pending
<1> QED BY <1>6, <1>10, <1>11, <1>12, <1>14, <1>15 DEF ReqInv, d

LEMMA DismissReqInv ==
  ASSUME NEW c \in ConnType, NEW code \in Results, ReqInv(c, {})
  PROVE  ReqInv(DismissCallbacks(c, code), {})
<1> DEFINE d == DismissCallbacks(c, code)
<1>1. /\ d.callbacks_map = [s \in Syncs |-> None]
      /\ d.answers = [r \in Requests |-> IF r \in Waiting(c) THEN c.answers[r] + 1
                                                             ELSE c.answers[r]]
      /\ d.req_timer = CancelTimers(c, Waiting(c))
      /\ d.ready = c.ready /\ d.written = c.written
      /\ d.posted = PostCallbacks(c, Waiting(c), code)
  BY DEF DismissCallbacks, ConnType
<1>2. /\ c.callbacks_map \in [Syncs -> Answered \cup {None}]
      /\ c.answers \in [Requests -> Nat]
  BY DEF ConnType
<1>3. None \notin Answered /\ Requests \subseteq Answered
  BY PacketsDisjoint DEF Answered, Packets
<1> HIDE DEF d
<1>4. \A r \in Requests : r \in Waiting(c) =>
        c.answers[r] = 0 /\ r \in c.written /\ d.answers[r] = 1
  <2> SUFFICES ASSUME NEW r \in Requests, r \in Waiting(c)
               PROVE  c.answers[r] = 0 /\ r \in c.written /\ d.answers[r] = 1
    OBVIOUS
  <2>1. PICK s \in Syncs : c.callbacks_map[s] = r BY DEF Waiting
  <2>2. c.answers[r] = 0 /\ r \in c.written BY <2>1 DEF ReqInv
  <2> QED BY <1>1, <2>2
<1>5. \A r \in Requests : r \notin Waiting(c) => d.answers[r] = c.answers[r] BY <1>1
<1>6. \A s \in Syncs : d.callbacks_map[s] = None BY <1>1
<1>7. \A r \in Requests : d.answers[r] <= 1 /\ (r \notin d.written => d.answers[r] = 0)
  BY <1>1, <1>4, <1>5 DEF ReqInv
<1>8. SyncsUnique => \A r \in Requests \cap d.written : d.answers[r] = 1
  <2> SUFFICES ASSUME SyncsUnique, NEW r \in Requests \cap d.written PROVE d.answers[r] = 1
    OBVIOUS
  <2>1. c.callbacks_map[SyncOf[r]] = r \/ c.answers[r] = 1 BY <1>1 DEF ReqInv
  <2>2. SyncOf[r] \in Syncs BY <1>3, SyncsAssigned
  <2>3. c.callbacks_map[SyncOf[r]] = r => r \in Waiting(c) BY <1>3, <2>2 DEF Waiting
  <2> QED BY <1>4, <1>5, <2>1, <2>3
<1>9. \A j \in Answered : d.req_timer[j] = "expired" => TimeoutDue(d, j)
  <2> SUFFICES ASSUME NEW j \in Answered, d.req_timer[j] = "expired" PROVE TimeoutDue(d, j)
    OBVIOUS
  <2>1. c.req_timer[j] = "expired" BY <1>1 DEF CancelTimers
  <2>2. TimeoutDue(c, j) BY <2>1 DEF ReqInv
  <2> QED BY <1>1, <2>2, PostCallbacksDue DEF TimeoutDue, Pending
<1>10. \A r \in Requests : None # r BY <1>3
<1> QED BY <1>6, <1>7, <1>8, <1>9, <1>10 DEF ReqInv, d

(***************************************************************************)
(* Write: a new entry, whose packet has no other.  It may replace a ping's *)
(* entry, and a request's only if their syncs collide.                     *)
(***************************************************************************)
LEMMA RegisteredReqInv ==
  ASSUME NEW c \in ConnType, NEW pkt \in Answered, NEW w \in SUBSET (Requests \cup Drops),
         ReqInv(c, {}), pkt \in Requests => pkt \notin c.written,
         w = IF pkt \in Requests THEN c.written \cup {pkt} ELSE c.written
  PROVE  ReqInv([Registered(c, pkt) EXCEPT !.written = w], {})
<1> DEFINE d == [Registered(c, pkt) EXCEPT !.written = w]
<1>1. /\ d.callbacks_map = [c.callbacks_map EXCEPT ![SyncOf[pkt]] = pkt]
      /\ d.req_timer = [c.req_timer EXCEPT ![pkt] = "armed"]
      /\ d.answers = c.answers /\ d.written = w
      /\ d.ready = c.ready /\ d.posted = c.posted
  BY DEF Registered, ConnType
<1>2. c.callbacks_map \in [Syncs -> Answered \cup {None}]
      /\ c.answers \in [Requests -> Nat]
      /\ c.req_timer \in [Answered -> {"idle", "armed", "expired"}]
  BY DEF ConnType
<1>3. None \notin Answered /\ Requests \subseteq Answered /\ SyncOf[pkt] \in Syncs
  BY PacketsDisjoint, SyncsAssigned DEF Answered, Packets
<1> HIDE DEF d
<1>4. \A s \in Syncs : d.callbacks_map[s] = IF s = SyncOf[pkt] THEN pkt ELSE c.callbacks_map[s]
  BY <1>1, <1>2
<1>5. pkt \in Requests => \A s \in Syncs : c.callbacks_map[s] # pkt BY DEF ReqInv
<1>6. \A s \in Syncs : d.callbacks_map[s] # None => SyncOf[d.callbacks_map[s]] = s
  BY <1>4 DEF ReqInv
<1>7. \A s \in Syncs : d.callbacks_map[s] \in Requests =>
        d.answers[d.callbacks_map[s]] = 0 /\ d.callbacks_map[s] \in d.written
  BY <1>1, <1>4 DEF ReqInv
<1>8. \A r \in Requests : d.answers[r] <= 1 /\ (r \notin d.written => d.answers[r] = 0)
  BY <1>1 DEF ReqInv
<1>9. SyncsUnique => \A r \in Requests \cap d.written :
        d.callbacks_map[SyncOf[r]] = r \/ d.answers[r] = 1
  <2> SUFFICES ASSUME SyncsUnique, NEW r \in Requests \cap d.written
               PROVE  d.callbacks_map[SyncOf[r]] = r \/ d.answers[r] = 1
    OBVIOUS
  <2>1. SyncOf[r] \in Syncs BY <1>3, SyncsAssigned
  <2>2. CASE r = pkt BY <1>4, <2>1, <2>2
  <2>3. CASE r # pkt
    <3>1. SyncOf[r] # SyncOf[pkt] BY <2>3 DEF SyncsUnique
    <3>2. c.callbacks_map[SyncOf[r]] = r \/ c.answers[r] = 1 BY <1>1, <2>3 DEF ReqInv
    <3> QED BY <1>1, <1>4, <2>1, <3>1, <3>2
  <2> QED BY <2>2, <2>3
<1>10. \A s \in Syncs : d.callbacks_map[s] # None =>
         d.req_timer[d.callbacks_map[s]] \in {"armed", "expired"}
  <2> SUFFICES ASSUME NEW s \in Syncs, d.callbacks_map[s] # None
               PROVE  d.req_timer[d.callbacks_map[s]] \in {"armed", "expired"}
    OBVIOUS
  <2>1. CASE d.callbacks_map[s] = pkt BY <1>1, <1>2, <2>1
  <2>2. CASE d.callbacks_map[s] # pkt
    <3>1. d.callbacks_map[s] = c.callbacks_map[s] /\ c.callbacks_map[s] \in Answered
      BY <1>2, <1>4, <2>2
    <3>2. c.req_timer[c.callbacks_map[s]] \in {"armed", "expired"} BY <3>1 DEF ReqInv
    <3> QED BY <1>1, <1>2, <2>2, <3>1, <3>2
  <2> QED BY <2>1, <2>2
<1>11. \A j \in Answered : d.req_timer[j] = "expired" => TimeoutDue(d, j)
  BY <1>1, <1>2 DEF ReqInv, TimeoutDue, Pending
<1> QED BY <1>6, <1>7, <1>8, <1>9, <1>10, <1>11 DEF ReqInv, d

-------------------------------------------------------------------------------
(***************************************************************************)
(* The steps.                                                              *)
(***************************************************************************)
RequestsOK == ReqInv(conn, {})

LEMMA TakenKeeps ==
  ASSUME conn \in ConnType, conn.ready # <<>>, Head(conn.ready).h # "onTimeout"
  PROVE  Keeps(conn, Taken) /\ Taken \in ConnType
<1>1. /\ Taken.callbacks_map = conn.callbacks_map /\ Taken.req_timer = conn.req_timer
      /\ Taken.answers = conn.answers /\ Taken.written = conn.written
      /\ Taken.posted = conn.posted /\ Taken.ready = Tail(conn.ready)
  BY DEF Taken, ConnType
<1>2. ASSUME NEW i \in Answered, TimeoutDue(conn, i) PROVE TimeoutDue(Taken, i)
  <2>1. Head(conn.ready) # Done("onTimeout", "ok", i) BY DEF Done
  <2>2. conn.ready \in Seq(Completion) BY DEF ConnType
  <2>3. CASE In(Done("onTimeout", "ok", i), conn.ready)
    BY <1>1, <2>1, <2>2, <2>3, InTail DEF TimeoutDue, Pending
  <2>4. CASE In(Done("onTimeout", "ok", i), conn.posted)
    BY <1>1, <2>4 DEF TimeoutDue, Pending
  <2> QED BY <1>2, <2>3, <2>4 DEF TimeoutDue, Pending
<1> QED BY <1>1, <1>2, TakenType DEF Keeps

\* A ping is written on a connection that may have to be opened first.
LEMMA SetupPingReqInv ==
  ASSUME NEW c \in ConnType, NEW p \in Pings, ReqInv(c, {})
  PROVE  ReqInv(SetupPing(c, p), {})
<1> DEFINE o == CheckConnect(c)
           g == Registered(o, p)
<1>1. o \in ConnType /\ ReqInv(o, {})
  BY CheckConnectType, CheckConnectKeeps, KeepsReqInv
<1> HIDE DEF o
<1>2. p \in Answered /\ p \in Packets /\ p \notin Requests
  BY PacketsDisjoint DEF Answered, Packets
<1>3. o.written \in SUBSET (Requests \cup Drops) BY <1>1 DEF ConnType
<1>4. ReqInv([g EXCEPT !.written = o.written], {})
  BY <1>1, <1>2, <1>3, RegisteredReqInv
<1>5. g \in ConnType BY <1>1, <1>2, RegisteredType
<1>6. g.written = o.written BY <1>1 DEF Registered, ConnType
<1>7. [g EXCEPT !.written = o.written] = g BY <1>5, <1>6 DEF ConnType
<1>8. SetupPing(c, p) = DropPacketWrite(g, p) BY DEF SetupPing, Write, Registered, o
<1> HIDE DEF g
<1> QED BY <1>2, <1>4, <1>5, <1>7, <1>8, DropPacketWriteKeeps, KeepsReqInv

LEMMA OnConnectReqInv ==
  ASSUME conn \in ConnType, RequestsOK, OnConnect PROVE RequestsOK'
<1> DEFINE c == [Taken EXCEPT !.timer = "idle"]
<1>1. Taken \in ConnType /\ Keeps(conn, Taken) BY TakenKeeps DEF OnConnect, Next1
<1>2. c \in ConnType BY <1>1 DEF ConnType
<1>3. Keeps(Taken, c)
  <2>1. /\ c.callbacks_map = Taken.callbacks_map /\ c.req_timer = Taken.req_timer
        /\ c.answers = Taken.answers /\ c.written = Taken.written
        /\ c.ready = Taken.ready /\ c.posted = Taken.posted
    BY <1>1 DEF ConnType
  <2> HIDE DEF c
  <2> QED BY <2>1, KeepsSame
<1>4. \/ conn' = c
      \/ \E p \in Pings : conn' = SetupPing(ReadMore(c), p)
      \/ conn' = EnsureWriteBuffer(ReadMore(c), FALSE)
  BY DEF OnConnect, UnusedPings
<1> HIDE DEF c
<1>5. ReqInv(c, {}) BY <1>1, <1>3, KeepsReqInv DEF RequestsOK
<1>6. ReadMore(c) \in ConnType /\ ReqInv(ReadMore(c), {})
  BY <1>2, <1>5, ReadMoreType, ReadMoreKeeps, KeepsReqInv
<1>7. ReqInv(EnsureWriteBuffer(ReadMore(c), FALSE), {})
  BY <1>6, EnsureWriteBufferKeeps, KeepsReqInv
<1>8. \A p \in Pings : ReqInv(SetupPing(ReadMore(c), p), {}) BY <1>6, SetupPingReqInv
<1> QED BY <1>4, <1>5, <1>7, <1>8 DEF RequestsOK

LEMMA OnReadDataReqInv ==
  ASSUME conn \in ConnType, RequestsOK, OnReadData PROVE RequestsOK'
<1> DEFINE c == IF Arg = None THEN Taken ELSE InvokeCallback(Taken, Arg, "CB_OK")
           e == Done("onRead", "error", None)
           x == [c EXCEPT !.posted = Append(c.posted, e)]
<1>1. Taken \in ConnType /\ Keeps(conn, Taken) BY TakenKeeps DEF OnReadData, Next1
<1>2. Head(conn.ready) \in Completion BY TakenType DEF OnReadData, Next1
<1>3. Arg \in Syncs \cup {None} BY <1>2 DEF OnReadData, Next1, Completion, Ec, Arg
<1>4. ReqInv(Taken, {}) BY <1>1, KeepsReqInv DEF RequestsOK
<1>5. c \in ConnType BY <1>1, <1>3, InvokeCallbackType DEF Results
<1>6. ReqInv(c, {}) BY <1>1, <1>3, <1>4, InvokeCallbackReqInv DEF Results
<1>7. conn' = ReadMore(c) \/ conn' = c \/ conn' = x
  BY DEF OnReadData, ReadOnClosed
<1> HIDE DEF c
<1>8. ReqInv(ReadMore(c), {}) BY <1>5, <1>6, ReadMoreKeeps, KeepsReqInv
<1>9. ReqInv(x, {})
  <2>1. e \in Completion BY DEF Done, Completion
  <2>2. x = Post(c, "onRead", "error", None) BY DEF Post
  <2> HIDE DEF x
  <2> QED BY <1>5, <1>6, <2>1, <2>2, PostKeeps, KeepsReqInv
<1> QED BY <1>6, <1>7, <1>8, <1>9 DEF RequestsOK

LEMMA OnReadErrorReqInv ==
  ASSUME conn \in ConnType, RequestsOK, OnReadError PROVE RequestsOK'
<1> DEFINE c == DismissCallbacks(Taken, "CB_ERR")
<1>1. Taken \in ConnType /\ Keeps(conn, Taken) BY TakenKeeps DEF OnReadError, Next1
<1>2. ReqInv(Taken, {}) BY <1>1, KeepsReqInv DEF RequestsOK
<1>3. c \in ConnType /\ ReqInv(c, {}) BY <1>1, <1>2, DismissType, DismissReqInv DEF Results
<1>4. conn' = c \/ conn' = Reconnect(c) BY DEF OnReadError
<1> HIDE DEF c
<1>5. ReqInv(Reconnect(c), {}) BY <1>3, ReconnectKeeps, KeepsReqInv
<1> QED BY <1>3, <1>4, <1>5 DEF RequestsOK

\* The buffers and the queue are no part of the requests' invariant.
LEMMA BuffersKeep ==
  ASSUME NEW c \in ConnType, NEW l, NEW q
  PROVE  Keeps(c, [c EXCEPT !.live = l]) /\ Keeps(c, [c EXCEPT !.write_queue = q])
<1> DEFINE d == [c EXCEPT !.live = l]
           e == [c EXCEPT !.write_queue = q]
<1>1. /\ d.callbacks_map = c.callbacks_map /\ d.req_timer = c.req_timer
      /\ d.answers = c.answers /\ d.written = c.written
      /\ d.ready = c.ready /\ d.posted = c.posted
      /\ e.callbacks_map = c.callbacks_map /\ e.req_timer = c.req_timer
      /\ e.answers = c.answers /\ e.written = c.written
      /\ e.ready = c.ready /\ e.posted = c.posted
  BY DEF ConnType
<1> HIDE DEF d, e
<1> QED BY <1>1, KeepsSame DEF d, e

LEMMA OnWriteDoneReqInv ==
  ASSUME conn \in ConnType, RequestsOK, OnWriteDone PROVE RequestsOK'
<1> DEFINE c == [Taken EXCEPT !.live = Taken.live \ {Arg}]
<1>1. Taken \in ConnType /\ Keeps(conn, Taken) BY TakenKeeps DEF OnWriteDone, Next1
<1>2. c \in ConnType BY <1>1 DEF ConnType
<1>3. ReqInv(c, {}) BY <1>1, BuffersKeep, KeepsReqInv DEF RequestsOK
<1>4. conn' = EnsureWriteBuffer(c, TRUE) BY DEF OnWriteDone
<1> HIDE DEF c
<1> QED BY <1>2, <1>3, <1>4, EnsureWriteBufferKeeps, KeepsReqInv DEF RequestsOK

LEMMA OnWriteErrorReqInv ==
  ASSUME conn \in ConnType, RequestsOK, OnWriteError PROVE RequestsOK'
<1>1. Taken \in ConnType /\ Keeps(conn, Taken) BY TakenKeeps DEF OnWriteError, Next1
<1>2. Head(conn.ready) \in Completion BY TakenType DEF OnWriteError, Next1
<1>3. Arg \in Packets /\ Ec \in {"aborted", "epipe", "error"}
  BY <1>2 DEF OnWriteError, Next1, Completion, Ec, Arg
<1>4. ReqInv(Taken, {}) BY <1>1, KeepsReqInv DEF RequestsOK
<1>5. CASE Ec = "aborted"
  <2> DEFINE c == DismissCallbacks(Taken, "CB_ERR")
  <2>1. c \in ConnType /\ ReqInv(c, {}) BY <1>1, <1>4, DismissType, DismissReqInv DEF Results
  <2>2. conn' = [c EXCEPT !.live = c.live \ {Arg}] BY <1>5 DEF OnWriteError
  <2> HIDE DEF c
  <2> QED BY <2>1, <2>2, BuffersKeep, KeepsReqInv DEF RequestsOK
<1>6. CASE Ec = "epipe"
  <2> DEFINE q == Append(Taken.write_queue, Arg)
             c == [Taken EXCEPT !.write_queue = q]
  <2>1. q \in Seq(Packets) BY <1>1, <1>3 DEF ConnType
  <2>2. conn' = Reconnect(c) BY <1>6 DEF OnWriteError
  <2> HIDE DEF q
  <2>3. c \in ConnType BY <1>1, <2>1 DEF ConnType
  <2>4. ReqInv(c, {}) BY <1>1, <1>4, BuffersKeep, KeepsReqInv
  <2> HIDE DEF c
  <2> QED BY <2>2, <2>3, <2>4, ReconnectKeeps, KeepsReqInv DEF RequestsOK
<1>7. CASE Ec = "error"
  <2> DEFINE c == Reconnect(Taken)
  <2>1. c \in ConnType /\ ReqInv(c, {})
    BY <1>1, <1>4, ReconnectType, ReconnectKeeps, KeepsReqInv
  <2>2. conn' = [c EXCEPT !.live = c.live \ {Arg}] BY <1>7 DEF OnWriteError
  <2> HIDE DEF c
  <2> QED BY <2>1, <2>2, BuffersKeep, KeepsReqInv DEF RequestsOK
<1> QED BY <1>3, <1>5, <1>6, <1>7

(***************************************************************************)
(* onTimeout: the completion that kept the wait's promise is gone, and so  *)
(* is the entry, whichever packet it belongs to by now.                    *)
(***************************************************************************)
LEMMA OnTimeoutReqInv ==
  ASSUME conn \in ConnType, RequestsOK, OnTimeout PROVE RequestsOK'
<1> DEFINE i == Arg
           c == [Taken EXCEPT !.req_timer[i] = "idle"]
<1>1. Taken \in ConnType /\ Head(conn.ready) \in Completion
  BY TakenType DEF OnTimeout, Next1
<1>2. i \in Answered /\ Head(conn.ready) = Done("onTimeout", "ok", i)
  BY <1>1 DEF OnTimeout, Next1, Completion, Arg, Done
<1>3. SyncOf[i] \in Syncs BY <1>2, SyncsAssigned
<1>4. c \in ConnType BY <1>1, <1>2 DEF ConnType
<1>5. conn' = InvokeCallback(c, SyncOf[i], "CB_TIMEOUT") BY DEF OnTimeout
<1>6. /\ c.callbacks_map = conn.callbacks_map /\ c.answers = conn.answers
      /\ c.req_timer = [conn.req_timer EXCEPT ![i] = "idle"]
      /\ c.written = conn.written /\ c.posted = conn.posted /\ c.ready = Tail(conn.ready)
  BY DEF Taken, ConnType
<1>7. /\ conn.ready \in Seq(Completion) /\ conn.ready # <<>>
      /\ conn.callbacks_map \in [Syncs -> Answered \cup {None}]
      /\ conn.req_timer \in [Answered -> {"idle", "armed", "expired"}]
  BY DEF ConnType, OnTimeout, Next1
<1> HIDE DEF i, c
<1>8. \A j \in Answered : c.req_timer[j] = "expired" => TimeoutDue(c, j)
  <2> SUFFICES ASSUME NEW j \in Answered, c.req_timer[j] = "expired" PROVE TimeoutDue(c, j)
    OBVIOUS
  <2>1. j # i /\ conn.req_timer[j] = "expired" BY <1>2, <1>6, <1>7
  <2>2. TimeoutDue(conn, j) BY <2>1 DEF RequestsOK, ReqInv
  <2>3. Head(conn.ready) # Done("onTimeout", "ok", j) BY <1>2, <2>1 DEF Done
  <2>4. CASE In(Done("onTimeout", "ok", j), conn.ready)
    BY <1>6, <1>7, <2>3, <2>4, InTail DEF TimeoutDue, Pending
  <2>5. CASE In(Done("onTimeout", "ok", j), conn.posted)
    BY <1>6, <2>5 DEF TimeoutDue, Pending
  <2> QED BY <2>2, <2>4, <2>5 DEF TimeoutDue, Pending
<1>9. \A s \in Syncs : c.callbacks_map[s] \notin {i, None} =>
        c.req_timer[c.callbacks_map[s]] \in {"armed", "expired"}
  <2> SUFFICES ASSUME NEW s \in Syncs, conn.callbacks_map[s] \notin {i, None}
               PROVE  c.req_timer[conn.callbacks_map[s]] \in {"armed", "expired"}
    BY <1>6
  <2>1. conn.callbacks_map[s] \in Answered BY <1>7
  <2>2. conn.req_timer[conn.callbacks_map[s]] \in {"armed", "expired"}
    BY DEF RequestsOK, ReqInv
  <2> QED BY <1>6, <1>7, <2>1, <2>2
<1>10. ReqInv(c, {i}) BY <1>6, <1>8, <1>9 DEF RequestsOK, ReqInv
<1>11. ReqInv(InvokeCallback(c, SyncOf[i], "CB_TIMEOUT"), {})
  BY <1>3, <1>4, <1>10, InvokeCallbackReqInv DEF Results
<1> QED BY <1>5, <1>11 DEF RequestsOK

LEMMA TimerHandlersReqInv ==
  ASSUME conn \in ConnType, RequestsOK, ReconnectByTimer \/ PingByTimer \/ PingCb
  PROVE  RequestsOK'
<1>1. Taken \in ConnType /\ Keeps(conn, Taken)
  BY TakenKeeps DEF ReconnectByTimer, PingByTimer, PingCb, Next1
<1>2. ReqInv(Taken, {}) BY <1>1, KeepsReqInv DEF RequestsOK
<1>3. ReqInv(Reconnect(Taken), {}) BY <1>1, <1>2, ReconnectKeeps, KeepsReqInv
<1>4. CASE ReconnectByTimer BY <1>3, <1>4 DEF ReconnectByTimer, RequestsOK
<1>5. CASE PingByTimer
  <2>1. conn' = Taken \/ \E p \in Pings : conn' = SetupPing(Taken, p)
    BY <1>5 DEF PingByTimer, UnusedPings
  <2> QED BY <1>1, <1>2, <2>1, SetupPingReqInv DEF RequestsOK
<1>6. CASE PingCb
  <2> DEFINE d == [Taken EXCEPT !.ping_timer = "armed"]
  <2>1. /\ d.callbacks_map = Taken.callbacks_map /\ d.req_timer = Taken.req_timer
        /\ d.answers = Taken.answers /\ d.written = Taken.written
        /\ d.ready = Taken.ready /\ d.posted = Taken.posted
    BY <1>1 DEF ConnType
  <2>2. conn' = Reconnect(Taken) \/ conn' = d BY <1>6 DEF PingCb
  <2> HIDE DEF d
  <2>3. ReqInv(d, {}) BY <1>2, <2>1, KeepsSame, KeepsReqInv
  <2> QED BY <1>3, <2>2, <2>3 DEF RequestsOK
<1> QED BY <1>4, <1>5, <1>6

(***************************************************************************)
(* The public calls.                                                       *)
(***************************************************************************)
LEMMA UserWriteReqInv ==
  ASSUME conn \in ConnType, RequestsOK, NEW r \in Requests, UserWrite(r) PROVE RequestsOK'
<1> DEFINE w == conn.written \cup {r}
           g == [Registered(conn, r) EXCEPT !.written = w]
<1>1. r \in Answered /\ r \in Packets BY DEF Answered, Packets
<1>2. w \in SUBSET (Requests \cup Drops) BY DEF ConnType
<1>3. r \notin conn.written BY DEF UserWrite, Fresh
<1>4. g = Registered(Wrote(conn, r), r) BY DEF Wrote, Registered, ConnType
<1>5. conn' = DropPacketWrite(g, r) BY <1>4 DEF UserWrite, Write, Registered
<1>6. Wrote(conn, r) \in ConnType BY <1>2 DEF Wrote, ConnType
<1>7. g \in ConnType BY <1>1, <1>4, <1>6, RegisteredType
<1>8. ReqInv(g, {}) BY <1>1, <1>2, <1>3, RegisteredReqInv DEF RequestsOK
<1> HIDE DEF g
<1> QED BY <1>1, <1>5, <1>7, <1>8, DropPacketWriteKeeps, KeepsReqInv DEF RequestsOK

LEMMA UserDropWriteReqInv ==
  ASSUME conn \in ConnType, RequestsOK, NEW d \in Drops, UserDropWrite(d) PROVE RequestsOK'
<1> DEFINE g == Wrote(conn, d)
<1>1. d \in Packets /\ d \notin Requests BY PacketsDisjoint DEF Packets
<1>2. g \in ConnType BY DEF Wrote, ConnType
<1>3. /\ g.callbacks_map = conn.callbacks_map /\ g.req_timer = conn.req_timer
      /\ g.answers = conn.answers /\ g.written = conn.written \cup {d}
      /\ g.ready = conn.ready /\ g.posted = conn.posted
  BY DEF Wrote, ConnType
<1>4. conn' = DropPacketWrite(g, d) BY DEF UserDropWrite
<1> HIDE DEF g
<1>5. ReqInv(g, {}) BY <1>1, <1>3 DEF RequestsOK, ReqInv, TimeoutDue, Pending
<1> QED BY <1>1, <1>2, <1>4, <1>5, DropPacketWriteKeeps, KeepsReqInv DEF RequestsOK

LEMMA UserStepReqInv ==
  ASSUME conn \in ConnType, RequestsOK, UserStep PROVE RequestsOK'
<1>1. ReqInv(conn, {}) BY DEF RequestsOK
<1>2. CASE UserCheckConnect
  BY <1>1, <1>2, CheckConnectKeeps, KeepsReqInv DEF UserCheckConnect, RequestsOK
<1>3. CASE UserReconnect
  BY <1>1, <1>3, ReconnectKeeps, KeepsReqInv DEF UserReconnect, RequestsOK
<1>4. ReqInv(Close(conn), {}) BY <1>1, CloseKeeps, KeepsReqInv
<1>5. CASE UserClose BY <1>4, <1>5 DEF UserClose, RequestsOK
<1>6. CASE DisablePing
  <2> DEFINE d == [conn EXCEPT !.ping_enabled = FALSE, !.ping_timer = "idle"]
  <2>1. /\ d.callbacks_map = conn.callbacks_map /\ d.req_timer = conn.req_timer
        /\ d.answers = conn.answers /\ d.written = conn.written
        /\ d.ready = conn.ready /\ d.posted = conn.posted
    BY DEF ConnType
  <2>2. conn' = d BY <1>6 DEF DisablePing
  <2> HIDE DEF d
  <2> QED BY <1>1, <2>1, <2>2, KeepsSame, KeepsReqInv DEF RequestsOK
<1>7. ReqInv(Shutdown(conn), {}) BY <1>4, CloseType, DismissReqInv DEF Shutdown, Results
<1>8. CASE UserShutdown \/ GentleShutdown
  BY <1>7, <1>8 DEF UserShutdown, GentleShutdown, RequestsOK
<1> QED BY <1>2, <1>3, <1>5, <1>6, <1>8, UserWriteReqInv, UserDropWriteReqInv DEF UserStep

(***************************************************************************)
(* The clock and the network.                                              *)
(***************************************************************************)
LEMMA PollReturnsReqInv ==
  ASSUME conn \in ConnType, RequestsOK, PollReturns PROVE RequestsOK'
<1>1. /\ conn'.callbacks_map = conn.callbacks_map /\ conn'.req_timer = conn.req_timer
      /\ conn'.answers = conn.answers /\ conn'.written = conn.written
      /\ conn'.ready = conn.posted /\ conn.ready = <<>>
  BY DEF PollReturns, Polling, ConnType
<1>2. ASSUME NEW i \in Answered, TimeoutDue(conn, i) PROVE TimeoutDue(conn', i)
  <2>1. ~ In(Done("onTimeout", "ok", i), conn.ready) BY <1>1 DEF In
  <2> QED BY <1>1, <1>2, <2>1 DEF TimeoutDue, Pending
<1>3. Keeps(conn, conn') BY <1>1, <1>2 DEF Keeps
<1> QED BY <1>3, KeepsReqInv DEF RequestsOK

LEMMA RequestTimerExpiresReqInv ==
  ASSUME conn \in ConnType, RequestsOK, NEW i \in Answered, RequestTimerExpires(i)
  PROVE  RequestsOK'
<1> DEFINE x == Done("onTimeout", "ok", i)
<1>1. /\ conn'.callbacks_map = conn.callbacks_map
      /\ conn'.req_timer = [conn.req_timer EXCEPT ![i] = "expired"]
      /\ conn'.answers = conn.answers /\ conn'.written = conn.written
      /\ conn'.ready = conn.ready /\ conn'.posted = Append(conn.posted, x)
  BY DEF RequestTimerExpires, Post, ConnType
<1>2. /\ x \in Completion /\ conn.posted \in Seq(Completion)
      /\ conn.callbacks_map \in [Syncs -> Answered \cup {None}]
      /\ conn.req_timer \in [Answered -> {"idle", "armed", "expired"}]
  BY DEF Done, Completion, ConnType
<1>3. TimeoutDue(conn', i)
  <2>1. Len(conn.posted) + 1 \in DOMAIN conn'.posted
        /\ conn'.posted[Len(conn.posted) + 1] = x
    <3> HIDE DEF x
    <3> QED BY <1>1, <1>2
  <2> QED BY <2>1 DEF TimeoutDue, Pending, In
<1> HIDE DEF x
<1>4. ASSUME NEW j \in Answered, TimeoutDue(conn, j) PROVE TimeoutDue(conn', j)
  BY <1>1, <1>2, <1>4, InAppend DEF TimeoutDue, Pending
<1>5. \A j \in Answered : conn'.req_timer[j] = "expired" => TimeoutDue(conn', j)
  <2> SUFFICES ASSUME NEW j \in Answered, conn'.req_timer[j] = "expired"
               PROVE  TimeoutDue(conn', j)
    OBVIOUS
  <2>1. CASE j = i BY <1>3, <2>1
  <2>2. CASE j # i BY <1>1, <1>2, <1>4, <2>2 DEF RequestsOK, ReqInv
  <2> QED BY <2>1, <2>2
<1>6. \A s \in Syncs : conn'.callbacks_map[s] # None =>
        conn'.req_timer[conn'.callbacks_map[s]] \in {"armed", "expired"}
  <2> SUFFICES ASSUME NEW s \in Syncs, conn.callbacks_map[s] # None
               PROVE  conn'.req_timer[conn.callbacks_map[s]] \in {"armed", "expired"}
    BY <1>1
  <2>1. conn.callbacks_map[s] \in Answered BY <1>2
  <2>2. conn.req_timer[conn.callbacks_map[s]] \in {"armed", "expired"}
    BY DEF RequestsOK, ReqInv
  <2> QED BY <1>1, <1>2, <2>1, <2>2
<1> QED BY <1>1, <1>5, <1>6 DEF RequestsOK, ReqInv

LEMMA ClockReqInv ==
  ASSUME conn \in ConnType, RequestsOK, Clock PROVE RequestsOK'
<1>1. CASE ConnectTimerExpires
  <2>1. conn' \in ConnType BY <1>1, ClockType DEF Clock
  <2> DEFINE x == Done("reconnectByTimer", "ok", None)
  <2>2. /\ conn'.callbacks_map = conn.callbacks_map /\ conn'.req_timer = conn.req_timer
        /\ conn'.answers = conn.answers /\ conn'.written = conn.written
        /\ conn'.ready = conn.ready /\ conn'.posted = Append(conn.posted, x)
    BY <1>1 DEF ConnectTimerExpires, Post, ConnType
  <2>3. x \in Completion BY DEF Done, Completion
  <2> HIDE DEF x
  <2> QED BY <2>1, <2>2, <2>3, KeepsAppend, KeepsReqInv DEF RequestsOK
<1>2. CASE PingTimerExpires
  <2>1. conn' \in ConnType BY <1>2, ClockType DEF Clock
  <2> DEFINE x == Done("setupPing", "ok", None)
  <2>2. /\ conn'.callbacks_map = conn.callbacks_map /\ conn'.req_timer = conn.req_timer
        /\ conn'.answers = conn.answers /\ conn'.written = conn.written
        /\ conn'.ready = conn.ready /\ conn'.posted = Append(conn.posted, x)
    BY <1>2 DEF PingTimerExpires, Post, ConnType
  <2>3. x \in Completion BY DEF Done, Completion
  <2> HIDE DEF x
  <2> QED BY <2>1, <2>2, <2>3, KeepsAppend, KeepsReqInv DEF RequestsOK
<1> QED BY <1>1, <1>2, PollReturnsReqInv, RequestTimerExpiresReqInv DEF Clock

\* What an action of the network posts is not an onTimeout.
Posts(x) ==
  /\ conn'.callbacks_map = conn.callbacks_map /\ conn'.req_timer = conn.req_timer
  /\ conn'.answers = conn.answers /\ conn'.written = conn.written
  /\ conn'.ready = conn.ready /\ conn'.posted = Append(conn.posted, x)

LEMMA NetworkReqInv ==
  ASSUME conn \in ConnType, RequestsOK, Network PROVE RequestsOK'
<1>1. conn' \in ConnType BY NetworkType
<1>2. ASSUME NEW x \in Completion, Posts(x) PROVE RequestsOK'
  BY <1>1, <1>2, KeepsAppend, KeepsReqInv DEF Posts, RequestsOK
<1>3. CASE ConnectSucceeds
  <2>1. Posts(Done("onConnect", "ok", None)) BY <1>3 DEF ConnectSucceeds, Post, Posts, ConnType
  <2>2. Done("onConnect", "ok", None) \in Completion BY DEF Done, Completion
  <2> QED BY <1>2, <2>1, <2>2
<1>4. CASE ConnectFails \/ PeerCloses \/ PeerVanishes
  <2>1. /\ conn'.callbacks_map = conn.callbacks_map /\ conn'.req_timer = conn.req_timer
        /\ conn'.answers = conn.answers /\ conn'.written = conn.written
        /\ conn'.ready = conn.ready /\ conn'.posted = conn.posted
    BY <1>4 DEF ConnectFails, PeerCloses, PeerVanishes, Lost, ConnType
  <2> QED BY <2>1, KeepsSame, KeepsReqInv DEF RequestsOK
<1>5. ASSUME NEW i \in Answered, ReadFrame(i) PROVE RequestsOK'
  <2>1. Posts(Done("onRead", "ok", SyncOf[i])) BY <1>5 DEF ReadFrame, Post, Posts, ConnType
  <2>2. Done("onRead", "ok", SyncOf[i]) \in Completion BY SyncsAssigned DEF Done, Completion
  <2> QED BY <1>2, <2>1, <2>2
<1>6. CASE ReadPart \/ ReadFails
  <2>1. PICK ec \in {"ok", "error"} : Posts(Done("onRead", ec, None))
    BY <1>6 DEF ReadPart, ReadFails, Post, Posts, ConnType
  <2>2. Done("onRead", ec, None) \in Completion BY DEF Done, Completion
  <2> QED BY <1>2, <2>1, <2>2
<1>7. CASE WriteSucceeds \/ WriteFails
  <2>1. Head(conn.writes) \in Packets BY <1>7 DEF WriteSucceeds, WriteFails, ConnType
  <2>2. PICK ec \in {"ok", "epipe", "error"} : Posts(Done("onWrite", ec, Head(conn.writes)))
    <3>1. CASE WriteSucceeds BY <3>1 DEF WriteSucceeds, Post, Posts, ConnType
    <3>2. CASE WriteFails
      <4>1. PICK ec \in {"epipe", "error"} :
              conn' = Post([conn EXCEPT !.writes = Tail(@)], "onWrite", ec, Head(conn.writes))
        BY <3>2 DEF WriteFails
      <4>2. Posts(Done("onWrite", ec, Head(conn.writes))) BY <4>1 DEF Post, Posts, ConnType
      <4> QED BY <4>2
    <3> QED BY <1>7, <3>1, <3>2
  <2>3. Done("onWrite", ec, Head(conn.writes)) \in Completion BY <2>1 DEF Done, Completion
  <2> QED BY <1>2, <2>2, <2>3
<1> QED BY <1>3, <1>4, <1>5, <1>6, <1>7 DEF Network

LEMMA InitReqInv == Init => RequestsOK
<1> SUFFICES ASSUME Init PROVE RequestsOK OBVIOUS
<1>1. /\ conn.callbacks_map = [s \in Syncs |-> None]
      /\ conn.req_timer = [i \in Answered |-> "idle"]
      /\ conn.answers = [r \in Requests |-> 0] /\ conn.written = {}
  BY DEF Init, NewConn
<1>2. None \notin Requests BY PacketsDisjoint DEF Packets
<1> QED BY <1>1, <1>2 DEF RequestsOK, ReqInv

-------------------------------------------------------------------------------
(***************************************************************************)
(* The bookkeeping of requests is right in every reachable state: entries  *)
(* sit under their own sync, a request's callback is posted once and only  *)
(* after its entry is gone, and every entry's wait is armed or queued.     *)
(***************************************************************************)
THEOREM RequestsCorrect == Spec => []RequestsOK
<1>1. TypeOK /\ RequestsOK /\ [Next]_vars => RequestsOK'
  <2> SUFFICES ASSUME TypeOK, RequestsOK, [Next]_vars PROVE RequestsOK' OBVIOUS
  <2>1. CASE UNCHANGED vars BY <2>1 DEF RequestsOK, vars
  <2>2. CASE Next
    <3>1. conn \in ConnType BY DEF TypeOK
    <3> QED
      BY <2>2, <3>1, OnConnectReqInv, OnReadDataReqInv, OnReadErrorReqInv, OnWriteDoneReqInv,
         OnWriteErrorReqInv, OnTimeoutReqInv, TimerHandlersReqInv, UserStepReqInv,
         ClockReqInv, NetworkReqInv DEF Next, RunHandler
  <2> QED BY <2>1, <2>2
<1> QED BY <1>1, InitReqInv, TypeCorrect, PTL DEF Spec

(***************************************************************************)
(* A request is answered at most once, whichever of its answer, its        *)
(* timeout, a failed connection and a Shutdown() comes first, and also if  *)
(* syncs collide (invokeCallback erases before it posts).                  *)
(***************************************************************************)
THEOREM AnsweredAtMostOnce == Spec => []AnsweredOnce
<1>1. TypeOK /\ RequestsOK => AnsweredOnce
  <2> SUFFICES ASSUME TypeOK, RequestsOK, NEW r \in Requests
               PROVE  conn.answers[r] <= 1 /\ (r \in Waiting(conn) => conn.answers[r] = 0)
    BY DEF AnsweredOnce
  <2>1. conn.answers[r] <= 1 BY DEF RequestsOK, ReqInv
  <2>2. ASSUME r \in Waiting(conn) PROVE conn.answers[r] = 0
    <3>1. PICK s \in Syncs : conn.callbacks_map[s] = r BY <2>2 DEF Waiting
    <3> QED BY <3>1 DEF RequestsOK, ReqInv
  <2> QED BY <2>1, <2>2
<1> QED BY <1>1, TypeCorrect, RequestsCorrect, PTL

(***************************************************************************)
(* Whoever waits for an answer has a timeout to come, armed or queued:     *)
(* nobody can be left in callbacks_map for ever (Write, onTimeout).        *)
(***************************************************************************)
THEOREM WaitersHaveTimeouts == Spec => []WaitersTimed
<1>1. TypeOK /\ RequestsOK => WaitersTimed
  <2> SUFFICES ASSUME TypeOK, RequestsOK, NEW i \in Waiting(conn)
               PROVE  conn.req_timer[i] = "armed" \/ Pending(conn, Done("onTimeout", "ok", i))
    BY DEF WaitersTimed
  <2>1. PICK s \in Syncs : conn.callbacks_map[s] = i /\ i # None BY DEF Waiting
  <2>2. i \in Answered BY <2>1 DEF TypeOK, ConnType
  <2>3. conn.req_timer[i] \in {"armed", "expired"} BY <2>1 DEF RequestsOK, ReqInv
  <2> QED BY <2>2, <2>3 DEF RequestsOK, ReqInv, TimeoutDue
<1> QED BY <1>1, TypeCorrect, RequestsCorrect, PTL

(***************************************************************************)
(* Provided no request shares its sync with another packet that waits, no  *)
(* request is forgotten: it waits in callbacks_map or has been answered.   *)
(***************************************************************************)
THEOREM NothingForgotten == ASSUME SyncsUnique PROVE Spec => []NoRequestForgotten
<1>1. TypeOK /\ RequestsOK => NoRequestForgotten
  <2> SUFFICES ASSUME TypeOK, RequestsOK, NEW r \in conn.written \cap Requests
               PROVE  r \in Waiting(conn) \/ conn.answers[r] = 1
    BY DEF NoRequestForgotten
  <2>1. r \in Answered /\ r # None BY PacketsDisjoint DEF Answered, Packets
  <2>2. SyncOf[r] \in Syncs BY <2>1, SyncsAssigned
  <2>3. conn.callbacks_map[SyncOf[r]] = r \/ conn.answers[r] = 1
    BY SyncsUnique DEF RequestsOK, ReqInv
  <2> QED BY <2>1, <2>2, <2>3 DEF Waiting
<1> QED BY <1>1, TypeCorrect, RequestsCorrect, PTL
===============================================================================
