------------------------------ MODULE IProtoConn ------------------------------
(***************************************************************************)
(* IProto::Conn (src/iproto_conn.cpp): one TCP connection that multiplexes *)
(* requests by their `sync', answers each with a callback, limits each by  *)
(* a timer, pings its peer and reconnects by itself.                       *)
(*                                                                         *)
(* Every method of Conn is an operator from a state of the object to the   *)
(* next one, so that a handler composes the methods it calls exactly as    *)
(* the code does: reconnect() is Reconnect(c) == BeginConnect(Close(c)).   *)
(* An action takes one completion handler off the io_service and applies   *)
(* it, or is one public call, or one thing the kernel, the clock or the    *)
(* peer does.                                                              *)
(*                                                                         *)
(* The io_service is run by one thread.  It runs its queue in rounds: the  *)
(* handlers of `ready', first to last, then a poll that collects what the  *)
(* clock and the network have completed.  What a handler posts, and what a *)
(* close() aborts, joins `posted', ahead of what the next poll collects.   *)
(* A completion whose handler does nothing (a cancelled wait, a failed     *)
(* connect, the callback of a request, which is the caller's) is not       *)
(* queued.                                                                 *)
(***************************************************************************)
EXTENDS Naturals, Sequences, FiniteSets

CONSTANTS
  Requests,    \* packets given to Write(), with a callback
  Drops,       \* packets given to dropPacketWrite(), without one
  Pings,       \* the copies of the ping packet that may exist at one time
  Syncs,       \* the values of hdr.sync
  PingSync,    \* the sync of the ping packet, 0 in the code
  SyncOf,      \* the sync of each packet that has a callback
  None,        \* no packet, no sync
  PingModes,   \* ping_enabled when the caller has set the connection up
  MaxBatch,    \* bound: completions queued when a poll collects one more
  MaxFaults,   \* bound: times the peer breaks or deserts a connection
  MaxControls  \* bound: public calls other than writes

Packets == Requests \cup Drops \cup Pings
Answered == Requests \cup Pings

ASSUME PacketsDisjoint ==
  /\ Requests \cap Drops = {} /\ Requests \cap Pings = {} /\ Drops \cap Pings = {}
  /\ None \notin Packets /\ None \notin Syncs
ASSUME SyncsAssigned ==
  /\ PingSync \in Syncs
  /\ SyncOf \in [Answered -> Syncs]
  /\ \A p \in Pings : SyncOf[p] = PingSync
ASSUME BoundsTyped ==
  /\ PingModes \subseteq BOOLEAN
  /\ MaxBatch \in Nat /\ MaxFaults \in Nat /\ MaxControls \in Nat

VARIABLES
  conn,    \* the Conn object, and what asio and TCP hold on its behalf
  budget   \* what is left of the bounds
vars == <<conn, budget>>

(***************************************************************************)
(* A completion: the handler, its error code or result, its argument.      *)
(***************************************************************************)
Results == {"CB_OK", "CB_ERR", "CB_TIMEOUT"}
Completion ==
  [h : {"onConnect", "reconnectByTimer", "setupPing"}, ec : {"ok"}, arg : {None}]
  \cup [h : {"onRead"}, ec : {"ok"}, arg : Syncs \cup {None}]
  \cup [h : {"onRead"}, ec : {"aborted", "error"}, arg : {None}]
  \cup [h : {"onWrite"}, ec : {"ok", "aborted", "epipe", "error"}, arg : Packets]
  \cup [h : {"onTimeout"}, ec : {"ok"}, arg : Answered]
  \cup [h : {"pingCb"}, ec : Results, arg : {None}]
Done(h, ec, arg) == [h |-> h, ec |-> ec, arg |-> arg]

ConnType ==
  [ sock            : {"closed", "connecting", "connected", "silent", "dead"},
    timer           : {"idle", "armed"},        \* limits the connection time
    ping_timer      : {"idle", "armed"},
    ping_enabled    : BOOLEAN,
    write_is_active : BOOLEAN,
    write_queue     : Seq(Packets),             \* write_queue_len is its length
    callbacks_map   : [Syncs -> Answered \cup {None}],
    req_timer       : [Answered -> {"idle", "armed", "expired"}],
    reads           : Nat,                      \* async_reads on this socket
    writes          : Seq(Packets),             \* async_writes on this socket
    ready           : Seq(Completion),          \* to run before the next poll
    posted          : Seq(Completion),          \* to run after it
    sent            : SUBSET Answered,          \* reached the peer, unanswered
    written         : SUBSET (Requests \cup Drops),
    answers         : [Requests -> Nat],        \* callbacks posted
    live            : SUBSET Packets ]          \* packet buffers not yet freed

Budget == [faults : 0..MaxFaults, controls : 0..MaxControls]

Open(c) == c.sock # "closed"

(***************************************************************************)
(* Callbacks: invokeCallback, onTimeout's lookup, dismissCallbacks.        *)
(***************************************************************************)
Waiting(c) == {c.callbacks_map[s] : s \in Syncs} \ {None}

CancelTimers(c, who) ==
  [i \in Answered |-> IF i \in who /\ c.req_timer[i] = "armed"
                      THEN "idle" ELSE c.req_timer[i]]

\* Only the ping's callback is a method of Conn; a caller's is not queued.
PostCallbacks(c, who, code) ==
  IF who \cap Pings # {} THEN Append(c.posted, Done("pingCb", code, None)) ELSE c.posted

\* Mutant: the entry is not erased.
InvokeCallbackKeepingEntry(c, sync, code) ==
  LET who == {c.callbacks_map[sync]} \ {None} IN
  [c EXCEPT !.req_timer = IF code = "CB_TIMEOUT" THEN @ ELSE CancelTimers(c, who),
            !.answers = [r \in Requests |-> IF r \in who THEN @[r] + 1 ELSE @[r]],
            !.posted = PostCallbacks(c, who, code)]

InvokeCallback(c, sync, code) ==
  LET who == {c.callbacks_map[sync]} \ {None} IN
  [c EXCEPT !.callbacks_map[sync] = None,
            !.req_timer = IF code = "CB_TIMEOUT" THEN @ ELSE CancelTimers(c, who),
            !.answers = [r \in Requests |-> IF r \in who THEN @[r] + 1 ELSE @[r]],
            !.posted = PostCallbacks(c, who, code)]

\* Mutant: the map is cleared without a callback.
DismissSilently(c, code) ==
  [c EXCEPT !.ping_timer = "idle",
            !.callbacks_map = [s \in Syncs |-> None],
            !.req_timer = CancelTimers(c, Waiting(c))]

DismissCallbacks(c, code) ==
  [c EXCEPT !.ping_timer = "idle",
            !.callbacks_map = [s \in Syncs |-> None],
            !.req_timer = CancelTimers(c, Waiting(c)),
            !.answers = [r \in Requests |-> IF r \in Waiting(c) THEN @[r] + 1 ELSE @[r]],
            !.posted = PostCallbacks(c, Waiting(c), code)]

(***************************************************************************)
(* The socket: close, beginConnect, reconnect, checkConnect.               *)
(***************************************************************************)
Aborted(c) == [i \in 1..c.reads |-> Done("onRead", "aborted", None)]
              \o [i \in 1..Len(c.writes) |-> Done("onWrite", "aborted", c.writes[i])]

\* A pending async_connect is aborted too: onConnect(aborted) does nothing.
Close(c) ==
  [c EXCEPT !.sock = "closed", !.reads = 0, !.writes = <<>>, !.sent = {},
            !.posted = @ \o Aborted(c)]

\* expires_from_now() cancels the wait before it; async_connect opens the socket.
BeginConnect(c) ==
  [c EXCEPT !.write_is_active = FALSE, !.ping_timer = "idle",
            !.timer = "armed", !.sock = "connecting"]

Reconnect(c) == BeginConnect(Close(c))
CheckConnect(c) == IF Open(c) THEN c ELSE BeginConnect(c)

(***************************************************************************)
(* Writing: ensureWriteBuffer, dropPacketWrite, Write, setupPing.          *)
(***************************************************************************)
\* async_write on a closed socket completes at once with bad_descriptor.
StartWrite(c) ==
  LET wr == Head(c.write_queue) IN
  [c EXCEPT !.write_queue = Tail(@),
            !.write_is_active = TRUE,
            !.writes = IF Open(c) THEN Append(@, wr) ELSE @,
            !.posted = IF Open(c) THEN @ ELSE Append(@, Done("onWrite", "error", wr))]

\* Mutant: only write_is_active decides.
EnsureWriteBufferIfIdle(c, finished) ==
  IF c.write_queue # <<>> /\ ~c.write_is_active
  THEN StartWrite(c)
  ELSE [c EXCEPT !.write_is_active = FALSE]

\* `finished': the call comes from a completed write, wr_buf is not null.
EnsureWriteBuffer(c, finished) ==
  IF c.write_queue # <<>> /\ (finished \/ ~c.write_is_active)
  THEN StartWrite(c)
  ELSE [c EXCEPT !.write_is_active = FALSE]

\* Mutant: pkt.data is reset before it is queued.
DropPacketWriteMoved(c, pkt) ==
  LET q == [c EXCEPT !.write_queue = Append(@, None)] IN
  IF Open(c) THEN EnsureWriteBuffer(q, FALSE) ELSE BeginConnect(q)

DropPacketWrite(c, pkt) ==
  LET q == [c EXCEPT !.write_queue = Append(@, pkt), !.live = @ \cup {pkt}] IN
  IF Open(c) THEN EnsureWriteBuffer(q, FALSE) ELSE BeginConnect(q)

\* Mutant: the timer is not started.
WriteUntimed(c, pkt) ==
  DropPacketWrite([c EXCEPT !.callbacks_map[SyncOf[pkt]] = pkt], pkt)

Write(c, pkt) ==
  DropPacketWrite([c EXCEPT !.req_timer[pkt] = "armed",
                            !.callbacks_map[SyncOf[pkt]] = pkt], pkt)

\* A copy of the ping packet none of whose traces is left: a new malloc.
Mentions(q, pkt) == \E k \in DOMAIN q : q[k].h \in {"onWrite", "onTimeout"} /\ q[k].arg = pkt
UnusedPings(c) ==
  {p \in Pings : /\ c.req_timer[p] = "idle" /\ c.callbacks_map[PingSync] # p
                 /\ ~ \E k \in DOMAIN c.write_queue : c.write_queue[k] = p
                 /\ ~ \E k \in DOMAIN c.writes : c.writes[k] = p
                 /\ ~ Mentions(c.ready, p) /\ ~ Mentions(c.posted, p)}

SetupPing(c, pkt) ==
  Write(CheckConnect(c), pkt)

(***************************************************************************)
(* Reading: the read loop goes on as long as the socket is open.  With a   *)
(* closed one it ends, unless a frame is incomplete: that async_read is    *)
(* issued without a look at the socket and fails at once.                  *)
(***************************************************************************)
ReadMore(c) == [c EXCEPT !.reads = @ + 1]
ReadOnClosed(c) == {c, [c EXCEPT !.posted = Append(@, Done("onRead", "error", None))]}

-------------------------------------------------------------------------------
(***************************************************************************)
(* The initial states: constructed, ping enabled or disablePing() called.  *)
(***************************************************************************)
NewConn(ping) ==
  [ sock |-> "closed", timer |-> "idle", ping_timer |-> "idle",
    ping_enabled |-> ping, write_is_active |-> TRUE, write_queue |-> <<>>,
    callbacks_map |-> [s \in Syncs |-> None],
    req_timer |-> [i \in Answered |-> "idle"],
    reads |-> 0, writes |-> <<>>, ready |-> <<>>, posted |-> <<>>, sent |-> {},
    written |-> {}, answers |-> [r \in Requests |-> 0], live |-> {} ]

Init ==
  /\ \E ping \in PingModes : conn = NewConn(ping)
  /\ budget = [faults |-> MaxFaults, controls |-> MaxControls]

(***************************************************************************)
(* Completion handlers.  Each takes the first completion of the queue.     *)
(***************************************************************************)
Next1(h) == conn.ready # <<>> /\ Head(conn.ready).h = h
Ec == Head(conn.ready).ec
Arg == Head(conn.ready).arg
Taken == [conn EXCEPT !.ready = Tail(@)]

\* Mutant: packets that wait go first, and no ping is sent.
OnConnectWriting ==
  /\ Next1("onConnect")
  /\ LET c == [Taken EXCEPT !.timer = "idle"] IN
     \/ ~Open(c) /\ conn' = c
     \/ /\ Open(c) /\ c.ping_enabled /\ c.write_queue = <<>>
        /\ \E p \in UnusedPings(c) : conn' = SetupPing(ReadMore(c), p)
     \/ /\ Open(c) /\ (~c.ping_enabled \/ c.write_queue # <<>>)
        /\ conn' = EnsureWriteBuffer(ReadMore(c), FALSE)
  /\ UNCHANGED budget

\* On a socket that was closed meanwhile the timer is cancelled and nothing is
\* read; then set_option() throws (iproto_conn.cpp:118).  The exception leaves
\* io_service::run(), whose caller is supposed to run it again.
OnConnect ==
  /\ Next1("onConnect")
  /\ LET c == [Taken EXCEPT !.timer = "idle"] IN
     \/ ~Open(c) /\ conn' = c
     \/ /\ Open(c) /\ c.ping_enabled
        /\ \E p \in UnusedPings(c) : conn' = SetupPing(ReadMore(c), p)
     \/ Open(c) /\ ~c.ping_enabled /\ conn' = EnsureWriteBuffer(ReadMore(c), FALSE)
  /\ UNCHANGED budget

\* One frame, or the bytes of an incomplete one (Arg = None).
OnReadData ==
  /\ Next1("onRead") /\ Ec = "ok"
  /\ LET c == IF Arg = None THEN Taken ELSE InvokeCallback(Taken, Arg, "CB_OK") IN
     IF Open(c) THEN conn' = ReadMore(c) ELSE conn' \in ReadOnClosed(c)
  /\ UNCHANGED budget

\* Mutant: a failed read does not reconnect.
OnReadErrorStaying ==
  /\ Next1("onRead") /\ Ec # "ok"
  /\ conn' = DismissCallbacks(Taken, "CB_ERR")
  /\ UNCHANGED budget

OnReadError ==
  /\ Next1("onRead") /\ Ec # "ok"
  /\ LET c == DismissCallbacks(Taken, "CB_ERR") IN
     conn' = IF Ec = "aborted" THEN c ELSE Reconnect(c)
  /\ UNCHANGED budget

OnWriteDone ==
  /\ Next1("onWrite") /\ Ec = "ok"
  /\ conn' = EnsureWriteBuffer([Taken EXCEPT !.live = @ \ {Arg}], TRUE)
  /\ UNCHANGED budget

\* Mutant: wr_buf is not reset after broken_pipe, and freed.
OnWriteErrorFreeing ==
  /\ Next1("onWrite") /\ Ec # "ok"
  /\ conn' = CASE Ec = "aborted" ->
                    [DismissCallbacks(Taken, "CB_ERR") EXCEPT !.live = @ \ {Arg}]
               [] Ec = "epipe" ->
                    [Reconnect([Taken EXCEPT !.write_queue = Append(@, Arg)])
                       EXCEPT !.live = @ \ {Arg}]
               [] OTHER -> [Reconnect(Taken) EXCEPT !.live = @ \ {Arg}]
  /\ UNCHANGED budget

\* Only a packet that met broken_pipe is kept, at the end of the queue.
OnWriteError ==
  /\ Next1("onWrite") /\ Ec # "ok"
  /\ conn' = CASE Ec = "aborted" ->
                    [DismissCallbacks(Taken, "CB_ERR") EXCEPT !.live = @ \ {Arg}]
               [] Ec = "epipe" -> Reconnect([Taken EXCEPT !.write_queue = Append(@, Arg)])
               [] OTHER -> [Reconnect(Taken) EXCEPT !.live = @ \ {Arg}]
  /\ UNCHANGED budget

\* The wait knows the request's sync, not the request.
OnTimeout ==
  /\ Next1("onTimeout")
  /\ conn' = InvokeCallback([Taken EXCEPT !.req_timer[Arg] = "idle"],
                            SyncOf[Arg], "CB_TIMEOUT")
  /\ UNCHANGED budget

ReconnectByTimer ==
  /\ Next1("reconnectByTimer") /\ conn' = Reconnect(Taken) /\ UNCHANGED budget

PingByTimer ==
  /\ Next1("setupPing")
  /\ \/ ~conn.ping_enabled /\ conn' = Taken
     \/ /\ conn.ping_enabled
        /\ \E p \in UnusedPings(Taken) : conn' = SetupPing(Taken, p)
  /\ UNCHANGED budget

\* Mutant: a ping that timed out is followed by another on the same connection.
PingCbPersisting ==
  /\ Next1("pingCb")
  /\ conn' = [Taken EXCEPT !.ping_timer = "armed"]
  /\ UNCHANGED budget

PingCb ==
  /\ Next1("pingCb")
  /\ conn' = IF Ec = "CB_TIMEOUT" THEN Reconnect(Taken)
             ELSE [Taken EXCEPT !.ping_timer = "armed"]
  /\ UNCHANGED budget

RunHandler == \/ OnConnect \/ OnReadData \/ OnReadError \/ OnWriteDone \/ OnWriteError
              \/ OnTimeout \/ ReconnectByTimer \/ PingByTimer \/ PingCb

(***************************************************************************)
(* Public calls, from other handlers of the same thread.                   *)
(***************************************************************************)
Fresh(pkt) == pkt \notin conn.written
Wrote(c, pkt) == [c EXCEPT !.written = @ \cup {pkt}]

UserWrite(r) == Fresh(r) /\ conn' = Write(Wrote(conn, r), r) /\ UNCHANGED budget
UserDropWrite(d) ==
  Fresh(d) /\ conn' = DropPacketWrite(Wrote(conn, d), d) /\ UNCHANGED budget

Control == /\ budget.controls > 0
           /\ budget' = [budget EXCEPT !.controls = @ - 1]
UserCheckConnect == ~Open(conn) /\ conn' = CheckConnect(conn) /\ Control
UserReconnect == conn' = Reconnect(conn) /\ Control
UserClose == Open(conn) /\ conn' = Close(conn) /\ Control
DisablePing ==
  /\ conn.ping_enabled
  /\ conn' = [conn EXCEPT !.ping_enabled = FALSE, !.ping_timer = "idle"]
  /\ Control

Shutdown(c) == DismissCallbacks(Close(c), "CB_ERR")
UserShutdown == conn' = Shutdown(conn) /\ Control
\* Otherwise it returns false and changes nothing.
GentleShutdown ==
  /\ Waiting(conn) = {} /\ ~conn.write_is_active
  /\ conn' = Shutdown(conn) /\ Control

UserStep == \/ \E r \in Requests : UserWrite(r)
            \/ \E d \in Drops : UserDropWrite(d)
            \/ UserCheckConnect \/ UserReconnect \/ UserClose
            \/ DisablePing \/ UserShutdown \/ GentleShutdown

(***************************************************************************)
(* The clock.  An expired wait is queued and can be cancelled no more.     *)
(***************************************************************************)
Polling == conn.ready = <<>>
Collects == Polling /\ Len(conn.posted) <= MaxBatch
Post(c, h, ec, arg) == [c EXCEPT !.posted = Append(@, Done(h, ec, arg))]
\* The bound on pings: a completion whose handler sends one leaves a copy for it.
PingsDue(q) == {k \in DOMAIN q : q[k].h \in {"onConnect", "setupPing"}}
PingToSpare == conn.ping_enabled =>
  Cardinality(PingsDue(conn.ready)) + Cardinality(PingsDue(conn.posted))
    < Cardinality(UnusedPings(conn))
\* The poll is over: what is queued by now is the next round.
PollReturns ==
  /\ Polling /\ conn.posted # <<>>
  /\ conn' = [conn EXCEPT !.ready = conn.posted, !.posted = <<>>]
  /\ UNCHANGED budget

ConnectTimerExpires ==
  /\ Collects /\ conn.timer = "armed"
  /\ conn' = Post([conn EXCEPT !.timer = "idle"], "reconnectByTimer", "ok", None)
  /\ UNCHANGED budget
PingTimerExpires ==
  /\ Collects /\ PingToSpare /\ conn.ping_timer = "armed"
  /\ conn' = Post([conn EXCEPT !.ping_timer = "idle"], "setupPing", "ok", None)
  /\ UNCHANGED budget
RequestTimerExpires(i) ==
  /\ Collects /\ conn.req_timer[i] = "armed"
  /\ conn' = Post([conn EXCEPT !.req_timer[i] = "expired"], "onTimeout", "ok", i)
  /\ UNCHANGED budget

(***************************************************************************)
(* TCP and the peer.                                                       *)
(***************************************************************************)
ConnectSucceeds ==
  /\ Collects /\ PingToSpare /\ conn.sock = "connecting"
  /\ conn' = Post([conn EXCEPT !.sock = "connected"], "onConnect", "ok", None)
  /\ UNCHANGED budget
ConnectFails ==
  /\ Collects /\ conn.sock = "connecting"
  /\ conn' = [conn EXCEPT !.sock = "dead"]
  /\ UNCHANGED budget

Fault == /\ budget.faults > 0
         /\ budget' = [budget EXCEPT !.faults = @ - 1]
Lost(state) == [conn EXCEPT !.sock = state, !.sent = {}]
\* FIN or RST: what is outstanding on the socket will fail.
PeerCloses ==
  conn.sock \in {"connected", "silent"} /\ conn' = Lost("dead") /\ Fault
\* The peer hangs or its host is gone: writes succeed, no byte comes back.
PeerVanishes ==
  conn.sock = "connected" /\ conn' = Lost("silent") /\ Fault

ReadFrame(i) ==
  /\ Collects /\ conn.sock = "connected" /\ conn.reads > 0 /\ i \in conn.sent
  /\ conn' = Post([conn EXCEPT !.reads = @ - 1, !.sent = @ \ {i}],
                  "onRead", "ok", SyncOf[i])
  /\ UNCHANGED budget
ReadPart ==
  /\ Collects /\ conn.sock = "connected" /\ conn.reads > 0 /\ conn.sent # {}
  /\ conn' = Post([conn EXCEPT !.reads = @ - 1], "onRead", "ok", None)
  /\ Fault
ReadFails ==
  /\ Collects /\ conn.sock = "dead" /\ conn.reads > 0
  /\ conn' = Post([conn EXCEPT !.reads = @ - 1], "onRead", "error", None)
  /\ UNCHANGED budget

WriteSucceeds ==
  /\ conn.sock \in {"connected", "silent"} /\ conn.writes # <<>>
  /\ LET wr == Head(conn.writes) IN
     conn' = Post([conn EXCEPT !.writes = Tail(@), !.sent = IF conn.sock = "connected" THEN @ \cup ({wr} \cap Answered) ELSE @],
                  "onWrite", "ok", wr)
  /\ UNCHANGED budget
WriteFails ==
  /\ Collects /\ conn.sock = "dead" /\ conn.writes # <<>>
  /\ \E ec \in {"epipe", "error"} :
       conn' = Post([conn EXCEPT !.writes = Tail(@)], "onWrite", ec, Head(conn.writes))
  /\ UNCHANGED budget

Clock == \/ PollReturns \/ ConnectTimerExpires \/ PingTimerExpires
         \/ \E i \in Answered : RequestTimerExpires(i)
Network == \/ ConnectSucceeds \/ ConnectFails \/ PeerCloses \/ PeerVanishes
           \/ \E i \in Answered : ReadFrame(i)
           \/ ReadPart \/ ReadFails \/ WriteSucceeds \/ WriteFails

Next == RunHandler \/ UserStep \/ Clock \/ Network
Spec == Init /\ [][Next]_vars

(***************************************************************************)
(* Fairness.  The thread keeps running the io_service.  Every poll         *)
(* collects the waits that have expired and the operations a dead socket   *)
(* has failed, and time passes, so none of these is put off for ever even  *)
(* if it is not enabled between polls; of the waits of requests that are   *)
(* armed again and again, some is.  Nothing is assumed of the peer, of     *)
(* the caller or of a connection attempt.                                  *)
(***************************************************************************)
Fairness ==
  /\ WF_vars(RunHandler \/ PollReturns)
  /\ SF_vars(ConnectTimerExpires) /\ SF_vars(PingTimerExpires)
  /\ SF_vars(\E i \in Answered : RequestTimerExpires(i))
  /\ SF_vars(ReadFails) /\ SF_vars(WriteFails)
FairSpec == Spec /\ Fairness

-------------------------------------------------------------------------------
TypeOK == conn \in ConnType /\ budget \in Budget

\* A completion is queued, in this round or the next.
In(x, q) == \E k \in DOMAIN q : q[k] = x
Pending(c, x) == In(x, c.ready) \/ In(x, c.posted)
Queued(h, ecs) == \E q \in {conn.ready, conn.posted} : \E k \in DOMAIN q :
                    q[k].h = h /\ q[k].ec \in ecs

(***************************************************************************)
(* A request's callback is posted at most once, and not while the request  *)
(* is still in callbacks_map: an answer, a timeout, a failed connection    *)
(* and a Shutdown() may all race for it (invokeCallback erases the entry   *)
(* before it posts the callback).                                          *)
(***************************************************************************)
AnsweredOnce ==
  \A r \in Requests : /\ conn.answers[r] <= 1
                      /\ r \in Waiting(conn) => conn.answers[r] = 0

(***************************************************************************)
(* No request is forgotten: from Write() on it waits in callbacks_map or   *)
(* its callback has been posted.  Needs the syncs of requests to differ.   *)
(***************************************************************************)
NoRequestForgotten ==
  \A r \in conn.written \cap Requests : r \in Waiting(conn) \/ conn.answers[r] = 1

(***************************************************************************)
(* Whoever waits in callbacks_map has a timeout to come: its wait is armed *)
(* or has expired and its onTimeout is queued.  The wait also keeps the    *)
(* Conn alive (shared_from_this), so ~Conn finds no callback to dismiss.   *)
(***************************************************************************)
WaitersTimed ==
  \A i \in Waiting(conn) : \/ conn.req_timer[i] = "armed"
                           \/ Pending(conn, Done("onTimeout", "ok", i))

(***************************************************************************)
(* A packet's buffer has exactly one owner until it is freed (the queue, a *)
(* write in flight or that write's completion) and none after: no leak, no *)
(* double free, no write from freed memory, through reconnects, retries    *)
(* after broken_pipe and writes that overlap.                              *)
(***************************************************************************)
Owners(pkt) ==
  {<<"queue", k>> : k \in {j \in DOMAIN conn.write_queue : conn.write_queue[j] = pkt}}
  \cup {<<"write", k>> : k \in {j \in DOMAIN conn.writes : conn.writes[j] = pkt}}
  \cup UNION {{<<q, k>> : k \in {j \in DOMAIN conn[q] : conn[q][j].h = "onWrite"
                                                        /\ conn[q][j].arg = pkt}}
              : q \in {"ready", "posted"}}
OneOwner == \A pkt \in Packets :
              Cardinality(Owners(pkt)) = IF pkt \in conn.live THEN 1 ELSE 0

(***************************************************************************)
(* An open socket is never left alone: there is a read on it, or the       *)
(* connect timer runs, or a completion is queued whose handler starts one  *)
(* of them or reconnects.                                                  *)
(***************************************************************************)
Reconnects == \/ Queued("reconnectByTimer", {"ok"})
              \/ Queued("onRead", {"error"})
              \/ Queued("onWrite", {"epipe", "error"})
              \/ Queued("pingCb", {"CB_TIMEOUT"})
SocketWatched ==
  Open(conn) => \/ conn.reads > 0 \/ conn.timer = "armed" \/ Reconnects
                \/ Queued("onConnect", {"ok"}) \/ Queued("onRead", {"ok"})

(***************************************************************************)
(* On a connected socket the chain of pings never breaks: a ping waits for *)
(* its answer, or its callback or the 300 ms wait for the next is queued   *)
(* or armed, or onConnect is still to come.  dismissCallbacks, called for  *)
(* operations of a socket already replaced, cancels ping_timer.            *)
(***************************************************************************)
PingChain ==
  conn.sock \in {"connected", "silent"} /\ conn.ping_enabled =>
    \/ Waiting(conn) \cap Pings # {} \/ conn.ping_timer = "armed" \/ Reconnects
    \/ Queued("setupPing", {"ok"}) \/ Queued("pingCb", Results)
    \/ Queued("onConnect", {"ok"})

(***************************************************************************)
(* No packet is stranded: while the queue holds one on an open socket, a   *)
(* write is in flight whose completion takes the next packet, or the       *)
(* connection is still being set up or about to be replaced.  This is what *)
(* write_is_active is kept for; the code sets it to false with a write in  *)
(* flight when a third packet comes, and the queue moves all the same.     *)
(***************************************************************************)
QueueMoves ==
  Open(conn) /\ conn.write_queue # <<>> =>
    \/ conn.writes # <<>> \/ Queued("onWrite", {"ok", "epipe", "error"})
    \/ conn.sock = "connecting" \/ conn.timer = "armed"
    \/ Reconnects \/ Queued("onConnect", {"ok"}) \/ conn.sock = "dead"

(***************************************************************************)
(* beginConnect() starts the timer to "Limit connection time": it does not *)
(* replace a connection that has been established.  It can: the expired    *)
(* wait and the finished connect are collected by one poll, and neither    *)
(* handler looks at what the other has done.                               *)
(***************************************************************************)
TimerLimitsConnecting == [][ReconnectByTimer => conn.sock # "connected"]_vars

(***************************************************************************)
(* Liveness.  Every request is answered, whatever the network does.        *)
(***************************************************************************)
EveryRequestAnswered ==
  \A r \in Requests : r \in conn.written ~> conn.answers[r] = 1

\* A peer that went silent is found out by the pings, and so is a socket whose
\* connect failed or whose peer is gone: the connection is closed or replaced.
LostPeer == conn.sock = "dead" \/ (conn.sock = "silent" /\ conn.ping_enabled)
LostPeerLeft == LostPeer ~> ~LostPeer
===============================================================================
