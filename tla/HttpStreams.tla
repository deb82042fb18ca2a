------------------------------ MODULE HttpStreams ------------------------------
(***************************************************************************)
(* The calls of HTTP::Conn (src/http_conn.cpp) that move data between its  *)
(* connection and another socket of the caller's, and the CoroBarrier      *)
(* (src/coro_barrier.cpp) by which a write goes on while the caller does   *)
(* something else.  HttpConn with these calls added to it.                 *)
(*                                                                         *)
(* No timer limits what is waited for on the other socket, so `other' is   *)
(* kept apart from the operations of the connection.  A splice moves one   *)
(* chunk.  The caller waits for a barrier before it goes on with the       *)
(* connection; its own socket does not end in the middle of a request.     *)
(***************************************************************************)
EXTENDS HttpConn

CONSTANT PipeHint  \* SPLICE_FULL_HINT in chunks

ASSUME PipeHintPositive == PipeHint \in Nat \ {0}

VARIABLES
  pipe,      \* the chunks in the pipe, rd_pipe
  other,     \* what the coroutine waits for elsewhere: dest to take read_buf,
             \* dest to take from the pipe, sock_from, or the barrier's resume
  got_done,  \* the barrier: the end of its write, if it has ended,
  is_suspended  \* and whether a coroutine is suspended on it
relay == <<pipe, other, got_done, is_suspended>>
svars == <<conn, pipe, other, got_done, is_suspended>>

StreamInit ==
  /\ Init /\ pipe = 0 /\ other = "none" /\ got_done = "none" /\ is_suspended = FALSE

\* The coroutine goes on after an operation of the connection.
Completes(op) ==
  conn.queue # <<>> /\ Head(conn.queue) \in Results /\ conn.op = op
Resumed == [conn EXCEPT !.op = "none", !.queue = Tail(@)]

(***************************************************************************)
(* StreamSpliceData(): what the pipe does not hold yet is read into it,    *)
(* under the timer, then it is written to dest until it is empty, or until *)
(* dest takes no more and there is more to read than the pipe holds.       *)
(***************************************************************************)
StartIn(c) == conn' = Issue(SetTimer(c), "in")

\* pipe() or splice() is refused by the kernel: an Error, and the connection and
\* the rest of the body on it are left as they are.
Refused(c) == [End(c, "EXCEPTION") EXCEPT !.cause = "other"]

\* The loop: read while there is something to read and the pipe has room.
SpliceOn(c, n) ==
  IF c.left > 0 /\ n < PipeHint
  THEN StartIn(c) /\ other' = "none"
  ELSE conn' = c /\ other' = "out"

StreamSpliceData ==
  /\ conn.call = "none" /\ conn.left > 0
  /\ LET c == [conn EXCEPT !.call = "splice", !.outcome = "none"]
     IN  \/ conn' = c /\ other' = "dest"
         \/ StartIn(c) /\ other' = "none"
         \/ conn' = Refused(c) /\ other' = "none"
  /\ UNCHANGED <<pipe, got_done, is_suspended>>

\* The socket can be read.  splice() moves a chunk, or finds the pipe full.
SpliceIn ==
  /\ Completes("in") /\ UNCHANGED <<got_done, is_suspended>>
  /\ LET c == ClearTimer(Resumed)
         ec == Head(conn.queue)
     IN  \/ /\ ec # "ok" /\ conn' = ClearTimer(checkTimeout(Resumed, ec))
            /\ pipe' = 0 /\ UNCHANGED other
         \/ /\ ec = "ok" /\ (c.body > 0 \/ c.sock = "foul") /\ pipe' = pipe + 1
            /\ SpliceOn([c EXCEPT !.left = @ - 1, !.body = IF @ > 0 THEN @ - 1 ELSE 0], pipe')
         \/ /\ ec = "ok" /\ pipe > 0 /\ conn' = c /\ other' = "out" /\ UNCHANGED pipe
         \/ /\ ec = "ok" /\ c.body = 0 /\ conn' = Throw(c, "EXCEPTION")
            /\ pipe' = 0 /\ UNCHANGED other
         \/ ec = "ok" /\ conn' = Refused(c) /\ pipe' = 0 /\ UNCHANGED other

\* read_buf has been written to dest.
DestTakesBuffer ==
  /\ other = "dest" /\ other' = "none"
  /\ StartIn(conn) \/ conn' = Refused(conn)
  /\ UNCHANGED <<pipe, got_done, is_suspended>>

\* Wrong: the pipe is left as soon as dest is full.
DestFullLeaving ==
  /\ other = "out"
  /\ IF conn.left > 0 THEN SpliceOn(conn, pipe)
     ELSE conn' = End(conn, "answered") /\ other' = "none"
  /\ UNCHANGED <<pipe, got_done, is_suspended>>

\* dest takes no more: there is time to read if enough is left.
DestFull ==
  /\ other = "out" /\ pipe < conn.left /\ SpliceOn(conn, pipe)
  /\ UNCHANGED <<pipe, got_done, is_suspended>>

DestTakes ==
  /\ other = "out" /\ pipe' = pipe - 1
  /\ \/ pipe' > 0 /\ UNCHANGED <<conn, other>>
     \/ pipe' = 0 /\ conn.left > 0 /\ SpliceOn(conn, 0)
     \/ pipe' = 0 /\ conn.left = 0 /\ conn' = End(conn, "answered") /\ other' = "none"
  /\ UNCHANGED <<got_done, is_suspended>>

\* An exception that is not an Error.  The pipe is closed.
DestFails ==
  /\ other \in {"dest", "out"}
  /\ conn' = End(conn, "unforwarded") /\ other' = "none" /\ pipe' = 0
  /\ UNCHANGED <<got_done, is_suspended>>

(***************************************************************************)
(* WriteTee() and WriteSplice(): a request's data come from sock_from.     *)
(* They wait until the connection takes data, under the timer, then until  *)
(* sock_from has some; WriteSplice() tries first, and goes on until it has *)
(* all.                                                                    *)
(***************************************************************************)
StartRoom(c) == conn' = Issue(SetTimer(c), "room") /\ other' = "none"

WriteTee ==
  /\ Building /\ conn.sent < conn.size
  /\ StartRoom([conn EXCEPT !.call = "tee", !.outcome = "none"])
  /\ UNCHANGED <<pipe, got_done, is_suspended>>

WriteSplice ==
  /\ Building /\ conn.sent < conn.size
  /\ LET c == [conn EXCEPT !.call = "wsplice", !.outcome = "none"]
     IN  StartRoom(c) \/ (conn' = c /\ other' = "from")
  /\ UNCHANGED <<pipe, got_done, is_suspended>>

HasRoom ==
  /\ Completes("room")
  /\ LET ec == Head(conn.queue)
     IN  \/ ec # "ok" /\ conn' = ClearTimer(checkTimeout(Resumed, ec)) /\ UNCHANGED other
         \/ ec = "ok" /\ conn' = ClearTimer(Resumed) /\ other' = "from"
  /\ UNCHANGED <<pipe, got_done, is_suspended>>

\* A chunk of the request goes from sock_from to the server.
Forwarded ==
  [conn EXCEPT !.sent = @ + 1,
     !.served = IF conn.sock # "fin" /\ LastPiece(conn) THEN @ + 1 ELSE @]

\* The kernel may or may not move data.  Linux splices only from or to a pipe,
\* and tees only between two: for a sock_from that is a socket it refuses.
FromMoves ==
  /\ other = "from" /\ conn.sock \in {"alive", "fin", "foul"}
  /\ \/ /\ conn.call = "tee" \/ Forwarded.sent = conn.size
        /\ conn' = End(Forwarded, "building") /\ other' = "none"
     \/ /\ conn.call = "wsplice" /\ Forwarded.sent < conn.size
        /\ \/ StartRoom(Forwarded)
           \/ conn' = Forwarded /\ other' = "from"
  /\ UNCHANGED <<pipe, got_done, is_suspended>>

\* tee() or splice() fails, whatever the connection: an Error, and the request is
\* left half sent on it.  A caller that gives it up may ask again.
FromMeetsError ==
  /\ other = "from" /\ other' = "none"
  /\ conn' = Fouled([Throw(conn, "EXCEPTION") EXCEPT !.cause = "other"])
  /\ UNCHANGED <<pipe, got_done, is_suspended>>

\* The same, or the wait for sock_from fails, and the caller goes on with the
\* request by other means.
FromFails ==
  /\ other = "from" /\ conn' = End(conn, "building") /\ other' = "none"
  /\ UNCHANGED <<pipe, got_done, is_suspended>>

(***************************************************************************)
(* The kernel, for the operations above.                                   *)
(***************************************************************************)
CanSplice ==
  /\ Pending(conn) /\ conn.op = "in"
  /\ conn.body > 0 \/ Broken(conn)
  /\ conn' = Complete(conn, "ok") /\ UNCHANGED relay

CanWrite ==
  /\ Pending(conn) /\ conn.op = "room"
  /\ conn' = Complete(conn, "ok") /\ UNCHANGED relay

(***************************************************************************)
(* WriteRequestDataBarrier() and CoroBarrier.  The write is limited by the *)
(* connection's timer, which its end cancels before anybody has looked at  *)
(* its error.                                                              *)
(***************************************************************************)
WriteRequestDataBarrier ==
  /\ Building /\ conn.sent < conn.size
  /\ conn' = Issue(SetTimer([conn EXCEPT !.call = "barrier", !.outcome = "none"]),
                   "barrier")
  /\ UNCHANGED relay

\* Wrong: a coroutine that is suspended is not resumed.
BarrierDoneSilently ==
  /\ Completes("barrier")
  /\ conn' = [ClearTimer(Resumed) EXCEPT !.sent = IF Head(conn.queue) = "ok" THEN @ + 1 ELSE @]
  /\ got_done' = Head(conn.queue) /\ UNCHANGED <<pipe, other, is_suspended>>

BarrierDone ==
  /\ Completes("barrier")
  /\ conn' = [ClearTimer(Resumed) EXCEPT !.sent = IF Head(conn.queue) = "ok" THEN @ + 1 ELSE @]
  /\ got_done' = Head(conn.queue)
  /\ other' = IF is_suspended THEN "resume" ELSE other
  /\ UNCHANGED <<pipe, is_suspended>>

BarrierEnds ==
  /\ conn' = IF got_done = "ok" THEN End(conn, "building")
             ELSE checkTimeout(conn, got_done)
  /\ other' = "none" /\ got_done' = "none" /\ is_suspended' = FALSE /\ UNCHANGED pipe

BarrierWait ==
  /\ conn.call = "barrier" /\ ~is_suspended
  /\ \/ got_done # "none" /\ BarrierEnds
     \/ got_done = "none" /\ is_suspended' = TRUE /\ UNCHANGED <<conn, pipe, other, got_done>>

BarrierResumes == other = "resume" /\ BarrierEnds

-----------------------------------------------------------------------------
StreamCalls == StreamSpliceData \/ WriteTee \/ WriteSplice \/ WriteRequestDataBarrier
Elsewhere == DestTakes \/ DestTakesBuffer \/ FromMoves \/ FromMeetsError
Relaying == SpliceIn \/ HasRoom \/ BarrierDone
StreamNext ==
  \/ Next /\ UNCHANGED relay
  \/ StreamCalls \/ Relaying \/ Elsewhere \/ DestFull \/ DestFails \/ FromFails
  \/ CanSplice \/ CanWrite \/ BarrierWait \/ BarrierResumes

StreamSpec == StreamInit /\ [][StreamNext]_svars

\* The io_service keeps running and the clock keeps ticking; nothing is asked of
\* the server.  The caller's other socket moves, since nothing limits the wait
\* for it, and the caller waits for its barrier.
StreamFairSpec ==
  /\ StreamSpec
  /\ WF_svars((RunHandler /\ UNCHANGED relay) \/ Relaying)
  /\ WF_svars(TimePasses /\ UNCHANGED relay) /\ WF_svars(CollectTimer /\ UNCHANGED relay)
  /\ SF_svars(Elsewhere) /\ WF_svars(BarrierWait) /\ WF_svars(BarrierResumes)

StreamTypeOK ==
  /\ TypeOK
  /\ pipe \in 0 .. MaxBody /\ other \in {"none", "dest", "out", "from", "resume"}
  /\ got_done \in Results \cup {"none"} /\ is_suspended \in BOOLEAN

\* StreamSpliceData() leaves nothing behind: when it returns the pipe is empty
\* and dest has got the whole body (the assertion at http_conn.cpp:467).
SpliceForwardsAll ==
  [][conn.call = "splice" /\ conn'.outcome = "answered" => pipe' = 0 /\ conn'.left = 0]_svars
=============================================================================
