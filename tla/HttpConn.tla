------------------------------- MODULE HttpConn -------------------------------
(***************************************************************************)
(* HTTP::Conn (src/http_conn.cpp): one keep-alive connection, used by one  *)
(* coroutine, with one timer for whatever the coroutine waits for.         *)
(*                                                                         *)
(* The coroutine runs from one asynchronous operation to the next; here    *)
(* `op' is the one it waits for and `call', `after' and the counters of    *)
(* the retry loops are its place in the code.  Each operator takes the     *)
(* state c of the Conn and returns the next: what a method does up to the  *)
(* next operation, to its return or to the exception that leaves it.  An   *)
(* action is a public call, one completion handler run by the io_service,  *)
(* or something the kernel, the clock or the server does.                  *)
(*                                                                         *)
(* A cancelled wait of the timer does nothing when it is run and is not    *)
(* queued.  The caller reads an answer to its end, or closes, before it    *)
(* asks again, and builds a request by hand in the order headers, data,    *)
(* answer.                                                                 *)
(***************************************************************************)
EXTENDS Naturals, Sequences

CONSTANTS
  max_send_try,  \* attempts at a request
  Nulls,         \* whether a POST's callback ends with a NULL buffer
  MaxData,       \* bound: chunks of the body of a request
  MaxBody        \* bound: chunks of max_read_transfer in a body read

ASSUME TriesPositive == max_send_try \in Nat \ {0, 1}
ASSUME BoundsTyped == Nulls \subseteq BOOLEAN /\ MaxData \in Nat /\ MaxBody \in Nat

VARIABLE conn
vars == <<conn>>

Errors == {"TIMEOUT", "EXCEPTION", "RESPONSE"}
Results == {"ok", "error", "aborted"}

(***************************************************************************)
(* The head of an answer: whether it says Connection: Keep-Alive, its      *)
(* Content-Length, and how much of the body the read that found the end of *)
(* the headers took with it.  A bad one cannot be parsed.                  *)
(***************************************************************************)
NoHead == [kind |-> "none", keep |-> FALSE, length |-> 0, with |-> 0]
BadHead == [NoHead EXCEPT !.kind = "bad"]
Heads == {h \in [kind : {"head"}, keep : BOOLEAN,
                 length : 0 .. MaxBody, with : 0 .. MaxBody] : h.with <= h.length}

NewConn ==
  [sock |-> "closed", must_reconnect |-> TRUE, timer |-> "off", queue |-> <<>>,
   call |-> "none", op |-> "none", after |-> "none", tries |-> 0, post_tries |-> 0,
   size |-> 0, sent |-> 0, null |-> FALSE, can_recall |-> FALSE,
   got |-> NoHead, left |-> 0, count |-> 0,
   due |-> FALSE, inbox |-> NoHead, body |-> 0, owed |-> 0,
   outcome |-> "none", served |-> 0, reply |-> "none", cause |-> "none", bye |-> FALSE]

Init == conn = NewConn

(***************************************************************************)
(* The socket and the timer.  A timer that is "late" has expired but the   *)
(* io_service has yet to notice; one that is "past" has had its handler    *)
(* queued.  A stale "timeout" may be queued whatever the timer is.         *)
(*                                                                         *)
(* An open socket that a call has left in the middle of an exchange, and   *)
(* without must_reconnect, is "foul": bytes of that exchange are on it or  *)
(* are due, so that anything may be read from it, or nothing.              *)
(***************************************************************************)
Pending(c) == c.op # "none" /\ \A i \in DOMAIN c.queue : c.queue[i] \notin Results

Close(c) ==
  IF c.sock = "closed" THEN c
  ELSE [c EXCEPT !.sock = "closed", !.due = FALSE, !.inbox = NoHead,
                 !.body = 0, !.owed = 0,
                 !.queue = IF Pending(c) THEN Append(@, "aborted") ELSE @]

Fouled(c) ==
  IF c.sock \in {"alive", "fin"}
  THEN [c EXCEPT !.sock = "foul", !.reply = "foul", !.due = FALSE, !.inbox = NoHead,
                 !.body = 0, !.owed = 0]
  ELSE c

SetTimer(c) == [c EXCEPT !.timer = "armed"]
ClearTimer(c) == [c EXCEPT !.timer = "off"]
IsTimeout(c) == c.timer \in {"late", "past"}

\* Wrong: the expiry is not read again.
onTimeoutUnchecked(c) == Close(c)

onTimeout(c) == IF IsTimeout(c) THEN Close(c) ELSE c

Issue(c, op) ==
  [c EXCEPT !.op = op,
            !.queue = IF c.sock = "closed" THEN Append(@, "error") ELSE @]

(***************************************************************************)
(* How a call ends.  The two calls that send a request by hand close the   *)
(* connection on their way out of an exception.                            *)
(***************************************************************************)
End(c, outcome) ==
  [c EXCEPT !.call = "none", !.after = "none", !.outcome = outcome,
            !.tries = 0, !.post_tries = 0, !.got = NoHead, !.count = 0,
            !.null = FALSE, !.can_recall = FALSE]

Throw(c, error) ==
  LET d == IF c.call \in {"headers", "data"} THEN Close(c) ELSE c
  IN  [End(d, error) EXCEPT !.left = 0, !.size = 0, !.sent = 0]

Failing(c, ec) == IsTimeout(c) \/ ec = "aborted"
checkTimeout(c, ec) ==
  IF Failing(c, ec) THEN Throw(Close(c), "TIMEOUT") ELSE Throw(c, "EXCEPTION")

(***************************************************************************)
(* checkConnect() and reconnect().  `after' is where the coroutine was.    *)
(***************************************************************************)
\* Wrong: an answer without keep-alive is forgotten.
NeedsConnectIfClosed(c) == c.sock = "closed"

NeedsConnect(c) == c.sock = "closed" \/ c.must_reconnect

StartConnect(c, after) ==
  [SetTimer(Close(c)) EXCEPT !.sock = "connecting", !.op = "connect",
                             !.after = after, !.bye = FALSE, !.reply = "none"]

(***************************************************************************)
(* writeRequest().  A write that fails is tried again on a new connection. *)
(* The timer it sets is left running when it returns or throws.            *)
(***************************************************************************)
\* Wrong: the write has no timeout.
StartWriteUntimed(c) == Issue(c, "write")

StartWrite(c) == Issue(SetTimer(c), "write")

\* Wrong: one attempt too many.
WriteLoopOnceMore(c) ==
  IF c.tries > max_send_try THEN Throw(c, "EXCEPTION")
  ELSE LET d == [c EXCEPT !.tries = @ + 1]
       IN  IF NeedsConnect(d) THEN StartConnect(d, "write") ELSE StartWrite(d)

WriteLoop(c) ==
  IF c.tries = max_send_try THEN Throw(c, "EXCEPTION")
  ELSE LET d == [c EXCEPT !.tries = @ + 1]
       IN  IF NeedsConnect(d) THEN StartConnect(d, "write") ELSE StartWrite(d)

writeRequest(c) == WriteLoop([c EXCEPT !.tries = 0])

WriteAgain(c) ==
  IF c.sock # "closed" THEN StartConnect(c, "retry") ELSE WriteLoop(c)

(***************************************************************************)
(* ReadAnswer(), and what follows it: a call returns its answer, except    *)
(* that DoPostRequest() forgets the one it reads when it is given NULL.    *)
(***************************************************************************)
ReadsBody(c) == c.call \in {"GET", "POST", "answer"}

ReadAnswer(c, after) == Issue(SetTimer([c EXCEPT !.after = after]), "head")
ReadMore(c) == Issue(SetTimer(c), "body")
StartData(c) == Issue(SetTimer(c), "data")
EmptyData(c) == [SetTimer(c) EXCEPT !.op = "data", !.queue = Append(@, "ok")]

GotAnswer(c) ==
  IF c.after = "null" THEN EmptyData([c EXCEPT !.got = NoHead, !.left = 0])
  ELSE End([c EXCEPT !.left = IF c.call = "HEAD" THEN 0 ELSE @,
                     !.size = 0, !.sent = 0], "answered")

\* What follows a head that cannot be parsed stays on the connection.
Unparsed(c) ==
  LET d == Throw(ClearTimer(c), "RESPONSE")
  IN  IF c.body + c.owed > 0 THEN Fouled(d) ELSE d

AfterHead(c, ec) ==
  IF ec # "ok" THEN ClearTimer(checkTimeout(c, ec))
  ELSE IF c.got.kind = "bad" THEN Unparsed(c)
  ELSE LET d == [ClearTimer(c) EXCEPT !.must_reconnect = @ \/ ~c.got.keep,
                                      !.bye = @ \/ ~c.got.keep,
                                      !.left = c.got.length - c.got.with]
       IN  IF ReadsBody(d) /\ d.left > 0 THEN ReadMore(d) ELSE GotAnswer(d)

\* Wrong: the body is taken to come in one piece.
AfterBodyOnce(c, ec) ==
  IF ec # "ok" THEN ClearTimer(checkTimeout(c, ec))
  ELSE GotAnswer([ClearTimer(c) EXCEPT !.left = 0])

\* StreamReadData() reads as ReadAnswer() does; with disable_drain it stops when
\* its callback wants no more (a "peek").
AfterBody(c, ec) ==
  IF ec # "ok" THEN ClearTimer(checkTimeout(c, ec))
  ELSE LET d == [ClearTimer(c) EXCEPT !.left = @ - 1]
       IN  IF d.left > 0 /\ d.call # "peek" THEN ReadMore(d) ELSE GotAnswer(d)

AfterPreload(c, ec) ==
  IF ec # "ok" THEN ClearTimer(checkTimeout(c, ec))
  ELSE End([ClearTimer(c) EXCEPT !.left = @ - c.count], "answered")

(***************************************************************************)
(* DoPostRequest().  The callback gives the chunks of the body in order;   *)
(* it says that it is done with the last one, or with a NULL of length 0   *)
(* after it.  asio completes the empty write of a NULL, or of an empty     *)
(* body, without the socket.  A failed chunk starts the request over if    *)
(* the callback can be recalled.                                           *)
(***************************************************************************)
PostLoop(c) ==
  IF c.post_tries = max_send_try THEN Throw(c, "EXCEPTION")
  ELSE LET d == [c EXCEPT !.post_tries = @ + 1, !.sent = 0]
       IN  IF NeedsConnect(d) THEN StartConnect(d, "post") ELSE writeRequest(d)

getData(c) ==
  IF c.sent < c.size THEN StartData(c)
  ELSE IF c.null THEN ReadAnswer(c, "null") ELSE EmptyData(c)

DataIsDone(c) == c.sent = c.size /\ (c.null => c.after = "null")

PostAgain(c) ==
  IF c.sock # "closed" THEN StartConnect(c, "repost") ELSE PostLoop(c)

AfterData(c, ec) ==
  IF ec = "ok"
  THEN LET d == [c EXCEPT !.sent = IF c.sent = c.size THEN @ ELSE @ + 1]
       IN  CASE c.call = "data" -> End(ClearTimer(d), "building")
             [] c.call = "POST" /\ DataIsDone(d) -> ReadAnswer(d, "return")
             [] OTHER -> getData(d)
  ELSE CASE c.call = "data" -> ClearTimer(checkTimeout(c, ec))
         [] c.call = "POST" /\ Failing(c, ec) -> checkTimeout(c, ec)
         [] c.call = "POST" /\ ~Failing(c, ec) /\ ~c.can_recall ->
              Throw(ClearTimer(c), "EXCEPTION")
         [] OTHER -> PostAgain([ClearTimer(c) EXCEPT !.after = "none"])

(***************************************************************************)
(* Where the coroutine goes on when a write, a wait for the answer's first *)
(* byte or a connection is over.                                           *)
(***************************************************************************)
AfterWrite(c, ec) ==
  IF ec = "ok"
  THEN CASE c.call = "POST" -> getData([c EXCEPT !.after = "none"])
         [] c.call = "headers" -> End(c, "building")
         [] OTHER -> Issue(SetTimer(c), "wait")
  ELSE IF Failing(c, ec) THEN checkTimeout(c, ec) ELSE WriteAgain(ClearTimer(c))

\* Wrong: a request that could not be waited for is sent again.
AfterWaitRetrying(c, ec) ==
  IF ec = "ok" THEN ReadAnswer(c, "return")
  ELSE IF Failing(c, ec) THEN checkTimeout(c, ec) ELSE WriteAgain(ClearTimer(c))

AfterWait(c, ec) ==
  IF ec = "ok" THEN ReadAnswer(c, "return") ELSE checkTimeout(c, ec)

\* Wrong: a POST goes on with its body on the new connection.
AfterConnectResuming(c, ec) ==
  IF ec # "ok" THEN ClearTimer(checkTimeout(c, ec))
  ELSE LET d == [ClearTimer(c) EXCEPT !.must_reconnect = FALSE, !.after = "none"]
       IN  CASE c.after = "write"  -> StartWrite(d)
             [] c.after = "retry"  -> WriteLoop(d)
             [] c.after = "post"   -> writeRequest(d)
             [] c.after = "repost" -> getData(d)
             [] c.after = "user"   -> End(d, "connected")

AfterConnect(c, ec) ==
  IF ec # "ok" THEN ClearTimer(checkTimeout(c, ec))
  ELSE LET d == [ClearTimer(c) EXCEPT !.must_reconnect = FALSE, !.after = "none"]
       IN  CASE c.after = "write"  -> StartWrite(d)
             [] c.after = "retry"  -> WriteLoop(d)
             [] c.after = "post"   -> writeRequest(d)
             [] c.after = "repost" -> PostLoop(d)
             [] c.after = "user"   -> End(d, "connected")

\* HttpStreams goes on after the other operations.
OwnOps == {"connect", "write", "wait", "head", "body", "data", "preload"}
Resume(c, ec) ==
  LET d == [c EXCEPT !.op = "none"]
  IN  CASE c.op = "connect" -> AfterConnect(d, ec)
        [] c.op = "write"   -> AfterWrite(d, ec)
        [] c.op = "wait"    -> AfterWait(d, ec)
        [] c.op = "head"    -> AfterHead(d, ec)
        [] c.op = "body"    -> AfterBody(d, ec)
        [] c.op = "data"    -> AfterData(d, ec)
        [] c.op = "preload" -> AfterPreload(d, ec)

(***************************************************************************)
(* The caller.  `cause' is the reason a request has to fail.  It may have  *)
(* one before it starts: "dropped" if the server has shut the connection   *)
(* it is to be written on, "foul" if an earlier call has left that foul.   *)
(* Any other has come since.                                               *)
(***************************************************************************)
Idle == conn.call = "none" /\ conn.left = 0 /\ conn.outcome # "building"

Begin(call) ==
  [conn EXCEPT !.call = call, !.outcome = "none", !.served = 0,
               !.reply = IF conn.sock = "foul" THEN "foul" ELSE "none",
               !.cause = IF conn.must_reconnect \/ conn.sock \notin {"fin", "foul"}
                         THEN "none"
                         ELSE IF conn.sock = "fin" THEN "dropped" ELSE "foul"]

SimpleRequest ==
  /\ Idle
  /\ \E call \in {"GET", "HEAD", "open"} : conn' = writeRequest(Begin(call))

Post ==
  /\ Idle
  /\ \E size \in 0 .. MaxData, null \in Nulls, can_recall \in BOOLEAN :
       conn' = PostLoop([Begin("POST") EXCEPT !.size = size, !.null = null,
                                              !.can_recall = can_recall])

WriteRequestHeaders ==
  /\ Idle
  /\ \E size \in 0 .. MaxData :
       conn' = writeRequest([Begin("headers") EXCEPT !.size = size])

Building == conn.call = "none" /\ conn.outcome = "building"

WriteRequestData ==
  /\ Building /\ conn.sent < conn.size
  /\ conn' = StartData([conn EXCEPT !.call = "data", !.outcome = "none"])

AskAnswer ==
  /\ Building /\ conn.sent = conn.size
  /\ conn' = ReadAnswer([conn EXCEPT !.call = "answer", !.outcome = "none"], "return")

\* It returns at once if read_buf has as much as is asked for.
PreloadBytes ==
  /\ conn.call = "none" /\ conn.left > 0
  /\ \/ conn' = [conn EXCEPT !.outcome = "answered"]
     \/ \E count \in 1 .. conn.left :
          conn' = Issue(SetTimer([conn EXCEPT !.call = "preload", !.outcome = "none",
                                              !.count = count]), "preload")

StreamReadData ==
  /\ conn.call = "none" /\ conn.left > 0
  /\ \E call \in {"stream", "peek"} :
       conn' = ReadMore([conn EXCEPT !.call = call, !.outcome = "none"])

Reconnect ==
  /\ Idle
  /\ conn' = StartConnect(Begin("connect"), "user")

UserClose ==
  /\ conn.call = "none" /\ conn.sock # "closed"
  /\ conn' = [Close(conn) EXCEPT !.left = 0, !.size = 0, !.sent = 0,
                                 !.outcome = "none"]

\* Wrong: the timer is left alone.
DestroyQuietly ==
  /\ conn.call = "none"
  /\ conn' = [Close(conn) EXCEPT !.call = "gone", !.left = 0,
                !.size = 0, !.sent = 0, !.outcome = "none", !.cause = "none"]

Destroy ==
  /\ conn.call = "none"
  /\ conn' = [ClearTimer(Close(conn)) EXCEPT !.call = "gone", !.left = 0,
                !.size = 0, !.sent = 0, !.outcome = "none", !.cause = "none"]

Create ==
  /\ conn.call = "gone" /\ conn.queue = <<>>
  /\ conn' = NewConn

(***************************************************************************)
(* The io_service.                                                         *)
(***************************************************************************)
RunHandler ==
  /\ conn.queue # <<>>
  /\ LET next == Head(conn.queue)
         rest == [conn EXCEPT !.queue = Tail(@)]
     IN  \/ next = "timeout" /\ conn' = onTimeout(rest)
         \/ next # "timeout" /\ conn.op \in OwnOps /\ conn' = Resume(rest, next)

TimePasses ==
  /\ conn.timer = "armed"
  /\ conn' = [conn EXCEPT !.timer = "late", !.cause = "other"]

CollectTimer ==
  /\ conn.timer = "late"
  /\ conn' = [conn EXCEPT !.timer = "past", !.queue = Append(@, "timeout")]

(***************************************************************************)
(* The kernel completes the operation the coroutine waits for.             *)
(***************************************************************************)
Complete(c, result) == [c EXCEPT !.queue = Append(@, result)]
Broken(c) == c.sock \in {"fin", "reset", "refused", "foul"}

ConnectOk ==
  /\ Pending(conn) /\ conn.op = "connect"
  /\ conn' = [Complete(conn, "ok") EXCEPT !.sock = "alive"]

ConnectFails ==
  /\ Pending(conn) /\ conn.op = "connect"
  /\ conn' = [Complete(conn, "error") EXCEPT !.sock = "refused", !.cause = "other"]

Writes == {"write", "data", "barrier"}

\* The server has the whole request when the last piece of it is written.
LastPiece(c) == IF c.op = "write" THEN c.size = 0 ELSE c.sent + 1 = c.size

\* A request written on a foul connection counts as served too, whatever the
\* server makes of it; no answer is due to it.
WriteOk ==
  /\ Pending(conn) /\ conn.op \in Writes
  /\ conn.sock \in {"alive", "fin", "foul"}
  /\ LET asks == conn.sock = "alive" /\ conn.op = "write"
     IN  conn' = [Complete(conn, "ok") EXCEPT
                    !.due = @ \/ asks,
                    !.reply = IF asks THEN "asked" ELSE @,
                    !.served = IF conn.sock # "fin" /\ LastPiece(conn) THEN @ + 1 ELSE @]

WriteFails ==
  /\ Pending(conn) /\ conn.op \in Writes
  /\ conn.sock \in {"reset", "refused", "foul"}
  /\ conn' = Complete(conn, "error")

Readable ==
  /\ Pending(conn) /\ conn.op = "wait"
  /\ conn.inbox # NoHead \/ Broken(conn)
  /\ conn' = Complete(conn, "ok")

ReadHead ==
  /\ Pending(conn) /\ conn.op = "head" /\ conn.inbox # NoHead
  /\ conn' = [Complete(conn, "ok") EXCEPT !.got = conn.inbox, !.inbox = NoHead]

Wanted(c) == IF c.op = "body" THEN 1 ELSE c.count

ReadBody ==
  /\ Pending(conn) /\ conn.op \in {"body", "preload"} /\ conn.body >= Wanted(conn)
  /\ conn' = [Complete(conn, "ok") EXCEPT !.body = @ - Wanted(conn)]

ReadFails ==
  /\ Pending(conn) /\ Broken(conn)
  /\ \/ conn.op = "head" /\ conn.inbox = NoHead
     \/ conn.op \in {"body", "preload"} /\ conn.body < Wanted(conn)
  /\ conn' = [Complete(conn, "error") EXCEPT !.body = 0]

ReadFoul ==
  /\ Pending(conn) /\ conn.sock = "foul"
  /\ \/ conn.op = "head" /\ \E h \in Heads \cup {BadHead} :
                              conn' = [Complete(conn, "ok") EXCEPT !.got = h]
     \/ conn.op \in {"body", "preload"} /\ conn' = Complete(conn, "ok")

(***************************************************************************)
(* The server.  It may answer as soon as it has the request line, sends    *)
(* the body of an answer bit by bit, and may shut or reset the connection  *)
(* at any time.  It resets one it has shut when more arrives.              *)
(***************************************************************************)
Serve ==
  /\ conn.sock = "alive" /\ conn.due
  /\ \E h \in Heads :
       /\ conn.call = "HEAD" => h.with = 0
       /\ conn' = [conn EXCEPT !.due = FALSE, !.inbox = h, !.reply = "given",
                     !.owed = IF conn.call = "HEAD" THEN 0 ELSE h.length - h.with]

\* The connection does not know how much follows a head that it cannot parse.
ServeBadly ==
  /\ conn.sock = "alive" /\ conn.due
  /\ \E rest \in 0 .. MaxBody :
       conn' = [conn EXCEPT !.due = FALSE, !.inbox = BadHead, !.reply = "given",
                            !.cause = "other", !.owed = rest]

SendBody ==
  /\ conn.sock = "alive" /\ conn.owed > 0
  /\ conn' = [conn EXCEPT !.owed = @ - 1, !.body = @ + 1]

Shut ==
  /\ conn.sock = "alive"
  /\ conn' = [conn EXCEPT !.sock = "fin", !.cause = "other", !.due = FALSE, !.owed = 0]

Reset ==
  /\ conn.sock \in {"alive", "fin"}
  /\ conn' = [conn EXCEPT !.sock = "reset", !.due = FALSE, !.owed = 0,
                          !.cause = IF conn.sock = "alive" THEN "other" ELSE @]

User == SimpleRequest \/ Post \/ WriteRequestHeaders \/ WriteRequestData \/ AskAnswer
          \/ PreloadBytes \/ StreamReadData \/ Reconnect \/ UserClose \/ Destroy \/ Create
Kernel == ConnectOk \/ ConnectFails \/ WriteOk \/ WriteFails \/ Readable
            \/ ReadHead \/ ReadBody \/ ReadFails \/ ReadFoul
Server == Serve \/ ServeBadly \/ SendBody \/ Shut \/ Reset

Next == User \/ RunHandler \/ TimePasses \/ CollectTimer \/ Kernel \/ Server

Spec == Init /\ [][Next]_vars

-----------------------------------------------------------------------------
(***************************************************************************)
(* What the connection must guarantee.                                     *)
(***************************************************************************)

\* The type of the state; at most three handlers are ever queued.
TypeOK ==
  /\ conn \in [sock : {"closed", "connecting", "alive", "fin", "reset", "refused", "foul"},
       must_reconnect : BOOLEAN, timer : {"off", "armed", "late", "past"},
       queue : Seq(Results \cup {"timeout"}),
       call : {"none", "gone", "GET", "HEAD", "open", "POST", "headers", "data",
               "answer", "preload", "stream", "peek", "connect",
               "barrier", "tee", "wsplice", "splice"},
       op : OwnOps \cup {"none", "barrier", "room", "in"},
       after : {"none", "write", "retry", "post", "repost", "user", "return", "null"},
       tries : 0 .. max_send_try, post_tries : 0 .. max_send_try,
       size : 0 .. MaxData, sent : 0 .. MaxData, null : BOOLEAN, can_recall : BOOLEAN,
       got : Heads \cup {NoHead, BadHead}, left : 0 .. MaxBody,
       count : 0 .. MaxBody, due : BOOLEAN, inbox : Heads \cup {NoHead, BadHead},
       body : 0 .. MaxBody, owed : 0 .. MaxBody,
       outcome : Errors \cup {"none", "building", "answered", "connected", "unforwarded"},
       served : Nat, reply : {"none", "asked", "given", "foul"},
       cause : {"none", "dropped", "foul", "other"}, bye : BOOLEAN]
  /\ Len(conn.queue) <= 3

\* A coroutine never waits without a limit: whatever it waits for, the timer is
\* running or has expired with its handler queued (http_conn.cpp:109, :119).
Timed ==
  Pending(conn) =>
    \/ conn.timer \in {"armed", "late"}
    \/ conn.timer = "past" /\ \E i \in DOMAIN conn.queue : conn.queue[i] = "timeout"

\* A request is only ever written on a connection with nothing of an earlier
\* exchange on it: no answer still owed or unread, whatever timed out, failed
\* or was read in part before (http_conn.cpp:119, :129, :309).  Not so on a
\* "foul" one: WriteTee(), WriteSplice() and a head that cannot be parsed throw
\* and leave the connection open as it is (:295, :534, :548).  The property is
\* that nothing else does.
CleanReuse ==
  conn.op = "write" /\ Pending(conn) /\ conn.sock = "alive" =>
    ~conn.due /\ conn.inbox = NoHead /\ conn.body = 0 /\ conn.owed = 0

\* The caller sees an exchange: HttpExchange says which. A request is never put
\* twice to a server that has got it, and an answer that is returned was given
\* to this request on this connection, through all retries (http_conn.cpp:236,
\* :181, :264), unless an earlier call has thrown and left the connection foul.
Asking ==
  \/ conn.call \in {"GET", "HEAD", "open", "POST", "headers", "data", "answer",
                    "barrier", "tee", "wsplice"}
  \/ conn.call = "none" /\ conn.outcome = "building"
Exchange == INSTANCE HttpExchange WITH
  asking <- Asking, reply <- conn.reply, served <- conn.served,
  answered <- ~Asking /\ conn.outcome = "answered"
ImplementsExchange == Exchange!Spec

\* A connection whose server did not grant keep-alive carries no other request
\* (http_conn.cpp:82, :306; test/10_http.cpp:31).
NotReused == conn.op = "write" => ~conn.bye

\* The server gets the whole of a request at most once, however many times the
\* loops of writeRequest() and DoPostRequest() try (http_conn.cpp:236, :181).
AtMostOnce == conn.served <= 1

\* A request fails only if, since it began, the server, the network or a call of
\* the kernel has failed it or a timer has run out (also the one writeRequest()
\* leaves running when the headers are written); or if it was written on a
\* connection that the server had shut before (KeepAliveDropRetried below) or an
\* earlier call had left foul.  A timeout queued for an earlier request, a socket
\* that was reset or refused, and one that was closed do not fail it
\* (http_conn.cpp:119, :82, :256).
Recovers == conn.outcome \in Errors => conn.cause # "none"

\* The handler of a timeout that was queued when the Conn was destroyed does
\* not touch it (http_conn.cpp:78, the comment at :120).
DeadUntouched == conn.call = "gone" /\ conn.queue # <<>> => ~IsTimeout(conn)

\* ReadAnswer() waits only for an answer that was asked for and not read yet,
\* except after a NULL (http_conn.cpp:264, and the property below).
Owed == conn.due \/ conn.inbox # NoHead
AnswerIsOwed ==
  conn.op = "head" /\ Pending(conn) /\ conn.sock = "alive" => Owed \/ conn.null

\* "Proxying finishes when *buf is NULL" (lib/http_conn.hpp:69): the answer to a
\* POST is read once, also when its callback ends it by a NULL
\* (http_conn.cpp:202).
NullEndsPost ==
  conn.op = "head" /\ Pending(conn) /\ conn.sock = "alive" => Owed

\* "auto-rectonnection on keep-alive drop" (lib/http_conn.hpp:31): a request that
\* could be sent again does not fail because the server had shut the idle
\* connection before it (http_conn.cpp:248).
KeepAliveDropRetried ==
  [][conn.call \in {"GET", "HEAD", "open"} /\ conn'.outcome \in Errors
       => conn'.cause # "dropped"]_vars

\* Every call returns or throws, whatever the server does (the fairness is in
\* HttpStreams).
RequestEnds == conn.call \notin {"none", "gone"} ~> conn.call \in {"none", "gone"}
=============================================================================
