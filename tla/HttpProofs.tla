------------------------------- MODULE HttpProofs -------------------------------
(***************************************************************************)
(* Proofs about HTTP::Conn, with the calls of HttpStreams, for any number  *)
(* of attempts, sizes of bodies and of the pipe.                           *)
(*                                                                         *)
(* Two inductive invariants, of the state between two handlers.  ConnOK    *)
(* is of the timer and of keep-alive: a wait is always timed, and a        *)
(* connection that was not kept alive carries no other request.  While the *)
(* coroutine runs it waits for nothing (Ready), so each method is shown to *)
(* lead from the one to the other, or to keep the other.                   *)
(*                                                                         *)
(* WorkOK, in the second half, is of the request: for each operation that  *)
(* may be waited for, what the server has of the request and the           *)
(* connection holds of the answer (Place).  While the coroutine runs       *)
(* (Running) the queue holds no result; Goes(c, d) says that it gets from  *)
(* c to a state d that is sound again, and what the caller sees of that.   *)
(***************************************************************************)
EXTENDS HttpStreams, SequenceTheorems, TLAPS

Handlers == Results \cup {"timeout"}
TimeoutQueued(c) == \E i \in DOMAIN c.queue : c.queue[i] = "timeout"
IsConn(c) == DOMAIN c = DOMAIN NewConn /\ c = [f \in DOMAIN c |-> c[f]] /\ c.queue \in Seq(Handlers)

TimedOK(c) ==
  Pending(c) => /\ c.sock # "closed"
                /\ \/ c.timer \in {"armed", "late"}
                   \/ c.timer = "past" /\ TimeoutQueued(c)
ByeOK(c) == c.bye = TRUE => c.must_reconnect = TRUE
WriteOK(c) == c.op \in {"write", "connect"} => c.bye # TRUE

\* What is waited for, and in which call.
Afters == {"write", "retry", "post", "repost", "user"}
CallFits(op, call) ==
  /\ call \notin {"none", "gone"}
  /\ op = "in" => call = "splice"
  /\ op = "room" => call \in {"tee", "wsplice"}
  /\ op = "barrier" => call = "barrier"
OpOK(c) ==
  /\ c.op # "none" => CallFits(c.op, c.call)
  /\ c.op = "connect" => c.after \in Afters
  /\ c.call = "gone" => c.timer = "off"

ConnOK(c) == IsConn(c) /\ TimedOK(c) /\ ByeOK(c) /\ WriteOK(c) /\ OpOK(c)

\* A call that runs, or that has just returned.
Over(c) == IsConn(c) /\ c.op = "none" /\ ByeOK(c) /\ c.call # "gone"
Ready(c) == Over(c) /\ c.call # "none"

LEMMA Fields ==
  /\ {"sock", "must_reconnect", "timer", "queue", "call", "op", "after", "bye", "tries",
      "sent", "size", "left", "count", "got", "post_tries", "null", "can_recall", "outcome",
      "body", "owed", "due", "inbox", "reply", "cause", "served"} \subseteq DOMAIN NewConn
  BY DEF NewConn

LEMMA OverOK == ASSUME NEW c, Over(c) PROVE ConnOK(c)
  BY DEF Over, ConnOK, TimedOK, WriteOK, OpOK, Pending

LEMMA ReadyOver == ASSUME NEW c, Ready(c) PROVE Over(c)
  BY DEF Ready

LEMMA SetTimerReady ==
  ASSUME NEW c, Ready(c) PROVE Ready(SetTimer(c)) /\ SetTimer(c).timer = "armed"
                               /\ SetTimer(c).bye = c.bye /\ SetTimer(c).call = c.call
  BY Fields DEF Ready, Over, IsConn, ByeOK, SetTimer

LEMMA ClearTimerReady ==
  ASSUME NEW c
  PROVE  /\ Over(c) => Over(ClearTimer(c))
         /\ Ready(c) => /\ Ready(ClearTimer(c)) /\ ClearTimer(c).bye = c.bye
                        /\ ClearTimer(c).after = c.after
  BY Fields DEF Ready, Over, IsConn, ByeOK, ClearTimer

LEMMA AppendHandler ==
  ASSUME NEW q \in Seq(Handlers), NEW h \in Handlers
  PROVE  /\ Append(q, h) \in Seq(Handlers)
         /\ \E i \in DOMAIN Append(q, h) : Append(q, h)[i] = h
         /\ \A i \in DOMAIN q : i \in DOMAIN Append(q, h) /\ Append(q, h)[i] = q[i]
         /\ \A i \in DOMAIN Append(q, h) : i \in DOMAIN q \/ Append(q, h)[i] = h
<1> DEFINE a == Append(q, h)
<1>1. /\ a \in Seq(Handlers) /\ Len(q) \in Nat /\ DOMAIN q = 1..Len(q)
      /\ DOMAIN a = 1..(Len(q) + 1)
      /\ a[Len(q) + 1] = h /\ \A k \in 1..Len(q) : a[k] = q[k]
  BY AppendProperties
<1> HIDE DEF a
<1>2. Len(q) + 1 \in DOMAIN a BY <1>1
<1>3. \A i \in DOMAIN a : i \in DOMAIN q \/ i = Len(q) + 1 BY <1>1
<1>4. \A i \in DOMAIN q : i \in DOMAIN a /\ a[i] = q[i] BY <1>1
<1> QED BY <1>1, <1>2, <1>3, <1>4 DEF a

\* An operation that is issued on a closed socket has ended already.
LEMMA IssueOK ==
  ASSUME NEW c, Ready(c), NEW op, op # "write" \/ c.bye # TRUE,
         op # "connect", CallFits(op, c.call)
  PROVE  ConnOK(Issue(SetTimer(c), op))
<1> DEFINE s == SetTimer(c)
           d == Issue(s, op)
<1>1. Ready(s) /\ s.timer = "armed" /\ s.bye = c.bye /\ s.call = c.call BY SetTimerReady
<1> HIDE DEF s
<1>2. /\ d.op = op /\ d.timer = "armed" /\ d.sock = s.sock /\ d.bye = s.bye /\ d.call = s.call
      /\ d.must_reconnect = s.must_reconnect
      /\ d.queue = IF s.sock = "closed" THEN Append(s.queue, "error") ELSE s.queue
      /\ DOMAIN d = DOMAIN NewConn /\ d = [f \in DOMAIN d |-> d[f]]
  BY <1>1, Fields DEF Ready, Over, IsConn, Issue
<1>3. s.queue \in Seq(Handlers) /\ "error" \in Handlers /\ "error" \in Results
  BY <1>1 DEF Ready, Over, IsConn, Handlers, Results
<1> HIDE DEF d
<1>4. d.queue \in Seq(Handlers) BY <1>2, <1>3, AppendHandler
<1>5. s.sock = "closed" => ~Pending(d) BY <1>2, <1>3, AppendHandler DEF Pending
<1> QED BY <1>1, <1>2, <1>4, <1>5
  DEF ConnOK, IsConn, TimedOK, ByeOK, WriteOK, OpOK, CallFits, Ready, Over, d, s

\* Most operations are of any call.
LEMMA IssueOwn ==
  ASSUME NEW c, Ready(c), NEW op, op # "write" \/ c.bye # TRUE,
         op \in {"write", "wait", "head", "body", "data", "preload"}
  PROVE  ConnOK(Issue(SetTimer(c), op))
<1>1. CallFits(op, c.call) /\ op # "connect" BY DEF CallFits, Ready, Over
<1> QED BY <1>1, IssueOK

-------------------------------------------------------------------------------
(***************************************************************************)
(* What leaves the coroutine running.                                      *)
(***************************************************************************)
LEMMA CloseReady ==
  ASSUME NEW c, Over(c)
  PROVE  Over(Close(c)) /\ Close(c).bye = c.bye /\ Close(c).call = c.call
<1>1. ~Pending(c) BY DEF Over, Pending
<1> QED BY <1>1, Fields DEF Over, IsConn, ByeOK, Close

LEMMA EndOver ==
  ASSUME NEW c, Over(c), NEW outcome PROVE Over(End(c, outcome))
  BY Fields DEF Over, IsConn, ByeOK, End

LEMMA ThrowOver ==
  ASSUME NEW c, Over(c), NEW error PROVE Over(Throw(c, error))
<1> DEFINE t == Throw(c, error)
           d == End(IF c.call \in {"headers", "data"} THEN Close(c) ELSE c, error)
<1>1. Over(d) BY CloseReady, EndOver
<1>2. t = [d EXCEPT !.left = 0, !.size = 0, !.sent = 0] BY DEF Throw
<1> HIDE DEF d, t
<1>3. Over(t) BY <1>1, <1>2, Fields DEF Over, IsConn, ByeOK
<1> QED BY <1>3 DEF t

LEMMA FouledOver ==
  ASSUME NEW c, Over(c) PROVE Over(Fouled(c))
  BY Fields DEF Over, IsConn, ByeOK, Fouled

LEMMA CausedOver ==
  ASSUME NEW c, Over(c), NEW cause PROVE Over([c EXCEPT !.cause = cause])
  BY Fields DEF Over, IsConn, ByeOK

LEMMA checkTimeoutOver ==
  ASSUME NEW c, Over(c), NEW ec PROVE Over(checkTimeout(c, ec))
  BY CloseReady, ThrowOver DEF checkTimeout

LEMMA FailedOK ==
  ASSUME NEW c, Ready(c), NEW ec
  PROVE  ConnOK(checkTimeout(c, ec)) /\ ConnOK(ClearTimer(checkTimeout(c, ec)))
  BY checkTimeoutOver, ClearTimerReady, ReadyOver, OverOK

LEMMA EndsOK ==
  ASSUME NEW c, Ready(c)
  PROVE  \A outcome : ConnOK(End(c, outcome)) /\ ConnOK(Throw(c, outcome))
  BY EndOver, ThrowOver, ReadyOver, OverOK

LEMMA FoulOK ==
  ASSUME NEW c, Ready(c)
  PROVE  /\ ConnOK(Unparsed(c)) /\ ConnOK(Refused(c))
         /\ ConnOK(Fouled([Throw(c, "EXCEPTION") EXCEPT !.cause = "other"]))
<1> DEFINE t == Throw(ClearTimer(c), "RESPONSE")
           e == End(c, "EXCEPTION")
           f == Throw(c, "EXCEPTION")
<1>1. Over(t) /\ Over(e) /\ Over(f) BY ClearTimerReady, ReadyOver, ThrowOver, EndOver
<1>2. /\ Unparsed(c) = IF c.body + c.owed > 0 THEN Fouled(t) ELSE t
      /\ Refused(c) = [e EXCEPT !.cause = "other"]
  BY DEF Unparsed, Refused
<1> HIDE DEF t, e, f
<1>3. Over(Fouled(t)) /\ Over([e EXCEPT !.cause = "other"]) BY <1>1, FouledOver, CausedOver
<1>5. Over(Unparsed(c)) BY <1>1, <1>2, <1>3
<1>6. Over(Refused(c)) BY <1>2, <1>3
<1>4. Over(Fouled([f EXCEPT !.cause = "other"])) BY <1>1, FouledOver, CausedOver
<1> QED BY <1>4, <1>5, <1>6, OverOK DEF f

(***************************************************************************)
(* What leaves it waiting, or running.                                     *)
(***************************************************************************)
LEMMA StartConnectOK ==
  ASSUME NEW c, Ready(c), NEW after \in Afters PROVE ConnOK(StartConnect(c, after))
<1> DEFINE s == SetTimer(Close(c))
           d == StartConnect(c, after)
<1>1. Ready(s) /\ s.timer = "armed" BY CloseReady, SetTimerReady DEF Ready
<1>2. d = [s EXCEPT !.sock = "connecting", !.op = "connect", !.after = after,
                    !.bye = FALSE, !.reply = "none"]
  BY DEF StartConnect
<1> HIDE DEF s, d
<1>3. /\ IsConn(d) /\ d.sock = "connecting" /\ d.timer = "armed" /\ d.bye = FALSE
      /\ d.op = "connect" /\ d.after = after /\ d.call = s.call
  BY <1>1, <1>2, Fields DEF Ready, Over, IsConn
<1> QED BY <1>1, <1>3 DEF ConnOK, TimedOK, ByeOK, WriteOK, OpOK, CallFits, Ready, Over, d

LEMMA StartConnectAny ==
  ASSUME NEW c, Ready(c)
  PROVE  /\ ConnOK(StartConnect(c, "write")) /\ ConnOK(StartConnect(c, "retry"))
         /\ ConnOK(StartConnect(c, "post")) /\ ConnOK(StartConnect(c, "repost"))
         /\ ConnOK(StartConnect(c, "user"))
  BY StartConnectOK DEF Afters

LEMMA WriteLoopOK ==
  ASSUME NEW c, Ready(c) PROVE ConnOK(WriteLoop(c))
<1> DEFINE d == [c EXCEPT !.tries = @ + 1]
<1>1. Ready(d) BY Fields DEF Ready, Over, IsConn, ByeOK
<1>2. WriteLoop(c) = IF c.tries = max_send_try THEN Throw(c, "EXCEPTION")
                     ELSE IF NeedsConnect(d) THEN StartConnect(d, "write") ELSE StartWrite(d)
  BY DEF WriteLoop
<1> HIDE DEF d
<1>3. ~NeedsConnect(d) => d.bye # TRUE BY <1>1 DEF NeedsConnect, Ready, Over, ByeOK
<1>4. ~NeedsConnect(d) => ConnOK(StartWrite(d)) BY <1>1, <1>3, IssueOwn DEF StartWrite
<1> QED BY <1>1, <1>2, <1>4, StartConnectAny, EndsOK

LEMMA writeRequestOK ==
  ASSUME NEW c, Ready(c) PROVE ConnOK(writeRequest(c))
<1>1. Ready([c EXCEPT !.tries = 0]) BY Fields DEF Ready, Over, IsConn, ByeOK
<1> QED BY <1>1, WriteLoopOK DEF writeRequest

LEMMA PostLoopOK ==
  ASSUME NEW c, Ready(c) PROVE ConnOK(PostLoop(c))
<1> DEFINE d == [c EXCEPT !.post_tries = @ + 1, !.sent = 0]
<1>1. Ready(d) BY Fields DEF Ready, Over, IsConn, ByeOK
<1>2. PostLoop(c) = IF c.post_tries = max_send_try THEN Throw(c, "EXCEPTION")
                    ELSE IF NeedsConnect(d) THEN StartConnect(d, "post") ELSE writeRequest(d)
  BY DEF PostLoop
<1> HIDE DEF d
<1> QED BY <1>1, <1>2, StartConnectAny, writeRequestOK, EndsOK

LEMMA ReadOK ==
  ASSUME NEW c, Ready(c)
  PROVE  /\ \A after : ConnOK(ReadAnswer(c, after))
         /\ ConnOK(ReadMore(c)) /\ ConnOK(StartData(c))
<1>1. \A after : Ready([c EXCEPT !.after = after]) BY Fields DEF Ready, Over, IsConn, ByeOK
<1> QED BY <1>1, IssueOwn DEF ReadAnswer, ReadMore, StartData

\* The empty write, which has ended when it is issued.
LEMMA EmptyDataOK ==
  ASSUME NEW c, Ready(c) PROVE ConnOK(EmptyData(c))
<1> DEFINE s == SetTimer(c)
           d == EmptyData(c)
<1>1. Ready(s) BY SetTimerReady
<1>2. d = [s EXCEPT !.op = "data", !.queue = Append(@, "ok")] BY DEF EmptyData
<1> HIDE DEF s, d
<1>3. s.queue \in Seq(Handlers) /\ "ok" \in Handlers /\ "ok" \in Results
  BY <1>1 DEF Ready, Over, IsConn, Handlers, Results
<1>4. /\ DOMAIN d = DOMAIN NewConn /\ d = [f \in DOMAIN d |-> d[f]]
      /\ d.queue = Append(s.queue, "ok") /\ d.op = "data"
      /\ d.call = s.call /\ d.bye = s.bye /\ d.must_reconnect = s.must_reconnect
  BY <1>1, <1>2, Fields DEF Ready, Over, IsConn
<1>5. d.queue \in Seq(Handlers) /\ ~Pending(d) BY <1>3, <1>4, AppendHandler DEF Pending
<1> QED BY <1>1, <1>4, <1>5
  DEF ConnOK, IsConn, TimedOK, ByeOK, WriteOK, OpOK, CallFits, Ready, Over, d

LEMMA GotAnswerOK ==
  ASSUME NEW c, Ready(c) PROVE ConnOK(GotAnswer(c))
<1> DEFINE d == [c EXCEPT !.got = NoHead, !.left = 0]
           e == [c EXCEPT !.left = IF c.call = "HEAD" THEN 0 ELSE @, !.size = 0, !.sent = 0]
<1>1. Ready(d) /\ Ready(e) BY Fields DEF Ready, Over, IsConn, ByeOK
<1>2. GotAnswer(c) = IF c.after = "null" THEN EmptyData(d) ELSE End(e, "answered")
  BY DEF GotAnswer
<1> HIDE DEF d, e
<1> QED BY <1>1, <1>2, EmptyDataOK, EndsOK

-------------------------------------------------------------------------------
(***************************************************************************)
(* Where the coroutine goes on.                                            *)
(***************************************************************************)
LEMMA AfterHeadOK ==
  ASSUME NEW c, Ready(c), NEW ec PROVE ConnOK(AfterHead(c, ec))
<1> DEFINE t == ClearTimer(c)
           d == [t EXCEPT !.must_reconnect = @ \/ ~c.got.keep, !.bye = @ \/ ~c.got.keep,
                          !.left = c.got.length - c.got.with]
<1>1. Ready(t) BY ClearTimerReady
<1>2. AfterHead(c, ec) =
        IF ec # "ok" THEN ClearTimer(checkTimeout(c, ec))
        ELSE IF c.got.kind = "bad" THEN Unparsed(c)
        ELSE IF ReadsBody(d) /\ d.left > 0 THEN ReadMore(d) ELSE GotAnswer(d)
  BY DEF AfterHead
<1> HIDE DEF t
<1>3. Ready(d) BY <1>1, Fields DEF Ready, Over, IsConn, ByeOK
<1> HIDE DEF d
<1> QED BY <1>1, <1>2, <1>3, FailedOK, FoulOK, ReadOK, GotAnswerOK

LEMMA AfterBodyOK ==
  ASSUME NEW c, Ready(c), NEW ec PROVE ConnOK(AfterBody(c, ec))
<1> DEFINE t == ClearTimer(c)
           d == [t EXCEPT !.left = @ - 1]
<1>1. Ready(t) BY ClearTimerReady
<1>2. AfterBody(c, ec) =
        IF ec # "ok" THEN ClearTimer(checkTimeout(c, ec))
        ELSE IF d.left > 0 /\ d.call # "peek" THEN ReadMore(d) ELSE GotAnswer(d)
  BY DEF AfterBody
<1> HIDE DEF t
<1>3. Ready(d) BY <1>1, Fields DEF Ready, Over, IsConn, ByeOK
<1> HIDE DEF d
<1> QED BY <1>2, <1>3, FailedOK, ReadOK, GotAnswerOK

LEMMA AfterPreloadOK ==
  ASSUME NEW c, Ready(c), NEW ec PROVE ConnOK(AfterPreload(c, ec))
<1> DEFINE t == ClearTimer(c)
           d == [t EXCEPT !.left = @ - c.count]
<1>1. Ready(t) BY ClearTimerReady
<1>2. AfterPreload(c, ec) = IF ec # "ok" THEN ClearTimer(checkTimeout(c, ec))
                            ELSE End(d, "answered")
  BY DEF AfterPreload
<1> HIDE DEF t
<1>3. Ready(d) BY <1>1, Fields DEF Ready, Over, IsConn, ByeOK
<1> HIDE DEF d
<1> QED BY <1>2, <1>3, FailedOK, EndsOK

LEMMA getDataOK ==
  ASSUME NEW c, Ready(c) PROVE ConnOK(getData(c))
  BY ReadOK, EmptyDataOK DEF getData

LEMMA AfterDataOK ==
  ASSUME NEW c, Ready(c), NEW ec PROVE ConnOK(AfterData(c, ec))
<1> DEFINE d == [c EXCEPT !.sent = IF c.sent = c.size THEN @ ELSE @ + 1]
           t == ClearTimer(c)
           u == [t EXCEPT !.after = "none"]
<1>1. Ready(d) /\ Ready(t) BY ClearTimerReady, Fields DEF Ready, Over, IsConn, ByeOK
<1>2. CASE ec = "ok"
  <2>1. AfterData(c, ec) = CASE c.call = "data" -> End(ClearTimer(d), "building")
                             [] c.call = "POST" /\ DataIsDone(d) -> ReadAnswer(d, "return")
                             [] OTHER -> getData(d)
    BY <1>2 DEF AfterData
  <2> HIDE DEF d
  <2>2. ConnOK(End(ClearTimer(d), "building")) BY <1>1, ClearTimerReady, EndsOK
  <2>3. ConnOK(ReadAnswer(d, "return")) /\ ConnOK(getData(d)) BY <1>1, ReadOK, getDataOK
  <2>4. CASE c.call = "data" BY <2>1, <2>2, <2>4
  <2>5. CASE c.call # "data" BY <2>1, <2>3, <2>5
  <2> QED BY <2>4, <2>5
<1>3. CASE ec # "ok"
  <2>1. AfterData(c, ec) =
          CASE c.call = "data" -> ClearTimer(checkTimeout(c, ec))
            [] c.call = "POST" /\ Failing(c, ec) -> checkTimeout(c, ec)
            [] c.call = "POST" /\ ~Failing(c, ec) /\ ~c.can_recall -> Throw(t, "EXCEPTION")
            [] OTHER -> PostAgain(u)
    BY <1>3 DEF AfterData
  <2> HIDE DEF t
  <2>2. Ready(u) BY <1>1, Fields DEF Ready, Over, IsConn, ByeOK
  <2> HIDE DEF u
  <2>3. ConnOK(PostAgain(u)) BY <2>2, StartConnectAny, PostLoopOK DEF PostAgain
  <2>4. /\ ConnOK(ClearTimer(checkTimeout(c, ec))) /\ ConnOK(checkTimeout(c, ec))
        /\ ConnOK(Throw(t, "EXCEPTION"))
    BY <1>1, FailedOK, EndsOK
  <2>5. CASE c.call = "data" BY <2>1, <2>4, <2>5
  <2>6. CASE c.call = "POST" /\ Failing(c, ec) BY <2>1, <2>4, <2>6
  <2>7. CASE c.call = "POST" /\ ~Failing(c, ec) /\ ~c.can_recall BY <2>1, <2>4, <2>7
  <2>8. CASE /\ c.call # "data" /\ ~(c.call = "POST" /\ Failing(c, ec))
             /\ ~(c.call = "POST" /\ ~Failing(c, ec) /\ ~c.can_recall)
    BY <2>1, <2>3, <2>8
  <2> QED BY <2>5, <2>6, <2>7, <2>8
<1> QED BY <1>2, <1>3

LEMMA AfterWriteOK ==
  ASSUME NEW c, Ready(c), NEW ec PROVE ConnOK(AfterWrite(c, ec))
<1> DEFINE d == [c EXCEPT !.after = "none"]
           t == ClearTimer(c)
<1>1. Ready(d) /\ Ready(t) BY ClearTimerReady, Fields DEF Ready, Over, IsConn, ByeOK
<1>2. ConnOK(WriteAgain(t)) BY <1>1, StartConnectAny, WriteLoopOK DEF WriteAgain
<1>3. /\ ConnOK(getData(d)) /\ ConnOK(End(c, "building"))
      /\ ConnOK(Issue(SetTimer(c), "wait")) /\ ConnOK(checkTimeout(c, ec))
  BY <1>1, getDataOK, EndsOK, IssueOwn, FailedOK
<1>4. AfterWrite(c, ec) =
        IF ec = "ok"
        THEN CASE c.call = "POST" -> getData(d)
               [] c.call = "headers" -> End(c, "building")
               [] OTHER -> Issue(SetTimer(c), "wait")
        ELSE IF Failing(c, ec) THEN checkTimeout(c, ec) ELSE WriteAgain(t)
  BY DEF AfterWrite
<1> HIDE DEF d, t
<1>5. CASE ec # "ok" BY <1>2, <1>3, <1>4, <1>5
<1>6. CASE ec = "ok" /\ c.call = "POST" BY <1>3, <1>4, <1>6
<1>7. CASE ec = "ok" /\ c.call = "headers" BY <1>3, <1>4, <1>7
<1>8. CASE ec = "ok" /\ c.call \notin {"POST", "headers"} BY <1>3, <1>4, <1>8
<1> QED BY <1>5, <1>6, <1>7, <1>8

LEMMA AfterWaitOK ==
  ASSUME NEW c, Ready(c), NEW ec PROVE ConnOK(AfterWait(c, ec))
  BY ReadOK, FailedOK DEF AfterWait

\* A connection begins to be reused here: it is a new one.
LEMMA AfterConnectOK ==
  ASSUME NEW c, Ready(c), c.bye # TRUE, NEW ec,
         c.after \in Afters
  PROVE  ConnOK(AfterConnect(c, ec))
<1> DEFINE t == ClearTimer(c)
           d == [t EXCEPT !.must_reconnect = FALSE, !.after = "none"]
<1>1. Ready(t) /\ t.bye # TRUE BY ClearTimerReady
<1>2. ec = "ok" => AfterConnect(c, ec) =
        CASE c.after = "write"  -> StartWrite(d)
          [] c.after = "retry"  -> WriteLoop(d)
          [] c.after = "post"   -> writeRequest(d)
          [] c.after = "repost" -> PostLoop(d)
          [] c.after = "user"   -> End(d, "connected")
  BY DEF AfterConnect
<1> HIDE DEF t
<1>3. Ready(d) /\ d.bye # TRUE BY <1>1, Fields DEF Ready, Over, IsConn, ByeOK
<1> HIDE DEF d
<1>4. ConnOK(StartWrite(d)) BY <1>3, IssueOwn DEF StartWrite
<1>5. ConnOK(WriteLoop(d)) /\ ConnOK(writeRequest(d)) /\ ConnOK(PostLoop(d))
      /\ ConnOK(End(d, "connected"))
  BY <1>3, WriteLoopOK, writeRequestOK, PostLoopOK, EndsOK
<1>6. CASE ec # "ok" BY <1>6, FailedOK DEF AfterConnect
<1>7. CASE ec = "ok" BY <1>2, <1>4, <1>5, <1>7 DEF Afters
<1> QED BY <1>6, <1>7

-------------------------------------------------------------------------------
(***************************************************************************)
(* The steps.                                                              *)
(***************************************************************************)
\* What is waited for elsewhere is waited for in its call, and nothing else is.
OtherOK(c, where, result) ==
  /\ where \in {"dest", "out"} => c.op = "none" /\ c.call = "splice"
  /\ where = "from" => c.op = "none" /\ c.call \in {"tee", "wsplice"}
  /\ where = "resume" => result # "none"
  /\ result # "none" => c.op = "none" /\ c.call = "barrier" /\ result \in Results

StreamInv == ConnOK(conn) /\ OtherOK(conn, other, got_done)

Special == {"dest", "out", "from", "resume"}
LEMMA FreeOther ==
  ASSUME NEW c, NEW where, where \notin Special PROVE OtherOK(c, where, "none")
  BY DEF OtherOK, Special

\* Nothing else is waited for between two calls, or with an operation going on.
LEMMA OthersFree ==
  ASSUME StreamInv, conn.op # "none" \/ conn.call \in {"none", "gone"}
  PROVE  other \notin Special /\ got_done = "none"
  BY DEF StreamInv, OtherOK, Special

IsRec(d) == DOMAIN d = DOMAIN NewConn /\ d = [f \in DOMAIN d |-> d[f]]
SameCall(c, d) ==
  /\ d.op = c.op /\ d.call = c.call /\ d.after = c.after
  /\ d.bye = c.bye /\ d.must_reconnect = c.must_reconnect

LEMMA SameOther ==
  ASSUME NEW c, NEW d, SameCall(c, d), NEW where, NEW result, OtherOK(c, where, result)
  PROVE  OtherOK(d, where, result)
  BY DEF SameCall, OtherOK

\* An operation ends.
LEMMA CompletedOK ==
  ASSUME NEW c, ConnOK(c), NEW d, IsRec(d), SameCall(c, d), d.timer = c.timer,
         NEW result \in Results, d.queue = Append(c.queue, result)
  PROVE  ConnOK(d)
<1>1. c.queue \in Seq(Handlers) /\ result \in Handlers BY DEF ConnOK, IsConn, Handlers
<1>2. d.queue \in Seq(Handlers) /\ ~Pending(d) BY <1>1, AppendHandler DEF Pending
<1> QED BY <1>2
  DEF ConnOK, IsConn, IsRec, SameCall, TimedOK, ByeOK, WriteOK, OpOK, CallFits

\* The socket, or what comes over it, changes.
LEMMA SocketOK ==
  ASSUME NEW c, ConnOK(c), NEW d, IsRec(d), SameCall(c, d), d.timer = c.timer,
         d.queue = c.queue, d.sock = "closed" => c.sock = "closed"
  PROVE  ConnOK(d)
  BY DEF ConnOK, IsConn, IsRec, SameCall, TimedOK, ByeOK, WriteOK, OpOK, CallFits,
         Pending, TimeoutQueued

\* Closed, nothing is waited for any more.
LEMMA CloseOK ==
  ASSUME NEW c, IsConn(c), ByeOK(c), WriteOK(c), OpOK(c), c.sock = "closed" => ~Pending(c)
  PROVE  /\ ConnOK(Close(c)) /\ ~Pending(Close(c))
         /\ SameCall(c, Close(c)) /\ Close(c).timer = c.timer
<1> DEFINE d == Close(c)
<1>1. CASE c.sock = "closed"
  <2>1. d = c BY <1>1 DEF Close
  <2> QED BY <1>1, <2>1 DEF ConnOK, TimedOK, SameCall
<1>2. CASE c.sock # "closed"
  <2>1. d = [c EXCEPT !.sock = "closed", !.due = FALSE, !.inbox = NoHead,
                      !.body = 0, !.owed = 0,
                      !.queue = IF Pending(c) THEN Append(@, "aborted") ELSE @]
    BY <1>2 DEF Close
  <2> HIDE DEF d
  <2>2. /\ IsRec(d) /\ SameCall(c, d) /\ d.timer = c.timer
        /\ d.queue = IF Pending(c) THEN Append(c.queue, "aborted") ELSE c.queue
    BY <2>1, Fields DEF IsConn, IsRec, SameCall
  <2>3. c.queue \in Seq(Handlers) /\ "aborted" \in Handlers /\ "aborted" \in Results
    BY DEF IsConn, Handlers, Results
  <2>4. d.queue \in Seq(Handlers) BY <2>2, <2>3, AppendHandler
  <2>5. ~Pending(d)
    <3>1. CASE Pending(c) BY <2>2, <2>3, <3>1, AppendHandler DEF Pending
    <3>2. CASE ~Pending(c) BY <2>2, <3>2 DEF Pending, SameCall
    <3> QED BY <3>1, <3>2
  <2>6. ConnOK(d)
    BY <2>2, <2>4, <2>5
    DEF ConnOK, IsConn, IsRec, SameCall, TimedOK, ByeOK, WriteOK, OpOK, CallFits
  <2> QED BY <2>2, <2>5, <2>6 DEF d
<1> QED BY <1>1, <1>2

\* A call begins, or goes on.
LEMMA EnterReady ==
  ASSUME NEW c, ConnOK(c), c.op = "none", NEW d, IsRec(d), d.queue = c.queue,
         d.op = c.op, d.bye = c.bye, d.must_reconnect = c.must_reconnect,
         d.call \notin {"none", "gone"}
  PROVE  Ready(d)
  BY DEF ConnOK, Ready, Over, IsConn, IsRec, ByeOK

LEMMA IdleOp == ASSUME StreamInv, conn.call = "none" PROVE conn.op = "none"
  BY DEF StreamInv, ConnOK, OpOK, CallFits

LEMMA BeginReady ==
  ASSUME StreamInv, conn.call = "none", NEW call, call \notin {"none", "gone"}
  PROVE  Ready(Begin(call))
<1>1. IsConn(conn) /\ conn.op = "none" BY IdleOp DEF StreamInv, ConnOK
<1> DEFINE d == Begin(call)
<1>2. /\ IsRec(d) /\ d.queue = conn.queue /\ d.op = conn.op /\ d.bye = conn.bye
      /\ d.must_reconnect = conn.must_reconnect /\ d.call = call
  BY <1>1, Fields DEF IsConn, IsRec, Begin
<1> HIDE DEF d
<1>3. Ready(d) BY <1>1, <1>2, EnterReady DEF StreamInv
<1> QED BY <1>3 DEF d

\* Another call of a request that is built by hand, or of reading its answer.
LEMMA GoOnReady ==
  ASSUME StreamInv, conn.call = "none", NEW call, call \notin {"none", "gone"}
  PROVE  /\ Ready([conn EXCEPT !.call = call, !.outcome = "none"])
         /\ [conn EXCEPT !.call = call, !.outcome = "none"].call = call
<1>1. IsConn(conn) /\ conn.op = "none" BY IdleOp DEF StreamInv, ConnOK
<1> DEFINE d == [conn EXCEPT !.call = call, !.outcome = "none"]
<1>2. /\ IsRec(d) /\ d.queue = conn.queue /\ d.op = conn.op /\ d.bye = conn.bye
      /\ d.must_reconnect = conn.must_reconnect /\ d.call = call
  BY <1>1, Fields DEF IsConn, IsRec
<1> HIDE DEF d
<1>3. Ready(d) BY <1>1, <1>2, EnterReady DEF StreamInv
<1> QED BY <1>2, <1>3 DEF d

-------------------------------------------------------------------------------
LEMMA UserOK ==
  ASSUME StreamInv, User PROVE ConnOK(conn')
<1>1. CASE SimpleRequest
  <2>1. PICK call \in {"GET", "HEAD", "open"} : conn' = writeRequest(Begin(call))
    BY <1>1 DEF SimpleRequest
  <2>2. Ready(Begin(call)) BY <1>1, BeginReady DEF SimpleRequest, Idle
  <2> QED BY <2>1, <2>2, writeRequestOK
<1>2. CASE Post
  <2> DEFINE d(size, null, can) ==
        [Begin("POST") EXCEPT !.size = size, !.null = null, !.can_recall = can]
  <2>1. \E size, null, can : conn' = PostLoop(d(size, null, can)) BY <1>2 DEF Post
  <2>2. Ready(Begin("POST")) BY <1>2, BeginReady DEF Post, Idle
  <2>3. ASSUME NEW size, NEW null, NEW can PROVE Ready(d(size, null, can))
    BY <2>2, Fields DEF Ready, Over, IsConn, ByeOK
  <2> HIDE DEF d
  <2> QED BY <2>1, <2>3, PostLoopOK
<1>3. CASE WriteRequestHeaders
  <2> DEFINE d(size) == [Begin("headers") EXCEPT !.size = size]
  <2>1. \E size : conn' = writeRequest(d(size)) BY <1>3 DEF WriteRequestHeaders
  <2>2. Ready(Begin("headers")) BY <1>3, BeginReady DEF WriteRequestHeaders, Idle
  <2>3. ASSUME NEW size PROVE Ready(d(size))
    BY <2>2, Fields DEF Ready, Over, IsConn, ByeOK
  <2> HIDE DEF d
  <2> QED BY <2>1, <2>3, writeRequestOK
<1>4. CASE WriteRequestData
  BY <1>4, GoOnReady, ReadOK DEF WriteRequestData, Building
<1>5. CASE AskAnswer BY <1>5, GoOnReady, ReadOK DEF AskAnswer, Building
<1>6. CASE PreloadBytes
  <2> DEFINE e == [conn EXCEPT !.call = "preload", !.outcome = "none"]
             d(count) == [e EXCEPT !.count = count]
  <2>1. \/ conn' = [conn EXCEPT !.outcome = "answered"]
        \/ \E count : conn' = Issue(SetTimer(d(count)), "preload")
    BY <1>6 DEF PreloadBytes
  <2>2. Ready(e) BY <1>6, GoOnReady DEF PreloadBytes
  <2> HIDE DEF e
  <2>3. ASSUME NEW count PROVE Ready(d(count))
    BY <2>2, Fields DEF Ready, Over, IsConn, ByeOK
  <2> HIDE DEF d
  <2>4. ASSUME conn' = [conn EXCEPT !.outcome = "answered"] PROVE ConnOK(conn')
    <3>1. IsConn(conn) BY DEF StreamInv, ConnOK
    <3>2. /\ IsConn(conn') /\ conn'.queue = conn.queue /\ conn'.op = conn.op
          /\ conn'.timer = conn.timer /\ conn'.sock = conn.sock /\ conn'.bye = conn.bye
          /\ conn'.must_reconnect = conn.must_reconnect /\ conn'.call = conn.call
          /\ conn'.after = conn.after
      BY <2>4, <3>1, Fields DEF IsConn
    <3> QED BY <3>2 DEF StreamInv, ConnOK, TimedOK, TimeoutQueued, Pending, ByeOK, WriteOK,
                        OpOK, CallFits
  <2> QED BY <2>1, <2>3, <2>4, IssueOwn
<1>7. CASE StreamReadData BY <1>7, GoOnReady, ReadOK DEF StreamReadData
<1>8. CASE Reconnect BY <1>8, BeginReady, StartConnectAny DEF Reconnect, Idle
<1>9. CASE UserClose \/ Destroy
  <2> DEFINE d == Close(conn)
             t == ClearTimer(d)
  <2>1. ConnOK(d) /\ d.call = "none" /\ d.op = "none"
    BY <1>9, IdleOp, CloseOK DEF StreamInv, ConnOK, SameCall, TimedOK, UserClose, Destroy
  <2>2. \/ conn' = [d EXCEPT !.left = 0, !.size = 0, !.sent = 0, !.outcome = "none"]
        \/ conn' = [t EXCEPT !.call = "gone", !.left = 0, !.size = 0, !.sent = 0,
                             !.outcome = "none", !.cause = "none"]
    BY <1>9 DEF UserClose, Destroy
  <2> HIDE DEF d
  <2>3. IsRec(t) /\ t.queue = d.queue /\ t.timer = "off" /\ t.op = "none"
        /\ t.bye = d.bye /\ t.must_reconnect = d.must_reconnect
    BY <2>1, Fields DEF ConnOK, IsConn, IsRec, ClearTimer
  <2> HIDE DEF t
  <2>4. /\ IsRec(conn') /\ conn'.queue = d.queue /\ conn'.op = "none"
        /\ conn'.bye = d.bye /\ conn'.must_reconnect = d.must_reconnect
        /\ conn'.call = "none" \/ conn'.timer = "off"
    BY <2>1, <2>2, <2>3, Fields, ZenonT(60) DEF ConnOK, IsConn, IsRec
  <2>5. conn'.call = "gone" => conn'.timer = "off" BY <2>4
  <2> QED BY <2>1, <2>4, <2>5
        DEF ConnOK, IsConn, IsRec, TimedOK, ByeOK, WriteOK, OpOK, Pending
<1>10. CASE Create
  <2>1. conn' = NewConn BY <1>10 DEF Create
  <2>2. IsConn(NewConn) /\ NewConn.op = "none" /\ NewConn.bye = FALSE
        /\ NewConn.call = "none"
    BY DEF NewConn, IsConn
  <2> QED BY <2>1, <2>2 DEF ConnOK, TimedOK, ByeOK, WriteOK, OpOK, Pending
<1> QED BY <1>1, <1>2, <1>3, <1>4, <1>5, <1>6, <1>7, <1>8, <1>9, <1>10 DEF User

LEMMA UserInv == ASSUME StreamInv, User, UNCHANGED relay PROVE StreamInv'
<1>1. conn.call \in {"none", "gone"}
  BY DEF User, SimpleRequest, Post, WriteRequestHeaders, WriteRequestData, AskAnswer,
         PreloadBytes, StreamReadData, Reconnect, UserClose, Destroy, Create, Idle, Building
<1>2. other' \notin Special /\ got_done' = "none" BY <1>1, OthersFree DEF relay
<1> QED BY <1>2, UserOK, FreeOther DEF StreamInv
-------------------------------------------------------------------------------
\* The handler at the head of the queue is taken off it.
LEMMA TailHandler ==
  ASSUME NEW q \in Seq(Handlers), q # <<>>
  PROVE  /\ Tail(q) \in Seq(Handlers) /\ Head(q) \in Handlers
         /\ \A i \in DOMAIN q : q[i] = Head(q) \/ \E j \in DOMAIN Tail(q) : Tail(q)[j] = q[i]
<1> DEFINE t == Tail(q)
<1>1. /\ Len(q) \in Nat \ {0} /\ DOMAIN q = 1..Len(q) /\ Head(q) = q[1] /\ q[1] \in Handlers
      /\ t \in Seq(Handlers) /\ DOMAIN t = 1..(Len(q) - 1)
      /\ \A i \in 1..(Len(q) - 1) : t[i] = q[i + 1]
  <2>1. Len(q) \in Nat /\ DOMAIN q = 1..Len(q) /\ Len(q) # 0 BY EmptySeq, ElementOfSeq
  <2>2. Head(q) = q[1] /\ t \in Seq(Handlers) /\ Len(t) = Len(q) - 1
        /\ \A i \in 1..Len(t) : t[i] = q[i + 1]
    BY HeadTailProperties
  <2>3. DOMAIN t = 1..Len(t) /\ q[1] \in Handlers BY <2>1, <2>2, ElementOfSeq
  <2> QED BY <2>1, <2>2, <2>3
<1> HIDE DEF t
<1>2. ASSUME NEW i \in DOMAIN q, i # 1 PROVE i - 1 \in DOMAIN t /\ t[i - 1] = q[i]
  <2>1. i - 1 \in 1..(Len(q) - 1) /\ (i - 1) + 1 = i BY <1>1, <1>2
  <2> QED BY <1>1, <2>1
<1> QED BY <1>1, <1>2 DEF t

Rest == [conn EXCEPT !.queue = Tail(@)]
LEMMA RestOK ==
  ASSUME StreamInv, conn.queue # <<>>
  PROVE  /\ IsConn(Rest) /\ SameCall(conn, Rest) /\ Rest.timer = conn.timer
         /\ Rest.sock = conn.sock /\ Head(conn.queue) \in Handlers
         /\ Head(conn.queue) \notin Results /\ Pending(Rest) => Pending(conn)
<1>1. IsConn(conn) /\ conn.queue \in Seq(Handlers) BY DEF StreamInv, ConnOK, IsConn
<1>2. Tail(conn.queue) \in Seq(Handlers) /\ Head(conn.queue) \in Handlers
  BY <1>1, TailHandler
<1>3. /\ IsConn(Rest) /\ SameCall(conn, Rest) /\ Rest.timer = conn.timer
      /\ Rest.sock = conn.sock /\ Rest.queue = Tail(conn.queue)
  BY <1>1, <1>2, Fields DEF IsConn, SameCall, Rest
<1>4. \A i \in DOMAIN conn.queue : conn.queue[i] = Head(conn.queue)
        \/ \E j \in DOMAIN Rest.queue : Rest.queue[j] = conn.queue[i]
  BY <1>1, <1>3, TailHandler
<1>5. Head(conn.queue) \notin Results /\ Pending(Rest) => Pending(conn)
  BY <1>3, <1>4 DEF Pending, SameCall
<1> QED BY <1>2, <1>3, <1>5

\* The coroutine goes on after an operation: it runs.
LEMMA ResumedReady ==
  ASSUME StreamInv, conn.queue # <<>>, conn.op # "none",
         NEW d, d = [Rest EXCEPT !.op = "none"]
  PROVE  /\ Ready(d) /\ d.call = conn.call /\ d.after = conn.after /\ d.bye = conn.bye
<1>1. /\ IsConn(Rest) /\ SameCall(conn, Rest) BY RestOK
<1>2. conn.call \notin {"none", "gone"} /\ ByeOK(conn)
  BY DEF StreamInv, ConnOK, OpOK, CallFits
<1> QED BY <1>1, <1>2, Fields DEF Ready, Over, IsConn, ByeOK, SameCall

LEMMA ResumeOK ==
  ASSUME StreamInv, conn.queue # <<>>, conn.op \in OwnOps, NEW ec
  PROVE  ConnOK(Resume(Rest, ec))
<1> DEFINE d == [Rest EXCEPT !.op = "none"]
<1>1. conn.op # "none" /\ Rest.op = conn.op BY RestOK DEF OwnOps, SameCall
<1>2. Ready(d) /\ d.after = conn.after /\ d.bye = conn.bye BY <1>1, ResumedReady
<1>3. conn.op = "connect" => d.after \in Afters /\ d.bye # TRUE
  BY <1>2 DEF StreamInv, ConnOK, OpOK, WriteOK
<1>4. Resume(Rest, ec) =
        CASE conn.op = "connect" -> AfterConnect(d, ec)
          [] conn.op = "write"   -> AfterWrite(d, ec)
          [] conn.op = "wait"    -> AfterWait(d, ec)
          [] conn.op = "head"    -> AfterHead(d, ec)
          [] conn.op = "body"    -> AfterBody(d, ec)
          [] conn.op = "data"    -> AfterData(d, ec)
          [] conn.op = "preload" -> AfterPreload(d, ec)
  BY <1>1 DEF Resume
<1> HIDE DEF d
<1>5. /\ ConnOK(AfterWrite(d, ec)) /\ ConnOK(AfterWait(d, ec)) /\ ConnOK(AfterHead(d, ec))
      /\ ConnOK(AfterBody(d, ec)) /\ ConnOK(AfterData(d, ec)) /\ ConnOK(AfterPreload(d, ec))
  BY <1>2, AfterWriteOK, AfterWaitOK, AfterHeadOK, AfterBodyOK, AfterDataOK, AfterPreloadOK
<1>6. conn.op = "connect" => ConnOK(AfterConnect(d, ec)) BY <1>2, <1>3, AfterConnectOK
<1> QED BY <1>4, <1>5, <1>6 DEF OwnOps

LEMMA TimeoutOK ==
  ASSUME StreamInv, conn.queue # <<>>, Head(conn.queue) = "timeout"
  PROVE  ConnOK(onTimeout(Rest)) /\ SameCall(conn, onTimeout(Rest))
<1>1. /\ IsConn(Rest) /\ SameCall(conn, Rest) /\ Rest.timer = conn.timer
      /\ Rest.sock = conn.sock
  BY RestOK
<1>2. Pending(Rest) => Pending(conn) BY RestOK DEF Results
<1>3. ByeOK(Rest) /\ WriteOK(Rest) /\ OpOK(Rest)
  BY <1>1 DEF StreamInv, ConnOK, SameCall, ByeOK, WriteOK, OpOK, CallFits
<1>4. Rest.sock = "closed" => ~Pending(Rest) BY <1>1, <1>2 DEF StreamInv, ConnOK, TimedOK
<1>5. CASE IsTimeout(Rest)
  <2>1. onTimeout(Rest) = Close(Rest) BY <1>5 DEF onTimeout
  <2>2. ConnOK(Close(Rest)) /\ SameCall(Rest, Close(Rest)) BY <1>1, <1>3, <1>4, CloseOK
  <2> QED BY <1>1, <2>1, <2>2 DEF SameCall
<1>6. CASE ~IsTimeout(Rest)
  <2>1. onTimeout(Rest) = Rest BY <1>6 DEF onTimeout
  <2>2. Pending(Rest) => Rest.timer = "armed"
    BY <1>1, <1>2, <1>6 DEF StreamInv, ConnOK, TimedOK, IsTimeout
  <2> QED BY <1>1, <1>3, <1>4, <2>1, <2>2 DEF ConnOK, TimedOK
<1> QED BY <1>5, <1>6

LEMMA RunInv == ASSUME StreamInv, RunHandler, UNCHANGED relay PROVE StreamInv'
<1>1. conn.queue # <<>> BY DEF RunHandler
<1>2. CASE Head(conn.queue) = "timeout" /\ conn' = onTimeout(Rest)
  <2>1. ConnOK(conn') /\ SameCall(conn, conn') BY <1>1, <1>2, TimeoutOK
  <2> QED BY <2>1, SameOther DEF StreamInv, relay
<1>3. CASE conn.op \in OwnOps /\ conn' = Resume(Rest, Head(conn.queue))
  <2>1. ConnOK(conn') BY <1>1, <1>3, ResumeOK
  <2>2. other' \notin Special /\ got_done' = "none"
    BY <1>3, OthersFree DEF OwnOps, relay
  <2> QED BY <2>1, <2>2, FreeOther DEF StreamInv
<1> QED BY <1>2, <1>3 DEF RunHandler, Rest

-------------------------------------------------------------------------------
LEMMA ClockInv ==
  ASSUME StreamInv, TimePasses \/ CollectTimer, UNCHANGED relay PROVE StreamInv'
<1>1. IsConn(conn) BY DEF StreamInv, ConnOK
<1>2. CASE TimePasses
  <2>1. /\ IsRec(conn') /\ SameCall(conn, conn') /\ conn'.queue = conn.queue
        /\ conn'.sock = conn.sock /\ conn'.timer = "late" /\ conn.timer = "armed"
    BY <1>1, <1>2, Fields DEF TimePasses, IsConn, IsRec, SameCall
  <2>2. ConnOK(conn')
    BY <1>1, <2>1 DEF StreamInv, ConnOK, IsConn, IsRec, SameCall, TimedOK, ByeOK, WriteOK,
       OpOK, CallFits, Pending
  <2> QED BY <2>1, <2>2, SameOther DEF StreamInv, relay
<1>3. CASE CollectTimer
  <2>1. /\ IsRec(conn') /\ SameCall(conn, conn') /\ conn'.queue = Append(conn.queue, "timeout")
        /\ conn'.sock = conn.sock /\ conn'.timer = "past" /\ conn.timer = "late"
    BY <1>1, <1>3, Fields DEF CollectTimer, IsConn, IsRec, SameCall
  <2>2. conn.queue \in Seq(Handlers) /\ "timeout" \in Handlers BY <1>1 DEF IsConn, Handlers
  <2>3. /\ conn'.queue \in Seq(Handlers) /\ TimeoutQueued(conn')
        /\ Pending(conn') => Pending(conn)
    BY <2>1, <2>2, AppendHandler DEF TimeoutQueued, Pending, SameCall
  <2>4. ConnOK(conn')
    BY <1>1, <2>1, <2>3
    DEF StreamInv, ConnOK, IsConn, IsRec, SameCall, TimedOK, ByeOK, WriteOK, OpOK, CallFits
  <2> QED BY <2>1, <2>4, SameOther DEF StreamInv, relay
<1> QED BY <1>2, <1>3

\* The kernel ends an operation: the queue gets its result, the calls stay.
LEMMA KernelStep ==
  ASSUME StreamInv, Kernel
  PROVE  /\ IsRec(conn') /\ SameCall(conn, conn') /\ conn'.timer = conn.timer
         /\ \E result \in Results : conn'.queue = Append(conn.queue, result)
<1>1. IsConn(conn) BY DEF StreamInv, ConnOK
<1>2. ASSUME NEW result \in Results, NEW c, c = Complete(conn, result)
      PROVE  /\ IsRec(c) /\ SameCall(conn, c) /\ c.timer = conn.timer
             /\ c.queue = Append(conn.queue, result)
  BY <1>1, <1>2, Fields DEF IsConn, IsRec, SameCall, Complete
<1> DEFINE done == Complete(conn, "ok")
           failed == Complete(conn, "error")
<1>3. /\ IsRec(done) /\ SameCall(conn, done) /\ done.timer = conn.timer
      /\ done.queue = Append(conn.queue, "ok") /\ "ok" \in Results
      /\ IsRec(failed) /\ SameCall(conn, failed) /\ failed.timer = conn.timer
      /\ failed.queue = Append(conn.queue, "error") /\ "error" \in Results
  BY <1>2 DEF Results
<1>4. CASE ConnectOk
  <2>1. conn' = [done EXCEPT !.sock = "alive"] BY <1>4 DEF ConnectOk
  <2> QED BY <1>3, <2>1, Fields DEF IsRec, SameCall
<1>5. CASE ConnectFails
  <2>1. conn' = [failed EXCEPT !.sock = "refused", !.cause = "other"] BY <1>5 DEF ConnectFails
  <2> QED BY <1>3, <2>1, Fields DEF IsRec, SameCall
<1>6. CASE WriteOk
  <2> DEFINE write == conn.sock = "alive" /\ conn.op = "write"
             reply == IF write THEN "asked" ELSE done.reply
             served == IF conn.sock # "fin" /\ LastPiece(conn) THEN done.served + 1
                       ELSE done.served
  <2>1. conn' = [done EXCEPT !.due = done.due \/ write, !.reply = reply, !.served = served]
    BY <1>6 DEF WriteOk
  <2> HIDE DEF write, reply, served
  <2> QED BY <1>3, <2>1, Fields DEF IsRec, SameCall
<1>7. CASE WriteFails \/ Readable
  <2>1. conn' = failed \/ conn' = done BY <1>7 DEF WriteFails, Readable
  <2> QED BY <1>3, <2>1
<1>8. CASE ReadHead
  <2>1. conn' = [done EXCEPT !.got = conn.inbox, !.inbox = NoHead] BY <1>8 DEF ReadHead
  <2> QED BY <1>3, <2>1, Fields DEF IsRec, SameCall
<1>9. CASE ReadBody
  <2>1. conn' = [done EXCEPT !.body = @ - Wanted(conn)] BY <1>9 DEF ReadBody
  <2> QED BY <1>3, <2>1, Fields DEF IsRec, SameCall
<1>10. CASE ReadFails
  <2>1. conn' = [failed EXCEPT !.body = 0] BY <1>10 DEF ReadFails
  <2> QED BY <1>3, <2>1, Fields DEF IsRec, SameCall
<1>11. CASE ReadFoul
  <2>1. conn' = done \/ \E h : conn' = [done EXCEPT !.got = h] BY <1>11 DEF ReadFoul
  <2> QED BY <1>3, <2>1, Fields DEF IsRec, SameCall
<1> QED BY <1>4, <1>5, <1>6, <1>7, <1>8, <1>9, <1>10, <1>11 DEF Kernel

LEMMA KernelInv == ASSUME StreamInv, Kernel, UNCHANGED relay PROVE StreamInv'
<1>1. ConnOK(conn') /\ SameCall(conn, conn') BY KernelStep, CompletedOK DEF StreamInv
<1> QED BY <1>1, SameOther DEF StreamInv, relay

LEMMA ServerInv == ASSUME StreamInv, Server, UNCHANGED relay PROVE StreamInv'
<1>1. IsConn(conn) BY DEF StreamInv, ConnOK
<1> DEFINE Kept == /\ IsRec(conn') /\ SameCall(conn, conn') /\ conn'.timer = conn.timer
                   /\ conn'.queue = conn.queue
                   /\ conn'.sock = "closed" => conn.sock = "closed"
<1>2. ASSUME Serve PROVE Kept
  <2>1. \E h, owed : conn' = [conn EXCEPT !.due = FALSE, !.inbox = h, !.reply = "given",
                                          !.owed = owed]
    BY <1>2 DEF Serve
  <2> QED BY <1>1, <2>1, Fields DEF IsConn, IsRec, SameCall
<1>3. ASSUME ServeBadly PROVE Kept
  <2>1. \E rest : conn' = [conn EXCEPT !.due = FALSE, !.inbox = BadHead, !.reply = "given",
                                       !.cause = "other", !.owed = rest]
    BY <1>3 DEF ServeBadly
  <2> QED BY <1>1, <2>1, Fields DEF IsConn, IsRec, SameCall
<1>4. ASSUME SendBody PROVE Kept BY <1>1, <1>4, Fields DEF SendBody, IsConn, IsRec, SameCall
<1>5. ASSUME Shut PROVE Kept BY <1>1, <1>5, Fields DEF Shut, IsConn, IsRec, SameCall
<1>6. ASSUME Reset PROVE Kept BY <1>1, <1>6, Fields DEF Reset, IsConn, IsRec, SameCall
<1>7. Kept BY <1>2, <1>3, <1>4, <1>5, <1>6 DEF Server
<1>8. ConnOK(conn') BY <1>7, SocketOK DEF StreamInv
<1> QED BY <1>7, <1>8, SameOther DEF StreamInv, relay
-------------------------------------------------------------------------------
(***************************************************************************)
(* The steps of HttpStreams.                                               *)
(***************************************************************************)
LEMMA CompletesReady ==
  ASSUME StreamInv, NEW op, op # "none", Completes(op)
  PROVE  /\ Ready(Resumed) /\ Ready(ClearTimer(Resumed))
         /\ Resumed.call = conn.call /\ ClearTimer(Resumed).call = conn.call
         /\ CallFits(op, conn.call)
         /\ other \notin Special /\ got_done = "none"
<1>1. conn.queue # <<>> /\ conn.op = op BY DEF Completes
<1>2. /\ IsConn(conn) /\ ByeOK(conn) /\ CallFits(op, conn.call)
  BY <1>1 DEF StreamInv, ConnOK, OpOK
<1>3. Tail(conn.queue) \in Seq(Handlers) BY <1>1, <1>2, TailHandler DEF IsConn
<1>4. Ready(Resumed) /\ Resumed.call = conn.call
  BY <1>2, <1>3, Fields DEF Resumed, Ready, Over, IsConn, ByeOK, CallFits
<1>5. Ready(ClearTimer(Resumed)) BY <1>4, ClearTimerReady
<1>6. ClearTimer(Resumed).call = Resumed.call
  BY <1>4, Fields DEF ClearTimer, Ready, Over, IsConn
<1> QED BY <1>1, <1>2, <1>4, <1>5, <1>6, OthersFree

\* The coroutine waits for another socket.
LEMMA ElsewhereReady ==
  ASSUME StreamInv, other \in {"dest", "out", "from"}
  PROVE  /\ Ready(conn) /\ got_done = "none"
         /\ other \in {"dest", "out"} => conn.call = "splice"
         /\ other = "from" => conn.call \in {"tee", "wsplice"}
  BY DEF StreamInv, OtherOK, ConnOK, Ready, Over

LEMMA SpliceOnOK ==
  ASSUME NEW c, Ready(c), c.call = "splice", NEW n, SpliceOn(c, n)
  PROVE  ConnOK(conn') /\ OtherOK(conn', other', "none")
<1>1. CASE c.left > 0 /\ n < PipeHint
  <2>1. conn' = Issue(SetTimer(c), "in") /\ other' = "none" BY <1>1 DEF SpliceOn, StartIn
  <2>2. CallFits("in", c.call) BY DEF CallFits
  <2> QED BY <2>1, <2>2, IssueOK, FreeOther DEF Special
<1>2. CASE ~(c.left > 0 /\ n < PipeHint)
  <2>1. conn' = c /\ other' = "out" BY <1>2 DEF SpliceOn
  <2> QED BY <2>1, ReadyOver, OverOK DEF OtherOK, Ready, Over
<1> QED BY <1>1, <1>2

LEMMA SpliceInv ==
  ASSUME StreamInv,
         StreamSpliceData \/ SpliceIn \/ DestTakesBuffer \/ DestFull \/ DestTakes \/ DestFails
  PROVE  StreamInv'
<1>1. ASSUME StreamSpliceData PROVE ConnOK(conn') /\ OtherOK(conn', other', got_done')
  <2> DEFINE c == [conn EXCEPT !.call = "splice", !.outcome = "none"]
  <2>1. Ready(c) /\ c.call = "splice" BY <1>1, GoOnReady DEF StreamSpliceData
  <2>2. got_done' = "none" BY <1>1, OthersFree DEF StreamSpliceData
  <2>3. \/ conn' = c /\ other' = "dest"
        \/ other' = "none" /\ (conn' = Issue(SetTimer(c), "in") \/ conn' = Refused(c))
    BY <1>1 DEF StreamSpliceData, StartIn
  <2> HIDE DEF c
  <2>4. ConnOK(c) /\ c.op = "none" BY <2>1, ReadyOver, OverOK DEF Ready, Over
  <2>5. CallFits("in", c.call) BY <2>1 DEF CallFits
  <2>6. ConnOK(Issue(SetTimer(c), "in")) /\ ConnOK(Refused(c)) BY <2>1, <2>5, IssueOK, FoulOK
  <2>7. ConnOK(conn') BY <2>3, <2>4, <2>6
  <2>8. OtherOK(conn', other', got_done') BY <2>1, <2>2, <2>3, <2>4 DEF OtherOK
  <2> QED BY <2>7, <2>8
<1>2. ASSUME SpliceIn PROVE ConnOK(conn') /\ OtherOK(conn', other', got_done')
  <2> DEFINE c == ClearTimer(Resumed)
             d == [c EXCEPT !.left = @ - 1, !.body = IF @ > 0 THEN @ - 1 ELSE 0]
             ec == Head(conn.queue)
  <2>1. /\ Ready(Resumed) /\ Ready(c) /\ c.call = "splice"
        /\ other \notin Special /\ got_done' = "none"
    BY <1>2, CompletesReady DEF SpliceIn, CallFits
  <2>2. \/ conn' = ClearTimer(checkTimeout(Resumed, ec)) /\ other' = other
        \/ SpliceOn(d, pipe')
        \/ conn' = c /\ other' = "out"
        \/ conn' = Throw(c, "EXCEPTION") /\ other' = other
        \/ conn' = Refused(c) /\ other' = other
    BY <1>2 DEF SpliceIn
  <2> HIDE DEF c, ec
  <2>3. Ready(d) /\ d.call = "splice" BY <2>1, Fields DEF Ready, Over, IsConn, ByeOK
  <2> HIDE DEF d
  <2>4. /\ ConnOK(ClearTimer(checkTimeout(Resumed, ec))) /\ ConnOK(Throw(c, "EXCEPTION"))
        /\ ConnOK(Refused(c)) /\ ConnOK(c) /\ c.op = "none"
    BY <2>1, FailedOK, EndsOK, FoulOK, ReadyOver, OverOK DEF Ready, Over
  <2>5. CASE other' = other /\ ConnOK(conn') BY <2>1, <2>5, FreeOther
  <2>6. CASE SpliceOn(d, pipe') BY <2>1, <2>3, <2>6, SpliceOnOK
  <2>7. CASE conn' = c /\ other' = "out" BY <2>1, <2>4, <2>7 DEF OtherOK
  <2> QED BY <2>2, <2>4, <2>5, <2>6, <2>7
<1>3. ASSUME DestTakesBuffer PROVE ConnOK(conn') /\ OtherOK(conn', other', got_done')
  <2>1. Ready(conn) /\ conn.call = "splice" /\ got_done' = "none"
    BY <1>3, ElsewhereReady DEF DestTakesBuffer
  <2>2. CallFits("in", conn.call) BY <2>1 DEF CallFits
  <2>3. other' = "none" /\ (conn' = Issue(SetTimer(conn), "in") \/ conn' = Refused(conn))
    BY <1>3 DEF DestTakesBuffer, StartIn
  <2> QED BY <2>1, <2>2, <2>3, IssueOK, FoulOK, FreeOther DEF Special
<1>4. ASSUME DestFull PROVE ConnOK(conn') /\ OtherOK(conn', other', got_done')
  <2>1. Ready(conn) /\ conn.call = "splice" /\ got_done' = "none"
    BY <1>4, ElsewhereReady DEF DestFull
  <2> QED BY <1>4, <2>1, SpliceOnOK DEF DestFull
<1>5. ASSUME DestTakes PROVE ConnOK(conn') /\ OtherOK(conn', other', got_done')
  <2>1. Ready(conn) /\ conn.call = "splice" /\ got_done' = got_done /\ got_done = "none"
    BY <1>5, ElsewhereReady DEF DestTakes
  <2>2. CASE conn' = conn /\ other' = other BY <2>1, <2>2 DEF StreamInv
  <2>3. CASE SpliceOn(conn, 0) BY <2>1, <2>3, SpliceOnOK
  <2>4. CASE conn' = End(conn, "answered") /\ other' = "none"
    BY <2>1, <2>4, EndsOK, FreeOther DEF Special
  <2> QED BY <1>5, <2>2, <2>3, <2>4 DEF DestTakes
<1>6. ASSUME DestFails PROVE ConnOK(conn') /\ OtherOK(conn', other', got_done')
  <2>1. Ready(conn) /\ got_done' = "none" BY <1>6, ElsewhereReady DEF DestFails
  <2> QED BY <1>6, <2>1, EndsOK, FreeOther DEF DestFails, Special
<1> QED BY <1>1, <1>2, <1>3, <1>4, <1>5, <1>6 DEF StreamInv

LEMMA StartRoomOK ==
  ASSUME NEW c, Ready(c), c.call \in {"tee", "wsplice"}, StartRoom(c)
  PROVE  ConnOK(conn') /\ other' = "none"
<1>1. CallFits("room", c.call) BY DEF CallFits, Ready, Over
<1> QED BY <1>1, IssueOK DEF StartRoom

LEMMA FromInv ==
  ASSUME StreamInv,
         WriteTee \/ WriteSplice \/ HasRoom \/ FromMoves \/ FromMeetsError \/ FromFails
  PROVE  StreamInv'
<1> DEFINE Kept == ConnOK(conn') /\ OtherOK(conn', other', got_done')
<1>1. ASSUME WriteTee PROVE Kept
  <2> DEFINE c == [conn EXCEPT !.call = "tee", !.outcome = "none"]
  <2>1. conn.call = "none" /\ StartRoom(c) BY <1>1 DEF WriteTee, Building
  <2>2. Ready(c) /\ c.call = "tee" BY <2>1, GoOnReady
  <2>3. got_done' = "none" BY <1>1, <2>1, OthersFree DEF WriteTee
  <2> HIDE DEF c
  <2> QED BY <2>1, <2>2, <2>3, StartRoomOK, FreeOther DEF Special
<1>2. ASSUME WriteSplice PROVE Kept
  <2> DEFINE c == [conn EXCEPT !.call = "wsplice", !.outcome = "none"]
  <2>1. conn.call = "none" /\ (StartRoom(c) \/ (conn' = c /\ other' = "from"))
    BY <1>2 DEF WriteSplice, Building
  <2>2. Ready(c) /\ c.call = "wsplice" BY <2>1, GoOnReady
  <2>3. got_done' = "none" BY <1>2, <2>1, OthersFree DEF WriteSplice
  <2> HIDE DEF c
  <2>4. CASE StartRoom(c) BY <2>2, <2>3, <2>4, StartRoomOK, FreeOther DEF Special
  <2>5. CASE conn' = c /\ other' = "from"
    BY <2>2, <2>3, <2>5, ReadyOver, OverOK DEF OtherOK, Ready, Over
  <2> QED BY <2>1, <2>4, <2>5
<1>3. ASSUME HasRoom PROVE Kept
  <2> DEFINE c == ClearTimer(Resumed)
             ec == Head(conn.queue)
  <2>1. /\ Ready(Resumed) /\ Ready(c) /\ c.call \in {"tee", "wsplice"}
        /\ other \notin Special /\ got_done' = "none"
    BY <1>3, CompletesReady DEF HasRoom, CallFits
  <2>2. \/ conn' = ClearTimer(checkTimeout(Resumed, ec)) /\ other' = other
        \/ conn' = c /\ other' = "from"
    BY <1>3 DEF HasRoom
  <2> HIDE DEF c, ec
  <2>3. ConnOK(ClearTimer(checkTimeout(Resumed, ec))) /\ ConnOK(c) /\ c.op = "none"
    BY <2>1, FailedOK, ReadyOver, OverOK DEF Ready, Over
  <2>4. CASE other' = other /\ ConnOK(conn') BY <2>1, <2>4, FreeOther
  <2>5. CASE conn' = c /\ other' = "from" BY <2>1, <2>3, <2>5 DEF OtherOK
  <2> QED BY <2>2, <2>3, <2>4, <2>5
<1>4. ASSUME FromMoves PROVE Kept
  <2>1. Ready(conn) /\ conn.call \in {"tee", "wsplice"} /\ got_done' = "none"
    BY <1>4, ElsewhereReady DEF FromMoves
  <2>2. Ready(Forwarded) /\ Forwarded.call = conn.call
    <3> DEFINE served == IF conn.sock # "fin" /\ LastPiece(conn)
                         THEN conn.served + 1 ELSE conn.served
    <3>1. Forwarded = [conn EXCEPT !.sent = @ + 1, !.served = served] BY DEF Forwarded
    <3> HIDE DEF served
    <3> QED BY <2>1, <3>1, Fields DEF Ready, Over, IsConn, ByeOK
  <2>3. \/ conn' = End(Forwarded, "building") /\ other' = "none"
        \/ StartRoom(Forwarded)
        \/ conn' = Forwarded /\ other' = "from"
    BY <1>4 DEF FromMoves
  <2>4. CASE conn' = End(Forwarded, "building") /\ other' = "none"
    BY <2>1, <2>2, <2>4, EndsOK, FreeOther DEF Special
  <2>5. CASE StartRoom(Forwarded)
    BY <2>1, <2>2, <2>5, StartRoomOK, FreeOther DEF Special
  <2>6. CASE conn' = Forwarded /\ other' = "from"
    BY <2>1, <2>2, <2>6, ReadyOver, OverOK DEF OtherOK, Ready, Over
  <2> QED BY <2>3, <2>4, <2>5, <2>6
<1>5. ASSUME FromMeetsError \/ FromFails PROVE Kept
  <2>1. Ready(conn) /\ got_done' = "none" /\ other' = "none"
    BY <1>5, ElsewhereReady DEF FromMeetsError, FromFails
  <2>2. \/ conn' = Fouled([Throw(conn, "EXCEPTION") EXCEPT !.cause = "other"])
        \/ conn' = End(conn, "building")
    BY <1>5 DEF FromMeetsError, FromFails
  <2> QED BY <2>1, <2>2, EndsOK, FoulOK, FreeOther DEF Special
<1> QED BY <1>1, <1>2, <1>3, <1>4, <1>5 DEF StreamInv

LEMMA ReadinessInv == ASSUME StreamInv, CanSplice \/ CanWrite PROVE StreamInv'
<1>1. conn' = Complete(conn, "ok") /\ UNCHANGED relay BY DEF CanSplice, CanWrite
<1>2. /\ IsRec(conn') /\ SameCall(conn, conn') /\ conn'.timer = conn.timer
      /\ conn'.queue = Append(conn.queue, "ok") /\ "ok" \in Results
  BY <1>1, Fields DEF StreamInv, ConnOK, IsConn, IsRec, SameCall, Complete, Results
<1>3. ConnOK(conn') BY <1>2, CompletedOK DEF StreamInv
<1> QED BY <1>1, <1>2, <1>3, SameOther DEF StreamInv, relay

LEMMA BarrierInv ==
  ASSUME StreamInv,
         WriteRequestDataBarrier \/ BarrierDone \/ BarrierWait \/ BarrierResumes
  PROVE  StreamInv'
<1> DEFINE Kept == ConnOK(conn') /\ OtherOK(conn', other', got_done')
<1>1. ASSUME WriteRequestDataBarrier PROVE Kept
  <2> DEFINE c == [conn EXCEPT !.call = "barrier", !.outcome = "none"]
  <2>1. /\ conn.call = "none" /\ conn' = Issue(SetTimer(c), "barrier")
        /\ UNCHANGED relay
    BY <1>1 DEF WriteRequestDataBarrier, Building
  <2>2. Ready(c) /\ CallFits("barrier", c.call) BY <2>1, GoOnReady DEF CallFits
  <2>3. other' \notin Special /\ got_done' = "none" BY <2>1, OthersFree DEF relay
  <2> HIDE DEF c
  <2> QED BY <2>1, <2>2, <2>3, IssueOK, FreeOther
<1>2. ASSUME BarrierDone PROVE Kept
  <2> DEFINE c == ClearTimer(Resumed)
             sent == IF Head(conn.queue) = "ok" THEN c.sent + 1 ELSE c.sent
  <2>1. Ready(c) /\ c.call = "barrier" /\ other \notin Special
    BY <1>2, CompletesReady DEF BarrierDone, CallFits
  <2>2. /\ conn' = [c EXCEPT !.sent = sent] /\ got_done' \in Results
        /\ other' \in {"resume", other}
    BY <1>2 DEF BarrierDone, Completes
  <2> HIDE DEF c, sent
  <2>3. Ready(conn') /\ conn'.call = "barrier"
    BY <2>1, <2>2, Fields DEF Ready, Over, IsConn, ByeOK
  <2>4. conn'.op = "none" /\ ConnOK(conn') BY <2>3, ReadyOver, OverOK DEF Ready, Over
  <2>5. "none" \notin Results BY DEF Results
  <2> QED BY <2>1, <2>2, <2>3, <2>4, <2>5 DEF OtherOK, Special
<1>3. ASSUME BarrierEnds, got_done # "none" PROVE Kept
  <2>1. Ready(conn) BY <1>3 DEF StreamInv, OtherOK, ConnOK, Ready, Over
  <2>2. /\ conn' = End(conn, "building") \/ conn' = checkTimeout(conn, got_done)
        /\ other' = "none" /\ got_done' = "none"
    BY <1>3 DEF BarrierEnds
  <2> QED BY <2>1, <2>2, EndsOK, FailedOK, FreeOther DEF Special
<1>4. ASSUME BarrierWait PROVE Kept
  <2>1. \/ got_done # "none" /\ BarrierEnds
        \/ UNCHANGED <<conn, other, got_done>>
    BY <1>4 DEF BarrierWait
  <2> QED BY <1>3, <2>1 DEF StreamInv
<1>5. ASSUME BarrierResumes PROVE Kept
  <2>1. got_done # "none" BY <1>5 DEF StreamInv, OtherOK, BarrierResumes
  <2> QED BY <1>3, <1>5, <2>1 DEF BarrierResumes
<1> QED BY <1>1, <1>2, <1>4, <1>5 DEF StreamInv

-------------------------------------------------------------------------------
(***************************************************************************)
(* What holds of the connection with all its calls.                        *)
(***************************************************************************)
LEMMA StreamStart == ASSUME StreamInit PROVE StreamInv
<1>1. conn = NewConn /\ other = "none" /\ got_done = "none" BY DEF StreamInit, Init
<1>2. IsConn(conn) /\ conn.op = "none" /\ conn.bye = FALSE /\ conn.call = "none"
  BY <1>1 DEF NewConn, IsConn
<1>3. Over(conn) BY <1>2 DEF Over, ByeOK
<1> QED BY <1>1, <1>3, OverOK, FreeOther DEF StreamInv, Special

LEMMA StreamStep == ASSUME StreamInv, [StreamNext]_svars PROVE StreamInv'
<1>1. CASE UNCHANGED svars BY <1>1 DEF svars, StreamInv
<1>2. CASE Next /\ UNCHANGED relay
  BY <1>2, UserInv, RunInv, ClockInv, KernelInv, ServerInv DEF Next
<1>3. CASE StreamCalls
  BY <1>3, SpliceInv, FromInv, BarrierInv DEF StreamCalls
<1>4. CASE Relaying BY <1>4, SpliceInv, FromInv, BarrierInv DEF Relaying
<1>5. CASE Elsewhere BY <1>5, SpliceInv, FromInv DEF Elsewhere
<1>6. CASE DestFull \/ DestFails BY <1>6, SpliceInv
<1>7. CASE FromFails BY <1>7, FromInv
<1>8. CASE CanSplice \/ CanWrite BY <1>8, ReadinessInv
<1>9. CASE BarrierWait \/ BarrierResumes BY <1>9, BarrierInv
<1> QED BY <1>1, <1>2, <1>3, <1>4, <1>5, <1>6, <1>7, <1>8, <1>9 DEF StreamNext

LEMMA StreamInvariant == StreamSpec => []StreamInv
BY StreamStart, StreamStep, PTL DEF StreamSpec

\* Whatever the coroutine waits for on its connection, it does not wait without a
\* limit: no path through the retries, the reconnects and the stale timeouts
\* leaves a wait whose timer is off (http_conn.cpp:109, :119).
THEOREM EveryWaitTimed == StreamSpec => []Timed
<1>1. StreamInv => Timed BY DEF StreamInv, ConnOK, TimedOK, TimeoutQueued, Timed
<1> QED BY <1>1, StreamInvariant, PTL

\* A connection whose server did not grant keep-alive carries no other request,
\* through any number of retries (http_conn.cpp:82, :306).
THEOREM ReuseNeedsKeepAlive == StreamSpec => []NotReused
<1>1. StreamInv => NotReused
  <2> SUFFICES ASSUME StreamInv, conn.op = "write", conn.bye PROVE FALSE BY DEF NotReused
  <2>1. conn.bye # TRUE BY DEF StreamInv, ConnOK, WriteOK
  <2> QED BY <2>1
<1> QED BY <1>1, StreamInvariant, PTL

\* A handler of the timer that runs after the Conn is destroyed finds it cleared
\* and does nothing (http_conn.cpp:78, :120).
THEOREM TimerDiesWithConn == StreamSpec => []DeadUntouched
<1>1. StreamInv => DeadUntouched
  BY DEF StreamInv, ConnOK, OpOK, DeadUntouched, IsTimeout
<1> QED BY <1>1, StreamInvariant, PTL

-------------------------------------------------------------------------------
\* Sequences written out.
LEMMA Pairs ==
  ASSUME NEW a \in Handlers, NEW b \in Handlers
  PROVE  Append(<<>>, a) = <<a>> /\ Append(<<a>>, b) = <<a, b>>
<1>1. <<a>> \in Seq(Handlers) /\ <<a, b>> \in Seq(Handlers) OBVIOUS
<1>2. /\ Append(<<a>>, b) \in Seq(Handlers) /\ Len(Append(<<a>>, b)) = 2
      /\ Append(<<a>>, b)[1] = a /\ Append(<<a>>, b)[2] = b
  BY <1>1, AppendProperties
<1>3. Len(<<a, b>>) = 2 /\ <<a, b>>[1] = a /\ <<a, b>>[2] = b OBVIOUS
<1>4. \A i \in 1..2 : i = 1 \/ i = 2 OBVIOUS
<1>5. Append(<<>>, a) = <<a>> OBVIOUS
<1> QED BY <1>1, <1>2, <1>3, <1>4, <1>5, SeqEqual

LEMMA Triples ==
  ASSUME NEW a \in Handlers, NEW b \in Handlers, NEW c \in Handlers
  PROVE  Append(<<a, b>>, c) = <<a, b, c>>
<1>1. <<a, b>> \in Seq(Handlers) /\ <<a, b, c>> \in Seq(Handlers) OBVIOUS
<1>2. /\ Append(<<a, b>>, c) \in Seq(Handlers) /\ Len(Append(<<a, b>>, c)) = 3
      /\ Append(<<a, b>>, c)[1] = a /\ Append(<<a, b>>, c)[2] = b
      /\ Append(<<a, b>>, c)[3] = c
  BY <1>1, AppendProperties
<1>3. Len(<<a, b, c>>) = 3 /\ <<a, b, c>>[1] = a /\ <<a, b, c>>[2] = b /\ <<a, b, c>>[3] = c
  OBVIOUS
<1>4. \A i \in 1..3 : i = 1 \/ i = 2 \/ i = 3 OBVIOUS
<1> QED BY <1>1, <1>2, <1>3, <1>4, SeqEqual

T == "timeout"
Quiet(c) == c.queue = <<>> \/ (c.queue = <<T>> /\ c.timer \in {"past", "off"})
Bare(c) ==
  \/ c.timer \in {"armed", "late"} /\ c.queue \in {<<>>, <<T>>}
  \/ c.timer = "past" /\ c.queue \in {<<>>, <<T>>, <<T, T>>}
Holds(c, r) ==
  \/ c.timer \in {"armed", "late"} /\ c.queue \in {<<r>>, <<T, r>>}
  \/ c.timer = "past" /\ c.queue \in {<<r>>, <<T, r>>, <<T, T, r>>, <<r, T>>, <<T, r, T>>}
QueueOK(c) ==
  IF c.op = "none" THEN Quiet(c) ELSE Bare(c) \/ \E r \in Results : Holds(c, r)

LEMMA TimeoutNoResult == T \notin Results /\ T \in Handlers /\ Results \subseteq Handlers
  BY DEF T, Results, Handlers

LEMMA HeadsAndTails ==
  ASSUME NEW r
  PROVE  /\ Tail(<<r>>) = <<>> /\ Tail(<<T>>) = <<>>
         /\ Tail(<<T, r>>) = <<r>> /\ Tail(<<r, T>>) = <<T>> /\ Tail(<<T, T>>) = <<T>>
         /\ Tail(<<T, T, r>>) = <<T, r>> /\ Tail(<<T, r, T>>) = <<r, T>>
         /\ Head(<<r>>) = r /\ Head(<<T>>) = T
         /\ Head(<<T, r>>) = T /\ Head(<<r, T>>) = r /\ Head(<<T, T>>) = T
         /\ Head(<<T, T, r>>) = T /\ Head(<<T, r, T>>) = T
  OBVIOUS

\* What is in the queue.
Queued(c, h) == \E i \in DOMAIN c.queue : c.queue[i] = h
LEMMA QueuedNow ==
  ASSUME NEW c
  PROVE  /\ Quiet(c) \/ Bare(c) => \A h : Queued(c, h) => h = T
         /\ \A r : Holds(c, r) => Queued(c, r) /\ \A h : Queued(c, h) => h \in {r, T}
<1> DEFINE Of(q, S) == \A i \in DOMAIN q : q[i] \in S
           In(q, h) == \E i \in DOMAIN q : q[i] = h
<1>1. Of(<<>>, {T}) /\ Of(<<T>>, {T}) /\ Of(<<T, T>>, {T}) OBVIOUS
<1>2. ASSUME NEW r
      PROVE /\ Of(<<r>>, {r, T}) /\ Of(<<T, r>>, {r, T}) /\ Of(<<T, T, r>>, {r, T})
            /\ Of(<<r, T>>, {r, T}) /\ Of(<<T, r, T>>, {r, T})
  OBVIOUS
<1>3. ASSUME NEW r
      PROVE In(<<r>>, r) /\ In(<<T, r>>, r) /\ In(<<T, T, r>>, r) /\ In(<<r, T>>, r)
            /\ In(<<T, r, T>>, r)
  <2>1. 1 \in DOMAIN <<r>> /\ 2 \in DOMAIN <<T, r>> /\ 3 \in DOMAIN <<T, T, r>>
        /\ 1 \in DOMAIN <<r, T>> /\ 2 \in DOMAIN <<T, r, T>>
    OBVIOUS
  <2>2. <<r>>[1] = r /\ <<T, r>>[2] = r /\ <<T, T, r>>[3] = r /\ <<r, T>>[1] = r
        /\ <<T, r, T>>[2] = r
    OBVIOUS
  <2> QED BY <2>1, <2>2, Zenon
<1>4. \A h : Queued(c, h) <=> In(c.queue, h) BY DEF Queued
<1>5. \A S, h : Of(c.queue, S) /\ In(c.queue, h) => h \in S BY Zenon
<1> HIDE DEF Of, In
<1>6. ASSUME Quiet(c) \/ Bare(c) PROVE \A h : Queued(c, h) => h = T
  <2>1. c.queue \in {<<>>, <<T>>, <<T, T>>} BY <1>6, Zenon DEF Quiet, Bare
  <2>2. Of(c.queue, {T}) BY <1>1, <2>1, Zenon
  <2> QED BY <1>4, <1>5, <2>2, Zenon
<1>7. ASSUME NEW r, Holds(c, r) PROVE Queued(c, r) /\ \A h : Queued(c, h) => h \in {r, T}
  <2>1. c.queue \in {<<r>>, <<T, r>>, <<T, T, r>>, <<r, T>>, <<T, r, T>>}
    BY <1>7, Zenon DEF Holds
  <2>2. Of(c.queue, {r, T}) /\ In(c.queue, r) BY <1>2, <1>3, <2>1, Zenon
  <2> QED BY <1>4, <1>5, <2>2, Zenon
<1> QED BY <1>6, <1>7, Zenon

LEMMA OneResult ==
  ASSUME NEW c
  PROVE  /\ \A r \in Results : Holds(c, r) =>
              /\ ~Bare(c) /\ ~Quiet(c) /\ ~Pending(c)
              /\ \A o \in Results : Holds(c, o) => o = r
         /\ Bare(c) /\ c.op # "none" => Pending(c)
<1>1. \A r \in Results : Queued(c, r) => ~Pending(c) BY Zenon DEF Queued, Pending
<1>2. Bare(c) /\ c.op # "none" => Pending(c)
  BY QueuedNow, TimeoutNoResult, Zenon DEF Queued, Pending
<1> QED BY <1>1, <1>2, QueuedNow, TimeoutNoResult, Zenon

LEMMA QuietArmed ==
  ASSUME NEW c, NEW d, Quiet(c), d.timer = "armed", NEW r \in Results
  PROVE  /\ d.queue = c.queue => Bare(d)
         /\ d.queue = Append(c.queue, r) => Holds(d, r)
  BY Pairs, TimeoutNoResult, Zenon DEF Holds, Bare, Quiet

LEMMA BareEnds ==
  ASSUME NEW c, NEW d, Bare(c), d.timer = c.timer, NEW r \in Results,
         d.queue = Append(c.queue, r)
  PROVE  Holds(d, r)
  BY Pairs, Triples, TimeoutNoResult, Zenon DEF Holds, Bare

LEMMA TakeResult ==
  ASSUME NEW c, NEW d, d.timer = c.timer, NEW r \in Results, Holds(c, r),
         Head(c.queue) \in Results, d.queue = Tail(c.queue)
  PROVE  Head(c.queue) = r /\ Quiet(d)
  BY HeadsAndTails, TimeoutNoResult, ZenonT(60) DEF Holds, Quiet

LEMMA TakeTimeout ==
  ASSUME NEW c, NEW d, d.timer = c.timer, d.queue = Tail(c.queue), Head(c.queue) = T,
         c.queue # <<>>
  PROVE  /\ Quiet(c) => Quiet(d)
         /\ Bare(c) => Bare(d)
         /\ \A r \in Results : Holds(c, r) => Holds(d, r)
<1>1. Quiet(c) => Quiet(d) BY HeadsAndTails, Zenon DEF Quiet
<1>2. Bare(c) => Bare(d) BY HeadsAndTails, Zenon DEF Bare
<1>3. ASSUME NEW r \in Results, Holds(c, r) PROVE Holds(d, r)
  <2>1. r # T BY TimeoutNoResult
  <2>2. c.queue \in {<<T, r>>, <<T, T, r>>, <<T, r, T>>}
    BY <1>3, <2>1, HeadsAndTails, Zenon DEF Holds
  <2>3. d.queue \in {<<r>>, <<T, r>>, <<r, T>>} BY <2>2, HeadsAndTails, Zenon
  <2>4. c.timer \in {"armed", "late"} => c.queue = <<T, r>>
    BY <1>3, <2>1, HeadsAndTails, Zenon DEF Holds
  <2> QED BY <1>3, <2>3, <2>4, HeadsAndTails, Zenon DEF Holds
<1> QED BY <1>1, <1>2, <1>3

LEMMA QueueTimeout ==
  ASSUME NEW c, NEW d, c.timer = "late", d.timer = "past", d.queue = Append(c.queue, T)
  PROVE  /\ Quiet(c) => Quiet(d)
         /\ Bare(c) => Bare(d)
         /\ \A r \in Results : Holds(c, r) => Holds(d, r)
<1>1. Quiet(c) => Quiet(d) BY Pairs, TimeoutNoResult, Zenon DEF Quiet
<1>2. Bare(c) => Bare(d) BY Pairs, TimeoutNoResult, Zenon DEF Bare
<1>3. ASSUME NEW r \in Results, Holds(c, r) PROVE Holds(d, r)
  <2>1. c.queue \in {<<r>>, <<T, r>>} BY <1>3, Zenon DEF Holds
  <2>2. d.queue \in {<<r, T>>, <<T, r, T>>} BY <2>1, Pairs, Triples, TimeoutNoResult, Zenon
  <2> QED BY <2>2, Zenon DEF Holds
<1> QED BY <1>1, <1>2, <1>3

LEMMA ShortQueue ==
  ASSUME NEW c, QueueOK(c)
  PROVE  Len(c.queue) <= 3
<1>1. \A a, b, d : Len(<<a>>) <= 3 /\ Len(<<a, b>>) <= 3 /\ Len(<<a, b, d>>) <= 3 /\ Len(<<>>) <= 3
  OBVIOUS
<1> QED BY <1>1, Zenon DEF Holds, Quiet, Bare, QueueOK

LEMMA HeadIs ==
  ASSUME NEW c, QueueOK(c), c.queue # <<>>
  PROVE  \/ Head(c.queue) = T
         \/ c.op # "none" /\ Head(c.queue) \in Results /\ Holds(c, Head(c.queue))
<1>1. Quiet(c) \/ Bare(c) => Head(c.queue) = T BY HeadsAndTails, Zenon DEF Quiet, Bare
<1>2. ASSUME NEW r \in Results, Holds(c, r) PROVE Head(c.queue) \in {T, r}
  BY <1>2, HeadsAndTails, Zenon DEF Holds
<1> QED BY <1>1, <1>2, Zenon DEF QueueOK

-------------------------------------------------------------------------------
(***************************************************************************)
(* The state of a connection, field by field.                              *)
(***************************************************************************)
AllFields == {"sock", "must_reconnect", "timer", "queue", "call", "op", "after", "tries",
              "post_tries", "size", "sent", "null", "can_recall", "got", "left",
              "count", "due", "inbox", "body", "owed", "outcome", "served", "reply", "cause", "bye"}
Calls == {"none", "gone", "GET", "HEAD", "open", "POST", "headers", "data", "answer",
          "preload", "stream", "peek", "connect", "barrier", "tee", "wsplice", "splice"}
Ops == OwnOps \cup {"none", "barrier", "room", "in"}
Outcomes == Errors \cup {"none", "building", "answered", "connected", "unforwarded"}
Answers == Heads \cup {NoHead, BadHead}
Socks == {"closed", "connecting", "alive", "fin", "reset", "refused", "foul"}
Replies == {"none", "asked", "given", "foul"}
Causes == {"none", "dropped", "foul", "other"}
Allowed ==
  [sock |-> Socks,
   must_reconnect |-> BOOLEAN, timer |-> {"off", "armed", "late", "past"},
   queue |-> Seq(Handlers), call |-> Calls, op |-> Ops,
   after |-> {"none", "write", "retry", "post", "repost", "user", "return", "null"},
   tries |-> 0 .. max_send_try, post_tries |-> 0 .. max_send_try,
   size |-> 0 .. MaxData, sent |-> 0 .. MaxData, null |-> BOOLEAN, can_recall |-> BOOLEAN,
   got |-> Answers, left |-> 0 .. MaxBody, count |-> 0 .. MaxBody, due |-> BOOLEAN, inbox |-> Answers,
   body |-> 0 .. MaxBody, owed |-> 0 .. MaxBody, outcome |-> Outcomes, served |-> Nat,
   reply |-> Replies, cause |-> Causes,
   bye |-> BOOLEAN]
Typed(c) == IsRec(c) /\ \A f \in AllFields : c[f] \in Allowed[f]

\* The two agree on all fields but some.
Agree(c, d, S) == \A f \in AllFields \ S : d[f] = c[f]

LEMMA FieldsAll == DOMAIN NewConn = AllFields BY DEF NewConn, AllFields

LEMMA Bounds ==
  max_send_try \in Nat /\ max_send_try > 1 /\ MaxData \in Nat /\ MaxBody \in Nat
  BY TriesPositive, BoundsTyped

LEMMA FieldTypes ==
  ASSUME NEW c, Typed(c)
  PROVE  /\ c.sock \in Socks
         /\ c.timer \in {"off", "armed", "late", "past"} /\ c.queue \in Seq(Handlers)
         /\ c.call \in Calls /\ c.op \in Ops
         /\ c.after \in {"none", "write", "retry", "post", "repost", "user", "return", "null"}
         /\ c.tries \in 0 .. max_send_try /\ c.post_tries \in 0 .. max_send_try
         /\ c.size \in 0 .. MaxData /\ c.sent \in 0 .. MaxData /\ c.null \in BOOLEAN
         /\ c.got \in Answers /\ c.left \in 0 .. MaxBody /\ c.count \in 0 .. MaxBody
         /\ c.due \in BOOLEAN /\ c.inbox \in Answers /\ c.body \in 0 .. MaxBody /\ c.owed \in 0 .. MaxBody
         /\ c.outcome \in Outcomes /\ c.served \in Nat
         /\ c.reply \in Replies
         /\ c.cause \in Causes /\ c.bye \in BOOLEAN
         /\ c.must_reconnect \in BOOLEAN /\ c.can_recall \in BOOLEAN
  BY SMT DEF Typed, AllFields, Allowed

\* One that agrees with a typed one on all but typed fields is typed.
LEMMA AgreeTyped ==
  ASSUME NEW c, Typed(c), NEW d, IsRec(d), NEW S, Agree(c, d, S),
         \A f \in S : d[f] \in Allowed[f]
  PROVE  Typed(d)
  BY Zenon DEF Typed, Agree

LEMMA AllowedFields ==
  /\ Allowed["sock"] = Socks
  /\ Allowed["timer"] = {"off", "armed", "late", "past"} /\ Allowed["queue"] = Seq(Handlers)
  /\ Allowed["call"] = Calls /\ Allowed["op"] = Ops
  /\ Allowed["after"] = {"none", "write", "retry", "post", "repost", "user", "return", "null"}
  /\ Allowed["tries"] = 0 .. max_send_try /\ Allowed["post_tries"] = 0 .. max_send_try
  /\ Allowed["size"] = 0 .. MaxData /\ Allowed["sent"] = 0 .. MaxData
  /\ Allowed["null"] = BOOLEAN /\ Allowed["can_recall"] = BOOLEAN
  /\ Allowed["got"] = Answers /\ Allowed["left"] = 0 .. MaxBody
  /\ Allowed["count"] = 0 .. MaxBody /\ Allowed["due"] = BOOLEAN
  /\ Allowed["inbox"] = Answers /\ Allowed["body"] = 0 .. MaxBody
  /\ Allowed["owed"] = 0 .. MaxBody /\ Allowed["outcome"] = Outcomes
  /\ Allowed["served"] = Nat /\ Allowed["reply"] = Replies
  /\ Allowed["cause"] = Causes /\ Allowed["bye"] = BOOLEAN
  /\ Allowed["must_reconnect"] = BOOLEAN
  BY DEF Allowed

\* The body that is to come after a head.
LengthOf(h, call) == IF call = "HEAD" THEN 0 ELSE h.length - h.with
LEMMA AnswerLength ==
  ASSUME NEW h \in Answers, NEW call
  PROVE  /\ h.length \in 0 .. MaxBody /\ h.with \in 0 .. MaxBody
         /\ h.length - h.with \in 0 .. MaxBody /\ LengthOf(h, call) \in 0 .. MaxBody
<1>1. CASE h \in Heads
  <2>1. h.length \in 0 .. MaxBody /\ h.with \in 0 .. MaxBody /\ h.with <= h.length
    BY <1>1 DEF Heads
  <2>2. h.length - h.with \in 0 .. MaxBody /\ 0 \in 0 .. MaxBody BY <2>1, Bounds
  <2> QED BY <2>1, <2>2 DEF LengthOf
<1>2. CASE h \in {NoHead, BadHead}
  <2>1. h.length = 0 /\ h.with = 0 BY <1>2 DEF NoHead, BadHead
  <2>2. 0 \in 0 .. MaxBody /\ 0 - 0 = 0 BY Bounds
  <2> QED BY <2>1, <2>2 DEF LengthOf
<1> QED BY <1>1, <1>2 DEF Answers

LEMMA HeadsDiffer == NoHead # BadHead /\ \A h \in Heads : h # NoHead /\ h # BadHead
<1>1. NoHead.kind = "none" /\ BadHead.kind = "bad" /\ \A h \in Heads : h.kind = "head"
  BY DEF NoHead, BadHead, Heads
<1> QED BY <1>1

-------------------------------------------------------------------------------
(***************************************************************************)
(* The request, its answer and the connection they are on.                 *)
(***************************************************************************)
Up(c) == c.sock \in {"alive", "fin"}
Down(c) == c.sock \in {"closed", "fin", "reset", "refused", "foul"}
Blamed(c) == Down(c) => c.cause # "none"
InTime(c) == IsTimeout(c) => c.cause # "none"
Busy(c) == c.call \notin {"none", "gone"} \/ c.outcome = "building" \/ c.left > 0

\* Nothing of an exchange is on the connection, or would be if it were open.
Clean(c) == ~c.due /\ c.inbox = NoHead /\ c.body = 0 /\ c.owed = 0
CleanIfUp(c) == Up(c) => Clean(c)

\* The server has sent, or has still to send, n chunks of a body: unless the
\* connection is open, the rest may never come.
Fits(c, n) == c.body + c.owed <= n /\ (c.sock = "alive" => c.body + c.owed = n)

\* An answer is there: the server's, or whatever comes from a foul connection.
Given == {"given", "foul"}

\* The answer is asked for and not read yet, its head is read, n chunks of its
\* body are left.  How much follows a bad head is not known.
Unread(c) ==
  /\ c.left = 0
  /\ c.inbox = NoHead => c.body = 0 /\ c.owed = 0
  /\ c.inbox # NoHead => c.reply = "given"
  /\ c.inbox \notin {NoHead, BadHead} => Fits(c, LengthOf(c.inbox, c.call))
  /\ c.sock = "alive" => c.due \/ c.inbox # NoHead
  /\ c.inbox = BadHead => c.cause # "none"
HeadRead(c) ==
  /\ c.left = 0 /\ c.got # NoHead /\ c.inbox = NoHead /\ ~c.due /\ c.reply \in Given
  /\ c.got # BadHead => Fits(c, LengthOf(c.got, c.call))
  /\ c.got = BadHead => c.cause # "none"
BodyLeft(c, n) == c.inbox = NoHead /\ ~c.due /\ c.reply \in Given /\ Fits(c, n)

\* A connection that was broken before the request is the first it is tried on.
Excused(c) ==
  Down(c) => c.cause # "none" \/ (c.sock \in {"reset", "refused"} /\ c.tries = 1)

(***************************************************************************)
(* Where the coroutine is: what it waits for, and whether that has ended   *)
(* well (ok).                                                              *)
(***************************************************************************)
RequestCalls == {"GET", "HEAD", "open", "POST"}
AtConnect(c) ==
  /\ c.call \in RequestCalls \cup {"headers", "connect"} /\ Blamed(c)
  /\ Clean(c) /\ c.reply = "none" /\ c.served = 0 /\ c.left = 0
  /\ c.after \in Afters
  /\ c.after = "user" <=> c.call = "connect"
  /\ c.after \in {"post", "repost"} => c.call = "POST"
  /\ c.after # "repost" => c.sent = 0
  /\ c.after = "repost" => c.cause # "none"
  /\ c.after = "retry" => c.cause # "none" \/ c.tries = 1

AtWrite(c, ok) ==
  /\ c.call \in RequestCalls \cup {"headers"} /\ c.sent = 0 /\ c.left = 0
  /\ ok => Unread(c) /\ Blamed(c) /\ (c.size > 0 => c.served = 0)
  /\ ~ok => c.served = 0 /\ c.reply \in {"none", "foul"} /\ CleanIfUp(c) /\ Excused(c)

AtWait(c) == c.call \in {"GET", "HEAD", "open"} /\ Blamed(c) /\ Unread(c)

\* The second wait of a POST that ends by a NULL.
Again(c) == c.null /\ c.after = "return"
AtHead(c, ok) ==
  /\ c.call \in RequestCalls \cup {"answer"} /\ Blamed(c)
  /\ ok => HeadRead(c)
  /\ ~ok => IF Again(c) THEN Clean(c) /\ c.left = 0 ELSE Unread(c)

AtBody(c, ok) ==
  /\ c.call \in {"GET", "POST", "answer", "stream", "peek"} /\ Blamed(c) /\ c.left > 0
  /\ ok => BodyLeft(c, c.left - 1)
  /\ ~ok => BodyLeft(c, c.left)

AtPreload(c, ok) ==
  /\ c.call = "preload" /\ Blamed(c) /\ 0 < c.count /\ c.count <= c.left
  /\ ok => BodyLeft(c, c.left - c.count)
  /\ ~ok => BodyLeft(c, c.left)

\* A piece of the request is being written.
Piece(c, ok) ==
  Unread(c) /\ c.sent < c.size /\ (~ok \/ c.sent + 1 < c.size => c.served = 0)
\* The empty write of a body that is empty.
Empty(c, ok) == c.call = "POST" /\ ~c.null /\ c.size = 0 /\ ok /\ Unread(c)
AtData(c, ok) ==
  /\ c.call \in {"data", "POST"} /\ Blamed(c)
  /\ c.after = "null" => Clean(c) /\ c.left = 0 /\ ok
  /\ c.after # "null" => Piece(c, ok) \/ Empty(c, ok)
AtBarrier(c, ok) == c.call = "barrier" /\ Blamed(c) /\ Piece(c, ok)
AtRoom(c) == c.call \in {"tee", "wsplice"} /\ Blamed(c) /\ Piece(c, FALSE)
AtIn(c, ok) ==
  /\ c.call = "splice" /\ Blamed(c) /\ BodyLeft(c, c.left) /\ c.left > 0
  /\ ok => c.body > 0 \/ c.sock # "alive"

\* Nothing of the connection: the caller has the word, or another socket has.
AtNone(c) ==
  /\ c.call \in {"none", "gone", "splice", "tee", "wsplice", "barrier"}
  /\ c.call = "none" =>
       /\ c.outcome = "building" =>
            Unread(c) /\ Blamed(c) /\ (c.sent < c.size => c.served = 0)
       /\ c.outcome # "building" /\ c.left > 0 => BodyLeft(c, c.left) /\ Blamed(c)
       /\ c.outcome # "building" /\ c.left = 0 => CleanIfUp(c)
  /\ c.call = "gone" => c.sock = "closed" /\ c.left = 0
  /\ c.call = "splice" => BodyLeft(c, c.left) /\ Blamed(c)
  /\ c.call \in {"tee", "wsplice"} => Piece(c, FALSE) /\ Blamed(c)
  /\ c.call = "barrier" => Unread(c) /\ Blamed(c) /\ (c.sent < c.size => c.served = 0)

Place(op, c, ok) ==
  /\ op = "none" => AtNone(c)
  /\ op = "connect" => AtConnect(c)
  /\ op = "write" => AtWrite(c, ok)
  /\ op = "wait" => AtWait(c)
  /\ op = "head" => AtHead(c, ok)
  /\ op = "body" => AtBody(c, ok)
  /\ op = "preload" => AtPreload(c, ok)
  /\ op = "data" => AtData(c, ok)
  /\ op = "barrier" => AtBarrier(c, ok)
  /\ op = "room" => AtRoom(c)
  /\ op = "in" => AtIn(c, ok)

(***************************************************************************)
(* What holds wherever it is.                                              *)
(***************************************************************************)
Network(c) ==
  /\ c.sock \in {"closed", "connecting"} => Clean(c)
  /\ c.due => /\ c.sock = "alive" /\ c.inbox = NoHead /\ c.body = 0 /\ c.owed = 0
              /\ c.reply = "asked"
  /\ c.owed > 0 => c.sock = "alive"
  /\ c.sock = "foul" => Clean(c) /\ c.reply = "foul"
  /\ c.sock = "alive" => c.reply # "foul"
  /\ c.body + c.owed <= MaxBody

Request(c) ==
  /\ c.served <= 1 /\ c.sent <= c.size
  /\ c.null => c.call = "POST"
  /\ c.after = "null" => c.call = "POST" /\ c.null /\ c.sent = c.size
  /\ c.call # "none" => c.outcome = "none"
  /\ c.outcome \in Errors => c.cause # "none"
  /\ c.outcome = "answered" => c.reply \in Given
  /\ (c.call = "none" /\ c.outcome # "building") \/
     c.call \in {"gone", "connect", "stream", "peek", "preload", "splice"}
       => c.sent = 0 /\ c.size = 0

\* An operation that has failed, and how it is left.
Broke(c, ec) ==
  /\ ec # "ok" => Down(c) /\ CleanIfUp(c)
  /\ ec = "aborted" => c.sock = "closed"

OpSound(c) ==
  /\ c.sock = "connecting" <=> c.op = "connect" /\ Bare(c)
  /\ \A r \in Results : Holds(c, r) => Broke(c, r)
  /\ c.after = "null" => c.op \in {"head", "body", "data"}
  /\ c.call \in {"none", "gone"} =>
       c.op = "none" /\ c.tries = 0 /\ c.post_tries = 0 /\ c.after = "none"
  /\ Busy(c) => InTime(c)

WorkOK(c) ==
  /\ Typed(c) /\ QueueOK(c) /\ Network(c) /\ Request(c) /\ OpSound(c)
  /\ Place(c.op, c, Holds(c, "ok"))

\* While the coroutine runs.
Running(c) ==
  /\ Typed(c) /\ Network(c) /\ Request(c) /\ Quiet(c)
  /\ c.op = "none" /\ c.sock # "connecting" /\ c.call \notin {"none", "gone"}

RelayOK ==
  /\ pipe \in Nat /\ pipe + conn.left <= MaxBody
  /\ pipe > 0 => conn.call = "splice"
  /\ other = "out" => pipe > 0
  /\ other = "dest" => conn.left > 0 /\ pipe = 0
  /\ got_done \in {"error", "aborted"} => Broke(conn, got_done)
  /\ other \in {"none", "dest", "out", "from", "resume"} /\ is_suspended \in BOOLEAN
  /\ got_done \in Results \cup {"none"}
WorkInv == WorkOK(conn) /\ RelayOK

\* One state of the connection takes the place of another while the coroutine
\* stays where it is.
SamePoint(c, d) ==
  /\ d.call = c.call /\ d.after = c.after /\ d.tries = c.tries /\ d.left = c.left
  /\ d.count = c.count /\ d.size = c.size /\ d.sent = c.sent /\ d.served = c.served /\ d.null = c.null
  /\ d.outcome = c.outcome
Carries(c, d) ==
  /\ SamePoint(c, d)
  /\ Unread(c) => Unread(d)
  /\ HeadRead(c) => HeadRead(d)
  /\ \A n \in {0, c.left, c.left - 1, c.left - c.count} : BodyLeft(c, n) => BodyLeft(d, n)
  /\ Clean(c) => Clean(d)
  /\ CleanIfUp(c) => CleanIfUp(d)
  /\ Busy(c) => (Blamed(c) => Blamed(d)) /\ (Excused(c) => Excused(d))
  /\ c.reply \in {"none", "foul"} => d.reply = c.reply
  /\ c.cause # "none" => d.cause # "none"
  /\ c.body > 0 \/ c.sock # "alive" => d.body > 0 \/ d.sock # "alive"
  /\ c.sock = "closed" => d.sock = "closed"

LEMMA PlaceCarried ==
  ASSUME NEW c, NEW d, Carries(c, d), NEW op, NEW ok, Place(op, c, ok)
  PROVE  Place(op, d, ok)
<1> USE DEF Carries, SamePoint
<1>1. Piece(c, ok) => Piece(d, ok)
  BY SMT DEF Piece
<1>2. ASSUME op = "none" PROVE AtNone(d)
  BY <1>2, SMT DEF Place, AtNone, Busy, Piece
<1>3. ASSUME op = "connect" PROVE AtConnect(d)
  BY <1>3, SMT DEF Place, AtConnect, Busy, RequestCalls
<1>4. ASSUME op = "write" PROVE AtWrite(d, ok)
  BY <1>4, SMT DEF Place, AtWrite, Busy, RequestCalls
<1>5. ASSUME op = "wait" PROVE AtWait(d)
  BY <1>5, SMT DEF Place, AtWait, Busy
<1>6. ASSUME op = "head" PROVE AtHead(d, ok)
  BY <1>6, SMT DEF Place, AtHead, Busy, Again, RequestCalls
<1>7. ASSUME op = "body" PROVE AtBody(d, ok)
  BY <1>7, SMT DEF Place, AtBody, Busy
<1>8. ASSUME op = "preload" PROVE AtPreload(d, ok)
  BY <1>8, SMT DEF Place, AtPreload, Busy
<1>13. Empty(c, ok) => Empty(d, ok) BY SMT DEF Empty
<1>9. ASSUME op = "data" PROVE AtData(d, ok)
  BY <1>9, <1>1, <1>13, SMT DEF Place, AtData, Busy
<1>10. ASSUME op = "barrier" PROVE AtBarrier(d, ok)
  BY <1>10, <1>1, SMT DEF Place, AtBarrier, Busy
<1>11. ASSUME op = "room" PROVE AtRoom(d)
  BY <1>11, SMT DEF Place, AtRoom, Busy, Piece
<1>12. ASSUME op = "in" PROVE AtIn(d, ok)
  BY <1>12, SMT DEF Place, AtIn, Busy
<1> QED BY <1>2, <1>3, <1>4, <1>5, <1>6, <1>7, <1>8, <1>9, <1>10, <1>11, <1>12, Zenon
        DEF Place

\* What the place of the coroutine does not depend on.
Aside == {"timer", "queue", "op", "must_reconnect", "bye", "can_recall", "post_tries"}
LEMMA SameCore ==
  ASSUME NEW c, NEW d, Agree(c, d, Aside)
  PROVE  /\ SamePoint(c, d) /\ d.sock = c.sock /\ d.cause = c.cause /\ d.got = c.got
         /\ d.due = c.due /\ d.inbox = c.inbox /\ d.body = c.body /\ d.owed = c.owed
         /\ d.reply = c.reply
  BY SMT DEF Agree, Aside, AllFields, SamePoint

LEMMA SamePlace ==
  ASSUME NEW c, NEW d, Agree(c, d, Aside), NEW op, NEW ok
  PROVE  /\ Carries(c, d) /\ (Place(op, c, ok) => Place(op, d, ok))
         /\ Network(c) => Network(d)
         /\ Request(c) => Request(d)
         /\ \A ec : Broke(c, ec) => Broke(d, ec)
         /\ Busy(d) <=> Busy(c)
<1>1. Carries(c, d)
  BY SameCore, SMT DEF Unread, HeadRead, BodyLeft, Clean, Blamed, Down, Up, Excused, CleanIfUp,
     Fits, Carries, SamePoint
<1>2. Network(c) => Network(d) BY SameCore, <1>1, SMT DEF Network, Carries
<1>3. Request(c) => Request(d) BY SameCore, SMT DEF Request, SamePoint
<1>4. \A ec : Broke(c, ec) => Broke(d, ec) BY SameCore, <1>1, SMT DEF Broke, Down, Carries
<1>5. Busy(d) <=> Busy(c) BY SameCore, SMT DEF Busy, SamePoint
<1> QED BY <1>1, <1>2, <1>3, <1>4, <1>5, PlaceCarried

LEMMA PlaceWhen ==
  ASSUME NEW op, NEW c, NEW ok, NEW now, ok <=> now, Place(op, c, ok) PROVE Place(op, c, now)
<1>1. Piece(c, ok) => Piece(c, now) BY Zenon DEF Piece
<1> QED BY <1>1, Zenon DEF Place, AtWrite, AtHead, AtBody, AtPreload, AtData, AtBarrier, AtIn

(***************************************************************************)
(* What each step of a method does to the fields.                          *)
(***************************************************************************)
LEMMA SetTimerIs ==
  ASSUME NEW c, IsRec(c), NEW d, d = SetTimer(c)
  PROVE  IsRec(d) /\ d.timer = "armed" /\ Agree(c, d, {"timer"})
  BY Fields, FieldsAll, Zenon DEF SetTimer, IsRec, Agree

LEMMA ClearTimerIs ==
  ASSUME NEW c, IsRec(c), NEW d, d = ClearTimer(c)
  PROVE  IsRec(d) /\ d.timer = "off" /\ Agree(c, d, {"timer"})
  BY Fields, FieldsAll, Zenon DEF ClearTimer, IsRec, Agree

LEMMA IssueIs ==
  ASSUME NEW c, IsRec(c), NEW op, NEW d, d = Issue(c, op)
  PROVE  /\ IsRec(d) /\ d.op = op /\ Agree(c, d, {"op", "queue"})
         /\ d.queue = IF c.sock = "closed" THEN Append(c.queue, "error") ELSE c.queue
  BY Fields, FieldsAll, Zenon DEF Issue, IsRec, Agree

LEMMA CloseIs ==
  ASSUME NEW c, IsRec(c), NEW d, d = Close(c)
  PROVE  /\ IsRec(d) /\ d.sock = "closed"
         /\ Agree(c, d, {"sock", "due", "inbox", "body", "owed", "queue"})
         /\ c.sock = "closed" => d = c
         /\ c.sock # "closed" =>
              d.due = FALSE /\ d.inbox = NoHead /\ d.body = 0 /\ d.owed = 0
         /\ d.queue = IF Pending(c) /\ c.sock # "closed" THEN Append(c.queue, "aborted") ELSE c.queue
<1>1. CASE c.sock = "closed" BY <1>1, Zenon DEF Close, Agree
<1>2. CASE c.sock # "closed"
  <2> DEFINE q == IF Pending(c) THEN Append(c.queue, "aborted") ELSE c.queue
  <2>1. d = [c EXCEPT !.sock = "closed", !.due = FALSE, !.inbox = NoHead,
                      !.body = 0, !.owed = 0, !.queue = q]
    BY <1>2 DEF Close
  <2> HIDE DEF q
  <2>2. /\ IsRec(d) /\ d.sock = "closed" /\ d.queue = q
        /\ d.due = FALSE /\ d.inbox = NoHead /\ d.body = 0 /\ d.owed = 0
        /\ Agree(c, d, {"sock", "due", "inbox", "body", "owed", "queue"})
    BY <2>1, Fields, FieldsAll, ZenonT(60) DEF IsRec, Agree
  <2> QED BY <1>2, <2>2, Zenon DEF q
<1> QED BY <1>1, <1>2

EndFields == {"call", "after", "outcome", "tries", "post_tries", "got", "count", "null",
              "can_recall"}
LEMMA EndIs ==
  ASSUME NEW c, IsRec(c), NEW outcome, NEW d, d = End(c, outcome)
  PROVE  /\ IsRec(d) /\ d.call = "none" /\ d.after = "none" /\ d.outcome = outcome
         /\ d.tries = 0 /\ d.post_tries = 0 /\ d.got = NoHead /\ d.count = 0
         /\ d.null = FALSE /\ d.can_recall = FALSE
         /\ Agree(c, d, EndFields)
  BY Fields, FieldsAll, Zenon DEF End, IsRec, Agree, EndFields

LEMMA AgreeStep ==
  ASSUME NEW c, NEW d, NEW e, NEW S, NEW R, Agree(c, d, S), Agree(d, e, R)
  PROVE  Agree(c, e, S \cup R)
  BY Zenon DEF Agree

LEMMA AgreeMore ==
  ASSUME NEW c, NEW d, NEW S, NEW R, Agree(c, d, S), S \subseteq R PROVE Agree(c, d, R)
  BY Zenon DEF Agree

(***************************************************************************)
(* An operation is issued.                                                 *)
(***************************************************************************)
\* The calls that may leave the connection foul when they throw.
MayFoul(call, reply) ==
  \/ call \in {"tee", "wsplice"}
  \/ call \in {"GET", "HEAD", "open", "POST", "answer"} /\ reply # "none"
Moves(c, d) ==
  /\ d.served = c.served
  /\ \/ d.call = c.call /\ d.outcome = "none" /\ d.reply \in {c.reply, "none"}
     \/ /\ d.call = "none" /\ d.outcome \in Errors
        /\ d.reply = c.reply \/ (d.reply = "foul" /\ MayFoul(c.call, c.reply))
     \/ /\ d.call = "none" /\ d.reply = c.reply
        /\ \/ d.outcome = "building" /\ c.call \in {"headers", "data", "tee", "wsplice", "barrier"}
           \/ d.outcome = "answered" /\ d.reply \in Given
           \/ d.outcome = "connected" /\ c.call = "connect"
           \/ d.outcome = "unforwarded" /\ c.call = "splice"
Goes(c, d) == WorkOK(d) /\ Moves(c, d)

LEMMA Issued ==
  ASSUME NEW c, Running(c), NEW d, IsRec(d), Agree(c, d, {"timer", "op", "queue"}),
         d.timer = "armed", d.op \in Ops \ {"none", "connect"},
         c.after = "null" => d.op \in {"head", "body", "data"},
         NEW r \in {"none", "error", "ok"},
         r = "none" => d.queue = c.queue,
         r # "none" => d.queue = Append(c.queue, r),
         r = "error" => c.sock = "closed",
         Place(d.op, c, r = "ok")
  PROVE  Goes(c, d)
<1>1. Agree(c, d, Aside) BY AgreeMore DEF Aside
<1>2. SamePoint(c, d) /\ d.sock = c.sock /\ d.reply = c.reply BY <1>1, SameCore
<1>3. Typed(c) /\ c.queue \in Seq(Handlers) BY FieldTypes DEF Running
<1>4. r = "none" \/ (r \in Results /\ r \in Handlers) BY DEF Results, Handlers
<1>5. d.queue \in Seq(Handlers)
  <2>1. CASE r = "none" BY <1>3, <2>1
  <2>2. CASE r # "none"
    <3>1. Append(c.queue, r) \in Seq(Handlers) BY <1>3, <1>4, <2>2, AppendHandler
    <3> QED BY <2>2, <3>1
  <2> QED BY <2>1, <2>2
<1>6. Typed(d)
  <2>1. \A f \in {"timer", "op", "queue"} : d[f] \in Allowed[f]
    BY <1>5, AllowedFields, SMT
  <2> QED BY <1>3, <2>1, AgreeTyped
<1>7. /\ r = "none" => Bare(d)
      /\ r # "none" => Holds(d, r)
  <2>1. Quiet(c) /\ "ok" \in Results BY DEF Running, Results
  <2>2. d.queue = c.queue => Bare(d) BY <2>1, QuietArmed
  <2>3. ASSUME r # "none" PROVE Holds(d, r)
    <3>1. r \in Results BY <1>4, <2>3
    <3>2. d.queue = Append(c.queue, r) BY <2>3
    <3>3. \A o \in Results : d.queue = Append(c.queue, o) => Holds(d, o)
      BY <2>1, QuietArmed, SMTT(30)
    <3> QED BY <3>1, <3>2, <3>3, Zenon
  <2> QED BY <2>2, <2>3
<1>8. QueueOK(d) /\ \A o \in Results : Holds(d, o) => o = r
  BY <1>4, <1>7, OneResult, Zenon DEF QueueOK
<1>9. Network(d) /\ Request(d) BY <1>1, SamePlace DEF Running
<1>10. Place(d.op, d, r = "ok") BY <1>1, SamePlace
<1>11. (r = "ok") <=> Holds(d, "ok") BY <1>7, <1>8 DEF Results
<1>12. Place(d.op, d, Holds(d, "ok")) BY <1>10, <1>11, PlaceWhen, Zenon
<1>13. \A o \in Results : Holds(d, o) => Broke(d, o)
  <2>1. "none" \notin Results BY DEF Results
  <2>2. r = "error" => Broke(d, r) BY <1>2, SMT DEF Broke, Down, CleanIfUp, Up
  <2>3. r = "ok" => Broke(d, r) BY SMT DEF Broke
  <2> QED BY <1>8, <2>1, <2>2, <2>3, Zenon
<1>14. OpSound(d)
  BY <1>2, <1>13, SMT DEF OpSound, Running, SamePoint, InTime, IsTimeout
<1>15. Moves(c, d) BY <1>2, SMT DEF Moves, Running, Request, SamePoint
<1> QED BY <1>6, <1>8, <1>9, <1>12, <1>14, <1>15 DEF Goes, WorkOK

\* Whatever is issued, the timer runs.
LEMMA IssueGoes ==
  ASSUME NEW c, Running(c), NEW op \in Ops \ {"none", "connect"},
         c.after = "null" => op \in {"head", "body", "data"}, Place(op, c, FALSE)
  PROVE  Goes(c, Issue(SetTimer(c), op))
<1> DEFINE s == SetTimer(c)
           d == Issue(s, op)
           r == IF c.sock = "closed" THEN "error" ELSE "none"
<1>1. IsRec(c) BY DEF Running, Typed
<1>2. IsRec(s) /\ s.timer = "armed" /\ Agree(c, s, {"timer"}) BY <1>1, SetTimerIs
<1> HIDE DEF s
<1>3. /\ IsRec(d) /\ d.op = op /\ Agree(s, d, {"op", "queue"})
      /\ d.queue = IF s.sock = "closed" THEN Append(s.queue, "error") ELSE s.queue
  BY <1>2, IssueIs
<1> HIDE DEF d
<1>4. s.sock = c.sock /\ s.queue = c.queue /\ d.timer = s.timer
  BY <1>2, <1>3, SMT DEF Agree, AllFields
<1>5. Agree(c, d, {"timer", "op", "queue"})
  <2>1. Agree(c, d, {"timer"} \cup {"op", "queue"}) BY <1>2, <1>3, AgreeStep
  <2> QED BY <2>1, AgreeMore
<1>6. r \in {"none", "error", "ok"} /\ r # "ok" OBVIOUS
<1>7. Place(d.op, c, r = "ok") BY <1>3, <1>6, PlaceWhen, Zenon
<1>8. /\ r = "none" => d.queue = c.queue
      /\ r # "none" => d.queue = Append(c.queue, r)
      /\ r = "error" => c.sock = "closed"
  BY <1>3, <1>4
<1> HIDE DEF r
<1> QED BY <1>2, <1>3, <1>4, <1>5, <1>6, <1>7, <1>8, Issued DEF d, s

LEMMA RunningIs ==
  ASSUME NEW c, Running(c)
  PROVE  /\ IsRec(c) /\ Typed(c) /\ ~Pending(c) /\ c.outcome = "none" /\ c.op = "none"
         /\ c.call \in Calls \ {"none", "gone"} /\ Quiet(c) /\ Busy(c)
         /\ c.queue \in Seq(Handlers)
  BY FieldTypes, SMT DEF Running, Typed, Request, Pending, Busy

\* A state that differs from a running one in what does not matter runs.
LEMMA StillRunning ==
  ASSUME NEW c, Running(c), NEW d, Typed(d), Network(d), Request(d),
         d.queue = c.queue, d.timer \in {c.timer, "off"}, d.op = c.op,
         d.sock # "connecting", d.call = c.call
  PROVE  Running(d)
  BY SMT DEF Running, Quiet

LEMMA Untimed ==
  ASSUME NEW c, Running(c)
  PROVE  /\ Running(ClearTimer(c)) /\ Agree(c, ClearTimer(c), Aside) /\ InTime(ClearTimer(c))
<1> DEFINE d == ClearTimer(c)
<1>1. IsRec(d) /\ d.timer = "off" /\ Agree(c, d, {"timer"}) BY RunningIs, ClearTimerIs
<1> HIDE DEF d
<1>2. Agree(c, d, Aside) BY <1>1, AgreeMore DEF Aside
<1>3. \A f \in {"timer"} : d[f] \in Allowed[f] BY <1>1, AllowedFields, SMT
<1>4. Typed(d) BY <1>1, <1>3, RunningIs, AgreeTyped
<1>5. Network(d) /\ Request(d) BY <1>2, SamePlace DEF Running
<1>6. d.queue = c.queue /\ d.op = c.op /\ d.sock = c.sock /\ d.call = c.call
  BY <1>1, SMT DEF Agree, AllFields
<1>7. Running(d) BY <1>1, <1>4, <1>5, <1>6, StillRunning DEF Running
<1>8. InTime(d) BY <1>1 DEF InTime, IsTimeout
<1> QED BY <1>2, <1>7, <1>8 DEF d

LEMMA ClosedRunning ==
  ASSUME NEW c, Running(c), NEW d, d = Close(c)
  PROVE  /\ Running(d) /\ d.sock = "closed" /\ Clean(d)
         /\ Agree(c, d, {"sock", "due", "inbox", "body", "owed"})
<1>1. IsRec(c) /\ Typed(c) /\ ~Pending(c) BY RunningIs
<1>2. /\ IsRec(d) /\ d.sock = "closed" /\ d.queue = c.queue
      /\ Agree(c, d, {"sock", "due", "inbox", "body", "owed", "queue"})
      /\ c.sock = "closed" => d = c
      /\ c.sock # "closed" =>
           d.due = FALSE /\ d.inbox = NoHead /\ d.body = 0 /\ d.owed = 0
  BY <1>1, CloseIs
<1>3. Clean(d) BY <1>2, Zenon DEF Running, Network, Clean
<1>4. Agree(c, d, {"sock", "due", "inbox", "body", "owed"}) BY <1>2, SMT DEF Agree
<1>5. Typed(d)
  <2>1. (d.due = FALSE /\ d.inbox \in Answers /\ d.body = 0 /\ d.owed = 0) \/ d = c
    BY <1>2, Zenon DEF Answers
  <2>2. CASE d = c BY <1>1, <2>2
  <2>3. CASE d.due = FALSE /\ d.inbox \in Answers /\ d.body = 0 /\ d.owed = 0
    <3>0. 0 \in 0 .. MaxBody BY Bounds
    <3>1. /\ d["sock"] \in Allowed["sock"] /\ d["due"] \in Allowed["due"]
          /\ d["inbox"] \in Allowed["inbox"] /\ d["body"] \in Allowed["body"]
          /\ d["owed"] \in Allowed["owed"]
      BY <1>2, <2>3, <3>0, AllowedFields DEF Socks
    <3>2. \A f \in {"sock", "due", "inbox", "body", "owed"} : d[f] \in Allowed[f]
      BY <3>1, Zenon
    <3> QED BY <1>1, <1>2, <1>4, <3>2, AgreeTyped
  <2> QED BY <2>1, <2>2, <2>3
<1>6. d.body + d.owed <= MaxBody BY <1>3, Bounds DEF Clean
<1>7. Network(d) BY <1>2, <1>3, <1>6, SMT DEF Network, Clean
<1>8. /\ d.timer = c.timer /\ d.op = c.op /\ d.call = c.call /\ d.outcome = c.outcome
      /\ d.served = c.served /\ d.sent = c.sent /\ d.size = c.size /\ d.null = c.null
      /\ d.after = c.after /\ d.cause = c.cause /\ d.reply = c.reply
  BY <1>4, SMT DEF Agree, AllFields
<1>9. Request(d) BY <1>8, SMT DEF Request, Running
<1> QED BY <1>2, <1>3, <1>4, <1>5, <1>7, <1>8, <1>9, StillRunning

(***************************************************************************)
(* A connection is begun.                                                  *)
(***************************************************************************)
Connectable(c, after) ==
  /\ c.call \in RequestCalls \cup {"headers", "connect"} /\ c.served = 0 /\ c.left = 0
  /\ after \in Afters
  /\ after = "user" <=> c.call = "connect"
  /\ after \in {"post", "repost"} => c.call = "POST"
  /\ after # "repost" => c.sent = 0
  /\ after = "repost" => c.cause # "none"
  /\ after = "retry" => c.cause # "none" \/ c.tries = 1

LEMMA StartConnectGoes ==
  ASSUME NEW c, Running(c), NEW after, Connectable(c, after)
  PROVE  Goes(c, StartConnect(c, after))
<1> DEFINE e == Close(c)
           s == SetTimer(e)
           d == StartConnect(c, after)
<1>1. /\ Running(e) /\ Clean(e)
      /\ Agree(c, e, {"sock", "due", "inbox", "body", "owed"})
  BY ClosedRunning
<1> HIDE DEF e
<1>2. IsRec(s) /\ s.timer = "armed" /\ Agree(e, s, {"timer"}) BY <1>1, RunningIs, SetTimerIs
<1>3. d = [s EXCEPT !.sock = "connecting", !.op = "connect", !.after = after,
                    !.bye = FALSE, !.reply = "none"]
  BY DEF StartConnect, e
<1> HIDE DEF s, d
<1>4. /\ IsRec(d) /\ d.sock = "connecting" /\ d.op = "connect" /\ d.after = after
      /\ d.bye = FALSE /\ d.reply = "none"
      /\ Agree(s, d, {"sock", "op", "after", "bye", "reply"})
  BY <1>2, <1>3, Fields, FieldsAll, Zenon DEF IsRec, Agree
<1>5. d.timer = s.timer BY <1>4, SMT DEF Agree, AllFields
<1>6. Agree(e, d, {"timer", "sock", "op", "after", "bye", "reply"})
  <2>1. Agree(e, d, {"timer"} \cup {"sock", "op", "after", "bye", "reply"})
    BY <1>2, <1>4, AgreeStep
  <2> QED BY <2>1, AgreeMore
<1>7. Typed(d)
  <2>1. "connect" \in Ops BY DEF Ops, OwnOps
  <2>2. /\ d["timer"] \in Allowed["timer"] /\ d["sock"] \in Allowed["sock"]
        /\ d["op"] \in Allowed["op"] /\ d["after"] \in Allowed["after"]
        /\ d["bye"] \in Allowed["bye"] /\ d["reply"] \in Allowed["reply"]
    BY <1>2, <1>4, <1>5, <2>1, AllowedFields DEF Connectable, Afters, Socks, Replies
  <2>3. \A f \in {"timer", "sock", "op", "after", "bye", "reply"} : d[f] \in Allowed[f]
    BY <2>2, Zenon
  <2> QED BY <1>1, <1>4, <1>6, <2>3, RunningIs, AgreeTyped
<1>8. /\ d.queue = e.queue /\ d.due = e.due /\ d.inbox = e.inbox /\ d.body = e.body
      /\ d.owed = e.owed
  BY <1>6, SMT DEF Agree, AllFields
<1>9. /\ d.call = c.call /\ d.outcome = c.outcome /\ d.served = c.served /\ d.sent = c.sent
      /\ d.size = c.size /\ d.null = c.null /\ d.cause = c.cause /\ d.left = c.left
      /\ d.tries = c.tries
  BY <1>1, <1>6, SMT DEF Agree, AllFields
<1>10. Bare(d)
  <2>1. Quiet(e) /\ "ok" \in Results BY <1>1, RunningIs DEF Results
  <2> QED BY <1>2, <1>5, <1>8, <2>1, QuietArmed
<1>11. QueueOK(d) /\ \A r \in Results : ~Holds(d, r)
  BY <1>4, <1>10, OneResult, Zenon DEF QueueOK
<1>12. Clean(d) BY <1>1, <1>8 DEF Clean
<1>13. Network(d) BY <1>4, <1>8, <1>12, <1>1, Bounds, SMT DEF Network, Clean
<1>14. Request(d) BY <1>4, <1>9, SMT DEF Request, Running, Connectable, Afters
<1>15. OpSound(d)
  BY <1>2, <1>4, <1>5, <1>9, <1>10, <1>11, SMT DEF OpSound, Running, Connectable, Afters, InTime, IsTimeout
<1>16. AtConnect(d)
  BY <1>4, <1>9, <1>12, SMT DEF AtConnect, Connectable, Blamed, Down
<1>17. Place(d.op, d, Holds(d, "ok")) BY <1>4, <1>16, Zenon DEF Place
<1>18. Moves(c, d) BY <1>4, <1>9, RunningIs, SMT DEF Moves
<1> QED BY <1>7, <1>11, <1>13, <1>14, <1>15, <1>17, <1>18 DEF Goes, WorkOK, d

(***************************************************************************)
(* The coroutine changes what is its own and goes on.                      *)
(***************************************************************************)
Own == {"must_reconnect", "bye", "after", "tries", "post_tries", "size", "sent", "got",
        "left", "count", "null", "can_recall"}
Same(c, d) ==
  /\ d.sock = c.sock /\ d.due = c.due /\ d.inbox = c.inbox /\ d.body = c.body
  /\ d.owed = c.owed /\ d.reply = c.reply /\ d.cause = c.cause /\ d.call = c.call
  /\ d.served = c.served /\ d.outcome = c.outcome /\ d.op = c.op /\ d.queue = c.queue

LEMMA SameWire ==
  ASSUME NEW c, NEW d, Same(c, d)
  PROVE  /\ Clean(d) <=> Clean(c)
         /\ CleanIfUp(d) <=> CleanIfUp(c)
         /\ Blamed(d) <=> Blamed(c)
         /\ Down(d) <=> Down(c)
         /\ \A n : BodyLeft(d, n) <=> BodyLeft(c, n)
         /\ \A ec : Broke(c, ec) => Broke(d, ec)
         /\ d.left = c.left => (Unread(d) <=> Unread(c))
         /\ Network(d) <=> Network(c)
<1> USE DEF Same
<1>1. Clean(d) <=> Clean(c) BY SMT DEF Clean
<1>2. CleanIfUp(d) <=> CleanIfUp(c) BY <1>1, SMT DEF CleanIfUp, Up
<1>3. (Blamed(d) <=> Blamed(c)) /\ (Down(d) <=> Down(c)) BY SMT DEF Blamed, Down
<1>4. \A n : BodyLeft(d, n) <=> BodyLeft(c, n) BY SMT DEF BodyLeft, Fits
<1>5. \A ec : Broke(c, ec) => Broke(d, ec) BY <1>2, <1>3, SMT DEF Broke
<1>6. d.left = c.left => (Unread(d) <=> Unread(c)) BY SMT DEF Unread, Fits
<1>7. Network(d) <=> Network(c) BY <1>1, SMT DEF Network
<1> QED BY <1>1, <1>2, <1>3, <1>4, <1>5, <1>6, <1>7

LEMMA Tweaked ==
  ASSUME NEW c, Running(c), NEW d, IsRec(d), NEW S, S \subseteq Own, Agree(c, d, S),
         \A f \in S : d[f] \in Allowed[f], Request(d)
  PROVE  Running(d) /\ Same(c, d) /\ d.timer = c.timer
<1>1. Same(c, d) /\ d.timer = c.timer BY SMT DEF Agree, AllFields, Own, Same
<1>2. Typed(d) BY RunningIs, AgreeTyped
<1>3. Network(d) BY <1>1, SameWire DEF Running
<1>4. Running(d) BY <1>1, <1>2, <1>3, StillRunning DEF Same, Running
<1> QED BY <1>1, <1>4

LEMMA UntimedSame ==
  ASSUME NEW c, Running(c)
  PROVE  /\ Same(c, ClearTimer(c)) /\ Agree(c, ClearTimer(c), {"timer"})
         /\ ClearTimer(c).timer = "off"
  BY RunningIs, ClearTimerIs, SMT DEF Agree, AllFields, Same

LEMMA GoesFrom ==
  ASSUME NEW c, NEW d, NEW e, Goes(d, e), Same(c, d)
  PROVE  Goes(c, e)
  BY SMT DEF Goes, Moves, Same

\* The timer of a call that has ended may be cleared.
LEMMA EndUntimed ==
  ASSUME NEW c, NEW d, Goes(c, d), d.op = "none"
  PROVE  Goes(c, ClearTimer(d))
<1> DEFINE e == ClearTimer(d)
<1>1. WorkOK(d) /\ IsRec(d) /\ Typed(d) BY DEF Goes, WorkOK, Typed
<1>2. IsRec(e) /\ e.timer = "off" /\ Agree(d, e, {"timer"}) BY <1>1, ClearTimerIs
<1> HIDE DEF e
<1>3. Agree(d, e, Aside) BY <1>2, AgreeMore DEF Aside
<1>4. SamePoint(d, e) /\ e.sock = d.sock /\ e.reply = d.reply BY <1>3, SameCore
<1>5. e.queue = d.queue /\ e.op = "none" /\ e.post_tries = d.post_tries
  BY <1>2, SMT DEF Agree, AllFields
<1>6. e["timer"] \in Allowed["timer"] BY <1>2, AllowedFields
<1>7. Typed(e) BY <1>1, <1>2, <1>6, AgreeTyped
<1>8. Quiet(d) /\ Quiet(e) BY <1>1, <1>2, <1>5, SMT DEF WorkOK, QueueOK, Quiet
<1>9. \A r \in Results : ~Holds(d, r) /\ ~Holds(e, r) BY <1>8, OneResult, Zenon
<1>10. "ok" \in Results BY DEF Results
<1>11. Place("none", d, FALSE)
  <2>1. AtNone(d) BY <1>1, Zenon DEF WorkOK, Place
  <2> QED BY <2>1, Zenon DEF Place
<1>12. Place(e.op, e, Holds(e, "ok"))
  <2>1. Place("none", e, FALSE) BY <1>3, <1>11, SamePlace
  <2> QED BY <1>5, <1>9, <1>10, <2>1, PlaceWhen, Zenon
<1>13. Network(e) /\ Request(e) BY <1>1, <1>3, SamePlace DEF WorkOK
<1>14. OpSound(e)
  BY <1>1, <1>2, <1>4, <1>5, <1>9, SMT DEF OpSound, WorkOK, SamePoint, InTime, IsTimeout
<1>15. QueueOK(e) BY <1>5, <1>8 DEF QueueOK
<1>16. Moves(c, e) BY <1>4, SMT DEF Goes, Moves, SamePoint
<1> QED BY <1>7, <1>12, <1>13, <1>14, <1>15, <1>16 DEF Goes, WorkOK, e

(***************************************************************************)
(* A call ends.                                                            *)
(***************************************************************************)
EndsWell(c, outcome) ==
  /\ outcome = "building" => Unread(c) /\ Blamed(c) /\ (c.sent < c.size => c.served = 0)
  /\ outcome # "building" =>
       /\ c.sent = 0 /\ c.size = 0
       /\ c.left > 0 => BodyLeft(c, c.left) /\ Blamed(c)
       /\ c.left = 0 => CleanIfUp(c)
  /\ outcome = "building" \/ c.left > 0 => InTime(c)
MayEnd(c, outcome) ==
  /\ outcome \in Errors => c.cause # "none"
  /\ outcome = "answered" => c.reply \in Given
  /\ outcome = "building" => c.call \in {"headers", "data", "tee", "wsplice", "barrier"}
  /\ outcome = "connected" => c.call = "connect"
  /\ outcome = "unforwarded" => c.call = "splice"

LEMMA Ended ==
  ASSUME NEW c, Running(c), NEW outcome \in Outcomes \ {"none"},
         NEW d, IsRec(d), Agree(c, d, EndFields \cup {"left", "size", "sent"}),
         d.call = "none", d.after = "none", d.outcome = outcome, d.tries = 0,
         d.post_tries = 0, d.got = NoHead, d.count = 0, d.null = FALSE, d.can_recall = FALSE,
         d.left \in 0 .. MaxBody, d.size \in 0 .. MaxData, d.sent \in 0 .. d.size,
         EndsWell(d, outcome),
         MayEnd(c, outcome)
  PROVE  Goes(c, d) /\ d.op = "none"
<1>1. /\ d.sock = c.sock /\ d.due = c.due /\ d.inbox = c.inbox /\ d.body = c.body
      /\ d.owed = c.owed /\ d.reply = c.reply /\ d.cause = c.cause /\ d.served = c.served
      /\ d.op = c.op /\ d.queue = c.queue /\ d.timer = c.timer
  BY SMT DEF Agree, AllFields, EndFields
<1>2. Typed(d)
  <2>1. 0 \in 0 .. max_send_try /\ d.sent \in 0 .. MaxData /\ 0 \in 0 .. MaxBody BY Bounds
  <2>2. NoHead \in Answers /\ "none" \in Calls BY DEF Answers, Calls
  <2>3. /\ d["call"] \in Allowed["call"] /\ d["after"] \in Allowed["after"]
        /\ d["outcome"] \in Allowed["outcome"] /\ d["tries"] \in Allowed["tries"]
        /\ d["post_tries"] \in Allowed["post_tries"] /\ d["got"] \in Allowed["got"]
        /\ d["null"] \in Allowed["null"] /\ d["can_recall"] \in Allowed["can_recall"]
        /\ d["left"] \in Allowed["left"] /\ d["size"] \in Allowed["size"]
        /\ d["sent"] \in Allowed["sent"] /\ d["count"] \in Allowed["count"]
    BY <2>1, <2>2, AllowedFields, ZenonT(60)
  <2>4. \A f \in EndFields \cup {"left", "size", "sent"} : d[f] \in Allowed[f]
    BY <2>3, Zenon DEF EndFields
  <2> QED BY <2>4, RunningIs, AgreeTyped
<1>3. Network(d) BY <1>1, SMT DEF Running, Network, Clean
<1>4. Quiet(d) /\ QueueOK(d) BY <1>1, SMT DEF Running, Quiet, QueueOK
<1>5. Request(d)
  <2>1. d.sent <= d.size BY Bounds
  <2> QED BY <1>1, <2>1, SMT DEF Running, Request, EndsWell, MayEnd
<1>6. \A r \in Results : ~Holds(d, r) BY <1>4, OneResult, Zenon
<1>7. OpSound(d) BY <1>1, <1>6, SMT DEF Running, OpSound, Busy, EndsWell
<1>8. AtNone(d) BY SMT DEF AtNone, EndsWell
<1>9. Place(d.op, d, Holds(d, "ok")) BY <1>1, <1>8, Zenon DEF Place, Running
<1>10. Moves(c, d) BY <1>1, Zenon DEF Moves, Outcomes, MayEnd
<1> QED BY <1>1, <1>2, <1>3, <1>4, <1>5, <1>7, <1>9, <1>10 DEF Goes, WorkOK, Running

LEMMA EndGoes ==
  ASSUME NEW c, Running(c), NEW outcome \in Outcomes \ {"none"},
         EndsWell(c, outcome),
         MayEnd(c, outcome)
  PROVE  Goes(c, End(c, outcome)) /\ End(c, outcome).op = "none"
<1> DEFINE d == End(c, outcome)
<1>1. /\ IsRec(d) /\ d.call = "none" /\ d.after = "none" /\ d.outcome = outcome
      /\ d.tries = 0 /\ d.post_tries = 0 /\ d.got = NoHead /\ d.count = 0
      /\ d.null = FALSE /\ d.can_recall = FALSE /\ Agree(c, d, EndFields)
  BY RunningIs, EndIs
<1> HIDE DEF d
<1>2. Agree(c, d, EndFields \cup {"left", "size", "sent"}) BY <1>1, AgreeMore
<1>3. /\ d.sock = c.sock /\ d.due = c.due /\ d.inbox = c.inbox /\ d.body = c.body
      /\ d.owed = c.owed /\ d.reply = c.reply /\ d.cause = c.cause /\ d.served = c.served
      /\ d.left = c.left /\ d.size = c.size /\ d.sent = c.sent /\ d.timer = c.timer
  BY <1>1, SMT DEF Agree, AllFields, EndFields
<1>4. d.left \in 0 .. MaxBody /\ d.size \in 0 .. MaxData /\ d.sent \in 0 .. d.size
  <2>1. c.left \in 0 .. MaxBody /\ c.size \in 0 .. MaxData /\ c.sent \in 0 .. MaxData
    BY RunningIs, FieldTypes
  <2>2. c.sent <= c.size BY DEF Running, Request
  <2> QED BY <1>3, <2>1, <2>2, Bounds
<1>5. /\ Clean(d) <=> Clean(c)
      /\ CleanIfUp(d) <=> CleanIfUp(c)
      /\ Blamed(d) <=> Blamed(c)
      /\ InTime(d) <=> InTime(c)
      /\ \A n : BodyLeft(d, n) <=> BodyLeft(c, n)
  BY <1>3, SMT DEF Clean, CleanIfUp, Up, Down, Blamed, InTime, IsTimeout, BodyLeft, Fits
<1>6. outcome = "building" /\ Unread(c) => Unread(d)
  BY <1>1, <1>3, SMT DEF Unread, Fits, LengthOf, MayEnd
<1>7. EndsWell(d, outcome) BY <1>3, <1>5, <1>6, SMT DEF EndsWell
<1>8. Goes(c, d) /\ d.op = "none" BY <1>1, <1>2, <1>4, <1>7, Ended
<1> QED BY <1>8 DEF d

(***************************************************************************)
(* A call throws: only if there is a reason, and with nothing left behind. *)
(***************************************************************************)
LEMMA ThrowGoes ==
  ASSUME NEW c, Running(c), NEW error \in Errors, c.cause # "none",
         CleanIfUp(c) \/ c.call \in {"headers", "data"}
  PROVE  Goes(c, Throw(c, error)) /\ Throw(c, error).op = "none"
<1> DEFINE e == IF c.call \in {"headers", "data"} THEN Close(c) ELSE c
           w == End(e, error)
           d == Throw(c, error)
<1>1. Running(e) /\ CleanIfUp(e) /\ Agree(c, e, {"sock", "due", "inbox", "body", "owed"})
  <2>1. CASE c.call \in {"headers", "data"}
    <3>1. e = Close(c) BY <2>1
    <3> HIDE DEF e
    <3> QED BY <3>1, ClosedRunning, SMT DEF CleanIfUp
  <2>2. CASE c.call \notin {"headers", "data"}
    <3>1. e = c BY <2>2
    <3> HIDE DEF e
    <3> QED BY <2>2, <3>1, Zenon DEF Agree
  <2> QED BY <2>1, <2>2
<1>2. d = [w EXCEPT !.left = 0, !.size = 0, !.sent = 0] BY DEF Throw
<1> HIDE DEF e
<1>3. /\ IsRec(w) /\ w.call = "none" /\ w.after = "none" /\ w.outcome = error
      /\ w.tries = 0 /\ w.post_tries = 0 /\ w.got = NoHead /\ w.count = 0
      /\ w.null = FALSE /\ w.can_recall = FALSE /\ Agree(e, w, EndFields)
  BY <1>1, RunningIs, EndIs
<1> HIDE DEF w, d
<1>4. /\ IsRec(d) /\ d.left = 0 /\ d.size = 0 /\ d.sent = 0
      /\ Agree(w, d, {"left", "size", "sent"})
  BY <1>2, <1>3, Fields, FieldsAll, Zenon DEF IsRec, Agree
<1>5. Agree(e, d, EndFields \cup {"left", "size", "sent"}) BY <1>3, <1>4, AgreeStep
<1>6. /\ d.call = "none" /\ d.after = "none" /\ d.outcome = error
      /\ d.tries = 0 /\ d.post_tries = 0 /\ d.got = NoHead /\ d.count = 0
      /\ d.null = FALSE /\ d.can_recall = FALSE
  BY <1>3, <1>4, SMT DEF Agree, AllFields
<1>7. /\ e.cause = c.cause /\ e.call = c.call /\ e.served = c.served /\ e.reply = c.reply
      /\ e.outcome = c.outcome /\ e.op = c.op /\ e.queue = c.queue
  BY <1>1, SMT DEF Agree, AllFields
<1>8. /\ d.sock = e.sock /\ d.due = e.due /\ d.inbox = e.inbox /\ d.body = e.body
      /\ d.owed = e.owed
  BY <1>5, SMT DEF Agree, AllFields, EndFields
<1>9. CleanIfUp(d) BY <1>1, <1>8, SMT DEF CleanIfUp, Clean, Up
<1>10. d.left \in 0 .. MaxBody /\ d.size \in 0 .. MaxData /\ d.sent \in 0 .. d.size
  BY <1>4, Bounds
<1>11. error \in Outcomes \ {"none"} /\ error \notin {"building", "answered", "connected", "unforwarded"}
  BY DEF Errors, Outcomes
<1>12. EndsWell(d, error) /\ MayEnd(e, error)
  BY <1>4, <1>7, <1>9, <1>11, SMT DEF EndsWell, MayEnd
<1>13. Goes(e, d) /\ d.op = "none" BY <1>1, <1>4, <1>5, <1>6, <1>10, <1>11, <1>12, Ended
<1>14. Goes(c, d) BY <1>7, <1>13, SMT DEF Goes, Moves
<1> QED BY <1>13, <1>14 DEF d

(***************************************************************************)
(* A call ends and leaves the connection foul, or refuses to go on.        *)
(***************************************************************************)
Wire == {"sock", "due", "inbox", "body", "owed", "reply", "cause"}

\* The connection changes while a call fails.
LEMMA EndedOn ==
  ASSUME NEW c, Running(c), NEW outcome \in Errors,
         NEW d, IsRec(d), Agree(c, d, EndFields \cup {"left", "size", "sent"} \cup Wire),
         d.call = "none", d.after = "none", d.outcome = outcome, d.tries = 0,
         d.post_tries = 0, d.got = NoHead, d.count = 0, d.null = FALSE, d.can_recall = FALSE,
         d.left \in 0 .. MaxBody, d.size \in 0 .. MaxData, d.sent \in 0 .. d.size,
         \A f \in Wire : d[f] \in Allowed[f],
         d.sock # "connecting", d.cause # "none",
         d.reply = c.reply \/ (d.reply = "foul" /\ MayFoul(c.call, c.reply)),
         Network(d), EndsWell(d, outcome)
  PROVE  Goes(c, d) /\ d.op = "none"
<1> DEFINE e == [c EXCEPT !.sock = d.sock, !.due = d.due, !.inbox = d.inbox, !.body = d.body,
                          !.owed = d.owed, !.reply = d.reply, !.cause = d.cause]
<1>1. /\ IsRec(e) /\ e.sock = d.sock /\ e.due = d.due /\ e.inbox = d.inbox
      /\ e.body = d.body /\ e.owed = d.owed /\ e.reply = d.reply /\ e.cause = d.cause
      /\ Agree(c, e, Wire)
  BY RunningIs, Fields, FieldsAll, ZenonT(60) DEF IsRec, Agree, Wire
<1> HIDE DEF e
<1>2. \A f \in Wire : e[f] = d[f] BY <1>1 DEF Wire
<1>3. Typed(e) BY <1>1, <1>2, RunningIs, AgreeTyped, Zenon
<1>4. Agree(e, d, EndFields \cup {"left", "size", "sent"}) BY <1>1, <1>2, Zenon DEF Agree
<1>5. /\ e.call = c.call /\ e.outcome = c.outcome /\ e.served = c.served /\ e.sent = c.sent
      /\ e.size = c.size /\ e.null = c.null /\ e.after = c.after /\ e.op = c.op
      /\ e.queue = c.queue /\ e.timer = c.timer
  BY <1>1, SMT DEF Agree, AllFields, Wire
<1>6. Network(e) BY <1>1, SMT DEF Network, Clean
<1>7. Request(e) BY <1>5, SMT DEF Request, Running, Errors
<1>8. Running(e) BY <1>1, <1>3, <1>5, <1>6, <1>7, SMT DEF Running, Quiet
<1>9. outcome \in Outcomes \ {"none"} /\ MayEnd(e, outcome)
  BY <1>1, SMT DEF Errors, Outcomes, MayEnd
<1>10. Goes(e, d) /\ d.op = "none" BY <1>4, <1>8, <1>9, Ended
<1>11. Moves(c, d) BY <1>5, <1>10, SMT DEF Goes, Moves
<1> QED BY <1>10, <1>11 DEF Goes

LEMMA FouledIs ==
  ASSUME NEW c, IsRec(c), NEW d, d = Fouled(c)
  PROVE  /\ IsRec(d) /\ Agree(c, d, Wire \ {"cause"})
         /\ Up(c) => d.sock = "foul" /\ d.reply = "foul" /\ d.due = FALSE /\ Clean(d)
         /\ ~Up(c) => d = c
<1>1. CASE Up(c)
  <2>1. d = [c EXCEPT !.sock = "foul", !.reply = "foul", !.due = FALSE, !.inbox = NoHead,
                      !.body = 0, !.owed = 0]
    BY <1>1 DEF Fouled, Up
  <2>2. /\ IsRec(d) /\ d.sock = "foul" /\ d.reply = "foul" /\ d.due = FALSE
        /\ d.inbox = NoHead /\ d.body = 0 /\ d.owed = 0 /\ Agree(c, d, Wire \ {"cause"})
    BY <2>1, Fields, FieldsAll, ZenonT(60) DEF IsRec, Agree, Wire
  <2> QED BY <1>1, <2>2 DEF Clean
<1>2. CASE ~Up(c)
  <2>1. d = c BY <1>2 DEF Fouled, Up
  <2> QED BY <1>2, <2>1, Zenon DEF Agree
<1> QED BY <1>1, <1>2

\* Throw() of a call that does not close the connection.
LEMMA ThrowIs ==
  ASSUME NEW c, IsRec(c), c.call \notin {"headers", "data"}, NEW error,
         NEW d, d = Throw(c, error)
  PROVE  /\ IsRec(d) /\ d.call = "none" /\ d.after = "none" /\ d.outcome = error
         /\ d.tries = 0 /\ d.post_tries = 0 /\ d.got = NoHead /\ d.count = 0
         /\ d.null = FALSE /\ d.can_recall = FALSE
         /\ d.left = 0 /\ d.size = 0 /\ d.sent = 0
         /\ Agree(c, d, EndFields \cup {"left", "size", "sent"})
<1> DEFINE w == End(c, error)
<1>1. d = [w EXCEPT !.left = 0, !.size = 0, !.sent = 0] BY DEF Throw
<1>2. /\ IsRec(w) /\ w.call = "none" /\ w.after = "none" /\ w.outcome = error
      /\ w.tries = 0 /\ w.post_tries = 0 /\ w.got = NoHead /\ w.count = 0
      /\ w.null = FALSE /\ w.can_recall = FALSE /\ Agree(c, w, EndFields)
  BY EndIs
<1> HIDE DEF w
<1>3. /\ IsRec(d) /\ d.left = 0 /\ d.size = 0 /\ d.sent = 0
      /\ Agree(w, d, {"left", "size", "sent"})
  <2>1. IsRec(w) BY <1>2
  <2> QED BY <1>1, <2>1, Fields, FieldsAll, ZenonT(60) DEF IsRec, Agree
<1>4. Agree(c, d, EndFields \cup {"left", "size", "sent"}) BY <1>2, <1>3, AgreeStep
<1>5. /\ d.call = "none" /\ d.after = "none" /\ d.outcome = error
      /\ d.tries = 0 /\ d.post_tries = 0 /\ d.got = NoHead /\ d.count = 0
      /\ d.null = FALSE /\ d.can_recall = FALSE
  BY <1>2, <1>3, SMT DEF Agree, AllFields
<1> QED BY <1>3, <1>4, <1>5

LEMMA CauseIs ==
  ASSUME NEW c, IsRec(c), NEW cause, NEW d, d = [c EXCEPT !.cause = cause]
  PROVE  IsRec(d) /\ d.cause = cause /\ Agree(c, d, {"cause"})
  BY Fields, FieldsAll, Zenon DEF IsRec, Agree

LEMMA FouledGoes ==
  ASSUME NEW c, Running(c), NEW error \in Errors, MayFoul(c.call, c.reply),
         NEW x, IsRec(x), Agree(Throw(c, error), x, {"cause"}),
         x.cause \in Causes \ {"none"}
  PROVE  Goes(c, Fouled(x)) /\ Fouled(x).op = "none"
<1> DEFINE w == Throw(c, error)
           d == Fouled(x)
           Ends == EndFields \cup {"left", "size", "sent"}
<1>1. IsRec(c) /\ Typed(c) /\ c.call \notin {"headers", "data"} BY RunningIs DEF MayFoul
<1>2. /\ IsRec(w) /\ w.call = "none" /\ w.after = "none" /\ w.outcome = error
      /\ w.tries = 0 /\ w.post_tries = 0 /\ w.got = NoHead /\ w.count = 0
      /\ w.null = FALSE /\ w.can_recall = FALSE
      /\ w.left = 0 /\ w.size = 0 /\ w.sent = 0 /\ Agree(c, w, Ends)
  BY <1>1, ThrowIs
<1>3. /\ IsRec(d) /\ Agree(x, d, Wire \ {"cause"})
      /\ Up(x) => d.sock = "foul" /\ d.reply = "foul" /\ d.due = FALSE /\ Clean(d)
      /\ ~Up(x) => d = x
  BY FouledIs
<1> HIDE DEF w, d
<1>4. Agree(w, x, {"cause"}) BY DEF w
<1>5. Agree(c, d, Ends \cup Wire)
  <2>1. Agree(c, x, Ends \cup {"cause"}) BY <1>2, <1>4, AgreeStep
  <2>2. Agree(c, d, (Ends \cup {"cause"}) \cup (Wire \ {"cause"})) BY <1>3, <2>1, AgreeStep
  <2> QED BY <2>2, AgreeMore DEF Wire
<1>6. /\ d.call = "none" /\ d.after = "none" /\ d.outcome = error
      /\ d.tries = 0 /\ d.post_tries = 0 /\ d.got = NoHead /\ d.count = 0
      /\ d.null = FALSE /\ d.can_recall = FALSE
      /\ d.left = 0 /\ d.size = 0 /\ d.sent = 0 /\ d.cause = x.cause
  <2>1. /\ d.call = w.call /\ d.after = w.after /\ d.outcome = w.outcome
        /\ d.tries = w.tries /\ d.post_tries = w.post_tries /\ d.got = w.got
        /\ d.count = w.count /\ d.null = w.null /\ d.can_recall = w.can_recall
        /\ d.left = w.left /\ d.size = w.size /\ d.sent = w.sent /\ d.cause = x.cause
    BY <1>3, <1>4, SMT DEF Agree, AllFields, Wire
  <2> QED BY <1>2, <2>1
<1>7. /\ x.sock = c.sock /\ x.due = c.due /\ x.inbox = c.inbox /\ x.body = c.body
      /\ x.owed = c.owed /\ x.reply = c.reply
  BY <1>2, <1>4, SMT DEF Agree, AllFields, EndFields
<1>8. /\ \A f \in Wire : d[f] \in Allowed[f]
      /\ d.sock # "connecting" /\ d.reply \in {c.reply, "foul"} /\ Network(d) /\ CleanIfUp(d)
  <2>1. c.sock # "connecting" /\ Network(c) BY DEF Running
  <2>2. CASE Up(x)
    <3>1. /\ d.sock = "foul" /\ d.reply = "foul" /\ d.due = FALSE /\ d.inbox = NoHead
          /\ d.body = 0 /\ d.owed = 0
      BY <1>3, <2>2 DEF Clean
    <3>2. 0 \in 0 .. MaxBody /\ NoHead \in Answers /\ 0 + 0 <= MaxBody
      BY Bounds DEF Answers
    <3>3. /\ d["sock"] \in Allowed["sock"] /\ d["due"] \in Allowed["due"]
          /\ d["inbox"] \in Allowed["inbox"] /\ d["body"] \in Allowed["body"]
          /\ d["owed"] \in Allowed["owed"] /\ d["reply"] \in Allowed["reply"]
          /\ d["cause"] \in Allowed["cause"]
      BY <1>6, <3>1, <3>2, AllowedFields DEF Socks, Replies
    <3>4. \A f \in Wire : d[f] \in Allowed[f] BY <3>3, Zenon DEF Wire
    <3>5. Network(d) /\ CleanIfUp(d) BY <3>1, <3>2, SMT DEF Network, Clean, CleanIfUp
    <3> QED BY <3>1, <3>4, <3>5
  <2>3. CASE ~Up(x)
    <3>1. /\ d.sock = c.sock /\ d.due = c.due /\ d.inbox = c.inbox /\ d.body = c.body
          /\ d.owed = c.owed /\ d.reply = c.reply
      BY <1>3, <1>7, <2>3
    <3>2. /\ c["sock"] \in Allowed["sock"] /\ c["due"] \in Allowed["due"]
          /\ c["inbox"] \in Allowed["inbox"] /\ c["body"] \in Allowed["body"]
          /\ c["owed"] \in Allowed["owed"] /\ c["reply"] \in Allowed["reply"]
      BY <1>1, SMT DEF Typed, AllFields
    <3>3. d["cause"] \in Allowed["cause"] BY <1>6, AllowedFields
    <3>4. \A f \in Wire : d[f] \in Allowed[f] BY <3>1, <3>2, <3>3, Zenon DEF Wire
    <3>5. Network(d) BY <2>1, <3>1, SMT DEF Network, Clean
    <3>6. CleanIfUp(d) BY <1>3, <2>3 DEF CleanIfUp
    <3> QED BY <2>1, <3>1, <3>4, <3>5, <3>6
  <2> QED BY <2>2, <2>3
<1>9. d.left \in 0 .. MaxBody /\ d.size \in 0 .. MaxData /\ d.sent \in 0 .. d.size
  BY <1>6, Bounds
<1>10. EndsWell(d, error) BY <1>6, <1>8, SMT DEF EndsWell, Errors
<1>11. d.cause # "none" BY <1>6
<1> HIDE DEF Ends
<1> QED BY <1>3, <1>5, <1>6, <1>8, <1>9, <1>10, <1>11, EndedOn DEF d, Ends

LEMMA ThrownFoul ==
  ASSUME NEW c, Running(c), NEW error \in Errors, MayFoul(c.call, c.reply),
         c.cause # "none"
  PROVE  Goes(c, Fouled(Throw(c, error)))
<1> DEFINE w == Throw(c, error)
<1>1. c.call \notin {"headers", "data"} BY DEF MayFoul
<1>2. IsRec(w) /\ Agree(c, w, EndFields \cup {"left", "size", "sent"})
  BY <1>1, RunningIs, ThrowIs
<1>3. Agree(w, w, {"cause"}) BY Zenon DEF Agree
<1> HIDE DEF w
<1>4. w.cause = c.cause BY <1>2, SMT DEF Agree, AllFields, EndFields
<1>5. w.cause \in Causes \ {"none"} BY <1>4, RunningIs, FieldTypes
<1> QED BY <1>2, <1>3, <1>5, FouledGoes DEF w

LEMMA ThrownForeign ==
  ASSUME NEW c, Running(c), NEW error \in Errors, MayFoul(c.call, c.reply)
  PROVE  /\ Goes(c, Fouled([Throw(c, error) EXCEPT !.cause = "other"]))
         /\ Fouled([Throw(c, error) EXCEPT !.cause = "other"]).op = "none"
<1> DEFINE w == Throw(c, error)
           x == [w EXCEPT !.cause = "other"]
<1>1. c.call \notin {"headers", "data"} BY DEF MayFoul
<1>2. IsRec(w) BY <1>1, RunningIs, ThrowIs
<1> HIDE DEF w
<1>3. IsRec(x) /\ x.cause = "other" /\ Agree(w, x, {"cause"}) BY <1>2, CauseIs
<1> HIDE DEF x
<1>4. x.cause \in Causes \ {"none"} BY <1>3 DEF Causes
<1>5. Agree(Throw(c, error), x, {"cause"}) BY <1>3 DEF w
<1>6. Goes(c, Fouled(x)) /\ Fouled(x).op = "none" BY <1>3, <1>4, <1>5, FouledGoes
<1> QED BY <1>6 DEF x, w

LEMMA RefusedGoes ==
  ASSUME NEW c, Running(c), c.call = "splice", c.left > 0, BodyLeft(c, c.left)
  PROVE  Goes(c, Refused(c)) /\ Refused(c).op = "none"
<1> DEFINE w == End(c, "EXCEPTION")
           d == Refused(c)
<1>1. d = [w EXCEPT !.cause = "other"] BY DEF Refused
<1>2. /\ IsRec(w) /\ w.call = "none" /\ w.after = "none" /\ w.outcome = "EXCEPTION"
      /\ w.tries = 0 /\ w.post_tries = 0 /\ w.got = NoHead /\ w.count = 0
      /\ w.null = FALSE /\ w.can_recall = FALSE /\ Agree(c, w, EndFields)
  BY RunningIs, EndIs
<1> HIDE DEF w, d
<1>3. IsRec(d) /\ d.cause = "other" /\ Agree(w, d, {"cause"}) BY <1>1, <1>2, CauseIs
<1>4. Agree(c, d, EndFields \cup {"left", "size", "sent"} \cup Wire)
  <2>1. Agree(c, d, EndFields \cup {"cause"}) BY <1>2, <1>3, AgreeStep
  <2> QED BY <2>1, AgreeMore DEF Wire
<1>5. /\ d.call = "none" /\ d.after = "none" /\ d.outcome = "EXCEPTION"
      /\ d.tries = 0 /\ d.post_tries = 0 /\ d.got = NoHead /\ d.count = 0
      /\ d.null = FALSE /\ d.can_recall = FALSE
  BY <1>2, <1>3, SMT DEF Agree, AllFields
<1>6. /\ d.sock = c.sock /\ d.due = c.due /\ d.inbox = c.inbox /\ d.body = c.body
      /\ d.owed = c.owed /\ d.reply = c.reply /\ d.left = c.left /\ d.size = c.size
      /\ d.sent = c.sent
  BY <1>2, <1>3, SMT DEF Agree, AllFields, EndFields
<1>7. \A f \in Wire : d[f] \in Allowed[f]
  <2>1. /\ c["sock"] \in Allowed["sock"] /\ c["due"] \in Allowed["due"]
        /\ c["inbox"] \in Allowed["inbox"] /\ c["body"] \in Allowed["body"]
        /\ c["owed"] \in Allowed["owed"] /\ c["reply"] \in Allowed["reply"]
    BY RunningIs, SMT DEF Typed, AllFields
  <2>2. d["cause"] \in Allowed["cause"] BY <1>3, AllowedFields DEF Causes
  <2> QED BY <1>6, <2>1, <2>2, Zenon DEF Wire
<1>8. Network(d) /\ d.sock # "connecting" BY <1>6, SMT DEF Running, Network, Clean
<1>9. d.left \in 0 .. MaxBody /\ d.size = 0 /\ d.sent = 0
  BY <1>6, RunningIs, FieldTypes DEF Running, Request
<1>10. d.size \in 0 .. MaxData /\ d.sent \in 0 .. d.size BY <1>9, Bounds
<1>11. EndsWell(d, "EXCEPTION")
  BY <1>3, <1>6, <1>9, SMT DEF EndsWell, BodyLeft, Fits, Blamed, InTime
<1>12. "EXCEPTION" \in Errors BY DEF Errors
<1> DEFINE o == "EXCEPTION"
<1>13. o \in Errors /\ d.outcome = o /\ EndsWell(d, o) BY <1>5, <1>11, <1>12
<1> HIDE DEF o
<1>14. d.cause # "none" /\ d.reply = c.reply BY <1>3, <1>6
<1> QED BY <1>3, <1>4, <1>5, <1>7, <1>8, <1>9, <1>10, <1>13, <1>14, EndedOn DEF d

\* An operation has failed.
LEMMA FailGoes ==
  ASSUME NEW c, Running(c), NEW ec \in Results, c.cause # "none", CleanIfUp(c) \/ c.call = "data"
  PROVE  /\ Goes(c, checkTimeout(c, ec))
         /\ Goes(c, ClearTimer(checkTimeout(c, ec)))
<1> DEFINE d == checkTimeout(c, ec)
<1>1. "TIMEOUT" \in Errors /\ "EXCEPTION" \in Errors BY DEF Errors
<1>2. Goes(c, d) /\ d.op = "none"
  <2>1. CASE Failing(c, ec)
    <3> DEFINE e == Close(c)
    <3>1. d = Throw(e, "TIMEOUT") BY <2>1 DEF checkTimeout
    <3>2. /\ Running(e) /\ e.sock = "closed"
          /\ Agree(c, e, {"sock", "due", "inbox", "body", "owed"})
      BY ClosedRunning
    <3> HIDE DEF e, d
    <3>3. CleanIfUp(e) BY <3>2 DEF CleanIfUp, Up
    <3>4. /\ e.cause = c.cause /\ e.call = c.call /\ e.served = c.served /\ e.reply = c.reply
      BY <3>2, SMT DEF Agree, AllFields
    <3>5. Goes(e, d) /\ d.op = "none" BY <1>1, <3>1, <3>2, <3>3, <3>4, ThrowGoes
    <3> QED BY <3>4, <3>5, SMT DEF Goes, Moves
  <2>2. CASE ~Failing(c, ec)
    <3>1. d = Throw(c, "EXCEPTION") BY <2>2 DEF checkTimeout
    <3> HIDE DEF d
    <3> QED BY <1>1, <3>1, ThrowGoes
  <2> QED BY <2>1, <2>2
<1> QED BY <1>2, EndUntimed

\* One that cannot be tried again.
LEMMA BlamedFails ==
  ASSUME NEW c, Running(c), NEW ec \in Results, ec # "ok", Broke(c, ec), Blamed(c)
  PROVE  /\ Goes(c, checkTimeout(c, ec))
         /\ Goes(c, ClearTimer(checkTimeout(c, ec)))
<1>1. c.cause # "none" /\ CleanIfUp(c) BY DEF Broke, Blamed
<1> QED BY <1>1, FailGoes

(***************************************************************************)
(* writeRequest().                                                         *)
(***************************************************************************)
\* A request of which nothing has been written.
Fresh(c) ==
  /\ c.call \in RequestCalls \cup {"headers"} /\ c.sent = 0 /\ c.left = 0 /\ c.served = 0
  /\ c.after # "null"

Unasked(c) == c.reply \in {"none", "foul"}

LEMMA StartWriteGoes ==
  ASSUME NEW c, Running(c), Fresh(c), Unasked(c), CleanIfUp(c), Excused(c)
  PROVE  Goes(c, StartWrite(c))
<1>1. AtWrite(c, FALSE) BY SMT DEF AtWrite, Fresh, Unasked
<1>2. Place("write", c, FALSE) BY <1>1, Zenon DEF Place
<1>3. "write" \in Ops \ {"none", "connect"} BY DEF Ops, OwnOps
<1> QED BY <1>2, <1>3, IssueGoes DEF StartWrite, Fresh

LEMMA WriteLoopGoes ==
  ASSUME NEW c, Running(c), Fresh(c), CleanIfUp(c),
         Unasked(c) \/ NeedsConnect(c),
         c.tries = max_send_try => c.cause # "none",
         Down(c) => \/ c.cause # "none" \/ NeedsConnect(c)
                    \/ c.sock \in {"reset", "refused"} /\ c.tries = 0
  PROVE  Goes(c, WriteLoop(c))
<1>1. CASE c.tries = max_send_try
  <2>1. "EXCEPTION" \in Errors BY DEF Errors
  <2> QED BY <1>1, <2>1, ThrowGoes DEF WriteLoop
<1>2. CASE c.tries # max_send_try
  <2> DEFINE d == [c EXCEPT !.tries = c.tries + 1]
  <2>1. /\ IsRec(d) /\ d.tries = c.tries + 1 /\ Agree(c, d, {"tries"})
    BY RunningIs, Fields, FieldsAll, Zenon DEF IsRec, Agree
  <2>2. WriteLoop(c) = IF NeedsConnect(d) THEN StartConnect(d, "write") ELSE StartWrite(d)
    BY <1>2 DEF WriteLoop
  <2> HIDE DEF d
  <2>3. c.tries \in 0 .. max_send_try BY RunningIs, FieldTypes
  <2>4. d["tries"] \in Allowed["tries"]
    BY <1>2, <2>1, <2>3, Bounds, AllowedFields
  <2>5. /\ d.size = c.size /\ d.sent = c.sent /\ d.null = c.null /\ d.after = c.after
        /\ d.must_reconnect = c.must_reconnect /\ d.left = c.left
        /\ Same(c, d)
    BY <2>1, SMT DEF Agree, AllFields, Same
  <2>6. Request(d) BY <2>5, SMT DEF Request, Running, Same
  <2>7. Running(d)
    <3>1. {"tries"} \subseteq Own BY DEF Own
    <3> QED BY <2>1, <2>4, <2>6, <3>1, Tweaked
  <2>8. Fresh(d) BY <2>5 DEF Fresh, Same
  <2>9. CleanIfUp(d) BY <2>5, SameWire
  <2>10. CASE NeedsConnect(d)
    <3>1. Connectable(d, "write") BY <2>8 DEF Connectable, Fresh, Afters, RequestCalls
    <3>2. Goes(d, StartConnect(d, "write")) BY <2>7, <3>1, StartConnectGoes
    <3> QED BY <2>2, <2>5, <2>10, <3>2, GoesFrom
  <2>11. CASE ~NeedsConnect(d)
    <3>1. ~NeedsConnect(c) BY <2>5, <2>11 DEF NeedsConnect, Same
    <3>2. Excused(d)
      BY <2>1, <2>3, <2>5, <3>1, SMT DEF Excused, Down, NeedsConnect, Same
    <3>3. Goes(d, StartWrite(d))
      BY <2>5, <2>7, <2>8, <2>9, <3>1, <3>2, StartWriteGoes DEF Same, Unasked
    <3> QED BY <2>2, <2>5, <2>11, <3>3, GoesFrom
  <2> QED BY <2>10, <2>11
<1> QED BY <1>1, <1>2

Sendable(c) ==
  /\ Fresh(c) /\ CleanIfUp(c) /\ (Unasked(c) \/ NeedsConnect(c))
  /\ c.sock \in {"fin", "foul"} => c.cause # "none" \/ NeedsConnect(c)

LEMMA writeRequestGoes ==
  ASSUME NEW c, Running(c), Sendable(c)
  PROVE  Goes(c, writeRequest(c))
<1> DEFINE d == [c EXCEPT !.tries = 0]
<1>1. /\ IsRec(d) /\ d.tries = 0 /\ Agree(c, d, {"tries"})
  BY RunningIs, Fields, FieldsAll, Zenon DEF IsRec, Agree
<1>2. writeRequest(c) = WriteLoop(d) BY DEF writeRequest
<1> HIDE DEF d
<1>3. d["tries"] \in Allowed["tries"] BY <1>1, Bounds, AllowedFields
<1>4. /\ d.size = c.size /\ d.sent = c.sent /\ d.null = c.null /\ d.after = c.after
      /\ d.must_reconnect = c.must_reconnect /\ d.left = c.left
      /\ Same(c, d)
  BY <1>1, SMT DEF Agree, AllFields, Same
<1>5. Request(d) BY <1>4, SMT DEF Request, Running, Same
<1>6. Running(d)
  <2>1. {"tries"} \subseteq Own BY DEF Own
  <2> QED BY <1>1, <1>3, <1>5, <2>1, Tweaked
<1>7. Fresh(d) /\ (NeedsConnect(d) <=> NeedsConnect(c)) /\ (Unasked(d) \/ NeedsConnect(d))
  BY <1>4 DEF Sendable, Fresh, NeedsConnect, Same, Unasked
<1>8. CleanIfUp(d) BY <1>4, SameWire DEF Sendable
<1>9. Down(d) => \/ d.cause # "none" \/ NeedsConnect(d)
                 \/ d.sock \in {"reset", "refused"} /\ d.tries = 0
  BY <1>1, <1>4, SMT DEF Sendable, Down, NeedsConnect, Same
<1>10. d.tries # max_send_try BY <1>1, Bounds
<1>11. Goes(d, WriteLoop(d)) BY <1>6, <1>7, <1>8, <1>9, <1>10, WriteLoopGoes
<1> QED BY <1>2, <1>4, <1>11, GoesFrom

LEMMA WriteAgainGoes ==
  ASSUME NEW c, Running(c), Fresh(c), CleanIfUp(c),
         c.cause # "none" \/ (c.sock # "closed" /\ c.tries = 1)
  PROVE  Goes(c, WriteAgain(c))
<1>1. CASE c.sock # "closed"
  <2>1. Connectable(c, "retry") BY SMT DEF Connectable, Fresh, Afters, RequestCalls
  <2> QED BY <1>1, <2>1, StartConnectGoes DEF WriteAgain
<1>2. CASE c.sock = "closed"
  <2>1. NeedsConnect(c) BY <1>2 DEF NeedsConnect
  <2> QED BY <1>2, <2>1, WriteLoopGoes DEF WriteAgain
<1> QED BY <1>1, <1>2

(***************************************************************************)
(* Reading.                                                                *)
(***************************************************************************)
LEMMA ReadAnswerGoes ==
  ASSUME NEW c, Running(c), NEW after \in {"return", "null"},
         c.call \in RequestCalls \cup {"answer"}, Blamed(c),
         after = "null" => c.call = "POST" /\ c.null /\ c.sent = c.size,
         c.null /\ after = "return" => Clean(c) /\ c.left = 0,
         ~c.null \/ after # "return" => Unread(c)
  PROVE  Goes(c, ReadAnswer(c, after))
<1> DEFINE d == [c EXCEPT !.after = after]
<1>1. /\ IsRec(d) /\ d.after = after /\ Agree(c, d, {"after"})
  BY RunningIs, Fields, FieldsAll, Zenon DEF IsRec, Agree
<1>2. ReadAnswer(c, after) = Issue(SetTimer(d), "head") BY DEF ReadAnswer
<1> HIDE DEF d
<1>3. d["after"] \in Allowed["after"] BY <1>1, AllowedFields
<1>4. /\ d.size = c.size /\ d.sent = c.sent /\ d.null = c.null /\ d.left = c.left
      /\ Same(c, d)
  BY <1>1, SMT DEF Agree, AllFields, Same
<1>5. Request(d) BY <1>1, <1>4, SMT DEF Request, Running, Same
<1>6. Running(d)
  <2>1. {"after"} \subseteq Own BY DEF Own
  <2> QED BY <1>1, <1>3, <1>5, <2>1, Tweaked
<1>7. Blamed(d) /\ (Clean(c) => Clean(d)) /\ (Unread(c) => Unread(d)) BY <1>4, SameWire
<1>8. AtHead(d, FALSE) BY <1>1, <1>4, <1>7, SMT DEF AtHead, Again, Same
<1>9. Place("head", d, FALSE) BY <1>8, Zenon DEF Place
<1>10. "head" \in Ops \ {"none", "connect"} BY DEF Ops, OwnOps
<1>11. Goes(d, Issue(SetTimer(d), "head")) BY <1>6, <1>9, <1>10, IssueGoes
<1> QED BY <1>2, <1>4, <1>11, GoesFrom

LEMMA ReadMoreGoes ==
  ASSUME NEW c, Running(c), c.call \in {"GET", "POST", "answer", "stream", "peek"}, Blamed(c),
         c.left > 0, BodyLeft(c, c.left)
  PROVE  Goes(c, ReadMore(c))
<1>1. AtBody(c, FALSE) BY SMT DEF AtBody
<1>2. Place("body", c, FALSE) BY <1>1, Zenon DEF Place
<1>3. "body" \in Ops \ {"none", "connect"} BY DEF Ops, OwnOps
<1> QED BY <1>2, <1>3, IssueGoes DEF ReadMore

LEMMA StartDataGoes ==
  ASSUME NEW c, Running(c), c.call \in {"data", "POST"}, Blamed(c), c.after # "null",
         Unread(c), c.sent < c.size, c.served = 0
  PROVE  Goes(c, StartData(c))
<1>1. Piece(c, FALSE) BY Zenon DEF Piece
<1>2. AtData(c, FALSE) BY <1>1, Zenon DEF AtData
<1>3. Place("data", c, FALSE) BY <1>2, Zenon DEF Place
<1>4. "data" \in Ops \ {"none", "connect"} BY DEF Ops, OwnOps
<1> QED BY <1>3, <1>4, IssueGoes DEF StartData

\* What is left of the body when an answer is returned.
Kept(c) == IF c.call = "HEAD" THEN 0 ELSE c.left

LEMMA EmptyBody ==
  ASSUME NEW c, Running(c), BodyLeft(c, 0)
  PROVE  Clean(c)
<1>1. c.body \in 0 .. MaxBody /\ c.owed \in 0 .. MaxBody BY RunningIs, FieldTypes
<1>2. c.body + c.owed <= 0 BY DEF BodyLeft, Fits
<1>3. c.body = 0 /\ c.owed = 0 BY <1>1, <1>2, Bounds
<1> QED BY <1>3, SMT DEF BodyLeft, Clean

LEMMA EmptyDataGoes ==
  ASSUME NEW c, Running(c), AtData(c, TRUE)
  PROVE  Goes(c, EmptyData(c))
<1> DEFINE s == SetTimer(c)
           d == EmptyData(c)
<1>1. IsRec(s) /\ s.timer = "armed" /\ Agree(c, s, {"timer"}) BY RunningIs, SetTimerIs
<1>2. d = [s EXCEPT !.op = "data", !.queue = Append(@, "ok")] BY DEF EmptyData
<1> HIDE DEF s, d
<1>3. /\ IsRec(d) /\ d.op = "data" /\ d.queue = Append(s.queue, "ok")
      /\ Agree(s, d, {"op", "queue"})
  BY <1>1, <1>2, Fields, FieldsAll, Zenon DEF IsRec, Agree
<1>4. s.queue = c.queue /\ d.timer = s.timer BY <1>1, <1>3, SMT DEF Agree, AllFields
<1>5. Agree(c, d, {"timer", "op", "queue"})
  <2>1. Agree(c, d, {"timer"} \cup {"op", "queue"}) BY <1>1, <1>3, AgreeStep
  <2> QED BY <2>1, AgreeMore
<1>7. Place(d.op, c, "ok" = "ok") BY <1>3, Zenon DEF Place
<1>8. d.op \in Ops \ {"none", "connect"} BY <1>3 DEF Ops, OwnOps
<1>9. Goes(c, d)
  <2> DEFINE r == "ok"
  <2>1. /\ r \in {"none", "error", "ok"}
        /\ r = "none" => d.queue = c.queue
        /\ r # "none" => d.queue = Append(c.queue, r)
        /\ r = "error" => c.sock = "closed"
        /\ Place(d.op, c, r = "ok")
    BY <1>3, <1>4, <1>7, Zenon
  <2> HIDE DEF r
  <2> QED BY <1>1, <1>3, <1>4, <1>5, <1>8, <2>1, Issued
<1> QED BY <1>9 DEF d

LEMMA GotAnswerGoes ==
  ASSUME NEW c, Running(c), c.call \in RequestCalls \cup {"answer", "stream", "peek"},
         InTime(c), Blamed(c), BodyLeft(c, Kept(c)),
         c.after = "null" => c.left = 0
  PROVE  Goes(c, GotAnswer(c))
<1>1. CASE c.after = "null"
  <2> DEFINE d == [c EXCEPT !.got = NoHead, !.left = 0]
  <2>1. /\ IsRec(d) /\ d.got = NoHead /\ d.left = 0 /\ Agree(c, d, {"got", "left"})
    BY RunningIs, Fields, FieldsAll, Zenon DEF IsRec, Agree
  <2>2. GotAnswer(c) = EmptyData(d) BY <1>1 DEF GotAnswer
  <2> HIDE DEF d
  <2>3. /\ d.size = c.size /\ d.sent = c.sent /\ d.null = c.null /\ d.after = c.after
        /\ Same(c, d)
    BY <2>1, SMT DEF Agree, AllFields, Same
  <2>4. d["got"] \in Allowed["got"] /\ d["left"] \in Allowed["left"]
    BY <2>1, Bounds, AllowedFields DEF Answers
  <2>5. \A f \in {"got", "left"} : d[f] \in Allowed[f] BY <2>4, Zenon
  <2>6. Request(d) BY <2>3, SMT DEF Request, Running, Same
  <2>7. Running(d)
    <3>1. {"got", "left"} \subseteq Own BY DEF Own
    <3> QED BY <2>1, <2>5, <2>6, <3>1, Tweaked
  <2>8. c.call = "POST" BY <1>1 DEF Running, Request
  <2>9. BodyLeft(d, 0) /\ Blamed(d) BY <1>1, <2>3, <2>8, SameWire DEF Kept
  <2>10. Clean(d) BY <2>7, <2>9, EmptyBody
  <2>11. AtData(d, TRUE) BY <1>1, <2>1, <2>3, <2>8, <2>9, <2>10, Zenon DEF AtData, Same
  <2>12. Goes(d, EmptyData(d)) BY <2>7, <2>11, EmptyDataGoes
  <2> QED BY <2>2, <2>3, <2>12, GoesFrom
<1>2. CASE c.after # "null"
  <2> DEFINE d == [c EXCEPT !.left = Kept(c), !.size = 0, !.sent = 0]
  <2>1. /\ IsRec(d) /\ d.left = Kept(c) /\ d.size = 0 /\ d.sent = 0
        /\ Agree(c, d, {"left", "size", "sent"})
    BY RunningIs, Fields, FieldsAll, Zenon DEF IsRec, Agree
  <2>2. GotAnswer(c) = End(d, "answered") BY <1>2 DEF GotAnswer, Kept
  <2> DEFINE e == End(d, "answered")
  <2> HIDE DEF d
  <2>3. /\ IsRec(e) /\ e.call = "none" /\ e.after = "none" /\ e.outcome = "answered"
        /\ e.tries = 0 /\ e.post_tries = 0 /\ e.got = NoHead /\ e.count = 0
        /\ e.null = FALSE /\ e.can_recall = FALSE /\ Agree(d, e, EndFields)
    BY <2>1, EndIs
  <2> HIDE DEF e
  <2>4. Agree(c, e, EndFields \cup {"left", "size", "sent"})
    <3>1. Agree(c, e, {"left", "size", "sent"} \cup EndFields) BY <2>1, <2>3, AgreeStep
    <3> QED BY <3>1, AgreeMore
  <2>5. e.left = Kept(c) /\ e.size = 0 /\ e.sent = 0
    BY <2>1, <2>3, SMT DEF Agree, AllFields, EndFields
  <2>6. /\ e.sock = c.sock /\ e.due = c.due /\ e.inbox = c.inbox /\ e.body = c.body
        /\ e.owed = c.owed /\ e.reply = c.reply /\ e.cause = c.cause /\ e.timer = c.timer
    BY <2>4, SMT DEF Agree, AllFields, EndFields
  <2>7. Kept(c) \in 0 .. MaxBody BY Bounds, RunningIs, FieldTypes DEF Kept
  <2>8. e.left \in 0 .. MaxBody /\ e.size \in 0 .. MaxData /\ e.sent \in 0 .. e.size
    BY <2>5, <2>7, Bounds
  <2>9. BodyLeft(e, e.left) /\ Blamed(e) /\ InTime(e)
    BY <2>5, <2>6, SMT DEF BodyLeft, Fits, Blamed, Down, InTime, IsTimeout
  <2>10. e.left = 0 => CleanIfUp(e)
    <3>1. Kept(c) = 0 => Clean(c) BY EmptyBody
    <3> QED BY <2>5, <2>6, <3>1, SMT DEF CleanIfUp, Clean
  <2>11. EndsWell(e, "answered")
    BY <2>5, <2>9, <2>10, Zenon DEF EndsWell
  <2>12. MayEnd(c, "answered")
    BY SMT DEF MayEnd, BodyLeft, Errors
  <2>13. Goes(c, e)
    <3> DEFINE o == "answered"
    <3>1. o \in Outcomes \ {"none"} /\ e.outcome = o /\ EndsWell(e, o) /\ MayEnd(c, o)
      BY <2>3, <2>11, <2>12 DEF Outcomes
    <3> HIDE DEF o
    <3> QED BY <2>3, <2>4, <2>8, <3>1, Ended
  <2> QED BY <2>2, <2>13 DEF e
<1> QED BY <1>1, <1>2

(***************************************************************************)
(* Where the coroutine goes on.                                            *)
(***************************************************************************)
LEMMA UntimedIs ==
  ASSUME NEW c, Running(c), NEW t, t = ClearTimer(c)
  PROVE  /\ Running(t) /\ IsRec(t) /\ Same(c, t) /\ InTime(t)
         /\ t.must_reconnect = c.must_reconnect /\ t.bye = c.bye /\ t.after = c.after
         /\ t.tries = c.tries /\ t.post_tries = c.post_tries /\ t.size = c.size
         /\ t.sent = c.sent /\ t.got = c.got /\ t.left = c.left /\ t.null = c.null
         /\ t.can_recall = c.can_recall /\ t.count = c.count
  BY Untimed, UntimedSame, RunningIs, SMT DEF Agree, AllFields

LEMMA AfterHeadGoes ==
  ASSUME NEW c, Running(c), InTime(c), NEW ec \in Results, Broke(c, ec),
         AtHead(c, ec = "ok")
  PROVE  Goes(c, AfterHead(c, ec))
<1> DEFINE t == ClearTimer(c)
           d == [t EXCEPT !.must_reconnect = @ \/ ~c.got.keep, !.bye = @ \/ ~c.got.keep,
                          !.left = c.got.length - c.got.with]
<1>1. AfterHead(c, ec) =
        IF ec # "ok" THEN ClearTimer(checkTimeout(c, ec))
        ELSE IF c.got.kind = "bad" THEN Unparsed(c)
        ELSE IF ReadsBody(d) /\ d.left > 0 THEN ReadMore(d) ELSE GotAnswer(d)
  BY DEF AfterHead
<1>2. Blamed(c) /\ c.call \in RequestCalls \cup {"answer"} BY Zenon DEF AtHead
<1>3. CASE ec # "ok"
  <2> HIDE DEF t, d
  <2> QED BY <1>1, <1>2, <1>3, BlamedFails
<1>4. CASE ec = "ok"
  <2>1. HeadRead(c) BY <1>4, Zenon DEF AtHead
  <2>2. /\ Running(t) /\ IsRec(t) /\ Same(c, t) /\ InTime(t) /\ t.got = c.got
        /\ t.after = c.after /\ t.null = c.null /\ t.size = c.size /\ t.sent = c.sent
        /\ t.must_reconnect = c.must_reconnect /\ t.bye = c.bye
    BY UntimedIs
  <2> HIDE DEF t
  <2>3. c.got \in Answers /\ c.got # NoHead BY <2>1, RunningIs, FieldTypes DEF HeadRead
  <2>4. CASE c.got.kind = "bad"
    <3>1. c.got = BadHead BY <2>3, <2>4 DEF Answers, Heads
    <3>2. ~c.due /\ c.inbox = NoHead /\ c.cause # "none" BY <2>1, <3>1 DEF HeadRead
    <3>3. t.cause # "none" /\ t.call \notin {"headers", "data"} /\ MayFoul(t.call, t.reply)
      BY <1>2, <2>1, <2>2, <3>2 DEF Same, RequestCalls, HeadRead, Given, MayFoul
    <3>4. "RESPONSE" \in Errors BY DEF Errors
    <3>5. CASE c.body + c.owed > 0
      <4>1. Unparsed(c) = Fouled(Throw(t, "RESPONSE")) BY <3>5 DEF Unparsed, t
      <4>2. Goes(t, Fouled(Throw(t, "RESPONSE"))) BY <2>2, <3>3, <3>4, ThrownFoul
      <4> QED BY <1>1, <1>4, <2>2, <2>4, <4>1, <4>2, GoesFrom
    <3>6. CASE ~(c.body + c.owed > 0)
      <4>1. Unparsed(c) = Throw(t, "RESPONSE") BY <3>6 DEF Unparsed, t
      <4>2. c.body \in 0 .. MaxBody /\ c.owed \in 0 .. MaxBody BY RunningIs, FieldTypes
      <4>3. c.body = 0 /\ c.owed = 0 BY <3>6, <4>2, Bounds
      <4>4. CleanIfUp(t) BY <2>2, <3>2, <4>3 DEF CleanIfUp, Clean, Same
      <4>5. Goes(t, Throw(t, "RESPONSE")) BY <2>2, <3>3, <3>4, <4>4, ThrowGoes
      <4> QED BY <1>1, <1>4, <2>2, <2>4, <4>1, <4>5, GoesFrom
    <3> QED BY <3>5, <3>6
  <2>5. CASE c.got.kind # "bad"
    <3> DEFINE keep == t.must_reconnect \/ ~c.got.keep
               bye == t.bye \/ ~c.got.keep
               left == c.got.length - c.got.with
    <3>1. /\ d = [t EXCEPT !.must_reconnect = keep, !.bye = bye, !.left = left]
          /\ keep \in BOOLEAN /\ bye \in BOOLEAN
      OBVIOUS
    <3>2. left \in 0 .. MaxBody BY <2>3, AnswerLength
    <3>3. LengthOf(c.got, c.call) = IF c.call = "HEAD" THEN 0 ELSE left BY DEF LengthOf
    <3> HIDE DEF keep, bye, left, d
    <3>4. /\ IsRec(d) /\ d.must_reconnect = keep /\ d.bye = bye /\ d.left = left
          /\ Agree(t, d, {"must_reconnect", "bye", "left"})
      BY <2>2, <3>1, Fields, FieldsAll, Zenon DEF IsRec, Agree
    <3>5. /\ d.size = c.size /\ d.sent = c.sent /\ d.null = c.null /\ d.after = c.after
          /\ d.timer = t.timer /\ Same(t, d) /\ Same(c, d)
      BY <2>2, <3>4, SMT DEF Agree, AllFields, Same
    <3>6. \A f \in {"must_reconnect", "bye", "left"} : d[f] \in Allowed[f]
      <4>1. /\ d["must_reconnect"] \in Allowed["must_reconnect"]
            /\ d["bye"] \in Allowed["bye"] /\ d["left"] \in Allowed["left"]
        BY <3>1, <3>2, <3>4, AllowedFields
      <4> QED BY <4>1, Zenon
    <3>7. Request(d) BY <3>5, SMT DEF Request, Running, Same
    <3>8. Running(d)
      <4>1. {"must_reconnect", "bye", "left"} \subseteq Own BY DEF Own
      <4> QED BY <2>2, <3>4, <3>6, <3>7, <4>1, Tweaked
    <3>9. InTime(d) BY <2>2, <3>5, SMT DEF InTime, IsTimeout, Same
    <3>10. Blamed(d) /\ BodyLeft(d, Kept(d))
      <4>1. Kept(d) = LengthOf(c.got, c.call) BY <3>3, <3>4, <3>5 DEF Kept, Same
      <4>4. BadHead.kind = "bad" BY DEF BadHead, NoHead
      <4>3. c.got # BadHead BY <2>5, <4>4
      <4>2. BodyLeft(c, LengthOf(c.got, c.call)) BY <2>1, <4>3 DEF HeadRead, BodyLeft
      <4> QED BY <1>2, <3>5, <4>1, <4>2, SameWire
    <3>11. Goes(d, IF ReadsBody(d) /\ d.left > 0 THEN ReadMore(d) ELSE GotAnswer(d))
      <4>1. CASE ReadsBody(d) /\ d.left > 0
        <5>1. d.call \in {"GET", "POST", "answer"} BY <4>1 DEF ReadsBody
        <5>2. BodyLeft(d, d.left) BY <3>10, <5>1 DEF Kept
        <5>3. Goes(d, ReadMore(d)) BY <3>8, <3>10, <4>1, <5>1, <5>2, ReadMoreGoes
        <5> QED BY <4>1, <5>3
      <4>2. CASE ~(ReadsBody(d) /\ d.left > 0)
        <5>1. d.after = "null" => d.left = 0
          BY <3>2, <3>4, <3>7, <4>2, Bounds, SMT DEF Request, ReadsBody
        <5>2. d.call \in RequestCalls \cup {"answer", "stream", "peek"} BY <1>2, <3>5 DEF Same
        <5>3. Goes(d, GotAnswer(d)) BY <3>8, <3>9, <3>10, <5>1, <5>2, GotAnswerGoes
        <5> QED BY <4>2, <5>3
      <4> QED BY <4>1, <4>2
    <3> QED BY <1>1, <1>4, <2>5, <3>5, <3>11, GoesFrom
  <2> QED BY <2>4, <2>5
<1> QED BY <1>3, <1>4

LEMMA AfterBodyGoes ==
  ASSUME NEW c, Running(c), InTime(c), NEW ec \in Results, Broke(c, ec),
         AtBody(c, ec = "ok")
  PROVE  Goes(c, AfterBody(c, ec))
<1> DEFINE t == ClearTimer(c)
           d == [t EXCEPT !.left = @ - 1]
<1>1. AfterBody(c, ec) =
        IF ec # "ok" THEN ClearTimer(checkTimeout(c, ec))
        ELSE IF d.left > 0 /\ d.call # "peek" THEN ReadMore(d) ELSE GotAnswer(d)
  BY DEF AfterBody
<1>2. Blamed(c) /\ c.call \in {"GET", "POST", "answer", "stream", "peek"} /\ c.left > 0
  BY Zenon DEF AtBody
<1>3. CASE ec # "ok"
  <2> HIDE DEF t, d
  <2> QED BY <1>1, <1>2, <1>3, BlamedFails
<1>4. CASE ec = "ok"
  <2>1. BodyLeft(c, c.left - 1) BY <1>4, Zenon DEF AtBody
  <2>2. /\ Running(t) /\ IsRec(t) /\ Same(c, t) /\ InTime(t) /\ t.left = c.left
        /\ t.after = c.after /\ t.null = c.null /\ t.size = c.size /\ t.sent = c.sent
    BY UntimedIs
  <2> HIDE DEF t
  <2>3. /\ IsRec(d) /\ d.left = t.left - 1 /\ Agree(t, d, {"left"})
    BY <2>2, Fields, FieldsAll, Zenon DEF IsRec, Agree
  <2> HIDE DEF d
  <2>4. /\ d.size = c.size /\ d.sent = c.sent /\ d.null = c.null /\ d.after = c.after
        /\ d.timer = t.timer /\ Same(t, d) /\ Same(c, d)
    BY <2>2, <2>3, SMT DEF Agree, AllFields, Same
  <2>5. d.left \in 0 .. MaxBody
    <3>1. c.left \in 0 .. MaxBody BY RunningIs, FieldTypes
    <3> QED BY <1>2, <2>2, <2>3, <3>1, Bounds
  <2>6. d["left"] \in Allowed["left"] BY <2>5, AllowedFields
  <2>7. Request(d) BY <2>4, SMT DEF Request, Running, Same
  <2>8. Running(d)
    <3>1. {"left"} \subseteq Own BY DEF Own
    <3> QED BY <2>2, <2>3, <2>6, <2>7, <3>1, Tweaked
  <2>9. InTime(d) BY <2>2, <2>4, SMT DEF InTime, IsTimeout, Same
  <2>10. Blamed(d) /\ BodyLeft(d, d.left) /\ Kept(d) = d.left
    BY <1>2, <2>1, <2>2, <2>3, <2>4, SameWire DEF Kept, Same
  <2>11. Goes(d, IF d.left > 0 /\ d.call # "peek" THEN ReadMore(d) ELSE GotAnswer(d))
    <3>1. CASE d.left > 0 /\ d.call # "peek"
      <4>1. Goes(d, ReadMore(d)) BY <1>2, <2>4, <2>8, <2>10, <3>1, ReadMoreGoes DEF Same
      <4> QED BY <3>1, <4>1
    <3>2. CASE ~(d.left > 0 /\ d.call # "peek")
      <4>1. d.after = "null" => d.left = 0
        BY <2>5, <2>7, <3>2, Bounds, SMT DEF Request
      <4>2. d.call \in RequestCalls \cup {"answer", "stream", "peek"}
        BY <1>2, <2>4 DEF Same, RequestCalls
      <4>3. Goes(d, GotAnswer(d)) BY <2>8, <2>9, <2>10, <4>1, <4>2, GotAnswerGoes
      <4> QED BY <3>2, <4>3
    <3> QED BY <3>1, <3>2
  <2> QED BY <1>1, <1>4, <2>4, <2>11, GoesFrom
<1> QED BY <1>3, <1>4

LEMMA AfterPreloadGoes ==
  ASSUME NEW c, Running(c), InTime(c), NEW ec \in Results, Broke(c, ec),
         AtPreload(c, ec = "ok")
  PROVE  Goes(c, AfterPreload(c, ec))
<1> DEFINE t == ClearTimer(c)
           left == t.left - c.count
           d == [t EXCEPT !.left = left]
<1>1. AfterPreload(c, ec) =
        IF ec # "ok" THEN ClearTimer(checkTimeout(c, ec)) ELSE End(d, "answered")
  BY DEF AfterPreload
<1>2. Blamed(c) /\ c.call = "preload" /\ 0 < c.count /\ c.count <= c.left
  BY Zenon DEF AtPreload
<1>3. CASE ec # "ok"
  <2> HIDE DEF t, left, d
  <2> QED BY <1>1, <1>2, <1>3, BlamedFails
<1>4. CASE ec = "ok"
  <2>1. BodyLeft(c, c.left - c.count) BY <1>4, Zenon DEF AtPreload
  <2>2. /\ Running(t) /\ IsRec(t) /\ Same(c, t) /\ InTime(t) /\ t.left = c.left
        /\ t.after = c.after /\ t.null = c.null /\ t.size = c.size /\ t.sent = c.sent
    BY UntimedIs
  <2> HIDE DEF t
  <2>12. left = c.left - c.count /\ left \in 0 .. MaxBody
    <3>1. c.left \in 0 .. MaxBody /\ c.count \in 0 .. MaxBody BY RunningIs, FieldTypes
    <3> QED BY <1>2, <2>2, <3>1, Bounds
  <2> HIDE DEF left
  <2>3. /\ IsRec(d) /\ d.left = left /\ Agree(t, d, {"left"})
    BY <2>2, Fields, FieldsAll, Zenon DEF IsRec, Agree
  <2> HIDE DEF d
  <2>4. /\ d.size = c.size /\ d.sent = c.sent /\ d.null = c.null /\ d.after = c.after
        /\ d.timer = t.timer /\ Same(t, d) /\ Same(c, d)
    BY <2>2, <2>3, SMT DEF Agree, AllFields, Same
  <2>5. d["left"] \in Allowed["left"] BY <2>3, <2>12, AllowedFields
  <2>6. Request(d) BY <2>4, SMT DEF Request, Running, Same
  <2>7. Running(d)
    <3>1. {"left"} \subseteq Own BY DEF Own
    <3> QED BY <2>2, <2>3, <2>5, <2>6, <3>1, Tweaked
  <2>8. BodyLeft(d, d.left) /\ Blamed(d) BY <1>2, <2>1, <2>3, <2>4, <2>12, SameWire
  <2>9. d.left = 0 => CleanIfUp(d) BY <2>7, <2>8, EmptyBody DEF CleanIfUp
  <2>13. InTime(d) BY <2>2, <2>4, SMT DEF InTime, IsTimeout, Same
  <2>10. d.sent = 0 /\ d.size = 0 /\ d.reply \in Given
    BY <1>2, <2>4, <2>8, SMT DEF Running, Request, BodyLeft
  <2>11. Goes(d, End(d, "answered"))
    <3> DEFINE o == "answered"
    <3>1. o \in Outcomes \ {"none"} /\ EndsWell(d, o) /\ MayEnd(d, o)
      BY <2>8, <2>9, <2>10, <2>13, SMT DEF EndsWell, MayEnd, Outcomes, Errors
    <3> HIDE DEF o
    <3>2. Goes(d, End(d, o)) BY <2>7, <3>1, EndGoes
    <3> QED BY <3>2 DEF o
  <2> QED BY <1>1, <1>4, <2>4, <2>11, GoesFrom
<1> QED BY <1>3, <1>4

LEMMA PostLoopGoes ==
  ASSUME NEW c, Running(c), c.call = "POST", c.left = 0, c.served = 0, c.after # "null",
         c.post_tries = max_send_try => c.cause # "none",
         CleanIfUp(c), Unasked(c) \/ NeedsConnect(c),
         c.sock \in {"fin", "foul"} => c.cause # "none" \/ NeedsConnect(c)
  PROVE  Goes(c, PostLoop(c))
<1>1. CASE c.post_tries = max_send_try
  <2>1. "EXCEPTION" \in Errors BY DEF Errors
  <2> QED BY <1>1, <2>1, ThrowGoes DEF PostLoop
<1>2. CASE c.post_tries # max_send_try
  <2> DEFINE d == [c EXCEPT !.post_tries = c.post_tries + 1, !.sent = 0]
  <2>1. /\ IsRec(d) /\ d.post_tries = c.post_tries + 1 /\ d.sent = 0
        /\ Agree(c, d, {"post_tries", "sent"})
    BY RunningIs, Fields, FieldsAll, Zenon DEF IsRec, Agree
  <2>2. PostLoop(c) = IF NeedsConnect(d) THEN StartConnect(d, "post") ELSE writeRequest(d)
    BY <1>2 DEF PostLoop
  <2> HIDE DEF d
  <2>3. c.post_tries \in 0 .. max_send_try /\ c.size \in 0 .. MaxData BY RunningIs, FieldTypes
  <2>4. d["post_tries"] \in Allowed["post_tries"] /\ d["sent"] \in Allowed["sent"]
    BY <1>2, <2>1, <2>3, Bounds, AllowedFields
  <2>5. \A f \in {"post_tries", "sent"} : d[f] \in Allowed[f] BY <2>4, Zenon
  <2>6. /\ d.size = c.size /\ d.null = c.null /\ d.after = c.after
        /\ d.must_reconnect = c.must_reconnect /\ d.left = c.left
        /\ Same(c, d)
    BY <2>1, SMT DEF Agree, AllFields, Same
  <2>7. Request(d) BY <2>1, <2>3, <2>6, Bounds, SMT DEF Request, Running, Same
  <2>8. Running(d)
    <3>1. {"post_tries", "sent"} \subseteq Own BY DEF Own
    <3> QED BY <2>1, <2>5, <2>7, <3>1, Tweaked
  <2>9. Fresh(d) BY <2>1, <2>6 DEF Fresh, Same, RequestCalls
  <2>10. CleanIfUp(d) BY <2>6, SameWire
  <2>12. Unasked(c) => Unasked(d) BY <2>6 DEF Unasked, Same
  <2>11. Goes(d, IF NeedsConnect(d) THEN StartConnect(d, "post") ELSE writeRequest(d))
    <3>1. CASE NeedsConnect(d)
      <4>1. Connectable(d, "post")
        BY <2>1, <2>6, <2>9 DEF Connectable, Fresh, Afters, RequestCalls, Same
      <4> QED BY <2>8, <3>1, <4>1, StartConnectGoes
    <3>2. CASE ~NeedsConnect(d)
      <4>1. Sendable(d) BY <2>6, <2>9, <2>10, <2>12, <3>2 DEF Sendable, NeedsConnect, Same
      <4> QED BY <2>8, <3>2, <4>1, writeRequestGoes
    <3> QED BY <3>1, <3>2
  <2> QED BY <2>2, <2>6, <2>11, GoesFrom
<1> QED BY <1>1, <1>2

LEMMA PostAgainGoes ==
  ASSUME NEW c, Running(c), c.call = "POST", c.left = 0, c.served = 0, c.after # "null",
         c.cause # "none"
  PROVE  Goes(c, PostAgain(c))
<1>1. CASE c.sock # "closed"
  <2>1. Connectable(c, "repost") BY SMT DEF Connectable, Afters, RequestCalls
  <2> QED BY <1>1, <2>1, StartConnectGoes DEF PostAgain
<1>2. CASE c.sock = "closed"
  <2>1. NeedsConnect(c) /\ CleanIfUp(c) BY <1>2 DEF NeedsConnect, CleanIfUp, Up
  <2> QED BY <1>2, <2>1, PostLoopGoes DEF PostAgain
<1> QED BY <1>1, <1>2

LEMMA getDataGoes ==
  ASSUME NEW c, Running(c), c.call = "POST", c.after # "null", Blamed(c), Unread(c),
         c.sent < c.size => c.served = 0, c.sent = c.size => c.null \/ c.size = 0
  PROVE  Goes(c, getData(c))
<1>1. c.sent <= c.size /\ c.sent \in Nat /\ c.size \in Nat
  <2>1. c.sent \in 0 .. MaxData /\ c.size \in 0 .. MaxData BY RunningIs, FieldTypes
  <2> QED BY <2>1, Bounds DEF Running, Request
<1>2. CASE c.sent = c.size /\ c.null
  <2>1. Goes(c, ReadAnswer(c, "null"))
    <3> DEFINE after == "null"
    <3>1. /\ after \in {"return", "null"} /\ after # "return"
          /\ c.call \in RequestCalls \cup {"answer"}
      BY DEF RequestCalls
    <3> HIDE DEF after
    <3>2. Goes(c, ReadAnswer(c, after)) BY <1>2, <3>1, ReadAnswerGoes
    <3> QED BY <3>2 DEF after
  <2> QED BY <1>1, <1>2, <2>1 DEF getData
<1>4. CASE c.sent = c.size /\ ~c.null
  <2>1. Empty(c, TRUE) /\ c.call \in {"data", "POST"} BY <1>4 DEF Empty
  <2>2. AtData(c, TRUE) BY <2>1, Zenon DEF AtData
  <2>3. Goes(c, EmptyData(c)) BY <2>2, EmptyDataGoes, Zenon
  <2> QED BY <1>1, <1>4, <2>3 DEF getData
<1>3. CASE c.sent # c.size
  <2>1. c.sent < c.size BY <1>1, <1>3
  <2> QED BY <1>3, <2>1, StartDataGoes DEF getData
<1> QED BY <1>2, <1>3, <1>4

LEMMA AfterDataGoes ==
  ASSUME NEW c, Running(c), InTime(c), NEW ec \in Results, Broke(c, ec),
         AtData(c, ec = "ok")
  PROVE  Goes(c, AfterData(c, ec))
<1>1. Blamed(c) /\ c.call \in {"data", "POST"} BY Zenon DEF AtData
<1>2. /\ c.sent \in Nat /\ c.size \in Nat /\ c.sent <= c.size
      /\ c.sent \in 0 .. MaxData /\ c.size \in 0 .. MaxData
  <2>1. c.sent \in 0 .. MaxData /\ c.size \in 0 .. MaxData BY RunningIs, FieldTypes
  <2> QED BY <2>1, Bounds DEF Running, Request
<1>3. CASE ec = "ok"
  <2> DEFINE sent == IF c.sent = c.size THEN c.sent ELSE c.sent + 1
             d == [c EXCEPT !.sent = sent]
  <2>1. /\ c.call = "data" => AfterData(c, ec) = End(ClearTimer(d), "building")
        /\ c.call # "data" => AfterData(c, ec) = IF d.call = "POST" /\ DataIsDone(d)
                                THEN ReadAnswer(d, "return") ELSE getData(d)
    <3>1. d = [c EXCEPT !.sent = IF c.sent = c.size THEN @ ELSE @ + 1] BY Zenon
    <3>2. d.call = c.call BY RunningIs, Fields, Zenon DEF IsRec
    <3> HIDE DEF d
    <3> QED BY <1>1, <1>3, <3>1, <3>2, Zenon DEF AfterData
  <2>2. c.after = "null" => Clean(c) /\ c.left = 0 BY <1>3, Zenon DEF AtData
  <2>3. c.after # "null" => Unread(c) BY <1>3, Zenon DEF AtData, Piece, Empty
  <2>4. c.after # "null" /\ sent < c.size => c.served = 0
    <3>1. c.after # "null" => Empty(c, TRUE) \/ (c.sent + 1 < c.size => c.served = 0)
      BY <1>3, Zenon DEF AtData, Piece
    <3>2. Empty(c, TRUE) => c.size = 0 BY DEF Empty
    <3>3. c.after # "null" => c.size = 0 \/ (c.sent + 1 < c.size => c.served = 0)
      BY <3>1, <3>2, Zenon
    <3> QED BY <1>2, <3>3
  <2>5. c.after = "null" => c.call = "POST" /\ c.null /\ c.sent = c.size
    BY DEF Running, Request
  <2>6. sent \in 0 .. MaxData /\ sent <= c.size BY <1>2, Bounds
  <2> HIDE DEF sent
  <2>7. IsRec(d) /\ d.sent = sent /\ Agree(c, d, {"sent"})
    BY RunningIs, Fields, FieldsAll, Zenon DEF IsRec, Agree
  <2> HIDE DEF d
  <2>8. /\ d.size = c.size /\ d.null = c.null /\ d.after = c.after
        /\ d.timer = c.timer /\ d.left = c.left /\ Same(c, d)
    BY <2>7, SMT DEF Agree, AllFields, Same
  <2>9. d["sent"] \in Allowed["sent"] BY <2>6, <2>7, AllowedFields
  <2>10. Request(d)
    <3>1. d.call \in {"data", "POST"} /\ d.sent <= d.size /\ (d.after = "null" => d.sent = d.size)
      BY <1>1, <2>5, <2>6, <2>7, <2>8 DEF Same, sent
    <3> QED BY <2>8, <3>1, SMT DEF Request, Running, Same
  <2>11. Running(d)
    <3>1. {"sent"} \subseteq Own BY DEF Own
    <3> QED BY <2>7, <2>9, <2>10, <3>1, Tweaked
  <2>12. Blamed(d) /\ (Unread(c) => Unread(d)) /\ (Clean(c) => Clean(d))
    BY <1>1, <2>8, SameWire
  <2>13. CASE c.call = "data"
    <3> DEFINE t == ClearTimer(d)
    <3>1. c.after # "null" BY <2>5, <2>13
    <3>3. /\ Running(t) /\ IsRec(t) /\ Same(d, t) /\ InTime(t) /\ t.left = d.left
          /\ t.after = d.after /\ t.size = d.size /\ t.sent = d.sent
      BY <2>11, UntimedIs
    <3> HIDE DEF t
    <3>4. Unread(t) /\ Blamed(t) BY <2>3, <2>12, <3>1, <3>3, SameWire
    <3>5. t.sent < t.size => t.served = 0 BY <2>4, <2>7, <2>8, <3>1, <3>3 DEF Same
    <3>6. Goes(t, End(t, "building"))
      <4> DEFINE o == "building"
      <4>1. o \in Outcomes \ {"none"} /\ EndsWell(t, o) /\ MayEnd(t, o)
        BY <2>8, <2>13, <3>3, <3>4, <3>5, SMT DEF EndsWell, MayEnd, Outcomes, Errors, Same
      <4> HIDE DEF o
      <4>2. Goes(t, End(t, o)) BY <3>3, <4>1, EndGoes
      <4> QED BY <4>2 DEF o
    <3>7. Goes(d, End(t, "building")) BY <3>3, <3>6, GoesFrom
    <3>8. Goes(c, End(t, "building")) BY <2>8, <3>7, GoesFrom
    <3> QED BY <2>1, <2>13, <3>8 DEF t
  <2>14. CASE c.call = "POST"
    <3>1. d.call = "POST" BY <2>8, <2>14 DEF Same
    <3>2. CASE DataIsDone(d)
      <4>1. Goes(d, ReadAnswer(d, "return"))
        <5> DEFINE after == "return"
        <5>1. after \in {"return", "null"} /\ after # "null" BY Zenon
        <5>2. d.call \in RequestCalls \cup {"answer"} BY <3>1 DEF RequestCalls
        <5>3. d.null => Clean(d) /\ d.left = 0
          BY <2>2, <2>8, <2>12, <3>2 DEF DataIsDone
        <5>4. ~d.null => Unread(d) BY <2>3, <2>5, <2>8, <2>12
        <5> HIDE DEF after
        <5>5. after = "return" BY <5>1
        <5>6. Goes(d, ReadAnswer(d, after))
          BY <2>11, <2>12, <5>1, <5>2, <5>3, <5>4, <5>5, ReadAnswerGoes
        <5> QED BY <5>6 DEF after
      <4> QED BY <2>1, <2>8, <2>14, <3>1, <3>2, <4>1, GoesFrom
    <3>3. CASE ~DataIsDone(d)
      <4>1. c.after # "null" BY <2>5, <2>7, <2>8, <3>3 DEF DataIsDone, sent
      <4>3. Unread(d) /\ (d.sent < d.size => d.served = 0)
        BY <2>3, <2>4, <2>7, <2>8, <2>12, <4>1 DEF Same
      <4>4. d.sent = d.size => d.null BY <3>3 DEF DataIsDone
      <4>5. Goes(d, getData(d))
        BY <2>8, <2>11, <2>12, <3>1, <4>1, <4>3, <4>4, getDataGoes
      <4> QED BY <2>1, <2>8, <2>14, <3>1, <3>3, <4>5, GoesFrom
    <3> QED BY <3>2, <3>3
  <2> QED BY <1>1, <2>13, <2>14
<1>4. CASE ec # "ok"
  <2>1. c.after # "null" /\ Unread(c) /\ c.served = 0
    BY <1>4, Zenon DEF AtData, Piece, Empty
  <2>2. c.cause # "none" /\ CleanIfUp(c) BY <1>1, <1>4 DEF Blamed, Broke
  <2>3. CASE c.call = "data"
    <3>1. AfterData(c, ec) = ClearTimer(checkTimeout(c, ec))
      BY <1>4, <2>3, Zenon DEF AfterData
    <3> QED BY <2>2, <3>1, FailGoes
  <2>4. CASE c.call = "POST" /\ Failing(c, ec)
    <3>1. AfterData(c, ec) = checkTimeout(c, ec)
      BY <1>4, <2>4, Zenon DEF AfterData
    <3> QED BY <2>2, <3>1, FailGoes
  <2>5. CASE c.call = "POST" /\ ~Failing(c, ec)
    <3> DEFINE t == ClearTimer(c)
               d == [t EXCEPT !.after = "none"]
    <3>1. /\ ~c.can_recall => AfterData(c, ec) = Throw(t, "EXCEPTION")
          /\ c.can_recall => AfterData(c, ec) = PostAgain(d)
      BY <1>4, <2>5, Zenon DEF AfterData
    <3>2. /\ Running(t) /\ IsRec(t) /\ Same(c, t) /\ InTime(t) /\ t.left = c.left
          /\ t.null = c.null /\ t.size = c.size /\ t.sent = c.sent /\ t.after = c.after
      BY UntimedIs
    <3> HIDE DEF t
    <3>3. CASE ~c.can_recall
      <4>1. t.cause # "none" /\ CleanIfUp(t) BY <2>2, <3>2, SameWire DEF Same
      <4>2. "EXCEPTION" \in Errors BY DEF Errors
      <4>3. Goes(t, Throw(t, "EXCEPTION")) BY <3>2, <4>1, <4>2, ThrowGoes
      <4> QED BY <3>1, <3>2, <3>3, <4>3, GoesFrom
    <3>4. CASE c.can_recall
      <4>1. /\ IsRec(d) /\ d.after = "none" /\ Agree(t, d, {"after"})
        BY <3>2, Fields, FieldsAll, Zenon DEF IsRec, Agree
      <4> HIDE DEF d
      <4>2. /\ d.size = c.size /\ d.sent = c.sent /\ d.null = c.null /\ d.left = c.left
            /\ Same(t, d) /\ Same(c, d)
        BY <3>2, <4>1, SMT DEF Agree, AllFields, Same
      <4>3. d["after"] \in Allowed["after"] BY <4>1, AllowedFields
      <4>4. Request(d) BY <4>1, <4>2, SMT DEF Request, Running, Same
      <4>5. Running(d)
        <5>1. {"after"} \subseteq Own BY DEF Own
        <5> QED BY <3>2, <4>1, <4>3, <4>4, <5>1, Tweaked
      <4>6. d.left = 0 BY <2>1, <4>2 DEF Unread
      <4>7. Goes(d, PostAgain(d))
        BY <2>1, <2>2, <2>5, <4>1, <4>2, <4>5, <4>6, PostAgainGoes DEF Same
      <4> QED BY <3>1, <3>4, <4>2, <4>7, GoesFrom
    <3> QED BY <3>3, <3>4
  <2> QED BY <1>1, <2>3, <2>4, <2>5
<1> QED BY <1>3, <1>4

LEMMA AfterWriteGoes ==
  ASSUME NEW c, Running(c), InTime(c), NEW ec \in Results, Broke(c, ec),
         AtWrite(c, ec = "ok"), c.after # "null"
  PROVE  Goes(c, AfterWrite(c, ec))
<1>1. c.call \in RequestCalls \cup {"headers"} /\ c.sent = 0 /\ c.left = 0
  BY Zenon DEF AtWrite
<1>2. CASE ec = "ok"
  <2>1. Unread(c) /\ Blamed(c) /\ (c.size > 0 => c.served = 0)
    BY <1>2, Zenon DEF AtWrite
  <2>2. c.size \in Nat BY RunningIs, FieldTypes, Bounds
  <2>3. CASE c.call = "POST"
    <3> DEFINE d == [c EXCEPT !.after = "none"]
    <3>1. AfterWrite(c, ec) = getData(d) BY <1>2, <2>3, Zenon DEF AfterWrite
    <3>2. /\ IsRec(d) /\ d.after = "none" /\ Agree(c, d, {"after"})
      BY RunningIs, Fields, FieldsAll, Zenon DEF IsRec, Agree
    <3> HIDE DEF d
    <3>3. /\ d.size = c.size /\ d.sent = c.sent /\ d.null = c.null /\ d.left = c.left
          /\ Same(c, d)
      BY <3>2, SMT DEF Agree, AllFields, Same
    <3>4. d["after"] \in Allowed["after"] BY <3>2, AllowedFields
    <3>5. Request(d) BY <3>2, <3>3, SMT DEF Request, Running, Same
    <3>6. Running(d)
      <4>1. {"after"} \subseteq Own BY DEF Own
      <4> QED BY <3>2, <3>4, <3>5, <4>1, Tweaked
    <3>7. Blamed(d) /\ Unread(d) BY <2>1, <3>3, SameWire
    <3>8. d.call = "POST" /\ d.served = c.served BY <2>3, <3>3 DEF Same
    <3>9. d.sent < d.size => d.served = 0 BY <1>1, <2>1, <2>2, <3>3, <3>8
    <3>10. d.sent = d.size => d.null \/ d.size = 0 BY <1>1, <3>3
    <3>11. Goes(d, getData(d)) BY <3>2, <3>6, <3>7, <3>8, <3>9, <3>10, getDataGoes
    <3> QED BY <3>1, <3>3, <3>11, GoesFrom
  <2>4. CASE c.call = "headers"
    <3>1. AfterWrite(c, ec) = End(c, "building") BY <1>2, <2>4, Zenon DEF AfterWrite
    <3>2. c.sent < c.size => c.served = 0 BY <1>1, <2>1, <2>2
    <3>3. Goes(c, End(c, "building"))
      <4> DEFINE o == "building"
      <4>1. o \in Outcomes \ {"none"} /\ EndsWell(c, o) /\ MayEnd(c, o)
        BY <2>1, <2>4, <3>2, SMT DEF EndsWell, MayEnd, Outcomes, Errors
      <4> HIDE DEF o
      <4>2. Goes(c, End(c, o)) BY <4>1, EndGoes
      <4> QED BY <4>2 DEF o
    <3> QED BY <3>1, <3>3
  <2>5. CASE c.call \in {"GET", "HEAD", "open"}
    <3>1. AfterWrite(c, ec) = Issue(SetTimer(c), "wait") BY <1>2, <2>5, Zenon DEF AfterWrite
    <3>2. AtWait(c) BY <2>1, <2>5 DEF AtWait
    <3>3. Place("wait", c, FALSE) BY <3>2, Zenon DEF Place
    <3>4. "wait" \in Ops \ {"none", "connect"} BY DEF Ops, OwnOps
    <3> QED BY <3>1, <3>3, <3>4, IssueGoes
  <2> QED BY <1>1, <2>3, <2>4, <2>5 DEF RequestCalls
<1>3. CASE ec # "ok"
  <2>1. c.served = 0 /\ Excused(c)
    BY <1>3, Zenon DEF AtWrite
  <2>2. Down(c) /\ CleanIfUp(c) /\ (ec = "aborted" => c.sock = "closed")
    BY <1>3 DEF Broke
  <2>3. CASE Failing(c, ec)
    <3>1. c.cause # "none"
      <4>1. Busy(c) BY RunningIs
      <4> QED BY <2>1, <2>2, <2>3, SMT DEF Excused, Failing, InTime
    <3>2. AfterWrite(c, ec) = checkTimeout(c, ec) BY <1>3, <2>3 DEF AfterWrite
    <3> QED BY <2>2, <3>1, <3>2, FailGoes
  <2>4. CASE ~Failing(c, ec)
    <3> DEFINE t == ClearTimer(c)
    <3>1. AfterWrite(c, ec) = WriteAgain(t) BY <1>3, <2>4 DEF AfterWrite
    <3>2. /\ Running(t) /\ IsRec(t) /\ Same(c, t) /\ t.left = c.left
          /\ t.tries = c.tries /\ t.sent = c.sent /\ t.after = c.after
      BY UntimedIs
    <3> HIDE DEF t
    <3>3. Fresh(t) BY <1>1, <2>1, <3>2 DEF Fresh, Same
    <3>4. CleanIfUp(t) BY <2>2, <3>2, SameWire
    <3>5. t.cause # "none" \/ (t.sock # "closed" /\ t.tries = 1)
      BY <2>1, <2>2, <3>2, SMT DEF Excused, Same
    <3>6. Goes(t, WriteAgain(t)) BY <3>2, <3>3, <3>4, <3>5, WriteAgainGoes
    <3> QED BY <3>1, <3>2, <3>6, GoesFrom
  <2> QED BY <2>3, <2>4
<1> QED BY <1>2, <1>3

LEMMA AfterWaitGoes ==
  ASSUME NEW c, Running(c), NEW ec \in Results, Broke(c, ec), AtWait(c)
  PROVE  Goes(c, AfterWait(c, ec))
<1>1. CASE ec = "ok"
  <2>1. Goes(c, ReadAnswer(c, "return"))
    <3> DEFINE after == "return"
    <3>1. after \in {"return", "null"} /\ after # "null" BY Zenon
    <3>2. c.call \in RequestCalls \cup {"answer"} /\ ~c.null
      BY SMT DEF RequestCalls, AtWait, Running, Request
    <3>3. Blamed(c) /\ Unread(c) BY DEF AtWait
    <3> HIDE DEF after
    <3>4. Goes(c, ReadAnswer(c, after)) BY <3>1, <3>2, <3>3, ReadAnswerGoes
    <3> QED BY <3>4 DEF after
  <2> QED BY <1>1, <2>1 DEF AfterWait
<1>2. CASE ec # "ok"
  <2>1. AfterWait(c, ec) = checkTimeout(c, ec) BY <1>2 DEF AfterWait
  <2> QED BY <1>2, <2>1, BlamedFails DEF AtWait
<1> QED BY <1>1, <1>2

LEMMA AfterConnectGoes ==
  ASSUME NEW c, Running(c), NEW ec \in Results, Broke(c, ec), AtConnect(c)
  PROVE  Goes(c, AfterConnect(c, ec))
<1> DEFINE t == ClearTimer(c)
           d == [t EXCEPT !.must_reconnect = FALSE, !.after = "none"]
<1>1. CASE ec # "ok"
  <2> HIDE DEF t, d
  <2>1. AfterConnect(c, ec) = ClearTimer(checkTimeout(c, ec)) BY <1>1 DEF AfterConnect
  <2> QED BY <1>1, <2>1, BlamedFails DEF AtConnect
<1>2. CASE ec = "ok"
  <2>1. /\ c.after = "write"  => AfterConnect(c, ec) = StartWrite(d)
        /\ c.after = "retry"  => AfterConnect(c, ec) = WriteLoop(d)
        /\ c.after = "post"   => AfterConnect(c, ec) = writeRequest(d)
        /\ c.after = "repost" => AfterConnect(c, ec) = PostLoop(d)
        /\ c.after = "user"   => AfterConnect(c, ec) = End(d, "connected")
    BY <1>2, Zenon DEF AfterConnect
  <2>2. /\ Running(t) /\ IsRec(t) /\ Same(c, t) /\ InTime(t) /\ t.left = c.left
        /\ t.null = c.null /\ t.size = c.size /\ t.sent = c.sent /\ t.after = c.after
        /\ t.tries = c.tries
    BY UntimedIs
  <2> HIDE DEF t
  <2>3. /\ IsRec(d) /\ d.after = "none" /\ Agree(t, d, {"must_reconnect", "after"})
        /\ d.must_reconnect = FALSE
    BY <2>2, Fields, FieldsAll, Zenon DEF IsRec, Agree
  <2> HIDE DEF d
  <2>4. /\ d.size = c.size /\ d.sent = c.sent /\ d.null = c.null /\ d.left = c.left
        /\ d.tries = c.tries /\ d.timer = t.timer /\ Same(t, d) /\ Same(c, d)
    BY <2>2, <2>3, SMT DEF Agree, AllFields, Same
  <2>5. \A f \in {"must_reconnect", "after"} : d[f] \in Allowed[f]
    <3>1. d["must_reconnect"] \in Allowed["must_reconnect"] /\ d["after"] \in Allowed["after"]
      BY <2>3, AllowedFields
    <3> QED BY <3>1, Zenon
  <2>6. Request(d) BY <2>3, <2>4, SMT DEF Request, Running, Same
  <2>7. Running(d)
    <3>1. {"must_reconnect", "after"} \subseteq Own BY DEF Own
    <3> QED BY <2>2, <2>3, <2>5, <2>6, <3>1, Tweaked
  <2>8. Clean(d) /\ CleanIfUp(d) /\ Blamed(d) /\ d.reply = "none"
    BY <2>4, SameWire, SMT DEF AtConnect, Same, CleanIfUp
  <2>9. c.after # "user" /\ c.after # "repost" => Fresh(d)
    BY <2>3, <2>4, SMT DEF AtConnect, Fresh, Same
  <2>10. InTime(d) BY <2>2, <2>4, SMT DEF InTime, IsTimeout, Same
  <2>11. CASE c.after = "write"
    <3>1. Excused(d) BY <2>8 DEF Blamed, Excused
    <3>2. Goes(d, StartWrite(d)) BY <2>7, <2>8, <2>9, <2>11, <3>1, StartWriteGoes DEF Unasked
    <3> QED BY <2>1, <2>4, <2>11, <3>2, GoesFrom
  <2>12. CASE c.after = "retry"
    <3>1. d.tries = max_send_try => d.cause # "none"
      BY <2>4, <2>12, Bounds, SMT DEF AtConnect, Same
    <3>2. Goes(d, WriteLoop(d))
      BY <2>7, <2>8, <2>9, <2>12, <3>1, WriteLoopGoes DEF Blamed, Unasked
    <3> QED BY <2>1, <2>4, <2>12, <3>2, GoesFrom
  <2>13. CASE c.after = "post"
    <3>1. Sendable(d) BY <2>8, <2>9, <2>13 DEF Sendable, Blamed, Down, Unasked
    <3>2. Goes(d, writeRequest(d)) BY <2>7, <3>1, writeRequestGoes
    <3> QED BY <2>1, <2>4, <2>13, <3>2, GoesFrom
  <2>14. CASE c.after = "repost"
    <3>1. d.call = "POST" /\ d.cause # "none" /\ d.left = 0 /\ d.served = 0
      BY <2>4, <2>14 DEF AtConnect, Same
    <3>2. Goes(d, PostLoop(d)) BY <2>3, <2>7, <2>8, <3>1, PostLoopGoes DEF Unasked
    <3> QED BY <2>1, <2>4, <2>14, <3>2, GoesFrom
  <2>15. CASE c.after = "user"
    <3>1. d.call = "connect" /\ d.left = 0 BY <2>4, <2>15 DEF AtConnect, Same
    <3>2. d.sent = 0 /\ d.size = 0 BY <2>6, <3>1 DEF Request
    <3>3. Goes(d, End(d, "connected"))
      <4> DEFINE o == "connected"
      <4>1. o \in Outcomes \ {"none"} /\ EndsWell(d, o) /\ MayEnd(d, o)
        BY <2>8, <3>1, <3>2, SMT DEF EndsWell, MayEnd, Outcomes, Errors
      <4> HIDE DEF o
      <4>2. Goes(d, End(d, o)) BY <2>7, <4>1, EndGoes
      <4> QED BY <4>2 DEF o
    <3> QED BY <2>1, <2>4, <2>15, <3>3, GoesFrom
  <2>16. c.after \in Afters BY DEF AtConnect
  <2> QED BY <2>11, <2>12, <2>13, <2>14, <2>15, <2>16 DEF Afters
<1> QED BY <1>1, <1>2

(***************************************************************************)
(* An operation has ended.                                                 *)
(***************************************************************************)
LEMMA Delivered ==
  ASSUME NEW c, WorkOK(c), c.queue # <<>>, NEW ec \in Results, Head(c.queue) = ec,
         NEW d, IsRec(d), d.op = "none", d.queue = Tail(c.queue),
         Agree(c, d, {"op", "queue"})
  PROVE  /\ Running(d) /\ InTime(d) /\ Broke(d, ec) /\ Place(c.op, d, ec = "ok")
         /\ c.op # "none" /\ Agree(c, d, Aside)
         /\ d.after = "null" => c.op \in {"head", "body", "data"}
<1>1. c.op # "none" /\ Holds(c, ec)
  BY HeadIs, TimeoutNoResult, Zenon DEF WorkOK
<1>2. Agree(c, d, Aside) BY AgreeMore DEF Aside
<1>3. SamePoint(c, d) /\ d.sock = c.sock /\ d.cause = c.cause BY <1>2, SameCore
<1>4. d.timer = c.timer /\ Typed(c) /\ c.queue \in Seq(Handlers)
  BY FieldTypes, SMT DEF Agree, AllFields, WorkOK
<1>5. Quiet(d) BY <1>1, <1>4, TakeResult, Zenon
<1>6. Typed(d)
  <2>1. d.queue \in Seq(Handlers) BY <1>4, HeadTailProperties
  <2>2. d["op"] \in Allowed["op"] /\ d["queue"] \in Allowed["queue"]
    BY <2>1, AllowedFields DEF Ops
  <2>3. \A f \in {"op", "queue"} : d[f] \in Allowed[f] BY <2>2, Zenon
  <2> QED BY <1>4, <2>3, AgreeTyped
<1>7. Network(d) /\ Request(d) BY <1>2, SamePlace DEF WorkOK
<1>8. ~Bare(c) /\ \A o \in Results : Holds(c, o) => o = ec BY <1>1, OneResult, Zenon
<1>9. c.call \notin {"none", "gone"} /\ c.sock # "connecting" /\ InTime(c)
  BY <1>1, <1>8, SMT DEF WorkOK, OpSound, Busy
<1>10. Running(d) BY <1>3, <1>5, <1>6, <1>7, <1>9 DEF Running, SamePoint
<1>11. Broke(d, ec)
  <2>1. Broke(c, ec) BY <1>1 DEF WorkOK, OpSound
  <2> QED BY <1>2, <2>1, SamePlace
<1>12. Place(c.op, d, ec = "ok")
  <2> DEFINE op == c.op
             was == Holds(c, "ok")
             now == ec = "ok"
  <2>1. was <=> now BY <1>1, <1>8, Zenon DEF Results
  <2>2. Place(op, d, was) BY <1>2, SamePlace DEF WorkOK
  <2> HIDE DEF op, was, now
  <2>3. Place(op, d, now) BY <2>1, <2>2, PlaceWhen, Zenon
  <2> QED BY <2>3 DEF op, now
<1>13. InTime(d) BY <1>3, <1>4, <1>9 DEF InTime, IsTimeout
<1>14. d.after = "null" => c.op \in {"head", "body", "data"}
  BY <1>3 DEF WorkOK, OpSound, SamePoint
<1> QED BY <1>1, <1>2, <1>10, <1>11, <1>12, <1>13, <1>14

LEMMA ResumeGoes ==
  ASSUME NEW c, WorkOK(c), c.queue # <<>>, NEW ec \in Results, Head(c.queue) = ec,
         c.op \in OwnOps, NEW rest, IsRec(rest), rest.queue = Tail(c.queue),
         Agree(c, rest, {"queue"})
  PROVE  Goes(c, Resume(rest, ec))
<1> DEFINE d == [rest EXCEPT !.op = "none"]
<1>1. /\ IsRec(d) /\ d.op = "none" /\ Agree(rest, d, {"op"})
  BY Fields, FieldsAll, Zenon DEF IsRec, Agree
<1>2. rest.op = c.op BY SMT DEF Agree, AllFields
<1>3. Resume(rest, ec) =
        CASE rest.op = "connect" -> AfterConnect(d, ec)
          [] rest.op = "write"   -> AfterWrite(d, ec)
          [] rest.op = "wait"    -> AfterWait(d, ec)
          [] rest.op = "head"    -> AfterHead(d, ec)
          [] rest.op = "body"    -> AfterBody(d, ec)
          [] rest.op = "data"    -> AfterData(d, ec)
          [] rest.op = "preload" -> AfterPreload(d, ec)
  BY DEF Resume
<1> DEFINE e == Resume(rest, ec)
<1> HIDE DEF d, e
<1>4. /\ c.op = "connect" => e = AfterConnect(d, ec)
      /\ c.op = "write"   => e = AfterWrite(d, ec)
      /\ c.op = "wait"    => e = AfterWait(d, ec)
      /\ c.op = "head"    => e = AfterHead(d, ec)
      /\ c.op = "body"    => e = AfterBody(d, ec)
      /\ c.op = "data"    => e = AfterData(d, ec)
      /\ c.op = "preload" => e = AfterPreload(d, ec)
  BY <1>2, <1>3, Zenon DEF e
<1>5. Agree(c, d, {"op", "queue"})
  <2>1. Agree(c, d, {"queue"} \cup {"op"}) BY <1>1, AgreeStep
  <2> QED BY <2>1, AgreeMore
<1>6. d.queue = Tail(c.queue) BY <1>1, SMT DEF Agree, AllFields
<1>7. /\ Running(d) /\ InTime(d) /\ Broke(d, ec) /\ Place(c.op, d, ec = "ok")
      /\ Agree(c, d, Aside)
      /\ d.after = "null" => c.op \in {"head", "body", "data"}
  BY <1>1, <1>5, <1>6, Delivered
<1>8. d.call = c.call /\ d.served = c.served /\ d.reply = c.reply
  BY <1>7, SameCore DEF SamePoint
<1>9. Goes(d, e)
  <2>1. CASE c.op = "connect"
    <3>1. AtConnect(d) BY <1>7, <2>1, Zenon DEF Place
    <3> QED BY <1>4, <1>7, <2>1, <3>1, AfterConnectGoes
  <2>2. CASE c.op = "write"
    <3>1. AtWrite(d, ec = "ok") BY <1>7, <2>2, Zenon DEF Place
    <3> QED BY <1>4, <1>7, <2>2, <3>1, AfterWriteGoes
  <2>3. CASE c.op = "wait"
    <3>1. AtWait(d) BY <1>7, <2>3, Zenon DEF Place
    <3> QED BY <1>4, <1>7, <2>3, <3>1, AfterWaitGoes
  <2>4. CASE c.op = "head"
    <3>1. AtHead(d, ec = "ok") BY <1>7, <2>4, Zenon DEF Place
    <3> QED BY <1>4, <1>7, <2>4, <3>1, AfterHeadGoes
  <2>5. CASE c.op = "body"
    <3>1. AtBody(d, ec = "ok") BY <1>7, <2>5, Zenon DEF Place
    <3> QED BY <1>4, <1>7, <2>5, <3>1, AfterBodyGoes
  <2>6. CASE c.op = "data"
    <3>1. AtData(d, ec = "ok") BY <1>7, <2>6, Zenon DEF Place
    <3> QED BY <1>4, <1>7, <2>6, <3>1, AfterDataGoes
  <2>7. CASE c.op = "preload"
    <3>1. AtPreload(d, ec = "ok") BY <1>7, <2>7, Zenon DEF Place
    <3> QED BY <1>4, <1>7, <2>7, <3>1, AfterPreloadGoes
  <2> QED BY <2>1, <2>2, <2>3, <2>4, <2>5, <2>6, <2>7 DEF OwnOps
<1>10. Goes(c, e) BY <1>8, <1>9, SMT DEF Goes, Moves
<1> QED BY <1>10 DEF e

(***************************************************************************)
(* The coroutine stays where it is.                                        *)
(***************************************************************************)
\* The same result is in the queue, or none.
SameQueue(c, d) ==
  /\ Quiet(c) => Quiet(d)
  /\ Bare(c) => Bare(d)
  /\ \A r \in Results : Holds(c, r) => Holds(d, r)

LEMMA QueueKept ==
  ASSUME NEW c, NEW d, QueueOK(c), d.op = c.op, SameQueue(c, d)
  PROVE  /\ QueueOK(d)
         /\ c.op # "none" => (Bare(d) <=> Bare(c))
         /\ \A r \in Results : Holds(d, r) <=> Holds(c, r)
<1>1. QueueOK(d) BY Zenon DEF QueueOK, SameQueue
<1>2. CASE c.op = "none"
  <2>1. Quiet(c) /\ Quiet(d) BY <1>2, Zenon DEF QueueOK, SameQueue
  <2>2. \A r \in Results : ~Holds(c, r) /\ ~Holds(d, r) BY <2>1, OneResult, Zenon
  <2> QED BY <1>1, <1>2, <2>2
<1>3. CASE c.op # "none"
  <2>1. CASE Bare(c)
    <3>1. Bare(d) BY <2>1 DEF SameQueue
    <3>2. \A r \in Results : ~Holds(c, r) /\ ~Holds(d, r) BY <2>1, <3>1, OneResult, Zenon
    <3> QED BY <1>1, <2>1, <3>1, <3>2
  <2>2. CASE ~Bare(c)
    <3>1. PICK r \in Results : Holds(c, r) BY <1>3, <2>2 DEF QueueOK
    <3>2. Holds(d, r) BY <3>1 DEF SameQueue
    <3>3. ~Bare(d) /\ \A o \in Results : (Holds(c, o) \/ Holds(d, o)) => o = r
      BY <3>1, <3>2, OneResult, Zenon
    <3> QED BY <1>1, <2>2, <3>1, <3>2, <3>3, Zenon
  <2> QED BY <2>1, <2>2
<1> QED BY <1>2, <1>3

LEMMA SameQueueNow ==
  ASSUME NEW c, NEW d, d.queue = c.queue, d.timer = c.timer PROVE SameQueue(c, d)
  BY DEF SameQueue, Quiet, Bare, Holds

\* What does not change while it stays.
Waits(c, d) ==
  /\ d.op = c.op /\ d.post_tries = c.post_tries
  /\ d.sock = "connecting" <=> c.sock = "connecting"

LEMMA Stays ==
  ASSUME NEW c, WorkOK(c), NEW d, Typed(d), Waits(c, d), SameQueue(c, d), Carries(c, d),
         Network(d), Request(d), \A r \in Results : Broke(c, r) => Broke(d, r),
         Busy(d) => InTime(d)
  PROVE  WorkOK(d)
<1>1. /\ QueueOK(d)
      /\ c.op # "none" => (Bare(d) <=> Bare(c))
      /\ \A r \in Results : Holds(d, r) <=> Holds(c, r)
  BY QueueKept DEF WorkOK, Waits
<1>2. OpSound(d)
  <2>1. \A r \in Results : Holds(d, r) => Broke(d, r) BY <1>1, Zenon DEF WorkOK, OpSound
  <2> QED BY <1>1, <2>1, SMT DEF WorkOK, OpSound, Waits, Carries, SamePoint
<1>3. Place(d.op, d, Holds(d, "ok"))
  <2> DEFINE op == c.op
             was == Holds(c, "ok")
             now == Holds(d, "ok")
  <2>1. was <=> now BY <1>1, Zenon DEF Results
  <2>2. Place(op, c, was) BY DEF WorkOK
  <2>3. d.op = op BY DEF Waits
  <2> HIDE DEF op, was, now
  <2>4. Place(op, d, was) BY <2>2, PlaceCarried
  <2>5. Place(op, d, now) BY <2>1, <2>4, PlaceWhen, Zenon
  <2> QED BY <2>3, <2>5 DEF now
<1> QED BY <1>1, <1>2, <1>3 DEF WorkOK

\* The operation it waits for ends.
LEMMA Completed ==
  ASSUME NEW c, WorkOK(c), Pending(c), NEW r \in Results, NEW d, Typed(d),
         d.queue = Append(c.queue, r), d.timer = c.timer, d.op = c.op,
         SamePoint(c, d), d.post_tries = c.post_tries, d.sock # "connecting",
         Network(d), Request(d), Broke(d, r), Busy(d) => InTime(d),
         Place(d.op, d, r = "ok")
  PROVE  WorkOK(d)
<1>1. c.op # "none" /\ Bare(c)
  <2>1. c.op # "none" BY DEF Pending
  <2>2. Bare(c) \/ \E o \in Results : Holds(c, o) BY <2>1 DEF WorkOK, QueueOK
  <2> QED BY <2>1, <2>2, OneResult, Zenon
<1>2. Holds(d, r) BY <1>1, BareEnds
<1>3. ~Bare(d) /\ \A o \in Results : Holds(d, o) => o = r BY <1>2, OneResult, Zenon
<1>4. QueueOK(d) BY <1>1, <1>2 DEF QueueOK
<1>5. OpSound(d) BY <1>3, SMT DEF WorkOK, OpSound, SamePoint
<1>6. Place(d.op, d, Holds(d, "ok"))
  <2> DEFINE op == d.op
             was == r = "ok"
             now == Holds(d, "ok")
  <2>1. was <=> now BY <1>2, <1>3, Zenon DEF Results
  <2>2. Place(op, d, was) OBVIOUS
  <2> HIDE DEF op, was, now
  <2>3. Place(op, d, now) BY <2>1, <2>2, PlaceWhen, Zenon
  <2> QED BY <2>3 DEF op, now
<1> QED BY <1>4, <1>5, <1>6 DEF WorkOK

\* What is not the coroutine's: the connection, the timer and the queue.
OnWire == {"sock", "due", "inbox", "body", "owed", "reply", "cause", "timer", "queue"}
LEMMA Stayed ==
  ASSUME NEW c, NEW d, Agree(c, d, OnWire \cup {"served", "got"})
  PROVE  /\ d.op = c.op /\ d.post_tries = c.post_tries /\ d.call = c.call
         /\ d.after = c.after /\ d.tries = c.tries /\ d.left = c.left
         /\ d.size = c.size /\ d.sent = c.sent /\ d.null = c.null
         /\ d.outcome = c.outcome
         /\ d.served = c.served => SamePoint(c, d)
         /\ Busy(d) <=> Busy(c)
<1>1. /\ d.op = c.op /\ d.post_tries = c.post_tries /\ d.call = c.call
      /\ d.after = c.after /\ d.tries = c.tries /\ d.left = c.left
      /\ d.size = c.size /\ d.sent = c.sent /\ d.null = c.null
      /\ d.outcome = c.outcome /\ d.count = c.count
  BY SMT DEF Agree, AllFields, OnWire
<1> QED BY <1>1 DEF SamePoint, Busy

LEMMA RequestKept ==
  ASSUME NEW c, NEW d, Request(c), SamePoint(c, d), c.cause # "none" => d.cause # "none",
         c.reply \in Given => d.reply \in Given
  PROVE  Request(d)
  BY SMT DEF Request, SamePoint

LEMMA WorkIs ==
  ASSUME NEW c, WorkOK(c)
  PROVE  /\ IsRec(c) /\ Typed(c) /\ QueueOK(c) /\ c.queue \in Seq(Handlers)
         /\ Network(c) /\ Request(c) /\ OpSound(c) /\ Place(c.op, c, Holds(c, "ok"))
         /\ Busy(c) => InTime(c)
         /\ Pending(c) => c.op # "none" /\ Bare(c) /\ Busy(c) /\ Place(c.op, c, FALSE)
         /\ ~Pending(c) => c.sock # "connecting"
<1>1. Typed(c) /\ c.queue \in Seq(Handlers) BY FieldTypes DEF WorkOK
<1>2. Busy(c) => InTime(c) BY DEF WorkOK, OpSound
<1>3. ASSUME Pending(c) PROVE c.op # "none" /\ Bare(c) /\ Busy(c) /\ Place(c.op, c, FALSE)
  <2>1. c.op # "none" BY <1>3 DEF Pending
  <2>2. Bare(c) \/ \E o \in Results : Holds(c, o) BY <2>1 DEF WorkOK, QueueOK
  <2>3. Bare(c) /\ ~Holds(c, "ok") BY <1>3, <2>2, OneResult, Zenon DEF Results
  <2>4. Busy(c) BY <2>1 DEF WorkOK, OpSound, Busy
  <2>5. Place(c.op, c, FALSE)
    <3> DEFINE op == c.op
               was == Holds(c, "ok")
               now == FALSE
    <3>1. was <=> now BY <2>3
    <3>2. Place(op, c, was) BY DEF WorkOK
    <3> HIDE DEF op, was, now
    <3>3. Place(op, c, now) BY <3>1, <3>2, PlaceWhen, Zenon
    <3> QED BY <3>3 DEF op, now
  <2> QED BY <2>1, <2>3, <2>4, <2>5
<1>4. ~Pending(c) => c.sock # "connecting"
  BY OneResult, SMT DEF WorkOK, OpSound
<1> QED BY <1>1, <1>2, <1>3, <1>4 DEF WorkOK, Typed

(***************************************************************************)
(* The handler of a timeout.                                               *)
(***************************************************************************)
LEMMA TimeoutTaken ==
  ASSUME NEW c, WorkOK(c), c.queue # <<>>, Head(c.queue) = T,
         NEW d, IsRec(d), d.queue = Tail(c.queue), Agree(c, d, {"queue"})
  PROVE  WorkOK(d)
<1>1. Agree(c, d, Aside) BY AgreeMore DEF Aside
<1>2. d.timer = c.timer /\ d.op = c.op /\ d.post_tries = c.post_tries /\ d.sock = c.sock
      /\ d.cause = c.cause
  BY SMT DEF Agree, AllFields
<1>3. Typed(d)
  <2>1. d.queue \in Seq(Handlers)
    <3>1. c.queue \in Seq(Handlers) BY WorkIs
    <3> QED BY <3>1, TailHandler
  <2>2. d["queue"] \in Allowed["queue"] BY <2>1, AllowedFields
  <2>3. \A f \in {"queue"} : d[f] \in Allowed[f] BY <2>2, Zenon
  <2> QED BY <2>3, WorkIs, AgreeTyped
<1>4. SameQueue(c, d) BY <1>2, TakeTimeout, Zenon DEF SameQueue
<1>5. /\ Carries(c, d) /\ Network(d) /\ Request(d) /\ (Busy(d) <=> Busy(c))
      /\ \A r : Broke(c, r) => Broke(d, r)
  BY <1>1, SamePlace DEF WorkOK
<1>6. Busy(d) => InTime(d) BY <1>2, <1>5, WorkIs DEF InTime, IsTimeout
<1> QED BY <1>2, <1>3, <1>4, <1>5, <1>6, Stays DEF Waits

LEMMA TimeoutCloses ==
  ASSUME NEW c, WorkOK(c), IsTimeout(c)
  PROVE  WorkOK(Close(c))
<1> DEFINE d == Close(c)
<1>1. CASE c.sock = "closed" BY <1>1 DEF Close
<1>2. CASE c.sock # "closed"
  <2>1. /\ IsRec(d) /\ d.sock = "closed"
        /\ Agree(c, d, {"sock", "due", "inbox", "body", "owed", "queue"})
        /\ d.due = FALSE /\ d.inbox = NoHead /\ d.body = 0 /\ d.owed = 0
        /\ d.queue = IF Pending(c) THEN Append(c.queue, "aborted") ELSE c.queue
    BY <1>2, WorkIs, CloseIs
  <2> HIDE DEF d
  <2>2. Agree(c, d, OnWire \cup {"served", "got"}) BY <2>1, AgreeMore DEF OnWire
  <2>3. d.served = c.served /\ d.timer = c.timer /\ d.cause = c.cause /\ d.reply = c.reply
        /\ d.got = c.got
    BY <2>1, SMT DEF Agree, AllFields
  <2>4. /\ SamePoint(c, d) /\ d.op = c.op /\ d.post_tries = c.post_tries
        /\ Busy(d) <=> Busy(c)
    BY <2>2, <2>3, Stayed
  <2>5. /\ c.body \in 0 .. MaxBody /\ c.owed \in 0 .. MaxBody /\ c.left \in 0 .. MaxBody
        /\ c.got \in Answers
    BY WorkIs, FieldTypes
  <2>6. d.queue \in Seq(Handlers)
    <3>1. c.queue \in Seq(Handlers) /\ "aborted" \in Handlers BY WorkIs DEF Handlers, Results
    <3> QED BY <2>1, <3>1, AppendHandler
  <2>7. Typed(d)
    <3>1. 0 \in 0 .. MaxBody /\ NoHead \in Answers BY Bounds DEF Answers
    <3>2. /\ d["sock"] \in Allowed["sock"] /\ d["due"] \in Allowed["due"]
          /\ d["inbox"] \in Allowed["inbox"] /\ d["body"] \in Allowed["body"]
          /\ d["owed"] \in Allowed["owed"] /\ d["queue"] \in Allowed["queue"]
      BY <2>1, <2>6, <3>1, AllowedFields DEF Socks
    <3>3. \A f \in {"sock", "due", "inbox", "body", "owed", "queue"} : d[f] \in Allowed[f]
      BY <3>2, Zenon
    <3> QED BY <2>1, <3>3, WorkIs, AgreeTyped
  <2>8. Network(d) BY <2>1, Bounds DEF Network, Clean
  <2>9. Request(d) BY <2>3, <2>4, WorkIs, RequestKept
  <2>10. \A r \in Results : Broke(d, r) BY <2>1 DEF Broke, Down, CleanIfUp, Up
  <2>11. Busy(d) => InTime(d) BY <2>3, <2>4, WorkIs DEF InTime, IsTimeout
  <2>12. Carries(c, d)
    <3>1. Unread(c) => Unread(d)
      BY <2>1, <2>4, HeadsDiffer, SMT DEF Unread, SamePoint, Fits
    <3>2. HeadRead(c) => HeadRead(d)
      <4>1. LengthOf(d.got, d.call) \in 0 .. MaxBody BY <2>3, <2>5, AnswerLength
      <4>2. Fits(d, LengthOf(d.got, d.call)) BY <2>1, <4>1, Bounds DEF Fits
      <4> QED BY <2>1, <2>3, <2>4, <4>2, SMT DEF HeadRead, SamePoint
    <3>3. \A n \in {0, c.left, c.left - 1, c.left - c.count} : BodyLeft(c, n) => BodyLeft(d, n)
      <4>1. c.count \in 0 .. MaxBody BY WorkIs, FieldTypes
      <4>2. \A n \in Int : BodyLeft(c, n) => BodyLeft(d, n)
        BY <2>1, <2>3, <2>5, Bounds, SMT DEF BodyLeft, Fits
      <4> QED BY <2>5, <4>1, <4>2, Bounds
    <3>4. Clean(d) /\ CleanIfUp(d) BY <2>1 DEF Clean, CleanIfUp, Up
    <3>5. Busy(c) => c.cause # "none" BY WorkIs DEF InTime
    <3>6. Busy(c) => (Blamed(c) => Blamed(d)) /\ (Excused(c) => Excused(d))
      BY <2>3, <3>5 DEF Blamed, Excused
    <3> QED BY <2>1, <2>3, <2>4, <3>1, <3>2, <3>3, <3>4, <3>6, SMT DEF Carries
  <2>13. ASSUME Pending(c) PROVE WorkOK(d)
    <3>1. Place(c.op, c, FALSE) BY <2>13, WorkIs
    <3>2. Place(c.op, d, FALSE)
      <4> DEFINE op == c.op
      <4>1. Place(op, c, FALSE) BY <3>1
      <4> HIDE DEF op
      <4>2. Place(op, d, FALSE) BY <2>12, <4>1, PlaceCarried
      <4> QED BY <4>2 DEF op
    <3> DEFINE r == "aborted"
    <3>3. r \in Results /\ d.queue = Append(c.queue, r) /\ ~(r = "ok") BY <2>1, <2>13 DEF Results
    <3>4. Place(d.op, d, r = "ok")
      <4> DEFINE op == d.op
                 now == r = "ok"
      <4>1. Place(op, d, FALSE) BY <2>4, <3>2
      <4>2. FALSE <=> now OBVIOUS
      <4> HIDE DEF op, now
      <4>3. Place(op, d, now) BY <4>1, <4>2, PlaceWhen, Zenon
      <4> QED BY <4>3 DEF op, now
    <3> HIDE DEF r
    <3>5. d.sock # "connecting" BY <2>1
    <3>6. Broke(d, r) BY <2>10, <3>3
    <3> QED BY <2>3, <2>4, <2>7, <2>8, <2>9, <2>11, <2>13, <3>3, <3>4, <3>5, <3>6, Completed
  <2>14. ASSUME ~Pending(c) PROVE WorkOK(d)
    <3>1. SameQueue(c, d) BY <2>1, <2>3, <2>14, SameQueueNow
    <3>2. Waits(c, d) BY <2>1, <2>4, <2>14, WorkIs DEF Waits
    <3> QED BY <2>7, <2>8, <2>9, <2>10, <2>11, <2>12, <3>1, <3>2, Stays
  <2> QED BY <2>13, <2>14 DEF d
<1> QED BY <1>1, <1>2

LEMMA TimeoutWorks ==
  ASSUME NEW c, WorkOK(c), c.queue # <<>>, Head(c.queue) = T,
         NEW d, IsRec(d), d.queue = Tail(c.queue), Agree(c, d, {"queue"})
  PROVE  WorkOK(onTimeout(d))
  BY TimeoutTaken, TimeoutCloses DEF onTimeout

(***************************************************************************)
(* The clock.                                                              *)
(***************************************************************************)
LEMMA TimeWorks ==
  ASSUME WorkOK(conn), TimePasses \/ CollectTimer
  PROVE  WorkOK(conn')
<1> DEFINE c == conn
           d == conn'
<1>1. CASE TimePasses
  <2>1. /\ IsRec(d) /\ d.timer = "late" /\ d.cause = "other"
        /\ Agree(c, d, {"timer", "cause"}) /\ c.timer = "armed"
    BY <1>1, WorkIs, Fields, FieldsAll, Zenon DEF TimePasses, IsRec, Agree
  <2> HIDE DEF c, d
  <2>2. WorkOK(c) BY DEF c
  <2>3. /\ d.queue = c.queue /\ d.sock = c.sock /\ d.due = c.due /\ d.inbox = c.inbox
        /\ d.body = c.body /\ d.owed = c.owed /\ d.reply = c.reply /\ d.got = c.got
        /\ d.served = c.served
    BY <2>1, SMT DEF Agree, AllFields
  <2>4. Agree(c, d, OnWire \cup {"served", "got"}) BY <2>1, AgreeMore DEF OnWire
  <2>5. SamePoint(c, d) /\ Waits(c, d) BY <2>3, <2>4, Stayed DEF Waits
  <2>6. Typed(d)
    <3>1. d["timer"] \in Allowed["timer"] /\ d["cause"] \in Allowed["cause"]
      BY <2>1, AllowedFields DEF Causes
    <3>2. \A f \in {"timer", "cause"} : d[f] \in Allowed[f] BY <3>1, Zenon
    <3> QED BY <2>1, <2>2, <3>2, WorkIs, AgreeTyped
  <2>7. SameQueue(c, d) BY <2>1, <2>3, Zenon DEF SameQueue, Quiet, Bare, Holds
  <2>8. Network(d)
    <3>1. Network(c) BY <2>2, WorkIs
    <3> QED BY <2>3, <3>1 DEF Network, Clean
  <2>9. Request(d) BY <2>1, <2>2, <2>3, <2>5, WorkIs, RequestKept
  <2>10. Clean(d) <=> Clean(c) BY <2>3 DEF Clean
  <2>11. \A r : Broke(c, r) => Broke(d, r) BY <2>3, <2>10, SMT DEF Broke, Down, CleanIfUp, Up
  <2>12. InTime(d) BY <2>1 DEF InTime
  <2>13. Carries(c, d)
    <3>1. Unread(c) => Unread(d) BY <2>1, <2>3, <2>5, SMT DEF Unread, SamePoint, Fits
    <3>2. HeadRead(c) => HeadRead(d) BY <2>1, <2>3, <2>5, SMT DEF HeadRead, SamePoint, Fits
    <3>3. \A n : BodyLeft(c, n) => BodyLeft(d, n) BY <2>3, SMT DEF BodyLeft, Fits
    <3>4. Blamed(d) /\ Excused(d) BY <2>1 DEF Blamed, Excused
    <3>5. CleanIfUp(c) => CleanIfUp(d) BY <2>3, <2>10 DEF CleanIfUp, Up
    <3> QED BY <2>1, <2>3, <2>5, <2>10, <3>1, <3>2, <3>3, <3>4, <3>5, SMT DEF Carries
  <2>14. WorkOK(d) BY <2>2, <2>5, <2>6, <2>7, <2>8, <2>9, <2>11, <2>12, <2>13, Stays
  <2> QED BY <2>14 DEF d
<1>2. CASE CollectTimer
  <2>1. /\ IsRec(d) /\ d.timer = "past" /\ d.queue = Append(c.queue, "timeout")
        /\ Agree(c, d, {"timer", "queue"}) /\ c.timer = "late"
    BY <1>2, WorkIs, Fields, FieldsAll, Zenon DEF CollectTimer, IsRec, Agree
  <2> HIDE DEF c, d
  <2>2. WorkOK(c) BY DEF c
  <2>3. Agree(c, d, Aside) BY <2>1, AgreeMore DEF Aside
  <2>4. d.op = c.op /\ d.post_tries = c.post_tries /\ d.sock = c.sock /\ d.cause = c.cause
    BY <2>1, SMT DEF Agree, AllFields
  <2>5. Typed(d)
    <3>1. c.queue \in Seq(Handlers) /\ "timeout" \in Handlers BY <2>2, WorkIs DEF Handlers
    <3>2. d.queue \in Seq(Handlers) BY <2>1, <3>1, AppendHandler
    <3>3. d["timer"] \in Allowed["timer"] /\ d["queue"] \in Allowed["queue"]
      BY <2>1, <3>2, AllowedFields
    <3>4. \A f \in {"timer", "queue"} : d[f] \in Allowed[f] BY <3>3, Zenon
    <3> QED BY <2>1, <2>2, <3>4, WorkIs, AgreeTyped
  <2>6. SameQueue(c, d) BY <2>1, QueueTimeout, Zenon DEF SameQueue, T
  <2>7. /\ Carries(c, d) /\ Network(d) /\ Request(d) /\ (Busy(d) <=> Busy(c))
        /\ \A r : Broke(c, r) => Broke(d, r)
    BY <2>2, <2>3, SamePlace DEF WorkOK
  <2>8. Busy(d) => InTime(d) BY <2>1, <2>2, <2>4, <2>7, WorkIs DEF InTime, IsTimeout
  <2>9. WorkOK(d) BY <2>2, <2>4, <2>5, <2>6, <2>7, <2>8, Stays DEF Waits
  <2> QED BY <2>9 DEF d
<1> QED BY <1>1, <1>2

(***************************************************************************)
(* The kernel ends the operation.                                          *)
(***************************************************************************)
\* What the kernel and the server change.
Kernels == {"sock", "due", "inbox", "body", "owed", "reply", "cause", "served", "got"}

LEMMA Finished ==
  ASSUME NEW c, WorkOK(c), Pending(c), NEW r \in Results, NEW d, IsRec(d),
         NEW S, S \subseteq Kernels,
         Agree(c, d, S \cup {"queue"}), \A f \in S : d[f] \in Allowed[f],
         d.queue = Append(c.queue, r), d.sock # "connecting", Network(d), d.served <= 1,
         c.cause # "none" => d.cause # "none", Broke(d, r), Place(c.op, d, r = "ok")
  PROVE  WorkOK(d)
<1>1. Agree(c, d, OnWire \cup {"served", "got"})
  <2>1. S \cup {"queue"} \subseteq OnWire \cup {"served", "got"} BY DEF OnWire, Kernels
  <2> QED BY <2>1, AgreeMore
<1>2. /\ d.op = c.op /\ d.post_tries = c.post_tries /\ d.call = c.call
      /\ d.after = c.after /\ d.tries = c.tries /\ d.left = c.left
      /\ d.size = c.size /\ d.sent = c.sent /\ d.null = c.null
      /\ d.outcome = c.outcome /\ (Busy(d) <=> Busy(c))
  BY <1>1, Stayed, ZenonT(60)
<1>3. d.timer = c.timer BY SMT DEF Agree, AllFields, Kernels
<1>4. c.op # "none" /\ Bare(c) /\ Busy(c) /\ InTime(c) /\ Request(c) /\ OpSound(c) BY WorkIs
<1>5. Typed(d)
  <2>1. c.queue \in Seq(Handlers) /\ r \in Handlers BY WorkIs DEF Handlers
  <2>2. d.queue \in Seq(Handlers) BY <2>1, AppendHandler
  <2>3. d["queue"] \in Allowed["queue"] BY <2>2, AllowedFields
  <2>4. \A f \in S \cup {"queue"} : d[f] \in Allowed[f] BY <2>3, Zenon
  <2> QED BY <2>4, WorkIs, AgreeTyped
<1>6. c.call # "none" /\ c.outcome = "none" /\ c.call \notin {"none", "gone"}
  BY <1>4 DEF OpSound, Request
<1>7. Request(d) BY <1>2, <1>4, <1>6, SMT DEF Request, Errors
<1>8. InTime(d) BY <1>3, <1>4 DEF InTime, IsTimeout
<1>9. Holds(d, r) BY <1>3, <1>4, BareEnds
<1>10. ~Bare(d) /\ \A o \in Results : Holds(d, o) => o = r BY <1>9, OneResult, Zenon
<1>11. QueueOK(d) BY <1>2, <1>4, <1>9 DEF QueueOK
<1>12. OpSound(d) BY <1>2, <1>4, <1>8, <1>10, <1>6, SMT DEF OpSound
<1>13. Place(d.op, d, Holds(d, "ok"))
  <2> DEFINE op == c.op
             was == r = "ok"
             now == Holds(d, "ok")
  <2>1. was <=> now BY <1>9, <1>10, Zenon DEF Results
  <2>2. Place(op, d, was) /\ d.op = op BY <1>2
  <2> HIDE DEF op, was, now
  <2>3. Place(op, d, now) BY <2>1, <2>2, PlaceWhen, Zenon
  <2> QED BY <2>2, <2>3 DEF now
<1> QED BY <1>5, <1>7, <1>11, <1>12, <1>13 DEF WorkOK

LEMMA FinishedWell ==
  ASSUME NEW c, WorkOK(c), Pending(c), NEW d, IsRec(d),
         NEW S, S \subseteq Kernels,
         Agree(c, d, S \cup {"queue"}), \A f \in S : d[f] \in Allowed[f],
         d.queue = Append(c.queue, "ok"), d.sock # "connecting", Network(d), d.served <= 1,
         c.cause # "none" => d.cause # "none", Place(c.op, d, TRUE)
  PROVE  WorkOK(d)
<1> DEFINE r == "ok"
           op == c.op
           yes == TRUE
           now == r = "ok"
<1>1. r \in Results /\ d.queue = Append(c.queue, r) /\ Broke(d, r) BY DEF Results, Broke
<1>2. Place(op, d, yes) OBVIOUS
<1>3. yes <=> now OBVIOUS
<1> HIDE DEF op, yes, now
<1>4. Place(op, d, now) BY <1>2, <1>3, PlaceWhen, Zenon
<1>5. Place(c.op, d, r = "ok") BY <1>4 DEF op, now
<1> HIDE DEF r
<1> QED BY <1>1, <1>5, Finished

LEMMA FinishedBadly ==
  ASSUME NEW c, WorkOK(c), Pending(c), NEW d, IsRec(d),
         NEW S, S \subseteq Kernels,
         Agree(c, d, S \cup {"queue"}), \A f \in S : d[f] \in Allowed[f],
         d.queue = Append(c.queue, "error"), d.sock # "connecting", Network(d), d.served <= 1,
         c.cause # "none" => d.cause # "none", Down(d) /\ CleanIfUp(d), Place(c.op, d, FALSE)
  PROVE  WorkOK(d)
<1> DEFINE r == "error"
           op == c.op
           no == FALSE
           now == r = "ok"
<1>1. r \in Results /\ d.queue = Append(c.queue, r) /\ Broke(d, r) BY DEF Results, Broke
<1>2. Place(op, d, no) OBVIOUS
<1>3. no <=> now OBVIOUS
<1> HIDE DEF op, no, now
<1>4. Place(op, d, now) BY <1>2, <1>3, PlaceWhen, Zenon
<1>5. Place(c.op, d, r = "ok") BY <1>4 DEF op, now
<1> HIDE DEF r
<1> QED BY <1>1, <1>5, Finished

\* What the kernel puts into the queue.
LEMMA CompleteIs ==
  ASSUME NEW c, IsRec(c), NEW r, NEW d, d = Complete(c, r)
  PROVE  IsRec(d) /\ d.queue = Append(c.queue, r) /\ Agree(c, d, {"queue"})
  BY Fields, FieldsAll, Zenon DEF Complete, IsRec, Agree

LEMMA ConnectWorks ==
  ASSUME WorkOK(conn), ConnectOk \/ ConnectFails
  PROVE  WorkOK(conn')
<1> DEFINE c == conn
           d == conn'
<1>1. Pending(c) /\ c.op = "connect" /\ WorkOK(c) BY DEF ConnectOk, ConnectFails
<1>2. IsRec(c) /\ Place(c.op, c, FALSE) /\ Network(c) /\ Request(c) BY <1>1, WorkIs
<1>3. AtConnect(c) BY <1>1, <1>2, Zenon DEF Place
<1>4. CASE ConnectOk
  <2> DEFINE e == Complete(c, "ok")
  <2>1. IsRec(e) /\ e.queue = Append(c.queue, "ok") /\ Agree(c, e, {"queue"})
    BY <1>2, CompleteIs
  <2>2. d = [e EXCEPT !.sock = "alive"] BY <1>4 DEF ConnectOk
  <2> HIDE DEF c, d, e
  <2>3. IsRec(d) /\ d.sock = "alive" /\ Agree(e, d, {"sock"})
    BY <2>1, <2>2, Fields, FieldsAll, Zenon DEF IsRec, Agree
  <2>4. Agree(c, d, {"sock"} \cup {"queue"})
    <3>1. Agree(c, d, {"queue"} \cup {"sock"}) BY <2>1, <2>3, AgreeStep
    <3> QED BY <3>1, AgreeMore
  <2>5. d.queue = Append(c.queue, "ok") BY <2>1, <2>3, SMT DEF Agree, AllFields
  <2>6. /\ d.call = c.call /\ d.after = c.after /\ d.tries = c.tries /\ d.left = c.left
        /\ d.sent = c.sent /\ d.due = c.due /\ d.inbox = c.inbox /\ d.body = c.body
        /\ d.owed = c.owed /\ d.reply = c.reply /\ d.cause = c.cause /\ d.served = c.served
    BY <2>4, SMT DEF Agree, AllFields
  <2>7. d["sock"] \in Allowed["sock"] BY <2>3, AllowedFields DEF Socks
  <2>8. \A f \in {"sock"} : d[f] \in Allowed[f] BY <2>7, Zenon
  <2>9. AtConnect(d) BY <1>3, <2>3, <2>6, SMT DEF AtConnect, Clean, Blamed, Down
  <2>10. Place(c.op, d, TRUE) BY <1>1, <2>9, Zenon DEF Place
  <2>11. Network(d) /\ d.served <= 1
    BY <1>2, <2>3, <2>6, <2>9, SMT DEF Network, Clean, AtConnect
  <2>12. WorkOK(d)
    <3> DEFINE S == {"sock"}
    <3>1. S \subseteq Kernels /\ Agree(c, d, S \cup {"queue"}) /\ \A f \in S : d[f] \in Allowed[f]
      BY <2>4, <2>8 DEF Kernels
    <3> HIDE DEF S
    <3>2. d.sock # "connecting" BY <2>3
    <3> QED BY <1>1, <2>3, <3>1, <2>5, <2>6, <3>2, <2>10, <2>11, FinishedWell
  <2> QED BY <2>12 DEF d
<1>5. CASE ConnectFails
  <2> DEFINE e == Complete(c, "error")
  <2>1. IsRec(e) /\ e.queue = Append(c.queue, "error") /\ Agree(c, e, {"queue"})
    BY <1>2, CompleteIs
  <2>2. d = [e EXCEPT !.sock = "refused", !.cause = "other"] BY <1>5 DEF ConnectFails
  <2> HIDE DEF c, d, e
  <2>3. IsRec(d) /\ d.sock = "refused" /\ d.cause = "other" /\ Agree(e, d, {"sock", "cause"})
    BY <2>1, <2>2, Fields, FieldsAll, Zenon DEF IsRec, Agree
  <2>4. Agree(c, d, {"sock", "cause"} \cup {"queue"})
    <3>1. Agree(c, d, {"queue"} \cup {"sock", "cause"}) BY <2>1, <2>3, AgreeStep
    <3> QED BY <3>1, AgreeMore
  <2>5. d.queue = Append(c.queue, "error") BY <2>1, <2>3, SMT DEF Agree, AllFields
  <2>6. /\ d.call = c.call /\ d.after = c.after /\ d.tries = c.tries /\ d.left = c.left
        /\ d.sent = c.sent /\ d.due = c.due /\ d.inbox = c.inbox /\ d.body = c.body
        /\ d.owed = c.owed /\ d.reply = c.reply /\ d.served = c.served
    BY <2>4, SMT DEF Agree, AllFields
  <2>7. d["sock"] \in Allowed["sock"] /\ d["cause"] \in Allowed["cause"]
    BY <2>3, AllowedFields DEF Socks, Causes
  <2>8. \A f \in {"sock", "cause"} : d[f] \in Allowed[f] BY <2>7, Zenon
  <2>9. AtConnect(d) BY <1>3, <2>3, <2>6, SMT DEF AtConnect, Clean, Blamed, Down
  <2>10. Place(c.op, d, FALSE) BY <1>1, <2>9, Zenon DEF Place
  <2>11. Network(d) /\ d.served <= 1
    BY <1>2, <2>3, <2>6, <2>9, SMT DEF Network, Clean, AtConnect
  <2>12. Down(d) /\ CleanIfUp(d) BY <2>3 DEF Down, CleanIfUp, Up
  <2>13. WorkOK(d)
    <3> DEFINE S == {"sock", "cause"}
    <3>1. S \subseteq Kernels /\ Agree(c, d, S \cup {"queue"}) /\ \A f \in S : d[f] \in Allowed[f]
      BY <2>4, <2>8 DEF Kernels
    <3> HIDE DEF S
    <3>2. d.sock # "connecting" BY <2>3
    <3> QED BY <1>1, <2>3, <3>1, <2>5, <2>6, <3>2, <2>10, <2>11, <2>12, FinishedBadly
  <2> QED BY <2>13 DEF d
<1> QED BY <1>4, <1>5

\* Nothing but the queue changes.
LEMMA OnlyQueued ==
  ASSUME NEW c, WorkOK(c), Pending(c), NEW r, NEW d, d = Complete(c, r)
  PROVE  /\ IsRec(d) /\ d.queue = Append(c.queue, r) /\ Agree(c, d, {"queue"})
         /\ Agree(c, d, {} \cup {"queue"})
         /\ Network(d) /\ d.served <= 1 /\ d.cause = c.cause /\ d.sock = c.sock
         /\ Place(c.op, d, FALSE) /\ Agree(c, d, Aside)
<1>1. IsRec(d) /\ d.queue = Append(c.queue, r) /\ Agree(c, d, {"queue"})
  BY WorkIs, CompleteIs
<1>2. Agree(c, d, Aside) /\ Agree(c, d, {} \cup {"queue"}) BY <1>1, AgreeMore DEF Aside
<1>3. Network(d) /\ Request(d) BY <1>2, SamePlace, WorkIs
<1>4. Place(c.op, d, FALSE)
  <2> DEFINE op == c.op
  <2>1. Place(op, c, FALSE) BY WorkIs
  <2> HIDE DEF op
  <2>2. Place(op, d, FALSE) BY <1>2, <2>1, SamePlace
  <2> QED BY <2>2 DEF op
<1>5. d.cause = c.cause /\ d.sock = c.sock BY <1>2, SameCore
<1> QED BY <1>1, <1>2, <1>3, <1>4, <1>5 DEF Request

LEMMA WriteFailsWorks ==
  ASSUME WorkOK(conn), WriteFails \/ Readable
  PROVE  WorkOK(conn')
<1> DEFINE c == conn
           d == conn'
<1>1. Pending(c) /\ WorkOK(c) BY DEF WriteFails, Readable
<1>2. CASE WriteFails
  <2>1. d = Complete(c, "error") /\ c.sock \in {"reset", "refused", "foul"}
    BY <1>2 DEF WriteFails
  <2> HIDE DEF c, d
  <2>2. /\ IsRec(d) /\ d.queue = Append(c.queue, "error") /\ Agree(c, d, {} \cup {"queue"})
        /\ Network(d) /\ d.served <= 1 /\ d.cause = c.cause /\ d.sock = c.sock
        /\ Place(c.op, d, FALSE)
    BY <1>1, <2>1, OnlyQueued
  <2>3. Down(d) /\ CleanIfUp(d) /\ d.sock # "connecting"
    BY <2>1, <2>2 DEF Down, CleanIfUp, Up
  <2>4. WorkOK(d)
    <3> DEFINE S == {}
    <3>1. S \subseteq Kernels /\ Agree(c, d, S \cup {"queue"}) /\ \A f \in S : d[f] \in Allowed[f]
      BY <2>2
    <3> HIDE DEF S
    <3> QED BY <1>1, <2>2, <2>3, <3>1, FinishedBadly
  <2> QED BY <2>4 DEF d
<1>3. CASE Readable
  <2>1. d = Complete(c, "ok") /\ c.op = "wait" BY <1>3 DEF Readable
  <2> HIDE DEF c, d
  <2>2. /\ IsRec(d) /\ d.queue = Append(c.queue, "ok") /\ Agree(c, d, {} \cup {"queue"})
        /\ Network(d) /\ d.served <= 1 /\ d.cause = c.cause /\ d.sock = c.sock
        /\ Place(c.op, d, FALSE)
    BY <1>1, <2>1, OnlyQueued
  <2>3. Place(c.op, d, TRUE) BY <2>1, <2>2, Zenon DEF Place
  <2>4. d.sock # "connecting"
    <3>1. OpSound(c) BY <1>1, WorkIs
    <3> QED BY <2>1, <2>2, <3>1 DEF OpSound
  <2>5. WorkOK(d)
    <3> DEFINE S == {}
    <3>1. S \subseteq Kernels /\ Agree(c, d, S \cup {"queue"}) /\ \A f \in S : d[f] \in Allowed[f]
      BY <2>2
    <3> HIDE DEF S
    <3> QED BY <1>1, <2>2, <2>3, <2>4, <3>1, FinishedWell
  <2> QED BY <2>5 DEF d
<1> QED BY <1>2, <1>3

\* A piece of the request is written: the server may have it all.
LEMMA WriteOkWorks ==
  ASSUME WorkOK(conn), WriteOk
  PROVE  WorkOK(conn')
<1> DEFINE c == conn
           d == conn'
           e == Complete(c, "ok")
<1>1. Pending(c) /\ WorkOK(c) /\ c.op \in Writes /\ c.sock \in {"alive", "fin", "foul"}
  BY DEF WriteOk
<1>2. IsRec(c) /\ Place(c.op, c, FALSE) /\ Network(c) /\ Request(c) BY <1>1, WorkIs
<1>3. /\ c.served \in Nat /\ c.sent \in 0 .. MaxData /\ c.size \in 0 .. MaxData
      /\ c.body \in 0 .. MaxBody /\ c.owed \in 0 .. MaxBody
      /\ c.reply \in Replies /\ c.due \in BOOLEAN
  BY <1>1, WorkIs, FieldTypes
<1>4. c.op \in {"write", "data", "barrier"} BY <1>1 DEF Writes
<1>5. /\ c.op = "write" => AtWrite(c, FALSE)
      /\ c.op = "data" => AtData(c, FALSE) /\ c.after # "null" /\ Piece(c, FALSE)
      /\ c.op = "barrier" => AtBarrier(c, FALSE) /\ Piece(c, FALSE)
  <2>1. c.op = "write" => AtWrite(c, FALSE) BY <1>2, Zenon DEF Place
  <2>2. c.op = "data" => AtData(c, FALSE) BY <1>2, Zenon DEF Place
  <2>3. c.op = "barrier" => AtBarrier(c, FALSE) BY <1>2, Zenon DEF Place
  <2> QED BY <2>1, <2>2, <2>3, Zenon DEF AtData, AtBarrier, Empty
<1>6. /\ IsRec(e) /\ e.queue = Append(c.queue, "ok") /\ Agree(c, e, {"queue"})
  BY <1>1, OnlyQueued
<1> DEFINE asks == c.sock = "alive" /\ c.op = "write"
           due == c.due \/ asks
           reply == IF asks THEN "asked" ELSE c.reply
           served == IF c.sock # "fin" /\ LastPiece(c) THEN c.served + 1 ELSE c.served
<1>7. e.due = c.due /\ e.reply = c.reply /\ e.served = c.served
  BY <1>6, SMT DEF Agree, AllFields
<1>8. d = [e EXCEPT !.due = due, !.reply = reply, !.served = served]
  BY <1>7 DEF WriteOk
<1>9. /\ due \in BOOLEAN /\ reply \in Replies /\ served \in Nat
      /\ asks => due /\ reply = "asked"
      /\ ~asks => due = c.due /\ reply = c.reply
      /\ c.op = "write" /\ c.size # 0 => served = c.served
      /\ c.op # "write" /\ c.sent + 1 # c.size => served = c.served
      /\ served <= c.served + 1
  BY <1>3, SMT DEF LastPiece, Replies
<1> HIDE DEF c, d, e, due, reply, served
<1>10. /\ IsRec(d) /\ d.due = due /\ d.reply = reply /\ d.served = served
       /\ Agree(e, d, {"due", "reply", "served"})
  BY <1>6, <1>8, Fields, FieldsAll, Zenon DEF IsRec, Agree
<1>11. Agree(c, d, {"due", "reply", "served"} \cup {"queue"})
  <2>1. Agree(c, d, {"queue"} \cup {"due", "reply", "served"}) BY <1>6, <1>10, AgreeStep
  <2> QED BY <2>1, AgreeMore
<1>12. d.queue = Append(c.queue, "ok") BY <1>6, <1>10, SMT DEF Agree, AllFields
<1>13. /\ d.sock = c.sock /\ d.cause = c.cause /\ d.inbox = c.inbox /\ d.body = c.body
       /\ d.owed = c.owed /\ d.call = c.call /\ d.left = c.left /\ d.sent = c.sent
       /\ d.size = c.size /\ d.after = c.after
  BY <1>11, SMT DEF Agree, AllFields
<1>14. \A f \in {"due", "reply", "served"} : d[f] \in Allowed[f]
  <2>1. d["due"] \in Allowed["due"] /\ d["reply"] \in Allowed["reply"]
        /\ d["served"] \in Allowed["served"]
    BY <1>9, <1>10, AllowedFields
  <2> QED BY <2>1, Zenon
<1>15. Blamed(c) => Blamed(d) BY <1>13 DEF Blamed, Down
<1>16. ASSUME c.op = "write" PROVE Network(d) /\ d.served <= 1 /\ Place(c.op, d, TRUE)
  <2>1. AtWrite(c, FALSE) BY <1>5, <1>16
  <2>2. c.sock = "foul" => Clean(c) BY <1>2 DEF Network
  <2>3. c.served = 0 /\ Clean(c) /\ c.left = 0 /\ c.sent = 0
        /\ c.call \in RequestCalls \cup {"headers"} /\ Blamed(c)
    BY <1>1, <2>1, <2>2, SMT DEF AtWrite, CleanIfUp, Up, Excused, Down, Blamed
  <2>4. /\ c.sock = "alive" => d.due /\ d.reply = "asked"
        /\ c.sock # "alive" => ~d.due /\ d.reply = c.reply
        /\ d.served <= 1 /\ (d.size # 0 => d.served = 0)
    BY <1>3, <1>9, <1>10, <1>13, <1>16, <2>3 DEF Clean
  <2>5. Unread(d) BY <1>13, <2>3, <2>4, HeadsDiffer, SMT DEF Unread, Clean
  <2>6. d.size > 0 => d.served = 0 BY <1>3, <1>13, <2>4
  <2>7. AtWrite(d, TRUE) BY <1>13, <1>15, <2>3, <2>5, <2>6, SMT DEF AtWrite
  <2>8. Place(c.op, d, TRUE) BY <1>16, <2>7, Zenon DEF Place
  <2>9. Network(d)
    <3>1. d.body = 0 /\ d.owed = 0 /\ d.inbox = NoHead /\ 0 + 0 <= MaxBody
      BY <1>13, <2>3, Bounds DEF Clean
    <3> QED BY <1>1, <1>2, <1>13, <2>4, <3>1, SMT DEF Network, Clean
  <2> QED BY <2>4, <2>8, <2>9
<1>17. ASSUME c.op # "write" PROVE Network(d) /\ d.served <= 1 /\ Place(c.op, d, TRUE)
  <2>1. Piece(c, FALSE) BY <1>4, <1>5, <1>17
  <2>2. Unread(c) /\ c.sent < c.size /\ c.served = 0 BY <2>1 DEF Piece
  <2>3. d.due = c.due /\ d.reply = c.reply /\ d.served <= 1
        /\ (d.sent + 1 # d.size => d.served = 0)
    BY <1>9, <1>10, <1>13, <1>17, <2>2
  <2>4. Unread(d) BY <1>13, <2>2, <2>3, SMT DEF Unread, Fits
  <2>5. d.sent < d.size /\ (d.sent + 1 < d.size => d.served = 0)
    BY <1>3, <1>13, <2>2, <2>3, Bounds
  <2>6. Piece(d, TRUE) BY <2>4, <2>5 DEF Piece
  <2>7. Network(d) BY <1>2, <1>13, <2>3, SMT DEF Network, Clean
  <2>8. CASE c.op = "data"
    <3>1. AtData(d, TRUE) BY <1>5, <1>13, <1>15, <2>6, <2>8, Zenon DEF AtData
    <3>2. Place(c.op, d, TRUE) BY <2>8, <3>1, Zenon DEF Place
    <3> QED BY <2>3, <2>7, <3>2
  <2>9. CASE c.op = "barrier"
    <3>1. AtBarrier(d, TRUE) BY <1>5, <1>13, <1>15, <2>6, <2>9, Zenon DEF AtBarrier
    <3>2. Place(c.op, d, TRUE) BY <2>9, <3>1, Zenon DEF Place
    <3> QED BY <2>3, <2>7, <3>2
  <2> QED BY <1>4, <1>17, <2>8, <2>9
<1>18. Network(d) /\ d.served <= 1 /\ Place(c.op, d, TRUE) BY <1>16, <1>17
<1>19. WorkOK(d)
  <2> DEFINE S == {"due", "reply", "served"}
  <2>1. S \subseteq Kernels /\ Agree(c, d, S \cup {"queue"}) /\ \A f \in S : d[f] \in Allowed[f]
    BY <1>11, <1>14 DEF Kernels
  <2> HIDE DEF S
  <2>2. d.sock # "connecting" BY <1>1, <1>13
  <2> QED BY <1>1, <1>10, <1>12, <1>13, <1>18, <2>1, <2>2, FinishedWell
<1> QED BY <1>19 DEF d

\* The head of the answer is read.
LEMMA ReadHeadWorks ==
  ASSUME WorkOK(conn), ReadHead
  PROVE  WorkOK(conn')
<1> DEFINE c == conn
           d == conn'
           e == Complete(c, "ok")
<1>1. Pending(c) /\ WorkOK(c) /\ c.op = "head" /\ c.inbox # NoHead BY DEF ReadHead
<1>2. IsRec(c) /\ Place(c.op, c, FALSE) /\ Network(c) /\ Request(c) BY <1>1, WorkIs
<1>3. AtHead(c, FALSE) BY <1>1, <1>2, Zenon DEF Place
<1>4. c.inbox \in Answers BY <1>1, WorkIs, FieldTypes
<1>5. Unread(c) /\ Blamed(c) /\ c.call \in RequestCalls \cup {"answer"}
  BY <1>1, <1>3, Zenon DEF AtHead, Clean
<1>6. IsRec(e) /\ e.queue = Append(c.queue, "ok") /\ Agree(c, e, {"queue"})
  BY <1>2, CompleteIs
<1>7. d = [e EXCEPT !.got = c.inbox, !.inbox = NoHead] BY DEF ReadHead
<1> HIDE DEF c, d, e
<1>8. /\ IsRec(d) /\ d.got = c.inbox /\ d.inbox = NoHead /\ Agree(e, d, {"got", "inbox"})
  BY <1>6, <1>7, Fields, FieldsAll, Zenon DEF IsRec, Agree
<1>9. Agree(c, d, {"got", "inbox"} \cup {"queue"})
  <2>1. Agree(c, d, {"queue"} \cup {"got", "inbox"}) BY <1>6, <1>8, AgreeStep
  <2> QED BY <2>1, AgreeMore
<1>10. d.queue = Append(c.queue, "ok") BY <1>6, <1>8, SMT DEF Agree, AllFields
<1>11. /\ d.sock = c.sock /\ d.cause = c.cause /\ d.due = c.due /\ d.body = c.body
       /\ d.owed = c.owed /\ d.call = c.call /\ d.left = c.left /\ d.reply = c.reply
       /\ d.served = c.served /\ d.null = c.null /\ d.after = c.after
  BY <1>9, SMT DEF Agree, AllFields
<1>12. \A f \in {"got", "inbox"} : d[f] \in Allowed[f]
  <2>1. d["got"] \in Allowed["got"] /\ d["inbox"] \in Allowed["inbox"]
    BY <1>4, <1>8, AllowedFields DEF Answers
  <2> QED BY <2>1, Zenon
<1>13. ~c.due BY <1>1, <1>2 DEF Network
<1>14. HeadRead(d) BY <1>1, <1>5, <1>8, <1>11, <1>13, SMT DEF HeadRead, Unread, Fits, Given
<1>15. Blamed(d) BY <1>5, <1>11 DEF Blamed, Down
<1>16. AtHead(d, TRUE) BY <1>5, <1>11, <1>14, <1>15, Zenon DEF AtHead
<1>17. Place(c.op, d, TRUE) BY <1>1, <1>16, Zenon DEF Place
<1>18. Network(d) BY <1>1, <1>2, <1>8, <1>11, <1>13, SMT DEF Network, Clean
<1>19. WorkOK(d)
  <2> DEFINE S == {"got", "inbox"}
  <2>1. S \subseteq Kernels /\ Agree(c, d, S \cup {"queue"}) /\ \A f \in S : d[f] \in Allowed[f]
    BY <1>9, <1>12 DEF Kernels
  <2> HIDE DEF S
  <2>2. d.sock # "connecting" /\ d.served <= 1 BY <1>1, <1>2, <1>11 DEF Network, Clean, Request
  <2> QED BY <1>1, <1>8, <1>10, <1>11, <1>17, <1>18, <2>1, <2>2, FinishedWell
<1> QED BY <1>19 DEF d

\* A part of its body is.
LEMMA ReadBodyWorks ==
  ASSUME WorkOK(conn), ReadBody
  PROVE  WorkOK(conn')
<1> DEFINE c == conn
           d == conn'
           e == Complete(c, "ok")
           n == Wanted(c)
<1>1. Pending(c) /\ WorkOK(c) /\ c.op \in {"body", "preload"} /\ c.body >= n
  BY DEF ReadBody
<1>2. IsRec(c) /\ Place(c.op, c, FALSE) /\ Network(c) /\ Request(c) BY <1>1, WorkIs
<1>3. /\ c.body \in 0 .. MaxBody /\ c.owed \in 0 .. MaxBody /\ c.left \in 0 .. MaxBody
  BY <1>1, WorkIs, FieldTypes
<1>4. /\ c.op = "body" => AtBody(c, FALSE) /\ n = 1
      /\ c.op = "preload" => AtPreload(c, FALSE) /\ n = c.count
  <2>1. c.op = "body" => AtBody(c, FALSE) BY <1>2, Zenon DEF Place
  <2>2. c.op = "preload" => AtPreload(c, FALSE) BY <1>2, Zenon DEF Place
  <2> QED BY <2>1, <2>2 DEF Wanted
<1>5. Blamed(c) /\ BodyLeft(c, c.left) /\ 0 < n /\ n <= c.left
  <2>1. c.count \in 0 .. MaxBody BY <1>1, WorkIs, FieldTypes
  <2>2. c.op = "body" => 0 < n /\ n <= c.left BY <1>3, <1>4, Bounds DEF AtBody
  <2>3. c.op = "preload" => 0 < n /\ n <= c.left BY <1>4 DEF AtPreload
  <2>4. Blamed(c) /\ BodyLeft(c, c.left) BY <1>1, <1>4, Zenon DEF AtBody, AtPreload
  <2> QED BY <1>1, <2>2, <2>3, <2>4
<1>6. IsRec(e) /\ e.queue = Append(c.queue, "ok") /\ Agree(c, e, {"queue"})
  BY <1>2, CompleteIs
<1>7. e.body = c.body BY <1>6, SMT DEF Agree, AllFields
<1>8. d = [e EXCEPT !.body = c.body - n] BY <1>7 DEF ReadBody
<1> HIDE DEF c, d, e, n
<1>9. /\ IsRec(d) /\ d.body = c.body - n /\ Agree(e, d, {"body"})
  BY <1>6, <1>8, Fields, FieldsAll, Zenon DEF IsRec, Agree
<1>10. Agree(c, d, {"body"} \cup {"queue"})
  <2>1. Agree(c, d, {"queue"} \cup {"body"}) BY <1>6, <1>9, AgreeStep
  <2> QED BY <2>1, AgreeMore
<1>11. d.queue = Append(c.queue, "ok") BY <1>6, <1>9, SMT DEF Agree, AllFields
<1>12. /\ d.sock = c.sock /\ d.cause = c.cause /\ d.due = c.due /\ d.inbox = c.inbox
       /\ d.owed = c.owed /\ d.call = c.call /\ d.left = c.left /\ d.reply = c.reply
       /\ d.served = c.served /\ d.count = c.count
  BY <1>10, SMT DEF Agree, AllFields
<1>13. n \in 1 .. c.left /\ d.body \in 0 .. MaxBody
  <2>4. c.count \in 0 .. MaxBody BY <1>1, WorkIs, FieldTypes
  <2>1. n = 1 \/ n = c.count BY <1>1, <1>4
  <2>2. n \in 1 .. c.left BY <1>3, <1>5, <2>1, <2>4, Bounds
  <2>3. c.body - n \in 0 .. MaxBody BY <1>1, <1>3, <2>2, Bounds
  <2> QED BY <1>9, <2>2, <2>3
<1>14. \A f \in {"body"} : d[f] \in Allowed[f]
  <2>1. d["body"] \in Allowed["body"] BY <1>13, AllowedFields
  <2> QED BY <2>1, Zenon
<1>15. Blamed(d) BY <1>5, <1>12 DEF Blamed, Down
<1>16. BodyLeft(d, c.left - n)
  BY <1>3, <1>5, <1>9, <1>12, <1>13, Bounds, SMT DEF BodyLeft, Fits
<1>17. Place(c.op, d, TRUE)
  <2>1. CASE c.op = "body"
    <3>1. BodyLeft(d, d.left - 1) BY <1>4, <1>12, <1>16, <2>1
    <3>2. AtBody(d, TRUE) BY <1>4, <1>5, <1>12, <1>15, <2>1, <3>1, Zenon DEF AtBody
    <3> QED BY <2>1, <3>2, Zenon DEF Place
  <2>2. CASE c.op = "preload"
    <3>1. BodyLeft(d, d.left - d.count) BY <1>4, <1>12, <1>16, <2>2
    <3>2. AtPreload(d, TRUE) BY <1>4, <1>5, <1>12, <1>15, <2>2, <3>1, Zenon DEF AtPreload
    <3> QED BY <2>2, <3>2, Zenon DEF Place
  <2> QED BY <1>1, <2>1, <2>2
<1>18. c.sock \notin {"closed", "connecting", "foul"} /\ ~c.due
  BY <1>1, <1>2, <1>3, <1>5, <1>13, Bounds, SMT DEF Network, Clean, BodyLeft
<1>19. Network(d) BY <1>2, <1>3, <1>9, <1>12, <1>13, <1>18, Bounds, SMT DEF Network
<1>20. WorkOK(d)
  <2> DEFINE S == {"body"}
  <2>1. S \subseteq Kernels /\ Agree(c, d, S \cup {"queue"}) /\ \A f \in S : d[f] \in Allowed[f]
    BY <1>10, <1>14 DEF Kernels
  <2> HIDE DEF S
  <2>2. d.sock # "connecting" /\ d.served <= 1 BY <1>2, <1>12, <1>18 DEF Request
  <2> QED BY <1>1, <1>9, <1>11, <1>12, <1>17, <1>19, <2>1, <2>2, FinishedWell
<1> QED BY <1>20 DEF d

\* The connection has broken.
LEMMA ReadFailsWorks ==
  ASSUME WorkOK(conn), ReadFails
  PROVE  WorkOK(conn')
<1> DEFINE c == conn
           d == conn'
           e == Complete(c, "error")
<1>1. /\ Pending(c) /\ WorkOK(c) /\ c.sock \in {"fin", "reset", "refused", "foul"}
      /\ c.op \in {"head", "body", "preload"} /\ (c.op = "head" => c.inbox = NoHead)
  BY DEF ReadFails, Broken
<1>2. IsRec(c) /\ Place(c.op, c, FALSE) /\ Network(c) /\ Request(c) BY <1>1, WorkIs
<1>3. /\ c.body \in 0 .. MaxBody /\ c.owed \in 0 .. MaxBody /\ c.left \in 0 .. MaxBody
  BY <1>1, WorkIs, FieldTypes
<1>4. /\ c.op = "head" => AtHead(c, FALSE)
      /\ c.op = "body" => AtBody(c, FALSE)
      /\ c.op = "preload" => AtPreload(c, FALSE)
  BY <1>2, Zenon DEF Place
<1>5. c.op \in {"body", "preload"} => Blamed(c) /\ BodyLeft(c, c.left)
  BY <1>4, Zenon DEF AtBody, AtPreload
<1>6. IsRec(e) /\ e.queue = Append(c.queue, "error") /\ Agree(c, e, {"queue"})
  BY <1>2, CompleteIs
<1>7. d = [e EXCEPT !.body = 0] BY DEF ReadFails
<1> HIDE DEF c, d, e
<1>8. /\ IsRec(d) /\ d.body = 0 /\ Agree(e, d, {"body"})
  BY <1>6, <1>7, Fields, FieldsAll, Zenon DEF IsRec, Agree
<1>9. Agree(c, d, {"body"} \cup {"queue"})
  <2>1. Agree(c, d, {"queue"} \cup {"body"}) BY <1>6, <1>8, AgreeStep
  <2> QED BY <2>1, AgreeMore
<1>10. d.queue = Append(c.queue, "error") BY <1>6, <1>8, SMT DEF Agree, AllFields
<1>11. /\ d.sock = c.sock /\ d.cause = c.cause /\ d.due = c.due /\ d.inbox = c.inbox
       /\ d.owed = c.owed /\ d.call = c.call /\ d.left = c.left /\ d.reply = c.reply
       /\ d.served = c.served /\ d.null = c.null /\ d.after = c.after /\ d.count = c.count
  BY <1>9, SMT DEF Agree, AllFields
<1>12. \A f \in {"body"} : d[f] \in Allowed[f]
  <2>1. d["body"] \in Allowed["body"] BY <1>8, Bounds, AllowedFields
  <2> QED BY <2>1, Zenon
<1>13. Blamed(c) => Blamed(d) BY <1>11 DEF Blamed, Down
<1>14. ~c.due /\ c.owed = 0 BY <1>1, <1>2, <1>3, Bounds, SMT DEF Network
<1>15. c.inbox = NoHead BY <1>1, <1>5 DEF BodyLeft
<1>16. Clean(d) /\ Down(d) /\ CleanIfUp(d) BY <1>1, <1>8, <1>11, <1>14, <1>15 DEF Clean, Down, CleanIfUp
<1>17. Place(c.op, d, FALSE)
  <2>1. CASE c.op = "head"
    <3>1. Unread(c) => Unread(d)
      BY <1>1, <1>8, <1>11, <1>14, <1>15, HeadsDiffer, SMT DEF Unread
    <3>2. Again(c) <=> Again(d) BY <1>11 DEF Again
    <3>3. AtHead(d, FALSE)
      BY <1>4, <1>11, <1>13, <1>16, <2>1, <3>1, <3>2, Zenon DEF AtHead
    <3> QED BY <2>1, <3>3, Zenon DEF Place
  <2>2. CASE c.op \in {"body", "preload"}
    <3>1. BodyLeft(d, d.left)
      BY <1>1, <1>3, <1>5, <1>8, <1>11, <1>14, <2>2, Bounds, SMT DEF BodyLeft, Fits
    <3>2. CASE c.op = "body"
      <4>1. AtBody(d, FALSE) BY <1>4, <1>11, <1>13, <3>1, <3>2, Zenon DEF AtBody
      <4> QED BY <3>2, <4>1, Zenon DEF Place
    <3>3. CASE c.op = "preload"
      <4>1. AtPreload(d, FALSE) BY <1>4, <1>11, <1>13, <3>1, <3>3, Zenon DEF AtPreload
      <4> QED BY <3>3, <4>1, Zenon DEF Place
    <3> QED BY <2>2, <3>2, <3>3
  <2> QED BY <1>1, <2>1, <2>2
<1>18. Network(d) BY <1>1, <1>2, <1>8, <1>11, <1>14, <1>16, Bounds, SMT DEF Network
<1>19. WorkOK(d)
  <2> DEFINE S == {"body"}
  <2>1. S \subseteq Kernels /\ Agree(c, d, S \cup {"queue"}) /\ \A f \in S : d[f] \in Allowed[f]
    BY <1>9, <1>12 DEF Kernels
  <2> HIDE DEF S
  <2>2. d.sock # "connecting" /\ d.served <= 1 BY <1>1, <1>2, <1>11 DEF Request
  <2> QED BY <1>1, <1>8, <1>10, <1>11, <1>16, <1>17, <1>18, <2>1, <2>2, FinishedBadly
<1> QED BY <1>19 DEF d

\* Anything is read from a foul connection.
LEMMA ReadFoulWorks ==
  ASSUME WorkOK(conn), ReadFoul
  PROVE  WorkOK(conn')
<1> DEFINE c == conn
           d == conn'
           e == Complete(c, "ok")
<1>1. /\ Pending(c) /\ WorkOK(c) /\ c.sock = "foul"
      /\ \/ c.op = "head" /\ \E h \in Heads \cup {BadHead} : d = [e EXCEPT !.got = h]
         \/ c.op \in {"body", "preload"} /\ d = e
  BY DEF ReadFoul
<1>2. /\ IsRec(c) /\ Place(c.op, c, FALSE) /\ Network(c)
      /\ c.left \in 0 .. MaxBody /\ c.count \in 0 .. MaxBody
  BY <1>1, WorkIs, FieldTypes
<1>3. ~c.due /\ c.inbox = NoHead /\ c.body = 0 /\ c.owed = 0 /\ c.reply = "foul"
  BY <1>1, <1>2 DEF Network, Clean
<1>4. /\ IsRec(e) /\ e.queue = Append(c.queue, "ok") /\ Agree(c, e, {"queue"})
      /\ Agree(c, e, {} \cup {"queue"})
      /\ Network(e) /\ e.served <= 1 /\ e.cause = c.cause /\ e.sock = c.sock
  BY <1>1, OnlyQueued
<1>5. /\ e.due = c.due /\ e.inbox = c.inbox /\ e.body = c.body /\ e.owed = c.owed
      /\ e.reply = c.reply /\ e.call = c.call /\ e.left = c.left /\ e.count = c.count
  BY <1>4, SMT DEF Agree, AllFields
<1> HIDE DEF c, d, e
<1>6. CASE c.op = "head"
  <2>1. PICK h \in Heads \cup {BadHead} : d = [e EXCEPT !.got = h] BY <1>1, <1>6
  <2>2. h \in Answers /\ h # NoHead /\ LengthOf(h, c.call) \in 0 .. MaxBody
    BY HeadsDiffer, AnswerLength DEF Answers
  <2>3. IsRec(d) /\ d.got = h /\ Agree(e, d, {"got"})
    BY <1>4, <2>1, Fields, FieldsAll, Zenon DEF IsRec, Agree
  <2>4. Agree(c, d, {"got"} \cup {"queue"})
    <3>1. Agree(c, d, {"queue"} \cup {"got"}) BY <1>4, <2>3, AgreeStep
    <3> QED BY <3>1, AgreeMore
  <2>5. /\ d.queue = Append(c.queue, "ok") /\ d.sock = c.sock /\ d.cause = c.cause
        /\ d.due = c.due /\ d.inbox = c.inbox /\ d.body = c.body /\ d.owed = c.owed
        /\ d.reply = c.reply /\ d.call = c.call /\ d.left = c.left /\ d.served <= 1
    BY <1>4, <1>5, <2>3, SMT DEF Agree, AllFields
  <2>6. AtHead(c, FALSE) BY <1>2, <1>6, Zenon DEF Place
  <2>7. /\ c.call \in RequestCalls \cup {"answer"} /\ c.left = 0 /\ c.cause # "none"
    BY <1>1, <2>6, SMT DEF AtHead, Unread, Blamed, Down
  <2>8. HeadRead(d)
    <3>1. Fits(d, LengthOf(h, c.call)) BY <1>1, <1>3, <2>2, <2>5, Bounds DEF Fits
    <3> QED BY <1>3, <2>2, <2>3, <2>5, <2>7, <3>1 DEF HeadRead, Given
  <2>9. Blamed(d) BY <2>5, <2>7 DEF Blamed
  <2>10. AtHead(d, TRUE) BY <2>5, <2>7, <2>8, <2>9, Zenon DEF AtHead
  <2>11. Place(c.op, d, TRUE) BY <1>6, <2>10, Zenon DEF Place
  <2>12. Network(d) BY <1>1, <1>3, <2>5, Bounds DEF Network, Clean
  <2>13. d["got"] \in Allowed["got"] BY <2>2, <2>3, AllowedFields
  <2>14. WorkOK(d)
    <3> DEFINE S == {"got"}
    <3>1. S \subseteq Kernels /\ Agree(c, d, S \cup {"queue"}) /\ \A f \in S : d[f] \in Allowed[f]
      BY <2>4, <2>13, Zenon DEF Kernels
    <3> HIDE DEF S
    <3>2. d.sock # "connecting" BY <1>1, <2>5
    <3> QED BY <1>1, <2>3, <2>5, <2>11, <2>12, <3>1, <3>2, FinishedWell
  <2> QED BY <2>14 DEF d
<1>7. CASE c.op \in {"body", "preload"}
  <2>1. d = e BY <1>1, <1>7
  <2>2. \A n \in Nat : BodyLeft(d, n) BY <1>1, <1>3, <1>4, <1>5, <2>1 DEF BodyLeft, Fits, Given
  <2>3. Blamed(c) => Blamed(d) BY <1>4, <2>1 DEF Blamed, Down
  <2>4. Place(c.op, d, TRUE)
    <3>1. CASE c.op = "body"
      <4>1. AtBody(c, FALSE) BY <1>2, <3>1, Zenon DEF Place
      <4>2. d.left - 1 \in Nat BY <1>2, <1>5, <2>1, <4>1, Bounds DEF AtBody
      <4>3. AtBody(d, TRUE) BY <1>5, <2>1, <2>2, <2>3, <4>1, <4>2, Zenon DEF AtBody
      <4> QED BY <3>1, <4>3, Zenon DEF Place
    <3>2. CASE c.op = "preload"
      <4>1. AtPreload(c, FALSE) BY <1>2, <3>2, Zenon DEF Place
      <4>2. d.left - d.count \in Nat BY <1>2, <1>5, <2>1, <4>1, Bounds DEF AtPreload
      <4>3. AtPreload(d, TRUE) BY <1>5, <2>1, <2>2, <2>3, <4>1, <4>2, Zenon DEF AtPreload
      <4> QED BY <3>2, <4>3, Zenon DEF Place
    <3> QED BY <1>7, <3>1, <3>2
  <2>5. WorkOK(d)
    <3> DEFINE S == {}
    <3>1. S \subseteq Kernels /\ Agree(c, d, S \cup {"queue"}) /\ \A f \in S : d[f] \in Allowed[f]
      BY <1>4, <2>1
    <3> HIDE DEF S
    <3>2. d.sock # "connecting" BY <1>1, <1>4, <2>1
    <3> QED BY <1>1, <1>4, <2>1, <2>4, <3>1, <3>2, FinishedWell
  <2> QED BY <2>5 DEF d
<1> QED BY <1>1, <1>6, <1>7

LEMMA KernelWorks == ASSUME WorkOK(conn), Kernel PROVE WorkOK(conn')
  BY ConnectWorks, WriteOkWorks, WriteFailsWorks, ReadHeadWorks, ReadBodyWorks, ReadFailsWorks,
     ReadFoulWorks
  DEF Kernel

LEMMA RunHandlerWorks ==
  ASSUME WorkOK(conn), RunHandler
  PROVE  /\ WorkOK(conn')
         /\ Head(conn.queue) # T => Goes(conn, conn')
         /\ Head(conn.queue) = T => conn' = onTimeout([conn EXCEPT !.queue = Tail(@)])
<1> DEFINE c == conn
           d == conn'
           rest == [conn EXCEPT !.queue = Tail(@)]
           ec == Head(conn.queue)
<1>1. /\ c.queue # <<>> /\ WorkOK(c)
      /\ \/ ec = T /\ d = onTimeout(rest)
         \/ ec # T /\ c.op \in OwnOps /\ d = Resume(rest, ec)
  BY DEF RunHandler, T
<1>2. /\ IsRec(rest) /\ rest.queue = Tail(c.queue) /\ Agree(c, rest, {"queue"})
  BY WorkIs, Fields, FieldsAll, Zenon DEF IsRec, Agree
<1>3. ec = Head(c.queue) OBVIOUS
<1> HIDE DEF c, d, rest, ec
<1>4. ec # T => ec \in Results BY <1>1, <1>3, WorkIs, HeadIs
<1>5. ASSUME ec = T PROVE WorkOK(d) /\ d = onTimeout(rest)
  BY <1>1, <1>2, <1>3, <1>5, TimeoutWorks
<1>6. ASSUME ec # T PROVE Goes(c, d)
  BY <1>1, <1>2, <1>3, <1>4, <1>6, ResumeGoes
<1>7. /\ WorkOK(d) /\ (ec # T => Goes(c, d)) /\ (ec = T => d = onTimeout(rest))
  BY <1>5, <1>6 DEF Goes
<1> QED BY <1>7 DEF c, d, rest, ec

(***************************************************************************)
(* The server.                                                             *)
(***************************************************************************)
LEMMA Touched ==
  ASSUME NEW c, WorkOK(c), c.sock \in {"alive", "fin"},
         NEW d, IsRec(d), d.sock \notin {"closed", "connecting"},
         NEW S, S \subseteq {"sock", "due", "inbox", "body", "owed", "reply", "cause"},
         Agree(c, d, S), \A f \in S : d[f] \in Allowed[f], Network(d),
         c.cause # "none" => d.cause # "none",
         d.reply = c.reply \/ (c.reply = "asked" /\ d.reply = "given"),
         Unread(c) => Unread(d), HeadRead(c) => HeadRead(d),
         \A n \in {0, c.left, c.left - 1, c.left - c.count} : BodyLeft(c, n) => BodyLeft(d, n),
         Clean(c) => Clean(d), d.sock = "alive" => c.sock = "alive",
         Down(c) \/ d.sock = "alive" \/ d.cause # "none",
         c.body > 0 => d.body > 0,
         c.sock = "fin" => d.sock = "reset" \/ (d.sock = "fin" /\ (Clean(c) => Clean(d)))
  PROVE  WorkOK(d)
<1>1. Agree(c, d, OnWire \cup {"served", "got"})
  <2>1. S \subseteq OnWire \cup {"served", "got"} BY DEF OnWire
  <2> QED BY <2>1, AgreeMore
<1>2. d.queue = c.queue /\ d.timer = c.timer /\ d.served = c.served
  BY SMT DEF Agree, AllFields
<1>3. SamePoint(c, d) /\ d.op = c.op /\ d.post_tries = c.post_tries /\ (Busy(d) <=> Busy(c))
  BY <1>1, <1>2, Stayed
<1>4. Typed(d) BY WorkIs, AgreeTyped
<1>5. Request(c) /\ OpSound(c) /\ (Busy(c) => InTime(c)) BY WorkIs
<1>6. Request(d) BY <1>3, <1>5, RequestKept DEF Given
<1>7. Busy(d) => InTime(d) BY <1>2, <1>3, <1>5 DEF InTime, IsTimeout
<1>8. CleanIfUp(c) => CleanIfUp(d) BY DEF CleanIfUp, Up
<1>9. \A r : Broke(c, r) => Broke(d, r)
  <2>1. \A r : Broke(c, r) => r # "aborted" BY DEF Broke
  <2>2. \A r : Broke(c, r) /\ r # "ok" => Down(c) /\ CleanIfUp(c) BY DEF Broke
  <2>3. Down(c) => c.sock = "fin" BY DEF Down
  <2>4. Down(c) => Down(d) BY <2>3 DEF Down
  <2> QED BY <1>8, <2>1, <2>2, <2>4 DEF Broke
<1>10. Busy(c) => (Blamed(c) => Blamed(d)) /\ (Excused(c) => Excused(d))
  BY <1>3 DEF Blamed, Excused, Down, SamePoint
<1>11. Carries(c, d) BY <1>3, <1>8, <1>10, Zenon DEF Carries
<1>12. SameQueue(c, d) /\ Waits(c, d) BY <1>2, <1>3, SameQueueNow DEF Waits
<1> QED BY <1>4, <1>6, <1>7, <1>9, <1>11, <1>12, Stays

LEMMA ServeWorks ==
  ASSUME WorkOK(conn), Serve \/ ServeBadly
  PROVE  WorkOK(conn')
<1> DEFINE c == conn
           d == conn'
           S == {"due", "inbox", "reply", "owed", "cause"}
<1>1. WorkOK(c) /\ c.sock = "alive" /\ c.due BY DEF Serve, ServeBadly
<1>2. PICK h \in Answers :
        /\ h # NoHead /\ (h = BadHead \/ h \in Heads)
        /\ c.call = "HEAD" => h.with = 0
        /\ \/ /\ h # BadHead
              /\ d = [c EXCEPT !.due = FALSE, !.inbox = h, !.reply = "given",
                        !.owed = IF c.call = "HEAD" THEN 0 ELSE h.length - h.with]
           \/ /\ h = BadHead
              /\ \E rest \in 0 .. MaxBody :
                   d = [c EXCEPT !.due = FALSE, !.inbox = BadHead, !.reply = "given",
                                 !.cause = "other", !.owed = rest]
  <2>1. CASE Serve
    <3>1. PICK h \in Heads :
            /\ c.call = "HEAD" => h.with = 0
            /\ d = [c EXCEPT !.due = FALSE, !.inbox = h, !.reply = "given",
                      !.owed = IF c.call = "HEAD" THEN 0 ELSE h.length - h.with]
      BY <2>1 DEF Serve
    <3> QED BY <3>1, HeadsDiffer DEF Answers
  <2>2. CASE ServeBadly
    <3>1. BadHead \in Answers /\ BadHead # NoHead /\ BadHead.with = 0
      BY HeadsDiffer DEF Answers, BadHead, NoHead
    <3> QED BY <2>2, <3>1 DEF ServeBadly
  <2> QED BY <2>1, <2>2
<1>3. IsRec(c) /\ Network(c) BY <1>1, WorkIs
<1>4. c.inbox = NoHead /\ c.body = 0 /\ c.owed = 0 /\ c.reply = "asked"
  BY <1>1, <1>3 DEF Network
<1> HIDE DEF c, d, S
<1>5. LengthOf(h, c.call) \in 0 .. MaxBody BY <1>2, AnswerLength
<1>7. /\ IsRec(d) /\ d.due = FALSE /\ d.inbox = h /\ d.reply = "given" /\ Agree(c, d, S)
  BY <1>2, <1>3, Fields, FieldsAll, Zenon DEF IsRec, Agree, S
<1>8. d.owed \in 0 .. MaxBody /\ (h # BadHead => d.owed = LengthOf(h, c.call))
  <2>1. CASE h # BadHead
    <3>1. d.owed = IF c.call = "HEAD" THEN 0 ELSE h.length - h.with
      BY <1>2, <1>3, <2>1, Fields, FieldsAll, Zenon DEF IsRec
    <3> QED BY <1>5, <2>1, <3>1 DEF LengthOf
  <2>2. CASE h = BadHead
    <3>1. d.owed \in 0 .. MaxBody BY <1>2, <1>3, <2>2, Fields, FieldsAll, Zenon DEF IsRec
    <3> QED BY <2>2, <3>1
  <2> QED BY <2>1, <2>2
<1>9. /\ d.cause \in {c.cause, "other"} /\ (h = BadHead => d.cause = "other")
  <2>1. h # BadHead => d.cause = c.cause BY <1>2, <1>3, Fields, FieldsAll, Zenon DEF IsRec
  <2>2. h = BadHead => d.cause = "other" BY <1>2, <1>3, Fields, FieldsAll, Zenon DEF IsRec
  <2> QED BY <2>1, <2>2
<1>10. d.sock = c.sock /\ d.body = c.body /\ d.call = c.call /\ d.left = c.left
  BY <1>7, SMT DEF Agree, AllFields, S
<1>11. \A f \in S : d[f] \in Allowed[f]
  <2>1. c.cause \in Causes BY <1>1, WorkIs, FieldTypes
  <2>2. /\ d["due"] \in Allowed["due"] /\ d["inbox"] \in Allowed["inbox"]
        /\ d["reply"] \in Allowed["reply"] /\ d["owed"] \in Allowed["owed"]
        /\ d["cause"] \in Allowed["cause"]
    BY <1>2, <1>5, <1>7, <1>8, <1>9, <2>1, AllowedFields DEF Causes, Replies
  <2> QED BY <2>2, Zenon DEF S
<1>12. S \subseteq {"sock", "due", "inbox", "body", "owed", "reply", "cause"} BY DEF S
<1>13. Network(d)
  BY <1>1, <1>4, <1>5, <1>7, <1>8, <1>10, Bounds, SMT DEF Network
<1>14. Unread(c) => Unread(d)
  <2>1. h # BadHead => Fits(d, LengthOf(h, d.call))
    BY <1>1, <1>4, <1>5, <1>8, <1>10, Bounds DEF Fits
  <2>2. h = BadHead => d.cause # "none" BY <1>9
  <2> QED BY <1>2, <1>7, <1>10, <2>1, <2>2 DEF Unread
<1>15. ~HeadRead(c) /\ ~Clean(c) /\ \A n : ~BodyLeft(c, n)
  BY <1>1 DEF HeadRead, Clean, BodyLeft
<1>16. WorkOK(d)
  BY <1>1, <1>3, <1>4, <1>7, <1>9, <1>10, <1>11, <1>12, <1>13, <1>14, <1>15, Touched
<1> QED BY <1>16 DEF d

LEMMA SendBodyWorks ==
  ASSUME WorkOK(conn), SendBody
  PROVE  WorkOK(conn')
<1> DEFINE c == conn
           d == conn'
           S == {"owed", "body"}
<1>1. WorkOK(c) /\ c.sock = "alive" /\ c.owed > 0 BY DEF SendBody
<1>2. d = [c EXCEPT !.owed = c.owed - 1, !.body = c.body + 1] BY DEF SendBody
<1>3. IsRec(c) /\ Network(c) BY <1>1, WorkIs
<1>4. c.owed \in 0 .. MaxBody /\ c.body \in 0 .. MaxBody BY <1>1, WorkIs, FieldTypes
<1> HIDE DEF c, d, S
<1>5. /\ IsRec(d) /\ d.owed = c.owed - 1 /\ d.body = c.body + 1 /\ Agree(c, d, S)
  BY <1>2, <1>3, Fields, FieldsAll, Zenon DEF IsRec, Agree, S
<1>6. d.sock = c.sock /\ d.call = c.call /\ d.left = c.left /\ d.due = c.due
      /\ d.inbox = c.inbox /\ d.reply = c.reply /\ d.cause = c.cause /\ d.got = c.got
  BY <1>5, SMT DEF Agree, AllFields, S
<1>7. d.owed \in 0 .. MaxBody /\ d.body \in 1 .. MaxBody /\ d.body + d.owed = c.body + c.owed
  <2>1. c.body + c.owed <= MaxBody BY <1>3 DEF Network
  <2> QED BY <1>1, <1>4, <1>5, <2>1, Bounds
<1>8. \A f \in S : d[f] \in Allowed[f]
  <2>1. d["owed"] \in Allowed["owed"] /\ d["body"] \in Allowed["body"]
    BY <1>7, Bounds, AllowedFields
  <2> QED BY <2>1, Zenon DEF S
<1>9. S \subseteq {"sock", "due", "inbox", "body", "owed", "reply", "cause"} BY DEF S
<1>10. ~c.due BY <1>1, <1>3, <1>4 DEF Network
<1>11. \A n : Fits(c, n) => Fits(d, n) BY <1>6, <1>7 DEF Fits
<1>12. Network(d) BY <1>1, <1>3, <1>6, <1>7, <1>10, SMT DEF Network
<1>13. Unread(c) => Unread(d)
  BY <1>1, <1>4, <1>6, <1>11, SMT DEF Unread
<1>14. /\ HeadRead(c) => HeadRead(d)
       /\ \A n : BodyLeft(c, n) => BodyLeft(d, n)
  BY <1>6, <1>11, Zenon DEF HeadRead, BodyLeft
<1>15. ~Clean(c) BY <1>1, <1>4 DEF Clean
<1>16. d.body > 0 BY <1>7, Bounds
<1>17. WorkOK(d)
  BY <1>1, <1>5, <1>6, <1>8, <1>9, <1>12, <1>13, <1>14, <1>15, <1>16, Touched
<1> QED BY <1>17 DEF d

LEMMA ShutWorks ==
  ASSUME WorkOK(conn), Shut \/ Reset
  PROVE  WorkOK(conn')
<1> DEFINE c == conn
           d == conn'
           S == {"sock", "due", "owed", "cause"}
<1>1. WorkOK(c) /\ c.sock \in {"alive", "fin"} BY DEF Shut, Reset
<1>2. \/ /\ c.sock = "alive"
         /\ d = [c EXCEPT !.sock = "fin", !.cause = "other", !.due = FALSE, !.owed = 0]
      \/ d = [c EXCEPT !.sock = "reset", !.due = FALSE, !.owed = 0,
                       !.cause = IF c.sock = "alive" THEN "other" ELSE c.cause]
  BY DEF Shut, Reset
<1>3. IsRec(c) /\ Network(c) BY <1>1, WorkIs
<1>4. /\ c.owed \in 0 .. MaxBody /\ c.body \in 0 .. MaxBody /\ c.left \in 0 .. MaxBody
      /\ c.got \in Answers /\ c.inbox \in Answers /\ c.cause \in Causes
  BY <1>1, WorkIs, FieldTypes
<1> HIDE DEF c, d, S
<1>5. /\ IsRec(d) /\ d.due = FALSE /\ d.owed = 0 /\ Agree(c, d, S)
      /\ d.sock \in {"fin", "reset"} /\ (d.sock = "fin" => c.sock = "alive")
      /\ d.cause = IF c.sock = "alive" THEN "other" ELSE c.cause
  <2>1. CASE d = [c EXCEPT !.sock = "reset", !.due = FALSE, !.owed = 0,
                       !.cause = IF c.sock = "alive" THEN "other" ELSE c.cause]
    BY <1>3, <2>1, Fields, FieldsAll, Zenon DEF IsRec, Agree, S
  <2>2. CASE /\ c.sock = "alive"
             /\ d = [c EXCEPT !.sock = "fin", !.cause = "other", !.due = FALSE, !.owed = 0]
    <3>1. /\ IsRec(d) /\ d.due = FALSE /\ d.owed = 0 /\ Agree(c, d, S)
          /\ d.sock = "fin" /\ d.cause = "other"
      BY <1>3, <2>2, Fields, FieldsAll, Zenon DEF IsRec, Agree, S
    <3> QED BY <2>2, <3>1
  <2> QED BY <1>2, <2>1, <2>2
<1>6. d.call = c.call /\ d.left = c.left /\ d.body = c.body
      /\ d.inbox = c.inbox /\ d.reply = c.reply /\ d.got = c.got
  BY <1>5, SMT DEF Agree, AllFields, S
<1>7. \A f \in S : d[f] \in Allowed[f]
  <2>1. /\ d["sock"] \in Allowed["sock"] /\ d["due"] \in Allowed["due"]
        /\ d["owed"] \in Allowed["owed"] /\ d["cause"] \in Allowed["cause"]
    <3>1. d.cause \in Causes BY <1>4, <1>5 DEF Causes
    <3>2. d.sock \in Socks BY <1>5 DEF Socks
    <3>3. d.due \in BOOLEAN BY <1>5, Zenon
    <3>4. 0 \in 0 .. MaxBody BY Bounds
    <3>5. d.owed \in 0 .. MaxBody BY <1>5, <3>4
    <3> QED BY <3>1, <3>2, <3>3, <3>5, AllowedFields
  <2> QED BY <2>1, Zenon DEF S
<1>8. S \subseteq {"sock", "due", "inbox", "body", "owed", "reply", "cause"} BY DEF S
<1>9. c.cause # "none" => d.cause # "none" BY <1>5
<1>10. \A n \in Nat : Fits(c, n) => Fits(d, n)
  <2>1. c.body <= c.body + c.owed /\ d.body + d.owed = c.body BY <1>4, <1>5, <1>6, Bounds
  <2> QED BY <1>4, <1>5, <2>1, Bounds, SMT DEF Fits
<1>11. Network(d)
  <2>1. c.body + c.owed <= MaxBody BY <1>3 DEF Network
  <2> QED BY <1>4, <1>5, <1>6, <2>1, Bounds, SMT DEF Network
<1>12. LengthOf(c.inbox, c.call) \in Nat /\ LengthOf(c.got, c.call) \in Nat
  BY <1>4, AnswerLength, Bounds
<1>13. Unread(c) => Unread(d)
  BY <1>5, <1>6, <1>9, <1>10, <1>12, SMT DEF Unread
<1>14. HeadRead(c) => HeadRead(d) BY <1>5, <1>6, <1>9, <1>10, <1>12, Zenon DEF HeadRead
<1>15. \A n \in {0, c.left, c.left - 1, c.left - c.count} : BodyLeft(c, n) => BodyLeft(d, n)
  <2>1. \A n : Fits(c, n) => d.body + d.owed <= n \/ n \notin Int
    BY <1>4, <1>5, <1>6, Bounds, SMT DEF Fits
  <2>4. c.count \in 0 .. MaxBody BY <1>1, WorkIs, FieldTypes
  <2>2. {0, c.left, c.left - 1, c.left - c.count} \subseteq Int BY <1>4, <2>4, Bounds
  <2>3. \A n \in {0, c.left, c.left - 1, c.left - c.count} : Fits(c, n) => Fits(d, n)
    BY <1>5, <2>1, <2>2, SMT DEF Fits
  <2> QED BY <1>5, <1>6, <2>3, Zenon DEF BodyLeft
<1>16. Clean(c) => Clean(d) BY <1>5, <1>6 DEF Clean
<1>17. Down(c) \/ d.sock = "alive" \/ d.cause # "none" BY <1>1, <1>5 DEF Down
<1>18. WorkOK(d)
  BY <1>1, <1>5, <1>6, <1>7, <1>8, <1>9, <1>11, <1>13, <1>14, <1>15, <1>16, <1>17, Touched
<1> QED BY <1>18 DEF d

LEMMA ServerWorks ==
  ASSUME WorkOK(conn), Server
  PROVE  WorkOK(conn')
  BY ServeWorks, SendBodyWorks, ShutWorks DEF Server

(***************************************************************************)
(* The caller.                                                             *)
(***************************************************************************)
\* Nothing runs and nothing is waited for.
LEMMA AtRest ==
  ASSUME NEW c, WorkOK(c), c.call \in {"none", "gone"}
  PROVE  /\ c.op = "none" /\ Quiet(c) /\ ~Pending(c) /\ c.sock # "connecting"
         /\ c.tries = 0 /\ c.post_tries = 0 /\ c.after = "none" /\ c.null = FALSE
         /\ c.queue \in Seq(Handlers) /\ AtNone(c) /\ c.sent <= c.size
<1>1. OpSound(c) /\ Request(c) /\ QueueOK(c) /\ Place(c.op, c, Holds(c, "ok")) /\ c.queue \in Seq(Handlers)
  BY WorkIs
<1>2. c.null \in BOOLEAN /\ c.sent \in 0 .. MaxData BY WorkIs, FieldTypes
<1>3. c.op = "none" /\ c.tries = 0 /\ c.post_tries = 0 /\ c.after = "none"
  BY <1>1 DEF OpSound
<1>4. ~c.null BY <1>1 DEF Request
<1>5. ~Pending(c) BY <1>3 DEF Pending
<1>6. Quiet(c) BY <1>1, <1>3 DEF QueueOK
<1>7. AtNone(c) BY <1>1, <1>3, Zenon DEF Place
<1>8. c.sock # "connecting" BY <1>5, WorkIs
<1>9. c.null = FALSE BY <1>2, <1>4, Zenon
<1> QED BY <1>1, <1>2, <1>3, <1>5, <1>6, <1>7, <1>8, <1>9, Bounds DEF Request

\* A call begins.
LEMMA Starts ==
  ASSUME NEW c, WorkOK(c), c.call = "none", NEW d, IsRec(d),
         NEW S, S \subseteq {"call", "outcome", "served", "reply", "cause", "size", "null", "can_recall"},
         Agree(c, d, S), \A f \in S : d[f] \in Allowed[f], d.call \notin {"none", "gone"},
         Network(d), Request(d)
  PROVE  Running(d)
<1>1. c.op = "none" /\ Quiet(c) /\ c.sock # "connecting" BY AtRest
<1>2. d.op = c.op /\ d.queue = c.queue /\ d.timer = c.timer /\ d.sock = c.sock
  BY SMT DEF Agree, AllFields
<1>3. Typed(d) BY WorkIs, AgreeTyped
<1>4. Quiet(d) BY <1>1, <1>2 DEF Quiet
<1> QED BY <1>1, <1>2, <1>3, <1>4 DEF Running

Beginning == {"GET", "HEAD", "open", "POST", "headers", "connect"}
LEMMA BeginIs ==
  ASSUME WorkOK(conn), NEW call, NEW d, d = Begin(call)
  PROVE  /\ IsRec(d) /\ d.call = call /\ d.outcome = "none" /\ d.served = 0
         /\ d.reply = IF conn.sock = "foul" THEN "foul" ELSE "none"
         /\ d.cause = IF conn.must_reconnect \/ conn.sock \notin {"fin", "foul"} THEN "none"
                      ELSE IF conn.sock = "fin" THEN "dropped" ELSE "foul"
         /\ Agree(conn, d, {"call", "outcome", "served", "reply", "cause"})
<1>1. IsRec(conn) BY WorkIs
<1> QED BY <1>1, Fields, FieldsAll, Zenon DEF Begin, IsRec, Agree

\* No server has been asked; on a foul connection none ever is.
Anew(c) == c.reply = "none" \/ (c.reply = "foul" /\ conn.reply = "foul")

LEMMA Begins ==
  ASSUME WorkOK(conn), Idle, NEW call \in Beginning, NEW d, IsRec(d),
         Agree(Begin(call), d, {"size", "null", "can_recall"}),
         d.size \in 0 .. MaxData, d.null \in BOOLEAN, d.can_recall \in BOOLEAN,
         d.null => call = "POST", call = "connect" => d.size = 0
  PROVE  /\ Running(d) /\ d.call = call /\ d.left = 0 /\ d.sent = 0 /\ d.served = 0
         /\ Anew(d) /\ Unasked(d) /\ d.outcome = "none" /\ d.tries = 0 /\ d.post_tries = 0
         /\ d.after = "none" /\ CleanIfUp(d)
         /\ d.sock \in {"fin", "foul"} => d.cause # "none" \/ NeedsConnect(d)
<1> DEFINE c == conn
           b == Begin(call)
           S == {"call", "outcome", "served", "reply", "cause", "size", "null", "can_recall"}
<1>1. WorkOK(c) /\ c.call = "none" /\ c.left = 0 /\ c.outcome # "building" BY DEF Idle
<1>2. /\ IsRec(b) /\ b.call = call /\ b.outcome = "none" /\ b.served = 0
      /\ b.reply = IF c.sock = "foul" THEN "foul" ELSE "none"
      /\ b.cause = IF c.must_reconnect \/ c.sock \notin {"fin", "foul"} THEN "none"
                   ELSE IF c.sock = "fin" THEN "dropped" ELSE "foul"
      /\ Agree(c, b, {"call", "outcome", "served", "reply", "cause"})
  BY BeginIs
<1>3. Agree(b, d, {"size", "null", "can_recall"}) OBVIOUS
<1> HIDE DEF c, b
<1>4. /\ c.op = "none" /\ c.sock # "connecting" /\ c.tries = 0 /\ c.post_tries = 0
      /\ c.after = "none" /\ AtNone(c)
  BY <1>1, AtRest
<1>5. Network(c) /\ Request(c) BY <1>1, WorkIs
<1>6. CleanIfUp(c) /\ c.sent = 0
  BY <1>1, <1>4, <1>5 DEF AtNone, Request
<1>7. /\ d.call = call /\ d.outcome = "none" /\ d.served = 0 /\ d.reply = b.reply
      /\ d.cause = b.cause
  BY <1>2, <1>3, SMT DEF Agree, AllFields
<1>17. Anew(d) /\ Unasked(d)
  BY <1>2, <1>5, <1>7 DEF Anew, Unasked, Network, c
<1>8. Agree(c, d, S)
  <2>1. Agree(c, d, {"call", "outcome", "served", "reply", "cause"} \cup {"size", "null", "can_recall"})
    BY <1>2, <1>3, AgreeStep
  <2> QED BY <2>1, AgreeMore
<1> HIDE DEF S
<1>9. /\ d.sock = c.sock /\ d.due = c.due /\ d.inbox = c.inbox /\ d.body = c.body
      /\ d.owed = c.owed /\ d.left = c.left /\ d.sent = c.sent /\ d.tries = c.tries
      /\ d.post_tries = c.post_tries /\ d.after = c.after
      /\ d.must_reconnect = c.must_reconnect
  BY <1>8, SMT DEF Agree, AllFields, S
<1>10. \A f \in S : d[f] \in Allowed[f]
  <2>1. call \in Calls BY DEF Beginning, Calls
  <2>2. d["call"] \in Allowed["call"] /\ d["outcome"] \in Allowed["outcome"]
        /\ d["reply"] \in Allowed["reply"]
    BY <1>2, <1>7, <2>1, AllowedFields DEF Outcomes, Replies
  <2>3. d["cause"] \in Allowed["cause"] BY <1>2, <1>7, AllowedFields DEF Causes
  <2>4. d["served"] \in Allowed["served"] BY <1>7, AllowedFields
  <2>5. d["size"] \in Allowed["size"] BY AllowedFields
  <2>6. d["null"] \in Allowed["null"] /\ d["can_recall"] \in Allowed["can_recall"]
    BY AllowedFields, Zenon
  <2> QED BY <2>2, <2>3, <2>4, <2>5, <2>6, Zenon DEF S
<1>11. CleanIfUp(d) BY <1>6, <1>9, SMT DEF CleanIfUp, Clean, Up
<1>12. Network(d)
  <2>1. ~c.due BY <1>5, <1>6 DEF Network, CleanIfUp, Up, Clean
  <2> QED BY <1>2, <1>5, <1>7, <1>9, <2>1, SMT DEF Network, Clean
<1>13. Request(d)
  <2>1. 0 <= d.size BY Bounds
  <2> QED BY <1>1, <1>4, <1>6, <1>7, <1>9, <2>1, SMT DEF Request, Beginning, Errors
<1>14. d.call \notin {"none", "gone"} BY <1>7 DEF Beginning
<1>15. Running(d)
  <2>1. S \subseteq {"call", "outcome", "served", "reply", "cause", "size", "null", "can_recall"}
    BY DEF S
  <2> QED BY <1>1, <1>8, <1>10, <1>12, <1>13, <1>14, <2>1, Starts
<1>16. d.sock \in {"fin", "foul"} => d.cause # "none" \/ NeedsConnect(d)
  BY <1>2, <1>7, <1>9 DEF NeedsConnect
<1> QED BY <1>1, <1>4, <1>6, <1>7, <1>9, <1>11, <1>15, <1>16, <1>17

\* From where a call that begins goes on.
Began(c) ==
  /\ c.call \in Beginning /\ c.served = 0 /\ Anew(c)
  /\ conn.call = "none" /\ conn.outcome # "building" /\ conn.left = 0

LEMMA BeginGoes ==
  ASSUME WorkOK(conn), SimpleRequest \/ Post \/ WriteRequestHeaders \/ Reconnect
  PROVE  \E c : Began(c) /\ Goes(c, conn')
<1>1. Idle BY DEF SimpleRequest, Post, WriteRequestHeaders, Reconnect
<1>2. conn.call = "none" /\ conn.outcome # "building" /\ conn.left = 0 BY <1>1 DEF Idle
<1>3. /\ conn.size = 0 /\ conn.null = FALSE /\ conn.can_recall \in BOOLEAN
  <2>1. Request(conn) BY WorkIs
  <2>2. conn.can_recall \in BOOLEAN BY WorkIs, FieldTypes
  <2> QED BY <1>2, <2>1, <2>2, AtRest DEF Request
<1>4. ASSUME NEW call \in Beginning \ {"POST"}, NEW size \in 0 .. MaxData,
             call # "headers" => size = 0,
             NEW d, d = [Begin(call) EXCEPT !.size = size] \/ (size = 0 /\ d = Begin(call))
      PROVE  /\ Running(d) /\ d.call = call /\ d.left = 0 /\ d.sent = 0 /\ d.served = 0
             /\ Unasked(d) /\ d.tries = 0
             /\ d.after = "none" /\ CleanIfUp(d)
             /\ d.sock \in {"fin", "foul"} => d.cause # "none" \/ NeedsConnect(d)
             /\ Began(d)
  <2> DEFINE b == Begin(call)
  <2>1. /\ IsRec(b) /\ Agree(conn, b, {"call", "outcome", "served", "reply", "cause"})
    BY BeginIs
  <2>2. b.size = 0 /\ b.null = FALSE /\ b.can_recall \in BOOLEAN
    <3>1. b.size = conn.size /\ b.null = conn.null /\ b.can_recall = conn.can_recall
      <4> HIDE DEF b
      <4> QED BY <2>1, SMT DEF Agree, AllFields
    <3> QED BY <1>3, <3>1
  <2>3. d = b \/ d = [b EXCEPT !.size = size] BY <1>4
  <2>4. d = b => size = 0 \/ d = [b EXCEPT !.size = size] BY <1>4
  <2> HIDE DEF b
  <2>5. IsRec(d) /\ d.size = size /\ Agree(b, d, {"size"})
    <3>1. CASE d = [b EXCEPT !.size = size]
      BY <2>1, <3>1, Fields, FieldsAll, Zenon DEF IsRec, Agree
    <3>2. CASE d = b /\ size = 0 BY <2>1, <2>2, <3>2 DEF Agree
    <3> QED BY <2>3, <2>4, <3>1, <3>2
  <2>6. d.null = FALSE /\ d.can_recall \in BOOLEAN
    <3>1. d.null = b.null /\ d.can_recall = b.can_recall BY <2>5, SMT DEF Agree, AllFields
    <3> QED BY <2>2, <3>1
  <2>7. Agree(b, d, {"size", "null", "can_recall"}) BY <2>5, AgreeMore
  <2>8. d.null \in BOOLEAN /\ ~d.null BY <2>6, Zenon
  <2>9. call \in Beginning /\ call # "POST" /\ (call = "connect" => d.size = 0)
    BY <1>4, <2>5
  <2>10. /\ Running(d) /\ d.call = call /\ d.left = 0 /\ d.sent = 0 /\ d.served = 0
         /\ Unasked(d) /\ d.tries = 0
         /\ d.after = "none" /\ CleanIfUp(d)
         /\ d.sock \in {"fin", "foul"} => d.cause # "none" \/ NeedsConnect(d)
         /\ Anew(d)
    BY <1>1, <2>5, <2>6, <2>7, <2>8, <2>9, Begins DEF b
  <2> QED BY <1>2, <2>9, <2>10 DEF Began
<1>5. CASE SimpleRequest
  <2>1. PICK call \in {"GET", "HEAD", "open"} : conn' = writeRequest(Begin(call))
    BY <1>5 DEF SimpleRequest
  <2> DEFINE d == Begin(call)
             size == 0
  <2>2. call \in Beginning \ {"POST"} /\ call # "headers" BY DEF Beginning
  <2>3. size \in 0 .. MaxData BY Bounds
  <2>4. (call # "headers" => size = 0)
        /\ (d = [Begin(call) EXCEPT !.size = size] \/ (size = 0 /\ d = Begin(call)))
    OBVIOUS
  <2>5. conn' = writeRequest(d) BY <2>1
  <2> HIDE DEF d, size
  <2>6. /\ Running(d) /\ d.call = call /\ d.left = 0 /\ d.sent = 0 /\ d.served = 0
        /\ Unasked(d) /\ d.after = "none" /\ CleanIfUp(d) /\ Began(d)
        /\ d.sock \in {"fin", "foul"} => d.cause # "none" \/ NeedsConnect(d)
    BY <1>4, <2>2, <2>3, <2>4
  <2>7. Sendable(d) BY <2>6 DEF Sendable, Fresh, RequestCalls
  <2> QED BY <2>5, <2>6, <2>7, writeRequestGoes
<1>6. CASE WriteRequestHeaders
  <2>1. PICK size \in 0 .. MaxData :
          conn' = writeRequest([Begin("headers") EXCEPT !.size = size])
    BY <1>6 DEF WriteRequestHeaders
  <2> DEFINE call == "headers"
             d == [Begin(call) EXCEPT !.size = size]
  <2>2. call \in Beginning \ {"POST"} /\ (call # "headers" => size = 0) BY DEF Beginning
  <2>3. call = "headers" /\ conn' = writeRequest(d) BY <2>1
  <2>4. d = [Begin(call) EXCEPT !.size = size] \/ (size = 0 /\ d = Begin(call)) OBVIOUS
  <2> HIDE DEF d, call
  <2>5. /\ Running(d) /\ d.call = call /\ d.left = 0 /\ d.sent = 0 /\ d.served = 0
        /\ Unasked(d) /\ d.after = "none" /\ CleanIfUp(d) /\ Began(d)
        /\ d.sock \in {"fin", "foul"} => d.cause # "none" \/ NeedsConnect(d)
    BY <1>4, <2>2, <2>4
  <2>6. Sendable(d) BY <2>3, <2>5 DEF Sendable, Fresh, RequestCalls
  <2> QED BY <2>3, <2>5, <2>6, writeRequestGoes
<1>7. CASE Reconnect
  <2> DEFINE call == "connect"
             size == 0
             d == Begin(call)
             after == "user"
  <2>1. conn' = StartConnect(d, after) BY <1>7 DEF Reconnect
  <2>2. call \in Beginning \ {"POST"} /\ (call # "headers" => size = 0) /\ call = "connect"
    BY DEF Beginning
  <2>3. size \in 0 .. MaxData BY Bounds
  <2>4. d = [Begin(call) EXCEPT !.size = size] \/ (size = 0 /\ d = Begin(call)) OBVIOUS
  <2>5. after = "user" /\ after \in Afters BY DEF Afters
  <2> HIDE DEF d, call, size, after
  <2>6. /\ Running(d) /\ d.call = call /\ d.left = 0 /\ d.sent = 0 /\ d.served = 0
        /\ Began(d)
    BY <1>4, <2>2, <2>3, <2>4
  <2>7. Connectable(d, after) BY <2>2, <2>5, <2>6 DEF Connectable
  <2> QED BY <2>1, <2>6, <2>7, StartConnectGoes
<1>8. CASE Post
  <2>1. PICK size \in 0 .. MaxData, null \in Nulls, can_recall \in BOOLEAN :
          conn' = PostLoop([Begin("POST") EXCEPT !.size = size, !.null = null,
                                                 !.can_recall = can_recall])
    BY <1>8 DEF Post
  <2>2. null \in BOOLEAN BY BoundsTyped
  <2> DEFINE call == "POST"
             b == Begin(call)
             d == [b EXCEPT !.size = size, !.null = null, !.can_recall = can_recall]
  <2>3. IsRec(b) BY BeginIs
  <2>4. call \in Beginning /\ call = "POST" BY DEF Beginning
  <2>5. conn' = PostLoop(d) BY <2>1
  <2> HIDE DEF b, call
  <2>6. /\ IsRec(d) /\ d.size = size /\ d.null = null /\ d.can_recall = can_recall
        /\ Agree(b, d, {"size", "null", "can_recall"})
    BY <2>3, Fields, FieldsAll, Zenon DEF IsRec, Agree
  <2> HIDE DEF d
  <2>7. d.null \in BOOLEAN /\ d.can_recall \in BOOLEAN /\ d.size \in 0 .. MaxData
        /\ (d.null => call = "POST") /\ (call = "connect" => d.size = 0)
    <3>1. d.null \in BOOLEAN /\ d.can_recall \in BOOLEAN BY <2>2, <2>6, Zenon
    <3>2. d.size \in 0 .. MaxData BY <2>6
    <3> QED BY <2>4, <3>1, <3>2
  <2>8. /\ Running(d) /\ d.call = call /\ d.left = 0 /\ d.sent = 0 /\ d.served = 0
        /\ Anew(d) /\ Unasked(d) /\ d.post_tries = 0 /\ d.after = "none" /\ CleanIfUp(d)
        /\ d.sock \in {"fin", "foul"} => d.cause # "none" \/ NeedsConnect(d)
    <3>1. Agree(Begin(call), d, {"size", "null", "can_recall"}) BY <2>6 DEF b
    <3> QED BY <1>1, <2>4, <2>6, <2>7, <3>1, Begins
  <2>9. Began(d) BY <1>2, <2>4, <2>8 DEF Began, Beginning
  <2>10. d.post_tries # max_send_try BY <2>8, Bounds
  <2>11. Goes(d, PostLoop(d)) BY <2>4, <2>8, <2>10, PostLoopGoes
  <2> QED BY <2>5, <2>9, <2>11
<1> QED BY <1>5, <1>6, <1>7, <1>8

\* A call goes on with the request, or with what is left of an answer.
Continuing == {"data", "answer", "tee", "wsplice", "barrier"}
Reading == {"preload", "stream", "peek", "splice"}

\* From where it goes on.
WentOn(c) ==
  /\ conn.call = "none" /\ c.served = conn.served /\ c.reply = conn.reply
  /\ \/ conn.outcome = "building" /\ c.call \in Continuing
     \/ conn.outcome # "building" /\ c.call \in Reading

LEMMA CalledSame ==
  ASSUME NEW c, NEW d, Agree(c, d, {"call", "outcome"})
  PROVE  /\ d.sock = c.sock /\ d.due = c.due /\ d.inbox = c.inbox /\ d.body = c.body
         /\ d.owed = c.owed /\ d.left = c.left /\ d.sent = c.sent /\ d.size = c.size
         /\ d.reply = c.reply /\ d.served = c.served /\ d.cause = c.cause
         /\ d.after = c.after /\ d.null = c.null
  BY SMT DEF Agree, AllFields

LEMMA GoesOn ==
  ASSUME WorkOK(conn), conn.call = "none", NEW call,
         (Building /\ call \in Continuing) \/ (conn.left > 0 /\ call \in Reading),
         NEW d, d = [conn EXCEPT !.call = call, !.outcome = "none"]
  PROVE  /\ Running(d) /\ WentOn(d) /\ d.call = call /\ Blamed(d) /\ d.after = "none"
         /\ d.sent = conn.sent /\ d.size = conn.size /\ d.null = FALSE /\ d.left = conn.left
         /\ d.body = conn.body
         /\ Building => Unread(d) /\ (d.sent < d.size => d.served = 0)
         /\ ~Building => BodyLeft(d, d.left) /\ d.left > 0
<1> DEFINE c == conn
           S == {"call", "outcome"}
<1>1. WorkOK(c) /\ c.call = "none" /\ (Building <=> c.outcome = "building") BY DEF Building
<1>2. IsRec(c) /\ Network(c) /\ Request(c) BY <1>1, WorkIs
<1> HIDE DEF c, S
<1>3. IsRec(d) /\ d.call = call /\ d.outcome = "none" /\ Agree(c, d, S)
  BY <1>2, Fields, FieldsAll, Zenon DEF IsRec, Agree, S, c
<1>4. /\ d.sock = c.sock /\ d.due = c.due /\ d.inbox = c.inbox /\ d.body = c.body
      /\ d.owed = c.owed /\ d.left = c.left /\ d.sent = c.sent /\ d.size = c.size
      /\ d.reply = c.reply /\ d.served = c.served /\ d.cause = c.cause
      /\ d.after = c.after /\ d.null = c.null
  BY <1>3, CalledSame, ZenonT(60) DEF S
<1>5. AtNone(c) /\ c.after = "none" /\ c.null = FALSE /\ ~c.null
  <2>1. AtNone(c) /\ c.after = "none" /\ c.null = FALSE BY <1>1, AtRest
  <2> QED BY <2>1, Zenon
<1>6. Building => Unread(c) /\ Blamed(c) /\ (c.sent < c.size => c.served = 0) /\ c.left = 0
  BY <1>1, <1>5 DEF AtNone, Unread
<1>7. /\ Building => call \in Continuing
      /\ ~Building => call \in Reading /\ c.left > 0
  <2>1. c.left \in 0 .. MaxBody BY <1>1, WorkIs, FieldTypes
  <2> QED BY <1>6, <2>1 DEF c
<1>8. ~Building => BodyLeft(c, c.left) /\ Blamed(c)
  BY <1>1, <1>5, <1>7 DEF AtNone
<1>9. call \in Calls \ {"none", "gone", "POST", "HEAD"}
  BY <1>7 DEF Continuing, Reading, Calls
<1>10. \A f \in S : d[f] \in Allowed[f]
  <2>1. d["call"] \in Allowed["call"] /\ d["outcome"] \in Allowed["outcome"]
    BY <1>3, <1>9, AllowedFields DEF Outcomes
  <2> QED BY <2>1, Zenon DEF S
<1>11. Network(d) BY <1>2, <1>4, SMT DEF Network, Clean
<1>12. Request(d)
  BY <1>1, <1>2, <1>3, <1>4, <1>5, <1>7, <1>9, SMT DEF Request, Errors, Continuing, Reading
<1>13. Running(d)
  <2>1. S \subseteq {"call", "outcome", "served", "reply", "cause", "size", "null", "can_recall"}
    BY DEF S
  <2> QED BY <1>1, <1>3, <1>9, <1>10, <1>11, <1>12, <2>1, Starts
<1>14. Blamed(d) BY <1>4, <1>6, <1>8 DEF Blamed, Down
<1>15. ASSUME Building PROVE Unread(d)
  <2>1. Unread(c) BY <1>6, <1>15
  <2>2. c.inbox \in Answers BY <1>1, WorkIs, FieldTypes
  <2>3. LengthOf(c.inbox, d.call) = LengthOf(c.inbox, c.call)
    BY <1>1, <1>3, <1>9 DEF LengthOf
  <2> QED BY <1>4, <2>1, <2>3, SMT DEF Unread, Fits
<1>16. ASSUME ~Building PROVE BodyLeft(d, d.left)
  BY <1>4, <1>8, <1>16, SMT DEF BodyLeft, Fits
<1>17. WentOn(d) BY <1>1, <1>3, <1>4, <1>7 DEF WentOn, c
<1>18. d.left = conn.left /\ d.body = conn.body /\ d.sent = conn.sent /\ d.size = conn.size
       /\ d.after = "none" /\ d.null = FALSE
  BY <1>4, <1>5 DEF c
<1> QED BY <1>3, <1>4, <1>6, <1>7, <1>13, <1>14, <1>15, <1>16, <1>17, <1>18

\* read_buf has as much as PreloadBytes() is asked for, or has not.
Preloaded == PreloadBytes /\ conn' = [conn EXCEPT !.outcome = "answered"]
Preloads ==
  /\ conn.call = "none" /\ conn.left > 0
  /\ \E count \in 1 .. conn.left :
       conn' = Issue(SetTimer([conn EXCEPT !.call = "preload", !.outcome = "none",
                                           !.count = count]), "preload")
LEMMA PreloadsOrNot == ASSUME PreloadBytes PROVE Preloaded \/ Preloads
  BY Zenon DEF PreloadBytes, Preloaded, Preloads

LEMMA GoOnGoes ==
  ASSUME WorkOK(conn), WriteRequestData \/ AskAnswer \/ Preloads \/ StreamReadData
  PROVE  \E c : WentOn(c) /\ Running(c) /\ Goes(c, conn')
<1>1. CASE WriteRequestData
  <2> DEFINE call == "data"
             d == [conn EXCEPT !.call = call, !.outcome = "none"]
  <2>1. Building /\ conn.sent < conn.size /\ conn' = StartData(d) /\ conn.call = "none"
    BY <1>1 DEF WriteRequestData, Building
  <2>2. call \in Continuing /\ call = "data" BY DEF Continuing
  <2> HIDE DEF call
  <2>5. d = [conn EXCEPT !.call = call, !.outcome = "none"] OBVIOUS
  <2>7. (Building /\ call \in Continuing) \/ (conn.left > 0 /\ call \in Reading) BY <2>1, <2>2
  <2>8. conn.call = "none" BY <2>1
  <2>3. Running(d) /\ WentOn(d) /\ d.call = call /\ Blamed(d) /\ d.after = "none"
    BY <2>5, <2>7, <2>8, GoesOn, ZenonT(60)
  <2> HIDE DEF d
  <2>10. d.sent = conn.sent /\ d.size = conn.size
    <3>1. IsRec(conn) BY WorkIs
    <3> QED BY <2>5, <3>1, Fields, FieldsAll, Zenon DEF IsRec
  <2>9. Building => Unread(d) /\ (d.sent < d.size => d.served = 0)
    BY <2>5, <2>7, <2>8, GoesOn
  <2>6. d.sent < d.size /\ d.served = 0 /\ Unread(d) BY <2>1, <2>9, <2>10, Zenon
  <2>4. Goes(d, StartData(d)) BY <2>2, <2>3, <2>6, StartDataGoes
  <2> QED BY <2>1, <2>3, <2>4
<1>2. CASE AskAnswer
  <2> DEFINE call == "answer"
             d == [conn EXCEPT !.call = call, !.outcome = "none"]
             after == "return"
  <2>1. Building /\ conn' = ReadAnswer(d, after) /\ conn.call = "none"
    BY <1>2 DEF AskAnswer, Building
  <2>2. call \in Continuing /\ call = "answer" BY DEF Continuing
  <2>3. after \in {"return", "null"} /\ after # "null" BY DEF after
  <2> HIDE DEF call, after
  <2>4. /\ Running(d) /\ WentOn(d) /\ d.call = call /\ Blamed(d) /\ d.null = FALSE /\ Unread(d)
    BY <2>1, <2>2, GoesOn
  <2> HIDE DEF d
  <2>5. ~d.null BY <2>4
  <2>6. Goes(d, ReadAnswer(d, after)) BY <2>2, <2>3, <2>4, <2>5, ReadAnswerGoes
  <2> QED BY <2>1, <2>4, <2>6
<1>3. CASE Preloads
  <2> DEFINE call == "preload"
             d == [conn EXCEPT !.call = call, !.outcome = "none"]
             op == "preload"
  <2>11. PICK count \in 1 .. conn.left :
           conn' = Issue(SetTimer([conn EXCEPT !.call = "preload", !.outcome = "none",
                                               !.count = count]), "preload")
    BY <1>3 DEF Preloads
  <2> DEFINE e == [conn EXCEPT !.call = call, !.outcome = "none", !.count = count]
  <2>1. conn.left > 0 /\ conn' = Issue(SetTimer(e), op) /\ conn.call = "none"
    BY <1>3, <2>11 DEF Preloads
  <2>2. call \in Reading /\ call \notin Continuing /\ call = "preload"
    BY DEF Continuing, Reading
  <2>3. op \in Ops \ {"none", "connect"} /\ op = "preload" BY DEF Ops, OwnOps
  <2> HIDE DEF call, op
  <2>4. /\ Running(d) /\ WentOn(d) /\ d.call = call /\ Blamed(d) /\ d.after = "none"
        /\ d.left = conn.left
        /\ ~Building => BodyLeft(d, d.left) /\ d.left > 0
    BY <2>1, <2>2, GoesOn, ZenonT(60)
  <2>12. e = [d EXCEPT !.count = count] OBVIOUS
  <2>13. IsRec(d) BY <2>4, RunningIs
  <2> HIDE DEF d, e
  <2>14. IsRec(e) /\ e.count = count /\ Agree(d, e, {"count"})
    BY <2>12, <2>13, Fields, FieldsAll, Zenon DEF IsRec, Agree
  <2>15. /\ e.call = d.call /\ e.left = d.left /\ e.after = d.after /\ e.sent = d.sent
         /\ e.size = d.size /\ e.null = d.null
    BY <2>14, SMT DEF Agree, AllFields
  <2>16. Running(e) /\ Same(d, e)
    <3> DEFINE S == {"count"}
    <3>1. Request(d) BY <2>4 DEF Running
    <3>2. Request(e)
      <4>1. /\ e.served = d.served /\ e.outcome = d.outcome /\ e.cause = d.cause
            /\ e.reply = d.reply
        BY <2>14, SMT DEF Agree, AllFields
      <4> QED BY <2>15, <3>1, <4>1, SMT DEF Request
    <3>3. count \in 0 .. MaxBody
      <4>1. conn.left \in 0 .. MaxBody BY WorkIs, FieldTypes
      <4> QED BY <4>1, Bounds
    <3>4. e["count"] \in Allowed["count"] BY <2>14, <3>3, AllowedFields
    <3>5. S \subseteq Own /\ \A f \in S : e[f] \in Allowed[f] BY <3>4, Zenon DEF Own
    <3>6. Agree(d, e, S) BY <2>14
    <3> HIDE DEF S
    <3> QED BY <2>4, <2>14, <3>2, <3>5, <3>6, Tweaked
  <2>17. WentOn(e) BY <2>4, <2>15, <2>16 DEF WentOn, Same
  <2>5. ~Building BY <2>2, <2>4 DEF WentOn, Building
  <2>6. AtPreload(e, FALSE)
    <3>1. Blamed(e) /\ BodyLeft(e, d.left) BY <2>4, <2>5, <2>16, SameWire
    <3>2. 0 < e.count /\ e.count <= e.left
      <4>1. conn.left \in 0 .. MaxBody BY WorkIs, FieldTypes
      <4> QED BY <2>4, <2>14, <2>15, <4>1, Bounds
    <3> QED BY <2>2, <2>4, <2>15, <3>1, <3>2, Zenon DEF AtPreload
  <2>7. Place(op, e, FALSE) BY <2>3, <2>6, Zenon DEF Place
  <2>8. e.after # "null" BY <2>4, <2>15
  <2>9. Goes(e, Issue(SetTimer(e), op)) BY <2>3, <2>7, <2>8, <2>16, IssueGoes
  <2> QED BY <2>1, <2>9, <2>16, <2>17
<1>4. CASE StreamReadData
  <2>1. PICK call \in {"stream", "peek"} :
          conn' = ReadMore([conn EXCEPT !.call = call, !.outcome = "none"])
    BY <1>4 DEF StreamReadData
  <2> DEFINE d == [conn EXCEPT !.call = call, !.outcome = "none"]
  <2>2. conn.left > 0 /\ conn' = ReadMore(d) /\ conn.call = "none"
    BY <1>4, <2>1 DEF StreamReadData
  <2>3. call \in Reading /\ call \notin Continuing
    BY DEF Continuing, Reading
  <2>4. /\ Running(d) /\ WentOn(d) /\ d.call = call /\ Blamed(d)
        /\ ~Building => BodyLeft(d, d.left) /\ d.left > 0
    BY <2>2, <2>3, GoesOn
  <2> HIDE DEF d
  <2>5. ~Building BY <2>3, <2>4 DEF WentOn, Building
  <2>6. d.call \in {"GET", "POST", "answer", "stream", "peek"} BY <2>4
  <2>7. Goes(d, ReadMore(d)) BY <2>4, <2>5, <2>6, ReadMoreGoes
  <2> QED BY <2>2, <2>4, <2>7
<1> QED BY <1>1, <1>2, <1>3, <1>4

(***************************************************************************)
(* The connection is closed by the caller, or is gone.                     *)
(***************************************************************************)
Leaves == {"call", "left", "size", "sent", "outcome", "cause"}
LEMMA Rested ==
  ASSUME NEW d, IsRec(d), Quiet(d), d.op = "none", d.call \in {"none", "gone"}, d.sock = "closed",
         Typed(d), d.left = 0, d.size = 0, d.sent = 0, d.outcome = "none", Clean(d),
         d.tries = 0, d.post_tries = 0, d.after = "none", d.null = FALSE, d.served <= 1
  PROVE  WorkOK(d)
<1>1. QueueOK(d) BY DEF QueueOK
<1>2. Network(d) BY Bounds DEF Network, Clean
<1>3. Request(d) BY SMT DEF Request, Errors
<1>4. \A r \in Results : ~Holds(d, r) BY OneResult, Zenon
<1>5. ~Busy(d) BY DEF Busy
<1>6. OpSound(d) BY <1>4, <1>5, SMT DEF OpSound
<1>7. AtNone(d)
  <2>1. CleanIfUp(d) /\ ~(d.left > 0) BY DEF CleanIfUp
  <2>2. d.call \notin {"splice", "tee", "wsplice", "barrier"} /\ d.outcome # "building" OBVIOUS
  <2> QED BY <2>1, <2>2, Zenon DEF AtNone
<1>8. Place(d.op, d, Holds(d, "ok")) BY <1>7, Zenon DEF Place
<1> QED BY <1>1, <1>2, <1>3, <1>6, <1>8 DEF WorkOK

LEMMA ClosedAtRest ==
  ASSUME NEW c, WorkOK(c), c.call = "none", NEW d, d = Close(c)
  PROVE  /\ IsRec(d) /\ Typed(d) /\ d.queue = c.queue /\ d.timer = c.timer /\ d.sock = "closed"
         /\ d.op = "none" /\ d.call = "none" /\ Clean(d) /\ d.tries = 0 /\ d.post_tries = 0
         /\ d.after = "none" /\ d.null = FALSE /\ d.served = c.served /\ d.reply = c.reply
         /\ d.cause = c.cause /\ d.outcome = c.outcome
<1>1. /\ c.op = "none" /\ ~Pending(c) /\ c.tries = 0 /\ c.post_tries = 0
      /\ c.after = "none" /\ c.null = FALSE
  BY AtRest
<1>2. IsRec(c) /\ Typed(c) /\ Network(c) BY WorkIs
<1>3. /\ IsRec(d) /\ d.sock = "closed" /\ Agree(c, d, {"sock", "due", "inbox", "body", "owed", "queue"})
      /\ c.sock = "closed" => d = c
      /\ c.sock # "closed" => d.due = FALSE /\ d.inbox = NoHead /\ d.body = 0 /\ d.owed = 0
      /\ d.queue = c.queue
  BY <1>1, <1>2, CloseIs
<1>4. /\ d.op = c.op /\ d.call = c.call /\ d.tries = c.tries /\ d.post_tries = c.post_tries
      /\ d.after = c.after /\ d.null = c.null /\ d.served = c.served /\ d.reply = c.reply
      /\ d.cause = c.cause /\ d.timer = c.timer /\ d.outcome = c.outcome
  BY <1>3, SMT DEF Agree, AllFields
<1>5. Clean(d)
  <2>1. c.sock = "closed" => Clean(c) BY <1>2 DEF Network
  <2> QED BY <1>3, <2>1 DEF Clean
<1>6. Typed(d)
  <2>1. CASE c.sock = "closed" BY <1>2, <1>3, <2>1
  <2>2. CASE c.sock # "closed"
    <3>1. c.queue \in Seq(Handlers) /\ 0 \in 0 .. MaxBody /\ NoHead \in Answers
      <4>1. c.queue \in Seq(Handlers) BY WorkIs
      <4> QED BY <4>1, Bounds DEF Answers
    <3>2. d.due \in BOOLEAN BY <1>3, <2>2, Zenon
    <3>3. /\ d["sock"] \in Allowed["sock"] /\ d["due"] \in Allowed["due"]
          /\ d["inbox"] \in Allowed["inbox"] /\ d["body"] \in Allowed["body"]
          /\ d["owed"] \in Allowed["owed"] /\ d["queue"] \in Allowed["queue"]
      BY <1>3, <2>2, <3>1, <3>2, AllowedFields DEF Socks
    <3>4. \A f \in {"sock", "due", "inbox", "body", "owed", "queue"} : d[f] \in Allowed[f]
      BY <3>3, Zenon
    <3> QED BY <1>2, <1>3, <3>4, AgreeTyped
  <2> QED BY <2>1, <2>2
<1> QED BY <1>1, <1>3, <1>4, <1>5, <1>6

LEMMA LeaveWorks ==
  ASSUME WorkOK(conn), UserClose \/ Destroy
  PROVE  /\ WorkOK(conn') /\ conn.call = "none" /\ conn'.call \in {"none", "gone"}
         /\ conn'.outcome = "none" /\ conn'.reply = conn.reply /\ conn'.served = conn.served
         /\ conn'.left = 0 /\ conn'.sock = "closed"
<1> DEFINE c == conn
           e == Close(c)
           d == conn'
<1>1. WorkOK(c) /\ c.call = "none" BY DEF UserClose, Destroy
<1>2. Request(c) /\ Quiet(c) BY <1>1, WorkIs, AtRest
<1>3. /\ IsRec(e) /\ Typed(e) /\ e.queue = c.queue /\ e.timer = c.timer /\ e.sock = "closed"
      /\ e.op = "none" /\ e.call = "none" /\ Clean(e) /\ e.tries = 0 /\ e.post_tries = 0
      /\ e.after = "none" /\ e.null = FALSE /\ e.served = c.served /\ e.reply = c.reply
      /\ e.cause = c.cause
  BY <1>1, ClosedAtRest
<1>4. \E f :
        /\ f = e \/ f = ClearTimer(e)
        /\ \/ d = [f EXCEPT !.left = 0, !.size = 0, !.sent = 0, !.outcome = "none"]
           \/ d = [f EXCEPT !.call = "gone", !.left = 0, !.size = 0, !.sent = 0,
                            !.outcome = "none", !.cause = "none"]
  BY DEF UserClose, Destroy
<1> HIDE DEF c, d, e
<1>5. PICK f :
        /\ f = e \/ f = ClearTimer(e)
        /\ \/ d = [f EXCEPT !.left = 0, !.size = 0, !.sent = 0, !.outcome = "none"]
           \/ d = [f EXCEPT !.call = "gone", !.left = 0, !.size = 0, !.sent = 0,
                            !.outcome = "none", !.cause = "none"]
  BY <1>4
<1>6. /\ IsRec(f) /\ Agree(e, f, {"timer"}) /\ f.timer \in {e.timer, "off"}
  <2>1. CASE f = e BY <1>3, <2>1 DEF Agree
  <2>2. CASE f = ClearTimer(e) BY <1>3, <2>2, ClearTimerIs
  <2> QED BY <1>5, <2>1, <2>2
<1>7. f.call = "none" /\ f.cause = e.cause BY <1>3, <1>6, SMT DEF Agree, AllFields
<1>8. /\ IsRec(d) /\ Agree(f, d, Leaves) /\ d.left = 0 /\ d.size = 0 /\ d.sent = 0
      /\ d.outcome = "none" /\ d.call \in {"none", "gone"} /\ d.cause \in {f.cause, "none"}
  <2>1. CASE d = [f EXCEPT !.left = 0, !.size = 0, !.sent = 0, !.outcome = "none"]
    <3>1. /\ IsRec(d) /\ Agree(f, d, Leaves) /\ d.left = 0 /\ d.size = 0 /\ d.sent = 0
          /\ d.outcome = "none" /\ d.call = f.call /\ d.cause = f.cause
      BY <1>6, <2>1, Fields, FieldsAll, Zenon DEF IsRec, Agree, Leaves
    <3> QED BY <1>7, <3>1
  <2>2. CASE d = [f EXCEPT !.call = "gone", !.left = 0, !.size = 0, !.sent = 0,
                            !.outcome = "none", !.cause = "none"]
    <3>1. /\ IsRec(d) /\ Agree(f, d, Leaves) /\ d.left = 0 /\ d.size = 0 /\ d.sent = 0
          /\ d.outcome = "none" /\ d.call = "gone" /\ d.cause = "none"
      BY <1>6, <2>2, Fields, FieldsAll, Zenon DEF IsRec, Agree, Leaves
    <3> QED BY <3>1
  <2> QED BY <1>5, <2>1, <2>2
<1>9. Agree(e, d, {"timer"} \cup Leaves) BY <1>6, <1>8, AgreeStep
<1>10. /\ d.queue = e.queue /\ d.sock = e.sock /\ d.op = e.op /\ d.tries = e.tries
       /\ d.post_tries = e.post_tries /\ d.after = e.after /\ d.null = e.null
       /\ d.served = e.served /\ d.reply = e.reply /\ d.due = e.due /\ d.inbox = e.inbox
       /\ d.body = e.body /\ d.owed = e.owed
  BY <1>9, SMT DEF Agree, AllFields, Leaves
<1>11. d.timer = f.timer BY <1>8, SMT DEF Agree, AllFields, Leaves
<1>12. Typed(d)
  <2> DEFINE S == {"timer"} \cup Leaves
  <2>1. e.timer \in {"off", "armed", "late", "past"} /\ e.cause \in Causes
    BY <1>3, FieldTypes
  <2>2. d.timer \in {"off", "armed", "late", "past"} BY <1>6, <1>11, <2>1
  <2>3. d.cause \in Causes BY <1>7, <1>8, <2>1 DEF Causes
  <2>4. d.call \in Calls /\ d.outcome \in Outcomes BY <1>8 DEF Calls, Outcomes
  <2>5. d["timer"] \in Allowed["timer"] /\ d["cause"] \in Allowed["cause"]
        /\ d["call"] \in Allowed["call"] /\ d["outcome"] \in Allowed["outcome"]
    BY <2>2, <2>3, <2>4, AllowedFields
  <2>6. d["left"] \in Allowed["left"] /\ d["size"] \in Allowed["size"]
        /\ d["sent"] \in Allowed["sent"]
    BY <1>8, Bounds, AllowedFields
  <2>7. \A g \in S : d[g] \in Allowed[g] BY <2>5, <2>6, Zenon DEF Leaves
  <2>8. Agree(e, d, S) BY <1>9
  <2> HIDE DEF S
  <2> QED BY <1>3, <1>8, <2>7, <2>8, AgreeTyped
<1>13. Quiet(d) BY <1>2, <1>3, <1>6, <1>10, <1>11, Zenon DEF Quiet
<1>14. Clean(d) BY <1>3, <1>10 DEF Clean
<1>15. d.served <= 1 BY <1>2, <1>3, <1>10 DEF Request
<1>16. WorkOK(d) BY <1>3, <1>8, <1>10, <1>12, <1>13, <1>14, <1>15, Rested
<1>17. d.reply = c.reply /\ d.served = c.served /\ d.sock = "closed" BY <1>3, <1>10
<1> QED BY <1>1, <1>8, <1>16, <1>17 DEF c, d

LEMMA NewConnWorks == WorkOK(NewConn)
<1> DEFINE d == NewConn
<1>1. /\ DOMAIN d = DOMAIN NewConn /\ d.queue = <<>> /\ d.op = "none" /\ d.call = "none"
      /\ d.sock = "closed" /\ d.left = 0 /\ d.size = 0 /\ d.sent = 0 /\ d.outcome = "none"
      /\ d.tries = 0 /\ d.post_tries = 0 /\ d.after = "none" /\ d.null = FALSE
      /\ d.served = 0 /\ d.timer = "off" /\ d.got = NoHead /\ d.inbox = NoHead /\ d.count = 0
      /\ d.body = 0 /\ d.owed = 0 /\ d.due = FALSE /\ d.can_recall = FALSE
      /\ d.must_reconnect = TRUE /\ d.reply = "none" /\ d.cause = "none" /\ d.bye = FALSE
  BY DEF NewConn
<1>2. IsRec(d) BY DEF IsRec, NewConn
<1> HIDE DEF d
<1>3. Clean(d) /\ Quiet(d) BY <1>1 DEF Clean, Quiet
<1>4. Typed(d)
  <2>1. 0 \in 0 .. MaxBody /\ 0 \in 0 .. MaxData /\ 0 \in 0 .. max_send_try /\ NoHead \in Answers
    BY Bounds DEF Answers
  <2>2. <<>> \in Seq(Handlers) OBVIOUS
  <2>3. /\ d["sock"] \in Allowed["sock"] /\ d["timer"] \in Allowed["timer"]
        /\ d["call"] \in Allowed["call"] /\ d["op"] \in Allowed["op"]
        /\ d["after"] \in Allowed["after"] /\ d["outcome"] \in Allowed["outcome"]
        /\ d["reply"] \in Allowed["reply"] /\ d["cause"] \in Allowed["cause"]
    BY <1>1, AllowedFields DEF Calls, Ops, Outcomes, Socks, Replies, Causes
  <2>4. /\ d["queue"] \in Allowed["queue"] /\ d["tries"] \in Allowed["tries"]
        /\ d["post_tries"] \in Allowed["post_tries"] /\ d["size"] \in Allowed["size"]
        /\ d["sent"] \in Allowed["sent"] /\ d["left"] \in Allowed["left"]
        /\ d["body"] \in Allowed["body"] /\ d["owed"] \in Allowed["owed"]
        /\ d["served"] \in Allowed["served"] /\ d["got"] \in Allowed["got"]
        /\ d["inbox"] \in Allowed["inbox"] /\ d["count"] \in Allowed["count"]
    <3>1. d["queue"] \in Allowed["queue"] /\ d["served"] \in Allowed["served"]
      <4>1. d.queue \in Seq(Handlers) BY <1>1, <2>2, Zenon
      <4>2. d.served \in Nat BY <1>1
      <4> QED BY <4>1, <4>2, AllowedFields, Zenon
    <3> QED BY <1>1, <2>1, <3>1, AllowedFields
  <2>5. /\ d["must_reconnect"] \in Allowed["must_reconnect"] /\ d["null"] \in Allowed["null"]
        /\ d["can_recall"] \in Allowed["can_recall"] /\ d["due"] \in Allowed["due"]
        /\ d["bye"] \in Allowed["bye"]
    BY <1>1, AllowedFields, Zenon
  <2>6. \A f \in AllFields : d[f] \in Allowed[f] BY <2>3, <2>4, <2>5, Zenon DEF AllFields
  <2> QED BY <1>2, <2>6 DEF Typed
<1>5. WorkOK(d)
  <2>1. d.served <= 1 BY <1>1
  <2> QED BY <1>1, <1>2, <1>3, <1>4, <2>1, Rested
<1> QED BY <1>5 DEF d

(***************************************************************************)
(* The other socket and the barrier.                                       *)
(***************************************************************************)
LEMMA Idled ==
  ASSUME NEW c, Running(c), InTime(c), AtNone(c), c.after # "null"
  PROVE  WorkOK(c)
<1>1. QueueOK(c) BY DEF QueueOK, Running
<1>2. \A r \in Results : ~Holds(c, r) BY OneResult, Zenon DEF Running
<1>3. OpSound(c) BY <1>2, SMT DEF OpSound, Running
<1>4. Place(c.op, c, Holds(c, "ok"))
  <2>1. c.op = "none" BY DEF Running
  <2> QED BY <2>1, Zenon DEF Place
<1> QED BY <1>1, <1>3, <1>4 DEF WorkOK, Running

LEMMA ElsewhereRuns ==
  ASSUME NEW c, WorkOK(c), c.op = "none", c.call \notin {"none", "gone"}
  PROVE  Running(c) /\ InTime(c) /\ AtNone(c) /\ c.after # "null"
<1>1. Typed(c) /\ QueueOK(c) /\ Network(c) /\ Request(c) /\ OpSound(c)
      /\ Place(c.op, c, Holds(c, "ok")) /\ (Busy(c) => InTime(c))
      /\ (~Pending(c) => c.sock # "connecting")
  BY WorkIs
<1>2. Busy(c) /\ ~Pending(c) BY DEF Busy, Pending
<1>3. AtNone(c) BY <1>1, Zenon DEF Place
<1>4. Quiet(c) BY <1>1 DEF QueueOK
<1>5. c.after # "null" BY <1>1 DEF OpSound
<1> QED BY <1>1, <1>2, <1>3, <1>4, <1>5 DEF Running

\* From where the coroutine goes on.
Follows(c) ==
  /\ Running(c) /\ c.served = conn.served /\ c.reply = conn.reply
  /\ c.call = conn.call \/ WentOn(c)

\* Nothing of a splice is left, nothing of a barrier.
LEMMA NothingElse ==
  ASSUME WorkOK(conn'), pipe' = 0, got_done' = "none", is_suspended' \in BOOLEAN,
         other' \in {"none", "from", "resume", "dest"}, other' = "dest" => conn'.left > 0
  PROVE  WorkInv'
<1>1. conn'.left \in 0 .. MaxBody BY WorkIs, FieldTypes
<1>2. pipe' \in Nat /\ pipe' + conn'.left <= MaxBody /\ ~(pipe' > 0) BY <1>1, Bounds
<1>3. RelayOK' BY <1>2 DEF RelayOK
<1> QED BY <1>3 DEF WorkInv

LEMMA CallFree ==
  ASSUME WorkInv, StreamInv, conn.call \in {"none", "gone"} \/ conn.op # "none"
  PROVE  /\ other \in {"none"} /\ got_done = "none" /\ is_suspended \in BOOLEAN
         /\ conn.call # "splice" => pipe = 0
<1>1. other \notin Special /\ got_done = "none" BY OthersFree
<1>2. RelayOK BY DEF WorkInv
<1>3. conn.call # "splice" => pipe = 0 BY <1>2 DEF RelayOK
<1> QED BY <1>1, <1>2, <1>3 DEF RelayOK, Special

LEMMA CallsSplice ==
  ASSUME WorkInv, StreamInv, StreamSpliceData
  PROVE  WorkInv' /\ \E c : Follows(c) /\ Goes(c, conn')
<1> DEFINE call == "splice"
           d == [conn EXCEPT !.call = call, !.outcome = "none"]
<1>1. /\ conn.call = "none" /\ conn.left > 0 /\ UNCHANGED <<pipe, got_done, is_suspended>>
      /\ \/ conn' = d /\ other' = "dest"
         \/ conn' = Issue(SetTimer(d), "in") /\ other' = "none"
         \/ conn' = Refused(d) /\ other' = "none"
  BY DEF StreamSpliceData, StartIn
<1>2. call \in Reading /\ call = "splice" /\ call \notin Continuing BY DEF Reading, Continuing
<1>3. WorkOK(conn) BY DEF WorkInv
<1> HIDE DEF call
<1>4. /\ Running(d) /\ WentOn(d) /\ d.call = call /\ Blamed(d) /\ d.after = "none"
  BY <1>1, <1>2, <1>3, GoesOn, ZenonT(60)
<1>5. ~Building => BodyLeft(d, d.left) /\ d.left > 0
  BY <1>1, <1>2, <1>3, GoesOn
<1>6. d.timer = conn.timer
  <2>1. IsRec(conn) BY <1>3, WorkIs
  <2> QED BY <2>1, Fields, FieldsAll, Zenon DEF IsRec
<1> HIDE DEF d
<1>7. ~Building BY <1>2, <1>4 DEF WentOn, Building
<1>8. pipe' = 0 /\ got_done' = "none" /\ is_suspended' \in BOOLEAN
  BY <1>1, CallFree
<1>9. Follows(d) BY <1>4 DEF Follows, WentOn
<1>10. CASE conn' = d /\ other' = "dest"
  <2>1. InTime(d)
    <3>1. InTime(conn)
      <4>1. Busy(conn) => InTime(conn) BY <1>3, WorkIs
      <4> QED BY <1>1, <4>1 DEF Busy
    <3>2. conn.call = "none" => conn.cause = d.cause
      <4>1. IsRec(conn) BY <1>3, WorkIs
      <4> QED BY <4>1, Fields, FieldsAll, Zenon DEF IsRec, d
    <3> QED BY <1>1, <1>6, <3>1, <3>2 DEF InTime, IsTimeout
  <2>2. AtNone(d) BY <1>2, <1>4, <1>5, <1>7, Zenon DEF AtNone
  <2>3. WorkOK(d) BY <1>4, <2>1, <2>2, Idled
  <2>4. Goes(d, d) BY <1>4, <2>3, RunningIs DEF Goes, Moves
  <2>5. WorkInv' BY <1>5, <1>7, <1>8, <1>10, <2>3, NothingElse
  <2> QED BY <1>9, <1>10, <2>4, <2>5
<1>11. CASE conn' = Issue(SetTimer(d), "in") /\ other' = "none"
  <2> DEFINE op == "in"
  <2>1. op \in Ops \ {"none", "connect"} /\ op = "in" /\ conn' = Issue(SetTimer(d), op)
    BY <1>11 DEF Ops
  <2>2. AtIn(d, FALSE) BY <1>2, <1>4, <1>5, <1>7, Zenon DEF AtIn
  <2> HIDE DEF op
  <2>3. Place(op, d, FALSE) BY <2>1, <2>2, Zenon DEF Place
  <2>4. d.after # "null" BY <1>4
  <2>5. Goes(d, Issue(SetTimer(d), op)) BY <1>4, <2>1, <2>3, <2>4, IssueGoes
  <2>6. Goes(d, conn') BY <2>1, <2>5
  <2>7. WorkInv'
    <3>1. WorkOK(conn') BY <2>6 DEF Goes
    <3> QED BY <1>8, <1>11, <3>1, NothingElse
  <2> QED BY <1>9, <2>6, <2>7
<1>12. CASE conn' = Refused(d) /\ other' = "none"
  <2>1. Goes(d, conn') BY <1>2, <1>4, <1>5, <1>7, <1>12, RefusedGoes
  <2>2. WorkOK(conn') BY <2>1 DEF Goes
  <2>3. WorkInv' BY <1>8, <1>12, <2>2, NothingElse
  <2> QED BY <1>9, <2>1, <2>3
<1> QED BY <1>1, <1>10, <1>11, <1>12

LEMMA CallsWrite ==
  ASSUME WorkInv, StreamInv, WriteTee \/ WriteSplice \/ WriteRequestDataBarrier
  PROVE  WorkInv' /\ \E c : Follows(c) /\ Goes(c, conn')
<1>1. PICK call \in {"tee", "wsplice", "barrier"} :
        LET d == [conn EXCEPT !.call = call, !.outcome = "none"]
        IN  \/ call # "barrier" /\ conn' = Issue(SetTimer(d), "room") /\ other' = "none"
            \/ call # "barrier" /\ conn' = d /\ other' = "from"
            \/ call = "barrier" /\ conn' = Issue(SetTimer(d), "barrier") /\ UNCHANGED other
  BY DEF WriteTee, WriteSplice, WriteRequestDataBarrier, StartRoom, relay
<1> DEFINE d == [conn EXCEPT !.call = call, !.outcome = "none"]
<1>2. \/ call # "barrier" /\ conn' = Issue(SetTimer(d), "room") /\ other' = "none"
      \/ call # "barrier" /\ conn' = d /\ other' = "from"
      \/ call = "barrier" /\ conn' = Issue(SetTimer(d), "barrier") /\ UNCHANGED other
  BY <1>1
<1>3. Building /\ conn.sent < conn.size /\ UNCHANGED <<pipe, got_done, is_suspended>>
  BY DEF WriteTee, WriteSplice, WriteRequestDataBarrier, relay
<1>4. call \in Continuing /\ conn.call = "none" BY <1>3 DEF Continuing, Building
<1>5. WorkOK(conn) /\ IsRec(conn) /\ (Busy(conn) => InTime(conn)) BY WorkIs DEF WorkInv
<1>6. /\ Running(d) /\ WentOn(d) /\ d.call = call /\ Blamed(d) /\ d.after = "none"
  BY <1>3, <1>4, <1>5, GoesOn
<1>7. Building => Unread(d) /\ (d.sent < d.size => d.served = 0)
  BY <1>3, <1>4, <1>5, GoesOn
<1>8. d.timer = conn.timer /\ d.sent = conn.sent /\ d.size = conn.size /\ d.cause = conn.cause
  BY <1>5, Fields, FieldsAll, Zenon DEF IsRec
<1> HIDE DEF d
<1>9. Piece(d, FALSE) BY <1>3, <1>7, <1>8, Zenon DEF Piece
<1>10. pipe' = 0 /\ got_done' = "none" /\ is_suspended' \in BOOLEAN /\ other = "none"
  BY <1>3, <1>4, CallFree
<1>11. Follows(d) BY <1>6 DEF Follows, WentOn
<1>12. d.after # "null" BY <1>6
<1>13. ASSUME NEW op \in Ops \ {"none", "connect"}, conn' = Issue(SetTimer(d), op),
              Place(op, d, FALSE), other' = "none"
       PROVE  WorkInv' /\ Goes(d, conn')
  <2>1. Goes(d, conn') BY <1>6, <1>12, <1>13, IssueGoes
  <2>2. WorkOK(conn') BY <2>1 DEF Goes
  <2> QED BY <1>10, <1>13, <2>1, <2>2, NothingElse
<1>14. CASE call # "barrier" /\ conn' = Issue(SetTimer(d), "room") /\ other' = "none"
  <2> DEFINE op == "room"
  <2>1. op \in Ops \ {"none", "connect"} /\ op = "room" /\ conn' = Issue(SetTimer(d), op)
    BY <1>14 DEF Ops
  <2>2. AtRoom(d) BY <1>6, <1>9, <1>14, Zenon DEF AtRoom
  <2> HIDE DEF op
  <2>3. Place(op, d, FALSE) BY <2>1, <2>2, Zenon DEF Place
  <2> QED BY <1>11, <1>13, <1>14, <2>1, <2>3
<1>15. CASE call = "barrier" /\ conn' = Issue(SetTimer(d), "barrier") /\ UNCHANGED other
  <2> DEFINE op == "barrier"
  <2>1. op \in Ops \ {"none", "connect"} /\ op = "barrier" /\ conn' = Issue(SetTimer(d), op)
    BY <1>15 DEF Ops
  <2>2. AtBarrier(d, FALSE) BY <1>6, <1>9, <1>15, Zenon DEF AtBarrier
  <2> HIDE DEF op
  <2>3. Place(op, d, FALSE) BY <2>1, <2>2, Zenon DEF Place
  <2> QED BY <1>10, <1>11, <1>13, <1>15, <2>1, <2>3
<1>16. CASE call # "barrier" /\ conn' = d /\ other' = "from"
  <2>1. InTime(d)
    <3>1. Busy(conn) BY <1>3 DEF Busy, Building
    <3> QED BY <1>5, <1>8, <3>1 DEF InTime, IsTimeout
  <2>2. AtNone(d) BY <1>6, <1>9, <1>16, Zenon DEF AtNone
  <2>3. WorkOK(d) BY <1>6, <1>12, <2>1, <2>2, Idled
  <2>4. Goes(d, d) BY <1>6, <2>3, RunningIs DEF Goes, Moves
  <2>5. WorkInv' BY <1>10, <1>16, <2>3, NothingElse
  <2> QED BY <1>11, <1>16, <2>4, <2>5
<1> QED BY <1>2, <1>14, <1>15, <1>16

(***************************************************************************)
(* StreamSpliceData().                                                     *)
(***************************************************************************)
\* It goes on with the pipe holding n chunks.
Splicing(c, n) ==
  /\ Running(c) /\ InTime(c) /\ c.call = "splice" /\ Blamed(c) /\ BodyLeft(c, c.left)
  /\ n \in Nat /\ n + c.left <= MaxBody /\ c.after # "null"

LEMMA SpliceOnGoes ==
  ASSUME NEW c, NEW n, Splicing(c, n), SpliceOn(c, n), n > 0 \/ c.left > 0, pipe' = n,
         got_done' = "none", is_suspended' \in BOOLEAN
  PROVE  WorkInv' /\ Goes(c, conn') /\ conn'.outcome # "answered"
<1> USE DEF Splicing
<1>1. c.left \in 0 .. MaxBody /\ c.call # "none" BY RunningIs, FieldTypes
<1>2. c.outcome = "none" BY RunningIs
<1>3. ASSUME WorkOK(conn'), conn'.call = "splice", conn'.left = c.left,
             other' = "none" \/ (other' = "out" /\ n > 0)
      PROVE  WorkInv' /\ conn'.outcome # "answered"
  <2>1. Request(conn)' BY <1>3, WorkIs
  <2>2. conn'.outcome # "answered" BY <1>3, <2>1 DEF Request
  <2>3. RelayOK' BY <1>3 DEF RelayOK
  <2> QED BY <1>3, <2>2, <2>3 DEF WorkInv
<1>4. CASE c.left > 0 /\ n < PipeHint
  <2> DEFINE op == "in"
             t == SetTimer(c)
  <2>1. conn' = Issue(t, op) /\ other' = "none" BY <1>4 DEF SpliceOn, StartIn
  <2>2. op \in Ops \ {"none", "connect"} /\ op = "in" BY DEF Ops
  <2>3. AtIn(c, FALSE) BY <1>4, Zenon DEF AtIn
  <2> HIDE DEF op
  <2>4. Place(op, c, FALSE) BY <2>2, <2>3, Zenon DEF Place
  <2>5. Goes(c, Issue(SetTimer(c), op)) BY <2>2, <2>4, IssueGoes
  <2>6. IsRec(t) /\ Agree(c, t, {"timer"}) BY RunningIs, SetTimerIs
  <2> HIDE DEF t
  <2>7. Agree(t, conn', {"op", "queue"}) BY <2>1, <2>6, IssueIs
  <2>8. conn'.call = c.call /\ conn'.left = c.left
    <3>1. t.call = c.call /\ t.left = c.left BY <2>6, SMT DEF Agree, AllFields
    <3>2. conn'.call = t.call /\ conn'.left = t.left BY <2>7, SMT DEF Agree, AllFields
    <3> QED BY <3>1, <3>2
  <2>9. Goes(c, conn') BY <2>1, <2>5 DEF t
  <2> QED BY <1>3, <2>1, <2>8, <2>9 DEF Goes
<1>5. CASE ~(c.left > 0 /\ n < PipeHint)
  <2>1. conn' = c /\ other' = "out" BY <1>5 DEF SpliceOn
  <2>2. n > 0 BY <1>1, <1>5, PipeHintPositive
  <2>3. AtNone(c) BY <1>1, Zenon DEF AtNone
  <2>4. WorkOK(c) BY <2>3, Idled
  <2>5. Goes(c, c) BY <1>2, <2>4 DEF Goes, Moves
  <2> QED BY <1>3, <2>1, <2>2, <2>4, <2>5
<1> QED BY <1>4, <1>5

\* What it throws is an error.
LEMMA CheckTimeoutEnds ==
  ASSUME NEW c, IsRec(c), NEW ec
  PROVE  /\ checkTimeout(c, ec).outcome \in Errors
         /\ ClearTimer(checkTimeout(c, ec)).outcome \in Errors
         /\ \A error \in Errors : Throw(c, error).outcome \in Errors
<1>1. ASSUME NEW b, IsRec(b), NEW error \in Errors
      PROVE  Throw(b, error).outcome \in Errors /\ IsRec(Throw(b, error))
  <2> DEFINE d == IF b.call \in {"headers", "data"} THEN Close(b) ELSE b
             e == End(d, error)
             t == Throw(b, error)
  <2>1. IsRec(d) BY <1>1, CloseIs
  <2>2. t = [e EXCEPT !.left = 0, !.size = 0, !.sent = 0] BY DEF Throw
  <2> HIDE DEF d
  <2>5. e = End(d, error) OBVIOUS
  <2> HIDE DEF e, t
  <2>3. IsRec(e) /\ e.outcome = error BY <2>1, <2>5, Fields, FieldsAll, Zenon DEF End, IsRec
  <2>4. IsRec(t) /\ t.outcome = error
    BY <2>2, <2>3, Fields, FieldsAll, Zenon DEF IsRec
  <2> QED BY <2>4 DEF t
<1>2. "TIMEOUT" \in Errors /\ "EXCEPTION" \in Errors BY DEF Errors
<1>3. IsRec(Close(c)) BY CloseIs
<1>4. checkTimeout(c, ec).outcome \in Errors /\ IsRec(checkTimeout(c, ec))
  BY <1>1, <1>2, <1>3, Zenon DEF checkTimeout
<1>5. ClearTimer(checkTimeout(c, ec)).outcome = checkTimeout(c, ec).outcome
  <2> DEFINE b == checkTimeout(c, ec)
             d == ClearTimer(b)
  <2>1. IsRec(b) BY <1>4
  <2>2. d = [b EXCEPT !.timer = "off"] BY DEF ClearTimer
  <2> HIDE DEF b, d
  <2>3. d.outcome = b.outcome BY <2>1, <2>2, Fields, FieldsAll, Zenon DEF IsRec
  <2> QED BY <2>3 DEF b, d
<1> QED BY <1>1, <1>4, <1>5

LEMMA RefusedEnds ==
  ASSUME NEW c, IsRec(c) PROVE Refused(c).outcome = "EXCEPTION"
<1> DEFINE w == End(c, "EXCEPTION")
           d == Refused(c)
<1>1. d = [w EXCEPT !.cause = "other"] BY DEF Refused
<1>2. IsRec(w) /\ w.outcome = "EXCEPTION" BY EndIs
<1> HIDE DEF w, d
<1>3. Agree(w, d, {"cause"}) BY <1>1, <1>2, CauseIs
<1>4. d.outcome = "EXCEPTION" BY <1>2, <1>3, SMT DEF Agree, AllFields
<1> QED BY <1>4 DEF d

\* An operation that HttpStreams goes on after has ended.
LEMMA GoesOnAfter ==
  ASSUME WorkInv, StreamInv, NEW op, Completes(op), op # "none"
  PROVE  /\ Follows(Resumed) /\ InTime(Resumed) /\ Broke(Resumed, Head(conn.queue))
         /\ Place(op, Resumed, Head(conn.queue) = "ok") /\ Head(conn.queue) \in Results
         /\ IsRec(Resumed) /\ Resumed.call = conn.call /\ Resumed.left = conn.left
         /\ Resumed.body = conn.body /\ Resumed.sent = conn.sent /\ Resumed.size = conn.size
         /\ op \notin {"head", "body", "data"} => Resumed.after # "null"
         /\ other = "none" /\ got_done = "none" /\ is_suspended \in BOOLEAN
         /\ conn.call # "splice" => pipe = 0
         /\ pipe \in Nat /\ pipe + conn.left <= MaxBody
<1> DEFINE c == conn
           d == Resumed
           ec == Head(conn.queue)
<1>1. c.queue # <<>> /\ ec \in Results /\ ec = Head(c.queue) /\ c.op = op BY DEF Completes
<1>2. WorkOK(c) /\ IsRec(c) BY WorkIs DEF WorkInv
<1>3. other = "none" /\ got_done = "none" /\ is_suspended \in BOOLEAN
      /\ (conn.call # "splice" => pipe = 0) /\ pipe \in Nat /\ pipe + conn.left <= MaxBody
  BY <1>1, CallFree DEF WorkInv, RelayOK
<1>4. d = [c EXCEPT !.op = "none", !.queue = Tail(c.queue)] BY DEF Resumed
<1> HIDE DEF c, d, ec
<1>5. IsRec(d) /\ d.op = "none" /\ d.queue = Tail(c.queue) /\ Agree(c, d, {"op", "queue"})
  BY <1>2, <1>4, Fields, FieldsAll, Zenon DEF IsRec, Agree
<1>6. /\ Running(d) /\ InTime(d) /\ Broke(d, ec) /\ Place(c.op, d, ec = "ok")
      /\ Agree(c, d, Aside) /\ (d.after = "null" => c.op \in {"head", "body", "data"})
  BY <1>1, <1>2, <1>5, Delivered
<1>7. /\ d.call = c.call /\ d.left = c.left /\ d.body = c.body /\ d.sent = c.sent
      /\ d.size = c.size /\ d.served = c.served /\ d.reply = c.reply
  BY <1>6, SameCore DEF SamePoint
<1>8. Follows(d) BY <1>6, <1>7 DEF Follows, c
<1>9. Place(op, d, ec = "ok") BY <1>1, <1>6
<1>10. op \notin {"head", "body", "data"} => d.after # "null" BY <1>1, <1>6
<1> QED BY <1>1, <1>3, <1>5, <1>6, <1>7, <1>8, <1>9, <1>10 DEF c, d, ec

LEMMA SpliceInWorks ==
  ASSUME WorkInv, StreamInv, SpliceIn
  PROVE  /\ WorkInv' /\ conn'.outcome # "answered"
         /\ \E c : Follows(c) /\ Goes(c, conn')
<1> DEFINE r == Resumed
           ec == Head(conn.queue)
           c == ClearTimer(r)
<1>1. Completes("in") BY DEF SpliceIn
<1>2. /\ Follows(r) /\ InTime(r) /\ Broke(r, ec)
      /\ Place("in", r, ec = "ok") /\ ec \in Results
      /\ IsRec(r) /\ r.call = conn.call /\ r.left = conn.left /\ r.body = conn.body
      /\ r.after # "null" /\ other = "none" /\ got_done = "none" /\ is_suspended \in BOOLEAN
      /\ pipe \in Nat /\ pipe + conn.left <= MaxBody
  <2> DEFINE op == "in"
  <2>1. Completes(op) /\ op # "none" /\ op \notin {"head", "body", "data"} BY <1>1
  <2> HIDE DEF op
  <2>2. Place(op, r, ec = "ok") BY <2>1, GoesOnAfter
  <2> QED BY <2>1, <2>2, GoesOnAfter DEF op
<1>3. AtIn(r, ec = "ok") BY <1>2, Zenon DEF Place
<1>4. UNCHANGED <<got_done, is_suspended>> BY DEF SpliceIn
<1>5. \/ /\ ec # "ok" /\ conn' = ClearTimer(checkTimeout(r, ec))
         /\ pipe' = 0 /\ UNCHANGED other
      \/ /\ ec = "ok" /\ (c.body > 0 \/ c.sock = "foul") /\ pipe' = pipe + 1
         /\ SpliceOn([c EXCEPT !.left = @ - 1, !.body = IF @ > 0 THEN @ - 1 ELSE 0], pipe')
      \/ /\ ec = "ok" /\ pipe > 0 /\ conn' = c /\ other' = "out" /\ UNCHANGED pipe
      \/ /\ ec = "ok" /\ c.body = 0 /\ conn' = Throw(c, "EXCEPTION")
         /\ pipe' = 0 /\ UNCHANGED other
      \/ ec = "ok" /\ conn' = Refused(c) /\ pipe' = 0 /\ UNCHANGED other
  BY DEF SpliceIn
<1> HIDE DEF r, ec
<1>6. Running(r) BY <1>2 DEF Follows
<1>7. /\ Running(c) /\ IsRec(c) /\ Same(r, c) /\ InTime(c) /\ c.after = r.after /\ c.left = r.left
      /\ c.null = r.null /\ c.sent = r.sent /\ c.size = r.size
  BY <1>6, UntimedIs
<1> HIDE DEF c
<1>8. Follows(c)
  <2>1. c.call = r.call /\ c.served = r.served /\ c.reply = r.reply BY <1>7 DEF Same
  <2> QED BY <1>2, <1>7, <2>1 DEF Follows, WentOn
<1>9. r.call = "splice" /\ Blamed(r) /\ BodyLeft(r, r.left) /\ r.left > 0
      /\ (ec = "ok" => r.body > 0 \/ r.sock # "alive")
  BY <1>3, Zenon DEF AtIn
<1>10. /\ c.call = "splice" /\ Blamed(c) /\ BodyLeft(c, c.left) /\ c.left > 0
       /\ c.body = r.body /\ c.sock = r.sock
  BY <1>7, <1>9, SameWire DEF Same
<1>11. CASE ec # "ok" /\ conn' = ClearTimer(checkTimeout(r, ec)) /\ pipe' = 0 /\ UNCHANGED other
  <2>1. Goes(r, conn') BY <1>2, <1>6, <1>9, <1>11, BlamedFails
  <2>2. WorkInv'
    <3>1. WorkOK(conn') BY <2>1 DEF Goes
    <3> QED BY <1>2, <1>4, <1>11, <3>1, NothingElse
  <2>3. conn'.outcome # "answered"
    <3>1. conn'.outcome \in Errors BY <1>2, <1>11, CheckTimeoutEnds
    <3> QED BY <3>1 DEF Errors
  <2> QED BY <1>2, <2>1, <2>2, <2>3
<1>12. CASE /\ ec = "ok" /\ (c.body > 0 \/ c.sock = "foul") /\ pipe' = pipe + 1
            /\ SpliceOn([c EXCEPT !.left = @ - 1, !.body = IF @ > 0 THEN @ - 1 ELSE 0], pipe')
  <2> DEFINE body == IF c.body > 0 THEN c.body - 1 ELSE 0
             d == [c EXCEPT !.left = c.left - 1, !.body = body]
             S == {"left", "body"}
             n == pipe'
  <2>1. SpliceOn(d, n) BY <1>12
  <2> HIDE DEF body
  <2>2. /\ IsRec(d) /\ d.left = c.left - 1 /\ d.body = body /\ Agree(c, d, S)
    BY <1>7, Fields, FieldsAll, Zenon DEF IsRec, Agree
  <2> HIDE DEF d
  <2>3. /\ d.sock = c.sock /\ d.due = c.due /\ d.inbox = c.inbox /\ d.owed = c.owed
        /\ d.call = c.call /\ d.reply = c.reply /\ d.served = c.served /\ d.cause = c.cause
        /\ d.timer = c.timer /\ d.queue = c.queue /\ d.op = c.op /\ d.outcome = c.outcome
        /\ d.after = c.after /\ d.sent = c.sent /\ d.size = c.size /\ d.null = c.null
    BY <2>2, SMT DEF Agree, AllFields
  <2> HIDE DEF S
  <2>4. c.left \in 0 .. MaxBody /\ c.body \in 0 .. MaxBody /\ c.owed \in 0 .. MaxBody
    BY <1>7, RunningIs, FieldTypes
  <2>5. d.left \in 0 .. MaxBody /\ d.body \in 0 .. MaxBody
    BY <1>10, <1>12, <2>2, <2>4, Bounds DEF body
  <2>17. /\ c.body > 0 => body = c.body - 1
         /\ c.sock = "foul" => c.body = 0 /\ body = 0 /\ c.owed = 0
    <3>1. Network(c) BY <1>7 DEF Running
    <3> QED BY <3>1, <2>4, Bounds DEF Network, Clean, body
  <2>6. Typed(d)
    <3>1. d["left"] \in Allowed["left"] /\ d["body"] \in Allowed["body"]
      BY <2>5, AllowedFields
    <3>2. \A f \in S : d[f] \in Allowed[f] BY <3>1, Zenon DEF S
    <3> QED BY <1>7, <2>2, <3>2, RunningIs, AgreeTyped
  <2>7. BodyLeft(d, d.left)
    BY <1>10, <1>12, <2>2, <2>3, <2>4, <2>17, Bounds, SMT DEF BodyLeft, Fits
  <2>8. Network(d)
    <3>1. Network(c) BY <1>7 DEF Running
    <3>2. ~c.due /\ c.sock \notin {"closed", "connecting"}
      BY <1>10, <1>12, <3>1, <2>4 DEF Network, Clean, BodyLeft
    <3>3. d.sock = "foul" => Clean(d)
      BY <1>12, <2>2, <2>3, <2>17, <3>1 DEF Network, Clean
    <3> QED BY <1>12, <2>2, <2>3, <2>4, <2>17, <3>1, <3>2, <3>3, Bounds, SMT DEF Network
  <2>9. Request(d)
    <3>1. Request(c) BY <1>7 DEF Running
    <3> QED BY <2>3, <3>1, SMT DEF Request
  <2>10. Running(d)
    <3>1. d.sock # "connecting" /\ d.timer \in {c.timer, "off"} BY <1>7, <2>3 DEF Running
    <3> QED BY <1>7, <2>3, <2>6, <2>8, <2>9, <3>1, StillRunning
  <2>11. InTime(d) /\ Blamed(d) BY <1>7, <1>10, <2>3 DEF InTime, IsTimeout, Blamed, Down
  <2>12. n \in Nat /\ n + d.left <= MaxBody /\ n > 0
    BY <1>2, <1>7, <1>12, <2>2, <2>4, Bounds
  <2>13. Splicing(d, n) BY <1>2, <1>7, <1>10, <2>3, <2>7, <2>10, <2>11, <2>12 DEF Splicing
  <2>14. pipe' = n /\ got_done' = "none" /\ is_suspended' \in BOOLEAN BY <1>2, <1>4
  <2> HIDE DEF n
  <2>15. WorkInv' /\ Goes(d, conn') /\ conn'.outcome # "answered"
    BY <2>1, <2>12, <2>13, <2>14, SpliceOnGoes
  <2>16. Follows(d) BY <1>8, <2>3, <2>10 DEF Follows, WentOn
  <2> QED BY <2>15, <2>16
<1>13. CASE ec = "ok" /\ pipe > 0 /\ conn' = c /\ other' = "out" /\ UNCHANGED pipe
  <2>1. AtNone(c) BY <1>10, Zenon DEF AtNone
  <2>2. c.after # "null" BY <1>2, <1>7
  <2>3. WorkOK(c) BY <1>7, <2>1, <2>2, Idled
  <2>4. Goes(c, c) BY <1>7, <2>3, RunningIs DEF Goes, Moves
  <2>5. conn'.outcome # "answered" BY <1>7, <1>13, RunningIs
  <2>6. pipe' \in Nat /\ pipe' + conn'.left <= MaxBody BY <1>2, <1>7, <1>13
  <2>7. RelayOK' BY <1>2, <1>4, <1>10, <1>13, <2>6 DEF RelayOK
  <2>8. WorkInv' BY <1>13, <2>3, <2>7 DEF WorkInv
  <2> QED BY <1>8, <1>13, <2>4, <2>5, <2>8
<1>14. CASE /\ ec = "ok" /\ c.body = 0 /\ conn' = Throw(c, "EXCEPTION")
            /\ pipe' = 0 /\ UNCHANGED other
  <2> DEFINE error == "EXCEPTION"
  <2>1. error \in Errors /\ conn' = Throw(c, error) BY <1>14 DEF Errors
  <2> HIDE DEF error
  <2>2. c.sock # "alive" BY <1>9, <1>10, <1>14
  <2>3. Typed(c) /\ Network(c) /\ c.sock # "connecting" BY <1>7 DEF Running
  <2>4. c.sock \in {"closed", "fin", "reset", "refused", "foul"}
    BY <2>2, <2>3, FieldTypes DEF Socks
  <2>5. c.cause # "none" BY <1>10, <2>4 DEF Blamed, Down
  <2>6. CleanIfUp(c)
    <3>1. c.owed \in 0 .. MaxBody BY <2>3, FieldTypes
    <3>2. c.owed = 0 BY <2>2, <2>3, <3>1, Bounds DEF Network
    <3> QED BY <1>10, <1>14, <3>2 DEF CleanIfUp, Clean, BodyLeft
  <2>7. Goes(c, conn') BY <1>7, <2>1, <2>5, <2>6, ThrowGoes
  <2>8. WorkInv'
    <3>1. WorkOK(conn') BY <2>7 DEF Goes
    <3> QED BY <1>2, <1>4, <1>14, <3>1, NothingElse
  <2>9. conn'.outcome # "answered"
    <3>1. conn'.outcome \in Errors BY <1>7, <2>1, CheckTimeoutEnds
    <3> QED BY <3>1 DEF Errors
  <2> QED BY <1>8, <2>7, <2>8, <2>9
<1>15. CASE ec = "ok" /\ conn' = Refused(c) /\ pipe' = 0 /\ UNCHANGED other
  <2>1. Goes(c, conn') BY <1>7, <1>10, <1>15, RefusedGoes
  <2>2. WorkInv'
    <3>1. WorkOK(conn') BY <2>1 DEF Goes
    <3> QED BY <1>2, <1>4, <1>15, <3>1, NothingElse
  <2>3. conn'.outcome # "answered" BY <1>7, <1>15, RefusedEnds
  <2> QED BY <1>8, <2>1, <2>2, <2>3
<1> QED BY <1>5, <1>11, <1>12, <1>13, <1>14, <1>15

\* The coroutine waits for another socket, or for its barrier.
LEMMA WaitsElsewhere ==
  ASSUME WorkInv, StreamInv, other \in {"dest", "out", "from"} \/ got_done # "none" \/ other = "resume"
  PROVE  /\ Running(conn) /\ InTime(conn) /\ AtNone(conn) /\ conn.after # "null" /\ Follows(conn)
         /\ IsRec(conn) /\ conn.outcome = "none" /\ RelayOK
         /\ other \in {"dest", "out"} => conn.call = "splice" /\ got_done = "none"
         /\ other = "from" => conn.call \in {"tee", "wsplice"} /\ got_done = "none" /\ pipe = 0
         /\ got_done # "none" \/ other = "resume" =>
              /\ conn.call = "barrier" /\ got_done \in Results /\ pipe = 0
<1>1. WorkOK(conn) /\ RelayOK BY DEF WorkInv
<1>2. OtherOK(conn, other, got_done) BY DEF StreamInv
<1>3. /\ conn.op = "none" /\ conn.call \notin {"none", "gone"}
      /\ other \in {"dest", "out"} => conn.call = "splice" /\ got_done = "none"
      /\ other = "from" => conn.call \in {"tee", "wsplice"} /\ got_done = "none"
      /\ got_done # "none" \/ other = "resume" =>
              /\ conn.call = "barrier" /\ got_done \in Results
  BY <1>2 DEF OtherOK
<1>4. conn.call # "splice" => pipe = 0 BY <1>1 DEF RelayOK
<1>5. Running(conn) /\ InTime(conn) /\ AtNone(conn) /\ conn.after # "null"
  BY <1>1, <1>3, ElsewhereRuns
<1>6. IsRec(conn) /\ conn.outcome = "none" BY <1>5, RunningIs
<1>7. Follows(conn) BY <1>5 DEF Follows
<1> QED BY <1>1, <1>3, <1>4, <1>5, <1>6, <1>7

(***************************************************************************)
(* dest.                                                                   *)
(***************************************************************************)
LEMMA DestSplices ==
  ASSUME WorkInv, StreamInv, NEW n, n = pipe',
         \/ other = "dest" /\ StartIn(conn) /\ other' = "none" /\ n = pipe
         \/ /\ other = "out" /\ SpliceOn(conn, n) /\ n \in Nat /\ n <= pipe
            /\ n > 0 \/ conn.left > 0,
         UNCHANGED <<got_done, is_suspended>>
  PROVE  WorkInv' /\ Goes(conn, conn') /\ conn'.outcome # "answered"
<1>1. /\ Running(conn) /\ InTime(conn) /\ AtNone(conn) /\ conn.after # "null"
      /\ RelayOK /\ conn.call = "splice" /\ got_done = "none" /\ IsRec(conn)
  BY WaitsElsewhere
<1>2. BodyLeft(conn, conn.left) /\ Blamed(conn) BY <1>1 DEF AtNone
<1>3. conn.left \in 0 .. MaxBody BY <1>1, RunningIs, FieldTypes
<1>4. pipe \in Nat /\ pipe + conn.left <= MaxBody /\ is_suspended' \in BOOLEAN /\ got_done' = "none"
  BY <1>1 DEF RelayOK
<1>5. CASE other = "out" /\ SpliceOn(conn, n) /\ n \in Nat /\ n <= pipe /\ (n > 0 \/ conn.left > 0)
  <2>1. n + conn.left <= MaxBody BY <1>3, <1>4, <1>5, Bounds
  <2>2. Splicing(conn, n) BY <1>1, <1>2, <1>5, <2>1 DEF Splicing
  <2> QED BY <1>4, <1>5, <2>2, SpliceOnGoes
<1>6. CASE other = "dest" /\ StartIn(conn) /\ other' = "none" /\ n = pipe
  <2>1. conn.left > 0 BY <1>1, <1>6 DEF RelayOK
  <2> DEFINE c == conn
             op == "in"
             t == SetTimer(c)
             d == conn'
  <2>2. d = Issue(t, op) BY <1>6 DEF StartIn
  <2>3. op \in Ops \ {"none", "connect"} /\ op = "in" BY DEF Ops
  <2>4. AtIn(c, FALSE) BY <1>1, <1>2, <2>1, Zenon DEF AtIn
  <2> HIDE DEF op
  <2>5. Place(op, c, FALSE) BY <2>3, <2>4, Zenon DEF Place
  <2>6. Goes(c, Issue(SetTimer(c), op)) BY <1>1, <2>3, <2>5, IssueGoes
  <2>7. IsRec(t) /\ Agree(c, t, {"timer"}) BY <1>1, SetTimerIs
  <2> HIDE DEF t, d
  <2>8. Agree(t, d, {"op", "queue"}) BY <2>2, <2>7, IssueIs
  <2>9. d.call = c.call /\ d.left = c.left
    <3>1. t.call = c.call /\ t.left = c.left BY <2>7, SMT DEF Agree, AllFields
    <3>2. d.call = t.call /\ d.left = t.left BY <2>8, SMT DEF Agree, AllFields
    <3> QED BY <3>1, <3>2
  <2>10. Goes(c, d) BY <2>2, <2>6 DEF t
  <2>11. WorkOK(d) BY <2>10 DEF Goes
  <2>12. d.outcome # "answered"
    <3>1. Request(d) BY <2>11, WorkIs
    <3> QED BY <1>1, <2>9, <3>1 DEF Request
  <2>13. WorkInv'
    <3>1. conn'.left = conn.left /\ conn'.call = "splice" BY <1>1, <2>9 DEF d
    <3>2. RelayOK' BY <1>4, <1>6, <3>1 DEF RelayOK
    <3>3. WorkOK(conn') BY <2>11 DEF d
    <3> QED BY <3>2, <3>3 DEF WorkInv
  <2> QED BY <2>10, <2>12, <2>13 DEF d
<1> QED BY <1>5, <1>6

LEMMA DestWorks ==
  ASSUME WorkInv, StreamInv, DestTakesBuffer \/ DestFull \/ DestTakes \/ DestFails
  PROVE  /\ WorkInv' /\ Follows(conn) /\ Goes(conn, conn')
         /\ conn'.outcome = "answered" => conn'.left = 0 /\ pipe' = 0
<1>1. other \in {"dest", "out"} /\ UNCHANGED <<got_done, is_suspended>>
  BY DEF DestTakesBuffer, DestFull, DestTakes, DestFails
<1>2. /\ Running(conn) /\ InTime(conn) /\ AtNone(conn) /\ conn.after # "null" /\ Follows(conn)
      /\ RelayOK /\ conn.call = "splice" /\ got_done = "none" /\ IsRec(conn)
      /\ conn.outcome = "none"
  BY <1>1, WaitsElsewhere
<1>3. BodyLeft(conn, conn.left) /\ Blamed(conn) BY <1>2 DEF AtNone
<1>4. conn.left \in 0 .. MaxBody BY <1>2, RunningIs, FieldTypes
<1>5. pipe \in Nat /\ (other = "out" => pipe > 0) /\ is_suspended' \in BOOLEAN
      /\ got_done' = "none" /\ pipe + conn.left <= MaxBody
  BY <1>1, <1>2 DEF RelayOK
<1>6. CASE DestTakesBuffer
  <2>1. /\ other = "dest" /\ other' = "none" /\ pipe' = pipe
        /\ StartIn(conn) \/ conn' = Refused(conn)
    BY <1>6 DEF DestTakesBuffer
  <2>2. CASE StartIn(conn) BY <1>1, <1>2, <2>1, <2>2, DestSplices
  <2>3. CASE conn' = Refused(conn)
    <3>1. conn.left > 0 /\ pipe = 0 BY <1>2, <2>1 DEF RelayOK
    <3>2. Goes(conn, conn') BY <1>2, <1>3, <2>3, <3>1, RefusedGoes
    <3>3. WorkOK(conn') BY <3>2 DEF Goes
    <3>4. WorkInv' BY <1>5, <2>1, <3>1, <3>3, NothingElse
    <3>5. conn'.outcome # "answered" BY <1>2, <2>3, RefusedEnds
    <3> QED BY <1>2, <3>2, <3>4, <3>5
  <2> QED BY <2>1, <2>2, <2>3
<1>7. CASE DestFull
  <2>1. other = "out" /\ pipe < conn.left /\ SpliceOn(conn, pipe') /\ pipe' = pipe
    BY <1>7 DEF DestFull
  <2>2. conn.left > 0 BY <1>4, <1>5, <2>1, Bounds
  <2> QED BY <1>1, <1>2, <1>5, <2>1, <2>2, DestSplices
<1>8. CASE DestTakes
  <2>1. other = "out" /\ pipe' = pipe - 1 BY <1>8 DEF DestTakes
  <2>2. pipe' \in Nat /\ pipe' <= pipe BY <1>5, <2>1
  <2>3. CASE pipe' > 0 /\ UNCHANGED <<conn, other>>
    <3>1. Goes(conn, conn) BY <1>2 DEF WorkInv, Goes, Moves
    <3>2. Goes(conn, conn') /\ conn'.outcome # "answered" BY <1>2, <2>3, <3>1
    <3>3. pipe' + conn'.left <= MaxBody /\ conn'.call = "splice" /\ other' = "out"
      BY <1>2, <1>4, <1>5, <2>1, <2>3, Bounds
    <3>4. RelayOK' BY <1>5, <2>2, <2>3, <3>3 DEF RelayOK
    <3>5. WorkInv' BY <2>3, <3>4 DEF WorkInv
    <3> QED BY <1>2, <3>2, <3>5
  <2>4. CASE pipe' = 0 /\ conn.left > 0 /\ SpliceOn(conn, 0)
    <3>1. SpliceOn(conn, pipe') BY <2>4
    <3> QED BY <1>1, <1>2, <2>1, <2>2, <2>4, <3>1, DestSplices
  <2>5. CASE pipe' = 0 /\ conn.left = 0 /\ conn' = End(conn, "answered") /\ other' = "none"
    <3> DEFINE outcome == "answered"
               c == conn
               d == conn'
    <3>1. /\ outcome \in Outcomes \ {"none"} /\ outcome = "answered" /\ d = End(c, outcome)
      BY <2>5 DEF Outcomes
    <3>2. outcome \notin Errors BY DEF Errors
    <3> HIDE DEF outcome
    <3>3. c.sent = 0 /\ c.size = 0
      <4>1. Request(c) BY <1>2 DEF Running
      <4> QED BY <1>2, <4>1 DEF Request
    <3>4. CleanIfUp(c)
      <4>1. BodyLeft(c, 0) BY <1>3, <2>5
      <4>2. Clean(c) BY <1>2, <4>1, EmptyBody
      <4> QED BY <4>2 DEF CleanIfUp
    <3>5. EndsWell(c, outcome) BY <2>5, <3>1, <3>3, <3>4 DEF EndsWell
    <3>6. MayEnd(c, outcome) BY <1>3, <3>1, <3>2 DEF MayEnd, BodyLeft
    <3>7. Goes(c, d) BY <1>2, <3>1, <3>5, <3>6, EndGoes
    <3>8. d.left = 0
      <4> HIDE DEF d, c
      <4>1. Agree(c, d, EndFields)
        <5>1. IsRec(c) BY <1>2 DEF c
        <5> QED BY <3>1, <5>1, EndIs
      <4>2. d.left = c.left BY <4>1, SMT DEF Agree, AllFields, EndFields
      <4> QED BY <2>5, <4>2 DEF c
    <3>9. WorkInv'
      <4>1. WorkOK(conn') BY <3>7 DEF Goes
      <4> QED BY <1>5, <2>5, <4>1, NothingElse
    <3> QED BY <1>2, <2>5, <3>7, <3>8, <3>9
  <2> QED BY <1>8, <2>3, <2>4, <2>5 DEF DestTakes
<1>9. CASE DestFails
  <2> DEFINE outcome == "unforwarded"
             c == conn
             d == conn'
  <2>1. /\ outcome \in Outcomes \ {"none"} /\ outcome = "unforwarded" /\ d = End(c, outcome)
    BY <1>9 DEF Outcomes, DestFails
  <2>2. outcome \notin Errors BY DEF Errors
  <2> HIDE DEF outcome
  <2>3. c.sent = 0 /\ c.size = 0
    <3>1. Request(c) BY <1>2 DEF Running
    <3> QED BY <1>2, <3>1 DEF Request
  <2>4. c.left = 0 => CleanIfUp(c)
    <3>1. c.left = 0 => BodyLeft(c, 0) BY <1>3
    <3>2. c.left = 0 => Clean(c) BY <1>2, <3>1, EmptyBody
    <3> QED BY <3>2 DEF CleanIfUp
  <2>5. EndsWell(c, outcome) BY <1>2, <1>3, <2>1, <2>3, <2>4 DEF EndsWell
  <2>6. MayEnd(c, outcome) BY <1>2, <2>1, <2>2 DEF MayEnd
  <2>7. Goes(c, d) BY <1>2, <2>1, <2>5, <2>6, EndGoes
  <2>8. d.outcome = outcome BY <1>2, <2>1, Fields, FieldsAll, Zenon DEF End, IsRec
  <2>9. WorkInv'
    <3>1. WorkOK(conn') BY <2>7 DEF Goes
    <3>2. pipe' = 0 /\ other' = "none" BY <1>9 DEF DestFails
    <3> QED BY <1>5, <3>1, <3>2, NothingElse
  <2> QED BY <1>2, <2>1, <2>7, <2>8, <2>9
<1> QED BY <1>6, <1>7, <1>8, <1>9

(***************************************************************************)
(* sock_from.                                                              *)
(***************************************************************************)
LEMMA HasRoomWorks ==
  ASSUME WorkInv, StreamInv, HasRoom
  PROVE  WorkInv' /\ \E c : Follows(c) /\ Goes(c, conn')
<1> DEFINE r == Resumed
           ec == Head(conn.queue)
           c == ClearTimer(r)
<1>1. Completes("room") /\ UNCHANGED <<pipe, got_done, is_suspended>> BY DEF HasRoom
<1>2. conn.call # "splice"
  <2>1. WorkOK(conn) /\ conn.op = "room" BY <1>1 DEF WorkInv, Completes
  <2>2. Place(conn.op, conn, Holds(conn, "ok")) BY <2>1, WorkIs
  <2> QED BY <2>1, <2>2, Zenon DEF Place, AtRoom
<1>3. /\ Follows(r) /\ InTime(r) /\ Broke(r, ec)
      /\ Place("room", r, ec = "ok") /\ ec \in Results
      /\ IsRec(r) /\ r.after # "null" /\ other = "none" /\ got_done = "none"
      /\ is_suspended \in BOOLEAN /\ pipe = 0
  <2> DEFINE op == "room"
  <2>1. Completes(op) /\ op # "none" /\ op \notin {"head", "body", "data"} BY <1>1
  <2> HIDE DEF op
  <2>2. Place(op, r, ec = "ok") BY <2>1, GoesOnAfter
  <2> QED BY <1>2, <2>1, <2>2, GoesOnAfter DEF op
<1>4. AtRoom(r) BY <1>3, Zenon DEF Place
<1>5. \/ ec # "ok" /\ conn' = ClearTimer(checkTimeout(r, ec)) /\ UNCHANGED other
      \/ ec = "ok" /\ conn' = c /\ other' = "from"
  BY DEF HasRoom
<1> HIDE DEF r, ec
<1>6. Running(r) BY <1>3 DEF Follows
<1>7. r.call \in {"tee", "wsplice"} /\ Blamed(r) /\ Piece(r, FALSE)
  BY <1>4, Zenon DEF AtRoom
<1>8. CASE ec # "ok" /\ conn' = ClearTimer(checkTimeout(r, ec)) /\ UNCHANGED other
  <2>1. Goes(r, conn') BY <1>3, <1>6, <1>7, <1>8, BlamedFails
  <2>2. WorkInv'
    <3>1. WorkOK(conn') BY <2>1 DEF Goes
    <3> QED BY <1>1, <1>3, <1>8, <3>1, NothingElse
  <2> QED BY <1>3, <2>1, <2>2
<1>9. CASE ec = "ok" /\ conn' = c /\ other' = "from"
  <2>1. /\ Running(c) /\ Same(r, c) /\ InTime(c) /\ c.after = r.after /\ c.left = r.left
        /\ c.sent = r.sent /\ c.size = r.size
    BY <1>6, UntimedIs
  <2> HIDE DEF c
  <2>2. c.call = r.call /\ c.served = r.served /\ c.reply = r.reply BY <2>1 DEF Same
  <2>3. Follows(c) BY <1>3, <2>1, <2>2 DEF Follows, WentOn
  <2>4. Blamed(c) /\ (Unread(r) => Unread(c)) BY <1>7, <2>1, SameWire
  <2>5. Piece(c, FALSE) BY <1>7, <2>1, <2>2, <2>4, Zenon DEF Piece
  <2>6. AtNone(c) BY <1>7, <2>2, <2>4, <2>5, Zenon DEF AtNone
  <2>7. WorkOK(c) BY <1>3, <2>1, <2>6, Idled
  <2>8. Goes(c, c) BY <2>1, <2>7, RunningIs DEF Goes, Moves
  <2>9. WorkInv' BY <1>1, <1>3, <1>9, <2>7, NothingElse
  <2> QED BY <1>9, <2>3, <2>8, <2>9
<1> QED BY <1>5, <1>8, <1>9

LEMMA FromEnds ==
  ASSUME WorkInv, StreamInv, FromMeetsError \/ FromFails
  PROVE  WorkInv' /\ Follows(conn) /\ Goes(conn, conn')
<1> DEFINE c == conn
           d == conn'
<1>1. other = "from" /\ other' = "none" /\ UNCHANGED <<pipe, got_done, is_suspended>>
  BY DEF FromMeetsError, FromFails
<1>2. /\ Running(c) /\ InTime(c) /\ AtNone(c) /\ Follows(c)
      /\ RelayOK /\ c.call \in {"tee", "wsplice"} /\ got_done = "none" /\ pipe = 0 /\ IsRec(c)
  BY <1>1, WaitsElsewhere
<1>3. Piece(c, FALSE) /\ Blamed(c) BY <1>2, Zenon DEF AtNone
<1>4. Unread(c) /\ c.served = 0 BY <1>3 DEF Piece
<1>5. ASSUME FromMeetsError PROVE Goes(c, d)
  <2> DEFINE error == "EXCEPTION"
  <2>1. error \in Errors /\ d = Fouled([Throw(c, error) EXCEPT !.cause = "other"])
    BY <1>5 DEF Errors, FromMeetsError
  <2> HIDE DEF error, c, d
  <2>2. Goes(c, Fouled([Throw(c, error) EXCEPT !.cause = "other"]))
    BY <1>2, <2>1, ThrownForeign DEF MayFoul
  <2> QED BY <2>1, <2>2
<1>6. ASSUME FromFails PROVE Goes(c, d)
  <2> DEFINE outcome == "building"
  <2>1. /\ outcome \in Outcomes \ {"none"} /\ outcome = "building" /\ d = End(c, outcome)
    BY <1>6 DEF Outcomes, FromFails
  <2>2. outcome \notin Errors BY DEF Errors
  <2> HIDE DEF outcome, c, d
  <2>3. EndsWell(c, outcome) BY <1>2, <1>3, <1>4, <2>1 DEF EndsWell
  <2>4. MayEnd(c, outcome) BY <1>2, <2>1, <2>2 DEF MayEnd
  <2> QED BY <1>2, <2>1, <2>3, <2>4, EndGoes
<1>7. Goes(c, d) BY <1>5, <1>6
<1>8. WorkInv'
  <2>1. WorkOK(conn') BY <1>7 DEF Goes
  <2>2. is_suspended' \in BOOLEAN BY <1>1, <1>2 DEF RelayOK
  <2> QED BY <1>1, <1>2, <2>1, <2>2, NothingElse
<1> QED BY <1>2, <1>7, <1>8

\* A chunk goes from sock_from to the server, which may then have it all.
LEMMA ForwardedRuns ==
  ASSUME WorkInv, StreamInv, other = "from", conn.sock \in {"alive", "fin", "foul"}
  PROVE  LET f == Forwarded
         IN  /\ Running(f) /\ InTime(f) /\ Blamed(f) /\ Unread(f) /\ f.after # "null"
             /\ f.call = conn.call /\ f.call \in {"tee", "wsplice"} /\ f.reply = conn.reply
             /\ f.sent <= f.size /\ f.size = conn.size /\ (f.sent < f.size => f.served = 0)
             /\ conn.served = 0 /\ (f.served = 0 \/ (f.served = 1 /\ conn.reply # "none"))
             /\ got_done = "none" /\ pipe = 0 /\ is_suspended \in BOOLEAN
<1> DEFINE c == conn
           f == Forwarded
<1>1. /\ Running(c) /\ InTime(c) /\ AtNone(c) /\ c.after # "null" /\ IsRec(c)
      /\ c.call \in {"tee", "wsplice"} /\ got_done = "none" /\ pipe = 0
      /\ is_suspended \in BOOLEAN
  BY WaitsElsewhere DEF RelayOK
<1>2. Piece(c, FALSE) /\ Blamed(c) BY <1>1, Zenon DEF AtNone
<1>3. Unread(c) /\ c.sent < c.size /\ c.served = 0 BY <1>2 DEF Piece
<1>4. c.op = "none" /\ Typed(c) /\ Network(c) /\ Request(c) BY <1>1 DEF Running
<1>5. f = [c EXCEPT !.sent = c.sent + 1,
                    !.served = IF c.sock # "fin" /\ LastPiece(c) THEN c.served + 1 ELSE c.served]
  BY DEF Forwarded
<1>6. LastPiece(c) <=> c.sent + 1 = c.size BY <1>4 DEF LastPiece
<1>7. c.sock \in {"alive", "fin", "foul"} OBVIOUS
<1> HIDE DEF c, f
<1>8. /\ IsRec(f) /\ f.sent = c.sent + 1 /\ Agree(c, f, {"sent", "served"})
      /\ f.served = IF c.sock # "fin" /\ LastPiece(c) THEN c.served + 1 ELSE c.served
  BY <1>1, <1>5, Fields, FieldsAll, Zenon DEF IsRec, Agree
<1>9. /\ f.sock = c.sock /\ f.due = c.due /\ f.inbox = c.inbox /\ f.body = c.body
      /\ f.owed = c.owed /\ f.reply = c.reply /\ f.cause = c.cause /\ f.call = c.call
      /\ f.left = c.left /\ f.size = c.size /\ f.after = c.after /\ f.null = c.null
      /\ f.outcome = c.outcome /\ f.queue = c.queue /\ f.timer = c.timer /\ f.op = c.op
  BY <1>8, SMT DEF Agree, AllFields
<1>10. c.sent \in 0 .. MaxData /\ c.size \in 0 .. MaxData BY <1>4, FieldTypes
<1>11. /\ f.sent \in 0 .. MaxData /\ f.sent <= f.size /\ f.served \in {0, 1}
       /\ (f.served = 1 => c.sock \in {"alive", "foul"}) /\ (f.sent < f.size => f.served = 0)
  BY <1>3, <1>6, <1>7, <1>8, <1>9, <1>10, Bounds
<1>12. Typed(f)
  <2>1. f["sent"] \in Allowed["sent"] /\ f["served"] \in Allowed["served"]
    BY <1>11, AllowedFields
  <2>2. \A g \in {"sent", "served"} : f[g] \in Allowed[g] BY <2>1, Zenon
  <2> QED BY <1>4, <1>8, <2>2, AgreeTyped
<1>13. Network(f) BY <1>4, <1>9 DEF Network, Clean
<1>14. Request(f) BY <1>1, <1>4, <1>9, <1>11, SMT DEF Request
<1>15. Running(f) BY <1>1, <1>7, <1>9, <1>12, <1>13, <1>14, StillRunning
<1>16. Unread(f) BY <1>3, <1>9 DEF Unread, Fits
<1>17. Blamed(f) /\ InTime(f) BY <1>1, <1>2, <1>9 DEF Blamed, Down, InTime, IsTimeout
<1>18. c.sock \in {"alive", "foul"} => c.reply # "none" BY <1>3, <1>4 DEF Unread, Network
<1> QED BY <1>1, <1>3, <1>9, <1>11, <1>15, <1>16, <1>17, <1>18 DEF c, f

LEMMA FromMovesWorks ==
  ASSUME WorkInv, StreamInv, FromMoves
  PROVE  /\ WorkInv'
         /\ \/ \E c : Follows(c) /\ Goes(c, conn')
            \/ /\ conn.call \in {"tee", "wsplice"} /\ conn.served = 0 /\ conn.reply # "none"
               /\ conn'.call = "none" /\ conn'.outcome = "building" /\ conn'.served = 1
               /\ conn'.reply = conn.reply
<1> DEFINE f == Forwarded
           d == conn'
<1>1. /\ other = "from" /\ UNCHANGED <<pipe, got_done, is_suspended>>
      /\ conn.sock \in {"alive", "fin", "foul"}
  BY DEF FromMoves
<1>2. /\ Running(f) /\ InTime(f) /\ Blamed(f) /\ Unread(f) /\ f.after # "null"
      /\ f.call = conn.call /\ f.call \in {"tee", "wsplice"} /\ f.reply = conn.reply
      /\ f.sent <= f.size /\ f.size = conn.size /\ (f.sent < f.size => f.served = 0)
      /\ conn.served = 0 /\ (f.served = 0 \/ (f.served = 1 /\ conn.reply # "none"))
      /\ got_done = "none" /\ pipe = 0 /\ is_suspended \in BOOLEAN
  BY <1>1, ForwardedRuns
<1>3. \/ d = End(f, "building") /\ other' = "none"
      \/ /\ f.sent < conn.size
         /\ (d = Issue(SetTimer(f), "room") /\ other' = "none") \/ (d = f /\ other' = "from")
  BY DEF FromMoves, StartRoom
<1> HIDE DEF f, d
<1>4. IsRec(f) /\ f.call # "none" BY <1>2, RunningIs
<1>5. f.served = 0 => Follows(f) BY <1>2 DEF Follows
<1>6. ASSUME WorkOK(d), other' \in {"none", "from"} PROVE WorkInv'
  <2>1. WorkOK(conn') BY <1>6 DEF d
  <2> QED BY <1>1, <1>2, <1>6, <2>1, NothingElse
<1>7. CASE d = End(f, "building") /\ other' = "none"
  <2> DEFINE outcome == "building"
  <2>1. /\ outcome \in Outcomes \ {"none"} /\ outcome = "building" /\ d = End(f, outcome)
    BY <1>7 DEF Outcomes
  <2>2. outcome \notin Errors BY DEF Errors
  <2> HIDE DEF outcome
  <2>3. EndsWell(f, outcome) BY <1>2, <2>1 DEF EndsWell
  <2>4. MayEnd(f, outcome) BY <1>2, <2>1, <2>2 DEF MayEnd
  <2>5. Goes(f, d) BY <1>2, <2>1, <2>3, <2>4, EndGoes
  <2>6. d.call = "none" /\ d.outcome = outcome /\ Agree(f, d, EndFields)
    <3>1. IsRec(f) BY <1>4
    <3>2. d = End(f, outcome) BY <2>1
    <3>3. Agree(f, d, EndFields) BY <3>1, <3>2, EndIs
    <3>4. d.call = "none" /\ d.outcome = outcome
      BY <3>1, <3>2, Fields, FieldsAll, Zenon DEF End, IsRec
    <3> QED BY <3>3, <3>4
  <2>7. d.served = f.served /\ d.reply = f.reply
    BY <2>6, SMT DEF Agree, AllFields, EndFields
  <2>8. WorkInv' BY <1>6, <1>7, <2>5 DEF Goes
  <2> QED BY <1>2, <1>5, <2>1, <2>5, <2>6, <2>7, <2>8 DEF d
<1>8. CASE f.sent < conn.size /\ d = Issue(SetTimer(f), "room") /\ other' = "none"
  <2> DEFINE op == "room"
  <2>1. op \in Ops \ {"none", "connect"} /\ op = "room" /\ d = Issue(SetTimer(f), op)
    BY <1>8 DEF Ops
  <2>2. Piece(f, FALSE) BY <1>2, <1>8, Zenon DEF Piece
  <2>3. AtRoom(f) BY <1>2, <2>2, Zenon DEF AtRoom
  <2> HIDE DEF op
  <2>4. Place(op, f, FALSE) BY <2>1, <2>3, Zenon DEF Place
  <2>5. Goes(f, d) BY <1>2, <2>1, <2>4, IssueGoes
  <2>6. WorkInv' BY <1>6, <1>8, <2>5 DEF Goes
  <2> QED BY <1>2, <1>5, <1>8, <2>5, <2>6 DEF d
<1>9. CASE f.sent < conn.size /\ d = f /\ other' = "from"
  <2>1. Piece(f, FALSE) BY <1>2, <1>9, Zenon DEF Piece
  <2>2. AtNone(f) BY <1>2, <2>1, Zenon DEF AtNone
  <2>3. WorkOK(f) BY <1>2, <2>2, Idled
  <2>4. Goes(f, f) BY <1>2, <2>3, RunningIs DEF Goes, Moves
  <2>5. WorkInv' BY <1>6, <1>9, <2>3
  <2> QED BY <1>2, <1>5, <1>9, <2>4, <2>5 DEF d
<1> QED BY <1>3, <1>7, <1>8, <1>9

(***************************************************************************)
(* The kernel, for these operations.                                       *)
(***************************************************************************)
LEMMA CanWorks ==
  ASSUME WorkInv, StreamInv, CanSplice \/ CanWrite
  PROVE  /\ WorkInv' /\ Agree(conn, conn', {"queue"})
<1> DEFINE c == conn
           d == conn'
<1>1. Pending(c) /\ d = Complete(c, "ok") /\ UNCHANGED relay BY DEF CanSplice, CanWrite
<1>2. WorkOK(c) /\ RelayOK BY DEF WorkInv
<1>3. CanSplice => c.op = "in" /\ (c.body > 0 \/ Broken(c)) BY DEF CanSplice
<1>4. CanWrite => c.op = "room" BY DEF CanWrite
<1> HIDE DEF c, d
<1>5. /\ IsRec(d) /\ d.queue = Append(c.queue, "ok") /\ Agree(c, d, {"queue"})
      /\ Agree(c, d, {} \cup {"queue"})
      /\ Network(d) /\ d.served <= 1 /\ d.cause = c.cause /\ d.sock = c.sock
      /\ Place(c.op, d, FALSE) /\ Agree(c, d, Aside)
  BY <1>1, <1>2, OnlyQueued
<1>6. /\ d.body = c.body /\ d.call = c.call /\ d.left = c.left /\ d.op = c.op
  BY <1>5, SMT DEF Agree, AllFields
<1>7. Place(c.op, d, TRUE)
  <2>1. CASE CanSplice
    <3>1. AtIn(d, FALSE) BY <1>3, <1>5, <2>1, Zenon DEF Place
    <3>2. d.body > 0 \/ d.sock # "alive" BY <1>3, <1>5, <1>6, <2>1 DEF Broken
    <3>3. AtIn(d, TRUE) BY <3>1, <3>2, Zenon DEF AtIn
    <3> QED BY <1>3, <2>1, <3>3, Zenon DEF Place
  <2>2. CASE CanWrite
    <3>1. AtRoom(d) BY <1>4, <1>5, <2>2, Zenon DEF Place
    <3> QED BY <1>4, <2>2, <3>1, Zenon DEF Place
  <2> QED BY <2>1, <2>2
<1>8. d.sock # "connecting"
  <2>1. c.op # "connect" BY <1>3, <1>4
  <2>2. OpSound(c) BY <1>2, WorkIs
  <2> QED BY <1>5, <2>1, <2>2 DEF OpSound
<1>9. WorkOK(d)
  <2> DEFINE S == {}
  <2>1. S \subseteq Kernels /\ Agree(c, d, S \cup {"queue"}) /\ \A f \in S : d[f] \in Allowed[f]
    BY <1>5
  <2> HIDE DEF S
  <2> QED BY <1>1, <1>2, <1>5, <1>7, <1>8, <2>1, FinishedWell
<1>10. RelayOK'
  <2>1. got_done = "none"
    <3>1. c.op # "none" BY <1>1 DEF Pending
    <3> QED BY <3>1, OthersFree DEF c
  <2> QED BY <1>1, <1>2, <1>6, <2>1 DEF RelayOK, relay, c, d
<1> QED BY <1>5, <1>9, <1>10 DEF WorkInv, c, d

(***************************************************************************)
(* The barrier.                                                            *)
(***************************************************************************)
LEMMA BarrierDoneWorks ==
  ASSUME WorkInv, StreamInv, BarrierDone
  PROVE  WorkInv' /\ \E c : Follows(c) /\ Goes(c, conn')
<1> DEFINE r == Resumed
           ec == Head(conn.queue)
           c == ClearTimer(r)
           d == conn'
<1>1. Completes("barrier") /\ UNCHANGED <<pipe, is_suspended>> /\ got_done' = ec
      /\ other' = (IF is_suspended THEN "resume" ELSE other)
      /\ d = [c EXCEPT !.sent = IF ec = "ok" THEN c.sent + 1 ELSE c.sent]
  BY DEF BarrierDone
<1>2. conn.call # "splice"
  <2>1. WorkOK(conn) /\ conn.op = "barrier" BY <1>1 DEF WorkInv, Completes
  <2>2. Place(conn.op, conn, Holds(conn, "ok")) BY <2>1, WorkIs
  <2> QED BY <2>1, <2>2, Zenon DEF Place, AtBarrier
<1>3. /\ Follows(r) /\ Broke(r, ec)
      /\ Place("barrier", r, ec = "ok") /\ ec \in Results
      /\ IsRec(r) /\ r.after # "null" /\ other = "none"
      /\ is_suspended \in BOOLEAN /\ pipe = 0
  <2> DEFINE op == "barrier"
  <2>1. Completes(op) /\ op # "none" /\ op \notin {"head", "body", "data"} BY <1>1
  <2> HIDE DEF op
  <2>2. Place(op, r, ec = "ok") BY <2>1, GoesOnAfter
  <2> QED BY <1>2, <2>1, <2>2, GoesOnAfter DEF op
<1>4. AtBarrier(r, ec = "ok") BY <1>3, Zenon DEF Place
<1> HIDE DEF r, ec, d
<1>5. Running(r) BY <1>3 DEF Follows
<1>6. r.call = "barrier" /\ Blamed(r) /\ Piece(r, ec = "ok") BY <1>4, Zenon DEF AtBarrier
<1>7. /\ Unread(r) /\ r.sent < r.size
      /\ (ec # "ok" \/ r.sent + 1 < r.size => r.served = 0)
  BY <1>6 DEF Piece
<1>8. /\ Running(c) /\ IsRec(c) /\ Same(r, c) /\ InTime(c) /\ c.after = r.after /\ c.left = r.left
      /\ c.sent = r.sent /\ c.size = r.size /\ c.null = r.null
  BY <1>5, UntimedIs
<1> HIDE DEF c
<1>9. /\ IsRec(d) /\ d.sent = (IF ec = "ok" THEN c.sent + 1 ELSE c.sent)
      /\ Agree(c, d, {"sent"})
  BY <1>1, <1>8, Fields, FieldsAll, Zenon DEF IsRec, Agree
<1>10. /\ d.call = c.call /\ d.size = c.size /\ d.left = c.left /\ d.served = c.served
       /\ d.after = c.after /\ d.reply = c.reply /\ d.null = c.null /\ d.outcome = c.outcome
       /\ d.cause = c.cause
  BY <1>9, SMT DEF Agree, AllFields
<1>11. c.call = "barrier" /\ c.served = r.served /\ c.reply = r.reply BY <1>6, <1>8 DEF Same
<1>12. c.sent \in 0 .. MaxData /\ c.size \in 0 .. MaxData /\ Request(c)
  BY <1>8, RunningIs, FieldTypes DEF Running
<1>13. d.sent \in 0 .. MaxData /\ d.sent <= d.size /\ (d.sent < d.size => d.served = 0)
  BY <1>7, <1>8, <1>9, <1>10, <1>11, <1>12, Bounds
<1>14. Running(d) /\ Same(c, d) /\ d.timer = c.timer
  <2>1. Request(d) BY <1>8, <1>10, <1>11, <1>12, <1>13, SMT DEF Request
  <2>2. \A f \in {"sent"} : d[f] \in Allowed[f] BY <1>13, AllowedFields
  <2>3. {"sent"} \subseteq Own BY DEF Own
  <2> QED BY <1>8, <1>9, <2>1, <2>2, <2>3, Tweaked
<1>15. Unread(d) /\ Blamed(d) /\ Broke(d, ec)
  <2>1. Unread(c) /\ Blamed(c) /\ Broke(c, ec) BY <1>3, <1>6, <1>7, <1>8, SameWire
  <2> QED BY <1>10, <1>14, <2>1, SameWire
<1>16. InTime(d) BY <1>8, <1>10, <1>14 DEF InTime, IsTimeout
<1>17. AtNone(d) BY <1>10, <1>11, <1>13, <1>15, Zenon DEF AtNone
<1>18. WorkOK(d) BY <1>3, <1>8, <1>10, <1>14, <1>16, <1>17, Idled
<1>19. Goes(d, d) BY <1>14, <1>18, RunningIs DEF Goes, Moves
<1>20. r.call = conn.call \/ WentOn(r) BY <1>3 DEF Follows
<1>21. Follows(d)
  BY <1>3, <1>6, <1>10, <1>11, <1>14, <1>20 DEF Follows, WentOn
<1>22. WorkInv'
  <2>1. d.left \in 0 .. MaxBody BY <1>18, WorkIs, FieldTypes
  <2>2. pipe' \in Nat /\ pipe' + d.left <= MaxBody /\ ~(pipe' > 0) BY <1>1, <1>3, <2>1, Bounds
  <2>3. RelayOK' BY <1>1, <1>3, <1>15, <2>2 DEF RelayOK, d
  <2> QED BY <1>18, <2>3 DEF WorkInv, d
<1> QED BY <1>19, <1>21, <1>22 DEF d

LEMMA BarrierEndsWorks ==
  ASSUME WorkInv, StreamInv, got_done # "none", BarrierEnds
  PROVE  WorkInv' /\ Follows(conn) /\ Goes(conn, conn')
<1> DEFINE c == conn
           d == conn'
<1>1. /\ d = IF got_done = "ok" THEN End(c, "building") ELSE checkTimeout(c, got_done)
      /\ other' = "none" /\ got_done' = "none" /\ is_suspended' = FALSE /\ UNCHANGED pipe
  BY DEF BarrierEnds
<1>2. /\ Running(c) /\ InTime(c) /\ AtNone(c) /\ Follows(c) /\ IsRec(c) /\ RelayOK
      /\ c.call = "barrier" /\ got_done \in Results /\ pipe = 0
  BY WaitsElsewhere
<1>3. Unread(c) /\ Blamed(c) /\ (c.sent < c.size => c.served = 0)
  BY <1>2, Zenon DEF AtNone
<1>4. got_done # "ok" => Broke(c, got_done) BY <1>2 DEF RelayOK, Results
<1> HIDE DEF c, d
<1>5. CASE got_done # "ok"
  <2>1. d = checkTimeout(c, got_done) BY <1>1, <1>5
  <2> QED BY <1>1, <1>2, <1>3, <1>4, <1>5, <2>1, BlamedFails, NothingElse DEF Goes, c, d
<1>6. CASE got_done = "ok"
  <2> DEFINE outcome == "building"
  <2>1. /\ outcome \in Outcomes \ {"none"} /\ outcome = "building" /\ d = End(c, outcome)
    BY <1>1, <1>6 DEF Outcomes
  <2>2. outcome \notin Errors BY DEF Errors
  <2> HIDE DEF outcome
  <2>3. EndsWell(c, outcome) BY <1>2, <1>3, <2>1 DEF EndsWell
  <2>4. MayEnd(c, outcome) BY <1>2, <2>1, <2>2 DEF MayEnd
  <2>5. Goes(c, d) BY <1>2, <2>1, <2>3, <2>4, EndGoes
  <2> QED BY <1>1, <1>2, <2>5, NothingElse DEF Goes, c, d
<1> QED BY <1>5, <1>6

LEMMA BarrierWaitWorks ==
  ASSUME WorkInv, StreamInv, BarrierWait \/ BarrierResumes
  PROVE  /\ WorkInv'
         /\ conn' = conn \/ (Follows(conn) /\ Goes(conn, conn'))
<1>1. CASE BarrierEnds /\ (got_done # "none" \/ other = "resume")
  <2>1. got_done \in Results BY <1>1, WaitsElsewhere
  <2>2. got_done # "none" BY <2>1 DEF Results
  <2> QED BY <1>1, <2>2, BarrierEndsWorks
<1>2. CASE is_suspended' = TRUE /\ UNCHANGED <<conn, pipe, other, got_done>>
  <2>1. WorkInv' BY <1>2 DEF WorkInv, RelayOK
  <2> QED BY <1>2, <2>1
<1> QED BY <1>1, <1>2 DEF BarrierWait, BarrierResumes

(***************************************************************************)
(* What the caller sees of what is not its own doing.                      *)
(***************************************************************************)
AskingCalls == {"GET", "HEAD", "open", "POST", "headers", "data", "answer",
                "barrier", "tee", "wsplice"}
Seen(c, d) == d.call = c.call /\ d.outcome = c.outcome /\ d.left = c.left
Untold(c, d) == d.served = c.served /\ d.reply = c.reply
\* The server gets the request, begins to, or answers it.
Told(c, d) ==
  \/ Untold(c, d)
  \/ /\ c.call \in AskingCalls /\ c.served = 0 /\ c.reply = "none"
     /\ d.served \in {0, 1} /\ d.reply = "asked"
  \/ /\ c.call \in AskingCalls /\ c.served = 0 /\ c.reply # "none"
     /\ d.served = 1 /\ d.reply = c.reply
  \/ c.reply = "asked" /\ d.reply = "given" /\ d.served = c.served
\* What the barrier was told of the connection stays true.
BrokeStill(c, d) ==
  \A ec : ec # "ok" /\ c.op = "none" /\ Broke(c, ec) => Broke(d, ec)
Outside(c, d) == Seen(c, d) /\ Told(c, d) /\ BrokeStill(c, d)

LEMMA OutsideIs ==
  ASSUME NEW c, NEW d
  PROVE  /\ Agree(c, d, {"timer", "queue", "cause"}) => Outside(c, d)
         /\ Agree(c, d, {"sock", "due", "inbox", "body", "owed", "queue"})
              /\ d.sock = "closed" => Outside(c, d)
         /\ c.op # "none" /\ Agree(c, d, Kernels \cup {"queue"}) /\ Told(c, d) => Outside(c, d)
<1>1. ASSUME Agree(c, d, {"timer", "queue", "cause"}) PROVE Outside(c, d)
  <2>1. Seen(c, d) /\ Untold(c, d) BY <1>1, SMT DEF Agree, AllFields, Seen, Untold
  <2>2. d.sock = c.sock /\ d.due = c.due /\ d.inbox = c.inbox /\ d.body = c.body
        /\ d.owed = c.owed
    BY <1>1, SMT DEF Agree, AllFields
  <2>3. BrokeStill(c, d) BY <2>2 DEF BrokeStill, Broke, Down, CleanIfUp, Up, Clean
  <2> QED BY <2>1, <2>3 DEF Outside, Told
<1>2. ASSUME Agree(c, d, {"sock", "due", "inbox", "body", "owed", "queue"}), d.sock = "closed"
      PROVE  Outside(c, d)
  <2>1. Seen(c, d) /\ Untold(c, d) BY <1>2, SMT DEF Agree, AllFields, Seen, Untold
  <2>2. BrokeStill(c, d) BY <1>2 DEF BrokeStill, Broke, Down, CleanIfUp, Up
  <2> QED BY <2>1, <2>2 DEF Outside, Told
<1>3. ASSUME c.op # "none", Agree(c, d, Kernels \cup {"queue"}), Told(c, d)
      PROVE  Outside(c, d)
  <2>1. Seen(c, d) BY <1>3, SMT DEF Agree, AllFields, Seen, Kernels
  <2> QED BY <1>3, <2>1 DEF Outside, BrokeStill
<1> QED BY <1>1, <1>2, <1>3

LEMMA ClockShows ==
  ASSUME WorkOK(conn), TimePasses \/ CollectTimer
  PROVE  Outside(conn, conn')
<1>1. Agree(conn, conn', {"timer", "queue", "cause"})
  <2>1. IsRec(conn) BY WorkIs
  <2>2. CASE TimePasses
    BY <2>1, <2>2, Fields, FieldsAll, Zenon DEF TimePasses, IsRec, Agree
  <2>3. CASE CollectTimer
    BY <2>1, <2>3, Fields, FieldsAll, Zenon DEF CollectTimer, IsRec, Agree
  <2> QED BY <2>2, <2>3
<1> QED BY <1>1, OutsideIs

LEMMA TimeoutShows ==
  ASSUME WorkOK(conn), conn' = onTimeout([conn EXCEPT !.queue = Tail(@)])
  PROVE  Outside(conn, conn')
<1> DEFINE c == conn
           b == [conn EXCEPT !.queue = Tail(@)]
           d == conn'
           S == {"sock", "due", "inbox", "body", "owed", "queue"}
<1>1. IsRec(c) BY WorkIs
<1>2. IsRec(b) /\ Agree(c, b, {"queue"})
  BY <1>1, Fields, FieldsAll, Zenon DEF IsRec, Agree
<1>3. d = Close(b) \/ d = b BY DEF onTimeout
<1> HIDE DEF c, b, d
<1>4. CASE d = Close(b)
  <2>1. d.sock = "closed" /\ Agree(b, d, S) BY <1>2, <1>4, CloseIs
  <2>2. Agree(c, d, {"queue"} \cup S) BY <1>2, <2>1, AgreeStep
  <2>3. Agree(c, d, S) BY <2>2, AgreeMore
  <2> QED BY <2>1, <2>3, OutsideIs DEF c, d
<1>5. CASE d = b
  <2>1. Agree(c, d, {"timer", "queue", "cause"}) BY <1>2, <1>5, AgreeMore
  <2> QED BY <2>1, OutsideIs DEF c, d
<1> QED BY <1>3, <1>4, <1>5

LEMMA KernelShows ==
  ASSUME WorkOK(conn), Kernel
  PROVE  Outside(conn, conn')
<1> DEFINE c == conn
           d == conn'
<1>1. /\ IsRec(c) /\ Pending(c) /\ c.op # "none" /\ Place(c.op, c, FALSE) /\ Network(c)
      /\ Typed(c)
  <2>1. Pending(c)
    BY DEF Kernel, ConnectOk, ConnectFails, WriteOk, WriteFails, Readable, ReadHead,
           ReadBody, ReadFails, ReadFoul
  <2> QED BY <2>1, WorkIs
<1>2. CASE WriteOk
  <2> DEFINE e == Complete(c, "ok")
             asks == c.sock = "alive" /\ c.op = "write"
             due == c.due \/ asks
             reply == IF asks THEN "asked" ELSE c.reply
             served == IF c.sock # "fin" /\ LastPiece(c) THEN c.served + 1 ELSE c.served
  <2>1. c.op \in Writes /\ c.sock \in {"alive", "fin", "foul"} BY <1>2 DEF WriteOk
  <2>2. IsRec(e) /\ Agree(c, e, {"queue"}) BY <1>1, CompleteIs
  <2>3. /\ c.call \in AskingCalls /\ c.served = 0
        /\ c.op = "write" => c.reply \in {"none", "foul"}
        /\ c.op # "write" => Unread(c)
    <3>1. CASE c.op = "write"
      <4>1. AtWrite(c, FALSE) BY <1>1, <3>1, Zenon DEF Place
      <4> QED BY <3>1, <4>1, Zenon DEF AtWrite, RequestCalls, AskingCalls
    <3>2. CASE c.op = "data"
      <4>1. AtData(c, FALSE) BY <1>1, <3>2, Zenon DEF Place
      <4>2. Piece(c, FALSE) /\ c.call \in {"data", "POST"} BY <4>1, Zenon DEF AtData, Empty
      <4> QED BY <3>2, <4>2 DEF Piece, AskingCalls
    <3>3. CASE c.op = "barrier"
      <4>1. AtBarrier(c, FALSE) BY <1>1, <3>3, Zenon DEF Place
      <4>2. Piece(c, FALSE) /\ c.call = "barrier" BY <4>1, Zenon DEF AtBarrier
      <4> QED BY <3>3, <4>2 DEF Piece, AskingCalls
    <3> QED BY <2>1, <3>1, <3>2, <3>3 DEF Writes
  <2>4. d = [e EXCEPT !.due = due, !.reply = reply, !.served = served]
    <3>1. e.due = c.due /\ e.reply = c.reply /\ e.served = c.served
      BY <2>2, SMT DEF Agree, AllFields
    <3> QED BY <1>2, <3>1 DEF WriteOk
  <2> HIDE DEF c, d, e, due, reply, served
  <2>5. /\ d.reply = reply /\ d.served = served
        /\ Agree(e, d, {"due", "reply", "served"})
    BY <2>2, <2>4, Fields, FieldsAll, Zenon DEF IsRec, Agree
  <2>6. Agree(c, d, {"queue"} \cup {"due", "reply", "served"}) BY <2>2, <2>5, AgreeStep
  <2>7. Agree(c, d, Kernels \cup {"queue"})
    <3>1. {"queue"} \cup {"due", "reply", "served"} \subseteq Kernels \cup {"queue"}
      BY DEF Kernels
    <3> QED BY <2>6, <3>1, AgreeMore
  <2>8. d.served = c.served \/ (c.sock # "fin" /\ d.served = 1)
    BY <2>3, <2>5 DEF served
  <2>9. CASE asks
    <3>1. d.reply = "asked" /\ d.served \in {0, 1} BY <2>3, <2>5, <2>8, <2>9 DEF reply
    <3>2. c.reply = "none" BY <1>1, <2>3, <2>9 DEF Network
    <3>3. Told(c, d) BY <2>3, <3>1, <3>2 DEF Told
    <3> QED BY <1>1, <2>7, <3>3, OutsideIs DEF c, d
  <2>10. CASE ~asks
    <3>1. d.reply = c.reply BY <2>5, <2>10 DEF reply
    <3>2. c.sock # "fin" => c.reply # "none"
      BY <1>1, <2>1, <2>3, <2>10 DEF Unread, Network
    <3>3. Told(c, d) BY <2>3, <2>8, <3>1, <3>2 DEF Told, Untold
    <3> QED BY <1>1, <2>7, <3>3, OutsideIs DEF c, d
  <2> QED BY <2>9, <2>10
<1>3. CASE Kernel /\ ~WriteOk
  <2> DEFINE S == {"sock", "cause", "got", "inbox", "body", "queue"}
  <2>1. PICK r, h : LET e == Complete(c, r)
                    IN  d = e \/ d = [e EXCEPT !.sock = "alive"]
                        \/ d = [e EXCEPT !.sock = "refused", !.cause = "other"]
                        \/ d = [e EXCEPT !.got = c.inbox, !.inbox = NoHead]
                        \/ d = [e EXCEPT !.body = @ - Wanted(c)]
                        \/ d = [e EXCEPT !.body = 0]
                        \/ d = [e EXCEPT !.got = h]
    BY <1>3
    DEF Kernel, ConnectOk, ConnectFails, WriteFails, Readable, ReadHead, ReadBody, ReadFails,
        ReadFoul
  <2> DEFINE e == Complete(c, r)
  <2>2. \/ d = e \/ d = [e EXCEPT !.sock = "alive"]
        \/ d = [e EXCEPT !.sock = "refused", !.cause = "other"]
        \/ d = [e EXCEPT !.got = c.inbox, !.inbox = NoHead]
        \/ d = [e EXCEPT !.body = e.body - Wanted(c)]
        \/ d = [e EXCEPT !.body = 0] \/ d = [e EXCEPT !.got = h]
    BY <2>1
  <2>3. IsRec(e) /\ Agree(c, e, {"queue"}) BY <1>1, CompleteIs
  <2> HIDE DEF c, d, e
  <2>4. Agree(e, d, {"sock", "cause", "got", "inbox", "body"})
    BY <2>2, <2>3, Fields, FieldsAll, Zenon DEF IsRec, Agree
  <2>5. Agree(c, d, {"queue"} \cup {"sock", "cause", "got", "inbox", "body"})
    BY <2>3, <2>4, AgreeStep
  <2>6. Untold(c, d) BY <2>5, SMT DEF Agree, AllFields, Untold
  <2>7. Agree(c, d, Kernels \cup {"queue"})
    <3>1. {"queue"} \cup {"sock", "cause", "got", "inbox", "body"} \subseteq Kernels \cup {"queue"}
      BY DEF Kernels
    <3> QED BY <2>5, <3>1, AgreeMore
  <2> QED BY <1>1, <2>6, <2>7, OutsideIs DEF Told, c, d
<1> QED BY <1>2, <1>3

LEMMA ServerShows ==
  ASSUME WorkOK(conn), Server
  PROVE  Outside(conn, conn')
<1> DEFINE c == conn
           d == conn'
<1>1. IsRec(c) /\ Network(c) BY WorkIs
<1>2. CASE Serve \/ ServeBadly
  <2>1. PICK h, o, k : d = [c EXCEPT !.due = FALSE, !.inbox = h, !.reply = "given",
                                     !.owed = o, !.cause = k]
                       /\ c.due /\ c.sock = "alive"
    <3>1. ASSUME Serve PROVE \E h, o :
              d = [c EXCEPT !.due = FALSE, !.inbox = h, !.reply = "given", !.owed = o]
      BY <3>1 DEF Serve
    <3>2. ASSUME NEW h, NEW o,
              d = [c EXCEPT !.due = FALSE, !.inbox = h, !.reply = "given", !.owed = o]
          PROVE d = [c EXCEPT !.due = FALSE, !.inbox = h, !.reply = "given",
                                     !.owed = o, !.cause = c.cause]
      BY <1>1, <3>2, Fields, FieldsAll, Zenon DEF IsRec
    <3>3. ASSUME ServeBadly PROVE \E o :
             d = [c EXCEPT !.due = FALSE, !.inbox = BadHead, !.reply = "given",
                           !.cause = "other", !.owed = o]
      BY <3>3 DEF ServeBadly
    <3>4. ASSUME NEW o,
             d = [c EXCEPT !.due = FALSE, !.inbox = BadHead, !.reply = "given",
                           !.cause = "other", !.owed = o]
          PROVE d = [c EXCEPT !.due = FALSE, !.inbox = BadHead, !.reply = "given",
                              !.owed = o, !.cause = "other"]
      BY <1>1, <3>4, Fields, FieldsAll, Zenon DEF IsRec
    <3>5. c.due /\ c.sock = "alive" BY <1>2 DEF Serve, ServeBadly
    <3>6. CASE Serve
      <4>1. PICK h, o :
              d = [c EXCEPT !.due = FALSE, !.inbox = h, !.reply = "given", !.owed = o]
        BY <3>1, <3>6
      <4>2. d = [c EXCEPT !.due = FALSE, !.inbox = h, !.reply = "given",
                          !.owed = o, !.cause = c.cause]
        BY <3>2, <4>1
      <4> HIDE DEF c, d
      <4> QED BY <3>5, <4>2
    <3>7. CASE ServeBadly
      <4>1. PICK o : d = [c EXCEPT !.due = FALSE, !.inbox = BadHead, !.reply = "given",
                                   !.cause = "other", !.owed = o]
        BY <3>3, <3>7
      <4>2. d = [c EXCEPT !.due = FALSE, !.inbox = BadHead, !.reply = "given",
                          !.owed = o, !.cause = "other"]
        BY <3>4, <4>1
      <4> HIDE DEF c, d
      <4> QED BY <3>5, <4>2
    <3> QED BY <1>2, <3>6, <3>7
  <2> HIDE DEF c, d
  <2>2. d.reply = "given" /\ Agree(c, d, {"due", "inbox", "reply", "owed", "cause"})
    BY <1>1, <2>1, Fields, FieldsAll, Zenon DEF IsRec, Agree
  <2>3. c.reply = "asked" BY <1>1, <2>1 DEF Network
  <2>4. Seen(c, d) /\ d.served = c.served BY <2>2, SMT DEF Agree, AllFields, Seen
  <2>5. BrokeStill(c, d) BY <2>1 DEF BrokeStill, Broke, Down
  <2> QED BY <2>2, <2>3, <2>4, <2>5 DEF Outside, Told, c, d
<1>3. CASE SendBody \/ Shut \/ Reset
  <2>1. /\ IsRec(d) /\ Agree(c, d, {"sock", "due", "owed", "body", "cause"})
        /\ c.sock = "alive" \/ (c.sock = "fin" /\ d.sock = "reset")
    BY <1>1, <1>3, Fields, FieldsAll, Zenon DEF SendBody, Shut, Reset, IsRec, Agree
  <2> HIDE DEF c, d
  <2>2. Seen(c, d) /\ Untold(c, d) BY <2>1, SMT DEF Agree, AllFields, Seen, Untold
  <2>3. BrokeStill(c, d) BY <2>1 DEF BrokeStill, Broke, Down, CleanIfUp, Up
  <2> QED BY <2>2, <2>3 DEF Outside, Told, c, d
<1> QED BY <1>2, <1>3 DEF Server

(***************************************************************************)
(* The steps.                                                              *)
(***************************************************************************)
\* Nothing else goes on between two calls, nor with an operation of HttpConn.
LEMMA OwnCalls ==
  ASSUME NEW c, WorkOK(c), c.op \in OwnOps
  PROVE  c.call \notin {"none", "gone", "splice"} /\ c.op # "none"
<1>1. Place(c.op, c, Holds(c, "ok")) BY WorkIs
<1>2. CASE c.op = "connect" BY <1>1, <1>2, Zenon DEF Place, AtConnect, RequestCalls
<1>3. CASE c.op = "write" BY <1>1, <1>3, Zenon DEF Place, AtWrite, RequestCalls
<1>4. CASE c.op = "wait" BY <1>1, <1>4, Zenon DEF Place, AtWait
<1>5. CASE c.op = "head" BY <1>1, <1>5, Zenon DEF Place, AtHead, RequestCalls
<1>6. CASE c.op = "body" BY <1>1, <1>6, Zenon DEF Place, AtBody
<1>7. CASE c.op = "data" BY <1>1, <1>7, Zenon DEF Place, AtData
<1>8. CASE c.op = "preload" BY <1>1, <1>8, Zenon DEF Place, AtPreload
<1> QED BY <1>2, <1>3, <1>4, <1>5, <1>6, <1>7, <1>8 DEF OwnOps

LEMMA RelayFree ==
  ASSUME WorkInv, StreamInv, WorkOK(conn'), UNCHANGED relay,
         conn.call \in {"none", "gone"} \/ conn.op \in OwnOps
  PROVE  WorkInv'
<1>1. WorkOK(conn) BY DEF WorkInv
<1>2. conn.op \in OwnOps => conn.op # "none" /\ conn.call # "splice" BY <1>1, OwnCalls
<1>3. other = "none" /\ got_done = "none" /\ is_suspended \in BOOLEAN /\ pipe = 0
  BY <1>2, CallFree
<1>4. /\ pipe' = 0 /\ got_done' = "none" /\ is_suspended' \in BOOLEAN /\ other' = "none"
  BY <1>3 DEF relay
<1> QED BY <1>4, NothingElse

\* What the caller has not done leaves what it waits for elsewhere alone.
LEMMA RelayKept ==
  ASSUME WorkInv, StreamInv, WorkOK(conn'), UNCHANGED relay, Outside(conn, conn')
  PROVE  WorkInv'
<1>1. RelayOK /\ OtherOK(conn, other, got_done) BY DEF WorkInv, StreamInv
<1>2. conn'.call = conn.call /\ conn'.left = conn.left BY DEF Outside, Seen
<1>3. ASSUME got_done \in {"error", "aborted"} PROVE Broke(conn', got_done)
  <2>1. conn.op = "none" /\ Broke(conn, got_done) BY <1>1, <1>3 DEF OtherOK, RelayOK
  <2>2. got_done # "ok" BY <1>3
  <2> QED BY <2>1, <2>2 DEF Outside, BrokeStill
<1>4. RelayOK' BY <1>1, <1>2, <1>3 DEF RelayOK, relay
<1> QED BY <1>4 DEF WorkInv

\* From where the coroutine goes on in a call.
Proceeds(c) ==
  /\ c.call \notin {"none", "gone"} /\ c.served = conn.served /\ c.reply = conn.reply
  /\ c.call = conn.call \/ WentOn(c)
\* The connection is closed, gone or a new one.
LeftFor(c, d) ==
  /\ d.call \in {"none", "gone"} /\ d.outcome = "none"
  /\ \/ c.call = "none" /\ Untold(c, d)
     \/ c.call = "gone" /\ d.reply = "none" /\ d.served = 0
\* The last piece of a request has gone to the server.
Passed(c, d) ==
  /\ c.call \in {"tee", "wsplice"} /\ c.served = 0 /\ c.reply # "none"
  /\ d.call = "none" /\ d.outcome = "building" /\ d.served = 1 /\ d.reply = c.reply
\* A part of an answer's body was there when it was asked for.
WasThere(c, d) ==
  /\ c.call = "none" /\ c.outcome # "building" /\ Untold(c, d)
  /\ d.call = "none" /\ d.outcome = "answered" /\ c.reply \in Given
Shows ==
  /\ \/ Outside(conn, conn')
     \/ \E c : (Proceeds(c) \/ Began(c)) /\ Goes(c, conn')
     \/ LeftFor(conn, conn') \/ WasThere(conn, conn')
     \/ Passed(conn, conn')
  /\ conn.call = "splice" /\ conn'.outcome = "answered" => pipe' = 0 /\ conn'.left = 0

LEMMA FollowsProceeds ==
  \A c : Follows(c) => Proceeds(c)
<1> SUFFICES ASSUME NEW c, Follows(c) PROVE Proceeds(c) OBVIOUS
<1>1. c.call \notin {"none", "gone"} BY RunningIs DEF Follows
<1> QED BY <1>1 DEF Follows, Proceeds

LEMMA OutsideShows == ASSUME WorkInv, Outside(conn, conn') PROVE Shows
<1>1. Request(conn) BY WorkIs DEF WorkInv
<1>2. conn.call = "splice" => conn'.outcome = "none" BY <1>1 DEF Request, Outside, Seen
<1> QED BY <1>2 DEF Shows

LEMMA PreloadedShows ==
  ASSUME WorkOK(conn), Preloaded
  PROVE  WorkOK(conn') /\ WasThere(conn, conn')
<1> DEFINE c == conn
           d == conn'
<1>1. c.call = "none" /\ c.left > 0 /\ d = [c EXCEPT !.outcome = "answered"]
  BY DEF Preloaded, PreloadBytes
<1>2. /\ IsRec(c) /\ Typed(c) /\ QueueOK(c) /\ Network(c) /\ Request(c) /\ OpSound(c)
      /\ c.op = "none" /\ AtNone(c) /\ Quiet(c) /\ (Busy(c) => InTime(c))
  BY <1>1, WorkIs, AtRest
<1>3. c.outcome # "building" /\ BodyLeft(c, c.left) /\ Blamed(c)
  <2>1. c.left \in 0 .. MaxBody BY <1>2, FieldTypes
  <2>2. c.outcome = "building" => c.left = 0 BY <1>1, <1>2, Zenon DEF AtNone, Unread
  <2> QED BY <1>1, <1>2, <2>1, <2>2 DEF AtNone
<1> HIDE DEF c, d
<1>4. IsRec(d) /\ d.outcome = "answered" /\ Agree(c, d, {"outcome"})
  BY <1>1, <1>2, Fields, FieldsAll, Zenon DEF IsRec, Agree
<1>5. /\ d.sock = c.sock /\ d.due = c.due /\ d.inbox = c.inbox /\ d.body = c.body
      /\ d.owed = c.owed /\ d.left = c.left /\ d.sent = c.sent /\ d.size = c.size
      /\ d.reply = c.reply /\ d.served = c.served /\ d.cause = c.cause /\ d.call = c.call
      /\ d.after = c.after /\ d.null = c.null /\ d.op = c.op /\ d.queue = c.queue
      /\ d.timer = c.timer /\ d.tries = c.tries /\ d.post_tries = c.post_tries
  BY <1>4, SMT DEF Agree, AllFields
<1>6. Typed(d)
  <2>1. d["outcome"] \in Allowed["outcome"] BY <1>4, AllowedFields DEF Outcomes
  <2>2. \A f \in {"outcome"} : d[f] \in Allowed[f] BY <2>1, Zenon
  <2> QED BY <1>2, <1>4, <2>2, AgreeTyped
<1>7. c.reply \in Given BY <1>3 DEF BodyLeft
<1>8. Network(d) BY <1>2, <1>5, SMT DEF Network, Clean
<1>9. Request(d) BY <1>1, <1>2, <1>3, <1>4, <1>5, <1>7, SMT DEF Request, Errors
<1>10. QueueOK(d) /\ \A r \in Results : ~Holds(d, r)
  <2>1. Quiet(d) BY <1>2, <1>5, Zenon DEF Quiet
  <2> QED BY <1>2, <1>5, <2>1, OneResult, Zenon DEF QueueOK
<1>11. InTime(d) BY <1>1, <1>2, <1>5 DEF Busy, InTime, IsTimeout
<1>12. OpSound(d)
  BY <1>1, <1>2, <1>5, <1>10, <1>11, SMT DEF OpSound
<1>13. AtNone(d)
  <2>1. BodyLeft(d, d.left) /\ Blamed(d)
    BY <1>3, <1>5, SMT DEF BodyLeft, Fits, Blamed, Down
  <2>2. d.call = "none" /\ d.outcome = "answered" /\ ~(d.left = 0)
    <3>1. c.left \in 0 .. MaxBody BY <1>2, FieldTypes
    <3> QED BY <1>1, <1>4, <1>5, <3>1
  <2> QED BY <2>1, <2>2 DEF AtNone
<1>14. Place(d.op, d, Holds(d, "ok")) BY <1>2, <1>5, <1>13, Zenon DEF Place
<1>15. WasThere(c, d) BY <1>1, <1>3, <1>4, <1>5, <1>7 DEF WasThere, Untold
<1> QED BY <1>6, <1>8, <1>9, <1>10, <1>12, <1>14, <1>15 DEF WorkOK, c, d

LEMMA UserShows ==
  ASSUME WorkInv, StreamInv, User, UNCHANGED relay
  PROVE  WorkInv' /\ Shows
<1>1. WorkOK(conn) BY DEF WorkInv
<1>2. CASE SimpleRequest \/ Post \/ WriteRequestHeaders \/ Reconnect
  <2>1. PICK c : Began(c) /\ Goes(c, conn') BY <1>1, <1>2, BeginGoes
  <2>2. conn.call = "none" /\ WorkOK(conn') BY <2>1 DEF Began, Goes
  <2> QED BY <2>1, <2>2, RelayFree DEF Shows
<1>3. CASE WriteRequestData \/ AskAnswer \/ Preloads \/ StreamReadData
  <2>1. PICK c : WentOn(c) /\ Running(c) /\ Goes(c, conn') BY <1>1, <1>3, GoOnGoes
  <2>2. conn.call = "none" /\ WorkOK(conn') BY <2>1 DEF WentOn, Goes
  <2>3. Proceeds(c) BY <2>1, RunningIs DEF Proceeds, WentOn
  <2> QED BY <2>1, <2>2, <2>3, RelayFree DEF Shows
<1>4. CASE UserClose \/ Destroy
  <2>1. /\ WorkOK(conn') /\ conn.call = "none" /\ conn'.call \in {"none", "gone"}
        /\ conn'.outcome = "none" /\ conn'.reply = conn.reply /\ conn'.served = conn.served
    BY <1>1, <1>4, LeaveWorks
  <2> QED BY <2>1, RelayFree DEF Shows, LeftFor, Untold
<1>5. CASE Create
  <2>1. conn.call = "gone" /\ conn' = NewConn BY <1>5 DEF Create
  <2>2. WorkOK(conn') BY <2>1, NewConnWorks
  <2>3. LeftFor(conn, conn') BY <2>1 DEF LeftFor, NewConn
  <2> QED BY <2>1, <2>2, <2>3, RelayFree DEF Shows
<1>6. CASE Preloaded
  <2>1. WorkOK(conn') /\ WasThere(conn, conn') BY <1>1, <1>6, PreloadedShows
  <2>2. conn.call = "none" BY <2>1 DEF WasThere
  <2> QED BY <2>1, <2>2, RelayFree DEF Shows
<1> QED BY <1>2, <1>3, <1>4, <1>5, <1>6, PreloadsOrNot DEF User

LEMMA RunShows ==
  ASSUME WorkInv, StreamInv, RunHandler, UNCHANGED relay
  PROVE  WorkInv' /\ Shows
<1>1. /\ WorkOK(conn) /\ WorkOK(conn')
      /\ Head(conn.queue) # T => Goes(conn, conn')
      /\ Head(conn.queue) = T => conn' = onTimeout([conn EXCEPT !.queue = Tail(@)])
  BY RunHandlerWorks DEF WorkInv
<1>2. CASE Head(conn.queue) = T
  <2>1. Outside(conn, conn') BY <1>1, <1>2, TimeoutShows
  <2> QED BY <1>1, <2>1, RelayKept, OutsideShows
<1>3. CASE Head(conn.queue) # T
  <2>1. conn.op \in OwnOps BY <1>3 DEF RunHandler, T
  <2>2. conn.call \notin {"none", "gone", "splice"} BY <1>1, <2>1, OwnCalls
  <2>3. Proceeds(conn) BY <2>2 DEF Proceeds
  <2> QED BY <1>1, <1>3, <2>1, <2>2, <2>3, RelayFree DEF Shows
<1> QED BY <1>2, <1>3

LEMMA WorldShows ==
  ASSUME WorkInv, StreamInv, UNCHANGED relay, TimePasses \/ CollectTimer \/ Kernel \/ Server
  PROVE  WorkInv' /\ Shows
<1>1. WorkOK(conn) BY DEF WorkInv
<1>2. WorkOK(conn') /\ Outside(conn, conn')
  BY <1>1, TimeWorks, KernelWorks, ServerWorks, ClockShows, KernelShows, ServerShows
<1> QED BY <1>2, RelayKept, OutsideShows

LEMMA StreamsShow ==
  ASSUME WorkInv, StreamInv,
         \/ StreamCalls \/ Relaying \/ Elsewhere \/ DestFull \/ DestFails \/ FromFails
         \/ CanSplice \/ CanWrite \/ BarrierWait \/ BarrierResumes
  PROVE  WorkInv' /\ Shows
<1>1. CASE StreamSpliceData \/ WriteTee \/ WriteSplice \/ WriteRequestDataBarrier
  <2>1. WorkInv' /\ \E c : Follows(c) /\ Goes(c, conn') BY <1>1, CallsSplice, CallsWrite
  <2>2. conn.call = "none"
    BY <1>1 DEF StreamSpliceData, WriteTee, WriteSplice, WriteRequestDataBarrier, Building
  <2> QED BY <2>1, <2>2, FollowsProceeds DEF Shows
<1>2. CASE SpliceIn BY <1>2, SpliceInWorks, FollowsProceeds DEF Shows
<1>3. CASE HasRoom \/ BarrierDone
  <2>1. WorkInv' /\ \E c : Follows(c) /\ Goes(c, conn') BY <1>3, HasRoomWorks, BarrierDoneWorks
  <2>2. conn.call # "splice"
    <3>1. WorkOK(conn) BY DEF WorkInv
    <3>2. Place(conn.op, conn, Holds(conn, "ok")) BY <3>1, WorkIs
    <3>3. conn.op \in {"room", "barrier"} BY <1>3 DEF HasRoom, BarrierDone, Completes
    <3> QED BY <3>2, <3>3, Zenon DEF Place, AtRoom, AtBarrier
  <2> QED BY <2>1, <2>2, FollowsProceeds DEF Shows
<1>4. CASE DestTakesBuffer \/ DestFull \/ DestTakes \/ DestFails
  BY <1>4, DestWorks, FollowsProceeds DEF Shows
<1>5. CASE FromMeetsError \/ FromFails \/ FromMoves
  <2>1. other = "from" BY <1>5 DEF FromMeetsError, FromFails, FromMoves
  <2>2. conn.call \in {"tee", "wsplice"} BY <2>1, WaitsElsewhere
  <2>3. WorkInv' /\ ((\E c : Follows(c) /\ Goes(c, conn')) \/ Passed(conn, conn'))
    BY <1>5, FromEnds, FromMovesWorks DEF Passed
  <2> QED BY <2>2, <2>3, FollowsProceeds DEF Shows
<1>6. CASE CanSplice \/ CanWrite
  <2>1. WorkInv' /\ Agree(conn, conn', {"queue"}) BY <1>6, CanWorks
  <2>2. Agree(conn, conn', {"timer", "queue", "cause"}) BY <2>1, AgreeMore
  <2> QED BY <2>1, <2>2, OutsideIs, OutsideShows
<1>7. CASE BarrierWait \/ BarrierResumes
  <2>1. WorkInv' /\ (conn' = conn \/ (Follows(conn) /\ Goes(conn, conn')))
    BY <1>7, BarrierWaitWorks
  <2>2. CASE conn' = conn
    <3>1. Agree(conn, conn', {"timer", "queue", "cause"}) BY <2>2 DEF Agree
    <3> QED BY <2>1, <3>1, OutsideIs, OutsideShows
  <2>3. CASE Follows(conn) /\ Goes(conn, conn')
    <3>1. conn.call # "splice"
      <4>1. conn.call = "barrier"
        <5>1. other = "resume" => conn.call = "barrier" BY WaitsElsewhere
        <5> QED BY <1>7, <5>1 DEF BarrierWait, BarrierResumes
      <4> QED BY <4>1
    <3> QED BY <2>1, <2>3, <3>1, FollowsProceeds DEF Shows
  <2> QED BY <2>1, <2>2, <2>3
<1> QED BY <1>1, <1>2, <1>3, <1>4, <1>5, <1>6, <1>7 DEF StreamCalls, Relaying, Elsewhere

LEMMA WorkStart == ASSUME StreamInit PROVE WorkInv
<1>1. conn = NewConn /\ pipe = 0 /\ other = "none" /\ got_done = "none" /\ is_suspended = FALSE
  BY DEF StreamInit, Init
<1>2. WorkOK(conn) BY <1>1, NewConnWorks
<1>3. conn.left = 0 BY <1>1 DEF NewConn
<1>4. pipe \in Nat /\ pipe + conn.left <= MaxBody /\ ~(pipe > 0) BY <1>1, <1>3, Bounds
<1>5. got_done = "none" /\ other = "none" /\ is_suspended \in BOOLEAN BY <1>1, Zenon
<1>6. RelayOK BY <1>4, <1>5 DEF RelayOK
<1> QED BY <1>2, <1>6 DEF WorkInv

LEMMA WorkStep ==
  ASSUME WorkInv, StreamInv, [StreamNext]_svars
  PROVE  WorkInv' /\ Shows
<1>1. CASE UNCHANGED svars
  <2>1. conn' = conn BY <1>1 DEF svars
  <2>2. Agree(conn, conn', {"timer", "queue", "cause"}) BY <2>1 DEF Agree
  <2>3. WorkInv' BY <1>1 DEF svars, WorkInv, RelayOK
  <2> QED BY <2>2, <2>3, OutsideIs, OutsideShows
<1>2. CASE Next /\ UNCHANGED relay
  BY <1>2, UserShows, RunShows, WorldShows DEF Next
<1>3. CASE StreamNext /\ ~(Next /\ UNCHANGED relay)
  BY <1>3, StreamsShow DEF StreamNext
<1> QED BY <1>1, <1>2, <1>3

LEMMA WorkInvariant == StreamSpec => [](StreamInv /\ WorkInv)
<1>1. StreamInit => StreamInv /\ WorkInv BY StreamStart, WorkStart
<1>2. StreamInv /\ WorkInv /\ [StreamNext]_svars => (StreamInv /\ WorkInv)'
  BY StreamStep, WorkStep
<1> QED BY <1>1, <1>2, PTL DEF StreamSpec

(***************************************************************************)
(* The exchange that the caller sees.                                      *)
(***************************************************************************)
AskingOf(c) == c.call \in AskingCalls \/ (c.call = "none" /\ c.outcome = "building")
AnsweredOf(c) == ~AskingOf(c) /\ c.outcome = "answered"

LEMMA ExchangeIs ==
  /\ Asking = AskingOf(conn) /\ (~Asking /\ conn.outcome = "answered") = AnsweredOf(conn)
  /\ Asking' = AskingOf(conn')
  /\ (~Asking /\ conn.outcome = "answered")' = AnsweredOf(conn')
  BY DEF Asking, AskingOf, AnsweredOf, AskingCalls

LEMMA AskingBoolean ==
  ASSUME NEW c PROVE AskingOf(c) \in BOOLEAN /\ AnsweredOf(c) \in BOOLEAN
  BY Zenon DEF AskingOf, AnsweredOf

\* Whether the caller asks, and whether it has been answered, do not change.
SameAsking(c, d) == AskingOf(d) = AskingOf(c) /\ AnsweredOf(d) = AnsweredOf(c)

\* The steps of the exchange.
LEMMA ExchangeSteps ==
  LET c == conn
      d == conn'
  IN  /\ (SameAsking(c, d) /\ Untold(c, d))
           => UNCHANGED Exchange!exchange
      /\ (~AskingOf(c) /\ AskingOf(d) /\ d.served = 0 /\ (d.reply = "none" \/ (c.reply = "foul" /\ d.reply = "foul")))
           => Exchange!Begin
      /\ (AskingOf(c) /\ SameAsking(c, d) /\ c.reply = "none" /\ c.served = 0 /\ d.reply = "asked" /\ d.served \in {0, 1})
           => Exchange!Ask
      /\ (AskingOf(c) /\ SameAsking(c, d) /\ c.reply # "none" /\ c.served = 0 /\ d.served = 1 /\ d.reply = c.reply)
           => Exchange!Receive
      /\ (SameAsking(c, d) /\ c.reply = "asked" /\ d.reply = "given" /\ d.served = c.served)
           => Exchange!Give
      /\ (SameAsking(c, d) /\ d.reply = "none" /\ d.served = c.served)
           => Exchange!Lose
      /\ (AskingOf(c) /\ c.reply \in Given /\ AnsweredOf(d) /\ Untold(c, d))
           => Exchange!Return
      /\ (AskingOf(c) /\ ~AskingOf(d) /\ ~AnsweredOf(d) /\ d.reply \in {c.reply, "foul"} /\ d.served = c.served)
           => Exchange!Fail
      /\ (~AskingOf(c) /\ ~AskingOf(d) /\ (AnsweredOf(d) => c.reply \in Given)
                 /\ d.reply \in {c.reply, "none"} /\ d.served \in {c.served, 0})
           => Exchange!Rest
<1> DEFINE c == conn
           d == conn'
<1>1. ASSUME SameAsking(c, d) /\ Untold(c, d)
      PROVE  UNCHANGED Exchange!exchange
  BY <1>1, ExchangeIs, AskingBoolean DEF SameAsking, AnsweredOf, Untold, Exchange!exchange
<1>2. ASSUME ~AskingOf(c) /\ AskingOf(d) /\ d.served = 0 /\ (d.reply = "none" \/ (c.reply = "foul" /\ d.reply = "foul"))
      PROVE  Exchange!Begin
  BY <1>2, ExchangeIs, AskingBoolean DEF SameAsking, AnsweredOf, Untold, Exchange!Begin
<1>3. ASSUME AskingOf(c) /\ SameAsking(c, d) /\ c.reply = "none" /\ c.served = 0 /\ d.reply = "asked" /\ d.served \in {0, 1}
      PROVE  Exchange!Ask
  BY <1>3, ExchangeIs, AskingBoolean DEF SameAsking, AnsweredOf, Untold, Exchange!Ask
<1>4. ASSUME AskingOf(c) /\ SameAsking(c, d) /\ c.reply # "none" /\ c.served = 0 /\ d.served = 1 /\ d.reply = c.reply
      PROVE  Exchange!Receive
  BY <1>4, ExchangeIs, AskingBoolean DEF SameAsking, AnsweredOf, Untold, Exchange!Receive
<1>5. ASSUME SameAsking(c, d) /\ c.reply = "asked" /\ d.reply = "given" /\ d.served = c.served
      PROVE  Exchange!Give
  BY <1>5, ExchangeIs, AskingBoolean DEF SameAsking, AnsweredOf, Untold, Exchange!Give
<1>6. ASSUME SameAsking(c, d) /\ d.reply = "none" /\ d.served = c.served
      PROVE  Exchange!Lose
  BY <1>6, ExchangeIs, AskingBoolean DEF SameAsking, AnsweredOf, Untold, Exchange!Lose
<1>7. ASSUME AskingOf(c) /\ c.reply \in Given /\ AnsweredOf(d) /\ Untold(c, d)
      PROVE  Exchange!Return
  BY <1>7, ExchangeIs, AskingBoolean DEF SameAsking, AnsweredOf, Untold, Given, Exchange!Return
<1>8. ASSUME AskingOf(c) /\ ~AskingOf(d) /\ ~AnsweredOf(d) /\ d.reply \in {c.reply, "foul"} /\ d.served = c.served
      PROVE  Exchange!Fail
  BY <1>8, ExchangeIs, AskingBoolean DEF SameAsking, AnsweredOf, Untold, Exchange!Fail
<1>9. ASSUME ~AskingOf(c) /\ ~AskingOf(d) /\ (AnsweredOf(d) => c.reply \in Given)
                 /\ d.reply \in {c.reply, "none"} /\ d.served \in {c.served, 0}
      PROVE  Exchange!Rest
  BY <1>9, ExchangeIs, AskingBoolean DEF SameAsking, AnsweredOf, Untold, Given, Exchange!Rest
<1> QED BY <1>1, <1>2, <1>3, <1>4, <1>5, <1>6, <1>7, <1>8, <1>9

\* While a call runs it has no outcome.
LEMMA NotAnswered ==
  ASSUME NEW c, WorkOK(c)
  PROVE  /\ c.call # "none" => c.outcome = "none" /\ ~AnsweredOf(c)
         /\ AskingOf(c) => ~AnsweredOf(c)
         /\ c.call = "none" => (AskingOf(c) <=> c.outcome = "building")
         /\ c.call # "none" => (AskingOf(c) <=> c.call \in AskingCalls)
<1>1. Request(c) BY WorkIs
<1>2. "none" \notin AskingCalls BY DEF AskingCalls
<1>3. c.call # "none" => c.outcome = "none" BY <1>1 DEF Request
<1> QED BY <1>2, <1>3 DEF AskingOf, AnsweredOf

Exchanges == Exchange!Next \/ UNCHANGED Exchange!exchange

LEMMA OutsideExchanges ==
  ASSUME WorkOK(conn), WorkOK(conn'), Outside(conn, conn')
  PROVE  Exchanges
<1> DEFINE c == conn
           d == conn'
<1>1. Seen(c, d) /\ Told(c, d) BY DEF Outside
<1>2. SameAsking(c, d) BY <1>1 DEF Seen, SameAsking, AskingOf, AnsweredOf
<1>3. c.call \in AskingCalls => AskingOf(c) BY DEF AskingOf
<1>4. CASE Untold(c, d) BY <1>2, <1>4, ExchangeSteps DEF Exchanges
<1>5. CASE /\ c.call \in AskingCalls /\ c.served = 0 /\ c.reply = "none"
           /\ d.served \in {0, 1} /\ d.reply = "asked"
  BY <1>2, <1>3, <1>5, ExchangeSteps DEF Exchanges, Exchange!Next
<1>6. CASE /\ c.call \in AskingCalls /\ c.served = 0 /\ c.reply # "none"
           /\ d.served = 1 /\ d.reply = c.reply
  BY <1>2, <1>3, <1>6, ExchangeSteps DEF Exchanges, Exchange!Next
<1>7. CASE c.reply = "asked" /\ d.reply = "given" /\ d.served = c.served
  BY <1>2, <1>7, ExchangeSteps DEF Exchanges, Exchange!Next
<1> QED BY <1>1, <1>4, <1>5, <1>6, <1>7 DEF Told

\* A call goes on from b.
LEMMA ProceedExchanges ==
  ASSUME WorkOK(conn), NEW b, Proceeds(b), Goes(b, conn')
  PROVE  Exchanges
<1> DEFINE c == conn
           d == conn'
<1>1. /\ WorkOK(d) /\ d.served = c.served /\ b.call \notin {"none", "gone"}
      /\ b.reply = c.reply /\ (b.call = c.call \/ WentOn(b)) /\ Moves(b, d)
  BY DEF Proceeds, Goes, Moves
<1>2. AskingOf(c) <=> b.call \in AskingCalls
  <2>1. CASE b.call = c.call BY <1>1, <2>1, NotAnswered
  <2>2. CASE WentOn(b)
    <3>1. Continuing \subseteq AskingCalls /\ \A call \in Reading : call \notin AskingCalls
      BY DEF Continuing, AskingCalls, Reading
    <3>2. AskingOf(c) <=> c.outcome = "building" BY <2>2, NotAnswered DEF WentOn
    <3> QED BY <2>2, <3>1, <3>2 DEF WentOn
  <2> QED BY <1>1, <2>1, <2>2
<1> HIDE DEF c, d
<1>3. CASE d.call = b.call /\ d.outcome = "none" /\ d.reply \in {b.reply, "none"}
  <2>1. ~AnsweredOf(d) /\ (AskingOf(d) <=> AskingOf(c)) BY <1>1, <1>2, <1>3, NotAnswered
  <2>2. CASE AskingOf(c)
    <3>1. ~AnsweredOf(c) BY <2>2, NotAnswered DEF c
    <3>2. SameAsking(c, d) BY <2>1, <3>1, AskingBoolean DEF SameAsking
    <3>3. CASE d.reply = c.reply
      BY <1>1, <3>2, <3>3, ExchangeSteps DEF Exchanges, Untold, c, d
    <3>4. CASE d.reply = "none"
      BY <1>1, <3>2, <3>4, ExchangeSteps DEF Exchanges, Exchange!Next, c, d
    <3> QED BY <1>1, <1>3, <3>3, <3>4
  <2>3. CASE ~AskingOf(c)
    BY <1>1, <1>3, <2>1, <2>3, ExchangeSteps DEF Exchanges, Exchange!Next, c, d
  <2> QED BY <2>2, <2>3
<1>4. CASE d.call = "none" /\ d.reply = b.reply
           /\ d.outcome \in {"building", "answered", "connected", "unforwarded"}
  <2>1. Untold(c, d) BY <1>1, <1>4 DEF Untold
  <2>2. AskingOf(d) <=> d.outcome = "building" BY <1>1, <1>4, NotAnswered
  <2>3. AnsweredOf(d) => d.outcome = "answered" BY DEF AnsweredOf
  <2>4. CASE d.outcome \in {"connected", "unforwarded"}
    <3>1. ~AskingOf(d) /\ ~AnsweredOf(d) BY <2>2, <2>3, <2>4
    <3> QED BY <1>1, <2>1, <3>1, ExchangeSteps DEF Exchanges, Exchange!Next, Untold, c, d
  <2>5. CASE d.outcome = "building" /\ b.call \in {"headers", "data", "tee", "wsplice", "barrier"}
    <3>1. AskingOf(d) /\ AskingOf(c) BY <1>2, <2>2, <2>5 DEF AskingCalls
    <3>2. SameAsking(c, d)
      BY <1>1, <3>1, NotAnswered, AskingBoolean DEF SameAsking, c
    <3> QED BY <2>1, <3>2, ExchangeSteps DEF Exchanges, c, d
  <2>6. CASE d.outcome = "answered" /\ d.reply \in Given
    <3>1. ~AskingOf(d) /\ AnsweredOf(d) BY <2>2, <2>6 DEF AnsweredOf
    <3>2. c.reply \in Given BY <1>1, <1>4, <2>6
    <3> QED BY <2>1, <3>1, <3>2, ExchangeSteps DEF Exchanges, Exchange!Next, Untold, c, d
  <2> QED BY <1>1, <1>4, <2>4, <2>5, <2>6 DEF Moves, Errors
<1>5. CASE /\ d.call = "none" /\ d.outcome \in Errors
           /\ d.reply = b.reply \/ (d.reply = "foul" /\ MayFoul(b.call, b.reply))
  <2>1. d.outcome # "building" /\ d.outcome # "answered" BY <1>5 DEF Errors
  <2>2. ~AskingOf(d) /\ ~AnsweredOf(d) BY <1>1, <1>5, <2>1, NotAnswered DEF AnsweredOf
  <2>3. MayFoul(b.call, b.reply) => AskingOf(c) BY <1>2 DEF MayFoul, AskingCalls
  <2>4. CASE AskingOf(c)
    <3>1. d.reply \in {c.reply, "foul"} BY <1>1, <1>5
    <3> QED BY <1>1, <2>2, <2>4, <3>1, ExchangeSteps DEF Exchanges, Exchange!Next, c, d
  <2>5. CASE ~AskingOf(c)
    <3>1. d.reply = c.reply BY <1>1, <1>5, <2>3, <2>5
    <3> QED BY <1>1, <2>2, <2>5, <3>1, ExchangeSteps DEF Exchanges, Exchange!Next, c, d
  <2> QED BY <2>4, <2>5
<1> QED BY <1>1, <1>3, <1>4, <1>5, ZenonT(60) DEF Moves

\* A request, or a connection, is begun.
LEMMA BeginExchanges ==
  ASSUME WorkOK(conn), NEW b, Began(b), Goes(b, conn')
  PROVE  Exchanges
<1> DEFINE c == conn
           d == conn'
<1>1. /\ WorkOK(d) /\ d.served = 0 /\ b.call \in Beginning /\ Moves(b, d)
      /\ b.reply = "none" \/ (b.reply = "foul" /\ c.reply = "foul")
      /\ c.call = "none" /\ c.outcome # "building"
  BY DEF Began, Goes, Moves, Anew
<1>2. ~AskingOf(c) BY <1>1, NotAnswered
<1> HIDE DEF c, d
<1>3. d.reply = "none" \/ (c.reply = "foul" /\ d.reply = "foul")
  BY <1>1 DEF Moves, MayFoul, Beginning
<1>4. CASE AskingOf(d) BY <1>1, <1>2, <1>3, <1>4, ExchangeSteps DEF Exchanges, Exchange!Next, c, d
<1>5. CASE ~AskingOf(d)
  <2>1. d.outcome = "answered" => c.reply \in Given
    <3>1. Request(d) BY <1>1, WorkIs
    <3> QED BY <1>3, <3>1 DEF Request, Given
  <2>2. AnsweredOf(d) => c.reply \in Given BY <2>1 DEF AnsweredOf
  <2> QED BY <1>1, <1>2, <1>3, <1>5, <2>2, ExchangeSteps DEF Exchanges, Exchange!Next, c, d
<1> QED BY <1>4, <1>5

LEMMA LeaveExchanges ==
  ASSUME WorkOK(conn), WorkOK(conn'), LeftFor(conn, conn')
  PROVE  Exchanges
<1> DEFINE c == conn
           d == conn'
<1>1. ~AskingOf(d) /\ ~AnsweredOf(d)
  BY DEF LeftFor, AskingOf, AnsweredOf, AskingCalls
<1>2. CASE Untold(c, d)
  BY <1>1, <1>2, ExchangeSteps DEF Exchanges, Exchange!Next, Untold
<1>3. CASE c.call = "gone" /\ d.reply = "none" /\ d.served = 0
  <2>1. ~AskingOf(c) BY <1>3 DEF AskingOf, AskingCalls
  <2> QED BY <1>1, <1>3, <2>1, ExchangeSteps DEF Exchanges, Exchange!Next
<1> QED BY <1>2, <1>3 DEF LeftFor

LEMMA PassExchanges ==
  ASSUME WorkOK(conn), WorkOK(conn'), Passed(conn, conn')
  PROVE  Exchanges
<1>1. AskingOf(conn) /\ AskingOf(conn') BY DEF Passed, AskingOf, AskingCalls
<1>2. SameAsking(conn, conn') BY <1>1, NotAnswered, AskingBoolean DEF SameAsking
<1> QED BY <1>1, <1>2, ExchangeSteps DEF Passed, Exchanges, Exchange!Next

LEMMA WasThereExchanges ==
  ASSUME WorkOK(conn), WorkOK(conn'), WasThere(conn, conn')
  PROVE  Exchanges
<1>1. ~AskingOf(conn) BY NotAnswered DEF WasThere
<1>2. ~AskingOf(conn') BY NotAnswered DEF WasThere
<1> QED BY <1>1, <1>2, ExchangeSteps DEF WasThere, Untold, Exchanges, Exchange!Next

LEMMA StepExchanges ==
  ASSUME WorkInv, StreamInv, [StreamNext]_svars
  PROVE  Exchanges
<1>1. WorkOK(conn) /\ WorkOK(conn') /\ Shows BY WorkStep DEF WorkInv
<1> QED BY <1>1, OutsideExchanges, ProceedExchanges, BeginExchanges, LeaveExchanges,
           WasThereExchanges, PassExchanges DEF Shows

-------------------------------------------------------------------------------
(***************************************************************************)
(* What the caller may rely on.                                            *)
(***************************************************************************)
\* The server gets the whole of a request at most once, for any number of
\* attempts, of chunks and of connections that break between them: writeRequest()
\* and DoPostRequest() try again only what cannot have arrived (http_conn.cpp:236,
\* :181).
THEOREM RequestArrivesOnce == StreamSpec => []AtMostOnce
<1>1. WorkInv => AtMostOnce
  <2> SUFFICES ASSUME WorkInv PROVE AtMostOnce OBVIOUS
  <2>1. Request(conn) BY WorkIs DEF WorkInv
  <2> QED BY <2>1 DEF Request, AtMostOnce
<1> QED BY <1>1, WorkInvariant, PTL

\* The coroutine waits for the head of an answer only while one is owed, unless
\* the POST was ended by a NULL (http_conn.cpp:264).
THEOREM WaitsForOwedAnswer == StreamSpec => []AnswerIsOwed
<1>1. WorkInv => AnswerIsOwed
  <2> SUFFICES ASSUME WorkInv, conn.op = "head", Pending(conn), conn.sock = "alive"
               PROVE  Owed \/ conn.null
    BY DEF AnswerIsOwed
  <2>1. Place(conn.op, conn, FALSE) BY WorkIs DEF WorkInv
  <2>2. AtHead(conn, FALSE) BY <2>1, Zenon DEF Place
  <2>3. Unread(conn) \/ Again(conn) BY <2>2, Zenon DEF AtHead
  <2> QED BY <2>3 DEF Unread, Again, Owed
<1> QED BY <1>1, WorkInvariant, PTL

\* No request is written on a connection that still owes, or still holds, a part
\* of an earlier answer: whatever leaves one there closes the connection or has
\* it read to its end first (http_conn.cpp:119, :129, :311).  The exceptions are
\* those of WriteTee(), WriteSplice() and of a head that cannot be parsed (:534,
\* :548, :295), which leave the connection foul: nothing else does.
THEOREM ReusedConnectionClean == StreamSpec => []CleanReuse
<1>1. WorkInv => CleanReuse
  <2> SUFFICES ASSUME WorkInv, conn.op = "write", Pending(conn), conn.sock = "alive"
               PROVE  Clean(conn)
    BY DEF CleanReuse, Clean
  <2>1. Place(conn.op, conn, FALSE) BY WorkIs DEF WorkInv
  <2>2. AtWrite(conn, FALSE) BY <2>1, Zenon DEF Place
  <2>3. CleanIfUp(conn) BY <2>2, Zenon DEF AtWrite
  <2> QED BY <2>3 DEF CleanIfUp, Up
<1> QED BY <1>1, WorkInvariant, PTL

\* A call throws only for a reason: something has failed, or a timer has run out,
\* since it began; or the connection it was begun on had been shut by the server,
\* or left foul by an earlier call.  A stale timeout, or a socket that was reset,
\* refused or closed before, makes none fail (http_conn.cpp:119, :82, :256).
THEOREM FailureHasCause == StreamSpec => []Recovers
<1>1. WorkInv => Recovers
  <2> SUFFICES ASSUME WorkInv PROVE Recovers OBVIOUS
  <2>1. Request(conn) BY WorkIs DEF WorkInv
  <2> QED BY <2>1 DEF Request, Recovers
<1> QED BY <1>1, WorkInvariant, PTL

\* The state keeps its type; at most three handlers are ever queued.
THEOREM StreamsTyped == StreamSpec => []StreamTypeOK
<1>1. StreamInv /\ WorkInv => StreamTypeOK
  <2> SUFFICES ASSUME WorkInv PROVE StreamTypeOK OBVIOUS
  <2>1. WorkOK(conn) /\ RelayOK /\ Typed(conn) /\ IsRec(conn) /\ QueueOK(conn)
    BY WorkIs DEF WorkInv
  <2>2. Len(conn.queue) <= 3 BY <2>1, ShortQueue
  <2>3. TypeOK
    BY <2>1, <2>2, FieldTypes, SMT
    DEF TypeOK, IsRec, NewConn, Handlers, Calls, Ops, Outcomes, Answers, Socks, Replies,
        Causes
  <2>4. pipe \in 0 .. MaxBody
    <3>1. conn.left \in 0 .. MaxBody BY <2>1, FieldTypes
    <3> QED BY <2>1, <3>1, Bounds DEF RelayOK
  <2> QED BY <2>1, <2>3, <2>4 DEF StreamTypeOK, RelayOK
<1> QED BY <1>1, WorkInvariant, PTL

\* When StreamSpliceData() returns, the pipe is empty and dest has got the whole
\* body, however reading and writing took turns (http_conn.cpp:467).
THEOREM SpliceLeavesNothing == StreamSpec => SpliceForwardsAll
<1>1. WorkInv /\ StreamInv /\ [StreamNext]_svars
        => [conn.call = "splice" /\ conn'.outcome = "answered"
              => pipe' = 0 /\ conn'.left = 0]_svars
  BY WorkStep DEF Shows
<1> QED BY <1>1, WorkInvariant, PTL DEF StreamSpec, SpliceForwardsAll

\* With all its calls, retries, timeouts and failures the connection is an
\* exchange of HttpExchange for its caller: asked, perhaps again, but never once
\* the server has the whole request; an answer that is returned was given to this
\* request on this connection, or read from one that a call which threw had left
\* foul (http_conn.cpp:236, :181, :264).
THEOREM ConnIsExchange == StreamSpec => ImplementsExchange
<1>1. StreamInit => Exchange!Init
  <2> SUFFICES ASSUME conn = NewConn PROVE Exchange!Init BY DEF StreamInit, Init
  <2>1. conn.call = "none" /\ conn.outcome = "none" /\ conn.reply = "none" /\ conn.served = 0
    BY DEF NewConn
  <2> QED BY <2>1 DEF Exchange!Init, Asking
<1>2. WorkInv /\ StreamInv /\ [StreamNext]_svars => [Exchange!Next]_Exchange!exchange
  BY StepExchanges DEF Exchanges
<1> QED BY <1>1, <1>2, WorkInvariant, PTL DEF StreamSpec, ImplementsExchange, Exchange!Spec
================================================================================
